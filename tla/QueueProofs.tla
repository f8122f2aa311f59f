------------------------------ MODULE QueueProofs ------------------------------
(***************************************************************************)
(* The queue of a session.                                                 *)
(*                                                                         *)
(* It keeps moving (NothingLeftBehind): as long as a session can be        *)
(* reached and something may be sent to it, there is somebody left who     *)
(* will look at its queue.  That is either a call that has yet to notify   *)
(* the dispatcher, or a drain queued behind another or about to look, or   *)
(* one that has looked and found all there is now.                         *)
(*                                                                         *)
(* Under the turns the SQLite adapter keeps, a busy mark stands for a job  *)
(* in flight (MarksMeanFlights), and for one that was written to the       *)
(* session or was in flight when the process started                       *)
(* (MarksMeanWrittenJobs); and serial jobs leave in the order they were    *)
(* submitted (SerialJobsInOrder).                                          *)
(*                                                                         *)
(* Whatever the turns, of a session whose jobs are serial and were written *)
(* to it, one is in flight at a time (OneJobAtATime): from its claim to    *)
(* the moment its finisher settles something holds the session, first the  *)
(* drain, then the mark.                                                   *)
(***************************************************************************)
EXTENDS DeliveryProofs, WellFoundedInduction, FiniteSetTheorems

LEMMA LeastNat ==
    ASSUME NEW T, T \subseteq Nat, T # {}
    PROVE  \E x \in T : \A y \in T : x <= y
  <1>1. PICK x \in T : \A y \in T : ~(<<y, x>> \in OpToRel(<, Nat))
    BY NatLessThanWellFounded, WFMin
  <1>2. \A y \in T : ~(y < x)
    BY <1>1 DEF OpToRel
  <1> QED
    BY <1>2

(* A drain that finds a job it may send picks one: there is a first by        *)
(* priority and then by age, however many rows there are.                     *)
LEMMA PickSome ==
    ASSUME StoreTypeOK, NEW s, NEW found, found \subseteq DOMAIN jobs,
           Dispatchable(s, found) # {}
    PROVE  Pick(s, found) # {}
  <1> DEFINE D == Dispatchable(s, found)
             P == {jobs[j].priority : j \in D}
  <1>1. D \subseteq DOMAIN jobs /\ D \subseteq Nat
    BY JobAssumption DEF Dispatchable, StoreTypeOK
  <1>2. \A j \in D : jobs[j].priority \in Nat
    BY <1>1 DEF StoreTypeOK, Row, Priority
  <1>3. P \subseteq Nat /\ P # {}
    BY <1>2
  <1>4. PICK p \in P : \A q \in P : p <= q
    BY <1>3, LeastNat
  <1> DEFINE F == {j \in D : jobs[j].priority = p}
  <1>5. F \subseteq Nat /\ F # {}
    BY <1>1, <1>4
  <1>6. PICK f \in F : \A k \in F : f <= k
    BY <1>5, LeastNat
  <1>7. ASSUME NEW k \in D \ {f}
        PROVE  Before(f, k)
    <2>1. p <= jobs[k].priority /\ jobs[f].priority = p /\ jobs[k].priority \in Nat /\ p \in Nat
      BY <1>2, <1>3, <1>4
    <2>2. CASE jobs[k].priority = p
      BY <1>1, <1>6, <2>1, <2>2 DEF Before
    <2>3. CASE jobs[k].priority # p
      BY <2>1, <2>3 DEF Before
    <2> QED
      BY <2>2, <2>3
  <1> QED
    BY <1>6, <1>7 DEF Pick

-----------------------------------------------------------------------------
(* What a session waits for.                                                 *)

\* a's call will notify the dispatcher of s when it settles.
Finishes(a, s) == /\ calls[a].pc = "write" /\ calls[a].op \in FinishOp /\ calls[a].done
                  /\ jobs[calls[a].job].session = s

Inserts(a, s) == calls[a].pc = "insert" /\ jobs[calls[a].job].session = s

Notifier(s) == \E a \in Actor : Finishes(a, s) \/ Inserts(a, s)

\* What the next drain would find may not be sent.
Blocked(s) == \A j \in FindPending(s) : jobs[j].mode = "serial" /\ s \in busy

\* The drain under way has yet to look, or has seen all there is.
StillLooks(s) == \/ drain[s] = Resting
                 \/ drain[s].pc = "finding" /\ FindPending(s) \subseteq drain[s].found
                 \/ drain[s].pc = "claiming"
                 \/ drain[s].pc = "sending" /\ drain[s].written

WillLook(s) == chain[s] # << >> /\ (Len(chain[s]) > 1 \/ StillLooks(s))

Served(s) == running /\ IsAttached(s) /\ Reachable(s) =>
               Blocked(s) \/ Notifier(s) \/ WillLook(s)

\* A drain that fails to write leaves the queue to whoever connects the session.
FailsUnlinked(s) == drain[s].pc = "sending" /\ ~drain[s].written =>
                      ~linked[s] \/ Len(chain[s]) > 1

\* A process that is not running knows no session.
StoppedAlone(s) == ~running => ~IsAttached(s)

WakeInv == \A s \in Session : Served(s) /\ FailsUnlinked(s) /\ StoppedAlone(s)

LEMMA WakeSuffices == WakeInv => NoLostWakeup
  <1> SUFFICES ASSUME WakeInv, NEW s \in Session,
                      running, IsAttached(s), Reachable(s), ~Unfinished(s)
               PROVE  Blocked(s)
    BY DEF NoLostWakeup, Blocked
  <1>1. chain[s] = << >> /\ \A a \in Actor : calls[a] = Idle
    BY DEF Unfinished, Draining
  <1>2. ~WillLook(s) /\ ~Notifier(s)
    BY <1>1 DEF WillLook, Notifier, Finishes, Inserts, Idle
  <1> QED
    BY <1>2 DEF WakeInv, Served

-----------------------------------------------------------------------------
(* A query returns the same as long as no row of the session enters or        *)
(* leaves the queue.                                                          *)
SameQueue(s) == /\ FindPending(s)' = FindPending(s)
                /\ \A j \in FindPending(s) : jobs'[j].mode = jobs[j].mode

LEMMA QueueKept ==
    ASSUME RowsKept, NEW s,
           \A j \in DOMAIN jobs' : jobs'[j].session = s => j \in DOMAIN jobs,
           \A j \in DOMAIN jobs : jobs[j].session = s /\ jobs[j].status = "pending" =>
                                    jobs'[j].status = "pending"
    PROVE  SameQueue(s)
  <1>1. Pending(s)' = Pending(s)
    BY DEF Pending, RowsKept
  <1>2. \A j, k \in Pending(s) : Before(k, j)' <=> Before(k, j)
    BY DEF Pending, Before, RowsKept
  <1>3. ASSUME NEW j \in Pending(s)
        PROVE  {k \in Pending(s)' : Before(k, j)'} = {k \in Pending(s) : Before(k, j)}
    BY <1>1, <1>2
  <1>4. FindPending(s)' = FindPending(s)
    BY <1>1, <1>3 DEF FindPending
  <1>5. \A j \in FindPending(s) : jobs'[j].mode = jobs[j].mode
    BY FoundArePending DEF RowsKept
  <1> QED
    BY <1>4, <1>5 DEF SameQueue

LEMMA QueueUnchanged ==
    ASSUME UNCHANGED jobs, NEW s
    PROVE  SameQueue(s)
  BY QueueKept, TableUnchanged DEF TableStep

(* A step that leaves s's drains alone, and takes no notification away.       *)
Undisturbed(s) == /\ running' = running
                  /\ registry'[s] = "attached" => registry[s] = "attached"
                  /\ linked'[s] => linked[s]
                  /\ chain'[s] = chain[s] /\ drain'[s] = drain[s]
                  /\ s \in busy => s \in busy'
                  /\ SameQueue(s)
                  /\ Notifier(s) => Notifier(s)'

LEMMA UndisturbedServed ==
    ASSUME NEW s \in Session, Served(s), FailsUnlinked(s), StoppedAlone(s), Undisturbed(s)
    PROVE  Served(s)' /\ FailsUnlinked(s)' /\ StoppedAlone(s)'
  <1>1. Blocked(s) => Blocked(s)'
    BY DEF Blocked, Undisturbed, SameQueue
  <1>2. WillLook(s) => WillLook(s)'
    BY DEF WillLook, StillLooks, Undisturbed, SameQueue
  <1>3. Served(s)'
    BY <1>1, <1>2 DEF Served, Undisturbed, IsAttached, Reachable
  <1>4. FailsUnlinked(s)'
    BY DEF FailsUnlinked, Undisturbed
  <1> QED
    BY <1>3, <1>4 DEF StoppedAlone, Undisturbed, IsAttached

(* A drain that is queued will look.                                          *)
LEMMA GrownLooks ==
    ASSUME Inv, NEW s \in Session, NEW w \in Waiter,
           chain'[s] = Append(chain[s], w), drain'[s] = drain[s]
    PROVE  WillLook(s)' /\ FailsUnlinked(s)'
  <1>1. chain[s] \in Seq(Waiter)
    BY DEF Inv, ServiceInv, DispatcherInv, DispatcherTypeOK
  <1>2. chain'[s] # << >> /\ (chain[s] # << >> => Len(chain'[s]) > 1)
    BY <1>1
  <1>3. drain[s] # Resting => chain[s] # << >>
    BY DEF Inv, ServiceInv, DispatcherInv, DrainHeadsChain
  <1>4. drain[s].pc = "sending" => drain[s] # Resting
    BY DEF Resting
  <1> QED
    BY <1>2, <1>3, <1>4 DEF WillLook, StillLooks, FailsUnlinked

(* A step that queues a drain for q serves q, and leaves the rest as it was.  *)
LEMMA NotifiedServed ==
    ASSUME Inv, WakeInv, NEW q \in Session, NEW w \in Waiter, running,
           chain' = RunForSession(q, w), UNCHANGED <<running, drain>>,
           \A s \in Session \ {q} : Undisturbed(s)
    PROVE  WakeInv'
  <1>1. chain \in [Session -> Seq(Waiter)]
    BY DEF Inv, ServiceInv, DispatcherInv, DispatcherTypeOK
  <1>2. chain'[q] = Append(chain[q], w)
    BY <1>1 DEF RunForSession
  <1>3. WillLook(q)' /\ FailsUnlinked(q)'
    BY <1>2, GrownLooks
  <1>4. Served(q)' /\ StoppedAlone(q)'
    BY <1>3 DEF Served, StoppedAlone
  <1>5. ASSUME NEW s \in Session, s # q
        PROVE  Served(s)' /\ FailsUnlinked(s)' /\ StoppedAlone(s)'
    BY <1>5, UndisturbedServed DEF WakeInv
  <1> QED
    BY <1>3, <1>4, <1>5 DEF WakeInv

LEMMA StoppedServed ==
    ASSUME WakeInv, ~running, UNCHANGED <<running, registry, linked, chain, drain>>
    PROVE  WakeInv'
  BY DEF WakeInv, Served, FailsUnlinked, StoppedAlone, IsAttached

-----------------------------------------------------------------------------
(* The calls.                                                                *)
LEMMA NotifierKept ==
    ASSUME Inv, RowsKept, NEW a \in Actor, NEW s,
           \A b \in Actor \ {a} : calls'[b] = calls[b],
           ~Finishes(a, s), ~Inserts(a, s)
    PROVE  Notifier(s) => Notifier(s)'
  <1>1. SUFFICES ASSUME NEW b \in Actor, Finishes(b, s) \/ Inserts(b, s)
                 PROVE  Finishes(b, s)' \/ Inserts(b, s)'
    BY DEF Notifier
  <1>2. calls'[b] = calls[b] /\ calls[b].pc # "idle"
    BY <1>1 DEF Finishes, Inserts
  <1>3. jobs'[calls[b].job].session = jobs[calls[b].job].session
    BY <1>2 DEF Inv, CalledRowThere, RowsKept
  <1> QED
    BY <1>1, <1>2, <1>3 DEF Finishes, Inserts

(* A call that reads a row notifies nobody yet.                               *)
LEMMA BeginServes ==
    ASSUME Inv, WakeInv, NEW a \in Actor, NEW op, NEW j, NEW add, Begin(a, op, j, add),
           UNCHANGED sessionVars
    PROVE  WakeInv'
  <1>1. \A s : ~Finishes(a, s) /\ ~Inserts(a, s)
    BY DEF Begin, Free, Idle, Finishes, Inserts
  <1>2. \A b \in Actor \ {a} : calls'[b] = calls[b]
    BY OthersKeepCalls DEF Begin
  <1>3. UNCHANGED <<jobs, dispatcherVars>> /\ RowsKept
    BY TableUnchanged DEF Begin, TableStep
  <1>4. \A s \in Session : Undisturbed(s)
    BY <1>1, <1>2, <1>3, NotifierKept, QueueUnchanged DEF Undisturbed, dispatcherVars, sessionVars
  <1> QED
    BY <1>4, UndisturbedServed DEF WakeInv

LEMMA RequestServes ==
    ASSUME Inv, WakeInv, NEW a \in Caller, Request(a)
    PROVE  WakeInv'
  <1>1. PICK j \in Job, q \in Session, kind \in Kind : Submit(a, j, q, kind)
    BY DEF Request
  <1>2. a \in Actor
    BY ActorAssumption
  <1>3. /\ UNCHANGED <<dispatcherVars, sessionVars>>
        /\ NewJob(j) /\ Insert(j, q, kind) /\ Free(a)
        /\ Becomes(a, [pc |-> "insert", job |-> j])
    BY <1>1 DEF Submit, Request
  <1>4. RowsKept /\ DOMAIN jobs' = DOMAIN jobs \cup {j}
    BY <1>3, InsertRow DEF Inv, ServiceInv
  <1>5. /\ jobs'[j].session = q
        /\ \A k \in DOMAIN jobs : jobs'[k] = jobs[k]
    BY <1>3 DEF Insert, NewJob
  <1>6. Inserts(a, q)'
    BY <1>2, <1>3, <1>5, OthersKeepCalls DEF Inserts
  <1>7. Served(q)' /\ FailsUnlinked(q)' /\ StoppedAlone(q)'
    BY <1>2, <1>3, <1>6 DEF WakeInv, Served, Notifier, FailsUnlinked, StoppedAlone, IsAttached,
       dispatcherVars, sessionVars
  <1>8. ASSUME NEW s \in Session, s # q
        PROVE  Undisturbed(s)
    <2>1. SameQueue(s)
      BY <1>4, <1>5, <1>8, QueueKept
    <2>2. ~Finishes(a, s) /\ ~Inserts(a, s)
      BY <1>3 DEF Free, Idle, Finishes, Inserts
    <2>3. Notifier(s) => Notifier(s)'
      BY <1>2, <1>3, <1>4, <2>2, OthersKeepCalls, NotifierKept
    <2> QED
      BY <1>3, <2>1, <2>3 DEF Undisturbed, dispatcherVars, sessionVars
  <1> QED
    BY <1>7, <1>8, UndisturbedServed DEF WakeInv

LEMMA SubmittedServes ==
    ASSUME Inv, WakeInv, NEW a \in Actor, Submitted(a), UNCHANGED sessionVars
    PROVE  WakeInv'
  <1> DEFINE q == jobs[calls[a].job].session
  <1>1. /\ chain' = RunForSession(q, a) /\ UNCHANGED <<jobs, running, busy, drain>>
        /\ calls[a].pc = "insert" /\ Ends(a)
    BY DEF Submitted, NotifyPending
  <1>2. q \in Session /\ a \in Waiter
    BY <1>1, RowStatus DEF Inv, ServiceInv, CalledRowThere, Waiter
  <1>3. RowsKept
    BY <1>1, TableUnchanged DEF TableStep
  <1>4. ASSUME NEW s \in Session, s # q
        PROVE  Undisturbed(s)
    <2>1. ~Finishes(a, s) /\ ~Inserts(a, s)
      BY <1>1, <1>4 DEF Finishes, Inserts
    <2>2. Notifier(s) => Notifier(s)'
      BY <1>1, <1>3, <2>1, OthersKeepCalls, NotifierKept DEF Ends
    <2>3. chain'[s] = chain[s]
      BY <1>1, <1>4 DEF RunForSession
    <2> QED
      BY <1>1, <2>2, <2>3, QueueUnchanged DEF Undisturbed, sessionVars
  <1>5. CASE running
    BY <1>1, <1>2, <1>4, <1>5, NotifiedServed
  <1>6. CASE ~running
    BY <1>1, <1>6, StoppedServed DEF RunForSession, sessionVars
  <1> QED
    BY <1>5, <1>6

LEMMA SettleServes ==
    ASSUME Inv, WakeInv, NEW a \in Actor, Settle(a), UNCHANGED sessionVars
    PROVE  WakeInv'
  <1> DEFINE q == jobs[calls[a].job].session
  <1>1. calls[a].pc = "write" /\ Ends(a) /\ UNCHANGED jobs
    BY DEF Settle
  <1>2. RowsKept
    BY <1>1, TableUnchanged DEF TableStep
  <1>3. ASSUME NEW s \in Session, ~Finishes(a, s)
        PROVE  Notifier(s) => Notifier(s)'
    <2>1. ~Inserts(a, s)
      BY <1>1 DEF Inserts
    <2> QED
      BY <1>1, <1>2, <1>3, <2>1, OthersKeepCalls, NotifierKept DEF Ends
  <1>4. CASE SettleFinish(a)
    <2>1. /\ chain' = RunForSession(q, a) /\ busy' = busy \ {q}
          /\ UNCHANGED <<running, drain>>
      BY <1>4 DEF SettleFinish, NotifyDone
    <2>2. q \in Session /\ a \in Waiter
      BY <1>1, RowStatus DEF Inv, ServiceInv, CalledRowThere, Waiter
    <2>3. ASSUME NEW s \in Session, s # q
          PROVE  Undisturbed(s)
      <3>1. ~Finishes(a, s)
        BY <2>3 DEF Finishes
      <3>2. chain'[s] = chain[s] /\ (s \in busy => s \in busy')
        BY <2>1, <2>3 DEF RunForSession
      <3> QED
        BY <1>1, <1>3, <2>1, <3>1, <3>2, QueueUnchanged DEF Undisturbed, sessionVars
    <2>4. CASE running
      BY <2>1, <2>2, <2>3, <2>4, NotifiedServed
    <2>5. CASE ~running
      BY <2>1, <2>5, StoppedServed DEF RunForSession, sessionVars
    <2> QED
      BY <2>4, <2>5
  <1>5. CASE SettleOther(a) \/ SettleLost(a)
    <2>1. UNCHANGED dispatcherVars /\ \A s : ~Finishes(a, s)
      BY <1>5 DEF SettleOther, SettleLost, Finishes
    <2>2. \A s \in Session : Undisturbed(s)
      BY <1>1, <1>3, <2>1, QueueUnchanged DEF Undisturbed, dispatcherVars, sessionVars
    <2> QED
      BY <2>2, UndisturbedServed DEF WakeInv
  <1> QED
    BY <1>4, <1>5 DEF Settle

LEMMA StatusKeepsQueue ==
    ASSUME RowsKept, DOMAIN jobs' = DOMAIN jobs, NEW s,
           \A k \in DOMAIN jobs : jobs[k].session = s /\ Status(k) = "pending" =>
                                    Status(k)' = "pending"
    PROVE  SameQueue(s)
  <1>1. \A k \in DOMAIN jobs : Status(k) = jobs[k].status /\ Status(k)' = jobs'[k].status
    BY DEF Status
  <1>2. \A k \in DOMAIN jobs : jobs[k].session = s /\ jobs[k].status = "pending" =>
                                 jobs'[k].status = "pending"
    BY <1>1
  <1> QED
    BY <1>2, QueueKept

(* Only a call that finishes a job takes it from the queue, and it notifies.  *)
LEMMA DecideQueue ==
    ASSUME Inv, NEW a \in Actor, Decide(a), NEW s \in Session
    PROVE  SameQueue(s) \/ Finishes(a, s)'
  <1> DEFINE c == calls[a]
  <1>1. /\ c.op \in GetOp /\ c.job \in Job /\ c.seen \in JobStatuses
        /\ c.notes \cup c.add \in SUBSET Note
    BY GetType DEF Decide, Inv, ServiceInv
  <1>2. CASE UNCHANGED jobs
    BY <1>2, QueueUnchanged
  <1>3. CASE Patch(c.job, c.notes \cup c.add)
    BY <1>1, <1>3, PatchRow, StatusKeepsQueue DEF Inv, ServiceInv
  <1>4. ASSUME NEW notes, Expected(c.job, c.seen) => notes \in SUBSET Note,
               c.seen = "dispatched",
               TransitionStatus(c.job, c.seen, "in_progress", notes)
        PROVE  SameQueue(s)
    <2>1. /\ RowsKept /\ DOMAIN jobs' = DOMAIN jobs
          /\ \/ \A k : Status(k)' = Status(k)
             \/ Status(c.job) = c.seen /\ \A k : k # c.job => Status(k)' = Status(k)
      BY <1>1, <1>4, TransitionRow DEF Inv, ServiceInv, JobStatuses, ActiveStatus
    <2> QED
      BY <1>4, <2>1, StatusKeepsQueue
  <1>5. CASE DecideFinish(a) /\ ~UNCHANGED jobs
    <2>1. /\ c.op \in FinishOp
          /\ TransitionStatus(c.job, c.seen, Target[c.op], jobs[c.job].notes)
          /\ Writes(a, Expected(c.job, c.seen))
          /\ Expected(c.job, c.seen)
      BY <1>5 DEF DecideFinish, TransitionStatus
    <2>2. /\ Target[c.op] \in JobStatuses /\ Target[c.op] # "pending"
          /\ jobs[c.job].notes \in SUBSET Note
      BY <1>1, <2>1, TargetType, SeenNotesTyped
         DEF Inv, ServiceInv, JobStatuses, TerminalStatus
    <2>3. /\ RowsKept /\ DOMAIN jobs' = DOMAIN jobs /\ c.job \in DOMAIN jobs
          /\ \A k : k # c.job => Status(k)' = Status(k)
      BY <1>1, <2>1, <2>2, TransitionRow DEF Inv, ServiceInv
    <2>4. CASE jobs[c.job].session # s
      BY <2>3, <2>4, StatusKeepsQueue
    <2>5. CASE jobs[c.job].session = s
      <3>1. /\ calls'[a].pc = "write" /\ calls'[a].op = c.op /\ calls'[a].job = c.job
            /\ calls'[a].done
        BY <2>1, OthersKeepCalls DEF Writes
      <3> QED
        BY <2>1, <2>3, <2>5, <3>1 DEF Finishes, RowsKept
    <2> QED
      BY <2>4, <2>5
  <1>6. Expected(c.job, c.seen) => jobs[c.job].notes \in SUBSET Note
    BY <1>1, SeenNotesTyped DEF Inv, ServiceInv
  <1>7. CASE DecideNote(a)
    BY <1>1, <1>2, <1>3, <1>4, <1>7 DEF DecideNote
  <1>8. CASE DecideAck(a)
    BY <1>2, <1>4, <1>6, <1>8 DEF DecideAck
  <1>9. CASE DecideComment(a)
    BY <1>2, <1>3, <1>9 DEF DecideComment
  <1> QED
    BY <1>2, <1>5, <1>7, <1>8, <1>9 DEF Decide

LEMMA PatchLostQueue ==
    ASSUME Inv, NEW a \in Actor, PatchLost(a), NEW s \in Session
    PROVE  SameQueue(s)
  <1>1. calls[a].notes \cup calls[a].add \in SUBSET Note
    BY GetType DEF PatchLost, Inv, ServiceInv
  <1> QED
    BY <1>1, PatchRow, StatusKeepsQueue DEF PatchLost, Inv, ServiceInv

LEMMA WriteServes ==
    ASSUME Inv, WakeInv, NEW a \in Actor, Decide(a) \/ PatchLost(a), UNCHANGED sessionVars
    PROVE  WakeInv'
  <1>1. UNCHANGED dispatcherVars /\ calls[a].pc \in {"get", "lost"}
    BY DEF Decide, PatchLost
  <1>2. RowsKept
    BY CallTableStep DEF CallStep, TableStep, Inv
  <1>3. \A b \in Actor \ {a} : calls'[b] = calls[b]
    BY OthersKeepCalls
       DEF Decide, DecideFinish, DecideNote, DecideAck, DecideComment, PatchLost, Writes, Ends
  <1>4. ASSUME NEW s \in Session, SameQueue(s)
        PROVE  Served(s)' /\ FailsUnlinked(s)' /\ StoppedAlone(s)'
    <2>1. ~Finishes(a, s) /\ ~Inserts(a, s)
      BY <1>1 DEF Finishes, Inserts
    <2>2. Undisturbed(s)
      BY <1>1, <1>2, <1>3, <1>4, <2>1, NotifierKept DEF Undisturbed, dispatcherVars, sessionVars
    <2> QED
      BY <2>2, UndisturbedServed DEF WakeInv
  <1>5. ASSUME NEW s \in Session, Finishes(a, s)'
        PROVE  Served(s)' /\ FailsUnlinked(s)' /\ StoppedAlone(s)'
    BY <1>1, <1>5 DEF WakeInv, Served, Notifier, FailsUnlinked, StoppedAlone, IsAttached,
       dispatcherVars, sessionVars
  <1> QED
    BY <1>4, <1>5, DecideQueue, PatchLostQueue DEF WakeInv

LEMMA WorkServes ==
    ASSUME Inv, WakeInv, NEW a \in Actor, Work(a)
    PROVE  WakeInv'
  BY SubmittedServes, SettleServes, WriteServes DEF Work, CallStep

-----------------------------------------------------------------------------
(* Sessions come and go.                                                     *)
LEMMA AttachServes ==
    ASSUME Inv, WakeInv, NEW q \in Session, Attach(q)
    PROVE  WakeInv'
  <1>1. /\ running /\ chain' = RunForSession(q, AttachEvent) /\ AttachEvent \in Waiter
        /\ UNCHANGED <<jobs, running, busy, drain, calls>>
    BY DEF Attach, Turn, NotifySessionAttached, Waiter, serviceVars
  <1>2. ASSUME NEW s \in Session, s # q
        PROVE  Undisturbed(s)
    <2>1. registry'[s] = registry[s] /\ linked'[s] = linked[s]
      BY <1>2 DEF Attach, AttachSession, AttachReplaced, RegisterIn, Inv, EventTypeOK,
         SessionTypeOK
    <2>2. chain'[s] = chain[s]
      BY <1>1, <1>2 DEF RunForSession
    <2> QED
      BY <1>1, <2>1, <2>2, QueueUnchanged
         DEF Undisturbed, Notifier, Finishes, Inserts
  <1> QED
    BY <1>1, <1>2, NotifiedServed

LEMMA GoneServes ==
    ASSUME Inv, WakeInv, UNCHANGED <<jobs, dispatcherVars, calls>>,
           \A s \in Session : /\ registry'[s] = "attached" => registry[s] = "attached"
                              /\ linked'[s] => linked[s]
    PROVE  WakeInv'
  <1>1. \A s \in Session : Undisturbed(s)
    BY QueueUnchanged DEF Undisturbed, Notifier, Finishes, Inserts, dispatcherVars
  <1> QED
    BY <1>1, UndisturbedServed DEF WakeInv

LEMMA DisconnectServes ==
    ASSUME Inv, WakeInv, NEW q \in Session, Disconnect(q)
    PROVE  WakeInv'
  <1>1. \A s \in Session : /\ registry'[s] = "attached" => registry[s] = "attached"
                           /\ linked'[s] => linked[s]
    BY DEF Disconnect, CloseConnection, DeleteSession, DetachIn, Inv, EventTypeOK, SessionTypeOK
  <1> QED
    BY <1>1, GoneServes DEF Disconnect, serviceVars

LEMMA SweepServes ==
    ASSUME Inv, WakeInv, NEW t \in Ticks, SweepStep(t)
    PROVE  WakeInv'
  <1>1. CASE TickStart(t)
    <2>1. \A s \in Session : registry'[s] = "attached" => registry[s] = "attached"
      BY <1>1 DEF TickStart, EvictStale, IsAttached
    <2>2. UNCHANGED linked
      BY <1>1 DEF TickStart, EvictStale
    <2> QED
      BY <1>1, <2>1, <2>2, GoneServes DEF TickStart, serviceVars
  <1>2. CASE ExpireNext(t) \/ OrphanNext(t)
    <2>1. t \in Actor
      BY ActorAssumption
    <2> QED
      BY <1>2, <2>1, BeginServes DEF ExpireNext, OrphanNext
  <1>3. CASE ListJobsInFlight(t) \/ TickEnd(t)
    BY <1>3, GoneServes DEF ListJobsInFlight, TickEnd, sessionVars, serviceVars
  <1> QED
    BY <1>1, <1>2, <1>3 DEF SweepStep

LEMMA ProcessServes ==
    ASSUME Inv, WakeInv, Crash \/ Restart
    PROVE  WakeInv'
  <1>1. CASE Crash
    BY <1>1 DEF Crash, Resting, WakeInv, Served, FailsUnlinked, StoppedAlone, IsAttached
  <1>2. CASE Restart
    <2>1. ~running /\ UNCHANGED <<registry, linked, chain, drain>>
      BY <1>2 DEF Restart, Start, sessionVars
    <2>2. \A s \in Session : ~IsAttached(s)'
      BY <2>1 DEF WakeInv, StoppedAlone, IsAttached
    <2> QED
      BY <2>1, <2>2 DEF WakeInv, Served, FailsUnlinked, StoppedAlone
  <1> QED
    BY <1>1, <1>2

-----------------------------------------------------------------------------
(* The drains.                                                               *)
LEMMA CallersKeepNotifier ==
    ASSUME Inv, RowsKept, UNCHANGED calls, NEW s
    PROVE  Notifier(s) => Notifier(s)'
  <1>1. \A a \in Actor : calls[a].pc # "idle" =>
          jobs'[calls[a].job].session = jobs[calls[a].job].session
    BY DEF Inv, CalledRowThere, RowsKept
  <1> QED
    BY <1>1 DEF Notifier, Finishes, Inserts

(* A drain leaves the other sessions alone.                                   *)
LEMMA DrainElsewhere ==
    ASSUME Inv, DeliveryInv, NEW q \in Session, Drain(q), NEW s \in Session, s # q
    PROVE  Undisturbed(s)
  <1>1. DrainStep(q) /\ UNCHANGED <<sessionVars, serviceVars>>
    BY DEF Drain
  <1>2. RowsKept
    BY <1>1, DrainTableStep DEF TableStep, Inv
  <1>3. drain \in [Session -> DrainState] /\ chain \in [Session -> Seq(Waiter)]
    BY DEF Inv, ServiceInv, DispatcherInv, DispatcherTypeOK
  <1>4. UNCHANGED running /\ chain'[s] = chain[s] /\ drain'[s] = drain[s]
    BY <1>1, <1>3 DEF DrainStep, StartDrain, Claim, Send, AfterSend, Loop, Return
  <1>5. s \in busy => s \in busy'
    BY <1>1 DEF DrainStep, StartDrain, Claim, Send, AfterSend
  <1>6. SameQueue(s)
    <2>1. CASE UNCHANGED jobs
      BY <2>1, QueueUnchanged
    <2>2. ASSUME NEW j \in Pick(q, drain[q].found), drain[q].pc = "finding",
                 TransitionStatus(j, "pending", "dispatched", jobs[j].notes)
          PROVE  SameQueue(s)
      <3>1. j \in DOMAIN jobs /\ jobs[j].session = q
        BY <2>2 DEF Pick, Dispatchable, DeliveryInv, FoundBelong
      <3>2. Expected(j, "pending") => jobs[j].notes \in SUBSET Note
        BY SeenNotesTyped DEF Inv, ServiceInv, JobStatuses, ActiveStatus
      <3>3. /\ DOMAIN jobs' = DOMAIN jobs
            /\ \A k : k # j => Status(k)' = Status(k)
        BY <2>2, <3>2, TransitionRow DEF Inv, ServiceInv, JobStatuses, ActiveStatus
      <3> QED
        BY <1>2, <3>1, <3>3, StatusKeepsQueue
    <2> QED
      BY <1>1, <2>1, <2>2 DEF DrainStep, StartDrain, Claim, Send, AfterSend
  <1> QED
    BY <1>1, <1>2, <1>4, <1>5, <1>6, CallersKeepNotifier
       DEF Undisturbed, sessionVars, serviceVars

LEMMA TailLeft ==
    ASSUME NEW S, NEW seq \in Seq(S), Len(seq) > 1
    PROVE  Tail(seq) # << >>
  <1>1. seq # << >>
    OBVIOUS
  <1>2. PICK rest \in Seq(S) : rest = Tail(seq) /\ Len(rest) = Len(seq) - 1
    BY <1>1, HeadTailProperties
  <1>3. PICK n \in Nat : n = Len(seq)
    BY LenProperties
  <1>4. Len(rest) = n - 1 /\ n > 1
    BY <1>2, <1>3
  <1>5. rest # << >>
    BY <1>4
  <1> QED
    BY <1>2, <1>5

LEMMA ReturnLooks ==
    ASSUME Inv, NEW s \in Session, Return(s)
    PROVE  /\ drain'[s] = Resting
           /\ Len(chain[s]) > 1 => WillLook(s)'
  <1>1. drain \in [Session -> DrainState] /\ chain \in [Session -> Seq(Waiter)]
    BY DEF Inv, ServiceInv, DispatcherInv, DispatcherTypeOK
  <1>2. drain'[s] = Resting /\ chain'[s] = Tail(chain[s])
    BY <1>1 DEF Return
  <1>3. chain[s] \in Seq(Waiter)
    BY <1>1
  <1>4. Len(chain[s]) > 1 => Tail(chain[s]) # << >>
    BY <1>3, TailLeft
  <1> QED
    BY <1>2, <1>4 DEF WillLook, StillLooks

LEMMA LoopLooks ==
    ASSUME Inv, NEW s \in Session, chain[s] # << >>, Loop(s), UNCHANGED <<jobs, running>>
    PROVE  /\ running => WillLook(s)'
           /\ drain'[s].pc \in {"resting", "finding"}
  <1>1. CASE ~running
    BY <1>1, ReturnLooks DEF Loop, Resting
  <1>2. CASE running
    <2>1. drain' = [drain EXCEPT ![s] = [pc |-> "finding", found |-> FindPending(s)]]
          /\ UNCHANGED chain
      BY <1>2 DEF Loop
    <2>2. drain'[s] = [pc |-> "finding", found |-> FindPending(s)]
      BY <2>1 DEF Inv, ServiceInv, DispatcherInv, DispatcherTypeOK
    <2>3. FindPending(s)' = FindPending(s)
      BY QueueUnchanged DEF SameQueue
    <2>4. FindPending(s)' \subseteq drain'[s].found
      BY <2>2, <2>3
    <2> QED
      BY <2>1, <2>2, <2>4 DEF WillLook, StillLooks
  <1> QED
    BY <1>1, <1>2

LEMMA StartDrainServes ==
    ASSUME Inv, WakeInv, NEW s \in Session, StartDrain(s), UNCHANGED <<sessionVars, calls>>
    PROVE  Served(s)' /\ FailsUnlinked(s)' /\ StoppedAlone(s)'
  <1>1. chain[s] # << >> /\ UNCHANGED <<jobs, running, busy>>
    BY DEF StartDrain, Draining
  <1>2. StoppedAlone(s)'
    BY <1>1 DEF WakeInv, StoppedAlone, IsAttached, sessionVars
  <1>3. CASE ~IsAttached(s)
    <2>1. drain'[s] = Resting /\ ~IsAttached(s)'
      BY <1>3, ReturnLooks DEF StartDrain, IsAttached, sessionVars
    <2> QED
      BY <1>2, <2>1 DEF Served, FailsUnlinked, Resting
  <1>4. CASE IsAttached(s)
    BY <1>1, <1>2, <1>4, LoopLooks DEF StartDrain, Served, FailsUnlinked
  <1> QED
    BY <1>3, <1>4

LEMMA ClaimServes ==
    ASSUME Inv, DeliveryInv, WakeInv, NEW s \in Session, Claim(s),
           UNCHANGED <<sessionVars, calls>>
    PROVE  Served(s)' /\ FailsUnlinked(s)' /\ StoppedAlone(s)'
  <1>1. drain[s].pc = "finding" /\ UNCHANGED <<running, busy>>
    BY DEF Claim
  <1>2. StoppedAlone(s)'
    BY <1>1 DEF WakeInv, StoppedAlone, IsAttached, sessionVars
  <1>3. chain[s] # << >>
    BY <1>1, FindingType DEF Inv, ServiceInv, DispatcherInv, DrainHeadsChain
  <1>4. CASE Pick(s, drain[s].found) = {} /\ Return(s) /\ UNCHANGED jobs
    <2>1. drain'[s] = Resting /\ (Len(chain[s]) > 1 => WillLook(s)')
      BY <1>4, ReturnLooks
    <2>2. drain[s].found \subseteq DOMAIN jobs
      BY <1>1 DEF DeliveryInv, FoundBelong
    <2>3. Dispatchable(s, drain[s].found) = {}
      BY <1>4, <2>2, PickSome DEF Inv, ServiceInv
    <2>4. FindPending(s) \subseteq drain[s].found => Blocked(s)
      BY <2>2, <2>3 DEF Dispatchable, Blocked, StoreTypeOK, Row, Mode, Inv, ServiceInv
    <2>5. Blocked(s) => Blocked(s)'
      BY <1>1, <1>4, QueueUnchanged DEF Blocked, SameQueue
    <2>6. Notifier(s) => Notifier(s)'
      BY <1>4, TableUnchanged, CallersKeepNotifier DEF TableStep
    <2>7. WillLook(s) => Len(chain[s]) > 1 \/ FindPending(s) \subseteq drain[s].found
      BY <1>1 DEF WillLook, StillLooks, Resting
    <2>8. Served(s)'
      BY <1>1, <2>1, <2>4, <2>5, <2>6, <2>7
         DEF WakeInv, Served, IsAttached, Reachable, sessionVars
    <2> QED
      BY <1>2, <2>1, <2>8 DEF FailsUnlinked, Resting
  <1>5. CASE \E j : /\ drain' = [drain EXCEPT ![s] = [pc |-> "claiming", job |-> j,
                                                      claimed |-> Expected(j, "pending")]]
                    /\ UNCHANGED chain
    <2>1. drain'[s].pc = "claiming"
      BY <1>5 DEF Inv, ServiceInv, DispatcherInv, DispatcherTypeOK
    <2> QED
      BY <1>2, <1>3, <1>5, <2>1 DEF Served, WillLook, StillLooks, FailsUnlinked
  <1> QED
    BY <1>4, <1>5 DEF Claim

LEMMA SendServes ==
    ASSUME Inv, WakeInv, NEW s \in Session, Send(s), UNCHANGED <<sessionVars, calls>>
    PROVE  Served(s)' /\ FailsUnlinked(s)' /\ StoppedAlone(s)'
  <1>1. drain[s].pc = "claiming" /\ UNCHANGED <<jobs, running>>
    BY DEF Send
  <1>2. StoppedAlone(s)'
    BY <1>1 DEF WakeInv, StoppedAlone, IsAttached, sessionVars
  <1>3. chain[s] # << >>
    BY <1>1, ClaimingType DEF Inv, ServiceInv, DispatcherInv, DrainHeadsChain
  <1>4. CASE ~drain[s].claimed
    BY <1>1, <1>2, <1>3, <1>4, LoopLooks DEF Send, Served, FailsUnlinked
  <1>5. CASE drain[s].claimed
    <2>1. UNCHANGED chain /\ drain'[s].pc = "sending" /\ drain'[s].written = linked[s]
      BY <1>5 DEF Send, Reachable, Inv, ServiceInv, DispatcherInv, DispatcherTypeOK
    <2> QED
      BY <1>2, <1>3, <2>1
         DEF Served, WillLook, StillLooks, FailsUnlinked, Reachable, sessionVars
  <1> QED
    BY <1>4, <1>5

LEMMA AfterSendServes ==
    ASSUME Inv, WakeInv, NEW s \in Session, AfterSend(s), UNCHANGED <<sessionVars, calls>>
    PROVE  Served(s)' /\ FailsUnlinked(s)' /\ StoppedAlone(s)'
  <1>1. drain[s].pc = "sending" /\ UNCHANGED <<jobs, running>>
    BY DEF AfterSend
  <1>2. StoppedAlone(s)'
    BY <1>1 DEF WakeInv, StoppedAlone, IsAttached, sessionVars
  <1>3. chain[s] # << >>
    BY <1>1, SendingType DEF Inv, ServiceInv, DispatcherInv, DrainHeadsChain
  <1>4. CASE drain[s].written
    BY <1>1, <1>2, <1>3, <1>4, LoopLooks DEF AfterSend, Served, FailsUnlinked
  <1>5. CASE ~drain[s].written
    <2>1. drain'[s] = Resting /\ (Len(chain[s]) > 1 => WillLook(s)')
      BY <1>5, ReturnLooks DEF AfterSend
    <2>2. ~linked[s] \/ Len(chain[s]) > 1
      BY <1>1, <1>5 DEF WakeInv, FailsUnlinked
    <2> QED
      BY <1>2, <2>1, <2>2 DEF Served, FailsUnlinked, Resting, Reachable, sessionVars
  <1> QED
    BY <1>4, <1>5

LEMMA DrainServes ==
    ASSUME Inv, DeliveryInv, WakeInv, NEW q \in Session, Drain(q)
    PROVE  WakeInv'
  <1>1. DrainStep(q) /\ UNCHANGED <<sessionVars, calls>>
    BY DEF Drain, serviceVars
  <1>2. Served(q)' /\ FailsUnlinked(q)' /\ StoppedAlone(q)'
    BY <1>1, StartDrainServes, ClaimServes, SendServes, AfterSendServes DEF DrainStep
  <1>3. ASSUME NEW s \in Session, s # q
        PROVE  Served(s)' /\ FailsUnlinked(s)' /\ StoppedAlone(s)'
    BY <1>3, DrainElsewhere, UndisturbedServed DEF WakeInv
  <1> QED
    BY <1>2, <1>3 DEF WakeInv

LEMMA NextServes ==
    ASSUME Inv, DeliveryInv, WakeInv, [Next]_vars
    PROVE  WakeInv'
  <1>1. CASE UNCHANGED vars
    BY <1>1, GoneServes DEF vars, sessionVars, serviceVars
  <1>2. CASE \E a \in Caller : Request(a)
    BY <1>2, RequestServes
  <1>3. ASSUME NEW a \in Caller, NEW op, ToolCall(a, op) \/ HttpCall(a, op)
        PROVE  WakeInv'
    <2>1. UNCHANGED sessionVars /\ \E j, add : Begin(a, op, j, add)
      BY <1>3 DEF ToolCall, HttpCall
    <2> QED
      BY <2>1, ActorAssumption, BeginServes
  <1>4. CASE \E a \in Actor : Work(a)
    BY <1>4, WorkServes
  <1>5. CASE \E s \in Session : Attach(s) \/ Disconnect(s) \/ Drain(s)
    BY <1>5, AttachServes, DisconnectServes, DrainServes
  <1>6. CASE \E j \in Job : TimePasses(j)
    BY <1>6, GoneServes DEF TimePasses, sessionVars, serviceVars
  <1>7. CASE \E t \in Ticks : SweepStep(t)
    BY <1>7, SweepServes
  <1>8. CASE Crash \/ Restart
    BY <1>8, ProcessServes
  <1> QED
    BY <1>1, <1>2, <1>3, <1>4, <1>5, <1>6, <1>7, <1>8 DEF Next

(* No wake-up is lost: however submits, ends, attaches, drains that fail to   *)
(* write and restarts fall together, a session that can be reached is left    *)
(* alone with something to send only while someone is on the way to look.     *)
THEOREM NothingLeftBehind == Spec => []NoLostWakeup
  <1>1. Init => WakeInv
    BY DEF Init, SessionInit, DispatcherInit, NothingQueued, Resting, WakeInv, Served,
           FailsUnlinked, StoppedAlone, IsAttached
  <1>2. Init => DeliveryInv
    BY DEF Init, DispatcherInit, NothingQueued, Resting, DeliveryInv, UnsentWhilePending,
           FoundBelong, ClaimedUnsent, SentAtMostOnce
  <1>3. Inv /\ DeliveryInv /\ WakeInv /\ [Next]_vars => Inv' /\ DeliveryInv' /\ WakeInv'
    BY NextInv, NextDelivers, NextServes
  <1> QED
    BY InitInv, WakeSuffices, <1>1, <1>2, <1>3, PTL DEF Spec

-----------------------------------------------------------------------------
(* Handlers as the SQLite adapter lets them run (~Overlap): a chunk of tool   *)
(* calls is read before any drain is queued, and while a tick of the sweeper  *)
(* lasts there are no other ticks and no calls but its own, so a call only     *)
(* begins between drains.                                                     *)
ReadsBeforeDrains == reading => DispatcherQuiet /\ NoTicks /\ ~NoCalls

SweepsAlone ==
    \A t \in Ticks : sweep[t] # NoTick =>
      /\ \A u \in Ticks \ {t} : sweep[u] = NoTick
      /\ \A a \in Actor \ {t} : calls[a] = Idle
      /\ \A s \in Session : \A i \in 1..Len(chain[s]) : chain[s][i] = t

TurnInv == ReadsBeforeDrains /\ SweepsAlone

LEMMA TurnFacts ==
    ASSUME ~Overlap, Inv, TurnInv, Turn
    PROVE  /\ running /\ DispatcherQuiet /\ NoCalls /\ NoTicks /\ reading = FALSE
           /\ \A s \in Session : drain[s] = Resting
  <1>1. running /\ DispatcherQuiet /\ NoCalls /\ NoTicks
    BY DEF Turn, Quiet
  <1>2. reading = FALSE
    BY <1>1 DEF TurnInv, ReadsBeforeDrains, Inv, EventTypeOK
  <1>3. \A s \in Session : drain[s] = Resting
    BY <1>1 DEF DispatcherQuiet, Draining, Inv, ServiceInv, DispatcherInv, DrainHeadsChain
  <1> QED
    BY <1>1, <1>2, <1>3

LEMMA TickFreeQuiet ==
    ASSUME Inv, TurnInv, NEW t \in Ticks, sweep[t] # NoTick, Free(t)
    PROVE  DispatcherQuiet
  <1> SUFFICES ASSUME NEW s \in Session, chain[s] # << >>
               PROVE  FALSE
    BY DEF DispatcherQuiet, Draining
  <1>1. chain[s] \in Seq(Waiter)
    BY DEF Inv, ServiceInv, DispatcherInv, DispatcherTypeOK
  <1>2. 1 \in 1..Len(chain[s])
    BY <1>1
  <1>3. chain[s][1] = t
    BY <1>2 DEF TurnInv, SweepsAlone
  <1> QED
    BY <1>2, <1>3 DEF Free, Awaits

(* A call begins only when no drain is queued.                               *)
LEMMA BeginsQuiet ==
    ASSUME ~Overlap, Inv, TurnInv,
           \/ \E a \in Caller, op \in Ops : ToolCall(a, op) \/ HttpCall(a, op)
           \/ \E t \in Ticks : ExpireNext(t) \/ OrphanNext(t)
    PROVE  DispatcherQuiet
  <1>1. CASE \E a \in Caller, op \in Ops : ToolCall(a, op) \/ HttpCall(a, op)
    BY <1>1, TurnFacts DEF ToolCall, HttpCall, TurnInv, ReadsBeforeDrains
  <1>2. ASSUME NEW t \in Ticks, ExpireNext(t) \/ OrphanNext(t)
        PROVE  DispatcherQuiet
    <2>1. sweep[t] # NoTick
      BY <1>2 DEF ExpireNext, OrphanNext, NoTick
    <2>2. Free(t)
      BY <1>2 DEF ExpireNext, OrphanNext, Begin
    <2> QED
      BY <2>1, <2>2, TickFreeQuiet
  <1> QED
    BY <1>1, <1>2

LEMMA TailElements ==
    ASSUME NEW S, NEW seq \in Seq(S), seq # << >>, NEW x,
           \A i \in 1..Len(seq) : seq[i] = x
    PROVE  \A i \in 1..Len(Tail(seq)) : Tail(seq)[i] = x
  <1>1. /\ Len(Tail(seq)) = Len(seq) - 1
        /\ \A i \in 1..Len(Tail(seq)) : Tail(seq)[i] = seq[i + 1]
    BY HeadTailProperties
  <1>2. Len(seq) \in Nat
    BY LenProperties
  <1> QED
    BY <1>1, <1>2

LEMMA DrainTakesTurn ==
    ASSUME Inv, TurnInv, NEW q \in Session, Drain(q)
    PROVE  TurnInv'
  <1>1. DrainStep(q) /\ reading' = FALSE /\ UNCHANGED <<calls, sweep>>
    BY DEF Drain, serviceVars
  <1>2. chain \in [Session -> Seq(Waiter)] /\ drain \in [Session -> DrainState]
    BY DEF Inv, ServiceInv, DispatcherInv, DispatcherTypeOK
  <1>3. chain[q] # << >>
    BY <1>1, FindingType, ClaimingType, SendingType
       DEF DrainStep, StartDrain, Draining, Claim, Send, AfterSend, Inv, ServiceInv,
           DispatcherInv, DrainHeadsChain
  <1>4. \A s \in Session : chain'[s] = chain[s] \/ (s = q /\ chain'[s] = Tail(chain[s]))
    BY <1>1, <1>2 DEF DrainStep, StartDrain, Claim, Send, AfterSend, Loop, Return
  <1>5. ASSUME NEW t \in Ticks, sweep[t] # NoTick, NEW s \in Session
        PROVE  \A i \in 1..Len(chain'[s]) : chain'[s][i] = t
    <2>1. chain[s] \in Seq(Waiter) /\ \A i \in 1..Len(chain[s]) : chain[s][i] = t
      BY <1>2, <1>5 DEF TurnInv, SweepsAlone
    <2>2. CASE chain'[s] = chain[s]
      BY <2>1, <2>2
    <2>3. CASE s = q /\ chain'[s] = Tail(chain[s])
      BY <1>3, <2>1, <2>3, TailElements
    <2> QED
      BY <1>4, <2>2, <2>3
  <1> QED
    BY <1>1, <1>5 DEF TurnInv, ReadsBeforeDrains, SweepsAlone

LEMMA WorkTakesTurn ==
    ASSUME Inv, TurnInv, NEW a \in Actor, Work(a)
    PROVE  TurnInv'
  <1>1. CallStep(a) /\ reading' = FALSE /\ UNCHANGED sweep
    BY DEF Work
  <1>2. calls[a].pc # "idle" /\ calls[a] # Idle
    <2>1. calls[a].pc \in {"insert", "get", "lost", "write"}
      BY <1>1 DEF CallStep, Submitted, Decide, PatchLost, Settle
    <2> QED
      BY <2>1 DEF Idle
  <1>3. \A b \in Actor \ {a} : calls'[b] = calls[b]
    BY <1>1, OthersKeepCalls
       DEF CallStep, Submitted, Settle, Decide, DecideFinish, DecideNote, DecideAck,
           DecideComment, PatchLost, Writes, Ends
  <1>4. jobs[calls[a].job].session \in Session
    BY <1>2, RowStatus DEF Inv, ServiceInv, CalledRowThere
  <1>5. chain' = chain \/ \E q \in Session : chain' = RunForSession(q, a)
    BY <1>1, <1>4
       DEF CallStep, Submitted, NotifyPending, Decide, PatchLost, Settle, SettleFinish,
           NotifyDone, SettleOther, SettleLost, dispatcherVars
  <1>6. ASSUME NEW t \in Ticks, sweep[t] # NoTick
        PROVE  /\ a = t
               /\ \A s \in Session : \A i \in 1..Len(chain'[s]) : chain'[s][i] = t
    <2>1. a = t
      BY <1>2, <1>6 DEF TurnInv, SweepsAlone
    <2>2. \A s \in Session : /\ chain[s] \in Seq(Waiter)
                             /\ \A i \in 1..Len(chain[s]) : chain[s][i] = t
      BY <1>6 DEF TurnInv, SweepsAlone, Inv, ServiceInv, DispatcherInv, DispatcherTypeOK
    <2>3. \A s \in Session : chain'[s] = chain[s] \/ chain'[s] = Append(chain[s], t)
      BY <1>5, <2>1 DEF RunForSession, Inv, ServiceInv, DispatcherInv, DispatcherTypeOK
    <2>4. ASSUME NEW s \in Session, chain'[s] = Append(chain[s], t)
          PROVE  \A i \in 1..Len(chain'[s]) : chain'[s][i] = t
      BY <2>2, <2>4
    <2> QED
      BY <2>1, <2>2, <2>3, <2>4
  <1> QED
    BY <1>1, <1>3, <1>6 DEF TurnInv, ReadsBeforeDrains, SweepsAlone

LEMMA NextTakesTurn ==
    ASSUME ~Overlap, Inv, TurnInv, [Next]_vars
    PROVE  TurnInv'
  <1>1. CASE UNCHANGED <<reading, chain, calls, sweep>>
    BY <1>1 DEF TurnInv, ReadsBeforeDrains, SweepsAlone, NoTicks, DispatcherQuiet, Draining, NoCalls
  <1>2. CASE \E a \in Caller : Request(a)
    <2>1. reading' = FALSE /\ NoTicks'
      BY <1>2, TurnFacts DEF NoTicks, Request
    <2> QED
      BY <2>1 DEF TurnInv, ReadsBeforeDrains, SweepsAlone, NoTicks
  <1>3. ASSUME NEW a \in Caller, NEW op \in Ops, HttpCall(a, op)
        PROVE  TurnInv'
    <2>1. reading' = FALSE /\ NoTicks'
      BY <1>3, TurnFacts DEF NoTicks, HttpCall
    <2> QED
      BY <2>1 DEF TurnInv, ReadsBeforeDrains, SweepsAlone, NoTicks
  <1>4. ASSUME NEW a \in Caller, NEW op \in Ops, ToolCall(a, op)
        PROVE  TurnInv'
    <2>1. DispatcherQuiet /\ NoTicks
      BY <1>4, TurnFacts DEF ToolCall, TurnInv, ReadsBeforeDrains
    <2>2. a \in Actor /\ UNCHANGED <<chain, sweep>>
      BY <1>4, ActorAssumption DEF ToolCall, Begin, dispatcherVars
    <2>3. PICK j, add : Begin(a, op, j, add)
      BY <1>4 DEF ToolCall
    <2>4. calls'[a].pc = "get"
      BY <2>2, <2>3, OthersKeepCalls DEF Begin
    <2>5. ~NoCalls'
      BY <2>2, <2>4 DEF NoCalls, Idle
    <2> QED
      BY <2>1, <2>2, <2>5
         DEF TurnInv, ReadsBeforeDrains, SweepsAlone, NoTicks, DispatcherQuiet, Draining
  <1>5. CASE \E a \in Actor : Work(a)
    BY <1>5, WorkTakesTurn
  <1>6. CASE \E s \in Session : Attach(s)
    <2>1. reading' = FALSE /\ NoTicks'
      BY <1>6, TurnFacts DEF NoTicks, Attach
    <2> QED
      BY <2>1 DEF TurnInv, ReadsBeforeDrains, SweepsAlone, NoTicks
  <1>7. CASE \E s \in Session : Drain(s)
    BY <1>7, DrainTakesTurn
  <1>8. ASSUME NEW t \in Ticks, TickStart(t)
        PROVE  TurnInv'
    <2>1. /\ reading' = FALSE /\ NoCalls /\ DispatcherQuiet /\ UNCHANGED <<chain, calls>>
          /\ \A u \in Ticks \ {t} : sweep'[u] = NoTick
      BY <1>8, TurnFacts DEF TickStart, Sweeping, NoTicks, Inv, EventTypeOK, dispatcherVars,
                             serviceVars
    <2>2. \A s \in Session : chain'[s] = << >>
      BY <2>1 DEF DispatcherQuiet, Draining
    <2>3. \A s \in Session : \A i \in 1..Len(chain'[s]) : FALSE
      BY <2>2
    <2> QED
      BY <2>1, <2>3 DEF TurnInv, ReadsBeforeDrains, SweepsAlone, NoTicks, NoCalls
  <1>9. ASSUME NEW t \in Ticks, ExpireNext(t) \/ OrphanNext(t)
        PROVE  TurnInv'
    <2>1. UNCHANGED <<chain, reading>>
      BY <1>9 DEF ExpireNext, OrphanNext, Begin, dispatcherVars
    <2>2. t \in Actor
      BY ActorAssumption
    <2>3. \A b \in Actor \ {t} : calls'[b] = calls[b]
      BY <1>9, <2>2, OthersKeepCalls DEF ExpireNext, OrphanNext, Begin
    <2>4. sweep[t] # NoTick /\ \A u \in Ticks \ {t} : sweep'[u] = sweep[u]
      BY <1>9 DEF ExpireNext, OrphanNext, Sweeping, NoTick, Inv, EventTypeOK
    <2> QED
      BY <2>1, <2>3, <2>4 DEF TurnInv, ReadsBeforeDrains, SweepsAlone, NoTicks
  <1>10. ASSUME NEW t \in Ticks, ListJobsInFlight(t) \/ TickEnd(t)
         PROVE  TurnInv'
    <2>1. /\ sweep[t] # NoTick /\ UNCHANGED <<chain, calls, reading>>
          /\ \A u \in Ticks \ {t} : sweep'[u] = sweep[u]
      BY <1>10 DEF ListJobsInFlight, TickEnd, Sweeping, NoTick, Inv, EventTypeOK, dispatcherVars,
                   serviceVars
    <2> QED
      BY <2>1 DEF TurnInv, ReadsBeforeDrains, SweepsAlone, NoTicks
  <1>11. CASE Crash
    BY <1>11 DEF Crash, TurnInv, ReadsBeforeDrains, SweepsAlone, NoTicks
  <1>12. CASE \/ UNCHANGED vars
              \/ \E s \in Session : Disconnect(s)
              \/ \E j \in Job : TimePasses(j)
              \/ Restart
    <2>1. UNCHANGED <<reading, chain, calls, sweep>>
      BY <1>12 DEF vars, Disconnect, TimePasses, Restart, Start, dispatcherVars, serviceVars
    <2> QED
      BY <1>1, <2>1
  <1> QED
    BY <1>2, <1>3, <1>4, <1>5, <1>6, <1>7, <1>8, <1>9, <1>10, <1>11, <1>12
       DEF Next, SweepStep

-----------------------------------------------------------------------------
(* A job is dispatched by the drain that claims it, and by nothing else.      *)
Claims(s, j) == drain[s].pc = "claiming" /\ drain[s].claimed /\ drain[s].job = j

LEMMA ClaimEffect ==
    ASSUME Inv, DeliveryInv, NEW s \in Session, Claim(s)
    PROVE  \/ UNCHANGED jobs /\ Return(s)
           \/ \E j \in Pick(s, drain[s].found) :
                /\ j \in DOMAIN jobs /\ j \in Job /\ jobs[j].session = s
                /\ \A k : k # j => Status(k)' = Status(k)
                /\ drain'[s] = [pc |-> "claiming", job |-> j,
                                claimed |-> Expected(j, "pending")]
                /\ Expected(j, "pending") => Status(j)' = "dispatched"
                /\ ~Expected(j, "pending") => Status(j)' = Status(j)
  <1>1. CASE Return(s) /\ UNCHANGED jobs
    BY <1>1
  <1>2. ASSUME NEW j \in Pick(s, drain[s].found),
               TransitionStatus(j, "pending", "dispatched", jobs[j].notes),
               drain' = [drain EXCEPT ![s] = [pc |-> "claiming", job |-> j,
                                              claimed |-> Expected(j, "pending")]]
        PROVE  /\ j \in DOMAIN jobs /\ j \in Job /\ jobs[j].session = s
               /\ \A k : k # j => Status(k)' = Status(k)
               /\ drain'[s] = [pc |-> "claiming", job |-> j,
                               claimed |-> Expected(j, "pending")]
               /\ Expected(j, "pending") => Status(j)' = "dispatched"
               /\ ~Expected(j, "pending") => Status(j)' = Status(j)
    <2>1. j \in DOMAIN jobs /\ j \in Job /\ jobs[j].session = s
      BY <1>2 DEF Claim, Pick, Dispatchable, DeliveryInv, FoundBelong, Inv, ServiceInv,
         StoreTypeOK
    <2>2. Expected(j, "pending") => jobs[j].notes \in SUBSET Note
      BY SeenNotesTyped DEF Inv, ServiceInv, JobStatuses, ActiveStatus
    <2>3. \/ \A k : Status(k)' = Status(k)
          \/ Status(j)' = "dispatched" /\ \A k : k # j => Status(k)' = Status(k)
      BY <1>2, <2>2, TransitionRow DEF Inv, ServiceInv, JobStatuses, ActiveStatus
    <2>4. Expected(j, "pending") => jobs'[j].status = "dispatched" /\ j \in DOMAIN jobs'
      BY <1>2, <2>2, TransitionRow DEF Inv, ServiceInv, JobStatuses, ActiveStatus
    <2>5. ~Expected(j, "pending") => UNCHANGED jobs
      BY <1>2 DEF TransitionStatus
    <2>6. drain'[s] = [pc |-> "claiming", job |-> j, claimed |-> Expected(j, "pending")]
      BY <1>2 DEF Inv, ServiceInv, DispatcherInv, DispatcherTypeOK
    <2> QED
      BY <2>1, <2>3, <2>4, <2>5, <2>6 DEF Status
  <1> QED
    BY <1>1, <1>2 DEF Claim

(* What a deciding call may do to a row: move it from the status it has seen. *)
LEMMA DecideEffect ==
    ASSUME Inv, NEW a \in Actor, Decide(a), NEW j \in DOMAIN jobs, Status(j)' # Status(j)
    PROVE  /\ calls[a].job = j /\ calls[a].seen = Status(j) /\ calls[a].pc = "get"
           /\ Status(j)' # "dispatched"
           /\ Status(j)' \in TerminalStatus => Finishes(a, jobs[j].session)'
  <1> DEFINE c == calls[a]
  <1>1. /\ c.op \in GetOp /\ c.job \in Job /\ c.seen \in JobStatuses /\ c.pc = "get"
        /\ c.notes \cup c.add \in SUBSET Note
    BY GetType DEF Decide, Inv, ServiceInv
  <1>2. CASE UNCHANGED jobs
    BY <1>2 DEF Status
  <1>3. CASE Patch(c.job, c.notes \cup c.add)
    BY <1>1, <1>3, PatchRow DEF Inv, ServiceInv
  <1>4. ASSUME NEW notes, Expected(c.job, c.seen) => notes \in SUBSET Note,
               TransitionStatus(c.job, c.seen, "in_progress", notes)
        PROVE  c.job = j /\ c.seen = Status(j) /\ Status(j)' = "in_progress"
    <2>1. "in_progress" \in JobStatuses /\ "in_progress" # "pending"
      BY DEF JobStatuses, ActiveStatus
    <2>2. PICK i, from : i = c.job /\ from = c.seen
      OBVIOUS
    <2>3. /\ TransitionStatus(i, from, "in_progress", notes) /\ from \in JobStatuses
          /\ Expected(i, from) => notes \in SUBSET Note
      BY <1>1, <1>4, <2>2
    <2>4. \/ \A k : Status(k)' = Status(k)
          \/ /\ Status(i) = from /\ Status(i)' = "in_progress"
             /\ \A k : k # i => Status(k)' = Status(k)
      BY <2>1, <2>3, TransitionRow DEF Inv, ServiceInv
    <2>5. i = j
      BY <2>4
    <2> QED
      BY <2>2, <2>4, <2>5
  <1>5. CASE DecideFinish(a)
    <2>1. /\ c.op \in FinishOp
          /\ TransitionStatus(c.job, c.seen, Target[c.op], jobs[c.job].notes)
          /\ Writes(a, Expected(c.job, c.seen))
          /\ Expected(c.job, c.seen)
      BY <1>5 DEF DecideFinish, TransitionStatus, Status
    <2>2. /\ Target[c.op] \in TerminalStatus /\ Target[c.op] \in JobStatuses
          /\ Target[c.op] # "pending" /\ Target[c.op] # "dispatched"
          /\ jobs[c.job].notes \in SUBSET Note
      BY <1>1, <2>1, TargetType, SeenNotesTyped
         DEF Inv, ServiceInv, JobStatuses, TerminalStatus
    <2>3. /\ RowsKept /\ c.job = j /\ c.seen = Status(j) /\ Status(j)' = Target[c.op]
      BY <1>1, <2>1, <2>2, TransitionRow DEF Inv, ServiceInv
    <2>4. /\ calls'[a].pc = "write" /\ calls'[a].op = c.op /\ calls'[a].job = c.job
          /\ calls'[a].done
      BY <2>1, OthersKeepCalls DEF Writes
    <2> QED
      BY <1>1, <2>1, <2>2, <2>3, <2>4 DEF Finishes, RowsKept
  <1>6. Expected(c.job, c.seen) => jobs[c.job].notes \in SUBSET Note
    BY <1>1, SeenNotesTyped DEF Inv, ServiceInv
  <1>7. CASE DecideNote(a) /\ Status(j)' # Status(j)
    BY <1>1, <1>2, <1>3, <1>4, <1>7 DEF DecideNote, TerminalStatus
  <1>8. CASE DecideAck(a)
    BY <1>1, <1>2, <1>4, <1>6, <1>8 DEF DecideAck, TerminalStatus
  <1>9. CASE DecideComment(a)
    BY <1>2, <1>3, <1>9 DEF DecideComment
  <1> QED
    BY <1>5, <1>7, <1>8, <1>9 DEF Decide

(* The steps that move a row that is there.                                   *)
LEMMA RowMoves ==
    ASSUME Inv, DeliveryInv, [Next]_vars, NEW j \in DOMAIN jobs, Status(j)' # Status(j)
    PROVE  \/ \E a \in Actor : Work(a) /\ Decide(a)
           \/ \E s \in Session : /\ Drain(s) /\ Claim(s) /\ jobs[j].session = s
                                 /\ j \in Pick(s, drain[s].found)
                                 /\ Status(j) = "pending" /\ Status(j)' = "dispatched"
                                 /\ Claims(s, j)'
  <1>1. ~UNCHANGED jobs
    BY DEF Status
  <1>2. j \in Job
    BY DEF Inv, ServiceInv, StoreTypeOK
  <1>3. CASE \E a \in Caller : Request(a)
    <2>1. PICK a \in Caller, k \in Job, q \in Session, kind \in Kind : Submit(a, k, q, kind)
      BY <1>3 DEF Request
    <2>2. k \notin DOMAIN jobs
      BY <2>1 DEF Submit, NewJob
    <2>3. Status(j)' = Status(j)
      BY <1>2, <2>1, <2>2, InsertRow DEF Submit, Inv, ServiceInv
    <2> QED
      BY <2>3
  <1>4. CASE \E a \in Actor : Work(a)
    <2>1. PICK a \in Actor : Work(a)
      BY <1>4
    <2>2. CASE PatchLost(a)
      <3>1. calls[a].notes \cup calls[a].add \in SUBSET Note
        BY <2>2, GetType DEF PatchLost, Inv, ServiceInv
      <3> QED
        BY <2>2, <3>1, PatchRow DEF PatchLost, Inv, ServiceInv
    <2> QED
      BY <1>1, <2>1, <2>2 DEF Work, CallStep, Submitted, Settle
  <1>5. CASE \E s \in Session : Drain(s)
    <2>1. PICK s \in Session : Drain(s)
      BY <1>5
    <2>2. Claim(s)
      BY <1>1, <2>1 DEF Drain, DrainStep, StartDrain, Send, AfterSend
    <2>3. PICK k \in Pick(s, drain[s].found) :
                /\ k \in DOMAIN jobs /\ jobs[k].session = s
                /\ \A i : i # k => Status(i)' = Status(i)
                /\ drain'[s] = [pc |-> "claiming", job |-> k,
                                claimed |-> Expected(k, "pending")]
                /\ Expected(k, "pending") => Status(k)' = "dispatched"
                /\ ~Expected(k, "pending") => Status(k)' = Status(k)
      BY <1>1, <2>2, ClaimEffect
    <2>4. j = k /\ Expected(k, "pending")
      BY <2>3
    <2>5. Status(j) = "pending" /\ Status(j)' = "dispatched"
      BY <2>3, <2>4 DEF Expected
    <2>6. Claims(s, j)'
      BY <2>3, <2>4 DEF Claims
    <2> QED
      BY <2>1, <2>2, <2>3, <2>4, <2>5, <2>6
  <1>6. CASE \/ UNCHANGED vars
             \/ \E a \in Caller, op \in Ops : ToolCall(a, op) \/ HttpCall(a, op)
             \/ \E s \in Session : Attach(s) \/ Disconnect(s)
             \/ \E k \in Job : TimePasses(k)
             \/ (\E t \in Ticks : SweepStep(t)) \/ Crash \/ Restart
    BY <1>1, <1>6 DEF vars, ToolCall, HttpCall, Begin, Attach, Disconnect, TimePasses,
       SweepStep, TickStart, ExpireNext, ListJobsInFlight, OrphanNext, TickEnd, Crash, Restart
  <1> QED
    BY <1>3, <1>4, <1>5, <1>6 DEF Next

-----------------------------------------------------------------------------
\* No message is taken back.
LEMMA SentGrows ==
    ASSUME Inv, [Next]_vars, NEW j \in Job
    PROVE  sent'[j] \in Nat /\ sent[j] \in Nat /\ (sent'[j] = 0 => sent[j] = 0)
  <1>1. Inv' /\ sent \in [Job -> Nat]
    BY NextInv DEF Inv, ServiceInv, DispatcherInv, DispatcherTypeOK
  <1>2. sent'[j] \in Nat
    BY <1>1 DEF Inv, ServiceInv, DispatcherInv, DispatcherTypeOK
  <1>3. CASE UNCHANGED sent
    BY <1>1, <1>3
  <1>4. CASE \E s \in Session : Drain(s)
    <2>1. PICK s \in Session : DrainStep(s)
      BY <1>4 DEF Drain
    <2>2. UNCHANGED sent \/ \E i : sent' = [sent EXCEPT ![i] = @ + 1]
      BY <2>1 DEF DrainStep, StartDrain, Claim, Send, AfterSend
    <2> QED
      BY <1>1, <1>2, <2>2
  <1>5. CASE \/ UNCHANGED vars
             \/ \E a \in Caller : Request(a)
             \/ \E a \in Caller, op \in Ops : ToolCall(a, op) \/ HttpCall(a, op)
             \/ \E a \in Actor : Work(a)
             \/ \E r \in Session : Attach(r) \/ Disconnect(r)
             \/ \E k \in Job : TimePasses(k)
             \/ (\E t \in Ticks : SweepStep(t)) \/ Crash \/ Restart
    <2>1. UNCHANGED sent
      BY <1>5 DEF vars, Request, Submit, ToolCall, HttpCall, Begin, Work, CallStep, Submitted,
         NotifyPending, Decide, PatchLost, Settle, SettleFinish, NotifyDone, SettleOther,
         SettleLost, Attach, NotifySessionAttached, Disconnect, TimePasses, SweepStep,
         TickStart, ExpireNext, ListJobsInFlight, OrphanNext, TickEnd, Crash, Restart,
         Start, sessionVars, dispatcherVars
    <2> QED
      BY <1>1, <1>3, <2>1
  <1> QED
    BY <1>4, <1>5 DEF Next

LEMMA InitQueue == Init => DeliveryInv /\ TurnInv
  <1>1. Init => DeliveryInv
    BY DEF Init, DispatcherInit, NothingQueued, Resting, DeliveryInv, UnsentWhilePending,
           FoundBelong, ClaimedUnsent, SentAtMostOnce
  <1>2. Init => TurnInv
    BY DEF Init, NoTicks, TurnInv, ReadsBeforeDrains, SweepsAlone
  <1> QED
    BY <1>1, <1>2

-----------------------------------------------------------------------------
(* The busy mark is about a job in flight.  The mark is set after the claim   *)
(* has resolved: the job must not have been finished in between.              *)

\* A call that has seen its job in flight will not find it pending.
SeenLeftQueue ==
    \A a \in Actor : calls[a].pc = "get" /\ calls[a].seen \in InFlightStatus =>
                       Status(calls[a].job) # "pending"

\* Nobody who could finish a job knows yet that it is being claimed.
ClaimUnnoticed ==
    \A s \in Session, j \in Job : Claims(s, j) =>
      /\ Status(j) = "dispatched"
      /\ \A a \in Actor : calls[a].pc = "get" /\ calls[a].job = j =>
                            calls[a].seen \notin InFlightStatus

MarkMeans == \A s \in busy : SerialInFlight(s) # {} \/ \E a \in Actor : Finishes(a, s)

BusyInv == SeenLeftQueue /\ ClaimUnnoticed /\ MarkMeans

LEMMA BusySuffices == BusyInv => BusyMeansInFlight
  <1>1. \A a \in Actor : \A s : Finishes(a, s) => calls[a] # Idle
    BY DEF Finishes, Idle
  <1> QED
    BY <1>1 DEF BusyInv, MarkMeans, BusyMeansInFlight, Unfinished

(* A call that is at its get in the next state began in this step or was      *)
(* there before.                                                              *)
LEMMA AtGet ==
    ASSUME Inv, [Next]_vars, NEW a \in Actor, calls'[a].pc = "get"
    PROVE  \/ calls'[a] = calls[a]
           \/ /\ UNCHANGED <<jobs, drain>>
              /\ calls'[a].job \in DOMAIN jobs
              /\ calls'[a].seen = jobs[calls'[a].job].status
              /\ \/ \E b \in Caller, op \in Ops : ToolCall(b, op) \/ HttpCall(b, op)
                 \/ \E t \in Ticks : ExpireNext(t) \/ OrphanNext(t)
  <1>1. ASSUME NEW b \in Actor, NEW op, NEW j, NEW add, Begin(b, op, j, add)
        PROVE  \/ calls'[a] = calls[a]
               \/ /\ UNCHANGED <<jobs, drain>>
                  /\ calls'[a].job \in DOMAIN jobs
                  /\ calls'[a].seen = jobs[calls'[a].job].status
    <2>1. /\ j \in DOMAIN jobs /\ UNCHANGED <<jobs, drain>>
          /\ calls'[b] = [pc |-> "get", op |-> op, job |-> j, seen |-> jobs[j].status,
                          notes |-> jobs[j].notes, add |-> add]
          /\ \A c \in Actor \ {b} : calls'[c] = calls[c]
      BY <1>1, OthersKeepCalls DEF Begin, dispatcherVars
    <2>2. CASE a = b
      BY <2>1, <2>2
    <2>3. CASE a # b
      BY <2>1, <2>3
    <2> QED
      BY <2>2, <2>3
  <1>2. CASE UNCHANGED calls
    BY <1>2
  <1>3. CASE \E b \in Caller : Request(b)
    <2>1. PICK b \in Caller, j \in Job : Becomes(b, [pc |-> "insert", job |-> j])
      BY <1>3 DEF Request, Submit
    <2> QED
      BY <2>1, OthersKeepCalls, ActorAssumption
  <1>4. CASE \E b \in Actor : Work(b)
    <2>1. PICK b \in Actor : CallStep(b)
      BY <1>4 DEF Work
    <2>2. \/ Ends(b)
          \/ \E done : Writes(b, done)
          \/ calls[b].pc = "get" /\ Becomes(b, [calls[b] EXCEPT !.pc = "lost"])
      BY <2>1 DEF CallStep, Submitted, Decide, DecideFinish, DecideNote, DecideAck,
         DecideComment, PatchLost, Settle
    <2>3. calls[b].pc = "get" => [calls[b] EXCEPT !.pc = "lost"].pc = "lost"
      BY GetType DEF ReadCall, Inv, ServiceInv
    <2>4. PICK call : Becomes(b, call) /\ call.pc # "get"
      <3>1. CASE Ends(b)
        <4>1. Becomes(b, Idle) /\ Idle.pc # "get"
          BY <3>1 DEF Ends, Idle
        <4> QED
          BY <4>1
      <3>2. CASE \E done : Writes(b, done)
        <4>1. PICK done : Writes(b, done)
          BY <3>2
        <4>2. PICK call : /\ Becomes(b, call)
                         /\ call = [pc |-> "write", op |-> calls[b].op, job |-> calls[b].job,
                                    add |-> calls[b].add, done |-> done]
          BY <4>1 DEF Writes
        <4>3. call.pc # "get"
          BY <4>2
        <4> QED
          BY <4>2, <4>3
      <3>3. CASE calls[b].pc = "get" /\ Becomes(b, [calls[b] EXCEPT !.pc = "lost"])
        <4>1. [calls[b] EXCEPT !.pc = "lost"].pc # "get"
          BY <2>3, <3>3
        <4> QED
          BY <3>3, <4>1
      <3> QED
        BY <2>2, <3>1, <3>2, <3>3
    <2>5. calls'[b] = call /\ \A c \in Actor \ {b} : calls'[c] = calls[c]
      BY <2>4, OthersKeepCalls
    <2> QED
      BY <2>4, <2>5
  <1>5. CASE \/ \E b \in Caller, op \in Ops : ToolCall(b, op) \/ HttpCall(b, op)
             \/ \E t \in Ticks : ExpireNext(t) \/ OrphanNext(t)
    <2>1. \E b \in Actor : \E op, j, add : Begin(b, op, j, add)
      BY <1>5, ActorAssumption DEF ToolCall, HttpCall, ExpireNext, OrphanNext
    <2> QED
      BY <1>1, <1>5, <2>1
  <1>6. CASE Crash
    BY <1>6 DEF Crash, Idle
  <1>7. CASE \/ UNCHANGED vars
             \/ \E s \in Session : Attach(s) \/ Disconnect(s) \/ Drain(s)
             \/ \E j \in Job : TimePasses(j)
             \/ \E t \in Ticks : TickStart(t) \/ ListJobsInFlight(t) \/ TickEnd(t)
             \/ Restart
    <2>1. UNCHANGED calls
      BY <1>7 DEF vars, Attach, Disconnect, Drain, TimePasses, TickStart, ListJobsInFlight,
         TickEnd, Restart, serviceVars
    <2> QED
      BY <1>2, <2>1
  <1> QED
    BY <1>3, <1>4, <1>5, <1>6, <1>7 DEF Next, SweepStep

LEMMA SeenStaysLeft ==
    ASSUME Inv, SeenLeftQueue, [Next]_vars
    PROVE  SeenLeftQueue'
  <1> SUFFICES ASSUME NEW a \in Actor, calls'[a].pc = "get",
                      calls'[a].seen \in InFlightStatus,
                      NEW j, j = calls'[a].job, Status(j)' = "pending"
               PROVE  FALSE
    BY DEF SeenLeftQueue, Status
  <1>1. TableStep
    BY NextInv
  <1>2. ASSUME j \in DOMAIN jobs
        PROVE  Status(j) = "pending" /\ jobs[j].status = "pending"
    BY <1>1, <1>2 DEF TableStep, RowsKept, Status
  <1>3. CASE calls'[a] = calls[a]
    <2>1. calls[a].job = j /\ calls[a].pc = "get"
      BY <1>3
    <2>2. j \in DOMAIN jobs
      BY <2>1 DEF Inv, CalledRowThere
    <2> QED
      BY <1>2, <1>3, <2>1, <2>2 DEF SeenLeftQueue
  <1>4. CASE j \in DOMAIN jobs /\ calls'[a].seen = jobs[j].status
    BY <1>2, <1>4 DEF InFlightStatus
  <1> QED
    BY <1>3, <1>4, AtGet

(* What changes a drain is the drain itself, or the death of the process.     *)
LEMMA DrainMoves ==
    ASSUME Inv, [Next]_vars, NEW s \in Session
    PROVE  drain'[s] = drain[s] \/ (Crash /\ drain'[s] = Resting) \/ Drain(s)
  <1>1. CASE UNCHANGED drain
    BY <1>1
  <1>2. CASE Crash
    BY <1>2 DEF Crash
  <1>3. CASE \E r \in Session : Drain(r)
    <2>1. PICK r \in Session : Drain(r) /\ DrainStep(r)
      BY <1>3 DEF Drain
    <2>2. CASE r # s
      BY <2>1, <2>2 DEF DrainStep, StartDrain, Claim, Send, AfterSend, Loop, Return,
         Inv, ServiceInv, DispatcherInv, DispatcherTypeOK
    <2> QED
      BY <2>1, <2>2
  <1>4. CASE \/ UNCHANGED vars
             \/ \E a \in Caller : Request(a)
             \/ \E a \in Caller, op \in Ops : ToolCall(a, op) \/ HttpCall(a, op)
             \/ \E a \in Actor : Work(a)
             \/ \E r \in Session : Attach(r) \/ Disconnect(r)
             \/ \E k \in Job : TimePasses(k)
             \/ (\E t \in Ticks : SweepStep(t)) \/ Restart
    <2>1. UNCHANGED drain
      BY <1>4 DEF vars, Request, Submit, ToolCall, HttpCall, Begin, Work, CallStep, Submitted,
         NotifyPending, Decide, PatchLost, Settle, SettleFinish, NotifyDone, SettleOther,
         SettleLost, Attach, NotifySessionAttached, Disconnect, TimePasses, SweepStep,
         TickStart, ExpireNext, ListJobsInFlight, OrphanNext, TickEnd, Restart,
         Start, sessionVars, dispatcherVars
    <2> QED
      BY <1>1, <2>1
  <1> QED
    BY <1>2, <1>3, <1>4 DEF Next

LEMMA NewClaim ==
    ASSUME Inv, DeliveryInv, [Next]_vars, NEW s \in Session, NEW j \in Job, Claims(s, j)'
    PROVE  \/ Claims(s, j)
           \/ UNCHANGED calls /\ Status(j) = "pending" /\ Status(j)' = "dispatched"
  <1>1. CASE drain'[s] = drain[s]
    BY <1>1 DEF Claims
  <1>2. drain'[s] # Resting
    BY DEF Claims, Resting
  <1>3. CASE Drain(s) /\ drain'[s].pc = "claiming" /\ drain'[s].job = j /\ drain'[s].claimed
    <2>1. UNCHANGED calls /\ DrainStep(s)
      BY <1>3 DEF Drain, serviceVars
    <2>2. CASE Loop(s)
      <3>1. drain'[s].pc \in {"resting", "finding"}
        BY <2>2 DEF Loop, Return, Resting, Inv, ServiceInv, DispatcherInv, DispatcherTypeOK
      <3> QED
        BY <1>3, <3>1
    <2>3. CASE Return(s)
      <3>1. drain'[s] = Resting
        BY <2>3 DEF Return, Inv, ServiceInv, DispatcherInv, DispatcherTypeOK
      <3> QED
        BY <1>2, <3>1
    <2>4. CASE drain' = [drain EXCEPT ![s] = [pc |-> "sending", job |-> drain[s].job,
                                              written |-> Reachable(s)]]
      <3>1. drain'[s].pc = "sending"
        BY <2>4 DEF Inv, ServiceInv, DispatcherInv, DispatcherTypeOK
      <3> QED
        BY <1>3, <3>1
    <2>5. CASE Claim(s) /\ ~Return(s)
      <3>1. PICK k \in Pick(s, drain[s].found) :
                  /\ drain'[s] = [pc |-> "claiming", job |-> k,
                                  claimed |-> Expected(k, "pending")]
                  /\ Expected(k, "pending") => Status(k)' = "dispatched"
        BY <2>5, ClaimEffect
      <3>2. k = j /\ Expected(k, "pending")
        BY <1>3, <3>1
      <3> QED
        BY <2>1, <3>1, <3>2 DEF Expected
    <2> QED
      BY <2>1, <2>2, <2>3, <2>4, <2>5 DEF DrainStep, StartDrain, Send, AfterSend
  <1> QED
    BY <1>1, <1>2, <1>3, DrainMoves DEF Claims

LEMMA ClaimStaysUnnoticed ==
    ASSUME ~Overlap, Inv, DeliveryInv, TurnInv, BusyInv, [Next]_vars
    PROVE  ClaimUnnoticed'
  <1> SUFFICES ASSUME NEW s \in Session, NEW j \in Job, Claims(s, j)'
               PROVE  /\ Status(j)' = "dispatched"
                      /\ \A a \in Actor : calls'[a].pc = "get" /\ calls'[a].job = j =>
                                            calls'[a].seen \notin InFlightStatus
    BY DEF ClaimUnnoticed
  <1>1. CASE UNCHANGED calls /\ Status(j) = "pending" /\ Status(j)' = "dispatched"
    BY <1>1 DEF BusyInv, SeenLeftQueue
  <1>2. CASE Claims(s, j)
    <2>1. /\ Status(j) = "dispatched"
          /\ \A a \in Actor : calls[a].pc = "get" /\ calls[a].job = j =>
                                calls[a].seen \notin InFlightStatus
      BY <1>2 DEF BusyInv, ClaimUnnoticed
    <2>2. j \in DOMAIN jobs
      BY <2>1 DEF Status
    <2>3. Status(j)' = "dispatched"
      <3> SUFFICES ASSUME Status(j)' # Status(j) PROVE FALSE
        BY <2>1
      <3>1. PICK a \in Actor : Decide(a)
        BY <2>1, <2>2, RowMoves
      <3>2. calls[a].job = j /\ calls[a].seen = Status(j) /\ calls[a].pc = "get"
        BY <2>2, <3>1, DecideEffect
      <3> QED
        BY <2>1, <3>2 DEF InFlightStatus
    <2>4. ~DispatcherQuiet
      <3>1. drain[s] # Resting
        BY <1>2 DEF Claims, Resting
      <3> QED
        BY <3>1 DEF DispatcherQuiet, Draining, Inv, ServiceInv, DispatcherInv, DrainHeadsChain
    <2>5. ASSUME NEW a \in Actor, calls'[a].pc = "get"
          PROVE  calls'[a] = calls[a]
      BY <2>4, <2>5, AtGet, BeginsQuiet
    <2> QED
      BY <2>1, <2>3, <2>5
  <1> QED
    BY <1>1, <1>2, NewClaim

(* A call under way goes on by a step of its own, or dies with the process.   *)
LEMMA CallStays ==
    ASSUME Inv, [Next]_vars, NEW a \in Actor, calls[a].pc # "idle"
    PROVE  calls'[a] = calls[a] \/ Work(a) \/ Crash
  <1>1. CASE UNCHANGED calls
    BY <1>1
  <1>2. calls[a] # Idle
    BY DEF Idle
  <1>3. ASSUME NEW b \in Actor, Free(b), NEW call, Becomes(b, call)
        PROVE  calls'[a] = calls[a]
    BY <1>2, <1>3, OthersKeepCalls DEF Free
  <1>4. CASE \E b \in Caller : Request(b)
    <2>1. PICK b \in Caller, j \in Job : Free(b) /\ Becomes(b, [pc |-> "insert", job |-> j])
      BY <1>4 DEF Request, Submit
    <2> QED
      BY <2>1, <1>3, ActorAssumption
  <1>5. CASE \E b \in Actor : Work(b)
    <2>1. PICK b \in Actor : Work(b) /\ CallStep(b)
      BY <1>5 DEF Work
    <2>2. PICK call : Becomes(b, call)
      BY <2>1 DEF CallStep, Submitted, Decide, DecideFinish, DecideNote, DecideAck,
         DecideComment, PatchLost, Settle, Ends, Writes
    <2> QED
      BY <2>1, <2>2, OthersKeepCalls
  <1>6. CASE \/ \E b \in Caller, op \in Ops : ToolCall(b, op) \/ HttpCall(b, op)
             \/ \E t \in Ticks : ExpireNext(t) \/ OrphanNext(t)
    <2>1. \E b \in Actor : \E op, j, add : Begin(b, op, j, add)
      BY <1>6, ActorAssumption DEF ToolCall, HttpCall, ExpireNext, OrphanNext
    <2>2. \E b \in Actor : \E call : Free(b) /\ Becomes(b, call)
      BY <2>1 DEF Begin
    <2> QED
      BY <2>2, <1>3
  <1>7. CASE \/ UNCHANGED vars
             \/ \E s \in Session : Attach(s) \/ Disconnect(s) \/ Drain(s)
             \/ \E j \in Job : TimePasses(j)
             \/ \E t \in Ticks : TickStart(t) \/ ListJobsInFlight(t) \/ TickEnd(t)
             \/ Restart
    <2>1. UNCHANGED calls
      BY <1>7 DEF vars, Attach, Disconnect, Drain, TimePasses, TickStart, ListJobsInFlight,
         TickEnd, Restart, serviceVars
    <2> QED
      BY <1>1, <2>1
  <1> QED
    BY <1>4, <1>5, <1>6, <1>7 DEF Next, SweepStep

(* A call that has finished a job of s clears the mark when it settles.       *)
LEMMA FinishClearsMark ==
    ASSUME Inv, [Next]_vars, NEW a \in Actor, NEW s \in Session, Finishes(a, s), s \in busy'
    PROVE  Finishes(a, s)'
  <1>1. calls[a].pc = "write" /\ calls[a].job \in DOMAIN jobs
    BY DEF Finishes, Inv, CalledRowThere
  <1>2. CASE calls'[a] = calls[a]
    <2>1. RowsKept
      BY NextInv DEF TableStep
    <2> QED
      BY <1>1, <1>2, <2>1 DEF Finishes, RowsKept
  <1>3. CASE Work(a)
    <2>1. Settle(a)
      BY <1>1, <1>3 DEF Work, CallStep, Submitted, Decide, PatchLost
    <2>2. busy' = busy \ {s}
      BY <2>1 DEF Settle, SettleFinish, SettleOther, SettleLost, NotifyDone, Finishes
    <2> QED
      BY <2>2
  <1>4. CASE Crash
    BY <1>4 DEF Crash
  <1> QED
    BY <1>1, <1>2, <1>3, <1>4, CallStays

(* A row that leaves flight was moved by a call that has yet to settle.       *)
LEMMA FlightEnds ==
    ASSUME Inv, DeliveryInv, [Next]_vars, NEW s \in Session, NEW j \in SerialInFlight(s)
    PROVE  j \in SerialInFlight(s)' \/ \E a \in Actor : Finishes(a, s)'
  <1>1. /\ j \in DOMAIN jobs /\ Status(j) \in InFlightStatus /\ jobs[j].session = s
        /\ jobs[j].mode = "serial"
    BY DEF SerialInFlight, InFlight, Status
  <1>2. TableStep
    BY NextInv
  <1>3. j \in DOMAIN jobs' /\ jobs'[j].session = s /\ jobs'[j].mode = "serial"
    BY <1>1, <1>2 DEF TableStep, RowsKept
  <1>4. CASE Status(j)' \in InFlightStatus
    BY <1>3, <1>4 DEF SerialInFlight, InFlight, Status
  <1>5. CASE Status(j)' \notin InFlightStatus
    <2>1. j \in Job
      BY <1>1 DEF Inv, ServiceInv, StoreTypeOK
    <2>2. Status(j)' \in TerminalStatus
      BY <1>1, <1>2, <1>5, <2>1 DEF TableStep, LifecycleMove, Moved, InFlightStatus
    <2>3. PICK a \in Actor : Decide(a)
      BY <1>1, <1>5, RowMoves DEF InFlightStatus
    <2>4. Finishes(a, jobs[j].session)'
      BY <1>1, <1>5, <2>2, <2>3, DecideEffect
    <2> QED
      BY <1>3, <2>4 DEF Finishes
  <1> QED
    BY <1>4, <1>5

LEMMA ClaimedRow ==
    ASSUME Inv, DeliveryInv, NEW s \in Session, NEW j, Claims(s, j)
    PROVE  /\ j \in DOMAIN jobs /\ j \in Job /\ jobs[j].session = s
           /\ jobs[j].status # "pending" /\ sent[j] = 0
  BY DEF Claims, DeliveryInv, ClaimedUnsent, Inv, ServiceInv, StoreTypeOK

\* The mark is set by the drain that sends a serial job, and by start().
LEMMA NewMark ==
    ASSUME Inv, DeliveryInv, [Next]_vars, NEW s \in Session, s \in busy', s \notin busy
    PROVE  \/ Restart
           \/ /\ UNCHANGED jobs /\ Send(s)
              /\ \E j \in DOMAIN jobs : /\ Claims(s, j) /\ jobs[j].session = s
                                        /\ jobs[j].mode = "serial"
  <1>1. CASE \E r \in Session : Drain(r)
    <2>1. PICK r \in Session : DrainStep(r)
      BY <1>1 DEF Drain
    <2>2. r = s /\ Send(r) /\ drain[r].claimed /\ jobs[drain[r].job].mode = "serial"
      BY <2>1 DEF DrainStep, StartDrain, Claim, Send, AfterSend
    <2> QED
      BY <2>2 DEF Send, Claims, DeliveryInv, ClaimedUnsent
  <1>2. CASE \/ UNCHANGED vars
             \/ \E a \in Caller : Request(a)
             \/ \E a \in Caller, op \in Ops : ToolCall(a, op) \/ HttpCall(a, op)
             \/ \E a \in Actor : Work(a)
             \/ \E r \in Session : Attach(r) \/ Disconnect(r)
             \/ \E k \in Job : TimePasses(k)
             \/ (\E t \in Ticks : SweepStep(t)) \/ Crash
    <2>1. busy' \subseteq busy
      BY <1>2 DEF vars, Request, Submit, ToolCall, HttpCall, Begin, Work, CallStep, Submitted,
         NotifyPending, Decide, PatchLost, Settle, SettleFinish, NotifyDone, SettleOther,
         SettleLost, Attach, NotifySessionAttached, Disconnect, TimePasses, SweepStep,
         TickStart, ExpireNext, ListJobsInFlight, OrphanNext, TickEnd, Crash,
         sessionVars, dispatcherVars
    <2> QED
      BY <2>1
  <1> QED
    BY <1>1, <1>2 DEF Next

LEMMA MarkKeepsMeaning ==
    ASSUME Inv, DeliveryInv, BusyInv, [Next]_vars
    PROVE  MarkMeans'
  <1> SUFFICES ASSUME NEW s \in busy'
               PROVE  SerialInFlight(s)' # {} \/ \E a \in Actor : Finishes(a, s)'
    BY DEF MarkMeans
  <1>1. s \in Session
    BY NextInv DEF Inv, ServiceInv, DispatcherInv, DispatcherTypeOK
  <1>2. CASE s \in busy
    <2>1. CASE SerialInFlight(s) # {}
      BY <1>1, <2>1, FlightEnds
    <2>2. CASE \E a \in Actor : Finishes(a, s)
      BY <1>1, <2>2, FinishClearsMark
    <2> QED
      BY <1>2, <2>1, <2>2 DEF BusyInv, MarkMeans
  <1>3. CASE s \notin busy
    <2>1. CASE Restart
      <3>1. UNCHANGED jobs
        BY <2>1 DEF Restart
      <3>2. PICK j \in ListInFlight(ListLimit) : jobs[j].mode = "serial" /\ jobs[j].session = s
        BY <2>1 DEF Restart, Start
      <3>3. j \in SerialInFlight(s)
        BY <3>2, ListedAreInFlight DEF SerialInFlight, InFlight
      <3> QED
        BY <3>1, <3>3 DEF SerialInFlight, InFlight
    <2>2. ASSUME UNCHANGED jobs, NEW j \in DOMAIN jobs, Claims(s, j), jobs[j].session = s,
                 jobs[j].mode = "serial"
          PROVE  SerialInFlight(s)' # {}
      <3>1. j \in Job
        BY DEF Inv, ServiceInv, StoreTypeOK
      <3>2. Status(j) = "dispatched"
        BY <1>1, <2>2, <3>1 DEF BusyInv, ClaimUnnoticed
      <3>3. j \in SerialInFlight(s)
        BY <2>2, <3>2 DEF SerialInFlight, InFlight, Status, InFlightStatus
      <3> QED
        BY <2>2, <3>3 DEF SerialInFlight, InFlight
    <2> QED
      BY <1>1, <1>3, <2>1, <2>2, NewMark
  <1> QED
    BY <1>2, <1>3

LEMMA InitBusy == Init => BusyInv
  BY DEF Init, ServiceInit, NoCalls, Idle, DispatcherInit, NothingQueued, Resting, BusyInv,
         SeenLeftQueue, ClaimUnnoticed, Claims, MarkMeans

LEMMA NextBusy ==
    ASSUME ~Overlap, Inv, DeliveryInv, TurnInv, BusyInv, [Next]_vars
    PROVE  BusyInv'
  BY SeenStaysLeft, ClaimStaysUnnoticed, MarkKeepsMeaning DEF BusyInv

(* The busy mark does not outlive its job: with the SQLite adapter, a session *)
(* that is marked between events has a serial job in flight, so its queue     *)
(* moves on when that job is done.                                            *)
THEOREM MarksMeanFlights ==
    ASSUME ~Overlap
    PROVE  Spec => []BusyMeansInFlight
  <1> DEFINE I == Inv /\ DeliveryInv /\ TurnInv /\ BusyInv
  <1>1. Init => I
    BY InitInv, InitQueue, InitBusy
  <1>2. I /\ [Next]_vars => I'
    BY NextInv, NextDelivers, NextTakesTurn, NextBusy
  <1>3. I => BusyMeansInFlight
    BY BusySuffices
  <1> QED
    BY <1>1, <1>2, <1>3, PTL DEF Spec

-----------------------------------------------------------------------------
(* The job a mark stands for was written to the session, unless the process   *)
(* found it in flight when it started.  Until the drain has seen a write      *)
(* fail and taken the mark back, the mark is its own.                         *)
HeldBy(s) == \E j \in SerialInFlight(s) : sent[j] = 1 \/ j \in inherited

Failing(s) == /\ drain[s].pc = "sending" /\ ~drain[s].written
              /\ jobs[drain[s].job].mode = "serial"
              /\ drain[s].job \in DOMAIN jobs

MarkWritten ==
    \A s \in busy : HeldBy(s) \/ Failing(s) \/ \E a \in Actor : Finishes(a, s)

LEMMA WrittenSuffices ==
    ASSUME Inv, MarkWritten
    PROVE  HeldByWrittenJob
  <1> SUFFICES ASSUME NEW s \in busy
               PROVE  Unfinished(s) \/ HeldBy(s)
    BY DEF HeldByWrittenJob, HeldBy
  <1>1. s \in Session
    BY DEF Inv, ServiceInv, DispatcherInv, DispatcherTypeOK
  <1>2. (\E a \in Actor : Finishes(a, s)) => Unfinished(s)
    BY DEF Finishes, Idle, Unfinished
  <1>3. Failing(s) => Unfinished(s)
    <2>1. Failing(s) => drain[s] # Resting
      BY DEF Failing, Resting
    <2> QED
      BY <1>1, <2>1 DEF Unfinished, Draining, Inv, ServiceInv, DispatcherInv, DrainHeadsChain
  <1> QED
    BY <1>2, <1>3 DEF MarkWritten

\* The jobs in flight at the start are forgotten by the next start only.
LEMMA InheritedKept ==
    ASSUME [Next]_vars
    PROVE  UNCHANGED inherited \/ (Restart /\ inherited' = InFlight)
  BY DEF vars, Next, Request, ToolCall, HttpCall, Work, Attach, Disconnect, Drain, TimePasses,
     SweepStep, TickStart, ExpireNext, ListJobsInFlight, OrphanNext, TickEnd, Crash, Restart

LEMMA HeldByStays ==
    ASSUME Inv, DeliveryInv, [Next]_vars, NEW s \in Session, HeldBy(s)
    PROVE  HeldBy(s)' \/ \E a \in Actor : Finishes(a, s)'
  <1>1. PICK j \in SerialInFlight(s) : sent[j] = 1 \/ j \in inherited
    BY DEF HeldBy
  <1>2. j \in InFlight /\ j \in Job
    BY DEF SerialInFlight, InFlight, Inv, ServiceInv, StoreTypeOK
  <1>3. sent[j] = 1 => sent'[j] = 1
    <2>1. DeliveryInv'
      BY NextDelivers
    <2>2. sent'[j] <= 1
      BY <1>2, <2>1 DEF DeliveryInv, SentAtMostOnce
    <2> QED
      BY <1>2, <2>2, SentGrows
  <1>4. j \in inherited => j \in inherited'
    BY <1>2, InheritedKept
  <1> QED
    BY <1>1, <1>3, <1>4, FlightEnds DEF HeldBy

\* A drain whose write has failed takes the mark back before it stops.
LEMMA FailingStays ==
    ASSUME Inv, [Next]_vars, NEW s \in Session, Failing(s), s \in busy'
    PROVE  Failing(s)'
  <1>1. CASE drain'[s] = drain[s]
    BY <1>1, NextInv DEF Failing, TableStep, RowsKept
  <1>2. CASE Crash
    BY <1>2 DEF Crash
  <1>3. CASE Drain(s)
    <2>1. AfterSend(s)
      BY <1>3 DEF Drain, DrainStep, StartDrain, Claim, Send, Failing, Resting
    <2> QED
      BY <2>1 DEF AfterSend, Failing
  <1> QED
    BY <1>1, <1>2, <1>3, DrainMoves

LEMMA NewMarkWritten ==
    ASSUME Inv, DeliveryInv, BusyInv, [Next]_vars, NEW s \in Session, s \in busy', s \notin busy
    PROVE  HeldBy(s)' \/ Failing(s)'
  <1>1. CASE Restart
    <2>1. UNCHANGED jobs /\ inherited' = InFlight
      BY <1>1 DEF Restart
    <2>2. PICK j \in ListInFlight(ListLimit) : jobs[j].mode = "serial" /\ jobs[j].session = s
      BY <1>1 DEF Restart, Start
    <2>3. j \in SerialInFlight(s) /\ j \in InFlight
      BY <2>2, ListedAreInFlight DEF SerialInFlight, InFlight
    <2> QED
      BY <2>1, <2>3 DEF HeldBy, SerialInFlight, InFlight
  <1>2. CASE UNCHANGED jobs /\ Send(s)
    <2>1. PICK j \in DOMAIN jobs : /\ Claims(s, j) /\ jobs[j].session = s
                                   /\ jobs[j].mode = "serial"
      BY <1>2, NewMark DEF Send, Restart, Start, Inv
    <2>2. j \in Job /\ sent[j] = 0
      BY <2>1, ClaimedRow
    <2>3. Status(j) = "dispatched"
      BY <2>1, <2>2 DEF BusyInv, ClaimUnnoticed
    <2>4. j \in SerialInFlight(s)'
      BY <1>2, <2>1, <2>3 DEF SerialInFlight, InFlight, Status, InFlightStatus
    <2>5. CASE Reachable(s)
      <3>1. sent'[j] = 1
        BY <1>2, <2>1, <2>2, <2>5
           DEF Send, Claims, Inv, ServiceInv, DispatcherInv, DispatcherTypeOK
      <3> QED
        BY <2>4, <3>1 DEF HeldBy
    <2>6. CASE ~Reachable(s)
      <3>1. drain'[s] = [pc |-> "sending", job |-> j, written |-> FALSE]
        BY <1>2, <2>1, <2>6
           DEF Send, Claims, Inv, ServiceInv, DispatcherInv, DispatcherTypeOK
      <3> QED
        BY <1>2, <2>1, <3>1 DEF Failing
    <2> QED
      BY <2>5, <2>6
  <1> QED
    BY <1>1, <1>2, NewMark

LEMMA MarkStaysWritten ==
    ASSUME Inv, DeliveryInv, BusyInv, MarkWritten, [Next]_vars
    PROVE  MarkWritten'
  <1> SUFFICES ASSUME NEW s \in busy'
               PROVE  HeldBy(s)' \/ Failing(s)' \/ \E a \in Actor : Finishes(a, s)'
    BY DEF MarkWritten
  <1>1. s \in Session
    BY NextInv DEF Inv, ServiceInv, DispatcherInv, DispatcherTypeOK
  <1>2. CASE s \in busy
    <2>1. CASE HeldBy(s)
      BY <1>1, <2>1, HeldByStays
    <2>2. CASE Failing(s)
      BY <1>1, <2>2, FailingStays
    <2>3. CASE \E a \in Actor : Finishes(a, s)
      BY <1>1, <2>3, FinishClearsMark
    <2> QED
      BY <1>2, <2>1, <2>2, <2>3 DEF MarkWritten
  <1>3. CASE s \notin busy
    BY <1>1, <1>3, NewMarkWritten
  <1> QED
    BY <1>2, <1>3

(* A write that fails does not deadlock its session (inproc.ts:152): with the *)
(* SQLite adapter, a session that is marked between events is held back by a  *)
(* job that was written to it, or that the process found in flight when it    *)
(* started, whenever its connections came, went and replaced each other.      *)
THEOREM MarksMeanWrittenJobs ==
    ASSUME ~Overlap
    PROVE  Spec => []HeldByWrittenJob
  <1> DEFINE I == Inv /\ DeliveryInv /\ TurnInv /\ BusyInv /\ MarkWritten
  <1>1. Init => BusyInv /\ MarkWritten
    BY InitBusy DEF Init, DispatcherInit, NothingQueued, MarkWritten
  <1>2. Init => I
    BY InitInv, InitQueue, <1>1
  <1>3. I /\ [Next]_vars => I'
    BY NextInv, NextDelivers, NextTakesTurn, NextBusy, MarkStaysWritten
  <1>4. I => HeldByWrittenJob
    BY WrittenSuffices
  <1> QED
    BY <1>2, <1>3, <1>4, PTL DEF Spec

-----------------------------------------------------------------------------
(* Serial jobs leave in the order they were submitted.  A drain that has      *)
(* found a job has found every serial one in front of it that is pending      *)
(* still: those of one priority are numbered in the order of their inserts,   *)
(* and the limit of findPending cuts off the last of them.                    *)
RowsFinite == IsFiniteSet(DOMAIN jobs)

IdsInOrder == \A j \in DOMAIN jobs, k \in Job \ DOMAIN jobs : j < k

FoundInOrder ==
    \A s \in Session : drain[s].pc = "finding" =>
      \A j \in drain[s].found, k \in DOMAIN jobs :
        Status(j) = "pending" /\ Status(k) = "pending" /\ Earlier(k, j) => k \in drain[s].found

OrderInv == RowsFinite /\ IdsInOrder /\ FoundInOrder

LEMMA RankIsNat ==
    ASSUME StoreTypeOK
    PROVE  \A m \in DOMAIN jobs : m \in Nat /\ jobs[m].priority \in Nat
  <1> SUFFICES ASSUME NEW m \in DOMAIN jobs
               PROVE  m \in Nat /\ jobs[m].priority \in Nat
    OBVIOUS
  <1>1. m \in Nat
    BY JobAssumption DEF StoreTypeOK
  <1>2. jobs[m] \in Row
    BY DEF StoreTypeOK
  <1>3. jobs[m].priority \in Priority
    BY <1>2 DEF Row
  <1> QED
    BY <1>1, <1>3 DEF Priority

LEMMA FindsEarlier ==
    ASSUME StoreTypeOK, IsFiniteSet(DOMAIN jobs), NEW s, NEW j \in FindPending(s),
           NEW k \in DOMAIN jobs, Status(k) = "pending", Earlier(k, j)
    PROVE  k \in FindPending(s)
  <1> DEFINE Front(i) == {m \in Pending(s) : Before(m, i)}
  <1>1. j \in Pending(s) /\ Cardinality(Front(j)) < FindLimit
    BY DEF FindPending
  <1>2. k \in Pending(s)
    BY <1>1 DEF Pending, Earlier, Status
  <1>3. \A m \in DOMAIN jobs : m \in Nat /\ jobs[m].priority \in Nat
    BY RankIsNat
  <1>4. Front(k) \subseteq Front(j)
    BY <1>1, <1>2, <1>3 DEF Before, Earlier, Pending
  <1>5. IsFiniteSet(Front(j))
    <2>1. Front(j) \subseteq DOMAIN jobs
      BY DEF Pending
    <2> QED
      BY <2>1, FS_Subset
  <1>6. /\ Cardinality(Front(k)) <= Cardinality(Front(j))
        /\ Cardinality(Front(k)) \in Nat /\ Cardinality(Front(j)) \in Nat
    BY <1>4, <1>5, FS_Subset, FS_CardinalityType
  <1>7. Cardinality(Front(k)) < FindLimit
    BY <1>1, <1>6, FindLimitAssumption
  <1> QED
    BY <1>2, <1>7 DEF FindPending

LEMMA RowsAdded ==
    ASSUME Inv, [Next]_vars
    PROVE  \/ DOMAIN jobs' = DOMAIN jobs
           \/ \E j \in Job : /\ Overlap \/ NextJob(j)
                             /\ DOMAIN jobs' = DOMAIN jobs \cup {j}
  <1>1. CASE UNCHANGED jobs
    BY <1>1
  <1>2. CASE \E a \in Caller : Request(a)
    BY <1>2 DEF Request, Submit, Insert
  <1>3. CASE \/ UNCHANGED vars
             \/ \E a \in Caller, op \in Ops : ToolCall(a, op) \/ HttpCall(a, op)
             \/ \E a \in Actor : Work(a)
             \/ \E r \in Session : Attach(r) \/ Disconnect(r) \/ Drain(r)
             \/ \E k \in Job : TimePasses(k)
             \/ (\E t \in Ticks : SweepStep(t)) \/ Crash \/ Restart
    BY <1>3 DEF vars, ToolCall, HttpCall, Begin, Work, CallStep, Submitted, Decide,
       DecideFinish, DecideNote, DecideAck, DecideComment, TransitionStatus, WriteStatus, Patch,
       PatchLost, Settle, Attach, Disconnect, Drain, DrainStep, StartDrain, Claim, Send,
       AfterSend, TimePasses, SweepStep, TickStart, ExpireNext, ListJobsInFlight, OrphanNext,
       TickEnd, Crash, Restart
  <1> QED
    BY <1>1, <1>2, <1>3 DEF Next

LEMMA RowsStayFinite ==
    ASSUME Inv, RowsFinite, [Next]_vars
    PROVE  RowsFinite'
  BY RowsAdded, FS_AddElement DEF RowsFinite

LEMMA IdsStayInOrder ==
    ASSUME ~Overlap, Inv, IdsInOrder, [Next]_vars
    PROVE  IdsInOrder'
  <1>1. CASE DOMAIN jobs' = DOMAIN jobs
    BY <1>1 DEF IdsInOrder
  <1>2. CASE \E j \in Job : NextJob(j) /\ DOMAIN jobs' = DOMAIN jobs \cup {j}
    <2>1. PICK j \in Job : NextJob(j) /\ DOMAIN jobs' = DOMAIN jobs \cup {j}
      BY <1>2
    <2> QED
      BY <2>1, JobAssumption DEF IdsInOrder, NextJob
  <1> QED
    BY <1>1, <1>2, RowsAdded

\* What a drain begins to look at is what findPending returns.
LEMMA NewFound ==
    ASSUME Inv, [Next]_vars, NEW s \in Session, drain'[s].pc = "finding"
    PROVE  \/ drain'[s] = drain[s]
           \/ UNCHANGED jobs /\ drain'[s].found = FindPending(s)
  <1>1. drain'[s] # Resting
    BY DEF Resting
  <1>2. CASE Drain(s) /\ drain'[s] # Resting
    <2>1. DrainStep(s)
      BY <1>2 DEF Drain
    <2>2. Return(s) => drain'[s] = Resting
      BY DEF Return, Inv, ServiceInv, DispatcherInv, DispatcherTypeOK
    <2>3. Loop(s) => drain'[s] = [pc |-> "finding", found |-> FindPending(s)]
      BY <1>1, <2>2 DEF Loop, Inv, ServiceInv, DispatcherInv, DispatcherTypeOK
    <2>4. \A call : drain' = [drain EXCEPT ![s] = call] => call.pc = "finding"
      BY DEF Inv, ServiceInv, DispatcherInv, DispatcherTypeOK
    <2>5. ~Claim(s)
      <3>1. \A j, c : [pc |-> "claiming", job |-> j, claimed |-> c].pc # "finding"
        OBVIOUS
      <3> QED
        BY <1>2, <2>2, <2>4, <3>1 DEF Claim
    <2>6. \A j, w : [pc |-> "sending", job |-> j, written |-> w].pc # "finding"
      OBVIOUS
    <2>7. UNCHANGED jobs /\ Loop(s)
      BY <1>2, <2>1, <2>2, <2>4, <2>5, <2>6 DEF DrainStep, StartDrain, Send, AfterSend
    <2> QED
      BY <2>3, <2>7
  <1> QED
    BY <1>1, <1>2, DrainMoves

LEMMA FoundStaysInOrder ==
    ASSUME Inv, DeliveryInv, OrderInv, [Next]_vars
    PROVE  FoundInOrder'
  <1> SUFFICES ASSUME NEW s \in Session, drain'[s].pc = "finding",
                      NEW j \in drain'[s].found, NEW k \in DOMAIN jobs',
                      Status(j)' = "pending", Status(k)' = "pending", Earlier(k, j)'
               PROVE  k \in drain'[s].found
    BY DEF FoundInOrder
  <1>1. CASE drain'[s] = drain[s]
    <2>1. RowsKept /\ StoreTypeOK'
      BY NextInv DEF TableStep, Inv, ServiceInv
    <2>2. j \in DOMAIN jobs /\ j \in Job /\ k \in Job
      BY <1>1, <2>1 DEF DeliveryInv, FoundBelong, StoreTypeOK, Inv, ServiceInv
    <2>3. k \in DOMAIN jobs
      <3> SUFFICES ASSUME k \notin DOMAIN jobs PROVE FALSE
        OBVIOUS
      <3>1. j < k /\ k < j /\ j \in Nat /\ k \in Nat
        BY <2>2, JobAssumption DEF OrderInv, IdsInOrder, Earlier
      <3> QED
        BY <3>1
    <2>4. Status(j) = "pending" /\ Status(k) = "pending" /\ Earlier(k, j)
      BY <2>1, <2>2, <2>3 DEF RowsKept, Status, Earlier
    <2> QED
      BY <1>1, <2>3, <2>4 DEF OrderInv, FoundInOrder
  <1>2. CASE UNCHANGED jobs /\ drain'[s].found = FindPending(s)
    <2>1. Status(k) = "pending" /\ Earlier(k, j)
      BY <1>2 DEF Status, Earlier
    <2> QED
      BY <1>2, <2>1, FindsEarlier DEF OrderInv, RowsFinite, Inv, ServiceInv
  <1> QED
    BY <1>1, <1>2, NewFound

LEMMA DispatchesFirst ==
    ASSUME Inv, DeliveryInv, OrderInv, [Next]_vars, NEW j \in DOMAIN jobs, Dispatched(j),
           NEW k \in DOMAIN jobs, Earlier(k, j)
    PROVE  Status(k) # "pending"
  <1> SUFFICES ASSUME Status(k) = "pending" PROVE FALSE
    OBVIOUS
  <1>1. Status(j) = "pending" /\ Status(j)' = "dispatched"
    BY DEF Dispatched
  <1>2. ~(\E a \in Actor : Decide(a))
    BY <1>1, DecideEffect
  <1>3. PICK s \in Session : Claim(s) /\ j \in Pick(s, drain[s].found)
    BY <1>1, <1>2, RowMoves
  <1>4. drain[s].pc = "finding" /\ j \in drain[s].found /\ j \in Dispatchable(s, drain[s].found)
    BY <1>3 DEF Claim, Pick, Dispatchable
  <1>5. k \in drain[s].found
    BY <1>1, <1>4 DEF OrderInv, FoundInOrder
  <1>6. k \in Dispatchable(s, drain[s].found)
    BY <1>4, <1>5 DEF Dispatchable, Earlier
  <1>7. j \in Nat /\ k \in Nat /\ jobs[j].priority \in Nat /\ jobs[k].priority \in Nat
    BY RankIsNat DEF Inv, ServiceInv
  <1>8. k # j
    BY <1>7 DEF Earlier
  <1>9. Before(j, k)
    BY <1>3, <1>6, <1>8 DEF Pick
  <1> QED
    BY <1>7, <1>9 DEF Before, Earlier

(* With the SQLite adapter serial jobs of one session and priority leave in  *)
(* the order they were submitted, however many rows findPending cuts off and  *)
(* whatever is submitted, claimed or finished between the read and the claim. *)
(* The turns matter: submit takes created_at before it may wait for           *)
(* findByClientRef (job-service.ts:116), so with a slower store a row could   *)
(* come in behind one that is newer.                                          *)
THEOREM SerialJobsInOrder ==
    ASSUME ~Overlap
    PROVE  Spec => SerialInOrder
  <1> DEFINE I == Inv /\ DeliveryInv /\ OrderInv
             Step == \A j \in DOMAIN jobs : Dispatched(j) =>
                       \A k \in DOMAIN jobs : Earlier(k, j) => Status(k) # "pending"
  <1>1. Init => OrderInv
    <2>1. Init => DOMAIN jobs = {}
      BY DEF Init
    <2> QED
      BY <2>1, FS_EmptySet DEF Init, OrderInv, RowsFinite, IdsInOrder, FoundInOrder,
         DispatcherInit, NothingQueued, Resting
  <1>2. Init => I
    BY InitInv, InitQueue, <1>1
  <1>3. I /\ [Next]_vars => I'
    BY NextInv, NextDelivers, RowsStayFinite, IdsStayInOrder, FoundStaysInOrder DEF OrderInv
  <1>4. I /\ [Next]_vars => [Step]_vars
    BY DispatchesFirst
  <1> QED
    BY <1>2, <1>3, <1>4, PTL DEF Spec, SerialInOrder

-----------------------------------------------------------------------------
(* One at a time.  Between the claim of a serial job and the moment its       *)
(* finisher settles, something holds the session: first the drain that has     *)
(* claimed the job, then the mark.  So nothing else is claimed for it.        *)
Held(s) == s \in busy \/ \E j \in DOMAIN jobs : Claims(s, j)

InTurn(s) ==
    WrittenInTurn(s) =>
      /\ \A i, j \in SerialInFlight(s) : i = j
      /\ SerialInFlight(s) # {} => Held(s) \/ ~running
      /\ \A a \in Actor : Finishes(a, s) => SerialInFlight(s) = {} /\ Held(s)
      /\ \A a, b \in Actor : Finishes(a, s) /\ Finishes(b, s) => a = b

\* A process that has died does nothing until it is started again.
Stopped == ~running => NoCalls /\ NothingQueued /\ NoTicks

\* A drain whose message could not be written has written none of the job's.
UnwrittenUnsent ==
    \A s \in Session : drain[s].pc = "sending" /\ ~drain[s].written =>
      LET j == drain[s].job
      IN  /\ j \in DOMAIN jobs /\ jobs[j].session = s
          /\ jobs[j].status # "pending" /\ sent[j] = 0

AloneInv == Stopped /\ UnwrittenUnsent /\ \A s \in Session : InTurn(s)

\* The process dies and is started again, and nothing else turns it on or off.
LEMMA Wakes ==
    ASSUME [Next]_vars
    PROVE  UNCHANGED running \/ Crash \/ Restart
  BY DEF Next, vars, dispatcherVars, Request, Submit, ToolCall, HttpCall, Begin, Work,
     CallStep, Submitted, NotifyPending, Decide, PatchLost, Settle, SettleFinish,
     NotifyDone, SettleOther, SettleLost, Attach, NotifySessionAttached, Disconnect, Drain,
     DrainStep, StartDrain, Claim, Send, AfterSend, TimePasses, SweepStep, TickStart,
     ExpireNext, ListJobsInFlight, OrphanNext, TickEnd

LEMMA StaysStopped ==
    ASSUME Inv, Stopped, [Next]_vars
    PROVE  Stopped'
  <1>1. CASE running'
    BY <1>1 DEF Stopped
  <1>2. CASE Crash
    BY <1>2 DEF Crash, Stopped, NoCalls, NothingQueued, NoTicks
  <1>3. CASE UNCHANGED <<running, calls, busy, chain, drain, sweep>>
    BY <1>3 DEF Stopped, NoCalls, NothingQueued, NoTicks
  <1>4. CASE ~running' /\ running
    BY <1>2, <1>4, Wakes DEF Restart, Start
  <1>5. CASE ~running' /\ ~running
    <2>1. /\ \A a \in Actor : calls[a] = Idle
          /\ \A s \in Session : drain[s] = Resting /\ chain[s] = << >>
          /\ \A t \in Ticks : sweep[t] = NoTick
      BY <1>5 DEF Stopped, NoCalls, NothingQueued, NoTicks
    <2>2. /\ \A a \in Actor : calls[a].pc = "idle"
          /\ \A s \in Session : drain[s].pc = "resting" /\ ~Draining(s)
          /\ \A t \in Ticks : sweep[t].pc = "idle"
      BY <2>1 DEF Idle, Resting, NoTick, Draining
    <2>3. \A a \in Actor : ~Work(a)
      BY <2>2 DEF Work, CallStep, Submitted, Decide, PatchLost, Settle
    <2>4. \A s \in Session : ~Drain(s)
      BY <2>2 DEF Drain, DrainStep, StartDrain, Claim, Send, AfterSend
    <2>5. \A t \in Ticks : ~SweepStep(t)
      BY <1>5, <2>2 DEF SweepStep, TickStart, Turn, ExpireNext, ListJobsInFlight, OrphanNext,
         TickEnd
    <2>6. ~Restart
      BY <1>5 DEF Restart, Start
    <2>7. UNCHANGED vars \/ \E j \in Job : TimePasses(j)
      BY <1>2, <1>5, <2>3, <2>4, <2>5, <2>6
         DEF Next, Request, ToolCall, HttpCall, Attach, Disconnect, Turn, Crash
    <2> QED
      BY <1>3, <2>7 DEF vars, TimePasses, dispatcherVars, serviceVars
  <1> QED
    BY <1>1, <1>4, <1>5 DEF Inv, ServiceInv, DispatcherInv, DispatcherTypeOK

\* A message is written for the job a drain has claimed, and for no other.
LEMMA Writing ==
    ASSUME Inv, DeliveryInv, [Next]_vars, NEW j \in Job, sent'[j] # sent[j]
    PROVE  \E s \in Session : Claims(s, j) /\ Drain(s) /\ Send(s)
  <1>1. CASE \E s \in Session : Drain(s)
    <2>1. PICK s \in Session : Drain(s) /\ DrainStep(s)
      BY <1>1 DEF Drain
    <2>2. Send(s) /\ drain[s].claimed
      BY <2>1 DEF DrainStep, StartDrain, Claim, Send, AfterSend
    <2>3. drain[s].job = j
      BY <2>2 DEF Send, Inv, ServiceInv, DispatcherInv, DispatcherTypeOK
    <2> QED
      BY <2>1, <2>2, <2>3 DEF Claims, Send
  <1>2. CASE \/ UNCHANGED vars
             \/ \E a \in Caller : Request(a)
             \/ \E a \in Caller, op \in Ops : ToolCall(a, op) \/ HttpCall(a, op)
             \/ \E a \in Actor : Work(a)
             \/ \E r \in Session : Attach(r) \/ Disconnect(r)
             \/ \E k \in Job : TimePasses(k)
             \/ (\E t \in Ticks : SweepStep(t)) \/ Crash \/ Restart
    <2>1. UNCHANGED sent
      BY <1>2 DEF vars, Request, Submit, ToolCall, HttpCall, Begin, Work, CallStep, Submitted,
         NotifyPending, Decide, PatchLost, Settle, SettleFinish, NotifyDone, SettleOther,
         SettleLost, Attach, NotifySessionAttached, Disconnect, TimePasses, SweepStep,
         TickStart, ExpireNext, ListJobsInFlight, OrphanNext, TickEnd, Crash, Restart,
         Start, sessionVars, dispatcherVars
    <2> QED
      BY <2>1
  <1> QED
    BY <1>1, <1>2 DEF Next

\* What ends a claim.
LEMMA ClaimEnds ==
    ASSUME Inv, DeliveryInv, [Next]_vars, NEW s \in Session, NEW j, Claims(s, j), ~Claims(s, j)'
    PROVE  Crash \/ (Drain(s) /\ Send(s))
  <1>1. drain'[s] # drain[s]
    BY DEF Claims
  <1>2. CASE Drain(s)
    BY <1>2 DEF Drain, DrainStep, StartDrain, Claim, Send, AfterSend, Claims, Resting
  <1> QED
    BY <1>1, <1>2, DrainMoves

LEMMA UnwrittenStays ==
    ASSUME Inv, DeliveryInv, UnwrittenUnsent, [Next]_vars
    PROVE  UnwrittenUnsent'
  <1> SUFFICES ASSUME NEW s \in Session, drain'[s].pc = "sending", ~drain'[s].written
               PROVE  LET j == drain'[s].job
                      IN  /\ j \in DOMAIN jobs' /\ jobs'[j].session = s
                          /\ jobs'[j].status # "pending" /\ sent'[j] = 0
    BY DEF UnwrittenUnsent
  <1>0. RowsKept
    BY NextInv DEF TableStep
  <1>1. CASE drain'[s] = drain[s]
    <2>1. PICK j : j = drain[s].job
      OBVIOUS
    <2>2. /\ j \in DOMAIN jobs /\ jobs[j].session = s
          /\ jobs[j].status # "pending" /\ sent[j] = 0
      BY <1>1, <2>1 DEF UnwrittenUnsent
    <2>3. j \in Job
      BY <2>2 DEF Inv, ServiceInv, StoreTypeOK
    <2>4. \A r \in Session : ~Claims(r, j)
      BY <1>1, <2>2, ClaimedRow DEF Claims
    <2>5. sent'[j] = sent[j]
      BY <2>3, <2>4, Writing
    <2> QED
      BY <1>0, <1>1, <2>1, <2>2, <2>5 DEF RowsKept
  <1>2. CASE drain'[s] # drain[s]
    <2>0. drain'[s] # Resting
      BY DEF Resting
    <2>1. Drain(s) /\ DrainStep(s)
      BY <1>2, <2>0, DrainMoves DEF Drain
    <2>2. Send(s) /\ drain[s].claimed
      <3>1. ASSUME Return(s) \/ Loop(s)
            PROVE  FALSE
        <4>1. drain'[s].pc \in {"resting", "finding"}
          BY <3>1 DEF Loop, Return, Resting, Inv, ServiceInv, DispatcherInv, DispatcherTypeOK
        <4> QED
          BY <4>1
      <3>2. ~Claim(s)
        <4> SUFFICES ASSUME Claim(s) PROVE FALSE
          OBVIOUS
        <4>1. PICK k : drain'[s] = [pc |-> "claiming", job |-> k,
                                    claimed |-> Expected(k, "pending")]
          BY <3>1, ClaimEffect
        <4> QED
          BY <4>1
      <3> QED
        BY <2>1, <3>1, <3>2 DEF DrainStep, StartDrain, Send, AfterSend
    <2>3. PICK j : j = drain[s].job
      OBVIOUS
    <2>4. Claims(s, j) /\ UNCHANGED jobs
      BY <2>2, <2>3 DEF Claims, Send
    <2>5. drain'[s] = [pc |-> "sending", job |-> j, written |-> Reachable(s)]
      BY <2>2, <2>3 DEF Send, Inv, ServiceInv, DispatcherInv, DispatcherTypeOK
    <2>6. UNCHANGED sent
      BY <2>2, <2>5 DEF Send
    <2> QED
      BY <2>4, <2>5, <2>6, ClaimedRow
  <1> QED
    BY <1>1, <1>2

\* Rows that were not all written in turn are not afterwards either.
LEMMA InTurnBefore ==
    ASSUME Inv, DeliveryInv, RowsFinite, [Next]_vars, NEW s \in Session, WrittenInTurn(s)'
    PROVE  WrittenInTurn(s)
  <1>0. RowsKept /\ RowsFinite'
    BY NextInv, RowsStayFinite DEF TableStep
  <1>1. Cardinality(DOMAIN jobs) <= ListLimit
    <2>1. DOMAIN jobs \subseteq DOMAIN jobs' /\ IsFiniteSet(DOMAIN jobs')
      BY <1>0 DEF RowsKept, RowsFinite
    <2>2. /\ Cardinality(DOMAIN jobs) <= Cardinality(DOMAIN jobs')
          /\ Cardinality(DOMAIN jobs) \in Nat /\ Cardinality(DOMAIN jobs') \in Nat
      BY <2>1, FS_Subset, FS_CardinalityType
    <2>3. Cardinality(DOMAIN jobs') <= ListLimit
      BY DEF WrittenInTurn
    <2> QED
      BY <2>2, <2>3, LimitAssumption
  <1>2. ASSUME NEW j \in DOMAIN jobs, jobs[j].session = s
        PROVE  /\ jobs[j].mode = "serial"
               /\ jobs[j].status = "pending" \/ sent[j] = 1 \/ OnItsWay(j)
    <2>1. /\ j \in DOMAIN jobs' /\ jobs'[j].session = s /\ jobs'[j].mode = jobs[j].mode
          /\ jobs'[j].status = "pending" => jobs[j].status = "pending"
          /\ j \in Job
      BY <1>0, <1>2 DEF RowsKept, Inv, ServiceInv, StoreTypeOK
    <2>2. /\ jobs'[j].mode = "serial"
          /\ jobs'[j].status = "pending" \/ sent'[j] = 1 \/ OnItsWay(j)'
      BY <2>1 DEF WrittenInTurn
    <2>3. OnItsWay(j)' <=> Claims(s, j)'
      BY <2>1 DEF OnItsWay, Claims
    <2>4. OnItsWay(j) <=> Claims(s, j)
      BY <1>2 DEF OnItsWay, Claims
    <2>5. ASSUME Claims(s, j)'
          PROVE  Claims(s, j) \/ jobs[j].status = "pending"
      BY <1>2, <2>1, <2>5, NewClaim DEF Status
    <2>6. ASSUME sent'[j] = 1, sent[j] # 1
          PROVE  Claims(s, j)
      BY <1>2, <2>1, <2>6, Writing, ClaimedRow
    <2> QED
      BY <2>1, <2>2, <2>3, <2>4, <2>5, <2>6
  <1> QED
    BY <1>1, <1>2 DEF WrittenInTurn

\* start() sees every row in flight, and marks the sessions of the serial ones.
LEMMA RestartMarks ==
    ASSUME Inv, RowsFinite, Cardinality(DOMAIN jobs) <= ListLimit, Restart,
           NEW s, SerialInFlight(s) # {}
    PROVE  s \in busy'
  <1>1. PICK j \in SerialInFlight(s) : TRUE
    OBVIOUS
  <1>2. /\ j \in InFlight /\ j \in DOMAIN jobs /\ jobs[j].session = s
        /\ jobs[j].mode = "serial"
    BY <1>1 DEF SerialInFlight, InFlight
  <1> DEFINE Newer == {k \in InFlight : k > j}
             Others == DOMAIN jobs \ {j}
  <1>3. j \in Nat
    BY <1>2, JobAssumption DEF Inv, ServiceInv, StoreTypeOK
  <1>4. Newer \subseteq Others
    BY <1>3 DEF InFlight
  <1>5. /\ IsFiniteSet(DOMAIN jobs) /\ IsFiniteSet(Others)
        /\ Cardinality(Others) = Cardinality(DOMAIN jobs) - 1
        /\ Cardinality(DOMAIN jobs) \in Nat
    BY <1>2, FS_RemoveElement, FS_CardinalityType DEF RowsFinite
  <1>6. Cardinality(Newer) <= Cardinality(Others) /\ Cardinality(Newer) \in Nat
    BY <1>4, <1>5, FS_Subset, FS_CardinalityType
  <1>7. Cardinality(Newer) < ListLimit
    BY <1>5, <1>6, LimitAssumption
  <1>8. j \in ListInFlight(ListLimit)
    BY <1>2, <1>7 DEF ListInFlight
  <1> QED
    BY <1>2, <1>8 DEF Restart, Start

\* What takes a mark away.
LEMMA MarkGoes ==
    ASSUME Inv, [Next]_vars, NEW s \in Session, s \in busy, s \notin busy'
    PROVE  \/ Crash \/ Restart
           \/ \E a \in Actor : Finishes(a, s) /\ Work(a) /\ Settle(a)
           \/ drain[s].pc = "sending" /\ ~drain[s].written
  <1>1. CASE \E r \in Session : Drain(r)
    <2>1. PICK r \in Session : DrainStep(r)
      BY <1>1 DEF Drain
    <2>2. r = s /\ AfterSend(r) /\ ~drain[r].written
      BY <2>1 DEF DrainStep, StartDrain, Claim, Send, AfterSend
    <2> QED
      BY <2>2 DEF AfterSend
  <1>2. CASE \E a \in Actor : Work(a)
    <2>1. PICK a \in Actor : Work(a)
      BY <1>2
    <2>2. Settle(a) /\ SettleFinish(a)
      BY <2>1 DEF Work, CallStep, Submitted, NotifyPending, Decide, PatchLost, Settle,
         SettleOther, SettleLost, dispatcherVars
    <2>3. Finishes(a, s)
      BY <2>2 DEF Settle, SettleFinish, NotifyDone, Finishes
    <2> QED
      BY <2>1, <2>2, <2>3
  <1>3. CASE \/ UNCHANGED vars
             \/ \E a \in Caller : Request(a)
             \/ \E a \in Caller, op \in Ops : ToolCall(a, op) \/ HttpCall(a, op)
             \/ \E r \in Session : Attach(r) \/ Disconnect(r)
             \/ \E k \in Job : TimePasses(k)
             \/ \E t \in Ticks : SweepStep(t)
    <2>1. UNCHANGED busy
      BY <1>3 DEF vars, Request, Submit, ToolCall, HttpCall, Begin, Attach,
         NotifySessionAttached, Disconnect, TimePasses, SweepStep, TickStart, ExpireNext,
         ListJobsInFlight, OrphanNext, TickEnd, sessionVars, dispatcherVars
    <2> QED
      BY <2>1
  <1> QED
    BY <1>1, <1>2, <1>3 DEF Next

\* A serial job that comes into flight has been claimed by a drain that found
\* its session unmarked.
LEMMA NewFlight ==
    ASSUME Inv, DeliveryInv, [Next]_vars, NEW s \in Session,
           NEW i \in SerialInFlight(s)', i \notin SerialInFlight(s)
    PROVE  /\ Drain(s) /\ UNCHANGED calls /\ Claims(s, i)'
           /\ drain[s].pc = "finding" /\ s \notin busy
  <1>1. /\ i \in DOMAIN jobs' /\ Status(i)' \in InFlightStatus
        /\ jobs'[i].session = s /\ jobs'[i].mode = "serial"
    BY DEF SerialInFlight, InFlight, Status
  <1>2. TableStep /\ i \in Job
    BY <1>1, NextInv DEF Inv, ServiceInv, StoreTypeOK
  <1>3. Status(i) \notin InFlightStatus
    BY <1>1, <1>2 DEF SerialInFlight, InFlight, Status, TableStep, RowsKept, InFlightStatus
  <1>4. Status(i) = "pending" /\ Status(i)' = "dispatched"
    BY <1>1, <1>2, <1>3
       DEF TableStep, LifecycleMove, Moved, InFlightStatus, ActiveStatus, TerminalStatus
  <1>5. i \in DOMAIN jobs
    BY <1>4 DEF Status
  <1>6. ~\E a \in Actor : Decide(a)
    BY <1>4, <1>5, DecideEffect
  <1>7. PICK r \in Session : /\ Drain(r) /\ Claim(r) /\ jobs[i].session = r
                             /\ i \in Pick(r, drain[r].found) /\ Claims(r, i)'
    BY <1>4, <1>5, <1>6, RowMoves
  <1>8. r = s /\ jobs[i].mode = "serial"
    BY <1>1, <1>2, <1>5, <1>7 DEF TableStep, RowsKept
  <1>9. drain[s].pc = "finding" /\ s \notin busy
    BY <1>7, <1>8 DEF Claim, Pick, Dispatchable
  <1> QED
    BY <1>7, <1>8, <1>9 DEF Drain, serviceVars

\* A call that stands still finishes what it did.
LEMMA SameCallFinishes ==
    ASSUME Inv, [Next]_vars, NEW s \in Session, NEW a \in Actor,
           calls'[a] = calls[a], Finishes(a, s)'
    PROVE  Finishes(a, s)
  <1>1. calls[a].job \in DOMAIN jobs
    BY DEF Finishes, Inv, CalledRowThere
  <1>2. jobs'[calls[a].job].session = jobs[calls[a].job].session
    BY <1>1, NextInv DEF TableStep, RowsKept
  <1> QED
    BY <1>2 DEF Finishes

\* A call that has come to finish a job of s has just moved it.
LEMMA NewFinish ==
    ASSUME Inv, Stopped, [Next]_vars, NEW s \in Session, NEW a \in Actor,
           Finishes(a, s)', ~Finishes(a, s)
    PROVE  /\ Work(a) /\ UNCHANGED <<busy, drain, sent, running>> /\ running
           /\ \A b \in Actor \ {a} : calls'[b] = calls[b]
           /\ \E k \in DOMAIN jobs : /\ jobs[k].session = s
                                     /\ Status(k) \in ActiveStatus
                                     /\ Status(k)' \in TerminalStatus
  <1>0. TableStep
    BY NextInv
  <1>1. calls'[a].pc = "write" /\ calls'[a].op \in FinishOp /\ calls'[a].done
    BY DEF Finishes
  <1>2. calls'[a] # calls[a]
    BY SameCallFinishes
  <1>3. Work(a)
    <2>1. ASSUME NEW b \in Actor, NEW call, Becomes(b, call), b # a \/ call.pc # "write"
          PROVE  FALSE
      BY <1>1, <1>2, <2>1, OthersKeepCalls
    <2>2. ASSUME NEW b \in Caller, Request(b)
          PROVE  FALSE
      <3>1. PICK j \in Job : Becomes(b, [pc |-> "insert", job |-> j])
        BY <2>2 DEF Request, Submit
      <3> QED
        BY <2>1, <3>1, ActorAssumption
    <2>3. ASSUME NEW b \in Actor, NEW op, NEW j, NEW add, Begin(b, op, j, add)
          PROVE  FALSE
      <3>1. PICK call : Becomes(b, call) /\ call.pc = "get"
        BY <2>3 DEF Begin
      <3> QED
        BY <2>1, <3>1
    <2>4. ASSUME NEW b \in Actor, Work(b), b # a
          PROVE  FALSE
      <3>1. PICK call : Becomes(b, call)
        BY <2>4 DEF Work, CallStep, Submitted, Decide, DecideFinish, DecideNote, DecideAck,
           DecideComment, PatchLost, Settle, Ends, Writes
      <3> QED
        BY <2>1, <2>4, <3>1
    <2>5. ~Crash
      BY <1>1 DEF Crash, Idle
    <2>6. ~UNCHANGED calls
      BY <1>2
    <2>7. ~\E b \in Caller, op \in Ops : ToolCall(b, op) \/ HttpCall(b, op)
      BY <2>3, ActorAssumption DEF ToolCall, HttpCall
    <2>8. ~\E t \in Ticks : SweepStep(t)
      BY <2>3, <2>6, ActorAssumption
         DEF SweepStep, TickStart, ExpireNext, ListJobsInFlight, OrphanNext, TickEnd,
             serviceVars
    <2> QED
      BY <2>2, <2>4, <2>5, <2>6, <2>7, <2>8
         DEF Next, vars, Attach, Disconnect, Drain, TimePasses, Restart, serviceVars
  <1> DEFINE c == calls[a]
  <1>4. \A call : Becomes(a, call) => calls'[a] = call
    BY OthersKeepCalls
  <1>5. Decide(a)
    <2>1. ~Submitted(a) /\ ~Settle(a)
      BY <1>1, <1>4 DEF Submitted, Settle, Ends, Idle
    <2>2. ~PatchLost(a)
      <3> SUFFICES ASSUME PatchLost(a) PROVE FALSE
        OBVIOUS
      <3>1. c.op = "note" /\ calls'[a].op = c.op
        BY <1>4, GetType DEF PatchLost, Writes, Inv, ServiceInv
      <3> QED
        BY <1>1, <3>1 DEF FinishOp
    <2> QED
      BY <1>3, <2>1, <2>2 DEF Work, CallStep
  <1>6. /\ c.pc = "get" /\ c.op \in GetOp /\ c.job \in Job /\ c.seen \in JobStatuses
    BY <1>5, GetType DEF Decide, Inv, ServiceInv
  <1>7. DecideFinish(a)
    <2>0. ~Ends(a)
      BY <1>1, <1>4 DEF Ends, Idle
    <2>1. ~Becomes(a, [c EXCEPT !.pc = "lost"])
      <3>1. PICK x : x = [c EXCEPT !.pc = "lost"]
        OBVIOUS
      <3>2. x.pc = "lost"
        BY <1>6, <3>1, GetType DEF ReadCall, Inv, ServiceInv
      <3> QED
        BY <1>1, <1>4, <3>1, <3>2
    <2>2. ASSUME NEW done, Writes(a, done) PROVE c.op \in FinishOp
      BY <1>1, <1>4, <2>2 DEF Writes
    <2> QED
      BY <1>5, <2>0, <2>1, <2>2
         DEF Decide, DecideNote, DecideAck, DecideComment, FinishOp
  <1>8. /\ c.op \in FinishOp /\ c.seen \notin TerminalStatus
        /\ TransitionStatus(c.job, c.seen, Target[c.op], jobs[c.job].notes)
        /\ Expected(c.job, c.seen) /\ calls'[a].job = c.job
    BY <1>1, <1>4, <1>7 DEF DecideFinish, Ends, Idle, Writes
  <1>9. PICK k : k = c.job
    OBVIOUS
  <1>10. /\ Target[c.op] \in TerminalStatus /\ Target[c.op] \in JobStatuses
         /\ Target[c.op] # "pending" /\ jobs[k].notes \in SUBSET Note
    BY <1>6, <1>8, <1>9, TargetType, SeenNotesTyped
       DEF Inv, ServiceInv, JobStatuses, TerminalStatus
  <1>11. /\ k \in DOMAIN jobs /\ jobs[k].status = c.seen /\ jobs'[k].status = Target[c.op]
         /\ k \in DOMAIN jobs'
    BY <1>6, <1>8, <1>9, <1>10, TransitionRow DEF Inv, ServiceInv
  <1>12. /\ jobs[k].session = s
         /\ Status(k) \in ActiveStatus /\ Status(k)' \in TerminalStatus
    <2>1. jobs'[k].session = s /\ jobs'[k].session = jobs[k].session
      BY <1>0, <1>8, <1>9, <1>11 DEF Finishes, TableStep, RowsKept
    <2>2. c.seen \in ActiveStatus
      BY <1>6, <1>8 DEF JobStatuses
    <2> QED
      BY <1>10, <1>11, <2>1, <2>2 DEF Status
  <1>13. running
    BY <1>6 DEF Stopped, NoCalls, Idle
  <1>14. UNCHANGED <<busy, drain, sent, running>>
    BY <1>5 DEF Decide, dispatcherVars
  <1>15. \A b \in Actor \ {a} : calls'[b] = calls[b]
    BY <1>7, OthersKeepCalls DEF DecideFinish, Ends, Writes
  <1> QED
    BY <1>3, <1>11, <1>12, <1>13, <1>14, <1>15

\* The job it moved was in flight: it had been written, or claimed.
LEMMA FinishTakesFlight ==
    ASSUME Inv, DeliveryInv, RowsFinite, Stopped, [Next]_vars, NEW s \in Session,
           WrittenInTurn(s)', NEW a \in Actor, Finishes(a, s)', ~Finishes(a, s)
    PROVE  /\ UNCHANGED <<busy, drain>> /\ running
           /\ \A b \in Actor \ {a} : calls'[b] = calls[b]
           /\ \E k \in SerialInFlight(s) : k \notin SerialInFlight(s)'
  <1>1. /\ UNCHANGED <<busy, drain, sent>> /\ running
        /\ \A b \in Actor \ {a} : calls'[b] = calls[b]
    BY NewFinish
  <1>2. PICK k \in DOMAIN jobs : /\ jobs[k].session = s
                                 /\ Status(k) \in ActiveStatus
                                 /\ Status(k)' \in TerminalStatus
    BY NewFinish
  <1>3. k \in Job /\ k \in DOMAIN jobs' /\ jobs'[k].session = s
    BY <1>2, NextInv DEF TableStep, RowsKept, Inv, ServiceInv, StoreTypeOK
  <1>4. jobs[k].status = Status(k) /\ jobs'[k].status = Status(k)'
    BY <1>2, <1>3 DEF Status
  <1>5. jobs'[k].status # "pending" /\ k \notin SerialInFlight(s)'
    BY <1>2, <1>4 DEF TerminalStatus, SerialInFlight, InFlight, InFlightStatus
  <1>6. sent'[k] = 1 \/ OnItsWay(k)'
    BY <1>3, <1>5 DEF WrittenInTurn
  <1>7. sent[k] = 1 \/ Claims(s, k)
    BY <1>1, <1>3, <1>6 DEF OnItsWay, Claims
  <1>8. jobs[k].status # "pending"
    BY <1>2, <1>3, <1>7, ClaimedRow DEF DeliveryInv, UnsentWhilePending, NotDispatched
  <1>9. jobs[k].mode = "serial"
    BY <1>2, InTurnBefore DEF WrittenInTurn
  <1>10. k \in SerialInFlight(s)
    BY <1>2, <1>4, <1>8, <1>9
       DEF SerialInFlight, InFlight, InFlightStatus, ActiveStatus
  <1> QED
    BY <1>1, <1>5, <1>10

\* A session that is held stays so until the finisher of its job settles.
LEMMA HeldStays ==
    ASSUME Inv, DeliveryInv, Stopped, UnwrittenUnsent, [Next]_vars, NEW s \in Session,
           WrittenInTurn(s), Held(s)
    PROVE  Held(s)' \/ Crash \/ \E a \in Actor : Finishes(a, s) /\ Work(a) /\ Settle(a)
  <1>1. CASE s \in busy
    <2>1. ~(drain[s].pc = "sending" /\ ~drain[s].written)
      BY DEF UnwrittenUnsent, WrittenInTurn, OnItsWay
    <2>2. ~Restart
      BY <1>1 DEF Restart, Stopped, NothingQueued
    <2> QED
      BY <1>1, <2>1, <2>2, MarkGoes DEF Held
  <1>2. CASE \E k \in DOMAIN jobs : Claims(s, k)
    <2>1. PICK k \in DOMAIN jobs : Claims(s, k)
      BY <1>2
    <2>2. CASE Claims(s, k)'
      BY <2>1, <2>2, NextInv DEF Held, TableStep, RowsKept
    <2>3. CASE Send(s)
      <3>1. jobs[k].mode = "serial"
        BY <2>1, ClaimedRow DEF WrittenInTurn
      <3> QED
        BY <2>1, <2>3, <3>1 DEF Send, Claims, Held
    <2> QED
      BY <2>1, <2>2, <2>3, ClaimEnds
  <1> QED
    BY <1>1, <1>2 DEF Held

\* A claim that puts a job in flight finds nothing of the session in the way.
LEMMA FlightBegins ==
    ASSUME Inv, DeliveryInv, AloneInv, [Next]_vars, NEW s \in Session, WrittenInTurn(s),
           NEW i \in SerialInFlight(s)', i \notin SerialInFlight(s)
    PROVE  /\ SerialInFlight(s) = {} /\ \A a \in Actor : ~Finishes(a, s)
           /\ Claims(s, i)' /\ Held(s)'
  <1>1. Claims(s, i)' /\ drain[s].pc = "finding" /\ s \notin busy
    BY NewFlight
  <1>2. ~Held(s)
    BY <1>1 DEF Held, Claims
  <1>3. running
    BY <1>1 DEF AloneInv, Stopped, NothingQueued, Resting
  <1>4. Held(s)'
    BY <1>1 DEF Held, SerialInFlight, InFlight
  <1> QED
    BY <1>1, <1>2, <1>3, <1>4 DEF AloneInv, InTurn

\* Whoever comes to finish a job of s, or goes on to, is the only one, and
\* nothing of s is in flight meanwhile.
LEMMA FinishAlone ==
    ASSUME Inv, DeliveryInv, RowsFinite, AloneInv, [Next]_vars, NEW s \in Session,
           WrittenInTurn(s)', NEW a \in Actor, Finishes(a, s)'
    PROVE  /\ SerialInFlight(s)' = {} /\ Held(s)'
           /\ \A b \in Actor : Finishes(b, s)' => b = a
  <1>1. WrittenInTurn(s) /\ Stopped /\ UnwrittenUnsent /\ InTurn(s)
    BY InTurnBefore DEF AloneInv
  <1>2. CASE Finishes(a, s)
    <2>1. SerialInFlight(s) = {} /\ Held(s)
      BY <1>1, <1>2 DEF InTurn
    <2>2. SerialInFlight(s)' = {}
      BY <1>1, <1>2, <2>1, FlightBegins
    <2>3. calls'[a].pc = "write"
      BY DEF Finishes
    <2>4. ~Crash /\ ~Settle(a)
      BY <2>3, OthersKeepCalls DEF Crash, Settle, Ends, Idle
    <2>5. \A b \in Actor : Finishes(b, s) => b = a
      BY <1>1, <1>2 DEF InTurn
    <2>6. Held(s)'
      BY <1>1, <2>1, <2>4, <2>5, HeldStays
    <2>7. ASSUME NEW b \in Actor, Finishes(b, s)', b # a PROVE FALSE
      <3>1. ~Finishes(b, s)
        BY <2>5, <2>7
      <3>2. \E k \in SerialInFlight(s) : k \notin SerialInFlight(s)'
        BY <1>1, <2>7, <3>1, FinishTakesFlight
      <3> QED
        BY <2>1, <3>2
    <2> QED
      BY <2>2, <2>6, <2>7
  <1>3. CASE ~Finishes(a, s)
    <2>1. /\ UNCHANGED <<busy, drain>> /\ running
          /\ \A b \in Actor \ {a} : calls'[b] = calls[b]
      BY <1>1, <1>3, FinishTakesFlight
    <2>2. PICK k \in SerialInFlight(s) : k \notin SerialInFlight(s)'
      BY <1>1, <1>3, FinishTakesFlight
    <2>3. /\ \A i \in SerialInFlight(s) : i = k
          /\ Held(s) /\ \A b \in Actor : ~Finishes(b, s)
      BY <1>1, <2>1, <2>2 DEF InTurn
    <2>4. SerialInFlight(s)' = {}
      BY <1>1, <2>2, <2>3, FlightBegins
    <2>5. Held(s)'
      BY <2>1, <2>3, NextInv DEF Held, Claims, TableStep, RowsKept
    <2>6. \A b \in Actor \ {a} : ~Finishes(b, s)'
      BY <2>1, <2>3, SameCallFinishes
    <2> QED
      BY <2>4, <2>5, <2>6
  <1> QED
    BY <1>2, <1>3

LEMMA InTurnStays ==
    ASSUME Inv, DeliveryInv, RowsFinite, AloneInv, [Next]_vars, NEW s \in Session
    PROVE  InTurn(s)'
  <1> SUFFICES ASSUME WrittenInTurn(s)'
               PROVE  /\ \A i, j \in SerialInFlight(s)' : i = j
                      /\ SerialInFlight(s)' # {} => Held(s)' \/ ~running'
                      /\ \A a \in Actor : Finishes(a, s)' =>
                           SerialInFlight(s)' = {} /\ Held(s)'
                      /\ \A a, b \in Actor : Finishes(a, s)' /\ Finishes(b, s)' => a = b
    BY DEF InTurn
  <1>1. WrittenInTurn(s) /\ Stopped /\ UnwrittenUnsent /\ InTurn(s)
    BY InTurnBefore DEF AloneInv
  <1>2. ASSUME NEW i \in SerialInFlight(s)', NEW j \in SerialInFlight(s)'
        PROVE  i = j
    <2>1. CASE i \in SerialInFlight(s) /\ j \in SerialInFlight(s)
      BY <1>1, <2>1 DEF InTurn
    <2>2. CASE i \notin SerialInFlight(s) \/ j \notin SerialInFlight(s)
      <3>1. SerialInFlight(s) = {}
        BY <1>1, <1>2, <2>2, FlightBegins
      <3>2. Claims(s, i)' /\ Claims(s, j)'
        BY <1>1, <1>2, <3>1, FlightBegins
      <3> QED
        BY <3>2 DEF Claims
    <2> QED
      BY <2>1, <2>2
  <1>3. ASSUME NEW i \in SerialInFlight(s)', running'
        PROVE  Held(s)'
    <2>1. CASE i \notin SerialInFlight(s)
      BY <1>1, <1>3, <2>1, FlightBegins
    <2>2. CASE i \in SerialInFlight(s) /\ running
      <3>1. Held(s) /\ ~Crash /\ \A a \in Actor : ~Finishes(a, s)
        BY <1>1, <1>3, <2>2 DEF InTurn, Crash
      <3> QED
        BY <1>1, <3>1, HeldStays
    <2>3. CASE i \in SerialInFlight(s) /\ ~running
      <3>1. Restart
        BY <1>3, <2>3, Wakes DEF Crash
      <3>2. Cardinality(DOMAIN jobs) <= ListLimit
        BY <1>1 DEF WrittenInTurn
      <3> QED
        BY <2>3, <3>1, <3>2, RestartMarks DEF Held
    <2> QED
      BY <2>1, <2>2, <2>3
  <1> QED
    BY <1>2, <1>3, FinishAlone

(* "Serial-mode dispatch by default (one in-flight job per session)"          *)
(* (README.md), for a session whose jobs are serial and were written to it    *)
(* before they ended: whatever was submitted, cancelled, swept or lost, and   *)
(* however often the process died.                                            *)
THEOREM OneJobAtATime == Spec => []OneAtATime
  <1> DEFINE I == Inv /\ DeliveryInv /\ RowsFinite /\ AloneInv
  <1>1. Init => I
    <2> SUFFICES ASSUME Init PROVE I
      OBVIOUS
    <2>1. Inv /\ DeliveryInv
      BY InitInv, InitQueue
    <2>2. DOMAIN jobs = {} /\ running
      BY DEF Init, DispatcherInit
    <2>3. RowsFinite
      BY <2>2, FS_EmptySet DEF RowsFinite
    <2>4. \A s \in Session : drain[s].pc = "resting"
      BY DEF Init, DispatcherInit, NothingQueued, Resting
    <2>5. \A a \in Actor : calls[a].pc = "idle"
      BY DEF Init, ServiceInit, NoCalls, Idle
    <2>6. \A s \in Session : SerialInFlight(s) = {}
      BY <2>2 DEF SerialInFlight, InFlight
    <2> QED
      BY <2>1, <2>2, <2>3, <2>4, <2>5, <2>6
         DEF AloneInv, Stopped, UnwrittenUnsent, InTurn, Finishes
  <1>2. I /\ [Next]_vars => I'
    BY NextInv, NextDelivers, RowsStayFinite, StaysStopped, UnwrittenStays, InTurnStays
       DEF AloneInv
  <1>3. I => OneAtATime
    BY DEF AloneInv, InTurn, OneAtATime
  <1> QED
    BY <1>1, <1>2, <1>3, PTL DEF Spec
=============================================================================
