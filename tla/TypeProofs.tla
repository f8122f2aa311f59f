------------------------------- MODULE TypeProofs -------------------------------
(***************************************************************************)
(* Type correctness of Broker, for every value of its constants, and what  *)
(* the statements of the job table do to its rows.                         *)
(*                                                                         *)
(* TypeOK alone is not inductive: a drain that returns takes the head off  *)
(* its session's chain, which is only a sequence if there is one.  The     *)
(* invariant proved adds that a drain under way heads its chain.           *)
(***************************************************************************)
EXTENDS BrokerProperties, SequenceTheorems, TLAPS

(* What the statements of the job table preserve, for every table.           *)

(* A job's status says whether its row is there.                             *)
LEMMA StatusOfRow ==
    ASSUME StoreTypeOK, NEW j, Status(j) # "absent"
    PROVE  /\ j \in DOMAIN jobs /\ j \in Job
           /\ jobs[j] \in Row
           /\ Status(j) = jobs[j].status
           /\ Status(j) \in JobStatuses
  BY DEF StoreTypeOK, Status, Row

LEMMA RowStatus ==
    ASSUME StoreTypeOK, NEW j \in DOMAIN jobs
    PROVE  /\ jobs[j] \in Row
           /\ jobs[j].status \in JobStatuses
           /\ Status(j) = jobs[j].status
           /\ jobs[j].session \in Session
           /\ jobs[j].notes \in SUBSET Note
           /\ j \in Job
  BY DEF StoreTypeOK, Status, Row

(* What a step of the table may do to it: no row goes away or changes its    *)
(* session, mode or priority, and only an insert brings a pending row.       *)
RowsKept ==
    \A j \in DOMAIN jobs :
      /\ j \in DOMAIN jobs'
      /\ jobs'[j].session = jobs[j].session
      /\ jobs'[j].mode = jobs[j].mode
      /\ jobs'[j].priority = jobs[j].priority
      /\ jobs'[j].status = "pending" => jobs[j].status = "pending"

LEMMA InsertRow ==
    ASSUME StoreTypeOK, NEW j \in Job, NewJob(j), NEW s \in Session, NEW kind \in Kind,
           Insert(j, s, kind)
    PROVE  /\ StoreTypeOK'
           /\ RowsKept
           /\ Status(j) = "absent" /\ Status(j)' = "pending"
           /\ \A k \in Job \ {j} : Status(k)' = Status(k)
           /\ DOMAIN jobs' = DOMAIN jobs \cup {j}
  <1>1. /\ j \notin DOMAIN jobs
        /\ DOMAIN jobs' = DOMAIN jobs \cup {j}
        /\ \A k \in DOMAIN jobs : jobs'[k] = jobs[k]
        /\ jobs'[j] = [session |-> s, mode |-> kind.mode, priority |-> kind.priority,
                       status |-> "pending", notes |-> {}]
    BY DEF Insert, NewJob
  <1>2. jobs'[j] \in Row
    BY <1>1, KindAssumption DEF Row, JobStatuses, ActiveStatus
  <1>3. StoreTypeOK'
    BY <1>1, <1>2 DEF StoreTypeOK
  <1> QED
    BY <1>1, <1>3 DEF RowsKept, Status

(* A write to a row that is there changes its status and notes, and nothing  *)
(* else in the table.                                                        *)
LEMMA WriteRow ==
    ASSUME StoreTypeOK, NEW j \in DOMAIN jobs, NEW to \in JobStatuses,
           NEW notes \in SUBSET Note, WriteStatus(j, to, notes)
    PROVE  /\ StoreTypeOK'
           /\ DOMAIN jobs' = DOMAIN jobs
           /\ Status(j)' = to
           /\ \A k : k # j => Status(k)' = Status(k)
           /\ \A k \in DOMAIN jobs : /\ jobs'[k].session = jobs[k].session
                                     /\ jobs'[k].mode = jobs[k].mode
                                     /\ jobs'[k].priority = jobs[k].priority
                                     /\ k # j => jobs'[k].status = jobs[k].status
           /\ jobs'[j].status = to
  <1>1. /\ DOMAIN jobs' = DOMAIN jobs
        /\ \A k \in DOMAIN jobs : k # j => jobs'[k] = jobs[k]
        /\ jobs'[j] = [jobs[j] EXCEPT !.status = to, !.notes = notes]
    BY DEF WriteStatus
  <1>2. jobs[j] \in Row
    BY DEF StoreTypeOK
  <1>3. /\ jobs'[j] \in Row
        /\ jobs'[j].status = to
        /\ jobs'[j].session = jobs[j].session
        /\ jobs'[j].mode = jobs[j].mode
        /\ jobs'[j].priority = jobs[j].priority
    BY <1>1, <1>2 DEF Row
  <1>4. StoreTypeOK'
    BY <1>1, <1>3 DEF StoreTypeOK
  <1> QED
    BY <1>1, <1>3, <1>4 DEF Status

(* patch() keeps every status.                                               *)
LEMMA PatchRow ==
    ASSUME StoreTypeOK, NEW j, NEW notes \in SUBSET Note, Patch(j, notes)
    PROVE  /\ StoreTypeOK'
           /\ RowsKept
           /\ DOMAIN jobs' = DOMAIN jobs
           /\ \A k : Status(k)' = Status(k)
  <1>1. DOMAIN jobs' = DOMAIN jobs
    BY DEF Patch
  <1>2. ASSUME NEW k \in DOMAIN jobs
        PROVE  /\ jobs'[k] \in Row
               /\ jobs'[k].status = jobs[k].status
               /\ jobs'[k].session = jobs[k].session
               /\ jobs'[k].mode = jobs[k].mode
               /\ jobs'[k].priority = jobs[k].priority
    <2>1. jobs[k] \in Row
      BY DEF StoreTypeOK
    <2>2. jobs'[k] = IF k = j THEN [jobs[k] EXCEPT !.notes = notes] ELSE jobs[k]
      BY DEF Patch
    <2> QED
      BY <2>1, <2>2 DEF Row
  <1> QED
    BY <1>1, <1>2 DEF StoreTypeOK, RowsKept, Status

(* transitionStatus moves the row it was asked to move, from the status its  *)
(* caller expected, or changes nothing.                                      *)
LEMMA TransitionRow ==
    ASSUME StoreTypeOK, NEW j, NEW from \in JobStatuses, NEW to \in JobStatuses,
           to # "pending", NEW notes,
           Expected(j, from) => notes \in SUBSET Note,
           TransitionStatus(j, from, to, notes)
    PROVE  /\ StoreTypeOK'
           /\ RowsKept
           /\ DOMAIN jobs' = DOMAIN jobs
           /\ \/ \A k : Status(k)' = Status(k)
              \/ /\ j \in DOMAIN jobs /\ Status(j) = from /\ Status(j)' = to
                 /\ \A k : k # j => Status(k)' = Status(k)
           /\ Expected(j, from) => /\ j \in DOMAIN jobs
                                   /\ jobs[j].status = from /\ jobs'[j].status = to
  <1>1. CASE ~Expected(j, from)
    BY <1>1 DEF TransitionStatus, StoreTypeOK, RowsKept, Status
  <1>2. CASE Expected(j, from)
    <2>1. Status(j) = from /\ from # "absent"
      BY <1>2 DEF Expected, JobStatuses, ActiveStatus, TerminalStatus
    <2>2. j \in DOMAIN jobs /\ jobs[j].status = from
      BY <2>1, StatusOfRow
    <2>3. WriteStatus(j, to, notes) /\ notes \in SUBSET Note
      BY <1>2 DEF TransitionStatus
    <2> QED
      BY <2>1, <2>2, <2>3, WriteRow DEF RowsKept
  <1> QED
    BY <1>1, <1>2

(* The queries return rows of the table, in the states they ask for.          *)
LEMMA FoundArePending ==
    ASSUME NEW s
    PROVE  \A j \in FindPending(s) : /\ j \in DOMAIN jobs
                                     /\ jobs[j].session = s
                                     /\ jobs[j].status = "pending"
  BY DEF FindPending, Pending

LEMMA ListedAreInFlight ==
    ASSUME NEW limit
    PROVE  \A j \in ListInFlight(limit) : /\ j \in DOMAIN jobs
                                          /\ jobs[j].status \in InFlightStatus
  BY DEF ListInFlight, InFlight

LEMMA ExpiredAreRows ==
    ASSUME NEW late, NEW limit, NEW batch \in FindExpired(late, limit)
    PROVE  batch \subseteq DOMAIN jobs
  BY DEF FindExpired

-----------------------------------------------------------------------------
(* The dispatcher.                                                           *)

DrainHeadsChain == \A s \in Session : drain[s] # Resting => chain[s] # << >>

DispatcherInv == DispatcherTypeOK /\ DrainHeadsChain

-----------------------------------------------------------------------------
(* Notifications only lengthen a chain.                                      *)
LEMMA RunForSessionType ==
    ASSUME DispatcherInv, NEW s \in Session, NEW w \in Waiter,
           chain' = RunForSession(s, w), UNCHANGED drain
    PROVE  /\ chain' \in [Session -> Seq(Waiter)]
           /\ DrainHeadsChain'
  <1>1. CASE ~running
    BY <1>1 DEF RunForSession, DispatcherInv, DispatcherTypeOK, DrainHeadsChain
  <1>2. CASE running
    <2>1. chain' = [chain EXCEPT ![s] = Append(chain[s], w)]
      BY <1>2 DEF RunForSession
    <2>2. chain \in [Session -> Seq(Waiter)]
      BY DEF DispatcherInv, DispatcherTypeOK
    <2>3. Append(chain[s], w) \in Seq(Waiter) /\ Append(chain[s], w) # << >>
      BY <2>2, AppendProperties
    <2> QED
      BY <2>1, <2>2, <2>3 DEF DispatcherInv, DrainHeadsChain
  <1> QED
    BY <1>1, <1>2 DEF DispatcherInv, DispatcherTypeOK

LEMMA NotifyType ==
    ASSUME DispatcherInv, NEW s \in Session, NEW w \in Waiter,
           NotifyPending(s, w) \/ NotifyDone(s, w)
    PROVE  DispatcherInv'
  <1>1. chain' = RunForSession(s, w) /\ UNCHANGED <<running, drain, sent>>
    BY DEF NotifyPending, NotifyDone
  <1>2. busy' \subseteq Session
    BY DEF NotifyPending, NotifyDone, DispatcherInv, DispatcherTypeOK
  <1> QED
    BY <1>1, <1>2, RunForSessionType DEF DispatcherInv, DispatcherTypeOK

-----------------------------------------------------------------------------
(* The steps of a drain.                                                     *)
LEMMA ReturnType ==
    ASSUME DispatcherInv, NEW s \in Session, chain[s] # << >>, Return(s)
    PROVE  /\ chain' \in [Session -> Seq(Waiter)]
           /\ drain' \in [Session -> DrainState]
           /\ DrainHeadsChain'
  <1>1. chain \in [Session -> Seq(Waiter)] /\ drain \in [Session -> DrainState]
    BY DEF DispatcherInv, DispatcherTypeOK
  <1>2. Tail(chain[s]) \in Seq(Waiter)
    BY <1>1, HeadTailProperties
  <1>3. Resting \in DrainState
    BY DEF DrainState
  <1> QED
    BY <1>1, <1>2, <1>3 DEF Return, DispatcherInv, DrainHeadsChain

LEMMA LoopType ==
    ASSUME DispatcherInv, StoreTypeOK, NEW s \in Session, chain[s] # << >>, Loop(s)
    PROVE  /\ chain' \in [Session -> Seq(Waiter)]
           /\ drain' \in [Session -> DrainState]
           /\ DrainHeadsChain'
  <1>1. CASE running
    <2>1. FindPending(s) \in SUBSET Job
      BY FoundArePending DEF StoreTypeOK
    <2>2. [pc |-> "finding", found |-> FindPending(s)] \in DrainState
      BY <2>1 DEF DrainState
    <2>3. /\ drain' = [drain EXCEPT ![s] = [pc |-> "finding", found |-> FindPending(s)]]
          /\ chain' = chain
      BY <1>1 DEF Loop
    <2> QED
      BY <2>2, <2>3 DEF DispatcherInv, DispatcherTypeOK, DrainHeadsChain
  <1>2. CASE ~running
    BY <1>2, ReturnType DEF Loop
  <1> QED
    BY <1>1, <1>2

LEMMA FindingType ==
    ASSUME DispatcherTypeOK, NEW s \in Session, drain[s].pc = "finding"
    PROVE  drain[s].found \subseteq Job /\ drain[s] # Resting
  BY DEF DispatcherTypeOK, DrainState, Resting

LEMMA ClaimingType ==
    ASSUME DispatcherTypeOK, NEW s \in Session, drain[s].pc = "claiming"
    PROVE  /\ drain[s].job \in Job /\ drain[s].claimed \in BOOLEAN
           /\ drain[s] # Resting
  BY DEF DispatcherTypeOK, DrainState, Resting

LEMMA SendingType ==
    ASSUME DispatcherTypeOK, NEW s \in Session, drain[s].pc = "sending"
    PROVE  /\ drain[s].job \in Job /\ drain[s].written \in BOOLEAN
           /\ drain[s] # Resting
  BY DEF DispatcherTypeOK, DrainState, Resting

LEMMA StartDrainType ==
    ASSUME DispatcherInv, StoreTypeOK, NEW s \in Session, StartDrain(s)
    PROVE  DispatcherInv' /\ StoreTypeOK'
  <1>1. chain[s] # << >> /\ UNCHANGED <<jobs, running, busy, sent>>
    BY DEF StartDrain, Draining
  <1>2. Loop(s) \/ Return(s)
    BY DEF StartDrain
  <1>3. StoreTypeOK'
    BY <1>1 DEF StoreTypeOK
  <1> QED
    BY <1>1, <1>2, <1>3, LoopType, ReturnType DEF DispatcherInv, DispatcherTypeOK

LEMMA ClaimType ==
    ASSUME DispatcherInv, StoreTypeOK, NEW s \in Session, Claim(s)
    PROVE  DispatcherInv' /\ StoreTypeOK'
  <1>1. /\ drain[s].found \subseteq Job /\ chain[s] # << >>
        /\ UNCHANGED <<running, busy, sent>>
    BY FindingType DEF Claim, DispatcherInv, DrainHeadsChain
  <1>2. CASE Return(s) /\ UNCHANGED jobs
    BY <1>1, <1>2, ReturnType DEF DispatcherInv, DispatcherTypeOK, StoreTypeOK
  <1>3. ASSUME NEW j \in Pick(s, drain[s].found),
               TransitionStatus(j, "pending", "dispatched", jobs[j].notes),
               drain' = [drain EXCEPT ![s] = [pc |-> "claiming", job |-> j,
                                              claimed |-> Expected(j, "pending")]],
               UNCHANGED chain
        PROVE  DispatcherInv' /\ StoreTypeOK'
    <2>1. j \in Job
      BY <1>1 DEF Pick, Dispatchable
    <2>2. Expected(j, "pending") => jobs[j].notes \in SUBSET Note
      BY StatusOfRow, RowStatus DEF Expected
    <2>3. StoreTypeOK'
      BY <1>3, <2>2, TransitionRow DEF JobStatuses, ActiveStatus
    <2>4. Expected(j, "pending") \in BOOLEAN
      BY DEF Expected
    <2>5. [pc |-> "claiming", job |-> j, claimed |-> Expected(j, "pending")] \in DrainState
      BY <2>1, <2>4 DEF DrainState
    <2> QED
      BY <1>1, <1>3, <2>3, <2>5 DEF DispatcherInv, DispatcherTypeOK, DrainHeadsChain
  <1> QED
    BY <1>2, <1>3 DEF Claim

LEMMA SendType ==
    ASSUME DispatcherInv, StoreTypeOK, SessionTypeOK, NEW s \in Session, Send(s)
    PROVE  DispatcherInv' /\ StoreTypeOK'
  <1>1. /\ drain[s].job \in Job /\ chain[s] # << >>
        /\ UNCHANGED <<jobs, running>>
    BY ClaimingType DEF Send, DispatcherInv, DrainHeadsChain
  <1>2. StoreTypeOK'
    BY <1>1 DEF StoreTypeOK
  <1>3. CASE ~drain[s].claimed
    BY <1>1, <1>2, <1>3, LoopType DEF Send, DispatcherInv, DispatcherTypeOK
  <1>4. CASE drain[s].claimed
    <2> DEFINE j == drain[s].job
    <2>1. /\ busy' \subseteq Session
          /\ sent' = IF linked[s] THEN [sent EXCEPT ![j] = @ + 1] ELSE sent
          /\ drain' = [drain EXCEPT ![s] = [pc |-> "sending", job |-> j,
                                            written |-> linked[s]]]
          /\ UNCHANGED chain
      BY <1>4 DEF Send, Reachable, DispatcherInv, DispatcherTypeOK
    <2>2. sent' \in [Job -> Nat]
      BY <1>1, <2>1 DEF DispatcherInv, DispatcherTypeOK
    <2>3. [pc |-> "sending", job |-> j, written |-> linked[s]] \in DrainState
      BY <1>1 DEF DrainState, SessionTypeOK
    <2> QED
      BY <1>1, <1>2, <2>1, <2>2, <2>3 DEF DispatcherInv, DispatcherTypeOK, DrainHeadsChain
  <1> QED
    BY <1>3, <1>4

LEMMA AfterSendType ==
    ASSUME DispatcherInv, StoreTypeOK, NEW s \in Session, AfterSend(s)
    PROVE  DispatcherInv' /\ StoreTypeOK'
  <1>1. chain[s] # << >> /\ UNCHANGED <<jobs, running, sent>>
    BY SendingType DEF AfterSend, DispatcherInv, DrainHeadsChain
  <1>2. StoreTypeOK'
    BY <1>1 DEF StoreTypeOK
  <1>3. Loop(s) \/ Return(s)
    BY DEF AfterSend
  <1>4. busy' \subseteq Session
    BY DEF AfterSend, DispatcherInv, DispatcherTypeOK
  <1> QED
    BY <1>1, <1>2, <1>3, <1>4, LoopType, ReturnType DEF DispatcherInv, DispatcherTypeOK

LEMMA DrainStepType ==
    ASSUME DispatcherInv, StoreTypeOK, SessionTypeOK, NEW s \in Session, DrainStep(s)
    PROVE  DispatcherInv' /\ StoreTypeOK'
  BY StartDrainType, ClaimType, SendType, AfterSendType DEF DrainStep
-----------------------------------------------------------------------------
(* The calls of the job service.                                             *)

ServiceInv == StoreTypeOK /\ DispatcherInv /\ ServiceTypeOK

LEMMA TargetType == \A op \in FinishOp : Target[op] \in TerminalStatus
  BY DEF FinishOp, Target, TerminalStatus

LEMMA GetType ==
    ASSUME ServiceTypeOK, NEW a \in Actor, calls[a].pc \in {"get", "lost"}
    PROVE  /\ calls[a] \in ReadCall({"get", "lost"}, GetOp)
           /\ calls[a].op \in GetOp /\ calls[a].job \in Job
           /\ calls[a].seen \in JobStatuses
           /\ calls[a].notes \cup calls[a].add \in SUBSET Note
           /\ calls[a].add \in SUBSET Note
           /\ calls[a].pc = "lost" => calls[a].op = "note"
  BY DEF ServiceTypeOK, CallState, ReadCall, Idle, GetOp, AppendOp

LEMMA WriteType ==
    ASSUME ServiceTypeOK, NEW a \in Actor, calls[a].pc = "write"
    PROVE  /\ calls[a].op \in GetOp /\ calls[a].job \in Job
           /\ calls[a].add \in SUBSET Note /\ calls[a].done \in BOOLEAN
  BY DEF ServiceTypeOK, CallState, ReadCall, Idle

LEMMA BecomesType ==
    ASSUME ServiceTypeOK, NEW a \in Actor, NEW call \in CallState, Becomes(a, call),
           UNCHANGED <<announced, acked>>
    PROVE  ServiceTypeOK'
  BY DEF ServiceTypeOK, Becomes

LEMMA EndsType ==
    ASSUME ServiceTypeOK, NEW a \in Actor, Ends(a)
    PROVE  calls' \in [Actor -> CallState]
  BY DEF ServiceTypeOK, Ends, Becomes, CallState

LEMMA WritesType ==
    ASSUME ServiceTypeOK, NEW a \in Actor, calls[a].pc \in {"get", "lost"},
           NEW done \in BOOLEAN, Writes(a, done)
    PROVE  calls' \in [Actor -> CallState]
  <1> DEFINE call == [pc |-> "write", op |-> calls[a].op, job |-> calls[a].job,
                      add |-> calls[a].add, done |-> done]
  <1>1. call \in CallState
    BY GetType DEF CallState
  <1> QED
    BY <1>1 DEF Writes, Becomes, ServiceTypeOK

LEMMA DispatcherUnchanged ==
    ASSUME DispatcherInv, UNCHANGED dispatcherVars
    PROVE  DispatcherInv'
  BY DEF DispatcherInv, DispatcherTypeOK, DrainHeadsChain, dispatcherVars

LEMMA SubmitType ==
    ASSUME ServiceInv, NEW a \in Actor, NEW j \in Job, NEW s \in Session, NEW kind \in Kind,
           Submit(a, j, s, kind)
    PROVE  ServiceInv'
  <1>1. StoreTypeOK'
    BY InsertRow DEF Submit, ServiceInv
  <1>2. [pc |-> "insert", job |-> j] \in CallState
    BY DEF CallState
  <1>3. ServiceTypeOK'
    BY <1>2, BecomesType DEF Submit, ServiceInv
  <1> QED
    BY <1>1, <1>3, DispatcherUnchanged DEF Submit, ServiceInv

(* The row a call works on is in the table: an insert or a get has seen it.  *)
CalledRowThere ==
    \A a \in Actor : calls[a].pc # "idle" => calls[a].job \in DOMAIN jobs

LEMMA SubmittedType ==
    ASSUME ServiceInv, CalledRowThere, NEW a \in Actor, Submitted(a)
    PROVE  ServiceInv'
  <1>1. calls[a].job \in DOMAIN jobs
    BY DEF Submitted, CalledRowThere
  <1>2. jobs[calls[a].job].session \in Session
    BY <1>1, RowStatus DEF ServiceInv
  <1>3. a \in Waiter
    BY DEF Waiter
  <1>4. DispatcherInv'
    BY <1>2, <1>3, NotifyType DEF Submitted, ServiceInv
  <1> QED
    BY <1>4, EndsType DEF Submitted, ServiceInv, ServiceTypeOK, StoreTypeOK

LEMMA BeginType ==
    ASSUME ServiceInv, NEW a \in Actor, NEW op \in GetOp, NEW j, NEW add \in SUBSET Note,
           Begin(a, op, j, add)
    PROVE  ServiceInv'
  <1> DEFINE call == [pc |-> "get", op |-> op, job |-> j, seen |-> jobs[j].status,
                      notes |-> jobs[j].notes, add |-> add]
  <1>1. j \in DOMAIN jobs
    BY DEF Begin
  <1>2. call \in CallState
    BY <1>1, RowStatus DEF CallState, ReadCall, ServiceInv
  <1>3. ServiceTypeOK'
    BY <1>2, BecomesType DEF Begin, ServiceInv
  <1> QED
    BY <1>3, DispatcherUnchanged DEF Begin, ServiceInv, StoreTypeOK

LEMMA SeenNotesTyped ==
    ASSUME StoreTypeOK, NEW j, NEW from \in JobStatuses, Expected(j, from)
    PROVE  jobs[j].notes \in SUBSET Note
  BY StatusOfRow, RowStatus DEF Expected, JobStatuses, ActiveStatus, TerminalStatus

LEMMA DecideType ==
    ASSUME ServiceInv, NEW a \in Actor, Decide(a)
    PROVE  ServiceInv'
  <1> DEFINE c == calls[a]
  <1>1. c.pc \in {"get", "lost"} /\ UNCHANGED <<dispatcherVars, announced, acked>>
    BY DEF Decide
  <1>2. /\ c.op \in GetOp /\ c.job \in Job /\ c.seen \in JobStatuses
        /\ c.notes \cup c.add \in SUBSET Note
    BY <1>1, GetType DEF ServiceInv
  <1>3. \A from : Expected(c.job, from) \in BOOLEAN
    BY DEF Expected
  <1>4. ASSUME StoreTypeOK', calls' \in [Actor -> CallState]
        PROVE  ServiceInv'
    BY <1>1, <1>4, DispatcherUnchanged DEF ServiceInv, ServiceTypeOK
  <1>5. CASE DecideFinish(a)
    <2>1. CASE Ends(a) /\ UNCHANGED jobs
      BY <1>4, <2>1, EndsType DEF ServiceInv, StoreTypeOK
    <2>2. CASE /\ TransitionStatus(c.job, c.seen, Target[c.op], jobs[c.job].notes)
               /\ Writes(a, Expected(c.job, c.seen))
               /\ c.op \in FinishOp
      <3>1. Target[c.op] \in JobStatuses /\ Target[c.op] # "pending"
        BY <2>2, TargetType DEF JobStatuses, TerminalStatus
      <3>2. StoreTypeOK'
        BY <1>2, <2>2, <3>1, SeenNotesTyped, TransitionRow DEF ServiceInv
      <3> QED
        BY <1>1, <1>3, <1>4, <2>2, <3>2, WritesType DEF ServiceInv
    <2> QED
      BY <1>5, <2>1, <2>2 DEF DecideFinish
  <1>6. CASE DecideNote(a)
    <2>1. CASE Ends(a) /\ UNCHANGED jobs
      BY <1>4, <2>1, EndsType DEF ServiceInv, StoreTypeOK
    <2>2. CASE /\ TransitionStatus(c.job, c.seen, "in_progress", c.notes \cup c.add)
               /\ Writes(a, TRUE) \/ Becomes(a, [c EXCEPT !.pc = "lost"])
      <3>1. StoreTypeOK'
        BY <1>2, <2>2, TransitionRow DEF ServiceInv, JobStatuses, ActiveStatus
      <3>2. [c EXCEPT !.pc = "lost"] \in CallState
        BY <1>1, <1>6, GetType DEF DecideNote, CallState, ReadCall, ServiceInv
      <3>3. calls' \in [Actor -> CallState]
        BY <1>1, <2>2, <3>2, WritesType DEF Becomes, ServiceInv, ServiceTypeOK
      <3> QED
        BY <1>4, <3>1, <3>3
    <2>3. CASE Patch(c.job, c.notes \cup c.add) /\ Writes(a, TRUE)
      BY <1>1, <1>2, <1>4, <2>3, PatchRow, WritesType DEF ServiceInv
    <2> QED
      BY <1>6, <2>1, <2>2, <2>3 DEF DecideNote
  <1>7. CASE DecideAck(a)
    <2>1. CASE Ends(a) /\ UNCHANGED jobs
      BY <1>4, <2>1, EndsType DEF ServiceInv, StoreTypeOK
    <2>2. CASE /\ TransitionStatus(c.job, c.seen, "in_progress", jobs[c.job].notes)
               /\ Writes(a, Expected(c.job, c.seen))
      <3>1. StoreTypeOK'
        BY <1>2, <2>2, SeenNotesTyped, TransitionRow DEF ServiceInv, JobStatuses, ActiveStatus
      <3> QED
        BY <1>1, <1>3, <1>4, <2>2, <3>1, WritesType DEF ServiceInv
    <2> QED
      BY <1>7, <2>1, <2>2 DEF DecideAck
  <1>8. CASE DecideComment(a)
    <2>1. CASE Ends(a) /\ UNCHANGED jobs
      BY <1>4, <2>1, EndsType DEF ServiceInv, StoreTypeOK
    <2>2. CASE Patch(c.job, c.notes \cup c.add) /\ Writes(a, TRUE)
      BY <1>1, <1>2, <1>4, <2>2, PatchRow, WritesType DEF ServiceInv
    <2> QED
      BY <1>8, <2>1, <2>2 DEF DecideComment
  <1> QED
    BY <1>5, <1>6, <1>7, <1>8 DEF Decide

LEMMA PatchLostType ==
    ASSUME ServiceInv, NEW a \in Actor, PatchLost(a)
    PROVE  ServiceInv'
  <1>1. calls[a].pc \in {"get", "lost"}
    BY DEF PatchLost
  <1>2. calls[a].notes \cup calls[a].add \in SUBSET Note
    BY <1>1, GetType DEF ServiceInv
  <1>3. StoreTypeOK'
    BY <1>2, PatchRow DEF PatchLost, ServiceInv
  <1>4. ServiceTypeOK'
    BY <1>1, WritesType DEF PatchLost, ServiceInv, ServiceTypeOK
  <1> QED
    BY <1>3, <1>4, DispatcherUnchanged DEF PatchLost, ServiceInv

LEMMA SettleType ==
    ASSUME ServiceInv, CalledRowThere, NEW a \in Actor, Settle(a)
    PROVE  ServiceInv'
  <1> DEFINE c == calls[a]
  <1>1. /\ c.pc = "write" /\ Ends(a) /\ UNCHANGED jobs
        /\ c.job \in DOMAIN jobs
    BY DEF Settle, CalledRowThere
  <1>2. calls' \in [Actor -> CallState] /\ StoreTypeOK'
    BY <1>1, EndsType DEF ServiceInv, StoreTypeOK
  <1>3. CASE SettleFinish(a)
    <2>1. jobs[c.job].session \in Session /\ a \in Waiter /\ c.job \in Job
      BY <1>1, RowStatus DEF ServiceInv, Waiter
    <2>2. DispatcherInv'
      BY <1>3, <2>1, NotifyType DEF SettleFinish, ServiceInv
    <2>3. Target[c.op] \in TerminalStatus
      BY <1>3, TargetType DEF SettleFinish
    <2>4. announced' = [announced EXCEPT ![c.job] = Append(announced[c.job], Target[c.op])]
      BY <1>3 DEF SettleFinish
    <2>5. announced \in [Job -> Seq(TerminalStatus)]
      BY DEF ServiceInv, ServiceTypeOK
    <2>6. Append(announced[c.job], Target[c.op]) \in Seq(TerminalStatus)
      BY <2>1, <2>3, <2>5, AppendProperties
    <2>7. announced' \in [Job -> Seq(TerminalStatus)]
      BY <2>4, <2>5, <2>6
    <2> QED
      BY <1>2, <1>3, <2>2, <2>7 DEF SettleFinish, ServiceInv, ServiceTypeOK
  <1>4. CASE SettleOther(a)
    <2>1. acked' \in [Job -> SUBSET Note]
      BY <1>1, <1>4, WriteType DEF SettleOther, ServiceInv, ServiceTypeOK
    <2> QED
      BY <1>2, <1>4, <2>1, DispatcherUnchanged DEF SettleOther, ServiceInv, ServiceTypeOK
  <1>5. CASE SettleLost(a)
    BY <1>2, <1>5, DispatcherUnchanged DEF SettleLost, ServiceInv, ServiceTypeOK
  <1> QED
    BY <1>3, <1>4, <1>5 DEF Settle
=============================================================================
