------------------------------ MODULE BrokerProofs ------------------------------
(***************************************************************************)
(* Safety of the broker for every value of the constants: whatever the     *)
(* number of jobs, sessions and callers, however the handlers interleave,  *)
(* and however often the process dies.                                     *)
(***************************************************************************)
EXTENDS TypeProofs

EventTypeOK == /\ SessionTypeOK
               /\ overdue \subseteq Job /\ aged \subseteq Job
               /\ sweep \in [Ticks -> SweepState]
               /\ reading \in BOOLEAN
               /\ crashes \in Nat /\ inherited \subseteq Job

(* TypeOK alone is not inductive: it needs that a drain under way heads its  *)
(* chain (in ServiceInv) and that the row a call works on is in the table.   *)
Inv == ServiceInv /\ CalledRowThere /\ EventTypeOK

LEMMA InvTypeOK == Inv => TypeOK
  BY DEF Inv, EventTypeOK, TypeOK, ServiceInv, DispatcherInv

-----------------------------------------------------------------------------
(* What a step of the broker does to the job table: it keeps the rows, and   *)
(* moves one job along one edge of its lifecycle or none at all.             *)

Moved(j, from, to) == /\ Status(j) = from /\ Status(j)' = to
                      /\ \A k \in Job \ {j} : Status(k)' = Status(k)

LifecycleMove ==
    \/ \A k \in Job : Status(k)' = Status(k)
    \/ \E j \in Job : \/ Moved(j, "absent", "pending")
                      \/ Moved(j, "pending", "dispatched")
                      \/ Moved(j, "dispatched", "in_progress")
                      \/ \E from \in ActiveStatus, to \in TerminalStatus : Moved(j, from, to)

TableStep == RowsKept /\ LifecycleMove

LEMMA TableUnchanged ==
    ASSUME UNCHANGED jobs
    PROVE  TableStep
  BY DEF TableStep, RowsKept, LifecycleMove, Status

LEMMA TransitionStep ==
    ASSUME StoreTypeOK, NEW j \in Job, NEW from \in ActiveStatus, NEW to \in JobStatuses,
           NEW notes, Expected(j, from) => notes \in SUBSET Note,
           TransitionStatus(j, from, to, notes),
           \/ from = "pending" /\ to = "dispatched"
           \/ from = "dispatched" /\ to = "in_progress"
           \/ to \in TerminalStatus
    PROVE  TableStep
  <1>1. from \in JobStatuses /\ to # "pending"
    BY DEF JobStatuses, ActiveStatus, TerminalStatus
  <1>2. /\ RowsKept
        /\ \/ \A k : Status(k)' = Status(k)
           \/ /\ Status(j) = from /\ Status(j)' = to
              /\ \A k : k # j => Status(k)' = Status(k)
    BY <1>1, TransitionRow
  <1> QED
    BY <1>2 DEF TableStep, LifecycleMove, Moved

LEMMA PatchStep ==
    ASSUME StoreTypeOK, NEW j, NEW notes \in SUBSET Note, Patch(j, notes)
    PROVE  TableStep
  BY PatchRow DEF TableStep, LifecycleMove

LEMMA SubmitStep ==
    ASSUME ServiceInv, NEW a, NEW j \in Job, NEW s \in Session, NEW kind \in Kind,
           Submit(a, j, s, kind)
    PROVE  TableStep /\ j \in DOMAIN jobs'
  BY InsertRow DEF Submit, ServiceInv, TableStep, LifecycleMove, Moved

LEMMA ClaimStep ==
    ASSUME ServiceInv, NEW s \in Session, Claim(s)
    PROVE  TableStep
  <1>1. CASE UNCHANGED jobs
    BY <1>1, TableUnchanged
  <1>2. ASSUME NEW j \in Pick(s, drain[s].found),
               TransitionStatus(j, "pending", "dispatched", jobs[j].notes)
        PROVE  TableStep
    <2>1. j \in Job
      BY FindingType DEF Pick, Dispatchable, Claim, ServiceInv, DispatcherInv
    <2>2. Expected(j, "pending") => jobs[j].notes \in SUBSET Note
      BY SeenNotesTyped DEF ServiceInv, JobStatuses, ActiveStatus
    <2> QED
      BY <1>2, <2>1, <2>2, TransitionStep DEF ServiceInv, JobStatuses, ActiveStatus
  <1> QED
    BY <1>1, <1>2 DEF Claim

LEMMA DrainTableStep ==
    ASSUME ServiceInv, NEW s \in Session, DrainStep(s)
    PROVE  TableStep
  BY ClaimStep, TableUnchanged DEF DrainStep, StartDrain, Send, AfterSend

LEMMA DecideStep ==
    ASSUME ServiceInv, NEW a \in Actor, Decide(a)
    PROVE  TableStep
  <1> DEFINE c == calls[a]
  <1>1. /\ c.op \in GetOp /\ c.job \in Job /\ c.seen \in JobStatuses
        /\ c.notes \cup c.add \in SUBSET Note
    BY GetType DEF Decide, ServiceInv
  <1>2. CASE UNCHANGED jobs
    BY <1>2, TableUnchanged
  <1>3. CASE Patch(c.job, c.notes \cup c.add)
    BY <1>1, <1>3, PatchStep DEF ServiceInv
  <1>4. CASE /\ TransitionStatus(c.job, c.seen, Target[c.op], jobs[c.job].notes)
             /\ c.op \in FinishOp /\ c.seen \notin TerminalStatus
    <2>1. c.seen \in ActiveStatus /\ Target[c.op] \in TerminalStatus
      BY <1>1, <1>4, TargetType DEF JobStatuses
    <2>2. Expected(c.job, c.seen) => jobs[c.job].notes \in SUBSET Note
      BY <1>1, SeenNotesTyped DEF ServiceInv
    <2> QED
      BY <1>1, <1>4, <2>1, <2>2, TransitionStep DEF ServiceInv, JobStatuses
  <1>5. CASE /\ TransitionStatus(c.job, c.seen, "in_progress", c.notes \cup c.add)
             /\ c.seen = "dispatched"
    BY <1>1, <1>5, TransitionStep DEF ServiceInv, JobStatuses, ActiveStatus
  <1>6. CASE /\ TransitionStatus(c.job, c.seen, "in_progress", jobs[c.job].notes)
             /\ c.seen = "dispatched"
    <2>1. Expected(c.job, c.seen) => jobs[c.job].notes \in SUBSET Note
      BY <1>1, SeenNotesTyped DEF ServiceInv
    <2> QED
      BY <1>1, <1>6, <2>1, TransitionStep DEF ServiceInv, JobStatuses, ActiveStatus
  <1> QED
    BY <1>2, <1>3, <1>4, <1>5, <1>6
       DEF Decide, DecideFinish, DecideNote, DecideAck, DecideComment

LEMMA CallTableStep ==
    ASSUME ServiceInv, NEW a \in Actor, CallStep(a)
    PROVE  TableStep
  <1>1. CASE Submitted(a) \/ Settle(a)
    BY <1>1, TableUnchanged DEF Submitted, Settle
  <1>2. CASE Decide(a)
    BY <1>2, DecideStep
  <1>3. CASE PatchLost(a)
    BY <1>3, GetType, PatchStep DEF PatchLost, ServiceInv
  <1> QED
    BY <1>1, <1>2, <1>3 DEF CallStep

-----------------------------------------------------------------------------
(* Which call works on which row is settled when the call begins.            *)

LEMMA CallStepKeepsRow ==
    ASSUME ServiceInv, CalledRowThere, NEW a \in Actor, CallStep(a)
    PROVE  CalledRowThere'
  <1>1. RowsKept
    BY CallTableStep DEF TableStep
  <1>2. /\ \A b \in Actor \ {a} : calls'[b] = calls[b]
        /\ \/ calls'[a].pc = "idle"
           \/ calls'[a].job = calls[a].job /\ calls[a].pc # "idle"
    <2> DEFINE c == calls[a]
    <2>1. calls \in [Actor -> CallState]
      BY DEF ServiceInv, ServiceTypeOK
    <2>2. c.pc \in {"get", "lost"} => [c EXCEPT !.pc = "lost"].job = c.job
      BY GetType DEF ReadCall, ServiceInv
    <2>3. CASE Ends(a)
      BY <2>1, <2>3 DEF Ends, Becomes, Idle
    <2>4. CASE \E done : Writes(a, done) /\ c.pc # "idle"
      BY <2>1, <2>4 DEF Writes, Becomes
    <2>5. CASE Becomes(a, [c EXCEPT !.pc = "lost"]) /\ c.pc = "get"
      BY <2>1, <2>2, <2>5 DEF Becomes
    <2> QED
      BY <2>3, <2>4, <2>5
         DEF CallStep, Submitted, Decide, DecideFinish, DecideNote, DecideAck, DecideComment,
             PatchLost, Settle
  <1> QED
    BY <1>1, <1>2 DEF CalledRowThere, RowsKept

LEMMA BeginKeepsRow ==
    ASSUME ServiceInv, CalledRowThere, NEW a \in Actor, NEW op, NEW j, NEW add,
           Begin(a, op, j, add)
    PROVE  CalledRowThere'
  BY DEF Begin, Becomes, CalledRowThere, ServiceInv, ServiceTypeOK

LEMMA SubmitKeepsRow ==
    ASSUME ServiceInv, CalledRowThere, NEW a \in Actor, NEW j \in Job, NEW s \in Session,
           NEW kind \in Kind, Submit(a, j, s, kind)
    PROVE  CalledRowThere'
  <1>1. RowsKept /\ j \in DOMAIN jobs'
    BY SubmitStep DEF TableStep
  <1> QED
    BY <1>1 DEF Submit, Becomes, CalledRowThere, ServiceInv, ServiceTypeOK, RowsKept

-----------------------------------------------------------------------------
(* The steps of Broker itself.                                               *)

(* A step that leaves the service and the dispatcher alone.                  *)
LEMMA ServiceUnchanged ==
    ASSUME Inv, UNCHANGED <<jobs, dispatcherVars, serviceVars>>
    PROVE  ServiceInv' /\ CalledRowThere' /\ TableStep
  <1>1. StoreTypeOK' /\ ServiceTypeOK' /\ CalledRowThere'
    BY DEF Inv, ServiceInv, StoreTypeOK, ServiceTypeOK, CalledRowThere, serviceVars
  <1>2. DispatcherInv'
    BY DispatcherUnchanged DEF Inv, ServiceInv
  <1> QED
    BY <1>1, <1>2, TableUnchanged DEF ServiceInv

LEMMA RequestStep ==
    ASSUME Inv, NEW a \in Caller, Request(a)
    PROVE  Inv' /\ TableStep
  <1>1. /\ UNCHANGED <<sessionVars, timeVars, sweep, reading, crashes, inherited>>
        /\ a \in Actor
    BY ActorAssumption DEF Request
  <1>2. PICK j \in Job, s \in Session, kind \in Kind : Submit(a, j, s, kind)
    BY DEF Request
  <1>3. ServiceInv' /\ CalledRowThere' /\ TableStep
    BY <1>1, <1>2, SubmitType, SubmitKeepsRow, SubmitStep DEF Inv
  <1> QED
    BY <1>1, <1>3 DEF Inv, EventTypeOK, SessionTypeOK, sessionVars, timeVars

(* A call of any kind begins by reading one row.                             *)
LEMMA BeginStep ==
    ASSUME Inv, NEW a \in Actor, NEW op \in GetOp, NEW j, NEW add \in SUBSET Note,
           Begin(a, op, j, add)
    PROVE  ServiceInv' /\ CalledRowThere' /\ TableStep
  BY BeginType, BeginKeepsRow, TableUnchanged DEF Begin, Inv

LEMMA CallBeginsStep ==
    ASSUME Inv, NEW a \in Caller, NEW op \in ToolOp \cup HttpOp,
           ToolCall(a, op) \/ HttpCall(a, op)
    PROVE  Inv' /\ TableStep
  <1>1. UNCHANGED <<sessionVars, timeVars, sweep, crashes, inherited>>
    BY DEF ToolCall, HttpCall
  <1>2. reading' \in BOOLEAN
    BY DEF ToolCall, HttpCall, Inv, EventTypeOK
  <1>3. a \in Actor /\ op \in GetOp
    BY ActorAssumption DEF ToolOp, HttpOp, GetOp, FinishOp, AppendOp
  <1>4. PICK j \in Job, add \in Appended(op) : Begin(a, op, j, add)
    BY DEF ToolCall, HttpCall
  <1>5. add \in SUBSET Note
    BY <1>4 DEF Appended
  <1>6. ServiceInv' /\ CalledRowThere' /\ TableStep
    BY <1>3, <1>4, <1>5, BeginStep
  <1> QED
    BY <1>1, <1>2, <1>6 DEF Inv, EventTypeOK, SessionTypeOK, sessionVars, timeVars

LEMMA WorkStep ==
    ASSUME Inv, NEW a \in Actor, Work(a)
    PROVE  Inv' /\ TableStep
  <1>1. /\ UNCHANGED <<sessionVars, timeVars, sweep, crashes, inherited>>
        /\ reading' = FALSE /\ CallStep(a)
    BY DEF Work
  <1>2. ServiceInv'
    BY <1>1, SubmittedType, DecideType, PatchLostType, SettleType DEF CallStep, Inv
  <1>3. CalledRowThere' /\ TableStep
    BY <1>1, CallStepKeepsRow, CallTableStep DEF Inv
  <1> QED
    BY <1>1, <1>2, <1>3 DEF Inv, EventTypeOK, SessionTypeOK, sessionVars, timeVars

LEMMA AttachStep ==
    ASSUME Inv, NEW s \in Session, Attach(s)
    PROVE  Inv' /\ TableStep
  <1>1. /\ AttachSession(s) \/ AttachReplaced(s)
        /\ NotifySessionAttached(s)
        /\ UNCHANGED <<jobs, serviceVars, timeVars, sweep, reading, crashes, inherited>>
    BY DEF Attach
  <1>2. SessionTypeOK'
    BY <1>1 DEF Inv, EventTypeOK, AttachSession, AttachReplaced, RegisterIn, SessionTypeOK
  <1>3. chain' \in [Session -> Seq(Waiter)] /\ DrainHeadsChain'
    BY <1>1, RunForSessionType DEF NotifySessionAttached, Inv, ServiceInv, Waiter
  <1>4. DispatcherInv'
    BY <1>1, <1>3 DEF NotifySessionAttached, Inv, ServiceInv, DispatcherInv, DispatcherTypeOK
  <1>5. StoreTypeOK' /\ ServiceTypeOK' /\ CalledRowThere'
    BY <1>1 DEF Inv, ServiceInv, StoreTypeOK, ServiceTypeOK, CalledRowThere, serviceVars
  <1> QED
    BY <1>1, <1>2, <1>4, <1>5, TableUnchanged DEF Inv, ServiceInv, EventTypeOK, timeVars

LEMMA DisconnectStep ==
    ASSUME Inv, NEW s \in Session, Disconnect(s)
    PROVE  Inv' /\ TableStep
  <1>1. UNCHANGED <<jobs, dispatcherVars, serviceVars, timeVars, sweep, reading, crashes, inherited>>
    BY DEF Disconnect
  <1>2. SessionTypeOK'
    BY DEF Disconnect, CloseConnection, DeleteSession, DetachIn, Inv, EventTypeOK, SessionTypeOK
  <1> QED
    BY <1>1, <1>2, ServiceUnchanged DEF Inv, EventTypeOK, timeVars

LEMMA DrainSessionStep ==
    ASSUME Inv, NEW s \in Session, Drain(s)
    PROVE  Inv' /\ TableStep
  <1>1. /\ DrainStep(s) /\ reading' = FALSE
        /\ UNCHANGED <<sessionVars, serviceVars, timeVars, sweep, crashes, inherited>>
    BY DEF Drain
  <1>2. DispatcherInv' /\ StoreTypeOK'
    BY <1>1, DrainStepType DEF Inv, ServiceInv, EventTypeOK
  <1>3. TableStep
    BY <1>1, DrainTableStep DEF Inv
  <1>4. ServiceTypeOK' /\ CalledRowThere'
    BY <1>1, <1>3 DEF Inv, ServiceInv, ServiceTypeOK, CalledRowThere, serviceVars,
                       TableStep, RowsKept
  <1> QED
    BY <1>1, <1>2, <1>3, <1>4
       DEF Inv, ServiceInv, EventTypeOK, SessionTypeOK, sessionVars, timeVars

LEMMA TimePassesStep ==
    ASSUME Inv, NEW j \in Job, TimePasses(j)
    PROVE  Inv' /\ TableStep
  <1>1. UNCHANGED <<jobs, sessionVars, dispatcherVars, serviceVars, sweep, reading, crashes, inherited>>
    BY DEF TimePasses
  <1>2. overdue' \subseteq Job /\ aged' \subseteq Job
    BY DEF TimePasses, Expire, Age, Inv, EventTypeOK
  <1> QED
    BY <1>1, <1>2, ServiceUnchanged DEF Inv, EventTypeOK, SessionTypeOK, sessionVars

(* The rows a tick works through are ids of jobs, and the sweeper is an actor. *)
LEMMA SweepSteps ==
    ASSUME Inv, NEW t \in Ticks, SweepStep(t)
    PROVE  Inv' /\ TableStep
  <1>1. UNCHANGED <<timeVars, reading, crashes, inherited>>
    BY DEF SweepStep, TickStart, ExpireNext, ListJobsInFlight, OrphanNext, TickEnd
  <1>2. sweep[t].pc \in {"expire", "orphan"} => /\ sweep[t].todo \subseteq Job
                                                /\ sweep[t].old \subseteq Job
    BY DEF Inv, EventTypeOK, SweepState, NoTick
  <1>3. t \in Actor /\ {"expire", "orphan"} \subseteq GetOp
    BY ActorAssumption DEF GetOp, FinishOp
  <1>4. ASSUME NEW pc \in {"expire", "orphan"}, NEW todo \in SUBSET Job,
               NEW old \in SUBSET Job, Sweeping(t, pc, todo, old)
        PROVE  sweep' \in [Ticks -> SweepState]
    BY <1>4 DEF Sweeping, SweepState, Inv, EventTypeOK
  <1>5. CASE TickStart(t)
    <2>1. /\ UNCHANGED <<jobs, dispatcherVars, serviceVars>>
          /\ SessionTypeOK'
      BY <1>5 DEF TickStart, EvictStale, Inv, EventTypeOK, SessionTypeOK
    <2>2. PICK batch \in FindExpired(overdue, BatchSize) : Sweeping(t, "expire", batch, aged)
      BY <1>5 DEF TickStart
    <2>3. batch \subseteq Job
      BY ExpiredAreRows DEF Inv, ServiceInv, StoreTypeOK
    <2>4. sweep' \in [Ticks -> SweepState]
      BY <1>4, <2>2, <2>3 DEF Inv, EventTypeOK
    <2> QED
      BY <1>1, <2>1, <2>4, ServiceUnchanged DEF Inv, EventTypeOK, timeVars
  <1>6. CASE ExpireNext(t)
    <2>1. PICK j \in sweep[t].todo : /\ Begin(t, "expire", j, {})
                                  /\ Sweeping(t, "expire", sweep[t].todo \ {j}, sweep[t].old)
      BY <1>6 DEF ExpireNext
    <2>2. sweep' \in [Ticks -> SweepState] /\ UNCHANGED sessionVars
      BY <1>2, <1>4, <1>6, <2>1 DEF ExpireNext
    <2>3. ServiceInv' /\ CalledRowThere' /\ TableStep
      BY <1>3, <2>1, BeginStep
    <2> QED
      BY <1>1, <2>2, <2>3 DEF Inv, EventTypeOK, SessionTypeOK, sessionVars, timeVars
  <1>7. CASE ListJobsInFlight(t)
    <2>1. ListInFlight(BatchSize) \subseteq Job
      BY ListedAreInFlight DEF Inv, ServiceInv, StoreTypeOK
    <2>2. /\ sweep' \in [Ticks -> SweepState]
          /\ UNCHANGED <<jobs, sessionVars, dispatcherVars, serviceVars>>
      BY <1>2, <1>4, <1>7, <2>1 DEF ListJobsInFlight
    <2> QED
      BY <1>1, <2>2, ServiceUnchanged DEF Inv, EventTypeOK, SessionTypeOK, sessionVars, timeVars
  <1>8. CASE OrphanNext(t)
    <2>1. PICK j \in Orphans(t) : /\ Begin(t, "orphan", j, {})
                               /\ Sweeping(t, "orphan", {k \in sweep[t].todo : k < j}, sweep[t].old)
      BY <1>8 DEF OrphanNext
    <2>2. sweep' \in [Ticks -> SweepState] /\ UNCHANGED sessionVars
      BY <1>2, <1>4, <1>8, <2>1 DEF OrphanNext
    <2>3. ServiceInv' /\ CalledRowThere' /\ TableStep
      BY <1>3, <2>1, BeginStep
    <2> QED
      BY <1>1, <2>2, <2>3 DEF Inv, EventTypeOK, SessionTypeOK, sessionVars, timeVars
  <1>9. CASE TickEnd(t)
    <2>1. /\ sweep' \in [Ticks -> SweepState]
          /\ UNCHANGED <<jobs, sessionVars, dispatcherVars, serviceVars>>
      BY <1>9 DEF TickEnd, SweepState, NoTick, Inv, EventTypeOK
    <2> QED
      BY <1>1, <2>1, ServiceUnchanged DEF Inv, EventTypeOK, SessionTypeOK, sessionVars, timeVars
  <1> QED
    BY <1>5, <1>6, <1>7, <1>8, <1>9 DEF SweepStep

LEMMA CrashStep ==
    ASSUME Inv, Crash
    PROVE  Inv' /\ TableStep
  <1>1. UNCHANGED <<jobs, sent, announced, acked, timeVars>>
    BY DEF Crash
  <1>2. DispatcherInv'
    <2>1. /\ chain' = [s \in Session |-> << >>] /\ drain' = [s \in Session |-> Resting]
          /\ running' = FALSE /\ busy' = {}
      BY DEF Crash
    <2>2. Resting \in DrainState /\ << >> \in Seq(Waiter)
      BY EmptySeq DEF DrainState
    <2> QED
      BY <1>1, <2>1, <2>2 DEF Inv, ServiceInv, DispatcherInv, DispatcherTypeOK, DrainHeadsChain
  <1>3. /\ calls' = [a \in Actor |-> Idle] /\ Idle \in CallState
        /\ ServiceTypeOK' /\ StoreTypeOK'
    BY <1>1 DEF Crash, Inv, ServiceInv, ServiceTypeOK, StoreTypeOK, CallState
  <1>4. CalledRowThere'
    BY <1>3 DEF CalledRowThere, Idle
  <1>5. SessionTypeOK'
    BY DEF Crash, SessionTypeOK
  <1>6. /\ sweep' \in [Ticks -> SweepState] /\ reading' \in BOOLEAN
        /\ crashes' = crashes + 1 /\ UNCHANGED inherited
    BY DEF Crash, NoTick, SweepState
  <1>7. EventTypeOK'
    BY <1>1, <1>5, <1>6 DEF Inv, EventTypeOK, timeVars
  <1> QED
    BY <1>1, <1>2, <1>3, <1>4, <1>7, TableUnchanged DEF Inv, ServiceInv

LEMMA RestartStep ==
    ASSUME Inv, Restart
    PROVE  Inv' /\ TableStep
  <1>1. /\ UNCHANGED <<jobs, sessionVars, serviceVars, timeVars, sweep, reading, crashes>>
        /\ UNCHANGED <<chain, drain, sent>> /\ running' = TRUE /\ inherited' = InFlight
    BY DEF Restart, Start
  <1>2. busy' \subseteq Session
    BY ListedAreInFlight, RowStatus DEF Restart, Start, Inv, ServiceInv
  <1>3. DispatcherInv'
    BY <1>1, <1>2 DEF Inv, ServiceInv, DispatcherInv, DispatcherTypeOK, DrainHeadsChain
  <1>4. StoreTypeOK' /\ ServiceTypeOK' /\ CalledRowThere'
    BY <1>1 DEF Inv, ServiceInv, StoreTypeOK, ServiceTypeOK, CalledRowThere, serviceVars
  <1>5. inherited' \subseteq Job
    BY <1>1 DEF InFlight, Inv, ServiceInv, StoreTypeOK
  <1> QED
    BY <1>1, <1>3, <1>4, <1>5, TableUnchanged
       DEF Inv, ServiceInv, EventTypeOK, SessionTypeOK, sessionVars, timeVars

-----------------------------------------------------------------------------
LEMMA InitInv == Init => Inv
  <1> SUFFICES ASSUME Init PROVE Inv
    OBVIOUS
  <1>1. StoreTypeOK
    BY DEF Init, StoreTypeOK
  <1>2. DispatcherInv
    BY DEF Init, DispatcherInit, NothingQueued, DispatcherInv, DispatcherTypeOK, DrainState,
           DrainHeadsChain
  <1>3. ServiceTypeOK /\ CalledRowThere
    BY DEF Init, ServiceInit, NoCalls, ServiceTypeOK, CallState, CalledRowThere, Idle
  <1>4. EventTypeOK
    BY DEF Init, SessionInit, EventTypeOK, SessionTypeOK, NoTicks, SweepState
  <1> QED
    BY <1>1, <1>2, <1>3, <1>4 DEF Inv, ServiceInv

LEMMA NextInv ==
    ASSUME Inv, [Next]_vars
    PROVE  Inv' /\ TableStep
  <1>1. CASE UNCHANGED vars
    BY <1>1, ServiceUnchanged DEF vars, Inv, EventTypeOK, SessionTypeOK, sessionVars, timeVars
  <1>2. CASE Next
    BY <1>2, RequestStep, CallBeginsStep, WorkStep, AttachStep, DisconnectStep,
       DrainSessionStep, TimePassesStep, SweepSteps, CrashStep, RestartStep DEF Next
  <1> QED
    BY <1>1, <1>2

(* Every variable keeps to its type: in particular a drain is only ever under *)
(* way for a session whose chain it heads, and every queued waiter is one.    *)
THEOREM TypeCorrect == Spec => []TypeOK
  <1>1. Inv /\ [Next]_vars => Inv'
    BY NextInv
  <1> QED
    BY InitInv, InvTypeOK, <1>1, PTL DEF Spec

(* A step of a call is no other call's.                                        *)
LEMMA OthersKeepCalls ==
    ASSUME Inv, NEW a \in Actor, NEW call, Becomes(a, call)
    PROVE  calls'[a] = call /\ \A b \in Actor \ {a} : calls'[b] = calls[b]
  BY DEF Becomes, Inv, ServiceInv, ServiceTypeOK

-----------------------------------------------------------------------------
(* The refinement: the abstract status of a job is the status of its row.    *)

StatusMap == [j \in Job |-> Status(j)]

LEMMA MovedMaps ==
    ASSUME NEW j \in Job, NEW from, NEW to, Moved(j, from, to)
    PROVE  Lifecycle!Move(j, from, to)
  <1>1. StatusMap' = [StatusMap EXCEPT ![j] = to]
    BY DEF StatusMap, Moved
  <1> QED
    BY <1>1 DEF StatusMap, Moved, Lifecycle!Move

LEMMA StepMaps ==
    ASSUME LifecycleMove
    PROVE  [Lifecycle!Next]_StatusMap
  <1>1. CASE \A k \in Job : Status(k)' = Status(k)
    BY <1>1 DEF StatusMap
  <1>2. ASSUME NEW j \in Job, Moved(j, "absent", "pending")
        PROVE  Lifecycle!Next
    BY <1>2, MovedMaps DEF Lifecycle!Next, Lifecycle!Create
  <1>3. ASSUME NEW j \in Job, Moved(j, "pending", "dispatched")
        PROVE  Lifecycle!Next
    BY <1>3, MovedMaps DEF Lifecycle!Next, Lifecycle!Dispatch
  <1>4. ASSUME NEW j \in Job, Moved(j, "dispatched", "in_progress")
        PROVE  Lifecycle!Next
    BY <1>4, MovedMaps DEF Lifecycle!Next, Lifecycle!Start
  <1>5. ASSUME NEW j \in Job, NEW from \in ActiveStatus, NEW to \in TerminalStatus,
               Moved(j, from, to)
        PROVE  Lifecycle!Next
    <2>1. Lifecycle!Finish(j)
      BY <1>5, MovedMaps DEF Lifecycle!Finish, ActiveStatus, TerminalStatus,
         Lifecycle!ActiveStatus, Lifecycle!TerminalStatus
    <2> QED
      BY <2>1 DEF Lifecycle!Next
  <1> QED
    BY <1>1, <1>2, <1>3, <1>4, <1>5 DEF LifecycleMove

(* The broker implements the lifecycle: a job is created once, dispatched    *)
(* once, finished at most once from an active state, and never changes again *)
(* after that, whatever calls, drains, sweeps and crashes interleave on it.  *)
THEOREM RefinesLifecycle == Spec => LifecycleSpec
  <1>1. Init => Lifecycle!Init
    BY DEF Init, Lifecycle!Init, Status
  <1>2. Inv /\ [Next]_vars => Inv' /\ [Lifecycle!Next]_StatusMap
    BY NextInv, StepMaps DEF TableStep
  <1> QED
    BY InitInv, <1>1, <1>2, PTL DEF Spec, LifecycleSpec, Lifecycle!Spec, StatusMap
====
