----------------------------- MODULE DeliveryProofs -----------------------------
(***************************************************************************)
(* A job's dispatch message is written at most once.  The argument: a      *)
(* message is only written by a drain that has won the move from pending   *)
(* to dispatched; no row ever returns to pending; and no two drains work   *)
(* on one job, since each works on jobs of its own session.                *)
(***************************************************************************)
EXTENDS BrokerProofs

NotDispatched(j) == j \in DOMAIN jobs => jobs[j].status = "pending"

UnsentWhilePending == \A j \in Job : NotDispatched(j) => sent[j] = 0

FoundBelong ==
    \A s \in Session : drain[s].pc = "finding" =>
      \A j \in drain[s].found : j \in DOMAIN jobs /\ jobs[j].session = s

ClaimedUnsent ==
    \A s \in Session : drain[s].pc = "claiming" /\ drain[s].claimed =>
      LET j == drain[s].job
      IN  /\ j \in DOMAIN jobs /\ jobs[j].session = s
          /\ jobs[j].status # "pending"
          /\ sent[j] = 0

DeliveryInv == UnsentWhilePending /\ FoundBelong /\ ClaimedUnsent /\ SentAtMostOnce

-----------------------------------------------------------------------------
LEMMA StillUnsent ==
    ASSUME RowsKept, NEW j \in Job, NotDispatched(j)'
    PROVE  NotDispatched(j)
  BY DEF RowsKept, NotDispatched

(* A step that writes no message and gives no drain anything new to do.      *)
LEMMA QuietStep ==
    ASSUME Inv, DeliveryInv, RowsKept, UNCHANGED sent,
           \A s \in Session : drain'[s] = drain[s] \/ drain'[s].pc \in {"resting", "sending"}
    PROVE  DeliveryInv'
  <1>1. UnsentWhilePending'
    BY StillUnsent DEF DeliveryInv, UnsentWhilePending
  <1>2. FoundBelong'
    BY DEF DeliveryInv, FoundBelong, RowsKept
  <1>3. ClaimedUnsent'
    BY DEF DeliveryInv, ClaimedUnsent, RowsKept
  <1> QED
    BY <1>1, <1>2, <1>3 DEF DeliveryInv, SentAtMostOnce

LEMMA ReturnDelivers ==
    ASSUME Inv, DeliveryInv, NEW s \in Session, Return(s), UNCHANGED <<jobs, sent>>
    PROVE  DeliveryInv'
  <1>1. \A r \in Session : drain'[r] = drain[r] \/ drain'[r].pc = "resting"
    BY DEF Return, Resting, Inv, ServiceInv, DispatcherInv, DispatcherTypeOK
  <1>2. RowsKept
    BY TableUnchanged DEF TableStep
  <1> QED
    BY <1>1, <1>2, QuietStep

LEMMA LoopDelivers ==
    ASSUME Inv, DeliveryInv, NEW s \in Session, Loop(s), UNCHANGED <<jobs, sent>>
    PROVE  DeliveryInv'
  <1>1. CASE ~running
    BY <1>1, ReturnDelivers DEF Loop
  <1>2. CASE running
    <2>1. drain' = [drain EXCEPT ![s] = [pc |-> "finding", found |-> FindPending(s)]]
      BY <1>2 DEF Loop
    <2>2. \A r \in Session : drain'[r] = IF r = s
                                         THEN [pc |-> "finding", found |-> FindPending(s)]
                                         ELSE drain[r]
      BY <2>1 DEF Inv, ServiceInv, DispatcherInv, DispatcherTypeOK
    <2>3. FoundBelong'
      BY <2>2, FoundArePending DEF DeliveryInv, FoundBelong
    <2>4. ClaimedUnsent'
      BY <2>2 DEF DeliveryInv, ClaimedUnsent
    <2> QED
      BY <2>3, <2>4 DEF DeliveryInv, UnsentWhilePending, NotDispatched, SentAtMostOnce
  <1> QED
    BY <1>1, <1>2

LEMMA ClaimDelivers ==
    ASSUME Inv, DeliveryInv, NEW s \in Session, Claim(s)
    PROVE  DeliveryInv'
  <1>1. UNCHANGED sent /\ drain[s].pc = "finding"
    BY DEF Claim
  <1>2. CASE Return(s) /\ UNCHANGED jobs
    BY <1>1, <1>2, ReturnDelivers
  <1>3. ASSUME NEW j \in Pick(s, drain[s].found),
               TransitionStatus(j, "pending", "dispatched", jobs[j].notes),
               drain' = [drain EXCEPT ![s] = [pc |-> "claiming", job |-> j,
                                              claimed |-> Expected(j, "pending")]]
        PROVE  DeliveryInv'
    <2>1. j \in DOMAIN jobs /\ j \in Job /\ jobs[j].session = s
      BY <1>1 DEF Pick, Dispatchable, DeliveryInv, FoundBelong, Inv, ServiceInv, StoreTypeOK
    <2>2. Expected(j, "pending") => jobs[j].notes \in SUBSET Note
      BY SeenNotesTyped DEF Inv, ServiceInv, JobStatuses, ActiveStatus
    <2>3. /\ RowsKept
          /\ Expected(j, "pending") => jobs'[j].status = "dispatched"
      BY <1>3, <2>2, TransitionRow DEF Inv, ServiceInv, JobStatuses, ActiveStatus
    <2>4. \A r \in Session : drain'[r] = IF r = s
                                         THEN [pc |-> "claiming", job |-> j,
                                               claimed |-> Expected(j, "pending")]
                                         ELSE drain[r]
      BY <1>3 DEF Inv, ServiceInv, DispatcherInv, DispatcherTypeOK
    <2>5. Expected(j, "pending") => sent[j] = 0
      BY <2>1 DEF DeliveryInv, UnsentWhilePending, NotDispatched, Expected, Status
    <2>6. UnsentWhilePending'
      BY <1>1, <2>3, StillUnsent DEF DeliveryInv, UnsentWhilePending
    <2>7. FoundBelong'
      BY <2>3, <2>4 DEF DeliveryInv, FoundBelong, RowsKept
    <2>8. ASSUME NEW r \in Session, drain'[r].pc = "claiming", drain'[r].claimed
          PROVE  LET k == drain'[r].job
                 IN  /\ k \in DOMAIN jobs' /\ jobs'[k].session = r
                     /\ jobs'[k].status # "pending" /\ sent'[k] = 0
      <3>1. CASE r = s
        BY <1>1, <2>1, <2>3, <2>4, <2>5, <2>8, <3>1 DEF RowsKept
      <3>2. CASE r # s
        BY <1>1, <2>3, <2>4, <2>8, <3>2 DEF DeliveryInv, ClaimedUnsent, RowsKept
      <3> QED
        BY <3>1, <3>2
    <2>9. ClaimedUnsent'
      BY <2>8 DEF ClaimedUnsent
    <2> QED
      BY <1>1, <2>6, <2>7, <2>9 DEF DeliveryInv, SentAtMostOnce
  <1> QED
    BY <1>2, <1>3 DEF Claim

LEMMA SendDelivers ==
    ASSUME Inv, DeliveryInv, NEW s \in Session, Send(s)
    PROVE  DeliveryInv'
  <1>1. drain[s].pc = "claiming" /\ UNCHANGED jobs
    BY DEF Send
  <1>2. CASE ~drain[s].claimed
    BY <1>1, <1>2, LoopDelivers DEF Send
  <1>3. CASE drain[s].claimed
    <2> DEFINE j == drain[s].job
    <2>1. /\ j \in DOMAIN jobs /\ jobs[j].session = s
          /\ jobs[j].status # "pending" /\ sent[j] = 0
      BY <1>1, <1>3 DEF DeliveryInv, ClaimedUnsent
    <2>2. ~NotDispatched(j)
      BY <2>1 DEF NotDispatched
    <2>3. \A k \in Job : \/ sent'[k] = sent[k]
                         \/ k = j /\ sent'[k] = 1
      BY <1>3, <2>1 DEF Send, Reachable, Inv, ServiceInv, DispatcherInv, DispatcherTypeOK
    <2>4. \A r \in Session : drain'[r] = IF r = s
                                         THEN [pc |-> "sending", job |-> j,
                                               written |-> linked[s]]
                                         ELSE drain[r]
      BY <1>3 DEF Send, Reachable, Inv, ServiceInv, DispatcherInv, DispatcherTypeOK
    <2>5. UnsentWhilePending'
      BY <1>1, <2>2, <2>3 DEF DeliveryInv, UnsentWhilePending, NotDispatched
    <2>6. FoundBelong'
      BY <1>1, <2>4 DEF DeliveryInv, FoundBelong
    <2>7. ASSUME NEW r \in Session, drain'[r].pc = "claiming", drain'[r].claimed
          PROVE  LET k == drain'[r].job
                 IN  /\ k \in DOMAIN jobs' /\ jobs'[k].session = r
                     /\ jobs'[k].status # "pending" /\ sent'[k] = 0
      <3>1. r # s /\ drain'[r] = drain[r]
        BY <2>4, <2>7
      <3>2. /\ drain[r].job \in DOMAIN jobs /\ jobs[drain[r].job].session = r
            /\ jobs[drain[r].job].status # "pending" /\ sent[drain[r].job] = 0
        BY <2>7, <3>1 DEF DeliveryInv, ClaimedUnsent
      <3>3. drain[r].job # j /\ drain[r].job \in Job
        BY <2>1, <3>1, <3>2 DEF Inv, ServiceInv, StoreTypeOK
      <3> QED
        BY <1>1, <2>3, <3>1, <3>2, <3>3
    <2>8. ClaimedUnsent'
      BY <2>7 DEF ClaimedUnsent
    <2>9. SentAtMostOnce'
      BY <2>3 DEF DeliveryInv, SentAtMostOnce
    <2> QED
      BY <2>5, <2>6, <2>8, <2>9 DEF DeliveryInv
  <1> QED
    BY <1>2, <1>3

LEMMA DrainDelivers ==
    ASSUME Inv, DeliveryInv, NEW s \in Session, DrainStep(s)
    PROVE  DeliveryInv'
  <1>1. CASE StartDrain(s) \/ AfterSend(s)
    BY <1>1, LoopDelivers, ReturnDelivers DEF StartDrain, AfterSend
  <1> QED
    BY <1>1, ClaimDelivers, SendDelivers DEF DrainStep

LEMMA NextDelivers ==
    ASSUME Inv, DeliveryInv, [Next]_vars
    PROVE  DeliveryInv'
  <1>1. RowsKept
    BY NextInv DEF TableStep
  <1>2. CASE UNCHANGED <<drain, sent>>
    BY <1>1, <1>2, QuietStep
  <1>3. CASE Crash
    BY <1>1, <1>3, QuietStep DEF Crash, Resting
  <1>4. CASE \E s \in Session : Drain(s)
    BY <1>4, DrainDelivers DEF Drain
  <1>5. \/ UNCHANGED <<drain, sent>>
        \/ Crash
        \/ \E s \in Session : Drain(s)
    <2>1. \A a \in Caller : Request(a) => UNCHANGED <<drain, sent>>
      BY DEF Request, Submit, dispatcherVars
    <2>2. \A a \in Actor : \A op, j, add : Begin(a, op, j, add) => UNCHANGED <<drain, sent>>
      BY DEF Begin, dispatcherVars
    <2>3. \A a \in Caller, op \in Ops :
            ToolCall(a, op) \/ HttpCall(a, op) => UNCHANGED <<drain, sent>>
      BY <2>2, ActorAssumption DEF ToolCall, HttpCall
    <2>4. \A a \in Actor : Work(a) => UNCHANGED <<drain, sent>>
      BY DEF Work, CallStep, Submitted, NotifyPending, Decide, PatchLost, Settle,
         SettleFinish, NotifyDone, SettleOther, SettleLost, dispatcherVars
    <2>5. \A s \in Session : Attach(s) \/ Disconnect(s) => UNCHANGED <<drain, sent>>
      BY DEF Attach, NotifySessionAttached, Disconnect, dispatcherVars
    <2>6. \A j \in Job : TimePasses(j) => UNCHANGED <<drain, sent>>
      BY DEF TimePasses, dispatcherVars
    <2>7. \A t \in Ticks : SweepStep(t) => UNCHANGED <<drain, sent>>
      BY <2>2, ActorAssumption
         DEF SweepStep, TickStart, ExpireNext, ListJobsInFlight, OrphanNext, TickEnd,
             dispatcherVars
    <2>8. Restart => UNCHANGED <<drain, sent>>
      BY DEF Restart, Start
    <2>9. UNCHANGED vars => UNCHANGED <<drain, sent>>
      BY DEF vars, dispatcherVars
    <2> QED
      BY <2>1, <2>3, <2>4, <2>5, <2>6, <2>7, <2>8, <2>9 DEF Next
  <1> QED
    BY <1>2, <1>3, <1>4, <1>5

(* No session receives a job twice: however drains overlap with finishing     *)
(* calls, sessions come and go, and the process dies and rebuilds its marks,  *)
(* the dispatch message of a job is written to a shim at most once.           *)
THEOREM AtMostOnce == Spec => []SentAtMostOnce
  <1>1. Init => DeliveryInv
    BY DEF Init, DispatcherInit, NothingQueued, Resting, DeliveryInv, UnsentWhilePending,
           FoundBelong, ClaimedUnsent, SentAtMostOnce
  <1>2. Inv /\ DeliveryInv /\ [Next]_vars => Inv' /\ DeliveryInv'
    BY NextInv, NextDelivers
  <1>3. DeliveryInv => SentAtMostOnce
    BY DEF DeliveryInv
  <1> QED
    BY InitInv, <1>1, <1>2, <1>3, PTL DEF Spec
=============================================================================
