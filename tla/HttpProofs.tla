------------------------------- MODULE HttpProofs -------------------------------
(***************************************************************************)
(* The HTTP server, for every number of jobs, sessions, callers, waiting   *)
(* requests and streams.  What is proved of Broker carries over, since a   *)
(* step of HttpServer is a step of Broker or leaves Broker's state alone.  *)
(***************************************************************************)
EXTENDS HttpServer, DeliveryProofs, AnnounceProofs

(* HttpServer only lets Broker's handlers start when they may, and listens.  *)
LEMMA StartsStep == Starts => Next
  BY DEF Starts, Next, SweepStep

LEMMA GoesOnStep == GoesOn => Next
  BY DEF GoesOn, Works, Next, SweepStep

\* A step of Broker that no request notices: all but those of a call, and the
\* process dying.
Unnoticed == /\ \/ Starts
                \/ \E s \in Session : Drain(s)
                \/ \E j \in Job : TimePasses(j)
                \/ \E t \in Ticks : ExpireNext(t) \/ ListJobsInFlight(t) \/ OrphanNext(t) \/ TickEnd(t)
                \/ Restart
                \/ UNCHANGED vars
             /\ UNCHANGED httpVars

WaitMove == /\ \E w \in Waiting : StartWait(w) \/ TimeIsUp(w) \/ Listen(w) \/ ReadAgain(w)
            /\ UNCHANGED <<vars, streams, cancelVars>>

StreamMove == /\ \E v \in Watching : OpenStream(v) \/ CloseStream(v) \/ Subscribe(v)
              /\ UNCHANGED <<vars, waitVars, cancelVars>>

LEMMA HttpCases ==
    ASSUME [HttpNext]_allVars
    PROVE  \/ Unnoticed
           \/ \E a \in Actor : Works(a)
           \/ Dies
           \/ WaitMove
           \/ StreamMove
           \/ \E a \in Caller : CancelStep(a)
  <1>1. CASE UNCHANGED allVars
    BY <1>1 DEF allVars, Unnoticed
  <1>2. CASE Starts
    BY <1>2 DEF Starts, Unnoticed
  <1>3. CASE GoesOn
    BY <1>3 DEF GoesOn, Unnoticed
  <1>4. CASE \E w \in Waiting : \/ (StartWait(w) \/ TimeIsUp(w))
                                     /\ UNCHANGED <<vars, streams, cancelVars>>
                                \/ WaitStep(w)
    BY <1>4 DEF WaitStep, WaitMove
  <1>5. CASE \E v \in Watching : \/ (OpenStream(v) \/ CloseStream(v))
                                      /\ UNCHANGED <<vars, waitVars, cancelVars>>
                                 \/ StreamStep(v)
    BY <1>5 DEF StreamStep, StreamMove
  <1>6. CASE Restart /\ UNCHANGED httpVars
    BY <1>6 DEF Unnoticed
  <1> QED
    BY <1>1, <1>2, <1>3, <1>4, <1>5, <1>6 DEF HttpNext

LEMMA UnnoticedStep == Unnoticed => [Next]_vars
  BY StartsStep DEF Unnoticed, Next, SweepStep

LEMMA BrokerStep == [HttpNext]_allVars => [Next]_vars
  BY HttpCases, UnnoticedStep
     DEF Works, Next, Dies, WaitMove, StreamMove, CancelStep

(* The HTTP server implements the broker: with its waits, its streams and its *)
(* cancel lines around them, the job service's calls do nothing they would    *)
(* not do alone, so every theorem about Broker holds of it.                   *)
THEOREM ImplementsBroker == HttpSpec => Spec
  BY BrokerStep, PTL DEF HttpSpec, Spec

-----------------------------------------------------------------------------
(* What is used of the broker.  A process that is down has no calls.         *)
StoppedIdle == ~running => NoCalls /\ NoTicks

BrokerInv == Inv /\ DeliveryInv /\ AnnounceInv /\ StoppedIdle

LEMMA CallRuns ==
    ASSUME StoppedIdle, NEW a \in Actor, CallStep(a)
    PROVE  running
  <1>1. calls[a].pc # "idle"
    BY DEF CallStep, Submitted, Decide, PatchLost, Settle
  <1> QED
    BY <1>1 DEF StoppedIdle, NoCalls, Idle

LEMMA StoppedStep ==
    ASSUME StoppedIdle, [Next]_vars
    PROVE  StoppedIdle'
  <1>1. CASE UNCHANGED vars
    BY <1>1 DEF vars, serviceVars, dispatcherVars, StoppedIdle, NoCalls, NoTicks
  <1>2. CASE Crash
    BY <1>2 DEF Crash, StoppedIdle, NoCalls, NoTicks
  <1>3. CASE Restart
    BY <1>3 DEF Restart, Start, StoppedIdle
  <1>4. CASE \E a \in Actor : Work(a)
    <2>1. PICK a \in Actor : Work(a)
      BY <1>4
    <2>2. running /\ UNCHANGED running
      BY <2>1, CallRuns
         DEF Work, CallStep, Submitted, NotifyPending, Decide, PatchLost, Settle,
             SettleFinish, NotifyDone, SettleOther, SettleLost, dispatcherVars
    <2> QED
      BY <2>2 DEF StoppedIdle
  <1>5. CASE \E s \in Session : Drain(s)
    <2>1. UNCHANGED <<running, calls, sweep>>
      BY <1>5 DEF Drain, DrainStep, StartDrain, Claim, Send, AfterSend, serviceVars
    <2> QED
      BY <2>1 DEF StoppedIdle, NoCalls, NoTicks
  <1>6. CASE \E j \in Job : TimePasses(j)
    BY <1>6 DEF TimePasses, dispatcherVars, serviceVars, StoppedIdle, NoCalls, NoTicks
  <1>7. CASE \/ \E a \in Caller : Request(a)
             \/ \E a \in Caller, op \in Ops \cap ToolOp : ToolCall(a, op)
             \/ \E a \in Caller, op \in Ops \cap HttpOp : HttpCall(a, op)
             \/ \E s \in Session : Attach(s) \/ Disconnect(s)
             \/ (\E t \in Ticks : SweepStep(t))
    <2>1. running
      BY <1>7 DEF Request, ToolCall, HttpCall, Attach, Disconnect, Turn, SweepStep, TickStart,
                  ExpireNext, ListJobsInFlight, OrphanNext, TickEnd, StoppedIdle, NoTicks, NoTick
    <2>2. UNCHANGED running
      BY <1>7 DEF Request, Submit, ToolCall, HttpCall, Begin, Attach, NotifySessionAttached,
                  Disconnect, SweepStep, TickStart, ExpireNext, ListJobsInFlight, OrphanNext,
                  TickEnd, dispatcherVars
    <2> QED
      BY <2>1, <2>2 DEF StoppedIdle
  <1> QED
    BY <1>1, <1>2, <1>3, <1>4, <1>5, <1>6, <1>7 DEF Next

LEMMA BrokerInvInit == Init => BrokerInv
  <1>1. Init => DeliveryInv
    BY DEF Init, DispatcherInit, NothingQueued, Resting, DeliveryInv, UnsentWhilePending,
           FoundBelong, ClaimedUnsent, SentAtMostOnce
  <1>2. Init => AnnounceInv
    BY DEF Init, ServiceInit, NoCalls, Idle, AnnounceInv, WinnerNamesStatus, OneWinner, Winner,
           TerminalAnnouncedOnce, Status, TerminalStatus
  <1>3. Init => StoppedIdle
    BY DEF Init, DispatcherInit, StoppedIdle
  <1> QED
    BY InitInv, <1>1, <1>2, <1>3 DEF BrokerInv

LEMMA BrokerInvStep ==
    ASSUME BrokerInv, [Next]_vars
    PROVE  BrokerInv' /\ TableStep
  BY NextInv, NextDelivers, NextAnnounces, StoppedStep DEF BrokerInv

LEMMA FinishedStays ==
    ASSUME BrokerInv, [Next]_vars, NEW j \in Job, Status(j) \in TerminalStatus
    PROVE  Status(j)' = Status(j)
  BY BrokerInvStep, TerminalStays DEF TableStep

-----------------------------------------------------------------------------
(* The cancel line follows the dispatch line.                                *)

\* s's drain has won j and not yet written its dispatch message.
Claims(s, j) == drain[s].pc = "claiming" /\ drain[s].claimed /\ drain[s].job = j

\* a waits for a drain of s that is not the one under way.
QueuedBehind(s, a) == \E i \in 2..Len(chain[s]) : chain[s][i] = a

OwedFinished == \A a \in Caller : \A j \in owed[a] : Status(j) \in TerminalStatus

OwedBehind == \A a \in Caller : \A j \in owed[a] :
                \A s \in Session : Claims(s, j) => QueuedBehind(s, a)

ToldFinished == \A j \in told : Status(j) \in TerminalStatus

ToldUnclaimed == \A j \in told : \A s \in Session : ~Claims(s, j)

CancelTypeOK == owed \in [Caller -> SUBSET Job] /\ told \subseteq Job

CancelInv == CancelTypeOK /\ OwedFinished /\ OwedBehind /\ ToldFinished /\ ToldUnclaimed

(* A chain is only taken from when its drain is over, and then the session's  *)
(* drain claims nothing; a notification is added at its end.                  *)
ChainKept(s) == \A a : QueuedBehind(s, a) => QueuedBehind(s, a)'

LEMMA AppendKeeps ==
    ASSUME Inv, NEW s \in Session, NEW w, chain' = RunForSession(s, w), NEW r \in Session
    PROVE  ChainKept(r)
  <1>1. chain[r] \in Seq(Waiter) /\ chain \in [Session -> Seq(Waiter)]
    BY DEF Inv, ServiceInv, DispatcherInv, DispatcherTypeOK
  <1>2. CASE chain'[r] = chain[r]
    BY <1>2 DEF ChainKept, QueuedBehind
  <1>3. CASE chain'[r] = Append(chain[r], w)
    <2>1. /\ Len(chain'[r]) = Len(chain[r]) + 1 /\ Len(chain[r]) \in Nat
          /\ \A i \in 1..Len(chain[r]) : chain'[r][i] = chain[r][i]
      BY <1>1, <1>3
    <2> QED
      BY <2>1 DEF ChainKept, QueuedBehind
  <1> QED
    BY <1>1, <1>2, <1>3 DEF RunForSession

LEMMA ReleasesClaim ==
    ASSUME Inv, NEW s \in Session, Loop(s) \/ Return(s), NEW r \in Session, NEW j, Claims(r, j)'
    PROVE  Claims(r, j) /\ chain'[r] = chain[r]
  <1>1. /\ drain \in [Session -> DrainState] /\ chain \in [Session -> Seq(Waiter)]
    BY DEF Inv, ServiceInv, DispatcherInv, DispatcherTypeOK
  <1>2. CASE Return(s)
    <2>1. \A q \in Session \ {s} : drain'[q] = drain[q] /\ chain'[q] = chain[q]
      BY <1>1, <1>2 DEF Return
    <2>2. drain'[s].pc = "resting"
      BY <1>1, <1>2 DEF Return, Resting
    <2> QED
      BY <2>1, <2>2 DEF Claims
  <1>3. CASE running /\ Loop(s)
    <2>1. /\ UNCHANGED chain
          /\ \A q \in Session \ {s} : drain'[q] = drain[q]
          /\ drain'[s].pc = "finding"
      BY <1>1, <1>3 DEF Loop
    <2> QED
      BY <2>1 DEF Claims
  <1> QED
    BY <1>2, <1>3 DEF Loop

LEMMA DrainClaims ==
    ASSUME Inv, NEW s \in Session, DrainStep(s), NEW r \in Session, NEW j,
           Claims(r, j)', Status(j) \in TerminalStatus
    PROVE  Claims(r, j) /\ chain'[r] = chain[r]
  <1>1. /\ drain \in [Session -> DrainState] /\ chain \in [Session -> Seq(Waiter)]
    BY DEF Inv, ServiceInv, DispatcherInv, DispatcherTypeOK
  <1>2. CASE Loop(s) \/ Return(s)
    BY <1>2, ReleasesClaim
  <1>3. ASSUME NEW k, UNCHANGED chain,
               drain' = [drain EXCEPT ![s] = [pc |-> "claiming", job |-> k,
                                              claimed |-> Expected(k, "pending")]]
        PROVE  Claims(r, j)
    <2>1. CASE r = s
      BY <1>1, <1>3, <2>1 DEF Claims, Expected, TerminalStatus
    <2>2. CASE r # s
      BY <1>1, <1>3, <2>2 DEF Claims
    <2> QED
      BY <2>1, <2>2
  <1>4. ASSUME NEW k, NEW w, UNCHANGED chain,
               drain' = [drain EXCEPT ![s] = [pc |-> "sending", job |-> k, written |-> w]]
        PROVE  Claims(r, j)
    BY <1>1, <1>4 DEF Claims
  <1>5. CASE StartDrain(s) \/ AfterSend(s)
    BY <1>2, <1>5 DEF StartDrain, AfterSend
  <1>6. CASE Claim(s)
    <2>1. CASE Return(s)
      BY <1>2, <2>1
    <2>2. CASE \E k \in Pick(s, drain[s].found) :
                 /\ drain' = [drain EXCEPT ![s] = [pc |-> "claiming", job |-> k,
                                                   claimed |-> Expected(k, "pending")]]
                 /\ UNCHANGED chain
      BY <1>3, <2>2
    <2> QED
      BY <1>6, <2>1, <2>2 DEF Claim
  <1>7. CASE Send(s)
    <2>1. CASE ~drain[s].claimed
      BY <1>2, <1>7, <2>1 DEF Send
    <2>2. CASE drain[s].claimed
      <3>1. /\ UNCHANGED chain
            /\ drain' = [drain EXCEPT ![s] = [pc |-> "sending", job |-> drain[s].job,
                                              written |-> Reachable(s)]]
        BY <1>7, <2>2 DEF Send
      <3> QED
        BY <1>4, <3>1
    <2> QED
      BY <2>1, <2>2
  <1> QED
    BY <1>5, <1>6, <1>7 DEF DrainStep

LEMMA NewClaims ==
    ASSUME Inv, Next, NEW r \in Session, NEW j, Claims(r, j)', Status(j) \in TerminalStatus
    PROVE  Claims(r, j) /\ ChainKept(r)
  <1>1. CASE UNCHANGED <<drain, chain>>
    BY <1>1 DEF Claims, ChainKept, QueuedBehind
  <1>2. CASE UNCHANGED drain /\ \E s \in Session, w \in Waiter : chain' = RunForSession(s, w)
    BY <1>2, AppendKeeps DEF Claims
  <1>3. CASE \E s \in Session : Drain(s)
    BY <1>3, DrainClaims DEF Drain, ChainKept, QueuedBehind
  <1>4. CASE Crash
    BY <1>4 DEF Crash, Resting, Claims
  <1>5. ASSUME \E a \in Actor : Work(a)
        PROVE  \/ UNCHANGED <<drain, chain>>
               \/ UNCHANGED drain /\ \E s \in Session, w \in Waiter : chain' = RunForSession(s, w)
    <2>1. PICK a \in Actor : Work(a)
      BY <1>5
    <2>2. a \in Waiter
      BY DEF Waiter
    <2>3. calls[a].pc # "idle" => jobs[calls[a].job].session \in Session
      BY RowStatus DEF Inv, ServiceInv, CalledRowThere
    <2> QED
      BY <2>1, <2>2, <2>3
         DEF Work, CallStep, Submitted, NotifyPending, Decide, PatchLost, Settle,
             SettleFinish, NotifyDone, SettleOther, SettleLost, dispatcherVars
  <1>6. ASSUME NEW s \in Session, Attach(s)
        PROVE  UNCHANGED drain /\ \E q \in Session, w \in Waiter : chain' = RunForSession(q, w)
    BY <1>6 DEF Attach, NotifySessionAttached, Waiter
  <1>7. ASSUME \/ \E a \in Caller : Request(a)
               \/ \E a \in Caller, op \in Ops \cap ToolOp : ToolCall(a, op)
               \/ \E a \in Caller, op \in Ops \cap HttpOp : HttpCall(a, op)
               \/ \E s \in Session : Disconnect(s)
               \/ \E k \in Job : TimePasses(k)
               \/ (\E t \in Ticks : SweepStep(t)) \/ Restart
        PROVE  UNCHANGED <<drain, chain>>
    BY <1>7 DEF Request, Submit, ToolCall, HttpCall, Begin, Disconnect, TimePasses, SweepStep,
                TickStart, ExpireNext, ListJobsInFlight, OrphanNext, TickEnd, Restart, Start,
                dispatcherVars
  <1> QED
    BY <1>1, <1>2, <1>3, <1>4, <1>5, <1>6, <1>7 DEF Next

(* A step of the broker keeps what is owed and what is told right.           *)
LEMMA BrokerKeepsCancels ==
    ASSUME BrokerInv, CancelInv, [Next]_vars
    PROVE  /\ \A a \in Caller : \A j \in owed[a] :
                /\ Status(j)' \in TerminalStatus
                /\ \A s \in Session : Claims(s, j)' => QueuedBehind(s, a)'
           /\ \A j \in told : /\ Status(j)' \in TerminalStatus
                              /\ \A s \in Session : ~Claims(s, j)'
  <1>1. \A j \in Job : Status(j) \in TerminalStatus => Status(j)' \in TerminalStatus
    BY FinishedStays
  <1>2. \A j : Status(j) \in TerminalStatus =>
          \A s \in Session : Claims(s, j)' => Claims(s, j) /\ ChainKept(s)
    <2>1. CASE UNCHANGED vars
      BY <2>1 DEF vars, dispatcherVars, Claims, ChainKept, QueuedBehind
    <2>2. CASE Next
      BY <2>2, NewClaims DEF BrokerInv
    <2> QED
      BY <2>1, <2>2
  <1>3. ASSUME NEW a \in Caller, NEW j \in owed[a]
        PROVE  /\ Status(j)' \in TerminalStatus
               /\ \A s \in Session : Claims(s, j)' => QueuedBehind(s, a)'
    <2>1. j \in Job /\ Status(j) \in TerminalStatus
      BY <1>3 DEF CancelInv, CancelTypeOK, OwedFinished
    <2>2. ASSUME NEW s \in Session, Claims(s, j)'
          PROVE  QueuedBehind(s, a)'
      <3>1. Claims(s, j) /\ ChainKept(s)
        BY <1>2, <2>1, <2>2
      <3>2. QueuedBehind(s, a)
        BY <1>3, <3>1 DEF CancelInv, OwedBehind
      <3> QED
        BY <3>1, <3>2 DEF ChainKept
    <2> QED
      BY <1>1, <2>1, <2>2
  <1>4. ASSUME NEW j \in told
        PROVE  Status(j)' \in TerminalStatus /\ \A s \in Session : ~Claims(s, j)'
    <2>1. j \in Job /\ Status(j) \in TerminalStatus /\ \A s \in Session : ~Claims(s, j)
      BY <1>4 DEF CancelInv, CancelTypeOK, ToldFinished, ToldUnclaimed
    <2> QED
      BY <1>1, <1>2, <2>1
  <1> QED
    BY <1>3, <1>4

(* cancel() has won and queues its drain: it is behind the one that claimed. *)
LEMMA CancelQueues ==
    ASSUME BrokerInv, NEW a \in Actor, Works(a), Cancels(a), NEW j, j = calls[a].job
    PROVE  /\ j \in Job /\ Status(j)' \in TerminalStatus
           /\ \A s \in Session : Claims(s, j)' => QueuedBehind(s, a)'
  <1> DEFINE s == jobs[j].session
  <1>1. calls[a].pc = "write" /\ calls[a].op = "cancel" /\ calls[a].done
    BY DEF Cancels
  <1>2. Settle(a) /\ NotifyDone(s, a)
    BY <1>1 DEF Works, Work, CallStep, Submitted, Decide, PatchLost, Settle, SettleFinish,
                SettleOther, SettleLost, FinishOp
  <1>3. Winner(a)
    BY <1>1 DEF Winner, FinishOp
  <1>4. j \in Job /\ Target[calls[a].op] \in TerminalStatus
    BY <1>3, WinnerJob DEF BrokerInv
  <1>5. Status(j) \in TerminalStatus
    BY <1>3, <1>4 DEF BrokerInv, AnnounceInv, WinnerNamesStatus
  <1>6. Status(j)' \in TerminalStatus
    BY <1>2, <1>5 DEF Settle, Status
  <1>7. /\ chain' = [chain EXCEPT ![s] = Append(@, a)] /\ UNCHANGED drain
        /\ chain \in [Session -> Seq(Waiter)]
    BY <1>2, CallRuns
       DEF Works, Work, NotifyDone, RunForSession, BrokerInv, Inv, ServiceInv, DispatcherInv,
           DispatcherTypeOK
  <1>8. ASSUME NEW r \in Session, Claims(r, j)'
        PROVE  QueuedBehind(r, a)'
    <2>1. Claims(r, j)
      BY <1>7, <1>8 DEF Claims
    <2>2. s = r
      BY <2>1 DEF Claims, BrokerInv, DeliveryInv, ClaimedUnsent
    <2>3. chain[r] # << >>
      BY <2>1 DEF Claims, Resting, BrokerInv, Inv, ServiceInv, DispatcherInv, DrainHeadsChain
    <2>4. chain'[r] = Append(chain[r], a) /\ chain[r] \in Seq(Waiter)
      BY <1>7, <2>2
    <2>5. Len(chain[r]) \in Nat \ {0}
      BY <2>3, <2>4, EmptySeq
    <2>6. /\ Len(chain'[r]) = Len(chain[r]) + 1
          /\ chain'[r][Len(chain[r]) + 1] = a
      BY <2>4
    <2> QED
      BY <2>5, <2>6 DEF QueuedBehind
  <1> QED
    BY <1>4, <1>6, <1>8

LEMMA WorkCancels ==
    ASSUME BrokerInv, CancelInv, NEW a \in Actor, Works(a)
    PROVE  CancelInv'
  <1>1. [Next]_vars
    BY DEF Works, Next
  <1>2. told' = told /\ owed' = IF a \in Caller THEN Owes(a) ELSE owed
    BY DEF Works
  <1>3. CASE owed' = owed
    BY <1>1, <1>2, <1>3, BrokerKeepsCancels
       DEF CancelInv, CancelTypeOK, OwedFinished, OwedBehind, ToldFinished, ToldUnclaimed
  <1>4. CASE a \in Caller /\ Cancels(a)
    <2> PICK k : k = calls[a].job
      OBVIOUS
    <2>1. owed' = [owed EXCEPT ![a] = {k}]
      BY <1>2, <1>4 DEF Owes
    <2>2. \A b \in Caller : owed'[b] = IF b = a THEN {k} ELSE owed[b]
      BY <2>1 DEF CancelInv, CancelTypeOK
    <2>3. CancelTypeOK'
      BY <1>2, <1>4, <2>1, CancelQueues DEF CancelInv, CancelTypeOK
    <2>4. ASSUME NEW b \in Caller, NEW j \in owed'[b]
          PROVE  /\ Status(j)' \in TerminalStatus
                 /\ \A s \in Session : Claims(s, j)' => QueuedBehind(s, b)'
      <3>1. CASE b = a
        BY <1>4, <2>2, <2>4, <3>1, CancelQueues
      <3>2. CASE b # a
        BY <1>1, <2>2, <2>4, <3>2, BrokerKeepsCancels
      <3> QED
        BY <3>1, <3>2
    <2> QED
      BY <1>1, <1>2, <2>3, <2>4, BrokerKeepsCancels
         DEF CancelInv, OwedFinished, OwedBehind, ToldFinished, ToldUnclaimed
  <1> QED
    BY <1>2, <1>3, <1>4 DEF Owes

(* Once nothing of a's is queued, no drain still has its job claimed.        *)
LEMMA NoticeCancels ==
    ASSUME BrokerInv, CancelInv, NEW a \in Caller, CancelStep(a)
    PROVE  CancelInv'
  <1>1. ~Awaits(a) /\ UNCHANGED vars /\ owed' = [owed EXCEPT ![a] = {}]
    BY DEF CancelStep, NotifyCancel
  <1>2. PICK j \in owed[a] : told' = IF Reachable(jobs[j].session) THEN told \cup {j} ELSE told
    BY DEF CancelStep, NotifyCancel
  <1>3. j \in Job /\ Status(j) \in TerminalStatus
    BY DEF CancelInv, CancelTypeOK, OwedFinished
  <1>4. \A s \in Session : ~QueuedBehind(s, a)
    <2>1. \A s \in Session : Len(chain[s]) \in Nat
      BY DEF BrokerInv, Inv, ServiceInv, DispatcherInv, DispatcherTypeOK
    <2> QED
      BY <1>1, <2>1 DEF Awaits, QueuedBehind
  <1>5. \A s \in Session : ~Claims(s, j)
    BY <1>4 DEF CancelInv, OwedBehind
  <1>6. UNCHANGED <<jobs, drain, chain>>
    BY <1>1 DEF vars, dispatcherVars
  <1>7. \A b \in Caller : owed'[b] \subseteq owed[b]
    BY <1>1 DEF CancelInv, CancelTypeOK
  <1>8. CancelTypeOK'
    BY <1>1, <1>2, <1>3 DEF CancelInv, CancelTypeOK
  <1>9. OwedFinished' /\ OwedBehind'
    BY <1>6, <1>7 DEF CancelInv, OwedFinished, OwedBehind, Status, Claims, QueuedBehind
  <1>10. ToldFinished' /\ ToldUnclaimed'
    BY <1>2, <1>3, <1>5, <1>6 DEF CancelInv, ToldFinished, ToldUnclaimed, Status, Claims
  <1> QED
    BY <1>8, <1>9, <1>10 DEF CancelInv

LEMMA CancelInvStep ==
    ASSUME BrokerInv, CancelInv, [HttpNext]_allVars
    PROVE  CancelInv'
  <1>1. [Next]_vars
    BY BrokerStep
  <1>2. ASSUME UNCHANGED cancelVars
        PROVE  CancelInv'
    BY <1>1, <1>2, BrokerKeepsCancels
       DEF cancelVars, CancelInv, CancelTypeOK, OwedFinished, OwedBehind, ToldFinished,
           ToldUnclaimed
  <1>3. CASE Dies
    <2>1. told' = told /\ owed' = [a \in Caller |-> {}]
      BY <1>3 DEF Dies
    <2> QED
      BY <1>1, <2>1, BrokerKeepsCancels
         DEF CancelInv, CancelTypeOK, OwedFinished, OwedBehind, ToldFinished, ToldUnclaimed
  <1> QED
    BY <1>2, <1>3, HttpCases, WorkCancels, NoticeCancels
       DEF Unnoticed, httpVars, WaitMove, StreamMove

LEMMA OnlyClaimedSent ==
    ASSUME BrokerInv, [Next]_vars, NEW j \in Job, sent'[j] # sent[j]
    PROVE  \E s \in Session : Claims(s, j)
  <1>1. PICK s \in Session : Drain(s)
    <2>1. ~UNCHANGED sent
      OBVIOUS
    <2>2. UNCHANGED vars => UNCHANGED sent
      BY DEF vars, dispatcherVars
    <2>3. \A a \in Actor : Work(a) => UNCHANGED sent
      BY DEF Work, CallStep, Submitted, NotifyPending, Decide, PatchLost, Settle,
             SettleFinish, NotifyDone, SettleOther, SettleLost, dispatcherVars
    <2>4. Restart \/ Crash => UNCHANGED sent
      BY DEF Restart, Start, Crash
    <2>5. (\E a \in Caller : Request(a)) => UNCHANGED sent
      BY DEF Request, Submit, dispatcherVars
    <2>6. \A a, op : ToolCall(a, op) \/ HttpCall(a, op) => UNCHANGED sent
      BY DEF ToolCall, HttpCall, Begin, dispatcherVars
    <2>7. \A s \in Session : Attach(s) \/ Disconnect(s) => UNCHANGED sent
      BY DEF Attach, NotifySessionAttached, Disconnect, dispatcherVars
    <2>8. \A k \in Job : TimePasses(k) => UNCHANGED sent
      BY DEF TimePasses, dispatcherVars
    <2>9. \A t \in Ticks : SweepStep(t) => UNCHANGED sent
      BY DEF SweepStep, TickStart, ExpireNext, Begin, ListJobsInFlight, OrphanNext, TickEnd,
             dispatcherVars
    <2> QED
      BY <2>1, <2>2, <2>3, <2>4, <2>5, <2>6, <2>7, <2>8, <2>9 DEF Next
  <1>2. sent \in [Job -> Nat]
    BY DEF BrokerInv, Inv, ServiceInv, DispatcherInv, DispatcherTypeOK
  <1>3. Send(s) /\ drain[s].claimed
    BY <1>1 DEF Drain, DrainStep, StartDrain, Claim, Send, AfterSend
  <1>4. drain[s].job = j
    BY <1>2, <1>3 DEF Send
  <1> QED
    BY <1>3, <1>4 DEF Send, Claims

(* No shim gets a job after it was told that the job is cancelled: the cancel *)
(* line waits until no drain can still write the dispatch line, whatever the  *)
(* number of cancels, drains and sessions, and over restarts.                 *)
THEOREM CancelFollowsDispatch == HttpSpec => CancelAfterDispatch
  <1>1. Init /\ HttpInit => BrokerInv /\ CancelInv
    BY BrokerInvInit
       DEF HttpInit, CancelInv, CancelTypeOK, OwedFinished, OwedBehind, ToldFinished,
           ToldUnclaimed
  <1>2. BrokerInv /\ CancelInv /\ [HttpNext]_allVars => BrokerInv' /\ CancelInv'
    BY BrokerStep, BrokerInvStep, CancelInvStep
  <1>3. ASSUME BrokerInv, CancelInv, [HttpNext]_allVars
        PROVE  [\A j \in told : sent'[j] = sent[j]]_allVars
    BY <1>3, BrokerStep, OnlyClaimedSent DEF CancelInv, CancelTypeOK, ToldUnclaimed
  <1> QED
    BY <1>1, <1>2, <1>3, PTL DEF HttpSpec, CancelAfterDispatch

-----------------------------------------------------------------------------
(* What the requests hold is well typed.                                     *)

LEMMA WaitTypes ==
    ASSUME HttpTypeOK, NEW w \in Waiting
    PROVE  /\ waits[w].pc \in {"idle", "read", "listening", "woken"}
           /\ waits[w].pc # "idle" => waits[w].job \in Job
           /\ waits[w].pc = "read" => waits[w].seen \in JobStatuses
           /\ waits[w].pc = "listening" =>
                [waits[w] EXCEPT !.pc = "woken"] = [pc |-> "woken", job |-> waits[w].job]
  BY DEF HttpTypeOK, WaitState, NoWait

LEMMA StreamTypes ==
    ASSUME HttpTypeOK, NEW v \in Watching
    PROVE  /\ streams[v].pc \in {"idle", "read", "open"}
           /\ streams[v].pc # "idle" => /\ streams[v].job \in Job
                                        /\ streams[v].seen \in JobStatuses
           /\ streams[v].pc = "open" =>
                /\ streams[v].heard \in Seq(TerminalStatus)
                /\ streams[v] = [pc |-> "open", job |-> streams[v].job, seen |-> streams[v].seen,
                                 heard |-> streams[v].heard]
  BY DEF HttpTypeOK, StreamState, NoStream

LEMMA OpenHears ==
    ASSUME HttpTypeOK, NEW v \in Watching, streams[v].pc = "open", NEW e
    PROVE  [streams[v] EXCEPT !.heard = Append(@, e)] =
             [pc |-> "open", job |-> streams[v].job, seen |-> streams[v].seen,
              heard |-> Append(streams[v].heard, e)]
  <1> DEFINE h == Append(streams[v].heard, e)
  <1>1. streams[v] = [pc |-> "open", job |-> streams[v].job, seen |-> streams[v].seen,
                      heard |-> streams[v].heard]
    BY StreamTypes
  <1> HIDE DEF h
  <1>2. [streams[v] EXCEPT !.heard = h] =
          [pc |-> "open", job |-> streams[v].job, seen |-> streams[v].seen, heard |-> h]
    BY <1>1
  <1> QED
    BY <1>2 DEF h

(* A call publishes nothing, or the terminal event of its job.               *)
LEMMA WorkPublishes ==
    ASSUME Inv, NEW a \in Actor, Work(a), NEW j \in Job, Publishes(j)
    PROVE  /\ Event(j) \in TerminalStatus
           /\ announced'[j] = Append(announced[j], Event(j))
  <1>1. announced \in [Job -> Seq(TerminalStatus)]
    BY DEF Inv, ServiceInv, ServiceTypeOK
  <1>2. SettleFinish(a) /\ calls[a].pc = "write"
    BY DEF Publishes, Work, CallStep, Submitted, Decide, PatchLost, Settle, SettleOther,
           SettleLost
  <1>3. announced' = [announced EXCEPT ![calls[a].job] = Append(@, Target[calls[a].op])]
    BY <1>2 DEF SettleFinish
  <1>4. Target[calls[a].op] \in TerminalStatus
    BY <1>2, TargetType DEF SettleFinish
  <1>5. announced'[j] = Append(announced[j], Target[calls[a].op])
    BY <1>1, <1>3 DEF Publishes
  <1>6. announced'[j][Len(announced'[j])] = Target[calls[a].op]
    BY <1>1, <1>5
  <1> QED
    BY <1>4, <1>5, <1>6 DEF Event

(* Who is subscribed to the job of a published event has it at once.         *)
LEMMA WorkDelivers ==
    ASSUME Inv, HttpTypeOK, NEW a \in Actor, Works(a)
    PROVE  /\ UNCHANGED answer
           /\ \A w \in Waiting :
                \/ waits'[w] = waits[w] /\ ~(waits[w].pc = "listening" /\ Publishes(waits[w].job))
                \/ waits'[w] = [pc |-> "woken", job |-> waits[w].job] /\ waits[w].pc = "listening"
           /\ \A v \in Watching :
                \/ streams'[v] = streams[v] /\ ~(streams[v].pc = "open" /\ Publishes(streams[v].job))
                \/ /\ streams[v].pc = "open"
                   /\ \E e \in TerminalStatus :
                        /\ announced'[streams[v].job] = Append(announced[streams[v].job], e)
                        /\ streams'[v] = [pc |-> "open", job |-> streams[v].job,
                                          seen |-> streams[v].seen,
                                          heard |-> Append(streams[v].heard, e)]
  <1>1. Work(a) /\ Delivers
    BY DEF Works
  <1>2. ASSUME NEW w \in Waiting
        PROVE  \/ waits'[w] = waits[w] /\ ~(waits[w].pc = "listening" /\ Publishes(waits[w].job))
               \/ waits'[w] = [pc |-> "woken", job |-> waits[w].job] /\ waits[w].pc = "listening"
    <2>1. waits'[w] = IF Wakes(w) THEN [waits[w] EXCEPT !.pc = "woken"] ELSE waits[w]
      BY <1>1 DEF Delivers
    <2>2. waits[w].pc = "listening" => waits[w].job \in Job
      BY WaitTypes
    <2>3. Wakes(w) <=> waits[w].pc = "listening" /\ Publishes(waits[w].job)
      BY <1>1, <2>2, WorkPublishes DEF Wakes
    <2> QED
      BY <2>1, <2>3, WaitTypes
  <1>3. ASSUME NEW v \in Watching
        PROVE  \/ streams'[v] = streams[v] /\ ~(streams[v].pc = "open" /\ Publishes(streams[v].job))
               \/ /\ streams[v].pc = "open"
                  /\ \E e \in TerminalStatus :
                       /\ announced'[streams[v].job] = Append(announced[streams[v].job], e)
                       /\ streams'[v] = [pc |-> "open", job |-> streams[v].job,
                                         seen |-> streams[v].seen,
                                         heard |-> Append(streams[v].heard, e)]
    <2>1. streams'[v] = IF Hears(v)
                        THEN [streams[v] EXCEPT !.heard = Append(@, Event(streams[v].job))]
                        ELSE streams[v]
      BY <1>1 DEF Delivers
    <2>2. CASE Hears(v)
      <3>1. streams[v].pc = "open" /\ streams[v].job \in Job /\ Publishes(streams[v].job)
        BY <2>2, StreamTypes DEF Hears
      <3>2. PICK e : e = Event(streams[v].job)
        OBVIOUS
      <3>3. /\ e \in TerminalStatus
            /\ announced'[streams[v].job] = Append(announced[streams[v].job], e)
        BY <1>1, <3>1, <3>2, WorkPublishes
      <3>4. streams'[v] = [pc |-> "open", job |-> streams[v].job, seen |-> streams[v].seen,
                           heard |-> Append(streams[v].heard, e)]
        BY <2>1, <2>2, <3>1, <3>2, OpenHears
      <3> QED
        BY <3>1, <3>3, <3>4
    <2>3. CASE ~Hears(v)
      BY <2>1, <2>3 DEF Hears
    <2> QED
      BY <2>2, <2>3
  <1> QED
    BY <1>1, <1>2, <1>3 DEF Delivers

\* What a wait request may do by itself: one of them moves.
LEMMA WaitMoves ==
    ASSUME HttpTypeOK, WaitMove
    PROVE  \E w \in Waiting :
             /\ \A x \in Waiting \ {w} : waits'[x] = waits[x] /\ answer'[x] = answer[x]
             /\ \/ /\ \E j \in DOMAIN jobs :
                        waits'[w] = [pc |-> "read", job |-> j, seen |-> jobs[j].status]
                   /\ TakesUp /\ answer'[w] = answer[w]
                \/ /\ waits[w].pc = "read" /\ waits[w].seen \notin TerminalStatus
                   /\ waits'[w] = [pc |-> "listening", job |-> waits[w].job]
                   /\ answer'[w] = answer[w]
                \/ /\ waits[w].pc = "listening"
                   /\ waits'[w] = [pc |-> "woken", job |-> waits[w].job]
                   /\ answer'[w] = answer[w]
                \/ /\ waits'[w] = NoWait
                   /\ \E status :
                        /\ \/ /\ waits[w].pc = "read" /\ waits[w].seen = status
                              /\ status \in TerminalStatus
                           \/ waits[w].pc = "woken" /\ status = Status(waits[w].job)
                        /\ answer'[w] = [job |-> waits[w].job, status |-> status,
                                         timedOut |-> status \notin TerminalStatus]
  <1>1. /\ waits \in [Waiting -> WaitState] /\ answer \in [Waiting -> Answer]
    BY DEF HttpTypeOK
  <1>2. PICK w \in Waiting : StartWait(w) \/ TimeIsUp(w) \/ Listen(w) \/ ReadAgain(w)
    BY DEF WaitMove
  <1>3. \A x \in Waiting \ {w} : waits'[x] = waits[x] /\ answer'[x] = answer[x]
    BY <1>1, <1>2 DEF StartWait, TimeIsUp, Listen, ReadAgain, Answers
  <1>4. CASE StartWait(w)
    BY <1>1, <1>3, <1>4 DEF StartWait
  <1>5. CASE TimeIsUp(w)
    BY <1>1, <1>3, <1>5, WaitTypes DEF TimeIsUp
  <1>6. CASE Listen(w)
    BY <1>1, <1>3, <1>6 DEF Listen, Answers
  <1>7. CASE ReadAgain(w)
    BY <1>1, <1>3, <1>7 DEF ReadAgain, Answers
  <1> QED
    BY <1>2, <1>4, <1>5, <1>6, <1>7

LEMMA StreamMoves ==
    ASSUME HttpTypeOK, StreamMove
    PROVE  \E v \in Watching :
             /\ \A x \in Watching \ {v} : streams'[x] = streams[x]
             /\ \/ /\ \E j \in DOMAIN jobs :
                        streams'[v] = [pc |-> "read", job |-> j, seen |-> jobs[j].status]
                   /\ TakesUp
                \/ /\ streams[v].pc = "read"
                   /\ streams'[v] = [pc |-> "open", job |-> streams[v].job,
                                     seen |-> streams[v].seen, heard |-> << >>]
                \/ streams'[v] = NoStream
  BY DEF HttpTypeOK, StreamMove, OpenStream, Subscribe, CloseStream

-----------------------------------------------------------------------------
(* Answers.                                                                  *)

\* A request's job is in the table, and what it saw of a finished job holds.
WaitedRows == \A w \in Waiting : waits[w].pc # "idle" => waits[w].job \in DOMAIN jobs

SeenHolds == \A w \in Waiting : waits[w].pc = "read" /\ waits[w].seen \in TerminalStatus =>
               Status(waits[w].job) = waits[w].seen

AnswerInv == HttpTypeOK /\ WaitedRows /\ SeenHolds /\ AnswerIsFinal

Answering(w, status) ==
    /\ \/ waits[w].pc = "read" /\ waits[w].seen = status /\ status \in TerminalStatus
       \/ waits[w].pc = "woken" /\ status = Status(waits[w].job)
    /\ answer'[w] = [job |-> waits[w].job, status |-> status,
                     timedOut |-> status \notin TerminalStatus]

\* What a step may do to one wait request.
LEMMA OneWait ==
    ASSUME BrokerInv, HttpTypeOK, [HttpNext]_allVars, NEW w \in Waiting
    PROVE  \/ waits'[w] = waits[w] /\ answer'[w] = answer[w]
           \/ /\ answer'[w] = answer[w] /\ UNCHANGED vars /\ TakesUp
              /\ \E j \in DOMAIN jobs :
                   waits'[w] = [pc |-> "read", job |-> j, seen |-> jobs[j].status]
           \/ /\ answer'[w] = answer[w] /\ UNCHANGED vars
              /\ waits[w].pc = "read" /\ waits[w].seen \notin TerminalStatus
              /\ waits'[w] = [pc |-> "listening", job |-> waits[w].job]
           \/ /\ answer'[w] = answer[w]
              /\ waits[w].pc = "listening"
              /\ waits'[w] = [pc |-> "woken", job |-> waits[w].job]
           \/ waits'[w] = NoWait /\ answer'[w] = answer[w]
           \/ waits'[w] = NoWait /\ UNCHANGED vars /\ \E status : Answering(w, status)
  <1>1. CASE Unnoticed \/ StreamMove \/ \E a \in Caller : CancelStep(a)
    BY <1>1 DEF Unnoticed, StreamMove, CancelStep, httpVars, waitVars
  <1>2. CASE \E a \in Actor : Works(a)
    BY <1>2, WorkDelivers DEF BrokerInv
  <1>3. CASE Dies
    BY <1>3 DEF Dies
  <1>4. CASE WaitMove
    <2>1. UNCHANGED vars
      BY <1>4 DEF WaitMove
    <2> QED
      BY <1>4, <2>1, WaitMoves DEF BrokerInv, Answering
  <1> QED
    BY <1>1, <1>2, <1>3, <1>4, HttpCases

\* What a step may do to one stream.
LEMMA OneStream ==
    ASSUME BrokerInv, HttpTypeOK, [HttpNext]_allVars, NEW v \in Watching
    PROVE  \/ streams'[v] = streams[v]
           \/ /\ UNCHANGED vars /\ TakesUp
              /\ \E j \in DOMAIN jobs :
                   streams'[v] = [pc |-> "read", job |-> j, seen |-> jobs[j].status]
           \/ /\ UNCHANGED vars
              /\ streams[v].pc = "read"
              /\ streams'[v] = [pc |-> "open", job |-> streams[v].job, seen |-> streams[v].seen,
                                heard |-> << >>]
           \/ streams'[v] = NoStream
           \/ /\ streams[v].pc = "open"
              /\ \E e \in TerminalStatus :
                   /\ announced'[streams[v].job] = Append(announced[streams[v].job], e)
                   /\ streams'[v] = [pc |-> "open", job |-> streams[v].job,
                                     seen |-> streams[v].seen,
                                     heard |-> Append(streams[v].heard, e)]
  <1>1. CASE Unnoticed \/ WaitMove \/ \E a \in Caller : CancelStep(a)
    BY <1>1 DEF Unnoticed, WaitMove, CancelStep, httpVars
  <1>2. CASE \E a \in Actor : Works(a)
    BY <1>2, WorkDelivers DEF BrokerInv
  <1>3. CASE Dies
    BY <1>3 DEF Dies
  <1>4. CASE StreamMove
    <2>1. UNCHANGED vars
      BY <1>4 DEF StreamMove
    <2> QED
      BY <1>4, <2>1, StreamMoves
  <1> QED
    BY <1>1, <1>2, <1>3, <1>4, HttpCases

LEMMA RequestFunctions ==
    ASSUME HttpTypeOK, Inv, [HttpNext]_allVars
    PROVE  /\ waits' = [w \in Waiting |-> waits'[w]]
           /\ answer' = [w \in Waiting |-> answer'[w]]
           /\ streams' = [v \in Watching |-> streams'[v]]
  <1>1. /\ waits \in [Waiting -> WaitState] /\ answer \in [Waiting -> Answer]
        /\ streams \in [Watching -> StreamState]
    BY DEF HttpTypeOK
  <1>2. CASE Unnoticed
    BY <1>1, <1>2 DEF Unnoticed, httpVars, waitVars
  <1>3. CASE \E a \in Actor : Works(a)
    BY <1>1, <1>3 DEF Works, Delivers
  <1>4. CASE Dies
    BY <1>1, <1>4 DEF Dies
  <1>5. CASE WaitMove
    BY <1>1, <1>5 DEF WaitMove, StartWait, TimeIsUp, Listen, ReadAgain, Answers
  <1>6. CASE StreamMove
    BY <1>1, <1>6 DEF StreamMove, OpenStream, CloseStream, Subscribe, waitVars
  <1>7. CASE \E a \in Caller : CancelStep(a)
    BY <1>1, <1>7 DEF CancelStep, waitVars
  <1> QED
    BY <1>2, <1>3, <1>4, <1>5, <1>6, <1>7, HttpCases

LEMMA AnswerInvStep ==
    ASSUME BrokerInv, CancelInv, AnswerInv, [HttpNext]_allVars
    PROVE  AnswerInv'
  <1>1. [Next]_vars /\ BrokerInv' /\ TableStep /\ CancelTypeOK'
    BY BrokerStep, BrokerInvStep, CancelInvStep DEF CancelInv
  <1>2. \A j \in DOMAIN jobs : j \in DOMAIN jobs' /\ j \in Job /\ jobs[j].status \in JobStatuses
                               /\ Status(j) = jobs[j].status
    BY <1>1, RowStatus
       DEF TableStep, RowsKept, BrokerInv, Inv, ServiceInv, StoreTypeOK
  <1>3. UNCHANGED vars => UNCHANGED jobs
    BY DEF vars
  <1>4. ASSUME NEW w \in Waiting
        PROVE  /\ waits'[w] \in WaitState
               /\ waits'[w].pc # "idle" => waits'[w].job \in DOMAIN jobs'
               /\ waits'[w].pc = "read" /\ waits'[w].seen \in TerminalStatus =>
                    \A j : j = waits'[w].job => Status(j)' = waits'[w].seen
    <2>1. waits[w] \in WaitState
      BY DEF AnswerInv, HttpTypeOK
    <2>2. CASE waits'[w] = waits[w]
      <3>1. waits[w].pc # "idle" => waits[w].job \in DOMAIN jobs'
        BY <1>2 DEF AnswerInv, WaitedRows
      <3>2. waits[w].pc = "read" /\ waits[w].seen \in TerminalStatus =>
              \A j : j = waits[w].job => Status(j)' = waits[w].seen
        BY <1>1, FinishedStays, WaitTypes DEF AnswerInv, SeenHolds
      <3> QED
        BY <2>1, <2>2, <3>1, <3>2
    <2>3. ASSUME NEW j \in DOMAIN jobs, UNCHANGED jobs,
                 waits'[w] = [pc |-> "read", job |-> j, seen |-> jobs[j].status]
          PROVE  /\ waits'[w] \in WaitState /\ waits'[w].job \in DOMAIN jobs'
                 /\ \A k : k = waits'[w].job => Status(k)' = waits'[w].seen
      BY <1>2, <2>3 DEF WaitState, Status
    <2>4. CASE /\ waits[w].pc \in {"read", "listening"}
               /\ \E pc \in {"listening", "woken"} :
                    waits'[w] = [pc |-> pc, job |-> waits[w].job]
      BY <1>2, <2>4, WaitTypes DEF AnswerInv, WaitedRows, WaitState
    <2>5. CASE waits'[w] = NoWait
      BY <2>5 DEF NoWait, WaitState
    <2> QED
      BY <1>3, <2>2, <2>3, <2>4, <2>5, OneWait DEF AnswerInv
  <1>5. ASSUME NEW w \in Waiting
        PROVE  /\ answer'[w] \in Answer
               /\ answer'[w] # NoAnswer =>
                    IF answer'[w].timedOut
                    THEN answer'[w].status \notin TerminalStatus
                    ELSE /\ answer'[w].status \in TerminalStatus
                         /\ \A j : j = answer'[w].job => Status(j)' = answer'[w].status
    <2>1. answer[w] \in Answer
      BY DEF AnswerInv, HttpTypeOK
    <2>2. CASE answer'[w] = answer[w]
      <3>1. answer[w] # NoAnswer => answer[w].job \in Job /\ answer[w].timedOut \in BOOLEAN
        BY <2>1 DEF Answer
      <3>2. answer[w] # NoAnswer =>
              IF answer[w].timedOut
              THEN answer[w].status \notin TerminalStatus
              ELSE /\ answer[w].status \in TerminalStatus
                   /\ Status(answer[w].job) = answer[w].status
        BY DEF AnswerInv, AnswerIsFinal
      <3> QED
        BY <1>1, <2>1, <2>2, <3>1, <3>2, FinishedStays
    <2>3. ASSUME NEW status, Answering(w, status), UNCHANGED jobs
          PROVE  /\ answer'[w] \in Answer
                 /\ IF answer'[w].timedOut
                    THEN answer'[w].status \notin TerminalStatus
                    ELSE /\ answer'[w].status \in TerminalStatus
                         /\ \A j : j = answer'[w].job => Status(j)' = answer'[w].status
      <3>1. answer'[w] = [job |-> waits[w].job, status |-> status,
                          timedOut |-> status \notin TerminalStatus]
        BY <2>3 DEF Answering
      <3>2. waits[w].pc \in {"read", "woken"} /\ waits[w].job \in DOMAIN jobs
        BY <2>3 DEF Answering, AnswerInv, WaitedRows
      <3>3. status = Status(waits[w].job)
        BY <2>3 DEF Answering, AnswerInv, SeenHolds
      <3>4. status \in JobStatuses /\ waits[w].job \in Job
        BY <1>2, <3>2, <3>3
      <3>5. (status \notin TerminalStatus) \in BOOLEAN
        OBVIOUS
      <3>6. answer'[w] \in Answer
        BY <3>1, <3>4, <3>5 DEF Answer
      <3>7. \A j : Status(j)' = Status(j)
        BY <2>3 DEF Status
      <3>8. /\ answer'[w].job = waits[w].job /\ answer'[w].status = status
            /\ answer'[w].timedOut = (status \notin TerminalStatus)
        BY <3>1
      <3>9. \A j : j = answer'[w].job => Status(j)' = status
        BY <3>3, <3>7, <3>8
      <3>10. answer'[w].timedOut <=> status \notin TerminalStatus
        BY <3>8
      <3> QED
        BY <3>6, <3>8, <3>9, <3>10
    <2> QED
      BY <1>3, <2>2, <2>3, OneWait DEF AnswerInv
  <1>6. ASSUME NEW v \in Watching
        PROVE  streams'[v] \in StreamState
    <2>1. streams[v] \in StreamState
      BY DEF AnswerInv, HttpTypeOK
    <2>2. CASE streams'[v] \in {streams[v], NoStream}
      BY <2>1, <2>2 DEF StreamState
    <2>3. CASE \E j \in DOMAIN jobs :
                 streams'[v] = [pc |-> "read", job |-> j, seen |-> jobs[j].status]
      BY <1>2, <2>3 DEF StreamState
    <2>4. ASSUME NEW h \in Seq(TerminalStatus), streams[v].pc \in {"read", "open"},
                 streams'[v] = [pc |-> "open", job |-> streams[v].job,
                                seen |-> streams[v].seen, heard |-> h]
          PROVE  streams'[v] \in StreamState
      <3>1. streams[v].job \in Job /\ streams[v].seen \in JobStatuses
        BY <2>4, StreamTypes DEF AnswerInv
      <3> QED
        BY <2>4, <3>1 DEF StreamState
    <2>5. << >> \in Seq(TerminalStatus)
      OBVIOUS
    <2>6. \A e \in TerminalStatus :
            streams[v].pc = "open" => Append(streams[v].heard, e) \in Seq(TerminalStatus)
      <3>1. streams[v].pc = "open" => streams[v].heard \in Seq(TerminalStatus)
        BY StreamTypes DEF AnswerInv
      <3> QED
        BY <3>1, AppendProperties
    <2> QED
      BY <2>2, <2>3, <2>4, <2>5, <2>6, OneStream DEF AnswerInv
  <1>7. HttpTypeOK'
    BY <1>1, <1>4, <1>5, <1>6, RequestFunctions
       DEF HttpTypeOK, CancelTypeOK, AnswerInv, BrokerInv
  <1>8. WaitedRows' /\ SeenHolds'
    BY <1>4 DEF WaitedRows, SeenHolds, Status
  <1>9. AnswerIsFinal'
    BY <1>5 DEF AnswerIsFinal, Status
  <1> QED
    BY <1>7, <1>8, <1>9 DEF AnswerInv

LEMMA HttpInvInit ==
    ASSUME Init, HttpInit
    PROVE  BrokerInv /\ CancelInv /\ AnswerInv
  <1>1. BrokerInv /\ CancelInv
    BY BrokerInvInit
       DEF HttpInit, CancelInv, CancelTypeOK, OwedFinished, OwedBehind, ToldFinished,
           ToldUnclaimed
  <1>2. HttpTypeOK
    BY DEF HttpInit, HttpTypeOK, WaitState, StreamState, Answer
  <1>3. WaitedRows /\ SeenHolds /\ AnswerIsFinal
    BY DEF HttpInit, WaitedRows, SeenHolds, AnswerIsFinal, NoWait
  <1> QED
    BY <1>1, <1>2, <1>3 DEF AnswerInv

LEMMA HttpInvStep ==
    ASSUME BrokerInv, CancelInv, AnswerInv, [HttpNext]_allVars
    PROVE  BrokerInv' /\ CancelInv' /\ AnswerInv'
  BY BrokerStep, BrokerInvStep, CancelInvStep, AnswerInvStep

(* Type correctness of the requests: a wait and a stream serve a job, and no  *)
(* stream writes anything but events that finish its job.                     *)
THEOREM RequestsTyped == HttpSpec => []HttpTypeOK
  <1>1. BrokerInv /\ CancelInv /\ AnswerInv /\ [HttpNext]_allVars =>
          BrokerInv' /\ CancelInv' /\ AnswerInv'
    BY HttpInvStep
  <1>2. AnswerInv => HttpTypeOK
    BY DEF AnswerInv
  <1> QED
    BY HttpInvInit, <1>1, <1>2, PTL DEF HttpSpec

(* A caller of GET /jobs/:id/wait that is told its job is finished is told    *)
(* the status the job keeps; one that is told it has timed out is not told a  *)
(* final status.                                                              *)
THEOREM AnswersAreFinal == HttpSpec => []AnswerIsFinal
  <1>1. BrokerInv /\ CancelInv /\ AnswerInv /\ [HttpNext]_allVars =>
          BrokerInv' /\ CancelInv' /\ AnswerInv'
    BY HttpInvStep
  <1>2. AnswerInv => AnswerIsFinal
    BY DEF AnswerInv
  <1> QED
    BY HttpInvInit, <1>1, <1>2, PTL DEF HttpSpec

-----------------------------------------------------------------------------
(* No event slips through between a request's get() and its subscribing.     *)

Reading == \/ \E w \in Waiting : waits[w].pc = "read"
           \/ \E v \in Watching : streams[v].pc = "read"

\* While a request has a promise job to run, nobody finishes a job: with the
\* store of this repository its promise jobs run to the end of its event.
ReadsAlone == Reading => NoCalls /\ NoTicks

\* Nothing has been announced of a job that was seen active.
ReadFresh ==
    /\ \A w \in Waiting : waits[w].pc = "read" /\ waits[w].seen \notin TerminalStatus =>
         announced[waits[w].job] = << >>
    /\ \A v \in Watching : streams[v].pc = "read" /\ streams[v].seen \notin TerminalStatus =>
         announced[streams[v].job] = << >>

SlipInv == ReadsAlone /\ ReadFresh /\ NoneMissed

LEMMA ActiveUnannounced ==
    ASSUME BrokerInv, NEW j \in DOMAIN jobs, jobs[j].status \notin TerminalStatus
    PROVE  announced[j] = << >>
  <1>1. j \in Job /\ Status(j) = jobs[j].status
    BY DEF BrokerInv, Inv, ServiceInv, StoreTypeOK, Status
  <1>2. announced[j] \in Seq(TerminalStatus)
    BY <1>1 DEF BrokerInv, Inv, ServiceInv, ServiceTypeOK
  <1>3. announced[j] # <<Status(j)>>
    BY <1>1, <1>2
  <1> QED
    BY <1>1, <1>3 DEF BrokerInv, AnnounceInv, TerminalAnnouncedOnce

\* Only a call announces, and it is none of those under way at a read.
LEMMA OnlyCallsAnnounce ==
    ASSUME [HttpNext]_allVars
    PROVE  UNCHANGED announced \/ \E a \in Actor : Works(a)
  <1>1. CASE Unnoticed
    BY <1>1 DEF Unnoticed, Starts, Request, Submit, ToolCall, HttpCall, Begin, Attach, Disconnect,
                TickStart, Drain, TimePasses, ExpireNext, ListJobsInFlight, OrphanNext, TickEnd,
                Restart, serviceVars, vars
  <1>2. CASE Dies
    BY <1>2 DEF Dies, Crash
  <1>3. CASE WaitMove \/ StreamMove \/ \E a \in Caller : CancelStep(a)
    BY <1>3 DEF WaitMove, StreamMove, CancelStep, vars, serviceVars
  <1> QED
    BY <1>1, <1>2, <1>3, HttpCases

LEMMA WorksNotAlone ==
    ASSUME NEW a \in Actor, Works(a)
    PROVE  ~NoCalls
  <1>1. calls[a].pc # "idle"
    BY DEF Works, Work, CallStep, Submitted, Decide, PatchLost, Settle
  <1> QED
    BY <1>1 DEF NoCalls, Idle

\* A request that starts to read finds nobody at work, and nobody starts
\* while it reads.
LEMMA StaysAlone ==
    ASSUME ~Overlap, BrokerInv, HttpTypeOK, ReadsAlone, [HttpNext]_allVars
    PROVE  ReadsAlone'
  <1>1. TakesUp => NoCalls /\ NoTicks
    BY DEF TakesUp, Turn, Quiet
  <1>2. Reading => ~HttpQuiet
    BY DEF Reading, HttpQuiet
  <1>3. CASE Unnoticed
    <2>1. Reading' <=> Reading
      BY <1>3 DEF Unnoticed, httpVars, waitVars, Reading
    <2>2. CASE Starts
      BY <1>2, <2>1, <2>2 DEF Starts, ReadsAlone
    <2>3. CASE UNCHANGED <<calls, sweep>>
      BY <2>1, <2>3 DEF ReadsAlone, NoCalls, NoTicks
    <2>4. CASE \E t \in Ticks : ExpireNext(t) \/ ListJobsInFlight(t) \/ OrphanNext(t) \/ TickEnd(t)
      <3>1. ~NoTicks
        BY <2>4 DEF ExpireNext, ListJobsInFlight, OrphanNext, TickEnd, NoTick, NoTicks
      <3> QED
        BY <2>1, <3>1 DEF ReadsAlone
    <2>5. ASSUME \/ \E s \in Session : Drain(s)
                 \/ \E j \in Job : TimePasses(j)
                 \/ Restart \/ UNCHANGED vars
          PROVE  UNCHANGED <<calls, sweep>>
      BY <2>5 DEF Drain, TimePasses, Restart, vars, serviceVars
    <2> QED
      BY <1>3, <2>2, <2>3, <2>4, <2>5 DEF Unnoticed
  <1>4. CASE \E a \in Actor : Works(a)
    <2>1. ~Reading
      BY <1>4, WorksNotAlone DEF ReadsAlone
    <2>2. ~Reading'
      <3>1. \A w \in Waiting : waits'[w].pc # "read"
        BY <1>4, <2>1, WaitTypes DEF Works, Delivers, Reading, Wakes
      <3>2. \A v \in Watching : streams'[v].pc # "read"
        <4>1. ASSUME NEW v \in Watching PROVE streams'[v].pc = streams[v].pc
          <5>1. \A e : Hears(v) => [streams[v] EXCEPT !.heard = Append(@, e)].pc = "open"
            BY OpenHears DEF Hears
          <5>2. Hears(v) => streams[v].pc = "open"
            BY DEF Hears
          <5> QED
            BY <1>4, <5>1, <5>2 DEF Works, Delivers
        <4> QED
          BY <2>1, <4>1 DEF Reading
      <3> QED
        BY <3>1, <3>2 DEF Reading
    <2> QED
      BY <2>2 DEF ReadsAlone
  <1>5. CASE Dies
    BY <1>5 DEF Dies, Reading, NoWait, NoStream, ReadsAlone
  <1>6. CASE WaitMove \/ StreamMove
    <2>1. UNCHANGED <<calls, sweep>>
      BY <1>6 DEF WaitMove, StreamMove, vars, serviceVars
    <2>2. Reading' => Reading \/ TakesUp
      <3>1. CASE WaitMove
        <4>1. \A w \in Waiting : waits'[w].pc = "read" => waits[w].pc = "read" \/ TakesUp
          <5>1. NoWait.pc = "idle"
            BY DEF NoWait
          <5>2. \A j : /\ [pc |-> "listening", job |-> j].pc = "listening"
                       /\ [pc |-> "woken", job |-> j].pc = "woken"
            OBVIOUS
          <5>3. ASSUME NEW w \in Waiting, waits'[w].pc = "read", ~TakesUp
                PROVE  waits'[w] = waits[w]
            BY <5>1, <5>2, <5>3, OneWait, Zenon
          <5> QED
            BY <5>3
        <4> QED
          BY <3>1, <4>1 DEF WaitMove, Reading
      <3>2. CASE StreamMove
        <4>1. \A v \in Watching : streams'[v].pc = "read" => streams[v].pc = "read" \/ TakesUp
          <5>1. NoStream.pc = "idle"
            BY DEF NoStream
          <5>2. \A j, t, h : [pc |-> "open", job |-> j, seen |-> t, heard |-> h].pc = "open"
            OBVIOUS
          <5>3. ASSUME NEW v \in Watching, streams'[v].pc = "read", ~TakesUp
                PROVE  streams'[v] = streams[v]
            <6>1. streams'[v] # NoStream
              BY <5>1, <5>3
            <6>2. ~\E j, t, h : streams'[v] = [pc |-> "open", job |-> j, seen |-> t, heard |-> h]
              BY <5>2, <5>3
            <6> QED
              BY <5>3, <6>1, <6>2, OneStream, Zenon
          <5> QED
            BY <5>3
        <4> QED
          BY <3>2, <4>1 DEF StreamMove, waitVars, Reading
      <3> QED
        BY <1>6, <3>1, <3>2
    <2> QED
      BY <1>1, <2>1, <2>2 DEF ReadsAlone, NoCalls, NoTicks
  <1>7. CASE \E a \in Caller : CancelStep(a)
    BY <1>7 DEF CancelStep, vars, serviceVars, waitVars, ReadsAlone, Reading, NoCalls, NoTicks
  <1> QED
    BY <1>3, <1>4, <1>5, <1>6, <1>7, HttpCases

LEMMA SlipInvStep ==
    ASSUME ~Overlap, BrokerInv, CancelInv, AnswerInv, SlipInv, [HttpNext]_allVars
    PROVE  SlipInv'
  <1>1. ReadsAlone'
    BY StaysAlone DEF AnswerInv, SlipInv
  <1>2. UNCHANGED vars => UNCHANGED <<jobs, announced>>
    BY DEF vars, serviceVars
  <1>3. Reading => UNCHANGED announced
    BY OnlyCallsAnnounce, WorksNotAlone DEF SlipInv, ReadsAlone
  <1>4. ASSUME NEW w \in Waiting
        PROVE  \A j : /\ j = waits'[w].job
                     /\ \/ /\ waits'[w].pc = "read"
                           /\ waits'[w].seen \notin TerminalStatus
                        \/ waits'[w].pc = "listening"
                     => announced'[j] = << >>
    <2>1. CASE waits'[w] = waits[w]
      <3>1. CASE waits[w].pc = "read"
        BY <1>3, <2>1, <3>1 DEF Reading, SlipInv, ReadFresh
      <3>2. CASE waits[w].pc = "listening"
        <4>1. announced[waits[w].job] = << >>
          BY <3>2 DEF SlipInv, NoneMissed
        <4>2. CASE \E a \in Actor : Works(a)
          <5>1. PICK a \in Actor : Works(a)
            BY <4>2
          <5>2. waits'[w] # [pc |-> "woken", job |-> waits[w].job]
            BY <2>1, <3>2
          <5>3. ~(waits[w].pc = "listening" /\ Publishes(waits[w].job))
            BY <5>1, <5>2, WorkDelivers DEF BrokerInv, AnswerInv
          <5> QED
            BY <2>1, <3>2, <4>1, <5>3 DEF Publishes
        <4> QED
          BY <2>1, <4>1, <4>2, OnlyCallsAnnounce
      <3> QED
        BY <2>1, <3>1, <3>2
    <2>2. ASSUME NEW j \in DOMAIN jobs, UNCHANGED vars,
                 waits'[w] = [pc |-> "read", job |-> j, seen |-> jobs[j].status],
                 waits'[w].seen \notin TerminalStatus
          PROVE  announced'[j] = << >>
      BY <1>2, <2>2, ActiveUnannounced
    <2>3. CASE /\ UNCHANGED vars
               /\ waits[w].pc = "read" /\ waits[w].seen \notin TerminalStatus
               /\ waits'[w] = [pc |-> "listening", job |-> waits[w].job]
      BY <1>2, <2>3 DEF SlipInv, ReadFresh
    <2>4. CASE waits'[w].pc \in {"woken", "idle"}
      BY <2>4
    <2>5. \/ waits'[w] = waits[w]
          \/ /\ UNCHANGED vars
             /\ \E j \in DOMAIN jobs :
                  waits'[w] = [pc |-> "read", job |-> j, seen |-> jobs[j].status]
          \/ /\ UNCHANGED vars
             /\ waits[w].pc = "read" /\ waits[w].seen \notin TerminalStatus
             /\ waits'[w] = [pc |-> "listening", job |-> waits[w].job]
          \/ waits'[w].pc \in {"woken", "idle"}
      <3>1. waits'[w] = NoWait => waits'[w].pc = "idle"
        BY DEF NoWait
      <3>2. waits'[w] = [pc |-> "woken", job |-> waits[w].job] => waits'[w].pc = "woken"
        OBVIOUS
      <3> QED
        BY <3>1, <3>2, OneWait DEF AnswerInv
    <2>6. CASE /\ UNCHANGED vars
               /\ \E j \in DOMAIN jobs :
                    waits'[w] = [pc |-> "read", job |-> j, seen |-> jobs[j].status]
      BY <2>2, <2>6
    <2> QED
      BY <2>1, <2>3, <2>4, <2>5, <2>6
  <1>5. ASSUME NEW v \in Watching
        PROVE  \A j : j = streams'[v].job =>
                 /\ streams'[v].pc = "read" /\ streams'[v].seen \notin TerminalStatus =>
                      announced'[j] = << >>
                 /\ streams'[v].pc = "open" /\ streams'[v].seen \notin TerminalStatus =>
                      streams'[v].heard = announced'[j]
    <2>1. CASE streams'[v] = streams[v]
      <3>1. CASE streams[v].pc = "read"
        BY <1>3, <2>1, <3>1 DEF Reading, SlipInv, ReadFresh
      <3>2. CASE streams[v].pc = "open" /\ streams[v].seen \notin TerminalStatus
        <4>1. streams[v].heard = announced[streams[v].job]
          BY <3>2, StreamTypes DEF SlipInv, NoneMissed, AnswerInv, JobStatuses
        <4>2. CASE \E a \in Actor : Works(a)
          <5>1. ASSUME NEW e
                PROVE  streams[v].heard # Append(streams[v].heard, e)
            <6>1. streams[v].heard \in Seq(TerminalStatus)
              BY <3>2, StreamTypes DEF AnswerInv
            <6>2. Len(Append(streams[v].heard, e)) = Len(streams[v].heard) + 1
                  /\ Len(streams[v].heard) \in Nat
              BY <6>1
            <6> QED
              BY <6>2
          <5>2. PICK h : h = streams[v].heard
            OBVIOUS
          <5>3. \A e : streams'[v] # [pc |-> "open", job |-> streams[v].job,
                                      seen |-> streams[v].seen, heard |-> Append(h, e)]
            BY <2>1, <5>1, <5>2
          <5>4. ~Publishes(streams[v].job)
            BY <2>1, <3>2, <4>2, <5>2, <5>3, WorkDelivers DEF BrokerInv, AnswerInv
          <5> QED
            BY <2>1, <3>2, <4>1, <5>4 DEF Publishes
        <4> QED
          BY <2>1, <3>2, <4>1, <4>2, OnlyCallsAnnounce
      <3> QED
        BY <2>1, <3>1, <3>2
    <2>2. ASSUME NEW j \in DOMAIN jobs, UNCHANGED vars,
                 streams'[v] = [pc |-> "read", job |-> j, seen |-> jobs[j].status],
                 streams'[v].seen \notin TerminalStatus
          PROVE  announced'[j] = << >>
      BY <1>2, <2>2, ActiveUnannounced
    <2>3. CASE /\ UNCHANGED vars
               /\ streams[v].pc = "read"
               /\ streams'[v] = [pc |-> "open", job |-> streams[v].job, seen |-> streams[v].seen,
                                 heard |-> << >>]
      BY <1>2, <2>3 DEF SlipInv, ReadFresh
    <2>4. CASE streams'[v] = NoStream
      BY <2>4 DEF NoStream
    <2>5. ASSUME NEW e, streams[v].pc = "open",
                 announced'[streams[v].job] = Append(announced[streams[v].job], e),
                 streams'[v] = [pc |-> "open", job |-> streams[v].job, seen |-> streams[v].seen,
                                heard |-> Append(streams[v].heard, e)]
          PROVE  streams[v].seen \notin TerminalStatus =>
                   streams'[v].heard = announced'[streams[v].job]
      <3>1. streams[v].seen \notin TerminalStatus =>
              streams[v].heard = announced[streams[v].job]
        BY <2>5, StreamTypes DEF SlipInv, NoneMissed, AnswerInv, JobStatuses
      <3>2. streams'[v].heard = Append(streams[v].heard, e)
        BY <2>5
      <3> QED
        BY <2>5, <3>1, <3>2
    <2>6. CASE /\ UNCHANGED vars
               /\ \E j \in DOMAIN jobs :
                    streams'[v] = [pc |-> "read", job |-> j, seen |-> jobs[j].status]
      BY <2>2, <2>6
    <2>7. CASE /\ streams[v].pc = "open"
               /\ \E e \in TerminalStatus :
                    /\ announced'[streams[v].job] = Append(announced[streams[v].job], e)
                    /\ streams'[v] = [pc |-> "open", job |-> streams[v].job,
                                      seen |-> streams[v].seen,
                                      heard |-> Append(streams[v].heard, e)]
      <3>1. PICK e \in TerminalStatus :
               /\ announced'[streams[v].job] = Append(announced[streams[v].job], e)
               /\ streams'[v] = [pc |-> "open", job |-> streams[v].job,
                                 seen |-> streams[v].seen,
                                 heard |-> Append(streams[v].heard, e)]
        BY <2>7
      <3>2. /\ streams'[v].pc = "open" /\ streams'[v].job = streams[v].job
            /\ streams'[v].seen = streams[v].seen
        BY <3>1
      <3> QED
        BY <2>5, <2>7, <3>1, <3>2
    <2> QED
      BY <2>1, <2>3, <2>4, <2>6, <2>7, OneStream DEF AnswerInv
  <1>6. ReadFresh'
    BY <1>4, <1>5 DEF ReadFresh
  <1>7. NoneMissed'
    BY <1>4, <1>5 DEF NoneMissed, ActiveStatus, TerminalStatus
  <1> QED
    BY <1>1, <1>6, <1>7 DEF SlipInv

(* With a store whose methods finish before they return, which is the store   *)
(* there is, no event slips through: a wait request that still listens has    *)
(* none to hear, and a stream has had all those of a job it found unfinished. *)
THEOREM NoEventMissed ==
    ASSUME ~Overlap
    PROVE  HttpSpec => []NoneMissed
  <1>1. Init /\ HttpInit => SlipInv
    BY DEF HttpInit, SlipInv, ReadsAlone, Reading, ReadFresh, NoneMissed, NoWait, NoStream
  <1>2. /\ BrokerInv /\ CancelInv /\ AnswerInv /\ SlipInv /\ [HttpNext]_allVars =>
             BrokerInv' /\ CancelInv' /\ AnswerInv' /\ SlipInv'
    BY HttpInvStep, SlipInvStep
  <1>3. SlipInv => NoneMissed
    BY DEF SlipInv
  <1> QED
    BY HttpInvInit, <1>1, <1>2, <1>3, PTL DEF HttpSpec
=============================================================================
