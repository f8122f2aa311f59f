--------------------------- MODULE BrokerProperties ---------------------------
(***************************************************************************)
(* What the broker promises, stated over the variables of Broker.          *)
(***************************************************************************)
EXTENDS Broker

(* Each job goes through the lifecycle a submitter is promised, whatever    *)
(* calls, drains, sweeps and crashes interleave on it.                      *)
Lifecycle == INSTANCE JobLifecycle WITH status <- [j \in Job |-> Status(j)]

LifecycleSpec == Lifecycle!Spec

(* A job's dispatch message is written to a shim at most once, over          *)
(* reconnects and restarts too: a session never receives a job twice.        *)
SentAtMostOnce == \A j \in Job : sent[j] <= 1

(* Of the calls that race to finish a job exactly one wins: its terminal      *)
(* event is published once and names the status the job keeps, and the event  *)
(* is missing only while the winner has not settled, or after a crash.        *)
Settling(j) == \E a \in Actor : /\ calls[a].pc = "write" /\ calls[a].job = j
                                /\ calls[a].op \in FinishOp /\ calls[a].done

TerminalAnnouncedOnce ==
    \A j \in Job :
      \/ announced[j] = <<Status(j)>>
      \/ announced[j] = <<>> /\ (Status(j) \in TerminalStatus => Settling(j) \/ crashes > 0)

(* Serial jobs of one session and one priority leave the queue for the       *)
(* session in the order they were submitted: none is dispatched while an     *)
(* earlier one is still pending.                                             *)
Dispatched(j) == Status(j) = "pending" /\ Status(j)' = "dispatched"

Earlier(k, j) == /\ k < j
                 /\ jobs[k].session = jobs[j].session
                 /\ jobs[k].priority = jobs[j].priority
                 /\ jobs[k].mode = "serial" /\ jobs[j].mode = "serial"

SerialInOrder ==
    [][\A j \in DOMAIN jobs : Dispatched(j) =>
         \A k \in DOMAIN jobs : Earlier(k, j) => Status(k) # "pending"]_vars

(* No wake-up is lost.  Once every handler and drain has finished, a pending *)
(* job of a session that is attached, and can be reached, is a serial one     *)
(* kept back by the busy mark, or behind as many of those as a drain looks    *)
(* at (inproc.ts:108).                                                        *)
Unfinished(s) == \/ Draining(s)
                 \/ \E a \in Actor : calls[a] # Idle

NoLostWakeup ==
    \A s \in Session :
      running /\ IsAttached(s) /\ Reachable(s) /\ ~Unfinished(s) =>
        \A j \in FindPending(s) : jobs[j].mode = "serial" /\ s \in busy

(* The busy mark means what its comment says (inproc.ts:40): between events, *)
(* a marked session has a serial job in flight, so its queue will move when  *)
(* that job is done.                                                         *)
SerialInFlight(s) == {j \in InFlight : jobs[j].session = s /\ jobs[j].mode = "serial"}

BusyMeansInFlight ==
    \A s \in busy : Unfinished(s) \/ SerialInFlight(s) # {}

(* A write that fails leaves its job dispatched, "but unblock serial so we    *)
(* don't deadlock the session" (inproc.ts:152): between events a session is   *)
(* held back by a job that was written to it, or that was in flight already   *)
(* when the process started.                                                  *)
HeldByWrittenJob ==
    \A s \in busy : \/ Unfinished(s)
                    \/ \E j \in SerialInFlight(s) : sent[j] = 1 \/ j \in inherited

(* "Serial-mode dispatch by default (one in-flight job per session)"          *)
(* (README.md), of the jobs that were written to the session.                 *)
OneSerialInFlight ==
    \A s \in Session : Cardinality({j \in SerialInFlight(s) : sent[j] = 1}) <= 1

(* The same, where it holds: for a session whose jobs are all serial and were *)
(* all written to it before they ended.  What breaks it is thus a job of      *)
(* another mode, a job that ends while it waits (OneSerialInFlight), a write   *)
(* that failed, or a restart with more rows than start() reads.               *)
OnItsWay(j) == LET d == drain[jobs[j].session]
               IN  d.pc = "claiming" /\ d.job = j /\ d.claimed

WrittenInTurn(s) ==
    /\ Cardinality(DOMAIN jobs) <= ListLimit
    /\ \A j \in DOMAIN jobs : jobs[j].session = s =>
         /\ jobs[j].mode = "serial"
         /\ jobs[j].status = "pending" \/ sent[j] = 1 \/ OnItsWay(j)

OneAtATime ==
    \A s \in Session : WrittenInTurn(s) => \A i, j \in SerialInFlight(s) : i = j

(* "Add a progress note to a channel job" (broker/tools.ts): a note whose      *)
(* caller was told it is in stays in.                                         *)
NotesKept == \A j \in DOMAIN jobs : acked[j] \subseteq jobs[j].notes

(* What it takes to lose one: two calls that append to one job and have read  *)
(* its notes before either has written them.                                  *)
Appending(a, j) == /\ calls[a].pc \in {"get", "lost"}
                   /\ calls[a].op \in AppendOp /\ calls[a].job = j

OneAppender ==
    \A j \in Job : \A a, b \in Actor : Appending(a, j) /\ Appending(b, j) => a = b

-----------------------------------------------------------------------------
(* Liveness.  The promise jobs of the process all run; time passes; a process *)
(* that died is started again.  The sweeper's timer comes due again and again *)
(* and Node's event loop, which visits its timers in every round, does not    *)
(* leave it for ever behind requests: hence strong fairness of a tick's start.*)
Fairness == /\ \A a \in Actor : WF_vars(Work(a))
            /\ \A s \in Session : WF_vars(Drain(s))
            /\ \A j \in Job : WF_vars(TimePasses(j))
            /\ SF_vars(\E t \in Ticks : TickStart(t))
            /\ \A t \in Ticks : WF_vars(SweepStep(t))
            /\ WF_vars(Restart)

FairSpec == Spec /\ Fairness

(* Every job submitted is eventually finished, by its session or by the      *)
(* sweeper, whether or not a session ever takes it.                          *)
EventuallyTerminal ==
    \A j \in Job : (j \in DOMAIN jobs) ~> (Status(j) \in TerminalStatus)
=============================================================================
