-------------------------------- MODULE Broker --------------------------------
(***************************************************************************)
(* The broker process: the job service and its dispatcher, the session     *)
(* registry, the sweeper (broker/sweeper.ts), the HTTP and tool callers,   *)
(* and the process dying and starting again (broker/broker.ts).            *)
(*                                                                         *)
(* Only the job table outlives the process.                                *)
(***************************************************************************)
EXTENDS JobService

CONSTANTS
    Caller,         \* HTTP requests and tool calls that may be under way at once
    Ticks,          \* ticks of the sweeper that may be under way at once
    Ops,            \* the calls Caller makes in this instance
    BatchSize,      \* rows a sweep handles (100 by default)
    ListLimit,      \* rows start() reads (500)
    MaxDrains,      \* bound: drains queued for a session by attach events
    MaxCrashes,     \* bound: how often the process dies
    Timed,          \* bound: the jobs whose time passes; if none, no sweeper runs
    Overlap         \* whether handlers of different events overlap (see Turn)

ASSUME ActorAssumption == Actor = Caller \cup Ticks /\ Caller \cap Ticks = {}
ASSUME OpsAssumption == Ops \subseteq {"submit"} \cup ToolOp \cup HttpOp
ASSUME LimitAssumption == BatchSize \in Nat \ {0} /\ ListLimit \in Nat \ {0}
ASSUME TimedAssumption == Timed \subseteq Job
ASSUME OverlapAssumption == Overlap \in BOOLEAN

VARIABLES
    overdue,        \* jobs whose expires_at has passed
    aged,           \* jobs dispatched at least orphan_grace_sec ago
    sweep,          \* sweep[t]: how far tick t of the sweeper has come
    reading,        \* a chunk of tool calls is being read (see Turn)
    crashes,        \* how often the process has died
    inherited       \* jobs in flight when the process started

timeVars == <<overdue, aged>>

vars == <<jobs, sessionVars, dispatcherVars, serviceVars, timeVars, sweep, reading, crashes,
          inherited>>

NoTick == [pc |-> "idle"]

NoTicks == sweep = [t \in Ticks |-> NoTick]

\* todo: rows the tick still has to look at; old: the jobs whose grace had
\* passed at the `now` the tick began with.
SweepState == {NoTick} \cup [pc : {"expire", "orphan"}, todo : SUBSET Job, old : SUBSET Job]

TypeOK == /\ StoreTypeOK /\ SessionTypeOK /\ DispatcherTypeOK /\ ServiceTypeOK
          /\ overdue \subseteq Job /\ aged \subseteq Job
          /\ sweep \in [Ticks -> SweepState]
          /\ reading \in BOOLEAN
          /\ crashes \in Nat /\ inherited \subseteq Job

Init == /\ jobs = << >>
        /\ SessionInit /\ DispatcherInit /\ ServiceInit
        /\ overdue = {} /\ aged = {}
        /\ NoTicks
        /\ reading = FALSE
        /\ crashes = 0 /\ inherited = {}

-----------------------------------------------------------------------------
(***************************************************************************)
(* When an event handler may start.  The JobStore port returns promises,   *)
(* and with a store that is slow to settle them (Overlap = TRUE) handlers  *)
(* of different events interleave at every await.  The SQLite adapter's    *)
(* methods finish before they return, so the promise jobs of one event run *)
(* to the end before the next event is taken up (Overlap = FALSE); only    *)
(* the tool calls that arrive in one chunk of a socket then overlap: its   *)
(* lines are handled one after the other up to their first await, before   *)
(* any promise job runs.                                                   *)
(***************************************************************************)

DispatcherQuiet == \A s \in Session : ~Draining(s)

Quiet == DispatcherQuiet /\ NoCalls /\ NoTicks

Turn == running /\ (Overlap \/ Quiet)

-----------------------------------------------------------------------------
(* Requests, tool calls, and the connections of the shims.                 *)

\* POST /jobs.  What runs to the end inserts in the order of created_at.
Request(a) ==
    /\ Turn
    /\ "submit" \in Ops
    /\ \E j \in Job, s \in Session, kind \in Kind : /\ Overlap \/ NextJob(j)
                                                   /\ Submit(a, j, s, kind)
    /\ UNCHANGED <<sessionVars, timeVars, sweep, reading, crashes, inherited>>

\* A note nobody has used: what is appended is told apart by its text.
Fresh(n) == /\ \A j \in DOMAIN jobs : n \notin jobs[j].notes
            /\ \A j \in Job : n \notin acked[j]
            /\ \A a \in Actor : calls[a].pc \in {"get", "lost", "write"} => n \notin calls[a].add

Appended(op) == IF op \in AppendOp THEN {{n} : n \in {k \in Note : Fresh(k)}} ELSE {{}}

\* A toolCall line.  The job need not be one of the caller's session.
ToolCall(a, op) ==
    /\ running /\ (Turn \/ reading)
    /\ \E j \in Job, add \in Appended(op) : Begin(a, op, j, add)
    /\ reading' = ~Overlap
    /\ UNCHANGED <<sessionVars, timeVars, sweep, crashes, inherited>>

HttpCall(a, op) ==
    /\ Turn
    /\ \E j \in Job, add \in Appended(op) : Begin(a, op, j, add)
    /\ UNCHANGED <<sessionVars, timeVars, sweep, reading, crashes, inherited>>

Attach(s) ==
    /\ Turn
    /\ Len(chain[s]) < MaxDrains
    /\ AttachSession(s) \/ AttachReplaced(s)
    /\ NotifySessionAttached(s)
    /\ UNCHANGED <<jobs, serviceVars, timeVars, sweep, reading, crashes, inherited>>

Disconnect(s) ==
    /\ Turn
    /\ CloseConnection(s) \/ DeleteSession(s)
    /\ UNCHANGED <<jobs, dispatcherVars, serviceVars, timeVars, sweep, reading, crashes, inherited>>

-----------------------------------------------------------------------------
(* Time.  Only what has passed is kept, not how long ago.                  *)

Expire(j) == /\ j \in DOMAIN jobs \ overdue /\ jobs[j].status \in ActiveStatus
             /\ overdue' = overdue \cup {j}
             /\ UNCHANGED aged

Age(j) == /\ j \in InFlight \ aged
          /\ aged' = aged \cup {j}
          /\ UNCHANGED overdue

TimePasses(j) ==
    /\ j \in Timed
    /\ Expire(j) \/ Age(j)
    /\ UNCHANGED <<jobs, sessionVars, dispatcherVars, serviceVars, sweep, reading, crashes, inherited>>

-----------------------------------------------------------------------------
(* The sweeper.  A timer starts a tick whether or not the last has finished. *)

Sweeping(t, pc, todo, old) ==
    sweep' = [sweep EXCEPT ![t] = [pc |-> pc, todo |-> todo, old |-> old]]

\* Evict the stale sessions and ask for the expired jobs.
TickStart(t) ==
    /\ Timed # {} /\ Turn /\ sweep[t] = NoTick
    /\ \E stale \in SUBSET {s \in Session : IsAttached(s)} : EvictStale(stale)
    /\ \E batch \in FindExpired(overdue, BatchSize) : Sweeping(t, "expire", batch, aged)
    /\ UNCHANGED <<jobs, dispatcherVars, serviceVars, timeVars, reading, crashes, inherited>>

\* markExpired of the next row; the tick waits for the call and its drain.
ExpireNext(t) ==
    /\ sweep[t].pc = "expire"
    /\ \E j \in sweep[t].todo :
         /\ Begin(t, "expire", j, {})
         /\ Sweeping(t, "expire", sweep[t].todo \ {j}, sweep[t].old)
    /\ UNCHANGED <<sessionVars, timeVars, reading, crashes, inherited>>

ListJobsInFlight(t) ==
    /\ sweep[t].pc = "expire" /\ sweep[t].todo = {} /\ Free(t)
    /\ Sweeping(t, "orphan", ListInFlight(BatchSize), sweep[t].old)
    /\ UNCHANGED <<jobs, sessionVars, dispatcherVars, serviceVars, timeVars, reading, crashes, inherited>>

\* The rows to orphan: the grace is counted from dispatched_at.
Orphans(t) == {j \in sweep[t].todo : Unreachable(jobs[j].session) /\ j \in sweep[t].old}

\* markOrphaned of the newest row that qualifies; those before it are skipped.
OrphanNext(t) ==
    /\ sweep[t].pc = "orphan"
    /\ \E j \in Orphans(t) :
         /\ \A k \in Orphans(t) : k <= j
         /\ Begin(t, "orphan", j, {})
         /\ Sweeping(t, "orphan", {k \in sweep[t].todo : k < j}, sweep[t].old)
    /\ UNCHANGED <<sessionVars, timeVars, reading, crashes, inherited>>

TickEnd(t) ==
    /\ sweep[t].pc = "orphan" /\ Orphans(t) = {} /\ Free(t)
    /\ sweep' = [sweep EXCEPT ![t] = NoTick]
    /\ UNCHANGED <<jobs, sessionVars, dispatcherVars, serviceVars, timeVars, reading, crashes, inherited>>

SweepStep(t) == \/ TickStart(t) \/ ExpireNext(t) \/ ListJobsInFlight(t)
                \/ OrphanNext(t) \/ TickEnd(t)

-----------------------------------------------------------------------------
(* The process.                                                            *)

\* It dies: the registry, the queues and the calls under way are gone.
Crash ==
    /\ running /\ crashes < MaxCrashes
    /\ running' = FALSE
    /\ registry' = [s \in Session |-> "absent"]
    /\ linked' = [s \in Session |-> FALSE]
    /\ busy' = {}
    /\ chain' = [s \in Session |-> <<>>]
    /\ drain' = [s \in Session |-> Resting]
    /\ calls' = [a \in Actor |-> Idle]
    /\ sweep' = [t \in Ticks |-> NoTick]
    /\ crashes' = crashes + 1
    /\ reading' = FALSE
    /\ UNCHANGED <<jobs, sent, announced, acked, timeVars, inherited>>

\* Bug: what was in flight when the process died is queued again.
RestartRequeue ==
    /\ ~running
    /\ running' = TRUE
    /\ jobs' = [j \in DOMAIN jobs |->
                  IF jobs[j].status = "dispatched" THEN [jobs[j] EXCEPT !.status = "pending"]
                                                   ELSE jobs[j]]
    /\ UNCHANGED <<busy, chain, drain, sent, sessionVars, serviceVars, timeVars>>
    /\ UNCHANGED <<sweep, reading, crashes, inherited>>

\* startBroker: the dispatcher has started before any event is taken up.
Restart ==
    /\ ~running
    /\ Start(ListLimit)
    /\ inherited' = InFlight
    /\ UNCHANGED <<jobs, sessionVars, serviceVars, timeVars, sweep, reading, crashes>>

-----------------------------------------------------------------------------
Work(a) == /\ CallStep(a)
           /\ reading' = FALSE
           /\ UNCHANGED <<sessionVars, timeVars, sweep, crashes, inherited>>

Drain(s) == /\ DrainStep(s)
            /\ reading' = FALSE
            /\ UNCHANGED <<sessionVars, serviceVars, timeVars, sweep, crashes, inherited>>

Next == \/ \E a \in Caller : Request(a)
        \/ \E a \in Caller, op \in Ops \cap ToolOp : ToolCall(a, op)
        \/ \E a \in Caller, op \in Ops \cap HttpOp : HttpCall(a, op)
        \/ \E a \in Actor : Work(a)
        \/ \E s \in Session : Attach(s) \/ Disconnect(s) \/ Drain(s)
        \/ \E j \in Job : TimePasses(j)
        \/ \E t \in Ticks : SweepStep(t)
        \/ Crash \/ Restart

Spec == Init /\ [][Next]_vars
=============================================================================
