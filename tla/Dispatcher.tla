------------------------------ MODULE Dispatcher ------------------------------
(***************************************************************************)
(* The in-process dispatcher (adapters/job-dispatcher/inproc.ts).  Each    *)
(* notification appends a drain to its session's promise chain; the drains *)
(* of one session run one after the other, those of two sessions overlap.  *)
(*                                                                         *)
(* A drain is cut at its awaits: an action is what runs between two of     *)
(* them, and the pc names the call whose promise the drain is waiting on.  *)
(***************************************************************************)
EXTENDS JobStore, Sessions, Sequences

CONSTANT Actor      \* the callers that may wait for a drain

VARIABLES
    running,        \* between start() and stop()
    busy,           \* sessions marked as having a serial job in flight
    chain,          \* chain[s]: whom each drain not yet finished was queued for
    drain,          \* drain[s]: the drain at the head of chain[s]
    sent            \* sent[j]: dispatch messages written to a shim for job j

dispatcherVars == <<running, busy, chain, drain, sent>>

AttachEvent == "attached"       \* the registry's event: nobody waits

Waiter == Actor \cup {AttachEvent}

Resting == [pc |-> "resting"]

DrainState ==
    {Resting}
      \cup [pc : {"finding"},  found : SUBSET Job]             \* findPending
      \cup [pc : {"claiming"}, job : Job, claimed : BOOLEAN]   \* transitionStatus
      \cup [pc : {"sending"},  job : Job, written : BOOLEAN]   \* sink.send

DispatcherTypeOK ==
    /\ running \in BOOLEAN
    /\ busy \subseteq Session
    /\ chain \in [Session -> Seq(Waiter)]
    /\ drain \in [Session -> DrainState]
    /\ sent \in [Job -> Nat]

NothingQueued == /\ busy = {}
                 /\ chain = [s \in Session |-> <<>>]
                 /\ drain = [s \in Session |-> Resting]

DispatcherInit == running = TRUE /\ NothingQueued /\ sent = [j \in Job |-> 0]

\* Some drain of s is queued or under way.
Draining(s) == chain[s] # <<>>

\* `a` awaits a drain.
Awaits(a) == \E s \in Session : \E i \in 1..Len(chain[s]) : chain[s][i] = a

-----------------------------------------------------------------------------
(* Notifications.  Each is the tail of a handler of another component.     *)

\* Bug: a notification is dropped while a drain is under way.
RunUnlessDraining(s, w) ==
    IF running /\ ~Draining(s) THEN [chain EXCEPT ![s] = Append(@, w)] ELSE chain

RunForSession(s, w) == IF running THEN [chain EXCEPT ![s] = Append(@, w)] ELSE chain

NotifyPending(s, w) == /\ chain' = RunForSession(s, w)
                       /\ UNCHANGED <<running, busy, drain, sent>>

\* Bug: the mark is cleared and nobody looks at the queue.
NotifyDoneNoDrain(s, w) == busy' = busy \ {s} /\ UNCHANGED <<running, chain, drain, sent>>

\* Whatever job of s is done, and whether or not a drain may run, the mark goes.
NotifyDone(s, w) == /\ busy' = busy \ {s}
                    /\ chain' = RunForSession(s, w)
                    /\ UNCHANGED <<running, drain, sent>>

NotifySessionAttached(s) == /\ chain' = RunForSession(s, AttachEvent)
                            /\ UNCHANGED <<running, busy, drain, sent>>

-----------------------------------------------------------------------------
(* drainOnce.                                                              *)

\* The promise at the head of the chain settles; the next drain may start.
Return(s) == /\ drain' = [drain EXCEPT ![s] = Resting]
             /\ chain' = [chain EXCEPT ![s] = Tail(@)]

\* The head of the loop: look for pending jobs while the dispatcher runs.
Loop(s) == IF running
           THEN /\ drain' = [drain EXCEPT ![s] = [pc |-> "finding", found |-> FindPending(s)]]
                /\ UNCHANGED chain
           ELSE Return(s)

\* Whether the session is attached is asked once, before the loop.
StartDrain(s) ==
    /\ Draining(s) /\ drain[s] = Resting
    /\ IF IsAttached(s) THEN Loop(s) ELSE Return(s)
    /\ UNCHANGED <<jobs, running, busy, sent>>

\* The first job found that may be sent: a serial job waits for a busy
\* session, and the fire-and-forget jobs behind it overtake it.
Dispatchable(s, found) ==
    {j \in found : jobs[j].mode = "serial" => s \notin busy}

Pick(s, found) ==
    {j \in Dispatchable(s, found) : \A k \in Dispatchable(s, found) \ {j} : Before(j, k)}

\* findPending resolves: claim a job, or stop when none may be sent.
Claim(s) ==
    /\ drain[s].pc = "finding"
    /\ \/ /\ Pick(s, drain[s].found) = {}
          /\ Return(s)
          /\ UNCHANGED jobs
       \/ \E j \in Pick(s, drain[s].found) :
            /\ TransitionStatus(j, "pending", "dispatched", jobs[j].notes)
            /\ drain' = [drain EXCEPT ![s] = [pc |-> "claiming", job |-> j,
                                              claimed |-> Expected(j, "pending")]]
            /\ UNCHANGED chain
    /\ UNCHANGED <<running, busy, sent>>

\* transitionStatus resolves: only now is the session marked busy, and the
\* message is written if the session still has a connection.
Send(s) ==
    /\ drain[s].pc = "claiming"
    /\ LET j == drain[s].job
       IN  IF ~drain[s].claimed
           THEN Loop(s) /\ UNCHANGED <<busy, sent>>
           ELSE /\ busy' = IF jobs[j].mode = "serial" THEN busy \cup {s} ELSE busy
                /\ sent' = IF Reachable(s) THEN [sent EXCEPT ![j] = @ + 1] ELSE sent
                /\ drain' = [drain EXCEPT ![s] = [pc |-> "sending", job |-> j,
                                                  written |-> Reachable(s)]]
                /\ UNCHANGED chain
    /\ UNCHANGED <<jobs, running>>

\* Bug: the mark of a job that could not be written stays.
AfterSendKeepsMark(s) ==
    /\ drain[s].pc = "sending"
    /\ IF drain[s].written THEN Loop(s) ELSE Return(s)
    /\ UNCHANGED <<jobs, running, busy, sent>>

\* send resolves or throws.  After a throw the job stays dispatched, the
\* mark goes and the drain stops.
AfterSend(s) ==
    /\ drain[s].pc = "sending"
    /\ IF drain[s].written
       THEN Loop(s) /\ UNCHANGED busy
       ELSE /\ busy' = IF jobs[drain[s].job].mode = "serial" THEN busy \ {s} ELSE busy
            /\ Return(s)
    /\ UNCHANGED <<jobs, running, sent>>

DrainStep(s) == StartDrain(s) \/ Claim(s) \/ Send(s) \/ AfterSend(s)

-----------------------------------------------------------------------------
\* Bug: nobody rebuilds the marks.
StartUnmarked(limit) == running' = TRUE /\ UNCHANGED <<busy, chain, drain, sent>>

\* start(): the marks are rebuilt from the newest rows in flight.
Start(limit) ==
    /\ running' = TRUE
    /\ busy' = {jobs[j].session : j \in {k \in ListInFlight(limit) : jobs[k].mode = "serial"}}
    /\ UNCHANGED <<chain, drain, sent>>
=============================================================================
