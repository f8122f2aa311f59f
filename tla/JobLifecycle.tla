----------------------------- MODULE JobLifecycle -----------------------------
(***************************************************************************)
(* What a submitter is promised about one job, whatever the broker does    *)
(* inside: it is created once, handed to its session at most once, then    *)
(* possibly started, and finished at most once, and a finished job never   *)
(* changes again.  A job may be finished from any active state: cancelling *)
(* or expiring a queued job is legal, and so is completing one.            *)
(***************************************************************************)
EXTENDS JobStatus

CONSTANT Job        \* the identifiers jobs may be given

VARIABLE status     \* status[j], "absent" until j is created

Init == status = [j \in Job |-> "absent"]

Move(j, from, to) == /\ status[j] = from
                     /\ status' = [status EXCEPT ![j] = to]

Create(j)   == Move(j, "absent", "pending")

Dispatch(j) == Move(j, "pending", "dispatched")

Start(j)    == Move(j, "dispatched", "in_progress")

Finish(j)   == \E from \in ActiveStatus, to \in TerminalStatus : Move(j, from, to)

Next == \E j \in Job : Create(j) \/ Dispatch(j) \/ Start(j) \/ Finish(j)

Spec == Init /\ [][Next]_status
=============================================================================
