------------------------------ MODULE JobStatus ------------------------------
(***************************************************************************)
(* The states of a job (ports/types.ts).  The code keeps the status as a   *)
(* column of the job's row; "absent" stands for a row not yet inserted.    *)
(***************************************************************************)

ActiveStatus   == {"pending", "dispatched", "in_progress"}

InFlightStatus == {"dispatched", "in_progress"}

TerminalStatus == {"completed", "failed", "cancelled", "expired", "orphaned"}

JobStatuses    == ActiveStatus \cup TerminalStatus
=============================================================================
