------------------------------- MODULE JobStore -------------------------------
(***************************************************************************)
(* The job table (adapters/job-store/sqlite.ts): one row per job, and the  *)
(* statements the broker runs on it.  Every operation is one statement or  *)
(* one transaction, so each is atomic here.                                *)
(*                                                                         *)
(* A job's identifier is its place in the order of created_at, which is    *)
(* what the queries order by.  Timestamps, content, result and error text  *)
(* are left out; progress_notes is the set of notes appended.              *)
(***************************************************************************)
EXTENDS Identifiers, JobStatus, Integers, FiniteSets

Mode     == {"serial", "fire-and-forget"}
Priority == 0..2        \* high, normal, low: the CASE of findPending's ORDER BY

CONSTANTS
    Kind,           \* kinds of jobs submitted: their mode and priority
    Note,           \* progress notes and comments
    FindLimit       \* rows findPending returns at most (16 in the dispatcher)

ASSUME KindAssumption == Kind \subseteq [mode : Mode, priority : Priority]
ASSUME FindLimitAssumption == FindLimit \in Nat \ {0}

VARIABLE jobs       \* the table: a function on the ids of the rows it holds

Row == [session  : Session, mode   : Mode,        priority : Priority,
        status   : JobStatuses, notes : SUBSET Note]

StoreTypeOK == /\ DOMAIN jobs \subseteq Job
               /\ \A j \in DOMAIN jobs : jobs[j] \in Row

Status(j) == IF j \in DOMAIN jobs THEN jobs[j].status ELSE "absent"

-----------------------------------------------------------------------------
(* Statements that write.                                                  *)

\* The id of a row to insert.
NewJob(j) == j \in Job \ DOMAIN jobs

\* The one next in order: created_at is later than that of every row.
NextJob(j) == /\ NewJob(j)
              /\ \A k \in Job \ DOMAIN jobs : j <= k

Insert(j, s, kind) ==
    jobs' = [k \in DOMAIN jobs \cup {j} |->
               IF k = j THEN [session |-> s, mode |-> kind.mode,
                              priority |-> kind.priority, status |-> "pending",
                              notes |-> {}]
                        ELSE jobs[k]]

\* Bug: the UPDATE forgets its AND status = @expectedFrom.
ExpectedAnything(j, from) == j \in DOMAIN jobs

\* Whether transitionStatus finds the row in the status its caller expects;
\* it returns null, and writes nothing, when it does not.
Expected(j, from) == Status(j) = from

WriteStatus(j, to, notes) ==
    jobs' = [jobs EXCEPT ![j].status = to, ![j].notes = notes]

\* The outcome is Expected(j, from), read in the same step.
TransitionStatus(j, from, to, notes) ==
    IF Expected(j, from) THEN WriteStatus(j, to, notes) ELSE UNCHANGED jobs

\* patch() looks at no status: it writes to a finished job too.
Patch(j, notes) == jobs' = [jobs EXCEPT ![j].notes = notes]

-----------------------------------------------------------------------------
(* Queries.                                                                *)

Pending(s) == {j \in DOMAIN jobs : jobs[j].session = s /\ jobs[j].status = "pending"}

\* Bug: the queue is read newest first.
BeforeDescending(j, k) == \/ jobs[j].priority < jobs[k].priority
                          \/ jobs[j].priority = jobs[k].priority /\ k < j

\* ORDER BY priority, created_at ASC.
Before(j, k) == \/ jobs[j].priority < jobs[k].priority
                \/ jobs[j].priority = jobs[k].priority /\ j < k

FindPending(s) ==
    {j \in Pending(s) : Cardinality({k \in Pending(s) : Before(k, j)}) < FindLimit}

InFlight == {j \in DOMAIN jobs : jobs[j].status \in InFlightStatus}

\* list({status: [dispatched, in_progress], limit}): ORDER BY created_at DESC.
ListInFlight(limit) ==
    {j \in InFlight : Cardinality({k \in InFlight : k > j}) < limit}

\* Bug: a job in progress never expires.
FindExpiredNotStarted(overdue, limit) ==
    LET rows == {j \in DOMAIN jobs \cap overdue : jobs[j].status \in {"pending", "dispatched"}}
    IN  {batch \in SUBSET rows : \/ Cardinality(batch) = limit
                                 \/ batch = rows /\ Cardinality(batch) < limit}

\* findExpired(now, limit) over the jobs whose expires_at has passed: the
\* deadlines' order is not modelled, so any `limit` of them may come back.
FindExpired(overdue, limit) ==
    LET rows == {j \in DOMAIN jobs \cap overdue : jobs[j].status \in ActiveStatus}
    IN  {batch \in SUBSET rows : \/ Cardinality(batch) = limit
                                 \/ batch = rows /\ Cardinality(batch) < limit}
=============================================================================
