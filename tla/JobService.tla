------------------------------ MODULE JobService ------------------------------
(***************************************************************************)
(* The job service (broker/job-service.ts): every request and tool call    *)
(* that reads or writes a job.  A call is cut at its awaits, like a drain: *)
(*                                                                         *)
(*   Submit  -> [insert]  -> Submitted -> [drain]                          *)
(*   Begin   -> [get]     -> Decide    -> [transitionStatus or patch]      *)
(*           -> Settle    -> [drain, when the job was finished]            *)
(*                                                                         *)
(* `seen` and `notes` are what get() returned; they may be stale by the    *)
(* time the call decides.  A request that fails validation, or names a job *)
(* that does not exist, changes nothing and is not modelled.               *)
(***************************************************************************)
EXTENDS Dispatcher

VARIABLES
    calls,          \* calls[a]: the call actor a is making
    announced,      \* announced[j]: terminal statuses published for j, in order
    acked           \* acked[j]: notes whose caller was told they were added

serviceVars == <<calls, announced, acked>>

FinishOp == {"complete", "fail", "cancel", "expire", "orphan"}
AppendOp == {"note", "comment"}
ToolOp   == {"complete", "fail", "note", "ack"}      \* lines of a shim
HttpOp   == {"cancel", "comment"}                    \* HTTP requests
GetOp    == FinishOp \cup AppendOp \cup {"ack"}

\* The terminal status each finishing call asks for.
Target == [complete |-> "completed", fail |-> "failed", cancel |-> "cancelled",
           expire   |-> "expired",   orphan |-> "orphaned"]

Idle == [pc |-> "idle"]

ReadCall(pcs, ops) == [pc : pcs, op : ops, job : Job, seen : JobStatuses,
                       notes : SUBSET Note, add : SUBSET Note]

\* seen, notes: what get() returned.
\* add: the notes the call appends, a singleton for AppendOp, else empty.
\* done: whether the write took place.
CallState ==
    {Idle}
      \cup [pc : {"insert"}, job : Job]
      \cup ReadCall({"get"}, GetOp) \cup ReadCall({"lost"}, {"note"})
      \cup [pc : {"write"}, op : GetOp, job : Job, add : SUBSET Note, done : BOOLEAN]

ServiceTypeOK == /\ calls \in [Actor -> CallState]
                 /\ announced \in [Job -> Seq(TerminalStatus)]
                 /\ acked \in [Job -> SUBSET Note]

NoCalls == calls = [a \in Actor |-> Idle]

ServiceInit == /\ NoCalls
               /\ announced = [j \in Job |-> <<>>]
               /\ acked = [j \in Job |-> {}]

\* a has no call under way.  A call that has notified waits for its drain.
Free(a) == calls[a] = Idle /\ ~Awaits(a)

Becomes(a, call) == calls' = [calls EXCEPT ![a] = call]

\* The store's result is in and the drain, if any, is queued.
Ends(a) == Becomes(a, Idle)

-----------------------------------------------------------------------------
(* submit().  It reads created_at, and with a client_ref awaits a search,   *)
(* before it inserts: j may be older than rows that are there (see Request). *)

Submit(a, j, s, kind) ==
    /\ Free(a) /\ NewJob(j)
    /\ Insert(j, s, kind)
    /\ Becomes(a, [pc |-> "insert", job |-> j])
    /\ UNCHANGED <<dispatcherVars, announced, acked>>

Submitted(a) ==
    /\ calls[a].pc = "insert"
    /\ NotifyPending(jobs[calls[a].job].session, a)
    /\ Ends(a)
    /\ UNCHANGED <<jobs, announced, acked>>

-----------------------------------------------------------------------------
(* The calls that begin with get().                                        *)

Begin(a, op, j, add) ==
    /\ Free(a) /\ j \in DOMAIN jobs
    /\ Becomes(a, [pc |-> "get", op |-> op, job |-> j, seen |-> jobs[j].status,
                   notes |-> jobs[j].notes, add |-> add])
    /\ UNCHANGED <<jobs, dispatcherVars, announced, acked>>

\* The write a call asks the store for, and whether it takes place.
Writes(a, done) ==
    Becomes(a, [pc |-> "write", op |-> calls[a].op, job |-> calls[a].job,
                add |-> calls[a].add, done |-> done])

\* Bug: the finisher writes back the notes it read with the row.
DecideFinishStale(a) ==
    LET c == calls[a]
    IN  /\ c.op \in FinishOp
        /\ IF c.seen \in TerminalStatus
           THEN Ends(a) /\ UNCHANGED jobs
           ELSE /\ TransitionStatus(c.job, c.seen, Target[c.op], c.notes)
                /\ Writes(a, Expected(c.job, c.seen))

\* transitionToTerminal: from whatever active status was seen.  The throwing
\* calls get a ConflictError, the sweeper's the job; neither writes.
DecideFinish(a) ==
    LET c == calls[a]
    IN  /\ c.op \in FinishOp
        /\ IF c.seen \in TerminalStatus
           THEN Ends(a) /\ UNCHANGED jobs
           ELSE /\ TransitionStatus(c.job, c.seen, Target[c.op], jobs[c.job].notes)
                /\ Writes(a, Expected(c.job, c.seen))

\* noteProgress: the first note moves a dispatched job to in_progress.  The
\* notes written are those seen, with the new one.
DecideNote(a) ==
    LET c == calls[a]
    IN  /\ c.op = "note"
        /\ \/ c.seen \in TerminalStatus /\ Ends(a) /\ UNCHANGED jobs
           \/ /\ c.seen = "dispatched"
              /\ TransitionStatus(c.job, c.seen, "in_progress", c.notes \cup c.add)
              /\ IF Expected(c.job, c.seen)
                 THEN Writes(a, TRUE)
                 ELSE Becomes(a, [c EXCEPT !.pc = "lost"])
           \/ /\ c.seen \in {"pending", "in_progress"}
              /\ Patch(c.job, c.notes \cup c.add)
              /\ Writes(a, TRUE)

\* Bug: the patch after the lost race carries the status too.
PatchLostStatus(a) ==
    /\ calls[a].pc = "lost"
    /\ WriteStatus(calls[a].job, "in_progress", calls[a].notes \cup calls[a].add)
    /\ Writes(a, TRUE)
    /\ UNCHANGED <<dispatcherVars, announced, acked>>

\* "Lost the race; just patch progress notes", whatever won it.
PatchLost(a) ==
    /\ calls[a].pc = "lost"
    /\ Patch(calls[a].job, calls[a].notes \cup calls[a].add)
    /\ Writes(a, TRUE)
    /\ UNCHANGED <<dispatcherVars, announced, acked>>

DecideAck(a) ==
    LET c == calls[a]
    IN  /\ c.op = "ack"
        /\ IF c.seen # "dispatched"
           THEN Ends(a) /\ UNCHANGED jobs
           ELSE /\ TransitionStatus(c.job, c.seen, "in_progress", jobs[c.job].notes)
                /\ Writes(a, Expected(c.job, c.seen))

DecideComment(a) ==
    LET c == calls[a]
    IN  /\ c.op = "comment"
        /\ IF c.seen \in TerminalStatus
           THEN Ends(a) /\ UNCHANGED jobs
           ELSE Patch(c.job, c.notes \cup c.add) /\ Writes(a, TRUE)

Decide(a) ==
    /\ calls[a].pc = "get"
    /\ DecideFinish(a) \/ DecideNote(a) \/ DecideAck(a) \/ DecideComment(a)
    /\ UNCHANGED <<dispatcherVars, announced, acked>>

-----------------------------------------------------------------------------
\* Bug: the event is named after the call, not after the status reached.
SettleFinishVerb(a) ==
    LET c == calls[a]
    IN  /\ c.op \in FinishOp /\ c.done
        /\ announced' = [announced EXCEPT ![c.job] = Append(@, c.op)]
        /\ NotifyDone(jobs[c.job].session, a)
        /\ UNCHANGED acked

\* Bug: the sweeper's calls do not move the queue on.
SettleFinishQuietly(a) ==
    LET c == calls[a]
    IN  /\ c.op \in FinishOp /\ c.done
        /\ announced' = [announced EXCEPT ![c.job] = Append(@, Target[c.op])]
        /\ IF c.op \in {"expire", "orphan"}
           THEN UNCHANGED dispatcherVars
           ELSE NotifyDone(jobs[c.job].session, a)
        /\ UNCHANGED acked

\* A finished job is announced on the bus and its session's queue moves on.
SettleFinish(a) ==
    LET c == calls[a]
    IN  /\ c.op \in FinishOp /\ c.done
        /\ announced' = [announced EXCEPT ![c.job] = Append(@, Target[c.op])]
        /\ NotifyDone(jobs[c.job].session, a)
        /\ UNCHANGED acked

\* job.progress and job.commented: the caller is told its note is in.
SettleOther(a) ==
    LET c == calls[a]
    IN  /\ c.op \notin FinishOp /\ c.done
        /\ acked' = [acked EXCEPT ![c.job] = @ \cup c.add]
        /\ UNCHANGED <<dispatcherVars, announced>>

\* The compare-and-set lost: "job state changed under us; retry", null to the
\* sweeper, the job as it was seen to ack.
SettleLost(a) == ~calls[a].done /\ UNCHANGED <<dispatcherVars, announced, acked>>

Settle(a) ==
    /\ calls[a].pc = "write"
    /\ SettleFinish(a) \/ SettleOther(a) \/ SettleLost(a)
    /\ Ends(a)
    /\ UNCHANGED jobs

CallStep(a) == Submitted(a) \/ Decide(a) \/ PatchLost(a) \/ Settle(a)
=============================================================================
