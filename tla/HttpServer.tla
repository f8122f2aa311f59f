------------------------------- MODULE HttpServer -------------------------------
(***************************************************************************)
(* What the HTTP server (broker/http-server.ts) does around the job        *)
(* service's calls, on top of Broker:                                      *)
(*                                                                         *)
(*   GET /jobs/:id/wait     reads the job, waits on the bus until an event *)
(*                          says it is finished or its time is up, and     *)
(*                          reads again;                                   *)
(*   GET /jobs/:id/stream   reads the job and passes on its events until   *)
(*                          the client goes;                               *)
(*   DELETE /jobs/:id       once cancel() has returned, writes a cancel    *)
(*                          line to the session's shim.                    *)
(*                                                                         *)
(* The bus (broker/sse-bus.ts) calls its listeners while publish() runs,   *)
(* so whoever publishes reaches the listeners in the same step.            *)
(***************************************************************************)
EXTENDS BrokerProperties

CONSTANTS
    Waiting,        \* wait requests that may be under way at once
    Watching        \* stream requests that may be open at once

VARIABLES
    waits,          \* waits[w]: the request w is serving
    answer,         \* answer[w]: the last answer w gave
    streams,        \* streams[v]: the stream v is serving
    owed,           \* owed[a]: jobs a has cancelled and not yet sent word of
    told            \* jobs a cancel line was written for

waitVars   == <<waits, answer>>
cancelVars == <<owed, told>>
httpVars   == <<waitVars, streams, cancelVars>>

allVars == <<vars, httpVars>>

NoWait   == [pc |-> "idle"]
NoStream == [pc |-> "idle"]
NoAnswer == [status |-> "none"]

WaitState ==
    {NoWait}
      \cup [pc : {"read"}, job : Job, seen : JobStatuses]     \* the first get()
      \cup [pc : {"listening", "woken"}, job : Job]           \* bus.waitFor

\* heard: the terminal events written to the client, in order.
StreamState ==
    {NoStream}
      \cup [pc : {"read"}, job : Job, seen : JobStatuses]     \* get()
      \cup [pc : {"open"}, job : Job, seen : JobStatuses, heard : Seq(TerminalStatus)]

Answer == {NoAnswer} \cup [job : Job, status : JobStatuses, timedOut : BOOLEAN]

HttpTypeOK == /\ waits \in [Waiting -> WaitState] /\ answer \in [Waiting -> Answer]
              /\ streams \in [Watching -> StreamState]
              /\ owed \in [Caller -> SUBSET Job] /\ told \subseteq Job

HttpInit == /\ waits = [w \in Waiting |-> NoWait]
            /\ answer = [w \in Waiting |-> NoAnswer]
            /\ streams = [v \in Watching |-> NoStream]
            /\ owed = [a \in Caller |-> {}]
            /\ told = {}

\* No request has a promise job to run.
HttpQuiet == /\ \A w \in Waiting : waits[w].pc \in {"idle", "listening"}
             /\ \A v \in Watching : streams[v].pc \in {"idle", "open"}
             /\ \A a \in Caller : owed[a] = {}

\* A request may be taken up.
TakesUp == Turn /\ (Overlap \/ HttpQuiet)

-----------------------------------------------------------------------------
(* GET /jobs/:id/wait.                                                     *)

\* Bug: timed_out is left false.
AnswersInTime(w, status) ==
    /\ waits' = [waits EXCEPT ![w] = NoWait]
    /\ answer' = [answer EXCEPT ![w] = [job |-> waits[w].job, status |-> status,
                                        timedOut |-> FALSE]]

Answers(w, status) ==
    /\ waits' = [waits EXCEPT ![w] = NoWait]
    /\ answer' = [answer EXCEPT ![w] = [job |-> waits[w].job, status |-> status,
                                        timedOut |-> status \notin TerminalStatus]]

\* get() of the job.
StartWait(w) ==
    /\ TakesUp /\ waits[w] = NoWait
    /\ \E j \in DOMAIN jobs :
         waits' = [waits EXCEPT ![w] = [pc |-> "read", job |-> j, seen |-> jobs[j].status]]
    /\ UNCHANGED answer

\* Bug: a job that is finished already is waited for.
ListenAlways(w) ==
    /\ waits[w].pc = "read"
    /\ waits' = [waits EXCEPT ![w] = [pc |-> "listening", job |-> waits[w].job]]
    /\ UNCHANGED answer

\* Bug: the answer given at once lacks its timed_out.
ListenUnflagged(w) ==
    /\ waits[w].pc = "read"
    /\ IF waits[w].seen \in TerminalStatus
       THEN /\ waits' = [waits EXCEPT ![w] = NoWait]
            /\ answer' = [answer EXCEPT ![w] = [job |-> waits[w].job, status |-> waits[w].seen]]
       ELSE /\ waits' = [waits EXCEPT ![w] = [pc |-> "listening", job |-> waits[w].job]]
            /\ UNCHANGED answer

\* A finished job is answered at once; otherwise waitFor() subscribes.
Listen(w) ==
    /\ waits[w].pc = "read"
    /\ IF waits[w].seen \in TerminalStatus
       THEN Answers(w, waits[w].seen)
       ELSE /\ waits' = [waits EXCEPT ![w] = [pc |-> "listening", job |-> waits[w].job]]
            /\ UNCHANGED answer

\* The timer aborts waitFor().
TimeIsUp(w) == /\ waits[w].pc = "listening"
               /\ waits' = [waits EXCEPT ![w].pc = "woken"]
               /\ UNCHANGED answer

\* get() again, whoever woke it.
ReadAgain(w) == waits[w].pc = "woken" /\ Answers(w, Status(waits[w].job))

WaitStep(w) == (Listen(w) \/ ReadAgain(w)) /\ UNCHANGED <<vars, streams, cancelVars>>

-----------------------------------------------------------------------------
(* GET /jobs/:id/stream.                                                   *)

\* get() of the job, for its not being there only.
OpenStream(v) ==
    /\ TakesUp /\ streams[v] = NoStream
    /\ \E j \in DOMAIN jobs :
         streams' = [streams EXCEPT ![v] = [pc |-> "read", job |-> j, seen |-> jobs[j].status]]

\* Whatever the job's status, the headers go out and the bus is subscribed to.
Subscribe(v) ==
    /\ streams[v].pc = "read"
    /\ streams' = [streams EXCEPT ![v] = [pc |-> "open", job |-> streams[v].job,
                                          seen |-> streams[v].seen, heard |-> <<>>]]

StreamStep(v) == Subscribe(v) /\ UNCHANGED <<vars, waitVars, cancelVars>>

\* Only the client ends a stream.
CloseStream(v) == /\ streams[v].pc = "open"
                  /\ streams' = [streams EXCEPT ![v] = NoStream]

-----------------------------------------------------------------------------
(* The bus.                                                                *)

\* This step publishes a terminal event of j, the one announced last.
Publishes(j) == announced'[j] # announced[j]
Event(j) == announced'[j][Len(announced'[j])]

\* Bug: the set of terminal statuses lacks those the sweeper gives.
WakesNotSwept(w) ==
    /\ waits[w].pc = "listening"
    /\ Publishes(waits[w].job)
    /\ Event(waits[w].job) \in {"completed", "failed", "cancelled"}

\* The event published in this step, if any, ends the wait of w.
Wakes(w) == /\ waits[w].pc = "listening"
            /\ Publishes(waits[w].job)
            /\ Event(waits[w].job) \in TerminalStatus

\* Bug: a stream is not given the events of the sweeper.
HearsUnlessSwept(v) == /\ streams[v].pc = "open"
                          /\ Publishes(streams[v].job)
                          /\ Event(streams[v].job) \notin {"expired", "orphaned"}

Hears(v) == streams[v].pc = "open" /\ Publishes(streams[v].job)

Delivers ==
    /\ waits' = [w \in Waiting |-> IF Wakes(w) THEN [waits[w] EXCEPT !.pc = "woken"]
                                               ELSE waits[w]]
    /\ streams' = [v \in Watching |->
                     IF Hears(v) THEN [streams[v] EXCEPT !.heard = Append(@, Event(streams[v].job))]
                                 ELSE streams[v]]
    /\ UNCHANGED answer

-----------------------------------------------------------------------------
(* DELETE /jobs/:id.                                                       *)

\* a's cancel() has won: it will return when the drain it waits for is over.
Cancels(a) == calls[a].pc = "write" /\ calls[a].op = "cancel" /\ calls[a].done

Owes(a) == IF Cancels(a) THEN [owed EXCEPT ![a] = {calls[a].job}] ELSE owed

\* Bug: the notice does not wait for cancel().
NotifyCancelAtOnce(a) ==
    /\ \E j \in owed[a] :
         told' = IF Reachable(jobs[j].session) THEN told \cup {j} ELSE told
    /\ owed' = [owed EXCEPT ![a] = {}]

\* cancelJob: nothing is written when the session has no connection.
NotifyCancel(a) ==
    /\ ~Awaits(a)
    /\ \E j \in owed[a] :
         told' = IF Reachable(jobs[j].session) THEN told \cup {j} ELSE told
    /\ owed' = [owed EXCEPT ![a] = {}]

CancelStep(a) == NotifyCancel(a) /\ UNCHANGED <<vars, waitVars, streams>>

-----------------------------------------------------------------------------
\* A handler starts; one that is under way goes on.
Starts == /\ Overlap \/ HttpQuiet
          /\ \/ \E a \in Caller :
                  /\ owed[a] = {}
                  /\ \/ Request(a)
                     \/ \E op \in Ops \cap ToolOp : ToolCall(a, op)
                     \/ \E op \in Ops \cap HttpOp : HttpCall(a, op)
             \/ \E s \in Session : Attach(s) \/ Disconnect(s)
             \/ \E t \in Ticks : TickStart(t)
          /\ UNCHANGED httpVars

Works(a) == /\ Work(a) /\ Delivers
            /\ owed' = IF a \in Caller THEN Owes(a) ELSE owed
            /\ UNCHANGED told

GoesOn == \/ \E a \in Actor : Works(a)
          \/ /\ \/ \E s \in Session : Drain(s)
                \/ \E j \in Job : TimePasses(j)
                \/ \E t \in Ticks : \/ ExpireNext(t) \/ ListJobsInFlight(t)
                                   \/ OrphanNext(t) \/ TickEnd(t)
             /\ UNCHANGED httpVars

Dies == /\ Crash
        /\ waits' = [w \in Waiting |-> NoWait]
        /\ streams' = [v \in Watching |-> NoStream]
        /\ owed' = [a \in Caller |-> {}]
        /\ UNCHANGED <<answer, told>>

HttpNext == \/ Starts \/ GoesOn \/ Dies
            \/ Restart /\ UNCHANGED httpVars
            \/ \E w \in Waiting : \/ (StartWait(w) \/ TimeIsUp(w))
                                       /\ UNCHANGED <<vars, streams, cancelVars>>
                                  \/ WaitStep(w)
            \/ \E v \in Watching : \/ (OpenStream(v) \/ CloseStream(v))
                                        /\ UNCHANGED <<vars, waitVars, cancelVars>>
                                   \/ StreamStep(v)
            \/ \E a \in Caller : CancelStep(a)

HttpSpec == Init /\ HttpInit /\ [][HttpNext]_allVars

\* Promise jobs run.  Nothing here makes time pass.
HttpFairness == /\ \A a \in Actor : WF_allVars(Works(a))
                /\ \A s \in Session : WF_allVars(Drain(s) /\ UNCHANGED httpVars)
                /\ \A w \in Waiting : WF_allVars(WaitStep(w))
                /\ \A v \in Watching : WF_allVars(StreamStep(v))
                /\ \A a \in Caller : WF_allVars(CancelStep(a))

FairHttpSpec == HttpSpec /\ HttpFairness

-----------------------------------------------------------------------------
(* A request that read the job before its end does not miss the event that   *)
(* announces it: none slips through between its get() and its subscribing.   *)
NoneMissed ==
    /\ \A w \in Waiting : waits[w].pc = "listening" => announced[waits[w].job] = <<>>
    /\ \A v \in Watching :
         streams[v].pc = "open" /\ streams[v].seen \in ActiveStatus =>
           streams[v].heard = announced[streams[v].job]

(* An answer says timed_out = false exactly when its job is finished, and    *)
(* then with the status the job keeps.                                       *)
AnswerIsFinal ==
    \A w \in Waiting : answer[w] # NoAnswer =>
      IF answer[w].timedOut THEN answer[w].status \notin TerminalStatus
                            ELSE Status(answer[w].job) = answer[w].status
                                   /\ answer[w].status \in TerminalStatus

(* "Block until terminal" (README.md): a waiter whose job is finished is     *)
(* answered without its timer, unless the process dies.                      *)
WaiterIsTold ==
    \A w \in Waiting :
      (waits[w].pc = "listening" /\ Status(waits[w].job) \in TerminalStatus)
         ~> (waits[w].pc # "listening")

(* A shim does not get a job it has been told is cancelled: a cancel that     *)
(* overtakes the drain which has claimed the job waits for it, so that the    *)
(* cancel line follows the dispatch line.                                     *)
CancelAfterDispatch == [][\A j \in told : sent'[j] = sent[j]]_allVars
=============================================================================
