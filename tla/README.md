# A TLA+ model of claude-channel-broker

The broker hands *jobs* to Claude Code sessions. A caller submits a job over
HTTP; the broker keeps it in SQLite, and when the session's *shim* is connected
over a socket the dispatcher writes the job to it; the session reports back
with tool calls (`ack`, `note_progress`, `complete`, `fail`), and a *sweeper*
ends what nobody finishes.

The project has four parts, each checked with TLC on small instances and, but
for liveness, proved with TLAPS for every size:

* the **broker**: jobs, their dispatch and their end (`Broker`);
* the **HTTP server** around it: waits, streams, cancel notices (`HttpServer`);
* the **link** between a shim and the broker, line by line (`ShimLink`);
* the **deployment**: processes that start and stop, their files, labels,
  `client_ref`, and what keeps a shutdown waiting (`Deployment`).

Paths below are relative to the repository's `src/` unless they start with
`docs/`, `tests/` or `README.md`.

## 1. The system

| part | state it keeps | operations | correct when |
|---|---|---|---|
| job service (`broker/job-service.ts`) | none of its own: the job table, the bus, the dispatcher | submit, complete, fail, cancel, comment, noteProgress, ack, markExpired, markOrphaned | every job follows its lifecycle; one finisher wins, publishes once, and moves the queue on; an acknowledged note stays; a retried submit finds its job |
| dispatcher (`adapters/job-dispatcher/inproc.ts`) | `running`, `busy` sessions, one promise chain of drains per session | notifyPending, notifyDone, notifySessionAttached, start, stop | no job is sent twice; no wake-up is lost; one serial job in flight; serial jobs in order; the busy mark is about a job really in flight |
| job store (`adapters/job-store/sqlite.ts`) | the `jobs` table | insert, get, transitionStatus, patch, findPending, findExpired, list, findByClientRef | a transition is a compare-and-set; the queries return what their clauses say |
| session registry (`broker/session-registry.ts`) | sessions, their labels, status and last heartbeat | register, heartbeat, detach, evictStale, findByLabel, `attached` event | agrees with the connections of the socket server; a label leads to a session that can be reached |
| socket server (`broker/socket-server.ts`) | connections, session -> connection | register, reconnect, toolCall, heartbeat, onClose, send, close | a session is held by one connection; what was replaced does not speak for it |
| sweeper (`broker/sweeper.ts`) | a timer | tick: evict, expire, orphan | every job ends; it never ends a job already ended |
| HTTP server (`broker/http-server.ts`) | open waits and streams | submit, cancel, comment, delete session, wait, stream, spawn, close | a waiter hears of the end of its job, and what it hears is true; a cancel line follows the dispatch line |
| event bus (`broker/sse-bus.ts`) | listeners | publish, subscribe, waitFor | listeners run before `publish` returns |
| spawn helper (`broker/spawn.ts`) | a child, a deadline | poll the registry for the label | it ends |
| broker process (`broker/broker.ts`, `cli/daemon.ts`) | socket path, pidfile, port | start, stop, crash | a broker that runs can be found; what outlives it is the table and nothing is redone because of it; a stop ends |
| shim's client (`shim/broker-client.ts`) | its connection, reconnect timers, outbound queue, calls that wait | register, reconnect, callTool, close | each call settles once and truly; a lost connection is made good |

How they interact: the HTTP server and the socket server's tool router call the
job service; the job service writes the store, publishes on the bus and
notifies the dispatcher, **and awaits the drain it caused**; a drain reads the
store, asks the registry whether the session is attached and writes through the
socket server; the registry's `attached` event notifies the dispatcher without
waiting; the bus calls its listeners, the open waits and streams, while
`publish` runs; the sweeper calls the registry and the job service.

What is hard: everything is asynchronous, so a call's decision is made from
what it read some awaits ago; calls, drains and ticks race on one row; the
process may die between a claim and a write, and a new one may start while the
old one is still closing; the shim dials again from several places at once;
lines of two connections of one session are unordered. The hazards, each at its
line, are listed in `PROJECT.json` with the properties that watch them.

## 2. Execution model

Node runs one piece of code at a time, so the unit of interleaving is what runs
between two `await`s. An action is such a piece. A call or drain that is
waiting keeps what it has read, and its `pc` names the promise it waits for;
the store's effect happens in the step that calls the store.

Which pieces may interleave depends on the store:

* `Overlap = TRUE`: the `JobStore` port promises nothing about when its
  promises settle (a Postgres adapter is foreseen, and docs/architecture.md
  wants it to need no change of the service), so handlers of different
  events interleave at every await.
* `Overlap = FALSE`: the SQLite adapter does its work before it returns, so the
  promise jobs of one event run to the end before Node takes up the next one.
  Only tool-call lines that arrive in one chunk of a socket then overlap: each
  runs to its first await before any promise job does. `reading` in
  `Broker` is the time in which that is possible.

A property that holds with `Overlap = TRUE` holds of every store. One checked
with `FALSE`, or proved from `~Overlap`, is a fact about the broker as it is
shipped, and is said to be so.

## 3. Modules

| module | models | extends |
|---|---|---|
| `Identifiers`, `JobStatus` | the constants; the statuses of `ports/types.ts` | |
| `JobLifecycle` | *abstract*: one job as its submitter sees it | `JobStatus` |
| `JobStore` | the table and its queries (`sqlite.ts`) | `JobStatus`, `Identifiers` |
| `Sessions` | what the dispatcher asks about a session: registry status, and whether a connection holds it | `Identifiers` |
| `SessionView` | *abstract*: the operations of `Sessions` in any order, and the process starting over | `Sessions` |
| `Dispatcher` | `inproc.ts`: notifications, `drainOnce` cut at its three awaits, `start` | `JobStore`, `Sessions` |
| `JobService` | `job-service.ts`: calls cut at their awaits | `Dispatcher` |
| `Broker` | composition: requests, tool calls, connections, time, sweeper, crash and restart | `JobService` |
| `BrokerProperties` | everything stated about `Broker`, and its fairness | `Broker` |
| `HttpServer` | long polls, event streams, the bus, the cancel notice, on top of `Broker` | `BrokerProperties` |
| `RemoteCall` | *abstract*: what the caller of a tool is promised | |
| `Wire` | connections of one shim: a queue each way | |
| `ShimClient` | `broker-client.ts`, and `shim.ts` start and stop | `Wire` |
| `SocketServer` | `socket-server.ts` for one session, and the router's answers | `Wire` |
| `ShimLink` | composition of the two ends, broker restarts and shutdown; properties and fairness | `ShimClient`, `SocketServer` |
| `Daemon` | processes from start to exit, and the files and port they share (`cli/daemon.ts`, `broker.ts`) | |
| `Registry` | `session-registry.ts` as a sequence of handles with labels | |
| `Intake` | `POST /jobs` with a `client_ref`, spawn, event streams as requests that stay open | `Daemon`, `Registry` |
| `Deployment` | composition: processes, shims, clients; properties and fairness | `Intake` |
| `MCBroker`, `MCHttp`, `MCShimLink`, `MCDeployment` | instances for TLC | |
| `TypeProofs`, `BrokerProofs`, `DeliveryProofs`, `AnnounceProofs`, `QueueProofs` | theorems about `Broker` | each other, `BrokerProperties` |
| `HttpProofs`, `LinkProofs`, `DeploymentProofs` | theorems about `HttpServer`, `ShimLink`, `Deployment` | |

Definitions preceded by a comment `Bug:` are no part of the model. Each is the
definition beside it with a plausible mistake in it; substituting it makes the
property named with it in `PROJECT.json` fail, which shows that the property can
tell right code from wrong.

### How they correspond to the code

*`JobStore`.* `jobs` maps the ids of the rows to records of session, mode,
priority, status and notes. Ids are numbers that stand for the order of
`created_at`, which the queries sort by; ties within a millisecond, and a clock
that is set back, are left out. `submit` reads the clock before it may wait for
`findByClientRef` and inserts after it (`job-service.ts:116-142`). What runs to
the end inserts in that order (`NextJob`); with `Overlap` any unused id may come
next (`NewJob`), also one that is older than rows that are there.
`TransitionStatus`
is the `UPDATE ... WHERE status = ?`, with the notes as its patch; `Patch`
writes notes without asking for a status, as `patch` does. `FindPending` and
`ListInFlight` keep the `ORDER BY` and `LIMIT` of the queries. `FindExpired` has
a limit and no order, so it yields a *set* of possible batches.

*`Dispatcher`.* `chain[s]` is the promise chain of `runForSession`, each entry
naming who awaits that drain; `drain[s]` is its head. `StartDrain` asks whether
the session is attached; `Loop` is the top of the `while`; `Claim`
chooses the job and makes the compare-and-set; `Send` sets the busy mark after
the claim has resolved, and writes; `AfterSend` is the continuation or the
`catch`, which takes the mark back and leaves the job dispatched.

*`JobService`.* `Submit`/`Submitted`; and for the rest `Begin` (up to `get`),
`Decide` (from what `get` gave, to the write), `Settle` (publish, notify).
`PatchLost` is the second write of `noteProgress`. A finisher waits for the
drain it caused: `Free(a)` is false until then.

*`Broker`.* `overdue` and `aged` say which jobs are past their `expires_at` and
past the orphan grace; `TimePasses` adds to them. A tick is `TickStart`
(`evictStale`, `findExpired`), `ExpireNext` per row, `ListJobsInFlight`,
`OrphanNext` per row, `TickEnd`. `setInterval` does not wait for the last tick, so
`sweep` holds one state for each of `Ticks`; with `Overlap = FALSE` a tick is over
before the next event and two never meet. `Crash` keeps the table and the history variables
(`sent`, `announced`, `acked`) and drops everything else; `Restart` is
`startBroker` up to `dispatcher.start()`, and notes in `inherited` what it found
in flight. `Attach` is a register or reconnect line, or the same line from a
connection that another has replaced already (`AttachReplaced`): a reconnect
timer that fires while the shim is connected writes such a line
(`broker-client.ts:198-203`). It leaves a session attached that cannot be
reached, and is how a write comes to fail in the runs of `Broker`.

*`HttpServer`.* A long poll is `StartWait` (first `get`), `Listen` (answer, or
subscribe), `TimeIsUp`, `ReadAgain`. A stream is `OpenStream` (`get`, for a 404
only), `Subscribe`, and `CloseStream` by its client. The bus calls its listeners
inside `publish`, so `Delivers` is conjoined to every step of a call: when that
step extends `announced`, the waits it ends are woken and the streams hear it in
the same step. `owed[a]` is what `a` has cancelled and not sent word of: the
handler writes the cancel line once `cancel()` has returned, which is after the
drain it awaits, hence the guard `~Awaits(a)` of `NotifyCancel`. `told` is the
set of jobs for which that line was written.

*`ShimLink`.* One session, its shim and the broker. `sock[c]` and `peer[c]` are
the two ends of a connection, `up[c]` and `down[c]` what is under way; `current`
is `this.socket`, `timers` the reconnects scheduled, `holder` is what
`connectionFor` finds. An end that has ended its side still reads; a write to it
destroys it, and then only the lines that came in the chunk being handled are
still handled (`Reply`). A connection that is reset may say `error` before
`close`, and that schedules a reconnect of its own when no other connection is
current (`Disconnected`). `Connected` keeps the order of the code: the queue is flushed in
the `connect` handler, and only then does `reconnect()` resume and introduce
the session.

*`Daemon`.* A process goes `none -> starting -> bound -> up -> closing ->
ending -> none`: the socket server listens (what is at the path is unlinked,
whosever it is), then the HTTP server, then the pidfile and the signal
handlers; on a signal `http.close()` waits for its requests, `socket.close()`
for its connections, and path and pidfile are removed *by name*. `Vanishes` is
the end without any of that: a kill, a second signal, a port that is taken.

*`Registry`.* The `Map` of handles keeps the order of insertion and nothing is
removed from it, so it is a sequence; `FindByLabel` is the first attached match.

*`Intake`.* The rows with one `client_ref`: `FindByClientRef` looks within the
window, `Taken` is the unique index, which knows no window. `Post` runs to
`findByClientRef`, `Insert` is the statement (its failure is answered with a
500), `Reply` comes after the drain. A spawn and a stream matter for how long
they stay open.

*`Deployment`.* `shim[s]` is the process a shim is connected to, or `lost` while
it dials; `held[s]` the processes that map `s` to a connection, which lags
behind until their `onClose` has run; `declared[s]` is the label a shim last
registered with. Connections are coarse: a shim that reaches a process is
introduced to it in that step. `ShimLink` has what happens in between.

### Refinements

All five are checked or follow from what is checked, and **all are proved**.

* `Broker` implements `JobLifecycle` under `status[j] <- Status(j)`
  (`LifecycleSpec`; `BrokerProofs!RefinesLifecycle`).
* `HttpServer` implements `Broker`, with nothing renamed
  (`HttpProofs!ImplementsBroker`). Hence `overlap_calls` can check `Broker`'s
  properties under `HttpSpec`, and every theorem about `Broker` holds with
  waits, streams and cancel notices around it.
* `ShimLink` implements `SessionView` under `registry`, `linked <- holder #
  NoConn` (`LinkProofs!ImplementsView`), with connections that replace one
  another and straggling lines.
* `ShimLink` implements `RemoteCall` under `gone <- life = "closed"`, `waiting <-
  pending`, `runs <- executed` (`LinkProofs!ImplementsCalls`): queue, wire,
  router and reconnects together are one call that is asked, run at most once,
  and settled once.
* `Deployment` implements `SessionView` under the status its registry's handles
  give and `linked[s] <- p \in held[s]` (`DeploymentProofs!ImplementsView`), for
  many sessions and evictions of several at a time.

`SessionView` is what `Broker` assumes of its sessions, so the halves fit: any
behaviour of the socket server and the registry is one that `Broker`'s `Attach`,
`Disconnect`, `TickStart` and `Crash` allow. `sessionConn` may keep an entry for
a connection that is no longer in the map; `connectionFor` finds nothing then,
and `holder` is `NoConn`.

## 4. Runs

| run | asks | instance |
|---|---|---|
| `overlap_calls` | `TypeOK`, `TerminalAnnouncedOnce`, `NoLostWakeup`, `NotesKept`, `LifecycleSpec`, `CancelAfterDispatch` | `HttpSpec`: 1 job of either mode, 1 session, a caller that submits, cancels and notes, 2 ticks of the sweeper, `Overlap` |
| `turns` | `BusyMeansInFlight`, `HeldByWrittenJob`, `SentAtMostOnce`, `NoLostWakeup`, `OneAtATime`, `EventuallyTerminal`, `SerialInOrder` | 2 serial jobs, a caller that submits, acks and cancels, connections that replace one another, the sweeper with a batch of 1, one crash; as shipped |
| `http` | `HttpTypeOK`, `NoneMissed`, `AnswerIsFinal`, `WaiterIsTold` | 1 job, 2 callers that submit, complete, comment and cancel, the sweeper, one crash, 1 wait and 1 stream; as shipped |
| `link` | `TypeOK`, `ExecutedAtMostOnce`, `OutcomeIsTrue`, `OneHolder`, `ImplementsSessions`, `CallsKeepPromise` | 3 connections, 2 calls, a queue of 1, 2 reconnects at a time, broker exits once or shuts down, shim may be killed |
| `link_settles` | `ImplementsSessions`, `SettlesWithOneTimer` | 3 connections that may be reset, no calls, 2 reconnects at a time, broker goes twice, 1 eviction |
| `deployment` | `TypeOK`, `SocketReachesBroker`, `PidfileNamesBroker`, `AddressedRight`, `AnswersAgree`, `ImplementsSessions`, `ShutdownEnds` | a supervised broker that is stopped or killed twice, 1 session, 2 labels, 3 requests that post, spawn and stream, 2 rows |
| `serial_one`, `notes_kept`, `link_flaps`, `link_buffer`, `restart_race`, `labels_lost` | what the documentation says and the code does not do: section 6 | |

### Bounds, and why they are enough

* **Jobs, sessions, callers, ticks.** A race on a row needs one job and two
  actors: `overlap_calls` has three, a caller and two ticks that work on one row.
  The busy mark and the order of the queue need a second job behind the first:
  `turns` has it. It has one caller: with the SQLite adapter calls of two callers
  overlap only if they are tool calls of one chunk, and a `cancel` and the
  sweeper are the two finishers that matter there (`http` and `notes_kept` have
  two callers).
  Sessions share nothing but the process and the sweeper, so TLC has one; the
  theorems have any number of them, as of jobs, callers and ticks.
* **`FindLimit`, `BatchSize`, `ListLimit`** stand for the code's 16, 100 and 500.
  The batch is 1 where it is to bite (`turns`, `http`). `NoLostWakeup` speaks of
  the rows a drain looks at, and `SerialInOrder` is proved for every limit.
* **`MaxDrains = 1`** keeps `attached` events from queueing further drains when
  one is queued; drains queued by calls are bounded by the callers. Two queued
  drains (a call's behind an event's) occur.
* **`MaxCrashes`** is 1: a second crash meets a table of the same shapes.
* **`Timed`** is the set of jobs whose TTL and grace may pass; where it is empty
  time and the sweeper do not matter to what the run asks.
* **`Conn`** has three: the one in use, the one replacing it and one still
  dialling. A connection both ends have closed is used again.
* **`MaxTimers`** saturates: what is scheduled beyond it is dropped. 2 lets
  attempts overlap, 3 is what one failed attempt schedules. **`Resets`** says
  whether an `error` may come before a `close`: in `link_settles` and
  `link_flaps`, where the number of reconnects matters.
* **`MaxExits`, `MaxEvictions`, `Graceful`, `Kills`** say how often and how the
  broker and the shim end. **`QueueLimit = 1`** makes two calls overflow it.
* **`Supervised`** starts a process only when none is left, as a service manager
  or an operator who looks does; `restart_race` is without it. One `Proc` then
  stands for all its incarnations: it comes back with an empty registry and
  finds the files its last life left. Three requests in `deployment` are two
  posts that race and one that keeps a shutdown waiting, or any other mix.
* **`MaxRows = 2`** is one more than `AnswersAgree` allows one session;
  **`Kinds`** says which requests an instance makes.
* **`CHECK_DEADLOCK FALSE`** everywhere: with a finite number of jobs, exits and
  reconnects everything comes to rest.

Symmetry is used in runs with safety properties only: the two ticks in
`overlap_calls`, connections and calls in `link`. (`LifecycleSpec`,
`CancelAfterDispatch`, `ImplementsSessions` and `CallsKeepPromise` there are
safety properties: they have no fairness and treat the permuted values alike.)

### Fairness

* *Broker*: weak fairness of each call and each drain (promise jobs run), of
  `TimePasses`, of `SweepStep` (a tick goes on), of `Restart` (a supervisor, or
  the next CLI command, starts the broker again). `TickStart` has **strong**
  fairness: with `Overlap = FALSE` it is disabled while another event is being
  handled, hence not continuously enabled, but the timer stays due and Node
  visits its timers every round of the event loop. No request, tool call or
  connection is fair: nobody has to finish a job, nor to connect.
* *HttpServer*: fairness of promise jobs only. `TimeIsUp` and the sweeper have
  none: a waiter is woken by the event, not by its timer.
* *ShimLink*: weak fairness of both event loops (timers, dialling, reading what
  has arrived) and of the broker's coming back. None for tool calls, for
  routing an answer to a particular call, or for `Gone`, `Stop` and `Detach`.
* *Deployment*: the processes and the shims read what has arrived (`LinkStep`),
  a request is answered or its deadline passes (`Answered`), and a close that
  waits for nothing more goes on (`HttpClosed`, `SocketsClosed`). Nobody has to
  close a stream, to start anything or to stop it.

## 5. What the checks show

* A job follows its lifecycle, exactly one finisher wins and publishes the
  status the row keeps, under any interleaving at awaits and with ticks of the
  sweeper that overlap.
* No wake-up is lost: when all is quiet, what is pending on a reachable session
  is kept back by the busy mark and by nothing else, however submits, ends and
  attaches fall into a drain that is ending. (`NoLostWakeup` asks that the session is
  reachable: a straggling line of a replaced connection leaves it attached
  and without a connection until the next line or close, and a drain then
  claims and fails to send.)
* With the SQLite adapter serial jobs of one priority leave in order of
  submission. With any store, of a session whose jobs are serial and were all
  written to it before they ended, one is in flight at a time (`OneAtATime`). Two in flight thus mean that a job ended while it was
  queued (`serial_one`), that a write failed or the process died before it, that
  a job of the other mode was done, or that there were more rows than `start()`
  reads.
* A cancel line follows the dispatch line of its job or there is no dispatch
  line: `DELETE` waits for the drain that may hold the job.
* With the SQLite adapter the busy mark means a serial job in flight, nothing is
  sent twice over a restart, and every job ends. A write that fails leaves its
  job dispatched but does not hold the session back: between events the mark
  stands for a job that was written to the session, or that was in flight
  already when the process started (`HeldByWrittenJob`).
* A long poll misses no event and answers with the status the job keeps; a
  stream on an unfinished job is given all its terminal events. The SQLite
  adapter's turns leave no room between the first `get` and the subscription;
  what the run adds is that the event finds the listeners there are, from
  whichever caller or tick it comes.
* A tool call is carried out at most once, and what its caller is told is true,
  is told once, and stays so (`CallsKeepPromise`: a result that comes after the
  caller has given up changes nothing).
  A timeout or a close tells the caller nothing, and `OutcomeIsTrue` says nothing
  of them.
* The socket server has one connection per session and treats the rest of the
  broker as `Sessions` says, with connections that replace one another,
  evictions, and an exit.
* A supervised broker can be found through its path and its pidfile whatever it
  left behind when it was killed; a label leads to a session that is linked and
  declared it; posts with one `client_ref` are told of one job; a broker told to
  stop is gone eventually, unless an event stream is open.

## 6. Where code and documentation part

* **`serial_one`** (`OneSerialInFlight`): `notifyDone` clears the session's busy mark whichever job is
  done. Cancelling a serial job that is still queued lets a second serial job be
  written to the session beside the one in flight; README.md:408 promises one.
  `OneAtATime` is what is left of that promise, and is proved.
* **`notes_kept`** (`NotesKept`): `noteProgress` writes back the array it read. Two lines in
  one chunk read before either writes; the first note is lost although both
  callers are told `ok`. Holds even with the SQLite adapter.
  `src/broker/tools.ts:55` offers the tool to "add a progress note to a channel
  job". `AnnounceProofs!LoneAppenderKeepsNotes` shows that two appends side by
  side are the only way to lose one, and `overlap_calls` checks one append
  beside the sweeper.
* **`link_flaps`** (`StaysLinked`): a failed attempt schedules three reconnects (on `error`,
  on `close`, and in the `catch`). Two that dial side by side replace each
  other, and each replacement's `close` forgets the good connection and
  schedules another. `tests/integration/shim-roundtrip.spec.ts:115` says the shim
  survives a restart; `link_settles` shows that it does as long as never two
  reconnects are scheduled at once.
* **`link_buffer`** (`NoneRefused`): queued calls are written before the reconnect line and
  refused as `not_registered`; docs/how-it-works.md:80 says they are buffered.
  `OutcomeIsTrue` shows the caller is at least told so.
* **`restart_race`** (`SocketReachesBroker`): `cli/update.ts:56-57` says to restart with `daemon stop &&
  daemon start --detach`, but `daemon stop` returns once it has signalled. A
  broker that starts while the last one is still closing binds the path; the last
  one then removes path (`socket-server.ts:98`) and pidfile (`daemon.ts:59`) by
  name, and a broker runs that neither a shim nor `daemon stop` finds.
* **`labels_lost`** (`LabelsKept`): README.md:14 says a session is addressed by id or label, but
  a reconnect line has no label (`broker-client.ts:203-208`) and the registry is
  in memory: after the broker died and came back, its sessions are without
  theirs.

Observations that no run is about, since no document says otherwise:

* A drain looks at 16 pending rows (`inproc.ts:108`). A fire-and-forget job
  behind that many serial jobs of a busy session waits for them, although
  `inproc.ts:26` reads as if it never did.
* A broker that shuts down in good order stops its shims for good (`shim.ts:54`);
  one that crashes leaves them dialling.
* Nothing ever publishes a session event, so `/sessions/events` is silent; a
  stream opened on a finished job is silent too, and only its client ends it,
  which keeps `http.close()` and a shutdown waiting (`ShutdownEnds` excludes it).
* Spawn answers with the first attached session of that label, which may be an
  older one. A post to a label that is retried resolves the label again, and
  looks its `client_ref` up under whatever session has it by then. Outside the
  window the index still rejects the insert.
* A job whose write failed, or whose process died before the write, stays
  dispatched. The process it happened to does not let it hold the session back
  (`inproc.ts:152`), but the next one does: `start()` marks the session of every
  serial row in flight (`inproc.ts:57`), since the table does not say whether
  a row was ever written, and the session waits until that job's TTL.
* The orphan grace counts from `dispatched_at`, so a job dispatched long ago is
  orphaned at the first tick at which its session is gone.

## 7. Proofs

Eight modules, all theorems for every value of the constants. Assumptions:
limits are positive naturals, the actors are the callers and the ticks of the
sweeper, and no caller is a tick, the
switches are Booleans, `Job` is a set of naturals, and the markers (`NoConn`,
`NoFile`, ...) are outside the sets they are markers for. What a theorem assumes
beyond that stands in its `ASSUME`.

**`Broker`.**

* `TypeProofs`: lemmas about the statements of the table (what each of insert,
  transition and patch does to a row's status and type), and that each operation
  keeps its component's type. `TypeOK` is not inductive: a drain that returns
  takes the head off its session's chain, which is a sequence only if there is
  one, so `DrainHeadsChain` is added: a drain under way heads its chain.
* `BrokerProofs`: the invariant
  `Inv == ServiceInv /\ CalledRowThere /\ EventTypeOK`. `CalledRowThere` says
  that the job a call works on has a row (the call reads the row's session when
  it settles). From it **`TypeCorrect`**, and **`RefinesLifecycle`**: every
  step changes the table by at most one legal move (`TableStep`), which is a
  step of `JobLifecycle` or a stutter.
* `DeliveryProofs`: **`AtMostOnce`**. `SentAtMostOnce` is not inductive: a claim
  might be of a job sent before. The strengthening, `DeliveryInv`: a pending job
  has not been sent; what a drain of `s` has found belongs to `s`; a job a drain
  has claimed and not written yet is unsent, and, since it is a job of `s`, no
  other drain has claimed it.
* `AnnounceProofs`: **`AnnouncedOnce`**. A finisher whose write took place
  finds the row with the status it wrote until it settles; two finishers cannot
  both have written; so the event that is published is the first and is true.
  That two finishers may be two ticks of the sweeper changes nothing.
  **`LoneAppenderKeepsNotes`** (`Spec /\ []OneAppender => []NotesKept`):
  `NotesInv` says that what an appender has read is still all there is
  (`AppenderUpToDate`) and that an append that has been written is in the row
  until its caller is told and after; finishers and acks write no notes, so no row
  loses one (`NotesGrow`).
* `QueueProofs`: five theorems.
  **`NothingLeftBehind`** (`NoLostWakeup`): `WakeInv` says that as long as a
  session can be reached and something may be sent to it, somebody is left who
  will look: a call that has yet to notify (`Notifier`), or a drain queued
  behind another, about to look, or that has seen all there is (`WillLook`); a
  drain that fails to write has no link (`FailsUnlinked`).
  **`MarksMeanFlights`** (from `~Overlap`): no call that could finish a job has
  seen it in flight while the drain that claimed it has not marked the session
  (`ClaimUnnoticed`), for which `TurnInv` is needed: calls only begin when no
  drain is queued. **`MarksMeanWrittenJobs`** (from `~Overlap`) adds
  `MarkWritten`: a marked session has a serial job in flight that was written or
  inherited (`HeldBy`), or a finisher that is about to clear the mark, or a drain
  that has seen its write fail and is about to (`Failing`). With a store that
  lets handlers overlap neither holds: a job may be finished between its claim
  and the mark (`inproc.ts:145`). It is not claimed then.
  **`SerialJobsInOrder`** (from `~Overlap`): `OrderInv` says that ids grow and that
  a drain which has found a job has found every serial one in front of it still
  pending, since the limit cuts off the last; so the one claimed is the first.
  Ids grow because a submit runs to its insert before another reads the clock.
  **`OneJobAtATime`** (`OneAtATime`, for every store): `AloneInv` says that
  between the claim of a serial job and the moment its finisher settles the
  session is held, first by the drain that has claimed the job, then by the mark
  (`InTurn`); that while a finisher is between its write and its notification
  nothing of the session is in flight, and that it is the only one. A claim needs
  a session that is not held (`FlightBegins`), a finisher takes the one job in
  flight with it (`FinishTakesFlight`), and what else could take the mark away, a
  failed write, a crash, a restart that reads too few rows, contradicts
  `WrittenInTurn` or leaves no drain behind (`MarkGoes`, `UnwrittenUnsent`,
  `RestartMarks`). `WrittenInTurn` itself is not stable, but holds before
  whenever it holds after (`InTurnBefore`), which is what the induction needs.

**`HttpServer`.** **`ImplementsBroker`**, and so everything above.
**`CancelFollowsDispatch`** (`CancelInv`): the drain that may hold a cancelled
job is in front of the one its canceller awaits, so no claim of a job in `told`
is left. **`AnswersAreFinal`** and **`RequestsTyped`** (`AnswerInv`): a status
read that is terminal is the status the row keeps. **`NoEventMissed`** (from
`~Overlap`): `SlipInv` says that between a request's `get` and its subscribing
no call is at work.

**`ShimLink`.** **`TypeCorrect`**, **`HolderIsOne`**, **`ImplementsView`**;
**`ImplementsCalls`**, from the same invariant step by step; and
**`CallsRunOnce`** and **`OutcomesAreTrue`** from `LinkInv == OneCopy /\
FateAtBroker /\ FateAtShim`: a call has one copy among the queue, the lines on
their way and what the router has; what the broker has done with it agrees with
the answer under way; what its caller was told agrees with both. Without
`OneCopy` a call could be flushed again from a queue it had left.

**`Deployment`.** **`TypeCorrect`**; **`ClientRefSafe`**: a session has at most
one row, because of the index and not of the search, which is what makes two
posts that both found nothing agree; **`SocketLeadsToBroker`**,
**`PidfileLeadsToBroker`** and **`LabelsLeadRight`** (all from `Supervised`, without
which `restart_race` refutes the first); **`ImplementsView`** (from `Proc # {}`).

The last step of each temporal theorem combines the initial and the step case by
`PTL`.

**Only model-checked.** Liveness: `EventuallyTerminal`, `WaiterIsTold`,
`SettlesWithOneTimer`, `ShutdownEnds`. It is out of the prover's reach, as is
`ENABLED`. Every other property of a passing run is the subject of a theorem.

## 8. Not modelled, and why

* Validation, unknown ids, the history array, results and error texts, metrics
  and the requests that only read: they change no decision that the properties
  see. Job events other than terminal ones wake nobody; the comment notice to
  the shim is a line that nothing waits for.
* How long anything takes: heartbeats, backoff, TTLs. Eviction may happen at any
  tick; a reconnect fires at any time after it was scheduled; a tool call may
  time out at any time.
* A second `register` line of a connection (refused; the shim sends one in its
  life), lines of another wire version, `heartbeat` lines, malformed
  lines, dispatch, cancel and comment lines in `ShimLink`. A line is
  whole: partial lines of a socket are not modelled.
* A broker started beside one that runs (`Start` waits for a stop, or for
  nobody); `Supervised` is the case the theorems are about.
* `remove()` and `events()` of the registry have no caller. `dispatcher.stop()`
  runs when no connection is left and the process ends: to the table it is a
  crash.
* In `Broker` a tool call may name a job of any session, as in the code.
* In `ShimLink` the process exits when its first dial fails; a "result" is any
  answer of the router, errors of the service included.
* A session evicted while its connection is open stays detached until a new
  line introduces it: modelled, in all three parts. Its jobs end by their TTL.
* The other CLI commands are clients of the HTTP API or run other programs;
  configuration, migrations, auth, errors, ids, logger and clock are I/O or pure
  functions; the session store and the Postgres and BullMQ adapters are not
  used or throw.

## 9. What is left

The plan this project began with is done: job table, sessions, dispatcher,
service, broker; the link; the HTTP server's waits, streams and cancel notices;
`client_ref`; labels and spawn; processes, their files and their shutdown; and a
theorem for every safety property. Worth adding, in this order:

1. Dispatch, cancel and comment lines in `ShimLink`, to carry
   `CancelAfterDispatch` from the write to what the shim reads over a reconnect.
2. `Deployment` composed with `Broker`, instead of through `SessionView`, so that
   a dispatch line and a shutdown meet in one state.
