--------------------------------- MODULE Daemon ---------------------------------
(***************************************************************************)
(* Broker processes on one machine: `daemon start` and `daemon stop`       *)
(* (cli/daemon.ts), startBroker and shutdown (broker/broker.ts), and what  *)
(* the processes share: the socket path, the pidfile and the HTTP port.    *)
(*                                                                         *)
(*   none -> starting -> bound -> up -> closing -> ending -> none          *)
(*                                                                         *)
(* bound: the socket server listens; up: the HTTP server does too;         *)
(* closing: http.close() waits for its requests, and the port is free;     *)
(* ending: the socket server's close() waits for its connections.          *)
(***************************************************************************)
CONSTANTS
    Proc,           \* processes
    NoFile,         \* there is no such file
    Stale,          \* the file of a process that has died
    Supervised      \* bound: whether one is started only when none is left

ASSUME FileAssumption == NoFile \notin Proc /\ Stale \notin Proc
ASSUME SupervisedAssumption == Supervised \in BOOLEAN

VARIABLES
    stage,          \* how far each process has come
    sockFile,       \* whose socket the path leads to
    pidFile         \* whose pid the pidfile holds

daemonVars == <<stage, sockFile, pidFile>>

Stage == {"none", "starting", "bound", "up", "closing", "ending"}

DaemonTypeOK == /\ stage \in [Proc -> Stage]
                /\ sockFile \in Proc \cup {NoFile, Stale}
                /\ pidFile \in Proc \cup {NoFile, Stale}

DaemonInit == /\ stage = [p \in Proc |-> "none"]
              /\ sockFile = NoFile /\ pidFile = NoFile

Comes(p, to) == stage' = [stage EXCEPT ![p] = to]

\* A shim that dials the path reaches p.
Listens(p) == sockFile = p /\ stage[p] \in {"bound", "up", "closing"}

\* p's files when it dies: they stay, and nobody answers.
Left(file, p) == IF file = p THEN Stale ELSE file

-----------------------------------------------------------------------------
\* `daemon stop` has signalled q and returned.
Stopping(q) == stage[q] \in {"closing", "ending"}

\* daemon start, after a daemon stop or when there is none to stop; with
\* --detach the parent writes the child's pid at once.
Start(p) ==
    /\ stage[p] = "none"
    /\ \A q \in Proc : stage[q] = "none" \/ (~Supervised /\ Stopping(q))
    /\ Comes(p, "starting")
    /\ pidFile' \in {pidFile, p}
    /\ UNCHANGED sockFile

\* Bug: a socket that is there already is kept.
BindIfFree(p) ==
    /\ stage[p] = "starting"
    /\ Comes(p, "bound")
    /\ sockFile' = IF sockFile = NoFile THEN p ELSE sockFile
    /\ UNCHANGED pidFile

\* SocketServer.listen(): what is at the path is unlinked, whosever it is.
Bind(p) ==
    /\ stage[p] = "starting"
    /\ Comes(p, "bound")
    /\ sockFile' = p
    /\ UNCHANGED pidFile

\* Bug: the pidfile is left to the parent of --detach.
ListenHttpNoPid(p) ==
    /\ stage[p] = "bound" /\ \A q \in Proc : stage[q] # "up"
    /\ Comes(p, "up")
    /\ UNCHANGED <<sockFile, pidFile>>

\* http.listen(), then the pidfile and the signal handlers.
ListenHttp(p) ==
    /\ stage[p] = "bound" /\ \A q \in Proc : stage[q] # "up"
    /\ Comes(p, "up")
    /\ pidFile' = p
    /\ UNCHANGED sockFile

\* p is gone without having closed anything: killed, by a first signal before
\* its handlers are there or a second one after, or refused the port.
Vanishes(p) ==
    /\ Comes(p, "none")
    /\ sockFile' = Left(sockFile, p)
    /\ pidFile' = Left(pidFile, p)

\* daemon stop, or Ctrl-C: shutdown() stops the sweeper and closes the port.
Signal(p) ==
    /\ stage[p] = "up"
    /\ Comes(p, "closing")
    /\ UNCHANGED <<sockFile, pidFile>>

\* http.close() is over: every shim is told, and as the server stops to
\* listen the path is unlinked, by name.
CloseSockets(p) ==
    /\ stage[p] = "closing"
    /\ Comes(p, "ending")
    /\ sockFile' = NoFile
    /\ UNCHANGED pidFile

\* Every connection has ended: socket.close() unlinks the path once more, the
\* store is closed, and the command removes the pidfile, by name.
Exit(p) ==
    /\ stage[p] = "ending"
    /\ Comes(p, "none")
    /\ sockFile' = NoFile /\ pidFile' = NoFile
=============================================================================
