------------------------------- MODULE Deployment -------------------------------
(***************************************************************************)
(* A broker that is started, stopped, killed and started again, its shims  *)
(* and its HTTP clients.                                                   *)
(*                                                                         *)
(* Connections are coarse here (ShimLink has them line by line): a shim    *)
(* that reaches a process is introduced to it in the same step.            *)
(***************************************************************************)
EXTENDS Intake

CONSTANT MaxExits       \* bound: how often a process is told to stop or dies

ASSUME ExitsAssumption == MaxExits \in Nat

VARIABLES
    shim,           \* shim[s]: "off", "lost" (dialling again), or its process
    held,           \* held[s]: processes that map s to a connection
    declared,       \* declared[s]: the last label a shim of s started with
    exits

shimVars == <<shim, held, declared>>

vars == <<daemonVars, handles, intakeVars, shimVars, exits>>

TypeOK == /\ DaemonTypeOK /\ IntakeTypeOK
          /\ shim \in [Session -> Proc \cup {"off", "lost"}]
          /\ held \in [Session -> SUBSET Proc]
          /\ declared \in [Session -> Label \cup {NoLabel}]
          /\ exits \in 0..MaxExits

Init == /\ DaemonInit /\ IntakeInit
        /\ shim = [s \in Session |-> "off"]
        /\ held = [s \in Session |-> {}]
        /\ declared = [s \in Session |-> NoLabel]
        /\ exits = 0

-----------------------------------------------------------------------------
(* Shims.                                                                  *)

\* s is introduced to p under a label; a connection that p had is replaced.
Introduced(s, p, label) ==
    /\ Listens(p)
    /\ shim' = [shim EXCEPT ![s] = p]
    /\ held' = [held EXCEPT ![s] = @ \cup {p}]
    /\ handles' = [handles EXCEPT ![p] = RegisterIn(@, s, label)]

\* runShim: a register line.  If no process listens the shim exits.
ShimStarts(s, p) ==
    /\ shim[s] = "off"
    /\ \E label \in Label \cup {NoLabel} :
         /\ Introduced(s, p, label)
         /\ declared' = [declared EXCEPT ![s] = IF label = NoLabel THEN @ ELSE label]

\* A reconnect line, which has no label.
Reconnects(s, p) == /\ shim[s] = "lost"
                    /\ Introduced(s, p, NoLabel)
                    /\ UNCHANGED declared

\* The shim is stopped or killed.
ShimEnds(s) == /\ shim[s] # "off"
               /\ shim' = [shim EXCEPT ![s] = "off"]
               /\ UNCHANGED <<handles, held, declared>>

\* The shutdown line: the shim stops for good.
HearsShutdown(s, p) == /\ shim[s] = p /\ stage[p] = "ending"
                       /\ ShimEnds(s)

\* onClose at p of a connection whose shim has ended it.
Closed(s, p) == /\ p \in held[s] /\ shim[s] # p
                /\ held' = [held EXCEPT ![s] = @ \ {p}]
                /\ handles' = [handles EXCEPT ![p] = DetachIn(@, {s})]
                /\ UNCHANGED <<shim, declared>>

\* DELETE /sessions/:id, or a tick of the sweeper; the connections stay.
Evicted(p) ==
    /\ stage[p] = "up"
    /\ \E gone \in SUBSET {s \in Session : StatusIn(handles[p], s) = "attached"} \ {{}} :
         handles' = [handles EXCEPT ![p] = DetachIn(@, gone)]
    /\ UNCHANGED shimVars

-----------------------------------------------------------------------------
(* Processes.                                                              *)

\* p is no more; its shims find their connections closed.
Gone(p) == /\ handles' = [handles EXCEPT ![p] = <<>>]
           /\ held' = [s \in Session |-> held[s] \ {p}]
           /\ shim' = [s \in Session |-> IF shim[s] = p THEN "lost" ELSE shim[s]]
           /\ RequestsLost(p)
           /\ UNCHANGED declared

Dies(p) == /\ stage[p] # "none" /\ exits < MaxExits
           /\ exits' = exits + 1
           /\ Vanishes(p) /\ Gone(p)

\* The port is taken, by whatever program: the command fails.
Refused(p) == /\ stage[p] = "bound"
              /\ Vanishes(p) /\ Gone(p)
              /\ UNCHANGED exits

StartStep(p) == /\ Start(p) \/ Bind(p) \/ ListenHttp(p)
                /\ UNCHANGED <<handles, intakeVars, shimVars, exits>>

StopStep(p) == /\ Signal(p) /\ exits < MaxExits
               /\ exits' = exits + 1
               /\ UNCHANGED <<handles, intakeVars, shimVars>>

\* http.close() waits for every request.
HttpClosed(p) == /\ CloseSockets(p) /\ Open(p) = {}
                 /\ UNCHANGED <<handles, intakeVars, shimVars, exits>>

\* socket.close() waits for every connection.
SocketsClosed(p) == /\ Exit(p) /\ \A s \in Session : p \notin held[s]
                    /\ handles' = [handles EXCEPT ![p] = <<>>]
                    /\ UNCHANGED <<intakeVars, shimVars, exits>>

-----------------------------------------------------------------------------
ShimStep(s) ==
    /\ \/ \E p \in Proc : ShimStarts(s, p) \/ Reconnects(s, p)
       \/ ShimEnds(s)
    /\ UNCHANGED <<daemonVars, intakeVars, exits>>

LinkStep(s, p) == /\ HearsShutdown(s, p) \/ Closed(s, p)
                  /\ UNCHANGED <<daemonVars, intakeVars, exits>>

Eviction(p) == Evicted(p) /\ UNCHANGED <<daemonVars, intakeVars, exits>>

Ask(r) == /\ \/ \E p \in Proc : Post(r, p) \/ Spawn(r, p) \/ OpenEvents(r, p)
             \/ ClientLeaves(r)
          /\ UNCHANGED <<daemonVars, handles, shimVars, exits>>

Answered(r) == Serve(r) /\ UNCHANGED <<daemonVars, handles, shimVars, exits>>

TimePasses == /\ \E j \in DOMAIN rows : WindowPasses(j)
              /\ UNCHANGED <<daemonVars, handles, shimVars, exits>>

Next == \/ \E p \in Proc : \/ StartStep(p) \/ StopStep(p) \/ Refused(p) \/ Dies(p)
                           \/ HttpClosed(p) \/ SocketsClosed(p) \/ Eviction(p)
        \/ \E s \in Session : ShimStep(s) \/ \E p \in Proc : LinkStep(s, p)
        \/ \E r \in Req : Ask(r) \/ Answered(r)
        \/ TimePasses

Spec == Init /\ [][Next]_vars

-----------------------------------------------------------------------------
(* A broker that runs alone can be reached: the socket path leads to it and  *)
(* the pidfile names it, whatever earlier processes left behind or removed.  *)
Alone(p) == stage[p] = "up" /\ \A q \in Proc \ {p} : stage[q] = "none"

SocketReachesBroker == \A p \in Proc : Alone(p) => sockFile = p

PidfileNamesBroker == \A p \in Proc : Alone(p) => pidFile = p

(* A label leads to a session that has a connection to send its jobs on (but  *)
(* for a straggling line, Sessions!AttachReplaced, which is not modelled here) *)
(* and whose shim last declared that label.                                  *)
AddressedRight ==
    \A p \in Proc, label \in Label : \A s \in FindByLabel(handles[p], label) :
      p \in held[s] /\ declared[s] = label

(* Whoever posts with one client_ref to one session and is answered, hears of *)
(* one job: over retries, posts at a time, crashes, restarts and the window.  *)
AnswersAgree ==
    \A j, k \in answers : rows[j].session = rows[k].session => j = k

(* To the dispatcher the registry's handles and the connections of a process  *)
(* are what module Sessions says.                                            *)
SomeProc == CHOOSE p \in Proc : TRUE

View == INSTANCE SessionView WITH
          Job <- {},
          registry <- [s \in Session |-> StatusIn(handles[SomeProc], s)],
          linked   <- [s \in Session |-> SomeProc \in held[s]]

ImplementsSessions == View!Spec

(* "an attached Claude session, addressed by id or label" (README.md): a      *)
(* session that is linked is known under the label its shim declared.         *)
LabelsKept ==
    \A s \in Session, p \in Proc :
      shim[s] = p /\ p \in held[s] /\ declared[s] # NoLabel =>
        \E i \in DOMAIN handles[p] : handles[p][i].id = s /\ handles[p][i].label = declared[s]

-----------------------------------------------------------------------------
(* The processes and the shims run: a request is answered or its deadline     *)
(* passes, what has arrived is read.  Nobody has to close a stream, to start  *)
(* anything or to stop it.                                                    *)
Fairness == /\ \A p \in Proc : WF_vars(HttpClosed(p)) /\ WF_vars(SocketsClosed(p))
            /\ \A p \in Proc, s \in Session : WF_vars(LinkStep(s, p))
            /\ \A r \in Req : WF_vars(Answered(r))

FairSpec == Spec /\ Fairness

(* A broker that is told to stop, and has no event stream open, is gone       *)
(* eventually: it waits for nobody else.                                      *)
ShutdownEnds ==
    \A p \in Proc : (stage[p] = "closing" /\ Streams(p) = {}) ~> (stage[p] = "none")
=============================================================================
