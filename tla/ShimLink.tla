-------------------------------- MODULE ShimLink --------------------------------
(***************************************************************************)
(* A shim and the broker it is linked to: the client, the wire and the     *)
(* socket server, with the broker going away and coming back.              *)
(***************************************************************************)
EXTENDS ShimClient, SocketServer, FiniteSets

CONSTANTS
    MaxExits,       \* bound: how often the broker's process ends
    MaxEvictions,   \* bound: how often the session is evicted or deleted
    Graceful,       \* bound: whether the broker is shut down
    Kills           \* bound: whether the shim is killed

VARIABLES exits, evictions

vars == <<wireVars, clientVars, serverVars, exits, evictions>>

TypeOK == /\ WireTypeOK /\ ClientTypeOK /\ ServerTypeOK
          /\ exits \in Nat /\ evictions \in Nat

Init == /\ WireInit /\ ClientInit /\ ServerInit
        /\ exits = 0 /\ evictions = 0

-----------------------------------------------------------------------------
Connect(c) == /\ sock[c] = "dialing"
              /\ Connected(c) /\ Accept(c)
              /\ UNCHANGED <<down, exits, evictions>>

Fail(c) == /\ server # "listening"
           /\ DialFails(c)
           /\ UNCHANGED <<serverVars, exits, evictions>>

Begin == Register /\ UNCHANGED <<serverVars, exits, evictions>>

Timer == TimerFires /\ UNCHANGED <<serverVars, exits, evictions>>

Hear(c) == Receive(c) /\ UNCHANGED <<serverVars, exits, evictions>>

Use == UseTools /\ UNCHANGED <<serverVars, exits, evictions>>

Leave == /\ Close \/ (Kills /\ Killed)
         /\ UNCHANGED <<serverVars, exits, evictions>>

Serve(c) == /\ ReadLine(c) \/ Route(c)
            /\ UNCHANGED <<clientVars, exits, evictions>>

Detach == /\ evictions < MaxEvictions
          /\ Evict
          /\ evictions' = evictions + 1
          /\ UNCHANGED <<clientVars, exits>>

Stop == /\ Graceful /\ exits < MaxExits
        /\ Shutdown
        /\ UNCHANGED <<clientVars, exits, evictions>>

Gone == /\ exits < MaxExits
        /\ Exit
        /\ exits' = exits + 1
        /\ UNCHANGED <<clientVars, evictions>>

Back == Start /\ UNCHANGED <<clientVars, exits, evictions>>

Next == \/ Begin \/ Timer \/ Use \/ Leave
        \/ \E c \in Conn : Connect(c) \/ Fail(c) \/ Hear(c) \/ Serve(c)
        \/ Detach \/ Stop \/ Gone \/ Back

Spec == Init /\ [][Next]_vars

-----------------------------------------------------------------------------
(* The broker hands a tool call to the router at most once, though the shim  *)
(* queues calls and dials again, and two connections may carry them.         *)
ExecutedAtMostOnce == \A k \in Call : executed[k] <= 1

(* What the caller of a tool is told is true: a result comes from a call the *)
(* router was given, and a call that was refused or pushed out of the queue   *)
(* has not been given to it and never will be.                               *)
OutcomeIsTrue ==
    \A k \in Call : /\ outcome[k] = "result" => executed[k] = 1
                    /\ outcome[k] \in {"refused", "overflow"} => executed[k] = 0

(* Of the connections that introduced the session only the one it is mapped  *)
(* to is left in the map, so the session has one place to be dispatched to.  *)
OneHolder == \A c \in conns \cap bound : c = holder

(* To the dispatcher, the sweeper and the HTTP server the socket server does  *)
(* with a session what module Sessions says, and nothing else.               *)
View == INSTANCE SessionView WITH
          Session  <- {"s"}, Job <- {},
          registry <- [s \in {"s"} |-> registry],
          linked   <- [s \in {"s"} |-> holder # NoConn]

ImplementsSessions == View!Spec

(* Between them shim, wire and broker carry out tool calls as RemoteCall says. *)
Calls == INSTANCE RemoteCall WITH
           gone <- life = "closed", waiting <- pending, runs <- executed

CallsKeepPromise == Calls!Spec

(* "Buffers outbound tool calls if disconnected" (how-it-works.md): a call    *)
(* of a session that has registered is not answered with not_registered.     *)
NoneRefused == \A k \in Call : outcome[k] # "refused"

-----------------------------------------------------------------------------
(* Both event loops run: timers fire, what has arrived is read, an attempt to *)
(* connect ends one way or the other, and a broker that went away is started  *)
(* again.                                                                     *)
Fairness == /\ WF_vars(Begin) /\ WF_vars(Timer) /\ WF_vars(Back)
            /\ \A c \in Conn : /\ WF_vars(Connect(c)) /\ WF_vars(Fail(c))
                               /\ WF_vars(Hear(c)) /\ WF_vars(Serve(c))

FairSpec == Spec /\ Fairness

\* Both ends agree on the connection.
Linked == current # NoConn /\ current = holder

(* "shim survives a broker restart" (shim-roundtrip.spec.ts): once the broker *)
(* no longer goes away, a shim that has not stopped is linked to it for good. *)
StaysLinked == <>[](life = "closed" \/ Linked)

(* The same, as long as no two reconnects are ever scheduled at a time: one   *)
(* lost connection, whenever it is lost, is always made good.                 *)
SettlesWithOneTimer == <>(timers > 1) \/ StaysLinked
=============================================================================
