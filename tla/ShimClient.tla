------------------------------- MODULE ShimClient -------------------------------
(***************************************************************************)
(* The shim's client of the broker (shim/broker-client.ts) and the shim's  *)
(* own start and stop (shim/shim.ts): it dials, registers, dials again     *)
(* after a backoff, queues tool calls while there is no connection and     *)
(* settles each call once.                                                 *)
(*                                                                         *)
(* Left out: the heartbeat timer, the length of the backoff, and the       *)
(* channel events a dispatch, cancel or comment line turns into.           *)
(***************************************************************************)
EXTENDS Wire

CONSTANTS
    QueueLimit,     \* outboundBufferLimit, 100 by default
    MaxTimers,      \* bound: reconnects scheduled at a time; more are dropped
    Resets          \* bound: whether 'error' may come before 'close'

ASSUME QueueAssumption == QueueLimit \in Nat
ASSUME TimersAssumption == MaxTimers \in Nat

VARIABLES
    life,           \* how far runShim has come
    current,        \* this.socket, set when and only when this.connected is
    timers,         \* reconnects scheduled
    pending,        \* calls waiting for their toolResult
    queue,          \* outboundQueue
    outcome         \* how each call settled

clientVars == <<life, current, timers, pending, queue, outcome>>

\* new -> dialing -> registering -> running -> stopping -> closed
Life    == {"new", "dialing", "registering", "running", "stopping", "closed"}
Outcome == {"none", "result", "refused", "overflow", "timeout", "closed"}

ClientTypeOK == /\ life \in Life
                /\ current \in Conn \cup {NoConn}
                /\ timers \in 0..MaxTimers
                /\ pending \subseteq Call
                /\ queue \in Seq(Call)
                /\ outcome \in [Call -> Outcome]

ClientInit == /\ life = "new"
              /\ current = NoConn
              /\ timers = 0
              /\ pending = {}
              /\ queue = <<>>
              /\ outcome = [k \in Call |-> "none"]

-----------------------------------------------------------------------------
(* Connecting.                                                             *)

\* scheduleReconnect, n times; nothing is scheduled once close() was called.
Scheduled(n) == CASE life = "closed"         -> timers
                  [] timers + n <= MaxTimers -> timers + n
                  [] OTHER                   -> MaxTimers

Dial(c) == /\ Unused(c)
           /\ sock' = [sock EXCEPT ![c] = "dialing"]
           /\ UNCHANGED <<peer, up, down>>

Register ==
    /\ life = "new"
    /\ life' = "dialing"
    /\ \E c \in Conn : Dial(c)
    /\ UNCHANGED <<current, timers, pending, queue, outcome>>

\* reconnect(): on the connection there is, or on a new one.
TimerFires ==
    /\ timers > 0 /\ life # "closed"
    /\ timers' = timers - 1
    /\ \/ /\ current # NoConn
          /\ up' = WrittenUp(current, <<Line("reconnect")>>)
          /\ UNCHANGED <<sock, peer, down>>
       \/ current = NoConn /\ \E c \in Conn : Dial(c)
    /\ UNCHANGED <<life, current, pending, queue, outcome>>

Introduction == Line(IF life = "dialing" THEN "register" ELSE "reconnect")

\* Bug: a call that still waits is sent again once the session is introduced.
ConnectedResends(c) ==
    /\ sock' = [sock EXCEPT ![c] = "open"]
    /\ current' = c
    /\ up' = [up EXCEPT ![c] =
         <<Introduction>> \o IF pending = {} THEN <<>>
                             ELSE <<ToolCall(CHOOSE k \in pending : TRUE)>>]
    /\ queue' = <<>>
    /\ life' = IF life = "dialing" THEN "registering" ELSE life
    /\ UNCHANGED <<timers, pending, outcome>>

\* 'connect': the queue is flushed first, then register() or reconnect()
\* resumes and introduces the session.
Connected(c) ==
    /\ sock' = [sock EXCEPT ![c] = "open"]
    /\ current' = c
    /\ up' = [up EXCEPT ![c] = [i \in 1..Len(queue) |-> ToolCall(queue[i])] \o <<Introduction>>]
    /\ queue' = <<>>
    /\ life' = IF life = "dialing" THEN "registering" ELSE life
    /\ UNCHANGED <<timers, pending, outcome>>

\* 'error' then 'close': both schedule a reconnect, and so does the catch of
\* the reconnect() that rejects.  An attempt that fails while another has
\* succeeded schedules one, but forgets the connection there is.
DialFails(c) ==
    /\ sock[c] = "dialing"
    /\ sock' = [sock EXCEPT ![c] = "none"]
    /\ IF life = "dialing"
       THEN life' = "closed" /\ UNCHANGED <<current, timers>>   \* the process exits
       ELSE /\ current' = NoConn
            /\ timers' = Scheduled(IF current = NoConn THEN 3 ELSE 1)
            /\ UNCHANGED life
    /\ UNCHANGED <<peer, up, down, pending, queue, outcome>>

\* Bug: a connection that closes is not dialled again.
DisconnectedForGood(c) ==
    /\ NextDown(c, "end")
    /\ sock' = [sock EXCEPT ![c] = "none"]
    /\ down' = [down EXCEPT ![c] = <<>>]
    /\ up' = WrittenUp(c, <<Line("end")>>)
    /\ current' = NoConn
    /\ UNCHANGED <<peer, life, timers, pending, queue, outcome>>

\* 'close' of any connection, whether or not it is the current one.  An 'error'
\* before it schedules a reconnect of its own when no connection is current.
Disconnected(c) ==
    /\ NextDown(c, "end")
    /\ sock' = [sock EXCEPT ![c] = "none"]
    /\ down' = [down EXCEPT ![c] = <<>>]
    /\ up' = WrittenUp(c, <<Line("end")>>)
    /\ current' = NoConn
    /\ \/ timers' = Scheduled(1)
       \/ Resets /\ current = NoConn /\ timers' = Scheduled(2)
    /\ UNCHANGED <<peer, life, pending, queue, outcome>>

-----------------------------------------------------------------------------
(* Tool calls.                                                             *)

\* The oldest call in a full queue is dropped, and rejected if it still waits.
Enqueue(k) ==
    LET q       == Append(queue, k)
        over    == Len(q) > QueueLimit
        dropped == (IF over THEN {Head(q)} ELSE {}) \cap (pending \cup {k})
    IN  /\ queue' = IF over THEN Tail(q) ELSE q
        /\ pending' = (pending \cup {k}) \ dropped
        /\ outcome' = [i \in Call |-> IF i \in dropped THEN "overflow" ELSE outcome[i]]

CallTool(k) ==
    /\ life = "running" /\ outcome[k] = "none" /\ k \notin pending
    /\ IF current = NoConn
       THEN Enqueue(k) /\ UNCHANGED up
       ELSE /\ up' = WrittenUp(current, <<ToolCall(k)>>)
            /\ pending' = pending \cup {k}
            /\ UNCHANGED <<queue, outcome>>
    /\ UNCHANGED <<sock, peer, down, life, current, timers>>

\* Settled once: whoever takes k out of `pending` settles it.
Settles(k, how) == /\ pending' = pending \ {k}
                   /\ outcome' = [outcome EXCEPT ![k] = how]

\* The 30 s are over; the call may be queued, under way or lost.
CallTimesOut(k) ==
    /\ k \in pending
    /\ Settles(k, "timeout")
    /\ UNCHANGED <<wireVars, life, current, timers, queue>>

\* Bug: nobody asks whether the call still waits.
ReceiveResultLate(c) ==
    /\ NextDown(c, "toolResult")
    /\ LET line == Head(down[c])
       IN  Settles(line.id, IF line.ok THEN "result" ELSE "refused")
    /\ down' = [down EXCEPT ![c] = Tail(@)]
    /\ UNCHANGED <<sock, peer, up, life, current, timers, queue>>

ReceiveResult(c) ==
    /\ NextDown(c, "toolResult")
    /\ LET line == Head(down[c])
       IN  IF line.id \in pending
           THEN Settles(line.id, IF line.ok THEN "result" ELSE "refused")
           ELSE UNCHANGED <<pending, outcome>>
    /\ down' = [down EXCEPT ![c] = Tail(@)]
    /\ UNCHANGED <<sock, peer, up, life, current, timers, queue>>

-----------------------------------------------------------------------------
ReceiveRegistered(c) ==
    /\ NextDown(c, "registered")
    /\ life' = IF life = "registering" THEN "running" ELSE life
    /\ down' = [down EXCEPT ![c] = Tail(@)]
    /\ UNCHANGED <<sock, peer, up, current, timers, pending, queue, outcome>>

\* stop() begins: the MCP server is closed first.
ReceiveShutdown(c) ==
    /\ NextDown(c, "shutdown")
    /\ life' = IF life = "closed" THEN life ELSE "stopping"
    /\ down' = [down EXCEPT ![c] = Tail(@)]
    /\ UNCHANGED <<sock, peer, up, current, timers, pending, queue, outcome>>

\* close(): every waiting call is rejected and no reconnect will happen.
Close ==
    /\ life = "stopping"
    /\ life' = "closed"
    /\ timers' = 0
    /\ pending' = {}
    /\ outcome' = [k \in Call |-> IF k \in pending THEN "closed" ELSE outcome[k]]
    /\ current' = NoConn
    /\ IF current = NoConn
       THEN UNCHANGED wireVars
       ELSE /\ sock' = [sock EXCEPT ![current] = "none"]
            /\ down' = [down EXCEPT ![current] = <<>>]
            /\ up' = WrittenUp(current, <<Line("end")>>)
            /\ UNCHANGED peer
    /\ UNCHANGED queue

\* The shim's process is killed.
Killed ==
    /\ life # "closed"
    /\ life' = "closed"
    /\ timers' = 0 /\ pending' = {} /\ queue' = <<>> /\ current' = NoConn
    /\ sock' = [c \in Conn |-> "none"]
    /\ down' = [c \in Conn |-> <<>>]
    /\ up' = [c \in Conn |-> IF sock[c] = "open" THEN WrittenUp(c, <<Line("end")>>)[c]
                                                 ELSE up[c]]
    /\ UNCHANGED <<peer, outcome>>

Receive(c) == \/ ReceiveResult(c) \/ ReceiveRegistered(c)
              \/ ReceiveShutdown(c) \/ Disconnected(c)

UseTools == \E k \in Call : CallTool(k) \/ CallTimesOut(k)
=============================================================================
