------------------------------ MODULE SocketServer ------------------------------
(***************************************************************************)
(* The broker's end of the connections (broker/socket-server.ts) for one   *)
(* session: which connection holds the session, what replaces it, and the  *)
(* tool calls it hands to the router (broker/tool-router.ts).              *)
(***************************************************************************)
EXTENDS Wire

VARIABLES
    server,         \* "listening", "closing" while close() waits, or "down"
    conns,          \* keys of the connections map
    bound,          \* connections whose sessionId is set
    holder,         \* the connection that connectionFor finds for the session
    registry,       \* the session in the registry
    routing,        \* tool calls the router has not answered: <<connection, call>>
    executed        \* how often the router was given each call

serverVars == <<server, conns, bound, holder, registry, routing, executed>>

ServerTypeOK == /\ server \in {"listening", "closing", "down"}
                /\ conns \subseteq Conn /\ bound \subseteq Conn
                /\ holder \in Conn \cup {NoConn}
                /\ registry \in {"absent", "attached", "detached"}
                /\ routing \subseteq Conn \X Call
                /\ executed \in [Call -> Nat]

ServerInit == /\ server = "listening"
              /\ conns = {} /\ bound = {} /\ routing = {}
              /\ holder = NoConn
              /\ registry = "absent"
              /\ executed = [k \in Call |-> 0]

-----------------------------------------------------------------------------
\* handleConnection.
Accept(c) == /\ server = "listening"
             /\ peer' = [peer EXCEPT ![c] = "open"]
             /\ conns' = conns \cup {c}
             /\ bound' = bound \ {c}
             /\ UNCHANGED <<server, holder, registry, routing, executed>>

\* Bug: the reason is stored where the status belongs.
OnCloseReason(c) ==
    /\ conns' = conns \ {c}
    /\ IF c \in conns /\ holder = c
       THEN holder' = NoConn /\ registry' = "remote_end"
       ELSE UNCHANGED <<holder, registry>>

\* onClose: the session is detached unless another connection holds it.
OnClose(c) ==
    /\ conns' = conns \ {c}
    /\ IF c \in conns /\ holder = c
       THEN /\ holder' = NoConn
            /\ registry' = IF registry = "attached" THEN "detached" ELSE registry
       ELSE UNCHANGED <<holder, registry>>

\* 'end' or 'close' of c; answers to calls it brought go nowhere.
Closed(c) ==
    /\ NextUp(c, "end") \/ (peer[c] = "destroyed" /\ up[c] = <<>>)
    /\ OnClose(c)
    /\ peer' = [peer EXCEPT ![c] = "none"]
    /\ up' = [up EXCEPT ![c] = <<>>]
    /\ routing' = {r \in routing : r[1] # c}
    /\ UNCHANGED <<sock, down, server, bound, executed>>

-----------------------------------------------------------------------------
\* sendMessage to c, whose unread lines are `rest`.  A write to a socket that
\* was ended destroys it: no more is read, and of `rest` only the first `got`
\* lines, which came in the chunk being handled, are handled yet.
Write(c, line, rest, got) ==
    IF peer[c] = "ended"
    THEN /\ peer' = [peer EXCEPT ![c] = "destroyed"]
         /\ up' = [up EXCEPT ![c] = SubSeq(rest, 1, got)]
         /\ UNCHANGED down
    ELSE /\ down' = IF peer[c] = "open" THEN WrittenDown(c, <<line>>) ELSE down
         /\ up' = [up EXCEPT ![c] = rest]
         /\ UNCHANGED peer

\* The answer to the line of c that is being handled.
Reply(c, line) == LET rest == Tail(up[c])
                  IN  \E got \in 0..Len(rest) : Write(c, line, rest, got)

\* The same for `registered`, with d ended before it.
WriteAndEnd(c, d) ==
    /\ peer' = [peer EXCEPT ![c] = IF @ = "ended" THEN "destroyed" ELSE @,
                            ![d] = IF @ = "open" THEN "ended" ELSE @]
    /\ LET rest == Tail(up[c])
       IN  \E got \in 0..Len(rest) :
             up' = [up EXCEPT ![c] = IF peer[c] = "ended" THEN SubSeq(rest, 1, got) ELSE rest]
    /\ down' = [down EXCEPT
         ![c] = IF peer[c] = "open" THEN WrittenDown(c, <<Line("registered")>>)[c] ELSE @,
         ![d] = IF peer[d] = "open" THEN WrittenDown(d, <<Line("end")>>)[d] ELSE @]

\* Bug: the connection that held the session is left as it is.
AttachSessionKeepsPrior(c) ==
    /\ bound' = bound \cup {c}
    /\ registry' = "attached"
    /\ holder' = c
    /\ UNCHANGED conns
    /\ Reply(c, Line("registered"))

\* Bug: a session that was detached is not attached again.
AttachSessionOnce(c) ==
    LET prior == ({holder} \ {c}) \cap conns
    IN  /\ bound' = bound \cup {c}
        /\ registry' = IF registry = "absent" THEN "attached" ELSE registry
        /\ holder' = IF c \in conns THEN c ELSE NoConn
        /\ conns' = conns \ prior
        /\ \/ /\ prior = {}
              /\ Reply(c, Line("registered"))
           \/ \E d \in prior : WriteAndEnd(c, d)

\* attachSession: the newest connection wins; the one it replaces is ended
\* and leaves the map, though its lines are still read.  If such a line
\* introduces the session again, no connection is found for it.
AttachSession(c) ==
    LET prior == ({holder} \ {c}) \cap conns
    IN  /\ bound' = bound \cup {c}
        /\ registry' = "attached"
        /\ holder' = IF c \in conns THEN c ELSE NoConn
        /\ conns' = conns \ prior
        /\ \/ /\ prior = {}
              /\ Reply(c, Line("registered"))
           \/ \E d \in prior : WriteAndEnd(c, d)

\* handleReconnect, handleRegister.  A second register line would be refused;
\* the shim sends one in its life.
ReadIntroduction(c) ==
    /\ \/ NextUp(c, "reconnect")
       \/ NextUp(c, "register") /\ c \notin bound
    /\ AttachSession(c)
    /\ UNCHANGED <<sock, server, routing, executed>>

\* Bug: the refusal does not return, and the call is routed all the same.
ReadToolCallNoReturn(c) ==
    /\ NextUp(c, "toolCall")
    /\ LET k == Head(up[c]).id
       IN  /\ routing' = routing \cup {<<c, k>>}
           /\ executed' = [executed EXCEPT ![k] = @ + 1]
           /\ IF c \in bound
              THEN up' = [up EXCEPT ![c] = Tail(@)] /\ UNCHANGED <<down, peer>>
              ELSE Reply(c, ToolResult(k, FALSE))
    /\ UNCHANGED <<sock, server, conns, bound, holder, registry>>

\* handleToolCall up to dispatchTool: refused before the session is known.
ReadToolCall(c) ==
    /\ NextUp(c, "toolCall")
    /\ LET k == Head(up[c]).id
       IN  IF c \in bound
           THEN /\ routing' = routing \cup {<<c, k>>}
                /\ executed' = [executed EXCEPT ![k] = @ + 1]
                /\ up' = [up EXCEPT ![c] = Tail(@)]
                /\ UNCHANGED <<down, peer>>
           ELSE /\ Reply(c, ToolResult(k, FALSE))
                /\ UNCHANGED <<routing, executed>>
    /\ UNCHANGED <<sock, server, conns, bound, holder, registry>>

\* The router has answered, be it with an error of the job service.  No chunk
\* is being handled then.
Answer(c, k) ==
    /\ <<c, k>> \in routing
    /\ routing' = routing \ {<<c, k>>}
    /\ Write(c, ToolResult(k, TRUE), up[c], 0)
    /\ UNCHANGED <<sock, server, conns, bound, holder, registry, executed>>

-----------------------------------------------------------------------------
\* evictStale or DELETE /sessions/:id: the connection stays.
Evict == /\ registry = "attached"
         /\ registry' = "detached"
         /\ UNCHANGED <<wireVars, server, conns, bound, holder, routing, executed>>

\* close(): every connection is told and ended; close waits for all of them.
Shutdown ==
    /\ server = "listening"
    /\ server' = "closing"
    /\ peer' = [c \in Conn |-> IF c \in conns /\ peer[c] = "open" THEN "ended" ELSE peer[c]]
    /\ down' = [c \in Conn |-> IF c \in conns /\ peer[c] = "open"
                               THEN WrittenDown(c, <<Line("shutdown"), Line("end")>>)[c]
                               ELSE down[c]]
    /\ UNCHANGED <<sock, up, conns, bound, holder, registry, routing, executed>>

\* The process dies, or exits when close() has returned.
Exit ==
    /\ server # "down"
    /\ server' = "down"
    /\ peer' = [c \in Conn |-> "none"]
    /\ up' = [c \in Conn |-> <<>>]
    /\ down' = [c \in Conn |-> IF peer[c] = "open" THEN WrittenDown(c, <<Line("end")>>)[c]
                                                 ELSE down[c]]
    /\ conns' = {} /\ bound' = {} /\ routing' = {}
    /\ holder' = NoConn
    /\ registry' = "absent"
    /\ UNCHANGED <<sock, executed>>

Start ==
    /\ server = "down"
    /\ server' = "listening"
    /\ UNCHANGED <<wireVars, conns, bound, holder, registry, routing, executed>>

ReadLine(c) == Closed(c) \/ ReadIntroduction(c) \/ ReadToolCall(c)

Route(c) == \E k \in Call : Answer(c, k)
=============================================================================
