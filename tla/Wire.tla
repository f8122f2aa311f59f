---------------------------------- MODULE Wire ----------------------------------
(***************************************************************************)
(* The wire between the shim of one session and the broker                 *)
(* (broker/wire.ts): line-delimited messages on the connections the shim   *)
(* has dialled, one queue each way.  Lines of one connection keep their    *)
(* order; nothing orders those of two.                                     *)
(***************************************************************************)
EXTENDS Naturals, Sequences

CONSTANTS
    Conn,           \* connections; one that both ends have closed is used again
    NoConn,
    Call            \* tool calls, named by their correlation ids

ASSUME NoConnAssumption == NoConn \notin Conn

VARIABLES
    sock,           \* the shim's end of each connection
    peer,           \* the broker's end; it may have ended what it still reads
    up,             \* lines on their way to the broker
    down            \* lines on their way to the shim

wireVars == <<sock, peer, up, down>>

Line(type)     == [type |-> type]
ToolCall(k)    == [type |-> "toolCall", id |-> k]
ToolResult(k, ok) == [type |-> "toolResult", id |-> k, ok |-> ok]

\* "end" is the end of the stream, after which there is no line.
UpLine   == {Line(t) : t \in {"register", "reconnect", "end"}} \cup {ToolCall(k) : k \in Call}
DownLine == {Line(t) : t \in {"registered", "shutdown", "end"}}
              \cup {ToolResult(k, ok) : k \in Call, ok \in BOOLEAN}

WireTypeOK == /\ sock \in [Conn -> {"none", "dialing", "open"}]
              /\ peer \in [Conn -> {"none", "open", "ended", "destroyed"}]
              /\ up \in [Conn -> Seq(UpLine)]
              /\ down \in [Conn -> Seq(DownLine)]

WireInit == /\ sock = [c \in Conn |-> "none"]
            /\ peer = [c \in Conn |-> "none"]
            /\ up = [c \in Conn |-> <<>>]
            /\ down = [c \in Conn |-> <<>>]

Unused(c) == sock[c] = "none" /\ peer[c] = "none"

\* The broker reads from c.
Read(c) == peer[c] \in {"open", "ended"}

\* The queue with these lines written to c; lost when the other end is closed.
WrittenUp(c, lines)   == IF Read(c) THEN [up EXCEPT ![c] = @ \o lines] ELSE up
WrittenDown(c, lines) == IF sock[c] = "open" THEN [down EXCEPT ![c] = @ \o lines] ELSE down

\* The line read next.  A destroyed connection may still have lines that were
\* read with the one whose answer destroyed it.
NextUp(c, type)   == peer[c] # "none" /\ up[c] # <<>> /\ Head(up[c]).type = type
NextDown(c, type) == sock[c] = "open" /\ down[c] # <<>> /\ Head(down[c]).type = type
=============================================================================
