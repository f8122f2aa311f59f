------------------------------- MODULE LinkProofs -------------------------------
(***************************************************************************)
(* The shim and the socket server, for any number of connections, calls    *)
(* and reconnects, and however often the broker goes.                      *)
(***************************************************************************)
EXTENDS ShimLink, SequenceTheorems, TLAPS

(* What is written and read.                                                 *)
LEMMA WrittenUpType ==
    ASSUME WireTypeOK, NEW c \in Conn, NEW lines \in Seq(UpLine)
    PROVE  WrittenUp(c, lines) \in [Conn -> Seq(UpLine)]
  BY ConcatProperties DEF WireTypeOK, WrittenUp

LEMMA WrittenDownType ==
    ASSUME WireTypeOK, NEW c \in Conn, NEW lines \in Seq(DownLine)
    PROVE  WrittenDown(c, lines) \in [Conn -> Seq(DownLine)]
  BY ConcatProperties DEF WireTypeOK, WrittenDown

LEMMA LineTypes ==
    /\ \A t \in {"register", "reconnect", "end"} : <<Line(t)>> \in Seq(UpLine)
    /\ \A k \in Call : ToolCall(k) \in UpLine /\ <<ToolCall(k)>> \in Seq(UpLine)
    /\ \A t \in {"registered", "shutdown", "end"} :
         Line(t) \in DownLine /\ <<Line(t)>> \in Seq(DownLine)
    /\ \A k \in Call, ok \in BOOLEAN : ToolResult(k, ok) \in DownLine
  BY DEF UpLine, DownLine

LEMMA NextUpType ==
    ASSUME WireTypeOK, NEW c \in Conn, NEW type, NextUp(c, type)
    PROVE  /\ up[c] \in Seq(UpLine) /\ up[c] # << >>
           /\ Tail(up[c]) \in Seq(UpLine)
           /\ [up EXCEPT ![c] = Tail(@)] \in [Conn -> Seq(UpLine)]
           /\ Head(up[c]) = up[c][1] /\ Head(up[c]) \in UpLine
           /\ type = "toolCall" => Head(up[c]).id \in Call
  <1>1. /\ up[c] \in Seq(UpLine) /\ up[c] # << >>
    BY DEF WireTypeOK, NextUp
  <1>2. /\ Tail(up[c]) \in Seq(UpLine) /\ Head(up[c]) \in UpLine /\ Head(up[c]) = up[c][1]
    BY <1>1, HeadTailProperties
  <1>3. type = "toolCall" => Head(up[c]).id \in Call
    BY <1>2 DEF NextUp, UpLine, Line, ToolCall
  <1> QED
    BY <1>1, <1>2, <1>3 DEF WireTypeOK

LEMMA NextDownType ==
    ASSUME WireTypeOK, NEW c \in Conn, NEW type, NextDown(c, type)
    PROVE  /\ down[c] \in Seq(DownLine) /\ down[c] # << >>
           /\ Tail(down[c]) \in Seq(DownLine)
           /\ Head(down[c]) = down[c][1] /\ Head(down[c]) \in DownLine
           /\ type = "toolResult" =>
                Head(down[c]).id \in Call /\ Head(down[c]).ok \in BOOLEAN
  <1>1. down[c] \in Seq(DownLine) /\ down[c] # << >>
    BY DEF WireTypeOK, NextDown
  <1>2. /\ Tail(down[c]) \in Seq(DownLine) /\ Head(down[c]) \in DownLine
        /\ Head(down[c]) = down[c][1]
    BY <1>1, HeadTailProperties
  <1>3. type = "toolResult" => Head(down[c]).id \in Call /\ Head(down[c]).ok \in BOOLEAN
    BY <1>2 DEF NextDown, DownLine, Line, ToolResult
  <1> QED
    BY <1>1, <1>2, <1>3

\* What is left of the unread lines s when the first has been handled.
Left(s) == {Tail(s)} \cup {SubSeq(Tail(s), 1, got) : got \in 0..Len(Tail(s))}

LEMMA LeftOf ==
    ASSUME NEW s \in Seq(UpLine), s # << >>, NEW t \in Left(s)
    PROVE  /\ t \in Seq(UpLine)
           /\ \A i \in 1..Len(t) : i + 1 \in 1..Len(s) /\ t[i] = s[i + 1]
  <1>1. /\ Tail(s) \in Seq(UpLine) /\ Len(Tail(s)) = Len(s) - 1 /\ Len(s) \in Nat
        /\ \A i \in 1..Len(Tail(s)) : Tail(s)[i] = s[i + 1]
    BY HeadTailProperties, LenProperties
  <1>2. CASE t = Tail(s)
    BY <1>1, <1>2
  <1>3. ASSUME NEW got \in 0..Len(Tail(s)), t = SubSeq(Tail(s), 1, got)
        PROVE  /\ t \in Seq(UpLine)
               /\ \A i \in 1..Len(t) : i + 1 \in 1..Len(s) /\ t[i] = s[i + 1]
    <2>1. got \in Int /\ \A i \in 1..got : Tail(s)[i] \in UpLine
      BY <1>1, ElementOfSeq
    <2>2. /\ t \in Seq(UpLine) /\ Len(t) = IF 1 <= got THEN got - 1 + 1 ELSE 0
          /\ \A i \in 1..got - 1 + 1 : t[i] = Tail(s)[1 + i - 1]
      BY <1>3, <2>1, SubSeqProperties
    <2>3. \A i \in 1..Len(t) : t[i] = Tail(s)[i] /\ i \in 1..Len(Tail(s))
      BY <1>1, <2>1, <2>2
    <2> QED
      BY <1>1, <2>2, <2>3
  <1> QED
    BY <1>2, <1>3 DEF Left

LEMMA ReplyLeaves ==
    ASSUME WireTypeOK, NEW c \in Conn, up[c] # << >>,
           \/ \E line : Reply(c, line)
           \/ \E d : WriteAndEnd(c, d)
    PROVE  \E t \in Left(up[c]) : up' = [up EXCEPT ![c] = t]
  <1>1. ASSUME NEW line, Reply(c, line)
        PROVE  \E t \in Left(up[c]) : up' = [up EXCEPT ![c] = t]
    BY <1>1 DEF Reply, Write, Left
  <1>2. ASSUME NEW d, WriteAndEnd(c, d)
        PROVE  \E t \in Left(up[c]) : up' = [up EXCEPT ![c] = t]
    BY <1>2 DEF WriteAndEnd, Left
  <1> QED
    BY <1>1, <1>2

LEMMA UpStaysTyped ==
    ASSUME WireTypeOK, NEW c \in Conn, up[c] # << >>,
           NEW t \in Left(up[c]), up' = [up EXCEPT ![c] = t]
    PROVE  up' \in [Conn -> Seq(UpLine)]
  <1>1. t \in Seq(UpLine)
    BY LeftOf DEF WireTypeOK
  <1> QED
    BY <1>1 DEF WireTypeOK

LEMMA WriteTypes ==
    ASSUME WireTypeOK, NEW c \in Conn, NEW line \in DownLine, NEW rest, NEW got,
           Write(c, line, rest, got)
    PROVE  /\ peer' \in [Conn -> {"none", "open", "ended", "destroyed"}]
           /\ down' \in [Conn -> Seq(DownLine)]
  <1>1. <<line>> \in Seq(DownLine)
    OBVIOUS
  <1>2. WrittenDown(c, <<line>>) \in [Conn -> Seq(DownLine)]
    BY <1>1, WrittenDownType
  <1> QED
    BY <1>2 DEF Write, WireTypeOK

LEMMA ReplyType ==
    ASSUME WireTypeOK, NEW c \in Conn, NEW line \in DownLine, up[c] # << >>, Reply(c, line),
           UNCHANGED sock
    PROVE  WireTypeOK'
  <1>1. up' \in [Conn -> Seq(UpLine)]
    BY ReplyLeaves, UpStaysTyped
  <1>2. /\ peer' \in [Conn -> {"none", "open", "ended", "destroyed"}]
        /\ down' \in [Conn -> Seq(DownLine)]
    BY WriteTypes DEF Reply
  <1> QED
    BY <1>1, <1>2 DEF WireTypeOK

\* The router's answer loses what had not been read, or nothing.
LEMMA AnswerLeaves ==
    ASSUME WireTypeOK, NEW c \in Conn, NEW k \in Call, Answer(c, k)
    PROVE  up' = up \/ up' = [up EXCEPT ![c] = << >>]
  <1>1. up' = [up EXCEPT ![c] = SubSeq(up[c], 1, 0)] \/ up' = [up EXCEPT ![c] = up[c]]
    BY DEF Answer, Write
  <1>2. SubSeq(up[c], 1, 0) = << >>
    BY SubSeqEmpty
  <1> QED
    BY <1>1, <1>2 DEF WireTypeOK

-----------------------------------------------------------------------------
(* The shim's side.                                                          *)

ShimTypes == WireTypeOK /\ ClientTypeOK

LEMMA ScheduledType ==
    ASSUME timers \in 0..MaxTimers, NEW n \in Nat
    PROVE  Scheduled(n) \in 0..MaxTimers
  BY TimersAssumption DEF Scheduled

LEMMA DialType ==
    ASSUME WireTypeOK, NEW c \in Conn, Dial(c)
    PROVE  WireTypeOK'
  BY DEF Dial, WireTypeOK

LEMMA RegisterType == ASSUME ShimTypes, Register PROVE ShimTypes'
  BY DialType DEF Register, ShimTypes, ClientTypeOK, Life

LEMMA TimerType == ASSUME ShimTypes, TimerFires PROVE ShimTypes'
  <1>1. WireTypeOK'
    BY DialType, WrittenUpType, LineTypes DEF TimerFires, ShimTypes, ClientTypeOK, WireTypeOK
  <1>2. ClientTypeOK'
    BY TimersAssumption DEF TimerFires, ShimTypes, ClientTypeOK
  <1> QED
    BY <1>1, <1>2 DEF ShimTypes

LEMMA FailType == ASSUME ShimTypes, NEW c \in Conn, DialFails(c) PROVE ShimTypes'
  <1>1. WireTypeOK'
    BY DEF DialFails, ShimTypes, WireTypeOK
  <1>2. timers' \in 0..MaxTimers
    BY ScheduledType DEF DialFails, ShimTypes, ClientTypeOK
  <1> QED
    BY <1>1, <1>2 DEF DialFails, ShimTypes, ClientTypeOK, Life

LEMMA DisconnectedType == ASSUME ShimTypes, NEW c \in Conn, Disconnected(c) PROVE ShimTypes'
  <1>1. WireTypeOK'
    <2>1. up' \in [Conn -> Seq(UpLine)]
      BY WrittenUpType, LineTypes DEF Disconnected, ShimTypes
    <2>2. << >> \in Seq(DownLine)
      OBVIOUS
    <2> QED
      BY <2>1, <2>2 DEF Disconnected, ShimTypes, WireTypeOK
  <1>2. timers' \in 0..MaxTimers
    BY ScheduledType DEF Disconnected, ShimTypes, ClientTypeOK
  <1> QED
    BY <1>1, <1>2 DEF Disconnected, ShimTypes, ClientTypeOK

LEMMA EnqueueType ==
    ASSUME ClientTypeOK, NEW k \in Call, Enqueue(k), UNCHANGED <<life, current, timers>>
    PROVE  ClientTypeOK'
  <1>1. Append(queue, k) \in Seq(Call) /\ Append(queue, k) # << >>
    BY AppendProperties DEF ClientTypeOK
  <1>2. Head(Append(queue, k)) \in Call /\ Tail(Append(queue, k)) \in Seq(Call)
    BY <1>1, HeadTailProperties
  <1>3. queue' \in Seq(Call)
    BY <1>1, <1>2 DEF Enqueue
  <1>4. pending' \subseteq Call
    BY DEF Enqueue, ClientTypeOK
  <1>5. outcome' \in [Call -> Outcome]
    BY DEF Enqueue, ClientTypeOK, Outcome
  <1> QED
    BY <1>3, <1>4, <1>5 DEF ClientTypeOK

LEMMA UseType == ASSUME ShimTypes, UseTools PROVE ShimTypes'
  <1>1. ASSUME NEW k \in Call, CallTool(k), current = NoConn
        PROVE  ShimTypes'
    BY <1>1, EnqueueType DEF CallTool, ShimTypes, WireTypeOK
  <1>2. ASSUME NEW k \in Call, CallTool(k), current # NoConn
        PROVE  ShimTypes'
    <2>1. current \in Conn
      BY <1>2 DEF ShimTypes, ClientTypeOK
    <2>2. up' \in [Conn -> Seq(UpLine)]
      BY <1>2, <2>1, WrittenUpType, LineTypes DEF CallTool, ShimTypes
    <2> QED
      BY <1>2, <2>2 DEF CallTool, ShimTypes, WireTypeOK, ClientTypeOK
  <1>3. ASSUME NEW k \in Call, CallTimesOut(k)
        PROVE  ShimTypes'
    BY <1>3 DEF CallTimesOut, Settles, ShimTypes, ClientTypeOK, WireTypeOK, wireVars, Outcome
  <1> QED
    BY <1>1, <1>2, <1>3 DEF UseTools

LEMMA ReceiveType == ASSUME ShimTypes, NEW c \in Conn, Receive(c) PROVE ShimTypes'
  <1>1. CASE ReceiveResult(c)
    <2>1. WireTypeOK'
      BY <1>1, NextDownType DEF ReceiveResult, ShimTypes, WireTypeOK
    <2>2. pending' \subseteq Call /\ outcome' \in [Call -> Outcome]
      BY <1>1 DEF ReceiveResult, Settles, ShimTypes, ClientTypeOK, Outcome
    <2> QED
      BY <1>1, <2>1, <2>2 DEF ReceiveResult, ShimTypes, ClientTypeOK
  <1>2. CASE ReceiveRegistered(c)
    <2>1. WireTypeOK'
      BY <1>2, NextDownType DEF ReceiveRegistered, ShimTypes, WireTypeOK
    <2> QED
      BY <1>2, <2>1 DEF ReceiveRegistered, ShimTypes, ClientTypeOK, Life
  <1>3. CASE ReceiveShutdown(c)
    <2>1. WireTypeOK'
      BY <1>3, NextDownType DEF ReceiveShutdown, ShimTypes, WireTypeOK
    <2> QED
      BY <1>3, <2>1 DEF ReceiveShutdown, ShimTypes, ClientTypeOK, Life
  <1> QED
    BY <1>1, <1>2, <1>3, DisconnectedType DEF Receive

LEMMA CloseType == ASSUME ShimTypes, Close PROVE ShimTypes'
  <1>1. WireTypeOK'
    <2>1. CASE current = NoConn
      BY <2>1 DEF Close, ShimTypes, WireTypeOK, wireVars
    <2>2. CASE current # NoConn
      <3>1. current \in Conn
        BY <2>2 DEF ShimTypes, ClientTypeOK
      <3> QED
        <4>1. up' \in [Conn -> Seq(UpLine)]
          BY <2>2, <3>1, WrittenUpType, LineTypes DEF Close, ShimTypes
        <4>2. << >> \in Seq(DownLine)
          OBVIOUS
        <4> QED
          BY <2>2, <3>1, <4>1, <4>2 DEF Close, ShimTypes, WireTypeOK
    <2> QED
      BY <2>1, <2>2
  <1>2. outcome' \in [Call -> Outcome]
    BY DEF Close, ShimTypes, ClientTypeOK, Outcome
  <1> QED
    BY <1>1, <1>2, TimersAssumption DEF Close, ShimTypes, ClientTypeOK, Life

LEMMA KilledType == ASSUME ShimTypes, Killed PROVE ShimTypes'
  <1>1. \A c \in Conn : WrittenUp(c, <<Line("end")>>)[c] \in Seq(UpLine)
    BY WrittenUpType, LineTypes DEF ShimTypes
  <1>2. WireTypeOK'
    BY <1>1 DEF Killed, ShimTypes, WireTypeOK
  <1> QED
    BY <1>2, TimersAssumption DEF Killed, ShimTypes, ClientTypeOK, Life

-----------------------------------------------------------------------------
(* The broker's side.                                                        *)

PeerState == {"none", "open", "ended", "destroyed"}

LEMMA AttachType ==
    ASSUME WireTypeOK, ServerTypeOK, NEW c \in Conn, AttachSession(c), up[c] # << >>,
           UNCHANGED <<sock, server, routing, executed>>
    PROVE  WireTypeOK' /\ ServerTypeOK'
  <1> DEFINE prior == ({holder} \ {c}) \cap conns
  <1>2. ASSUME Reply(c, Line("registered"))
        PROVE  WireTypeOK'
    BY <1>2, ReplyType, LineTypes
  <1>3. ASSUME NEW d \in prior, WriteAndEnd(c, d)
        PROVE  WireTypeOK'
    <2>1. d \in Conn
      BY <1>3 DEF ServerTypeOK
    <2>2. \A x \in Conn : peer'[x] \in PeerState
      BY <1>3, <2>1 DEF WriteAndEnd, WireTypeOK, PeerState
    <2>3. up' \in [Conn -> Seq(UpLine)]
      BY <1>3, ReplyLeaves, UpStaysTyped
    <2>4. /\ WrittenDown(c, <<Line("registered")>>)[c] \in Seq(DownLine)
          /\ WrittenDown(d, <<Line("end")>>)[d] \in Seq(DownLine)
      BY <2>1, WrittenDownType, LineTypes
    <2>5. down' \in [Conn -> Seq(DownLine)]
      BY <1>3, <2>1, <2>4 DEF WriteAndEnd, WireTypeOK
    <2> QED
      BY <1>3, <2>1, <2>2, <2>3, <2>5 DEF WriteAndEnd, WireTypeOK, PeerState
  <1>4. WireTypeOK'
    BY <1>2, <1>3 DEF AttachSession
  <1>5. /\ conns' = conns \ prior /\ bound' = bound \cup {c}
        /\ holder' = (IF c \in conns THEN c ELSE NoConn)
        /\ registry' = "attached"
    BY DEF AttachSession
  <1> HIDE DEF prior
  <1>6. ServerTypeOK'
    BY <1>5 DEF ServerTypeOK
  <1> QED
    BY <1>4, <1>6

LEMMA OnCloseType ==
    ASSUME ServerTypeOK, NEW c \in Conn, OnClose(c)
    PROVE  /\ conns' \subseteq Conn /\ holder' \in Conn \cup {NoConn}
           /\ registry' \in {"absent", "attached", "detached"}
  BY DEF OnClose, ServerTypeOK

LEMMA ServeType ==
    ASSUME WireTypeOK, ServerTypeOK, NEW c \in Conn, ReadLine(c) \/ Route(c)
    PROVE  WireTypeOK' /\ ServerTypeOK'
  <1>1. CASE Closed(c)
    <2>1. << >> \in Seq(UpLine)
      OBVIOUS
    <2>2. WireTypeOK'
      BY <1>1, <2>1 DEF Closed, WireTypeOK
    <2> QED
      BY <1>1, <2>2, OnCloseType DEF Closed, ServerTypeOK
  <1>2. CASE ReadIntroduction(c)
    <2>1. up[c] # << >>
      BY <1>2 DEF ReadIntroduction, NextUp
    <2> QED
      BY <1>2, <2>1, AttachType DEF ReadIntroduction
  <1>3. CASE ReadToolCall(c)
    <2> DEFINE k == Head(up[c]).id
    <2>1. [up EXCEPT ![c] = Tail(@)] \in [Conn -> Seq(UpLine)] /\ k \in Call /\ up[c] # << >>
      BY <1>3, NextUpType DEF ReadToolCall
    <2>2. CASE c \in bound
      <3>1. WireTypeOK'
        BY <1>3, <2>1, <2>2 DEF ReadToolCall, WireTypeOK
      <3>2. executed' \in [Call -> Nat] /\ routing' \subseteq Conn \X Call
        BY <1>3, <2>1, <2>2 DEF ReadToolCall, ServerTypeOK
      <3> QED
        BY <1>3, <3>1, <3>2 DEF ReadToolCall, ServerTypeOK
    <2>3. CASE c \notin bound
      <3>1. ToolResult(k, FALSE) \in DownLine
        BY <2>1, LineTypes
      <3>2. WireTypeOK'
        BY <1>3, <2>1, <2>3, <3>1, ReplyType DEF ReadToolCall
      <3> QED
        BY <1>3, <2>3, <3>2 DEF ReadToolCall, ServerTypeOK
    <2> QED
      BY <2>2, <2>3
  <1>4. ASSUME NEW k \in Call, Answer(c, k)
        PROVE  WireTypeOK' /\ ServerTypeOK'
    <2>1. WireTypeOK'
      <3>1. up' \in [Conn -> Seq(UpLine)]
        <4>1. << >> \in Seq(UpLine)
          OBVIOUS
        <4> QED
          BY <1>4, <4>1, AnswerLeaves DEF WireTypeOK
      <3>2. /\ peer' \in [Conn -> {"none", "open", "ended", "destroyed"}]
            /\ down' \in [Conn -> Seq(DownLine)]
        BY <1>4, WriteTypes, LineTypes DEF Answer
      <3> QED
        BY <1>4, <3>1, <3>2 DEF Answer, WireTypeOK
    <2> QED
      BY <1>4, <2>1 DEF Answer, ServerTypeOK
  <1> QED
    BY <1>1, <1>2, <1>3, <1>4 DEF ReadLine, Route

LEMMA ConnectType ==
    ASSUME TypeOK, NEW c \in Conn, Connect(c)
    PROVE  TypeOK'
  <1>1. [i \in 1..Len(queue) |-> ToolCall(queue[i])] \in Seq(UpLine)
    <2>1. \A i \in 1..Len(queue) : ToolCall(queue[i]) \in UpLine
      BY LineTypes DEF TypeOK, ClientTypeOK
    <2> QED
      BY <2>1 DEF TypeOK, ClientTypeOK
  <1>2. <<Introduction>> \in Seq(UpLine)
    BY LineTypes DEF Introduction
  <1>3. WireTypeOK'
    BY <1>1, <1>2, ConcatProperties DEF Connect, Connected, Accept, TypeOK, WireTypeOK
  <1>4. ClientTypeOK'
    <2>1. << >> \in Seq(Call)
      OBVIOUS
    <2> QED
      BY <2>1 DEF Connect, Connected, TypeOK, ClientTypeOK, Life
  <1>5. ServerTypeOK'
    BY DEF Connect, Accept, TypeOK, ServerTypeOK
  <1> QED
    BY <1>3, <1>4, <1>5 DEF Connect, TypeOK

LEMMA BrokerEndsType ==
    ASSUME TypeOK, Stop \/ Gone \/ Back \/ Detach
    PROVE  TypeOK'
  <1>1. CASE Stop
    <2>1. \A c \in Conn : WrittenDown(c, <<Line("shutdown"), Line("end")>>)[c] \in Seq(DownLine)
      <3>1. <<Line("shutdown"), Line("end")>> \in Seq(DownLine)
        BY LineTypes
      <3> QED
        BY <3>1, WrittenDownType DEF TypeOK
    <2>2. WireTypeOK'
      BY <1>1, <2>1 DEF Stop, Shutdown, TypeOK, WireTypeOK
    <2> QED
      BY <1>1, <2>2 DEF Stop, Shutdown, TypeOK, ServerTypeOK, ClientTypeOK, clientVars
  <1>2. CASE Gone
    <2>1. \A c \in Conn : WrittenDown(c, <<Line("end")>>)[c] \in Seq(DownLine)
      BY WrittenDownType, LineTypes DEF TypeOK
    <2>2. WireTypeOK'
      <3>1. << >> \in Seq(UpLine)
        OBVIOUS
      <3> QED
        BY <1>2, <2>1, <3>1 DEF Gone, Exit, TypeOK, WireTypeOK
    <2> QED
      BY <1>2, <2>2 DEF Gone, Exit, TypeOK, ServerTypeOK, ClientTypeOK, clientVars
  <1>3. CASE Back
    BY <1>3 DEF Back, Start, TypeOK, WireTypeOK, ServerTypeOK, ClientTypeOK, wireVars, clientVars
  <1>4. CASE Detach
    BY <1>4 DEF Detach, Evict, TypeOK, WireTypeOK, ServerTypeOK, ClientTypeOK, wireVars,
                clientVars
  <1> QED
    BY <1>1, <1>2, <1>3, <1>4

LEMMA NextType ==
    ASSUME TypeOK, [Next]_vars
    PROVE  TypeOK'
  <1>1. ShimTypes
    BY DEF TypeOK, ShimTypes
  <1>2. ASSUME ShimTypes', UNCHANGED <<serverVars, exits, evictions>>
        PROVE  TypeOK'
    BY <1>2 DEF ShimTypes, TypeOK, ServerTypeOK, serverVars
  <1>3. CASE Begin
    BY <1>1, <1>2, <1>3, RegisterType DEF Begin
  <1>4. CASE Timer
    BY <1>1, <1>2, <1>4, TimerType DEF Timer
  <1>5. CASE Use
    BY <1>1, <1>2, <1>5, UseType DEF Use
  <1>6. CASE Leave
    BY <1>1, <1>2, <1>6, CloseType, KilledType DEF Leave
  <1>7. ASSUME NEW c \in Conn, Fail(c)
        PROVE  TypeOK'
    BY <1>1, <1>2, <1>7, FailType DEF Fail
  <1>8. ASSUME NEW c \in Conn, Hear(c)
        PROVE  TypeOK'
    BY <1>1, <1>2, <1>8, ReceiveType DEF Hear
  <1>9. ASSUME NEW c \in Conn, Serve(c)
        PROVE  TypeOK'
    BY <1>9, ServeType DEF Serve, TypeOK, ClientTypeOK, clientVars
  <1>10. CASE UNCHANGED vars
    BY <1>1, <1>2, <1>10 DEF vars, wireVars, clientVars, ShimTypes, WireTypeOK, ClientTypeOK
  <1> QED
    BY <1>3, <1>4, <1>5, <1>6, <1>7, <1>8, <1>9, <1>10, ConnectType, BrokerEndsType DEF Next

LEMMA InitType == Init => TypeOK
  <1>1. << >> \in Seq(UpLine) /\ << >> \in Seq(DownLine) /\ << >> \in Seq(Call)
    OBVIOUS
  <1> QED
    BY <1>1, TimersAssumption
       DEF Init, WireInit, ClientInit, ServerInit, TypeOK, WireTypeOK, ClientTypeOK, ServerTypeOK,
           Life, Outcome

(* Type correctness of both ends and the wire between them.                  *)
THEOREM TypeCorrect == Spec => []TypeOK
  BY InitType, NextType, PTL DEF Spec

-----------------------------------------------------------------------------
(* One holder.                                                               *)
LEMMA AttachHolds ==
    ASSUME TypeOK, OneHolder, NEW c \in Conn, AttachSession(c)
    PROVE  OneHolder'
  <1> SUFFICES ASSUME NEW x \in conns' \cap bound'
               PROVE  x = holder'
    BY DEF OneHolder
  <1>1. /\ x \in conns \ (({holder} \ {c}) \cap conns) /\ x \in bound \cup {c}
        /\ holder' = IF c \in conns THEN c ELSE NoConn
    BY DEF AttachSession
  <1>2. x # c => x = holder
    BY <1>1 DEF OneHolder
  <1> QED
    BY <1>1, <1>2

LEMMA NextHolds ==
    ASSUME TypeOK, OneHolder, [Next]_vars
    PROVE  OneHolder'
  <1>1. CASE UNCHANGED <<conns, bound, holder>>
    BY <1>1 DEF OneHolder
  <1>2. ASSUME NEW c \in Conn, Connect(c)
        PROVE  OneHolder'
    BY <1>2 DEF Connect, Accept, OneHolder
  <1>3. ASSUME NEW c \in Conn, Closed(c)
        PROVE  OneHolder'
    BY <1>3 DEF Closed, OnClose, OneHolder
  <1>4. ASSUME NEW c \in Conn, Serve(c)
        PROVE  OneHolder'
    BY <1>1, <1>3, <1>4, AttachHolds
       DEF Serve, ReadLine, ReadIntroduction, ReadToolCall, Route, Answer
  <1>5. CASE Gone
    BY <1>5 DEF Gone, Exit, OneHolder
  <1>6. CASE Stop \/ Back \/ Detach
    BY <1>1, <1>6 DEF Stop, Shutdown, Back, Start, Detach, Evict
  <1>7. CASE Begin \/ Timer \/ Use \/ Leave \/ (\E c \in Conn : Fail(c) \/ Hear(c))
    BY <1>1, <1>7 DEF Begin, Timer, Use, Leave, Fail, Hear, serverVars
  <1>8. CASE UNCHANGED vars
    BY <1>1, <1>8 DEF vars, serverVars
  <1> QED
    BY <1>2, <1>4, <1>5, <1>6, <1>7, <1>8 DEF Next

(* The session has one place to be dispatched to: of all the connections a    *)
(* shim has dialled and introduced itself on, only the one the session is     *)
(* mapped to is left in the socket server's map.                              *)
THEOREM HolderIsOne == Spec => []OneHolder
  <1>1. Init => OneHolder
    BY DEF Init, ServerInit, OneHolder
  <1> QED
    BY InitType, NextType, NextHolds, <1>1, PTL DEF Spec

-----------------------------------------------------------------------------
(* The refinement.                                                           *)
Reg == [s \in {"s"} |-> registry]
Lnk == [s \in {"s"} |-> holder # NoConn]

ViewMoves == View!Next \/ UNCHANGED <<Reg, Lnk>>

\* A connection out of the map was replaced by one that introduced the session.
ReplacedKnown == \A c \in Conn \ conns : peer[c] # "none" => registry # "absent"

LEMMA NextKnown ==
    ASSUME TypeOK, ReplacedKnown, [Next]_vars
    PROVE  ReplacedKnown'
  <1> SUFFICES ASSUME NEW x \in Conn \ conns', peer'[x] # "none"
               PROVE  registry' # "absent"
    BY DEF ReplacedKnown
  <1>1. CASE UNCHANGED <<conns, registry>> /\ (peer'[x] # "none" => peer[x] # "none")
    BY <1>1 DEF ReplacedKnown
  <1>2. ASSUME NEW c \in Conn, Connect(c)
        PROVE  registry' # "absent"
    BY <1>2 DEF Connect, Connected, Accept, ReplacedKnown, TypeOK, WireTypeOK
  <1>3. ASSUME NEW c \in Conn, Closed(c)
        PROVE  registry' # "absent"
    BY <1>3 DEF Closed, OnClose, ReplacedKnown, TypeOK, WireTypeOK
  <1>4. ASSUME NEW c \in Conn, ReadIntroduction(c)
        PROVE  registry' # "absent"
    BY <1>4 DEF ReadIntroduction, AttachSession
  <1>5. ASSUME NEW c \in Conn, ReadToolCall(c) \/ Route(c)
        PROVE  registry' # "absent"
    BY <1>1, <1>5 DEF ReadToolCall, Route, Answer, Reply, Write, TypeOK, WireTypeOK
  <1>6. CASE Stop
    BY <1>1, <1>6 DEF Stop, Shutdown, TypeOK, WireTypeOK
  <1>7. CASE Gone
    BY <1>7 DEF Gone, Exit
  <1>8. CASE Detach
    BY <1>8 DEF Detach, Evict
  <1>9. CASE Begin \/ Timer \/ Back \/ \E c \in Conn : Fail(c)
    BY <1>1, <1>9 DEF Begin, Register, Dial, Timer, TimerFires, Back, Start, Fail, DialFails,
                      serverVars, wireVars
  <1>10. CASE Use
    BY <1>1, <1>10 DEF Use, UseTools, CallTool, CallTimesOut, serverVars, wireVars
  <1>11. CASE Leave
    BY <1>1, <1>11 DEF Leave, Close, Killed, serverVars, wireVars
  <1>12. ASSUME NEW c \in Conn, Hear(c)
        PROVE  registry' # "absent"
    BY <1>1, <1>12 DEF Hear, Receive, ReceiveResult, ReceiveRegistered, ReceiveShutdown,
                       Disconnected, serverVars
  <1>13. CASE UNCHANGED vars
    BY <1>1, <1>13 DEF vars, serverVars, wireVars
  <1> QED
    BY <1>2, <1>3, <1>4, <1>5, <1>6, <1>7, <1>8, <1>9, <1>10, <1>11, <1>12, <1>13
       DEF Next, Serve, ReadLine

LEMMA ViewAttach ==
    ASSUME TypeOK, ReplacedKnown, NEW c \in Conn, peer[c] # "none", AttachSession(c)
    PROVE  ViewMoves
  <1>1. Reg' = [Reg EXCEPT !["s"] = "attached"]
    BY DEF AttachSession, Reg
  <1>2. CASE c \in conns
    <2>1. (holder' # NoConn) = TRUE
      BY <1>2, NoConnAssumption DEF AttachSession
    <2>2. Lnk' = [Lnk EXCEPT !["s"] = TRUE]
      BY <2>1 DEF Lnk
    <2> QED
      BY <1>1, <2>2 DEF ViewMoves, View!Next, View!AttachSession, View!RegisterIn, Reg, Lnk
  <1>3. CASE c \notin conns
    <2>1. (holder' # NoConn) = FALSE
      BY <1>3 DEF AttachSession
    <2>2. Lnk' = [Lnk EXCEPT !["s"] = FALSE] /\ Reg["s"] # "absent"
      BY <1>3, <2>1 DEF Lnk, Reg, ReplacedKnown
    <2> QED
      BY <1>1, <2>2 DEF ViewMoves, View!Next, View!AttachReplaced, View!RegisterIn, Reg, Lnk
  <1> QED
    BY <1>2, <1>3

LEMMA ViewClose ==
    ASSUME TypeOK, NEW c \in Conn, OnClose(c)
    PROVE  ViewMoves
  <1>1. CASE c \in conns /\ holder = c
    <2>1. (holder # NoConn) = TRUE /\ (holder' # NoConn) = FALSE
      BY <1>1, NoConnAssumption DEF OnClose
    <2>2. Lnk["s"] /\ Lnk' = [Lnk EXCEPT !["s"] = FALSE]
      BY <2>1 DEF Lnk
    <2>3. Reg' = IF Reg["s"] = "attached" THEN [Reg EXCEPT !["s"] = "detached"] ELSE Reg
      BY <1>1 DEF OnClose, Reg
    <2> QED
      BY <2>2, <2>3 DEF ViewMoves, View!Next, View!CloseConnection, View!DetachIn, Reg, Lnk
  <1>2. CASE ~(c \in conns /\ holder = c)
    BY <1>2 DEF OnClose, ViewMoves, Reg, Lnk
  <1> QED
    BY <1>1, <1>2

LEMMA ViewStep ==
    ASSUME TypeOK, ReplacedKnown, [Next]_vars
    PROVE  ViewMoves
  <1>1. CASE UNCHANGED <<registry, holder>>
    BY <1>1 DEF ViewMoves, Reg, Lnk
  <1>2. ASSUME NEW c \in Conn, Serve(c)
        PROVE  ViewMoves
    BY <1>1, <1>2, ViewAttach, ViewClose
       DEF Serve, ReadLine, Closed, ReadIntroduction, NextUp, ReadToolCall, Route, Answer
  <1>3. CASE Detach
    <2>1. Reg["s"] = "attached" /\ Reg' = [Reg EXCEPT !["s"] = "detached"]
      BY <1>3 DEF Detach, Evict, Reg
    <2>2. Lnk' = Lnk
      BY <1>3 DEF Detach, Evict, Lnk
    <2> QED
      BY <2>1, <2>2
         DEF ViewMoves, View!Next, View!DeleteSession, View!IsAttached, View!DetachIn, Reg, Lnk
  <1>4. CASE Gone
    <2>1. (holder' # NoConn) = FALSE /\ registry' = "absent"
      BY <1>4 DEF Gone, Exit
    <2>2. Lnk' = [s \in {"s"} |-> FALSE] /\ Reg' = [s \in {"s"} |-> "absent"]
      BY <2>1 DEF Lnk, Reg
    <2> QED
      BY <2>2 DEF ViewMoves, View!Next, View!StartsOver, Reg, Lnk
  <1>5. CASE Stop \/ Back \/ \E c \in Conn : Connect(c)
    BY <1>1, <1>5 DEF Stop, Shutdown, Back, Start, Connect, Accept
  <1>6. CASE Begin \/ Timer \/ Use \/ Leave \/ (\E c \in Conn : Fail(c) \/ Hear(c))
    BY <1>1, <1>6 DEF Begin, Timer, Use, Leave, Fail, Hear, serverVars
  <1>7. CASE UNCHANGED vars
    BY <1>1, <1>7 DEF vars, serverVars
  <1> QED
    BY <1>2, <1>3, <1>4, <1>5, <1>6, <1>7 DEF Next

(* What the socket server does with a session's connections, however many     *)
(* replace one another, is what Broker assumes of them (module Sessions).     *)
THEOREM ImplementsView == Spec => ImplementsSessions
  <1>1. Init => View!SessionInit
    <2> SUFFICES ASSUME Init PROVE View!SessionInit
      OBVIOUS
    <2>1. registry = "absent" /\ (holder # NoConn) = FALSE
      BY DEF Init, ServerInit
    <2> QED
      BY <2>1 DEF View!SessionInit
  <1>2. TypeOK /\ ReplacedKnown /\ [Next]_vars => [View!Next]_(View!sessionVars)
    BY ViewStep DEF ViewMoves, View!sessionVars, Reg, Lnk
  <1>3. Init => ReplacedKnown
    BY DEF Init, WireInit, ReplacedKnown
  <1> QED
    BY <1>1, <1>2, <1>3, InitType, NextType, NextKnown, PTL
       DEF Spec, ImplementsSessions, View!Spec

-----------------------------------------------------------------------------
(* Where a tool call can be.                                                 *)

\* s[i] is the line of tool call k.
IsCall(s, k, i) == i \in 1..Len(s) /\ s[i] = ToolCall(k)

\* The calls t carries were carried by s, in the same order.
Rest(s, t) == \E n \in Nat : \A k \in Call, i \in Nat : IsCall(t, k, i) => IsCall(s, k, i + n)

Queued(k, i)     == i \in 1..Len(queue) /\ queue[i] = k
Carried(k, c, i) == IsCall(up[c], k, i)

Nowhere(k) == /\ \A i \in Nat : ~Queued(k, i)
              /\ \A c \in Conn, i \in Nat : ~Carried(k, c, i)

OneCopy ==
    /\ \A k \in Call, i, j \in Nat : Queued(k, i) /\ Queued(k, j) => i = j
    /\ \A k \in Call, c, d \in Conn, i, j \in Nat :
         Carried(k, c, i) /\ Carried(k, d, j) => c = d /\ i = j
    /\ \A k \in Call, c \in Conn, i, j \in Nat : ~(Queued(k, i) /\ Carried(k, c, j))

\* What a step that writes no call does with the queue and the lines.
Shrinks == /\ \A k \in Call, i \in Nat : Queued(k, i)' => Queued(k, i)
           /\ \A c \in Conn : Rest(up[c], up'[c])

CallsStay == OneCopy' /\ \A k \in Call : Nowhere(k) => Nowhere(k)'

LEMMA LinesDiffer ==
    /\ \A t \in {"register", "reconnect", "end"}, k \in Call : Line(t) # ToolCall(k)
    /\ \A t \in {"registered", "shutdown", "end"}, k \in Call, ok \in BOOLEAN :
         Line(t) # ToolResult(k, ok)
    /\ \A k, x \in Call : ToolCall(k) = ToolCall(x) => k = x
    /\ \A k, x \in Call, ok, b \in BOOLEAN :
         ToolResult(k, ok) = ToolResult(x, b) => k = x /\ ok = b
  <1>1. \A t \in {"register", "reconnect", "end", "registered", "shutdown"} : Line(t).type = t
    BY DEF Line
  <1>2. \A k \in Call : ToolCall(k).type = "toolCall" /\ ToolCall(k).id = k
    BY DEF ToolCall
  <1>3. \A k \in Call, ok \in BOOLEAN :
          /\ ToolResult(k, ok).type = "toolResult"
          /\ ToolResult(k, ok).id = k /\ ToolResult(k, ok).ok = ok
    BY DEF ToolResult
  <1> QED
    BY <1>1, <1>2, <1>3

LEMMA RestOf ==
    ASSUME NEW s \in Seq(UpLine)
    PROVE  /\ Rest(s, s)
           /\ Rest(s, << >>)
           /\ s # << >> => \A t \in Left(s) : Rest(s, t)
           /\ \A t \in {"register", "reconnect", "end"} : Rest(s, s \o <<Line(t)>>)
  <1>1. Rest(s, s)
    <2>1. \A k \in Call, i \in Nat : IsCall(s, k, i) => IsCall(s, k, i + 0)
      BY DEF IsCall
    <2> QED
      BY <2>1 DEF Rest
  <1>2. Rest(s, << >>)
    <2>1. \A k \in Call, i \in Nat : ~IsCall(<< >>, k, i)
      BY DEF IsCall
    <2> QED
      BY <2>1 DEF Rest
  <1>3. ASSUME s # << >>, NEW t \in Left(s)
        PROVE  Rest(s, t)
    <2>1. \A k \in Call, i \in Nat : IsCall(t, k, i) => IsCall(s, k, i + 1)
      BY <1>3, LeftOf DEF IsCall
    <2> QED
      BY <2>1 DEF Rest
  <1>4. ASSUME NEW t \in {"register", "reconnect", "end"}
        PROVE  Rest(s, s \o <<Line(t)>>)
    <2>1. <<Line(t)>> \in Seq(UpLine) /\ Len(<<Line(t)>>) = 1 /\ <<Line(t)>>[1] = Line(t)
      BY LineTypes
    <2>2. ASSUME NEW k \in Call, NEW i \in Nat, IsCall(s \o <<Line(t)>>, k, i)
          PROVE  IsCall(s, k, i + 0)
      <3>1. i \in 1..Len(s) + 1
        BY <2>1, <2>2, ConcatProperties DEF IsCall
      <3>2. CASE i = Len(s) + 1
        <4>1. (s \o <<Line(t)>>)[i] = Line(t)
          BY <2>1, <3>1, <3>2, ConcatProperties, LenProperties
        <4> QED
          BY <2>2, <4>1, LinesDiffer DEF IsCall
      <3>3. CASE i # Len(s) + 1
        <4>1. i \in 1..Len(s)
          BY <3>1, <3>3, LenProperties
        <4>2. (s \o <<Line(t)>>)[i] = s[i]
          BY <2>1, <4>1, ConcatProperties, LenProperties
        <4> QED
          BY <2>2, <4>1, <4>2 DEF IsCall
      <3> QED
        BY <3>2, <3>3
    <2> QED
      BY <2>2 DEF Rest
  <1> QED
    BY <1>1, <1>2, <1>3, <1>4

LEMMA ShrinksStays ==
    ASSUME OneCopy, Shrinks
    PROVE  CallsStay
  <1>1. ASSUME NEW k \in Call, NEW c \in Conn, NEW d \in Conn, NEW i \in Nat, NEW j \in Nat,
               Carried(k, c, i)', Carried(k, d, j)'
        PROVE  c = d /\ i = j
    <2>1. PICK n \in Nat : \A x \in Call, y \in Nat :
                             IsCall(up'[c], x, y) => IsCall(up[c], x, y + n)
      BY DEF Shrinks, Rest
    <2>2. PICK m \in Nat : \A x \in Call, y \in Nat :
                             IsCall(up'[d], x, y) => IsCall(up[d], x, y + m)
      BY DEF Shrinks, Rest
    <2>3. Carried(k, c, i + n) /\ Carried(k, d, j + m)
      BY <1>1, <2>1, <2>2 DEF Carried
    <2>4. c = d
      BY <2>3 DEF OneCopy
    <2>5. Carried(k, c, j + n)
      BY <1>1, <2>1, <2>4 DEF Carried
    <2>6. i + n = j + n
      BY <2>3, <2>5 DEF OneCopy
    <2> QED
      BY <2>4, <2>6
  <1>2. ASSUME NEW k \in Call, NEW c \in Conn, NEW i \in Nat, Carried(k, c, i)'
        PROVE  \E j \in Nat : Carried(k, c, j)
    BY <1>2 DEF Shrinks, Rest, Carried
  <1>3. \A k \in Call, i \in Nat : Queued(k, i)' => Queued(k, i)
    BY DEF Shrinks
  <1>4. OneCopy'
    BY <1>1, <1>2, <1>3 DEF OneCopy
  <1>5. ASSUME NEW k \in Call, Nowhere(k)
        PROVE  Nowhere(k)'
    BY <1>2, <1>3, <1>5 DEF Nowhere
  <1> QED
    BY <1>4, <1>5 DEF CallsStay

LEMMA SameUpShrinks ==
    ASSUME WireTypeOK, UNCHANGED up, queue' = queue \/ queue' = << >>
    PROVE  Shrinks
  <1>1. \A c \in Conn : Rest(up[c], up'[c])
    BY RestOf DEF WireTypeOK
  <1>2. \A k \in Call, i \in Nat : Queued(k, i)' => Queued(k, i)
    BY DEF Queued
  <1> QED
    BY <1>1, <1>2 DEF Shrinks

\* One connection's lines are read, written to or lost.
LEMMA OneUpShrinks ==
    ASSUME WireTypeOK, NEW c \in Conn, NEW s, up' = [up EXCEPT ![c] = s], Rest(up[c], s),
           UNCHANGED queue
    PROVE  Shrinks
  <1>1. \A d \in Conn : Rest(up[d], up'[d])
    BY RestOf DEF WireTypeOK
  <1>2. \A k \in Call, i \in Nat : Queued(k, i)' => Queued(k, i)
    BY DEF Queued
  <1> QED
    BY <1>1, <1>2 DEF Shrinks

LEMMA WrittenShrinks ==
    ASSUME WireTypeOK, NEW c \in Conn, NEW t \in {"register", "reconnect", "end"},
           up' = WrittenUp(c, <<Line(t)>>), UNCHANGED queue
    PROVE  Shrinks
  <1>1. CASE Read(c)
    <2>1. up' = [up EXCEPT ![c] = up[c] \o <<Line(t)>>]
      BY <1>1 DEF WrittenUp
    <2>2. Rest(up[c], up[c] \o <<Line(t)>>)
      BY RestOf DEF WireTypeOK
    <2> QED
      BY <2>1, <2>2, OneUpShrinks
  <1>2. CASE ~Read(c)
    BY <1>2, SameUpShrinks DEF WrittenUp
  <1> QED
    BY <1>1, <1>2

LEMMA LeftShrinks ==
    ASSUME WireTypeOK, NEW c \in Conn, up[c] # << >>,
           NEW t \in Left(up[c]), up' = [up EXCEPT ![c] = t], UNCHANGED queue
    PROVE  Shrinks
  <1>1. Rest(up[c], t)
    BY RestOf DEF WireTypeOK
  <1> QED
    BY <1>1, OneUpShrinks

LEMMA AnswerShrinks ==
    ASSUME WireTypeOK, NEW c \in Conn, NEW k \in Call, Answer(c, k), UNCHANGED queue
    PROVE  Shrinks
  <1>1. Rest(up[c], << >>)
    BY RestOf DEF WireTypeOK
  <1>2. CASE up' = up
    BY <1>2, SameUpShrinks
  <1>3. CASE up' = [up EXCEPT ![c] = << >>]
    BY <1>1, <1>3, OneUpShrinks
  <1> QED
    BY <1>2, <1>3, AnswerLeaves

LEMMA AttachShrinks ==
    ASSUME WireTypeOK, NEW c \in Conn, up[c] # << >>, AttachSession(c), UNCHANGED queue
    PROVE  Shrinks
  BY ReplyLeaves, LeftShrinks DEF AttachSession

\* Everything lost at once: the shim or the broker is gone.
LEMMA EndsShrink ==
    ASSUME TypeOK, Killed \/ Exit, queue' = queue \/ queue' = << >>
    PROVE  Shrinks
  <1>1. \A k \in Call, i \in Nat : Queued(k, i)' => Queued(k, i)
    BY DEF Queued
  <1>2. ASSUME NEW c \in Conn, Killed
        PROVE  Rest(up[c], up'[c])
    <2>1. up'[c] = up[c] \o <<Line("end")>> \/ up'[c] = up[c]
      BY <1>2 DEF Killed, WrittenUp, TypeOK, WireTypeOK
    <2> QED
      BY <2>1, RestOf DEF TypeOK, WireTypeOK
  <1>3. ASSUME NEW c \in Conn, Exit
        PROVE  Rest(up[c], up'[c])
    BY <1>3, RestOf DEF Exit, TypeOK, WireTypeOK
  <1> QED
    BY <1>1, <1>2, <1>3 DEF Shrinks

\* The queue is flushed onto the connection the shim has made.
LEMMA ConnectStays ==
    ASSUME TypeOK, OneCopy, NEW c \in Conn, Connect(c)
    PROVE  CallsStay
  <1> DEFINE flush == [i \in 1..Len(queue) |-> ToolCall(queue[i])]
  <1>1. flush \in Seq(UpLine) /\ Len(flush) = Len(queue) /\ Len(queue) \in Nat
    <2>1. \A i \in 1..Len(queue) : ToolCall(queue[i]) \in UpLine /\ queue[i] \in Call
      BY LineTypes DEF TypeOK, ClientTypeOK
    <2> QED
      BY <2>1 DEF TypeOK, ClientTypeOK
  <1>2. PICK t \in {"register", "reconnect"} : Introduction = Line(t)
    BY DEF Introduction
  <1>3. up' = [up EXCEPT ![c] = flush \o <<Line(t)>>] /\ queue' = << >>
    BY <1>2 DEF Connect, Connected
  <1>4. \A k \in Call, i \in Nat : ~Queued(k, i)'
    BY <1>3 DEF Queued
  <1>5. ASSUME NEW k \in Call, NEW i \in Nat, Carried(k, c, i)'
        PROVE  Queued(k, i)
    <2>1. IsCall(flush \o <<Line(t)>>, k, i)
      BY <1>3, <1>5 DEF Carried, TypeOK, WireTypeOK
    <2>2. IsCall(flush, k, i)
      <3>1. <<Line(t)>> \in Seq(UpLine) /\ Len(<<Line(t)>>) = 1 /\ <<Line(t)>>[1] = Line(t)
        BY LineTypes
      <3>2. i \in 1..Len(flush) + 1
        BY <1>1, <2>1, <3>1, ConcatProperties DEF IsCall
      <3>3. (flush \o <<Line(t)>>)[Len(flush) + 1] = Line(t)
        BY <1>1, <3>1, ConcatProperties
      <3>4. i \in 1..Len(flush)
        BY <1>1, <2>1, <3>2, <3>3, LinesDiffer DEF IsCall
      <3>5. (flush \o <<Line(t)>>)[i] = flush[i]
        BY <1>1, <3>1, <3>4, ConcatProperties
      <3> QED
        BY <1>1, <2>1, <3>4, <3>5 DEF IsCall
    <2>3. i \in 1..Len(queue) /\ flush[i] = ToolCall(k)
      BY <1>1, <2>2 DEF IsCall
    <2>4. ToolCall(queue[i]) = ToolCall(k) /\ queue[i] \in Call
      BY <2>3 DEF TypeOK, ClientTypeOK
    <2> QED
      BY <2>3, <2>4, LinesDiffer DEF Queued
  <1>6. \A d \in Conn \ {c} : up'[d] = up[d]
    BY <1>3 DEF TypeOK, WireTypeOK
  <1> HIDE DEF flush
  <1>7. \A k \in Call, d \in Conn \ {c}, i \in Nat : Carried(k, d, i)' => Carried(k, d, i)
    BY <1>6 DEF Carried
  <1>8. OneCopy'
    BY <1>4, <1>5, <1>7 DEF OneCopy
  <1>9. \A k \in Call : Nowhere(k) => Nowhere(k)'
    BY <1>4, <1>5, <1>7 DEF Nowhere
  <1> QED
    BY <1>8, <1>9 DEF CallsStay

-----------------------------------------------------------------------------
(* What has become of a call.                                                *)

\* The answer to k is on its way to the shim.
Answered(k, c, ok) == \E i \in 1..Len(down[c]) : down[c][i] = ToolResult(k, ok)

\* Never given to the router, and never going to be.
Spent(k) == executed[k] = 0 /\ Nowhere(k)

Refused(k) == \E c \in Conn : Answered(k, c, FALSE)

FateAtBroker(k) ==
    /\ executed[k] \in {0, 1}
    /\ executed[k] = 1 => Nowhere(k)
    /\ \A c \in Conn : <<c, k>> \in routing => executed[k] = 1
    /\ \A c \in Conn : Answered(k, c, TRUE) => executed[k] = 1
    /\ Refused(k) => Spent(k)

\* A call nobody has made yet can still be made, unless the shim has stopped.
Unmade(k) == outcome[k] = "none" /\ k \notin pending /\ life # "closed"

FateAtShim(k) ==
    /\ k \in pending => outcome[k] = "none"
    /\ outcome[k] = "result" => executed[k] = 1
    /\ outcome[k] \in {"refused", "overflow"} => Spent(k)
    /\ Unmade(k) => Spent(k) /\ ~Refused(k)

LinkInv == OneCopy /\ \A k \in Call : FateAtBroker(k) /\ FateAtShim(k)

AnswersStay ==
    \A k \in Call, c \in Conn, ok \in BOOLEAN : Answered(k, c, ok)' => Answered(k, c, ok)

\* What a step does with the calls that are waiting, if it neither makes one
\* nor hears the answer to one.
ClientStays ==
    /\ life = "closed" => life' = "closed"
    /\ \A k \in Call :
         \/ outcome'[k] = outcome[k] /\ (k \in pending' <=> k \in pending)
         \/ outcome'[k] \in {"timeout", "closed"} /\ k \notin pending'
         \/ outcome'[k] = outcome[k] /\ k \notin pending' /\ life' = "closed"

LEMMA QuietStep ==
    ASSUME LinkInv, CallsStay, AnswersStay, ClientStays,
           UNCHANGED executed, routing' \subseteq routing
    PROVE  LinkInv'
  <1> SUFFICES ASSUME NEW k \in Call
               PROVE  FateAtBroker(k)' /\ FateAtShim(k)'
    BY DEF LinkInv, CallsStay
  <1>1. FateAtBroker(k) /\ FateAtShim(k)
    BY DEF LinkInv
  <1>2. /\ Refused(k)' => Refused(k)
        /\ Spent(k) => Spent(k)'
        /\ Nowhere(k) => Nowhere(k)'
        /\ \A c \in Conn : Answered(k, c, TRUE)' => Answered(k, c, TRUE)
    BY DEF AnswersStay, Refused, CallsStay, Spent
  <1>3. FateAtBroker(k)'
    BY <1>1, <1>2 DEF FateAtBroker
  <1>4. FateAtShim(k)'
    BY <1>1, <1>2 DEF FateAtShim, Unmade, ClientStays
  <1> QED
    BY <1>3, <1>4

\* No answer is written: the lines to the shim are read, lost, or others are.
LEMMA SameDownStays == ASSUME UNCHANGED down PROVE AnswersStay
  BY DEF AnswersStay, Answered

LEMMA OneDownStays ==
    ASSUME WireTypeOK, NEW c \in Conn,
           \/ down' = [down EXCEPT ![c] = << >>]
           \/ down[c] # << >> /\ down' = [down EXCEPT ![c] = Tail(@)]
    PROVE  AnswersStay
  <1> SUFFICES ASSUME NEW k \in Call, NEW d \in Conn, NEW ok \in BOOLEAN, Answered(k, d, ok)'
               PROVE  Answered(k, d, ok)
    BY DEF AnswersStay
  <1>1. PICK i \in 1..Len(down'[d]) : down'[d][i] = ToolResult(k, ok)
    BY DEF Answered
  <1>2. CASE d # c
    BY <1>1, <1>2 DEF Answered, WireTypeOK
  <1>3. CASE d = c /\ down' = [down EXCEPT ![c] = << >>]
    <2>1. Len(down'[d]) = 0
      BY <1>3 DEF WireTypeOK
    <2> QED
      BY <1>1, <2>1
  <1>4. CASE d = c /\ down[c] # << >> /\ down' = [down EXCEPT ![c] = Tail(@)]
    <2>1. down[c] \in Seq(DownLine) /\ down[c] # << >> /\ down'[c] = Tail(down[c])
      BY <1>4 DEF WireTypeOK
    <2>2. /\ Len(Tail(down[c])) = Len(down[c]) - 1 /\ Len(down[c]) \in Nat
          /\ \A j \in 1..Len(Tail(down[c])) : Tail(down[c])[j] = down[c][j + 1]
      BY <2>1, HeadTailProperties, LenProperties
    <2>3. i \in 1..Len(Tail(down[c])) /\ Tail(down[c])[i] = ToolResult(k, ok)
      BY <1>1, <1>4, <2>1
    <2>4. i + 1 \in 1..Len(down[c]) /\ down[c][i + 1] = ToolResult(k, ok)
      BY <2>2, <2>3
    <2> QED
      BY <1>4, <2>4 DEF Answered
  <1> QED
    BY <1>2, <1>3, <1>4

LEMMA ToldAt ==
    ASSUME NEW s \in Seq(DownLine), NEW line \in DownLine, NEW k \in Call, NEW ok \in BOOLEAN,
           NEW i \in 1..Len(s \o <<line>>), (s \o <<line>>)[i] = ToolResult(k, ok)
    PROVE  line = ToolResult(k, ok) \/ \E j \in 1..Len(s) : s[j] = ToolResult(k, ok)
  <1>1. <<line>> \in Seq(DownLine) /\ Len(<<line>>) = 1 /\ <<line>>[1] = line
    OBVIOUS
  <1>2. i \in 1..Len(s) + 1 /\ Len(s) \in Nat
    BY <1>1, ConcatProperties, LenProperties
  <1>3. CASE i = Len(s) + 1
    BY <1>1, <1>2, <1>3, ConcatProperties
  <1>4. CASE i \in 1..Len(s)
    BY <1>1, <1>2, <1>4, ConcatProperties
  <1> QED
    BY <1>2, <1>3, <1>4

\* What the shim is told, one line more on each connection.
LEMMA ToldStays ==
    ASSUME WireTypeOK,
           \A c \in Conn : \/ down'[c] = down[c]
                           \/ \E t \in {"registered", "shutdown", "end"} :
                                down'[c] = down[c] \o <<Line(t)>>
                           \/ down'[c] = (down[c] \o <<Line("shutdown")>>) \o <<Line("end")>>
                           \/ down'[c] = << >>
    PROVE  AnswersStay
  <1> SUFFICES ASSUME NEW k \in Call, NEW c \in Conn, NEW ok \in BOOLEAN, Answered(k, c, ok)'
               PROVE  Answered(k, c, ok)
    BY DEF AnswersStay
  <1>1. PICK i \in 1..Len(down'[c]) : down'[c][i] = ToolResult(k, ok)
    BY DEF Answered
  <1>2. down[c] \in Seq(DownLine)
    BY DEF WireTypeOK
  <1>3. \A t \in {"registered", "shutdown", "end"} :
          /\ Line(t) \in DownLine /\ <<Line(t)>> \in Seq(DownLine)
          /\ Line(t) # ToolResult(k, ok)
    BY LineTypes, LinesDiffer
  <1>4. CASE down'[c] = down[c]
    BY <1>1, <1>4 DEF Answered
  <1>5. ASSUME NEW t \in {"registered", "shutdown", "end"}, down'[c] = down[c] \o <<Line(t)>>
        PROVE  Answered(k, c, ok)
    BY <1>1, <1>2, <1>3, <1>5, ToldAt DEF Answered
  <1>6. CASE down'[c] = (down[c] \o <<Line("shutdown")>>) \o <<Line("end")>>
    <2> DEFINE s == down[c] \o <<Line("shutdown")>>
    <2>1. s \in Seq(DownLine)
      BY <1>2, <1>3, ConcatProperties
    <2>2. PICK j \in 1..Len(s) : s[j] = ToolResult(k, ok)
      BY <1>1, <1>3, <1>6, <2>1, ToldAt
    <2> QED
      BY <1>2, <1>3, <2>2, ToldAt DEF Answered
  <1>7. CASE down'[c] = << >>
    BY <1>1, <1>7
  <1> QED
    BY <1>4, <1>5, <1>6, <1>7

LEMMA SameClientStays == ASSUME UNCHANGED <<life, pending, outcome>> PROVE ClientStays
  BY DEF ClientStays

\* Lines of the shim's own, and the shim's end of a connection.
LEMMA QuietShim ==
    ASSUME TypeOK, LinkInv, UNCHANGED <<executed, routing>>,
           \/ Begin \/ Timer \/ Leave
           \/ \E c \in Conn : \/ Fail(c) \/ Connect(c)
                              \/ Disconnected(c) \/ ReceiveRegistered(c) \/ ReceiveShutdown(c)
           \/ \E k \in Call : CallTimesOut(k)
    PROVE  LinkInv'
  <1>1. WireTypeOK /\ ClientTypeOK /\ OneCopy
    BY DEF TypeOK, LinkInv
  <1>2. CASE Begin \/ \E c \in Conn : Fail(c)
    <2>1. UNCHANGED <<up, down, queue, pending, outcome>> /\ ClientStays
      BY <1>2 DEF Begin, Register, Dial, Fail, DialFails, ClientStays
    <2> QED
      BY <1>1, <2>1, SameUpShrinks, ShrinksStays, SameDownStays, QuietStep
  <1>3. CASE Timer
    <2>1. UNCHANGED <<down, queue, life, pending, outcome>>
      BY <1>3 DEF Timer, TimerFires, Dial
    <2>2. \/ UNCHANGED up
          \/ up' = WrittenUp(current, <<Line("reconnect")>>) /\ current \in Conn
      BY <1>1, <1>3 DEF Timer, TimerFires, Dial, ClientTypeOK
    <2>3. Shrinks
      BY <1>1, <2>1, <2>2, SameUpShrinks, WrittenShrinks
    <2> QED
      BY <1>1, <2>1, <2>3, ShrinksStays, SameDownStays, SameClientStays, QuietStep
  <1>4. ASSUME NEW c \in Conn, Connect(c)
        PROVE  LinkInv'
    <2>1. UNCHANGED <<down, pending, outcome>> /\ ClientStays
      BY <1>4 DEF Connect, Connected, ClientStays
    <2> QED
      BY <1>1, <1>4, <2>1, ConnectStays, SameDownStays, QuietStep
  <1>5. ASSUME NEW c \in Conn, Disconnected(c)
        PROVE  LinkInv'
    <2>1. UNCHANGED <<queue, life, pending, outcome>> /\ up' = WrittenUp(c, <<Line("end")>>)
      BY <1>5 DEF Disconnected
    <2>2. Shrinks
      BY <1>1, <2>1, WrittenShrinks
    <2>3. AnswersStay
      BY <1>1, <1>5, OneDownStays DEF Disconnected
    <2> QED
      BY <1>1, <2>1, <2>2, <2>3, ShrinksStays, SameClientStays, QuietStep
  <1>6. ASSUME NEW c \in Conn, ReceiveRegistered(c) \/ ReceiveShutdown(c)
        PROVE  LinkInv'
    <2>1. UNCHANGED <<up, queue, pending, outcome>> /\ ClientStays
      BY <1>6 DEF ReceiveRegistered, ReceiveShutdown, ClientStays
    <2>2. AnswersStay
      BY <1>1, <1>6, OneDownStays DEF ReceiveRegistered, ReceiveShutdown, NextDown
    <2> QED
      BY <1>1, <2>1, <2>2, SameUpShrinks, ShrinksStays, QuietStep
  <1>7. ASSUME NEW k \in Call, CallTimesOut(k)
        PROVE  LinkInv'
    <2>1. UNCHANGED <<up, down, queue>> /\ ClientStays
      BY <1>1, <1>7 DEF CallTimesOut, Settles, wireVars, ClientStays, ClientTypeOK
    <2> QED
      BY <1>1, <2>1, SameUpShrinks, SameDownStays, ShrinksStays, QuietStep
  <1>8. CASE Close
    <2>1. UNCHANGED queue /\ ClientStays
      BY <1>1, <1>8 DEF Close, ClientStays, ClientTypeOK
    <2>2. CASE current = NoConn
      <3>1. UNCHANGED <<up, down>>
        BY <1>8, <2>2 DEF Close, wireVars
      <3> QED
        BY <1>1, <2>1, <3>1, SameUpShrinks, SameDownStays, ShrinksStays, QuietStep
    <2>3. CASE current # NoConn
      <3>1. current \in Conn
        BY <1>1, <2>3 DEF ClientTypeOK
      <3>2. Shrinks
        BY <1>1, <1>8, <2>3, <3>1, WrittenShrinks DEF Close
      <3>3. AnswersStay
        BY <1>1, <1>8, <2>3, <3>1, OneDownStays DEF Close
      <3> QED
        BY <1>1, <2>1, <3>2, <3>3, ShrinksStays, QuietStep
    <2> QED
      BY <2>2, <2>3
  <1>9. CASE Killed
    <2>1. ClientStays
      BY <1>9 DEF Killed, ClientStays
    <2>2. Shrinks
      BY <1>9, EndsShrink DEF Killed
    <2>3. AnswersStay
      BY <1>1, <1>9, ToldStays DEF Killed
    <2> QED
      BY <1>1, <2>1, <2>2, <2>3, ShrinksStays, QuietStep
  <1> QED
    BY <1>2, <1>3, <1>4, <1>5, <1>6, <1>7, <1>8, <1>9 DEF Leave

LEMMA WrittenDownAt ==
    ASSUME WireTypeOK, NEW c \in Conn, NEW line
    PROVE  \/ WrittenDown(c, <<line>>) = down
           \/ WrittenDown(c, <<line>>) = [down EXCEPT ![c] = down[c] \o <<line>>]
  BY DEF WrittenDown

LEMMA AttachTells ==
    ASSUME TypeOK, NEW c \in Conn, AttachSession(c)
    PROVE  AnswersStay
  <1>1. WireTypeOK
    BY DEF TypeOK
  <1>2. CASE Reply(c, Line("registered"))
    <2>1. \/ down' = down
          \/ down' = [down EXCEPT ![c] = down[c] \o <<Line("registered")>>]
      BY <1>1, <1>2, WrittenDownAt DEF Reply, Write
    <2> QED
      BY <1>1, <2>1, ToldStays DEF WireTypeOK
  <1>3. ASSUME NEW d \in ({holder} \ {c}) \cap conns, WriteAndEnd(c, d)
        PROVE  AnswersStay
    <2>1. d \in Conn /\ d # c
      BY DEF TypeOK, ServerTypeOK
    <2>2. /\ WrittenDown(c, <<Line("registered")>>)[c]
               \in {down[c], down[c] \o <<Line("registered")>>}
          /\ WrittenDown(d, <<Line("end")>>)[d] \in {down[d], down[d] \o <<Line("end")>>}
      BY <1>1, <2>1 DEF WrittenDown, WireTypeOK
    <2>3. /\ down'[c] \in {down[c], down[c] \o <<Line("registered")>>}
          /\ down'[d] \in {down[d], down[d] \o <<Line("end")>>}
          /\ \A x \in Conn \ {c, d} : down'[x] = down[x]
      BY <1>1, <1>3, <2>1, <2>2 DEF WriteAndEnd, WireTypeOK
    <2> QED
      BY <1>1, <2>3, ToldStays
  <1> QED
    BY <1>2, <1>3 DEF AttachSession

LEMMA QuietBroker ==
    ASSUME TypeOK, LinkInv, UNCHANGED <<queue, life, pending, outcome>>,
           \/ \E c \in Conn : Closed(c) \/ ReadIntroduction(c)
           \/ Stop \/ Gone \/ Back \/ Detach
    PROVE  LinkInv'
  <1>1. WireTypeOK /\ OneCopy /\ ClientStays
    BY SameClientStays DEF TypeOK, LinkInv
  <1>2. ASSUME NEW c \in Conn, Closed(c)
        PROVE  LinkInv'
    <2>1. UNCHANGED <<down, executed>> /\ routing' \subseteq routing
      BY <1>2 DEF Closed
    <2>2. Rest(up[c], << >>) /\ up' = [up EXCEPT ![c] = << >>]
      BY <1>1, <1>2, RestOf DEF Closed, WireTypeOK
    <2>3. Shrinks
      BY <1>1, <2>2, OneUpShrinks
    <2> QED
      BY <1>1, <2>1, <2>3, ShrinksStays, SameDownStays, QuietStep
  <1>3. ASSUME NEW c \in Conn, ReadIntroduction(c)
        PROVE  LinkInv'
    <2>1. AttachSession(c) /\ up[c] # << >> /\ UNCHANGED <<routing, executed>>
      BY <1>3 DEF ReadIntroduction, NextUp
    <2>2. Shrinks /\ AnswersStay
      BY <1>1, <2>1, AttachShrinks, AttachTells
    <2> QED
      BY <1>1, <2>1, <2>2, ShrinksStays, QuietStep
  <1>4. CASE Stop
    <2>1. UNCHANGED <<up, routing, executed>>
      BY <1>4 DEF Stop, Shutdown
    <2>2. \A c \in Conn : (down[c] \o <<Line("shutdown")>>) \o <<Line("end")>>
                            = down[c] \o <<Line("shutdown"), Line("end")>>
      <3> DEFINE s == <<Line("shutdown")>>
                 e == <<Line("end")>>
      <3>1. s \in Seq(DownLine) /\ e \in Seq(DownLine)
        BY LineTypes
      <3>2. /\ Len(s \o e) = 2 /\ s \o e \in Seq(DownLine)
            /\ (s \o e)[1] = Line("shutdown") /\ (s \o e)[2] = Line("end")
        BY <3>1, ConcatProperties
      <3>3. <<Line("shutdown"), Line("end")>> \in Seq(DownLine)
        BY LineTypes
      <3>4. s \o e = <<Line("shutdown"), Line("end")>>
        <4>1. \A i \in 1..Len(s \o e) : (s \o e)[i] = <<Line("shutdown"), Line("end")>>[i]
          BY <3>2
        <4> QED
          BY <3>2, <3>3, <4>1, SeqEqual
      <3> QED
        BY <1>1, <3>1, <3>4, ConcatAssociative DEF WireTypeOK
    <2>3. AnswersStay
      BY <1>1, <1>4, <2>2, ToldStays DEF Stop, Shutdown, WrittenDown, WireTypeOK
    <2> QED
      BY <1>1, <2>1, <2>3, SameUpShrinks, ShrinksStays, QuietStep
  <1>5. CASE Gone
    <2>1. Exit /\ routing' \subseteq routing /\ UNCHANGED executed
      BY <1>5 DEF Gone, Exit
    <2>2. Shrinks
      BY <2>1, EndsShrink
    <2>3. AnswersStay
      BY <1>1, <2>1, ToldStays DEF Exit, WrittenDown, WireTypeOK
    <2> QED
      BY <1>1, <2>1, <2>2, <2>3, ShrinksStays, QuietStep
  <1>6. CASE Back \/ Detach
    <2>1. UNCHANGED <<up, down, routing, executed>>
      BY <1>6 DEF Back, Start, Detach, Evict, wireVars
    <2> QED
      BY <1>1, <2>1, SameUpShrinks, SameDownStays, ShrinksStays, QuietStep
  <1> QED
    BY <1>2, <1>3, <1>4, <1>5, <1>6

-----------------------------------------------------------------------------
(* The steps a call takes.                                                   *)

\* The answer to k is written, or lost with the connection.
LEMMA AnswerWritten ==
    ASSUME WireTypeOK, NEW c \in Conn, NEW k \in Call, NEW ok \in BOOLEAN,
           down' = down \/ down' = WrittenDown(c, <<ToolResult(k, ok)>>)
    PROVE  \A x \in Call, d \in Conn, b \in BOOLEAN :
             Answered(x, d, b)' => Answered(x, d, b) \/ (x = k /\ b = ok)
  <1> SUFFICES ASSUME NEW x \in Call, NEW d \in Conn, NEW b \in BOOLEAN, Answered(x, d, b)',
                      ~(x = k /\ b = ok)
               PROVE  Answered(x, d, b)
    OBVIOUS
  <1>1. PICK i \in 1..Len(down'[d]) : down'[d][i] = ToolResult(x, b)
    BY DEF Answered
  <1>2. down'[d] = down[d] \/ (d = c /\ down'[c] = down[c] \o <<ToolResult(k, ok)>>)
    <2>1. \/ down' = down
          \/ down' = [down EXCEPT ![c] = down[c] \o <<ToolResult(k, ok)>>]
      BY WrittenDownAt
    <2> QED
      BY <2>1 DEF WireTypeOK
  <1>3. CASE down'[d] = down[d]
    BY <1>1, <1>3 DEF Answered
  <1>4. CASE d = c /\ down'[c] = down[c] \o <<ToolResult(k, ok)>>
    <2>1. down[c] \in Seq(DownLine) /\ ToolResult(k, ok) \in DownLine
      BY LineTypes DEF WireTypeOK
    <2>2. ToolResult(k, ok) # ToolResult(x, b)
      BY LinesDiffer
    <2> QED
      BY <1>1, <1>4, <2>1, <2>2, ToldAt DEF Answered
  <1> QED
    BY <1>2, <1>3, <1>4

LEMMA FirstCarried ==
    ASSUME WireTypeOK, NEW c \in Conn, NextUp(c, "toolCall")
    PROVE  /\ Head(up[c]).id \in Call /\ Carried(Head(up[c]).id, c, 1)
           /\ up[c] # << >>
  <1>1. /\ up[c] \in Seq(UpLine) /\ up[c] # << >> /\ Head(up[c]) = up[c][1]
        /\ Head(up[c]) \in UpLine /\ Head(up[c]).type = "toolCall"
    BY NextUpType DEF NextUp
  <1>2. PICK k \in Call : Head(up[c]) = ToolCall(k)
    BY <1>1 DEF UpLine, Line
  <1>3. Head(up[c]).id = k
    BY <1>2 DEF ToolCall
  <1>4. 1 \in 1..Len(up[c])
    BY <1>1, LenProperties, EmptySeq
  <1> QED
    BY <1>1, <1>2, <1>3, <1>4 DEF Carried, IsCall

\* The line read is gone, and with it the only copy of the call.
LEMMA CallRead ==
    ASSUME WireTypeOK, OneCopy, NEW c \in Conn, NEW k \in Call, Carried(k, c, 1), up[c] # << >>,
           UNCHANGED queue, NEW t \in Left(up[c]), up' = [up EXCEPT ![c] = t]
    PROVE  CallsStay /\ Nowhere(k)'
  <1>2. CallsStay
    BY LeftShrinks, ShrinksStays
  <1>3. \A i \in Nat : ~Queued(k, i)'
    BY DEF OneCopy, Queued
  <1>4. \A d \in Conn \ {c}, i \in Nat : ~Carried(k, d, i)'
    BY DEF OneCopy, Carried, WireTypeOK
  <1>5. ASSUME NEW i \in Nat, Carried(k, c, i)'
        PROVE  FALSE
    <2>1. up'[c] = t /\ up[c] \in Seq(UpLine)
      BY DEF WireTypeOK
    <2>2. i \in 1..Len(t) /\ t[i] = ToolCall(k)
      BY <1>5, <2>1 DEF Carried, IsCall
    <2>3. i + 1 \in 1..Len(up[c]) /\ up[c][i + 1] = ToolCall(k)
      BY <2>1, <2>2, LeftOf
    <2>4. Carried(k, c, i + 1)
      BY <2>3 DEF Carried, IsCall
    <2>5. i + 1 = 1 /\ i \in Nat \ {0}
      BY <2>2, <2>4 DEF OneCopy
    <2> QED
      BY <2>5
  <1> QED
    BY <1>2, <1>3, <1>4, <1>5 DEF Nowhere

LEMMA ReadToolCallLink ==
    ASSUME TypeOK, LinkInv, NEW c \in Conn, ReadToolCall(c), UNCHANGED clientVars
    PROVE  LinkInv'
  <1>0. PICK k \in Call : k = Head(up[c]).id
    BY FirstCarried DEF ReadToolCall, TypeOK
  <1>1. /\ Carried(k, c, 1) /\ up[c] # << >> /\ ~Nowhere(k)
        /\ WireTypeOK /\ OneCopy
    BY <1>0, FirstCarried DEF ReadToolCall, TypeOK, LinkInv, Nowhere
  <1>2. UNCHANGED <<life, queue, pending, outcome>>
    BY DEF clientVars
  <1>3. CASE c \in bound
    <2>1. /\ routing' = routing \cup {<<c, k>>}
          /\ executed' = [executed EXCEPT ![k] = @ + 1]
          /\ up' = [up EXCEPT ![c] = Tail(up[c])]
          /\ UNCHANGED down
      BY <1>0, <1>3 DEF ReadToolCall
    <2>2. CallsStay /\ Nowhere(k)' /\ AnswersStay
      <3>1. Tail(up[c]) \in Left(up[c])
        BY DEF Left
      <3> QED
        BY <1>1, <1>2, <2>1, <3>1, CallRead, SameDownStays
    <2>3. /\ executed[k] = 0 /\ executed'[k] = 1 /\ ~Refused(k) /\ ~Unmade(k)
          /\ outcome[k] \notin {"refused", "overflow"}
      <3>1. executed[k] = 0 /\ ~Refused(k)
        BY <1>1 DEF LinkInv, FateAtBroker, Spent
      <3>2. ~Unmade(k) /\ outcome[k] \notin {"refused", "overflow"}
        BY <1>1 DEF LinkInv, FateAtShim, Spent
      <3>3. executed'[k] = 1
        BY <2>1, <3>1 DEF TypeOK, ServerTypeOK
      <3> QED
        BY <3>1, <3>2, <3>3
    <2>4. FateAtBroker(k)' /\ FateAtShim(k)'
      BY <1>1, <1>2, <2>2, <2>3
         DEF LinkInv, FateAtBroker, FateAtShim, Unmade, Refused, AnswersStay
    <2>5. ASSUME NEW x \in Call, x # k
          PROVE  FateAtBroker(x)' /\ FateAtShim(x)'
      <3>1. /\ FateAtBroker(x) /\ FateAtShim(x) /\ executed'[x] = executed[x]
            /\ \A d \in Conn : <<d, x>> \in routing' => <<d, x>> \in routing
        BY <1>1, <2>1, <2>5 DEF LinkInv, TypeOK, ServerTypeOK
      <3>2. /\ Spent(x) => Spent(x)'
            /\ Nowhere(x) => Nowhere(x)'
            /\ Refused(x)' => Refused(x)
            /\ \A d \in Conn : Answered(x, d, TRUE)' => Answered(x, d, TRUE)
        BY <2>2, <3>1 DEF CallsStay, AnswersStay, Spent, Refused
      <3> QED
        BY <1>2, <3>1, <3>2 DEF FateAtBroker, FateAtShim, Unmade
    <2> QED
      BY <2>2, <2>4, <2>5 DEF LinkInv, CallsStay
  <1>4. CASE c \notin bound
    <2>1. /\ Reply(c, ToolResult(k, FALSE))
          /\ UNCHANGED <<routing, executed>>
      BY <1>0, <1>4 DEF ReadToolCall
    <2>2. PICK t \in Left(up[c]) : up' = [up EXCEPT ![c] = t]
      BY <1>1, <2>1, ReplyLeaves
    <2>3. CallsStay /\ Nowhere(k)'
      BY <1>1, <1>2, <2>2, CallRead
    <2>4. \A x \in Call, d \in Conn, b \in BOOLEAN :
            Answered(x, d, b)' => Answered(x, d, b) \/ (x = k /\ b = FALSE)
      <3>1. down' = down \/ down' = WrittenDown(c, <<ToolResult(k, FALSE)>>)
        BY <2>1 DEF Reply, Write
      <3> QED
        BY <1>1, <3>1, AnswerWritten
    <2>5. executed'[k] = 0 /\ Spent(k)' /\ ~Unmade(k)
      BY <1>1, <2>1, <2>3 DEF LinkInv, FateAtBroker, FateAtShim, Spent
    <2>6. ASSUME NEW x \in Call
          PROVE  FateAtBroker(x)' /\ FateAtShim(x)'
      <3>1. /\ FateAtBroker(x) /\ FateAtShim(x) /\ executed'[x] = executed[x]
            /\ routing' = routing
        BY <2>1 DEF LinkInv
      <3>2. /\ Spent(x) => Spent(x)'
            /\ Nowhere(x) => Nowhere(x)'
            /\ Refused(x)' => Refused(x) \/ x = k
            /\ \A d \in Conn : Answered(x, d, TRUE)' => Answered(x, d, TRUE)
        BY <2>3, <2>4, <3>1 DEF CallsStay, Spent, Refused
      <3>3. FateAtBroker(x)'
        BY <2>5, <3>1, <3>2 DEF FateAtBroker
      <3>4. Unmade(x)' => Unmade(x) /\ x # k
        BY <1>2, <2>5 DEF Unmade
      <3>5. FateAtShim(x)'
        BY <1>2, <3>1, <3>2, <3>4 DEF FateAtShim
      <3> QED
        BY <3>3, <3>5
    <2> QED
      BY <2>3, <2>6 DEF LinkInv, CallsStay
  <1> QED
    BY <1>3, <1>4

LEMMA AnswerLink ==
    ASSUME TypeOK, LinkInv, NEW c \in Conn, NEW k \in Call, Answer(c, k), UNCHANGED clientVars
    PROVE  LinkInv'
  <1>1. WireTypeOK /\ OneCopy /\ UNCHANGED <<life, queue, pending, outcome, executed>>
    BY DEF Answer, TypeOK, LinkInv, clientVars
  <1>2. CallsStay
    BY <1>1, AnswerShrinks, ShrinksStays
  <1>3. \A x \in Call, d \in Conn, b \in BOOLEAN :
          Answered(x, d, b)' => Answered(x, d, b) \/ (x = k /\ b = TRUE)
    <2>1. down' = down \/ down' = WrittenDown(c, <<ToolResult(k, TRUE)>>)
      BY DEF Answer, Write
    <2> QED
      BY <1>1, <2>1, AnswerWritten
  <1>4. executed[k] = 1
    BY DEF Answer, LinkInv, FateAtBroker
  <1>5. ASSUME NEW x \in Call
        PROVE  FateAtBroker(x)' /\ FateAtShim(x)'
    <2>1. /\ FateAtBroker(x) /\ FateAtShim(x)
          /\ \A d \in Conn : <<d, x>> \in routing' => <<d, x>> \in routing
      BY DEF LinkInv, Answer
    <2>2. /\ Spent(x) => Spent(x)'
          /\ Nowhere(x) => Nowhere(x)'
          /\ Refused(x)' => Refused(x)
          /\ \A d \in Conn : Answered(x, d, TRUE)' => Answered(x, d, TRUE) \/ x = k
      BY <1>1, <1>2, <1>3 DEF CallsStay, Spent, Refused
    <2> QED
      BY <1>1, <1>4, <2>1, <2>2 DEF FateAtBroker, FateAtShim, Unmade
  <1> QED
    BY <1>2, <1>5 DEF LinkInv, CallsStay

LEMMA ResultLink ==
    ASSUME TypeOK, LinkInv, NEW c \in Conn, ReceiveResult(c), UNCHANGED serverVars
    PROVE  LinkInv'
  <1>1. /\ WireTypeOK /\ OneCopy
        /\ UNCHANGED <<up, queue, life, executed, routing>>
    BY DEF ReceiveResult, TypeOK, LinkInv, serverVars
  <1>2. CallsStay
    BY <1>1, SameUpShrinks, ShrinksStays
  <1>3. AnswersStay
    BY <1>1, OneDownStays DEF ReceiveResult, NextDown
  <1>4. CASE UNCHANGED <<pending, outcome>>
    BY <1>1, <1>2, <1>3, <1>4, SameClientStays, QuietStep
  <1>5. CASE Head(down[c]).id \in pending
    <2>1. /\ down[c] \in Seq(DownLine) /\ down[c] # << >> /\ Head(down[c]) = down[c][1]
          /\ Head(down[c]) \in DownLine /\ Head(down[c]).type = "toolResult"
      BY <1>1, NextDownType DEF ReceiveResult, NextDown
    <2>2. PICK k \in Call, ok \in BOOLEAN : Head(down[c]) = ToolResult(k, ok)
      BY <2>1 DEF DownLine, Line
    <2>3. Head(down[c]).id = k /\ Head(down[c]).ok = ok
      BY <2>2 DEF ToolResult
    <2>4. Answered(k, c, ok)
      BY <2>1, <2>2, LenProperties, EmptySeq DEF Answered
    <2>5. /\ k \in pending /\ pending' = pending \ {k}
          /\ outcome' = [outcome EXCEPT ![k] = IF ok THEN "result" ELSE "refused"]
      BY <1>5, <2>3 DEF ReceiveResult, Settles
    <2>6. IF ok THEN executed[k] = 1 ELSE Spent(k)
      BY <2>4 DEF LinkInv, FateAtBroker, Refused
    <2>7. ASSUME NEW x \in Call
          PROVE  FateAtBroker(x)' /\ FateAtShim(x)'
      <3>1. /\ Spent(x) => Spent(x)'
            /\ Nowhere(x) => Nowhere(x)'
            /\ Refused(x)' => Refused(x)
            /\ \A d \in Conn : Answered(x, d, TRUE)' => Answered(x, d, TRUE)
        BY <1>1, <1>2, <1>3 DEF CallsStay, AnswersStay, Spent, Refused
      <3>2. FateAtBroker(x)'
        BY <1>1, <3>1 DEF LinkInv, FateAtBroker
      <3>3. CASE x = k
        <4>1. outcome'[k] = (IF ok THEN "result" ELSE "refused") /\ k \notin pending'
          BY <2>5 DEF TypeOK, ClientTypeOK
        <4> QED
          BY <1>1, <2>6, <3>1, <3>2, <3>3, <4>1 DEF FateAtShim, Unmade
      <3>4. CASE x # k
        <4>1. outcome'[x] = outcome[x] /\ (x \in pending' <=> x \in pending)
          BY <2>5, <3>4 DEF TypeOK, ClientTypeOK
        <4> QED
          BY <1>1, <3>1, <3>2, <4>1 DEF LinkInv, FateAtShim, Unmade
      <3> QED
        BY <3>2, <3>3, <3>4
    <2> QED
      BY <1>2, <2>7 DEF LinkInv, CallsStay
  <1> QED
    BY <1>4, <1>5 DEF ReceiveResult

\* A call is made for the first time: it is nowhere yet.
LEMMA CallMade ==
    ASSUME TypeOK, LinkInv, NEW k \in Call, CallTool(k)
    PROVE  /\ Unmade(k) /\ Spent(k) /\ ~Refused(k) /\ Nowhere(k)
           /\ \A c \in Conn : <<c, k>> \notin routing /\ ~Answered(k, c, TRUE)
  <1>1. Unmade(k) /\ FateAtBroker(k) /\ FateAtShim(k)
    BY DEF CallTool, Unmade, LinkInv
  <1>2. Spent(k) /\ ~Refused(k) /\ Nowhere(k) /\ executed[k] # 1
    BY <1>1 DEF FateAtShim, Spent
  <1>3. \A c \in Conn : <<c, k>> \notin routing /\ ~Answered(k, c, TRUE)
    BY <1>1, <1>2 DEF FateAtBroker
  <1> QED
    BY <1>1, <1>2, <1>3

\* What every call looks like once k has been made and `dropped` has not.
LEMMA CallMadeFates ==
    ASSUME TypeOK, LinkInv, NEW k \in Call, CallTool(k), UNCHANGED serverVars, NEW dropped,
           \A x \in Call \ {k} : Nowhere(x) => Nowhere(x)',
           \A x \in dropped : x \in Call /\ Nowhere(x)' /\ executed[x] = 0,
           pending' = (pending \cup {k}) \ dropped,
           outcome' = [x \in Call |-> IF x \in dropped THEN "overflow" ELSE outcome[x]]
    PROVE  \A x \in Call : FateAtBroker(x)' /\ FateAtShim(x)'
  <1>1. UNCHANGED <<down, life, executed, routing>>
    BY DEF CallTool, serverVars
  <1>2. \A x \in Call : /\ Refused(x)' <=> Refused(x)
                        /\ \A c \in Conn : Answered(x, c, TRUE)' <=> Answered(x, c, TRUE)
    BY <1>1 DEF Refused, Answered
  <1>3. ASSUME NEW x \in Call, x # k
        PROVE  FateAtBroker(x)' /\ FateAtShim(x)'
    <2>1. /\ FateAtBroker(x) /\ FateAtShim(x)
          /\ Nowhere(x) => Nowhere(x)'
          /\ Spent(x) => Spent(x)'
      BY <1>1, <1>3 DEF LinkInv, Spent
    <2>2. FateAtBroker(x)'
      BY <1>1, <1>2, <2>1 DEF FateAtBroker
    <2>3. CASE x \in dropped
      <3>1. outcome'[x] = "overflow" /\ x \notin pending' /\ Spent(x)'
        BY <1>1, <2>3 DEF Spent
      <3> QED
        BY <2>2, <3>1 DEF FateAtShim, Unmade
    <2>4. CASE x \notin dropped
      <3>1. outcome'[x] = outcome[x] /\ (x \in pending' <=> x \in pending)
        BY <1>3, <2>4
      <3> QED
        BY <1>1, <1>2, <2>1, <2>2, <3>1 DEF FateAtShim, Unmade
    <2> QED
      BY <2>3, <2>4
  <1>4. FateAtBroker(k)' /\ FateAtShim(k)'
    <2>1. /\ executed[k] = 0 /\ outcome[k] = "none" /\ ~Refused(k)
          /\ \A c \in Conn : <<c, k>> \notin routing /\ ~Answered(k, c, TRUE)
      BY CallMade DEF Spent, Unmade
    <2>2. FateAtBroker(k)'
      <3>1. executed'[k] \in {0, 1} /\ executed'[k] # 1
        BY <1>1, <2>1
      <3>2. ~Refused(k)' /\ \A c \in Conn : ~Answered(k, c, TRUE)'
        BY <1>2, <2>1
      <3>3. \A c \in Conn : <<c, k>> \notin routing'
        BY <1>1, <2>1
      <3> QED
        BY <3>1, <3>2, <3>3 DEF FateAtBroker
    <2>3. CASE k \in dropped
      <3>1. outcome'[k] = "overflow" /\ k \notin pending' /\ Spent(k)'
        BY <1>1, <2>3 DEF Spent
      <3> QED
        BY <2>2, <3>1 DEF FateAtShim, Unmade
    <2>4. CASE k \notin dropped
      <3>1. outcome'[k] = "none" /\ k \in pending'
        BY <2>1, <2>4
      <3> QED
        BY <2>2, <3>1 DEF FateAtShim, Unmade
    <2> QED
      BY <2>3, <2>4
  <1> QED
    BY <1>3, <1>4

LEMMA CallWrittenLink ==
    ASSUME TypeOK, LinkInv, NEW k \in Call, CallTool(k), current # NoConn, UNCHANGED serverVars
    PROVE  LinkInv'
  <1>1. /\ current \in Conn /\ WireTypeOK /\ OneCopy /\ Nowhere(k)
        /\ UNCHANGED queue /\ pending' = pending \cup {k} /\ UNCHANGED outcome
    BY CallMade DEF CallTool, TypeOK, ClientTypeOK, LinkInv
  <1> DEFINE n == Len(up[current]) + 1
  <1>2. \A x \in Call, c \in Conn, i \in Nat :
          Carried(x, c, i)' => Carried(x, c, i) \/ (x = k /\ c = current /\ i = n)
    <2> SUFFICES ASSUME NEW x \in Call, NEW c \in Conn, NEW i \in Nat, Carried(x, c, i)',
                        ~Carried(x, c, i)
                 PROVE  x = k /\ c = current /\ i = n
      OBVIOUS
    <2>1. up' = WrittenUp(current, <<ToolCall(k)>>)
      BY DEF CallTool
    <2>2. c = current /\ up'[current] = up[current] \o <<ToolCall(k)>>
      BY <1>1, <2>1 DEF WrittenUp, Carried, WireTypeOK
    <2>3. /\ up[current] \in Seq(UpLine) /\ Len(up[current]) \in Nat
          /\ <<ToolCall(k)>> \in Seq(UpLine)
          /\ Len(<<ToolCall(k)>>) = 1 /\ <<ToolCall(k)>>[1] = ToolCall(k)
      BY <1>1, LineTypes, LenProperties DEF WireTypeOK
    <2>4. i \in 1..n /\ (up[current] \o <<ToolCall(k)>>)[i] = ToolCall(x)
      BY <2>2, <2>3, ConcatProperties DEF Carried, IsCall
    <2>5. i \notin 1..Len(up[current])
      <3> SUFFICES ASSUME i \in 1..Len(up[current]) PROVE FALSE
        OBVIOUS
      <3>1. (up[current] \o <<ToolCall(k)>>)[i] = up[current][i]
        BY <2>3, ConcatProperties
      <3> QED
        BY <2>2, <2>4, <3>1 DEF Carried, IsCall
    <2>6. i = n
      BY <2>3, <2>4, <2>5
    <2>7. (up[current] \o <<ToolCall(k)>>)[i] = ToolCall(k)
      BY <2>3, <2>6, ConcatProperties
    <2> QED
      BY <2>2, <2>4, <2>6, <2>7, LinesDiffer
  <1> HIDE DEF n
  <1>3. PICK p \in Conn : p = current
    BY <1>1
  <1>4. PICK m : m = n
    OBVIOUS
  <1>5. \A x \in Call, c \in Conn, i \in Nat :
          Carried(x, c, i)' => Carried(x, c, i) \/ (x = k /\ c = p /\ i = m)
    BY <1>2, <1>3, <1>4
  <1>6. \A x \in Call, i \in Nat : Queued(x, i)' => Queued(x, i)
    BY <1>1 DEF Queued
  <1>7. OneCopy'
    BY <1>1, <1>5, <1>6 DEF OneCopy, Nowhere
  <1>8. \A x \in Call \ {k} : Nowhere(x) => Nowhere(x)'
    BY <1>5, <1>6 DEF Nowhere
  <1>9. PICK none : none = {}
    OBVIOUS
  <1>10. /\ pending' = (pending \cup {k}) \ none
         /\ outcome' = [x \in Call |-> IF x \in none THEN "overflow" ELSE outcome[x]]
         /\ \A x \in none : x \in Call /\ Nowhere(x)' /\ executed[x] = 0
    BY <1>1, <1>9 DEF TypeOK, ClientTypeOK
  <1>11. \A x \in Call : FateAtBroker(x)' /\ FateAtShim(x)'
    BY <1>8, <1>10, CallMadeFates
  <1> QED
    BY <1>7, <1>11 DEF LinkInv

LEMMA CallQueuedLink ==
    ASSUME TypeOK, LinkInv, NEW k \in Call, CallTool(k), current = NoConn, UNCHANGED serverVars
    PROVE  LinkInv'
  <1> DEFINE full == Append(queue, k)
  <1>1. PICK q \in Seq(Call) : q = full
    BY AppendProperties DEF TypeOK, ClientTypeOK
  <1>2. PICK z \in {0, 1} : z = IF Len(q) > QueueLimit THEN 1 ELSE 0
    OBVIOUS
  <1>3. PICK dropped : dropped = (IF z = 1 THEN {Head(q)} ELSE {}) \cap (pending \cup {k})
    OBVIOUS
  <1>4. PICK n \in Nat : n = Len(queue)
    BY DEF TypeOK, ClientTypeOK
  <1>5. /\ queue' = IF z = 1 THEN Tail(q) ELSE q
        /\ pending' = (pending \cup {k}) \ dropped
        /\ outcome' = [x \in Call |-> IF x \in dropped THEN "overflow" ELSE outcome[x]]
        /\ UNCHANGED up
    BY <1>1, <1>2, <1>3 DEF CallTool, Enqueue
  <1>6. /\ Len(q) = n + 1 /\ q # << >> /\ q[n + 1] = k
        /\ \A i \in 1..n : q[i] = queue[i]
        /\ Head(q) = q[1] /\ Head(q) \in Call
        /\ Len(Tail(q)) = n /\ \A i \in 1..n : Tail(q)[i] = q[i + 1]
    <2>1. /\ queue \in Seq(Call) /\ Len(q) = n + 1 /\ q # << >> /\ q[n + 1] = k
          /\ \A i \in 1..n : q[i] = queue[i]
      BY <1>1, <1>4, AppendProperties DEF TypeOK, ClientTypeOK
    <2> QED
      BY <2>1, HeadTailProperties
  <1>7. \A x \in Call, i \in Nat : i \in 1..n + 1 /\ q[i] = x =>
          Queued(x, i) \/ (x = k /\ i = n + 1)
    BY <1>4, <1>6 DEF Queued
  <1>8. \A x \in Call, i \in Nat : Queued(x, i)' =>
          /\ i + z \in 1..n + 1 /\ q[i + z] = x
          /\ Queued(x, i + z) \/ (x = k /\ i + z = n + 1)
    <2>1. \A x \in Call, i \in Nat : Queued(x, i)' => i + z \in 1..n + 1 /\ q[i + z] = x
      BY <1>5, <1>6 DEF Queued
    <2> QED
      BY <1>7, <2>1
  <1>9. \A x \in Call, c \in Conn, i \in Nat : Carried(x, c, i)' <=> Carried(x, c, i)
    BY <1>5 DEF Carried
  <1>10. OneCopy /\ Nowhere(k) /\ executed[k] = 0
    BY CallMade DEF LinkInv, Spent
  <1>11. OneCopy'
    <2>1. \A x \in Call, i, j \in Nat : Queued(x, i)' /\ Queued(x, j)' => i + z = j + z
      BY <1>8, <1>10 DEF OneCopy, Nowhere
    <2>2. \A x \in Call, i, j \in Nat : Queued(x, i)' /\ Queued(x, j)' => i = j
      BY <2>1
    <2>3. \A x \in Call, c \in Conn, i, j \in Nat : ~(Queued(x, i)' /\ Carried(x, c, j)')
      BY <1>8, <1>9, <1>10 DEF OneCopy, Nowhere
    <2> QED
      BY <1>9, <1>10, <2>2, <2>3 DEF OneCopy
  <1>12. \A x \in Call \ {k} : Nowhere(x) => Nowhere(x)'
    BY <1>8, <1>9 DEF Nowhere
  <1>13. ASSUME NEW x \in dropped
         PROVE  x \in Call /\ Nowhere(x)' /\ executed[x] = 0
    <2>1. x = q[1] /\ x \in Call /\ z = 1
      BY <1>3, <1>6
    <2>2. \A i \in Nat : ~Queued(x, i)'
      <3> SUFFICES ASSUME NEW i \in Nat, Queued(x, i)'
                   PROVE  FALSE
        OBVIOUS
      <3>1. i + 1 \in 1..n + 1 /\ (Queued(x, i + 1) \/ (x = k /\ i + 1 = n + 1)) /\ i > 0
        BY <1>8, <2>1 DEF Queued
      <3>2. Queued(x, 1)
        BY <1>7, <2>1, <3>1
      <3> QED
        BY <1>10, <2>1, <3>1, <3>2 DEF OneCopy, Nowhere
    <2>3. Queued(x, 1) \/ x = k
      BY <1>6, <1>7, <2>1
    <2>4. executed[x] = 0 /\ \A c \in Conn, i \in Nat : ~Carried(x, c, i)
      <3>1. CASE Queued(x, 1)
        <4>1. ~Nowhere(x)
          BY <3>1 DEF Nowhere
        <4>2. executed[x] = 0
          BY <2>1, <4>1 DEF LinkInv, FateAtBroker
        <4> QED
          BY <1>10, <2>1, <3>1, <4>2 DEF OneCopy
      <3>2. CASE x = k
        BY <1>10, <3>2 DEF Nowhere
      <3> QED
        BY <2>3, <3>1, <3>2
    <2> QED
      BY <1>9, <2>1, <2>2, <2>4 DEF Nowhere
  <1>14. \A x \in Call : FateAtBroker(x)' /\ FateAtShim(x)'
    BY <1>5, <1>12, <1>13, CallMadeFates
  <1> QED
    BY <1>11, <1>14 DEF LinkInv

LEMMA NextLink ==
    ASSUME TypeOK, LinkInv, [Next]_vars
    PROVE  LinkInv'
  <1>1. CASE Begin \/ Timer \/ Leave
    <2>1. UNCHANGED <<executed, routing>>
      BY <1>1 DEF Begin, Timer, Leave, serverVars
    <2> QED
      BY <1>1, <2>1, QuietShim
  <1>2. ASSUME NEW c \in Conn, Connect(c) \/ Fail(c)
        PROVE  LinkInv'
    <2>1. UNCHANGED <<executed, routing>>
      BY <1>2 DEF Connect, Accept, Fail, serverVars
    <2> QED
      BY <1>2, <2>1, QuietShim
  <1>3. ASSUME NEW c \in Conn, Hear(c)
        PROVE  LinkInv'
    <2>1. UNCHANGED serverVars /\ UNCHANGED <<executed, routing>> /\ Receive(c)
      BY <1>3 DEF Hear, serverVars
    <2> QED
      BY <2>1, ResultLink, QuietShim DEF Receive
  <1>4. CASE Use
    <2>1. UNCHANGED serverVars /\ UNCHANGED <<executed, routing>>
      BY <1>4 DEF Use, serverVars
    <2>2. PICK k \in Call : CallTool(k) \/ CallTimesOut(k)
      BY <1>4 DEF Use, UseTools
    <2> QED
      BY <2>1, <2>2, CallWrittenLink, CallQueuedLink, QuietShim
  <1>5. ASSUME NEW c \in Conn, Serve(c)
        PROVE  LinkInv'
    <2>1. UNCHANGED clientVars /\ UNCHANGED <<queue, life, pending, outcome>>
      BY <1>5 DEF Serve, clientVars
    <2> QED
      BY <1>5, <2>1, QuietBroker, ReadToolCallLink, AnswerLink DEF Serve, ReadLine, Route
  <1>6. CASE Stop \/ Gone \/ Back \/ Detach
    <2>1. UNCHANGED <<queue, life, pending, outcome>>
      BY <1>6 DEF Stop, Gone, Back, Detach, clientVars
    <2> QED
      BY <1>6, <2>1, QuietBroker
  <1>7. CASE UNCHANGED vars
    <2>1. UNCHANGED <<up, down, queue, life, pending, outcome, executed, routing>>
      BY <1>7 DEF vars, wireVars, clientVars, serverVars
    <2> QED
      BY <2>1, SameUpShrinks, ShrinksStays, SameDownStays, SameClientStays, QuietStep
         DEF TypeOK, LinkInv
  <1> QED
    BY <1>1, <1>2, <1>3, <1>4, <1>5, <1>6, <1>7 DEF Next

LEMMA InitLink == Init => LinkInv
  <1> SUFFICES ASSUME Init PROVE LinkInv
    OBVIOUS
  <1>1. /\ queue = << >> /\ \A c \in Conn : up[c] = << >> /\ down[c] = << >>
        /\ routing = {} /\ pending = {} /\ life = "new"
        /\ \A k \in Call : executed[k] = 0 /\ outcome[k] = "none"
    BY DEF Init, WireInit, ClientInit, ServerInit
  <1>2. \A k \in Call : /\ \A i \in Nat : ~Queued(k, i)
                        /\ \A c \in Conn, i \in Nat : ~Carried(k, c, i)
                        /\ \A c \in Conn, ok \in BOOLEAN : ~Answered(k, c, ok)
    BY <1>1 DEF Queued, Carried, IsCall, Answered
  <1>3. OneCopy
    BY <1>2 DEF OneCopy
  <1>4. ASSUME NEW k \in Call
        PROVE  FateAtBroker(k) /\ FateAtShim(k)
    <2>1. Spent(k) /\ ~Refused(k)
      BY <1>1, <1>2 DEF Spent, Nowhere, Refused
    <2>2. executed[k] \in {0, 1} /\ executed[k] # 1
      BY <1>1
    <2>3. FateAtBroker(k)
      BY <1>1, <1>2, <2>1, <2>2 DEF FateAtBroker
    <2>4. FateAtShim(k)
      BY <1>1, <2>1 DEF FateAtShim
    <2> QED
      BY <2>3, <2>4
  <1> QED
    BY <1>3, <1>4 DEF LinkInv

(* The router is given a tool call at most once, whatever the connections it  *)
(* was queued for, written to or lost with.                                   *)
THEOREM CallsRunOnce == Spec => []ExecutedAtMostOnce
  <1>1. LinkInv => ExecutedAtMostOnce
    <2> SUFFICES ASSUME LinkInv, NEW k \in Call
                 PROVE  executed[k] <= 1
      BY DEF ExecutedAtMostOnce
    <2>1. executed[k] \in {0, 1}
      BY DEF LinkInv, FateAtBroker
    <2> QED
      BY <2>1
  <1> QED
    BY InitType, NextType, InitLink, NextLink, <1>1, PTL DEF Spec

(* A tool call that was answered was run, and one that was refused or pushed  *)
(* out of the queue was not, and never is afterwards.                         *)
THEOREM OutcomesAreTrue == Spec => []OutcomeIsTrue
  <1>1. LinkInv => OutcomeIsTrue
    BY DEF LinkInv, FateAtShim, Spent, OutcomeIsTrue
  <1> QED
    BY InitType, NextType, InitLink, NextLink, <1>1, PTL DEF Spec

-----------------------------------------------------------------------------
(* The link as RemoteCall sees it.                                           *)

\* No call is made before the session is registered.
NoneBeforeRegistered == life \in {"new", "dialing"} => pending = {}

LEMMA NextNone ==
    ASSUME NoneBeforeRegistered, [Next]_vars
    PROVE  NoneBeforeRegistered'
  <1>1. CASE Begin \/ Timer
    BY <1>1 DEF Begin, Register, Timer, TimerFires, NoneBeforeRegistered
  <1>2. CASE Use
    BY <1>2 DEF Use, UseTools, CallTool, CallTimesOut, Settles, NoneBeforeRegistered
  <1>3. CASE Leave
    BY <1>3 DEF Leave, Close, Killed, NoneBeforeRegistered
  <1>4. ASSUME NEW c \in Conn, Connect(c) \/ Fail(c)
        PROVE  NoneBeforeRegistered'
    BY <1>4 DEF Connect, Connected, Fail, DialFails, NoneBeforeRegistered
  <1>5. ASSUME NEW c \in Conn, Hear(c)
        PROVE  NoneBeforeRegistered'
    <2>1. CASE ReceiveResult(c)
      BY <2>1 DEF ReceiveResult, Settles, NoneBeforeRegistered
    <2>2. CASE ReceiveRegistered(c) \/ ReceiveShutdown(c) \/ Disconnected(c)
      BY <2>2 DEF ReceiveRegistered, ReceiveShutdown, Disconnected, NoneBeforeRegistered
    <2> QED
      BY <1>5, <2>1, <2>2 DEF Hear, Receive
  <1>6. ASSUME NEW c \in Conn, Serve(c)
        PROVE  NoneBeforeRegistered'
    BY <1>6 DEF Serve, clientVars, NoneBeforeRegistered
  <1>7. CASE Detach \/ Stop \/ Gone \/ Back \/ UNCHANGED vars
    BY <1>7 DEF Detach, Stop, Gone, Back, vars, clientVars, NoneBeforeRegistered
  <1> QED
    BY <1>1, <1>2, <1>3, <1>4, <1>5, <1>6, <1>7 DEF Next

PromiseMoves == Calls!Next \/ UNCHANGED <<life = "closed", pending, executed, outcome>>

LEMMA PromiseQuiet ==
    ASSUME UNCHANGED <<pending, executed, outcome>>, life' = "closed" <=> life = "closed"
    PROVE  PromiseMoves
  BY DEF PromiseMoves

\* The room made in a full queue is taken from calls that were not run.
LEMMA PromiseAsk ==
    ASSUME TypeOK, LinkInv, LinkInv', NEW k \in Call, CallTool(k), UNCHANGED serverVars
    PROVE  PromiseMoves
  <1>1. /\ life = "running" /\ life' = "running" /\ UNCHANGED executed
        /\ k \notin pending /\ outcome[k] = "none"
    BY DEF CallTool, serverVars
  <1>2. PICK dropped \in SUBSET (pending \cup {k}) :
          /\ pending' = (pending \cup {k}) \ dropped
          /\ outcome' = [x \in Call |-> IF x \in dropped THEN "overflow" ELSE outcome[x]]
    <2>1. CASE current = NoConn
      <3> DEFINE full == Append(queue, k)
      <3>1. PICK out : out = (IF Len(full) > QueueLimit THEN {Head(full)} ELSE {})
                                \cap (pending \cup {k})
        OBVIOUS
      <3>2. /\ out \in SUBSET (pending \cup {k})
            /\ pending' = (pending \cup {k}) \ out
            /\ outcome' = [x \in Call |-> IF x \in out THEN "overflow" ELSE outcome[x]]
        BY <2>1, <3>1 DEF CallTool, Enqueue
      <3>3. out \in SUBSET (pending \cup {k})
        BY <3>2
      <3> WITNESS out \in SUBSET (pending \cup {k})
      <3> QED
        BY <3>2
    <2>2. CASE current # NoConn
      <3>1. PICK none \in SUBSET (pending \cup {k}) : none = {}
        OBVIOUS
      <3>2. /\ pending' = (pending \cup {k}) \ none
            /\ outcome' = [x \in Call |-> IF x \in none THEN "overflow" ELSE outcome[x]]
        BY <2>2, <3>1 DEF CallTool, TypeOK, ClientTypeOK
      <3> QED
        BY <3>2
    <2> QED
      BY <2>1, <2>2
  <1>3. \A x \in dropped : executed[x] = 0
    <2> SUFFICES ASSUME NEW x \in dropped
                 PROVE  executed[x] = 0
      OBVIOUS
    <2>1. x \in Call /\ outcome'[x] = "overflow"
      BY <1>2 DEF TypeOK, ClientTypeOK
    <2>2. executed'[x] = 0
      BY <2>1 DEF LinkInv, FateAtShim, Spent
    <2> QED
      BY <1>1, <2>2
  <1>4. Calls!Ask(k, dropped)
    BY <1>1, <1>2, <1>3 DEF Calls!Ask, Calls!Unasked, Calls!Told
  <1> QED
    BY <1>2, <1>4 DEF PromiseMoves, Calls!Next

\* The caller hears the answer, or has waited long enough.
LEMMA PromiseSettle ==
    ASSUME TypeOK, LinkInv, LinkInv', NEW k \in Call, k \in pending,
           NEW how \in {"result", "refused", "timeout"}, Settles(k, how),
           UNCHANGED <<life, executed>>
    PROVE  PromiseMoves
  <1>1. outcome' = [x \in Call |-> IF x \in {k} THEN how ELSE outcome[x]]
    BY DEF Settles, TypeOK, ClientTypeOK
  <1>2. outcome'[k] = how
    BY <1>1
  <1>3. (how = "result" => executed[k] = 1) /\ (how = "refused" => executed[k] = 0)
    BY <1>2 DEF LinkInv, FateAtShim, Spent
  <1>4. Calls!Settle(k, how)
    BY <1>1, <1>3 DEF Settles, Calls!Settle, Calls!Told
  <1> QED
    BY <1>4 DEF PromiseMoves, Calls!Next

LEMMA PromiseHear ==
    ASSUME TypeOK, LinkInv, LinkInv', NEW c \in Conn, ReceiveResult(c), UNCHANGED serverVars
    PROVE  PromiseMoves
  <1>1. PICK line \in DownLine : line = Head(down[c])
    BY NextDownType DEF ReceiveResult, TypeOK
  <1>2. line.id \in Call /\ UNCHANGED <<life, executed>>
    BY <1>1, NextDownType DEF ReceiveResult, TypeOK, serverVars
  <1>3. CASE line.id \in pending
    <2>1. PICK how \in {"result", "refused", "timeout"} :
            how = IF line.ok THEN "result" ELSE "refused"
      OBVIOUS
    <2>2. Settles(line.id, how)
      BY <1>1, <1>3, <2>1 DEF ReceiveResult
    <2> QED
      BY <1>2, <1>3, <2>2, PromiseSettle
  <1>4. CASE line.id \notin pending
    BY <1>1, <1>2, <1>4, PromiseQuiet DEF ReceiveResult
  <1> QED
    BY <1>3, <1>4

\* A call that is read was asked for and has not been run.
LEMMA PromiseRun ==
    ASSUME TypeOK, LinkInv, NEW c \in Conn, ReadToolCall(c), UNCHANGED clientVars
    PROVE  PromiseMoves
  <1>0. PICK k \in Call : k = Head(up[c]).id
    BY FirstCarried DEF ReadToolCall, TypeOK
  <1>1. UNCHANGED <<life, pending, outcome>>
    BY DEF clientVars
  <1>2. CASE c \in bound
    <2>1. ~Nowhere(k)
      BY <1>0, FirstCarried DEF ReadToolCall, TypeOK, Nowhere
    <2>2. executed[k] = 0 /\ outcome[k] \notin {"refused", "overflow"} /\ ~Unmade(k)
      BY <2>1 DEF LinkInv, FateAtBroker, FateAtShim, Spent
    <2>3. executed' = [executed EXCEPT ![k] = 1]
      BY <1>0, <1>2, <2>2 DEF ReadToolCall, TypeOK, ServerTypeOK
    <2>4. Calls!Run(k)
      BY <1>1, <2>2, <2>3 DEF Calls!Run, Calls!Unasked, Unmade
    <2> QED
      BY <2>4 DEF PromiseMoves, Calls!Next
  <1>3. CASE c \notin bound
    BY <1>1, <1>3, PromiseQuiet DEF ReadToolCall
  <1> QED
    BY <1>2, <1>3

\* The shim stops, and those who wait are told; or it is killed.
LEMMA PromiseLeave ==
    ASSUME TypeOK, LinkInv, Close \/ Killed, UNCHANGED serverVars
    PROVE  PromiseMoves
  <1>1. UNCHANGED executed /\ life # "closed" /\ life' = "closed" /\ pending' = {}
    BY DEF serverVars, Close, Killed
  <1>2. CASE Close
    <2>1. Calls!Leave("closed")
      BY <1>1, <1>2 DEF Close, Calls!Leave, Calls!Told
    <2> QED
      BY <2>1 DEF PromiseMoves, Calls!Next
  <1>3. CASE Killed
    <2>1. \A x \in Call : x \in pending => outcome[x] = "none"
      BY DEF LinkInv, FateAtShim
    <2>2. outcome' = [x \in Call |-> IF x \in pending THEN "none" ELSE outcome[x]]
      BY <1>3, <2>1 DEF Killed, TypeOK, ClientTypeOK
    <2>3. Calls!Leave("none")
      BY <1>1, <2>2 DEF Calls!Leave, Calls!Told
    <2> QED
      BY <2>3 DEF PromiseMoves, Calls!Next
  <1> QED
    BY <1>2, <1>3

\* The first attempt to connect fails: nobody waits yet.
LEMMA PromiseFail ==
    ASSUME TypeOK, NoneBeforeRegistered, NEW c \in Conn, DialFails(c), UNCHANGED serverVars
    PROVE  PromiseMoves
  <1>1. UNCHANGED <<executed, pending, outcome>>
    BY DEF DialFails, serverVars
  <1>2. CASE life = "dialing"
    <2>1. pending = {} /\ life' = "closed"
      BY <1>2 DEF NoneBeforeRegistered, DialFails
    <2>2. outcome' = [x \in Call |-> IF x \in pending THEN "none" ELSE outcome[x]]
      BY <1>1, <2>1 DEF TypeOK, ClientTypeOK
    <2>3. Calls!Leave("none")
      BY <1>1, <1>2, <2>1, <2>2 DEF Calls!Leave, Calls!Told
    <2> QED
      BY <2>3 DEF PromiseMoves, Calls!Next
  <1>3. CASE life # "dialing"
    <2>1. life' = life
      BY <1>3 DEF DialFails
    <2> QED
      BY <1>1, <2>1, PromiseQuiet
  <1> QED
    BY <1>2, <1>3

LEMMA PromiseStep ==
    ASSUME TypeOK, LinkInv, LinkInv', NoneBeforeRegistered, [Next]_vars
    PROVE  PromiseMoves
  <1>1. CASE Begin \/ Timer
    <2>1. UNCHANGED <<pending, executed, outcome>> /\ (life' = "closed" <=> life = "closed")
      BY <1>1 DEF Begin, Register, Timer, TimerFires, serverVars
    <2> QED
      BY <2>1, PromiseQuiet
  <1>2. CASE Use
    <2>1. PICK k \in Call : CallTool(k) \/ CallTimesOut(k)
      BY <1>2 DEF Use, UseTools
    <2>2. UNCHANGED serverVars /\ UNCHANGED executed
      BY <1>2 DEF Use, serverVars
    <2>3. CASE CallTool(k)
      BY <2>2, <2>3, PromiseAsk
    <2>4. CASE CallTimesOut(k)
      <3>1. k \in pending /\ Settles(k, "timeout") /\ UNCHANGED life
        BY <2>4 DEF CallTimesOut
      <3> QED
        BY <2>2, <3>1, PromiseSettle
    <2> QED
      BY <2>1, <2>3, <2>4
  <1>3. CASE Leave
    BY <1>3, PromiseLeave DEF Leave
  <1>4. ASSUME NEW c \in Conn, Connect(c)
        PROVE  PromiseMoves
    <2>1. UNCHANGED <<pending, executed, outcome>> /\ (life' = "closed" <=> life = "closed")
      BY <1>4 DEF Connect, Connected, Accept
    <2> QED
      BY <2>1, PromiseQuiet
  <1>5. ASSUME NEW c \in Conn, Fail(c)
        PROVE  PromiseMoves
    BY <1>5, PromiseFail DEF Fail
  <1>6. ASSUME NEW c \in Conn, Hear(c)
        PROVE  PromiseMoves
    <2>1. CASE ReceiveResult(c)
      BY <1>6, <2>1, PromiseHear DEF Hear
    <2>2. CASE ReceiveRegistered(c) \/ ReceiveShutdown(c) \/ Disconnected(c)
      <3>1. UNCHANGED <<pending, executed, outcome>> /\ (life' = "closed" <=> life = "closed")
        BY <1>6, <2>2 DEF Hear, ReceiveRegistered, ReceiveShutdown, Disconnected, serverVars
      <3> QED
        BY <3>1, PromiseQuiet
    <2> QED
      BY <1>6, <2>1, <2>2 DEF Hear, Receive
  <1>7. ASSUME NEW c \in Conn, Serve(c)
        PROVE  PromiseMoves
    <2>1. CASE ReadToolCall(c)
      BY <1>7, <2>1, PromiseRun DEF Serve
    <2>2. CASE Closed(c) \/ ReadIntroduction(c) \/ Route(c)
      <3>1. UNCHANGED <<pending, executed, outcome, life>>
        BY <1>7, <2>2 DEF Serve, clientVars, Closed, ReadIntroduction, Route, Answer
      <3> QED
        BY <3>1, PromiseQuiet
    <2> QED
      BY <1>7, <2>1, <2>2 DEF Serve, ReadLine
  <1>8. CASE Detach \/ Stop \/ Gone \/ Back \/ UNCHANGED vars
    <2>1. UNCHANGED <<pending, executed, outcome, life>>
      BY <1>8 DEF Detach, Evict, Stop, Shutdown, Gone, Exit, Back, Start, vars, clientVars,
                  serverVars
    <2> QED
      BY <2>1, PromiseQuiet
  <1> QED
    BY <1>1, <1>2, <1>3, <1>4, <1>5, <1>6, <1>7, <1>8 DEF Next

(* Whatever becomes of the connections between them, shim and broker keep what *)
(* RemoteCall promises the caller of a tool.                                   *)
THEOREM ImplementsCalls == Spec => CallsKeepPromise
  <1>1. Init => NoneBeforeRegistered /\ Calls!Init
    BY DEF Init, ClientInit, ServerInit, NoneBeforeRegistered, Calls!Init
  <1>2. TypeOK /\ LinkInv /\ LinkInv' /\ NoneBeforeRegistered /\ [Next]_vars
          => [Calls!Next]_(Calls!callVars)
    BY PromiseStep DEF PromiseMoves, Calls!callVars
  <1> QED
    BY <1>1, <1>2, InitType, NextType, InitLink, NextLink, NextNone, PTL
       DEF Spec, CallsKeepPromise, Calls!Spec
=============================================================================
