---------------------------- MODULE DeploymentProofs ----------------------------
(***************************************************************************)
(* Theorems about Deployment, for any numbers of processes, sessions,      *)
(* labels and requests.                                                    *)
(***************************************************************************)
EXTENDS Deployment, TLAPS

(* What TypeOK needs to be inductive: no more rows than the bound, and a      *)
(* request only speaks of a row that is there.                               *)
RowsThere == /\ Len(rows) <= MaxRows
             /\ \A r \in Req : req[r].pc = "reply" => req[r].job \in DOMAIN rows

Typed == TypeOK /\ RowsThere

-----------------------------------------------------------------------------
(* Registries.                                                             *)

LEMMA HandlesSeq ==
    ASSUME NEW reg \in Seq(Handle), NEW f, f = [i \in DOMAIN reg |-> f[i]],
           \A i \in DOMAIN reg : f[i] \in Handle
    PROVE  f \in Seq(Handle)
  <1>1. DOMAIN reg = 1..Len(reg) /\ Len(reg) \in Nat
    OBVIOUS
  <1>2. f \in [1..Len(reg) -> Handle]
    BY <1>1
  <1> QED
    BY <1>1, <1>2

(* A handle h after reg has registered s: that of s under the label, or one    *)
(* that was there.                                                           *)
ComesFrom(h, reg, s, label) ==
    \/ h.id = s /\ h.label = label
    \/ /\ h.id = s /\ label = NoLabel
       /\ \E k \in DOMAIN reg : reg[k].id = s /\ reg[k].label = h.label
    \/ h.id # s /\ \E k \in DOMAIN reg : reg[k] = h

(* What register() does to a registry's handles and to what it says of t.     *)
LEMMA Registered ==
    ASSUME NEW reg, IsRegistry(reg), NEW s \in Session, NEW label \in Label \cup {NoLabel}
    PROVE  /\ IsRegistry(RegisterIn(reg, s, label))
           /\ \A i \in DOMAIN RegisterIn(reg, s, label) :
                ComesFrom(RegisterIn(reg, s, label)[i], reg, s, label)
           /\ \A t \in Session : StatusIn(RegisterIn(reg, s, label), t)
                                   = IF t = s THEN "attached" ELSE StatusIn(reg, t)
  <1> DEFINE new == RegisterIn(reg, s, label)
  <1>0. /\ reg \in Seq(Handle) /\ DOMAIN reg = 1..Len(reg) /\ Len(reg) \in Nat
        /\ \A i \in DOMAIN reg : reg[i] \in Handle
    BY DEF IsRegistry
  <1>1. CASE StatusIn(reg, s) = "absent"
    <2>1. \A i \in DOMAIN reg : reg[i].id # s
      BY <1>1 DEF StatusIn
    <2>2. new = Append(reg, [id |-> s, label |-> label, attached |-> TRUE])
      BY <1>1 DEF RegisterIn
    <2>3. [id |-> s, label |-> label, attached |-> TRUE] \in Handle
      BY DEF Handle
    <2>4. /\ new \in Seq(Handle) /\ DOMAIN new = 1..(Len(reg) + 1)
          /\ \A i \in DOMAIN reg : new[i] = reg[i]
          /\ new[Len(reg) + 1] = [id |-> s, label |-> label, attached |-> TRUE]
      BY <1>0, <2>2, <2>3
    <2>5. \A i \in DOMAIN new : i \in DOMAIN reg \/ i = Len(reg) + 1
      BY <1>0, <2>4
    <2>6. IsRegistry(new)
      BY <1>0, <2>1, <2>4, <2>5 DEF IsRegistry
    <2>7. \A t \in Session : StatusIn(new, t) = IF t = s THEN "attached" ELSE StatusIn(reg, t)
      <3> TAKE t \in Session
      <3>1. CASE t = s
        BY <1>0, <2>4, <2>5, <3>1 DEF StatusIn
      <3>2. CASE t # s
        BY <1>0, <2>4, <2>5, <3>2 DEF StatusIn
      <3> QED
        BY <3>1, <3>2
    <2>8. \A i \in DOMAIN new : ComesFrom(new[i], reg, s, label)
      BY <2>1, <2>4, <2>5 DEF ComesFrom
    <2> QED
      BY <2>6, <2>7, <2>8
  <1>2. CASE StatusIn(reg, s) # "absent"
    <2>1. \E i \in DOMAIN reg : reg[i].id = s
      BY <1>2 DEF StatusIn
    <2>2. new = [i \in DOMAIN reg |->
                   IF reg[i].id = s
                   THEN [reg[i] EXCEPT !.attached = TRUE,
                                       !.label = IF label = NoLabel THEN @ ELSE label]
                   ELSE reg[i]]
      BY <1>2 DEF RegisterIn
    <2>3. /\ DOMAIN new = DOMAIN reg
          /\ \A i \in DOMAIN reg :
               /\ new[i] \in Handle /\ new[i].id = reg[i].id
               /\ reg[i].id = s => /\ new[i].attached
                                   /\ new[i].label = IF label = NoLabel THEN reg[i].label ELSE label
               /\ reg[i].id # s => new[i] = reg[i]
      BY <1>0, <2>2 DEF Handle
    <2>4. IsRegistry(new)
      <3>1. new \in Seq(Handle)
        BY <2>2, <2>3, <1>0, HandlesSeq
      <3> QED
        BY <3>1, <2>3 DEF IsRegistry
    <2>5. \A t \in Session : StatusIn(new, t) = IF t = s THEN "attached" ELSE StatusIn(reg, t)
      <3> TAKE t \in Session
      <3>1. CASE t = s
        BY <2>1, <2>3, <3>1 DEF StatusIn
      <3>2. CASE t # s
        BY <2>3, <3>2 DEF StatusIn
      <3> QED
        BY <3>1, <3>2
    <2>6. \A i \in DOMAIN new : ComesFrom(new[i], reg, s, label)
      BY <2>3 DEF ComesFrom
    <2> QED
      BY <2>4, <2>5, <2>6
  <1> QED
    BY <1>1, <1>2

(* What detach() and evictStale() do.                                        *)
LEMMA Detached ==
    ASSUME NEW reg, IsRegistry(reg), NEW gone \in SUBSET Session
    PROVE  /\ IsRegistry(DetachIn(reg, gone))
           /\ DOMAIN DetachIn(reg, gone) = DOMAIN reg
           /\ \A i \in DOMAIN reg :
                /\ DetachIn(reg, gone)[i].id = reg[i].id
                /\ DetachIn(reg, gone)[i].label = reg[i].label
                /\ DetachIn(reg, gone)[i].attached => reg[i].attached /\ reg[i].id \notin gone
           /\ \A t \in Session : StatusIn(DetachIn(reg, gone), t)
                                   = IF t \in gone /\ StatusIn(reg, t) = "attached"
                                     THEN "detached" ELSE StatusIn(reg, t)
  <1> DEFINE new == DetachIn(reg, gone)
  <1>0. /\ reg \in Seq(Handle) /\ DOMAIN reg = 1..Len(reg) /\ Len(reg) \in Nat
        /\ \A i \in DOMAIN reg : reg[i] \in Handle
    BY DEF IsRegistry
  <1>1. new = [i \in DOMAIN reg |->
                 IF reg[i].id \in gone THEN [reg[i] EXCEPT !.attached = FALSE] ELSE reg[i]]
    BY DEF DetachIn
  <1>2. /\ DOMAIN new = DOMAIN reg
        /\ \A i \in DOMAIN reg :
             /\ new[i] \in Handle /\ new[i].id = reg[i].id /\ new[i].label = reg[i].label
             /\ reg[i].id \in gone => ~new[i].attached
             /\ reg[i].id \notin gone => new[i] = reg[i]
    BY <1>0, <1>1 DEF Handle
  <1>3. IsRegistry(new)
    <2>1. new \in Seq(Handle)
      BY <1>0, <1>1, <1>2, HandlesSeq
    <2> QED
      BY <2>1, <1>2 DEF IsRegistry
  <1>4. \A t \in Session : StatusIn(new, t) = IF t \in gone /\ StatusIn(reg, t) = "attached"
                                              THEN "detached" ELSE StatusIn(reg, t)
    <2> TAKE t \in Session
    <2>1. CASE t \in gone
      BY <1>2, <2>1 DEF StatusIn
    <2>2. CASE t \notin gone
      BY <1>2, <2>2 DEF StatusIn
    <2> QED
      BY <2>1, <2>2
  <1> QED
    BY <1>2, <1>3, <1>4

(* What findByLabel() finds is an attached handle with the label.             *)
LEMMA Found ==
    ASSUME NEW reg, IsRegistry(reg), NEW label, NEW s \in FindByLabel(reg, label)
    PROVE  \E i \in DOMAIN reg : /\ s \in Session
                                 /\ reg[i].id = s /\ reg[i].attached /\ reg[i].label = label
  <1>1. PICK i \in DOMAIN reg : Matches(reg[i], label) /\ s = reg[i].id
    BY DEF FindByLabel
  <1>2. reg[i] \in Handle
    BY DEF IsRegistry
  <1> QED
    BY <1>1, <1>2 DEF Matches, Handle

LEMMA NoHandles == IsRegistry(<<>>) /\ \A t \in Session : StatusIn(<<>>, t) = "absent"
  BY DEF IsRegistry, StatusIn

-----------------------------------------------------------------------------
(* Types.                                                                  *)

HandlesTyped == /\ handles \in [Proc -> Seq(Handle)]
                /\ \A p \in Proc : IsRegistry(handles[p])

LEMMA OneHandleChanges ==
    ASSUME HandlesTyped, NEW p \in Proc, NEW reg, IsRegistry(reg),
           handles' = [handles EXCEPT ![p] = reg]
    PROVE  HandlesTyped'
  <1>1. reg \in Seq(Handle)
    BY DEF IsRegistry
  <1> QED
    BY <1>1 DEF HandlesTyped

LEMMA InitTyped == Init => Typed
  <1> SUFFICES ASSUME Init PROVE Typed
    OBVIOUS
  <1>1. DaemonTypeOK
    BY DEF Init, DaemonInit, DaemonTypeOK, Stage
  <1>2. IntakeTypeOK /\ RowsThere
    BY NoHandles, RowsAssumption DEF Init, IntakeInit, IntakeTypeOK, RowsThere, ReqState, NoReq
  <1>3. /\ shim \in [Session -> Proc \cup {"off", "lost"}]
        /\ held \in [Session -> SUBSET Proc]
        /\ declared \in [Session -> Label \cup {NoLabel}]
        /\ exits \in 0..MaxExits
    BY ExitsAssumption DEF Init
  <1> QED
    BY <1>1, <1>2, <1>3 DEF Typed, TypeOK

LEMMA ComesTyped ==
    ASSUME DaemonTypeOK, NEW p \in Proc, NEW to \in Stage, Comes(p, to)
    PROVE  stage' \in [Proc -> Stage]
  BY DEF DaemonTypeOK, Comes

(* A request asks for something else.                                        *)
LEMMA AsksTyped ==
    ASSUME Typed, NEW r \in Req, NEW request \in ReqState, Asks(r, request),
           DOMAIN rows \subseteq DOMAIN rows',
           request.pc = "reply" => request.job \in DOMAIN rows'
    PROVE  /\ req' \in [Req -> ReqState]
           /\ \A q \in Req : req'[q].pc = "reply" => req'[q].job \in DOMAIN rows'
  BY DEF Typed, TypeOK, IntakeTypeOK, RowsThere, Asks

LEMMA Unasked ==
    /\ NoReq \in ReqState /\ NoReq.pc # "reply"
  BY DEF NoReq, ReqState

(* What a step of a request has to show: the registries and the files are     *)
(* none of its business.                                                     *)
LEMMA RequestTyped ==
    ASSUME Typed, NEW r \in Req, NEW request \in ReqState, Asks(r, request),
           rows' \in Seq(JobRow), DOMAIN rows \subseteq DOMAIN rows', Len(rows') <= MaxRows,
           request.pc = "reply" => request.job \in DOMAIN rows',
           answers' \subseteq DOMAIN rows',
           UNCHANGED <<daemonVars, handles, shimVars, exits>>
    PROVE  Typed'
  <1>1. IntakeTypeOK' /\ RowsThere'
    BY AsksTyped DEF Typed, TypeOK, IntakeTypeOK, RowsThere
  <1> QED
    BY <1>1 DEF Typed, TypeOK, DaemonTypeOK, daemonVars, shimVars

LEMMA RowsFacts ==
    ASSUME Typed
    PROVE  /\ rows \in Seq(JobRow) /\ Len(rows) \in Nat /\ DOMAIN rows = 1..Len(rows)
           /\ Len(rows) <= MaxRows /\ MaxRows \in Nat
           /\ \A j \in DOMAIN rows : rows[j] \in JobRow /\ j \in 1..MaxRows
  BY RowsAssumption DEF Typed, TypeOK, IntakeTypeOK, RowsThere

LEMMA AskTyped ==
    ASSUME Typed, NEW r \in Req, Ask(r)
    PROVE  Typed'
  <1>0. UNCHANGED <<daemonVars, handles, shimVars, exits>>
    BY DEF Ask
  <1>1. ASSUME NEW p \in Proc, NEW s \in Session, PostTo(r, p, s)
        PROVE  Typed'
    <2>1. ASSUME NEW j \in FindByClientRef(s), Asks(r, [pc |-> "reply", at |-> p, job |-> j])
          PROVE  Typed'
      <3>1. j \in DOMAIN rows
        BY <2>1 DEF FindByClientRef, Within
      <3>2. [pc |-> "reply", at |-> p, job |-> j] \in ReqState
        BY <3>1, RowsFacts DEF ReqState
      <3> QED
        BY <1>0, <1>1, <2>1, <3>1, <3>2, RowsFacts, RequestTyped
           DEF PostTo, Typed, TypeOK, IntakeTypeOK
    <2>2. ASSUME Asks(r, [pc |-> "insert", at |-> p, session |-> s])
          PROVE  Typed'
      <3>1. [pc |-> "insert", at |-> p, session |-> s] \in ReqState
        BY DEF ReqState
      <3> QED
        BY <1>0, <1>1, <2>2, <3>1, RowsFacts, RequestTyped DEF PostTo, Typed, TypeOK, IntakeTypeOK
    <2> QED
      BY <1>1, <2>1, <2>2 DEF PostTo
  <1>2. ASSUME NEW p \in Proc, Post(r, p)
        PROVE  Typed'
    <2>1. ASSUME NEW label \in Label, NEW s \in FindByLabel(handles[p], label)
          PROVE  s \in Session
      BY <2>1, Found DEF Typed, TypeOK, IntakeTypeOK
    <2> QED
      BY <1>1, <1>2, <2>1 DEF Post
  <1>3. ASSUME NEW p \in Proc, Spawn(r, p)
        PROVE  Typed'
    <2>1. PICK label \in Label : Asks(r, [pc |-> "spawn", at |-> p, label |-> label])
      BY <1>3 DEF Spawn
    <2>2. [pc |-> "spawn", at |-> p, label |-> label] \in ReqState
      BY DEF ReqState
    <2> QED
      BY <1>0, <1>3, <2>1, <2>2, RowsFacts, RequestTyped DEF Spawn, Typed, TypeOK, IntakeTypeOK
  <1>4. ASSUME NEW p \in Proc, OpenEvents(r, p)
        PROVE  Typed'
    <2>1. [pc |-> "stream", at |-> p] \in ReqState
      BY DEF ReqState
    <2> QED
      BY <1>0, <1>4, <2>1, RowsFacts, RequestTyped DEF OpenEvents, Typed, TypeOK, IntakeTypeOK
  <1>5. ASSUME ClientLeaves(r)
        PROVE  Typed'
    BY <1>0, <1>5, Unasked, RowsFacts, RequestTyped DEF ClientLeaves, Typed, TypeOK, IntakeTypeOK
  <1> QED
    BY <1>2, <1>3, <1>4, <1>5 DEF Ask

LEMMA AnsweredTyped ==
    ASSUME Typed, NEW r \in Req, Answered(r)
    PROVE  Typed'
  <1>0. UNCHANGED <<daemonVars, handles, shimVars, exits>>
    BY DEF Answered
  <1>1. ASSUME Insert(r)
        PROVE  Typed'
    <2> DEFINE s == req[r].session
               row == [session |-> s, old |-> FALSE]
    <2>0. s \in Session /\ req[r].at \in Proc
      BY <1>1 DEF Insert, Typed, TypeOK, IntakeTypeOK, ReqState, NoReq
    <2>1. CASE Asks(r, NoReq) /\ UNCHANGED rows
      BY <1>0, <1>1, <2>1, Unasked, RowsFacts, RequestTyped DEF Insert, Typed, TypeOK, IntakeTypeOK
    <2>2. CASE /\ Len(rows) < MaxRows
               /\ rows' = Append(rows, row)
               /\ Asks(r, [pc |-> "reply", at |-> req[r].at, job |-> Len(rows) + 1])
      <3>1. row \in JobRow
        BY <2>0 DEF JobRow
      <3>2. /\ rows' \in Seq(JobRow) /\ Len(rows') = Len(rows) + 1
            /\ DOMAIN rows' = 1..(Len(rows) + 1) /\ DOMAIN rows \subseteq DOMAIN rows'
        BY <2>2, <3>1, RowsFacts
      <3>3. [pc |-> "reply", at |-> req[r].at, job |-> Len(rows) + 1] \in ReqState
        BY <2>0, <2>2, RowsFacts DEF ReqState
      <3>4. Len(rows') <= MaxRows /\ Len(rows) + 1 \in DOMAIN rows'
        BY <2>2, <3>2, RowsFacts
      <3>5. answers' \subseteq DOMAIN rows'
        BY <1>1, <3>2 DEF Insert, Typed, TypeOK, IntakeTypeOK
      <3> QED
        BY <1>0, <2>2, <3>2, <3>3, <3>4, <3>5, RequestTyped
    <2> QED
      BY <1>1, <2>1, <2>2 DEF Insert
  <1>2. ASSUME Reply(r)
        PROVE  Typed'
    <2>1. req[r].job \in DOMAIN rows
      BY <1>2 DEF Reply, Typed, RowsThere
    <2> QED
      BY <1>0, <1>2, <2>1, Unasked, RowsFacts, RequestTyped DEF Reply, Typed, TypeOK, IntakeTypeOK
  <1>3. ASSUME SpawnEnds(r)
        PROVE  Typed'
    BY <1>0, <1>3, Unasked, RowsFacts, RequestTyped DEF SpawnEnds, Typed, TypeOK, IntakeTypeOK
  <1> QED
    BY <1>1, <1>2, <1>3 DEF Answered, Serve

LEMMA WindowTyped ==
    ASSUME Typed, TimePasses
    PROVE  Typed'
  <1>1. PICK j \in DOMAIN rows : WindowPasses(j)
    BY DEF TimePasses
  <1>2. rows' = [rows EXCEPT ![j].old = TRUE] /\ UNCHANGED <<req, answers>>
    BY <1>1 DEF WindowPasses
  <1>3. rows' \in [1..Len(rows) -> JobRow]
    BY <1>2, RowsFacts DEF JobRow
  <1>4. rows' \in Seq(JobRow) /\ DOMAIN rows' = DOMAIN rows /\ Len(rows') = Len(rows)
    BY <1>3, RowsFacts
  <1> QED
    BY <1>2, <1>4 DEF TimePasses, Typed, TypeOK, RowsThere, IntakeTypeOK, DaemonTypeOK,
                      daemonVars, shimVars

LEMMA ShimTyped ==
    ASSUME Typed, NEW s \in Session, ShimStep(s)
    PROVE  Typed'
  <1>0. UNCHANGED <<daemonVars, intakeVars, exits>>
    BY DEF ShimStep
  <1>1. ASSUME NEW p \in Proc, NEW label \in Label \cup {NoLabel}, Introduced(s, p, label),
               declared' \in [Session -> Label \cup {NoLabel}]
        PROVE  Typed'
    <2>1. handles' = [handles EXCEPT ![p] = RegisterIn(@, s, label)]
      BY <1>1 DEF Introduced
    <2>2. IsRegistry(RegisterIn(handles[p], s, label))
      BY Registered DEF Typed, TypeOK, IntakeTypeOK
    <2>3. HandlesTyped'
      BY <2>1, <2>2, OneHandleChanges DEF Typed, TypeOK, IntakeTypeOK, HandlesTyped
    <2> QED
      BY <1>0, <1>1, <2>3 DEF Introduced, Typed, TypeOK, IntakeTypeOK, RowsThere, DaemonTypeOK,
                              daemonVars, intakeVars, HandlesTyped
  <1>2. ASSUME NEW p \in Proc, ShimStarts(s, p)
        PROVE  Typed'
    BY <1>1, <1>2 DEF ShimStarts, Typed, TypeOK
  <1>3. ASSUME NEW p \in Proc, Reconnects(s, p)
        PROVE  Typed'
    BY <1>1, <1>3 DEF Reconnects, Typed, TypeOK
  <1>4. ASSUME ShimEnds(s)
        PROVE  Typed'
    BY <1>0, <1>4 DEF ShimEnds, Typed, TypeOK, IntakeTypeOK, RowsThere, DaemonTypeOK,
                      daemonVars, intakeVars
  <1> QED
    BY <1>2, <1>3, <1>4 DEF ShimStep

LEMMA LinkTyped ==
    ASSUME Typed, NEW s \in Session, NEW p \in Proc, LinkStep(s, p)
    PROVE  Typed'
  <1>0. UNCHANGED <<daemonVars, intakeVars, exits>>
    BY DEF LinkStep
  <1>1. ASSUME HearsShutdown(s, p)
        PROVE  Typed'
    BY <1>0, <1>1 DEF HearsShutdown, ShimEnds, Typed, TypeOK, IntakeTypeOK, RowsThere,
                      DaemonTypeOK, daemonVars, intakeVars
  <1>2. ASSUME Closed(s, p)
        PROVE  Typed'
    <2>1. IsRegistry(DetachIn(handles[p], {s}))
      BY Detached DEF Typed, TypeOK, IntakeTypeOK
    <2>2. HandlesTyped'
      BY <1>2, <2>1, OneHandleChanges DEF Closed, Typed, TypeOK, IntakeTypeOK, HandlesTyped
    <2> QED
      BY <1>0, <1>2, <2>2 DEF Closed, Typed, TypeOK, IntakeTypeOK, RowsThere, DaemonTypeOK,
                              daemonVars, intakeVars, HandlesTyped
  <1> QED
    BY <1>1, <1>2 DEF LinkStep

LEMMA EvictionTyped ==
    ASSUME Typed, NEW p \in Proc, Eviction(p)
    PROVE  Typed'
  <1>1. PICK gone \in SUBSET Session : handles' = [handles EXCEPT ![p] = DetachIn(@, gone)]
    BY DEF Eviction, Evicted
  <1>2. IsRegistry(DetachIn(handles[p], gone))
    BY Detached DEF Typed, TypeOK, IntakeTypeOK
  <1>3. HandlesTyped'
    BY <1>1, <1>2, OneHandleChanges DEF Typed, TypeOK, IntakeTypeOK, HandlesTyped
  <1> QED
    BY <1>3 DEF Eviction, Evicted, Typed, TypeOK, IntakeTypeOK, RowsThere, DaemonTypeOK,
                daemonVars, intakeVars, shimVars, HandlesTyped

(* A process is gone, however it went.                                       *)
LEMMA GoneTyped ==
    ASSUME Typed, NEW p \in Proc, Vanishes(p), Gone(p), exits' \in 0..MaxExits
    PROVE  Typed'
  <1>1. DaemonTypeOK'
    BY ComesTyped DEF Vanishes, Left, Stage, Typed, TypeOK, DaemonTypeOK
  <1>2. \A q \in Proc : IsRegistry(handles'[q])
    BY NoHandles DEF Gone, Typed, TypeOK, IntakeTypeOK
  <1>3. /\ req' \in [Req -> ReqState]
        /\ \A r \in Req : req'[r].pc = "reply" => req'[r] = req[r]
    BY Unasked DEF Gone, RequestsLost, Typed, TypeOK, IntakeTypeOK
  <1>4. IntakeTypeOK' /\ RowsThere'
    BY <1>2, <1>3 DEF Gone, RequestsLost, Typed, TypeOK, IntakeTypeOK, RowsThere
  <1>5. /\ held' \in [Session -> SUBSET Proc]
        /\ shim' \in [Session -> Proc \cup {"off", "lost"}]
        /\ declared' \in [Session -> Label \cup {NoLabel}]
    BY DEF Gone, Typed, TypeOK
  <1> QED
    BY <1>1, <1>4, <1>5 DEF Typed, TypeOK

LEMMA ProcessTyped ==
    ASSUME Typed, NEW p \in Proc,
           StartStep(p) \/ StopStep(p) \/ Refused(p) \/ Dies(p) \/ HttpClosed(p) \/ SocketsClosed(p)
    PROVE  Typed'
  <1>0. \A to \in Stage : Comes(p, to) => stage' \in [Proc -> Stage]
    BY ComesTyped DEF Typed, TypeOK
  <1>1. ASSUME StartStep(p)
        PROVE  Typed'
    <2>1. DaemonTypeOK'
      BY <1>0, <1>1 DEF StartStep, Start, Bind, ListenHttp, Stage, Typed, TypeOK, DaemonTypeOK
    <2> QED
      BY <1>1, <2>1 DEF StartStep, Typed, TypeOK, IntakeTypeOK, RowsThere, intakeVars, shimVars
  <1>2. ASSUME StopStep(p)
        PROVE  Typed'
    <2>1. DaemonTypeOK'
      BY <1>0, <1>2 DEF StopStep, Signal, Stage, Typed, TypeOK, DaemonTypeOK
    <2>2. exits' \in 0..MaxExits
      BY <1>2, ExitsAssumption DEF StopStep, Typed, TypeOK
    <2> QED
      BY <1>2, <2>1, <2>2 DEF StopStep, Typed, TypeOK, IntakeTypeOK, RowsThere, intakeVars, shimVars
  <1>3. ASSUME Refused(p)
        PROVE  Typed'
    BY <1>3, GoneTyped DEF Refused, Typed, TypeOK
  <1>4. ASSUME Dies(p)
        PROVE  Typed'
    <2>1. exits' \in 0..MaxExits
      BY <1>4, ExitsAssumption DEF Dies, Typed, TypeOK
    <2> QED
      BY <1>4, <2>1, GoneTyped DEF Dies
  <1>5. ASSUME HttpClosed(p)
        PROVE  Typed'
    <2>1. DaemonTypeOK'
      BY <1>0, <1>5 DEF HttpClosed, CloseSockets, Stage, Typed, TypeOK, DaemonTypeOK
    <2> QED
      BY <1>5, <2>1 DEF HttpClosed, Typed, TypeOK, IntakeTypeOK, RowsThere, intakeVars, shimVars
  <1>6. ASSUME SocketsClosed(p)
        PROVE  Typed'
    <2>1. DaemonTypeOK'
      BY <1>0, <1>6 DEF SocketsClosed, Exit, Stage, Typed, TypeOK, DaemonTypeOK
    <2>2. \A q \in Proc : IsRegistry(handles'[q])
      BY <1>6, NoHandles DEF SocketsClosed, Typed, TypeOK, IntakeTypeOK
    <2> QED
      BY <1>6, <2>1, <2>2 DEF SocketsClosed, Typed, TypeOK, IntakeTypeOK, RowsThere,
                              intakeVars, shimVars
  <1> QED
    BY <1>1, <1>2, <1>3, <1>4, <1>5, <1>6

LEMMA StepTyped == Typed /\ [Next]_vars => Typed'
  <1> SUFFICES ASSUME Typed, [Next]_vars PROVE Typed'
    OBVIOUS
  <1>1. CASE UNCHANGED vars
    BY <1>1 DEF vars, daemonVars, intakeVars, shimVars, Typed, TypeOK, DaemonTypeOK, IntakeTypeOK,
                RowsThere
  <1>2. CASE Next
    BY <1>2, ProcessTyped, EvictionTyped, ShimTyped, LinkTyped, AskTyped, AnsweredTyped, WindowTyped
       DEF Next
  <1> QED
    BY <1>1, <1>2

(* Every variable keeps to its type, whatever the constants are.             *)
THEOREM TypeCorrect == Spec => []TypeOK
  <1>1. Typed => TypeOK
    BY DEF Typed
  <1> QED
    BY <1>1, InitTyped, StepTyped, PTL DEF Spec

-----------------------------------------------------------------------------
(* client_ref.  There is never a second row of a session, so whoever is told  *)
(* of a row is told of the same.                                             *)
OneRowEach == \A j, k \in DOMAIN rows : rows[j].session = rows[k].session => j = k

LEMMA InsertOneRow ==
    ASSUME Typed, OneRowEach, NEW r \in Req, Insert(r)
    PROVE  OneRowEach'
  <1> DEFINE s == req[r].session
             row == [session |-> s, old |-> FALSE]
  <1>1. CASE UNCHANGED rows
    BY <1>1 DEF OneRowEach
  <1>2. CASE ~Taken(s) /\ rows' = Append(rows, row)
    <2>1. /\ DOMAIN rows' = 1..(Len(rows) + 1)
          /\ rows'[Len(rows) + 1] = row
          /\ \A j \in DOMAIN rows : rows'[j] = rows[j]
      BY <1>2, RowsFacts
    <2>2. \A j \in DOMAIN rows : rows'[j].session # s
      BY <1>2, <2>1 DEF Taken
    <2>3. \A j \in DOMAIN rows' : j \in DOMAIN rows \/ j = Len(rows) + 1
      BY <2>1, RowsFacts
    <2> QED
      BY <2>1, <2>2, <2>3 DEF OneRowEach
  <1> QED
    BY <1>1, <1>2 DEF Insert

LEMMA StepOneRow ==
    ASSUME Typed, OneRowEach, [Next]_vars
    PROVE  OneRowEach'
  <1>1. CASE UNCHANGED rows
    BY <1>1 DEF OneRowEach
  <1>2. ASSUME NEW r \in Req, Insert(r)
        PROVE  OneRowEach'
    BY <1>2, InsertOneRow
  <1>3. ASSUME NEW j \in DOMAIN rows, rows' = [rows EXCEPT ![j].old = TRUE]
        PROVE  OneRowEach'
    <2>1. \A k \in DOMAIN rows : rows'[k].session = rows[k].session
      BY <1>3, RowsFacts DEF JobRow
    <2>2. DOMAIN rows' = DOMAIN rows
      BY <1>3
    <2> QED
      BY <2>1, <2>2 DEF OneRowEach
  <1>4. \/ UNCHANGED rows
        \/ \E r \in Req : Insert(r)
        \/ \E j \in DOMAIN rows : rows' = [rows EXCEPT ![j].old = TRUE]
    <2>1. ASSUME NEW r \in Req, Ask(r) \/ Answered(r)
          PROVE  UNCHANGED rows \/ Insert(r)
      BY <2>1 DEF Ask, Answered, Serve, Post, PostTo, Spawn, OpenEvents, ClientLeaves, Reply, SpawnEnds
    <2>2. ASSUME NEW p \in Proc,
                 \/ StartStep(p) \/ StopStep(p) \/ Refused(p) \/ Dies(p)
                 \/ HttpClosed(p) \/ SocketsClosed(p) \/ Eviction(p)
          PROVE  UNCHANGED rows
      BY <2>2 DEF StartStep, StopStep, Refused, Dies, Gone, RequestsLost, HttpClosed, SocketsClosed,
                  Eviction, intakeVars
    <2>3. ASSUME NEW s \in Session, ShimStep(s) \/ \E p \in Proc : LinkStep(s, p)
          PROVE  UNCHANGED rows
      BY <2>3 DEF ShimStep, LinkStep, intakeVars
    <2>4. CASE UNCHANGED vars
      BY <2>4 DEF vars, intakeVars
    <2> QED
      BY <2>1, <2>2, <2>3, <2>4 DEF Next, TimePasses, WindowPasses
  <1> QED
    BY <1>1, <1>2, <1>3, <1>4

(* Whoever posts with one client_ref to one session hears of one job: over    *)
(* retries, concurrent posts, crashes and restarts, and after the window.     *)
THEOREM ClientRefSafe == Spec => []AnswersAgree
  <1>1. Init => Typed /\ OneRowEach
    <2>1. Init => rows = <<>>
      BY DEF Init, IntakeInit
    <2> QED
      BY <2>1, InitTyped DEF OneRowEach
  <1>2. Typed /\ OneRowEach /\ [Next]_vars => (Typed /\ OneRowEach)'
    BY StepTyped, StepOneRow
  <1>3. Typed /\ OneRowEach => AnswersAgree
    BY DEF Typed, TypeOK, IntakeTypeOK, OneRowEach, AnswersAgree
  <1> QED
    BY <1>1, <1>2, <1>3, PTL DEF Spec

-----------------------------------------------------------------------------
(* Files.  While a broker is started only when none is left, at most one is   *)
(* there, and what it has put in place stays until it removes it.             *)
OneProcess == \A p, q \in Proc : stage[p] # "none" /\ stage[q] # "none" => p = q

FilesInPlace ==
    \A p \in Proc : /\ stage[p] \in {"bound", "up", "closing"} => sockFile = p
                    /\ stage[p] \in {"up", "closing", "ending"} => pidFile = p

LEMMA FilesKept ==
    ASSUME Typed, OneProcess, FilesInPlace, NEW p \in Proc, Supervised,
           StartStep(p) \/ StopStep(p) \/ Refused(p) \/ Dies(p) \/ HttpClosed(p) \/ SocketsClosed(p)
    PROVE  OneProcess' /\ FilesInPlace'
  <1>0. stage \in [Proc -> Stage]
    BY DEF Typed, TypeOK, DaemonTypeOK
  <1>1. ASSUME Start(p)
        PROVE  OneProcess' /\ FilesInPlace'
    <2>1. \A q \in Proc : stage[q] = "none"
      BY <1>1 DEF Start
    <2>2. \A q \in Proc : stage'[q] = IF q = p THEN "starting" ELSE "none"
      BY <1>0, <1>1, <2>1 DEF Start, Comes
    <2> QED
      BY <2>2 DEF OneProcess, FilesInPlace
  <1>2. ASSUME NEW to \in Stage, Comes(p, to), stage[p] # "none",
               to \in {"bound", "up", "closing"} => sockFile' = p,
               to \in {"up", "closing", "ending"} => pidFile' = p
        PROVE  OneProcess' /\ FilesInPlace'
    <2>1. \A q \in Proc : stage'[q] = IF q = p THEN to ELSE stage[q]
      BY <1>0, <1>2 DEF Comes
    <2>2. \A q \in Proc : stage[q] # "none" => q = p
      BY <1>2 DEF OneProcess
    <2> QED
      BY <1>2, <2>1, <2>2 DEF OneProcess, FilesInPlace
  <1>3. CASE StartStep(p)
    BY <1>1, <1>2, <1>3 DEF StartStep, Bind, ListenHttp, Stage, FilesInPlace
  <1>4. CASE StopStep(p)
    BY <1>2, <1>4 DEF StopStep, Signal, Stage, FilesInPlace
  <1>5. CASE Refused(p)
    BY <1>2, <1>5 DEF Refused, Vanishes, Stage
  <1>6. CASE Dies(p)
    BY <1>2, <1>6 DEF Dies, Vanishes, Stage
  <1>7. CASE HttpClosed(p)
    BY <1>2, <1>7 DEF HttpClosed, CloseSockets, Stage, FilesInPlace
  <1>8. CASE SocketsClosed(p)
    BY <1>2, <1>8 DEF SocketsClosed, Exit, Stage
  <1> QED
    BY <1>3, <1>4, <1>5, <1>6, <1>7, <1>8

Files == Typed /\ OneProcess /\ FilesInPlace

LEMMA InitFiles == Init => Files
  BY InitTyped DEF Init, DaemonInit, Files, OneProcess, FilesInPlace

LEMMA StepFiles ==
    ASSUME Supervised
    PROVE  Files /\ [Next]_vars => Files'
  <1> SUFFICES ASSUME Files, [Next]_vars PROVE Files'
    OBVIOUS
  <1>1. CASE UNCHANGED daemonVars
    BY <1>1, StepTyped DEF Files, OneProcess, FilesInPlace, daemonVars
  <1>2. ASSUME NEW p \in Proc,
               \/ StartStep(p) \/ StopStep(p) \/ Refused(p) \/ Dies(p)
               \/ HttpClosed(p) \/ SocketsClosed(p)
        PROVE  Files'
    BY <1>2, FilesKept, StepTyped DEF Files
  <1>3. \/ UNCHANGED daemonVars
        \/ \E p \in Proc : \/ StartStep(p) \/ StopStep(p) \/ Refused(p) \/ Dies(p)
                           \/ HttpClosed(p) \/ SocketsClosed(p)
    BY DEF Next, vars, Eviction, ShimStep, LinkStep, Ask, Answered, TimePasses
  <1> QED
    BY <1>1, <1>2, <1>3

(* The shims of a supervised broker that runs can reach it, whatever crashes   *)
(* and refused starts came before.                                             *)
THEOREM SocketLeadsToBroker ==
    ASSUME Supervised
    PROVE  Spec => []SocketReachesBroker
  <1>1. Files => SocketReachesBroker
    BY DEF Files, FilesInPlace, SocketReachesBroker, Alone
  <1> QED
    BY <1>1, InitFiles, StepFiles, PTL DEF Spec

(* `daemon stop` signals the broker that runs and no other: what an earlier    *)
(* process left or removed has not changed the pidfile of a supervised one.    *)
THEOREM PidfileLeadsToBroker ==
    ASSUME Supervised
    PROVE  Spec => []PidfileNamesBroker
  <1>1. Files => PidfileNamesBroker
    BY DEF Files, FilesInPlace, PidfileNamesBroker, Alone
  <1> QED
    BY <1>1, InitFiles, StepFiles, PTL DEF Spec

-----------------------------------------------------------------------------
(* Labels.                                                                 *)

(* A process that is not there knows nobody.  A handle has no label or the    *)
(* one its shim declared last, and if it is attached its session is linked.   *)
HandlesTrue ==
    \A p \in Proc : \A i \in DOMAIN handles[p] :
      LET h == handles[p][i]
      IN  /\ stage[p] # "none"
          /\ h.label \in {NoLabel, declared[h.id]}
          /\ h.attached => p \in held[h.id]

Labels == Files /\ HandlesTrue

(* A session is introduced, by a shim that starts or one that comes back.     *)
LEMMA IntroducedTrue ==
    ASSUME Labels, NEW s \in Session, NEW p \in Proc, NEW label \in Label \cup {NoLabel},
           Introduced(s, p, label),
           declared' = [declared EXCEPT ![s] = IF label = NoLabel THEN @ ELSE label],
           UNCHANGED stage
    PROVE  HandlesTrue'
  <1>0. /\ handles \in [Proc -> Seq(Handle)]
        /\ \A q \in Proc : IsRegistry(handles[q])
        /\ declared \in [Session -> Label \cup {NoLabel}] /\ held \in [Session -> SUBSET Proc]
        /\ handles' = [handles EXCEPT ![p] = RegisterIn(@, s, label)]
        /\ stage[p] # "none"
    BY DEF Labels, Files, Typed, TypeOK, IntakeTypeOK, Introduced, Listens
  <1>1. /\ \A t \in Session : declared'[t] = IF t = s /\ label # NoLabel THEN label ELSE declared[t]
        /\ \A t \in Session : held[t] \subseteq held'[t]
        /\ p \in held'[s]
    BY <1>0 DEF Introduced
  <1> SUFFICES ASSUME NEW q \in Proc, NEW i \in DOMAIN handles'[q]
               PROVE  /\ stage[q] # "none"
                      /\ handles'[q][i].label \in {NoLabel, declared'[handles'[q][i].id]}
                      /\ handles'[q][i].attached => q \in held'[handles'[q][i].id]
    BY DEF HandlesTrue
  <1>2. CASE q # p
    <2>1. handles'[q] = handles[q]
      BY <1>0, <1>2
    <2>2. stage[q] # "none"
      BY <2>1 DEF Labels, HandlesTrue
    <2> QED
      BY <1>0, <1>2, <2>2 DEF Labels, Files, OneProcess
  <1>3. CASE q = p
    <2> DEFINE new == RegisterIn(handles[p], s, label)
    <2>1. handles'[q] = new
      BY <1>0, <1>3
    <2>2. IsRegistry(new) /\ i \in DOMAIN new
      BY <1>0, <2>1, Registered
    <2>4. ComesFrom(new[i], handles[p], s, label)
      BY <1>0, <2>2, Registered
    <2>3. new[i].id \in Session
      <3>1. new \in Seq(Handle) /\ i \in DOMAIN new
        BY <2>1, <2>2 DEF IsRegistry
      <3>2. new[i] \in Handle
        BY <3>1
      <3> QED
        BY <3>2 DEF Handle
    <2> QED
      BY <1>0, <1>1, <1>3, <2>1, <2>3, <2>4 DEF Labels, HandlesTrue, ComesFrom
  <1> QED
    BY <1>2, <1>3

(* A connection ends, or sessions are evicted: some are detached at p, and    *)
(* only theirs may be unlinked.                                              *)
LEMMA DetachedTrue ==
    ASSUME Labels, NEW p \in Proc, NEW gone \in SUBSET Session,
           handles' = [handles EXCEPT ![p] = DetachIn(@, gone)],
           \A t \in Session, q \in Proc :
             q \in held[t] => q \in held'[t] \/ (q = p /\ t \in gone),
           UNCHANGED <<stage, declared>>
    PROVE  HandlesTrue'
  <1>0. /\ handles \in [Proc -> Seq(Handle)]
        /\ \A q \in Proc : IsRegistry(handles[q])
    BY DEF Labels, Files, Typed, TypeOK, IntakeTypeOK
  <1> SUFFICES ASSUME NEW q \in Proc, NEW i \in DOMAIN handles'[q]
               PROVE  /\ stage[q] # "none"
                      /\ handles'[q][i].label \in {NoLabel, declared[handles'[q][i].id]}
                      /\ handles'[q][i].attached => q \in held'[handles'[q][i].id]
    BY DEF HandlesTrue
  <1>1. CASE q # p
    <2>1. handles'[q] = handles[q]
      BY <1>0, <1>1
    <2>2. handles[q][i].id \in Session
      <3>1. handles[q][i] \in Handle
        BY <1>0, <2>1
      <3> QED
        BY <3>1 DEF Handle
    <2> QED
      BY <1>1, <2>1, <2>2 DEF Labels, HandlesTrue
  <1>2. CASE q = p
    <2>1. handles'[q] = DetachIn(handles[p], gone)
      BY <1>0, <1>2
    <2>2. /\ i \in DOMAIN handles[p]
          /\ handles'[q][i].id = handles[p][i].id /\ handles'[q][i].label = handles[p][i].label
          /\ handles'[q][i].attached => handles[p][i].attached /\ handles[p][i].id \notin gone
      BY <1>0, <2>1, Detached
    <2>3. handles[p][i].id \in Session
      <3>1. handles[p][i] \in Handle
        BY <1>0, <2>2
      <3> QED
        BY <3>1 DEF Handle
    <2> QED
      BY <1>2, <2>2, <2>3 DEF Labels, HandlesTrue
  <1> QED
    BY <1>1, <1>2

(* A process is gone, and all it knew.                                       *)
LEMMA GoneTrue ==
    ASSUME Labels, NEW p \in Proc, handles' = [handles EXCEPT ![p] = <<>>],
           \A q \in Proc \ {p} : stage'[q] = stage[q],
           \A t \in Session, q \in Proc \ {p} : q \in held[t] => q \in held'[t],
           UNCHANGED declared
    PROVE  HandlesTrue'
  <1>0. handles \in [Proc -> Seq(Handle)]
    BY DEF Labels, Files, Typed, TypeOK, IntakeTypeOK
  <1>1. ASSUME NEW q \in Proc, NEW i \in DOMAIN handles'[q]
        PROVE  /\ q # p /\ handles'[q] = handles[q]
               /\ handles[q][i].id \in Session
    <2>1. q # p /\ handles'[q] = handles[q]
      BY <1>0, <1>1
    <2>2. handles[q][i] \in Handle
      BY <1>0, <1>1, <2>1
    <2> QED
      BY <2>1, <2>2 DEF Handle
  <1> QED
    BY <1>1 DEF Labels, HandlesTrue

(* Nothing happens that the handles are about.                               *)
LEMMA HandlesUndisturbed ==
    ASSUME Labels, UNCHANGED <<handles, held, declared>>,
           \A q \in Proc : stage[q] # "none" => stage'[q] # "none"
    PROVE  HandlesTrue'
  BY DEF Labels, HandlesTrue

LEMMA ProcessTrue ==
    ASSUME Labels, NEW p \in Proc,
           StartStep(p) \/ StopStep(p) \/ Refused(p) \/ Dies(p) \/ HttpClosed(p) \/ SocketsClosed(p)
    PROVE  HandlesTrue'
  <1>0. stage \in [Proc -> Stage]
    BY DEF Labels, Files, Typed, TypeOK, DaemonTypeOK
  <1>1. ASSUME NEW to, Comes(p, to), to # "none"
        PROVE  \A q \in Proc : stage[q] # "none" => stage'[q] # "none"
    BY <1>0, <1>1 DEF Comes
  <1>2. CASE StartStep(p) \/ StopStep(p) \/ HttpClosed(p)
    <2>1. \A q \in Proc : stage[q] # "none" => stage'[q] # "none"
      BY <1>1, <1>2 DEF StartStep, Start, Bind, ListenHttp, StopStep, Signal, HttpClosed, CloseSockets
    <2>2. UNCHANGED <<handles, held, declared>>
      BY <1>2 DEF StartStep, StopStep, HttpClosed, shimVars
    <2> QED
      BY <2>1, <2>2, HandlesUndisturbed
  <1>3. CASE Refused(p) \/ Dies(p)
    <2>1. \A q \in Proc \ {p} : stage'[q] = stage[q]
      BY <1>0, <1>3 DEF Refused, Dies, Vanishes, Comes
    <2>2. Gone(p)
      BY <1>3 DEF Refused, Dies
    <2> QED
      BY <2>1, <2>2, GoneTrue DEF Gone
  <1>4. CASE SocketsClosed(p)
    <2>1. \A q \in Proc \ {p} : stage'[q] = stage[q]
      BY <1>0, <1>4 DEF SocketsClosed, Exit, Comes
    <2> QED
      BY <1>4, <2>1, GoneTrue DEF SocketsClosed, shimVars
  <1> QED
    BY <1>2, <1>3, <1>4

LEMMA ShimTrue ==
    ASSUME Labels, NEW s \in Session, ShimStep(s)
    PROVE  HandlesTrue'
  <1>0. UNCHANGED stage /\ declared \in [Session -> Label \cup {NoLabel}]
    BY DEF ShimStep, daemonVars, Labels, Files, Typed, TypeOK
  <1>1. ASSUME NEW p \in Proc, ShimStarts(s, p)
        PROVE  HandlesTrue'
    BY <1>0, <1>1, IntroducedTrue DEF ShimStarts
  <1>2. ASSUME NEW p \in Proc, Reconnects(s, p)
        PROVE  HandlesTrue'
    <2>1. declared' = [declared EXCEPT ![s] = IF NoLabel = NoLabel THEN @ ELSE NoLabel]
      BY <1>0, <1>2 DEF Reconnects
    <2> QED
      BY <1>0, <1>2, <2>1, IntroducedTrue DEF Reconnects
  <1>3. ASSUME ShimEnds(s)
        PROVE  HandlesTrue'
    BY <1>0, <1>3, HandlesUndisturbed DEF ShimEnds
  <1> QED
    BY <1>1, <1>2, <1>3 DEF ShimStep

LEMMA LinkTrue ==
    ASSUME Labels, NEW s \in Session, NEW p \in Proc, LinkStep(s, p)
    PROVE  HandlesTrue'
  <1>0. UNCHANGED stage
    BY DEF LinkStep, daemonVars
  <1>1. CASE HearsShutdown(s, p)
    BY <1>0, <1>1, HandlesUndisturbed DEF HearsShutdown, ShimEnds
  <1>2. CASE Closed(s, p)
    <2>1. \A t \in Session, q \in Proc : q \in held[t] => q \in held'[t] \/ (q = p /\ t \in {s})
      BY <1>2 DEF Closed, Labels, Files, Typed, TypeOK
    <2>2. /\ {s} \in SUBSET Session
          /\ handles' = [handles EXCEPT ![p] = DetachIn(@, {s})]
          /\ UNCHANGED <<stage, declared>>
      BY <1>0, <1>2 DEF Closed
    <2> HIDE DEF Labels, DetachIn
    <2> QED
      BY <2>1, <2>2, DetachedTrue
  <1> QED
    BY <1>1, <1>2 DEF LinkStep

LEMMA StepLabels ==
    ASSUME Supervised
    PROVE  Labels /\ [Next]_vars => Labels'
  <1> SUFFICES ASSUME Labels, [Next]_vars PROVE HandlesTrue'
    BY StepFiles DEF Labels
  <1>1. ASSUME NEW p \in Proc, Eviction(p)
        PROVE  HandlesTrue'
    <2>1. PICK gone \in SUBSET Session : handles' = [handles EXCEPT ![p] = DetachIn(@, gone)]
      BY <1>1 DEF Eviction, Evicted
    <2>2. UNCHANGED <<stage, held, declared>>
      BY <1>1 DEF Eviction, Evicted, shimVars, daemonVars
    <2> QED
      BY <2>1, <2>2, DetachedTrue
  <1>2. CASE UNCHANGED <<daemonVars, handles, shimVars>>
    BY <1>2, HandlesUndisturbed DEF daemonVars, shimVars
  <1>3. ASSUME NEW r \in Req, Ask(r) \/ Answered(r)
        PROVE  HandlesTrue'
    BY <1>2, <1>3 DEF Ask, Answered
  <1>4. CASE TimePasses \/ UNCHANGED vars
    BY <1>2, <1>4 DEF TimePasses, vars
  <1> QED
    BY <1>1, <1>3, <1>4, ProcessTrue, ShimTrue, LinkTrue DEF Next

(* A label leads to a session that has a connection and whose shim declared   *)
(* that label last.                                                          *)
THEOREM LabelsLeadRight ==
    ASSUME Supervised
    PROVE  Spec => []AddressedRight
  <1>1. Init => Labels
    BY InitFiles DEF Init, IntakeInit, Labels, HandlesTrue
  <1>2. Labels => AddressedRight
    <2> SUFFICES ASSUME Labels, NEW p \in Proc, NEW label \in Label,
                        NEW s \in FindByLabel(handles[p], label)
                 PROVE  p \in held[s] /\ declared[s] = label
      BY DEF AddressedRight
    <2>1. PICK i \in DOMAIN handles[p] : /\ handles[p][i].id = s
                                         /\ handles[p][i].attached /\ handles[p][i].label = label
      BY Found DEF Labels, Files, Typed, TypeOK, IntakeTypeOK
    <2>2. label # NoLabel
      BY NoLabelAssumption
    <2> QED
      BY <2>1, <2>2 DEF Labels, HandlesTrue
  <1> QED
    BY <1>1, <1>2, StepLabels, PTL DEF Spec

-----------------------------------------------------------------------------
(* The handles and connections of a process, as Sessions tells of them.       *)
Reg == [s \in Session |-> StatusIn(handles[SomeProc], s)]
Lnk == [s \in Session |-> SomeProc \in held[s]]

ViewMoves == View!Next \/ UNCHANGED <<Reg, Lnk>>

LEMMA ViewIntroduced ==
    ASSUME Typed, SomeProc \in Proc, NEW s \in Session, NEW p \in Proc,
           NEW label \in Label \cup {NoLabel}, Introduced(s, p, label)
    PROVE  ViewMoves
  <1>0. /\ handles \in [Proc -> Seq(Handle)] /\ IsRegistry(handles[p])
        /\ held \in [Session -> SUBSET Proc]
    BY DEF Typed, TypeOK, IntakeTypeOK
  <1>1. /\ handles' = [handles EXCEPT ![p] = RegisterIn(handles[p], s, label)]
        /\ held' = [held EXCEPT ![s] = held[s] \cup {p}]
    BY DEF Introduced
  <1>2. CASE p = SomeProc
    <2>1. \A t \in Session : StatusIn(handles'[p], t) = IF t = s THEN "attached"
                                                        ELSE StatusIn(handles[p], t)
      BY <1>0, <1>1, Registered
    <2>2. Reg' = [Reg EXCEPT ![s] = "attached"]
      BY <1>2, <2>1 DEF Reg
    <2>3. Lnk' = [Lnk EXCEPT ![s] = TRUE]
      BY <1>0, <1>1, <1>2 DEF Lnk
    <2>4. View!AttachSession(s)
      BY <2>2, <2>3 DEF View!AttachSession, View!RegisterIn, Reg, Lnk
    <2> QED
      BY <2>4 DEF ViewMoves, View!Next
  <1>3. CASE p # SomeProc
    BY <1>0, <1>1, <1>3 DEF ViewMoves, Reg, Lnk
  <1> QED
    BY <1>2, <1>3

LEMMA ViewClosed ==
    ASSUME Typed, SomeProc \in Proc, NEW s \in Session, NEW p \in Proc, Closed(s, p)
    PROVE  ViewMoves
  <1>0. /\ handles \in [Proc -> Seq(Handle)] /\ IsRegistry(handles[p])
        /\ held \in [Session -> SUBSET Proc]
    BY DEF Typed, TypeOK, IntakeTypeOK
  <1>1. /\ handles' = [handles EXCEPT ![p] = DetachIn(handles[p], {s})]
        /\ held' = [held EXCEPT ![s] = held[s] \ {p}]
        /\ p \in held[s] /\ {s} \in SUBSET Session
    BY DEF Closed
  <1>2. CASE p = SomeProc
    <2>1. \A t \in Session :
            StatusIn(handles'[p], t) = IF t \in {s} /\ StatusIn(handles[p], t) = "attached"
                                       THEN "detached" ELSE StatusIn(handles[p], t)
      BY <1>0, <1>1, Detached
    <2>2. Reg' = IF Reg[s] = "attached" THEN [Reg EXCEPT ![s] = "detached"] ELSE Reg
      BY <1>2, <2>1 DEF Reg
    <2>3. Lnk[s] /\ Lnk' = [Lnk EXCEPT ![s] = FALSE]
      <3>1. \A t \in Session : held'[t] = IF t = s THEN held[s] \ {p} ELSE held[t]
        BY <1>0, <1>1
      <3>2. \A t \in Session : Lnk'[t] = IF t = s THEN FALSE ELSE Lnk[t]
        <4>1. \A t \in Session \ {s} : (SomeProc \in held'[t]) = (SomeProc \in held[t])
          BY <3>1
        <4>2. (SomeProc \in held'[s]) = FALSE
          BY <1>2, <3>1
        <4> QED
          BY <4>1, <4>2, Zenon DEF Lnk
      <3>3. Lnk[s]
        BY <1>1, <1>2 DEF Lnk
      <3> QED
        BY <3>2, <3>3 DEF Lnk
    <2>4. View!CloseConnection(s)
      BY <2>2, <2>3 DEF View!CloseConnection, View!DetachIn, Reg, Lnk
    <2> QED
      BY <2>4 DEF ViewMoves, View!Next
  <1>3. CASE p # SomeProc
    BY <1>0, <1>1, <1>3 DEF ViewMoves, Reg, Lnk
  <1> QED
    BY <1>2, <1>3

LEMMA ViewEvicted ==
    ASSUME Typed, SomeProc \in Proc, NEW p \in Proc, Evicted(p)
    PROVE  ViewMoves
  <1>0. handles \in [Proc -> Seq(Handle)] /\ IsRegistry(handles[p])
    BY DEF Typed, TypeOK, IntakeTypeOK
  <1>1. PICK gone \in SUBSET Session :
          /\ \A t \in gone : StatusIn(handles[p], t) = "attached"
          /\ handles' = [handles EXCEPT ![p] = DetachIn(handles[p], gone)]
    BY DEF Evicted
  <1>2. UNCHANGED held
    BY DEF Evicted, shimVars
  <1>3. CASE p = SomeProc
    <2>1. \A t \in Session :
            StatusIn(handles'[p], t) = IF t \in gone /\ StatusIn(handles[p], t) = "attached"
                                       THEN "detached" ELSE StatusIn(handles[p], t)
      BY <1>0, <1>1, Detached
    <2>2. Reg' = [t \in Session |-> IF t \in gone THEN "detached" ELSE Reg[t]]
      BY <1>1, <1>3, <2>1 DEF Reg
    <2>3. Lnk' = Lnk
      BY <1>2 DEF Lnk
    <2>4. View!EvictStale(gone)
      BY <1>1, <1>3, <2>2, <2>3 DEF View!EvictStale, View!IsAttached, Reg, Lnk
    <2> QED
      BY <2>4 DEF ViewMoves, View!Next
  <1>4. CASE p # SomeProc
    BY <1>0, <1>1, <1>2, <1>4 DEF ViewMoves, Reg, Lnk
  <1> QED
    BY <1>3, <1>4

LEMMA ViewGone ==
    ASSUME Typed, SomeProc \in Proc, NEW p \in Proc, handles' = [handles EXCEPT ![p] = <<>>],
           held' = [t \in Session |-> held[t] \ {p}]
    PROVE  ViewMoves
  <1>0. handles \in [Proc -> Seq(Handle)] /\ held \in [Session -> SUBSET Proc]
    BY DEF Typed, TypeOK, IntakeTypeOK
  <1>1. CASE p = SomeProc
    <2>1. \A t \in Session : StatusIn(handles'[p], t) = "absent"
      BY <1>0, NoHandles
    <2>2. Reg' = [t \in Session |-> "absent"]
      BY <1>1, <2>1 DEF Reg
    <2>3. Lnk' = [t \in Session |-> FALSE]
      <3>1. \A t \in Session : SomeProc \notin held'[t]
        BY <1>1
      <3>2. \A t \in Session : (SomeProc \in held'[t]) = FALSE
        BY <3>1
      <3> QED
        BY <3>2, Zenon DEF Lnk
    <2> QED
      BY <2>2, <2>3 DEF ViewMoves, View!Next, View!StartsOver, Reg, Lnk
  <1>2. CASE p # SomeProc
    BY <1>0, <1>2 DEF ViewMoves, Reg, Lnk
  <1> QED
    BY <1>1, <1>2

LEMMA ViewStep ==
    ASSUME Typed, SomeProc \in Proc, [Next]_vars
    PROVE  ViewMoves
  <1>1. CASE UNCHANGED <<handles, held>>
    BY <1>1 DEF ViewMoves, Reg, Lnk
  <1>2. ASSUME NEW s \in Session, ShimStep(s)
        PROVE  ViewMoves
    <2>1. ASSUME NEW p \in Proc, ShimStarts(s, p) \/ Reconnects(s, p)
          PROVE  ViewMoves
      BY <2>1, ViewIntroduced DEF ShimStarts, Reconnects
    <2> QED
      BY <1>1, <1>2, <2>1 DEF ShimStep, ShimEnds
  <1>3. ASSUME NEW s \in Session, NEW p \in Proc, LinkStep(s, p)
        PROVE  ViewMoves
    BY <1>1, <1>3, ViewClosed DEF LinkStep, HearsShutdown, ShimEnds
  <1>4. ASSUME NEW p \in Proc, Eviction(p)
        PROVE  ViewMoves
    BY <1>4, ViewEvicted DEF Eviction
  <1>5. ASSUME NEW p \in Proc, Refused(p) \/ Dies(p)
        PROVE  ViewMoves
    BY <1>5, ViewGone DEF Refused, Dies, Gone
  <1>6. ASSUME NEW p \in Proc, SocketsClosed(p)
        PROVE  ViewMoves
    <2>1. held' = [t \in Session |-> held[t] \ {p}]
      BY <1>6 DEF SocketsClosed, shimVars, Typed, TypeOK
    <2> QED
      BY <1>6, <2>1, ViewGone DEF SocketsClosed
  <1>7. ASSUME NEW p \in Proc, StartStep(p) \/ StopStep(p) \/ HttpClosed(p)
        PROVE  ViewMoves
    BY <1>1, <1>7 DEF StartStep, StopStep, HttpClosed, shimVars
  <1>8. ASSUME NEW r \in Req, Ask(r) \/ Answered(r)
        PROVE  ViewMoves
    BY <1>1, <1>8 DEF Ask, Answered, shimVars
  <1>9. CASE TimePasses \/ UNCHANGED vars
    BY <1>1, <1>9 DEF TimePasses, vars, shimVars
  <1> QED
    BY <1>2, <1>3, <1>4, <1>5, <1>6, <1>7, <1>8, <1>9 DEF Next

(* What a process keeps of its sessions changes as module Sessions says, for   *)
(* any number of sessions: what Broker is built on holds of the registry.      *)
THEOREM ImplementsView ==
    ASSUME Proc # {}
    PROVE  Spec => ImplementsSessions
  <1>1. SomeProc \in Proc
    BY DEF SomeProc
  <1>2. Init => View!SessionInit
    <2> SUFFICES ASSUME Init PROVE View!SessionInit
      OBVIOUS
    <2>1. handles[SomeProc] = <<>> /\ \A s \in Session : held[s] = {}
      BY <1>1 DEF Init, IntakeInit
    <2>2. [s \in Session |-> StatusIn(handles[SomeProc], s)] = [s \in Session |-> "absent"]
      BY <2>1, NoHandles
    <2>3. \A s \in Session : (SomeProc \in held[s]) = FALSE
      BY <2>1
    <2>4. [s \in Session |-> SomeProc \in held[s]] = [s \in Session |-> FALSE]
      BY <2>3, Zenon
    <2> QED
      BY <2>2, <2>4 DEF View!SessionInit
  <1>3. Typed /\ [Next]_vars => [View!Next]_(View!sessionVars)
    BY <1>1, ViewStep DEF ViewMoves, View!sessionVars, Reg, Lnk
  <1> QED
    BY <1>2, <1>3, InitTyped, StepTyped, PTL DEF Spec, ImplementsSessions, View!Spec
=============================================================================
