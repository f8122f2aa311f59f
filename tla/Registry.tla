-------------------------------- MODULE Registry --------------------------------
(***************************************************************************)
(* The session registry (broker/session-registry.ts) as it stores          *)
(* sessions: handles in a Map, which keeps the order of insertion and from *)
(* which nothing is ever removed.  A registry is a sequence of handles     *)
(* here, no two with one id; Sessions has only what the dispatcher asks.   *)
(*                                                                         *)
(* heartbeat() sets a time stamp and never a status, so it is left out:    *)
(* evictStale may find any session that is attached too old.               *)
(***************************************************************************)
EXTENDS Integers, Sequences

CONSTANTS
    Session,        \* session ids
    Label,          \* labels
    NoLabel         \* the label null

ASSUME NoLabelAssumption == NoLabel \notin Label

Handle == [id : Session, label : Label \cup {NoLabel}, attached : BOOLEAN]

IsRegistry(reg) ==
    /\ reg \in Seq(Handle)
    /\ \A i, j \in DOMAIN reg : reg[i].id = reg[j].id => i = j

StatusIn(reg, s) ==
    IF \E i \in DOMAIN reg : reg[i].id = s
    THEN IF \E i \in DOMAIN reg : reg[i].id = s /\ reg[i].attached THEN "attached" ELSE "detached"
    ELSE "absent"

-----------------------------------------------------------------------------
\* Bug: a session that comes back gets a second handle.
RegisterAnew(reg, s, label) ==
    <<[id |-> s, label |-> label, attached |-> TRUE]>>
      \o [i \in DOMAIN reg |-> IF reg[i].id = s THEN [reg[i] EXCEPT !.attached = FALSE] ELSE reg[i]]

\* Bug: a session that was detached stays so.
RegisterOnce(reg, s, label) ==
    IF StatusIn(reg, s) = "absent"
    THEN Append(reg, [id |-> s, label |-> label, attached |-> TRUE])
    ELSE [i \in DOMAIN reg |->
            IF reg[i].id = s
            THEN [reg[i] EXCEPT !.label = IF label = NoLabel THEN @ ELSE label]
            ELSE reg[i]]

\* register(): a handle that is there is attached again and, unless it is
\* given a label, keeps the one it has.
RegisterIn(reg, s, label) ==
    IF StatusIn(reg, s) = "absent"
    THEN Append(reg, [id |-> s, label |-> label, attached |-> TRUE])
    ELSE [i \in DOMAIN reg |->
            IF reg[i].id = s
            THEN [reg[i] EXCEPT !.attached = TRUE,
                                !.label = IF label = NoLabel THEN @ ELSE label]
            ELSE reg[i]]

\* Bug: nothing is detached.
DetachNobody(reg, gone) == reg

\* detach() of one session, evictStale() of those that are stale.
DetachIn(reg, gone) ==
    [i \in DOMAIN reg |-> IF reg[i].id \in gone THEN [reg[i] EXCEPT !.attached = FALSE]
                                                ELSE reg[i]]

\* findByLabel(): the first attached session with the label, if there is one.
Matches(h, label) == h.attached /\ h.label = label

FindByLabel(reg, label) ==
    {reg[i].id : i \in {k \in DOMAIN reg : /\ Matches(reg[k], label)
                                          /\ \A n \in 1..(k-1) : ~Matches(reg[n], label)}}
=============================================================================
