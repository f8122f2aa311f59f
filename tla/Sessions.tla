------------------------------- MODULE Sessions -------------------------------
(***************************************************************************)
(* What the broker knows of a session: its status in the in-memory         *)
(* registry (broker/session-registry.ts) and whether the socket server     *)
(* maps it to a live shim connection (broker/socket-server.ts).  The two   *)
(* are kept apart because they part company in the code: a heartbeat       *)
(* timeout or DELETE /sessions/:id detaches a session whose connection     *)
(* stays open, and only a new register or reconnect line attaches it again.*)
(***************************************************************************)
EXTENDS Identifiers

VARIABLES
    registry,       \* registry[s]: "absent", "attached" or "detached"
    linked          \* linked[s]: sessionConn maps s to an open connection

sessionVars == <<registry, linked>>

SessionTypeOK == /\ registry \in [Session -> {"absent", "attached", "detached"}]
                 /\ linked \in [Session -> BOOLEAN]

SessionInit == /\ registry = [s \in Session |-> "absent"]
               /\ linked = [s \in Session |-> FALSE]

IsAttached(s) == registry[s] = "attached"

\* connectionFor: send() throws when there is none.
Reachable(s) == linked[s]

\* The sweeper's test for a session that cannot be reached.
Unreachable(s) == registry[s] \in {"absent", "detached"}

-----------------------------------------------------------------------------
\* register and detach, on the registry reg.  A session may be registered
\* again; nothing is detached that is not attached.
RegisterIn(reg, s) == [reg EXCEPT ![s] = "attached"]

DetachIn(reg, s) ==
    IF reg[s] = "attached" THEN [reg EXCEPT ![s] = "detached"] ELSE reg

\* attachSession: a register or reconnect line.  The connection that held s
\* before, if any, is ended and forgotten, so s is still mapped to one.
AttachSession(s) == /\ registry' = RegisterIn(registry, s)
                    /\ linked' = [linked EXCEPT ![s] = TRUE]

\* The same line read from a connection that another has replaced, which
\* connectionFor does not find: s is attached and cannot be reached.  The
\* other has introduced s, so the registry knows it.
AttachReplaced(s) == /\ registry[s] # "absent"
                     /\ registry' = RegisterIn(registry, s)
                     /\ linked' = [linked EXCEPT ![s] = FALSE]

\* onClose of the connection that s is mapped to.
CloseConnection(s) == /\ linked[s]
                      /\ linked' = [linked EXCEPT ![s] = FALSE]
                      /\ registry' = DetachIn(registry, s)

\* DELETE /sessions/:id; the connection is not closed.
DeleteSession(s) == /\ IsAttached(s)
                    /\ registry' = DetachIn(registry, s)
                    /\ UNCHANGED linked

\* evictStale: the attached sessions whose last heartbeat is too old.
EvictStale(stale) ==
    /\ \A s \in stale : IsAttached(s)
    /\ registry' = [s \in Session |-> IF s \in stale THEN "detached" ELSE registry[s]]
    /\ UNCHANGED linked
=============================================================================
