------------------------------ MODULE SessionView ------------------------------
(* What the rest of the broker sees of its sessions' connections: the       *)
(* operations of Sessions in any order, and the process starting over.      *)
EXTENDS Sessions

StartsOver == /\ registry' = [s \in Session |-> "absent"]
              /\ linked' = [s \in Session |-> FALSE]

Next == \/ \E s \in Session : \/ AttachSession(s) \/ AttachReplaced(s)
                              \/ CloseConnection(s) \/ DeleteSession(s)
        \/ \E stale \in SUBSET Session : EvictStale(stale)
        \/ StartsOver

Spec == SessionInit /\ [][Next]_sessionVars
=============================================================================
