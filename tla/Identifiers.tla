------------------------------ MODULE Identifiers ------------------------------
(* The ids every part of the broker speaks of (ports/types.ts).             *)
EXTENDS Naturals

CONSTANTS
    Job,            \* job ids, numbered in the order jobs are inserted
    Session         \* session ids

ASSUME JobAssumption == Job \subseteq Nat
=============================================================================
