------------------------------- MODULE MCBroker -------------------------------
(* Instances of Broker for TLC.                                             *)
EXTENDS BrokerProperties, TLC

CONSTANTS c1, c2

MCActor == Caller \cup Ticks
Serial == [mode |-> "serial", priority |-> 1]
Forget == [mode |-> "fire-and-forget", priority |-> 1]

SerialOnly == {Serial}
BothModes  == {Serial, Forget}

Symmetry == Permutations(Caller) \cup Permutations(Ticks)
=============================================================================
