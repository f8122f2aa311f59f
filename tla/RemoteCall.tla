------------------------------- MODULE RemoteCall -------------------------------
(***************************************************************************)
(* What the caller of a tool is promised (shim/broker-client.ts:           *)
(* callTool), whatever happens to connections and processes: the call is   *)
(* run at most once and only if it was asked for; a result comes from a    *)
(* call that was run; one that was refused or pushed out of the queue was  *)
(* not run and never will be; and what a caller was told stands.  A call   *)
(* whose caller gave up may have been run, or may still be.                *)
(***************************************************************************)
EXTENDS Naturals

CONSTANT Call

VARIABLES
    gone,           \* the caller's process has stopped
    waiting,        \* calls whose caller waits
    runs,           \* how often each call was run
    outcome         \* what each caller was told

callVars == <<gone, waiting, runs, outcome>>

Init == /\ gone = FALSE
        /\ waiting = {}
        /\ runs = [k \in Call |-> 0]
        /\ outcome = [k \in Call |-> "none"]

Unasked(k) == ~gone /\ k \notin waiting /\ outcome[k] = "none"

Told(K, how) == outcome' = [k \in Call |-> IF k \in K THEN how ELSE outcome[k]]

\* There may be no room for all that wait: `out` is pushed out.
Ask(k, out) == /\ Unasked(k)
               /\ \A x \in out : runs[x] = 0
               /\ waiting' = (waiting \cup {k}) \ out
               /\ Told(out, "overflow")
               /\ UNCHANGED <<gone, runs>>

\* Once the caller's process has gone nobody knows what it had asked for.
Run(k) == /\ ~Unasked(k) /\ outcome[k] \notin {"refused", "overflow"}
          /\ runs[k] = 0
          /\ runs' = [runs EXCEPT ![k] = 1]
          /\ UNCHANGED <<gone, waiting, outcome>>

Settle(k, how) == /\ k \in waiting
                  /\ how = "result"  => runs[k] = 1
                  /\ how = "refused" => runs[k] = 0
                  /\ waiting' = waiting \ {k}
                  /\ Told({k}, how)
                  /\ UNCHANGED <<gone, runs>>

\* Stopped, the caller's process tells those who wait; killed, it does not.
Leave(how) == /\ ~gone /\ gone' = TRUE
              /\ waiting' = {}
              /\ Told(waiting, how)
              /\ UNCHANGED runs

Next == \/ \E k \in Call : \/ \E out \in SUBSET (waiting \cup {k}) : Ask(k, out)
                           \/ Run(k)
                           \/ \E how \in {"result", "refused", "timeout"} : Settle(k, how)
        \/ \E how \in {"closed", "none"} : Leave(how)

Spec == Init /\ [][Next]_callVars
=============================================================================
