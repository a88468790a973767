--------------------------- MODULE PhaseContract ---------------------------
(***************************************************************************)
(* What one execution phase promises, whichever way it runs its tests:     *)
(* `ExecutionDispatch::execute_groups` (pipeline/execution.rs) returns a   *)
(* PhaseResult built from the outcomes it reported.  Each item is settled  *)
(* at most once and never changes its outcome; --maxfail stops the phase   *)
(* at the hard failure that reaches the limit, after which nothing is      *)
(* reported; a phase that was not stopped ends only when every item has an *)
(* outcome.                                                                *)
(***************************************************************************)
EXTENDS Integers, FiniteSets

CONSTANTS
  Items,    \* the items of the phase
  MaxFail   \* --maxfail; 0 means no limit

VARIABLES
  verdict,  \* verdict[i]: the outcome reported for item i, or "none"
  stopped,  \* PhaseResult.interrupted
  ended     \* the phase has returned

contractVars == <<verdict, stopped, ended>>

Verdicts == {"none", "passed", "failed", "crashed", "timedout"}
Pending == {i \in Items : verdict[i] = "none"}
Hard(v) == {i \in Items : v[i] \in {"failed", "crashed", "timedout"}}

Init == verdict = [i \in Items |-> "none"] /\ stopped = FALSE /\ ended = FALSE

\* One more outcome, and the accumulator's decision to stop.
Report(i, o) ==
  /\ ~stopped /\ ~ended /\ verdict[i] = "none"
  /\ verdict' = [verdict EXCEPT ![i] = o]
  /\ stopped' = (MaxFail > 0 /\ Cardinality(Hard(verdict')) >= MaxFail)
  /\ UNCHANGED ended

\* Nobody is left to run the rest: every pending item is reported as crashed.
LoseRest ==
  /\ ~stopped /\ ~ended
  /\ verdict' = [i \in Items |-> IF verdict[i] = "none" THEN "crashed" ELSE verdict[i]]
  /\ UNCHANGED <<stopped, ended>>

End ==
  /\ ~ended /\ (stopped \/ Pending = {})
  /\ ended' = TRUE
  /\ UNCHANGED <<verdict, stopped>>

Next ==
  \/ \E i \in Items, o \in Verdicts \ {"none"} : Report(i, o)
  \/ LoseRest
  \/ End

Spec == Init /\ [][Next]_contractVars
=============================================================================
