--------------------------- MODULE DraftLifecycle ---------------------------
(* What the ledger promises of every drafting run of a case: a report is     *)
(* drafted, checked, and then decided at most once; nothing is decided that  *)
(* was not drafted and checked by the same run.                              *)

CONSTANTS Run,     \* drafting runs
          Action   \* what a named reviewer may decide

VARIABLE stage  \* how far each run has got

Init == stage = [r \in Run |-> "none"]

\* What may follow; a run that is blocked or decided has ended.
After(s) ==
  CASE s = "none"    -> {"started"}
    [] s = "started" -> {"drafted", "blocked"}
    [] s = "drafted" -> {"checked"}
    [] s = "checked" -> Action
    [] OTHER         -> {}

Advance(r) == \E next \in After(stage[r]) : stage' = [stage EXCEPT ![r] = next]

Next == \E r \in Run : Advance(r)

Spec == Init /\ [][Next]_stage
=============================================================================
