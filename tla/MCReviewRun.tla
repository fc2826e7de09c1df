---------------------------- MODULE MCReviewRun ----------------------------
(* Two runs, of two cases, that share a single model slot; one peer each.    *)
(* One of them is asked for in every way; the other, a first pass, is there  *)
(* to compete for the slot.                                                  *)
EXTENDS ReviewRun

CONSTANTS r1, r2, mandate

AnyAndFirst == [r \in {r1, r2} |-> IF r = r1 THEN Mode ELSE {"first"}]
=============================================================================
