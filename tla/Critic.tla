------------------------------- MODULE Critic ------------------------------
(***************************************************************************)
(* What looks across the specialists once they are done: the critic, which *)
(* holds the figures a model quoted against those it was shown, and the    *)
(* synthesizer, which relates findings (agents/critic.py,                  *)
(* agents/synthesizer.py).  A figure is written with or without a decimal  *)
(* point; values are in ten-thousandths.                                   *)
(***************************************************************************)
EXTENDS Assess

One == 10000
Figure(value, point) == [value |-> value, point |-> point]

\* _numbers_in: whole numbers under a hundred are ways of speaking.
NumbersIn(figures) == {f.value : f \in {g \in figures : g.point \/ g.value >= 100 * One}}

\* A number meant to the last place it is written with.
LastPlace(value) == CHOOSE u \in {1, 10, 100, 1000, One} :
                      /\ value % u = 0
                      /\ \A w \in {1, 10, 100, 1000, One} : w > u => value % w # 0

Distance(m, n) == IF m < n THEN n - m ELSE m - n

\* _grounded: a figure of the context, as it is or as a percentage, rounded.
Grounded(value, context) ==
  \E known \in context : \/ 2 * Distance(known, value) <= LastPlace(value)
                         \/ 2 * Distance(100 * known, value) <= LastPlace(value)

CheckedAgents == {"log", "drift"}

\* check_evidence_grounding: the judged assessments of the agents that were
\* dispatched (context gives each what it was shown) that quote a figure they
\* were not shown.
CheckEvidenceGrounding(assessments, judged, context, quoted) ==
  {a \in assessments :
     /\ a.agent \in DOMAIN context
     /\ a.agent \in CheckedAgents \/ a.rule \in judged
     /\ \E n \in NumbersIn(quoted[a]) : ~Grounded(n, NumbersIn(context[a.agent]))}
----------------------------------------------------------------------------
\* synthesize: of what the model relates, the relations between two or more
\* findings there are; findings are assessments under another name.
Synthesize(named, findings) ==
  IF Cardinality(findings) < 2 THEN {}
  ELSE {c \in named : c.of \subseteq findings /\ Cardinality(c.of) >= 2}
=============================================================================
