------------------------------- MODULE Assess ------------------------------
(***************************************************************************)
(* From facts to assessments, and from the assessments of several rounds   *)
(* to the ones that stand (agents/assess.py, agents/base.py,               *)
(* pipeline/review_support.py).  An assessment names its rule, or, when no *)
(* rule backs it, its subject.  runs are the runs it concerns; review the  *)
(* runs its round reconsidered, {} when that was the whole dossier; cites  *)
(* the facts it rests on.                                                  *)
(***************************************************************************)
EXTENDS Facts

Id(f) == <<f[1], f[2]>>
Units(facts) == {f[2] : f \in facts} \ {0}
Rules(facts) == {f[1] : f \in facts}

Claim(rule, verdict, runs, cites) ==
  [round |-> 0, rule |-> rule, subject |-> "", verdict |-> verdict, runs |-> runs,
   scope |-> IF runs = {} THEN "case" ELSE "run", review |-> {}, certain |-> TRUE,
   cites |-> cites]

\* A claim that a model made.
Judged(rule, verdict, runs, cites) ==
  [Claim(rule, verdict, runs, cites) EXCEPT !.certain = FALSE]

Concern(subject, runs, cites) ==
  [Claim("", "concern", runs, cites) EXCEPT !.subject = subject]
----------------------------------------------------------------------------
\* What an absent fact says is missing; rules of one agent may miss the same.
Missing(rule) ==
  CASE rule \in {"CPTNEW01", "CPTDCL01", "LOGSTR01", "LOGCON01", "LOGVEL01", "LOGRND01",
                 "LOGLIM01", "DRIFTBHV01", "DRIFTBAS01"} -> "transaction_history"
    [] rule \in {"CPTCOP01", "CPTCTY01"} -> "payment.payee"
    [] rule \in {"CNSRND01", "CNSRND02"} -> "rendered_values"
    [] OTHER -> rule

\* contained_runs: the runs a blocking control of the firm's own stopped.
Contained(s, runs) ==
  {i \in DOMAIN runs :
     /\ runs[i].outcome = "blocked"
     /\ \E e \in runs[i].evals : /\ e.outcome = "triggered" /\ e.override = "none"
                                 /\ e.control \in DOMAIN s.controls
                                 /\ s.controls[e.control].enforcement = "blocking"}

\* Mutant: what the controls stopped is not assessed.
FloorSilentOnHeld(facts, contained) ==
  LET breaches == {f \in facts : f[3] = "breach" /\ f[2] \notin contained}
      of(r) == {f \in breaches : f[1] = r}
  IN  {Claim(r, "breach", Units(of(r)), {Id(f) : f \in of(r)}) : r \in Rules(breaches)}

\* floor_assessments: a breach, but for the runs where the control held.
FloorAssessments(facts, contained) ==
  LET breaches == {f \in facts : f[3] = "breach"}
      held(r) == {f \in breaches : f[1] = r /\ f[2] \in contained}
      open(r) == {f \in breaches : f[1] = r /\ f[2] \notin contained}
      assess(verdict, of(_)) == {Claim(r, verdict, Units(of(r)), {Id(f) : f \in of(r)}) :
                                   r \in {q \in Rules(breaches) : of(q) # {}}}
  IN  assess("breach", open) \cup assess("explained", held)

\* data_gap_assessments
DataGaps(facts) ==
  LET gaps == {f \in facts : f[3] \in {"missing_block", "insufficient_history"}}
      of(reason, name) == {f \in gaps : f[3] = reason /\ Missing(f[1]) = name}
  IN  {Concern(Missing(g[1]), Units(of(g[3], Missing(g[1]))),
               {Id(f) : f \in of(g[3], Missing(g[1]))}) : g \in gaps}

Floor(facts, contained) == FloorAssessments(facts, contained) \cup DataGaps(facts)
----------------------------------------------------------------------------
\* scoped: the runs under review, and the draws on their mandates left out.
Within(runs, scope) == [i \in DOMAIN runs \cap scope |-> runs[i]]
Related(runs, scope) ==
  {runs[j] : j \in {k \in DOMAIN runs \ scope :
                      \E i \in scope : runs[i].intent = runs[k].intent}}

\* version_review_facts: a result replaces the one of its rule and unit.
Versioned(latest, facts) ==
  {f \in latest : Id(f) \notin {Id(g) : g \in facts}} \cup facts

\* Mutant: what a rule says of single runs is not reconsidered.
ClearsOnCase(earlier, review, facts, book) ==
  LET of(r) == {f \in facts : f[1] = r}
  IN  {Claim(r, "clear", {}, {Id(f) : f \in of(r)}) :
         r \in {q \in DOMAIN book :
                  /\ q \in {a.rule : a \in earlier} /\ q \notin {a.rule : a \in review}
                  /\ of(q) # {} /\ Units(of(q)) = {}
                  /\ \A f \in of(q) : f[3] \in {"satisfied", "out_of_scope"}}}

\* clear_reconsidered_rules: a rule assessed before, and not now, of which
\* every new result is that it holds or does not apply.
Clears(earlier, review, facts, book) ==
  LET of(r) == {f \in facts : f[1] = r}
  IN  {Claim(r, "clear", Units(of(r)), {Id(f) : f \in of(r)}) :
         r \in {q \in DOMAIN book :
                  /\ q \in {a.rule : a \in earlier} /\ q \notin {a.rule : a \in review}
                  /\ of(q) # {}
                  /\ \A f \in of(q) : f[3] \in {"satisfied", "out_of_scope"}}}

\* unjudged_review: what was assessed, and every judged rule left open.
Unjudged(assessed, facts, judged) ==
  assessed \cup
  {Judged(r, "inconclusive", {}, {Id(f) : f \in ByRule(facts, r)}) : r \in judged}

\* validate_review: what cites nothing, or not what was reviewed, is open.
Validated(review, facts, runs) ==
  {IF \/ ~(a.cites \subseteq {Id(f) : f \in facts})
      \/ ~(a.runs \subseteq DOMAIN runs)
      \/ a.verdict \in {"breach", "clear"} /\ a.cites = {}
   THEN [a EXCEPT !.verdict = "inconclusive"] ELSE a : a \in review}
----------------------------------------------------------------------------
\* _claim: what a later round decides again.  One agent's rule, or subject.
SameClaim(a, b) ==
  a.agent = b.agent /\ a.rule = b.rule /\ (a.rule # "" \/ a.subject = b.subject)

Later(as, a) == {b \in as : b.round > a.round /\ SameClaim(a, b)}

\* Mutant: a look at some runs settles the rule for all of them.
CurrentByClaim(as) == {a \in as : Later(as, a) = {}}

\* current: what no later round replaced.  A later look at the whole dossier
\* replaces an assessment; one at some runs takes those runs away from it.
Current(as) ==
  LET taken(a) == UNION {b.review : b \in Later(as, a)}
      left(a) == a.runs \ taken(a)
      whole(a) == \E b \in Later(as, a) : b.review = {}
      perRun(a) == a.scope = "run" /\ taken(a) # {}
  IN  {[a EXCEPT !.runs = IF perRun(a) THEN left(a) ELSE a.runs,
                 !.cites = IF perRun(a) THEN {c \in a.cites : c[2] \notin taken(a)}
                           ELSE a.cites] :
         a \in {b \in as : ~whole(b) /\ (perRun(b) => left(b) # {})}}

\* What stands on run i: whose claim it is, and the verdict.
OnRun(as, i) == {<<a.agent, a.rule, a.subject, a.verdict>> :
                   a \in {b \in Current(as) : b.scope = "run" /\ i \in b.runs}}
=============================================================================
