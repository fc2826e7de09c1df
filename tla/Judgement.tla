------------------------------ MODULE Judgement ----------------------------
(***************************************************************************)
(* What each specialist makes of its model's answer                        *)
(* (agents/*_reasoning.py).  An answer is a tool call the model may have   *)
(* filled in badly: it may name what it was not shown, leave out what it   *)
(* was, or lack the verdict altogether.                                    *)
(***************************************************************************)
EXTENDS Assess

\* The floor's measurements for a judged rule, and the units they are about.
Measured(facts, rule) == {f \in facts : f[1] = rule /\ f[3] = "measured"}
Shown(facts, rule) == {f[2] : f \in Measured(facts, rule)}
Cites(facts, rule) == {Id(f) : f \in Measured(facts, rule)}

\* A claim on the runs, if there are any.
OnRuns(rule, verdict, runs) ==
  IF runs = {} THEN {} ELSE {Judged(rule, verdict, runs, {<<rule, i>> : i \in runs})}

\* A claim on the dossier.
OnCase(facts, rule, verdict) == {Judged(rule, verdict, {}, Cites(facts, rule))}
----------------------------------------------------------------------------
\* Mutant: a run without a verdict is one that nothing was found on.
FidelitySilent(facts, verdicts) ==
  LET shown == Shown(facts, "MNDSEM01")
      inconsistent == {i \in shown \cap DOMAIN verdicts : ~verdicts[i]}
  IN  (UNION {OnRuns("MNDSEM01", "breach", {i}) : i \in inconsistent})
      \cup OnRuns("MNDSEM01", "clear", shown \ inconsistent)

\* check_intent_fidelity: verdicts says of runs whether they are consistent.
Fidelity(facts, verdicts) ==
  LET shown == Shown(facts, "MNDSEM01")
      judged == shown \cap DOMAIN verdicts
  IN  (UNION {OnRuns("MNDSEM01", "breach", {i}) : i \in {j \in judged : ~verdicts[j]}})
      \cup OnRuns("MNDSEM01", "clear", {j \in judged : verdicts[j]})
      \cup OnRuns("MNDSEM01", "inconclusive", shown \ judged)

\* analyze_consent: one verdict on all the selections shown.
ValueForMoney(facts, answered, systematic, named) ==
  LET shown == Shown(facts, "CNSVFM01")
  IN  CASE ~answered -> OnRuns("CNSVFM01", "inconclusive", shown)
        [] answered /\ ~systematic -> OnRuns("CNSVFM01", "clear", shown)
        [] answered /\ systematic /\ named \cap shown = {} ->
             OnRuns("CNSVFM01", "inconclusive", shown)
        [] OTHER -> OnRuns("CNSVFM01", "breach", named \cap shown)

\* analyze_counterparty: doubtful payees, each with the runs that paid it; no
\* answer on the declines is none that is against them.
Payee(facts, doubtful, paidBy, declines) ==
  IF Measured(facts, "CPTIDN01") = {} THEN {}
  ELSE (IF doubtful = {} THEN OnCase(facts, "CPTIDN01", "clear")
        ELSE {[Judged("CPTIDN01", "breach", paidBy[m], Cites(facts, "CPTIDN01"))
                 EXCEPT !.subject = m] : m \in doubtful})
       \cup OnCase(facts, "CPTDCL01", IF declines = "anomalous" THEN "breach" ELSE "clear")

\* analyze_provenance: reconciled, and nothing listed that disagrees.
Reconciliation(facts, reconciled, disagreements) ==
  OnCase(facts, "PRVREC01", IF reconciled /\ ~disagreements THEN "clear" ELSE "breach")

\* analyze_injection: a run that acted is a breach through a channel that was
\* shown to the model; the objective is a claim of its own on the same rule.
Acting(facts, verdicts, shownOn, redirected) ==
  LET shown == Shown(facts, "INJACT01")
      valid == {i \in shown \cap DOMAIN verdicts :
                  verdicts[i] \in shownOn[i] \cup {"none"}}
      acted == {i \in valid : verdicts[i] # "none"}
      about == IF redirected THEN acted ELSE shown
  IN  (UNION {OnRuns("INJACT01", IF i \in acted THEN "breach" ELSE "clear", {i}) : i \in valid})
      \cup OnRuns("INJACT01", "inconclusive", shown \ valid)
      \cup {[Judged("INJACT01", IF redirected THEN "breach" ELSE "clear", about,
                    {<<"INJACT01", i>> : i \in about})
               EXCEPT !.subject = "objective", !.scope = "run"]}

\* reason_about_case: each judged rule of the book has a slot to be filled.
Authority(facts, rules, answer) ==
  UNION {OnCase(facts, r, CASE answer[r] = "ok" -> "clear"
                            [] answer[r] = "bad" -> "breach"
                            [] OTHER -> "inconclusive") : r \in rules}

\* analyze_log: a pattern is on the runs of the transactions it names, or on
\* the dossier if they have none; one that names no transaction is open.
Pattern(facts, rule, answer, rows) ==
  LET runs == {t.run : t \in rows} \ {0}
  IN  CASE answer = "ok" -> OnCase(facts, rule, "clear")
        [] answer = "bad" /\ rows # {} -> {Judged(rule, "breach", runs, Cites(facts, rule))}
        [] OTHER -> OnCase(facts, rule, "inconclusive")

\* analyze_drift: the same, and the second rule asks for a logged onset of a
\* drift there is; with no drift nothing is said of it.
Drift(facts, answer, rows, onset, active) ==
  LET runs == {t.run : t \in rows} \ {0}
  IN  Pattern(facts, "DRIFTBHV01", answer, rows) \cup
      (IF answer = "bad" /\ rows # {} /\ "DRIFTUNX01" \in active
       THEN {Judged("DRIFTUNX01", IF onset = "none" THEN "breach" ELSE "clear", runs,
                    Cites(facts, "DRIFTBHV01"))}
       ELSE {})
=============================================================================
