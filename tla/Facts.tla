------------------------------- MODULE Facts -------------------------------
(***************************************************************************)
(* The fact contract of the deterministic floor (agents/facts.py,          *)
(* schemas/fact.py): what a rule can come to, and the dispatcher that      *)
(* walks a rulebook and accounts for every rule in it.                     *)
(*                                                                         *)
(* An outcome is "breach", "satisfied", "measured" (a number a judged rule *)
(* rests on), or the reason for an absence.  A fact is <<rule, unit,       *)
(* outcome>>; the unit is a run, or 0 for the whole dossier, and rule and  *)
(* unit are the fact's id.                                                 *)
(***************************************************************************)
EXTENDS Integers, Sequences, FiniteSets

\* Mutant: a condition that does not hold is silence.
VerdictOrSilence(breached) == IF breached THEN "breach" ELSE "silent"

\* FactBuilder.verdict
Verdict(breached) == IF breached THEN "breach" ELSE "satisfied"

\* AbsentReason
AbsentReason == {"missing_block", "insufficient_history", "out_of_scope",
                 "rule_draft", "no_registry_record", "awaiting_peers"}

\* Reasons that name what is missing; the rest are about the rule.
NamesAGap == {"missing_block", "insufficient_history", "no_registry_record",
              "awaiting_peers"}

Outcome == {"breach", "satisfied", "measured"} \cup AbsentReason

Day == 0 .. 60   \* dates, in days; 0 stands for a date that is not stated
NoDay == 0

\* One rule of a book.  A function in perDossier or perRun is a registered
\* checker; a judged rule need not have one.
RuleFacts(rule, status, elsewhere, perDossier, perRun) ==
  CASE status = "retired" -> {}
    [] status = "draft" -> {<<rule, 0, "rule_draft">>}
    [] status = "active" /\ rule \in elsewhere -> {}
    [] status = "active" /\ rule \in DOMAIN perDossier \ elsewhere ->
         {<<rule, 0, perDossier[rule]>>}
    [] status = "active" /\ rule \in DOMAIN perRun \ elsewhere ->
         {<<rule, i, perRun[rule][i]>> : i \in DOMAIN perRun[rule]}
    [] OTHER -> {}

\* evaluate_ruleset: book gives each rule its status.
EvaluateRuleset(book, elsewhere, perDossier, perRun) ==
  UNION {RuleFacts(r, book[r], elsewhere, perDossier, perRun) : r \in DOMAIN book}

\* by_rule
ByRule(facts, rule) == {f \in facts : f[1] = rule}
=============================================================================
