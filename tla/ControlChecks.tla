---------------------------- MODULE ControlChecks --------------------------
(***************************************************************************)
(* The computable rules on a firm's own controls (agents/control_checks.py *)
(* and agents/control_assurance.py).  s.controls gives each declared       *)
(* control its [risk, enforcement, versioned]; a run holds the evaluations *)
(* [control, outcome, override] it recorded.  peers gives each run the     *)
(* failures the other specialists established.                             *)
(***************************************************************************)
EXTENDS MandateChecks

LOCAL INSTANCE FiniteSetsExt
LOCAL INSTANCE SequencesExt

\* _no_evaluations
Evaluated(run, outcome) == IF run.evals = {} THEN "out_of_scope" ELSE outcome

\* _triggered_blocking
TriggeredBlocking(s, run) ==
  {e \in run.evals : /\ e.outcome = "triggered"
                     /\ e.control \in DOMAIN s.controls
                     /\ s.controls[e.control].enforcement = "blocking"}

Overridden(evals) == {e \in evals : e.override # "none"}
----------------------------------------------------------------------------
\* The repository.
Rep01(s) == Verdict(DOMAIN s.controls = {})
Rep02(s, p) ==
  Verdict(~(p.requiredRisks \subseteq {s.controls[c].risk : c \in DOMAIN s.controls}))
Rep03(s) == Verdict(\E c \in DOMAIN s.controls : ~s.controls[c].versioned)
Rep04(s) == Verdict(\E c \in DOMAIN s.controls :
                      s.controls[c].enforcement \notin {"blocking", "advisory"})

\* The disposition of a run.  Money that moved past no control at all is
\* Dis01's; one that was stopped without any is nobody's.
Dis01(run) == IF run.evals = {} /\ ~HasPayment(run) THEN "out_of_scope"
              ELSE Verdict(run.evals = {})

Dis02(run) == Evaluated(run,
  Verdict(\E e \in run.evals : e.outcome \notin {"passed", "triggered", "not_evaluated"}))

Dis03(run) == Evaluated(run, Verdict(\E e \in run.evals : e.override = "anonymous"))

\* It fired, nobody overrode it, and the payment went through.
Dis04(s, run) ==
  LET blocking == TriggeredBlocking(s, run)
  IN  Verdict(blocking # Overridden(blocking) /\ HasPayment(run))

\* RISK_EVIDENCE: the failures that prove a risk came about.
RiskEvidence(risk) ==
  CASE risk \in {"stated_budget_cap", "per_transaction_cap"} -> {"F42"}
    [] risk = "category_match" -> {"F44"}
    [] risk = "counterparty_allowlist" -> {"F45"}
    [] risk \in {"shopper_confirmation", "buyer_confirmation_required"} -> {"F24"}
    [] risk = "mandate_single_use" -> {"F50"}
    [] risk = "cumulative_cap" -> {"F43"}
    [] OTHER -> {}

\* A control that passed where its own risk came about.
Silent(s, run, found) ==
  {e \in run.evals : /\ e.control \in DOMAIN s.controls /\ e.outcome = "passed"
                     /\ RiskEvidence(s.controls[e.control].risk) \cap found # {}}

Eff01(s, run, found) == Evaluated(run, Verdict(Silent(s, run, found) # {}))

Eff02(run) == Evaluated(run,
  Verdict(\E e \in run.evals : e.override \in {"anonymous", "unreasoned"}))

\* A rate over a handful of evaluations is noise, and over none triggered
\* it has no denominator.
Eff03(runs, p) ==
  LET number(evals(_)) == MapThenSumSet(LAMBDA i : Cardinality(evals(i)), DOMAIN runs)
      all == number(LAMBDA i : runs[i].evals)
      triggered(i) == {e \in runs[i].evals : e.outcome = "triggered"}
      overridden(i) == Overridden(triggered(i))
  IN  IF all < p.minEvaluations THEN "insufficient_history"
      ELSE IF number(triggered) = 0 THEN "out_of_scope"
      ELSE Verdict(100 * number(overridden) > p.maxOverrideRate * number(triggered))

\* The overridden half of Dis04's case; a run may hold one control of each.
Eff04(s, run) ==
  Verdict(Overridden(TriggeredBlocking(s, run)) # {} /\ HasPayment(run))

\* The log: it covers the period, is committed to, and reconciles.
Log01(s, p, runs) ==
  LET days == SetToSortSeq({runs[i].start : i \in DOMAIN runs}, <)
      all == <<s.window.from>> \o days \o <<s.window.to>>
  IN  Verdict(\E i \in 1 .. Len(all) - 1 : all[i + 1] - all[i] > p.maxGap)

Log02(s) == Verdict(~s.indexed)

Log03(runs, txns) ==
  LET logged == {txns[i].run : i \in DOMAIN txns} \ {0}
      completed == {i \in DOMAIN runs : runs[i].outcome = "completed"}
  IN  Verdict(~(logged \subseteq DOMAIN runs) \/ ~(completed \subseteq logged))
----------------------------------------------------------------------------
\* The failures the rules that are keyed to a risk establish.
Failures ==
  [MNDCAP01 |-> {"F42"}, MNDCAP05 |-> {"F43"}, MNDCAP02 |-> {"F44"},
   MNDCAP03 |-> {"F45"}, CNSPRS01 |-> {"F24"}, MNDUSE01 |-> {"F50"}]

\* peers_from_facts: what the latest result of each rule says of run i.
PeersFound(latest, i) ==
  UNION {Failures[f[1]] : f \in {g \in latest : /\ g[2] = i /\ g[3] = "breach"
                                                /\ g[1] \in DOMAIN Failures}}

Assessed(recorded, i) ==
  UNION {Failures[a.rule] : a \in {b \in recorded : /\ b.verdict = "breach" /\ i \in b.runs
                                                    /\ b.rule \in DOMAIN Failures}}

\* Mutant: the peers' assessments say all there is to know.
PeersAssessed(recorded, latest, i) == Assessed(recorded, i)

\* peers_from_evidence: and what any assessment on the record says of it.
PeersEvidence(recorded, latest, i) == PeersFound(latest, i) \cup Assessed(recorded, i)

\* classify_postures: what a control turned out to be on the run.
Posture(s, run, found, control) ==
  LET held(e) == e.override = "none"
      of(evals) == {e \in evals : e.control = control}
      blocking == of(TriggeredBlocking(s, run))
  IN  CASE (\E e \in blocking : held(e)) /\ HasPayment(run) -> "failed"
        [] (\E e \in blocking : held(e)) /\ ~HasPayment(run) -> "effective"
        [] (\E e \in blocking : ~held(e)) /\ HasPayment(run) -> "bypassed"
        [] of(Silent(s, run, found)) # {} -> "ineffective"
        [] OTHER -> "unremarked"

ControlPerDossier(s, p, runs, txns) ==
  [CTLREP01 |-> Rep01(s), CTLREP02 |-> Rep02(s, p), CTLREP03 |-> Rep03(s),
   CTLREP04 |-> Rep04(s), CTLEFF03 |-> Eff03(runs, p), CTLLOG01 |-> Log01(s, p, runs),
   CTLLOG02 |-> Log02(s), CTLLOG03 |-> Log03(runs, txns)]

ControlPerRun(s, runs, found) ==
  LET each(check(_)) == [i \in DOMAIN runs |-> check(runs[i])]
  IN  [CTLDIS01 |-> each(Dis01), CTLDIS02 |-> each(Dis02), CTLDIS03 |-> each(Dis03),
       CTLEFF02 |-> each(Eff02),
       CTLDIS04 |-> [i \in DOMAIN runs |-> Dis04(s, runs[i])],
       CTLEFF01 |-> [i \in DOMAIN runs |-> Eff01(s, runs[i], found[i])],
       CTLEFF04 |-> [i \in DOMAIN runs |-> Eff04(s, runs[i])]]
=============================================================================
