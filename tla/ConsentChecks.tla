---------------------------- MODULE ConsentChecks ---------------------------
(***************************************************************************)
(* The computable rules on consent (agents/consent_checks.py): was the     *)
(* shopper there, and was what the screen showed what was signed.  Every   *)
(* rule is about a run.                                                    *)
(***************************************************************************)
EXTENDS MandateChecks

\* _no_ceremony: rules that read the ceremony have nothing to read.
AtCeremony(run, outcome) == IF run.ceremony THEN outcome ELSE "out_of_scope"

\* _not_completed
Completed(run, outcome) == IF run.outcome = "completed" THEN outcome ELSE "out_of_scope"

Stated(value, outcome) == IF value = "unstated" THEN "missing_block" ELSE outcome

Prs01(run) ==
  Completed(run, Verdict(run.presenceRequired /\ ~(run.ceremony /\ run.occurred)))

Rec01(run) == Completed(run, IF run.ceremony THEN "satisfied" ELSE "missing_block")

Prn01(run) == AtCeremony(run, Stated(run.confirmedBy,
                                     Verdict(run.confirmedBy # run.principal)))

Mth01(run, p) == AtCeremony(run, Stated(run.method, Verdict(run.method \notin p.methods)))

\* What was shown is compared field by field; line items only if any were.
ShownDiffers(run) == run.shown \in {"amount", "merchant", "items"}

Rnd01(run) ==
  AtCeremony(run, WithCart(run,
    IF run.authority # "per_transaction" THEN "out_of_scope"
    ELSE Stated(run.shown, Verdict(ShownDiffers(run)))))

Rnd02(run) == AtCeremony(run, Stated(run.shown,
                Stated(run.capsShown, Verdict(run.capsShown = "other"))))

Scp01(run) == AtCeremony(run, Stated(run.consented, Verdict(run.consented # run.purpose)))

\* Consent lies between the Intent and the payment, if there is one.
Frs01(run) ==
  AtCeremony(run, IF run.consentAt = NoDay THEN "missing_block"
                  ELSE Verdict(\/ run.consentAt < run.issued
                               \/ HasPayment(run) /\ run.consentAt > run.authorised))

Std01(run) == AtCeremony(run, Stated(run.usage,
                Verdict(run.authority = "standing_authority" /\ run.usage = "single_use")))

\* _vfm_01: evidence for the judgement, or the gap; a run without a cart has
\* neither.
Vfm01(run) == IF run.alternatives THEN "measured" ELSE "missing_block"

ConsentPerRun(runs, p) ==
  LET each(check(_)) == [i \in DOMAIN runs |-> check(runs[i])]
  IN  [CNSPRS01 |-> each(Prs01), CNSREC01 |-> each(Rec01), CNSPRN01 |-> each(Prn01),
       CNSMTH01 |-> [i \in DOMAIN runs |-> Mth01(runs[i], p)],
       CNSRND01 |-> each(Rnd01), CNSRND02 |-> each(Rnd02), CNSSCP01 |-> each(Scp01),
       CNSFRS01 |-> each(Frs01), CNSSTD01 |-> each(Std01),
       CNSVFM01 |-> [i \in SemRuns(runs) |-> Vfm01(runs[i])]]
=============================================================================
