---------------------------- MODULE MandateChecks ---------------------------
(***************************************************************************)
(* The computable rules on the mandate chain (agents/mandate_checks.py and *)
(* the chain half of ingestion/verify.py): was each run within what its    *)
(* shopper signed.  Every rule is about a run.  A run is a flat record; a  *)
(* field a rule does not read is not looked at.                            *)
(***************************************************************************)
EXTENDS Facts

LOCAL INSTANCE FiniteSetsExt

\* How far a run came: "completed" runs have a cart and a payment, a blocked
\* run has no payment.
HasCart(run) == run.outcome \in {"completed", "blocked", "abandoned"}
HasPayment(run) == run.outcome = "completed"

\* _no_cart, _no_payment
WithCart(run, outcome) == IF HasCart(run) THEN outcome ELSE "out_of_scope"
WithPayment(run, outcome) == IF HasPayment(run) THEN outcome ELSE "out_of_scope"
WithBoth(run, outcome) == WithCart(run, WithPayment(run, outcome))

\* What the ledger shows settled for a run.
Settled(run) == IF run.ledger = "settled" THEN run.amount ELSE 0

\* Mutant: the draws are those under review.
DrawsInView(runs, related, run) == {r \in runs : r.intent = run.intent}

\* runs_by_intent: every run drawn on a mandate, those a scoped look leaves
\* out included.
Draws(runs, related, run) == {r \in runs \cup related : r.intent = run.intent}
----------------------------------------------------------------------------
Cap01(run) == WithCart(run, Verdict(run.total > run.cap))
Cap02(run) == WithCart(run, Verdict(run.mcc = "other"))

\* An empty allowlist is no deny-all: the category decides.
Cap03(run) == WithCart(run, IF run.allowlist = "empty" THEN "out_of_scope"
                            ELSE Verdict(run.allowlist = "elsewhere"))

Cap04(run) == WithCart(run, IF run.region = "unstated" THEN "missing_block"
                            ELSE Verdict(run.region \notin run.geography))

Use01(runs, related, run) ==
  LET earlier == {r \in Draws(runs, related, run) : r.start < run.start /\ r.id # run.id}
  IN  IF run.usage = "unstated" THEN "missing_block"
      ELSE Verdict(\/ run.usage = "single_use" /\ earlier # {}
                   \/ run.uses > run.maxUses)

\* The cap is the mandate's: it bounds what was settled by every draw on it
\* up to this one.  Runs that started together count for each other.
Cap05(runs, related, run) ==
  WithPayment(run,
    LET draws == {r \in Draws(runs, related, run) : r.start <= run.start /\ HasPayment(r)}
    IN  Verdict(MapThenSumSet(Settled, draws) > run.cumulativeCap))

Con01(run) == WithBoth(run, Verdict(run.amount # run.total))
Cur01(run) == WithCart(run, Verdict(run.cartCurrency # run.scopeCurrency))
Cur02(run) == WithBoth(run, Verdict(run.payCurrency # run.cartCurrency))
Val01(run) == WithPayment(run, Verdict(run.authorised \notin run.window))
----------------------------------------------------------------------------
\* chain_link_facts: signatures and links of the run as it was filed.  A
\* mandate that is not there is not checked.
Sig01(run) == Verdict(\/ run.forged = "intent"
                      \/ run.forged = "cart" /\ HasCart(run)
                      \/ run.forged = "payment" /\ HasPayment(run))

\* An artifact altered after the next one was linked to it.
ChnCart(run) == WithCart(run, Verdict(run.relinked = "intent"))
ChnPayment(run) == WithBoth(run, Verdict(run.relinked = "cart"))

\* _sem_01_measurement: what the judged rule rests on.
SemRuns(runs) == {r \in DOMAIN runs : HasCart(runs[r])}

\* runs is the sequence under review, related the other draws on its mandates.
MandatePerRun(runs, related) ==
  LET under == {runs[i] : i \in DOMAIN runs}
      each(check(_)) == [i \in DOMAIN runs |-> check(runs[i])]
  IN  [MNDCAP01 |-> each(Cap01), MNDCAP02 |-> each(Cap02), MNDCAP03 |-> each(Cap03),
       MNDCAP04 |-> each(Cap04),
       MNDCAP05 |-> [i \in DOMAIN runs |-> Cap05(under, related, runs[i])],
       MNDUSE01 |-> [i \in DOMAIN runs |-> Use01(under, related, runs[i])],
       MNDCON01 |-> each(Con01), MNDCUR01 |-> each(Cur01), MNDCUR02 |-> each(Cur02),
       MNDVAL01 |-> each(Val01), MNDSIG01 |-> each(Sig01),
       MNDCHN01 |-> each(ChnCart), MNDCHN02 |-> each(ChnPayment),
       MNDSEM01 |-> [i \in SemRuns(runs) |-> "measured"]]
=============================================================================
