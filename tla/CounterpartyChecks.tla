------------------------- MODULE CounterpartyChecks ------------------------
(***************************************************************************)
(* The computable rules on who was paid (agents/counterparty_checks.py,    *)
(* and the month's shares of agents/log_stats.py).  s.merchants is the     *)
(* regulator's register: a function from the merchants it holds to their   *)
(* records.  A transaction is a row [run, payee, ok, amount, day]; its run *)
(* is 0 when it is older than the window.                                  *)
(***************************************************************************)
EXTENDS MandateChecks

LOCAL INSTANCE FiniteSetsExt
LOCAL INSTANCE SequencesExt

\* build_context: the runs that paid each payee.
PaidRuns(runs, m) ==
  {i \in DOMAIN runs : HasCart(runs[i]) /\ HasPayment(runs[i]) /\ runs[i].merchant = m}

Payees(runs) == {m \in {runs[i].merchant : i \in DOMAIN runs} : PaidRuns(runs, m) # {}}

\* runs[-1] of a payee, oldest first.
LastPaid(runs, m) ==
  IF PaidRuns(runs, m) = {} THEN 0
  ELSE CHOOSE i \in PaidRuns(runs, m) : \A j \in PaidRuns(runs, m) :
         \/ runs[j].start < runs[i].start
         \/ runs[j].start = runs[i].start /\ j <= i

\* _unregistered: what is not on the register is Reg01's finding.
OnRegister(s, run, outcome) ==
  IF run.merchant \in DOMAIN s.merchants THEN outcome ELSE "no_registry_record"

\* _is_marketplace
IsMarketplace(m) == m.platform \/ "marketplace" \in m.flags
----------------------------------------------------------------------------
\* About a run.
Reg01(s, run) == WithCart(run, Verdict(run.merchant \notin DOMAIN s.merchants))

Sub01(s, run) ==
  WithCart(run, OnRegister(s, run,
    Verdict(IsMarketplace(s.merchants[run.merchant]) /\ ~run.discloses)))

\* The names the settlement account may be in.
Accepted(s, run) ==
  {run.merchantName} \cup IF run.merchant \in DOMAIN s.merchants
                          THEN s.merchants[run.merchant].names ELSE {}

Cop01(s, run) ==
  WithPayment(run, IF ~run.payee \/ run.payeeName = "unstated" THEN "missing_block"
                   ELSE Verdict(run.payeeName \notin Accepted(s, run)))

Cty01(run) ==
  WithPayment(run, IF ~run.payee THEN "missing_block"
                   ELSE Verdict(run.payeeCountry # run.country))

Lst01(s, p, run) ==
  WithCart(run, OnRegister(s, run,
    Verdict(s.merchants[run.merchant].flags \cap p.barringFlags # {})))
----------------------------------------------------------------------------
\* About the payees.  One nobody registered has no owner to miss.
Ben01(s, runs) ==
  Verdict(\E m \in Payees(runs) \cap DOMAIN s.merchants :
            \/ s.merchants[m].owner = "none"
            \/ "beneficial_owner_unresolved" \in s.merchants[m].flags)

\* new_payee_concentration: what each payee took of the latest month that
\* has in-window rows, declined rows included.
InWindow(txns) == SelectSeq(txns, LAMBDA t : t.run # 0)

Month(t) == t.day \div 30

LatestMonth(txns) ==
  LET last == Max({Month(InWindow(txns)[i]) : i \in DOMAIN InWindow(txns)})
  IN  SelectSeq(InWindow(txns), LAMBDA t : Month(t) = last)

Total(rows) == FoldSeq(LAMBDA t, n : t.amount + n, 0, rows)

\* Payees the register first saw in the window whose share reaches the dial.
NewPayees(s, p, txns) ==
  IF InWindow(txns) = <<>> THEN {}
  ELSE LET month == LatestMonth(txns)
           taken(m) == Total(SelectSeq(month, LAMBDA t : t.payee = m))
       IN  {m \in {month[i].payee : i \in DOMAIN month} \cap DOMAIN s.merchants :
              /\ s.merchants[m].firstSeen >= s.window.from
              /\ 100 * taken(m) >= p.newShare * Total(month)}

\* One fact for each, on the last run that paid it: a function from units.
\* Two payees no run paid would make the same fact, and the code stops there.
New01(s, p, runs, txns) ==
  IF txns = <<>> THEN [u \in {0} |-> "insufficient_history"]
  ELSE IF NewPayees(s, p, txns) = {} THEN [u \in {0} |-> "satisfied"]
  ELSE [u \in {LastPaid(runs, m) : m \in NewPayees(s, p, txns)} |-> "breach"]

\* One recipient under two ids: they share an account, or an owner who is
\* not the platform.
SameRecipient(s, a, b) ==
  \/ /\ a.payee /\ b.payee
     /\ a.payeeName = b.payeeName /\ a.payeeAccount = b.payeeAccount
  \/ /\ {a.merchant, b.merchant} \subseteq DOMAIN s.merchants
     /\ s.merchants[a.merchant].owner = s.merchants[b.merchant].owner
     /\ s.merchants[a.merchant].owner \notin {"none", "platform"}

Spl01(s, runs) ==
  LET paid == UNION {PaidRuns(runs, m) : m \in Payees(runs)}
  IN  Verdict(\E i, j \in paid : /\ runs[i].merchant # runs[j].merchant
                                 /\ SameRecipient(s, runs[i], runs[j]))

\* What the judged rules rest on: the timeline of declines, the profiles.
Dcl01(txns) == IF txns = <<>> THEN "insufficient_history" ELSE "measured"
Idn01 == "measured"

\* Payees with a declined row in the timeline.
Declining(txns) == {txns[i].payee : i \in {j \in DOMAIN txns : ~txns[j].ok}}
----------------------------------------------------------------------------
CounterpartyPerDossier(s, runs, txns) ==
  [CPTBEN01 |-> Ben01(s, runs), CPTSPL01 |-> Spl01(s, runs),
   CPTDCL01 |-> Dcl01(txns), CPTIDN01 |-> Idn01]

CounterpartyPerRun(s, p, runs, txns) ==
  LET each(check(_)) == [i \in DOMAIN runs |-> check(runs[i])]
  IN  [CPTREG01 |-> [i \in DOMAIN runs |-> Reg01(s, runs[i])],
       CPTSUB01 |-> [i \in DOMAIN runs |-> Sub01(s, runs[i])],
       CPTCOP01 |-> [i \in DOMAIN runs |-> Cop01(s, runs[i])],
       CPTCTY01 |-> each(Cty01),
       CPTLST01 |-> [i \in DOMAIN runs |-> Lst01(s, p, runs[i])],
       CPTNEW01 |-> New01(s, p, runs, txns)]
=============================================================================
