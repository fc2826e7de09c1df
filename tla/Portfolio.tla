------------------------------ MODULE Portfolio ----------------------------
(***************************************************************************)
(* The sweeps over every submission on the ledger (agents/systemic.py).  A *)
(* portfolio is a function from cases to [window, runs, txns, clashing];   *)
(* a finding names its failure, its subject and the cases it spans.  The   *)
(* correlation of daily counts is arithmetic over months of days: clashing *)
(* holds the cases a dossier moves together with.                          *)
(***************************************************************************)
EXTENDS Facts

LOCAL INSTANCE SequencesExt
LOCAL INSTANCE FiniteSetsExt

Finding(failure, subject, cases) ==
  [failure |-> failure, subject |-> subject, cases |-> cases]

\* _spend_by_counterparty
SettledRows(d) == SelectSeq(d.txns, LAMBDA t : t.run # 0 /\ t.ok)
Spend(d, m) ==
  FoldSeq(LAMBDA t, n : (IF t.payee = m THEN t.amount ELSE 0) + n, 0, SettledRows(d))
AllSpend(d) == FoldSeq(LAMBDA t, n : t.amount + n, 0, SettledRows(d))
PaidBy(d) == {SettledRows(d)[i].payee : i \in DOMAIN SettledRows(d)}

\* shared_counterparty_concentration: narrow, deep and recent, at firms that
\* have nothing else in common.
SharedPayees(portfolio, merchants, p) ==
  LET deep(m) == {c \in DOMAIN portfolio :
                    /\ m \in PaidBy(portfolio[c])
                    /\ 100 * Spend(portfolio[c], m) >= p.minShare * AllSpend(portfolio[c])}
      newest == Max({portfolio[c].window.to : c \in DOMAIN portfolio})
      recent(m) == m \in DOMAIN merchants /\ newest - merchants[m].firstSeen <= p.recentDays
  IN  {Finding("F57", m, deep(m)) :
         m \in {n \in UNION {PaidBy(portfolio[c]) : c \in DOMAIN portfolio} :
                  Cardinality(deep(n)) >= p.minOperators /\ recent(n)}}

\* model_monoculture
Monocultures(portfolio, p) ==
  LET models(c) == {portfolio[c].runs[i].observed : i \in DOMAIN portfolio[c].runs}
      users(v) == {c \in DOMAIN portfolio : v \in models(c)}
  IN  {Finding("F67", v, users(v)) :
         v \in {w \in UNION {models(c) : c \in DOMAIN portfolio} :
                  100 * Cardinality(users(w)) >= p.maxShare * Cardinality(DOMAIN portfolio)}}

\* shared_attack_content: once one excerpt has been read, its digest is enough.
SharedAttacks(portfolio, p) ==
  LET excerpts(c) == UNION {portfolio[c].runs[i].excerpts : i \in DOMAIN portfolio[c].runs}
      poisoned == {e.digest : e \in {f \in UNION {excerpts(c) : c \in DOMAIN portfolio} :
                                       f.text = "instruction"}}
      targets(x) == {c \in DOMAIN portfolio : \E e \in excerpts(c) : e.digest = x}
  IN  {Finding("F69", x, targets(x)) :
         x \in {y \in poisoned : Cardinality(targets(y)) >= p.minOperators}}

\* behavioural_correlation: one finding for each pair.
Correlated(portfolio) ==
  {Finding("F68", "daily counts", {c, portfolio[c].clashing}) :
     c \in {d \in DOMAIN portfolio : portfolio[d].clashing \in DOMAIN portfolio \ {d}}}

\* sweep: the rules of the book that are in force, over two submissions or
\* more.  With one there is no portfolio, and none is claimed.
Sweep(portfolio, book, merchants, p) ==
  LET on(rule, findings) == IF book[rule] = "active" THEN findings ELSE {}
  IN  IF Cardinality(DOMAIN portfolio) < 2 THEN {}
      ELSE UNION {on("SYSCPT01", SharedPayees(portfolio, merchants, p)),
                  on("SYSMDL01", Monocultures(portfolio, p)),
                  on("SYSPAY01", SharedAttacks(portfolio, p)),
                  on("SYSCOR01", Correlated(portfolio))}
=============================================================================
