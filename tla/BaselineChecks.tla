--------------------------- MODULE BaselineChecks --------------------------
(***************************************************************************)
(* The floors of the two specialists that read the transaction history     *)
(* (agents/log.py, agents/drift.py, agents/drift_stats.py).  Nearly every  *)
(* rule of theirs is judged: the floor measures, or says that there is too *)
(* little to measure.                                                      *)
(***************************************************************************)
EXTENDS Facts

LOCAL INSTANCE SequencesExt

ActiveIn(book, rules) == {r \in rules : r \in DOMAIN book /\ book[r] = "active"}

Drafts(book) == {<<r, 0, "rule_draft">> : r \in {q \in DOMAIN book : book[q] = "draft"}}

\* LogAgent.run: the three rules it was built on are all in force, or it does
\* nothing at all, whatever else is.
LogCore == {"LOGSTR01", "LOGCON01", "LOGVEL01"}
LogRules == LogCore \cup {"LOGRND01", "LOGLIM01"}

LogFacts(book, txns) ==
  IF ~(LogCore \subseteq ActiveIn(book, LogRules)) THEN {}
  ELSE {<<r, 0, IF txns = <<>> THEN "insufficient_history" ELSE "measured">> :
          r \in ActiveIn(book, LogRules)} \cup Drafts(book)
----------------------------------------------------------------------------
Sum(amounts) == FoldSeq(LAMBDA x, n : x + n, 0, amounts)
SumSquares(amounts) == FoldSeq(LAMBDA x, n : x * x + n, 0, amounts)

\* split_baseline: the rows before the cutoff.  Rows are in order of day.
Baseline(p, txns) == SelectSeq(txns, LAMBDA t : t.day < txns[1].day + p.baselineDays)

\* amount_shift: the means of two windows are more than limit deviations of
\* the first apart.  A window that never varies has no deviation to count in.
Shifted(a, b, limit) ==
  LET n == Len(a)
      m == Len(b)
      apart == Sum(b) * n - Sum(a) * m
      spread == n * SumSquares(a) - Sum(a) * Sum(a)
  IN  /\ spread > 0
      /\ apart * apart * (n - 1) > limit * limit * n * m * m * spread

\* baseline_stability: the baseline against itself, half against half.
Bas01(p, txns) ==
  LET rows == Baseline(p, txns)
      amounts == [i \in DOMAIN rows |-> rows[i].amount]
      half == Len(rows) \div 2
  IN  IF Len(rows) < 4 THEN "insufficient_history"
      ELSE Verdict(Shifted(SubSeq(amounts, 1, half),
                           SubSeq(amounts, half + 1, Len(rows)), p.maxBaselineZ))

\* DriftAgent.run
DriftFacts(book, p, txns) ==
  IF ActiveIn(book, {"DRIFTBHV01"}) = {} THEN {}
  ELSE IF Len(txns) < p.minTransactions THEN {<<"DRIFTBHV01", 0, "insufficient_history">>}
  ELSE {<<"DRIFTBHV01", 0, "measured">>}
       \cup {<<r, 0, Bas01(p, txns)>> : r \in ActiveIn(book, {"DRIFTBAS01"})}
=============================================================================
