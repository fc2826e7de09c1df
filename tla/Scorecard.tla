------------------------------ MODULE Scorecard ----------------------------
(***************************************************************************)
(* One rulebook measured on a labelled dossier, and two such measurements  *)
(* compared (sandbox/sweep.py, sandbox/store.py).  A book gives each rule  *)
(* its status, its evaluation and the failures it establishes; a label is  *)
(* a planted failure, as <<unit, failure>>.                                *)
(***************************************************************************)
EXTENDS Facts

Owners(book, failure) ==
  {r \in DOMAIN book : book[r].status # "retired" /\ failure \in book[r].failures}

\* Mutant: a failure that no rule declares is the model's to establish.
JudgedByDefault(book, failure) ==
  \A r \in Owners(book, failure) : book[r].evaluation = "judged"

\* judged_only_failures: what no mechanical sweep can establish.
JudgedOnly(book, failure) ==
  /\ Owners(book, failure) # {}
  /\ \A r \in Owners(book, failure) : book[r].evaluation = "judged"

\* _scoped_key: a failure of more than one run is counted once.
ScopedKey(claim, once) ==
  <<IF claim[2] \in once THEN 0 ELSE claim[1], claim[2]>>

Metrics(expected, detected) ==
  [tp |-> Cardinality(expected \cap detected), fp |-> Cardinality(detected \ expected),
   fn |-> Cardinality(expected \ detected)]

\* run_sweep: what the labels expect and what the facts come to, and, of a
\* live sweep, the verdicts on the failures only a model can establish.
RunSweep(book, facts, verdicts, planted, clean, live, once) ==
  LET judgedOnly == {x \in UNION {book[r].failures : r \in DOMAIN book} : JudgedOnly(book, x)}
      scored(x) == live \/ x \notin judgedOnly
      breaches(r) == {f \in facts : f[1] = r /\ f[3] = "breach"}
      against(r) == {a \in verdicts : live /\ a.rule = r /\ a.verdict = "breach"}
      units(a) == IF a.runs = {} THEN {0} ELSE a.runs
      byRule == [r \in DOMAIN book |->
                   {ScopedKey(<<f[2], x>>, once) :
                      f \in breaches(r), x \in {y \in book[r].failures : scored(y)}}
                   \cup {ScopedKey(<<i, x>>, once) :
                           i \in UNION {units(a) : a \in against(r)},
                           x \in book[r].failures \cap judgedOnly}]
  IN  [expected |-> {ScopedKey(p, once) : p \in {q \in planted : scored(q[2])}},
       detected |-> UNION {byRule[r] : r \in DOMAIN book},
       byRule |-> byRule,
       fired |-> [r \in DOMAIN book |-> Cardinality(breaches(r)) + Cardinality(against(r))],
       cleanHits |-> [r \in DOMAIN book |-> clean \cap
                        ({f[2] : f \in breaches(r)} \cup UNION {a.runs : a \in against(r)})],
       excluded |-> {p \in planted : ~scored(p[2])},
       judgedOnly |-> judgedOnly]

\* _dossier_outcome: a dossier with a defect planted is not to be authorised.
DossierOutcome(disposition, planted) ==
  [actual |-> disposition,
   correct |-> IF planted = {} THEN disposition = "authorise"
               ELSE disposition \in {"refuse", "monitor", "incomplete-submission"}]

\* _assemble: the scorecard.
Assemble(book, sweep, outcome, clean) ==
  [overall |-> Metrics(sweep.expected, sweep.detected),
   perRule |-> [r \in DOMAIN book |->
                  [status |-> book[r].status, fired |-> sweep.fired[r],
                   cleanHits |-> sweep.cleanHits[r],
                   metrics |-> Metrics({k \in sweep.expected : k[2] \in book[r].failures},
                                       sweep.byRule[r])]],
   cleanFalse |-> {i \in clean : \E k \in sweep.detected : k[1] = i},
   missed |-> sweep.expected \ sweep.detected,
   unexpected |-> sweep.detected \ sweep.expected,
   dead |-> {r \in DOMAIN book : book[r].status = "active" /\ sweep.fired[r] = 0},
   notScoreable |-> sweep.excluded,
   judgedOnly |-> sweep.judgedOnly,
   dossier |-> outcome]

\* compare: what the candidate changed.
Compare(base, candidate) ==
  [caught |-> base.missed \ candidate.missed,
   lost |-> candidate.missed \ base.missed,
   newFalse |-> candidate.unexpected \ base.unexpected,
   fixedFalse |-> base.unexpected \ candidate.unexpected,
   judged |-> base.judgedOnly \cup candidate.judgedOnly,
   rules |-> {r \in DOMAIN base.perRule \cup DOMAIN candidate.perRule :
                \/ r \notin DOMAIN base.perRule \/ r \notin DOMAIN candidate.perRule
                \/ base.perRule[r] # candidate.perRule[r]},
   dispositions |-> IF base.dossier.actual = candidate.dossier.actual THEN {}
                    ELSE {<<base.dossier.actual, candidate.dossier.actual>>}]
=============================================================================
