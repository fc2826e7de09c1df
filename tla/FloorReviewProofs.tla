-------------------------- MODULE FloorReviewProofs ------------------------
(***************************************************************************)
(* What every review of a case keeps, whatever the case, the answers the   *)
(* models give, the order of the passes, the changes of the registers and  *)
(* the rules taken out in between: the properties of FloorReview that a    *)
(* run checks on some cases, for all of them.                              *)
(*                                                                         *)
(* What one pass may put on the record is settled first (Entry), from what *)
(* its facts can be (FloorFactsProofs) and what the floor, a model's       *)
(* answer, validation and clearing make of them; then what holds of a      *)
(* record of any number of passes, with what later ones took back          *)
(* (AuthorisationProofs).                                                  *)
(***************************************************************************)
EXTENDS FloorFactsProofs, AuthorisationProofs

\* The fields of a claim before it is recorded
ClaimFields == AllFields \ {"agent"}

\* What an assessment may come to (schemas, Verdict).
Verdicts == {"breach", "explained", "clear", "concern", "inconclusive"}

\* A claim of the right shape about runs that were looked at.
Formed(a, seen) ==
  /\ DOMAIN a = ClaimFields
  /\ a.runs \subseteq seen /\ a.verdict \in Verdicts

\* Claims are about runs that were looked at.
LEMMA UnitsSeen ==
  ASSUME NEW facts, NEW seen, Sound(facts, seen), NEW some, some \subseteq facts
  PROVE  Units(some) \subseteq seen
BY DEF Units, Sound

\* What a claim rests on.
Ids(facts) == {Id(f) : f \in facts}

\* The breaches of a rule that the firm's controls stopped, and the others.
Held(facts, contained, r) ==
  {f \in facts : f[3] = "breach" /\ f[1] = r /\ f[2] \in contained}
Open(facts, contained, r) ==
  {f \in facts : f[3] = "breach" /\ f[1] = r /\ f[2] \notin contained}

\* A rule with a breach has a claim for the runs where it was open and one
\* for those where a control stopped it (assess.py, floor_assessments).
LEMMA FloorIs ==
  ASSUME NEW facts, NEW contained, NEW a
  PROVE  a \in FloorAssessments(facts, contained) <=>
         \E r \in Rules({f \in facts : f[3] = "breach"}) :
            \/ /\ Open(facts, contained, r) # {}
               /\ a = Claim(r, "breach", Units(Open(facts, contained, r)),
                    Ids(Open(facts, contained, r)))
            \/ /\ Held(facts, contained, r) # {}
               /\ a = Claim(r, "explained", Units(Held(facts, contained, r)),
                    Ids(Held(facts, contained, r)))
<1>. DEFINE breaches == {f \in facts : f[3] = "breach"}
            held(r) == {f \in breaches : f[1] = r /\ f[2] \in contained}
            open(r) == {f \in breaches : f[1] = r /\ f[2] \notin contained}
<1>1. FloorAssessments(facts, contained)
      = {Claim(r, "breach", Units(open(r)), Ids(open(r))) :
        r \in {q \in Rules(breaches) : open(q) # {}}}
        \cup {Claim(r, "explained", Units(held(r)), Ids(held(r))) :
          r \in {q \in Rules(breaches) : held(q) # {}}}
  BY DEF FloorAssessments, Ids
<1>2. \A r : open(r) = Open(facts, contained, r) /\ held(r) = Held(facts, contained, r)
  BY DEF Open, Held
<1>. HIDE DEF open, held
<1>. QED
  BY <1>1, <1>2

\* A breach is claimed of the runs that have it.
Borne(a, facts) ==
  a.verdict = "breach" =>
    \A i \in a.runs : \E f \in facts : f[1] = a.rule /\ f[2] = i /\ f[3] = "breach"

\* What the floor says: breaches, and what the firm's control stopped.
LEMMA FloorClaims ==
  ASSUME NEW facts, NEW contained, NEW seen, Sound(facts, seen),
         NEW a \in FloorAssessments(facts, contained)
  PROVE  /\ Formed(a, seen) /\ a.verdict \in {"breach", "explained"}
         /\ a.cites # {} /\ a.cites \subseteq Ids(facts)
         /\ \E f \in facts : f[1] = a.rule /\ f[3] = "breach"
         /\ Borne(a, facts)
<1>1. ASSUME NEW r, NEW some, some # {},
             some \subseteq {f \in facts : f[1] = r /\ f[3] = "breach"},
             NEW verdict \in {"breach", "explained"}, a
               = Claim(r, verdict, Units(some), Ids(some))
      PROVE  /\ Formed(a, seen) /\ a.verdict \in {"breach", "explained"}
             /\ a.cites # {} /\ a.cites \subseteq Ids(facts)
             /\ \E f \in facts : f[1] = a.rule /\ f[3] = "breach"
             /\ Borne(a, facts)
  <2>1. Units(some) \subseteq seen
    BY <1>1, UnitsSeen
  <2>2. /\ DOMAIN a = ClaimFields
        /\ a.rule = r /\ a.verdict = verdict /\ a.runs = Units(some) /\ a.cites = Ids(some)
    BY <1>1 DEF Claim, ClaimFields, AllFields
  <2>3. Formed(a, seen)
    BY <2>1, <2>2 DEF Formed, Verdicts
  <2>4. Ids(some) # {} /\ Ids(some) \subseteq Ids(facts)
    BY <1>1 DEF Ids
  <2>5. Borne(a, facts)
    <3>1. \A i \in Units(some) : \E f \in some : f[2] = i
      BY DEF Units
    <3>. QED
      BY <1>1, <2>2, <3>1 DEF Borne
  <2>. QED
    BY <1>1, <2>2, <2>3, <2>4, <2>5
<1>2. PICK r \in Rules({f \in facts : f[3] = "breach"}) :
        \/ /\ Open(facts, contained, r) # {}
           /\ a = Claim(r, "breach", Units(Open(facts, contained, r)),
                Ids(Open(facts, contained, r)))
        \/ /\ Held(facts, contained, r) # {}
           /\ a = Claim(r, "explained", Units(Held(facts, contained, r)),
                Ids(Held(facts, contained, r)))
  BY FloorIs
<1>3. /\ Open(facts, contained, r) \subseteq {f \in facts : f[1] = r /\ f[3] = "breach"}
      /\ Held(facts, contained, r) \subseteq {f \in facts : f[1] = r /\ f[3] = "breach"}
  BY DEF Open, Held
<1>. QED
  BY <1>1, <1>2, <1>3

\* A claim that speaks for a breach: of its rule, citing it, and of its run
\* if the rule is of runs.
Supports(a, f) ==
  /\ a.rule = f[1] /\ Id(f) \in a.cites /\ a.verdict \in {"breach", "explained", "concern"}
  /\ IF f[1] \in OfRun THEN a.scope = "run" /\ f[2] \in a.runs ELSE a.scope = "case"

\* Every breach has its claim.
LEMMA BreachClaimed ==
  ASSUME NEW facts, NEW contained, NEW seen, 0 \notin seen, Sound(facts, seen),
         NEW f \in facts, f[3] = "breach", f[1] # "CPTNEW01"
  PROVE  \E a \in FloorAssessments(facts, contained) : Supports(a, f)
<1>1. ASSUME NEW some, f \in some, some \subseteq {g \in facts : g[1] = f[1] /\ g[3] = "breach"},
             NEW verdict \in {"breach", "explained"}
      PROVE  Supports(Claim(f[1], verdict, Units(some), Ids(some)), f)
  <2>. DEFINE a == Claim(f[1], verdict, Units(some), Ids(some))
  <2>1. /\ a.rule = f[1] /\ a.verdict = verdict /\ a.runs = Units(some)
        /\ a.cites = Ids(some)
        /\ Units(some) = {} => a.scope = "case"
        /\ Units(some) # {} => a.scope = "run"
    BY DEF Claim
  <2>. HIDE DEF a
  <2>2. Id(f) \in a.cites
    BY <1>1, <2>1 DEF Ids
  <2>3. CASE f[1] \in OfRun
    <3>1. f[2] \in seen
      BY <2>3 DEF Sound, Settled
    <3>2. f[2] \in Units(some)
      BY <1>1, <3>1 DEF Units
    <3>. QED
      BY <2>1, <2>2, <2>3, <3>2 DEF Supports, a
  <2>4. CASE f[1] \notin OfRun
    <3>1. \A g \in some : g[2] = 0
      BY <1>1, <2>4 DEF Sound, Settled
    <3>2. Units(some) = {}
      BY <3>1 DEF Units
    <3>. QED
      BY <2>1, <2>2, <2>4, <3>2 DEF Supports, a
  <2>. QED
    BY <2>3, <2>4
<1>2. f[1] \in Rules({g \in facts : g[3] = "breach"})
  BY DEF Rules
<1>3. /\ Open(facts, contained, f[1]) \subseteq {g \in facts : g[1] = f[1] /\ g[3] = "breach"}
      /\ Held(facts, contained, f[1]) \subseteq {g \in facts : g[1] = f[1] /\ g[3] = "breach"}
      /\ f \in Open(facts, contained, f[1]) \/ f \in Held(facts, contained, f[1])
  BY DEF Open, Held
<1>4. CASE f \in Held(facts, contained, f[1])
  <2>. DEFINE a == Claim(f[1], "explained", Units(Held(facts, contained, f[1])),
                Ids(Held(facts, contained, f[1])))
  <2>1. a \in FloorAssessments(facts, contained)
    BY <1>2, <1>4, FloorIs
  <2>2. Supports(a, f)
    BY <1>1, <1>3, <1>4
  <2>. QED
    BY <2>1, <2>2
<1>5. CASE f \in Open(facts, contained, f[1])
  <2>. DEFINE a == Claim(f[1], "breach", Units(Open(facts, contained, f[1])),
                Ids(Open(facts, contained, f[1])))
  <2>1. a \in FloorAssessments(facts, contained)
    BY <1>2, <1>5, FloorIs
  <2>2. Supports(a, f)
    BY <1>1, <1>3, <1>5
  <2>. QED
    BY <2>1, <2>2
<1>. QED
  BY <1>3, <1>4, <1>5

\* What is missing is a concern that no rule backs.
LEMMA GapClaims ==
  ASSUME NEW facts, NEW seen, Sound(facts, seen), NEW a \in DataGaps(facts)
  PROVE  /\ Formed(a, seen) /\ a.rule = "" /\ a.verdict = "concern"
         /\ a.cites # {} /\ a.cites \subseteq Ids(facts)
<1>. DEFINE of(reason, name) ==
              {f \in {g \in facts : g[3] \in {"missing_block", "insufficient_history"}} :
                                   f[3] = reason /\ Missing(f[1]) = name}
<1>1. DataGaps(facts)
      = {Concern(Missing(g[1]), Units(of(g[3], Missing(g[1]))), Ids(of(g[3], Missing(g[1])))) :
           g \in {h \in facts : h[3] \in {"missing_block", "insufficient_history"}}}
  BY DEF DataGaps, Ids
<1>2. PICK g \in facts : /\ g[3] \in {"missing_block", "insufficient_history"}
                         /\ a = Concern(Missing(g[1]), Units(of(g[3], Missing(g[1]))),
                              Ids(of(g[3], Missing(g[1]))))
  BY <1>1
<1>3. PICK some : /\ some \subseteq facts /\ some # {}
                  /\ a = Concern(Missing(g[1]), Units(some), Ids(some))
  <2>1. g \in of(g[3], Missing(g[1])) /\ of(g[3], Missing(g[1])) \subseteq facts
    BY <1>2
  <2>. HIDE DEF of
  <2>. QED
    BY <1>2, <2>1
<1>4. Units(some) \subseteq seen
  BY <1>3, UnitsSeen
<1>5. /\ DOMAIN a = ClaimFields
      /\ a.rule = "" /\ a.verdict = "concern" /\ a.runs = Units(some) /\ a.cites = Ids(some)
  BY <1>3 DEF Concern, Claim, ClaimFields, AllFields
<1>6. Ids(some) # {} /\ Ids(some) \subseteq Ids(facts)
  BY <1>3 DEF Ids
<1>. QED
  BY <1>4, <1>5, <1>6 DEF Formed, Verdicts

\* What a pass assesses before a model is asked: on the strength of facts it
\* cites, and of a rule only where the rule has a breach.
Grounded(a, facts, seen) ==
  /\ Formed(a, seen)
  /\ a.verdict \in {"breach", "explained", "concern"}
  /\ a.cites # {} /\ a.cites \subseteq Ids(facts)
  /\ \/ a.rule = "" /\ a.verdict = "concern"
     \/ /\ \E f \in facts : f[1] = a.rule /\ f[3] = "breach"
        /\ Borne(a, facts)

\* Whatever specialist it is, it assesses nothing else.
LEMMA AssessedClaims ==
  ASSUME NEW agent \in Agents, NEW facts, NEW contained, NEW seen, Sound(facts, seen),
         NEW a \in Assessed(agent, facts, contained)
  PROVE  /\ Grounded(a, facts, seen)
         /\ a.verdict = "breach" => agent \in Graded
<1>1. CASE a \in DataGaps(facts)
  BY <1>1, GapClaims DEF Grounded
<1>2. CASE agent \in Graded /\ a \notin DataGaps(facts)
  <2>1. a \in FloorAssessments(facts, contained)
    BY <1>2 DEF Assessed, Floor, Graded
  <2>2. /\ Formed(a, seen) /\ a.verdict \in {"breach", "explained"}
        /\ a.cites # {} /\ a.cites \subseteq Ids(facts)
        /\ \E f \in facts : f[1] = a.rule /\ f[3] = "breach"
        /\ Borne(a, facts)
    BY <2>1, FloorClaims
  <2>. QED
    BY <1>2, <2>2 DEF Grounded
<1>3. CASE agent = "log" /\ a \notin DataGaps(facts)
  BY <1>3 DEF Assessed
<1>4. CASE agent = "drift" /\ a \notin DataGaps(facts)
  <2>1. PICK f \in facts : /\ f[1] = "DRIFTBAS01" /\ f[3] = "breach"
                           /\ a = [Claim("DRIFTBAS01", "concern", {}, {Id(f)}) EXCEPT !.certain
                                = TRUE]
    BY <1>4 DEF Assessed
  <2>2. /\ DOMAIN a = ClaimFields /\ a.rule = "DRIFTBAS01" /\ a.verdict = "concern"
        /\ a.runs = {} /\ a.cites = {Id(f)}
    BY <2>1 DEF Claim, ClaimFields, AllFields
  <2>. QED
    BY <2>1, <2>2 DEF Grounded, Formed, Verdicts, Ids, Borne
<1>5. CASE agent = "systemic" /\ a \notin DataGaps(facts)
  <2>1. PICK f \in facts :
          a = [Concern(f[1], {}, {Id(f)}) EXCEPT !.scope = "portfolio", !.certain = FALSE]
    BY <1>5 DEF Assessed
  <2>2. /\ DOMAIN a = ClaimFields /\ a.rule = "" /\ a.verdict = "concern"
        /\ a.runs = {} /\ a.cites = {Id(f)}
    BY <2>1 DEF Concern, Claim, ClaimFields, AllFields
  <2>. QED
    BY <2>2 DEF Grounded, Formed, Verdicts, Ids
<1>. QED
  BY <1>1, <1>2, <1>3, <1>4, <1>5 DEF Agents, Peer, Graded

\* Every breach is assessed.
LEMMA BreachAssessed ==
  ASSUME TwoRuns, NEW agent \in Agents, NEW scope \in Scopes, NEW found, NEW contained,
         NEW f \in FactsOf(agent, scope, found), f[3] = "breach", f[1] # "CPTNEW01"
  PROVE  \E a \in Assessed(agent, FactsOf(agent, scope, found), contained) : Supports(a, f)
<1>. DEFINE facts == FactsOf(agent, scope, found)
<1>1. Sound(facts, Seen(scope)) /\ 0 \notin Seen(scope)
  BY FactsSound, SeenRuns
<1>2. CASE agent \in Graded
  <2>1. FloorAssessments(facts, contained) \subseteq Assessed(agent, facts, contained)
    BY <1>2 DEF Assessed, Floor, Graded
  <2>. HIDE DEF facts
  <2>2. f \in facts
    BY DEF facts
  <2>3. \E a \in FloorAssessments(facts, contained) : Supports(a, f)
    BY <1>1, <2>2, BreachClaimed
  <2>. QED
    BY <2>1, <2>3 DEF facts
<1>3. CASE agent = "drift"
  <2>1. f[1] = "DRIFTBAS01"
    BY <1>3, DriftFactsSound DEF FactsOf, Settled
  <2>. DEFINE a == [Claim("DRIFTBAS01", "concern", {}, {Id(f)}) EXCEPT !.certain = TRUE]
  <2>2. a \in Assessed(agent, facts, contained)
    BY <1>3, <2>1 DEF Assessed
  <2>3. a.rule = "DRIFTBAS01" /\ a.verdict = "concern" /\ a.cites = {Id(f)} /\ a.scope = "case"
    BY DEF Claim
  <2>. HIDE DEF a
  <2>4. Supports(a, f)
    BY <2>1, <2>3 DEF Supports, OfRun, RulesOf
  <2>. QED
    BY <2>2, <2>4
<1>4. CASE agent = "log"
  BY <1>4, LogFactsSound DEF FactsOf, Settled
<1>5. CASE agent = "systemic"
  BY <1>5 DEF FactsOf
<1>. QED
  BY <1>2, <1>3, <1>4, <1>5 DEF Agents, Peer, Graded

\* The first run a model is shown.
FirstSeen(scope) == CHOOSE i \in Seen(scope) : \A j \in Seen(scope) : i <= j

\* It is one of the runs it is shown.
LEMMA FirstIsSeen ==
  ASSUME TwoRuns, NEW scope \in Scopes
  PROVE  FirstSeen(scope) \in Seen(scope)
<1>1. Seen(scope) \in {{1, 2}, {1}, {2}}
  BY SeenRuns
<1>2. \E i \in Seen(scope) : \A j \in Seen(scope) : i <= j
  BY <1>1
<1>. QED
  BY <1>2 DEF FirstSeen

\* What a model's answer leads to: claims on judged rules, none of them
\* certain.  Of a run it was silent about, its answer clears no rule that it
\* judges by the run.
Answered(a, seen, answer, first) ==
  /\ Formed(a, seen) /\ a.rule \in JudgedRules /\ a.certain = FALSE
  /\ /\ answer = "silent" /\ a.verdict = "clear"
     /\ a.rule \in {"MNDSEM01", "CNSVFM01", "INJACT01"} /\ a.subject # "objective"
     => first \notin a.runs

\* A claim on some runs is of that kind, if it clears no run the model was
\* silent about.
LEMMA RunClaims ==
  ASSUME NEW seen, NEW answer, NEW first, NEW rule \in JudgedRules, NEW verdict \in Verdicts,
         NEW rs, rs \subseteq seen, NEW a \in Jdg!OnRuns(rule, verdict, rs),
         answer = "silent" => verdict # "clear" \/ first \notin rs
  PROVE  Answered(a, seen, answer, first)
<1>1. a = Jdg!Judged(rule, verdict, rs, {<<rule, i>> : i \in rs})
  BY DEF Jdg!OnRuns
<1>2. /\ DOMAIN a = ClaimFields
      /\ a.rule = rule /\ a.verdict = verdict /\ a.runs = rs /\ a.certain = FALSE
  BY <1>1 DEF Jdg!Judged, Jdg!Claim, ClaimFields, AllFields
<1>. QED
  BY <1>2 DEF Answered, Formed

\* A claim on the case as a whole is of that kind.
LEMMA CaseClaims ==
  ASSUME NEW seen, NEW answer, NEW first, NEW rule \in JudgedRules, NEW verdict \in Verdicts,
         NEW facts, NEW a \in Jdg!OnCase(facts, rule, verdict)
  PROVE  Answered(a, seen, answer, first)
<1>1. a = Jdg!Judged(rule, verdict, {}, Jdg!Cites(facts, rule))
  BY DEF Jdg!OnCase
<1>2. /\ DOMAIN a = ClaimFields
      /\ a.rule = rule /\ a.verdict = verdict /\ a.runs = {} /\ a.certain = FALSE
  BY <1>1 DEF Jdg!Judged, Jdg!Claim, ClaimFields, AllFields
<1>. QED
  BY <1>2 DEF Answered, Formed

\* A measurement that a judged rule of runs rests on is of a run looked at.
LEMMA ShownIsSeen ==
  ASSUME TwoRuns, NEW agent \in {"mandate", "consent", "injection"}, NEW scope \in Scopes,
         NEW found,
         NEW rule \in {"MNDSEM01", "CNSVFM01", "INJACT01"}
  PROVE  Jdg!Shown(FactsOf(agent, scope, found), rule) \subseteq Seen(scope)
<1>. DEFINE ck == Checkers(agent, sub, View(scope), Related(runs, Seen(scope)), Rows(scope),
              found)
<1>1. FactsOf(agent, scope, found) = Evaluated(Book(agent), ck)
  BY DEF FactsOf, MeasuredAlways
<1>2. /\ DossierSound(ck[1]) /\ RunSound(ck[2], Seen(scope))
      /\ agent \in Agents
  BY CheckersSound, SeenRuns DEF Agents, Peer
<1>3. rule \in OfRun /\ rule # "CPTNEW01"
  BY DEF OfRun, RulesOf
<1>4. ASSUME NEW f \in FactsOf(agent, scope, found), f[1] = rule, f[3] = "measured"
      PROVE  f[2] \in Seen(scope)
  <2>1. f \in Evaluated(Book(agent), ck)
    BY <1>1
  <2>2. PICK r \in RulesOf[agent] :
          \/ f = <<r, 0, "rule_draft">>
          \/ r \in DOMAIN ck[1] /\ f = <<r, 0, ck[1][r]>>
          \/ r \in DOMAIN ck[2] /\ \E i \in DOMAIN ck[2][r] : f = <<r, i, ck[2][r][i]>>
    BY <1>2, <2>1, EvaluatedIs
  <2>. HIDE DEF ck
  <2>3. r = rule /\ r \notin DOMAIN ck[1]
    BY <1>2, <1>3, <1>4, <2>2 DEF DossierSound
  <2>4. r \in DOMAIN ck[2] /\ \E i \in DOMAIN ck[2][r] : f = <<r, i, ck[2][r][i]>>
    BY <1>4, <2>2, <2>3
  <2>. QED
    BY <1>2, <1>3, <2>3, <2>4 DEF RunSound
<1>. QED
  BY <1>4 DEF Jdg!Shown, Jdg!Measured

\* The rules a model is asked about are judged rules.
LEMMA SomeJudged ==
  /\ {"KYAREG03", "MNDSEM01", "CNSVFM01", "CPTIDN01", "CPTDCL01", "PRVREC01", "INJACT01",
      "DRIFTBHV01", "DRIFTUNX01"} \subseteq JudgedRules
  /\ \A agent : Judging(agent) \subseteq JudgedRules
  /\ Verdicts = {"breach", "explained", "clear", "concern", "inconclusive"}
BY DEF JudgedRules, Judging, Verdicts

\* What an answer on authority leads to (judgement.py, the agent's
\* authority).
LEMMA AuthorityClaims ==
  ASSUME NEW seen, NEW first, NEW answer, NEW facts, NEW rules, rules \subseteq JudgedRules,
         NEW a \in Jdg!Authority(facts, rules, [r \in rules |-> answer])
  PROVE  Answered(a, seen, answer, first)
<1>1. PICK r \in rules, verdict \in {"clear", "breach", "inconclusive"} :
             a \in Jdg!OnCase(facts, r, verdict)
  BY DEF Jdg!Authority
<1>. QED
  BY <1>1, CaseClaims DEF Verdicts

\* What an answer on the fidelity of actions to the mandate leads to: a run
\* without a verdict stays open.
LEMMA FidelityClaims ==
  ASSUME NEW seen, NEW first, NEW answer, NEW facts, Jdg!Shown(facts, "MNDSEM01") \subseteq seen,
         NEW verdicts, answer = "silent" => first \notin DOMAIN verdicts,
         NEW a \in Jdg!Fidelity(facts, verdicts)
  PROVE  Answered(a, seen, answer, first)
<1>. DEFINE shown == Jdg!Shown(facts, "MNDSEM01")
            judged == shown \cap DOMAIN verdicts
            bad == {j \in judged : ~verdicts[j]}
            good == {j \in judged : verdicts[j]}
            found == UNION {Jdg!OnRuns("MNDSEM01", "breach", {i}) : i \in bad}
<1>1. Jdg!Fidelity(facts, verdicts)
      = found
        \cup Jdg!OnRuns("MNDSEM01", "clear", good)
        \cup Jdg!OnRuns("MNDSEM01", "inconclusive", shown \ judged)
  BY DEF Jdg!Fidelity
<1>2. bad \subseteq judged /\ good \subseteq judged
  OBVIOUS
<1>. HIDE DEF bad, good
<1>3. \/ \E i \in judged : a \in Jdg!OnRuns("MNDSEM01", "breach", {i})
      \/ a \in Jdg!OnRuns("MNDSEM01", "clear", good)
      \/ a \in Jdg!OnRuns("MNDSEM01", "inconclusive", shown \ judged)
  <2>. HIDE DEF judged, shown, found
  <2>1. a \in found
           \cup Jdg!OnRuns("MNDSEM01", "clear", good)
           \cup Jdg!OnRuns("MNDSEM01", "inconclusive", shown \ judged)
    BY <1>1
  <2>2. CASE a \in found
    <3>1. PICK some \in {Jdg!OnRuns("MNDSEM01", "breach", {i}) : i \in bad} : a \in some
      BY <2>2 DEF found
    <3>2. PICK i \in bad : some = Jdg!OnRuns("MNDSEM01", "breach", {i})
      BY <3>1
    <3>. QED
      BY <1>2, <3>1, <3>2
  <2>3. CASE a \in Jdg!OnRuns("MNDSEM01", "clear", good)
    BY <2>3
  <2>4. CASE a \in Jdg!OnRuns("MNDSEM01", "inconclusive", shown \ judged)
    BY <2>4
  <2>. QED
    BY <2>1, <2>2, <2>3, <2>4
<1>4. "MNDSEM01" \in JudgedRules
  BY SomeJudged
<1>5. CASE \E i \in judged : a \in Jdg!OnRuns("MNDSEM01", "breach", {i})
  BY <1>4, <1>5, RunClaims DEF Verdicts
<1>6. CASE a \in Jdg!OnRuns("MNDSEM01", "clear", good)
  <2>1. good \subseteq seen /\ (answer = "silent" => first \notin good)
    BY <1>2
  <2>. QED
    BY <1>4, <1>6, <2>1, RunClaims DEF Verdicts
<1>7. CASE a \in Jdg!OnRuns("MNDSEM01", "inconclusive", shown \ judged)
  BY <1>4, <1>7, RunClaims DEF Verdicts
<1>. QED
  BY <1>3, <1>5, <1>6, <1>7

\* What an answer on value for money leads to: nothing is cleared where the
\* model was silent.
LEMMA ValueClaims ==
  ASSUME NEW seen, NEW first, NEW answer, NEW facts, Jdg!Shown(facts, "CNSVFM01") \subseteq seen,
         NEW systematic, NEW named,
         NEW a \in Jdg!ValueForMoney(facts, answer # "silent", systematic, named)
  PROVE  Answered(a, seen, answer, first)
<1>. DEFINE shown == Jdg!Shown(facts, "CNSVFM01")
<1>1. \/ a \in Jdg!OnRuns("CNSVFM01", "inconclusive", shown)
      \/ answer # "silent" /\ a \in Jdg!OnRuns("CNSVFM01", "clear", shown)
      \/ a \in Jdg!OnRuns("CNSVFM01", "breach", named \cap shown)
  BY DEF Jdg!ValueForMoney
<1>2. "CNSVFM01" \in JudgedRules
  BY SomeJudged
<1>. HIDE DEF shown
<1>3. shown \subseteq seen /\ named \cap shown \subseteq seen
  BY DEF shown
<1>. QED
  BY <1>1, <1>2, <1>3, RunClaims DEF Verdicts

\* What an answer on payees and declines leads to.
LEMMA PayeeClaims ==
  ASSUME NEW seen, NEW first, NEW answer, NEW facts, NEW doubtful, NEW paidBy, NEW declines,
         \A m \in doubtful : paidBy[m] \subseteq seen,
         NEW a \in Jdg!Payee(facts, doubtful, paidBy, declines)
  PROVE  Answered(a, seen, answer, first)
<1>0. "CPTIDN01" \in JudgedRules /\ "CPTDCL01" \in JudgedRules
  BY SomeJudged
<1>1. \/ \E verdict \in {"breach", "clear"}, r \in {"CPTIDN01", "CPTDCL01"} :
           a \in Jdg!OnCase(facts, r, verdict)
      \/ \E m \in doubtful :
           a = [Jdg!Judged("CPTIDN01", "breach", paidBy[m],
             Jdg!Cites(facts, "CPTIDN01")) EXCEPT !.subject = m]
  BY DEF Jdg!Payee
<1>2. CASE \E verdict \in {"breach", "clear"}, r \in {"CPTIDN01", "CPTDCL01"} :
             a \in Jdg!OnCase(facts, r, verdict)
  BY <1>0, <1>2, CaseClaims DEF Verdicts
<1>3. CASE \E m \in doubtful :
           a = [Jdg!Judged("CPTIDN01", "breach", paidBy[m],
             Jdg!Cites(facts, "CPTIDN01")) EXCEPT !.subject = m]
  <2>1. PICK m \in doubtful :
           a = [Jdg!Judged("CPTIDN01", "breach", paidBy[m],
             Jdg!Cites(facts, "CPTIDN01")) EXCEPT !.subject = m]
    BY <1>3
  <2>2. /\ DOMAIN a = ClaimFields /\ a.rule = "CPTIDN01" /\ a.verdict = "breach"
        /\ a.runs = paidBy[m] /\ a.certain = FALSE
    BY <2>1 DEF Jdg!Judged, Jdg!Claim, ClaimFields, AllFields
  <2>. QED
    BY <1>0, <2>1, <2>2 DEF Answered, Formed, Verdicts
<1>. QED
  BY <1>1, <1>2, <1>3

\* What an answer on injected instructions leads to: a verdict that names a
\* channel the run does not have counts for nothing.
LEMMA ActingClaims ==
  ASSUME NEW seen, NEW first, NEW answer, NEW facts, Jdg!Shown(facts, "INJACT01") \subseteq seen,
         NEW verdicts, answer = "silent" => first \notin DOMAIN verdicts,
         NEW channels, NEW redirected \in BOOLEAN,
         NEW a \in Jdg!Acting(facts, verdicts, channels, redirected)
  PROVE  Answered(a, seen, answer, first)
<1>. DEFINE shown == Jdg!Shown(facts, "INJACT01")
            valid == {i \in shown \cap DOMAIN verdicts :
              verdicts[i] \in channels[i] \cup {"none"}}
            acted == {i \in valid : verdicts[i] # "none"}
            about == IF redirected THEN acted ELSE shown
            objective == [Jdg!Judged("INJACT01", IF redirected THEN "breach" ELSE "clear", about,
                                     {<<"INJACT01", i>> : i \in about})
                            EXCEPT !.subject = "objective", !.scope = "run"]
            found == UNION {Jdg!OnRuns("INJACT01", IF i \in acted THEN "breach" ELSE "clear",
              {i}) : i \in valid}
<1>1. "INJACT01" \in JudgedRules
  BY SomeJudged
<1>2. Jdg!Acting(facts, verdicts, channels, redirected)
      = found
        \cup Jdg!OnRuns("INJACT01", "inconclusive", shown \ valid) \cup {objective}
  BY DEF Jdg!Acting
<1>3. \E verdict \in {"breach", "clear"} : \E cites :
         objective = [Jdg!Judged("INJACT01", verdict, about, cites) EXCEPT !.subject
           = "objective", !.scope = "run"]
  <2>. DEFINE cites == {<<"INJACT01", i>> : i \in about}
              verdict == IF redirected THEN "breach" ELSE "clear"
  <2>1. objective = [Jdg!Judged("INJACT01", verdict, about, cites) EXCEPT !.subject
          = "objective", !.scope = "run"]
    OBVIOUS
  <2>2. verdict \in {"breach", "clear"}
    OBVIOUS
  <2>. HIDE DEF cites, objective, verdict
  <2>. QED
    BY <2>1, <2>2
<1>4. \/ \E i \in valid, verdict \in {"breach", "clear"} :
           a \in Jdg!OnRuns("INJACT01", verdict, {i})
      \/ a \in Jdg!OnRuns("INJACT01", "inconclusive", shown \ valid)
      \/ \E verdict \in {"breach", "clear"} : \E cites :
           a = [Jdg!Judged("INJACT01", verdict, about, cites) EXCEPT !.subject
             = "objective", !.scope = "run"]
  <2>. HIDE DEF valid, acted, about, shown, objective, found
  <2>1. ASSUME NEW i \in valid,
               a \in Jdg!OnRuns("INJACT01", IF i \in acted THEN "breach" ELSE "clear", {i})
        PROVE  \E j \in valid, verdict \in {"breach", "clear"} :
                 a \in Jdg!OnRuns("INJACT01", verdict, {j})
    <3>1. CASE i \in acted
      BY <2>1, <3>1
    <3>2. CASE i \notin acted
      BY <2>1, <3>2
    <3>. QED
      BY <3>1, <3>2
  <2>2. a \in found
           \cup Jdg!OnRuns("INJACT01", "inconclusive", shown \ valid) \cup {objective}
    BY <1>2
  <2>3. CASE a \in found
    <3>1. PICK some \in {Jdg!OnRuns("INJACT01", IF i \in acted THEN "breach" ELSE "clear", {i}) :
                 i \in valid} :
            a \in some
      BY <2>3 DEF found
    <3>2. PICK i \in valid : some
                 = Jdg!OnRuns("INJACT01", IF i \in acted THEN "breach" ELSE "clear", {i})
      BY <3>1
    <3>. QED
      BY <2>1, <3>1, <3>2
  <2>4. CASE a \in Jdg!OnRuns("INJACT01", "inconclusive", shown \ valid)
    BY <2>4
  <2>5. CASE a = objective
    BY <1>3, <2>5
  <2>. QED
    BY <2>2, <2>3, <2>5, <2>4
<1>5. valid \subseteq seen \cap DOMAIN verdicts /\ about \subseteq seen
        /\ shown \ valid \subseteq seen
  OBVIOUS
<1>. HIDE DEF valid, about, shown
<1>6. CASE \E i \in valid, verdict \in {"breach", "clear"} :
             a \in Jdg!OnRuns("INJACT01", verdict, {i})
  BY <1>1, <1>5, <1>6, RunClaims DEF Verdicts
<1>7. CASE a \in Jdg!OnRuns("INJACT01", "inconclusive", shown \ valid)
  BY <1>1, <1>5, <1>7, RunClaims DEF Verdicts
<1>8. CASE \E verdict \in {"breach", "clear"} : \E cites :
           a = [Jdg!Judged("INJACT01", verdict, about, cites) EXCEPT !.subject
             = "objective", !.scope = "run"]
  <2>1. PICK verdict \in {"breach", "clear"} : \E cites :
           a = [Jdg!Judged("INJACT01", verdict, about, cites) EXCEPT !.subject
             = "objective", !.scope = "run"]
    BY <1>8
  <2>2. PICK cites :
           a = [Jdg!Judged("INJACT01", verdict, about, cites) EXCEPT !.subject
             = "objective", !.scope = "run"]
    BY <2>1
  <2>3. /\ DOMAIN a = ClaimFields /\ a.rule = "INJACT01" /\ a.verdict = verdict
        /\ a.runs = about /\ a.certain = FALSE /\ a.subject = "objective"
    BY <2>2 DEF Jdg!Judged, Jdg!Claim, ClaimFields, AllFields
  <2>. QED
    BY <1>1, <1>5, <2>3 DEF Answered, Formed, Verdicts
<1>. QED
  BY <1>4, <1>6, <1>7, <1>8

\* What an answer on a pattern of the month leads to.
LEMMA PatternClaims ==
  ASSUME NEW seen, NEW first, NEW answer, NEW facts, NEW rule \in JudgedRules,
         NEW rows, {t.run : t \in rows} \subseteq seen,
         rule \notin {"MNDSEM01", "CNSVFM01", "INJACT01"},
         NEW a \in Jdg!Pattern(facts, rule, answer, rows)
  PROVE  Answered(a, seen, answer, first)
<1>. DEFINE rs == {t.run : t \in rows} \ {0}
<1>1. \/ \E verdict \in {"clear", "inconclusive"} : a \in Jdg!OnCase(facts, rule, verdict)
      \/ a = Jdg!Judged(rule, "breach", rs, Jdg!Cites(facts, rule))
  BY DEF Jdg!Pattern
<1>2. rs \subseteq seen
  OBVIOUS
<1>. HIDE DEF rs
<1>3. CASE a = Jdg!Judged(rule, "breach", rs, Jdg!Cites(facts, rule))
  <2>1. DOMAIN a = ClaimFields /\ a.rule = rule /\ a.verdict = "breach" /\ a.runs = rs
          /\ a.certain = FALSE
    BY <1>3 DEF Jdg!Judged, Jdg!Claim, ClaimFields, AllFields
  <2>. QED
    BY <1>2, <2>1 DEF Answered, Formed, Verdicts
<1>. QED
  BY <1>1, <1>3, CaseClaims DEF Verdicts

\* What an answer on drift leads to.
LEMMA DriftClaims ==
  ASSUME NEW seen, NEW first, NEW answer, NEW facts,
         NEW rows, {t.run : t \in rows} \subseteq seen, NEW onset, NEW active,
         NEW a \in Jdg!Drift(facts, answer, rows, onset, active)
  PROVE  Answered(a, seen, answer, first)
<1>. DEFINE rs == {t.run : t \in rows} \ {0}
<1>0. "DRIFTBHV01" \in JudgedRules /\ "DRIFTUNX01" \in JudgedRules
  BY SomeJudged
<1>1. \/ a \in Jdg!Pattern(facts, "DRIFTBHV01", answer, rows)
      \/ \E verdict \in {"breach", "clear"} :
           a = Jdg!Judged("DRIFTUNX01", verdict, rs, Jdg!Cites(facts, "DRIFTBHV01"))
  BY DEF Jdg!Drift
<1>2. rs \subseteq seen
  OBVIOUS
<1>. HIDE DEF rs
<1>3. CASE \E verdict \in {"breach", "clear"} :
           a = Jdg!Judged("DRIFTUNX01", verdict, rs, Jdg!Cites(facts, "DRIFTBHV01"))
  <2>1. PICK verdict \in {"breach", "clear"} :
           a = Jdg!Judged("DRIFTUNX01", verdict, rs, Jdg!Cites(facts, "DRIFTBHV01"))
    BY <1>3
  <2>2. DOMAIN a = ClaimFields /\ a.rule = "DRIFTUNX01" /\ a.verdict = verdict /\ a.runs = rs
          /\ a.certain = FALSE
    BY <2>1 DEF Jdg!Judged, Jdg!Claim, ClaimFields, AllFields
  <2>. QED
    BY <1>0, <1>2, <2>2 DEF Answered, Formed, Verdicts
<1>. QED
  BY <1>0, <1>1, <1>3, PatternClaims

\* So the answer of every specialist leads to such claims only.
LEMMA AnswerClaims ==
  ASSUME TwoRuns, NEW agent \in Agents, NEW scope \in Scopes, NEW found, NEW answer,
         NEW a \in Answers(agent, FactsOf(agent, scope, found), scope, answer)
  PROVE  Answered(a, Seen(scope), answer, FirstSeen(scope))
<1>. DEFINE facts == FactsOf(agent, scope, found)
            seen == Seen(scope)
            first == FirstSeen(scope)
            rows == RowsOf(scope, first)
            told == IF answer = "silent" THEN seen \ {first} ELSE seen
<1>1. first \in seen /\ (answer = "silent" => first \notin told)
  BY FirstIsSeen
<1>2. {t.run : t \in rows} \subseteq seen
  BY <1>1 DEF RowsOf
<1>3. \A r : Judging(r) \subseteq JudgedRules
  BY SomeJudged
<1>4. CASE agent = "kya"
  <2>1. a \in Jdg!Authority(facts, Judging("kya"), [r \in Judging("kya") |-> answer])
    BY <1>4 DEF Answers
  <2>. HIDE DEF facts, first, seen
  <2>2. Answered(a, seen, answer, first)
    BY <1>3, <2>1, AuthorityClaims
  <2>. QED
    BY <2>2 DEF seen, first
<1>5. CASE agent = "mandate"
  <2>. DEFINE verdicts == [i \in told |-> answer = "ok" \/ i # first]
  <2>1. a \in Jdg!Fidelity(facts, verdicts)
    BY <1>5 DEF Answers, FirstSeen
  <2>2. Jdg!Shown(facts, "MNDSEM01") \subseteq seen
    BY <1>5, ShownIsSeen
  <2>3. answer = "silent" => first \notin DOMAIN verdicts
    BY <1>1
  <2>. HIDE DEF facts, first, seen, verdicts
  <2>4. Answered(a, seen, answer, first)
    BY <2>1, <2>2, <2>3, FidelityClaims
  <2>. QED
    BY <2>4 DEF seen, first
<1>6. CASE agent = "consent"
  <2>1. a \in Jdg!ValueForMoney(facts, answer # "silent", answer = "bad", {first})
    BY <1>6 DEF Answers, FirstSeen
  <2>2. Jdg!Shown(facts, "CNSVFM01") \subseteq seen
    BY <1>6, ShownIsSeen
  <2>. HIDE DEF facts, first, seen
  <2>3. Answered(a, seen, answer, first)
    BY <2>1, <2>2, ValueClaims
  <2>. QED
    BY <2>3 DEF seen, first
<1>7. CASE agent = "counterparty"
  <2>. DEFINE doubtful == IF answer = "bad" THEN {runs[first].merchant} ELSE {}
              paidBy == [m \in {runs[first].merchant} |-> Cpt!PaidRuns(View(scope), m)]
              declines == IF answer = "bad" THEN "anomalous" ELSE "none"
  <2>1. a \in Jdg!Payee(facts, doubtful, paidBy, declines)
    BY <1>7 DEF Answers, FirstSeen
  <2>2. \A m \in doubtful : paidBy[m] \subseteq seen
    <3>1. \A m : Cpt!PaidRuns(View(scope), m) \subseteq seen
      BY SeenRuns DEF Cpt!PaidRuns
    <3>. QED
      BY <3>1
  <2>. HIDE DEF facts, first, seen, doubtful, paidBy, declines
  <2>3. Answered(a, seen, answer, first)
    BY <2>1, <2>2, PayeeClaims
  <2>. QED
    BY <2>3 DEF seen, first
<1>8. CASE agent = "provenance"
  <2>1. a \in Jdg!Reconciliation(facts, answer # "bad", answer = "silent")
    BY <1>8 DEF Answers
  <2>. HIDE DEF facts, first, seen
  <2>2. PICK verdict \in {"clear", "breach"} : a \in Jdg!OnCase(facts, "PRVREC01", verdict)
    BY <2>1 DEF Jdg!Reconciliation
  <2>3. "PRVREC01" \in JudgedRules
    BY SomeJudged
  <2>4. Answered(a, seen, answer, first)
    BY <2>2, <2>3, CaseClaims DEF Verdicts
  <2>. QED
    BY <2>4 DEF seen, first
<1>9. CASE agent = "injection"
  <2>. DEFINE verdicts == [i \in told |-> IF answer = "bad"
                /\ i = first THEN "prompt" ELSE "none"]
              channels == [i \in told |-> Inj!Shown(runs[i])]
  <2>1. a \in Jdg!Acting(facts, verdicts, channels, answer = "bad")
    BY <1>9 DEF Answers, FirstSeen
  <2>2. Jdg!Shown(facts, "INJACT01") \subseteq seen
    BY <1>9, ShownIsSeen
  <2>3. answer = "silent" => first \notin DOMAIN verdicts
    BY <1>1
  <2>. HIDE DEF facts, first, seen, verdicts, channels
  <2>4. Answered(a, seen, answer, first)
    BY <2>1, <2>2, <2>3, ActingClaims
  <2>. QED
    BY <2>4 DEF seen, first
<1>10. CASE agent = "log"
  <2>1. a \in UNION {Jdg!Pattern(facts, r, answer, rows) : r \in Judging("log")}
    BY <1>10 DEF Answers, FirstSeen
  <2>. HIDE DEF facts, first, seen, rows
  <2>2. PICK r \in Judging("log") : a \in Jdg!Pattern(facts, r, answer, rows)
    BY <2>1
  <2>3. r \in JudgedRules /\ r \notin {"MNDSEM01", "CNSVFM01", "INJACT01"}
    BY <1>3 DEF Judging, RulesOf
  <2>4. Answered(a, seen, answer, first)
    BY <1>2, <2>2, <2>3, PatternClaims
  <2>. QED
    BY <2>4 DEF seen, first
<1>11. CASE agent = "drift"
  <2>1. a \in Jdg!Drift(facts, answer, rows, "none", Judging("drift"))
    BY <1>11 DEF Answers, FirstSeen
  <2>. HIDE DEF facts, first, seen, rows
  <2>2. Answered(a, seen, answer, first)
    BY <1>2, <2>1, DriftClaims
  <2>. QED
    BY <2>2 DEF seen, first
<1>12. CASE agent \in {"systemic", "control_assurance"}
  BY <1>12 DEF Answers
<1>. QED
  BY <1>4, <1>5, <1>6, <1>7, <1>8, <1>9, <1>10, <1>11, <1>12 DEF Agents, Peer

\* Validation leaves what cites what was reviewed, and what does not it only
\* leaves open.
LEMMA ValidatedClaims ==
  ASSUME NEW review, NEW facts, NEW view
  PROVE  /\ \A b \in Validated(review, facts, view) :
              \E a \in review :
                 \/ b = a
                 \/ /\ b = [a EXCEPT !.verdict = "inconclusive"]
                    /\ ~(a.cites \subseteq Ids(facts)) \/ a.cites = {}
                         \/ ~(a.runs \subseteq DOMAIN view)
         /\ \A a \in review : /\ a.cites \subseteq Ids(facts) /\ a.cites # {}
                              /\ a.runs \subseteq DOMAIN view
                              => a \in Validated(review, facts, view)
<1>. DEFINE bad(a) == \/ ~(a.cites \subseteq Ids(facts))
                      \/ ~(a.runs \subseteq DOMAIN view)
                      \/ a.verdict \in {"breach", "clear"} /\ a.cites = {}
<1>1. Validated(review, facts, view)
      = {IF bad(a) THEN [a EXCEPT !.verdict = "inconclusive"] ELSE a : a \in review}
  BY DEF Validated, Ids
<1>2. \A a : /\ a.cites \subseteq Ids(facts) /\ a.cites # {}
             /\ a.runs \subseteq DOMAIN view
             => ~bad(a)
  OBVIOUS
<1>. HIDE DEF bad
<1>. QED
  BY <1>1, <1>2

\* What a review of facts may say: what a model made of a judged rule, that a
\* judged rule is open, or what the facts themselves show.
Said(b, agent, facts, seen, answer, first) ==
  \/ agent \in Peer /\ Answered(b, seen, answer, first) /\ answer # "failed"
  \/ /\ agent \in Peer /\ Formed(b, seen) /\ b.rule \in JudgedRules /\ b.certain = FALSE
     /\ b.verdict = "inconclusive"
  \/ Grounded(b, facts, seen) /\ (b.verdict = "breach" => agent \in Graded)

\* It says nothing else, and each breach is among what it says.
LEMMA ReviewedClaims ==
  ASSUME TwoRuns, NEW agent \in Agents, NEW scope \in Scopes, NEW found, NEW answer
  PROVE  LET facts == FactsOf(agent, scope, found)
             review == Reviewed(agent, facts, scope, answer)
         IN  /\ \A b \in review :
                  Said(b, agent, facts, Seen(scope), answer, FirstSeen(scope))
             /\ \A f \in facts : f[3] = "breach" /\ f[1] # "CPTNEW01" =>
                  \E b \in review : Supports(b, f)
<1>. DEFINE facts == FactsOf(agent, scope, found)
            seen == Seen(scope)
            first == FirstSeen(scope)
            contained == Contained(sub, View(scope))
            assessed == Assessed(agent, facts, contained)
            said(b) == Said(b, agent, facts, seen, answer, first)
            open == {Judged(r, "inconclusive", {}, {Id(f) : f \in ByRule(facts, r)}) :
              r \in Judging(agent)}
            given == IF Fails(agent, scope, answer) THEN open ELSE Answers(agent, facts, scope, answer)
<1>1. Sound(facts, seen) /\ DOMAIN View(scope) = seen
  BY FactsSound, SeenRuns
<1>2. \A b \in assessed : Grounded(b, facts, seen) /\ (b.verdict = "breach" => agent \in Graded)
  <2>. HIDE DEF facts, seen, contained
  <2>. QED
    BY <1>1, AssessedClaims
<1>3. \A f \in facts : f[3] = "breach" /\ f[1] # "CPTNEW01" => \E b \in assessed : Supports(b, f)
  BY BreachAssessed
<1>4. ASSUME NEW b \in Answers(agent, facts, scope, answer) PROVE Answered(b, seen, answer, first)
  BY AnswerClaims
<1>5. ASSUME NEW b \in open
      PROVE  Formed(b, seen) /\ b.rule \in JudgedRules /\ b.certain = FALSE
               /\ b.verdict = "inconclusive"
  <2>1. PICK r \in Judging(agent) :
               b = Judged(r, "inconclusive", {}, {Id(f) : f \in ByRule(facts, r)})
    OBVIOUS
  <2>2. /\ DOMAIN b = ClaimFields /\ b.rule = r /\ b.runs = {} /\ b.certain = FALSE
        /\ b.verdict = "inconclusive"
    BY <2>1 DEF Judged, Claim, ClaimFields, AllFields
  <2>. QED
    BY <2>2, SomeJudged DEF Formed
<1>6. CASE agent \in {"systemic", "control_assurance"}
  <2>1. Reviewed(agent, facts, scope, answer) = assessed
    BY <1>6 DEF Reviewed, Peer
  <2>. QED
    BY <1>2, <1>3, <2>1 DEF Said
<1>7. CASE agent \in Peer \ {"systemic"}
  <2>. DEFINE review == assessed \cup given
  <2>1. Reviewed(agent, facts, scope, answer) = Validated(review, facts, View(scope))
    <3>1. agent \notin {"systemic", "control_assurance"}
      BY <1>7 DEF Peer
    <3>2. CASE Fails(agent, scope, answer)
      BY <1>7, <3>1, <3>2 DEF Reviewed, Unjudged
    <3>3. CASE ~Fails(agent, scope, answer)
      BY <1>7, <3>1, <3>3 DEF Reviewed
    <3>. QED
      BY <3>2, <3>3
  <2>2. \A b \in given : \/ Answered(b, seen, answer, first) /\ answer # "failed"
                         \/ /\ Formed(b, seen) /\ b.rule \in JudgedRules
                            /\ b.certain = FALSE /\ b.verdict = "inconclusive"
    <3>1. ~Fails(agent, scope, answer) => answer # "failed"
      BY DEF Fails
    <3>. HIDE DEF open, facts, seen, first
    <3>. QED
      BY <1>4, <1>5, <3>1
  <2>. HIDE DEF given, assessed, facts, seen, first
  <2>3. \A b \in assessed : b.cites # {} /\ b.cites \subseteq Ids(facts) /\ b.runs \subseteq seen
    BY <1>2 DEF Grounded, Formed
  <2>4. ASSUME NEW b \in Validated(review, facts, View(scope)) PROVE said(b)
    <3>1. PICK a \in review :
             \/ b = a
             \/ /\ b = [a EXCEPT !.verdict = "inconclusive"]
                /\ ~(a.cites \subseteq Ids(facts)) \/ a.cites = {}
                     \/ ~(a.runs \subseteq DOMAIN View(scope))
      BY ValidatedClaims
    <3>2. CASE a \in assessed /\ b = a
      BY <1>2, <3>2 DEF Said
    <3>3. CASE a \in given /\ b = a
      BY <1>7, <2>2, <3>3 DEF Said
    <3>4. CASE a \in given /\ b = [a EXCEPT !.verdict = "inconclusive"]
      <4>1. DOMAIN a = ClaimFields /\ a.runs \subseteq seen /\ a.rule \in JudgedRules
              /\ a.certain = FALSE
        BY <2>2, <3>4 DEF Answered, Formed
      <4>2. /\ DOMAIN b = ClaimFields /\ b.runs \subseteq seen /\ b.rule \in JudgedRules
            /\ b.certain = FALSE /\ b.verdict = "inconclusive"
        BY <3>4, <4>1 DEF ClaimFields, AllFields
      <4>. QED
        BY <1>7, <4>2 DEF Said, Formed, Verdicts
    <3>. QED
      BY <1>1, <2>3, <3>1, <3>2, <3>3, <3>4
  <2>5. assessed \subseteq Validated(review, facts, View(scope))
    BY <1>1, <2>3, ValidatedClaims
  <2>6. /\ \A b \in Reviewed(agent, facts, scope, answer) : said(b)
        /\ \A f \in facts : f[3] = "breach" /\ f[1] # "CPTNEW01" =>
              \E b \in Reviewed(agent, facts, scope, answer) : Supports(b, f)
    BY <1>3, <2>1, <2>4, <2>5
  <2>. QED
    BY <2>6 DEF facts, seen, first
<1>. QED
  BY <1>6, <1>7 DEF Agents

\* A rule is cleared where every result of it, and there are some, is that it
\* holds or does not apply.
LEMMA ClearClaims ==
  ASSUME NEW earlier, NEW review, NEW facts, NEW book, NEW a
  PROVE  a \in Clears(earlier, review, facts, book) <=>
         \E r \in DOMAIN book :
            /\ \E e \in earlier : e.rule = r
            /\ \A b \in review : b.rule # r
            /\ ByRule(facts, r) # {}
            /\ \A f \in ByRule(facts, r) : f[3] \in {"satisfied", "out_of_scope"}
            /\ a = Claim(r, "clear", Units(ByRule(facts, r)), Ids(ByRule(facts, r)))
<1>. DEFINE of(r) == {f \in facts : f[1] = r}
            cleared == {q \in DOMAIN book :
                          /\ q \in {e.rule : e \in earlier} /\ q \notin {b.rule : b \in review}
                          /\ of(q) # {}
                          /\ \A f \in of(q) : f[3] \in {"satisfied", "out_of_scope"}}
<1>1. Clears(earlier, review, facts, book)
      = {Claim(r, "clear", Units(of(r)), Ids(of(r))) : r \in cleared}
  BY DEF Clears, Ids
<1>2. \A r : of(r) = ByRule(facts, r)
  BY DEF ByRule
<1>. HIDE DEF of
<1>3. \A r : r \in cleared <=>
         /\ r \in DOMAIN book
         /\ \E e \in earlier : e.rule = r
         /\ \A b \in review : b.rule # r
         /\ ByRule(facts, r) # {}
         /\ \A f \in ByRule(facts, r) : f[3] \in {"satisfied", "out_of_scope"}
  BY <1>2
<1>. HIDE DEF cleared
<1>. QED
  BY <1>1, <1>2, <1>3

\* A claim as it goes on the record.
Marked(a, agent, scope) ==
  [k \in DOMAIN a \cup {"agent"} |->
     CASE k = "agent" -> agent
       [] k = "round" -> last.round + 1
       [] k = "review" -> scope
       [] OTHER -> a[k]]

\* An assessment on the record is nothing but its fields.
IsRecord(a) == DOMAIN a = AllFields /\ a = [k \in AllFields |-> a[k]]

\* Nothing else of the claim changes (agents/review.py, record).
LEMMA MarkedFields ==
  ASSUME NEW a, DOMAIN a = ClaimFields, NEW agent, NEW scope
  PROVE  LET b == Marked(a, agent, scope)
         IN  /\ IsRecord(b)
             /\ b.agent = agent /\ b.round = last.round + 1 /\ b.review = scope
             /\ b.rule = a.rule /\ b.subject = a.subject /\ b.verdict = a.verdict
             /\ b.runs = a.runs /\ b.scope = a.scope /\ b.certain = a.certain
             /\ b.cites = a.cites
BY DEF Marked, ClaimFields, AllFields, IsRecord

\* What is recorded is what was reviewed, and what that clears.
LEMMA RecordedIs ==
  ASSUME NEW agent, NEW facts, NEW review, NEW book, NEW scope
  PROVE  Recorded(agent, facts, review, book, scope)
         = {Marked(a, agent, scope) :
              a \in review \cup Clears({b \in asm : b.agent = agent}, review, facts, book)}
BY DEF Recorded, Marked

\* What a pass puts on the record of a case.
Entry(b, agent, facts, scope, answer) ==
  /\ IsRecord(b)
  /\ b.agent = agent /\ b.round = last.round + 1 /\ b.review = scope
  /\ b.runs \subseteq Seen(scope) /\ b.verdict \in Verdicts
  /\ \/ /\ agent \in Peer /\ b.rule \in JudgedRules /\ b.certain = FALSE
        /\ b.verdict = "clear" =>
             /\ answer # "failed"
             /\ /\ answer = "silent" /\ b.subject # "objective"
                /\ b.rule \in {"MNDSEM01", "CNSVFM01", "INJACT01"}
                => FirstSeen(scope) \notin b.runs
     \/ b.rule = "" /\ b.verdict = "concern"
     \/ /\ b.rule \notin JudgedRules
        /\ b.rule \in RulesOf[agent] \ (retired \cup DraftRules)
        /\ \E f \in facts : f[1] = b.rule /\ f[3] \in Settled
        /\ b.verdict = "breach" =>
             agent \in Graded /\ \E f \in facts : f[1] = b.rule /\ f[3] = "breach"
        /\ Borne(b, facts)

\* What one specialist puts on the record in a pass.
PassReview(agent, scope, found, answer) ==
  Recorded(agent, FactsOf(agent, scope, found),
           Reviewed(agent, FactsOf(agent, scope, found), scope, answer), Book(agent), scope)

\* Every assessment that a specialist records is of this kind, and every
\* breach is among them.
LEMMA EntriesOf ==
  ASSUME TwoRuns, NEW agent \in Agents, NEW scope \in Scopes, NEW found, NEW answer
  PROVE  LET facts == FactsOf(agent, scope, found)
             new == PassReview(agent, scope, found, answer)
         IN  /\ \A b \in new : Entry(b, agent, facts, scope, answer)
             /\ \A f \in facts : f[3] = "breach" /\ f[1] # "CPTNEW01" =>
                  \E b \in new : Supports(b, f)
<1>. DEFINE facts == FactsOf(agent, scope, found)
            review == Reviewed(agent, facts, scope, answer)
            earlier == {b \in asm : b.agent = agent}
            clears == Clears(earlier, review, facts, Book(agent))
            new == PassReview(agent, scope, found, answer)
            first == FirstSeen(scope)
            seen == Seen(scope)
<1>1. new = {Marked(a, agent, scope) : a \in review \cup clears}
  BY RecordedIs DEF PassReview
<1>2. Sound(facts, seen) /\ Ruled(agent, facts)
  BY FactsSound
<1>3. /\ \A b \in review : Said(b, agent, facts, seen, answer, first)
      /\ \A f \in facts : f[3] = "breach" /\ f[1] # "CPTNEW01" => \E b \in review : Supports(b, f)
  BY ReviewedClaims
<1>4. ASSUME NEW a \in review
               PROVE DOMAIN a = ClaimFields
                       /\ Entry(Marked(a, agent, scope), agent, facts, scope, answer)
  <2>. DEFINE b == Marked(a, agent, scope)
  <2>1. Said(a, agent, facts, seen, answer, first)
    BY <1>3
  <2>2. DOMAIN a = ClaimFields /\ a.runs \subseteq seen /\ a.verdict \in Verdicts
    BY <2>1 DEF Said, Answered, Grounded, Formed
  <2>3. /\ IsRecord(b)
        /\ b.agent = agent /\ b.round = last.round + 1 /\ b.review = scope
        /\ b.rule = a.rule /\ b.subject = a.subject /\ b.verdict = a.verdict
        /\ b.runs = a.runs /\ b.certain = a.certain
    BY <2>2, MarkedFields
  <2>. HIDE DEF b, facts, seen, first
  <2>4. ASSUME agent \in Peer, Answered(a, seen, answer, first), answer # "failed"
        PROVE  Entry(b, agent, facts, scope, answer)
    BY <2>2, <2>3, <2>4 DEF Entry, Answered, seen, first
  <2>5. ASSUME agent \in Peer, a.rule \in JudgedRules, a.certain = FALSE, a.verdict
                 = "inconclusive"
        PROVE  Entry(b, agent, facts, scope, answer)
    BY <2>2, <2>3, <2>5 DEF Entry, seen
  <2>6. ASSUME Grounded(a, facts, seen), a.verdict = "breach" => agent \in Graded
        PROVE  Entry(b, agent, facts, scope, answer)
    <3>1. CASE a.rule = "" /\ a.verdict = "concern"
      BY <2>2, <2>3, <3>1 DEF Entry, seen
    <3>2. CASE (\E f \in facts : f[1] = a.rule /\ f[3] = "breach") /\ Borne(a, facts)
      <4>1. PICK f \in facts : f[1] = a.rule /\ f[3] = "breach"
        BY <3>2
      <4>2. f[3] \in Settled
        BY <4>1 DEF Settled
      <4>3. a.rule \notin JudgedRules /\ a.rule \in RulesOf[agent] \ (retired \cup DraftRules)
        BY <1>2, <4>1, <4>2 DEF Sound, Ruled
      <4>4. Borne(b, facts)
        BY <2>3, <3>2 DEF Borne
      <4>. QED
        BY <2>2, <2>3, <2>6, <4>1, <4>2, <4>3, <4>4 DEF Entry, seen
    <3>. QED
      BY <2>6, <3>1, <3>2 DEF Grounded
  <2>7. Entry(b, agent, facts, scope, answer)
    BY <2>1, <2>4, <2>5, <2>6 DEF Said
  <2>. QED
    BY <2>2, <2>7 DEF b
<1>5. ASSUME NEW a \in clears PROVE Entry(Marked(a, agent, scope), agent, facts, scope, answer)
  <2>. DEFINE b == Marked(a, agent, scope)
  <2>. HIDE DEF facts, review, earlier
  <2>1. PICK r \in DOMAIN Book(agent) :
            /\ ByRule(facts, r) # {}
            /\ \A f \in ByRule(facts, r) : f[3] \in {"satisfied", "out_of_scope"}
            /\ a = Claim(r, "clear", Units(ByRule(facts, r)), Ids(ByRule(facts, r)))
    BY ClearClaims
  <2>2. PICK f \in facts : f[1] = r /\ f[3] \in {"satisfied", "out_of_scope"}
    BY <2>1 DEF ByRule
  <2>3. f[3] \in Settled
    BY <2>2 DEF Settled
  <2>4. r \notin JudgedRules /\ r \in RulesOf[agent] \ (retired \cup DraftRules)
    BY <1>2, <2>2, <2>3 DEF Sound, Ruled
  <2>5. Units(ByRule(facts, r)) \subseteq seen
    BY <1>2, UnitsSeen DEF ByRule
  <2>6. /\ DOMAIN a = ClaimFields /\ a.rule = r /\ a.verdict = "clear"
        /\ a.runs = Units(ByRule(facts, r))
    BY <2>1 DEF Claim, ClaimFields, AllFields
  <2>7. /\ IsRecord(b)
        /\ b.agent = agent /\ b.round = last.round + 1 /\ b.review = scope
        /\ b.rule = a.rule /\ b.verdict = a.verdict /\ b.runs = a.runs
    BY <2>6, MarkedFields
  <2>. HIDE DEF b, seen
  <2>8. Entry(b, agent, facts, scope, answer)
    BY <2>2, <2>3, <2>4, <2>5, <2>6, <2>7 DEF Entry, Verdicts, Borne, seen
  <2>. QED
    BY <2>8 DEF b, facts
<1>6. ASSUME NEW f \in facts, f[3] = "breach", f[1] # "CPTNEW01"
      PROVE  \E b \in new : Supports(b, f)
  <2>1. PICK a \in review : Supports(a, f)
    BY <1>3, <1>6
  <2>. HIDE DEF facts, review, clears, new
  <2>2. Marked(a, agent, scope) \in new /\ DOMAIN a = ClaimFields
    BY <1>1, <1>4
  <2>3. Supports(Marked(a, agent, scope), f)
    BY <2>1, <2>2, MarkedFields DEF Supports
  <2>. QED
    BY <2>2, <2>3
<1>. HIDE DEF facts, review, clears, new
<1>7. /\ \A b \in new : Entry(b, agent, facts, scope, answer)
      /\ \A f \in facts : f[3] = "breach" /\ f[1] # "CPTNEW01" => \E b \in new : Supports(b, f)
  BY <1>1, <1>4, <1>5, <1>6
<1>. QED
  BY <1>7 DEF facts, new

\* Two tables joined: the first keeps its entries, the second adds its own.
LEMMA JoinedKeeps ==
  \A f, g : \A k \in DOMAIN f : k \in DOMAIN Joined(f, g) /\ Joined(f, g)[k] = f[k]
BY DEF Joined

LEMMA JoinedAdds ==
  \A f, g : \A k \in DOMAIN g \ DOMAIN f : k \in DOMAIN Joined(f, g) /\ Joined(f, g)[k] = g[k]
BY DEF Joined

\* A run's start is a field with three values.
LEMMA StartField == "start" \in DOMAIN RunFields /\ RunFields["start"] = <<52, 50, 59>>
BY JoinedKeeps DEF RunFields

\* Every deviation of a case is to a value its field has.
LEMMA CaseDeviations ==
  ASSUME NEW p, NEW devs \in Cases(p), NEW d \in devs
  PROVE  d \in Single(p) /\ IsValue(d)
<1>. DEFINE single == {x \in Single(p) : IsValue(x)}
<1>1. \A x \in single : x \in Single(p) /\ IsValue(x)
  OBVIOUS
<1>. HIDE DEF single
<1>2. \/ devs = {}
      \/ \E x \in single : devs = {x}
      \/ \E t \in single \X single : devs = {t[1], t[2]}
  BY DEF Cases, single
<1>3. d \in single
  BY <1>2
<1>. QED
  BY <1>1, <1>3

\* So the runs of any case began at some time.
LEMMA StartsAreDays ==
  ASSUME NEW devs, \A d \in devs : IsValue(d)
  PROVE  DOMAIN Filed(devs) = {1, 2} /\ \A i \in {1, 2} : Filed(devs)[i].start \in Int
<1>. DEFINE r == Deviated(RunFields, Of(devs, 2))
<1>1. "start" \in DOMAIN r /\ r["start"] \in Int
  <2>1. "start" \in DOMAIN r /\ r["start"] = IF \E d \in Of(devs, 2) : d.key = "start"
                      THEN RunFields["start"][(CHOOSE d \in Of(devs, 2) : d.key = "start").alt]
                      ELSE RunFields["start"][1]
    BY StartField DEF Deviated
  <2>2. CASE \E d \in Of(devs, 2) : d.key = "start"
    <3>. DEFINE x == CHOOSE d \in Of(devs, 2) : d.key = "start"
    <3>1. x \in Of(devs, 2) /\ x.key = "start"
      BY <2>2
    <3>. HIDE DEF x
    <3>2. x.of = 2 /\ IsValue(x)
      BY <3>1 DEF Of
    <3>3. x.alt \in DOMAIN RunFields["start"]
      BY <3>1, <3>2 DEF IsValue, Fields
    <3>4. RunFields["start"][x.alt] \in Int
      BY <3>3, StartField
    <3>. QED
      BY <2>1, <2>2, <3>4 DEF x
  <2>3. CASE ~\E d \in Of(devs, 2) : d.key = "start"
    BY <2>1, <2>3, StartField
  <2>. QED
    BY <2>2, <2>3
<1>2. First.start \in Int /\ "start" \in DOMAIN First
  BY StartField DEF First, Clean
<1>3. \A i, f : "start" \in DOMAIN f => Flat(i, f).start = f["start"]
  BY DEF Flat
<1>. HIDE DEF r
<1>4. Filed(devs) = <<Flat(1, First), Flat(2, r)>>
  BY DEF Filed, r
<1>. QED
  BY <1>1, <1>2, <1>3, <1>4

\* One pass, piece by piece: the specialist's facts and entries, and then the
\* control specialist's, on what the first have left.
NoPeers(scope) == [i \in Seen(scope) |-> {}]

\* What the specialist of the case finds and enters in a pass, what is known
\* after it, and what the control specialist then finds and enters (graph.py,
\* the specialists' stage before control assurance).
OwnFacts(scope) == FactsOf(part, scope, NoPeers(scope))
OwnEntries(scope, answer) == PassReview(part, scope, NoPeers(scope), answer)
Known(scope) == Versioned(latest, OwnFacts(scope))
Evidence(scope, answer) ==
  [i \in Seen(scope) |-> Ctl!PeersEvidence(asm \cup OwnEntries(scope, answer), Known(scope), i)]
ControlFacts(scope, answer) == FactsOf("control_assurance", scope, Evidence(scope, answer))
ControlEntries(scope, answer) ==
  PassReview("control_assurance", scope, Evidence(scope, answer), "ok")

\* What a pass does to the record.
LEMMA PassIs ==
  ASSUME NEW scope, NEW answer, Pass(scope, answer)
  PROVE  /\ last.round < MaxRounds /\ (last.round = 0 => scope = {})
         /\ latest' = Versioned(Known(scope), ControlFacts(scope, answer))
         /\ asm' = asm \cup OwnEntries(scope, answer) \cup ControlEntries(scope, answer)
         /\ last' = [round |-> last.round + 1, scope |-> scope, answer |-> answer]
         /\ UNCHANGED <<part, dev, sub, runs, retired>>
BY DEF Pass, NoPeers, OwnFacts, OwnEntries, Known, Evidence, ControlFacts, ControlEntries,
       PassReview

\* The facts of a case, and what its assessments are about.
FactTyped(f) ==
  /\ f = <<f[1], f[2], f[3]>>
  /\ f[2] \in {0, 1, 2} /\ f[3] \in Outcome
  /\ f[3] \in Settled =>
       f[1] \in (RulesOf[part] \cup RulesOf["control_assurance"]) \ JudgedRules
  /\ f[3] \in Settled /\ f[1] # "CPTNEW01" =>
       IF f[1] \in OfRun THEN f[2] \in {1, 2} ELSE f[2] = 0

\* An assessment is a model's opinion of a judged rule, a concern of no rule,
\* or about a rule of its agent's own that was issued; and only a floor
\* claims a breach outright.
Backed(a) ==
  \/ a.rule \in JudgedRules /\ a.certain = FALSE
  \/ a.rule = "" /\ a.verdict = "concern"
  \/ /\ a.rule \notin JudgedRules /\ a.rule \in RulesOf[a.agent] \ DraftRules
     /\ a.verdict = "breach" => a.agent \in Graded

\* An assessment as a pass of the case may have recorded it.
AssessmentTyped(a) ==
  /\ IsRecord(a)
  /\ a.agent \in {part, "control_assurance"}
  /\ a.runs \subseteq {1, 2} /\ a.review \in Scopes
  /\ a.round \in 1 .. last.round /\ a.verdict \in Verdicts
  /\ Backed(a)

\* The record of a case, throughout its review.
Typed ==
  /\ part \in Parts /\ TwoRuns
  /\ last.round \in 0 .. MaxRounds /\ last.scope \in Scopes
  /\ \A f \in latest : FactTyped(f)
  /\ \A a \in asm : AssessmentTyped(a)

\* A case that has not been reviewed has an empty record.
LEMMA InitTyped == Init => Typed
<1>. SUFFICES ASSUME Init PROVE Typed
  OBVIOUS
<1>1. \A d \in dev : IsValue(d)
  BY CaseDeviations DEF Init
<1>2. TwoRuns
  BY <1>1, StartsAreDays DEF Init, TwoRuns
<1>. QED
  BY <1>2, AFollowUp DEF Init, Typed, Scopes

\* The facts of a pass, and the facts kept with them, have their types.
LEMMA PassFactsTyped ==
  ASSUME TwoRuns, part \in Peer, NEW agent \in {part, "control_assurance"},
         NEW scope \in Scopes, NEW found, NEW f \in FactsOf(agent, scope, found)
  PROVE  FactTyped(f)
<1>1. Sound(FactsOf(agent, scope, found), Seen(scope))
        /\ Ruled(agent, FactsOf(agent, scope, found))
  BY FactsSound DEF Agents
<1>2. Seen(scope) \subseteq {1, 2}
  BY SeenRuns
<1>. QED
  BY <1>1, <1>2 DEF Sound, Ruled, FactTyped

\* What a pass enters has its types.
LEMMA EntriesTyped ==
  ASSUME TwoRuns, last.round \in Nat, NEW agent \in {part, "control_assurance"}, part \in Peer,
         NEW scope \in Scopes, NEW found, NEW answer,
         NEW a \in PassReview(agent, scope, found, answer)
  PROVE  /\ IsRecord(a)
         /\ a.agent \in {part, "control_assurance"}
         /\ a.runs \subseteq {1, 2} /\ a.review \in Scopes
         /\ a.round = last.round + 1 /\ a.verdict \in Verdicts
         /\ Backed(a)
<1>1. agent \in Agents
  BY DEF Agents
<1>2. Entry(a, agent, FactsOf(agent, scope, found), scope, answer)
  BY <1>1, EntriesOf
<1>3. Seen(scope) \subseteq {1, 2}
  BY SeenRuns
<1>. QED
  BY <1>2, <1>3 DEF Entry, Backed

\* A pass keeps the record typed.
LEMMA PassTyped ==
  ASSUME Typed, NEW scope \in Scopes, NEW answer, Pass(scope, answer)
  PROVE  Typed'
<1>. USE PassIs
<1>1. part \in Peer /\ last.round \in Nat
  BY PartsAreSpecialists, AFollowUp DEF Typed
<1>2. part' \in Parts /\ TwoRuns'
  BY DEF Typed, TwoRuns
<1>3. last'.round \in 0 .. MaxRounds /\ last'.scope \in Scopes
  BY AFollowUp DEF Typed
<1>4. ASSUME NEW f \in latest' PROVE FactTyped(f)
  <2>1. f \in latest \/ f \in OwnFacts(scope) \/ f \in ControlFacts(scope, answer)
    BY DEF Versioned, Known
  <2>. QED
    BY <1>1, <2>1, PassFactsTyped DEF Typed, OwnFacts, ControlFacts
<1>5. ASSUME NEW a \in asm' PROVE AssessmentTyped(a)'
  <2>1. CASE a \in asm
    <3>1. a.round \in 1 .. last'.round
      BY <1>1, <2>1 DEF Typed, AssessmentTyped
    <3>. QED
      BY <2>1, <3>1 DEF Typed, AssessmentTyped, Backed
  <2>2. CASE a \in OwnEntries(scope, answer) \cup ControlEntries(scope, answer)
    <3>1. /\ IsRecord(a)
          /\ a.agent \in {part, "control_assurance"}
          /\ a.runs \subseteq {1, 2} /\ a.review \in Scopes
          /\ a.round = last.round + 1 /\ a.verdict \in Verdicts
          /\ Backed(a)
      BY <1>1, <2>2, EntriesTyped DEF OwnEntries, ControlEntries, Typed
    <3>2. a.round \in 1 .. last'.round
      BY <1>1, <3>1
    <3>. QED
      BY <3>1, <3>2 DEF AssessmentTyped, Backed
  <2>. QED
    BY <2>1, <2>2
<1>. QED
  BY <1>2, <1>3, <1>4, <1>5 DEF Typed, FactTyped

\* What a step is, and what no step other than a pass touches.
LEMMA Steps ==
  ASSUME [Next]_vars
  PROVE  \/ \E scope \in Scopes, answer \in Answer(part) : Pass(scope, answer)
         \/ UNCHANGED <<part, runs, latest, asm, last>> /\ retired \subseteq retired'
BY DEF Next, vars, Change, Retire, Scopes

\* So does every step.
LEMMA StepTyped == Typed /\ [Next]_vars => Typed'
<1>. SUFFICES ASSUME Typed, [Next]_vars PROVE Typed'
  OBVIOUS
<1>1. CASE \E scope \in Scopes, answer \in Answer(part) : Pass(scope, answer)
  BY <1>1, PassTyped
<1>2. CASE UNCHANGED <<part, runs, latest, asm, last>>
  BY <1>2 DEF Typed, TwoRuns, FactTyped, AssessmentTyped, Backed
<1>. QED
  BY <1>1, <1>2, Steps

\* The record of a case stays as it should be, through every pass, every
\* change of a register and every rule taken out: the invariant that the
\* other theorems rest on (graph.py, pipeline of one review).
THEOREM AlwaysTyped == Spec => []Typed
BY InitTyped, StepTyped, PTL DEF Spec

\* The variables of FloorReview keep their types.
THEOREM TypeCorrect == Spec => []TypeOK
<1>1. Typed => TypeOK
  <2>. SUFFICES ASSUME Typed PROVE TypeOK
    OBVIOUS
  <2>1. RunIds = {1, 2}
    BY DEF Typed, TwoRuns, RunIds
  <2>2. \A a \in asm : a.runs \cup a.review \subseteq RunIds
    BY <2>1 DEF Typed, AssessmentTyped, Scopes
  <2>. QED
    BY <2>1, <2>2 DEF Typed, TypeOK, FactTyped, AssessmentTyped, Verdicts
<1>. QED
  BY <1>1, AlwaysTyped, PTL

\* A review focused on some runs leaves what stands on the other runs
\* untouched, whatever it finds and whatever the model says (assess.py,
\* current; review.py, focused follow-ups).
THEOREM FocusedLooks == Spec => OtherRunsUntouched
<1>. DEFINE Untouched == last'.scope # {} /\ last'.round # last.round =>
                           \A i \in RunIds \ last'.scope : OnRun(asm', i) = OnRun(asm, i)
<1>1. ASSUME Typed, [Next]_vars, last'.scope # {}, last'.round # last.round,
             NEW i \in RunIds \ last'.scope
      PROVE  OnRun(asm', i) = OnRun(asm, i)
  <2>1. PICK scope \in Scopes, answer \in Answer(part) : Pass(scope, answer)
    BY <1>1, Steps
  <2>. DEFINE new == OwnEntries(scope, answer) \cup ControlEntries(scope, answer)
  <2>2. asm' = asm \cup new /\ last'.scope = scope
    BY <2>1, PassIs
  <2>3. part \in Peer /\ TwoRuns
    BY <1>1, PartsAreSpecialists DEF Typed
  <2>4. Seen(scope) = scope
    BY <1>1, <2>2, SeenRuns, <2>3
  <2>5. ASSUME NEW n \in new
        PROVE  DOMAIN n = AllFields /\ n.review = scope /\ n.runs \subseteq scope
    <3>1. \/ Entry(n, part, OwnFacts(scope), scope, answer)
          \/ Entry(n, "control_assurance", ControlFacts(scope, answer), scope, "ok")
      BY <2>3, EntriesOf DEF OwnEntries, OwnFacts, ControlEntries, ControlFacts, Agents
    <3>. QED
      BY <2>4, <3>1 DEF Entry, IsRecord
  <2>6. AreAssessments(asm) /\ AreAssessments(new)
    BY <1>1, <2>5 DEF AreAssessments, Typed, AssessmentTyped, IsRecord
  <2>7. i \notin scope /\ scope # {}
    BY <1>1, <2>2
  <2>. HIDE DEF new
  <2>. QED
    BY <2>2, <2>5, <2>6, <2>7, FocusedReviewsStayFocused
<1>2. Typed /\ [Next]_vars => [Untouched]_vars
  BY <1>1
<1>. QED
  BY <1>2, AlwaysTyped, PTL DEF Spec, OtherRunsUntouched

\* A focused pass finds of its run what a full pass finds of it: no checker's
\* word on a run depends on whether the other runs are in view (facts.py;
\* mandate_checks.py, draws on a mandate).
THEOREM ScopesAgree == Spec => []ScopedAgrees
<1>1. Typed => ScopedAgrees
  <2>. SUFFICES ASSUME Typed, NEW scope \in {{1}, {2}}, NEW agent \in {part, "control_assurance"}
                PROVE  LET found == [i \in RunIds |-> Ctl!PeersEvidence(asm, latest, i)]
                           of(look) == {f
                             \in FactsOf(agent, look, [i \in Seen(look) |-> found[i]]) :
                                           f[2] \in scope /\ f[1] # "CPTNEW01"}
                       IN  of(scope) = of({})
    BY DEF ScopedAgrees
  <2>. DEFINE found == [i \in RunIds |-> Ctl!PeersEvidence(asm, latest, i)]
              some == [i \in Seen(scope) |-> found[i]]
              whole == [i \in Seen({}) |-> found[i]]
  <2>1. TwoRuns /\ agent \in Agents
    BY PartsAreSpecialists DEF Typed, Agents
  <2>2. \A i \in scope : some[i] = whole[i]
    BY <2>1 DEF Seen, RunIds, TwoRuns
  <2>. HIDE DEF some, whole
  <2>3. OfRuns(FactsOf(agent, scope, some), scope) = OfRuns(FactsOf(agent, {}, whole), scope)
    BY <2>1, <2>2, FactsAreLocal
  <2>. QED
    BY <2>3 DEF some, whole, OfRuns
<1>. QED
  BY <1>1, AlwaysTyped, PTL

\* A model that failed clears nothing, and one that was silent about a run
\* clears no rule of that run (judgement.py; assess.py, unjudged).
THEOREM NoVerdictNoClearing == Spec => []NoVerdictNoClear
<1>. DEFINE now == {a \in asm : a.round = last.round /\ a.rule \in JudgedRules
              /\ a.verdict = "clear"}
            Inv == \A a \in now : /\ last.answer # "failed"
                                  /\ /\ last.answer = "silent"
                                     /\ a.rule \in {"MNDSEM01", "CNSVFM01", "INJACT01"}
                                     /\ a.subject # "objective"
                                     => FirstSeen(last.scope) \notin a.runs
<1>1. Init => Inv
  BY DEF Init
<1>2. ASSUME Typed, Inv, [Next]_vars PROVE Inv'
  <2>1. CASE \E scope \in Scopes, answer \in Answer(part) : Pass(scope, answer)
    <3>1. PICK scope \in Scopes, answer \in Answer(part) : Pass(scope, answer)
      BY <2>1
    <3>2. part \in Peer /\ TwoRuns /\ last.round \in Nat
      BY <1>2, PartsAreSpecialists, AFollowUp DEF Typed
    <3>3. /\ asm' = asm \cup OwnEntries(scope, answer) \cup ControlEntries(scope, answer)
          /\ last'.round = last.round + 1 /\ last'.scope = scope /\ last'.answer = answer
          /\ FirstSeen(last.scope)' = FirstSeen(scope)
      BY <3>1, PassIs DEF FirstSeen, Seen, RunIds
    <3>4. ASSUME NEW a \in now'
          PROVE  /\ last'.answer # "failed"
                 /\ /\ last'.answer = "silent"
                    /\ a.rule \in {"MNDSEM01", "CNSVFM01", "INJACT01"}
                    /\ a.subject # "objective"
                    => FirstSeen(last.scope)' \notin a.runs
      <4>0. a \in asm' /\ a.round = last.round + 1 /\ a.rule \in JudgedRules
              /\ a.verdict = "clear"
        BY <3>3
      <4>1. a \notin asm
        BY <1>2, <3>2, <4>0 DEF Typed, AssessmentTyped
      <4>2. CASE a \in OwnEntries(scope, answer)
        <5>1. Entry(a, part, OwnFacts(scope), scope, answer)
          BY <3>2, <4>2, EntriesOf DEF OwnEntries, OwnFacts, Agents
        <5>2. /\ answer # "failed"
              /\ /\ answer = "silent"
                 /\ a.rule \in {"MNDSEM01", "CNSVFM01", "INJACT01"}
                 /\ a.subject # "objective"
                 => FirstSeen(scope) \notin a.runs
          BY <4>0, <5>1 DEF Entry
        <5>. QED
          BY <3>3, <5>2
      <4>3. CASE a \in ControlEntries(scope, answer)
        <5>1. Entry(a, "control_assurance", ControlFacts(scope, answer), scope, "ok")
          BY <3>2, <4>3, EntriesOf DEF ControlEntries, ControlFacts, Agents
        <5>. QED
          BY <4>0, <5>1 DEF Entry, Peer
      <4>. QED
        BY <3>3, <4>0, <4>1, <4>2, <4>3
    <3>. QED
      BY <3>3, <3>4
  <2>2. CASE UNCHANGED <<part, runs, latest, asm, last>>
    BY <1>2, <2>2 DEF FirstSeen, Seen, RunIds
  <2>. QED
    BY <1>2, <2>1, <2>2, Steps
<1>3. Inv => NoVerdictNoClear
  BY DEF NoVerdictNoClear, FirstSeen
<1>. QED
  BY <1>1, <1>2, <1>3, AlwaysTyped, PTL DEF Spec

\* No rulebook has a rule without a name, and none shares a rule with the
\* control specialist's.
LEMMA RulesAreNamed ==
  ASSUME NEW agent \in Peer
  PROVE  /\ "" \notin RulesOf[agent] \cup RulesOf["control_assurance"]
         /\ RulesOf[agent] \cap RulesOf["control_assurance"] = {}
<1>1. CASE agent = "kya"
  BY <1>1 DEF RulesOf
<1>2. CASE agent = "mandate"
  BY <1>2 DEF RulesOf
<1>3. CASE agent = "consent"
  BY <1>3 DEF RulesOf
<1>4. CASE agent = "counterparty"
  BY <1>4 DEF RulesOf
<1>5. CASE agent = "provenance"
  BY <1>5 DEF RulesOf
<1>6. CASE agent = "injection"
  BY <1>6 DEF RulesOf
<1>7. CASE agent = "log"
  BY <1>7 DEF RulesOf
<1>8. CASE agent = "drift"
  BY <1>8 DEF RulesOf
<1>9. CASE agent = "systemic"
  BY <1>9 DEF RulesOf
<1>. QED
  BY <1>1, <1>2, <1>3, <1>4, <1>5, <1>6, <1>7, <1>8, <1>9 DEF Peer

\* What either specialist of a pass finds and enters is as above.
LEMMA PassSound ==
  ASSUME TwoRuns, part \in Peer, NEW scope \in Scopes, NEW answer
  PROVE  /\ Sound(OwnFacts(scope), Seen(scope)) /\ Ruled(part, OwnFacts(scope))
         /\ Sound(ControlFacts(scope, answer), Seen(scope))
         /\ Ruled("control_assurance", ControlFacts(scope, answer))
         /\ \A b \in OwnEntries(scope, answer) :
              Entry(b, part, OwnFacts(scope), scope, answer)
         /\ \A b \in ControlEntries(scope, answer) :
              Entry(b, "control_assurance", ControlFacts(scope, answer), scope, "ok")
         /\ \A f \in OwnFacts(scope) : f[3] = "breach" /\ f[1] # "CPTNEW01" =>
              \E b \in OwnEntries(scope, answer) : Supports(b, f)
         /\ \A f \in ControlFacts(scope, answer) : f[3] = "breach" /\ f[1] # "CPTNEW01" =>
              \E b \in ControlEntries(scope, answer) : Supports(b, f)
BY EntriesOf, FactsSound DEF OwnEntries, OwnFacts, ControlEntries, ControlFacts, Agents

\* Every breach on the record has a claim that no later round replaced.
BreachHeld ==
  \A f \in latest : f[3] = "breach" /\ f[1] # "CPTNEW01" =>
    \E a \in asm : Supports(a, f) /\ ~Replaced(asm, a, f[2])

\* A pass keeps that: a breach it finds is claimed in its own round, and
\* where it finds none in place of an old one, it makes no claim that could
\* replace the old claim.
LEMMA PassHolds ==
  ASSUME Typed, BreachHeld, NEW scope \in Scopes, NEW answer, Pass(scope, answer),
         NEW f \in latest', f[3] = "breach", f[1] # "CPTNEW01"
  PROVE  \E a \in asm' : Supports(a, f) /\ ~Replaced(asm', a, f[2])
<1>. DEFINE own == OwnEntries(scope, answer)
            checked == ControlEntries(scope, answer)
<1>1. /\ latest' = Versioned(Known(scope), ControlFacts(scope, answer))
      /\ asm' = asm \cup own \cup checked
  BY PassIs
<1>2. part \in Peer /\ TwoRuns /\ last.round \in Nat
  BY PartsAreSpecialists, AFollowUp DEF Typed
<1>3. ASSUME NEW b \in own \cup checked
      PROVE  b.round = last.round + 1 /\ b.review = scope
  <2>1. \/ Entry(b, part, OwnFacts(scope), scope, answer)
        \/ Entry(b, "control_assurance", ControlFacts(scope, answer), scope, "ok")
    BY <1>2, PassSound
  <2>. QED
    BY <2>1 DEF Entry
<1>4. \A a \in asm : a.round \in Nat /\ a.round <= last.round
  BY <1>2 DEF Typed, AssessmentTyped
<1>5. ASSUME NEW a \in own \cup checked
      PROVE  ~Replaced(asm', a, f[2])
  <2>1. \A b \in asm' : ~(b.round > a.round)
    BY <1>1, <1>2, <1>3, <1>4
  <2>. QED
    BY <2>1 DEF Replaced, Later
<1>. HIDE DEF own, checked
<1>6. CASE f \in OwnFacts(scope)
  <2>1. \E a \in own : Supports(a, f)
    BY <1>2, <1>6, PassSound DEF own
  <2>. QED
    BY <1>1, <1>5, <2>1
<1>7. CASE f \in ControlFacts(scope, answer)
  <2>1. \E a \in checked : Supports(a, f)
    BY <1>2, <1>7, PassSound DEF checked
  <2>. QED
    BY <1>1, <1>5, <2>1
<1>8. CASE f \notin OwnFacts(scope) \cup ControlFacts(scope, answer)
  <2>1. /\ f \in latest
        /\ \A g \in OwnFacts(scope) \cup ControlFacts(scope, answer) : Id(g) # Id(f)
    BY <1>1, <1>8 DEF Versioned, Known
  <2>2. PICK a \in asm : Supports(a, f) /\ ~Replaced(asm, a, f[2])
    BY <2>1 DEF BreachHeld
  <2>3. /\ FactTyped(f) /\ f[3] \in Settled
        /\ a.rule = f[1] /\ f[1] \notin JudgedRules /\ f[1] # ""
        /\ IF f[1] \in OfRun THEN f[2] \in {1, 2} ELSE f[2] = 0
    BY <1>2, <2>1, <2>2, RulesAreNamed DEF Typed, FactTyped, Supports, Settled
  <2>4. ASSUME NEW b \in Later(asm', a), b.review = {} \/ f[2] \in b.review PROVE FALSE
    <3>1. b \notin Later(asm, a)
      BY <2>2, <2>4 DEF Replaced
    <3>2. b \in own \cup checked /\ b.rule = f[1]
      BY <1>1, <2>3, <3>1 DEF Later, SameClaim
    <3>3. /\ b.rule \in OfRun => f[2] \in Seen(scope)
          /\ b.rule \notin OfRun => f[2] = 0
      <4>1. scope = {} \/ f[2] \in scope
        BY <1>3, <2>4, <3>2 DEF own, checked
      <4>2. Seen({}) = {1, 2}
        BY <1>2 DEF Seen, RunIds, TwoRuns
      <4>3. scope # {} => Seen(scope) = scope
        BY <1>2, SeenRuns
      <4>. QED
        BY <2>3, <3>2, <4>1, <4>2, <4>3
    <3>4. b.rule \notin JudgedRules /\ b.rule # "" /\ b.rule # "CPTNEW01"
      BY <2>3, <3>2
    <3>5. CASE b \in own
      <4>1. \E g \in OwnFacts(scope) : Id(g) = <<b.rule, f[2]>>
        <5>1. Entry(b, part, OwnFacts(scope), scope, answer)
                /\ Sound(OwnFacts(scope), Seen(scope))
          BY <1>2, <3>5, PassSound DEF own
        <5>2. /\ b.rule \in OfRun =>
                   \A i \in Seen(scope) : \E g \in OwnFacts(scope) : Id(g) = <<b.rule, i>>
              /\ b.rule \notin OfRun => \E g \in OwnFacts(scope) : Id(g) = <<b.rule, 0>>
          <6>1. PICK g \in OwnFacts(scope) : g[1] = b.rule /\ g[3] \in Settled
            BY <3>4, <5>1 DEF Entry
          <6>2. CASE b.rule \in OfRun
            BY <3>4, <5>1, <6>1, <6>2 DEF Sound
          <6>3. CASE b.rule \notin OfRun
            BY <3>4, <5>1, <6>1, <6>3 DEF Sound, Id
          <6>. QED
            BY <6>2, <6>3
        <5>. QED
          BY <3>3, <5>2
      <4>. QED
        BY <2>1, <3>2, <4>1 DEF Id
    <3>6. CASE b \in checked
      <4>1. \E g \in ControlFacts(scope, answer) : Id(g) = <<b.rule, f[2]>>
        <5>1. /\ Entry(b, "control_assurance", ControlFacts(scope, answer), scope, "ok")
              /\ Sound(ControlFacts(scope, answer), Seen(scope))
          BY <1>2, <3>6, PassSound DEF checked
        <5>2. /\ b.rule \in OfRun =>
                   \A i \in Seen(scope) :
                      \E g \in ControlFacts(scope, answer) : Id(g) = <<b.rule, i>>
              /\ b.rule \notin OfRun =>
                   \E g \in ControlFacts(scope, answer) : Id(g) = <<b.rule, 0>>
          <6>1. PICK g \in ControlFacts(scope, answer) : g[1] = b.rule /\ g[3] \in Settled
            BY <3>4, <5>1 DEF Entry
          <6>2. CASE b.rule \in OfRun
            BY <3>4, <5>1, <6>1, <6>2 DEF Sound
          <6>3. CASE b.rule \notin OfRun
            BY <3>4, <5>1, <6>1, <6>3 DEF Sound, Id
          <6>. QED
            BY <6>2, <6>3
        <5>. QED
          BY <3>3, <5>2
      <4>. QED
        BY <2>1, <3>2, <4>1 DEF Id
    <3>. QED
      BY <3>2, <3>5, <3>6
  <2>5. ~Replaced(asm', a, f[2])
    BY <2>4 DEF Replaced
  <2>. QED
    BY <1>1, <2>2, <2>5
<1>. QED
  BY <1>6, <1>7, <1>8

\* A claim that was not replaced for a unit stands, for that unit.
LEMMA UnreplacedStands ==
  ASSUME NEW as, AreAssessments(as), NEW a \in as, NEW f, Supports(a, f),
         ~Replaced(as, a, f[2])
  PROVE  \E b \in Current(as) : /\ b.rule = f[1] /\ Id(f) \in b.cites
                                /\ b.verdict \in {"breach", "explained", "concern"}
                                /\ b.scope = "case" \/ f[2] \in b.runs
<1>. DEFINE b == Narrowed(as, a)
<1>1. DOMAIN a = AllFields
  BY DEF AreAssessments
<1>2. f[2] \notin Taken(as, a) /\ ~\E c \in Later(as, a) : c.review = {}
  BY ReplacedIsTaken
<1>3. /\ b.rule = a.rule /\ b.verdict = a.verdict /\ b.scope = a.scope
      /\ \A c \in a.cites : c[2] \notin Taken(as, a) => c \in b.cites
      /\ ByRun(as, a) => b.runs = a.runs \ Taken(as, a)
      /\ ~ByRun(as, a) => b.runs = a.runs
  BY <1>1, NarrowedFields, NarrowedRuns
<1>4. a.scope = "case" \/ (a.scope = "run" /\ f[2] \in a.runs)
  BY DEF Supports
<1>5. Stays(as, a)
  BY <1>2, <1>4 DEF Stays, ByRun
<1>6. b \in Current(as)
  BY <1>5, CurrentIsNarrowed
<1>. HIDE DEF b
<1>7. Id(f) \in b.cites
  BY <1>2, <1>3 DEF Supports, Id
<1>8. b.scope = "case" \/ f[2] \in b.runs
  BY <1>2, <1>3, <1>4
<1>. QED
  BY <1>3, <1>6, <1>7, <1>8 DEF Supports

\* Every breach on the record is carried by an assessment that stands, of its
\* run if the rule is of runs: no sequence of focused and full rounds loses
\* one (assess.py, floor_assessments, current).
THEOREM BreachesStand == Spec => []BreachStands
<1>1. Init => BreachHeld
  BY DEF Init, BreachHeld
<1>2. Typed /\ BreachHeld /\ [Next]_vars => BreachHeld'
  <2>. SUFFICES ASSUME Typed, BreachHeld, [Next]_vars PROVE BreachHeld'
    OBVIOUS
  <2>1. CASE \E scope \in Scopes, answer \in Answer(part) : Pass(scope, answer)
    BY <2>1, PassHolds DEF BreachHeld
  <2>2. CASE UNCHANGED <<part, runs, latest, asm, last>>
    BY <2>2 DEF BreachHeld
  <2>. QED
    BY <2>1, <2>2, Steps
<1>3. Typed /\ BreachHeld => BreachStands
  <2>. SUFFICES ASSUME Typed, BreachHeld, NEW f \in latest, f[3] = "breach", f[1] # "CPTNEW01"
                PROVE  \E a \in Current(asm) : /\ a.rule = f[1] /\ Id(f) \in a.cites
                                               /\ a.verdict \in {"breach", "explained", "concern"}
                                               /\ a.scope = "case" \/ f[2] \in a.runs
    BY DEF BreachStands, Standing
  <2>1. AreAssessments(asm)
    BY DEF Typed, AssessmentTyped, AreAssessments, IsRecord
  <2>. QED
    BY <2>1, UnreplacedStands DEF BreachHeld
<1>. QED
  BY <1>1, <1>2, <1>3, AlwaysTyped, PTL DEF Spec

\* What a specialist has checks for does not depend on the case.
LEMMA CheckersFixed ==
  ASSUME NEW agent \in Agents,
         NEW s1, NEW v1, NEW rel1, NEW txns1, NEW found1,
         NEW s2, NEW v2, NEW rel2, NEW txns2, NEW found2
  PROVE  LET a == Checkers(agent, s1, v1, rel1, txns1, found1)
             b == Checkers(agent, s2, v2, rel2, txns2, found2)
         IN  DOMAIN a[1] = DOMAIN b[1] /\ DOMAIN a[2] = DOMAIN b[2]
<1>1. CASE agent = "kya"
  <2>1. DOMAIN K!KyaPerDossier(s1, Dials) = DOMAIN K!KyaPerDossier(s2, Dials)
    BY DEF K!KyaPerDossier
  <2>2. DOMAIN K!KyaPerRun(s1, Dials, v1) = DOMAIN K!KyaPerRun(s2, Dials, v2)
    BY DEF K!KyaPerRun
  <2>. QED
    BY <1>1, <2>1, <2>2 DEF Checkers
<1>2. CASE agent = "mandate"
  BY <1>2 DEF Checkers, Mnd!MandatePerRun
<1>3. CASE agent = "consent"
  BY <1>3 DEF Checkers, Cns!ConsentPerRun
<1>4. CASE agent = "counterparty"
  BY <1>4 DEF Checkers, Cpt!CounterpartyPerDossier, Cpt!CounterpartyPerRun
<1>5. CASE agent = "provenance"
  BY <1>5 DEF Checkers, Prv!ProvenancePerDossier, Prv!ProvenancePerRun
<1>6. CASE agent = "injection"
  BY <1>6 DEF Checkers, Inj!InjectionPerRun
<1>7. CASE agent = "control_assurance"
  BY <1>7 DEF Checkers, Ctl!ControlPerDossier, Ctl!ControlPerRun
<1>8. CASE agent \in {"log", "drift", "systemic"}
  BY <1>8 DEF Checkers
<1>. QED
  BY <1>1, <1>2, <1>3, <1>4, <1>5, <1>6, <1>7, <1>8 DEF Agents, Peer

\* A rule in force that no model judges has a result in every pass.
LEMMA RuleHasResult ==
  ASSUME TwoRuns, NEW agent \in Graded, NEW scope \in Scopes, NEW found,
         NEW r \in RulesOf[agent] \ (JudgedRules \cup DraftRules \cup retired)
  PROVE  \E f \in FactsOf(agent, scope, found) : f[1] = r
<1>. DEFINE ck == Checkers(agent, sub, View(scope), Related(runs, Seen(scope)), Rows(scope),
              found)
            clean == Checkers(agent, Submission({}), Filed({}), {},
                              Ledger(Submission({}), Filed({})), <<{}, {}>>)
<1>1. agent \in Agents
  BY DEF Graded, Agents, Peer
<1>2. DOMAIN ck[1] = DOMAIN clean[1] /\ DOMAIN ck[2] = DOMAIN clean[2]
  BY <1>1, CheckersFixed
<1>3. RulesOf[agent] = Unchecked(agent) \cup DOMAIN clean[1] \cup DOMAIN clean[2]
  BY <1>1, RulesHaveCheckers DEF Agents
<1>4. Unchecked(agent) \subseteq JudgedRules \cup DraftRules
  BY DEF Unchecked, Graded, JudgedRules, DraftRules
<1>5. DossierSound(ck[1]) /\ RunSound(ck[2], Seen(scope))
  BY <1>1, CheckersSound, SeenRuns DEF Agents
<1>6. \A f : f \in Evaluated(Book(agent), ck) => f \in FactsOf(agent, scope, found)
  BY FactsOfGraded
<1>7. r = "CPTNEW01" => DOMAIN ck[2][r] # {}
  <2>. SUFFICES ASSUME r = "CPTNEW01" PROVE DOMAIN ck[2][r] # {}
    OBVIOUS
  <2>1. agent = "counterparty"
    <3>1. \A g \in Graded \ {"counterparty"} : "CPTNEW01" \notin RulesOf[g]
      BY DEF Graded, RulesOf
    <3>. QED
      BY <3>1
  <2>2. ck[2] = Cpt!CounterpartyPerRun(sub, Dials, View(scope), Rows(scope))
    BY <2>1 DEF Checkers
  <2>3. /\ DOMAIN View(scope) \in {{1, 2}, {1}, {2}}
        /\ \A i \in DOMAIN View(scope) : View(scope)[i] = runs[i]
    BY SeenRuns
  <2>4. \A i \in {1, 2} : runs[i].start \in Int
    BY DEF TwoRuns
  <2>5. \A i \in DOMAIN View(scope) : View(scope)[i].start \in Int
    BY <2>3, <2>4
  <2>. HIDE DEF ck
  <2>. QED
    BY <2>2, <2>3, <2>5, NewPayeesSound
<1>. HIDE DEF ck, clean
<1>8. CASE r \in DOMAIN ck[1]
  <2>1. <<r, 0, ck[1][r]>> \in Evaluated(Book(agent), ck)
    BY <1>1, <1>8, EvaluatedIs DEF ck
  <2>. QED
    BY <1>6, <2>1
<1>9. CASE r \in DOMAIN ck[2]
  <2>1. DOMAIN ck[2][r] # {}
    <3>1. Seen(scope) # {}
      BY SeenRuns
    <3>. QED
      BY <1>5, <1>7, <1>9, <3>1 DEF RunSound
  <2>2. PICK i \in DOMAIN ck[2][r] : TRUE
    BY <2>1
  <2>3. <<r, i, ck[2][r][i]>> \in Evaluated(Book(agent), ck)
    BY <1>1, <1>9, <2>2, EvaluatedIs DEF ck
  <2>. QED
    BY <1>6, <2>3
<1>. QED
  BY <1>2, <1>3, <1>4, <1>8, <1>9

\* The control specialist's results are of its own rules.
LEMMA ControlsOwnRules ==
  ASSUME NEW scope, NEW found, NEW f \in FactsOf("control_assurance", scope, found)
  PROVE  f[1] \in RulesOf["control_assurance"]
<1>. DEFINE ck == Checkers("control_assurance", sub, View(scope), Related(runs, Seen(scope)),
              Rows(scope), found)
<1>1. FactsOf("control_assurance", scope, found) = Evaluated(Book("control_assurance"), ck)
  BY DEF FactsOf, MeasuredAlways
<1>2. f \in Evaluated(Book("control_assurance"), ck)
  BY <1>1
<1>. HIDE DEF ck
<1>3. PICK r \in RulesOf["control_assurance"] :
         \/ f = <<r, 0, "rule_draft">>
         \/ f = <<r, 0, ck[1][r]>>
         \/ \E i \in DOMAIN ck[2][r] : f = <<r, i, ck[2][r][i]>>
  BY <1>2, EvaluatedIs DEF ck, Agents
<1>. QED
  BY <1>3

\* A rule that was assessed before, and of which every new result is that it
\* holds or does not apply, is cleared.
Cleared(new, agent, r, scope) ==
  \E m \in new : /\ m.agent = agent /\ m.rule = r
                 /\ m.round = last.round + 1 /\ m.review = scope

\* That is so for every rule of a checker that is in force.
LEMMA RuleIsCleared ==
  ASSUME TwoRuns, NEW agent \in Graded, NEW scope \in Scopes, NEW found, NEW answer,
         NEW r \in RulesOf[agent] \ (JudgedRules \cup DraftRules \cup retired)
  PROVE  LET facts == FactsOf(agent, scope, found)
         IN  /\ r # ""
             /\ \E e \in {b \in asm : b.agent = agent} : e.rule = r
             /\ \A f \in ByRule(facts, r) : f[3] \in {"satisfied", "out_of_scope"}
             => Cleared(PassReview(agent, scope, found, answer), agent, r, scope)
<1>. DEFINE facts == FactsOf(agent, scope, found)
            review == Reviewed(agent, facts, scope, answer)
            earlier == {b \in asm : b.agent = agent}
            new == PassReview(agent, scope, found, answer)
            a == Claim(r, "clear", Units(ByRule(facts, r)), Ids(ByRule(facts, r)))
<1>1. agent \in Agents
  BY DEF Graded, Agents, Peer
<1>2. \A c \in review : Said(c, agent, facts, Seen(scope), answer, FirstSeen(scope))
  BY <1>1, ReviewedClaims
<1>3. \E f \in facts : f[1] = r
  BY RuleHasResult
<1>4. r \in DOMAIN Book(agent)
  BY DEF Book
<1>5. DOMAIN a = ClaimFields /\ a.rule = r
  BY DEF Claim, ClaimFields, AllFields
<1>6. new = {Marked(c, agent, scope) :
        c \in review \cup Clears(earlier, review, facts, Book(agent))}
  BY RecordedIs DEF PassReview
<1>. HIDE DEF facts, review, earlier, new, a
<1>7. ASSUME r # "", \E e \in earlier : e.rule = r,
             \A f \in ByRule(facts, r) : f[3] \in {"satisfied", "out_of_scope"}
      PROVE  Cleared(new, agent, r, scope)
  <2>1. ASSUME NEW c \in review PROVE c.rule # r
    BY <1>2, <1>7 DEF Said, Answered, Grounded, ByRule
  <2>2. ByRule(facts, r) # {}
    BY <1>3 DEF ByRule
  <2>3. a \in Clears(earlier, review, facts, Book(agent))
    BY <1>4, <1>7, <2>1, <2>2, ClearClaims DEF a
  <2>4. Marked(a, agent, scope) \in new
    BY <1>6, <2>3
  <2>5. LET m == Marked(a, agent, scope)
        IN  m.agent = agent /\ m.rule = r /\ m.round = last.round + 1 /\ m.review = scope
    BY <1>5, MarkedFields
  <2>. QED
    BY <2>4, <2>5 DEF Cleared
<1>. QED
  BY <1>7 DEF facts, earlier, new

\* What a pass finds stays among the latest facts.
LEMMA PassFactsKept ==
  ASSUME part \in Peer, NEW scope \in Scopes, NEW answer, Pass(scope, answer)
  PROVE  /\ ControlFacts(scope, answer) \subseteq latest'
         /\ \A f \in OwnFacts(scope) : f[1] \in RulesOf[part] => f \in latest'
<1>1. latest' = Versioned(Versioned(latest, OwnFacts(scope)), ControlFacts(scope, answer))
  BY PassIs DEF Known
<1>2. \A g \in ControlFacts(scope, answer) : g[1] \notin RulesOf[part]
  BY ControlsOwnRules, RulesAreNamed DEF ControlFacts
<1>. QED
  BY <1>1, <1>2 DEF Versioned, Id

\* The runs under review that a standing assessment is about.
Looked(a, scope) == IF a.scope = "run" THEN a.runs \cap Seen(scope)
                    ELSE IF scope = {} THEN {0} ELSE {}

\* After a pass, a breach that stands on what was looked at has a result that
\* is not that the rule holds.
LEMMA PassClears ==
  ASSUME Typed, NEW scope \in Scopes, NEW answer, Pass(scope, answer),
         NEW a \in asm', Stays(asm', a), a.verdict = "breach", a.certain, a.rule \notin retired,
         Looked(Narrowed(asm', a), scope) # {}
  PROVE  \E f \in latest' : /\ f[1] = a.rule /\ f[2] \in Seen(scope) \cup {0}
                            /\ f[3] \notin {"satisfied", "out_of_scope"}
<1>1. part \in Peer /\ TwoRuns /\ last.round \in Nat
  BY PartsAreSpecialists, AFollowUp DEF Typed
<1>2. asm' = asm \cup OwnEntries(scope, answer) \cup ControlEntries(scope, answer)
  BY PassIs
<1>3. AssessmentTyped(a)'
  BY PassTyped DEF Typed
<1>4. /\ a.agent \in {part, "control_assurance"} /\ a.agent \in Graded
      /\ a.rule \in RulesOf[a.agent] \ (JudgedRules \cup DraftRules) /\ a.rule # ""
  <2>1. a.agent \in {part, "control_assurance"} /\ Backed(a)
    <3>1. part' = part
      BY PassIs
    <3>. QED
      BY <1>3, <3>1 DEF AssessmentTyped, Backed
  <2>2. /\ a.agent \in Graded
        /\ a.rule \in RulesOf[a.agent] \ (JudgedRules \cup DraftRules)
    BY <2>1 DEF Backed
  <2>. QED
    BY <1>1, <2>1, <2>2, RulesAreNamed
<1>5. PICK found, reply :
        /\ FactsOf(a.agent, scope, found)
           = IF a.agent = part THEN OwnFacts(scope) ELSE ControlFacts(scope, answer)
        /\ PassReview(a.agent, scope, found, reply)
           = IF a.agent = part THEN OwnEntries(scope, answer) ELSE ControlEntries(scope, answer)
  <2>1. CASE a.agent = part
    BY <2>1 DEF OwnFacts, OwnEntries
  <2>2. CASE a.agent = "control_assurance" /\ a.agent # part
    BY <2>2 DEF ControlFacts, ControlEntries
  <2>. QED
    BY <1>4, <2>1, <2>2
<1>. DEFINE facts == FactsOf(a.agent, scope, found)
            new == PassReview(a.agent, scope, found, reply)
<1>6. ASSUME NEW f \in facts, f[1] = a.rule PROVE f \in latest' /\ f[2] \in Seen(scope) \cup {0}
  <2>1. f \in latest'
    BY <1>1, <1>4, <1>5, <1>6, PassFactsKept
  <2>2. Sound(facts, Seen(scope))
    BY <1>1, <1>4, FactsSound DEF Agents
  <2>. QED
    BY <2>1, <2>2 DEF Sound
<1>7. CASE \E f \in facts : f[1] = a.rule /\ f[3] \notin {"satisfied", "out_of_scope"}
  BY <1>6, <1>7
<1>8. CASE \A f \in facts : f[1] = a.rule => f[3] \in {"satisfied", "out_of_scope"}
  <2>1. a \notin new
    <3>1. a \in new => Entry(a, a.agent, facts, scope, reply)
      BY <1>1, <1>4, EntriesOf DEF Agents
    <3>. HIDE DEF facts, new
    <3>. QED
      BY <1>4, <1>8, <3>1 DEF Entry
  <2>2. a \in asm
    <3>1. /\ a \in OwnEntries(scope, answer) => a.agent = part
          /\ a \in ControlEntries(scope, answer) => a.agent = "control_assurance"
      <4>1. /\ \A b \in OwnEntries(scope, answer) :
                 Entry(b, part, OwnFacts(scope), scope, answer)
            /\ \A b \in ControlEntries(scope, answer) :
                 Entry(b, "control_assurance", ControlFacts(scope, answer), scope, "ok")
        BY <1>1, PassSound
      <4>. QED
        BY <4>1 DEF Entry
    <3>2. part # "control_assurance"
      BY <1>1 DEF Peer
    <3>. QED
      BY <1>2, <1>5, <2>1, <3>1, <3>2
  <2>3. PICK m \in new : /\ m.agent = a.agent /\ m.rule = a.rule
                         /\ m.round = last.round + 1 /\ m.review = scope
    <3>1. /\ a.rule \in RulesOf[a.agent] \ (JudgedRules \cup DraftRules \cup retired)
          /\ a \in {b \in asm : b.agent = a.agent}
          /\ \A f \in ByRule(facts, a.rule) : f[3] \in {"satisfied", "out_of_scope"}
      BY <1>4, <1>8, <2>2 DEF ByRule
    <3>2. Cleared(new, a.agent, a.rule, scope)
      BY <1>1, <1>4, <3>1, RuleIsCleared
    <3>. QED
      BY <3>2 DEF Cleared
  <2>4. m \in Later(asm', a)
    <3>1. a.round \in Nat /\ a.round <= last.round
      BY <1>1, <2>2 DEF Typed, AssessmentTyped
    <3>2. m \in asm'
      BY <1>2, <1>5, <2>3
    <3>3. m.round > a.round
      BY <1>1, <2>3, <3>1
    <3>. HIDE DEF new
    <3>4. SameClaim(a, m)
      BY <1>4, <2>3 DEF SameClaim
    <3>. QED
      BY <3>2, <3>3, <3>4 DEF Later
  <2>5. scope # {} /\ scope \subseteq Taken(asm', a)
    BY <2>3, <2>4 DEF Stays, Taken
  <2>6. Seen(scope) = scope
    BY <1>1, <2>5, SeenRuns
  <2>7. DOMAIN a = AllFields
    BY <1>3 DEF AssessmentTyped, IsRecord
  <2>8. /\ Narrowed(asm', a).scope = a.scope
        /\ a.scope = "run" => Narrowed(asm', a).runs = a.runs \ Taken(asm', a)
    BY <2>5, <2>7, NarrowedFields, NarrowedRuns DEF ByRun
  <2>. QED
    BY <2>5, <2>6, <2>8 DEF Looked
<1>. QED
  BY <1>7, <1>8

\* A breach stands only as long as the last results of its rule, on what was
\* just reviewed, are not all that it holds: what was put right is cleared by
\* the round that looks at it again (assess.py, clears, current). A rule
\* taken out of the book is not looked at again, so it is left out.
THEOREM ClearedRulesRetire == Spec => []ClearedIsRetired
<1>1. Init => ClearedIsRetired
  BY DEF Init, ClearedIsRetired
<1>2. ASSUME Typed, ClearedIsRetired, [Next]_vars PROVE ClearedIsRetired'
  <2>1. CASE \E scope \in Scopes, answer \in Answer(part) : Pass(scope, answer)
    <3>1. PICK scope \in Scopes, answer \in Answer(part) : Pass(scope, answer)
      BY <2>1
    <3>2. last'.scope = scope /\ retired' = retired /\ runs' = runs
      BY <3>1, PassIs
    <3>3. Seen(last.scope)' = Seen(scope)
      BY <3>2 DEF Seen, RunIds
    <3>4. ASSUME NEW b \in Standing', Looked(b, scope) # {}, b.verdict = "breach", b.certain,
                 b.rule \notin retired
          PROVE  \E f \in latest' : /\ f[1] = b.rule /\ f[2] \in Seen(scope) \cup {0}
                                    /\ f[3] \notin {"satisfied", "out_of_scope"}
      <4>1. PICK a \in asm' : Stays(asm', a) /\ b = Narrowed(asm', a)
        BY <3>4, CurrentIsNarrowed DEF Standing
      <4>2. DOMAIN a = AllFields
        BY <1>2, <3>1, PassTyped DEF Typed, AssessmentTyped, IsRecord
      <4>3. b.rule = a.rule /\ b.verdict = a.verdict /\ b.certain = a.certain
        BY <4>1, <4>2, NarrowedFields
      <4>. QED
        BY <1>2, <3>1, <3>4, <4>1, <4>3, PassClears
    <3>. QED
      BY <3>2, <3>3, <3>4 DEF ClearedIsRetired, Looked
  <2>2. CASE UNCHANGED <<part, runs, latest, asm, last>> /\ retired \subseteq retired'
    BY <1>2, <2>2 DEF ClearedIsRetired, Standing, Seen, RunIds
  <2>. QED
    BY <1>2, <2>1, <2>2, Steps
<1>. QED
  BY <1>1, <1>2, AlwaysTyped, PTL DEF Spec

\* The checkers of a pass.
Used(agent, scope, found) ==
  Checkers(agent, sub, View(scope), Related(runs, Seen(scope)), Rows(scope), found)

\* A result about a single run is one that a checker of runs came to.
LEMMA RunFactIs ==
  ASSUME TwoRuns, NEW agent \in Agents, NEW scope \in Scopes, NEW found,
         NEW f \in FactsOf(agent, scope, found), f[2] # 0
  PROVE  /\ agent \in Graded /\ f[1] \in RulesOf[agent]
              /\ f[1] \in DOMAIN Used(agent, scope, found)[2]
         /\ f[2] \in DOMAIN Used(agent, scope, found)[2][f[1]]
         /\ f = <<f[1], f[2], Used(agent, scope, found)[2][f[1]][f[2]]>>
<1>. DEFINE ck == Used(agent, scope, found)
<1>1. CASE agent \in Graded
  <2>1. f \in MeasuredAlways(agent) \/ f \in Evaluated(Book(agent), ck)
    BY <1>1, FactsOfGraded DEF Used
  <2>2. f \notin MeasuredAlways(agent)
    BY DEF MeasuredAlways
  <2>3. f \in Evaluated(Book(agent), ck) <=>
               \E r \in RulesOf[agent] :
                  \/ r \in DraftRules \ retired /\ f = <<r, 0, "rule_draft">>
                  \/ r \notin retired \cup DraftRules /\ r \in DOMAIN ck[1]
                       /\ f = <<r, 0, ck[1][r]>>
                  \/ /\ r \notin retired \cup DraftRules /\ r \in DOMAIN ck[2]
                     /\ \E i \in DOMAIN ck[2][r] : f = <<r, i, ck[2][r][i]>>
    BY EvaluatedIs DEF Used
  <2>. HIDE DEF ck
  <2>4. PICK r \in RulesOf[agent] : /\ r \in DOMAIN ck[2]
                                    /\ \E i \in DOMAIN ck[2][r] : f = <<r, i, ck[2][r][i]>>
    BY <2>1, <2>2, <2>3
  <2>. QED
    BY <1>1, <2>4 DEF ck
<1>2. CASE agent = "log"
  BY <1>2, LogFactsSound DEF FactsOf
<1>3. CASE agent = "drift"
  BY <1>3, DriftFactsSound DEF FactsOf
<1>4. CASE agent = "systemic"
  BY <1>4 DEF FactsOf
<1>. QED
  BY <1>1, <1>2, <1>3, <1>4 DEF Agents, Peer, Graded

\* The rules of a mandate that the firm's controls are there to keep, and what
\* they come to on a run, which is nobody's register's business.
Caps == {"MNDCAP01", "MNDCAP03"}

\* What such a rule comes to.
CapResult(r, run) == IF r = "MNDCAP01" THEN Mnd!Cap01(run) ELSE Mnd!Cap03(run)

\* No other specialist has those rules.
LEMMA CapsAreMandates ==
  \A agent \in Graded : agent # "mandate" => RulesOf[agent] \cap Caps = {}
BY DEF Graded, RulesOf, Caps

\* A result of such a rule is of a run looked at, and what the run shows.
LEMMA CapFacts ==
  ASSUME TwoRuns, NEW agent \in Agents, NEW scope \in Scopes, NEW found,
         NEW f \in FactsOf(agent, scope, found), f[1] \in Caps, f[2] # 0
  PROVE  f[2] \in Seen(scope) /\ f[3] = CapResult(f[1], runs[f[2]])
<1>. DEFINE per == Mnd!MandatePerRun(View(scope), Related(runs, Seen(scope)))
<1>1. /\ agent \in Graded /\ f[1] \in RulesOf[agent]
      /\ f[2] \in DOMAIN Used(agent, scope, found)[2][f[1]]
      /\ f = <<f[1], f[2], Used(agent, scope, found)[2][f[1]][f[2]]>>
  BY RunFactIs
<1>2. agent = "mandate"
  BY <1>1, CapsAreMandates
<1>3. Used(agent, scope, found)[2] = per
  BY <1>2 DEF Used, Checkers
<1>4. /\ per["MNDCAP01"] = [i \in DOMAIN View(scope) |-> Mnd!Cap01(View(scope)[i])]
      /\ per["MNDCAP03"] = [i \in DOMAIN View(scope) |-> Mnd!Cap03(View(scope)[i])]
  BY DEF Mnd!MandatePerRun
<1>5. DOMAIN View(scope) = Seen(scope) /\ \A i \in Seen(scope) : View(scope)[i] = runs[i]
  BY SeenRuns
<1>. HIDE DEF per
<1>. QED
  BY <1>1, <1>3, <1>4, <1>5 DEF Caps, CapResult

\* Whether a control was silent has a result for each run looked at.
LEMMA SilentFacts ==
  ASSUME TwoRuns, "CTLEFF01" \notin retired, NEW scope \in Scopes, NEW found,
         NEW i \in Seen(scope), NEW f
  PROVE  f \in FactsOf("control_assurance", scope, found) /\ f[1] = "CTLEFF01" /\ f[2] = i
         <=> f = <<"CTLEFF01", i, Ctl!Eff01(sub, runs[i], found[i])>>
<1>. DEFINE per == Ctl!ControlPerRun(sub, View(scope), found)
            ck == Used("control_assurance", scope, found)
            facts == FactsOf("control_assurance", scope, found)
<1>1. ck[2] = per
  BY DEF Used, Checkers
<1>2. /\ "CTLEFF01" \in DOMAIN per
      /\ per["CTLEFF01"] = [j \in DOMAIN View(scope) |-> Ctl!Eff01(sub, View(scope)[j], found[j])]
  BY DEF Ctl!ControlPerRun
<1>3. DOMAIN View(scope) = Seen(scope) /\ View(scope)[i] = runs[i] /\ i # 0
  BY SeenRuns
<1>. HIDE DEF per
<1>4. i \in DOMAIN per["CTLEFF01"] /\ per["CTLEFF01"][i] = Ctl!Eff01(sub, runs[i], found[i])
  BY <1>2, <1>3
<1>. HIDE DEF ck, facts
<1>5. ASSUME f \in facts, f[1] = "CTLEFF01", f[2] = i
               PROVE f = <<"CTLEFF01", i, per["CTLEFF01"][i]>>
  <2>1. f = <<f[1], f[2], ck[2][f[1]][f[2]]>>
    BY <1>3, <1>5, RunFactIs DEF facts, ck, Agents
  <2>. QED
    BY <1>1, <1>5, <2>1
<1>6. ASSUME f = <<"CTLEFF01", i, per["CTLEFF01"][i]>>
      PROVE  f \in facts /\ f[1] = "CTLEFF01" /\ f[2] = i
  <2>1. "CTLEFF01" \in RulesOf["control_assurance"] \ (retired \cup DraftRules)
    BY DEF RulesOf, DraftRules
  <2>2. facts = Evaluated(Book("control_assurance"), ck)
    BY DEF facts, ck, Used, FactsOf, MeasuredAlways
  <2>3. f \in Evaluated(Book("control_assurance"), ck)
    BY <1>1, <1>2, <1>4, <1>6, <2>1, EvaluatedIs DEF ck, Used, Agents
  <2>. QED
    BY <1>6, <2>2, <2>3
<1>. QED
  BY <1>4, <1>5, <1>6 DEF facts

\* The risks that a run's controls are keyed to, where the control passed.
Risks(i) ==
  {sub.controls[e.control].risk :
     e \in {d \in runs[i].evals : d.control \in DOMAIN sub.controls /\ d.outcome = "passed"}}

\* A control passed where its own risk came about.
Harmed(i, overCap, offList) ==
  \/ "per_transaction_cap" \in Risks(i) /\ overCap
  \/ "counterparty_allowlist" \in Risks(i) /\ offList

\* The firm's controls are keyed to one of two risks.
TwoControls ==
  \A c \in DOMAIN sub.controls :
    sub.controls[c].risk \in {"per_transaction_cap", "counterparty_allowlist"}

\* The control specialist's evidence of a silent control is that the harm was
\* found on the run (control_checks.py, silent).
LEMMA SilentIs ==
  ASSUME TwoControls, NEW i, NEW found
  PROVE  /\ Ctl!Silent(sub, runs[i], found) # {} <=> Harmed(i, "F42" \in found, "F45" \in found)
         /\ Ctl!Silent(sub, runs[i], found) \subseteq runs[i].evals
<1>1. /\ Ctl!RiskEvidence("per_transaction_cap") = {"F42"}
      /\ Ctl!RiskEvidence("counterparty_allowlist") = {"F45"}
  BY DEF Ctl!RiskEvidence
<1>2. ASSUME NEW e \in Ctl!Silent(sub, runs[i], found)
      PROVE  Harmed(i, "F42" \in found, "F45" \in found)
  <2>1. /\ e \in runs[i].evals /\ e.control \in DOMAIN sub.controls /\ e.outcome = "passed"
        /\ Ctl!RiskEvidence(sub.controls[e.control].risk) \cap found # {}
    BY <1>2 DEF Ctl!Silent
  <2>2. sub.controls[e.control].risk \in Risks(i)
    BY <2>1 DEF Risks
  <2>. QED
    BY <1>1, <2>1, <2>2 DEF TwoControls, Harmed
<1>3. ASSUME NEW risk \in Risks(i), Ctl!RiskEvidence(risk) \cap found # {}
      PROVE  Ctl!Silent(sub, runs[i], found) # {}
  BY <1>3 DEF Risks, Ctl!Silent
<1>4. Ctl!Silent(sub, runs[i], found) \subseteq runs[i].evals
  BY DEF Ctl!Silent
<1>. QED
  BY <1>1, <1>2, <1>3, <1>4 DEF Harmed

\* A breach of such a rule is on the record of a run.
Broken(r, i) == <<r, i, "breach">> \in latest

\* What is on record of those rules is what the runs show.
CapsTrue ==
  /\ \A r \in Caps, i \in {1, 2} : Broken(r, i) => CapResult(r, runs[i]) = "breach"
  /\ \A a \in asm : a.rule \in Caps /\ a.verdict = "breach" => \A i \in a.runs : Broken(a.rule, i)

\* What a pass knows of them before the controls are looked at, and after.
LEMMA CapsKept ==
  ASSUME Typed, CapsTrue, NEW scope \in Scopes, NEW answer, Pass(scope, answer),
         NEW r \in Caps, NEW i \in {1, 2}
  PROVE  /\ Broken(r, i) => <<r, i, "breach">> \in Known(scope)
         /\ Broken(r, i)' <=> <<r, i, "breach">> \in Known(scope)
         /\ i \notin Seen(scope) /\ Broken(r, i)' => Broken(r, i)
<1>. DEFINE t == <<r, i, "breach">>
            own == OwnFacts(scope)
            controls == ControlFacts(scope, answer)
<1>1. part \in Peer /\ TwoRuns
  BY PartsAreSpecialists DEF Typed
<1>2. Known(scope) = Versioned(latest, own) /\ latest' = Versioned(Known(scope), controls)
  BY PassIs DEF Known
<1>3. \A g \in own : g[1] = r /\ g[2] = i => g[2] \in Seen(scope) /\ g[3] = CapResult(r, runs[i])
  BY <1>1, CapFacts DEF OwnFacts, Agents
<1>4. \A g \in own : g = <<g[1], g[2], g[3]>>
  BY <1>1, PassSound DEF Sound
<1>5. \A g \in controls : g[1] # r
  <2>1. \A g \in controls : g[1] \in RulesOf["control_assurance"]
    BY ControlsOwnRules DEF ControlFacts
  <2>. QED
    BY <2>1, CapsAreMandates DEF Graded
<1>. HIDE DEF own, controls
<1>6. t[1] = r /\ t[2] = i
  OBVIOUS
<1>7. t \in latest' <=> t \in Known(scope)
  BY <1>2, <1>5, <1>6 DEF Versioned, Id
<1>8. ASSUME t \in latest PROVE t \in Known(scope)
  <2>1. CASE \E g \in own : Id(g) = <<r, i>>
    <3>1. PICK g \in own : Id(g) = <<r, i>>
      BY <2>1
    <3>2. g[1] = r /\ g[2] = i
      BY <3>1 DEF Id
    <3>3. g = t
      BY <1>3, <1>4, <1>8, <3>2 DEF CapsTrue, Broken
    <3>. QED
      BY <1>2, <3>3 DEF Versioned
  <2>2. CASE ~\E g \in own : Id(g) = <<r, i>>
    BY <1>2, <1>8, <2>2 DEF Versioned, Id
  <2>. QED
    BY <2>1, <2>2
<1>9. i \notin Seen(scope) /\ t \in Known(scope) => t \in latest
  BY <1>2, <1>3, <1>6 DEF Versioned
<1>. QED
  BY <1>7, <1>8, <1>9 DEF Broken

\* What a pass leaves on the record of them is true too.
LEMMA PassCapsTrue ==
  ASSUME Typed, CapsTrue, NEW scope \in Scopes, NEW answer, Pass(scope, answer)
  PROVE  /\ CapsTrue'
         /\ \A a \in OwnEntries(scope, answer) :
              a.rule \in Caps /\ a.verdict = "breach" =>
                \A i \in a.runs : <<a.rule, i, "breach">> \in Known(scope)
<1>1. part \in Peer /\ TwoRuns
  BY PartsAreSpecialists DEF Typed
<1>2. /\ asm' = asm \cup OwnEntries(scope, answer) \cup ControlEntries(scope, answer)
      /\ runs' = runs
  BY PassIs
<1>3. ASSUME NEW r \in Caps, NEW i \in {1, 2}, <<r, i, "breach">> \in Known(scope)
      PROVE  CapResult(r, runs[i]) = "breach"
  <2>1. CASE Broken(r, i)
    BY <2>1 DEF CapsTrue
  <2>2. CASE <<r, i, "breach">> \in OwnFacts(scope)
    <3>1. \A g \in OwnFacts(scope) : g[1] \in Caps /\ g[2] # 0
            => g[3] = CapResult(g[1], runs[g[2]])
      BY <1>1, CapFacts DEF OwnFacts, Agents
    <3>. DEFINE t == <<r, i, "breach">>
    <3>2. t[1] = r /\ t[2] = i /\ t[3] = "breach"
      OBVIOUS
    <3>. HIDE DEF t
    <3>. QED
      BY <2>2, <3>1, <3>2 DEF t
  <2>. QED
    BY <1>3, <2>1, <2>2 DEF Known, Versioned, Broken
<1>4. ASSUME NEW a \in OwnEntries(scope, answer), a.rule \in Caps, a.verdict = "breach",
             NEW i \in a.runs
      PROVE  i \in {1, 2} /\ <<a.rule, i, "breach">> \in Known(scope)
  <2>1. Entry(a, part, OwnFacts(scope), scope, answer) /\ Sound(OwnFacts(scope), Seen(scope))
    BY <1>1, PassSound
  <2>2. i \in {1, 2}
    BY <1>1, <2>1, SeenRuns DEF Entry
  <2>3. a.rule \notin JudgedRules /\ a.rule # ""
    BY <1>4 DEF Caps, JudgedRules, Bas!LogRules, Bas!LogCore
  <2>4. PICK f \in OwnFacts(scope) : f[1] = a.rule /\ f[2] = i /\ f[3] = "breach"
    BY <1>4, <2>1, <2>3 DEF Entry, Borne
  <2>5. f = <<a.rule, i, "breach">>
    BY <2>1, <2>4 DEF Sound
  <2>. QED
    BY <2>2, <2>4, <2>5 DEF Known, Versioned
<1>5. ASSUME NEW a \in ControlEntries(scope, answer), a.rule \in Caps PROVE FALSE
  <2>1. Entry(a, "control_assurance", ControlFacts(scope, answer), scope, "ok")
    BY <1>1, PassSound
  <2>2. a.rule \notin JudgedRules /\ a.rule # ""
    BY <1>5 DEF Caps, JudgedRules, Bas!LogRules, Bas!LogCore
  <2>3. a.rule \in RulesOf["control_assurance"]
    BY <2>1, <2>2 DEF Entry
  <2>. QED
    BY <1>5, <2>3, CapsAreMandates DEF Graded
<1>6. \A r \in Caps, i \in {1, 2} : Broken(r, i)' => CapResult(r, runs[i]) = "breach"
  BY <1>3, CapsKept
<1>7. ASSUME NEW a \in asm', a.rule \in Caps, a.verdict = "breach", NEW i \in a.runs
      PROVE  Broken(a.rule, i)'
  <2>1. CASE a \in asm
    <3>1. i \in {1, 2} /\ Broken(a.rule, i)
      BY <1>7, <2>1 DEF Typed, AssessmentTyped, CapsTrue
    <3>. QED
      BY <1>7, <3>1, CapsKept
  <2>2. CASE a \in OwnEntries(scope, answer)
    <3>1. i \in {1, 2} /\ <<a.rule, i, "breach">> \in Known(scope)
      BY <1>4, <1>7, <2>2
    <3>. QED
      BY <1>7, <3>1, CapsKept
  <2>. QED
    BY <1>2, <1>5, <1>7, <2>1, <2>2
<1>. QED
  BY <1>2, <1>4, <1>6, <1>7 DEF CapsTrue

\* Every alternative of a firm's controls is keyed to those two risks.
LEMMA ControlsField ==
  /\ "controls" \in DOMAIN AllSubFields
  /\ \A j \in DOMAIN AllSubFields["controls"] :
       \A c \in DOMAIN AllSubFields["controls"][j] :
         AllSubFields["controls"][j][c].risk \in {"per_transaction_cap", "counterparty_allowlist"}
  /\ 1 \in DOMAIN AllSubFields["controls"]
<1>. DEFINE field == <<Controls,
                       [c \in {} |-> Controls.cap],
                       [list |-> Controls.list],
                       [Controls EXCEPT !.cap.versioned = FALSE],
                       [Controls EXCEPT !.cap.enforcement = "unstated"]>>
<1>1. "controls" \notin DOMAIN KyaFields
  BY DEF KyaFields
<1>2. "controls" \in DOMAIN SubFields /\ SubFields["controls"] = field
  BY DEF SubFields
<1>3. "controls" \in DOMAIN AllSubFields /\ AllSubFields["controls"] = field
  BY <1>1, <1>2, JoinedAdds DEF AllSubFields
<1>4. DOMAIN field = 1 .. 5
  OBVIOUS
<1>5. \A j \in 1 .. 5 : \A c \in DOMAIN field[j] :
        field[j][c].risk \in {"per_transaction_cap", "counterparty_allowlist"}
  BY DEF Controls, Control
<1>. HIDE DEF field
<1>. QED
  BY <1>3, <1>4, <1>5

\* The registers of a case are as its deviations say, and its controls, which
\* no register holds, deviate at most once.
OnControls(devs) == {d \in Of(devs, 0) : d.key = "controls"}

\* That is what is kept of them from the first state on.
ControlsSettled ==
  /\ sub = Submission(dev)
  /\ \A d \in OnControls(dev) : IsValue(d)
  /\ \A d, e \in OnControls(dev) : d = e

\* The controls of a submission are those of its one deviation, if it has
\* one.
LEMMA ControlsOf ==
  ASSUME NEW devs
  PROVE  /\ OnControls(devs) = {} => Submission(devs).controls = AllSubFields["controls"][1]
         /\ \A d \in OnControls(devs) : (\A e \in OnControls(devs) : e = d) =>
              Submission(devs).controls = AllSubFields["controls"][d.alt]
<1>1. Submission(devs).controls
      = IF \E d \in Of(devs, 0) : d.key = "controls"
        THEN AllSubFields["controls"][(CHOOSE d \in Of(devs, 0) : d.key = "controls").alt]
        ELSE AllSubFields["controls"][1]
  BY ControlsField DEF Submission, Deviated
<1>2. ASSUME OnControls(devs) = {}
      PROVE  Submission(devs).controls = AllSubFields["controls"][1]
  BY <1>1, <1>2 DEF OnControls
<1>3. ASSUME NEW d \in OnControls(devs), \A e \in OnControls(devs) : e = d
      PROVE  Submission(devs).controls = AllSubFields["controls"][d.alt]
  <2>. DEFINE x == CHOOSE y \in Of(devs, 0) : y.key = "controls"
  <2>1. \E y \in Of(devs, 0) : y.key = "controls"
    BY <1>3 DEF OnControls
  <2>2. x \in Of(devs, 0) /\ x.key = "controls"
    BY <2>1
  <2>3. Submission(devs).controls = AllSubFields["controls"][x.alt]
    BY <1>1, <2>1
  <2>. HIDE DEF x
  <2>. QED
    BY <1>3, <2>2, <2>3 DEF OnControls
<1>. QED
  BY <1>2, <1>3

\* So the controls stay keyed to the two risks.
LEMMA SettledControls == ControlsSettled => TwoControls
<1>. SUFFICES ASSUME ControlsSettled PROVE TwoControls
  OBVIOUS
<1>1. CASE OnControls(dev) = {}
  BY <1>1, ControlsOf, ControlsField DEF ControlsSettled, TwoControls
<1>2. ASSUME NEW d \in OnControls(dev) PROVE TwoControls
  <2>1. sub.controls = AllSubFields["controls"][d.alt]
    BY <1>2, ControlsOf DEF ControlsSettled
  <2>2. d.alt \in DOMAIN AllSubFields["controls"]
    BY <1>2 DEF ControlsSettled, IsValue, Fields, OnControls, Of
  <2>. QED
    BY <2>1, <2>2, ControlsField DEF TwoControls
<1>. QED
  BY <1>1, <1>2

\* Two deviations of one case are of two fields that its rules read together.
LEMMA CasesDeviateOnce ==
  ASSUME NEW p, NEW devs \in Cases(p)
  PROVE  \A d, e \in OnControls(devs) : d = e
<1>. DEFINE single == {x \in Single(p) : IsValue(x)}
<1>1. \/ devs = {}
      \/ \E x \in single : devs = {x}
      \/ \E t \in single \X single : devs = {t[1], t[2]} /\ <<t[1].key, t[2].key>> \in Together(p)
  BY DEF Cases
<1>. HIDE DEF single
<1>2. <<"controls", "controls">> \notin Together(p)
  BY DEF Together
<1>. QED
  BY <1>1, <1>2 DEF OnControls, Of

\* A change of the registers leaves the controls as they were.
LEMMA ControlsUnchanged ==
  ASSUME ControlsSettled, NEW devs \in Changes(dev)
  PROVE  OnControls(devs) = OnControls(dev) /\ Submission(devs).controls = sub.controls
<1>1. OnControls(devs) = OnControls(dev)
  <2>1. CASE devs = {d \in dev : d.of # 0 \/ d.key \notin Registers}
    BY <2>1 DEF OnControls, Of, Registers
  <2>2. CASE \E k \in {"agentListed", "merchants", "tools"} : devs = dev \cup {Deviation(0, k, 2)}
    BY <2>2 DEF OnControls, Of, Deviation
  <2>. QED
    BY <2>1, <2>2 DEF Changes
<1>2. Submission(devs).controls = sub.controls
  <2>1. CASE OnControls(dev) = {}
    BY <1>1, <2>1, ControlsOf DEF ControlsSettled
  <2>2. ASSUME NEW d \in OnControls(dev) PROVE Submission(devs).controls = sub.controls
    BY <1>1, <2>2, ControlsOf DEF ControlsSettled
  <2>. QED
    BY <2>1, <2>2
<1>. QED
  BY <1>1, <1>2
----------------------------------------------------------------------------
\* The evidence on a run has a breach of one of those rules exactly where the
\* pass knows of it.
LEMMA EvidenceIs ==
  ASSUME Typed, CapsTrue, NEW scope \in Scopes, NEW answer, Pass(scope, answer),
         NEW i \in Seen(scope)
  PROVE  /\ "F42" \in Evidence(scope, answer)[i] <=> <<"MNDCAP01", i, "breach">> \in Known(scope)
         /\ "F45" \in Evidence(scope, answer)[i] <=> <<"MNDCAP03", i, "breach">> \in Known(scope)
<1>. DEFINE recorded == asm \cup OwnEntries(scope, answer)
            known == Known(scope)
            keyed == {"MNDCAP01", "MNDCAP05", "MNDCAP02", "MNDCAP03", "CNSPRS01", "MNDUSE01"}
<1>1. part \in Peer /\ TwoRuns /\ i \in {1, 2}
  BY PartsAreSpecialists, SeenRuns DEF Typed
<1>2. Evidence(scope, answer)[i] = Ctl!PeersFound(known, i) \cup Ctl!Assessed(recorded, i)
  BY DEF Evidence, Ctl!PeersEvidence
<1>3. \A f \in known : f = <<f[1], f[2], f[3]>>
  BY <1>1, PassSound DEF Known, Versioned, Typed, FactTyped, Sound
<1>4. /\ DOMAIN Ctl!Failures = keyed
      /\ \A r \in keyed : /\ "F42" \in Ctl!Failures[r] <=> r = "MNDCAP01"
                          /\ "F45" \in Ctl!Failures[r] <=> r = "MNDCAP03"
  BY DEF Ctl!Failures
<1>5. \A x : x \in Ctl!PeersFound(known, i) <=>
               \E f \in known : /\ f[2] = i /\ f[3] = "breach" /\ f[1] \in DOMAIN Ctl!Failures
                                /\ x \in Ctl!Failures[f[1]]
  BY DEF Ctl!PeersFound
<1>6. \A x : x \in Ctl!Assessed(recorded, i) <=>
               \E a \in recorded : /\ a.verdict = "breach" /\ i \in a.runs
                                   /\ a.rule \in DOMAIN Ctl!Failures /\ x \in Ctl!Failures[a.rule]
  BY DEF Ctl!Assessed
<1>7. ASSUME NEW a \in recorded, a.rule \in Caps, a.verdict = "breach", i \in a.runs
      PROVE  <<a.rule, i, "breach">> \in known
  <2>1. CASE a \in asm
    BY <1>1, <1>7, <2>1, CapsKept DEF CapsTrue
  <2>2. CASE a \in OwnEntries(scope, answer)
    BY <1>7, <2>2, PassCapsTrue
  <2>. QED
    BY <1>7, <2>1, <2>2
<1>. HIDE DEF recorded, known, keyed
<1>8. ASSUME NEW r \in Caps, NEW x, r \in keyed,
             \A q \in keyed : x \in Ctl!Failures[q] <=> q = r
      PROVE  x \in Evidence(scope, answer)[i] <=> <<r, i, "breach">> \in known
  <2>1. ASSUME <<r, i, "breach">> \in known PROVE x \in Ctl!PeersFound(known, i)
    <3>. DEFINE f == <<r, i, "breach">>
    <3>1. f[1] = r /\ f[2] = i /\ f[3] = "breach" /\ f \in known
      BY <2>1
    <3>. HIDE DEF f
    <3>. QED
      BY <1>4, <1>5, <1>8, <3>1
  <2>2. ASSUME x \in Ctl!PeersFound(known, i) PROVE <<r, i, "breach">> \in known
    <3>1. PICK f \in known : /\ f[2] = i /\ f[3] = "breach" /\ f[1] \in DOMAIN Ctl!Failures
                             /\ x \in Ctl!Failures[f[1]]
      BY <1>5, <2>2
    <3>2. f[1] = r
      BY <1>4, <1>8, <3>1
    <3>. QED
      BY <1>3, <3>1, <3>2
  <2>3. ASSUME x \in Ctl!Assessed(recorded, i) PROVE <<r, i, "breach">> \in known
    <3>1. PICK a \in recorded : /\ a.verdict = "breach" /\ i \in a.runs
                                /\ a.rule \in DOMAIN Ctl!Failures /\ x \in Ctl!Failures[a.rule]
      BY <1>6, <2>3
    <3>2. a.rule = r
      BY <1>4, <1>8, <3>1
    <3>. QED
      BY <1>7, <1>8, <3>1, <3>2
  <2>. QED
    BY <1>2, <2>1, <2>2, <2>3
<1>9. "MNDCAP01" \in Caps /\ "MNDCAP03" \in Caps /\ "MNDCAP01" \in keyed /\ "MNDCAP03" \in keyed
  BY DEF Caps, keyed
<1>. QED
  BY <1>4, <1>8, <1>9 DEF known
----------------------------------------------------------------------------
\* A control was silent on a run, by the breaches on record.
SilentOn(i) == Harmed(i, Broken("MNDCAP01", i), Broken("MNDCAP03", i))

\* A control is found silent on a run exactly where it was.
EffRight ==
  last.round > 0 /\ "CTLEFF01" \notin retired =>
    \A i \in {1, 2} : Broken("CTLEFF01", i) <=> SilentOn(i)

\* A pass keeps that: for the runs it looks at the control specialist sees
\* the breaches the other specialist has just found, and those of the others
\* have not changed.
LEMMA PassEffRight ==
  ASSUME Typed, TwoControls, CapsTrue, EffRight, NEW scope \in Scopes, NEW answer,
         Pass(scope, answer)
  PROVE  EffRight'
<1>1. part \in Peer /\ TwoRuns /\ last.round \in Nat
  BY PartsAreSpecialists, AFollowUp DEF Typed
<1>2. /\ latest' = Versioned(Versioned(latest, OwnFacts(scope)), ControlFacts(scope, answer))
      /\ last.round = 0 => scope = {}
      /\ retired' = retired /\ runs' = runs /\ sub' = sub
  BY PassIs DEF Known
<1>. SUFFICES ASSUME "CTLEFF01" \notin retired, NEW i \in {1, 2}
              PROVE  Broken("CTLEFF01", i)' <=> SilentOn(i)'
  BY <1>2 DEF EffRight
<1>3. Risks(i)' = Risks(i)
  BY <1>2 DEF Risks
<1>4. \A f \in OwnFacts(scope) : ~(f[1] = "CTLEFF01" /\ f[2] = i)
  <2>1. \A f \in OwnFacts(scope) : f[2] # 0 => f[1] \in RulesOf[part]
    BY <1>1, RunFactIs DEF OwnFacts, Agents
  <2>2. "CTLEFF01" \in RulesOf["control_assurance"]
    BY DEF RulesOf
  <2>3. "CTLEFF01" \notin RulesOf[part]
    <3>1. RulesOf[part] \cap RulesOf["control_assurance"] = {}
      BY <1>1, RulesAreNamed
    <3>. QED
      BY <2>2, <3>1
  <2>4. i # 0
    OBVIOUS
  <2>. QED
    BY <2>1, <2>3, <2>4
<1>5. CASE i \in Seen(scope)
  <2>. DEFINE t == <<"CTLEFF01", i, "breach">>
              found == Evidence(scope, answer)
              result == Ctl!Eff01(sub, runs[i], found[i])
  <2>1. \A f : f \in ControlFacts(scope, answer) /\ f[1] = "CTLEFF01" /\ f[2] = i
               <=> f = <<"CTLEFF01", i, result>>
    BY <1>1, <1>5, SilentFacts DEF ControlFacts
  <2>2. t \in latest' <=> result = "breach"
    <3>. HIDE DEF result, found
    <3>. DEFINE u == <<"CTLEFF01", i, result>>
    <3>1. u \in ControlFacts(scope, answer) /\ Id(u) = <<"CTLEFF01", i>>
      BY <2>1 DEF Id
    <3>2. t \in latest' <=> t \in ControlFacts(scope, answer)
      BY <1>2, <3>1 DEF Versioned, Id
    <3>3. t \in ControlFacts(scope, answer) <=> t = u
      BY <2>1
    <3>. QED
      BY <3>2, <3>3
  <2>3. result = "breach" <=> Ctl!Silent(sub, runs[i], found[i]) # {}
    <3>1. Ctl!Silent(sub, runs[i], found[i]) \subseteq runs[i].evals
      BY SilentIs
    <3>. QED
      BY <3>1 DEF Ctl!Eff01, Ctl!Evaluated, Ctl!Verdict
  <2>4. Ctl!Silent(sub, runs[i], found[i]) # {}
        <=> Harmed(i, "F42" \in found[i], "F45" \in found[i])
    BY SilentIs
  <2>5. /\ "F42" \in found[i] <=> <<"MNDCAP01", i, "breach">> \in Known(scope)
        /\ "F45" \in found[i] <=> <<"MNDCAP03", i, "breach">> \in Known(scope)
    BY <1>5, EvidenceIs
  <2>6. /\ <<"MNDCAP01", i, "breach">> \in Known(scope) <=> Broken("MNDCAP01", i)'
        /\ <<"MNDCAP03", i, "breach">> \in Known(scope) <=> Broken("MNDCAP03", i)'
    BY CapsKept DEF Caps
  <2>. HIDE DEF result, found
  <2>7. Broken("CTLEFF01", i)' <=> t \in latest'
    BY DEF Broken
  <2>. QED
    BY <1>3, <2>2, <2>3, <2>4, <2>5, <2>6, <2>7 DEF SilentOn, Harmed
<1>6. CASE i \notin Seen(scope)
  <2>1. last.round > 0
    <3>1. Seen({}) = {1, 2}
      BY <1>1 DEF Seen, RunIds, TwoRuns
    <3>. QED
      BY <1>1, <1>2, <1>6, <3>1
  <2>2. Broken("CTLEFF01", i) <=> SilentOn(i)
    BY <2>1 DEF EffRight
  <2>3. \A f \in ControlFacts(scope, answer) : f[2] # i
    BY <1>1, <1>6, PassSound DEF Sound
  <2>4. Broken("CTLEFF01", i)' <=> Broken("CTLEFF01", i)
    <3>. DEFINE t == <<"CTLEFF01", i, "breach">>
    <3>1. t[1] = "CTLEFF01" /\ t[2] = i
      OBVIOUS
    <3>. HIDE DEF t
    <3>2. t \in latest' <=> t \in latest
      BY <1>2, <1>4, <2>3, <3>1 DEF Versioned, Id
    <3>. QED
      BY <3>2 DEF t, Broken
  <2>5. \A r \in Caps : Broken(r, i)' <=> Broken(r, i)
    BY <1>6, CapsKept
  <2>. QED
    BY <1>3, <2>2, <2>4, <2>5 DEF SilentOn, Harmed, Caps
<1>. QED
  BY <1>5, <1>6

\* A control that let its own risk through is found ineffective on exactly
\* the runs where the other specialist's breaches show it, in whatever order
\* the reviews were made, and a control's posture never says more than that
\* (control_checks.py, Eff01 and posture; graph.py, controls after the
\* specialists).
THEOREM SilentControlsAreFound == Spec => []EffSeesPeers
<1>. DEFINE Inv == CapsTrue /\ ControlsSettled /\ EffRight
<1>1. Init => Inv
  <2>. SUFFICES ASSUME Init PROVE Inv
    OBVIOUS
  <2>1. CapsTrue /\ EffRight
    BY DEF Init, CapsTrue, EffRight, Broken
  <2>2. \A d \in OnControls(dev) : IsValue(d)
    BY CaseDeviations DEF Init, OnControls, Of
  <2>3. \A d, e \in OnControls(dev) : d = e
    BY CasesDeviateOnce DEF Init
  <2>4. sub = Submission(dev)
    BY DEF Init
  <2>. QED
    BY <2>1, <2>2, <2>3, <2>4 DEF ControlsSettled
<1>2. ASSUME Typed, Inv, [Next]_vars PROVE Inv'
  <2>1. CASE \E scope \in Scopes, answer \in Answer(part) : Pass(scope, answer)
    <3>1. PICK scope \in Scopes, answer \in Answer(part) : Pass(scope, answer)
      BY <2>1
    <3>2. CapsTrue' /\ EffRight'
      BY <1>2, <3>1, PassCapsTrue, PassEffRight, SettledControls
    <3>3. ControlsSettled'
      <4>1. dev' = dev /\ sub' = sub
        BY <3>1, PassIs
      <4>. QED
        BY <1>2, <4>1 DEF ControlsSettled
    <3>. QED
      BY <3>2, <3>3
  <2>2. CASE \E devs \in Changes(dev) : Change(devs)
    <3>1. PICK devs \in Changes(dev) : Change(devs)
      BY <2>2
    <3>2. /\ dev' = devs /\ sub' = Submission(devs)
          /\ UNCHANGED <<runs, retired, latest, asm, last>>
      BY <3>1 DEF Change
    <3>3. OnControls(devs) = OnControls(dev) /\ sub'.controls = sub.controls
      BY <1>2, <3>2, ControlsUnchanged
    <3>4. CapsTrue' /\ ControlsSettled'
      BY <1>2, <3>2, <3>3 DEF CapsTrue, Broken, ControlsSettled
    <3>5. \A i : SilentOn(i)' <=> SilentOn(i)
      <4>1. \A i : Risks(i)' = Risks(i)
        BY <3>2, <3>3 DEF Risks
      <4>. QED
        BY <3>2, <4>1 DEF SilentOn, Harmed, Broken
    <3>6. EffRight'
      BY <1>2, <3>2, <3>5 DEF EffRight, Broken
    <3>. QED
      BY <3>4, <3>6
  <2>3. CASE UNCHANGED <<dev, sub, runs, latest, asm, last>> /\ retired \subseteq retired'
    <3>1. CapsTrue' /\ ControlsSettled'
      BY <1>2, <2>3 DEF CapsTrue, Broken, ControlsSettled
    <3>2. EffRight'
      BY <1>2, <2>3 DEF EffRight, Broken, SilentOn, Harmed, Risks
    <3>. QED
      BY <3>1, <3>2
  <2>4. \/ \E scope \in Scopes, answer \in Answer(part) : Pass(scope, answer)
        \/ \E devs \in Changes(dev) : Change(devs)
        \/ UNCHANGED <<dev, sub, runs, latest, asm, last>> /\ retired \subseteq retired'
    BY <1>2 DEF Next, vars, Retire, Scopes
  <2>. QED
    BY <2>1, <2>2, <2>3, <2>4
<1>3. Typed /\ Inv => EffSeesPeers
  <2>. SUFFICES ASSUME Typed, Inv, last.round > 0, "CTLEFF01" \notin retired, NEW i \in RunIds
                PROVE  LET found == {f[1] : f \in {g \in latest : g[2] = i /\ g[3] = "breach"}}
                           passed == {d \in runs[i].evals :
                                        /\ d.control \in DOMAIN sub.controls
                                        /\ d.outcome = "passed"}
                           risks == {sub.controls[e.control].risk : e \in passed}
                           silent == \/ "per_transaction_cap" \in risks /\ "MNDCAP01" \in found
                                     \/ "counterparty_allowlist" \in risks /\ "MNDCAP03" \in found
                           posture(c) == Ctl!Posture(sub, runs[i], Ctl!PeersFound(latest, i), c)
                       IN  /\ <<"CTLEFF01", i, "breach">> \in latest <=> silent
                           /\ \A c \in DOMAIN sub.controls : posture(c) = "ineffective" => silent
    BY DEF EffSeesPeers
  <2>. DEFINE found == {f[1] : f \in {g \in latest : g[2] = i /\ g[3] = "breach"}}
  <2>1. i \in {1, 2}
    BY DEF Typed, TwoRuns, RunIds
  <2>2. Broken("CTLEFF01", i) <=> SilentOn(i)
    BY <2>1 DEF EffRight
  <2>3. \A f \in latest : f = <<f[1], f[2], f[3]>>
    BY DEF Typed, FactTyped
  <2>4. \A r : r \in found <=> Broken(r, i)
    <3>. TAKE r
    <3>1. ASSUME r \in found PROVE Broken(r, i)
      <4>1. PICK f \in latest : f[1] = r /\ f[2] = i /\ f[3] = "breach"
        BY <3>1
      <4>. QED
        BY <2>3, <4>1 DEF Broken
    <3>2. ASSUME Broken(r, i) PROVE r \in found
      <4>. DEFINE t == <<r, i, "breach">>
      <4>1. t[1] = r /\ t[2] = i /\ t[3] = "breach" /\ t \in latest
        BY <3>2 DEF Broken
      <4>. HIDE DEF t
      <4>. QED
        BY <4>1
    <3>. QED
      BY <3>1, <3>2
  <2>5. ASSUME NEW c, Ctl!Posture(sub, runs[i], Ctl!PeersFound(latest, i), c) = "ineffective"
        PROVE  SilentOn(i)
    <3>. DEFINE peers == Ctl!PeersFound(latest, i)
    <3>1. Ctl!Silent(sub, runs[i], peers) # {}
      BY <2>5 DEF Ctl!Posture
    <3>2. Harmed(i, "F42" \in peers, "F45" \in peers)
      BY <3>1, SilentIs, SettledControls
    <3>3. /\ "F42" \in peers => Broken("MNDCAP01", i)
          /\ "F45" \in peers => Broken("MNDCAP03", i)
      <4>1. \A x : x \in peers => \E f \in latest : /\ f[2] = i /\ f[3] = "breach"
                                                    /\ f[1] \in DOMAIN Ctl!Failures
                                                    /\ x \in Ctl!Failures[f[1]]
        BY DEF Ctl!PeersFound
      <4>2. \A r \in DOMAIN Ctl!Failures : /\ "F42" \in Ctl!Failures[r] => r = "MNDCAP01"
                                           /\ "F45" \in Ctl!Failures[r] => r = "MNDCAP03"
        BY DEF Ctl!Failures
      <4>. HIDE DEF peers
      <4>. QED
        BY <2>3, <4>1, <4>2 DEF Broken
    <3>. QED
      BY <3>2, <3>3 DEF SilentOn, Harmed
  <2>. HIDE DEF found
  <2>6. SilentOn(i) <=> \/ "per_transaction_cap" \in Risks(i) /\ "MNDCAP01" \in found
                        \/ "counterparty_allowlist" \in Risks(i) /\ "MNDCAP03" \in found
    BY <2>4 DEF SilentOn, Harmed
  <2>. QED
    BY <2>2, <2>5, <2>6 DEF Risks, Broken, found
<1>. QED
  BY <1>1, <1>2, <1>3, AlwaysTyped, PTL DEF Spec

\* An assessment of the last round stands as it was made.
LEMMA LastStands ==
  ASSUME Typed, NEW a \in Current(asm), a.round = last.round
  PROVE  a \in asm
<1>1. PICK b \in asm : Stays(asm, b) /\ a = Narrowed(asm, b)
  BY CurrentIsNarrowed
<1>2. IsRecord(b)
  BY DEF Typed, AssessmentTyped
<1>3. b.round = last.round
  BY <1>1, <1>2, NarrowedFields DEF IsRecord
<1>4. Later(asm, b) = {}
  <2>1. last.round \in Nat /\ \A c \in asm : c.round \in Nat /\ c.round <= last.round
    BY AFollowUp DEF Typed, AssessmentTyped
  <2>. QED
    BY <1>3, <2>1 DEF Later
<1>5. ~ByRun(asm, b)
  BY <1>4 DEF ByRun, Taken
<1>6. a = [b EXCEPT !.runs = b.runs, !.cites = b.cites]
  BY <1>1, <1>5 DEF Narrowed
<1>7. a = b
  BY <1>2, <1>6 DEF IsRecord, AllFields
<1>. QED
  BY <1>7

\* What a figure counts for in the comparison (critic.py, _numbers_in).
Counted(figure) == Crt!NumbersIn({figure})

\* The figure the model was shown.
Shown == Crt!Figure(9150, TRUE)

\* A whole number under a hundred counts for nothing; any other figure counts
\* for its value.
LEMMA NumbersOf ==
  \A g : Counted(g) = IF g.point \/ g.value >= 1000000 THEN {g.value} ELSE {}
<1>. DEFINE shown(g) == {h \in {g} : h.point \/ h.value >= 100 * Crt!One}
<1>1. \A g : Counted(g) = {h.value : h \in shown(g)}
  BY SMT DEF Crt!NumbersIn, Counted
<1>2. \A g : shown(g) = IF g.point \/ g.value >= 1000000 THEN {g} ELSE {}
  BY SMT DEF Crt!One
<1>. HIDE DEF shown
<1>. QED
  BY <1>1, <1>2, SMT

\* What the figures come to in the critic's comparison.
LEMMA FiguresAreCompared ==
  /\ \A f \in RightFigures : \A n \in Counted(f) :
       Crt!Grounded(n, Counted(Shown))
  /\ \A f \in WrongFigures : \E n \in Counted(f) :
       ~Crt!Grounded(n, Counted(Shown))
<1>. DEFINE places == {1, 10, 100, 1000, 10000}
            last1(v, u) == v % u = 0 /\ \A w \in places : w > u => v % w # 0
<1>1. \A v : Crt!LastPlace(v) = CHOOSE u \in places : last1(v, u)
  BY SMT DEF Crt!LastPlace, Crt!One
<1>2. ASSUME NEW v, NEW u \in places, last1(v, u)
      PROVE  Crt!LastPlace(v) \in places /\ last1(v, Crt!LastPlace(v))
  <2>. HIDE DEF last1
  <2>. QED
    BY <1>1, <1>2, SMT
<1>3. Crt!LastPlace(9150) \in places
  <2>1. last1(9150, 10)
    BY SMT
  <2>. HIDE DEF last1
  <2>. QED
    BY <1>2, <2>1, SMT
<1>4. Crt!LastPlace(915000) \in places
  <2>1. last1(915000, 1000)
    BY SMT
  <2>. HIDE DEF last1
  <2>. QED
    BY <1>2, <2>1, SMT
<1>5. Crt!LastPlace(930000) \in places
  <2>1. last1(930000, 10000)
    BY SMT
  <2>. HIDE DEF last1
  <2>. QED
    BY <1>2, <2>1, SMT
<1>6. Crt!LastPlace(916000) \in {1, 10, 100, 1000}
  <2>1. last1(916000, 1000)
    BY SMT
  <2>2. ~last1(916000, 10000)
    BY SMT
  <2>. HIDE DEF last1
  <2>. QED
    BY <1>2, <2>1, <2>2, SMT
<1>7. Crt!LastPlace(9150000) \in places
  <2>1. last1(9150000, 10000)
    BY SMT
  <2>. HIDE DEF last1
  <2>. QED
    BY <1>2, <2>1, SMT
<1>9. \A n : Crt!Grounded(n, {9150}) <=> \/ 2 * Crt!Distance(9150, n) <= Crt!LastPlace(n)
                                         \/ 2 * Crt!Distance(915000, n) <= Crt!LastPlace(n)
  BY SMT DEF Crt!Grounded
<1>. HIDE DEF last1
<1>10. Crt!Grounded(9150, {9150}) /\ Crt!Grounded(915000, {9150})
  BY <1>3, <1>4, <1>9, SMT DEF Crt!Distance
<1>11. ~Crt!Grounded(930000, {9150}) /\ ~Crt!Grounded(916000, {9150})
         /\ ~Crt!Grounded(9150000, {9150})
  BY <1>5, <1>6, <1>7, <1>9, SMT DEF Crt!Distance
<1>12. Counted(Shown) = {9150}
  <2>1. Shown.value = 9150 /\ Shown.point
    BY SMT DEF Shown, Crt!Figure
  <2>. QED
    BY <2>1, NumbersOf, SMT
<1>13. ASSUME NEW f \in RightFigures, NEW n \in Counted(f)
       PROVE  Crt!Grounded(n, {9150})
  <2>1. \/ f.value \in {9150, 915000} /\ f.point
        \/ f.value = 920000 /\ ~f.point
    BY SMT DEF RightFigures, Crt!Figure
  <2>2. n \in {9150, 915000}
    BY <1>13, <2>1, NumbersOf, SMT
  <2>. QED
    BY <1>10, <2>2, SMT
<1>14. ASSUME NEW f \in WrongFigures
       PROVE  \E n \in Counted(f) : ~Crt!Grounded(n, {9150})
  <2>1. \/ f.value \in {930000, 916000} /\ f.point
        \/ f.value = 9150000
    BY SMT DEF WrongFigures, Crt!Figure
  <2>2. Counted(f) = {f.value}
    BY <2>1, NumbersOf, SMT
  <2>3. f.value \in {930000, 916000, 9150000}
    BY <2>1, SMT
  <2>. QED
    BY <1>11, <2>2, <2>3, SMT
<1>. QED
  BY <1>12, <1>13, <1>14, SMT

\* A judged assessment that quotes a figure the model was not shown never
\* leaves a case authorised, whatever else stands on it, and quoting what it
\* was shown in round numbers costs nothing (critic.py; authorisation.py,
\* recommend).
THEOREM UngroundedIsCaught == Spec => []UngroundedNeverAuthorises
<1>. DEFINE quoted(a, f) == [b \in asm |-> IF b = a THEN {f} ELSE {}]
            invalid(a, f) ==
              Crt!CheckEvidenceGrounding({b \in asm : b.round = last.round}, JudgedRules,
                                                        Context, quoted(a, f))
<1>1. ASSUME NEW a, NEW f, NEW b
      PROVE  b \in invalid(a, f) <=>
        /\ b \in asm /\ b.round = last.round /\ b.agent = part
        /\ b.agent \in Crt!CheckedAgents \/ b.rule \in JudgedRules
        /\ b = a
        /\ \E n \in Counted(f) : ~Crt!Grounded(n, Counted(Shown))
  <2>1. b \in invalid(a, f) <=>
          /\ b \in asm /\ b.round = last.round /\ b.agent = part
          /\ b.agent \in Crt!CheckedAgents \/ b.rule \in JudgedRules
          /\ \E n \in Crt!NumbersIn(quoted(a, f)[b]) :
                ~Crt!Grounded(n, Crt!NumbersIn(Context[b.agent]))
    BY SMT DEF Crt!CheckEvidenceGrounding, Context
  <2>2. b \in asm => quoted(a, f)[b] = IF b = a THEN {f} ELSE {}
    BY SMT
  <2>3. b \in asm /\ b = a => Crt!NumbersIn(quoted(a, f)[b]) = Counted(f)
    BY <2>2, SMT DEF Counted
  <2>4. b \in asm /\ b # a => Crt!NumbersIn(quoted(a, f)[b]) = {}
    BY <2>2, SMT DEF Crt!NumbersIn
  <2>5. b.agent = part => Crt!NumbersIn(Context[b.agent]) = Counted(Shown)
    BY DEF Context, Counted, Shown
  <2>. HIDE DEF invalid, quoted
  <2>. QED
    BY <2>1, <2>3, <2>4, <2>5, SMT
<1>. HIDE DEF invalid
<1>2. ASSUME NEW a, NEW f \in RightFigures
      PROVE  Downgraded(Standing, invalid(a, f)) = Standing
  <2>1. invalid(a, f) = {}
    BY <1>1, FiguresAreCompared
  <2>. QED
    BY <2>1 DEF Downgraded
<1>3. ASSUME Typed, NEW a \in Standing, Checkable(a), NEW f \in WrongFigures
      PROVE  Disposition(Downgraded(Standing, invalid(a, f)), {})
               \in {"refuse", "incomplete-submission"}
  <2>. DEFINE active == Downgraded(Standing, invalid(a, f))
  <2>1. a \in asm
    BY <1>3, LastStands DEF Standing, Checkable
  <2>2. a \in invalid(a, f)
    BY <1>1, <1>3, <2>1, FiguresAreCompared DEF Checkable
  <2>3. [a EXCEPT !.verdict = "inconclusive"] \in active
    BY <2>2 DEF Downgraded
  <2>4. [a EXCEPT !.verdict = "inconclusive"].verdict = "inconclusive"
    BY <1>3, <2>1 DEF Typed, AssessmentTyped, IsRecord, AllFields
  <2>5. \E b \in active : b.verdict = "inconclusive"
    BY <2>3, <2>4
  <2>. HIDE DEF active
  <2>6. Inadequate(sub, runs, latest, active, InForce, Policy)
    BY <2>5 DEF Inadequate
  <2>. QED
    BY <2>6 DEF Disposition, Recommend, active
<1>4. Typed => UngroundedNeverAuthorises
  BY <1>2, <1>3 DEF UngroundedNeverAuthorises, invalid
<1>. QED
  BY <1>4, AlwaysTyped, PTL
----------------------------------------------------------------------------
\* A few are finitely many.
LEMMA SixAreFew ==
  ASSUME NEW a, NEW b, NEW c, NEW d, NEW e, NEW f
  PROVE  IsFiniteSet({a, b, c, d, e, f})
<1>1. IsFiniteSet({a})
  BY FS_Singleton
<1>2. IsFiniteSet({a} \cup {b})
  BY <1>1, FS_AddElement
<1>3. IsFiniteSet({a} \cup {b} \cup {c})
  BY <1>2, FS_AddElement
<1>4. IsFiniteSet({a} \cup {b} \cup {c} \cup {d})
  BY <1>3, FS_AddElement
<1>5. IsFiniteSet({a} \cup {b} \cup {c} \cup {d} \cup {e})
  BY <1>4, FS_AddElement
<1>6. IsFiniteSet({a} \cup {b} \cup {c} \cup {d} \cup {e} \cup {f})
  BY <1>5, FS_AddElement
<1>7. {a} \cup {b} \cup {c} \cup {d} \cup {e} \cup {f} = {a, b, c, d, e, f}
  OBVIOUS
<1>. QED
  BY <1>6, <1>7

\* Two of finitely many are finitely many.
LEMMA TwoAreFew ==
  ASSUME NEW S, IsFiniteSet(S), NEW T, IsFiniteSet(T)
  PROVE  IsFiniteSet(S \cup T)
BY FS_Union

\* Every book has finitely many rules (rulebook/*.json).
LEMMA RulesAreFew ==
  ASSUME NEW agent \in Agents
  PROVE  IsFiniteSet(RulesOf[agent])
<1>1. CASE agent = "kya"
  <2>. DEFINE A == {"KYAISS01", "KYAISS02", "KYAISS03", "KYAISS04", "KYAISS05", "KYAIDN01"}
              B == {"KYAIDN02", "KYAIDN03", "KYAACC01", "KYAACC02", "KYAACC03", "KYAACC04"}
              C == {"KYAACC05", "KYAACC06", "KYAACC07", "KYAOPF01", "KYAOPF02", "KYAOPF03"}
              D == {"KYAOPF04", "KYAREG01", "KYAREG02", "KYAREG03", "KYAREG04", "KYAREG05"}
              E == {"KYACAP01", "KYACAP02", "KYACAP04", "KYACAP05", "KYALIF01", "KYALIF02"}
              F == {"KYALIF03", "KYALIF04", "KYALIF05", "KYATEC01", "KYATEC03", "KYATEC04"}
  <2>1. RulesOf["kya"] = A \cup B \cup C \cup D \cup E \cup F
    BY DEF RulesOf
  <2>2. /\ IsFiniteSet(A) /\ IsFiniteSet(B) /\ IsFiniteSet(C)
        /\ IsFiniteSet(D) /\ IsFiniteSet(E) /\ IsFiniteSet(F)
    BY SixAreFew
  <2>. HIDE DEF A, B, C, D, E, F
  <2>3. IsFiniteSet(A \cup B)
    BY <2>2, TwoAreFew
  <2>4. IsFiniteSet(A \cup B \cup C)
    BY <2>2, <2>3, TwoAreFew
  <2>5. IsFiniteSet(A \cup B \cup C \cup D)
    BY <2>2, <2>4, TwoAreFew
  <2>6. IsFiniteSet(A \cup B \cup C \cup D \cup E)
    BY <2>2, <2>5, TwoAreFew
  <2>7. IsFiniteSet(A \cup B \cup C \cup D \cup E \cup F)
    BY <2>2, <2>6, TwoAreFew
  <2>. QED
    BY <1>1, <2>1, <2>7
<1>2. ASSUME NEW A, IsFiniteSet(A), NEW B, IsFiniteSet(B), NEW C, IsFiniteSet(C),
             RulesOf[agent] \subseteq A \cup B \cup C
      PROVE  IsFiniteSet(RulesOf[agent])
  <2>1. IsFiniteSet(A \cup B)
    BY <1>2, TwoAreFew
  <2>2. IsFiniteSet(A \cup B \cup C)
    BY <1>2, <2>1, TwoAreFew
  <2>. QED
    BY <1>2, <2>2, FS_Subset
<1>3. CASE agent = "mandate"
  <2>. DEFINE A == {"MNDCAP01", "MNDCAP02", "MNDCAP03", "MNDCAP04", "MNDCAP05", "MNDUSE01"}
              B == {"MNDCON01", "MNDCUR01", "MNDCUR02", "MNDVAL01", "MNDSIG01", "MNDCHN01"}
              C == {"MNDCHN02", "MNDCHN02", "MNDCHN02", "MNDCHN02", "MNDCHN02", "MNDSEM01"}
  <2>1. RulesOf[agent] \subseteq A \cup B \cup C
    BY <1>3 DEF RulesOf
  <2>2. IsFiniteSet(A) /\ IsFiniteSet(B) /\ IsFiniteSet(C)
    BY SixAreFew
  <2>. HIDE DEF A, B, C
  <2>. QED
    BY <1>2, <2>1, <2>2
<1>4. CASE agent = "consent"
  <2>. DEFINE A == {"CNSPRS01", "CNSREC01", "CNSPRN01", "CNSMTH01", "CNSRND01", "CNSRND02"}
              B == {"CNSSCP01", "CNSFRS01", "CNSSTD01", "CNSVFM01", "CNSVFM01", "CNSVFM01"}
  <2>1. RulesOf[agent] \subseteq A \cup B \cup B
    BY <1>4 DEF RulesOf
  <2>2. IsFiniteSet(A) /\ IsFiniteSet(B)
    BY SixAreFew
  <2>. HIDE DEF A, B
  <2>. QED
    BY <1>2, <2>1, <2>2
<1>5. CASE agent = "counterparty"
  <2>. DEFINE A == {"CPTBEN01", "CPTSPL01", "CPTDCL01", "CPTIDN01", "CPTREG01", "CPTSUB01"}
              B == {"CPTCOP01", "CPTCTY01", "CPTLST01", "CPTNEW01", "CPTNEW01", "CPTNEW01"}
  <2>1. RulesOf[agent] \subseteq A \cup B \cup B
    BY <1>5 DEF RulesOf
  <2>2. IsFiniteSet(A) /\ IsFiniteSet(B)
    BY SixAreFew
  <2>. HIDE DEF A, B
  <2>. QED
    BY <1>2, <2>1, <2>2
<1>6. CASE agent = "provenance"
  <2>. DEFINE A == {"PRVCRD01", "PRVREC01", "KYATEC02", "KYATEC05", "KYATEC06", "KYATEC07"}
  <2>1. RulesOf[agent] \subseteq A \cup A \cup A
    BY <1>6 DEF RulesOf
  <2>2. IsFiniteSet(A)
    BY SixAreFew
  <2>. HIDE DEF A
  <2>. QED
    BY <1>2, <2>1, <2>2
<1>7. CASE agent = "injection"
  <2>. DEFINE A == {"INJLST01", "INJPRM01", "INJRET01", "INJTLS01", "INJACT01", "INJACT01"}
  <2>1. RulesOf[agent] \subseteq A \cup A \cup A
    BY <1>7 DEF RulesOf
  <2>2. IsFiniteSet(A)
    BY SixAreFew
  <2>. HIDE DEF A
  <2>. QED
    BY <1>2, <2>1, <2>2
<1>8. CASE agent = "log"
  <2>. DEFINE A == {"LOGSTR01", "LOGCON01", "LOGVEL01", "LOGRND01", "LOGLIM01", "LOGHRS01"}
  <2>1. RulesOf[agent] \subseteq A \cup A \cup A
    BY <1>8 DEF RulesOf
  <2>2. IsFiniteSet(A)
    BY SixAreFew
  <2>. HIDE DEF A
  <2>. QED
    BY <1>2, <2>1, <2>2
<1>9. CASE agent \in {"drift", "systemic"}
  <2>. DEFINE A == {"DRIFTBHV01", "DRIFTBAS01", "DRIFTUNX01", "DRIFTUNX01", "DRIFTUNX01",
                    "DRIFTUNX01"}
              B == {"SYSCPT01", "SYSMDL01", "SYSPAY01", "SYSCOR01", "SYSCOR01", "SYSCOR01"}
  <2>1. RulesOf[agent] \subseteq A \cup B \cup B
    BY <1>9 DEF RulesOf
  <2>2. IsFiniteSet(A) /\ IsFiniteSet(B)
    BY SixAreFew
  <2>. HIDE DEF A, B
  <2>. QED
    BY <1>2, <2>1, <2>2
<1>10. CASE agent = "control_assurance"
  <2>. DEFINE A == {"CTLREP01", "CTLREP02", "CTLREP03", "CTLREP04", "CTLEFF01", "CTLEFF02"}
              B == {"CTLEFF03", "CTLEFF04", "CTLLOG01", "CTLLOG02", "CTLLOG03", "CTLDIS01"}
              C == {"CTLDIS02", "CTLDIS03", "CTLDIS04", "CTLDIS04", "CTLDIS04", "CTLDIS04"}
  <2>1. RulesOf[agent] \subseteq A \cup B \cup C
    BY <1>10 DEF RulesOf
  <2>2. IsFiniteSet(A) /\ IsFiniteSet(B) /\ IsFiniteSet(C)
    BY SixAreFew
  <2>. HIDE DEF A, B, C
  <2>. QED
    BY <1>2, <2>1, <2>2
<1>. QED
  BY <1>1, <1>3, <1>4, <1>5, <1>6, <1>7, <1>8, <1>9, <1>10 DEF Agents, Peer

\* Finitely many rules are in force.
LEMMA ForceIsFew ==
  ASSUME part \in Peer
  PROVE  IsFiniteSet(DOMAIN InForce)
<1>. DEFINE own == RulesOf[part]
            controls == RulesOf["control_assurance"]
<1>1. IsFiniteSet(own) /\ IsFiniteSet(controls)
  BY RulesAreFew DEF Agents
<1>2. DOMAIN InForce \subseteq own \cup controls
  BY DEF InForce
<1>. HIDE DEF own, controls
<1>3. IsFiniteSet(own \cup controls)
  BY <1>1, TwoAreFew
<1>. QED
  BY <1>2, <1>3, FS_Subset

\* Finitely many claims, each by a function of one of finitely many.
LEMMA UnionsAreFew ==
  ASSUME NEW S, IsFiniteSet(S), NEW g, \A x \in S : IsFiniteSet(g[x]),
         NEW T, \A y \in T : \E x \in S : y \in g[x]
  PROVE  IsFiniteSet(T)
<1>. DEFINE images == {g[x] : x \in S}
<1>1. IsFiniteSet(images)
  <2>1. \A y \in images : \E x \in S : y = g[x]
    OBVIOUS
  <2>. HIDE DEF images
  <2>. QED
    BY <2>1, ImageIsFinite
<1>2. \A y \in images : IsFiniteSet(y)
  OBVIOUS
<1>3. T \subseteq UNION images
  OBVIOUS
<1>. HIDE DEF images
<1>4. IsFiniteSet(UNION images)
  BY <1>1, <1>2, FS_UNION
<1>. QED
  BY <1>3, <1>4, FS_Subset

\* A claim is one claim.
LEMMA OneClaim ==
  /\ \A rule, verdict, rs : IsFiniteSet(Jdg!OnRuns(rule, verdict, rs))
  /\ \A facts, rule, verdict : IsFiniteSet(Jdg!OnCase(facts, rule, verdict))
BY FS_Singleton, FS_EmptySet DEF Jdg!OnRuns, Jdg!OnCase

\* An answer on authority has a claim for each rule judged.
LEMMA AuthorityIsFew ==
  ASSUME NEW facts, NEW rules, IsFiniteSet(rules), NEW answer
  PROVE  IsFiniteSet(Jdg!Authority(facts, rules, answer))
<1>. DEFINE on(r) == Jdg!OnCase(facts, r, CASE answer[r] = "ok" -> "clear"
                                           [] answer[r] = "bad" -> "breach"
                                           [] OTHER -> "inconclusive")
            claims == [r \in rules |-> on(r)]
            T == Jdg!Authority(facts, rules, answer)
<1>1. \A r \in rules : IsFiniteSet(on(r))
  BY OneClaim
<1>2. T = UNION {on(r) : r \in rules}
  BY DEF Jdg!Authority
<1>. HIDE DEF on
<1>3. \A y \in T : \E r \in rules : y \in claims[r]
  BY <1>2
<1>4. \A r \in rules : IsFiniteSet(claims[r])
  BY <1>1
<1>. HIDE DEF claims, T
<1>5. IsFiniteSet(T)
  BY <1>3, <1>4, UnionsAreFew
<1>. QED
  BY <1>5 DEF T

\* An answer on fidelity has a claim for each run that is not consistent, and
\* one for the runs that are, and one for those left open.
LEMMA FidelityIsFew ==
  ASSUME NEW facts, IsFiniteSet(Jdg!Shown(facts, "MNDSEM01")), NEW verdicts
  PROVE  IsFiniteSet(Jdg!Fidelity(facts, verdicts))
<1>. DEFINE shown == Jdg!Shown(facts, "MNDSEM01")
            judged == shown \cap DOMAIN verdicts
            off == {j \in judged : ~verdicts[j]}
            on(i) == Jdg!OnRuns("MNDSEM01", "breach", {i})
            claims == [i \in off |-> on(i)]
            A == UNION {on(i) : i \in off}
            B == Jdg!OnRuns("MNDSEM01", "clear", {j \in judged : verdicts[j]})
            C == Jdg!OnRuns("MNDSEM01", "inconclusive", shown \ judged)
<1>1. Jdg!Fidelity(facts, verdicts) = A \cup B \cup C
  BY DEF Jdg!Fidelity
<1>2. IsFiniteSet(off)
  BY FS_Subset
<1>3. IsFiniteSet(B) /\ IsFiniteSet(C) /\ \A i : IsFiniteSet(on(i))
  BY OneClaim
<1>. HIDE DEF on, off, B, C
<1>4. \A y \in A : \E i \in off : y \in claims[i]
  OBVIOUS
<1>5. \A i \in off : IsFiniteSet(claims[i])
  BY <1>3
<1>. HIDE DEF claims, A
<1>6. IsFiniteSet(A)
  BY <1>2, <1>4, <1>5, UnionsAreFew
<1>7. IsFiniteSet(A \cup B)
  BY <1>3, <1>6, TwoAreFew
<1>8. IsFiniteSet(A \cup B \cup C)
  BY <1>3, <1>7, TwoAreFew
<1>. QED
  BY <1>1, <1>8

\* An answer on value for money is one claim.
LEMMA ValueIsFew ==
  ASSUME NEW facts, NEW answered, NEW systematic, NEW named
  PROVE  IsFiniteSet(Jdg!ValueForMoney(facts, answered, systematic, named))
<1>1. \E verdict, rs : Jdg!ValueForMoney(facts, answered, systematic, named)
                         = Jdg!OnRuns("CNSVFM01", verdict, rs)
  <2>. DEFINE shown == Jdg!Shown(facts, "CNSVFM01")
  <2>1. Jdg!ValueForMoney(facts, answered, systematic, named)
          = CASE ~answered -> Jdg!OnRuns("CNSVFM01", "inconclusive", shown)
              [] answered /\ ~systematic -> Jdg!OnRuns("CNSVFM01", "clear", shown)
              [] answered /\ systematic /\ named \cap shown = {} ->
                   Jdg!OnRuns("CNSVFM01", "inconclusive", shown)
              [] OTHER -> Jdg!OnRuns("CNSVFM01", "breach", named \cap shown)
    BY DEF Jdg!ValueForMoney
  <2>. HIDE DEF shown
  <2>. QED
    BY <2>1
<1>. QED
  BY <1>1, OneClaim

\* An answer on a payee is about one payee.
LEMMA PayeeIsFew ==
  ASSUME NEW facts, NEW doubtful, IsFiniteSet(doubtful), NEW paidBy, NEW declines
  PROVE  IsFiniteSet(Jdg!Payee(facts, doubtful, paidBy, declines))
<1>. DEFINE claim(m) == [Jdg!Judged("CPTIDN01", "breach", paidBy[m],
                                    Jdg!Cites(facts, "CPTIDN01")) EXCEPT !.subject = m]
            claims == [m \in doubtful |-> claim(m)]
            A == {claim(m) : m \in doubtful}
            B == Jdg!OnCase(facts, "CPTIDN01", "clear")
            C == Jdg!OnCase(facts, "CPTDCL01", IF declines = "anomalous" THEN "breach"
                                               ELSE "clear")
            T == Jdg!Payee(facts, doubtful, paidBy, declines)
<1>1. T = IF Jdg!Measured(facts, "CPTIDN01") = {} THEN {}
          ELSE (IF doubtful = {} THEN B ELSE A) \cup C
  BY DEF Jdg!Payee
<1>2. IsFiniteSet(B) /\ IsFiniteSet(C)
  BY OneClaim
<1>. HIDE DEF claim, B, C, T
<1>3. \A y \in A : \E m \in doubtful : y = claims[m]
  OBVIOUS
<1>. HIDE DEF A, claims
<1>4. IsFiniteSet(A)
  BY <1>3, ImageIsFinite
<1>5. IsFiniteSet(A \cup C) /\ IsFiniteSet(B \cup C) /\ IsFiniteSet({})
  BY <1>2, <1>4, TwoAreFew, FS_EmptySet
<1>6. IsFiniteSet(T)
  BY <1>1, <1>5
<1>. QED
  BY <1>6 DEF T

\* An answer on injected instructions has a claim for each run with a verdict,
\* one for the runs left open, and one on the objective.
LEMMA ActingIsFew ==
  ASSUME NEW facts, IsFiniteSet(Jdg!Shown(facts, "INJACT01")), NEW verdicts, NEW channels,
         NEW redirected
  PROVE  IsFiniteSet(Jdg!Acting(facts, verdicts, channels, redirected))
<1>. DEFINE shown == Jdg!Shown(facts, "INJACT01")
            valid == {i \in shown \cap DOMAIN verdicts :
                        verdicts[i] \in channels[i] \cup {"none"}}
            acted == {i \in valid : verdicts[i] # "none"}
            about == IF redirected THEN acted ELSE shown
            on(i) == Jdg!OnRuns("INJACT01", IF i \in acted THEN "breach" ELSE "clear", {i})
            claims == [i \in valid |-> on(i)]
            A == UNION {on(i) : i \in valid}
            B == Jdg!OnRuns("INJACT01", "inconclusive", shown \ valid)
            objective == [Jdg!Judged("INJACT01", IF redirected THEN "breach" ELSE "clear", about,
                                     {<<"INJACT01", i>> : i \in about})
                            EXCEPT !.subject = "objective", !.scope = "run"]
            C == {objective}
<1>1. Jdg!Acting(facts, verdicts, channels, redirected) = A \cup B \cup C
  BY DEF Jdg!Acting
<1>2. IsFiniteSet(valid)
  BY FS_Subset
<1>3. IsFiniteSet(B) /\ \A i : IsFiniteSet(on(i))
  BY OneClaim
<1>. HIDE DEF on, valid, B, objective
<1>4. IsFiniteSet(C)
  BY FS_Singleton
<1>5. \A y \in A : \E i \in valid : y \in claims[i]
  OBVIOUS
<1>6. \A i \in valid : IsFiniteSet(claims[i])
  BY <1>3
<1>. HIDE DEF claims, A, C
<1>7. IsFiniteSet(A)
  BY <1>2, <1>5, <1>6, UnionsAreFew
<1>8. IsFiniteSet(A \cup B)
  BY <1>3, <1>7, TwoAreFew
<1>9. IsFiniteSet(A \cup B \cup C)
  BY <1>4, <1>8, TwoAreFew
<1>. QED
  BY <1>1, <1>9

\* A pattern is one claim, and drift at most two.
LEMMA PatternsAreFew ==
  ASSUME NEW facts, NEW answer, NEW rows
  PROVE  /\ \A rule : IsFiniteSet(Jdg!Pattern(facts, rule, answer, rows))
         /\ \A onset, active : IsFiniteSet(Jdg!Drift(facts, answer, rows, onset, active))
<1>1. ASSUME NEW rule PROVE IsFiniteSet(Jdg!Pattern(facts, rule, answer, rows))
  <2>. DEFINE rs == {t.run : t \in rows} \ {0}
              one == Jdg!Judged(rule, "breach", rs, Jdg!Cites(facts, rule))
  <2>1. \/ \E verdict : Jdg!Pattern(facts, rule, answer, rows) = Jdg!OnCase(facts, rule, verdict)
        \/ Jdg!Pattern(facts, rule, answer, rows) = {one}
    <3>1. Jdg!Pattern(facts, rule, answer, rows)
            = CASE answer = "ok" -> Jdg!OnCase(facts, rule, "clear")
                [] answer = "bad" /\ rows # {} -> {one}
                [] OTHER -> Jdg!OnCase(facts, rule, "inconclusive")
      BY DEF Jdg!Pattern
    <3>. HIDE DEF one
    <3>. QED
      BY <3>1
  <2>. HIDE DEF one
  <2>2. IsFiniteSet({one})
    BY FS_Singleton
  <2>3. \A verdict : IsFiniteSet(Jdg!OnCase(facts, rule, verdict))
    BY OneClaim
  <2>. QED
    BY <2>1, <2>2, <2>3
<1>2. ASSUME NEW onset, NEW active
      PROVE  IsFiniteSet(Jdg!Drift(facts, answer, rows, onset, active))
  <2>. DEFINE rs == {t.run : t \in rows} \ {0}
              one == Jdg!Judged("DRIFTUNX01", IF onset = "none" THEN "breach" ELSE "clear", rs,
                                Jdg!Cites(facts, "DRIFTBHV01"))
              P == Jdg!Pattern(facts, "DRIFTBHV01", answer, rows)
  <2>1. \/ Jdg!Drift(facts, answer, rows, onset, active) = P \cup {one}
        \/ Jdg!Drift(facts, answer, rows, onset, active) = P \cup {}
    BY DEF Jdg!Drift
  <2>2. IsFiniteSet(P)
    BY <1>1
  <2>. HIDE DEF one, P
  <2>3. IsFiniteSet(P \cup {one}) /\ IsFiniteSet(P \cup {})
    BY <2>2, FS_Singleton, FS_EmptySet, TwoAreFew
  <2>. QED
    BY <2>1, <2>3
<1>. QED
  BY <1>1, <1>2

\* Each answer of a model leads to finitely many claims.
LEMMA AnswersAreFew ==
  ASSUME TwoRuns, NEW agent \in Agents, NEW scope \in Scopes, NEW found, NEW answer
  PROVE  IsFiniteSet(Answers(agent, FactsOf(agent, scope, found), scope, answer))
<1>. DEFINE facts == FactsOf(agent, scope, found)
            seen == Seen(scope)
            first == FirstSeen(scope)
            rows == RowsOf(scope, first)
            told == IF answer = "silent" THEN seen \ {first} ELSE seen
            given == Answers(agent, facts, scope, answer)
<1>1. IsFiniteSet(seen) /\ IsFiniteSet({})
  <2>1. seen \subseteq {1, 1, 1, 1, 1, 2}
    BY SeenRuns
  <2>. HIDE DEF seen
  <2>. QED
    BY <2>1, SixAreFew, FS_Subset, FS_EmptySet
<1>2. \A r \in Agents : IsFiniteSet(Judging(r))
  <2>1. \A r : Judging(r) \subseteq RulesOf[r]
    BY DEF Judging
  <2>. QED
    BY <2>1, RulesAreFew, FS_Subset
<1>3. ASSUME agent \in {"mandate", "consent", "injection"},
             NEW rule \in {"MNDSEM01", "CNSVFM01", "INJACT01"}
      PROVE  IsFiniteSet(Jdg!Shown(facts, rule))
  <2>1. Jdg!Shown(facts, rule) \subseteq seen
    BY <1>3, ShownIsSeen
  <2>. HIDE DEF facts, seen
  <2>. QED
    BY <1>1, <2>1, FS_Subset
<1>4. CASE agent = "kya"
  <2>. DEFINE answers == [r \in Judging("kya") |-> answer]
  <2>1. given = Jdg!Authority(facts, Judging("kya"), answers)
    BY <1>4 DEF Answers
  <2>. HIDE DEF facts, answers, given
  <2>2. IsFiniteSet(given)
    BY <1>2, <2>1, AuthorityIsFew DEF Agents, Peer
  <2>. QED
    BY <2>2 DEF given, facts
<1>5. CASE agent = "mandate"
  <2>. DEFINE verdicts == [i \in told |-> answer = "ok" \/ i # first]
  <2>1. given = {} \/ given = Jdg!Fidelity(facts, verdicts)
    BY <1>5 DEF Answers, FirstSeen
  <2>2. IsFiniteSet(Jdg!Shown(facts, "MNDSEM01"))
    BY <1>3, <1>5
  <2>. HIDE DEF facts, verdicts, given
  <2>3. IsFiniteSet(given)
    BY <1>1, <2>1, <2>2, FidelityIsFew
  <2>. QED
    BY <2>3 DEF given, facts
<1>6. CASE agent = "consent"
  <2>1. given = {} \/ given = Jdg!ValueForMoney(facts, answer # "silent", answer = "bad", {first})
    BY <1>6 DEF Answers, FirstSeen
  <2>. HIDE DEF facts, given, first
  <2>2. IsFiniteSet(given)
    BY <1>1, <2>1, ValueIsFew
  <2>. QED
    BY <2>2 DEF given, facts
<1>7. CASE agent = "counterparty"
  <2>. DEFINE doubtful == IF answer = "bad" THEN {runs[first].merchant} ELSE {}
              paidBy == [m \in {runs[first].merchant} |-> Cpt!PaidRuns(View(scope), m)]
              declines == IF answer = "bad" THEN "anomalous" ELSE "none"
  <2>1. given = {} \/ given = Jdg!Payee(facts, doubtful, paidBy, declines)
    BY <1>7 DEF Answers, FirstSeen
  <2>2. IsFiniteSet(doubtful)
    BY <1>1, FS_Singleton
  <2>. HIDE DEF facts, doubtful, paidBy, declines, given
  <2>3. IsFiniteSet(given)
    BY <1>1, <2>1, <2>2, PayeeIsFew
  <2>. QED
    BY <2>3 DEF given, facts
<1>8. CASE agent = "provenance"
  <2>1. given = {} \/ given = Jdg!Reconciliation(facts, answer # "bad", answer = "silent")
    BY <1>8 DEF Answers
  <2>. HIDE DEF facts, given
  <2>2. IsFiniteSet(given)
    BY <1>1, <2>1, OneClaim DEF Jdg!Reconciliation
  <2>. QED
    BY <2>2 DEF given, facts
<1>9. CASE agent = "injection"
  <2>. DEFINE verdicts == [i \in told |-> IF answer = "bad" /\ i = first THEN "prompt"
                                          ELSE "none"]
              channels == [i \in told |-> Inj!Shown(runs[i])]
  <2>1. given = {} \/ given = Jdg!Acting(facts, verdicts, channels, answer = "bad")
    BY <1>9 DEF Answers, FirstSeen
  <2>2. IsFiniteSet(Jdg!Shown(facts, "INJACT01"))
    BY <1>3, <1>9
  <2>. HIDE DEF facts, verdicts, channels, given
  <2>3. IsFiniteSet(given)
    BY <1>1, <2>1, <2>2, ActingIsFew
  <2>. QED
    BY <2>3 DEF given, facts
<1>10. CASE agent = "log"
  <2>. DEFINE judged == Judging("log")
              claims == [r \in judged |-> Jdg!Pattern(facts, r, answer, rows)]
  <2>1. given = {} \/ given = UNION {Jdg!Pattern(facts, r, answer, rows) : r \in judged}
    BY <1>10 DEF Answers, FirstSeen
  <2>2. IsFiniteSet(judged)
    BY <1>2 DEF Agents, Peer
  <2>. HIDE DEF facts, rows, given, judged
  <2>3. \A y \in given : \E r \in judged : y \in claims[r]
    BY <2>1
  <2>4. \A r \in judged : IsFiniteSet(claims[r])
    BY PatternsAreFew
  <2>. HIDE DEF claims
  <2>5. IsFiniteSet(given)
    BY <2>2, <2>3, <2>4, UnionsAreFew
  <2>. QED
    BY <2>5 DEF given, facts
<1>11. CASE agent = "drift"
  <2>1. given = {} \/ given = Jdg!Drift(facts, answer, rows, "none", Judging("drift"))
    BY <1>11 DEF Answers, FirstSeen
  <2>. HIDE DEF facts, rows, given
  <2>2. IsFiniteSet(given)
    BY <1>1, <2>1, PatternsAreFew
  <2>. QED
    BY <2>2 DEF given, facts
<1>12. CASE agent \in {"systemic", "control_assurance"}
  <2>1. given = {}
    BY <1>12 DEF Answers
  <2>. QED
    BY <1>1, <2>1
<1>. QED
  BY <1>4, <1>5, <1>6, <1>7, <1>8, <1>9, <1>10, <1>11, <1>12 DEF Agents, Peer

\* The floor claims at most two things for a rule, and of the agent's own.
LEMMA FloorIsFew ==
  ASSUME NEW agent \in Agents, NEW facts, Ruled(agent, facts), NEW contained
  PROVE  IsFiniteSet(FloorAssessments(facts, contained))
<1>. DEFINE R == Rules({f \in facts : f[3] = "breach"})
            open(r) == Claim(r, "breach", Units(Open(facts, contained, r)),
                             Ids(Open(facts, contained, r)))
            held(r) == Claim(r, "explained", Units(Held(facts, contained, r)),
                             Ids(Held(facts, contained, r)))
            two(r) == {open(r), open(r), open(r), open(r), open(r), held(r)}
            claims == [r \in R |-> two(r)]
            T == FloorAssessments(facts, contained)
<1>1. IsFiniteSet(R)
  <2>1. R \subseteq RulesOf[agent]
    BY DEF Ruled, Rules, Settled
  <2>. HIDE DEF R
  <2>. QED
    BY <2>1, RulesAreFew, FS_Subset
<1>2. \A y \in T : \E r \in R : y = open(r) \/ y = held(r)
  BY FloorIs
<1>. HIDE DEF open, held, R, T
<1>3. \A y \in T : \E r \in R : y \in claims[r]
  BY <1>2
<1>4. \A r \in R : IsFiniteSet(claims[r])
  <2>. SUFFICES ASSUME NEW r \in R PROVE IsFiniteSet(claims[r])
    OBVIOUS
  <2>1. claims[r] = two(r)
    OBVIOUS
  <2>2. IsFiniteSet(two(r))
    BY SixAreFew
  <2>. HIDE DEF two, claims
  <2>. QED
    BY <2>1, <2>2
<1>. HIDE DEF claims
<1>5. IsFiniteSet(T)
  BY <1>1, <1>3, <1>4, UnionsAreFew
<1>. QED
  BY <1>5 DEF T

\* A review finds finitely many breaches.
LEMMA ReviewIsFew ==
  ASSUME TwoRuns, NEW agent \in Agents, NEW scope \in Scopes, NEW found, NEW answer
  PROVE  IsFiniteSet(Breaches(Reviewed(agent, FactsOf(agent, scope, found), scope, answer)))
<1>. DEFINE facts == FactsOf(agent, scope, found)
            contained == Contained(sub, View(scope))
            assessed == Assessed(agent, facts, contained)
            given == Answers(agent, facts, scope, answer)
            open == {Judged(r, "inconclusive", {}, {Id(f) : f \in ByRule(facts, r)}) :
                       r \in Judging(agent)}
            review == Reviewed(agent, facts, scope, answer)
            floor == FloorAssessments(facts, contained)
<1>1. Sound(facts, Seen(scope)) /\ Ruled(agent, facts)
  BY FactsSound
<1>2. IsFiniteSet(floor)
  <2>. HIDE DEF facts, contained
  <2>. QED
    BY <1>1, FloorIsFew
<1>3. IsFiniteSet(given)
  BY AnswersAreFew
<1>4. Breaches(assessed) \subseteq floor
  <2>. HIDE DEF facts, contained
  <2>. SUFFICES ASSUME NEW a \in assessed, a.verdict = "breach" PROVE a \in floor
    BY DEF Breaches
  <2>1. agent \in Graded
    BY <1>1, AssessedClaims
  <2>2. assessed = floor \cup DataGaps(facts)
    BY <2>1 DEF Assessed, Floor, Graded
  <2>3. a \notin DataGaps(facts)
    BY <1>1, GapClaims
  <2>. QED
    BY <2>2, <2>3
<1>5. Breaches(open) = {}
  BY DEF Breaches, Judged, Claim
<1>6. \/ review = assessed
      \/ review = Validated(assessed \cup open, facts, View(scope))
      \/ review = Validated(assessed \cup given, facts, View(scope))
  BY DEF Reviewed, Unjudged
<1>. HIDE DEF facts, contained, assessed, given, open, review, floor
<1>7. \A some : Breaches(Validated(some, facts, View(scope))) \subseteq Breaches(some)
  <2>. SUFFICES ASSUME NEW some, NEW b \in Validated(some, facts, View(scope)),
                       b.verdict = "breach"
                PROVE  b \in some
    BY DEF Breaches
  <2>1. PICK a \in some : b = a \/ b = [a EXCEPT !.verdict = "inconclusive"]
    BY ValidatedClaims
  <2>2. CASE b = [a EXCEPT !.verdict = "inconclusive"] /\ b # a
    <3>1. "verdict" \notin DOMAIN a
      BY <2>2
    <3>. QED
      BY <2>2, <3>1
  <2>. QED
    BY <2>1, <2>2
<1>8. Breaches(review) \subseteq floor \cup given
  BY <1>4, <1>5, <1>6, <1>7 DEF Breaches
<1>9. IsFiniteSet(floor \cup given)
  BY <1>2, <1>3, TwoAreFew
<1>10. IsFiniteSet(Breaches(review))
  BY <1>8, <1>9, FS_Subset
<1>. QED
  BY <1>10 DEF review, facts

\* So does a pass record finitely many.
LEMMA EntriesAreFew ==
  ASSUME TwoRuns, NEW agent \in Agents, NEW scope \in Scopes, NEW found, NEW answer
  PROVE  IsFiniteSet(Breaches(PassReview(agent, scope, found, answer)))
<1>. DEFINE facts == FactsOf(agent, scope, found)
            review == Reviewed(agent, facts, scope, answer)
            clears == Clears({b \in asm : b.agent = agent}, review, facts, Book(agent))
            new == PassReview(agent, scope, found, answer)
            B == Breaches(review)
            marked == [a \in B |-> Marked(a, agent, scope)]
            T == Breaches(new)
<1>1. new = {Marked(a, agent, scope) : a \in review \cup clears}
  BY RecordedIs DEF PassReview
<1>2. \A a \in review : DOMAIN a = ClaimFields
  <2>1. \A a \in review : Said(a, agent, facts, Seen(scope), answer, FirstSeen(scope))
    BY ReviewedClaims
  <2>. HIDE DEF facts, review
  <2>. QED
    BY <2>1 DEF Said, Answered, Grounded, Formed
<1>3. \A a \in clears : DOMAIN a = ClaimFields /\ a.verdict = "clear"
  <2>. HIDE DEF facts, review
  <2>. SUFFICES ASSUME NEW a \in clears PROVE DOMAIN a = ClaimFields /\ a.verdict = "clear"
    OBVIOUS
  <2>1. PICK r : a = Claim(r, "clear", Units(ByRule(facts, r)), Ids(ByRule(facts, r)))
    BY ClearClaims
  <2>. QED
    BY <2>1 DEF Claim, ClaimFields, AllFields
<1>4. IsFiniteSet(B)
  BY ReviewIsFew
<1>. HIDE DEF facts, review, clears, new
<1>5. \A y \in T : \E a \in B : y = marked[a]
  <2>. SUFFICES ASSUME NEW y \in new, y.verdict = "breach" PROVE \E a \in B : y = marked[a]
    BY DEF Breaches
  <2>1. PICK a \in review \cup clears : y = Marked(a, agent, scope)
    BY <1>1
  <2>2. DOMAIN a = ClaimFields
    BY <1>2, <1>3
  <2>3. a.verdict = "breach"
    BY <2>1, <2>2, MarkedFields
  <2>4. a \in B
    BY <1>3, <2>3 DEF Breaches
  <2>. QED
    BY <2>1, <2>4
<1>. HIDE DEF B, marked, T
<1>6. IsFiniteSet(T)
  BY <1>4, <1>5, ImageIsFinite
<1>. QED
  BY <1>6 DEF T, new

\* Each run has a result.
EachHasFact == \A i \in {1, 2} : \E f \in latest : f[2] = i

\* Finitely many breaches are on the record; no rule is retired before the
\* first pass; and after it, each run has a result.
Priceable ==
  /\ IsFiniteSet(Breaches(asm))
  /\ last.round = 0 => retired = {}
  /\ last.round > 0 => EachHasFact

\* A case that has not been reviewed has none.
LEMMA InitPriceable == Init => Priceable
<1>. SUFFICES ASSUME Init PROVE Priceable
  OBVIOUS
<1>1. Breaches(asm) = {}
  BY DEF Init, Breaches
<1>. QED
  BY <1>1, FS_EmptySet DEF Init, Priceable

\* A result is only replaced by another of its unit.
LEMMA UnitsStay ==
  ASSUME NEW known, NEW facts, NEW f \in known
  PROVE  \E g \in Versioned(known, facts) : g[2] = f[2]
<1>1. CASE \E g \in facts : Id(g) = Id(f)
  BY <1>1 DEF Versioned, Id
<1>2. CASE ~\E g \in facts : Id(g) = Id(f)
  BY <1>2 DEF Versioned
<1>. QED
  BY <1>1, <1>2

\* The first pass has a result for each run, whether a control was silent on
\* it, and no later one takes a run's results away.
LEMMA PassPriceable ==
  ASSUME Typed, Priceable, NEW scope \in Scopes, NEW answer, Pass(scope, answer)
  PROVE  Priceable'
<1>1. part \in Peer /\ TwoRuns /\ last.round \in Nat
  BY PartsAreSpecialists, AFollowUp DEF Typed
<1>2. /\ last.round = 0 => scope = {}
      /\ latest' = Versioned(Known(scope), ControlFacts(scope, answer))
      /\ asm' = asm \cup OwnEntries(scope, answer) \cup ControlEntries(scope, answer)
      /\ last'.round = last.round + 1
  BY PassIs
<1>3. IsFiniteSet(Breaches(asm'))
  <2>. DEFINE A == Breaches(asm)
              B == Breaches(OwnEntries(scope, answer))
              C == Breaches(ControlEntries(scope, answer))
  <2>1. IsFiniteSet(A)
    BY DEF Priceable
  <2>2. IsFiniteSet(B)
    BY <1>1, EntriesAreFew DEF OwnEntries, Agents
  <2>3. IsFiniteSet(C)
    BY <1>1, EntriesAreFew DEF ControlEntries, Agents
  <2>4. Breaches(asm') = A \cup B \cup C
    BY <1>2 DEF Breaches
  <2>. HIDE DEF A, B, C
  <2>5. IsFiniteSet(A \cup B)
    BY <2>1, <2>2, TwoAreFew
  <2>6. IsFiniteSet(A \cup B \cup C)
    BY <2>3, <2>5, TwoAreFew
  <2>. QED
    BY <2>4, <2>6
<1>4. ASSUME NEW i \in {1, 2} PROVE \E f \in latest' : f[2] = i
  <2>1. CASE last.round = 0
    <3>1. "CTLEFF01" \notin retired /\ i \in Seen(scope)
      BY <1>1, <1>2, <2>1 DEF Priceable, Seen, RunIds, TwoRuns
    <3>. DEFINE f == <<"CTLEFF01", i, Ctl!Eff01(sub, runs[i], Evidence(scope, answer)[i])>>
    <3>2. f \in ControlFacts(scope, answer) /\ f[2] = i
      BY <1>1, <3>1, SilentFacts DEF ControlFacts
    <3>. HIDE DEF f
    <3>. QED
      BY <1>2, <3>2 DEF Versioned
  <2>2. CASE last.round # 0
    <3>1. PICK f \in latest : f[2] = i
      BY <1>1, <2>2 DEF Priceable, EachHasFact
    <3>2. PICK g \in Known(scope) : g[2] = i
      BY <3>1, UnitsStay DEF Known
    <3>. QED
      BY <1>2, <3>2, UnitsStay
  <2>. QED
    BY <2>1, <2>2
<1>5. last'.round > 0 /\ last'.round # 0
  BY <1>1, <1>2
<1>. QED
  BY <1>3, <1>4, <1>5 DEF Priceable, EachHasFact, Breaches

\* So it stays, through every step.
LEMMA StepPriceable == Typed /\ Priceable /\ [Next]_vars => Priceable'
<1>. SUFFICES ASSUME Typed, Priceable, [Next]_vars PROVE Priceable'
  OBVIOUS
<1>1. CASE \E scope \in Scopes, answer \in Answer(part) : Pass(scope, answer)
  BY <1>1, PassPriceable
<1>2. CASE /\ UNCHANGED <<latest, asm, last>>
           /\ retired' = retired \/ last.round \in 1 .. MaxRounds - 1
  <2>1. last.round = 0 => retired' = {}
    BY <1>2 DEF Priceable
  <2>. QED
    BY <1>2, <2>1 DEF Priceable, EachHasFact, Breaches
<1>. QED
  BY <1>1, <1>2 DEF Next, vars, Change, Retire, Scopes

\* A case under review has finitely many breaches, and once it was looked at,
\* a result for each run (graph.py, one review after another).
THEOREM AlwaysPriceable == Spec => []Priceable
BY InitPriceable, StepPriceable, AlwaysTyped, PTL DEF Spec

\* What stands are breaches that were recorded, some on fewer runs.
LEMMA StandingIsFew ==
  ASSUME Typed, Priceable
  PROVE  AreFew(Standing)
<1>. DEFINE B == Breaches(asm)
            narrowed == [b \in B |-> Narrowed(asm, b)]
            T == Breaches(Standing)
<1>1. \A y \in T : \E b \in B : y = narrowed[b] /\ y.runs \subseteq {1, 2}
  <2>. SUFFICES ASSUME NEW y \in Current(asm), y.verdict = "breach"
                PROVE  \E b \in B : y = narrowed[b] /\ y.runs \subseteq {1, 2}
    BY DEF Breaches, Standing
  <2>1. PICK b \in asm : y = Narrowed(asm, b)
    BY CurrentIsNarrowed
  <2>2. DOMAIN b = AllFields /\ b.runs \subseteq {1, 2}
    BY DEF Typed, AssessmentTyped, IsRecord
  <2>3. y.verdict = b.verdict /\ y.runs \subseteq b.runs
    BY <2>1, <2>2, NarrowedFields, NarrowedRuns
  <2>4. b \in B
    BY <2>3 DEF Breaches
  <2>. QED
    BY <2>1, <2>2, <2>3, <2>4
<1>2. IsFiniteSet(B)
  BY DEF Priceable
<1>. HIDE DEF B, narrowed, T
<1>3. IsFiniteSet(T)
  BY <1>1, <1>2, ImageIsFinite
<1>4. \A y \in T : IsFiniteSet(y.runs)
  <2>1. \A S : S \subseteq {1, 2, 2, 2, 2, 2} => IsFiniteSet(S)
    BY SixAreFew, FS_Subset
  <2>2. \A y \in T : y.runs \subseteq {1, 2, 2, 2, 2, 2}
    BY <1>1
  <2>. HIDE DEF T
  <2>. QED
    BY <2>1, <2>2
<1>. QED
  BY <1>3, <1>4 DEF AreFew, T

\* The rulebooks' weights and the policy's numbers are what the theorem on
\* one more breach asks of them (authorisation.py, Policy).
LEMMA PolicyHolds ==
  /\ APolicy(Policy) /\ AThreshold(Policy)
  /\ \A r : Severity(r) \in Nat
<1>1. APolicy(Policy)
  BY DEF APolicy, Policy
<1>2. AThreshold(Policy)
  BY DEF AThreshold, Policy
<1>3. \A r : Severity(r) \in {20, 60, 100}
  BY DEF Severity
<1>. QED
  BY <1>1, <1>2, <1>3

\* A breach that another specialist finds on run i.
Another(r, i) ==
  [k \in {"agent"} \cup DOMAIN Claim(r, "breach", {i}, {}) |->
     IF k = "agent" THEN "other" ELSE Claim(r, "breach", {i}, {})[k]]

\* It is that and nothing else.
LEMMA AnotherIs ==
  ASSUME NEW r, NEW i
  PROVE  /\ Another(r, i).agent = "other" /\ Another(r, i).rule = r
         /\ Another(r, i).verdict = "breach" /\ Another(r, i).runs = {i}
BY DEF Another, Claim

\* Nothing that stands is another specialist's.
LEMMA StandingIsOwn ==
  ASSUME Typed, NEW a \in Standing
  PROVE  a.agent # "other"
<1>1. PICK b \in asm : a = Narrowed(asm, b)
  BY CurrentIsNarrowed DEF Standing
<1>2. DOMAIN b = AllFields /\ b.agent \in {part, "control_assurance"}
  BY DEF Typed, AssessmentTyped, IsRecord
<1>3. a.agent = b.agent
  BY <1>1, <1>2, NarrowedFields
<1>. QED
  BY <1>2, <1>3, PartsAreSpecialists DEF Typed, Peer

\* Findings that are taken for the same event.
OneEvent(of) == [relationship |-> "same_event", of |-> of]

\* One more breach never makes the recommendation on a case better, at any
\* point of its review, whatever its findings were taken for before, and
\* though the new one is taken for the same event as another or as one there
\* is not (synthesizer.py; authorisation.py, recommend).
THEOREM MoreHarmIsNoHelp == Spec => []MoreHarmNeverHelps
<1>1. ASSUME Typed, Priceable, last.round > 0, NEW known \in {{}, {OneEvent(Breaches(Standing))}},
             Disposition(Standing, known) \in Decided,
             NEW i \in RunIds, \/ i \in TargetRuns(sub, runs)
                               \/ RunVerdict(i, latest, Standing, TRUE) = "breach",
             NEW r \in {"KYAISS04", "CTLDIS01"},
             NEW other,
             NEW named \in {{}, {OneEvent({Another(r, i), other})},
                            {OneEvent({Another(r, i), other, Another("KYAISS01", i)})}}
      PROVE  ~Better(Disposition(Standing \cup {Another(r, i)},
                                 known \cup Crt!Synthesize(named, Standing \cup {Another(r, i)})),
                     Disposition(Standing, known))
  <2>. DEFINE active == Standing
              harm == Another(r, i)
              worse == active \cup {harm}
              severity == Severities(active)
              severity2 == Severities(worse)
              D == Crt!Synthesize(named, worse)
  <2>1. harm.verdict = "breach" /\ harm.runs = {i} /\ harm.rule = r /\ harm.agent = "other"
    BY AnotherIs
  <2>2. harm \notin active
    <3>. HIDE DEF harm
    <3>. QED
      BY <1>1, <2>1, StandingIsOwn
  <2>3. Another("KYAISS01", i) \notin worse
    <3>. DEFINE ghost == Another("KYAISS01", i)
    <3>1. ghost.agent = "other" /\ ghost.rule = "KYAISS01"
      BY AnotherIs
    <3>. HIDE DEF harm, ghost
    <3>2. ghost # harm
      BY <1>1, <2>1, <3>1
    <3>3. ghost \notin active
      BY <1>1, <3>1, StandingIsOwn
    <3>. QED
      BY <3>2, <3>3 DEF ghost
  <2>4. \A c \in D : c.of = {harm, other}
    <3>. HIDE DEF harm, active
    <3>1. \A c \in D : c \in named /\ c.of \subseteq worse
      BY DEF Crt!Synthesize
    <3>2. \A c \in named : c.of = {harm, other} \/ Another("KYAISS01", i) \in c.of
      BY <1>1 DEF OneEvent, harm
    <3>. HIDE DEF D, worse
    <3>. QED
      BY <2>3, <3>1, <3>2
  <2>5. \A c \in known : harm \notin c.of
    <3>. HIDE DEF harm
    <3>. QED
      BY <1>1, <2>2 DEF OneEvent, Breaches
  <2>6. AreFew(active)
    BY <1>1, StandingIsFew
  <2>7. OneMore(active, harm, i, severity, severity2)
    <3>. HIDE DEF harm, active
    <3>1. severity = [q \in {a.rule : a \in active} |-> Severity(q)]
      BY DEF Severities
    <3>2. severity2 = [q \in {a.rule : a \in worse} |-> Severity(q)]
      BY DEF Severities
    <3>. HIDE DEF severity, severity2
    <3>3. severity2[harm.rule] = Severity(harm.rule)
      BY <3>2
    <3>4. \A a \in active : severity[a.rule] = Severity(a.rule)
                              /\ severity2[a.rule] = Severity(a.rule)
      BY <3>1, <3>2
    <3>. QED
      BY <2>1, <2>2, <2>6, <3>3, <3>4, PolicyHolds DEF OneMore, Breaches
  <2>8. part \in Peer /\ RunIds = {1, 2} /\ DOMAIN runs = {1, 2, 2, 2, 2, 2}
    BY <1>1, PartsAreSpecialists DEF Typed, TwoRuns, RunIds
  <2>9. IsFiniteSet(DOMAIN runs) /\ IsFiniteSet(DOMAIN InForce)
    <3>1. IsFiniteSet({1, 2, 2, 2, 2, 2})
      BY SixAreFew
    <3>. QED
      BY <2>8, <3>1, ForceIsFew
  <2>10. \E f \in latest : f[2] = i
    BY <1>1, <2>8 DEF Priceable, EachHasFact
  <2>11. Recommend(sub, runs, latest, active, known, InForce, severity, Policy) \in Decided
    BY <1>1 DEF Disposition
  <2>. HIDE DEF active, harm, severity, severity2, D
  <2>12. ~Better(Recommend(sub, runs, latest, active \cup {harm}, known \cup D, InForce,
                           severity2, Policy),
                 Recommend(sub, runs, latest, active, known, InForce, severity, Policy))
    BY <1>1, <2>4, <2>5, <2>7, <2>9, <2>10, <2>11, PolicyHolds, OneMoreBreachIsNoHelp
       DEF active
  <2>. QED
    BY <2>12 DEF Disposition, active, harm, severity, severity2, D
<1>2. ASSUME Typed, Priceable, last.round > 0 PROVE MoreHarmNeverHelps
  <2>. DEFINE counted == {i \in RunIds : \/ i \in TargetRuns(sub, runs)
                                        \/ RunVerdict(i, latest, Standing, TRUE) = "breach"}
              worse(r, i) == Standing \cup {Another(r, i)}
              related(r, i, other) ==
                {{}, {OneEvent({Another(r, i), other})},
                 {OneEvent({Another(r, i), other, Another("KYAISS01", i)})}}
  <2>1. \A known \in {{}, {OneEvent(Breaches(Standing))}} :
          \E before \in {Disposition(Standing, known)} :
            before \in Decided =>
              \A i \in counted, r \in {"KYAISS04", "CTLDIS01"} :
                \A other \in Breaches(Standing) \cup {Another(r, i)} :
                  \A named \in related(r, i, other) :
                    ~Better(Disposition(worse(r, i),
                                        known \cup Crt!Synthesize(named, worse(r, i))),
                            before)
    <3>. HIDE DEF counted, worse, related
    <3>. SUFFICES ASSUME NEW known \in {{}, {OneEvent(Breaches(Standing))}},
                         Disposition(Standing, known) \in Decided,
                         NEW i \in counted, NEW r \in {"KYAISS04", "CTLDIS01"},
                         NEW other \in Breaches(Standing) \cup {Another(r, i)},
                         NEW named \in related(r, i, other)
                  PROVE  ~Better(Disposition(worse(r, i),
                                             known \cup Crt!Synthesize(named, worse(r, i))),
                                 Disposition(Standing, known))
      OBVIOUS
    <3>1. i \in RunIds /\ (\/ i \in TargetRuns(sub, runs)
                           \/ RunVerdict(i, latest, Standing, TRUE) = "breach")
      BY DEF counted
    <3>2. named \in {{}, {OneEvent({Another(r, i), other})},
                     {OneEvent({Another(r, i), other, Another("KYAISS01", i)})}}
      BY DEF related
    <3>. QED
      BY <1>1, <1>2, <3>1, <3>2 DEF worse
  <2>. QED
    BY <2>1 DEF MoreHarmNeverHelps, Another, OneEvent
<1>3. Typed /\ Priceable => MoreHarmNeverHelps
  BY <1>2 DEF MoreHarmNeverHelps
<1>. QED
  BY <1>3, AlwaysTyped, AlwaysPriceable, PTL
=============================================================================
