----------------------------- MODULE FloorReview ---------------------------
(***************************************************************************)
(* The deterministic floor at work: a specialist's rules over a filed      *)
(* dossier, what its model adds, the control specialist after it, and the  *)
(* assessments that stand when a later round has looked again, at all the  *)
(* runs or at some (pipeline/graph.py, agents/).  Each behaviour is one    *)
(* specialist's case: a dossier that is clean but for a few deviations,    *)
(* reviewed, and after a change of the registers or of the rulebook        *)
(* reviewed again.                                                         *)
(***************************************************************************)
EXTENDS FloorCases, Authorisation

LOCAL INSTANCE SequencesExt

CONSTANTS
  Parts,      \* the specialists whose cases are looked at
  MaxRounds   \* bound: reviews of one case

Mnd == INSTANCE MandateChecks
Cns == INSTANCE ConsentChecks
Cpt == INSTANCE CounterpartyChecks
Prv == INSTANCE ProvenanceChecks
Inj == INSTANCE InjectionChecks
Ctl == INSTANCE ControlChecks
Bas == INSTANCE BaselineChecks
Por == INSTANCE Portfolio
Jdg == INSTANCE Judgement
Crt == INSTANCE Critic
Scr == INSTANCE Scorecard

VARIABLES
  part,      \* the specialist
  dev,       \* how the case and the registers deviate from the clean ones
  sub, runs, \* the submission with the registers, and its runs
  retired,   \* rules taken out of the book since
  latest,    \* the latest fact of each rule and unit
  asm,       \* every assessment recorded
  last,      \* the last pass: its round, the runs it was about, the answer
  moved      \* a register or the rulebook is not what the last pass saw

vars == <<part, dev, sub, runs, retired, latest, asm, last, moved>>

Peer == {"kya", "mandate", "consent", "counterparty", "provenance", "injection", "log",
         "drift", "systemic"}

ASSUME PartsAreSpecialists == Parts \subseteq Peer
ASSUME AFollowUp == MaxRounds \in Nat \ {0, 1}
----------------------------------------------------------------------------
\* What a pass is given.  The scope {} is the whole submission.
RunIds == DOMAIN runs
Seen(scope) == IF scope = {} THEN RunIds ELSE scope
View(scope) == Within(runs, Seen(scope))
Rows(scope) == SelectSeq(Ledger(sub, runs),
                         LAMBDA t : scope = {} \/ t.run \in scope)
RowsOf(scope, i) == {t \in ToSet(Rows(scope)) : t.run = i}

DraftRules == {"MNDSIG01", "LOGHRS01", "KYACAP04"}

JudgedRules == {"KYAREG03", "MNDSEM01", "CNSVFM01", "CPTIDN01", "CPTDCL01", "PRVREC01",
                "INJACT01", "DRIFTBHV01", "DRIFTUNX01"} \cup Bas!LogRules

\* The checkers a specialist has registered, for a dossier and for a run.
Checkers(agent, s, view, related, txns, found) ==
  CASE agent = "kya" ->
         <<K!KyaPerDossier(s, Dials), K!KyaPerRun(s, Dials, view)>>
    [] agent = "mandate" -> <<<<>>, Mnd!MandatePerRun(view, related)>>
    [] agent = "consent" -> <<<<>>, Cns!ConsentPerRun(view, Dials)>>
    [] agent = "counterparty" ->
         <<Cpt!CounterpartyPerDossier(s, view, txns),
           Cpt!CounterpartyPerRun(s, Dials, view, txns)>>
    [] agent = "provenance" -> <<Prv!ProvenancePerDossier(s), Prv!ProvenancePerRun(s, view)>>
    [] agent = "injection" -> <<<<>>, Inj!InjectionPerRun(s, view)>>
    [] agent = "control_assurance" ->
         <<Ctl!ControlPerDossier(s, Dials, view, txns), Ctl!ControlPerRun(s, view, found)>>
    [] OTHER -> <<<<>>, <<>>>>

\* The rulebooks.
RulesOf ==
  [kya               |-> {"KYAISS01", "KYAISS02", "KYAISS03", "KYAISS04",
                          "KYAISS05", "KYAIDN01", "KYAIDN02", "KYAIDN03",
                          "KYAACC01", "KYAACC02", "KYAACC03", "KYAACC04",
                          "KYAACC05", "KYAACC06", "KYAACC07", "KYAOPF01",
                          "KYAOPF02", "KYAOPF03", "KYAOPF04", "KYAREG01",
                          "KYAREG02", "KYAREG03", "KYAREG04", "KYAREG05",
                          "KYACAP01", "KYACAP02", "KYACAP04", "KYACAP05",
                          "KYALIF01", "KYALIF02", "KYALIF03", "KYALIF04",
                          "KYALIF05", "KYATEC01", "KYATEC03", "KYATEC04"},
   mandate           |-> {"MNDCAP01", "MNDCAP02", "MNDCAP03", "MNDCAP04",
                          "MNDCAP05", "MNDUSE01", "MNDCON01", "MNDCUR01",
                          "MNDCUR02", "MNDVAL01", "MNDSIG01", "MNDCHN01",
                          "MNDCHN02", "MNDSEM01"},
   consent           |-> {"CNSPRS01", "CNSREC01", "CNSPRN01", "CNSMTH01",
                          "CNSRND01", "CNSRND02", "CNSSCP01", "CNSFRS01",
                          "CNSSTD01", "CNSVFM01"},
   counterparty      |-> {"CPTBEN01", "CPTSPL01", "CPTDCL01", "CPTIDN01",
                          "CPTREG01", "CPTSUB01", "CPTCOP01", "CPTCTY01",
                          "CPTLST01", "CPTNEW01"},
   provenance        |-> {"PRVCRD01", "PRVREC01", "KYATEC02", "KYATEC05",
                          "KYATEC06", "KYATEC07"},
   injection         |-> {"INJLST01", "INJPRM01", "INJRET01", "INJTLS01",
                          "INJACT01"},
   log               |-> {"LOGSTR01", "LOGCON01", "LOGVEL01", "LOGRND01",
                          "LOGLIM01", "LOGHRS01"},
   drift             |-> {"DRIFTBHV01", "DRIFTBAS01", "DRIFTUNX01"},
   systemic          |-> {"SYSCPT01", "SYSMDL01", "SYSPAY01", "SYSCOR01"},
   control_assurance |-> {"CTLREP01", "CTLREP02", "CTLREP03", "CTLREP04",
                          "CTLEFF01", "CTLEFF02", "CTLEFF03", "CTLEFF04",
                          "CTLLOG01", "CTLLOG02", "CTLLOG03", "CTLDIS01",
                          "CTLDIS02", "CTLDIS03", "CTLDIS04"}]

\* Every rule of a book has its checker, but for some the model judges and
\* for the baselines and the sweep, which have their own (facts.py raises on
\* a computable rule without one).
Unchecked(agent) ==
  CASE agent = "kya" -> {"KYAREG03", "KYACAP04"}
    [] agent \in {"log", "drift", "systemic"} -> RulesOf[agent]
    [] OTHER -> {}

ASSUME RulesHaveCheckers ==
  \A agent \in Peer \cup {"control_assurance"} :
    LET clean == Checkers(agent, Submission({}), Filed({}), {},
                          Ledger(Submission({}), Filed({})), <<{}, {}>>)
    IN  RulesOf[agent] = Unchecked(agent) \cup DOMAIN clean[1] \cup DOMAIN clean[2]

Book(agent) ==
  [r \in RulesOf[agent] |-> IF r \in retired THEN "retired"
                            ELSE IF r \in DraftRules THEN "draft" ELSE "active"]

Judging(agent) == (RulesOf[agent] \cap JudgedRules) \ (retired \cup DraftRules)
----------------------------------------------------------------------------
\* The submissions on the ledger, this one and perhaps another firm's.
Excerpt(text) == [digest |-> text, text |-> text]

Submissions(s, filed) ==
  LET here == [window |-> s.window, txns |-> Ledger(s, filed),
               runs |-> [i \in DOMAIN filed |->
                           [observed |-> filed[i].observed,
                            excerpts |-> {Excerpt(c.excerpt) : c \in Inj!Excerpts(filed[i])}]],
               clashing |-> IF s.other.clashing THEN "there" ELSE "none"]
      there == [window |-> s.window, clashing |-> "none",
                txns |-> IF s.other.payee = "none" THEN <<>>
                         ELSE <<Row(1, s.other.payee, TRUE, 10, 50)>>,
                runs |-> <<[observed |-> s.other.model,
                            excerpts |-> {Excerpt(s.other.excerpt)}]>>]
  IN  [c \in IF s.other.model = "none" THEN {"here"} ELSE {"here", "there"} |->
         IF c = "here" THEN here ELSE there]

Swept == Por!Sweep(Submissions(sub, runs), Book("systemic"), sub.merchants, Dials)

Named(finding) == finding.failure \o finding.subject
----------------------------------------------------------------------------
Evaluated(book, checkers) == EvaluateRuleset(book, {}, checkers[1], checkers[2])

\* What a judged rule rests on, whatever its status is.
MeasuredAlways(agent) ==
  {<<r, 0, "measured">> : r \in IF agent = "kya" THEN {"KYAREG03", "KYACAP04"} ELSE {}}

\* run(): the facts of one specialist's pass.
FactsOf(agent, scope, found) ==
  CASE agent = "log" -> Bas!LogFacts(Book("log"), Rows(scope))
    [] agent = "drift" -> Bas!DriftFacts(Book("drift"), Dials, Rows(scope))
    [] agent = "systemic" -> {<<Named(f), 0, "measured">> : f \in Swept}
    [] OTHER ->
         MeasuredAlways(agent) \cup
         Evaluated(Book(agent), Checkers(agent, sub, View(scope), Related(runs, Seen(scope)),
                                         Rows(scope), found))

\* assess(): the log's floor prices nothing, and a baseline that moves is a
\* concern and never a breach.
Assessed(agent, facts, contained) ==
  CASE agent = "log" -> DataGaps(facts)
    [] agent = "drift" ->
         DataGaps(facts) \cup
         {[Claim("DRIFTBAS01", "concern", {}, {Id(f)}) EXCEPT !.certain = TRUE] :
            f \in {g \in facts : g[1] = "DRIFTBAS01" /\ g[3] = "breach"}}
    [] agent = "systemic" ->
         {[Concern(f[1], {}, {Id(f)}) EXCEPT !.scope = "portfolio", !.certain = FALSE] :
            f \in facts}
    [] OTHER -> Floor(facts, contained)

\* The model's answer: "ok", "bad" of the first run it is shown, or "silent"
\* about that run.
Answers(agent, facts, scope, answer) ==
  LET first == CHOOSE i \in Seen(scope) : \A j \in Seen(scope) : i <= j
      rows == RowsOf(scope, first)
      told == IF answer = "silent" THEN Seen(scope) \ {first} ELSE Seen(scope)
      on(r) == {c \in Judging(agent) : c = r}
  IN  CASE agent = "kya" ->
             Jdg!Authority(facts, Judging("kya"), [r \in Judging("kya") |-> answer])
        [] agent = "mandate" /\ on("MNDSEM01") # {} ->
             Jdg!Fidelity(facts, [i \in told |-> answer = "ok" \/ i # first])
        [] agent = "consent" /\ on("CNSVFM01") # {} ->
             Jdg!ValueForMoney(facts, answer # "silent", answer = "bad", {first})
        [] agent = "counterparty" /\ Judging("counterparty") = {"CPTIDN01", "CPTDCL01"} ->
             Jdg!Payee(facts, IF answer = "bad" THEN {runs[first].merchant} ELSE {},
                       [m \in {runs[first].merchant} |-> Cpt!PaidRuns(View(scope), m)],
                       IF answer = "bad" THEN "anomalous" ELSE "none")
        [] agent = "provenance" /\ on("PRVREC01") # {} ->
             Jdg!Reconciliation(facts, answer # "bad", answer = "silent")
        [] agent = "injection" /\ on("INJACT01") # {} ->
             Jdg!Acting(facts, [i \in told |-> IF answer = "bad" /\ i = first THEN "prompt"
                                               ELSE "none"],
                        [i \in told |-> Inj!Shown(runs[i])], answer = "bad")
        [] agent = "log" /\ facts # {} /\ Rows(scope) # <<>> ->
             UNION {Jdg!Pattern(facts, r, answer, rows) : r \in Judging("log")}
        [] agent = "drift" /\ facts # {} /\ ~\E f \in facts : f[3] \in AbsentReason ->
             Jdg!Drift(facts, answer, rows, "none", Judging("drift"))
        [] OTHER -> {}

\* LogAgent.review: with three rules left or more, it looks up its core rules
\* by name, and raises when one of them is not in force.
LogRaises(scope) ==
  /\ Rows(scope) # <<>>
  /\ Cardinality(Judging("log")) >= 3
  /\ ~(Bas!LogCore \subseteq Judging("log"))

\* The review does not come about: the model cannot be reached or times out,
\* or the specialist raises before it asks.
Fails(agent, scope, answer) == answer = "failed" \/ (agent = "log" /\ LogRaises(scope))

\* review(), and the fallback when it fails.
Reviewed(agent, facts, scope, answer) ==
  LET assessed == Assessed(agent, facts, Contained(sub, View(scope)))
  IN  CASE agent \in {"systemic", "control_assurance"} -> assessed
        [] agent \in Peer \ {"systemic"} /\ Fails(agent, scope, answer) ->
             Validated(Unjudged(assessed, facts, Judging(agent)), facts, View(scope))
        [] OTHER -> Validated(assessed \cup Answers(agent, facts, scope, answer), facts,
                              View(scope))

\* _record_review: rules that now hold are retired, and what is new is marked
\* with the agent, the round and the runs looked at.
Recorded(agent, facts, review, book, scope) ==
  LET earlier == {a \in asm : a.agent = agent}
  IN  {[k \in DOMAIN a \cup {"agent"} |->
          CASE k = "agent" -> agent
            [] k = "round" -> last.round + 1
            [] k = "review" -> scope
            [] OTHER -> a[k]] : a \in review \cup Clears(earlier, review, facts, book)}
----------------------------------------------------------------------------
\* investigate: the specialist, and the control specialist on what it found.
Pass(scope, answer) ==
  /\ last.round < MaxRounds
  /\ last.round = 0 => scope = {}
  /\ \E facts \in {FactsOf(part, scope, [i \in Seen(scope) |-> {}])} :
     \E review \in {Recorded(part, facts, Reviewed(part, facts, scope, answer), Book(part),
                            scope)} :
     \E known \in {Versioned(latest, facts)} :
     \E controls \in {FactsOf("control_assurance", scope,
                              [i \in Seen(scope) |->
                                 Ctl!PeersEvidence(asm \cup review, known, i)])} :
       /\ latest' = Versioned(known, controls)
       /\ asm' = asm \cup review
                    \cup Recorded("control_assurance", controls,
                                  Reviewed("control_assurance", controls, scope, "ok"),
                                  Book("control_assurance"), scope)
  /\ last' = [round |-> last.round + 1, scope |-> scope, answer |-> answer]
  /\ moved' = FALSE
  /\ UNCHANGED <<part, dev, sub, runs, retired>>

\* Between two reviews a register is corrected, or comes to differ.
Change(devs) ==
  /\ last.round \in 1 .. MaxRounds - 1
  /\ last.answer = "ok" /\ ~moved /\ dev # devs
  /\ dev' = devs /\ sub' = Submission(devs) /\ moved' = TRUE
  /\ UNCHANGED <<part, runs, retired, latest, asm, last>>

\* A rule that was breached is retired from the rulebook.
Retire(rule) ==
  /\ last.round \in 1 .. MaxRounds - 1
  /\ last.answer = "ok" /\ ~moved
  /\ retired' = retired \cup {rule} /\ moved' = TRUE
  /\ UNCHANGED <<part, dev, sub, runs, latest, asm, last>>
----------------------------------------------------------------------------
\* The keys whose values a specialist's rules tell apart.
Registers == {"agentListed", "operatorListed", "issuerListed", "trust", "accredited", "classes",
              "revokedAt", "signatories", "licence", "sponsor", "standing", "changedHands",
              "contact", "registeredAt", "authExpires", "regPurpose", "risk", "validated",
              "blocked", "merchants", "tools", "releases"}

KeysOf(p) ==
  CASE p = "kya" -> <<DOMAIN KyaFields, {"start", "principal", "consumer", "model", "purpose"}>>
    [] p = "mandate" ->
         <<{"controls", "window", "indexed", "submitted"},
           {"start", "course", "intent", "total", "cap", "mcc", "allowlist", "region", "usage",
            "uses", "cumulativeCap", "amount", "ledger", "cartCurrency", "payCurrency",
            "authorised", "forged", "relinked"}>>
    [] p = "consent" ->
         <<{}, {"course", "ceremony", "presenceRequired", "occurred", "confirmedBy", "method",
                "shown", "capsShown", "authority", "usage", "consented", "consentAt",
                "alternatives"}>>
    [] p = "counterparty" ->
         <<{"merchants", "history2", "window"},
           {"course", "merchant", "discloses", "payee", "settles", "payeeCountry", "ledger"}>>
    [] p = "provenance" ->
         <<{"card", "tools", "releases", "blocked", "agentListed", "target"},
           {"model", "observed", "release", "promptHash", "calls"}>>
    [] p = "injection" -> <<{"tools"}, {"course", "calls", "listing", "prompt"}>>
    [] p = "log" -> <<{"history2"}, {"ledger"}>>
    [] p = "drift" -> <<{"history2"}, {"course", "ledger"}>>
    [] OTHER -> <<{"other", "merchants"}, {"observed", "calls"}>>

Single(p) ==
  {Deviation(0, k, a) : k \in KeysOf(p)[1], a \in 2 .. 9}
    \cup {Deviation(2, k, a) : k \in KeysOf(p)[2], a \in 2 .. 14}

Fields(d) == IF d.of = 0 THEN AllSubFields ELSE RunFields
IsValue(d) == d.alt \in DOMAIN Fields(d)[d.key]

\* Pairs: what one rule reads in two places, and a breach with what the
\* firm's controls made of the run.
Together(p) ==
  CASE p = "mandate" -> {<<"total", "course">>, <<"mcc", "course">>, <<"allowlist", "course">>,
                         <<"cumulativeCap", "course">>, <<"usage", "course">>,
                         <<"usage", "intent">>, <<"total", "controls">>}
    [] p = "counterparty" -> {<<"merchants", "settles">>, <<"merchants", "merchant">>}
    [] p = "kya" -> {<<"licence", "sponsor">>}
    [] p = "consent" -> {<<"authority", "usage">>}
    [] p = "injection" -> {<<"prompt", "course">>}
    [] p = "systemic" -> {<<"other", "merchants">>, <<"other", "calls">>,
                          <<"other", "observed">>}
    [] OTHER -> {}

Cases(p) ==
  LET single == {d \in Single(p) : IsValue(d)}
  IN  {{}} \cup {{d} : d \in single}
      \cup {{t[1], t[2]} : t \in {u \in single \X single :
                                     <<u[1].key, u[2].key>> \in Together(p)}}

\* A register as the clean case has it, or with one of its own deviations.
Changes(devs) ==
  {{d \in devs : d.of # 0 \/ d.key \notin Registers}}
    \cup {devs \cup {Deviation(0, k, 2)} : k \in (KeysOf(part)[1] \cap Registers) \cap
                                                 {"agentListed", "merchants", "tools"}}

Init ==
  /\ part \in Parts
  /\ dev \in Cases(part)
  /\ sub = Submission(dev) /\ runs = Filed(dev)
  /\ retired = {} /\ latest = {} /\ asm = {} /\ moved = FALSE
  /\ last = [round |-> 0, scope |-> {}, answer |-> "none"]

\* The answers a specialist's rules wait for.
Answer(p) == IF p = "systemic" THEN {"ok"} ELSE {"ok", "bad", "silent", "failed"}

Next ==
  \/ \E scope \in {{}, {1}, {2}}, answer \in Answer(part) : Pass(scope, answer)
  \/ \E devs \in Changes(dev) : Change(devs)
  \/ \E rule \in RulesOf[part] \cap {f[1] : f \in {g \in latest : g[3] = "breach"}} : Retire(rule)

Spec == Init /\ [][Next]_vars
----------------------------------------------------------------------------
Standing == Current(asm)
InForce == [r \in {q \in RulesOf[part] \cup RulesOf["control_assurance"] :
                   q \notin retired \cup DraftRules} |->
           IF r \in JudgedRules THEN "judged" ELSE "computable"]

\* Facts, assessments and the last pass have their types, and an assessment
\* names only runs of the case.
TypeOK ==
  /\ part \in Parts
  /\ \A f \in latest : f[2] \in {0} \cup RunIds /\ f[3] \in Outcome
  /\ \A a \in asm : /\ a.runs \cup a.review \subseteq RunIds
                    /\ a.round \in 1 .. last.round
                    /\ a.verdict \in {"breach", "explained", "clear", "concern", "inconclusive"}
  /\ last.round \in 0 .. MaxRounds

\* The facts of a first pass by a specialist and the control specialist.
PassFacts(p, s, filed, book) ==
  LET facts(agent, found) ==
        Evaluated([r \in RulesOf[agent] |-> book[r]],
                  Checkers(agent, s, filed, {}, Ledger(s, filed), found))
      withControls(peer) ==
        peer \cup facts("control_assurance", [i \in DOMAIN filed |-> Ctl!PeersFound(peer, i)])
  IN  withControls(facts(p, [i \in DOMAIN filed |-> {}]))

AllActive == [r \in RulesOf[part] \cup RulesOf["control_assurance"] |-> "active"]

Without(devs, w) ==
  {d \in devs : ~(d.of = w.of /\ d.key = w.key)} \cup {Deviation(w.of, w.key, w.alt)}

Filled(devs, w) ==
  LET own == {d \in devs : d.of = w.of /\ d.key = w.key}
  IN  IF own = {} THEN 1 ELSE (CHOOSE d \in own : TRUE).alt

BreachesIn(facts) == {f \in facts : f[3] = "breach"}
Gaps(facts) == {f \in facts : f[3] \in NamesAGap}

WithheldShows(before, after) ==
  BreachesIn(before) # {} => BreachesIn(after) # {} \/ Gaps(after) \ Gaps(before) # {}


\* A look at some runs says of them what a look at all of them says, the
\* draws of the others on their mandates and the peers' findings included
\* (base.py scoped); the month's new payees are the whole history's.
ScopedAgrees ==
  last.round = 1 /\ last.answer = "ok" => \A scope \in {{1}, {2}} :
    LET found == [i \in RunIds |-> Ctl!PeersEvidence(asm, latest, i)]
        of(agent, look) == {f \in FactsOf(agent, look, [i \in Seen(look) |-> found[i]]) :
                              f[2] \in scope /\ f[1] # "CPTNEW01"}
    IN  \A agent \in {part, "control_assurance"} : of(agent, scope) = of(agent, {})

\* A look at some runs leaves what stands on the others as it was
\* (assess.py current).
OtherRunsUntouched ==
  [][last'.scope # {} /\ last'.round # last.round =>
       \A i \in RunIds \ last'.scope : OnRun(asm', i) = OnRun(asm, i)]_vars

\* A breach on the record is among the assessments that stand: as a breach, as
\* explained by the firm's control, or as a concern (assess.py
\* floor_assessments, current).  The month's new payees are left out: the run
\* they are recorded on changes with the register.
BreachStands ==
  LET standing == Standing
      force == DOMAIN InForce \ {"CPTNEW01"}
  IN  \A f \in {g \in latest : g[3] = "breach" /\ g[1] \in force} :
      \E a \in standing : /\ a.rule = f[1] /\ Id(f) \in a.cites
                          /\ a.verdict \in {"breach", "explained", "concern"}
                          /\ a.scope = "case" \/ f[2] \in a.runs

\* Once the runs under review no longer break a rule in force, no breach of it
\* by the floor stands against them (review_support.py
\* clear_reconsidered_rules).  A retired rule is not looked at again.
ClearedIsRetired ==
  last.round > 0 =>
    \A a \in Standing :
      LET looked == IF a.scope = "run" THEN a.runs \cap Seen(last.scope)
                    ELSE IF last.scope = {} THEN {0} ELSE {}
          now == {f \in latest : f[1] = a.rule /\ f[2] \in Seen(last.scope) \cup {0}}
      IN  a.verdict = "breach" /\ a.certain /\ a.rule \notin retired /\ looked # {} =>
            \E f \in now : f[3] \notin {"satisfied", "out_of_scope"}

\* A control is found silent exactly where it passed and its own risk came
\* about, whichever round established that, and none is called ineffective
\* anywhere else (control_assurance.py).
EffSeesPeers ==
  last.round > 0 /\ "CTLEFF01" \notin retired =>
    \A i \in RunIds :
      LET found == {f[1] : f \in {g \in latest : g[2] = i /\ g[3] = "breach"}}
          risks == {sub.controls[e.control].risk :
                      e \in {d \in runs[i].evals : /\ d.control \in DOMAIN sub.controls
                                                   /\ d.outcome = "passed"}}
          silent == \/ "per_transaction_cap" \in risks /\ "MNDCAP01" \in found
                    \/ "counterparty_allowlist" \in risks /\ "MNDCAP03" \in found
          posture(c) == Ctl!Posture(sub, runs[i], Ctl!PeersFound(latest, i), c)
      IN  /\ <<"CTLEFF01", i, "breach">> \in latest <=> silent
          /\ \A c \in DOMAIN sub.controls : posture(c) = "ineffective" => silent

\* No judged rule is clear on a run, or at all, without the model's verdict
\* (agents/*_reasoning.py, review_support.py unjudged_review).
NoVerdictNoClear ==
  LET first == CHOOSE i \in Seen(last.scope) : \A j \in Seen(last.scope) : i <= j
      now == {a \in asm : a.round = last.round /\ a.rule \in JudgedRules /\ a.verdict = "clear"}
  IN  /\ last.answer = "failed" => now = {}
      /\ last.answer = "silent" =>
           \A a \in now : a.rule \in {"MNDSEM01", "CNSVFM01", "INJACT01"}
                            /\ a.subject # "objective" => first \notin a.runs

Severities(active) == [r \in {a.rule : a \in active} |-> Severity(r)]

\* A sweep of the case under a book, without models.  Labelled are the
\* failures it has under the whole book, but for those of the first run, and
\* those that only a model can establish.
Scorecard(book, facts, planted) ==
  Scr!Assemble(book, Scr!RunSweep(book, facts, {}, planted, {1}, FALSE, OncePerDossier),
               Scr!DossierOutcome(Recommend(sub, runs, facts, Floor(facts, {}), {},
                                            [r \in DOMAIN book |-> book[r].evaluation],
                                            [r \in DOMAIN book |-> Severity(r)], Policy),
                                  planted), {1})

Scores(facts, status, planted) ==
  Scorecard([r \in DOMAIN status |->
               [status |-> status[r], failures |-> FailuresOf(r),
                evaluation |-> IF r \in JudgedRules THEN "judged" ELSE "computable"]],
            facts, planted)

Shows(facts, label) ==
  \E f \in facts : /\ f[3] = "breach" /\ label[2] \in FailuresOf(f[1])
                   /\ (label[2] \in OncePerDossier \/ f[2] = label[1])

Planted(facts) ==
  UNION {{IF x \in OncePerDossier THEN <<0, x>> ELSE <<f[2], x>> : x \in FailuresOf(f[1])} :
           f \in {g \in BreachesIn(facts) : g[2] # 1}}

PlantedOfJudged == {<<2, x>> : x \in UNION {FailuresOf(r) : r \in Judging(part)}}

LossSaid(base, rest, candidate, planted) ==
  /\ Scr!Compare(base, candidate).lost = {p \in planted : ~Shows(rest, p)}
  /\ candidate.notScoreable = base.notScoreable

LossesSaid(whole, planted) ==
  \A r \in {f[1] : f \in BreachesIn(whole)}, status \in {"retired", "draft"} :
    LET book == [AllActive EXCEPT ![r] = status]
        labels == planted \cup PlantedOfJudged
    IN  \E rest \in {PassFacts(part, sub, runs, book)} :
          LossSaid(Scores(whole, AllActive, labels), rest, Scores(rest, book, labels), planted)

\* A rule taken out of a book loses, in the comparison of the two sweeps, the
\* labelled failures that nothing else shows, every one and no other; what is
\* not scored is the same for both (sweep.py judged_only_failures,
\* store.py compare).
NoLossUnsaid ==
  last.round = 0 /\ part \notin {"log", "drift", "systemic"} =>
    \E whole \in {PassFacts(part, sub, runs, AllActive)} : LossesSaid(whole, Planted(whole))

Disposition(active, correlations) ==
  Recommend(sub, runs, latest, active, correlations, InForce, Severities(active), Policy)

\* What a model may quote of a share of 0.915 that it was shown: rightly, as
\* a percentage or in round numbers, and wrongly.
Context == [agent \in {part} |-> {Crt!Figure(9150, TRUE)}]
RightFigures == {Crt!Figure(9150, TRUE), Crt!Figure(915000, TRUE), Crt!Figure(920000, FALSE)}
WrongFigures == {Crt!Figure(930000, TRUE), Crt!Figure(916000, TRUE), Crt!Figure(9150000, FALSE)}

Checkable(a) == /\ a.round = last.round /\ a.agent = part
                /\ (a.rule \in JudgedRules \/ a.agent \in Crt!CheckedAgents)

\* A judged assessment that quotes a figure the model was not shown leaves the
\* case undecided or refused; a figure that was rounded costs nothing
\* (critic.py, authorisation.py review_flags, recommend).
UngroundedNeverAuthorises ==
  last.round > 0 /\ last.answer = "ok" =>
    LET standing == Standing
        invalid(a, figure) ==
          Crt!CheckEvidenceGrounding({b \in asm : b.round = last.round}, JudgedRules, Context,
                                     [b \in asm |-> IF b = a THEN {figure} ELSE {}])
    IN  \A a \in {b \in standing : Checkable(b)} :
          /\ \A right \in RightFigures : Downgraded(standing, invalid(a, right)) = standing
          /\ \A wrong \in WrongFigures :
               Disposition(Downgraded(standing, invalid(a, wrong)), {})
                 \in {"refuse", "incomplete-submission"}

\* One more breach on a run that counts never brings a better disposition,
\* whatever findings were related before, and not even when the synthesizer
\* takes it for the same event as another finding, or relates it to one there
\* is not (synthesizer.py, authorisation.py recommend).
MoreHarmNeverHelps ==
  last.round > 0 /\ last.answer = "ok" =>
    LET standing == Standing
        event(of) == [relationship |-> "same_event", of |-> of]
        related == {{}, {event(Breaches(standing))}}
        counted == {i \in RunIds : \/ i \in TargetRuns(sub, runs)
                                   \/ RunVerdict(i, latest, standing, TRUE) = "breach"}
        more(r, i) == [k \in {"agent"} \cup DOMAIN Claim(r, "breach", {i}, {}) |->
                         IF k = "agent" THEN "other" ELSE Claim(r, "breach", {i}, {})[k]]
    IN  \A known \in related :
          \E before \in {Disposition(standing, known)} :
            before \in Decided =>
              \A i \in counted, r \in {"KYAISS04", "CTLDIS01"} :
                LET harm == more(r, i)
                    worse == standing \cup {harm}
                    ghost == more("KYAISS01", i)
                IN  \A other \in Breaches(standing) \cup {harm} :
                      \A named \in {{}, {event({harm, other})}, {event({harm, other, ghost})}} :
                        ~Better(Disposition(worse, known \cup Crt!Synthesize(named, worse)),
                                before)
=============================================================================
