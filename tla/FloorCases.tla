----------------------------- MODULE FloorCases ----------------------------
(***************************************************************************)
(* The dossiers and registers that the floor is checked on.  Each field    *)
(* lists the values it may take, the clean one first: a case is the clean  *)
(* case but for a few deviations.  The rules tell no other values apart.   *)
(***************************************************************************)
EXTENDS Facts

LOCAL INSTANCE SequencesExt
K == INSTANCE KyaChecks

Level(holder, human, grants, cap) == K!Level(holder, human, grants, cap)
Credential(issued, expires, caps) == K!Credential(issued, expires, caps)

\* The fields of two tables side by side.
Joined(f, g) == [k \in DOMAIN f \cup DOMAIN g |-> IF k \in DOMAIN f THEN f[k] ELSE g[k]]

CleanChain == <<Level("agent", FALSE, {"pay"}, 5), Level("officer", TRUE, {"pay"}, 9)>>

KyaFields ==
  [agentListed   |-> <<TRUE, FALSE>>,
   operatorListed |-> <<TRUE, FALSE>>,
   issuerListed  |-> <<TRUE, FALSE>>,
   trust         |-> <<1, 0>>,
   accredited    |-> <<30, 9, 59>>,
   classes       |-> <<"covering", "other", "unstated">>,
   revokedAt     |-> <<NoDay, 20, 45>>,
   chain         |-> <<CleanChain,
                       <<>>,
                       <<Level("agent", FALSE, {}, 0), CleanChain[2]>>,
                       <<Level("agent", FALSE, {"pay", "admin"}, 5), CleanChain[2]>>,
                       <<Level("agent", FALSE, {"pay"}, 10), CleanChain[2]>>,
                       <<CleanChain[1], Level("desk", FALSE, {}, 0), CleanChain[2]>>,
                       <<CleanChain[1], CleanChain[2], CleanChain[2]>>,
                       <<CleanChain[1], Level("firm", FALSE, {"pay"}, 9)>>,
                       <<[CleanChain[1] EXCEPT !.signed = FALSE], CleanChain[2]>>>>,
   signatories   |-> <<{"officer"}, {"other"}, {}>>,
   licence       |-> <<"current", "lapsed">>,
   sponsor       |-> <<"active", "ended">>,
   standing      |-> <<"good", "suspended", "unstated">>,
   changedHands  |-> <<{}, {20}, {45}>>,
   contact       |-> <<TRUE, FALSE>>,
   registeredAt  |-> <<30, 51, NoDay>>,
   authExpires   |-> <<60, 49, NoDay>>,
   regPurpose    |-> <<"office", "travel", "unstated">>,
   risk          |-> <<TRUE, FALSE>>,
   validated     |-> <<{"m1"}, {}>>,
   blocked       |-> <<{"m2"}, {"m1"}, {}>>,
   credential    |-> <<Credential(40, 58, {"pay"}),
                       Credential(40, 58, {}),
                       Credential(40, 58, {"pay", "admin"}),
                       Credential(40, 41, {"pay"}),
                       Credential(40, 40, {"pay"}),
                       [Credential(40, 58, {"pay"}) EXCEPT !.sigOk = FALSE],
                       [Credential(40, 58, {"pay"}) EXCEPT !.hashOk = FALSE],
                       [Credential(40, 58, {"pay"}) EXCEPT !.alg = "other"]>>,
   history       |-> <<<<Credential(20, 40, {"pay"})>>,
                       <<>>,
                       <<Credential(20, 41, {"pay"})>>,
                       <<Credential(10, 50, {"pay"}), Credential(20, 30, {"pay"})>>,
                       <<Credential(20, 40, {})>>>>,
   checkedAt     |-> <<50, 20, NoDay, 60>>]
----------------------------------------------------------------------------
Merchant(owner, names) ==
  [owner |-> owner, names |-> names, flags |-> {}, platform |-> FALSE, firstSeen |-> 1]

Merchants == [shop |-> Merchant("one", {"Shop"}), depot |-> Merchant("two", {"Depot"})]

Control(risk, enforcement) == [risk |-> risk, enforcement |-> enforcement, versioned |-> TRUE]

Controls == [cap  |-> Control("per_transaction_cap", "blocking"),
             list |-> Control("counterparty_allowlist", "advisory")]

Tool(servers) == [servers |-> servers, hashed |-> TRUE]

Row(run, payee, ok, amount, day) ==
  [run |-> run, payee |-> payee, ok |-> ok, amount |-> amount, day |-> day]

History(a, b, c, d) == <<Row(0, "shop", TRUE, a, 10), Row(0, "shop", TRUE, b, 15),
                         Row(0, "shop", TRUE, c, 20), Row(0, "shop", TRUE, d, 25)>>

Call(server) == [tool |-> "search", server |-> server, excerpt |-> "plain", schema |-> "same"]

Card == [filed |-> TRUE, servers |-> {"s1"}, caps |-> {"pay"}, signed |-> TRUE]

\* Another firm's dossier on the ledger; none at first.
Other(model, payee, excerpt) ==
  [model |-> model, payee |-> payee, excerpt |-> excerpt, clashing |-> FALSE]

SubFields ==
  [merchants |-> <<Merchants,
                   [Merchants EXCEPT !.depot.owner = "none"],
                   [Merchants EXCEPT !.depot.owner = "one"],
                   [Merchants EXCEPT !.depot.flags = {"sanctioned"}],
                   [Merchants EXCEPT !.depot.flags = {"marketplace"}],
                   [Merchants EXCEPT !.depot.flags = {"beneficial_owner_unresolved"}],
                   [Merchants EXCEPT !.depot.firstSeen = 45],
                   [Merchants EXCEPT !.depot.firstSeen = 45, !.shop.firstSeen = 45],
                   [shop |-> Merchants.shop]>>,
   controls  |-> <<Controls,
                   [c \in {} |-> Controls.cap],
                   [list |-> Controls.list],
                   [Controls EXCEPT !.cap.versioned = FALSE],
                   [Controls EXCEPT !.cap.enforcement = "unstated"]>>,
   tools     |-> <<[search |-> Tool({"s1"})],
                   [search |-> Tool({"s2"})],
                   [search |-> [Tool({"s1"}) EXCEPT !.hashed = FALSE]],
                   [quote |-> Tool({"s1"})]>>,
   releases  |-> <<[r1 |-> "h1", r2 |-> "none"], [r2 |-> "none"], [r1 |-> "h9"]>>,
   card      |-> <<Card,
                   [Card EXCEPT !.filed = FALSE],
                   [Card EXCEPT !.servers = {}],
                   [Card EXCEPT !.caps = {"pay", "admin"}],
                   [Card EXCEPT !.signed = FALSE]>>,
   history2  |-> <<History(10, 12, 11, 12),
                   History(10, 12, 30, 32),
                   <<>>,
                   Append(History(10, 12, 11, 12), Row(0, "depot", FALSE, 5, 30)),
                   Append(History(10, 12, 11, 12), Row(9, "shop", TRUE, 5, 30))>>,
   window    |-> <<[from |-> 40, to |-> 60], [from |-> 30, to |-> 60]>>,
   indexed   |-> <<TRUE, FALSE>>,
   target    |-> <<[model |-> "m1", release |-> "r1", servers |-> {"s1"}],
                   [model |-> "m9", release |-> "r1", servers |-> {"s1"}]>>,
   submitted |-> <<2, 3>>,
   executed  |-> <<2>>,
   submittedAt |-> <<60>>,
   other     |-> <<Other("none", "none", "none"),
                   Other("m1", "none", "plain"),
                   Other("m2", "depot", "instruction"),
                   [Other("m2", "none", "plain") EXCEPT !.clashing = TRUE]>>]

\* How a run went, and what its firm's controls made of it: a run that was
\* blocked has a control that was triggered.
Eval(control, outcome, override) ==
  [control |-> control, outcome |-> outcome, override |-> override]
Course(outcome, evals) == [outcome |-> outcome, evals |-> evals]
Settles(name, account) == [payeeName |-> name, payeeAccount |-> account]

Courses ==
  <<Course("completed", {Eval("cap", "passed", "none"), Eval("list", "passed", "none")}),
    Course("blocked", {Eval("cap", "triggered", "none")}),
    Course("blocked", {Eval("list", "triggered", "none")}),
    Course("blocked", {Eval("cap", "triggered", "none"), Eval("list", "passed", "none")}),
    Course("blocked", {Eval("cap", "triggered", "named")}),
    Course("abandoned", {}),
    Course("failed", {}),
    Course("completed", {}),
    Course("completed", {Eval("cap", "triggered", "none")}),
    Course("completed", {Eval("cap", "triggered", "named")}),
    Course("completed", {Eval("cap", "triggered", "anonymous")}),
    Course("completed", {Eval("list", "triggered", "unreasoned")}),
    Course("completed", {Eval("cap", "undecided", "none")}),
    Course("completed", {Eval("ghost", "passed", "none")})>>

\* The mandate of a run.
MandateFields ==
  [principal |-> <<"officer", "someone">>,
   consumer  |-> <<FALSE, TRUE>>,
   model     |-> <<"m1", "m2", "">>,
   purpose   |-> <<"office", "travel">>,
   intent    |-> <<1, 2>>,
   issued    |-> <<45>>,
   window    |-> <<45 .. 58>>,
   cap       |-> <<30, 15>>,
   cumulativeCap |-> <<60, 35, 15>>,
   scopeCurrency |-> <<"eur">>,
   allowlist |-> <<"covering", "empty", "elsewhere">>,
   geography |-> <<{"eu"}>>,
   presenceRequired |-> <<TRUE, FALSE>>,
   usage     |-> <<"multi", "single_use", "unstated">>,
   uses      |-> <<1, 6>>,
   maxUses   |-> <<5>>]

\* What it bought.
CartFields ==
  [merchant  |-> <<"depot", "shop", "stall">>,
   merchantName |-> <<"Depot">>,
   mcc       |-> <<"allowed", "other">>,
   country   |-> <<"eu">>,
   region    |-> <<"eu", "us", "unstated">>,
   discloses |-> <<FALSE, TRUE>>,
   listing   |-> <<"plain", "instruction">>,
   total     |-> <<20, 31>>,
   cartCurrency  |-> <<"eur", "usd">>]

\* What it paid, and to whom.
PaymentFields ==
  [authorised |-> <<53, 59>>,
   amount    |-> <<20, 25>>,
   payCurrency   |-> <<"eur", "usd">>,
   payee     |-> <<TRUE, FALSE>>,
   payeeCountry |-> <<"eu", "us">>,
   settles   |-> <<Settles("Depot", "a2"), Settles("Nobody", "a2"),
                   Settles("unstated", "a2"), Settles("Shop", "a1")>>]

\* What the principal was shown, and said.
CeremonyFields ==
  [ceremony  |-> <<TRUE, FALSE>>,
   occurred  |-> <<TRUE, FALSE>>,
   authority |-> <<"per_transaction", "standing_authority">>,
   consentAt |-> <<51, 44, 58, NoDay>>,
   confirmedBy |-> <<"officer", "someone", "unstated">>,
   method    |-> <<"passkey", "sms", "unstated">>,
   shown     |-> <<"same", "amount", "merchant", "items", "unstated", "noitems">>,
   capsShown |-> <<"same", "other", "unstated", "some">>,
   consented |-> <<"office", "travel", "unstated">>]

\* What the agent built the mandate from.
ContextFields ==
  [observed  |-> <<"m1", "m2">>,
   release   |-> <<"r1", "r9", "r2">>,
   promptHash |-> <<"h1", "h2">>,
   calls     |-> <<{Call("s1")}, {}, {Call("s2")}, {Call("s1"), Call("s2")},
                   {[Call("s1") EXCEPT !.tool = "odd"]},
                   {[Call("s1") EXCEPT !.excerpt = "none"]},
                   {[Call("s1") EXCEPT !.excerpt = "instruction"]},
                   {[Call("s1") EXCEPT !.schema = "differs"]},
                   {Call("s1"), [Call("s1") EXCEPT !.excerpt = "instruction"]},
                   {Call("s1"), [Call("s1") EXCEPT !.excerpt = "none"]}>>,
   alternatives |-> <<TRUE, FALSE>>]

RunFields == Joined(
  [start     |-> <<52, 50, 59>>,
   course    |-> Courses,
   prompt    |-> <<"plain", "instruction">>,
   ledger    |-> <<"settled", "declined", "none">>,
   forged    |-> <<"none", "intent", "cart", "payment">>,
   relinked  |-> <<"none", "intent", "cart">>],
  Joined(MandateFields, Joined(CartFields, Joined(PaymentFields,
         Joined(CeremonyFields, ContextFields)))))

\* The dials of the rules, the tightest of each.
Dials ==
  [minTrust |-> 1, reaccreditation |-> 30, depth |-> 2, vocabulary |-> {"pay"},
   newCapabilities |-> 0, grace |-> 0, validity |-> 5, revocationAge |-> 10,
   algs |-> {"ed25519"}, submittedAt |-> 55, methods |-> {"passkey"},
   barringFlags |-> {"sanctioned"}, newShare |-> 50, requiredRisks |-> {"per_transaction_cap"},
   minEvaluations |-> 3, maxOverrideRate |-> 50, maxGap |-> 15,
   baselineDays |-> 30, maxBaselineZ |-> 2, minTransactions |-> 5,
   minShare |-> 15, minOperators |-> 2, recentDays |-> 20, maxShare |-> 60]

\* The policy, for cases of two runs; weights are in ten-thousandths.
Policy ==
  [hardGates |-> {"CTLDIS04", "INJACT01", "KYAACC03", "MNDUSE01"}, minTargetRuns |-> 2,
   maxAge |-> 90, minCoverage |-> 90, certain |-> 100, probable |-> 70, sameEvent |-> 25,
   refusalWeight |-> 3500, monitorWeight |-> 100]

\* The rulebooks weigh from 0.2 to 1.
Severity(rule) ==
  CASE rule \in {"KYAISS03", "KYAISS04", "KYAOPF04", "KYAREG02", "KYALIF03"} -> 20
    [] rule \in {"KYAISS01", "KYAIDN01", "CNSRND01", "CPTLST01", "CTLDIS04"} -> 100
    [] OTHER -> 60

\* The failures a rule establishes; one that is of one rule bears its name.
FailuresOf(rule) ==
  CASE rule \in {"CNSRND01", "CNSRND02"} -> {"F29"}
    [] rule \in {"CPTREG01", "CPTCOP01"} -> {"F51"}
    [] rule \in {"CTLEFF02", "CTLEFF04"} -> {"F72"}
    [] rule \in {"KYAISS03", "KYAISS05"} -> {"F3"}
    [] rule \in {"KYATEC03", "KYATEC07"} -> {"F19"}
    [] rule \in {"KYALIF02", "KYALIF03"} -> {"F5"}
    [] rule \in {"MNDCUR01", "MNDCUR02"} -> {"F46"}
    [] rule = "INJACT01" -> {"F32", "F35"}
    [] rule \in {"CPTIDN01", "INJLST01", "INJPRM01", "INJRET01", "INJTLS01", "MNDSIG01",
                 "PRVREC01"} -> {}
    [] OTHER -> {rule}

\* Failures that are not of single runs, though runs show them.
OncePerDossier ==
  {"F3", "F5", "F19", "F35", "KYAACC02", "KYAREG01", "KYAREG04", "KYATEC01", "CPTNEW01",
   "MNDUSE01", "MNDCAP05", "CNSVFM01"}

\* What a firm may leave out of its submission, by the whole field.  Not listed
\* are an allowlist, tool calls, earlier credentials and rows of the history:
\* for the rules about these, what is not there was never there.
\* Nor are parts of a field that is there: the line items of what was shown,
\* one of the caps shown and what one of several calls returned can be left out
\* without a gap, and a breach that they show goes with them.
Withheld(of, key, alt) == [of |-> of, key |-> key, alt |-> alt, from |-> 1 .. 14]
WithheldOf(of, key, alt, from) == [of |-> of, key |-> key, alt |-> alt, from |-> from]

Withholdable ==
  {Withheld(0, "chain", 2), WithheldOf(0, "chain", 3, {1, 4, 5}),
   WithheldOf(0, "credential", 2, {1, 3}), Withheld(0, "checkedAt", 3),
   Withheld(0, "controls", 2), Withheld(0, "card", 2), WithheldOf(0, "card", 3, {1}),
   Withheld(0, "indexed", 2), WithheldOf(2, "course", 8, {1, 9, 10, 11, 12, 13, 14}),
   Withheld(2, "model", 3), Withheld(2, "region", 3), Withheld(2, "usage", 3),
   Withheld(2, "ledger", 3), Withheld(2, "ceremony", 2), Withheld(2, "confirmedBy", 3),
   Withheld(2, "method", 3), Withheld(2, "shown", 5), Withheld(2, "capsShown", 3),
   Withheld(2, "consented", 3), Withheld(2, "consentAt", 4), Withheld(2, "alternatives", 2),
   Withheld(2, "payee", 2), Withheld(2, "settles", 3), WithheldOf(2, "calls", 6, {1, 7})}
----------------------------------------------------------------------------
\* A deviation: of 0 the submission or a register, of 2 the second run.
Deviation(of, key, alt) == [of |-> of, key |-> key, alt |-> alt]

Clean(fields) == [k \in DOMAIN fields |-> fields[k][1]]

Deviated(fields, devs) ==
  [k \in DOMAIN fields |->
     IF \E d \in devs : d.key = k THEN fields[k][(CHOOSE d \in devs : d.key = k).alt]
     ELSE fields[k][1]]

Of(devs, of) == {d \in devs : d.of = of}

AllSubFields == Joined(KyaFields, SubFields)

Submission(devs) == Deviated(AllSubFields, Of(devs, 0))

\* A run's joint fields are laid out beside the others.
Flat(i, r) ==
  [k \in DOMAIN r \cup {"id", "outcome", "evals", "payeeName", "payeeAccount"} |->
     CASE k = "id" -> i
       [] k \in {"outcome", "evals"} -> r.course[k]
       [] k \in {"payeeName", "payeeAccount"} -> r.settles[k]
       [] OTHER -> r[k]]

First == [Clean(RunFields) EXCEPT !.start = 50, !.authorised = 51, !.consentAt = 49,
                                  !.merchant = "shop", !.merchantName = "Shop",
                                  !.settles = Settles("Shop", "a1")]

Filed(devs) == <<Flat(1, First), Flat(2, Deviated(RunFields, Of(devs, 2)))>>

\* The transaction history: what went before, and what was paid.
Ledger(s, runs) ==
  LET rows(i) == IF runs[i].outcome = "completed" /\ runs[i].ledger # "none"
                 THEN <<Row(i, runs[i].merchant, runs[i].ledger = "settled",
                            runs[i].amount, runs[i].start)>>
                 ELSE <<>>
  IN  s.history2 \o FlattenSeq([i \in DOMAIN runs |-> rows(i)])
=============================================================================
