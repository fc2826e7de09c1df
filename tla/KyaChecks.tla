------------------------------ MODULE KyaChecks -----------------------------
(***************************************************************************)
(* The computable rules on identity and authority (agents/kya_checks.py,   *)
(* and the credential half of ingestion/verify.py).  s is a submission     *)
(* together with the regulator's registers; it holds what the rules tell   *)
(* apart, and nothing else.  Run-level rules take a run too.               *)
(***************************************************************************)
EXTENDS Facts

\* A level of a delegation chain: who, whether a human, the capabilities and
\* the cap granted (0: none), and whether the entry's signature verifies.
Level(holder, human, grants, cap) ==
  [holder |-> holder, human |-> human, grants |-> grants, cap |-> cap,
   signed |-> TRUE]

\* A credential of the series: dates, capabilities, and what its signature says.
Credential(issued, expires, caps) ==
  [issued |-> issued, expires |-> expires, caps |-> caps,
   alg |-> "ed25519", sigOk |-> TRUE, hashOk |-> TRUE]

----------------------------------------------------------------------------
\* build_policy_context: the series is every credential, oldest first.
Series(s) == s.history \o <<s.credential>>

\* PolicyContext.operator: the register finds the operator through the agent.
Operator(s) == s.agentListed /\ s.operatorListed

Gap(present, outcome) == IF present THEN outcome ELSE "no_registry_record"

\* The issuer.
Iss03(s, p) == Gap(s.issuerListed, Verdict(s.trust < p.minTrust))

Iss04(s, p) == Gap(s.issuerListed,
                   Verdict(p.submittedAt - s.accredited > p.reaccreditation))

Iss05(s) == Gap(s.agentListed /\ s.issuerListed /\ s.classes # "unstated",
                Verdict(s.classes # "covering"))

\* Accountability.
Terminus(s) == s.chain[Len(s.chain)]

Acc01(s) == Verdict(s.chain = <<>> \/ ~Terminus(s).human)

Acc02(s, run) == IF s.chain = <<>> \/ run.consumer THEN "out_of_scope"
                 ELSE Verdict(Terminus(s).holder # run.principal)

Acc04(s) == Verdict(\E i, j \in DOMAIN s.chain :
                      i # j /\ s.chain[i].holder = s.chain[j].holder)

Acc05(s, p) == Verdict(Len(s.chain) > p.depth)

\* A child grants more than its parent holds; a level without grants is
\* skipped by the comparison, for the cap too.
Exceeds(child, parent) ==
  /\ child.grants # {} /\ parent.grants # {}
  /\ \/ ~(child.grants \subseteq parent.grants)
     \/ child.cap # 0 /\ parent.cap # 0 /\ child.cap > parent.cap


Acc06(s) ==
  IF Len(s.chain) < 2 THEN "out_of_scope"
  ELSE IF \E i \in 1 .. Len(s.chain) - 1 : Exceeds(s.chain[i], s.chain[i + 1])
  THEN "breach"
  ELSE IF \E i \in DOMAIN s.chain : s.chain[i].grants = {} THEN "missing_block"
  ELSE "satisfied"

Acc07(s) == IF s.chain = <<>> THEN "out_of_scope"
            ELSE Gap(Operator(s) /\ s.signatories # {},
                     Verdict(Terminus(s).holder \notin s.signatories))

\* The operator.  A standing that is not stated does not bar.
Opf01(s) == Gap(Operator(s), Verdict(s.licence # "current" /\ s.sponsor # "active"))
Opf02(s) == Gap(Operator(s), Verdict(s.standing = "suspended"))
Opf03(s) == Gap(Operator(s), Verdict(\E d \in s.changedHands : d > s.credential.issued))
Opf04(s) == Gap(Operator(s), Verdict(~s.contact))

\* The agent's registration.  One that was never registered is a breach.
Reg01(s, run) == IF ~s.agentListed THEN "breach"
                 ELSE Gap(s.registeredAt # NoDay, Verdict(s.registeredAt > run.start))
Reg02(s) == Gap(s.agentListed, Verdict(~s.risk))
Reg04(s, run) == Gap(s.agentListed /\ s.authExpires # NoDay,
                     Verdict(s.authExpires < run.start))
Reg05(s, run) == Gap(s.agentListed /\ s.regPurpose # "unstated",
                     Verdict(s.regPurpose # run.purpose))

\* The model it declares.
Tec01(run) == Verdict(run.model = "")
Tec03(s, run) == Verdict(run.model \in s.blocked)
Tec04(s, run) == Gap(s.agentListed, Verdict(run.model \notin s.validated))

\* Capabilities.
Cap01(s) == Verdict(s.credential.caps = {})
Cap02(s, p) == Verdict(~(s.credential.caps \subseteq p.vocabulary))
Cap05(s, p) ==
  LET c == Series(s) IN
  IF Len(c) < 2 THEN "out_of_scope"
  ELSE Verdict(\E i \in 1 .. Len(c) - 1 :
                 Cardinality(c[i + 1].caps \ c[i].caps) > p.newCapabilities)

\* The credential's life.
Lif01(s, p, run) == Verdict(run.start > s.credential.expires + p.grace)
Lif02(s) == Verdict(~(s.credential.issued < s.credential.expires))
Lif03(s, p) == Verdict(s.credential.expires - s.credential.issued < p.validity)

\* Credentials next to each other in the series are compared.
OverlapNext(c) == \E i \in 1 .. Len(c) - 1 : c[i + 1].issued < c[i].expires

Lif04(s) == IF Len(Series(s)) < 2 THEN "out_of_scope"
            ELSE Verdict(OverlapNext(Series(s)))

Lif05(s, p) == IF s.checkedAt = NoDay THEN "missing_block"
               ELSE Verdict(p.submittedAt - s.checkedAt > p.revocationAge)
----------------------------------------------------------------------------
\* credential_facts of ingestion/verify.py: over the whole series, what the
\* recomputed hashes and the keystore say.
Idn01(s) == Verdict(\E i \in DOMAIN Series(s) : ~Series(s)[i].sigOk)
Idn02(s, p) == Verdict(\E i \in DOMAIN Series(s) : Series(s)[i].alg \notin p.algs)
Idn03(s) == Verdict(\E i \in DOMAIN Series(s) : ~Series(s)[i].hashOk)
Acc03(s) == Verdict(\E i \in DOMAIN s.chain : ~s.chain[i].signed)
Iss01(s) == Verdict(~s.issuerListed)
Iss02(s) == Gap(s.issuerListed,
                Verdict(s.revokedAt # NoDay /\ s.credential.issued >= s.revokedAt))

KyaPerDossier(s, p) ==
  [KYAISS01 |-> Iss01(s), KYAISS02 |-> Iss02(s), KYAISS03 |-> Iss03(s, p),
   KYAISS04 |-> Iss04(s, p), KYAISS05 |-> Iss05(s),
   KYAIDN01 |-> Idn01(s), KYAIDN02 |-> Idn02(s, p), KYAIDN03 |-> Idn03(s),
   KYAACC01 |-> Acc01(s), KYAACC03 |-> Acc03(s), KYAACC04 |-> Acc04(s), KYAACC05 |-> Acc05(s, p),
   KYAACC06 |-> Acc06(s), KYAACC07 |-> Acc07(s),
   KYAOPF01 |-> Opf01(s), KYAOPF02 |-> Opf02(s), KYAOPF03 |-> Opf03(s), KYAOPF04 |-> Opf04(s),
   KYAREG02 |-> Reg02(s), KYACAP01 |-> Cap01(s), KYACAP02 |-> Cap02(s, p), KYACAP05 |-> Cap05(s, p),
   KYALIF02 |-> Lif02(s), KYALIF03 |-> Lif03(s, p), KYALIF04 |-> Lif04(s), KYALIF05 |-> Lif05(s, p)]

KyaPerRun(s, p, runs) ==
  [KYAACC02 |-> [i \in DOMAIN runs |-> Acc02(s, runs[i])],
   KYAREG01 |-> [i \in DOMAIN runs |-> Reg01(s, runs[i])],
   KYAREG04 |-> [i \in DOMAIN runs |-> Reg04(s, runs[i])],
   KYAREG05 |-> [i \in DOMAIN runs |-> Reg05(s, runs[i])],
   KYATEC01 |-> [i \in DOMAIN runs |-> Tec01(runs[i])],
   KYATEC03 |-> [i \in DOMAIN runs |-> Tec03(s, runs[i])],
   KYATEC04 |-> [i \in DOMAIN runs |-> Tec04(s, runs[i])],
   KYALIF01 |-> [i \in DOMAIN runs |-> Lif01(s, p, runs[i])]]
=============================================================================
