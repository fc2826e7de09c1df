-------------------------- MODULE FloorFactsProofs -------------------------
(***************************************************************************)
(* What one pass of a specialist establishes, whatever the dossier, the    *)
(* registers and the rulebook: that every result is of a kind the contract *)
(* knows and of a unit the pass looked at, that a rule is about the whole  *)
(* dossier or about every run looked at, that no floor decides a judged    *)
(* rule, and that what is said of a run does not depend on the others      *)
(* (agents/facts.py, agents/*_checks.py).                                  *)
(***************************************************************************)
EXTENDS FloorReview, TLAPS

\* A check of single runs that has a result for each of them.
Covers(results, units) == DOMAIN results = units /\ \A i \in units : results[i] \in Outcome

\* The rules that are about single runs.
OfRun ==
  {"KYAACC02", "KYAREG01", "KYAREG04", "KYAREG05", "KYATEC01", "KYATEC03", "KYATEC04",
   "KYALIF01", "CPTREG01", "CPTSUB01", "CPTCOP01", "CPTCTY01", "CPTLST01", "CPTNEW01",
   "KYATEC02", "KYATEC05", "KYATEC06", "KYATEC07", "CTLDIS01", "CTLDIS02", "CTLDIS03",
   "CTLDIS04", "CTLEFF01", "CTLEFF02", "CTLEFF04"}
  \cup RulesOf.mandate \cup RulesOf.consent \cup RulesOf.injection

\* What settles a rule; a measurement does not, nor does a gap.
Settled == {"breach", "satisfied", "out_of_scope"}

\* Checkers of the dossier, and checkers of runs, that do what is asked of
\* them.  The month's new payees have a rule that is about some runs.
DossierSound(d) ==
  /\ DOMAIN d \cap OfRun = {}
  /\ \A r \in DOMAIN d : d[r] \in Outcome /\ (r \in JudgedRules => d[r] \notin Settled)

\* Checkers of runs come to a result for each run looked at, and decide no
\* rule that a model judges; the month's new payees have a rule that is about
\* some runs.
RunSound(d, units) ==
  /\ DOMAIN d \subseteq OfRun
  /\ \A r \in DOMAIN d \ {"CPTNEW01"} :
       /\ DOMAIN d[r] \subseteq units
       /\ r \notin JudgedRules => DOMAIN d[r] = units
       /\ \A i \in DOMAIN d[r] : /\ d[r][i] \in Outcome
                                 /\ r \in JudgedRules => d[r][i] \notin Settled
----------------------------------------------------------------------------
\* Every check of identity and authority comes to one of the outcomes.
LEMMA KyaResults ==
  ASSUME NEW s, NEW p, NEW v
  PROVE  /\ \A r \in DOMAIN K!KyaPerDossier(s, p) :
              K!KyaPerDossier(s, p)[r] \in Outcome
         /\ \A r \in DOMAIN K!KyaPerRun(s, p, v) :
              Covers(K!KyaPerRun(s, p, v)[r], DOMAIN v)
<1>1. {K!Iss01(s), K!Iss02(s), K!Iss03(s, p), K!Iss04(s, p), K!Iss05(s), K!Idn01(s),
       K!Idn02(s, p), K!Idn03(s)} \subseteq Outcome
  BY DEF Outcome, AbsentReason, K!Verdict, K!Gap, K!Iss01, K!Iss02, K!Iss03, K!Iss04, K!Iss05,
         K!Idn01, K!Idn02, K!Idn03
<1>2. {K!Acc01(s), K!Acc03(s), K!Acc04(s), K!Acc05(s, p), K!Acc06(s), K!Acc07(s), K!Opf01(s),
       K!Opf02(s)} \subseteq Outcome
  BY DEF Outcome, AbsentReason, K!Verdict, K!Gap, K!Acc01, K!Acc03, K!Acc04, K!Acc05, K!Acc06,
         K!Acc07, K!Opf01, K!Opf02
<1>3. {K!Opf03(s), K!Opf04(s), K!Reg02(s), K!Cap01(s), K!Cap02(s, p), K!Cap05(s, p),
       K!Lif02(s), K!Lif03(s, p)} \subseteq Outcome
  BY DEF Outcome, AbsentReason, K!Verdict, K!Gap, K!Opf03, K!Opf04, K!Reg02, K!Cap01, K!Cap02,
         K!Cap05, K!Lif02, K!Lif03
<1>4. {K!Lif04(s), K!Lif05(s, p)} \subseteq Outcome
  BY DEF Outcome, AbsentReason, K!Verdict, K!Gap, K!Lif04, K!Lif05
<1>5. \A i \in DOMAIN v : {K!Acc02(s, v[i]), K!Reg01(s, v[i]), K!Reg04(s, v[i]),
                           K!Reg05(s, v[i]), K!Tec01(v[i]), K!Tec03(s, v[i]),
                           K!Tec04(s, v[i]), K!Lif01(s, p, v[i])} \subseteq Outcome
  BY DEF Outcome, AbsentReason, K!Verdict, K!Gap, K!Acc02, K!Reg01, K!Reg04, K!Reg05, K!Tec01,
         K!Tec03, K!Tec04, K!Lif01
<1>6. \A r \in DOMAIN K!KyaPerDossier(s, p) :
        K!KyaPerDossier(s, p)[r] \in Outcome
  BY <1>1, <1>2, <1>3, <1>4 DEF K!KyaPerDossier
<1>7. \A r \in DOMAIN K!KyaPerRun(s, p, v) :
        Covers(K!KyaPerRun(s, p, v)[r], DOMAIN v)
  BY <1>5 DEF K!KyaPerRun, Covers
<1>. QED
  BY <1>6, <1>7

\* So does every computable check of a mandate, the draws on it whatever they are.
LEMMA MandateResults ==
  ASSUME NEW v, NEW related
  PROVE  \A r \in DOMAIN Mnd!MandatePerRun(v, related) \ {"MNDSEM01"} :
           Covers(Mnd!MandatePerRun(v, related)[r], DOMAIN v)
<1>1. \A i \in DOMAIN v : {Mnd!Cap01(v[i]), Mnd!Cap02(v[i]), Mnd!Cap03(v[i]), Mnd!Cap04(v[i]),
                           Mnd!Con01(v[i]), Mnd!Cur01(v[i]), Mnd!Cur02(v[i]),
                           Mnd!Val01(v[i])} \subseteq Outcome
  BY DEF Outcome, AbsentReason, Mnd!Verdict, Mnd!WithCart, Mnd!WithPayment, Mnd!WithBoth,
         Mnd!Cap01, Mnd!Cap02, Mnd!Cap03, Mnd!Cap04, Mnd!Con01, Mnd!Cur01, Mnd!Cur02,
         Mnd!Val01
<1>2. \A i \in DOMAIN v : {Mnd!Sig01(v[i]), Mnd!ChnCart(v[i]),
                           Mnd!ChnPayment(v[i])} \subseteq Outcome
  BY DEF Outcome, AbsentReason, Mnd!Verdict, Mnd!WithCart, Mnd!WithPayment, Mnd!WithBoth,
         Mnd!Sig01, Mnd!ChnCart, Mnd!ChnPayment
<1>3. \A u : \A i \in DOMAIN v :
        Mnd!Cap05(u, related, v[i]) \in Outcome /\ Mnd!Use01(u, related, v[i]) \in Outcome
  BY DEF Outcome, AbsentReason, Mnd!Verdict, Mnd!WithPayment, Mnd!Cap05, Mnd!Use01
<1>4. ASSUME NEW r \in DOMAIN Mnd!MandatePerRun(v, related) \ {"MNDSEM01"}
      PROVE  Covers(Mnd!MandatePerRun(v, related)[r], DOMAIN v)
  <2>1. DOMAIN Mnd!MandatePerRun(v, related)[r] = DOMAIN v
    BY DEF Mnd!MandatePerRun
  <2>2. ASSUME NEW i \in DOMAIN v
        PROVE  Mnd!MandatePerRun(v, related)[r][i] \in Outcome
    <3>1. CASE r \notin {"MNDCAP05", "MNDUSE01"}
      BY <1>1, <1>2, <3>1 DEF Mnd!MandatePerRun
    <3>2. CASE r = "MNDCAP05"
      <4>1. Mnd!MandatePerRun(v, related)[r][i]
              = Mnd!Cap05({v[j] : j \in DOMAIN v}, related, v[i])
        BY <3>2 DEF Mnd!MandatePerRun
      <4>. QED
        BY <1>3, <4>1
    <3>3. CASE r = "MNDUSE01"
      <4>1. Mnd!MandatePerRun(v, related)[r][i]
              = Mnd!Use01({v[j] : j \in DOMAIN v}, related, v[i])
        BY <3>3 DEF Mnd!MandatePerRun
      <4>. QED
        BY <1>3, <4>1
    <3>. QED
      BY <3>1, <3>2, <3>3
  <2>. QED
    BY <2>1, <2>2 DEF Covers
<1>. QED
  BY <1>4

\* Of consent.
LEMMA ConsentResults ==
  ASSUME NEW v, NEW p
  PROVE  \A r \in DOMAIN Cns!ConsentPerRun(v, p) \ {"CNSVFM01"} :
           Covers(Cns!ConsentPerRun(v, p)[r], DOMAIN v)
<1>1. \A i \in DOMAIN v : {Cns!Prs01(v[i]), Cns!Rec01(v[i]), Cns!Prn01(v[i]),
                           Cns!Mth01(v[i], p), Cns!Rnd01(v[i]), Cns!Rnd02(v[i]),
                           Cns!Scp01(v[i]), Cns!Frs01(v[i])} \subseteq Outcome
  BY DEF Outcome, AbsentReason, Cns!Verdict, Cns!WithCart, Cns!AtCeremony, Cns!Completed,
         Cns!Stated, Cns!Prs01, Cns!Rec01, Cns!Prn01, Cns!Mth01, Cns!Rnd01, Cns!Rnd02,
         Cns!Scp01, Cns!Frs01
<1>2. \A i \in DOMAIN v : {Cns!Std01(v[i])} \subseteq Outcome
  BY DEF Outcome, AbsentReason, Cns!Verdict, Cns!WithCart, Cns!AtCeremony, Cns!Completed,
         Cns!Stated, Cns!Std01
<1>3. \A r \in DOMAIN Cns!ConsentPerRun(v, p) \ {"CNSVFM01"} :
        Covers(Cns!ConsentPerRun(v, p)[r], DOMAIN v)
  BY <1>1, <1>2 DEF Cns!ConsentPerRun, Covers
<1>. QED
  BY <1>3

\* Of the counterparties.
LEMMA CounterpartyResults ==
  ASSUME NEW s, NEW p, NEW v, NEW txns
  PROVE  /\ \A r \in DOMAIN Cpt!CounterpartyPerDossier(s, v, txns) :
              Cpt!CounterpartyPerDossier(s, v, txns)[r] \in Outcome
         /\ \A r \in DOMAIN Cpt!CounterpartyPerRun(s, p, v, txns) \ {"CPTNEW01"} :
              Covers(Cpt!CounterpartyPerRun(s, p, v, txns)[r], DOMAIN v)
<1>1. {Cpt!Ben01(s, v), Cpt!Spl01(s, v), Cpt!Dcl01(txns), Cpt!Idn01} \subseteq Outcome
  BY DEF Outcome, AbsentReason, Cpt!Verdict, Cpt!WithCart, Cpt!WithPayment, Cpt!OnRegister,
         Cpt!Ben01, Cpt!Spl01, Cpt!Dcl01, Cpt!Idn01
<1>2. \A i \in DOMAIN v : {Cpt!Reg01(s, v[i]), Cpt!Sub01(s, v[i]), Cpt!Cop01(s, v[i]),
                           Cpt!Cty01(v[i]), Cpt!Lst01(s, p, v[i])} \subseteq Outcome
  BY DEF Outcome, AbsentReason, Cpt!Verdict, Cpt!WithCart, Cpt!WithPayment, Cpt!OnRegister,
         Cpt!Reg01, Cpt!Sub01, Cpt!Cop01, Cpt!Cty01, Cpt!Lst01
<1>3. \A r \in DOMAIN Cpt!CounterpartyPerDossier(s, v, txns) :
        Cpt!CounterpartyPerDossier(s, v, txns)[r] \in Outcome
  BY <1>1 DEF Cpt!CounterpartyPerDossier
<1>4. \A r \in DOMAIN Cpt!CounterpartyPerRun(s, p, v, txns) \ {"CPTNEW01"} :
        Covers(Cpt!CounterpartyPerRun(s, p, v, txns)[r], DOMAIN v)
  BY <1>2 DEF Cpt!CounterpartyPerRun, Covers
<1>. QED
  BY <1>3, <1>4

\* Of provenance.
LEMMA ProvenanceResults ==
  ASSUME NEW s, NEW v
  PROVE  /\ \A r \in DOMAIN Prv!ProvenancePerDossier(s) :
              Prv!ProvenancePerDossier(s)[r] \in Outcome
         /\ \A r \in DOMAIN Prv!ProvenancePerRun(s, v) :
              Covers(Prv!ProvenancePerRun(s, v)[r], DOMAIN v)
<1>1. {Prv!Crd01(s), Prv!Rec01} \subseteq Outcome
  BY DEF Outcome, AbsentReason, Prv!Verdict, Prv!Crd01, Prv!Rec01
<1>2. \A i \in DOMAIN v : {Prv!Tec02(v[i]), Prv!Tec05(s, v[i]), Prv!Tec06(s, v[i]),
                           Prv!Tec07(s, v[i])} \subseteq Outcome
  BY DEF Outcome, AbsentReason, Prv!Verdict, Prv!Tec02, Prv!Tec05, Prv!Tec06, Prv!Tec07
<1>3. \A r \in DOMAIN Prv!ProvenancePerDossier(s) :
        Prv!ProvenancePerDossier(s)[r] \in Outcome
  BY <1>1 DEF Prv!ProvenancePerDossier
<1>4. \A r \in DOMAIN Prv!ProvenancePerRun(s, v) :
        Covers(Prv!ProvenancePerRun(s, v)[r], DOMAIN v)
  BY <1>2 DEF Prv!ProvenancePerRun, Covers
<1>. QED
  BY <1>3, <1>4

\* Of what reached the agent.
LEMMA InjectionResults ==
  ASSUME NEW s, NEW v
  PROVE  \A r \in DOMAIN Inj!InjectionPerRun(s, v) :
           Covers(Inj!InjectionPerRun(s, v)[r], DOMAIN v)
<1>1. \A i \in DOMAIN v : {Inj!Lst01(v[i]), Inj!Prm01(v[i]), Inj!Ret01(v[i]),
                           Inj!Tls01(s, v[i]), Inj!Act01} \subseteq Outcome
  BY DEF Outcome, AbsentReason, Inj!Verdict, Inj!WithCart, Inj!Lst01, Inj!Prm01, Inj!Ret01,
         Inj!Tls01, Inj!Act01
<1>2. \A r \in DOMAIN Inj!InjectionPerRun(s, v) :
        Covers(Inj!InjectionPerRun(s, v)[r], DOMAIN v)
  BY <1>1 DEF Inj!InjectionPerRun, Covers
<1>. QED
  BY <1>2

\* And of the firm's own controls.
LEMMA ControlResults ==
  ASSUME NEW s, NEW p, NEW v, NEW txns, NEW found
  PROVE  /\ \A r \in DOMAIN Ctl!ControlPerDossier(s, p, v, txns) :
              Ctl!ControlPerDossier(s, p, v, txns)[r] \in Outcome
         /\ \A r \in DOMAIN Ctl!ControlPerRun(s, v, found) :
              Covers(Ctl!ControlPerRun(s, v, found)[r], DOMAIN v)
<1>1. {Ctl!Rep01(s), Ctl!Rep02(s, p), Ctl!Rep03(s), Ctl!Rep04(s), Ctl!Eff03(v, p),
       Ctl!Log01(s, p, v), Ctl!Log02(s), Ctl!Log03(v, txns)} \subseteq Outcome
  BY DEF Outcome, AbsentReason, Ctl!Verdict, Ctl!Evaluated, Ctl!Rep01, Ctl!Rep02, Ctl!Rep03,
         Ctl!Rep04, Ctl!Eff03, Ctl!Log01, Ctl!Log02, Ctl!Log03
<1>2. \A i \in DOMAIN v : {Ctl!Dis01(v[i]), Ctl!Dis02(v[i]), Ctl!Dis03(v[i]),
                           Ctl!Dis04(s, v[i]), Ctl!Eff01(s, v[i], found[i]), Ctl!Eff02(v[i]),
                           Ctl!Eff04(s, v[i])} \subseteq Outcome
  BY DEF Outcome, AbsentReason, Ctl!Verdict, Ctl!Evaluated, Ctl!Dis01, Ctl!Dis02, Ctl!Dis03,
         Ctl!Dis04, Ctl!Eff01, Ctl!Eff02, Ctl!Eff04
<1>3. \A r \in DOMAIN Ctl!ControlPerDossier(s, p, v, txns) :
        Ctl!ControlPerDossier(s, p, v, txns)[r] \in Outcome
  BY <1>1 DEF Ctl!ControlPerDossier
<1>4. \A r \in DOMAIN Ctl!ControlPerRun(s, v, found) :
        Covers(Ctl!ControlPerRun(s, v, found)[r], DOMAIN v)
  BY <1>2 DEF Ctl!ControlPerRun, Covers
<1>. QED
  BY <1>3, <1>4

----------------------------------------------------------------------------
\* The checkers of identity and authority: what is asked of them
\* (kya_checks.py).
LEMMA KyaSound ==
  ASSUME NEW s, NEW p, NEW v
  PROVE  DossierSound(K!KyaPerDossier(s, p)) /\ RunSound(K!KyaPerRun(s, p, v), DOMAIN v)
<1>1. DOMAIN K!KyaPerDossier(s, p) \cap OfRun = {}
  BY DEF K!KyaPerDossier, OfRun, RulesOf
<1>2. DOMAIN K!KyaPerDossier(s, p) \cap JudgedRules = {}
  BY DEF K!KyaPerDossier, JudgedRules, Bas!LogRules, Bas!LogCore
<1>3. DOMAIN K!KyaPerRun(s, p, v) \subseteq OfRun \ JudgedRules
  BY DEF K!KyaPerRun, OfRun, JudgedRules, Bas!LogRules, Bas!LogCore
<1>. QED
  BY <1>1, <1>2, <1>3, KyaResults DEF Covers, DossierSound, RunSound

\* The checkers of the mandate: the same of them (mandate_checks.py).
LEMMA MandateSound ==
  ASSUME NEW v, NEW related
  PROVE  RunSound(Mnd!MandatePerRun(v, related), DOMAIN v)
<1>1. DOMAIN Mnd!MandatePerRun(v, related) \subseteq OfRun
  BY DEF Mnd!MandatePerRun, OfRun, RulesOf
<1>2. DOMAIN Mnd!MandatePerRun(v, related) \cap JudgedRules \subseteq {"MNDSEM01"}
  BY DEF Mnd!MandatePerRun, JudgedRules, Bas!LogRules, Bas!LogCore
<1>3. /\ DOMAIN Mnd!MandatePerRun(v, related)["MNDSEM01"] \subseteq DOMAIN v
      /\ \A i \in DOMAIN Mnd!MandatePerRun(v, related)["MNDSEM01"] :
           Mnd!MandatePerRun(v, related)["MNDSEM01"][i] \in Outcome \ Settled
  BY DEF Mnd!MandatePerRun, Mnd!SemRuns, Outcome, Settled
<1>4. "MNDSEM01" \in JudgedRules
  BY DEF JudgedRules
<1>. QED
  BY <1>1, <1>2, <1>3, <1>4, MandateResults DEF RunSound, Covers

\* The checkers of consent: the same of them (consent_checks.py).
LEMMA ConsentSound ==
  ASSUME NEW v, NEW p
  PROVE  RunSound(Cns!ConsentPerRun(v, p), DOMAIN v)
<1>1. DOMAIN Cns!ConsentPerRun(v, p) \subseteq OfRun
  BY DEF Cns!ConsentPerRun, OfRun, RulesOf
<1>2. DOMAIN Cns!ConsentPerRun(v, p) \cap JudgedRules \subseteq {"CNSVFM01"}
  BY DEF Cns!ConsentPerRun, JudgedRules, Bas!LogRules, Bas!LogCore
<1>3. /\ DOMAIN Cns!ConsentPerRun(v, p)["CNSVFM01"] \subseteq DOMAIN v
      /\ \A i \in DOMAIN Cns!ConsentPerRun(v, p)["CNSVFM01"] :
           Cns!ConsentPerRun(v, p)["CNSVFM01"][i] \in Outcome \ Settled
  BY DEF Cns!ConsentPerRun, Cns!SemRuns, Cns!Vfm01, Outcome, AbsentReason, Settled
<1>4. "CNSVFM01" \in JudgedRules
  BY DEF JudgedRules
<1>. QED
  BY <1>1, <1>2, <1>3, <1>4, ConsentResults DEF Covers, RunSound

\* The checkers of the counterparty: the same of them
\* (counterparty_checks.py).
LEMMA CounterpartySound ==
  ASSUME NEW s, NEW p, NEW v, NEW txns
  PROVE  DossierSound(Cpt!CounterpartyPerDossier(s, v, txns))
           /\ RunSound(Cpt!CounterpartyPerRun(s, p, v, txns), DOMAIN v)
<1>1. DOMAIN Cpt!CounterpartyPerDossier(s, v, txns) \cap OfRun = {}
  BY DEF Cpt!CounterpartyPerDossier, OfRun, RulesOf
<1>2. DOMAIN Cpt!CounterpartyPerDossier(s, v, txns) \cap JudgedRules = {"CPTDCL01", "CPTIDN01"}
  BY DEF Cpt!CounterpartyPerDossier, JudgedRules, Bas!LogRules, Bas!LogCore
<1>3. \A r \in {"CPTDCL01", "CPTIDN01"} : Cpt!CounterpartyPerDossier(s, v, txns)[r] \notin Settled
  BY DEF Cpt!CounterpartyPerDossier, Cpt!Dcl01, Cpt!Idn01, Settled
<1>4. DOMAIN Cpt!CounterpartyPerRun(s, p, v, txns) \subseteq OfRun \ JudgedRules
  BY DEF Cpt!CounterpartyPerRun, OfRun, JudgedRules, Bas!LogRules, Bas!LogCore
<1>. QED
  BY <1>1, <1>2, <1>3, <1>4, CounterpartyResults DEF Covers, DossierSound, RunSound

\* The checkers of provenance: the same of them (provenance_checks.py).
LEMMA ProvenanceSound ==
  ASSUME NEW s, NEW v
  PROVE  DossierSound(Prv!ProvenancePerDossier(s))
           /\ RunSound(Prv!ProvenancePerRun(s, v), DOMAIN v)
<1>1. DOMAIN Prv!ProvenancePerDossier(s) \cap OfRun = {}
  BY DEF Prv!ProvenancePerDossier, OfRun, RulesOf
<1>2. DOMAIN Prv!ProvenancePerDossier(s) \cap JudgedRules = {"PRVREC01"}
  BY DEF Prv!ProvenancePerDossier, JudgedRules, Bas!LogRules, Bas!LogCore
<1>3. Prv!ProvenancePerDossier(s)["PRVREC01"] \notin Settled
  BY DEF Prv!ProvenancePerDossier, Prv!Rec01, Settled
<1>4. DOMAIN Prv!ProvenancePerRun(s, v) \subseteq OfRun \ JudgedRules
  BY DEF Prv!ProvenancePerRun, OfRun, JudgedRules, Bas!LogRules, Bas!LogCore
<1>. QED
  BY <1>1, <1>2, <1>3, <1>4, ProvenanceResults DEF Covers, DossierSound, RunSound

\* The checkers of injected instructions: the same of them
\* (injection_checks.py).
LEMMA InjectionSound ==
  ASSUME NEW s, NEW v
  PROVE  RunSound(Inj!InjectionPerRun(s, v), DOMAIN v)
<1>1. DOMAIN Inj!InjectionPerRun(s, v) \subseteq OfRun
  BY DEF Inj!InjectionPerRun, OfRun, RulesOf
<1>2. DOMAIN Inj!InjectionPerRun(s, v) \cap JudgedRules = {"INJACT01"}
  BY DEF Inj!InjectionPerRun, JudgedRules, Bas!LogRules, Bas!LogCore
<1>3. \A i \in DOMAIN Inj!InjectionPerRun(s, v)["INJACT01"] :
        Inj!InjectionPerRun(s, v)["INJACT01"][i] \notin Settled
  BY DEF Inj!InjectionPerRun, Inj!Act01, Settled
<1>. QED
  BY <1>1, <1>2, <1>3, InjectionResults DEF Covers, RunSound

\* The checkers of the firm's controls: the same of them (control_checks.py).
LEMMA ControlSound ==
  ASSUME NEW s, NEW p, NEW v, NEW txns, NEW found
  PROVE  DossierSound(Ctl!ControlPerDossier(s, p, v, txns))
           /\ RunSound(Ctl!ControlPerRun(s, v, found), DOMAIN v)
<1>1. DOMAIN Ctl!ControlPerDossier(s, p, v, txns) \cap (OfRun \cup JudgedRules) = {}
  BY DEF Ctl!ControlPerDossier, OfRun, RulesOf, JudgedRules, Bas!LogRules, Bas!LogCore
<1>2. DOMAIN Ctl!ControlPerRun(s, v, found) \subseteq OfRun \ JudgedRules
  BY DEF Ctl!ControlPerRun, OfRun, JudgedRules, Bas!LogRules, Bas!LogCore
<1>. QED
  BY <1>1, <1>2, ControlResults DEF Covers, DossierSound, RunSound

\* Whatever specialist it is, its checkers do what is asked of them.
LEMMA CheckersSound ==
  ASSUME NEW agent \in Peer \cup {"control_assurance"},
         NEW s, NEW v, NEW related, NEW txns, NEW found
  PROVE  /\ DossierSound(Checkers(agent, s, v, related, txns, found)[1])
         /\ RunSound(Checkers(agent, s, v, related, txns, found)[2], DOMAIN v)
<1>. DEFINE ck == Checkers(agent, s, v, related, txns, found)
<1>0. DossierSound(<<>>) /\ RunSound(<<>>, DOMAIN v)
  BY DEF DossierSound, RunSound
<1>1. CASE agent = "kya"
  BY <1>1, KyaSound DEF Checkers
<1>2. CASE agent = "mandate"
  BY <1>0, <1>2, MandateSound DEF Checkers
<1>3. CASE agent = "consent"
  BY <1>0, <1>3, ConsentSound DEF Checkers
<1>4. CASE agent = "counterparty"
  BY <1>4, CounterpartySound DEF Checkers
<1>5. CASE agent = "provenance"
  BY <1>5, ProvenanceSound DEF Checkers
<1>6. CASE agent = "injection"
  BY <1>0, <1>6, InjectionSound DEF Checkers
<1>7. CASE agent = "control_assurance"
  BY <1>7, ControlSound DEF Checkers
<1>8. CASE agent \in {"log", "drift", "systemic"}
  BY <1>0, <1>8 DEF Checkers
<1>. QED
  BY <1>1, <1>2, <1>3, <1>4, <1>5, <1>6, <1>7, <1>8 DEF Peer

\* The case under review has two runs, each of which began at some time.
TwoRuns == DOMAIN runs = {1, 2} /\ \A i \in {1, 2} : runs[i].start \in Int

\* What a pass may be focused on: nothing, or one of the runs.
Scopes == {{}, {1}, {2}}

\* A pass looks at every run, or at the one it is focused on.
LEMMA SeenRuns ==
  ASSUME TwoRuns, NEW scope \in Scopes
  PROVE  /\ Seen(scope) \in {{1, 2}, {1}, {2}}
         /\ scope # {} => Seen(scope) = scope
         /\ DOMAIN View(scope) = Seen(scope)
         /\ \A i \in Seen(scope) : View(scope)[i] = runs[i]
BY DEF TwoRuns, Scopes, Seen, RunIds, View, Within

\* The run that last paid a payee is one of those looked at, if there is one.
LEMMA LastPaidIsSeen ==
  ASSUME NEW v, NEW m, DOMAIN v \in {{1, 2}, {1}, {2}}, \A i \in DOMAIN v : v[i].start \in Int
  PROVE  Cpt!LastPaid(v, m) \in DOMAIN v \cup {0}
<1>. DEFINE paid == Cpt!PaidRuns(v, m)
            latestOf(i) == \A j \in paid : \/ v[j].start < v[i].start
                                           \/ v[j].start = v[i].start /\ j <= i
<1>1. paid \subseteq DOMAIN v
  BY DEF Cpt!PaidRuns
<1>2. CASE paid = {}
  BY <1>2 DEF Cpt!LastPaid
<1>3. CASE paid # {}
  <2>1. \E i \in paid : latestOf(i)
    <3>. HIDE DEF paid
    <3>1. CASE paid = {1, 2}
      <4>1. v[1].start \in Int /\ v[2].start \in Int
        BY <1>1, <3>1
      <4>2. CASE v[1].start > v[2].start
        BY <3>1, <4>1, <4>2
      <4>3. CASE ~(v[1].start > v[2].start)
        BY <3>1, <4>1, <4>3
      <4>. QED
        BY <4>2, <4>3
    <3>2. CASE paid \in {{1}, {2}}
      BY <1>1, <3>2
    <3>. QED
      BY <1>1, <1>3, <3>1, <3>2
  <2>2. Cpt!LastPaid(v, m) = CHOOSE i \in paid : latestOf(i)
    BY <1>3 DEF Cpt!LastPaid
  <2>. HIDE DEF paid, latestOf
  <2>. QED
    BY <1>1, <2>1, <2>2
<1>. QED
  BY <1>2, <1>3

\* The month's new payees have at least one result, and none of a run that is
\* not looked at (counterparty_checks.py).
LEMMA NewPayeesSound ==
  ASSUME NEW s, NEW p, NEW v, NEW txns,
         DOMAIN v \in {{1, 2}, {1}, {2}}, \A i \in DOMAIN v : v[i].start \in Int
  PROVE  LET new == Cpt!CounterpartyPerRun(s, p, v, txns)["CPTNEW01"]
         IN  /\ DOMAIN new # {} /\ DOMAIN new \subseteq DOMAIN v \cup {0}
             /\ \A u \in DOMAIN new : new[u] \in Outcome
<1>. DEFINE new == Cpt!New01(s, p, v, txns)
            some == Cpt!NewPayees(s, p, txns)
<1>1. Cpt!CounterpartyPerRun(s, p, v, txns)["CPTNEW01"] = new
  BY DEF Cpt!CounterpartyPerRun
<1>2. CASE txns = <<>>
  <2>1. new = [u \in {0} |-> "insufficient_history"]
    BY <1>2 DEF Cpt!New01
  <2>. QED
    BY <1>1, <2>1 DEF Outcome, AbsentReason
<1>3. CASE txns # <<>> /\ some = {}
  <2>1. new = [u \in {0} |-> "satisfied"]
    BY <1>3 DEF Cpt!New01
  <2>. QED
    BY <1>1, <2>1 DEF Outcome
<1>4. CASE txns # <<>> /\ some # {}
  <2>1. new = [u \in {Cpt!LastPaid(v, m) : m \in some} |-> "breach"]
    BY <1>4 DEF Cpt!New01
  <2>. HIDE DEF new, some
  <2>2. DOMAIN new \subseteq DOMAIN v \cup {0}
    BY <2>1, LastPaidIsSeen
  <2>. QED
    BY <1>1, <1>4, <2>1, <2>2 DEF Outcome
<1>. QED
  BY <1>2, <1>3, <1>4

\* Facts as they should be: triples of a rule, a unit and an outcome; nothing
\* settles a judged rule; and what settles a rule of runs settles it for
\* every run looked at.
Sound(facts, seen) ==
  \A f \in facts :
    /\ f = <<f[1], f[2], f[3]>>
    /\ f[2] \in seen \cup {0} /\ f[3] \in Outcome
    /\ f[3] \in Settled => f[1] \notin JudgedRules
    /\ f[3] \in Settled /\ f[1] # "CPTNEW01" =>
         IF f[1] \in OfRun
         THEN f[2] \in seen /\ \A i \in seen : \E g \in facts : Id(g) = <<f[1], i>>
         ELSE f[2] = 0

\* What settles a rule settles one of the agent's own that is in force.
Ruled(agent, facts) ==
  \A f \in facts : f[3] \in Settled => f[1] \in RulesOf[agent] \ (retired \cup DraftRules)

\* What an evaluated rule leaves: the notice that it is a draft, its result
\* for the dossier, or one for a run
LEMMA EvaluatedFacts ==
  ASSUME NEW book, NEW d, NEW w, DOMAIN d \cap DOMAIN w = {}, NEW f
  PROVE  f \in Evaluated(book, <<d, w>>) <=>
         \E r \in DOMAIN book :
            \/ book[r] = "draft" /\ f = <<r, 0, "rule_draft">>
            \/ book[r] = "active" /\ r \in DOMAIN d /\ f = <<r, 0, d[r]>>
            \/ /\ book[r] = "active" /\ r \in DOMAIN w
               /\ \E i \in DOMAIN w[r] : f = <<r, i, w[r][i]>>
<1>1. \A r, status : f \in RuleFacts(r, status, {}, d, w) <=>
            \/ status = "draft" /\ f = <<r, 0, "rule_draft">>
            \/ status = "active" /\ r \in DOMAIN d /\ f = <<r, 0, d[r]>>
            \/ /\ status = "active" /\ r \in DOMAIN w
               /\ \E i \in DOMAIN w[r] : f = <<r, i, w[r][i]>>
  <2>. TAKE r, status
  <2>1. CASE status = "active" /\ r \in DOMAIN d
    <3>1. RuleFacts(r, status, {}, d, w) = {<<r, 0, d[r]>>}
      BY <2>1 DEF RuleFacts
    <3>. QED
      BY <2>1, <3>1
  <2>2. CASE status = "active" /\ r \in DOMAIN w
    <3>1. RuleFacts(r, status, {}, d, w) = {<<r, i, w[r][i]>> : i \in DOMAIN w[r]}
      BY <2>2 DEF RuleFacts
    <3>. QED
      BY <2>2, <3>1
  <2>3. CASE status = "draft"
    BY <2>3 DEF RuleFacts
  <2>4. CASE status # "draft" /\ ~(status = "active" /\ r \in DOMAIN d \cup DOMAIN w)
    BY <2>4 DEF RuleFacts
  <2>. QED
    BY <2>1, <2>2, <2>3, <2>4
<1>2. Evaluated(book, <<d, w>>) = UNION {RuleFacts(r, book[r], {}, d, w) : r \in DOMAIN book}
  BY DEF Evaluated, EvaluateRuleset
<1>. QED
  BY <1>1, <1>2

\* Every specialist has checkers of the dossier and checkers of runs.
LEMMA CheckersArePairs ==
  ASSUME NEW agent \in Peer \cup {"control_assurance"}, NEW s, NEW v, NEW related, NEW txns,
         NEW found
  PROVE  Checkers(agent, s, v, related, txns, found)
         = <<Checkers(agent, s, v, related, txns, found)[1],
           Checkers(agent, s, v, related, txns, found)[2]>>
BY DEF Checkers, Peer

\* A rule of an agent's book is active unless it was retired or never issued.
LEMMA BookIs ==
  ASSUME NEW agent \in Peer \cup {"control_assurance"}
  PROVE  /\ DOMAIN Book(agent) = RulesOf[agent]
         /\ \A r \in RulesOf[agent] :
              /\ Book(agent)[r] = "active" <=> r \notin retired \cup DraftRules
              /\ Book(agent)[r] = "draft" <=> r \in DraftRules \ retired
BY DEF Book

\* The specialists whose facts are their checkers' results.
Graded == {"kya", "mandate", "consent", "counterparty", "provenance", "injection",
  "control_assurance"}

\* What comes of evaluating a rulebook with an agent's checkers is as it
\* should be (facts.py, evaluate).
LEMMA EvaluatedIsSound ==
  ASSUME TwoRuns, NEW agent \in Graded, NEW scope \in Scopes, NEW s, NEW related, NEW txns,
         NEW found
  PROVE  LET facts == Evaluated(Book(agent),
               Checkers(agent, s, View(scope), related, txns, found))
         IN  Sound(facts, Seen(scope)) /\ Ruled(agent, facts)
<1>. DEFINE ck == Checkers(agent, s, View(scope), related, txns, found)
            d == ck[1]
            w == ck[2]
            seen == Seen(scope)
            facts == Evaluated(Book(agent), ck)
<1>0. agent \in Peer \cup {"control_assurance"}
  BY DEF Graded, Peer
<1>1. ck = <<d, w>>
  BY <1>0, CheckersArePairs
<1>2. DossierSound(d) /\ RunSound(w, seen)
  BY <1>0, CheckersSound, SeenRuns
<1>3. "CPTNEW01" \in DOMAIN w => /\ DOMAIN w["CPTNEW01"] \subseteq seen \cup {0}
                                 /\ \A u \in DOMAIN w["CPTNEW01"] : w["CPTNEW01"][u] \in Outcome
  <2>1. CASE agent = "counterparty"
    <3>1. w = Cpt!CounterpartyPerRun(s, Dials, View(scope), txns)
      BY <2>1 DEF Checkers
    <3>2. DOMAIN View(scope) \in {{1, 2}, {1}, {2}}
            /\ \A i \in DOMAIN View(scope) : View(scope)[i].start \in Int
      <4>1. \A i \in seen : i \in {1, 2} /\ View(scope)[i] = runs[i]
        BY SeenRuns
      <4>. QED
        BY <4>1, SeenRuns DEF TwoRuns
    <3>3. DOMAIN View(scope) = seen
      BY SeenRuns
    <3>. HIDE DEF w
    <3>. QED
      BY <3>1, <3>2, <3>3, NewPayeesSound
  <2>2. CASE agent # "counterparty"
    <3>1. "CPTNEW01" \notin DOMAIN K!KyaPerRun(s, Dials, View(scope))
      BY DEF K!KyaPerRun
    <3>2. "CPTNEW01" \notin DOMAIN Mnd!MandatePerRun(View(scope), related)
      BY DEF Mnd!MandatePerRun
    <3>3. "CPTNEW01" \notin DOMAIN Cns!ConsentPerRun(View(scope), Dials)
      BY DEF Cns!ConsentPerRun
    <3>4. "CPTNEW01" \notin DOMAIN Prv!ProvenancePerRun(s, View(scope))
      BY DEF Prv!ProvenancePerRun
    <3>5. "CPTNEW01" \notin DOMAIN Inj!InjectionPerRun(s, View(scope))
      BY DEF Inj!InjectionPerRun
    <3>6. "CPTNEW01" \notin DOMAIN Ctl!ControlPerRun(s, View(scope), found)
      BY DEF Ctl!ControlPerRun
    <3>. QED
      BY <2>2, <3>1, <3>2, <3>3, <3>4, <3>5, <3>6 DEF Checkers, Graded
  <2>. QED
    BY <2>1, <2>2
<1>4. \A f : f \in facts <=>
         \E r \in RulesOf[agent] :
            \/ r \in DraftRules \ retired /\ f = <<r, 0, "rule_draft">>
            \/ r \notin retired \cup DraftRules /\ r \in DOMAIN d /\ f = <<r, 0, d[r]>>
            \/ /\ r \notin retired \cup DraftRules /\ r \in DOMAIN w
               /\ \E i \in DOMAIN w[r] : f = <<r, i, w[r][i]>>
  <2>. HIDE DEF d, w, ck
  <2>1. facts = Evaluated(Book(agent), <<d, w>>)
    BY <1>1
  <2>. QED
    BY <1>0, <1>2, <2>1, EvaluatedFacts, BookIs DEF DossierSound, RunSound
<1>. HIDE DEF d, w, ck, seen, facts
<1>5. ASSUME NEW f \in facts
      PROVE  /\ f = <<f[1], f[2], f[3]>>
             /\ f[2] \in seen \cup {0} /\ f[3] \in Outcome
             /\ f[3] \in Settled
                  => f[1] \in (RulesOf[agent] \ (retired \cup DraftRules)) \ JudgedRules
             /\ f[3] \in Settled /\ f[1] # "CPTNEW01" =>
                  IF f[1] \in OfRun
                  THEN f[2] \in seen /\ \A i \in seen : \E g \in facts : Id(g) = <<f[1], i>>
                  ELSE f[2] = 0
  <2>1. PICK r \in RulesOf[agent] :
            \/ r \in DraftRules \ retired /\ f = <<r, 0, "rule_draft">>
            \/ r \notin retired \cup DraftRules /\ r \in DOMAIN d /\ f = <<r, 0, d[r]>>
            \/ /\ r \notin retired \cup DraftRules /\ r \in DOMAIN w
               /\ \E i \in DOMAIN w[r] : f = <<r, i, w[r][i]>>
    BY <1>4
  <2>2. CASE r \in DraftRules \ retired /\ f = <<r, 0, "rule_draft">>
    BY <2>2 DEF Settled, Outcome, AbsentReason
  <2>3. CASE r \notin retired \cup DraftRules /\ r \in DOMAIN d /\ f = <<r, 0, d[r]>>
    BY <1>2, <2>3 DEF DossierSound
  <2>4. CASE /\ r \notin retired \cup DraftRules /\ r \in DOMAIN w
             /\ \E i \in DOMAIN w[r] : f = <<r, i, w[r][i]>>
    <3>1. PICK i \in DOMAIN w[r] : f = <<r, i, w[r][i]>>
      BY <2>4
    <3>2. CASE r = "CPTNEW01"
      <4>1. r \notin JudgedRules
        BY <3>2 DEF JudgedRules, Bas!LogRules, Bas!LogCore
      <4>. QED
        BY <1>3, <2>4, <3>1, <3>2, <4>1
    <3>3. CASE r # "CPTNEW01"
      <4>1. r \in OfRun /\ i \in seen /\ w[r][i] \in Outcome
        BY <1>2, <2>4, <3>1, <3>3 DEF RunSound
      <4>2. r \in JudgedRules => w[r][i] \notin Settled
        BY <1>2, <2>4, <3>1, <3>3 DEF RunSound
      <4>3. r \notin JudgedRules => DOMAIN w[r] = seen
        BY <1>2, <2>4, <3>1, <3>3 DEF RunSound
      <4>4. r \notin JudgedRules => \A j \in seen : <<r, j, w[r][j]>> \in facts
        BY <1>4, <2>4, <4>3
      <4>5. r \notin JudgedRules => \A j \in seen : \E g \in facts : Id(g) = <<r, j>>
        BY <4>4 DEF Id
      <4>6. f[1] = r /\ f[2] = i /\ f[3] = w[r][i]
        BY <3>1
      <4>. QED
        BY <2>4, <3>1, <4>1, <4>2, <4>5, <4>6
    <3>. QED
      BY <3>2, <3>3
  <2>. QED
    BY <2>1, <2>2, <2>3, <2>4
<1>. QED
  BY <1>5 DEF Sound, Ruled, facts, seen, ck

\* Everyone that finds facts in a pass.
Agents == Peer \cup {"control_assurance"}

\* Where the facts of those specialists come from.
LEMMA FactsOfGraded ==
  ASSUME NEW agent \in Graded, NEW scope, NEW found
  PROVE  FactsOf(agent, scope, found)
         = MeasuredAlways(agent) \cup
           Evaluated(Book(agent),
             Checkers(agent, sub, View(scope), Related(runs, Seen(scope)), Rows(scope), found))
BY DEF FactsOf, Graded

\* The log specialist only says what it measured and what it could not.
LEMMA LogFactsSound ==
  ASSUME NEW seen, NEW txns
  PROVE  Sound(Bas!LogFacts(Book("log"), txns), seen)
           /\ \A f \in Bas!LogFacts(Book("log"), txns) : f[2] = 0 /\ f[3] \notin Settled
<1>. DEFINE facts == Bas!LogFacts(Book("log"), txns)
<1>1. ASSUME NEW f \in facts
      PROVE  \E r : f \in {<<r, 0, "insufficient_history">>, <<r, 0, "measured">>,
               <<r, 0, "rule_draft">>}
  <2>1. \/ \E r \in Bas!ActiveIn(Book("log"), Bas!LogRules) :
             f = <<r, 0, IF txns = <<>> THEN "insufficient_history" ELSE "measured">>
        \/ f \in Bas!Drafts(Book("log"))
    BY DEF Bas!LogFacts
  <2>. QED
    BY <2>1 DEF Bas!Drafts
<1>. HIDE DEF facts
<1>2. ASSUME NEW f \in facts
      PROVE  f = <<f[1], f[2], f[3]>> /\ f[2] = 0 /\ f[3] \in Outcome \ Settled
  <2>1. PICK r : f \in {<<r, 0, "insufficient_history">>, <<r, 0, "measured">>,
                        <<r, 0, "rule_draft">>}
    BY <1>1
  <2>. QED
    BY <2>1 DEF Settled, Outcome, AbsentReason
<1>. QED
  BY <1>2 DEF Sound, facts

\* The drift specialist settles its baseline rule, of the whole dossier, and
\* nothing else.
LEMMA DriftFactsSound ==
  ASSUME NEW seen, NEW txns
  PROVE  LET facts == Bas!DriftFacts(Book("drift"), Dials, txns)
         IN  /\ Sound(facts, seen) /\ Ruled("drift", facts)
             /\ \A f \in facts : /\ f[2] = 0 /\ f[3] # "out_of_scope"
                                 /\ f[3] \in Settled => f[1] = "DRIFTBAS01"
<1>. DEFINE facts == Bas!DriftFacts(Book("drift"), Dials, txns)
<1>1. Bas!Bas01(Dials, txns) \in {"insufficient_history", "breach", "satisfied"}
  BY DEF Bas!Bas01, Bas!Verdict
<1>2. ASSUME NEW f \in facts
      PROVE  \/ f \in {<<"DRIFTBHV01", 0, "insufficient_history">>,
                  <<"DRIFTBHV01", 0, "measured">>}
             \/ /\ f = <<"DRIFTBAS01", 0, Bas!Bas01(Dials, txns)>>
                /\ "DRIFTBAS01" \in DOMAIN Book("drift") /\ Book("drift")["DRIFTBAS01"] = "active"
  BY DEF Bas!DriftFacts, Bas!ActiveIn
<1>. HIDE DEF facts
<1>3. "DRIFTBAS01" \notin OfRun \cup JudgedRules
  BY DEF OfRun, RulesOf, JudgedRules, Bas!LogRules, Bas!LogCore
<1>4. "drift" \in Peer \cup {"control_assurance"}
  BY DEF Peer
<1>5. ASSUME NEW f \in facts
      PROVE  /\ f = <<f[1], f[2], f[3]>>
             /\ f[2] = 0 /\ f[3] \in Outcome /\ f[3] # "out_of_scope"
             /\ f[3] \in Settled
                  => f[1] = "DRIFTBAS01" /\ f[1] \in RulesOf["drift"] \ (retired \cup DraftRules)
  <2>1. CASE f \in {<<"DRIFTBHV01", 0, "insufficient_history">>, <<"DRIFTBHV01", 0, "measured">>}
    BY <2>1 DEF Settled, Outcome, AbsentReason
  <2>2. CASE /\ f = <<"DRIFTBAS01", 0, Bas!Bas01(Dials, txns)>>
             /\ "DRIFTBAS01" \in DOMAIN Book("drift") /\ Book("drift")["DRIFTBAS01"] = "active"
    BY <1>1, <1>4, <2>2, BookIs DEF Settled, Outcome, AbsentReason
  <2>. QED
    BY <1>2, <2>1, <2>2
<1>. QED
  BY <1>3, <1>5 DEF Sound, Ruled, facts

\* The facts of every pass are as they should be, whoever found them.
LEMMA FactsSound ==
  ASSUME TwoRuns, NEW agent \in Agents, NEW scope \in Scopes, NEW found
  PROVE  Sound(FactsOf(agent, scope, found), Seen(scope))
           /\ Ruled(agent, FactsOf(agent, scope, found))
<1>. DEFINE facts == FactsOf(agent, scope, found)
<1>1. CASE agent = "log"
  <2>1. facts = Bas!LogFacts(Book("log"), Rows(scope))
    BY <1>1 DEF FactsOf
  <2>. HIDE DEF facts
  <2>. QED
    BY <2>1, LogFactsSound DEF Ruled, facts
<1>2. CASE agent = "drift"
  <2>1. facts = Bas!DriftFacts(Book("drift"), Dials, Rows(scope))
    BY <1>2 DEF FactsOf
  <2>. HIDE DEF facts
  <2>. QED
    BY <1>2, <2>1, DriftFactsSound DEF facts
<1>3. CASE agent = "systemic"
  <2>1. facts = {<<Named(f), 0, "measured">> : f \in Swept}
    BY <1>3 DEF FactsOf
  <2>. HIDE DEF facts
  <2>2. \A f \in facts : \E r : f = <<r, 0, "measured">>
    BY <2>1
  <2>. QED
    BY <2>2 DEF Sound, Ruled, Settled, Outcome, facts
<1>4. CASE agent \in Graded
  <2>. DEFINE graded == Evaluated(Book(agent),
                Checkers(agent, sub, View(scope), Related(runs, Seen(scope)), Rows(scope), found))
  <2>1. facts = MeasuredAlways(agent) \cup graded
    BY <1>4, FactsOfGraded
  <2>2. Sound(graded, Seen(scope)) /\ Ruled(agent, graded)
    BY <1>4, EvaluatedIsSound
  <2>3. \A f \in MeasuredAlways(agent) : \E r : f = <<r, 0, "measured">>
    BY DEF MeasuredAlways
  <2>. HIDE DEF facts, graded
  <2>4. \A f \in facts : f[3] \in Settled => f \in graded
    BY <2>1, <2>3 DEF Settled
  <2>5. \A f \in facts : f = <<f[1], f[2], f[3]>> /\ f[2] \in Seen(scope) \cup {0}
          /\ f[3] \in Outcome
    BY <2>1, <2>2, <2>3 DEF Sound, Outcome
  <2>6. Sound(facts, Seen(scope)) /\ Ruled(agent, facts)
    BY <2>1, <2>2, <2>4, <2>5 DEF Sound, Ruled
  <2>. QED
    BY <2>6 DEF facts
<1>. QED
  BY <1>1, <1>2, <1>3, <1>4 DEF Agents, Peer, Graded

\* Two looks that say the same of run i
Agree(a, b, i) ==
  /\ DOMAIN a = DOMAIN b
  /\ \A r \in DOMAIN a \ {"CPTNEW01"} :
       /\ i \in DOMAIN a[r] <=> i \in DOMAIN b[r]
       /\ i \in DOMAIN a[r] => a[r][i] = b[r][i]

\* What the mandate's checkers say of a run is the same in two views of it
\* that hold the same draws on its mandate (mandate_checks.py).
LEMMA MandateLocal ==
  ASSUME NEW v, NEW w, NEW relV, NEW relW, NEW i \in DOMAIN v \cap DOMAIN w, v[i] = w[i],
         Mnd!Draws({v[j] : j \in DOMAIN v}, relV, v[i])
           = Mnd!Draws({w[j] : j \in DOMAIN w}, relW, v[i])
  PROVE  Agree(Mnd!MandatePerRun(v, relV), Mnd!MandatePerRun(w, relW), i)
<1>. DEFINE a == Mnd!MandatePerRun(v, relV)
            b == Mnd!MandatePerRun(w, relW)
<1>1. DOMAIN a = DOMAIN b
  BY DEF Mnd!MandatePerRun
<1>2. \A r \in DOMAIN a : i \in DOMAIN a[r] <=> i \in DOMAIN b[r]
  BY DEF Mnd!MandatePerRun, Mnd!SemRuns
<1>3. ASSUME NEW r \in DOMAIN a, i \in DOMAIN a[r] PROVE a[r][i] = b[r][i]
  <2>1. CASE r \notin {"MNDCAP05", "MNDUSE01"}
    BY <1>3, <2>1 DEF Mnd!MandatePerRun, Mnd!SemRuns
  <2>2. CASE r = "MNDCAP05"
    <3>1. a[r][i] = Mnd!Cap05({v[j] : j \in DOMAIN v}, relV, v[i])
      BY <2>2 DEF Mnd!MandatePerRun
    <3>2. b[r][i] = Mnd!Cap05({w[j] : j \in DOMAIN w}, relW, v[i])
      BY <2>2 DEF Mnd!MandatePerRun
    <3>. HIDE DEF a, b
    <3>. QED
      BY <3>1, <3>2 DEF Mnd!Cap05
  <2>3. CASE r = "MNDUSE01"
    <3>1. a[r][i] = Mnd!Use01({v[j] : j \in DOMAIN v}, relV, v[i])
      BY <2>3 DEF Mnd!MandatePerRun
    <3>2. b[r][i] = Mnd!Use01({w[j] : j \in DOMAIN w}, relW, v[i])
      BY <2>3 DEF Mnd!MandatePerRun
    <3>. HIDE DEF a, b
    <3>. QED
      BY <3>1, <3>2 DEF Mnd!Use01
  <2>. QED
    BY <2>1, <2>2, <2>3
<1>. QED
  BY <1>1, <1>2, <1>3 DEF Agree

\* So it is with the checkers of every specialist.
LEMMA CheckersLocal ==
  ASSUME NEW agent \in Agents, NEW s, NEW v, NEW w, NEW relV, NEW relW, NEW txnsV, NEW txnsW,
         NEW foundV, NEW foundW,
         NEW i \in DOMAIN v \cap DOMAIN w, v[i] = w[i], foundV[i] = foundW[i],
         Mnd!Draws({v[j] : j \in DOMAIN v}, relV, v[i])
           = Mnd!Draws({w[j] : j \in DOMAIN w}, relW, v[i])
  PROVE  LET a == Checkers(agent, s, v, relV, txnsV, foundV)
             b == Checkers(agent, s, w, relW, txnsW, foundW)
         IN  DOMAIN a[1] = DOMAIN b[1] /\ Agree(a[2], b[2], i)
<1>. DEFINE a == Checkers(agent, s, v, relV, txnsV, foundV)
            b == Checkers(agent, s, w, relW, txnsW, foundW)
<1>0. Agree(<<>>, <<>>, i)
  BY DEF Agree
<1>1. CASE agent = "kya"
  <2>1. DOMAIN a[1] = DOMAIN b[1]
    BY <1>1 DEF Checkers
  <2>2. Agree(K!KyaPerRun(s, Dials, v), K!KyaPerRun(s, Dials, w), i)
    BY DEF K!KyaPerRun, Agree
  <2>. QED
    BY <1>1, <2>1, <2>2 DEF Checkers
<1>2. CASE agent = "mandate"
  BY <1>2, MandateLocal DEF Checkers
<1>3. CASE agent = "consent"
  <2>1. Agree(Cns!ConsentPerRun(v, Dials), Cns!ConsentPerRun(w, Dials), i)
    BY DEF Cns!ConsentPerRun, Cns!SemRuns, Agree
  <2>. QED
    BY <1>3, <2>1 DEF Checkers
<1>4. CASE agent = "counterparty"
  <2>1. DOMAIN a[1] = DOMAIN b[1]
    BY <1>4 DEF Checkers, Cpt!CounterpartyPerDossier
  <2>2. Agree(Cpt!CounterpartyPerRun(s, Dials, v, txnsV),
          Cpt!CounterpartyPerRun(s, Dials, w, txnsW), i)
    BY DEF Cpt!CounterpartyPerRun, Agree
  <2>. QED
    BY <1>4, <2>1, <2>2 DEF Checkers
<1>5. CASE agent = "provenance"
  <2>1. DOMAIN a[1] = DOMAIN b[1]
    BY <1>5 DEF Checkers
  <2>2. Agree(Prv!ProvenancePerRun(s, v), Prv!ProvenancePerRun(s, w), i)
    BY DEF Prv!ProvenancePerRun, Agree
  <2>. QED
    BY <1>5, <2>1, <2>2 DEF Checkers
<1>6. CASE agent = "injection"
  <2>1. Agree(Inj!InjectionPerRun(s, v), Inj!InjectionPerRun(s, w), i)
    BY DEF Inj!InjectionPerRun, Agree
  <2>. QED
    BY <1>6, <2>1 DEF Checkers
<1>7. CASE agent = "control_assurance"
  <2>1. DOMAIN a[1] = DOMAIN b[1]
    BY <1>7 DEF Checkers, Ctl!ControlPerDossier
  <2>2. Agree(Ctl!ControlPerRun(s, v, foundV), Ctl!ControlPerRun(s, w, foundW), i)
    BY DEF Ctl!ControlPerRun, Agree
  <2>. QED
    BY <1>7, <2>1, <2>2 DEF Checkers
<1>8. CASE agent \in {"log", "drift", "systemic"}
  BY <1>0, <1>8 DEF Checkers
<1>. QED
  BY <1>1, <1>2, <1>3, <1>4, <1>5, <1>6, <1>7, <1>8 DEF Agents, Peer

\* A focused pass is given the other draws on the mandates it looks at, so it
\* counts them all (agents/facts.py, related runs).
LEMMA DrawsAreKept ==
  ASSUME TwoRuns, NEW scope \in Scopes, NEW i \in Seen(scope)
  PROVE  Mnd!Draws({View(scope)[j] : j \in DOMAIN View(scope)}, Related(runs, Seen(scope)),
           runs[i])
         = {r \in {runs[j] : j \in {1, 2}} : r.intent = runs[i].intent}
<1>1. {View(scope)[j] : j \in DOMAIN View(scope)} = {runs[j] : j \in Seen(scope)}
  BY SeenRuns
<1>2. DOMAIN runs = {1, 2} /\ Seen(scope) \subseteq {1, 2}
  BY SeenRuns DEF TwoRuns
<1>3. Related(runs, Seen(scope)) =
        {runs[j] : j \in {k \in {1, 2} \ Seen(scope) : \E m \in Seen(scope) :
          runs[m].intent = runs[k].intent}}
  BY <1>2 DEF Related
<1>. QED
  BY <1>1, <1>2, <1>3 DEF Mnd!Draws

\* A fact of an evaluated rulebook, by where it comes from.
LEMMA EvaluatedIs ==
  ASSUME NEW agent \in Agents, NEW s, NEW v, NEW related, NEW txns, NEW found, NEW f
  PROVE  LET ck == Checkers(agent, s, v, related, txns, found)
         IN  f \in Evaluated(Book(agent), ck) <=>
               \E r \in RulesOf[agent] :
                  \/ r \in DraftRules \ retired /\ f = <<r, 0, "rule_draft">>
                  \/ r \notin retired \cup DraftRules /\ r \in DOMAIN ck[1]
                       /\ f = <<r, 0, ck[1][r]>>
                  \/ /\ r \notin retired \cup DraftRules /\ r \in DOMAIN ck[2]
                     /\ \E i \in DOMAIN ck[2][r] : f = <<r, i, ck[2][r][i]>>
<1>. DEFINE ck == Checkers(agent, s, v, related, txns, found)
            d == ck[1]
            w == ck[2]
<1>1. ck = <<d, w>>
  BY CheckersArePairs DEF Agents
<1>2. DOMAIN d \cap DOMAIN w = {}
  BY CheckersSound DEF Agents, DossierSound, RunSound
<1>. HIDE DEF d, w, ck
<1>3. f \in Evaluated(Book(agent), <<d, w>>) <=>
         \E r \in DOMAIN Book(agent) :
            \/ Book(agent)[r] = "draft" /\ f = <<r, 0, "rule_draft">>
            \/ Book(agent)[r] = "active" /\ r \in DOMAIN d /\ f = <<r, 0, d[r]>>
            \/ /\ Book(agent)[r] = "active" /\ r \in DOMAIN w
               /\ \E i \in DOMAIN w[r] : f = <<r, i, w[r][i]>>
  BY <1>2, EvaluatedFacts
<1>4. f \in Evaluated(Book(agent), ck) <=>
         \E r \in RulesOf[agent] :
            \/ r \in DraftRules \ retired /\ f = <<r, 0, "rule_draft">>
            \/ r \notin retired \cup DraftRules /\ r \in DOMAIN d /\ f = <<r, 0, d[r]>>
            \/ /\ r \notin retired \cup DraftRules /\ r \in DOMAIN w
               /\ \E i \in DOMAIN w[r] : f = <<r, i, w[r][i]>>
  BY <1>1, <1>3, BookIs DEF Agents
<1>. QED
  BY <1>4 DEF ck, d, w

\* The facts of some runs, but for the month's new payees.
OfRuns(facts, scope) == {f \in facts : f[2] \in scope /\ f[1] # "CPTNEW01"}

\* What a look at one run says of it is what a look at all of them says.
LEMMA FactsAreLocal ==
  ASSUME TwoRuns, NEW agent \in Agents, NEW scope \in {{1}, {2}}, NEW other, NEW whole,
         \A i \in scope : other[i] = whole[i]
  PROVE  OfRuns(FactsOf(agent, scope, other), scope) = OfRuns(FactsOf(agent, {}, whole), scope)
<1>1. CASE agent \in Graded
  <2>. DEFINE a == Checkers(agent, sub, View(scope), Related(runs, Seen(scope)), Rows(scope),
                other)
              b == Checkers(agent, sub, View({}), Related(runs, Seen({})), Rows({}), whole)
  <2>0. /\ scope \in Scopes /\ {} \in Scopes /\ scope \subseteq Seen(scope)
        /\ Seen({}) = {1, 2} /\ 0 \notin scope /\ scope \subseteq {1, 2}
    BY DEF Scopes, Seen, RunIds, TwoRuns
  <2>1. \A i \in scope : Agree(a[2], b[2], i) /\ DOMAIN a[1] = DOMAIN b[1]
    <3>. TAKE i \in scope
    <3>1. /\ i \in Seen(scope) /\ i \in Seen({})
          /\ DOMAIN View(scope) = Seen(scope) /\ DOMAIN View({}) = Seen({})
          /\ View(scope)[i] = runs[i] /\ View({})[i] = runs[i]
      BY <2>0, SeenRuns
    <3>2. Mnd!Draws({View(scope)[j] : j \in DOMAIN View(scope)}, Related(runs, Seen(scope)),
            runs[i])
          = Mnd!Draws({View({})[j] : j \in DOMAIN View({})}, Related(runs, Seen({})), runs[i])
      BY <2>0, <3>1, DrawsAreKept
    <3>. QED
      BY <3>1, <3>2, CheckersLocal
  <2>2. \A f : f[2] \in scope => f \notin MeasuredAlways(agent)
    BY <2>0 DEF MeasuredAlways
  <2>. HIDE DEF a, b
  <2>3. \A f : f \in Evaluated(Book(agent), a) <=>
               \E r \in RulesOf[agent] :
                  \/ r \in DraftRules \ retired /\ f = <<r, 0, "rule_draft">>
                  \/ r \notin retired \cup DraftRules /\ r \in DOMAIN a[1]
                       /\ f = <<r, 0, a[1][r]>>
                  \/ /\ r \notin retired \cup DraftRules /\ r \in DOMAIN a[2]
                     /\ \E i \in DOMAIN a[2][r] : f = <<r, i, a[2][r][i]>>
    BY EvaluatedIs DEF a
  <2>4. \A f : f \in Evaluated(Book(agent), b) <=>
               \E r \in RulesOf[agent] :
                  \/ r \in DraftRules \ retired /\ f = <<r, 0, "rule_draft">>
                  \/ r \notin retired \cup DraftRules /\ r \in DOMAIN b[1]
                       /\ f = <<r, 0, b[1][r]>>
                  \/ /\ r \notin retired \cup DraftRules /\ r \in DOMAIN b[2]
                     /\ \E i \in DOMAIN b[2][r] : f = <<r, i, b[2][r][i]>>
    BY EvaluatedIs DEF b
  <2>5. ASSUME NEW f, f[2] \in scope, f[1] # "CPTNEW01"
        PROVE  f \in Evaluated(Book(agent), a) <=> f \in Evaluated(Book(agent), b)
    <3>1. Agree(a[2], b[2], f[2])
      BY <2>1, <2>5
    <3>2. f \in Evaluated(Book(agent), a) <=>
            \E r \in RulesOf[agent] : /\ r \notin retired \cup DraftRules /\ r \in DOMAIN a[2]
                                      /\ f[2] \in DOMAIN a[2][r] /\ f = <<r, f[2], a[2][r][f[2]]>>
      BY <2>0, <2>3, <2>5
    <3>3. f \in Evaluated(Book(agent), b) <=>
            \E r \in RulesOf[agent] : /\ r \notin retired \cup DraftRules /\ r \in DOMAIN b[2]
                                      /\ f[2] \in DOMAIN b[2][r] /\ f = <<r, f[2], b[2][r][f[2]]>>
      BY <2>0, <2>4, <2>5
    <3>4. ASSUME NEW r, r \in DOMAIN a[2], r # "CPTNEW01"
          PROVE  /\ r \in DOMAIN b[2]
                 /\ f[2] \in DOMAIN a[2][r] <=> f[2] \in DOMAIN b[2][r]
                 /\ f[2] \in DOMAIN a[2][r] => a[2][r][f[2]] = b[2][r][f[2]]
      BY <3>1, <3>4 DEF Agree
    <3>5. DOMAIN a[2] = DOMAIN b[2]
      BY <3>1 DEF Agree
    <3>6. ASSUME f \in Evaluated(Book(agent), a) PROVE f \in Evaluated(Book(agent), b)
      <4>1. PICK r \in RulesOf[agent] :
              /\ r \notin retired \cup DraftRules /\ r \in DOMAIN a[2]
              /\ f[2] \in DOMAIN a[2][r] /\ f = <<r, f[2], a[2][r][f[2]]>>
        BY <3>2, <3>6
      <4>2. r # "CPTNEW01"
        BY <2>5, <4>1
      <4>. QED
        BY <3>3, <3>4, <4>1, <4>2
    <3>7. ASSUME f \in Evaluated(Book(agent), b) PROVE f \in Evaluated(Book(agent), a)
      <4>1. PICK r \in RulesOf[agent] :
              /\ r \notin retired \cup DraftRules /\ r \in DOMAIN b[2]
              /\ f[2] \in DOMAIN b[2][r] /\ f = <<r, f[2], b[2][r][f[2]]>>
        BY <3>3, <3>7
      <4>2. r # "CPTNEW01"
        BY <2>5, <4>1
      <4>. QED
        BY <3>2, <3>4, <3>5, <4>1, <4>2
    <3>. QED
      BY <3>6, <3>7
  <2>6. /\ FactsOf(agent, scope, other) = MeasuredAlways(agent) \cup Evaluated(Book(agent), a)
        /\ FactsOf(agent, {}, whole) = MeasuredAlways(agent) \cup Evaluated(Book(agent), b)
    BY <1>1, FactsOfGraded DEF a, b
  <2>. QED
    BY <2>2, <2>5, <2>6 DEF OfRuns
<1>2. CASE agent \in {"log", "drift", "systemic"}
  <2>1. \A x \in {FactsOf(agent, scope, other), FactsOf(agent, {}, whole)} : \A f \in x : f[2] = 0
    <3>1. CASE agent = "log"
      BY <3>1, LogFactsSound DEF FactsOf
    <3>2. CASE agent = "drift"
      BY <3>2, DriftFactsSound DEF FactsOf
    <3>3. CASE agent = "systemic"
      BY <3>3 DEF FactsOf
    <3>. QED
      BY <1>2, <3>1, <3>2, <3>3
  <2>. QED
    BY <2>1 DEF OfRuns
<1>. QED
  BY <1>1, <1>2 DEF Agents, Peer, Graded

=============================================================================
