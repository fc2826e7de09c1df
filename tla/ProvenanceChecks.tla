-------------------------- MODULE ProvenanceChecks -------------------------
(***************************************************************************)
(* The computable rules on what built a run (agents/provenance_checks.py): *)
(* its model, its prompt, the servers it called, and the agent card.  A    *)
(* call is a record [tool, server, excerpt, schema].                       *)
(***************************************************************************)
EXTENDS Facts

\* Self-attested on both sides.
Tec02(run) == Verdict(run.observed # run.model)

\* s.releases gives each approved release its prompt hash, "none" if the
\* register holds no hash for it.
Tec05(s, run) ==
  IF ~s.agentListed THEN "no_registry_record"
  ELSE Verdict(\/ run.release \notin DOMAIN s.releases
               \/ s.releases[run.release] \notin {"none", run.promptHash})

\* The server is what is pinned, by the regulator for a tool it knows, and by
\* the operator's own card if one was filed.
Unauthorised(s, call) ==
  call.tool \in DOMAIN s.tools /\ call.server \notin s.tools[call.tool].servers

Undeclared(s, call) == s.card.filed /\ call.server \notin s.card.servers

Tec06(s, run) ==
  IF \E c \in run.calls : Unauthorised(s, c) \/ Undeclared(s, c) THEN "breach"
  ELSE IF s.card.filed THEN "satisfied" ELSE "missing_block"

Tec07(s, run) == Verdict(run.observed \in s.blocked)

Crd01(s) ==
  IF ~s.card.filed THEN "missing_block"
  ELSE Verdict(~(s.card.caps \subseteq s.credential.caps) \/ ~s.card.signed)

\* The four sources side by side: what the judged rule rests on.
Rec01 == "measured"

ProvenancePerDossier(s) == [PRVCRD01 |-> Crd01(s), PRVREC01 |-> Rec01]

ProvenancePerRun(s, runs) ==
  [KYATEC02 |-> [i \in DOMAIN runs |-> Tec02(runs[i])],
   KYATEC05 |-> [i \in DOMAIN runs |-> Tec05(s, runs[i])],
   KYATEC06 |-> [i \in DOMAIN runs |-> Tec06(s, runs[i])],
   KYATEC07 |-> [i \in DOMAIN runs |-> Tec07(s, runs[i])]]
=============================================================================
