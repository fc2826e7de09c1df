----------------------------- MODULE ReportGate -----------------------------
(***************************************************************************)
(* The drafting graph of pipeline/graph.py (build_drafting_graph) and its  *)
(* human gate, over the ledger of one case:                                *)
(*                                                                         *)
(*   load_record -> draft_report -> grounding_check -> human_gate          *)
(*                                                                         *)
(* A draft waits at the gate, in a checkpoint in memory, for as long as    *)
(* the officer likes.  It holds no lock: reviews, resets, closings and     *)
(* other drafts of the case go on meanwhile.                               *)
(***************************************************************************)
EXTENDS Naturals, Sequences, FiniteSets

CONSTANTS Thread,     \* AG-UI threads: drafts that can be in flight at a time
          MaxRounds,  \* _MAX_REVIEWER_ROUNDS
          Others,     \* what others append: "findings", "cleared", "closed"
          None,       \* no run
          MaxDrafts,  \* bound: drafting runs
          MaxOthers   \* bound: events others append

ASSUME GateAssumption ==
  /\ IsFiniteSet(Thread) /\ Thread # {}
  /\ MaxRounds \in Nat /\ MaxDrafts \in Nat /\ MaxOthers \in Nat
  /\ None \notin 1 .. MaxDrafts
  /\ Others \subseteq {"findings", "cleared", "closed"}

Run == 1 .. MaxDrafts  \* drafting runs, in the order they start

VARIABLES log,      \* the events of the case that matter here, in seq order
          draft,    \* the draft in flight on each thread
          dropped   \* parked runs whose checkpoint or client is gone

vars == <<log, draft, dropped>>

----------------------------------------------------------------------------
Action == {"approve", "reject", "rerun"}
OfRun == {"started", "drafted", "checked", "blocked"} \cup Action

\* A decision_recorded event has its action for a type.  run_completed is left
\* out: nobody looks for that of a drafting run.
Event == [type : OfRun, run : Run] \cup [type : Others, run : {None}]

At(l, types) == {i \in DOMAIN l : l[i].type \in types}

Last(S) == IF S = {} THEN 0 ELSE CHOOSE i \in S : \A j \in S : j <= i

\* visible_events: a reset leaves what came after it.  (The submission and
\* case_opened, which it leaves too, are no events of this model.)
Visible(l) == Last(At(l, {"cleared"})) + 1 .. Len(l)

Seen(l, types) == At(l, types) \cap Visible(l)

\* What load_record finds: the findings a reader sees, and how many reruns.
Basis(l) == Seen(l, {"findings"})
Reruns(l) == Seen(l, {"rerun"})

\* Events that set or reset draft_pending; report_blocked only if there is no
\* report.  Mutant: decisions do not.
DraftTurns(l) == Seen(l, {"drafted", "checked"})
Turns(l) ==
  Seen(l, {"drafted", "checked"} \cup Action)
    \cup {i \in Seen(l, {"blocked"}) : \A j \in Seen(l, {"drafted"}) : i < j}

\* _derive_status over project_case: the last decision, unless it asks for a
\* rerun; else a draft is pending if it was checked and nothing turned since.
\* What is left ("live") is under review in some way.
Status(l) ==
  LET decided == Last(Seen(l, Action))
      turn == Last(Turns(l)) IN
  IF Seen(l, {"closed"}) # {} THEN "closed"
  ELSE IF decided # 0 /\ l[decided].type = "approve" THEN "issued"
  ELSE IF decided # 0 /\ l[decided].type = "reject" THEN "rejected"
  ELSE IF turn # 0 /\ l[turn].type = "checked" THEN "pending"
  ELSE "live"

\* The run whose report the record shows: the latest drafted.
Shown(l) == {l[i].run : i \in {Last(Seen(l, {"drafted"}))} \ {0}}

\* A draft in flight: the node it is at, its run, and reviewer_rounds as
\* load_record counted them.
Draft == [node : {"draft", "ground", "gate"}, run : Run, rounds : Nat]
NoDraft == [node |-> "idle", run |-> None, rounds |-> 0]

Init ==
  /\ log = << >>
  /\ draft = [t \in Thread |-> NoDraft]
  /\ dropped = {}

----------------------------------------------------------------------------
Record(type, r) == log' = Append(log, [type |-> type, run |-> r])

\* A node appends, and the draft goes on to the next.
Step(t, from, type, to) ==
  /\ draft[t].node = from
  /\ draft' = [draft EXCEPT ![t].node = to]
  /\ Record(type, draft[t].run)

\* The graph ends for this draft.  Mutant: its state is kept.
EndKeeps(t) == draft' = [draft EXCEPT ![t].node = "idle"]
End(t) == draft' = [draft EXCEPT ![t] = NoDraft]

\* load_record: a new drafting run reads the case and keeps what it read.  An
\* officer may ask for it while the thread's last draft is parked, which
\* nobody decides then; a resume whose checkpoint is gone arrives here too.
\* (A resume without a case_id ends with nothing recorded.)
Load(t) ==
  LET r == 1 + Cardinality(At(log, {"started"})) IN
  /\ draft[t].node \in {"idle", "gate"}
  /\ r <= MaxDrafts
  /\ Record("started", r)
  /\ draft' = [draft EXCEPT ![t] =
                 [node |-> "draft", run |-> r, rounds |-> Cardinality(Reruns(log))]]
  /\ dropped' = dropped \cup ({draft[t].run} \ {None})

\* draft_report: the model returned a report.
Write(t) == Step(t, "draft", "drafted", "ground") /\ UNCHANGED dropped

\* It did not: report_blocked, and the run ends.
Block(t) ==
  /\ draft[t].node = "draft"
  /\ Record("blocked", draft[t].run)
  /\ End(t)
  /\ UNCHANGED dropped

\* grounding_check, advisory: whatever it finds, the draft goes to the gate,
\* where the interrupt parks it.
Ground(t) == Step(t, "ground", "checked", "gate") /\ UNCHANGED dropped

\* Mutants of Decide: the cap is not looked at; the draft stays parked.
DecideUncapped(t, action) ==
  /\ draft[t].node = "gate"
  /\ Record(action, draft[t].run)
  /\ End(t)
  /\ UNCHANGED dropped
DecideAgain(t, action) ==
  /\ draft[t].node = "gate"
  /\ action = "rerun" => draft[t].rounds < MaxRounds
  /\ Record(action, draft[t].run)
  /\ UNCHANGED <<draft, dropped>>

\* human_gate, resumed with a valid decision: decision_recorded, and the run
\* is over.  A payload without a reviewer, or a rerun past the cap the draft
\* was loaded with, interrupts again with an error and changes nothing.
Decide(t, action) ==
  /\ draft[t].node = "gate"
  /\ action = "rerun" => draft[t].rounds < MaxRounds
  /\ Record(action, draft[t].run)
  /\ End(t)
  /\ UNCHANGED dropped

\* The run is cancelled with its stream, or an append raises.  At the gate no
\* stream is open.
Die(t) ==
  /\ draft[t].node \in {"draft", "ground"}
  /\ End(t)
  /\ UNCHANGED <<log, dropped>>

\* The backend restarts: the checkpoints of MemorySaver are gone.
Restart ==
  /\ \E t \in Thread : draft[t] # NoDraft
  /\ draft' = [t \in Thread |-> NoDraft]
  /\ dropped' = dropped \cup {draft[t].run : t \in {u \in Thread : draft[u].node = "gate"}}
  /\ UNCHANGED log

\* A review appends findings, an officer resets the history or closes the
\* case; a parked draft keeps none of them out.
Other(type) ==
  /\ Cardinality(At(log, Others)) < MaxOthers
  /\ Record(type, None)
  /\ UNCHANGED <<draft, dropped>>

----------------------------------------------------------------------------
Next == \/ \E t \in Thread : \/ Load(t) \/ Write(t) \/ Block(t) \/ Ground(t)
                             \/ \E action \in Action : Decide(t, action)
                             \/ Die(t)
        \/ Restart
        \/ \E type \in Others : Other(type)

Spec == Init /\ [][Next]_vars

----------------------------------------------------------------------------
TypeOK ==
  /\ log \in Seq(Event)
  /\ draft \in [Thread -> Draft \cup {NoDraft}]
  /\ dropped \subseteq Run

\* A draft compares the cap with what it counted when it was loaded, so that
\* drafts parked side by side can pass it: by one each and no more.
RerunsBounded == Cardinality(Reruns(log)) < MaxRounds + Cardinality(Thread)

\* A case that says "pending decision" has a draft at the gate that somebody
\* can decide, unless its checkpoint or its client is gone.
PendingIsParked ==
  Status(log) = "pending" =>
    LET r == log[Last(Seen(log, {"checked"}))].run IN
    r \in dropped \/ \E t \in Thread : draft[t].node = "gate" /\ draft[t].run = r

\* How far a drafting run got, by the ledger alone: its last event.
StageOf(l, r) ==
  LET mine == {i \in DOMAIN l : l[i].run = r} IN
  IF mine = {} THEN "none" ELSE l[Last(mine)].type

Lifecycle == INSTANCE DraftLifecycle WITH stage <- [r \in Run |-> StageOf(log, r)]

\* graph.py: "a report never issues unexamined".  Whatever interleaves, each
\* run's events are those of a report that is drafted, examined and decided
\* once.
ImplementsLifecycle == Lifecycle!Spec

\* graph.py: the gate "structurally cannot issue anything without a resume
\* payload carrying a named reviewer's decision".  The report that an issued
\* case shows is the one that was approved.
IssuedWasApproved ==
  Status(log) = "issued" => Shown(log) \subseteq {log[Last(Seen(log, Action))].run}

\* docs/architecture.md: the decision is "a signature on a specific set of
\* findings, not on a case that has since moved".
SignatureBound ==
  \A i \in At(log, {"approve"}), j \in At(log, {"started"}) :
    log[i].run = log[j].run =>
      Basis(SubSeq(log, 1, i - 1)) = Basis(SubSeq(log, 1, j - 1))

\* docs/architecture.md: re-analysis is "capped at `_MAX_REVIEWER_ROUNDS = 3`
\* ... past the cap they must approve or reject".  Nobody sends a report back
\* for a fourth time.
RerunsCapped == Cardinality(Reruns(log)) <= MaxRounds
=============================================================================
