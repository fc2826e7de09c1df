----------------------------- MODULE ReviewRun -----------------------------
(***************************************************************************)
(* The review graph of pipeline/graph.py (build_review_graph): the runs in *)
(* progress in one backend, each fanning out to the specialists it         *)
(* dispatched, and the model slots they share.                             *)
(*                                                                         *)
(*   ingest -> orchestrate -> {specialists} -> specialists_done            *)
(*          -> control_assurance -> critic -> synthesizer -> record        *)
(*                                                                         *)
(* Between two awaits a node runs alone.  A peer appends what its          *)
(* deterministic floor found, where the record does not have it yet,       *)
(* before it is briefed and before its model is called; a failed or        *)
(* timed-out call leaves unjudged assessments.  One event stands for all   *)
(* that an agent appends of a kind; an agent may have nothing to append.   *)
(***************************************************************************)
EXTENDS Naturals, FiniteSets

CONSTANTS Run,          \* runs of the graph
          Peer,         \* the specialists of agents/catalog.py PEERS
          Systemic, Control, Investigator,  \* the other nodes that dispatch
          Orchestrator, \* the routing node, as the agent of its events
          Briefable,    \* peers whose rulebook has an active rule
          Judging,      \* peers whose rulebook has an active rule to judge
          Asked,        \* the modes each run may be asked for in
          Slots         \* MANDATE_MODEL_CONCURRENCY

Fanned == Peer \cup {Systemic, Investigator}  \* nodes of the fan-out
Agent == Fanned \cup {Control}

\* A first pass, a reviewer's directive, each of them with or without models
\* (deterministic_only), and an officer's question.
Offline == {"first offline", "directed offline"}
FirstPass == {"first", "first offline"}
Directed == {"directed", "directed offline"}
Mode == FirstPass \cup Directed \cup {"question"}

ASSUME ReviewAssumption ==
  /\ Systemic \notin Peer /\ Investigator \notin Peer \cup {Systemic}
  /\ Control \notin Fanned /\ Orchestrator \notin Agent
  /\ Briefable \subseteq Peer /\ Judging \subseteq Peer
  /\ Slots \in Nat \ {0}

ASSUME AskedAssumption == Asked \in [Run -> SUBSET Mode]

VARIABLES phase,     \* the node each run is at
          mode,      \* how it was asked for: a member of Mode
          plan,      \* the agents of its selected_skills
          node,      \* how far each agent of the run has got
          found,     \* the peers whose floor found what is not on record yet
          slots,     \* the peers that hold a model slot
          recorded,  \* what the run has on the ledger, as <<kind, agent>>;
                     \* "fact" is what a peer's floor appended
          heard      \* what Control Assurance was given: peers' assessments

vars == <<phase, mode, plan, node, found, slots, recorded, heard>>

Kind == {"fact", "dispatch", "failed", "assessed", "answer", "score", "brief"}
Ended == {"done", "dead"}

Init ==
  /\ phase = [r \in Run |-> "ingest"]
  /\ mode = [r \in Run |-> "first"]
  /\ plan = [r \in Run |-> {}]
  /\ node = [r \in Run |-> [a \in Agent |-> "off"]]
  /\ found = [r \in Run |-> {}]
  /\ slots = {}
  /\ recorded = [r \in Run |-> {}]
  /\ heard = [r \in Run |-> {}]

----------------------------------------------------------------------------
Goto(r, from, to) == phase[r] = from /\ phase' = [phase EXCEPT ![r] = to]

\* An agent of a run that is at its node goes one step further.
Advance(r, a, from, to) ==
  /\ phase[r] = IF a = Control THEN "control" ELSE "fanout"
  /\ node[r][a] = from
  /\ node' = [node EXCEPT ![r][a] = to]

Record(r, kinds, a) == recorded' = [recorded EXCEPT ![r] = @ \cup kinds \X {a}]

Assessed(r) == {a \in Agent : <<"assessed", a>> \in recorded[r]}

Ingest(r) ==
  /\ Goto(r, "ingest", "orchestrate")
  /\ \E m \in Asked[r] : mode' = [mode EXCEPT ![r] = m]
  /\ UNCHANGED <<plan, node, found, slots, recorded, heard>>

\* first_pass_decision: REVIEW_SKILLS, in which control_assurance is not.
FirstPassDecision == Peer \cup {Systemic}

\* route: of the skills the model named, those there are, but never
\* control_assurance; a reply if none is left.  The old intent to run a triage
\* that names nothing is a first pass.
Route(intent, named) ==
  CASE intent = "run_triage" /\ named = {} -> FirstPassDecision
    [] intent \in {"dispatch", "run_triage"} /\ named # {} -> (named \cap Agent) \ {Control}
    [] OTHER -> {}

\* What each mode may dispatch; a reviewer's directive names any specialists.
Plans(m) ==
  {p \in SUBSET Agent :
    \/ m \in FirstPass /\ p = FirstPassDecision
    \/ m \in Directed /\ p # {} /\ Investigator \notin p
    \/ /\ m = "question"
       /\ \E intent \in {"dispatch", "run_triage", "reply"},
             named \in SUBSET (Agent \cup {Orchestrator}) : p = Route(intent, named)}

\* _route_from_orchestrator
Routed(p) == IF p = {} THEN "record"
             ELSE IF p = {Control} THEN "control" ELSE "fanout"

\* orchestrate: a routing call that fails is recorded and dispatches nothing.
Orchestrate(r) ==
  /\ phase[r] = "orchestrate"
  /\ \E p \in Plans(mode[r]) :
       /\ plan' = [plan EXCEPT ![r] = p]
       /\ phase' = [phase EXCEPT ![r] = Routed(p)]
       /\ node' = [node EXCEPT ![r] =
                     [a \in Agent |-> IF a \in p THEN "floor" ELSE "off"]]
       /\ \/ UNCHANGED recorded
          \/ mode[r] = "question" /\ p = {} /\ Record(r, {"failed"}, Orchestrator)
  /\ UNCHANGED <<mode, found, slots, heard>>

\* A peer's deterministic floor, run by a worker thread: whether it has a
\* fact that the run's state does not know already.
Floor(r, a) ==
  /\ a \in Peer
  /\ Advance(r, a, "floor", "append")
  /\ \E new \in SUBSET {a} : found' = [found EXCEPT ![r] = @ \cup new]
  /\ UNCHANGED <<phase, mode, plan, slots, recorded, heard>>

\* Mutant of AppendFloor: facts are left to be appended at the end.
AppendLater(r, a) ==
  /\ a \in Peer
  /\ Advance(r, a, "append", "brief")
  /\ UNCHANGED <<phase, mode, plan, found, slots, recorded, heard>>

\* _append_floor, in a worker thread again.
AppendFloor(r, a) ==
  /\ a \in Peer
  /\ Advance(r, a, "append", "brief")
  /\ IF a \in found[r] THEN Record(r, {"fact"}, a) ELSE UNCHANGED recorded
  /\ UNCHANGED <<phase, mode, plan, found, slots, heard>>

\* dispatch_recorded, with the composed context.  Offline there is no call;
\* the unjudged review stands.
Brief(r, a) ==
  /\ a \in Peer
  /\ Advance(r, a, "brief", IF mode[r] \in Offline THEN "write" ELSE "queue")
  /\ IF a \in Briefable THEN Record(r, {"dispatch"}, a) ELSE UNCHANGED recorded
  /\ UNCHANGED <<phase, mode, plan, found, slots, heard>>

\* async with _model_slot()
TakeSlot(r, a) ==
  /\ Advance(r, a, "queue", "call")
  /\ Cardinality(slots) < Slots
  /\ slots' = slots \cup {<<r, a>>}
  /\ UNCHANGED <<phase, mode, plan, found, recorded, heard>>

\* The call returns a review.
Answer(r, a) ==
  /\ Advance(r, a, "call", "write")
  /\ slots' = slots \ {<<r, a>>}
  /\ UNCHANGED <<phase, mode, plan, found, recorded, heard>>

\* Mutant of GiveUp: the node ends without the unjudged review.
GiveUpSilently(r, a) ==
  /\ Advance(r, a, "call", "done")
  /\ slots' = slots \ {<<r, a>>}
  /\ Record(r, {"failed"}, a)
  /\ UNCHANGED <<phase, mode, plan, found, heard>>

\* The call raises, or wait_for's 900 seconds are over: specialist_failed, and
\* unjudged_review takes the place of the review.
GiveUp(r, a) ==
  /\ Advance(r, a, "call", "write")
  /\ slots' = slots \ {<<r, a>>}
  /\ Record(r, {"failed"}, a)
  /\ UNCHANGED <<phase, mode, plan, found, heard>>

\* Mutant of Review: Control Assurance is handed systemic's assessments too.
ReviewUnfiltered(r, a) ==
  /\ a \in {Systemic, Control}
  /\ Advance(r, a, "floor", "write")
  /\ Record(r, {"dispatch"}, a)
  /\ heard' = IF a = Control THEN [heard EXCEPT ![r] = Assessed(r)] ELSE heard
  /\ UNCHANGED <<phase, mode, plan, found, slots>>

\* Systemic and Control Assurance review first, from the portfolio and from
\* the peers' facts and assessments in the run's state, and then record the
\* dispatch.
Review(r, a) ==
  /\ a \in {Systemic, Control}
  /\ Advance(r, a, "floor", "write")
  /\ Record(r, {"dispatch"}, a)
  /\ heard' = IF a = Control THEN [heard EXCEPT ![r] = Assessed(r) \cap Peer]
              ELSE heard
  /\ UNCHANGED <<phase, mode, plan, found, slots>>

\* No model judged what the peer's book has for one: there was no call, or it
\* failed.
Unjudged(r, a) ==
  a \in Judging /\ (mode[r] \in Offline \/ <<"failed", a>> \in recorded[r])

\* _record_review, in a worker thread, of which only the assessments are kept
\* here: a peer's facts are on record already, those of systemic and Control
\* Assurance nobody waits for.  A sweep that finds nothing, controls in order
\* or a clean review leave no assessment; unjudged_review has one of every
\* rule for a model to judge.
Write(r, a) ==
  /\ Advance(r, a, "write", "done")
  /\ \E kinds \in SUBSET {"assessed"} :
       /\ Unjudged(r, a) => "assessed" \in kinds
       /\ Record(r, kinds, a)
  /\ UNCHANGED <<phase, mode, plan, found, slots, heard>>

\* The investigator: dispatch_recorded, an unguarded model call, then
\* investigation_completed and its observations.
Ask(r) ==
  /\ Advance(r, Investigator, "floor", "call")
  /\ Record(r, {"dispatch"}, Investigator)
  /\ UNCHANGED <<phase, mode, plan, found, slots, heard>>

Report(r) ==
  /\ Advance(r, Investigator, "call", "done")
  /\ Record(r, {"answer"}, Investigator)
  /\ UNCHANGED <<phase, mode, plan, found, slots, heard>>

PeersRan(r) == plan[r] \cap Peer # {}

\* _route_after_specialists
AfterPeers(r) == IF PeersRan(r) THEN "control"
                 ELSE IF mode[r] \in FirstPass THEN "record"
                 ELSE "synthesizer"

\* Mutants of Joined: the fan-out waits for Control Assurance, which is not in
\* it; the first specialist to finish ends it.
JoinedByAll(r) == \A a \in plan[r] : node[r][a] = "done"
JoinedByOne(r) == \E a \in plan[r] : node[r][a] = "done"

\* specialists_done: LangGraph ends the step when all its nodes are done.
Joined(r) == \A a \in plan[r] \ {Control} : node[r][a] = "done"

Join(r) ==
  /\ Joined(r)
  /\ Goto(r, "fanout", AfterPeers(r))
  /\ node' = IF PeersRan(r) THEN [node EXCEPT ![r][Control] = "floor"] ELSE node
  /\ UNCHANGED <<mode, plan, found, slots, recorded, heard>>

\* control_assurance is done; critic.
Critic(r) ==
  /\ node[r][Control] = "done"
  /\ Goto(r, "control", "synthesizer")
  /\ UNCHANGED <<mode, plan, node, found, slots, recorded, heard>>

Synthesize(r) ==
  /\ Goto(r, "synthesizer", "record")
  /\ UNCHANGED <<mode, plan, node, found, slots, recorded, heard>>

\* close_out: a brief on what was assessed, of a model that may fail; offline
\* there is none.
CloseOut(r) == IF mode[r] \in Offline THEN {{}} ELSE {{}, {"brief"}}

\* close_follow_up: a question that was dispatched and brought no assessment is
\* answered in any case, without the model if need be.
CloseFollowUp(r) ==
  IF mode[r] = "question" /\ plan[r] # {} THEN {{"brief"}} ELSE {{}}

\* record: score, recommendation and brief if the run recorded an assessment,
\* an answer's closing if not, then run_completed.
Finish(r) ==
  /\ Goto(r, "record", "done")
  /\ \/ /\ Assessed(r) # {}
        /\ \E kinds \in CloseOut(r) : Record(r, {"score"} \cup kinds, Orchestrator)
     \/ /\ Assessed(r) = {}
        /\ \E kinds \in CloseFollowUp(r) : Record(r, kinds, Orchestrator)
  /\ UNCHANGED <<mode, plan, node, found, slots, heard>>

\* Mutant of Die: the semaphore is not released.
DieHolding(r) ==
  /\ phase[r] \notin Ended
  /\ phase' = [phase EXCEPT ![r] = "dead"]
  /\ UNCHANGED <<mode, plan, node, found, slots, recorded, heard>>

\* An exception leaves a node (an append, the investigator's call, a sweep),
\* or the stream's task is cancelled.  The run records nothing more, and every
\* slot its specialists hold is released on the way out.
Die(r) ==
  /\ phase[r] \notin Ended
  /\ phase' = [phase EXCEPT ![r] = "dead"]
  /\ slots' = {s \in slots : s[1] # r}
  /\ UNCHANGED <<mode, plan, node, found, recorded, heard>>

----------------------------------------------------------------------------
PeerStep(r, a) == \/ Floor(r, a) \/ AppendFloor(r, a) \/ Brief(r, a)
                  \/ TakeSlot(r, a) \/ Answer(r, a) \/ GiveUp(r, a)

Step(r) == \/ Ingest(r) \/ Orchestrate(r)
           \/ \E a \in Peer : PeerStep(r, a)
           \/ \E a \in Agent : Review(r, a) \/ Write(r, a)
           \/ Ask(r) \/ Report(r) \/ Join(r)
           \/ Critic(r) \/ Synthesize(r) \/ Finish(r)

Next == \E r \in Run : Step(r) \/ Die(r)

Spec == Init /\ [][Next]_vars

\* Nodes run when they can and every model call ends: a peer's because of its
\* timeout, whatever the model does, the others because the client gives up.
FairSpec == Spec /\ \A r \in Run : WF_vars(Step(r))

----------------------------------------------------------------------------
TypeOK ==
  /\ phase \in [Run -> Ended \cup {"ingest", "orchestrate", "fanout", "control",
                                   "synthesizer", "record"}]
  /\ mode \in [Run -> Mode]
  /\ plan \in [Run -> SUBSET Agent]
  /\ node \in [Run -> [Agent -> {"off", "floor", "append", "brief",
                                 "queue", "call", "write", "done"}]]
  /\ found \in [Run -> SUBSET Peer]
  /\ slots \subseteq Run \X Peer
  /\ recorded \in [Run -> SUBSET (Kind \X (Agent \cup {Orchestrator}))]
  /\ heard \in [Run -> SUBSET Peer]

\* graph.py: "Facts land before the model starts; a timeout cannot erase the
\* floor", and a dispatch is "recorded BEFORE the model call".
FloorBeforeCall ==
  \A s \in slots : /\ s[2] \in found[s[1]] => <<"fact", s[2]>> \in recorded[s[1]]
                   /\ s[2] \in Briefable => <<"dispatch", s[2]>> \in recorded[s[1]]

\* The slots in use are those of calls in progress in live runs: neither a
\* failed call nor a cancelled run takes one with it.
NoSlotLeaks ==
  \A s \in slots : phase[s[1]] = "fanout" /\ node[s[1]][s[2]] = "call"

\* A run that completed has the new facts of every peer, and an assessment of
\* each peer that had something to judge and no model to judge it, because the
\* call failed, timed out or was not made: no domain is passed over in silence.
\* (A peer whose model answered may have nothing to assess.)
NoPeerMissing ==
  \A r \in Run : phase[r] = "done" =>
    /\ \A a \in found[r] : <<"fact", a>> \in recorded[r]
    /\ \A a \in plan[r] \cap Peer : Unjudged(r, a) => <<"assessed", a>> \in recorded[r]

\* Control Assurance hears every peer of the run, and no run with a peer
\* completes without it: it starts when the last of them is done, with all they
\* assessed, and none assesses anything after it.
ControlHearsAll ==
  \A r \in Run :
    /\ phase[r] = "done" /\ PeersRan(r) => <<"dispatch", Control>> \in recorded[r]
    /\ <<"dispatch", Control>> \in recorded[r] =>
         /\ \A a \in plan[r] \cap Peer : node[r][a] = "done"
         /\ heard[r] = Assessed(r) \cap Peer

\* Every run ends, in completion or with its task, although models may never
\* answer and runs share the slots.
EveryRunEnds == <>(\A r \in Run : phase[r] \in Ended)
=============================================================================
