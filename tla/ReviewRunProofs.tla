-------------------------- MODULE ReviewRunProofs --------------------------
(***************************************************************************)
(* Proofs about ReviewRun for every set of runs and peers and every number *)
(* of model slots.  The argument follows one run: how far each of its      *)
(* agents has got says what the run has on the ledger (Progress), the      *)
(* fan-out is left only when all of it is done (AllDone), and what Control *)
(* Assurance was handed then cannot change any more (ControlLast).         *)
(***************************************************************************)
EXTENDS ReviewRun, TLAPS

\* Only agents of the plan run, and Control Assurance after the join; a run
\* that is not routed yet has nothing running and nothing on the ledger.
Planned(r) ==
  /\ phase[r] \in {"ingest", "orchestrate", "fanout"}
       => node[r][Control] \in {"off", "floor"}
  /\ \A a \in Agent : node[r][a] # "off" => a \in plan[r] \cup {Control}
  /\ \A a \in Peer : a \in found[r] => node[r][a] # "off"
  /\ phase[r] \in {"ingest", "orchestrate"}
       => recorded[r] = {} /\ \A a \in Agent : node[r][a] = "off"

\* Where a peer's floor is on the ledger.
Floored == {"brief", "queue", "call", "write", "done"}

\* What an agent has on the ledger follows from how far it has got.
Progress(r) ==
  /\ \A a \in Peer :
       a \in found[r] /\ node[r][a] \in Floored
         => <<"fact", a>> \in recorded[r]
  /\ \A a \in Briefable :
       node[r][a] \in {"queue", "call", "write", "done"}
         => <<"dispatch", a>> \in recorded[r]
  /\ \A a \in Peer :
       node[r][a] = "done" /\ Unjudged(r, a) => <<"assessed", a>> \in recorded[r]
  /\ \A a \in Agent : <<"assessed", a>> \in recorded[r] => node[r][a] = "done"

\* The fan-out has been left.
Past(r) == phase[r] \in {"control", "synthesizer", "record", "done"}

AllDone(r) ==
  Past(r) => \A a \in plan[r] \ {Control} : node[r][a] = "done"

ControlLast(r) ==
  <<"dispatch", Control>> \in recorded[r] =>
    /\ phase[r] \notin {"ingest", "orchestrate", "fanout"}
    /\ \A a \in plan[r] \cap Peer : node[r][a] = "done"
    /\ heard[r] = Assessed(r) \cap Peer

\* Nor is Control Assurance passed by when a peer ran.
ControlRan(r) ==
  /\ node[r][Control] \in {"write", "done"} => <<"dispatch", Control>> \in recorded[r]
  /\ phase[r] \in {"synthesizer", "record", "done"} /\ PeersRan(r)
       => node[r][Control] = "done"

Good(r) == Planned(r) /\ Progress(r) /\ AllDone(r) /\ ControlLast(r) /\ ControlRan(r)

IInv == NoSlotLeaks /\ \A r \in Run : Good(r)

----------------------------------------------------------------------------
Progression == {"off", "floor", "append", "brief", "queue", "call", "write", "done"}

\* What a recording step adds to the ledger: rows of its own run and agent.
LEMMA Recorded ==
  ASSUME TypeOK, NEW r \in Run, NEW a \in Agent \cup {Orchestrator},
         NEW kinds \in SUBSET Kind, Record(r, kinds, a)
  PROVE  /\ recorded' \in [Run -> SUBSET (Kind \X (Agent \cup {Orchestrator}))]
         /\ \A q \in Run \ {r} : recorded'[q] = recorded[q]
         /\ \A k, b : <<k, b>> \in recorded'[r] <=>
                       <<k, b>> \in recorded[r] \/ (k \in kinds /\ b = a)
<1>1. recorded' = [recorded EXCEPT ![r] = recorded[r] \cup (kinds \X {a})]
  BY DEF Record
<1>2. kinds \X {a} \subseteq Kind \X (Agent \cup {Orchestrator})
  OBVIOUS
<1>. QED
  BY <1>1, <1>2 DEF TypeOK

\* One agent of one run moves, at the node the run is at.
LEMMA Advanced ==
  ASSUME TypeOK, NEW r \in Run, NEW a \in Agent, NEW from,
         NEW to \in Progression, Advance(r, a, from, to)
  PROVE  /\ phase[r] = IF a = Control THEN "control" ELSE "fanout"
         /\ node[r][a] = from
         /\ node' \in [Run -> [Agent -> Progression]]
         /\ node'[r][a] = to
         /\ \A b \in Agent \ {a} : node'[r][b] = node[r][b]
         /\ \A q \in Run \ {r} : node'[q] = node[q]
BY DEF TypeOK, Advance, Progression

\* A set of typed pairs stays one with another typed pair in it.
LEMMA PairTyped ==
  ASSUME NEW A, NEW B, NEW S, S \subseteq A \X B, NEW x \in A, NEW y \in B
  PROVE  S \cup {<<x, y>>} \subseteq A \X B
OBVIOUS

\* Every variable keeps its type; in particular only peers ever hold a slot
\* and Control Assurance hears peers only.
THEOREM TypeCorrect == Spec => []TypeOK
<1>. USE ReviewAssumption DEF Fanned, Agent, Kind, Ended, Mode, FirstPass, Directed
<1>1. Init => TypeOK
  BY DEF Init, TypeOK
<1>2. TypeOK /\ [Next]_vars => TypeOK'
  <2>. SUFFICES ASSUME TypeOK, [Next]_vars PROVE TypeOK'
    OBVIOUS
  <2>. USE DEF TypeOK, Goto
  <2>1. ASSUME NEW r \in Run, Ingest(r) PROVE TypeOK'
    <3>1. PICK m \in Mode : mode' = [mode EXCEPT ![r] = m]
      BY <2>1, AskedAssumption DEF Ingest
    <3>2. mode' \in [Run -> Mode]
      BY <3>1
    <3>. QED
      BY <2>1, <3>2 DEF Ingest
  <2>2. ASSUME NEW r \in Run, Orchestrate(r) PROVE TypeOK'
    <3>1. PICK p \in Plans(mode[r]) :
            /\ plan' = [plan EXCEPT ![r] = p]
            /\ phase' = [phase EXCEPT ![r] = Routed(p)]
            /\ node' = [node EXCEPT ![r] =
                     [a \in Agent |-> IF a \in p THEN "floor" ELSE "off"]]
            /\ \/ UNCHANGED recorded
               \/ mode[r] = "question" /\ p = {} /\ Record(r, {"failed"}, Orchestrator)
      BY <2>2 DEF Orchestrate
    <3>2. p \in SUBSET Agent
      BY <3>1 DEF Plans
    <3>3. Routed(p) \in {"record", "control", "fanout"}
      BY DEF Routed
    <3>. QED
      BY <2>2, <3>1, <3>2, <3>3, Recorded DEF Orchestrate
  <2>3. ASSUME NEW r \in Run, NEW a \in Peer, Floor(r, a) PROVE TypeOK'
    <3>1. PICK new \in SUBSET {a} : found' = [found EXCEPT ![r] = @ \cup new]
      BY <2>3 DEF Floor
    <3>2. found' \in [Run -> SUBSET Peer]
      BY <3>1
    <3>. QED
      BY <2>3, <3>2, Advanced DEF Floor, Progression
  <2>16. ASSUME NEW r \in Run, NEW a \in Peer, AppendFloor(r, a) PROVE TypeOK'
    <3>1. Advance(r, a, "append", "brief")
      BY <2>16 DEF AppendFloor
    <3>2. \/ Record(r, {"fact"}, a)
          \/ UNCHANGED recorded
      BY <2>16 DEF AppendFloor
    <3>3. recorded' \in [Run -> SUBSET (Kind \X (Agent \cup {Orchestrator}))]
      BY <3>2, Recorded
    <3>4. node' \in [Run -> [Agent -> Progression]]
      BY <3>1, Advanced DEF Progression
    <3>. QED
      BY <2>16, <3>3, <3>4 DEF AppendFloor, Progression
  <2>4. ASSUME NEW r \in Run, NEW a \in Peer, Brief(r, a) PROVE TypeOK'
    <3>1. PICK to \in Progression : Advance(r, a, "brief", to)
      BY <2>4 DEF Brief, Progression
    <3>2. \/ Record(r, {"dispatch"}, a)
          \/ UNCHANGED recorded
      BY <2>4 DEF Brief
    <3>3. recorded' \in [Run -> SUBSET (Kind \X (Agent \cup {Orchestrator}))]
      BY <3>2, Recorded
    <3>4. node' \in [Run -> [Agent -> Progression]]
      BY <3>1, Advanced
    <3>. QED
      BY <2>4, <3>3, <3>4 DEF Brief, Progression
  <2>5. ASSUME NEW r \in Run, NEW a \in Peer, TakeSlot(r, a) PROVE TypeOK'
    <3>1. Advance(r, a, "queue", "call") /\ slots' = slots \cup {<<r, a>>}
      BY <2>5 DEF TakeSlot
    <3>2. slots' \subseteq Run \X Peer
      <4>1. slots \subseteq Run \X Peer
        OBVIOUS
      <4>. HIDE DEF TypeOK
      <4>2. slots \cup {<<r, a>>} \subseteq Run \X Peer
        BY <4>1, PairTyped
      <4>. QED
        BY <3>1, <4>2
    <3>3. node' \in [Run -> [Agent -> Progression]]
      BY <3>1, Advanced DEF Progression
    <3>4. UNCHANGED <<phase, mode, plan, found, recorded, heard>>
      BY <2>5 DEF TakeSlot
    <3>. QED
      BY <3>2, <3>3, <3>4 DEF Progression
  <2>6. ASSUME NEW r \in Run, NEW a \in Peer, Answer(r, a) PROVE TypeOK'
    BY <2>6, Advanced DEF Answer, Progression
  <2>7. ASSUME NEW r \in Run, NEW a \in Peer, GiveUp(r, a) PROVE TypeOK'
    <3>1. Record(r, {"failed"}, a) /\ Advance(r, a, "call", "write")
      BY <2>7 DEF GiveUp
    <3>. QED
      BY <2>7, <3>1, Recorded, Advanced DEF GiveUp, Progression
  <2>8. ASSUME NEW r \in Run, NEW a \in Agent, Review(r, a) PROVE TypeOK'
    <3>1. Record(r, {"dispatch"}, a) /\ Advance(r, a, "floor", "write")
      BY <2>8 DEF Review
    <3>. QED
      BY <2>8, <3>1, Recorded, Advanced DEF Review, Progression
  <2>9. ASSUME NEW r \in Run, NEW a \in Agent, Write(r, a) PROVE TypeOK'
    <3>1. PICK kinds \in SUBSET Kind : Record(r, kinds, a)
      BY <2>9 DEF Write
    <3>2. Advance(r, a, "write", "done")
      BY <2>9 DEF Write
    <3>. QED
      BY <2>9, <3>1, <3>2, Recorded, Advanced DEF Write, Progression
  <2>10. ASSUME NEW r \in Run, Ask(r) \/ Report(r) PROVE TypeOK'
    <3>1. PICK kind \in {"dispatch", "answer"} : Record(r, {kind}, Investigator)
      BY <2>10 DEF Ask, Report
    <3>2. \/ Advance(r, Investigator, "floor", "call")
          \/ Advance(r, Investigator, "call", "done")
      BY <2>10 DEF Ask, Report
    <3>3. recorded' \in [Run -> SUBSET (Kind \X (Agent \cup {Orchestrator}))]
      BY <3>1, Recorded
    <3>4. node' \in [Run -> [Agent -> Progression]]
      BY <3>2, Advanced DEF Progression
    <3>. QED
      BY <2>10, <3>3, <3>4 DEF Ask, Report, Progression
  <2>11. ASSUME NEW r \in Run, Join(r) PROVE TypeOK'
    BY <2>11 DEF Join, AfterPeers
  <2>12. ASSUME NEW r \in Run, Critic(r) \/ Synthesize(r) PROVE TypeOK'
    BY <2>12 DEF Critic, Synthesize
  <2>13. ASSUME NEW r \in Run, Die(r) PROVE TypeOK'
    BY <2>13 DEF Die
  <2>14. ASSUME NEW r \in Run, Finish(r) PROVE TypeOK'
    <3>1. PICK kinds \in SUBSET Kind : Record(r, kinds, Orchestrator)
      BY <2>14 DEF Finish, CloseOut, CloseFollowUp
    <3>2. recorded' \in [Run -> SUBSET (Kind \X (Agent \cup {Orchestrator}))]
      BY <3>1, Recorded
    <3>. QED
      BY <2>14, <3>2 DEF Finish
  <2>15. CASE UNCHANGED vars
    BY <2>15 DEF vars
  <2>. QED
    BY <2>1, <2>2, <2>3, <2>4, <2>5, <2>6, <2>7, <2>8, <2>9, <2>10, <2>11,
       <2>12, <2>13, <2>14, <2>15, <2>16 DEF Next, Step, PeerStep
<1>. QED
  BY <1>1, <1>2, PTL DEF Spec

----------------------------------------------------------------------------
\* Nothing the invariant says of a run changes.
Same(q) == /\ phase'[q] = phase[q] /\ mode'[q] = mode[q] /\ plan'[q] = plan[q]
           /\ node'[q] = node[q] /\ found'[q] = found[q]
           /\ recorded'[q] = recorded[q] /\ heard'[q] = heard[q]

\* A run none of whose variables changes stays as good as it was.
LEMMA SameKeeps ==
  ASSUME NEW q \in Run, Good(q), Same(q)
  PROVE  Good(q)'
BY DEF Good, Planned, Progress, Floored, AllDone, Past, ControlLast, ControlRan, PeersRan,
       Assessed, Unjudged, Same

\* A peer's step: it moves on in the fan-out, and what it appends is what its
\* new place promises.
LEMMA PeerMoves ==
  ASSUME TypeOK, NEW r \in Run, Good(r), NEW a \in Peer,
         NEW from \in {"floor", "append", "brief", "queue", "call"},
         NEW to \in {"append", "brief", "queue", "call", "write"},
         NEW kinds \in SUBSET {"fact", "dispatch", "failed"},
         NEW new \in SUBSET {a},
         Advance(r, a, from, to),
         Record(r, kinds, a) \/ (kinds = {} /\ UNCHANGED recorded),
         found' = [found EXCEPT ![r] = @ \cup new],
         from = "floor" => to = "append",
         from # "floor" => new = {} /\ to # "append",
         from = "append" => to = "brief" /\ (a \in found[r] => "fact" \in kinds),
         from = "brief" => (a \in Briefable => "dispatch" \in kinds),
         from \in {"brief", "queue", "call"} => to # "brief",
         UNCHANGED <<phase, mode, plan, heard>>
  PROVE  Good(r)'
<1>. USE ReviewAssumption
<1>1. a \in Agent /\ a # Control /\ a # Investigator
  BY DEF Agent, Fanned
<1>2. \A k, b : <<k, b>> \in recorded'[r] <=>
                <<k, b>> \in recorded[r] \/ (k \in kinds /\ b = a)
  BY <1>1, Recorded DEF Kind
<1>3. /\ phase[r] = "fanout" /\ node[r][a] = from /\ node'[r][a] = to
      /\ \A b \in Agent \ {a} : node'[r][b] = node[r][b]
  BY <1>1, Advanced DEF Progression
<1>a. found'[r] = found[r] \cup new
  BY DEF TypeOK
<1>4. Planned(r)'
  <2>1. Control \in Agent /\ \A b \in Peer : b \in Agent
    BY DEF Agent, Fanned
  <2>2. \A b \in Agent : node'[r][b] # "off" => b \in plan[r] \cup {Control}
    BY <1>1, <1>3 DEF Good, Planned
  <2>3. \A b \in Peer : b \in found'[r] => node'[r][b] # "off"
    BY <1>3, <1>a, <2>1 DEF Good, Planned
  <2>. QED
    BY <2>1, <2>2, <2>3, <1>1, <1>3 DEF Good, Planned
<1>5. Progress(r)'
  <2>1. \A b \in Peer : b \in Agent
    BY DEF Agent, Fanned
  <2>2. \A b \in Peer :
          b \in found'[r] /\ node'[r][b] \in Floored => <<"fact", b>> \in recorded'[r]
    <3>1. ASSUME NEW b \in Peer \ {a}, b \in found'[r],
                 node'[r][b] \in Floored
          PROVE  <<"fact", b>> \in recorded'[r]
      BY <1>2, <1>3, <1>a, <2>1, <3>1 DEF Good, Progress, Floored
    <3>2. ASSUME a \in found'[r], to # "append"
          PROVE  <<"fact", a>> \in recorded'[r]
      <4>1. from # "floor" /\ a \in found[r]
        BY <1>a, <3>2
      <4>2. CASE from = "append"
        BY <1>2, <4>1, <4>2
      <4>3. CASE from \in {"brief", "queue", "call"}
        BY <1>2, <1>3, <4>1, <4>3 DEF Good, Progress, Floored
      <4>. QED
        BY <4>1, <4>2, <4>3
    <3>. QED
      BY <1>3, <3>1, <3>2 DEF Floored
  <2>3. \A b \in Briefable :
          node'[r][b] \in {"queue", "call", "write", "done"}
            => <<"dispatch", b>> \in recorded'[r]
    BY <1>2, <1>3, <2>1 DEF Good, Progress, Floored
  <2>4. \A b \in Peer :
          node'[r][b] = "done" /\ Unjudged(r, b)' => <<"assessed", b>> \in recorded'[r]
    BY <1>2, <1>3, <2>1 DEF Good, Progress, Floored, Unjudged
  <2>5. \A b \in Agent : <<"assessed", b>> \in recorded'[r] => node'[r][b] = "done"
    BY <1>2, <1>3 DEF Good, Progress, Floored
  <2>. QED
    BY <2>2, <2>3, <2>4, <2>5 DEF Progress, Floored
<1>6. AllDone(r)'
  BY <1>3 DEF AllDone, Past
<1>7. ControlLast(r)'
  BY <1>1, <1>2, <1>3 DEF Good, ControlLast
<1>8. ControlRan(r)'
  BY <1>1, <1>2, <1>3 DEF Good, ControlRan, PeersRan, Agent, TypeOK
<1>. QED
  BY <1>4, <1>5, <1>6, <1>7, <1>8 DEF Good

\* Systemic and Control Assurance review and record their dispatch.  When it
\* is Control Assurance, the fan-out is over and the peers are done.
LEMMA ReviewMoves ==
  ASSUME TypeOK, NEW r \in Run, Good(r), NEW a \in Agent, Review(r, a)
  PROVE  Good(r)'
<1>. USE ReviewAssumption
<1>1. a \notin Peer /\ a \notin Briefable
  BY DEF Review, Fanned
<1>2. Record(r, {"dispatch"}, a) /\ Advance(r, a, "floor", "write")
  BY DEF Review
<1>. DEFINE kinds == {"dispatch"}
<1>3. \A k, b : <<k, b>> \in recorded'[r] <=>
                <<k, b>> \in recorded[r] \/ (k \in kinds /\ b = a)
  <2>1. kinds \in SUBSET Kind /\ a \in Agent \cup {Orchestrator}
    BY DEF Kind
  <2>2. Record(r, kinds, a)
    BY <1>2
  <2>. HIDE DEF kinds
  <2>. QED
    BY <2>1, <2>2, Recorded
<1>4. /\ phase[r] = IF a = Control THEN "control" ELSE "fanout"
      /\ node[r][a] = "floor" /\ node'[r][a] = "write"
      /\ \A b \in Agent \ {a} : node'[r][b] = node[r][b]
  BY <1>2, Advanced DEF Progression
<1>5. /\ phase'[r] = phase[r] /\ plan'[r] = plan[r]
      /\ mode'[r] = mode[r] /\ found'[r] = found[r]
  BY DEF Review
<1>6. Planned(r)'
  <2>1. Control \in Agent /\ \A b \in Peer : b \in Agent
    BY DEF Agent, Fanned
  <2>. QED
    BY <2>1, <1>4, <1>5 DEF Good, Planned
<1>7. Progress(r)'
  <2>1. \A b \in Peer \cup Briefable : b \in Agent \ {a}
    BY <1>1 DEF Agent, Fanned
  <2>2. /\ \A b \in Peer :
             b \in found'[r] /\ node'[r][b] \in Floored => <<"fact", b>> \in recorded'[r]
        /\ \A b \in Briefable :
             node'[r][b] \in {"queue", "call", "write", "done"}
               => <<"dispatch", b>> \in recorded'[r]
    BY <1>3, <1>4, <1>5, <2>1 DEF Good, Progress, Floored
  <2>3. \A b \in Peer :
          node'[r][b] = "done" /\ Unjudged(r, b)' => <<"assessed", b>> \in recorded'[r]
    BY <1>3, <1>4, <1>5, <2>1 DEF Good, Progress, Floored, Unjudged
  <2>4. \A b \in Agent : <<"assessed", b>> \in recorded'[r] => node'[r][b] = "done"
    BY <1>3, <1>4 DEF Good, Progress, Floored
  <2>. QED
    BY <2>2, <2>3, <2>4 DEF Progress, Floored
<1>8. AllDone(r)'
  BY <1>4, <1>5 DEF Good, AllDone, Past, TypeOK
<1>9. Assessed(r)' = Assessed(r)
  BY <1>3 DEF Assessed
<1>10. ControlLast(r)'
  <2>1. CASE a = Control
    <3>1. heard'[r] = Assessed(r) \cap Peer
      BY <2>1 DEF Review, TypeOK
    <3>2. \A b \in Peer : b \in Agent /\ b # Control
      BY DEF Agent, Fanned
    <3>3. \A b \in plan[r] \cap Peer : node'[r][b] = "done"
      BY <1>4, <2>1, <3>2 DEF Good, AllDone, Past
    <3>. QED
      BY <1>4, <1>5, <1>9, <2>1, <3>1, <3>3 DEF ControlLast
  <2>2. CASE a # Control
    <3>1. heard' = heard
      BY <2>2 DEF Review
    <3>2. a \notin Peer /\ \A b \in Peer : b \in Agent \ {a}
      BY <1>1 DEF Agent, Fanned
    <3>. QED
      BY <1>3, <1>4, <1>5, <1>9, <2>2, <3>1, <3>2 DEF Good, ControlLast
  <2>. QED
    BY <2>1, <2>2
<1>11. ControlRan(r)'
  <2>1. Control \in Agent
    BY DEF Agent
  <2>. QED
    BY <2>1, <1>3, <1>4, <1>5 DEF Good, ControlRan, PeersRan
<1>. QED
  BY <1>6, <1>7, <1>8, <1>10, <1>11 DEF Good

\* _record_review's rows: an assessment, certainly if nobody has judged.
LEMMA WriteMoves ==
  ASSUME TypeOK, NEW r \in Run, Good(r), NEW a \in Agent, Write(r, a)
  PROVE  Good(r)'
<1>. USE ReviewAssumption
<1>1. Advance(r, a, "write", "done")
  BY DEF Write
<1>a. PICK kinds \in SUBSET {"assessed"} :
        (Unjudged(r, a) => "assessed" \in kinds) /\ Record(r, kinds, a)
  BY DEF Write
<1>2. \A k, b : <<k, b>> \in recorded'[r] <=>
                <<k, b>> \in recorded[r] \/ (k \in kinds /\ b = a)
  <2>1. kinds \in SUBSET Kind /\ a \in Agent \cup {Orchestrator}
    BY DEF Kind
  <2>. QED
    BY <1>a, <2>1, Recorded
<1>3. /\ phase[r] = IF a = Control THEN "control" ELSE "fanout"
      /\ node[r][a] = "write" /\ node'[r][a] = "done"
      /\ \A b \in Agent \ {a} : node'[r][b] = node[r][b]
  BY <1>1, Advanced DEF Progression
<1>4. UNCHANGED <<phase, mode, plan, found, heard>>
  BY DEF Write
<1>5. Planned(r)'
  <2>1. Control \in Agent /\ \A b \in Peer : b \in Agent
    BY DEF Agent, Fanned
  <2>. QED
    BY <2>1, <1>3, <1>4 DEF Good, Planned
<1>6. Progress(r)'
  <2>1. /\ \A b \in Peer : b \in Agent /\ b # Investigator
        /\ \A b \in Briefable : b \in Agent
    BY DEF Agent, Fanned
  <2>2. a \in Peer /\ Unjudged(r, a)' => <<"assessed", a>> \in recorded'[r]
    BY <1>2, <1>4, <1>a DEF Unjudged
  <2>3. \A b \in Agent \ {a} : /\ node'[r][b] = node[r][b]
                              /\ \A k : <<k, b>> \in recorded'[r]
                                        <=> <<k, b>> \in recorded[r]
    BY <1>2, <1>3
  <2>4. \A k, b : <<k, b>> \in recorded[r] => <<k, b>> \in recorded'[r]
    BY <1>2
  <2>5. /\ \A b \in Peer :
             b \in found'[r] /\ node'[r][b] \in Floored => <<"fact", b>> \in recorded'[r]
        /\ \A b \in Briefable :
             node'[r][b] \in {"queue", "call", "write", "done"}
               => <<"dispatch", b>> \in recorded'[r]
    BY <1>3, <1>4, <2>1, <2>3, <2>4 DEF Good, Progress, Floored
  <2>6. \A b \in Peer :
          node'[r][b] = "done" /\ Unjudged(r, b)' => <<"assessed", b>> \in recorded'[r]
    BY <1>4, <2>1, <2>2, <2>3 DEF Good, Progress, Floored, Unjudged
  <2>7. \A b \in Agent : <<"assessed", b>> \in recorded'[r] => node'[r][b] = "done"
    BY <1>3, <2>3 DEF Good, Progress, Floored
  <2>. QED
    BY <2>5, <2>6, <2>7 DEF Progress, Floored
<1>7. AllDone(r)'
  BY <1>3, <1>4 DEF Good, AllDone, Past, TypeOK
<1>8. ControlLast(r)'
  <2>1. <<"dispatch", Control>> \in recorded'[r]
           => <<"dispatch", Control>> \in recorded[r]
    BY <1>2
  <2>2. ASSUME <<"dispatch", Control>> \in recorded[r]
        PROVE  a = Control /\ Control \notin Peer
    BY <1>3, <2>2 DEF Good, ControlLast, Fanned
  <2>3. ASSUME a = Control
        PROVE  Assessed(r)' \cap Peer = Assessed(r) \cap Peer
    BY <1>2, <2>3 DEF Assessed, Fanned
  <2>4. \A b \in plan[r] \cap Peer : node[r][b] = "done" => node'[r][b] = "done"
    BY <1>3 DEF Agent, Fanned
  <2>. QED
    BY <1>4, <2>1, <2>2, <2>3, <2>4 DEF Good, ControlLast
<1>9. ControlRan(r)'
  <2>1. Control \in Agent
    BY DEF Agent
  <2>. QED
    BY <2>1, <1>2, <1>3, <1>4 DEF Good, ControlRan, PeersRan
<1>. QED
  BY <1>5, <1>6, <1>7, <1>8, <1>9 DEF Good

\* The investigator's two steps: it has neither facts nor an assessment.
LEMMA InvestigatorMoves ==
  ASSUME TypeOK, NEW r \in Run, Good(r),
         NEW kind \in {"dispatch", "answer"},
         NEW from \in {"floor", "call"}, NEW to \in {"call", "done"},
         Record(r, {kind}, Investigator), Advance(r, Investigator, from, to),
         UNCHANGED <<phase, mode, plan, found, heard>>
  PROVE  Good(r)'
<1>1. /\ Investigator \in Agent /\ Investigator # Control
      /\ \A b \in Peer \cup Briefable : b \in Agent \ {Investigator}
  BY ReviewAssumption DEF Agent, Fanned
<1>. DEFINE kinds == {kind}
<1>2. \A k, b : <<k, b>> \in recorded'[r] <=>
                <<k, b>> \in recorded[r] \/ (k \in kinds /\ b = Investigator)
  <2>1. kinds \in SUBSET Kind /\ Investigator \in Agent \cup {Orchestrator}
    BY <1>1 DEF Kind
  <2>2. Record(r, kinds, Investigator)
    OBVIOUS
  <2>. HIDE DEF kinds
  <2>. QED
    BY <2>1, <2>2, Recorded
<1>. USE ReviewAssumption
<1>3. /\ phase[r] = "fanout" /\ node[r][Investigator] = from
      /\ node'[r][Investigator] = to
      /\ \A b \in Agent \ {Investigator} : node'[r][b] = node[r][b]
  BY <1>1, Advanced DEF Progression
<1>4. "assessed" \notin kinds
  OBVIOUS
<1>. HIDE DEF kinds
<1>5. Planned(r)'
  <2>1. Control \in Agent
    BY DEF Agent
  <2>. QED
    BY <2>1, <1>1, <1>3 DEF Good, Planned
<1>6. Progress(r)'
  <2>1. /\ \A b \in Peer :
             b \in found'[r] /\ node'[r][b] \in Floored => <<"fact", b>> \in recorded'[r]
        /\ \A b \in Briefable :
             node'[r][b] \in {"queue", "call", "write", "done"}
               => <<"dispatch", b>> \in recorded'[r]
    BY <1>1, <1>2, <1>3 DEF Good, Progress, Floored
  <2>2. \A b \in Peer :
          node'[r][b] = "done" /\ Unjudged(r, b)' => <<"assessed", b>> \in recorded'[r]
    BY <1>1, <1>2, <1>3 DEF Good, Progress, Floored, Unjudged
  <2>3. \A b \in Agent : <<"assessed", b>> \in recorded'[r] => node'[r][b] = "done"
    BY <1>1, <1>2, <1>3, <1>4 DEF Good, Progress, Floored
  <2>. QED
    BY <2>1, <2>2, <2>3 DEF Progress, Floored
<1>7. AllDone(r)'
  BY <1>3 DEF AllDone, Past
<1>8. ControlLast(r)'
  BY <1>1, <1>2, <1>3 DEF Good, ControlLast
<1>9. ControlRan(r)'
  BY <1>1, <1>2, <1>3 DEF Good, ControlRan, PeersRan, Agent
<1>. QED
  BY <1>5, <1>6, <1>7, <1>8, <1>9 DEF Good

\* Routing starts the agents of the plan, before the run has anything on the
\* ledger but the failure of the routing call itself.
LEMMA OrchestrateStarts ==
  ASSUME TypeOK, NEW r \in Run, Good(r), Orchestrate(r)
  PROVE  Good(r)' /\ \A q \in Run \ {r} : Same(q)
<1>. USE ReviewAssumption
<1>1. PICK p \in Plans(mode[r]) :
        /\ plan' = [plan EXCEPT ![r] = p]
        /\ phase' = [phase EXCEPT ![r] = Routed(p)]
        /\ node' = [node EXCEPT ![r] =
                      [a \in Agent |-> IF a \in p THEN "floor" ELSE "off"]]
        /\ \/ UNCHANGED recorded
           \/ mode[r] = "question" /\ p = {} /\ Record(r, {"failed"}, Orchestrator)
  BY DEF Orchestrate
<1>2. p \subseteq Agent
  BY DEF Plans
<1>3. /\ recorded[r] = {} /\ \A a \in Agent : node[r][a] = "off"
      /\ heard' = heard /\ mode' = mode /\ found' = found
  BY DEF Orchestrate, Good, Planned
<1>4. \A k, b : <<k, b>> \in recorded'[r] => k \in {"failed"}
  <2>. DEFINE kinds == {"failed"}
  <2>1. kinds \in SUBSET Kind /\ Orchestrator \in Agent \cup {Orchestrator}
    BY DEF Kind
  <2>2. UNCHANGED recorded \/ Record(r, kinds, Orchestrator)
    BY <1>1
  <2>. HIDE DEF kinds
  <2>3. \A k, b : <<k, b>> \in recorded'[r] => k \in kinds
    BY <1>3, <2>1, <2>2, Recorded
  <2>. QED
    BY <2>3 DEF kinds
<1>5. \A q \in Run \ {r} : recorded'[q] = recorded[q]
  BY <1>1 DEF Record, TypeOK
<1>6. /\ plan'[r] = p /\ phase'[r] = Routed(p)
      /\ \A a \in Agent : node'[r][a] = IF a \in p THEN "floor" ELSE "off"
  BY <1>1 DEF TypeOK
<1>7. Planned(r)'
  <2>1. Control \in Agent /\ \A b \in Peer : b \in Agent
    BY DEF Agent, Fanned
  <2>2. \A b \in Peer : b \notin found'[r]
    BY <1>3, <2>1 DEF Good, Planned
  <2>. QED
    BY <2>1, <2>2, <1>6 DEF Planned, Routed
<1>8. Progress(r)'
  <2>1. \A b \in Peer \cup Briefable : b \in Agent
    BY DEF Agent, Fanned
  <2>2. \A b \in Agent : <<"assessed", b>> \notin recorded'[r]
    BY <1>4
  <2>. QED
    BY <1>6, <2>1, <2>2 DEF Progress, Floored
<1>9. AllDone(r)'
  BY <1>6 DEF AllDone, Past, Routed
<1>10. ControlLast(r)'
  BY <1>4 DEF ControlLast
<1>11. \A q \in Run \ {r} : Same(q)
  BY <1>1, <1>3, <1>5 DEF Same, TypeOK
<1>12. ControlRan(r)'
  BY <1>6 DEF ControlRan, PeersRan, Routed, Agent
<1>. QED
  BY <1>7, <1>8, <1>9, <1>10, <1>11, <1>12 DEF Good

\* specialists_done: the fan-out is left with every node of it done.
LEMMA JoinLeaves ==
  ASSUME TypeOK, NEW r \in Run, Good(r), Join(r)
  PROVE  Good(r)' /\ \A q \in Run \ {r} : Same(q)
<1>. USE ReviewAssumption
<1>1. /\ phase[r] = "fanout" /\ phase'[r] = AfterPeers(r)
      /\ \A a \in plan[r] \ {Control} : node[r][a] = "done"
      /\ plan' = plan /\ recorded' = recorded /\ heard' = heard
      /\ mode' = mode /\ found' = found
  BY DEF Join, Goto, Joined, TypeOK
<1>2. AfterPeers(r) \in {"control", "record", "synthesizer"}
  BY DEF AfterPeers
<1>3. /\ \A a \in Agent \ {Control} : node'[r][a] = node[r][a]
      /\ \/ node'[r][Control] = node[r][Control]
         \/ node'[r][Control] = "floor"
  BY DEF Join, TypeOK, Agent
<1>4. Control \in Agent /\ Control \notin Peer \cup Briefable
  BY DEF Agent, Fanned
<1>5. node[r][Control] # "done" /\ node'[r][Control] # "done"
  BY <1>1, <1>3 DEF Good, Planned
<1>6. Planned(r)'
  <2>1. \A b \in Peer : b \in Agent \ {Control}
    BY <1>4 DEF Agent, Fanned
  <2>. QED
    BY <2>1, <1>1, <1>2, <1>3, <1>4 DEF Good, Planned
<1>7. Progress(r)'
  <2>1. \A b \in Peer \cup Briefable : b \in Agent \ {Control}
    BY <1>4 DEF Agent, Fanned
  <2>2. \A b \in Agent : <<"assessed", b>> \in recorded[r] => b # Control
    BY <1>4, <1>5 DEF Good, Progress, Floored
  <2>. QED
    BY <1>1, <1>3, <1>5, <2>1, <2>2 DEF Good, Progress, Floored, Unjudged
<1>8. AllDone(r)'
  BY <1>1, <1>3 DEF AllDone, TypeOK
<1>9. ControlLast(r)'
  BY <1>1 DEF Good, ControlLast
<1>10. \A q \in Run \ {r} : Same(q)
  BY DEF Join, Goto, Same, TypeOK
<1>11. ControlRan(r)'
  <2>1. node'[r][Control] \in {"off", "floor"}
    BY <1>1, <1>3 DEF Good, Planned
  <2>2. PeersRan(r)' <=> PeersRan(r)
    BY <1>1 DEF PeersRan
  <2>3. PeersRan(r) => phase'[r] = "control"
    BY <1>1 DEF AfterPeers
  <2>. QED
    BY <2>1, <2>2, <2>3 DEF ControlRan
<1>. QED
  BY <1>6, <1>7, <1>8, <1>9, <1>10, <1>11 DEF Good

\* The other nodes, and death, leave agents and ledger as they are; a run
\* that is past the fan-out does not go back.
LEMMA PhaseMoves ==
  ASSUME TypeOK, NEW r \in Run, Good(r),
         UNCHANGED <<plan, node, found, recorded, heard>>,
         phase[r] = "ingest" \/ mode' = mode,
         \A q \in Run \ {r} : mode'[q] = mode[q],
         \/ Goto(r, "ingest", "orchestrate")
         \/ node[r][Control] = "done" /\ Goto(r, "control", "synthesizer")
         \/ Goto(r, "synthesizer", "record")
         \/ phase' = [phase EXCEPT ![r] = "dead"]
  PROVE  Good(r)' /\ \A q \in Run \ {r} : Same(q)
<1>. USE ReviewAssumption
<1>1. /\ plan' = plan /\ node' = node /\ found' = found
      /\ recorded' = recorded /\ heard' = heard
      /\ \A q \in Run \ {r} : phase'[q] = phase[q]
      /\ \/ phase[r] = "ingest" /\ phase'[r] = "orchestrate"
         \/ phase[r] = "control" /\ phase'[r] = "synthesizer"
         \/ phase[r] = "synthesizer" /\ phase'[r] = "record"
         \/ phase'[r] = "dead"
  BY DEF Goto, TypeOK
<1>2. Planned(r)' /\ AllDone(r)'
  BY <1>1 DEF Good, Planned, AllDone, Past
<1>5. Progress(r)'
  <2>1. ASSUME NEW b \in Peer, node[r][b] = "done"
        PROVE  Unjudged(r, b)' <=> Unjudged(r, b)
    <3>1. b \in Agent
      BY DEF Agent, Fanned
    <3>2. phase[r] # "ingest"
      BY <2>1, <3>1 DEF Good, Planned
    <3>. QED
      BY <1>1, <3>2 DEF Unjudged
  <2>. QED
    BY <1>1, <2>1 DEF Good, Progress, Floored
<1>3. ControlLast(r)'
  BY <1>1 DEF Good, ControlLast, Assessed
<1>4. \A q \in Run \ {r} : Same(q)
  BY <1>1 DEF Same
<1>6. ControlRan(r)'
  <2>1. phase'[r] = "synthesizer" => node[r][Control] = "done"
    BY DEF Goto, TypeOK
  <2>. QED
    BY <1>1, <2>1 DEF Good, ControlRan, PeersRan
<1>. QED
  BY <1>2, <1>3, <1>4, <1>5, <1>6 DEF Good

\* The record node: what it appends is the orchestrator's, who is no agent.
LEMMA FinishCloses ==
  ASSUME TypeOK, NEW r \in Run, Good(r), Finish(r)
  PROVE  Good(r)' /\ \A q \in Run \ {r} : Same(q)
<1>1. PICK kinds \in SUBSET Kind : Record(r, kinds, Orchestrator)
  BY DEF Finish, CloseOut, CloseFollowUp, Kind
<1>2. /\ plan' = plan /\ node' = node /\ heard' = heard
      /\ mode' = mode /\ found' = found
      /\ phase[r] = "record" /\ phase'[r] = "done"
      /\ \A q \in Run \ {r} : phase'[q] = phase[q]
  BY DEF Finish, Goto, TypeOK
<1>3. Orchestrator \in Agent \cup {Orchestrator}
  OBVIOUS
<1>a. \A k, b : <<k, b>> \in recorded'[r] <=>
                <<k, b>> \in recorded[r] \/ (k \in kinds /\ b = Orchestrator)
  BY <1>1, <1>3, Recorded
<1>. USE ReviewAssumption
<1>4. \A k : \A a \in Agent : <<k, a>> \in recorded'[r] <=> <<k, a>> \in recorded[r]
  <2>2. ASSUME NEW k, NEW a \in Agent
        PROVE  <<k, a>> \in recorded'[r] <=> <<k, a>> \in recorded[r]
    <3>1. a # Orchestrator
      OBVIOUS
    <3>. QED
      BY <1>a, <3>1
  <2>. QED
    BY <2>2
<1>5. \A q \in Run \ {r} : Same(q)
  BY <1>1, <1>2, <1>3, Recorded DEF Same
<1>6. /\ Control \in Agent
      /\ \A a \in Peer \cup Briefable : a \in Agent
  BY DEF Agent, Fanned
<1>7. Planned(r)' /\ AllDone(r)'
  BY <1>2 DEF Good, Planned, AllDone, Past
<1>8. Progress(r)'
  BY <1>2, <1>4, <1>6 DEF Good, Progress, Floored, Unjudged
<1>9. Assessed(r)' = Assessed(r)
  BY <1>4 DEF Assessed
<1>10. ControlLast(r)'
  BY <1>2, <1>4, <1>6, <1>9 DEF Good, ControlLast
<1>11. ControlRan(r)'
  BY <1>2, <1>4, <1>6 DEF Good, ControlRan, PeersRan
<1>. QED
  BY <1>5, <1>7, <1>8, <1>10, <1>11 DEF Good

----------------------------------------------------------------------------
\* The slots in use, as pairs: each is of a peer whose call is in progress.
LEMMA SlotHolders ==
  ASSUME TypeOK, NoSlotLeaks, NEW s \in slots
  PROVE  /\ s[1] \in Run /\ s[2] \in Peer /\ s = <<s[1], s[2]>>
         /\ s[2] \in Agent /\ s[2] # Control /\ s[2] # Investigator
         /\ phase[s[1]] = "fanout" /\ node[s[1]][s[2]] = "call"
BY ReviewAssumption DEF TypeOK, NoSlotLeaks, Agent, Fanned

\* A step of one agent that takes no slot, and gives back its own if it had
\* one.
LEMMA AdvanceKeepsSlots ==
  ASSUME TypeOK, NoSlotLeaks, NEW r \in Run, NEW a \in Agent, NEW from,
         NEW to \in Progression, Advance(r, a, from, to), phase' = phase,
         slots' \subseteq slots,
         from # "call" \/ a = Investigator \/ <<r, a>> \notin slots'
  PROVE  NoSlotLeaks'
<1>. SUFFICES ASSUME NEW s \in slots'
              PROVE  phase'[s[1]] = "fanout" /\ node'[s[1]][s[2]] = "call"
  BY DEF NoSlotLeaks
<1>1. /\ s[1] \in Run /\ s = <<s[1], s[2]>>
      /\ s[2] \in Agent /\ s[2] # Investigator
      /\ phase[s[1]] = "fanout" /\ node[s[1]][s[2]] = "call"
  BY SlotHolders
<1>2. s[1] # r \/ s[2] # a
  BY <1>1, Advanced
<1>. QED
  BY <1>1, <1>2, Advanced

\* A call starts in a slot.
LEMMA TakeSlotKeepsSlots ==
  ASSUME TypeOK, NoSlotLeaks, NEW r \in Run, NEW a \in Peer, TakeSlot(r, a)
  PROVE  NoSlotLeaks'
<1>1. a \in Agent /\ a # Control
  BY ReviewAssumption DEF Agent, Fanned
<1>2. slots' = slots \cup {<<r, a>>} /\ Advance(r, a, "queue", "call") /\ phase' = phase
  BY DEF TakeSlot
<1>3. /\ phase[r] = "fanout" /\ node'[r][a] = "call"
      /\ \A b \in Agent \ {a} : node'[r][b] = node[r][b]
      /\ \A q \in Run \ {r} : node'[q] = node[q]
  BY <1>1, <1>2, Advanced DEF Progression
<1>4. ASSUME NEW s \in slots
      PROVE  phase'[s[1]] = "fanout" /\ node'[s[1]][s[2]] = "call"
  BY <1>2, <1>3, SlotHolders
<1>. QED
  BY <1>2, <1>3, <1>4 DEF NoSlotLeaks

\* A step to another node of the graph happens when no call of the run is in
\* progress, and a dying run gives its slots back.
LEMMA PhaseKeepsSlots ==
  ASSUME TypeOK, NoSlotLeaks, NEW r \in Run,
         \A s \in slots' : s \in slots /\ s[1] # r,
         \A q \in Run \ {r} : Same(q)
  PROVE  NoSlotLeaks'
BY SlotHolders DEF Same, NoSlotLeaks

\* Past the join of the fan-out no agent of the run is in a model call.
LEMMA JoinedHoldsNoSlot ==
  ASSUME TypeOK, NoSlotLeaks, NEW r \in Run, Good(r), Joined(r), NEW s \in slots
  PROVE  s[1] # r
<1>. SUFFICES ASSUME s[1] = r PROVE FALSE
  OBVIOUS
<1>1. /\ s[2] \in Agent /\ s[2] # Control /\ node[r][s[2]] = "call"
  BY SlotHolders
<1>2. s[2] \in plan[r]
  BY <1>1 DEF Good, Planned
<1>. QED
  BY <1>1, <1>2 DEF Joined

----------------------------------------------------------------------------
\* The invariant holds of every run in every reachable state: TypeOK and IInv
\* are inductive together.
THEOREM Invariance == Spec => []IInv
<1>. USE ReviewAssumption
<1>1. Init => IInv
  <2>. SUFFICES ASSUME Init PROVE IInv
    OBVIOUS
  <2>1. \A r \in Run : Good(r)
    BY DEF Init, Good, Planned, Progress, Floored, AllDone, Past, ControlLast, ControlRan,
           Agent, Fanned
  <2>. QED
    BY <2>1 DEF Init, IInv, NoSlotLeaks
<1>2. TypeOK /\ IInv /\ [Next]_vars => IInv'
  <2>. SUFFICES ASSUME TypeOK, IInv, [Next]_vars PROVE IInv'
    OBVIOUS
  <2>0. NoSlotLeaks /\ \A r \in Run : Good(r)
    BY DEF IInv
  <2>a. \A a \in Peer : a \in Agent /\ a # Control /\ a # Investigator
    BY DEF Agent, Fanned
  <2>b. Investigator \in Agent
    BY DEF Agent, Fanned
  <2>c. ASSUME NEW r \in Run, Good(r)', \A q \in Run \ {r} : Same(q), NoSlotLeaks'
        PROVE  IInv'
    BY <2>0, <2>c, SameKeeps DEF IInv
  <2>d. \A r \in Run : \A none : none = {} => found = [found EXCEPT ![r] = @ \cup none]
    BY DEF TypeOK
  <2>1. ASSUME NEW r \in Run, NEW a \in Peer, Floor(r, a) PROVE IInv'
    <3>1. /\ Advance(r, a, "floor", "append")
          /\ UNCHANGED <<phase, mode, plan, slots, recorded, heard>>
      BY <2>1 DEF Floor
    <3>2. PICK new \in SUBSET {a} : found' = [found EXCEPT ![r] = @ \cup new]
      BY <2>1 DEF Floor
    <3>3. Good(r)'
      <4>. DEFINE kinds == {}
      <4>1. kinds = {} /\ kinds \in SUBSET {"fact", "dispatch", "failed"}
        OBVIOUS
      <4>2. /\ "floor" \in {"floor", "append", "brief", "queue", "call"}
            /\ "append" \in {"append", "brief", "queue", "call", "write"}
            /\ "floor" \notin {"append", "brief", "queue", "call"}
        OBVIOUS
      <4>. HIDE DEF kinds
      <4>. QED
        BY <2>0, <3>1, <3>2, <4>1, <4>2, PeerMoves
    <3>4. NoSlotLeaks'
      BY <2>0, <2>a, <3>1, AdvanceKeepsSlots DEF Progression
    <3>5. \A q \in Run \ {r} : Same(q)
      BY <3>1, <3>2 DEF Advance, Same, TypeOK
    <3>. QED
      BY <2>c, <3>3, <3>4, <3>5
  <2>14. ASSUME NEW r \in Run, NEW a \in Peer, AppendFloor(r, a) PROVE IInv'
    <3>1. /\ Advance(r, a, "append", "brief")
          /\ UNCHANGED <<phase, mode, plan, found, slots, heard>>
      BY <2>14 DEF AppendFloor
    <3>2. PICK kinds \in SUBSET {"fact"} :
            /\ a \in found[r] => "fact" \in kinds
            /\ Record(r, kinds, a) \/ (kinds = {} /\ UNCHANGED recorded)
      BY <2>14 DEF AppendFloor
    <3>3. Good(r)'
      <4>. DEFINE none == {}
      <4>1. none = {} /\ none \in SUBSET {a}
        OBVIOUS
      <4>. HIDE DEF none
      <4>2. found' = [found EXCEPT ![r] = @ \cup none]
        BY <2>d, <3>1, <4>1
      <4>3. /\ "append" \in {"floor", "append", "brief", "queue", "call"}
            /\ "brief" \in {"append", "brief", "queue", "call", "write"}
            /\ kinds \in SUBSET {"fact", "dispatch", "failed"}
        OBVIOUS
      <4>. QED
        BY <2>0, <3>1, <3>2, <4>1, <4>2, <4>3, PeerMoves
    <3>4. NoSlotLeaks'
      BY <2>0, <2>a, <3>1, AdvanceKeepsSlots DEF Progression
    <3>5. \A q \in Run \ {r} : Same(q)
      BY <3>1, <3>2 DEF Advance, Record, Same, TypeOK
    <3>. QED
      BY <2>c, <3>3, <3>4, <3>5
  <2>2. ASSUME NEW r \in Run, NEW a \in Peer, Brief(r, a) PROVE IInv'
    <3>1. PICK to \in {"queue", "write"} : Advance(r, a, "brief", to)
      BY <2>2 DEF Brief
    <3>2. UNCHANGED <<phase, mode, plan, found, slots, heard>>
      BY <2>2 DEF Brief
    <3>3. PICK kinds \in SUBSET {"dispatch"} :
            /\ a \in Briefable => "dispatch" \in kinds
            /\ Record(r, kinds, a) \/ (kinds = {} /\ UNCHANGED recorded)
      BY <2>2 DEF Brief
    <3>4. Good(r)'
      <4>. DEFINE none == {}
      <4>a. none = {} /\ none \in SUBSET {a}
        OBVIOUS
      <4>. HIDE DEF none
      <4>b. found' = [found EXCEPT ![r] = @ \cup none]
        BY <2>d, <3>2, <4>a
      <4>1. /\ "brief" \in {"floor", "append", "brief", "queue", "call"}
            /\ to \in {"append", "brief", "queue", "call", "write"}
            /\ kinds \in SUBSET {"fact", "dispatch", "failed"}
        OBVIOUS
      <4>2. phase' = phase /\ mode' = mode /\ plan' = plan /\ heard' = heard
        BY <3>2
      <4>3. "brief" \notin {"floor", "append"}
        OBVIOUS
      <4>4. CASE to = "queue"
        BY <2>0, <3>1, <3>3, <4>1, <4>2, <4>3, <4>4, <4>a, <4>b, PeerMoves
      <4>5. CASE to = "write"
        BY <2>0, <3>1, <3>3, <4>1, <4>2, <4>3, <4>5, <4>a, <4>b, PeerMoves
      <4>. QED
        BY <4>4, <4>5
    <3>5. NoSlotLeaks'
      <4>1. to \in Progression /\ phase' = phase /\ slots' \subseteq slots
        BY <3>2 DEF Progression
      <4>. QED
        BY <2>0, <2>a, <3>1, <4>1, AdvanceKeepsSlots
    <3>6. \A q \in Run \ {r} : Same(q)
      BY <3>1, <3>2, <3>3 DEF Advance, Record, Same, TypeOK
    <3>. QED
      BY <2>c, <3>4, <3>5, <3>6
  <2>3. ASSUME NEW r \in Run, NEW a \in Peer, TakeSlot(r, a) PROVE IInv'
    <3>1. /\ Advance(r, a, "queue", "call")
          /\ UNCHANGED <<phase, mode, plan, found, recorded, heard>>
      BY <2>3 DEF TakeSlot
    <3>2. Good(r)'
      <4>. DEFINE kinds == {}
      <4>1. kinds = {} /\ kinds \in SUBSET {"fact", "dispatch", "failed"}
        OBVIOUS
      <4>2. /\ "queue" \in {"floor", "append", "brief", "queue", "call"}
            /\ "call" \in {"append", "brief", "queue", "call", "write"}
            /\ "queue" \notin {"floor", "append", "brief"}
        OBVIOUS
      <4>. HIDE DEF kinds
      <4>. DEFINE none == {}
      <4>a. none = {} /\ none \in SUBSET {a}
        OBVIOUS
      <4>. HIDE DEF none
      <4>b. found' = [found EXCEPT ![r] = @ \cup none]
        BY <2>d, <3>1, <4>a
      <4>. QED
        BY <2>0, <3>1, <4>1, <4>2, <4>a, <4>b, PeerMoves
    <3>3. NoSlotLeaks'
      BY <2>0, <2>3, TakeSlotKeepsSlots
    <3>4. \A q \in Run \ {r} : Same(q)
      BY <3>1 DEF Advance, Same, TypeOK
    <3>. QED
      BY <2>c, <3>2, <3>3, <3>4
  <2>4. ASSUME NEW r \in Run, NEW a \in Peer, Answer(r, a) \/ GiveUp(r, a)
        PROVE  IInv'
    <3>1. /\ Advance(r, a, "call", "write") /\ slots' = slots \ {<<r, a>>}
          /\ UNCHANGED <<phase, mode, plan, found, heard>>
      BY <2>4 DEF Answer, GiveUp
    <3>2. PICK kinds \in SUBSET {"failed"} :
            Record(r, kinds, a) \/ (kinds = {} /\ UNCHANGED recorded)
      BY <2>4 DEF Answer, GiveUp
    <3>3. Good(r)'
      <4>. DEFINE none == {}
      <4>a. none = {} /\ none \in SUBSET {a}
        OBVIOUS
      <4>. HIDE DEF none
      <4>b. found' = [found EXCEPT ![r] = @ \cup none]
        BY <2>d, <3>1, <4>a
      <4>1. /\ "call" \in {"floor", "append", "brief", "queue", "call"}
            /\ "write" \in {"append", "brief", "queue", "call", "write"}
            /\ kinds \in SUBSET {"fact", "dispatch", "failed"}
        OBVIOUS
      <4>. QED
        BY <2>0, <3>1, <3>2, <4>1, <4>a, <4>b, PeerMoves
    <3>4. NoSlotLeaks'
      BY <2>0, <2>a, <3>1, AdvanceKeepsSlots DEF Progression
    <3>5. \A q \in Run \ {r} : Same(q)
      BY <3>1, <3>2 DEF Advance, Record, Same, TypeOK
    <3>. QED
      BY <2>c, <3>3, <3>4, <3>5
  <2>5. ASSUME NEW r \in Run, NEW a \in Agent, Review(r, a) PROVE IInv'
    <3>1. /\ Advance(r, a, "floor", "write") /\ Record(r, {"dispatch"}, a)
          /\ UNCHANGED <<phase, mode, plan, found, slots>>
          /\ heard' = heard \/ heard' = [heard EXCEPT ![r] = Assessed(r) \cap Peer]
      BY <2>5 DEF Review
    <3>2. Good(r)'
      BY <2>0, <2>5, ReviewMoves
    <3>3. NoSlotLeaks'
      BY <2>0, <3>1, AdvanceKeepsSlots DEF Progression
    <3>4. \A q \in Run \ {r} : Same(q)
      BY <3>1 DEF Advance, Record, Same, TypeOK
    <3>. QED
      BY <2>c, <3>2, <3>3, <3>4
  <2>6. ASSUME NEW r \in Run, NEW a \in Agent, Write(r, a) PROVE IInv'
    <3>1. /\ Advance(r, a, "write", "done")
          /\ UNCHANGED <<phase, mode, plan, found, slots, heard>>
      BY <2>6 DEF Write
    <3>2. Good(r)'
      BY <2>0, <2>6, WriteMoves
    <3>3. NoSlotLeaks'
      BY <2>0, <3>1, AdvanceKeepsSlots DEF Progression
    <3>4. \A q \in Run \ {r} : Same(q)
      BY <2>6, <3>1 DEF Write, Advance, Record, Same, TypeOK
    <3>. QED
      BY <2>c, <3>2, <3>3, <3>4
  <2>7. ASSUME NEW r \in Run, Ask(r) \/ Report(r) PROVE IInv'
    <3>1. UNCHANGED <<phase, mode, plan, found, slots, heard>>
      BY <2>7 DEF Ask, Report
    <3>2. PICK kind \in {"dispatch", "answer"} : Record(r, {kind}, Investigator)
      BY <2>7 DEF Ask, Report
    <3>3. PICK from \in {"floor", "call"}, to \in {"call", "done"} :
            Advance(r, Investigator, from, to)
      BY <2>7 DEF Ask, Report
    <3>4. Good(r)'
      BY <2>0, <3>1, <3>2, <3>3, InvestigatorMoves
    <3>5. NoSlotLeaks'
      <4>1. to \in Progression /\ phase' = phase /\ slots' \subseteq slots
        BY <3>1 DEF Progression
      <4>. QED
        BY <2>0, <2>b, <3>3, <4>1, AdvanceKeepsSlots
    <3>6. \A q \in Run \ {r} : Same(q)
      BY <3>1, <3>2, <3>3 DEF Advance, Record, Same, TypeOK
    <3>. QED
      BY <2>c, <3>4, <3>5, <3>6
  <2>8. ASSUME NEW r \in Run, Orchestrate(r) PROVE IInv'
    <3>1. Good(r)' /\ \A q \in Run \ {r} : Same(q)
      BY <2>0, <2>8, OrchestrateStarts
    <3>2. slots' = slots /\ phase[r] = "orchestrate"
      BY <2>8 DEF Orchestrate
    <3>3. \A s \in slots' : s \in slots /\ s[1] # r
      BY <2>0, <3>2, SlotHolders
    <3>. QED
      BY <2>0, <2>c, <3>1, <3>3, PhaseKeepsSlots
  <2>9. ASSUME NEW r \in Run, Join(r) PROVE IInv'
    <3>1. Good(r)' /\ \A q \in Run \ {r} : Same(q)
      BY <2>0, <2>9, JoinLeaves
    <3>2. slots' = slots /\ Joined(r)
      BY <2>9 DEF Join
    <3>3. \A s \in slots' : s \in slots /\ s[1] # r
      BY <2>0, <3>2, JoinedHoldsNoSlot
    <3>. QED
      BY <2>0, <2>c, <3>1, <3>3, PhaseKeepsSlots
  <2>10. ASSUME NEW r \in Run, Ingest(r) \/ Critic(r) \/ Synthesize(r)
         PROVE  IInv'
    <3>1. UNCHANGED <<plan, node, found, slots, recorded, heard>>
      BY <2>10 DEF Ingest, Critic, Synthesize
    <3>2. \/ Goto(r, "ingest", "orchestrate")
          \/ node[r][Control] = "done" /\ Goto(r, "control", "synthesizer")
          \/ Goto(r, "synthesizer", "record")
      BY <2>10 DEF Ingest, Critic, Synthesize
    <3>5. /\ phase[r] = "ingest" \/ mode' = mode
          /\ \A q \in Run \ {r} : mode'[q] = mode[q]
      BY <2>10 DEF Ingest, Critic, Synthesize, Goto, TypeOK
    <3>3. Good(r)' /\ \A q \in Run \ {r} : Same(q)
      BY <2>0, <3>1, <3>2, <3>5, PhaseMoves
    <3>4. \A s \in slots' : s \in slots /\ s[1] # r
      BY <2>0, <3>1, <3>2, SlotHolders DEF Goto
    <3>. QED
      BY <2>0, <2>c, <3>3, <3>4, PhaseKeepsSlots
  <2>11. ASSUME NEW r \in Run, Die(r) PROVE IInv'
    <3>1. /\ UNCHANGED <<mode, plan, node, found, recorded, heard>>
          /\ phase' = [phase EXCEPT ![r] = "dead"]
          /\ \A s \in slots' : s \in slots /\ s[1] # r
      BY <2>11 DEF Die
    <3>2. Good(r)' /\ \A q \in Run \ {r} : Same(q)
      BY <2>0, <3>1, PhaseMoves
    <3>. QED
      BY <2>0, <2>c, <3>1, <3>2, PhaseKeepsSlots
  <2>12. ASSUME NEW r \in Run, Finish(r) PROVE IInv'
    <3>1. Good(r)' /\ \A q \in Run \ {r} : Same(q)
      BY <2>0, <2>12, FinishCloses
    <3>2. slots' = slots /\ phase[r] = "record"
      BY <2>12 DEF Finish, Goto
    <3>3. \A s \in slots' : s \in slots /\ s[1] # r
      BY <2>0, <3>2, SlotHolders
    <3>. QED
      BY <2>0, <2>c, <3>1, <3>3, PhaseKeepsSlots
  <2>13. CASE UNCHANGED vars
    <3>1. \A r \in Run : Same(r)
      BY <2>13 DEF vars, Same
    <3>2. NoSlotLeaks'
      BY <2>0, <2>13 DEF vars, NoSlotLeaks
    <3>. QED
      BY <2>0, <3>1, <3>2, SameKeeps DEF IInv
  <2>. QED
    BY <2>1, <2>2, <2>3, <2>4, <2>5, <2>6, <2>7, <2>8, <2>9, <2>10, <2>11, <2>12,
       <2>13, <2>14 DEF Next, Step, PeerStep
<1>. QED
  BY <1>1, <1>2, TypeCorrect, PTL DEF Spec

----------------------------------------------------------------------------
\* No call to a model before the peer's facts, and its dispatch, are on the
\* ledger: whatever a timeout or a cancellation takes, the floor stays.
THEOREM FloorComesFirst == Spec => []FloorBeforeCall
<1>1. TypeOK /\ IInv => FloorBeforeCall
  <2>. SUFFICES ASSUME TypeOK, IInv, NEW s \in slots
                PROVE  /\ s[2] \in found[s[1]] => <<"fact", s[2]>> \in recorded[s[1]]
                       /\ s[2] \in Briefable => <<"dispatch", s[2]>> \in recorded[s[1]]
    BY DEF FloorBeforeCall
  <2>1. s[1] \in Run /\ s[2] \in Peer /\ node[s[1]][s[2]] = "call"
    BY SlotHolders DEF IInv
  <2>. QED
    BY <2>1 DEF IInv, Good, Progress, Floored
<1>. QED
  BY <1>1, TypeCorrect, Invariance, PTL

\* Model slots in use are those of calls in progress in live runs.
THEOREM SlotsComeBack == Spec => []NoSlotLeaks
<1>1. IInv => NoSlotLeaks
  BY DEF IInv
<1>. QED
  BY <1>1, Invariance, PTL

\* A completed run has what its floors found, and an assessment of every peer
\* it dispatched that had something to judge and no model that judged it.
THEOREM NoPeerPassedOver == Spec => []NoPeerMissing
<1>1. TypeOK /\ IInv => NoPeerMissing
  <2>. SUFFICES ASSUME TypeOK, IInv, NEW r \in Run, phase[r] = "done"
                PROVE  /\ \A a \in found[r] : <<"fact", a>> \in recorded[r]
                       /\ \A a \in plan[r] \cap Peer :
                            Unjudged(r, a) => <<"assessed", a>> \in recorded[r]
    BY DEF NoPeerMissing
  <2>1. Good(r) /\ \A a \in Peer : a \in Agent /\ a # Control
    BY ReviewAssumption DEF IInv, Agent, Fanned
  <2>2. \A a \in plan[r] \cap Peer : node[r][a] = "done"
    BY <2>1 DEF Good, AllDone, Past
  <2>3. found[r] \subseteq plan[r] \cap Peer
    BY <2>1 DEF Good, Planned, TypeOK
  <2>. QED
    BY <2>1, <2>2, <2>3 DEF Good, Progress, Floored
<1>. QED
  BY <1>1, TypeCorrect, Invariance, PTL

\* Control Assurance runs if a peer did, and hears all that the peers of the
\* plan assess: they are done when it is handed their assessments, and none is
\* recorded after that.
THEOREM ControlIsLast == Spec => []ControlHearsAll
<1>1. IInv => ControlHearsAll
  BY DEF IInv, Good, ControlLast, ControlRan, ControlHearsAll
<1>. QED
  BY <1>1, Invariance, PTL
=============================================================================
