-------------------------- MODULE ReportGateProofs --------------------------
(***************************************************************************)
(* Theorems about ReportGate, for any number of threads and drafts, any    *)
(* cap and any bounds: its type, the bound on reruns, that a pending case  *)
(* has a draft to decide, and that it implements DraftLifecycle.           *)
(***************************************************************************)
EXTENDS ReportGate, FiniteSetTheorems, WellFoundedInduction, TLAPS

----------------------------------------------------------------------------
(* The latest of a set of events.                                          *)

\* A non-empty set of positions in a log has a latest one.
LEMMA LatestExists ==
  ASSUME NEW n \in Nat, NEW S \in SUBSET (1 .. n), S # {}
  PROVE  \E i \in S : \A j \in S : j <= i
<1> DEFINE T == {n - i : i \in S}
<1>1. T \subseteq Nat /\ T # {}
  <2>1. \A i \in S : n - i \in Nat
    OBVIOUS
  <2> QED BY <2>1
<1>2. \A i \in S : n - i \in T
  OBVIOUS
<1>3. \A x \in T : \E i \in S : x = n - i
  OBVIOUS
<1> HIDE DEF T
<1>4. PICK x \in T : \A y \in T : ~ (y < x)
  <2> DEFINE R == OpToRel(<, Nat)
  <2>1. IsWellFoundedOn(R, Nat)
    BY NatLessThanWellFounded
  <2>2. PICK x \in T : \A y \in T : ~ (<<y, x>> \in R)
    <3> HIDE DEF R
    <3> QED BY <1>1, <2>1, WFMin
  <2> QED BY <1>1, <2>2 DEF OpToRel
<1>5. PICK i \in S : x = n - i
  BY <1>3
<1> QED BY <1>2, <1>4, <1>5

\* Last(S) is it.
LEMMA LastIsLatest ==
  ASSUME NEW n \in Nat, NEW S \in SUBSET (1 .. n), S # {}
  PROVE  Last(S) \in S /\ \A j \in S : j <= Last(S)
BY LatestExists DEF Last

\* There is no other.
LEMMA LastUnique ==
  ASSUME NEW S \in SUBSET Nat, NEW i \in S, \A j \in S : j <= i
  PROVE  Last(S) = i
<1>1. \A k \in S : (\A j \in S : j <= k) => k = i
  OBVIOUS
<1> QED BY <1>1 DEF Last

\* Of the positions of a log, the one just added is the latest.
LEMMA LastAdded ==
  ASSUME NEW n \in Nat, NEW S \in SUBSET (1 .. n)
  PROVE  Last(S) \in 0 .. n /\ Last(S \cup {n + 1}) = n + 1
<1>1. Last(S) \in 0 .. n
  <2>1. CASE S = {}
    BY <2>1 DEF Last
  <2>2. CASE S # {}
    <3>1. Last(S) \in S
      BY <2>2, LastIsLatest
    <3>2. \A i \in S : i \in 0 .. n
      OBVIOUS
    <3> QED BY <3>1, <3>2
  <2> QED BY <2>1, <2>2
<1>2. Last(S \cup {n + 1}) = n + 1
  <2> DEFINE U == S \cup {n + 1}
  <2>1. U \in SUBSET Nat /\ n + 1 \in U /\ \A j \in U : j <= n + 1
    OBVIOUS
  <2> HIDE DEF U
  <2>2. Last(U) = n + 1
    BY <2>1, LastUnique
  <2> QED BY <2>2 DEF U
<1> QED BY <1>1, <1>2

----------------------------------------------------------------------------
(* What appending an event does to what readers of the log compute.        *)

\* The log is extended at its end.
LEMMA AppendLog ==
  ASSUME NEW l \in Seq(Event), NEW e \in Event
  PROVE  /\ Append(l, e) \in Seq(Event)
         /\ Len(l) \in Nat
         /\ DOMAIN l = 1 .. Len(l)
         /\ Len(Append(l, e)) = Len(l) + 1
         /\ DOMAIN Append(l, e) = 1 .. Len(l) + 1
         /\ \A i \in 1 .. Len(l) : Append(l, e)[i] = l[i]
         /\ Append(l, e)[Len(l) + 1] = e
OBVIOUS

\* The events of given types gain the new one if it is of those.
LEMMA AtAppend ==
  ASSUME NEW l \in Seq(Event), NEW e \in Event, NEW types
  PROVE  /\ At(l, types) \subseteq 1 .. Len(l)
         /\ At(Append(l, e), types) =
              IF e.type \in types THEN At(l, types) \cup {Len(l) + 1} ELSE At(l, types)
<1> QED BY AppendLog DEF At

\* A reset leaves nothing in sight; any other event comes in sight.
LEMMA VisibleAppend ==
  ASSUME NEW l \in Seq(Event), NEW e \in Event
  PROVE  /\ Visible(l) \subseteq 1 .. Len(l)
         /\ Visible(Append(l, e)) =
              IF e.type = "cleared" THEN {} ELSE Visible(l) \cup {Len(l) + 1}
<1> DEFINE C == At(l, {"cleared"})
<1>1. Len(l) \in Nat /\ Len(Append(l, e)) = Len(l) + 1 /\ C \in SUBSET (1 .. Len(l))
  BY AppendLog, AtAppend
<1>2. Last(C) \in 0 .. Len(l) /\ Last(C \cup {Len(l) + 1}) = Len(l) + 1
  <2> HIDE DEF C
  <2> QED BY <1>1, LastAdded
<1>3. At(Append(l, e), {"cleared"}) = IF e.type = "cleared" THEN C \cup {Len(l) + 1} ELSE C
  BY AtAppend
<1>4. /\ Visible(l) = Last(C) + 1 .. Len(l)
      /\ Visible(Append(l, e)) = Last(At(Append(l, e), {"cleared"})) + 1 .. Len(l) + 1
  BY <1>1 DEF Visible
<1> HIDE DEF C
<1>5. Visible(l) \subseteq 1 .. Len(l)
  BY <1>1, <1>2, <1>4
<1>6. CASE e.type = "cleared"
  <2>1. Visible(Append(l, e)) = Len(l) + 1 + 1 .. Len(l) + 1
    BY <1>2, <1>3, <1>4, <1>6
  <2>2. Len(l) + 1 + 1 .. Len(l) + 1 = {}
    BY <1>1
  <2> QED BY <1>5, <1>6, <2>1, <2>2
<1>7. CASE e.type # "cleared"
  <2>1. Visible(Append(l, e)) = Last(C) + 1 .. Len(l) + 1
    BY <1>3, <1>4, <1>7
  <2>2. \A k \in 0 .. Len(l) : k + 1 .. Len(l) + 1 = (k + 1 .. Len(l)) \cup {Len(l) + 1}
    BY <1>1
  <2> QED BY <1>2, <1>4, <1>5, <1>7, <2>1, <2>2
<1> QED BY <1>6, <1>7

\* What a reader sees of given types, which are not the reset itself.
LEMMA SeenAppend ==
  ASSUME NEW l \in Seq(Event), NEW e \in Event, NEW types
  PROVE  /\ Seen(l, types) \subseteq 1 .. Len(l)
         /\ Seen(Append(l, e), types) =
              IF e.type = "cleared" THEN {}
              ELSE IF e.type \in types THEN Seen(l, types) \cup {Len(l) + 1}
              ELSE Seen(l, types)
<1>1. Len(l) \in Nat
  BY AppendLog
<1> QED BY <1>1, AtAppend, VisibleAppend DEF Seen

\* Only a run's own events move its stage.
LEMMA StageAppend ==
  ASSUME NEW l \in Seq(Event), NEW e \in Event, NEW r
  PROVE  StageOf(Append(l, e), r) = IF e.run = r THEN e.type ELSE StageOf(l, r)
<1> DEFINE Mine(m) == {i \in DOMAIN m : m[i].run = r}
<1>1. Len(l) \in Nat /\ Mine(l) \in SUBSET (1 .. Len(l))
  BY AppendLog
<1>2. CASE e.run = r
  <2>1. Mine(Append(l, e)) = Mine(l) \cup {Len(l) + 1}
    BY <1>2, AppendLog
  <2>2. Last(Mine(Append(l, e))) = Len(l) + 1
    <3> HIDE DEF Mine
    <3> QED BY <1>1, <2>1, LastAdded
  <2>3. Mine(Append(l, e)) # {}
    <3> HIDE DEF Mine
    <3> QED BY <2>1
  <2>4. StageOf(Append(l, e), r) =
          IF Mine(Append(l, e)) = {} THEN "none"
          ELSE Append(l, e)[Last(Mine(Append(l, e)))].type
    BY DEF StageOf
  <2> HIDE DEF Mine
  <2> QED BY <1>2, <2>2, <2>3, <2>4, AppendLog
<1>3. CASE e.run # r
  <2>1. Mine(Append(l, e)) = Mine(l)
    BY <1>3, AppendLog
  <2>2. CASE Mine(l) = {}
    BY <1>3, <2>1, <2>2 DEF StageOf
  <2>3. CASE Mine(l) # {}
    <3>1. Last(Mine(l)) \in 1 .. Len(l)
      <4> HIDE DEF Mine
      <4> QED BY <1>1, <2>3, LastIsLatest, AppendLog
    <3>2. Append(l, e)[Last(Mine(l))] = l[Last(Mine(l))]
      BY <3>1, AppendLog
    <3> QED BY <1>3, <2>1, <2>3, <3>2 DEF StageOf
  <2> QED BY <2>2, <2>3
<1> QED BY <1>2, <1>3

\* The events of given types, all of them or those in sight, can be counted.
LEMMA Counts ==
  ASSUME NEW l \in Seq(Event), NEW types
  PROVE  /\ IsFiniteSet(At(l, types)) /\ Cardinality(At(l, types)) \in Nat
         /\ IsFiniteSet(Seen(l, types)) /\ Cardinality(Seen(l, types)) \in Nat
<1>1. IsFiniteSet(1 .. Len(l))
  <2>1. Len(l) \in Nat
    OBVIOUS
  <2> QED BY <2>1, FS_Interval
<1>2. At(l, types) \subseteq 1 .. Len(l) /\ Seen(l, types) \subseteq 1 .. Len(l)
  BY DEF At, Seen
<1> QED BY <1>1, <1>2, FS_Subset, FS_CardinalityType

\* An event adds one to the count of its type; a reset hides all.
LEMMA CountAppend ==
  ASSUME NEW l \in Seq(Event), NEW e \in Event, NEW types
  PROVE  /\ Cardinality(At(Append(l, e), types)) =
              (IF e.type \in types THEN Cardinality(At(l, types)) + 1 ELSE Cardinality(At(l, types)))
         /\ Cardinality(Seen(Append(l, e), types)) =
              IF e.type = "cleared" THEN 0
              ELSE (IF e.type \in types THEN Cardinality(Seen(l, types)) + 1 ELSE Cardinality(Seen(l, types)))
<1>1. Len(l) \in Nat
  BY AppendLog
<1>2. Len(l) + 1 \notin At(l, types) /\ Len(l) + 1 \notin Seen(l, types)
  BY <1>1, AtAppend, SeenAppend
<1>3. /\ Cardinality(At(l, types) \cup {Len(l) + 1}) = Cardinality(At(l, types)) + 1
      /\ Cardinality(Seen(l, types) \cup {Len(l) + 1}) = Cardinality(Seen(l, types)) + 1
  BY <1>2, Counts, FS_AddElement
<1>4. Cardinality(At(Append(l, e), types)) =
        (IF e.type \in types THEN Cardinality(At(l, types)) + 1 ELSE Cardinality(At(l, types)))
  <2>1. CASE e.type \in types
    <3>1. At(Append(l, e), types) = At(l, types) \cup {Len(l) + 1}
      BY <2>1, AtAppend
    <3> QED BY <1>3, <2>1, <3>1
  <2>2. CASE e.type \notin types
    <3>1. At(Append(l, e), types) = At(l, types)
      BY <2>2, AtAppend
    <3> QED BY <1>3, <2>2, <3>1
  <2> QED BY <2>1, <2>2
<1>5. Cardinality(Seen(Append(l, e), types)) =
        IF e.type = "cleared" THEN 0
        ELSE (IF e.type \in types THEN Cardinality(Seen(l, types)) + 1 ELSE Cardinality(Seen(l, types)))
  <2>1. CASE e.type = "cleared"
    <3>1. Seen(Append(l, e), types) = {}
      BY <2>1, SeenAppend
    <3> QED BY <2>1, <3>1, FS_EmptySet
  <2>2. CASE e.type # "cleared" /\ e.type \in types
    <3>1. Seen(Append(l, e), types) = Seen(l, types) \cup {Len(l) + 1}
      BY <2>2, SeenAppend
    <3> QED BY <1>3, <2>2, <3>1
  <2>3. CASE e.type # "cleared" /\ e.type \notin types
    <3>1. Seen(Append(l, e), types) = Seen(l, types)
      BY <2>3, SeenAppend
    <3> QED BY <1>3, <2>3, <3>1
  <2> QED BY <2>1, <2>2, <2>3
<1> QED BY <1>4, <1>5

----------------------------------------------------------------------------
(* Type correctness.                                                       *)

\* What the actions append are events.
LEMMA Events ==
  /\ \A type \in OfRun, r \in Run : [type |-> type, run |-> r] \in Event
  /\ \A type \in Others : [type |-> type, run |-> None] \in Event
BY DEF Event

\* A draft that is at a node is one, and its run is a run.
LEMMA AtNode ==
  ASSUME TypeOK, NEW t \in Thread, draft[t].node # "idle"
  PROVE  draft[t] \in Draft /\ draft[t] # NoDraft /\ draft[t].run \in Run
BY DEF TypeOK, Draft, NoDraft

\* Every action keeps every variable within its type.
LEMMA TypeStep ==
  ASSUME TypeOK, [Next]_vars
  PROVE  TypeOK'
<1> USE DEF TypeOK
<1>1. NoDraft \in Draft \cup {NoDraft}
  OBVIOUS
<1>2. ASSUME NEW t \in Thread, Load(t)
      PROVE  TypeOK'
  <2> DEFINE r == 1 + Cardinality(At(log, {"started"}))
             d == [node |-> "draft", run |-> r, rounds |-> Cardinality(Reruns(log))]
  <2>1. /\ Cardinality(At(log, {"started"})) \in Nat
        /\ Cardinality(Reruns(log)) \in Nat
    BY Counts DEF Reruns
  <2>2. r \in Run /\ d \in Draft
    BY <1>2, <2>1, GateAssumption DEF Load, Run, Draft
  <2>3. log' \in Seq(Event)
    <3>1. log' = Append(log, [type |-> "started", run |-> r])
      BY <1>2 DEF Load, Record
    <3> QED BY <2>2, <3>1, Events DEF OfRun
  <2>4. draft' \in [Thread -> Draft \cup {NoDraft}]
    <3>1. draft' = [draft EXCEPT ![t] = d]
      BY <1>2 DEF Load
    <3> QED BY <2>2, <3>1
  <2>5. dropped' \subseteq Run
    <3>1. draft[t].run \in Run \cup {None}
      BY DEF Draft, NoDraft
    <3> QED BY <1>2, <3>1 DEF Load
  <2> QED BY <2>3, <2>4, <2>5
<1>3. ASSUME NEW t \in Thread, Write(t) \/ Ground(t)
      PROVE  TypeOK'
  <2>1. draft[t] \in Draft
    BY <1>3, AtNode DEF Write, Ground, Step
  <2>2. \A to \in {"ground", "gate"} : [draft[t] EXCEPT !.node = to] \in Draft
    BY <2>1 DEF Draft
  <2>3. PICK type \in OfRun, to \in {"ground", "gate"} :
          /\ draft' = [draft EXCEPT ![t].node = to]
          /\ Record(type, draft[t].run)
    BY <1>3 DEF Write, Ground, Step, OfRun
  <2>4. log' \in Seq(Event)
    <3>1. [type |-> type, run |-> draft[t].run] \in Event
      BY <2>1, Events DEF Draft
    <3> QED BY <2>3, <3>1 DEF Record
  <2>5. draft' \in [Thread -> Draft \cup {NoDraft}]
    BY <2>2, <2>3
  <2> QED BY <1>3, <2>4, <2>5 DEF Write, Ground
<1>4. ASSUME NEW t \in Thread, Block(t) \/ \E action \in Action : Decide(t, action)
      PROVE  TypeOK'
  <2>1. draft[t].run \in Run
    BY <1>4, AtNode DEF Block, Decide
  <2>2. PICK type \in OfRun : Record(type, draft[t].run) /\ End(t) /\ UNCHANGED dropped
    BY <1>4 DEF Block, Decide, OfRun
  <2>3. log' \in Seq(Event)
    <3>1. [type |-> type, run |-> draft[t].run] \in Event
      BY <2>1, Events
    <3> QED BY <2>2, <3>1 DEF Record
  <2> QED BY <2>2, <2>3 DEF End
<1>5. ASSUME NEW t \in Thread, Die(t)
      PROVE  TypeOK'
  BY <1>5 DEF Die, End
<1>6. CASE Restart
  <2>1. \A t \in Thread : draft[t].node = "gate" => draft[t].run \in Run
    BY AtNode
  <2> QED BY <1>6, <2>1 DEF Restart
<1>7. ASSUME NEW type \in Others, Other(type)
      PROVE  TypeOK'
  BY <1>7, Events DEF Other, Record
<1>8. CASE UNCHANGED vars
  BY <1>8 DEF vars
<1> QED BY <1>2, <1>3, <1>4, <1>5, <1>6, <1>7, <1>8 DEF Next

\* The log is a sequence of events, a thread has one draft or none, and what is
\* dropped are runs.
THEOREM TypeCorrect == Spec => []TypeOK
<1>1. Init => TypeOK
  BY DEF Init, TypeOK
<1>2. TypeOK /\ [Next]_vars => TypeOK'
  BY TypeStep
<1> QED BY <1>1, <1>2, PTL DEF Spec

----------------------------------------------------------------------------
(* The cap on reruns.  A draft that was loaded below the cap may still ask  *)
(* for a rerun.  Once the cap is reached no such draft is loaded any more,  *)
(* and each further rerun uses one up.                                      *)

Hopeful == {t \in Thread : draft[t] # NoDraft /\ draft[t].rounds < MaxRounds}

CapInv ==
  Cardinality(Reruns(log)) >= MaxRounds =>
    Cardinality(Reruns(log)) + Cardinality(Hopeful) < MaxRounds + Cardinality(Thread)

\* Threads are counted.
LEMMA HopefulFinite ==
  /\ IsFiniteSet(Hopeful) /\ Cardinality(Hopeful) \in Nat
  /\ Cardinality(Thread) \in Nat /\ Cardinality(Thread) > 0
  /\ Cardinality(Hopeful) <= Cardinality(Thread)
  /\ \A t \in Hopeful : Cardinality(Hopeful \ {t}) = Cardinality(Hopeful) - 1
  /\ \A t \in Thread : \A S \in SUBSET (Thread \ {t}) :
       Cardinality(S) \in Nat /\ Cardinality(S) < Cardinality(Thread)
<1>1. IsFiniteSet(Thread) /\ Thread # {} /\ Hopeful \subseteq Thread
  BY GateAssumption DEF Hopeful
<1>2. /\ IsFiniteSet(Hopeful) /\ Cardinality(Hopeful) \in Nat
      /\ Cardinality(Thread) \in Nat
      /\ Cardinality(Hopeful) <= Cardinality(Thread)
  BY <1>1, FS_Subset, FS_CardinalityType
<1>3. Cardinality(Thread) > 0
  BY <1>1, <1>2, FS_EmptySet
<1>4. \A t \in Hopeful : Cardinality(Hopeful \ {t}) = Cardinality(Hopeful) - 1
  BY <1>2, FS_RemoveElement
<1>5. ASSUME NEW t \in Thread, NEW S \in SUBSET (Thread \ {t})
      PROVE  Cardinality(S) \in Nat /\ Cardinality(S) < Cardinality(Thread)
  <2>1. /\ IsFiniteSet(Thread \ {t})
        /\ Cardinality(Thread \ {t}) = Cardinality(Thread) - 1
    BY <1>1, FS_RemoveElement
  <2>2. Cardinality(S) \in Nat /\ Cardinality(S) <= Cardinality(Thread \ {t})
    BY <2>1, FS_Subset, FS_CardinalityType
  <2> QED BY <1>2, <2>1, <2>2
<1> QED BY <1>2, <1>3, <1>4, <1>5

\* Fewer hopefuls and no more reruns keep the bound.
LEMMA CapKept ==
  ASSUME TypeOK, CapInv, Hopeful' \subseteq Hopeful,
         \/ Cardinality(Reruns(log))' = Cardinality(Reruns(log))
         \/ Cardinality(Reruns(log))' = 0
  PROVE  CapInv'
<1>1. Cardinality(Hopeful') \in Nat /\ Cardinality(Hopeful') <= Cardinality(Hopeful)
  BY HopefulFinite, FS_Subset, FS_CardinalityType
<1>2. CASE Cardinality(Reruns(log))' = Cardinality(Reruns(log))
  <2>1. Cardinality(Reruns(log)) \in Nat
    BY Counts DEF TypeOK, Reruns
  <2> QED BY <1>1, <1>2, <2>1, HopefulFinite, GateAssumption DEF CapInv
<1>3. CASE Cardinality(Reruns(log))' = 0 /\ MaxRounds > 0
  BY <1>3, GateAssumption DEF CapInv
<1>4. CASE Cardinality(Reruns(log))' = 0 /\ MaxRounds = 0
  <2>1. Hopeful = {}
    BY <1>4 DEF Hopeful, TypeOK, Draft
  <2>2. Cardinality(Hopeful') = 0
    BY <1>1, <2>1, FS_EmptySet
  <2> QED BY <1>4, <2>2, HopefulFinite DEF CapInv
<1> QED BY <1>2, <1>3, <1>4, GateAssumption

\* Appending an event changes the number of reruns in sight only if it is a
\* rerun or a reset.
LEMMA RerunsAppend ==
  ASSUME TypeOK, NEW e \in Event, log' = Append(log, e)
  PROVE  /\ Cardinality(Reruns(log)) \in Nat
         /\ e.type = "rerun" => Cardinality(Reruns(log))' = Cardinality(Reruns(log)) + 1
         /\ e.type # "rerun" => \/ Cardinality(Reruns(log))' = Cardinality(Reruns(log))
                                \/ Cardinality(Reruns(log))' = 0
<1>1. Cardinality(Seen(log, {"rerun"})) \in Nat
  BY Counts DEF TypeOK
<1>2. Cardinality(Seen(Append(log, e), {"rerun"})) =
        IF e.type = "cleared" THEN 0
        ELSE (IF e.type \in {"rerun"} THEN Cardinality(Seen(log, {"rerun"})) + 1
              ELSE Cardinality(Seen(log, {"rerun"})))
  BY CountAppend DEF TypeOK
<1>3. CASE e.type = "rerun"
  BY <1>1, <1>2, <1>3 DEF Reruns
<1>4. CASE e.type # "rerun"
  BY <1>1, <1>2, <1>4 DEF Reruns
<1> QED BY <1>3, <1>4

\* A rerun takes its draft out of the hopeful.
LEMMA CapRerun ==
  ASSUME TypeOK, CapInv, NEW t \in Thread, Decide(t, "rerun")
  PROVE  CapInv'
<1> DEFINE n == Cardinality(Reruns(log))
<1>1. draft[t].run \in Run /\ t \in Hopeful
  BY AtNode DEF Decide, Hopeful
<1>2. n \in Nat /\ n' = n + 1
  <2>1. [type |-> "rerun", run |-> draft[t].run] \in Event
    BY <1>1, Events DEF OfRun, Action
  <2> QED BY <2>1, RerunsAppend DEF Decide, Record
<1>3. Hopeful' \subseteq Hopeful \ {t}
  BY DEF Decide, End, Hopeful, TypeOK
<1>4. Cardinality(Hopeful') \in Nat /\ Cardinality(Hopeful') <= Cardinality(Hopeful) - 1
  <2>1. IsFiniteSet(Hopeful \ {t}) /\ Cardinality(Hopeful \ {t}) = Cardinality(Hopeful) - 1
    BY <1>1, HopefulFinite, FS_RemoveElement
  <2> QED BY <1>3, <2>1, FS_Subset, FS_CardinalityType
<1>5. Cardinality(Hopeful') < Cardinality(Thread)
  <2>1. Hopeful' \in SUBSET (Thread \ {t})
    BY <1>3 DEF Hopeful
  <2> QED BY <2>1, HopefulFinite
<1>6. CASE n >= MaxRounds
  <2> HIDE DEF n
  <2> QED BY <1>2, <1>4, <1>6, HopefulFinite, GateAssumption DEF CapInv, n
<1>7. CASE n < MaxRounds
  BY <1>2, <1>4, <1>5, <1>7, HopefulFinite, GateAssumption DEF CapInv
<1> QED BY <1>2, <1>6, <1>7, GateAssumption

\* Every action keeps the bound.
LEMMA CapStep ==
  ASSUME TypeOK, CapInv, [Next]_vars
  PROVE  CapInv'
<1>1. ASSUME NEW t \in Thread, Load(t)
      PROVE  CapInv'
  <2> DEFINE r == 1 + Cardinality(At(log, {"started"}))
             d == [node |-> "draft", run |-> r, rounds |-> Cardinality(Reruns(log))]
             e == [type |-> "started", run |-> r]
  <2>1. log' = Append(log, e) /\ draft' = [draft EXCEPT ![t] = d]
    BY <1>1 DEF Load, Record
  <2>2. e \in Event
    <3>1. Cardinality(At(log, {"started"})) \in Nat
      BY Counts DEF TypeOK
    <3> QED BY <1>1, <3>1, Events, GateAssumption DEF Load, Run, OfRun
  <2>3. /\ Cardinality(Reruns(log)) \in Nat
        /\ \/ Cardinality(Reruns(log))' = Cardinality(Reruns(log))
           \/ Cardinality(Reruns(log))' = 0
    BY <2>1, <2>2, RerunsAppend
  <2>4. CASE Cardinality(Reruns(log)) >= MaxRounds
    <3>1. ~ (d.rounds < MaxRounds)
      BY <2>3, <2>4, GateAssumption
    <3>2. Hopeful' \subseteq Hopeful
      <4> HIDE DEF d
      <4> QED BY <2>1, <3>1 DEF Hopeful, TypeOK
    <3> QED BY <2>3, <3>2, CapKept
  <2>5. CASE Cardinality(Reruns(log)) < MaxRounds
    BY <2>3, <2>5, GateAssumption DEF CapInv
  <2> QED BY <2>3, <2>4, <2>5, GateAssumption
<1>2. ASSUME NEW t \in Thread, NEW type \in OfRun, type # "rerun",
             draft[t].node # "idle", Record(type, draft[t].run),
             \/ End(t)
             \/ \E to \in {"ground", "gate"} : draft' = [draft EXCEPT ![t].node = to]
      PROVE  CapInv'
  <2>1. draft[t].run \in Run /\ draft[t] # NoDraft
    BY <1>2, AtNode
  <2>2. [type |-> type, run |-> draft[t].run] \in Event
    BY <2>1, Events
  <2>3. \/ Cardinality(Reruns(log))' = Cardinality(Reruns(log))
        \/ Cardinality(Reruns(log))' = 0
    BY <1>2, <2>2, RerunsAppend DEF Record
  <2>4. Hopeful' \subseteq Hopeful
    BY <1>2, <2>1 DEF End, Hopeful, TypeOK, Draft, NoDraft
  <2> QED BY <2>3, <2>4, CapKept
<1>3. ASSUME NEW t \in Thread, Write(t) \/ Ground(t) \/ Block(t)
      PROVE  CapInv'
  BY <1>2, <1>3 DEF Write, Ground, Block, Step, OfRun
<1>4. ASSUME NEW t \in Thread, NEW action \in Action, Decide(t, action)
      PROVE  CapInv'
  <2>1. CASE action = "rerun"
    BY <1>4, <2>1, CapRerun
  <2>2. CASE action # "rerun"
    BY <1>2, <1>4, <2>2 DEF Decide, OfRun
  <2> QED BY <2>1, <2>2
<1>5. ASSUME Hopeful' \subseteq Hopeful, UNCHANGED log
      PROVE  CapInv'
  BY <1>5, CapKept
<1>6. ASSUME NEW t \in Thread, Die(t)
      PROVE  CapInv'
  BY <1>5, <1>6 DEF Die, End, Hopeful, TypeOK
<1>7. CASE Restart
  BY <1>5, <1>7 DEF Restart, Hopeful
<1>8. ASSUME NEW type \in Others, Other(type)
      PROVE  CapInv'
  <2>1. [type |-> type, run |-> None] \in Event /\ type # "rerun"
    BY Events, GateAssumption
  <2>2. \/ Cardinality(Reruns(log))' = Cardinality(Reruns(log))
        \/ Cardinality(Reruns(log))' = 0
    BY <1>8, <2>1, RerunsAppend DEF Other, Record
  <2>3. Hopeful' = Hopeful
    BY <1>8 DEF Other, Hopeful
  <2> QED BY <2>2, <2>3, CapKept
<1>9. CASE UNCHANGED vars
  BY <1>5, <1>9 DEF vars, Hopeful
<1> QED BY <1>1, <1>3, <1>4, <1>6, <1>7, <1>8, <1>9 DEF Next

\* However many drafts are parked side by side, they pass the cap by fewer
\* reruns than there are threads.
THEOREM RerunsStayBounded == Spec => []RerunsBounded
<1>1. Init => CapInv
  <2> SUFFICES ASSUME Init PROVE CapInv
    OBVIOUS
  <2>1. Hopeful = {}
    BY DEF Init, Hopeful
  <2>2. Reruns(log) = {}
    BY DEF Init, Reruns, Seen, At
  <2>3. Cardinality(Hopeful) = 0 /\ Cardinality(Reruns(log)) = 0
    BY <2>1, <2>2, FS_EmptySet
  <2> QED BY <2>3, HopefulFinite, GateAssumption DEF CapInv
<1>2. TypeOK /\ CapInv /\ [Next]_vars => CapInv'
  BY CapStep
<1>3. TypeOK /\ CapInv => RerunsBounded
  <2> SUFFICES ASSUME TypeOK, CapInv PROVE RerunsBounded
    OBVIOUS
  <2>1. Cardinality(Reruns(log)) \in Nat
    BY Counts DEF TypeOK, Reruns
  <2> QED BY <2>1, HopefulFinite, GateAssumption DEF CapInv, RerunsBounded
<1> QED BY <1>1, <1>2, <1>3, TypeCorrect, PTL DEF Spec

----------------------------------------------------------------------------
(* The refinement.  The node a draft is at says which event of its run is   *)
(* the last one on the ledger, no two drafts in flight share a run, and     *)
(* runs that have left a trace are those that have been started.            *)

Reached == [draft |-> "started", ground |-> "drafted", gate |-> "checked"]

StageInv ==
  /\ \A t \in Thread : draft[t] # NoDraft =>
       StageOf(log, draft[t].run) = Reached[draft[t].node]
  /\ \A t, u \in Thread : t # u /\ draft[t] # NoDraft /\ draft[u] # NoDraft =>
       draft[t].run # draft[u].run
  /\ \A r \in Run : StageOf(log, r) # "none" =>
       r <= Cardinality(At(log, {"started"}))

\* An event of a run that allows it is a step of the lifecycle.
LEMMA Advances ==
  ASSUME TypeOK, NEW type \in OfRun, NEW r \in Run, Record(type, r),
         type \in Lifecycle!After(StageOf(log, r))
  PROVE  /\ Lifecycle!Next
         /\ \A q \in Run : StageOf(log, q)' = IF q = r THEN type ELSE StageOf(log, q)
<1> DEFINE e == [type |-> type, run |-> r]
<1>1. e \in Event
  BY Events
<1>2. \A q \in Run : StageOf(Append(log, e), q) = IF q = r THEN type ELSE StageOf(log, q)
  <2> HIDE DEF e
  <2>1. e.run = r /\ e.type = type
    BY DEF e
  <2> QED BY <1>1, <2>1, StageAppend DEF TypeOK
<1>3. \A q \in Run : StageOf(log, q)' = IF q = r THEN type ELSE StageOf(log, q)
  BY <1>2 DEF Record
<1>4. [q \in Run |-> StageOf(log, q)]' =
        [[q \in Run |-> StageOf(log, q)] EXCEPT ![r] = type]
  BY <1>3
<1>5. Lifecycle!Advance(r)
  BY <1>4 DEF Lifecycle!Advance
<1> QED BY <1>3, <1>5 DEF Lifecycle!Next

\* How many drafting runs have started never falls, and Load adds one.
LEMMA StartedAppend ==
  ASSUME TypeOK, NEW e \in Event, log' = Append(log, e)
  PROVE  LET c == Cardinality(At(log, {"started"})) IN
         c \in Nat /\ c' = IF e.type = "started" THEN c + 1 ELSE c
<1> DEFINE c == Cardinality(At(log, {"started"}))
<1>1. c \in Nat
  BY Counts DEF TypeOK
<1>2. c' = IF e.type \in {"started"} THEN c + 1 ELSE c
  BY CountAppend DEF TypeOK
<1> QED BY <1>1, <1>2

\* A new drafting run: nobody has its number yet.
LEMMA LoadAdvances ==
  ASSUME TypeOK, StageInv, NEW t \in Thread, Load(t)
  PROVE  StageInv' /\ Lifecycle!Next
<1> DEFINE c == Cardinality(At(log, {"started"}))
           r == 1 + c
           d == [node |-> "draft", run |-> r, rounds |-> Cardinality(Reruns(log))]
<1>1. c \in Nat /\ r \in Run
  <2>1. c \in Nat
    BY Counts DEF TypeOK
  <2> QED BY <2>1, GateAssumption DEF Load, Run
<1>2. c' = r
  <2>1. [type |-> "started", run |-> r] \in Event
    BY <1>1, Events DEF OfRun
  <2> QED BY <1>1, <2>1, StartedAppend DEF Load, Record
<1>3. StageOf(log, r) = "none"
  BY <1>1 DEF StageInv
<1>4. /\ Lifecycle!Next
      /\ \A q \in Run : StageOf(log, q)' = IF q = r THEN "started" ELSE StageOf(log, q)
  <2>1. Record("started", r) /\ "started" \in Lifecycle!After(StageOf(log, r))
    BY <1>3 DEF Load, Lifecycle!After
  <2> QED BY <1>1, <2>1, Advances DEF OfRun
<1>5. \A u \in Thread \ {t} : draft[u] # NoDraft =>
        draft[u].run \in Run /\ draft[u].run # r
  <2> SUFFICES ASSUME NEW u \in Thread \ {t}, draft[u] # NoDraft
               PROVE  draft[u].run \in Run /\ draft[u].run # r
    OBVIOUS
  <2>1. draft[u].run \in Run /\ Reached[draft[u].node] # "none"
    BY DEF TypeOK, Draft, Reached
  <2>2. StageOf(log, draft[u].run) # "none"
    BY <2>1 DEF StageInv
  <2> QED BY <1>3, <2>1, <2>2
<1>6. /\ draft'[t] = d /\ d.run = r /\ Reached[d.node] = "started"
      /\ \A u \in Thread \ {t} : draft'[u] = draft[u]
  BY DEF Load, TypeOK, Reached
<1> HIDE DEF d
<1>7. \A u \in Thread : draft'[u] # NoDraft =>
        StageOf(log, draft[u].run)' = Reached[draft'[u].node]
  BY <1>1, <1>4, <1>5, <1>6 DEF StageInv
<1>8. \A u, v \in Thread : u # v /\ draft'[u] # NoDraft /\ draft'[v] # NoDraft =>
        draft'[u].run # draft'[v].run
  BY <1>5, <1>6 DEF StageInv
<1>9. \A q \in Run : StageOf(log, q)' # "none" => q <= c'
  <2> SUFFICES ASSUME NEW q \in Run, StageOf(log, q)' # "none"
               PROVE  q <= c'
    OBVIOUS
  <2>1. q = r \/ StageOf(log, q) # "none"
    BY <1>4
  <2> QED BY <1>1, <1>2, <2>1 DEF StageInv, Run
<1> QED BY <1>4, <1>7, <1>8, <1>9 DEF StageInv

\* The next event of a draft in flight, which goes on or ends with it.
LEMMA NodeAdvances ==
  ASSUME TypeOK, StageInv, NEW t \in Thread, draft[t].node # "idle",
         NEW type \in OfRun \ {"started"}, Record(type, draft[t].run),
         type \in Lifecycle!After(Reached[draft[t].node]),
         \/ End(t)
         \/ \E to \in {"ground", "gate"} : /\ draft' = [draft EXCEPT ![t].node = to]
                                           /\ Reached[to] = type
  PROVE  StageInv' /\ Lifecycle!Next
<1> DEFINE c == Cardinality(At(log, {"started"}))
           r == draft[t].run
<1>1. draft[t] \in Draft /\ draft[t] # NoDraft /\ r \in Run
  BY AtNode
<1>2. c' = c
  <2>1. [type |-> type, run |-> r] \in Event
    BY <1>1, Events
  <2> QED BY <2>1, StartedAppend DEF Record
<1>3. StageOf(log, r) = Reached[draft[t].node] /\ StageOf(log, r) # "none"
  BY <1>1 DEF StageInv, Draft, Reached
<1>4. /\ Lifecycle!Next
      /\ \A q \in Run : StageOf(log, q)' = IF q = r THEN type ELSE StageOf(log, q)
  BY <1>1, <1>3, Advances
<1>5. /\ \A u \in Thread \ {t} : draft'[u] = draft[u]
      /\ draft'[t] # NoDraft => draft'[t].run = r /\ Reached[draft'[t].node] = type
  BY <1>1 DEF End, TypeOK, Draft
<1>6. \A u \in Thread \ {t} : draft[u] # NoDraft => draft[u].run \in Run /\ draft[u].run # r
  BY <1>1 DEF StageInv, TypeOK, Draft
<1> HIDE DEF r
<1>7. \A u \in Thread : draft'[u] # NoDraft =>
        StageOf(log, draft[u].run)' = Reached[draft'[u].node]
  BY <1>1, <1>4, <1>5, <1>6 DEF StageInv
<1>8. \A u, v \in Thread : u # v /\ draft'[u] # NoDraft /\ draft'[v] # NoDraft =>
        draft'[u].run # draft'[v].run
  BY <1>5, <1>6 DEF StageInv
<1>9. \A q \in Run : StageOf(log, q)' # "none" => q <= c'
  BY <1>1, <1>2, <1>3, <1>4 DEF StageInv
<1> QED BY <1>4, <1>7, <1>8, <1>9 DEF StageInv

\* Every step is one of the lifecycle or invisible to it.
LEMMA StageStep ==
  ASSUME TypeOK, StageInv, [Next]_vars
  PROVE  /\ StageInv'
         /\ Lifecycle!Next \/ UNCHANGED [r \in Run |-> StageOf(log, r)]
<1> DEFINE Goal == /\ StageInv'
                   /\ Lifecycle!Next \/ UNCHANGED [r \in Run |-> StageOf(log, r)]
<1>1. ASSUME NEW t \in Thread, Load(t)
      PROVE  Goal
  BY <1>1, LoadAdvances
<1>2. ASSUME NEW t \in Thread, Write(t) \/ Ground(t) \/ Block(t)
      PROVE  Goal
  <2>1. /\ {"drafted", "checked", "blocked"} \subseteq OfRun \ {"started"}
        /\ Reached["ground"] = "drafted" /\ Reached["gate"] = "checked"
        /\ {"drafted", "blocked"} \subseteq Lifecycle!After(Reached["draft"])
        /\ "checked" \in Lifecycle!After(Reached["ground"])
    BY DEF OfRun, Reached, Lifecycle!After
  <2>2. CASE Write(t)
    BY <2>1, <2>2, NodeAdvances DEF Write, Step
  <2>3. CASE Ground(t)
    BY <2>1, <2>3, NodeAdvances DEF Ground, Step
  <2>4. CASE Block(t)
    BY <2>1, <2>4, NodeAdvances DEF Block
  <2> QED BY <1>2, <2>2, <2>3, <2>4
<1>3. ASSUME NEW t \in Thread, NEW action \in Action, Decide(t, action)
      PROVE  Goal
  <2>1. action \in OfRun \ {"started"} /\ action \in Lifecycle!After(Reached["gate"])
    BY DEF OfRun, Action, Reached, Lifecycle!After
  <2> QED BY <1>3, <2>1, NodeAdvances DEF Decide
<1>4. ASSUME UNCHANGED log, \A t \in Thread : draft'[t] \in {draft[t], NoDraft}
      PROVE  Goal
  BY <1>4 DEF StageInv
<1>5. ASSUME NEW t \in Thread, Die(t)
      PROVE  Goal
  BY <1>4, <1>5 DEF Die, End, TypeOK
<1>6. CASE Restart
  BY <1>4, <1>6 DEF Restart
<1>7. ASSUME NEW type \in Others, Other(type)
      PROVE  Goal
  <2> DEFINE e == [type |-> type, run |-> None]
  <2>1. e \in Event /\ log' = Append(log, e) /\ type # "started"
    BY <1>7, Events, GateAssumption DEF Other, Record
  <2>2. e.run = None /\ e.type = type /\ None \notin Run
    BY GateAssumption DEF Run
  <2> HIDE DEF e
  <2>3. \A r \in Run : StageOf(log, r)' = StageOf(log, r)
    BY <2>1, <2>2, StageAppend DEF TypeOK
  <2>4. Cardinality(At(log, {"started"}))' = Cardinality(At(log, {"started"}))
    BY <2>1, <2>2, StartedAppend
  <2>5. UNCHANGED draft
    BY <1>7 DEF Other
  <2>6. \A t \in Thread : draft[t] # NoDraft => draft[t].run \in Run
    BY DEF TypeOK, Draft
  <2> QED BY <2>3, <2>4, <2>5, <2>6 DEF StageInv
<1>8. CASE UNCHANGED vars
  BY <1>4, <1>8 DEF vars
<1> QED BY <1>1, <1>2, <1>3, <1>5, <1>6, <1>7, <1>8 DEF Next

\* The ledger of a case, read run by run, is a behaviour of DraftLifecycle:
\* whatever interleaves, nothing is decided that the same run did not draft and
\* check before, and nothing is decided twice.
THEOREM GateImplementsLifecycle == Spec => ImplementsLifecycle
<1>1. Init => StageInv /\ Lifecycle!Init
  <2> SUFFICES ASSUME Init PROVE StageInv /\ Lifecycle!Init
    OBVIOUS
  <2>1. \A r : StageOf(log, r) = "none"
    BY DEF Init, StageOf
  <2> QED BY <2>1 DEF Init, StageInv, Lifecycle!Init
<1>2. TypeOK /\ StageInv /\ [Next]_vars =>
        StageInv' /\ [Lifecycle!Next]_([r \in Run |-> StageOf(log, r)])
  BY StageStep
<1> QED BY <1>1, <1>2, TypeCorrect, PTL DEF Spec, ImplementsLifecycle, Lifecycle!Spec

----------------------------------------------------------------------------
(* A pending decision.  Whatever comes after the last "checked" of a case   *)
(* turns the case away from it, unless it concerns other things.            *)

ParkedInv ==
  LET turn == Last(Turns(log)) IN
  turn # 0 /\ log[turn].type = "checked" =>
    \/ log[turn].run \in dropped
    \/ \E t \in Thread : draft[t].node = "gate" /\ draft[t].run = log[turn].run

\* The latest turn after an event: the event, the one before, or none.
LEMMA TurnsAppend ==
  ASSUME NEW l \in Seq(Event), NEW e \in Event
  PROVE  /\ Len(l) \in Nat /\ Last(Turns(l)) \in 0 .. Len(l)
         /\ Last(Turns(Append(l, e))) \in {0, Last(Turns(l)), Len(l) + 1}
         /\ e.type \in {"drafted", "checked"} \cup Action =>
              Last(Turns(Append(l, e))) = Len(l) + 1
<1> DEFINE n == Len(l)
           m == Append(l, e)
           plain == {"drafted", "checked"} \cup Action
<1>1. /\ n \in Nat
      /\ \A types : Seen(l, types) \subseteq 1 .. n
      /\ \A types : Seen(m, types) = IF e.type = "cleared" THEN {}
                                     ELSE IF e.type \in types THEN Seen(l, types) \cup {n + 1}
                                     ELSE Seen(l, types)
  BY AppendLog, SeenAppend
<1>2. Turns(l) \in SUBSET (1 .. n)
  BY <1>1 DEF Turns
<1>3. Last(Turns(l)) \in 0 .. n
  BY <1>1, <1>2, LastAdded
<1>4. CASE e.type = "cleared"
  <2>1. Turns(m) = {}
    BY <1>1, <1>4 DEF Turns
  <2>2. Last({}) = 0
    BY DEF Last
  <2>3. e.type \notin plain
    BY <1>4 DEF Action
  <2> QED BY <1>1, <1>3, <2>1, <2>2, <2>3
<1>5. CASE e.type \in plain
  <2> DEFINE S == Turns(m) \ {n + 1}
  <2>1. e.type # "cleared" /\ e.type # "blocked"
    BY <1>5 DEF Action
  <2>2. n + 1 \in Seen(m, plain) /\ Seen(m, plain) \subseteq Seen(l, plain) \cup {n + 1}
    BY <1>1, <1>5, <2>1
  <2>3. Seen(m, {"blocked"}) = Seen(l, {"blocked"})
    BY <1>1, <2>1
  <2>4. n + 1 \in Turns(m) /\ S \in SUBSET (1 .. n)
    BY <1>1, <2>2, <2>3 DEF Turns
  <2>5. Turns(m) = S \cup {n + 1}
    BY <2>4
  <2>6. Last(Turns(m)) = n + 1
    <3> HIDE DEF S
    <3> QED BY <1>1, <2>4, <2>5, LastAdded
  <2> QED BY <1>1, <1>3, <2>6
<1>6. CASE e.type # "cleared" /\ e.type \notin plain
  <2>1. Seen(m, plain) = Seen(l, plain) /\ Seen(m, {"drafted"}) = Seen(l, {"drafted"})
    BY <1>1, <1>6
  <2>2. Seen(m, {"blocked"}) \in {Seen(l, {"blocked"}), Seen(l, {"blocked"}) \cup {n + 1}}
    BY <1>1, <1>6
  <2>3. Turns(m) = Turns(l) \/ Turns(m) = Turns(l) \cup {n + 1}
    BY <2>1, <2>2 DEF Turns
  <2>4. Last(Turns(m)) = Last(Turns(l)) \/ Last(Turns(m)) = n + 1
    BY <1>1, <1>2, <2>3, LastAdded
  <2> QED BY <1>1, <1>3, <1>6, <2>4
<1> QED BY <1>4, <1>5, <1>6

\* Unless the event is a new "checked", the draft that waited still does.
LEMMA ParkedAppend ==
  ASSUME TypeOK, ParkedInv, NEW e \in Event, log' = Append(log, e),
         \/ e.type # "checked"
         \/ \E t \in Thread : draft'[t].node = "gate" /\ draft'[t].run = e.run,
         \/ e.type \in Action
         \/ /\ dropped \subseteq dropped'
            /\ \A t \in Thread : draft[t].node = "gate" =>
                 draft'[t] = draft[t] \/ draft[t].run \in dropped'
  PROVE  ParkedInv'
<1> DEFINE turn == Last(Turns(log))
<1>1. /\ Len(log) \in Nat /\ turn \in 0 .. Len(log)
      /\ turn' \in {0, turn, Len(log) + 1}
      /\ e.type \in Action => turn' = Len(log) + 1
  BY TurnsAppend DEF TypeOK
<1>2. /\ \A i \in 1 .. Len(log) : log'[i] = log[i]
      /\ log'[Len(log) + 1] = e
  BY AppendLog DEF TypeOK
<1> HIDE DEF turn
<1>3. CASE turn' = 0
  BY <1>3 DEF ParkedInv, turn
<1>4. CASE turn' = Len(log) + 1
  <2>1. log'[turn'] = e
    BY <1>2, <1>4
  <2>2. e.type = "checked" =>
          \E t \in Thread : draft'[t].node = "gate" /\ draft'[t].run = e.run
    OBVIOUS
  <2> QED BY <2>1, <2>2 DEF ParkedInv, turn
<1>5. CASE turn' = turn /\ turn' # Len(log) + 1 /\ turn' # 0
  <2>1. log'[turn'] = log[turn] /\ e.type \notin Action
    BY <1>1, <1>2, <1>5
  <2>2. ParkedInv = (turn # 0 /\ log[turn].type = "checked" =>
                      \/ log[turn].run \in dropped
                      \/ \E t \in Thread : draft[t].node = "gate" /\ draft[t].run = log[turn].run)
    BY DEF ParkedInv, turn
  <2>3. ParkedInv' = (turn' # 0 /\ log'[turn'].type = "checked" =>
                      \/ log'[turn'].run \in dropped'
                      \/ \E t \in Thread : draft'[t].node = "gate" /\ draft'[t].run = log'[turn'].run)
    BY DEF ParkedInv, turn
  <2> QED BY <1>5, <2>1, <2>2, <2>3
<1> QED BY <1>1, <1>3, <1>4, <1>5

\* Every action keeps a waiting draft, decides it or drops it.
LEMMA ParkedStep ==
  ASSUME TypeOK, ParkedInv, [Next]_vars
  PROVE  ParkedInv'
<1>1. ASSUME NEW t \in Thread, Load(t)
      PROVE  ParkedInv'
  <2> DEFINE r == 1 + Cardinality(At(log, {"started"}))
             e == [type |-> "started", run |-> r]
  <2>1. e \in Event
    <3>1. Cardinality(At(log, {"started"})) \in Nat
      BY Counts DEF TypeOK
    <3> QED BY <1>1, <3>1, Events, GateAssumption DEF Load, Run, OfRun
  <2>2. log' = Append(log, e) /\ e.type # "checked"
    BY <1>1 DEF Load, Record
  <2>3. dropped \subseteq dropped' /\ (draft[t].node = "gate" => draft[t].run \in dropped')
    <3>1. draft[t].node = "gate" => draft[t].run # None
      BY AtNode, GateAssumption DEF Run
    <3> QED BY <1>1, <3>1 DEF Load
  <2>4. \A u \in Thread : draft[u].node = "gate" =>
          draft'[u] = draft[u] \/ draft[u].run \in dropped'
    BY <1>1, <2>3 DEF Load, TypeOK
  <2> HIDE DEF e
  <2> QED BY <2>1, <2>2, <2>3, <2>4, ParkedAppend
<1>2. ASSUME NEW t \in Thread, Write(t) \/ Block(t)
      PROVE  ParkedInv'
  <2>1. PICK type \in {"drafted", "blocked"} : Record(type, draft[t].run)
    BY <1>2 DEF Write, Block, Step
  <2> DEFINE e == [type |-> type, run |-> draft[t].run]
  <2>2. e \in Event /\ e.type # "checked" /\ log' = Append(log, e)
    BY <1>2, <2>1, AtNode, Events DEF Write, Block, Step, OfRun, Record
  <2>3. \A u \in Thread : draft[u].node = "gate" => draft'[u] = draft[u]
    BY <1>2 DEF Write, Block, Step, End, TypeOK
  <2>4. dropped' = dropped
    BY <1>2 DEF Write, Block
  <2> HIDE DEF e
  <2> QED BY <2>2, <2>3, <2>4, ParkedAppend
<1>3. ASSUME NEW t \in Thread, Ground(t)
      PROVE  ParkedInv'
  <2> DEFINE e == [type |-> "checked", run |-> draft[t].run]
  <2>1. e \in Event /\ log' = Append(log, e) /\ dropped' = dropped
    BY <1>3, AtNode, Events DEF Ground, Step, OfRun, Record
  <2>2. draft'[t].node = "gate" /\ draft'[t].run = e.run
    BY <1>3, AtNode DEF Ground, Step, TypeOK, Draft
  <2>3. \A u \in Thread : draft[u].node = "gate" => draft'[u] = draft[u]
    BY <1>3 DEF Ground, Step, TypeOK
  <2> HIDE DEF e
  <2> QED BY <2>1, <2>2, <2>3, ParkedAppend
<1>4. ASSUME NEW t \in Thread, NEW action \in Action, Decide(t, action)
      PROVE  ParkedInv'
  <2> DEFINE e == [type |-> action, run |-> draft[t].run]
  <2>1. e \in Event /\ log' = Append(log, e)
    BY <1>4, AtNode, Events DEF Decide, Record, OfRun
  <2>2. e.type \in Action /\ e.type # "checked"
    BY DEF Action
  <2> HIDE DEF e
  <2> QED BY <2>1, <2>2, ParkedAppend
<1>5. ASSUME UNCHANGED log, dropped \subseteq dropped',
             \A t \in Thread : draft[t].node = "gate" =>
               draft'[t] = draft[t] \/ draft[t].run \in dropped'
      PROVE  ParkedInv'
  BY <1>5 DEF ParkedInv
<1>6. ASSUME NEW t \in Thread, Die(t)
      PROVE  ParkedInv'
  BY <1>5, <1>6 DEF Die, End, TypeOK
<1>7. CASE Restart
  BY <1>5, <1>7 DEF Restart
<1>8. ASSUME NEW type \in Others, Other(type)
      PROVE  ParkedInv'
  <2> DEFINE e == [type |-> type, run |-> None]
  <2>1. e \in Event /\ log' = Append(log, e) /\ e.type # "checked" /\ UNCHANGED <<draft, dropped>>
    BY <1>8, Events, GateAssumption DEF Other, Record
  <2> HIDE DEF e
  <2> QED BY <2>1, ParkedAppend
<1>9. CASE UNCHANGED vars
  BY <1>5, <1>9 DEF vars
<1> QED BY <1>1, <1>2, <1>3, <1>4, <1>6, <1>7, <1>8, <1>9 DEF Next

\* A case whose status asks for a decision has a draft that can be decided,
\* unless its checkpoint or its client is gone.
THEOREM PendingHasDraft == Spec => []PendingIsParked
<1>1. Init => ParkedInv
  BY DEF Init, ParkedInv, Turns, Seen, At, Last
<1>2. TypeOK /\ ParkedInv /\ [Next]_vars => ParkedInv'
  BY ParkedStep
<1>3. TypeOK /\ ParkedInv => PendingIsParked
  <2> SUFFICES ASSUME TypeOK, ParkedInv, Status(log) = "pending"
               PROVE  LET r == log[Last(Seen(log, {"checked"}))].run IN
                      r \in dropped \/ \E t \in Thread : draft[t].node = "gate" /\ draft[t].run = r
    BY DEF PendingIsParked
  <2> DEFINE turn == Last(Turns(log))
             C == Seen(log, {"checked"})
  <2>1. turn # 0 /\ log[turn].type = "checked"
    BY DEF Status
  <2>2. Len(log) \in Nat /\ Turns(log) \in SUBSET (1 .. Len(log)) /\ C \subseteq Turns(log)
    BY DEF TypeOK, Turns, Seen, At
  <2>3. turn \in Turns(log) /\ \A j \in Turns(log) : j <= turn
    <3>1. Turns(log) # {}
      BY <2>1 DEF Last
    <3> QED BY <2>2, <3>1, LastIsLatest
  <2>4. turn \in C
    BY <2>1, <2>3 DEF Turns, Seen, At
  <2>5. Last(C) = turn
    <3> HIDE DEF C, turn
    <3> QED BY <2>2, <2>3, <2>4, LastUnique
  <2> QED BY <2>1, <2>5 DEF ParkedInv
<1> QED BY <1>1, <1>2, <1>3, TypeCorrect, PTL DEF Spec
=============================================================================
