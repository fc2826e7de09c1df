---------------------------- MODULE CaseRoomProofs --------------------------
(***************************************************************************)
(* Theorems about CaseRoom, for any claims, verdicts and ways in and any   *)
(* number of runs, resets and decisions: its type, that rounds rise, and   *)
(* what holds of a case as long as nothing strays from its lock.           *)
(***************************************************************************)
EXTENDS CaseRoom, FiniteSetTheorems, WellFoundedInduction, TLAPS

----------------------------------------------------------------------------
(* The invariants.                                                         *)

\* A log is a sequence, of events of several shapes.
IsLog(l) == \E S : l \in Seq(S)

Begun == {"working", "record", "closing"}

\* Run r was started, at a place in the log that a reader still sees.
InSight(r) == \E i \in Seen(log, "started") : log[i].run = r

\* An event of a run carries its round and comes after it was started.
Starts ==
  /\ \A i \in At(log, "started") :
       /\ log[i].run \in Run
       /\ log[i].round = round[log[i].run]
       /\ pc[log[i].run] \notin {"new", "waiting"}
  /\ \A i, j \in At(log, "started") : log[i].run = log[j].run => i = j

\* Rounds do not run ahead of the reviews in sight.
Counted == \A i \in Seen(log, "started") :
             log[i].round <= Cardinality(Seen(log, "started"))

\* A run that completed is over, and did so after it started.
Completions ==
  \A i \in At(log, "completed") :
    /\ log[i].run \in Run /\ pc[log[i].run] = "done"
    /\ \A j \in At(log, "started") : log[j].run = log[i].run => j < i

\* A claim is being looked at only by a run at work, or dead.
AtWork == \A r \in Run : \A c \in Leftover(r) :
            c \in scope[r] /\ pc[r] \in {"working", "dead"}

\* A run assesses a claim once.
AssessedOnce ==
  /\ \A i \in At(log, "assessed") :
       /\ log[i].run \in Run /\ log[i].claim \in Claim
       /\ pc[log[i].run] \notin {"new", "waiting"}
       /\ log[i].claim \notin Leftover(log[i].run)
  /\ \A i, j \in At(log, "assessed") :
       log[i].run = log[j].run /\ log[i].claim = log[j].claim => i = j

\* Chat agents are known to run without the lock.
Agents == \A r \in Run : pc[r] # "new" /\ via[r] = "agent" => r \in strayed

\* What is older than twenty minutes was started, and what was started before
\* it is as old or has completed.
AgedInOrder ==
  /\ \A r \in aged : \E i \in At(log, "started") : log[i].run = r
  /\ \A i, j \in At(log, "started") :
       j < i /\ log[i].run \in aged => log[j].run \in aged \/ Finished(log[j].run)

\* While nothing strays, a run at work holds the lock, and its start is in
\* sight, after every score if it has yet to be scored.
Held == \A r \in Run : pc[r] \in Begun =>
          /\ lock = r
          /\ \E i \in Seen(log, "started") :
               /\ log[i].run = r
               /\ pc[r] # "closing" => \A k \in At(log, "computed") : k < i

\* A dead run that still writes is younger than twenty minutes, and unless it is
\* overtaken its start is in sight.
Leftovers == \A r \in Run : pc[r] = "dead" /\ Leftover(r) # {} =>
               r \notin aged /\ (InSight(r) \/ Overtaken(r))

\* What is about to be signed is what the ledger says, and only runs that are
\* overtaken can still write.
Signing == signing # None =>
             /\ lock = None
             /\ signing = Recommendation(log)
             /\ Facts(log) # {}
             /\ \A r \in Run : pc[r] = "dead" /\ Leftover(r) # {} => Overtaken(r)

\* An assessment in sight has the start of its run in sight.
AssessedInSight ==
  \A i \in Seen(log, "assessed") :
    \E j \in Seen(log, "started") :
      log[j].run = log[i].run /\ log[j].round = log[i].round

Records == Starts /\ Completions /\ AtWork /\ AssessedOnce /\ Agents /\ AgedInOrder

Orderly == Confined => Held /\ Leftovers /\ Signing /\ AssessedInSight


----------------------------------------------------------------------------
(* The latest of a set of events.                                          *)

\* A non-empty set of positions in a log has a latest one.
LEMMA LatestExists ==
  ASSUME NEW n \in Nat, NEW S \in SUBSET (1 .. n), S # {}
  PROVE  \E i \in S : \A j \in S : j <= i
<1> DEFINE T == {n - i : i \in S}
<1>1. T \subseteq Nat /\ T # {}
  <2>1. \A i \in S : n - i \in Nat
    OBVIOUS
  <2> QED BY <2>1
<1>2. \A i \in S : n - i \in T
  OBVIOUS
<1>3. \A x \in T : \E i \in S : x = n - i
  OBVIOUS
<1> HIDE DEF T
<1>4. PICK x \in T : \A y \in T : ~ (y < x)
  <2> DEFINE R == OpToRel(<, Nat)
  <2>1. IsWellFoundedOn(R, Nat)
    BY NatLessThanWellFounded
  <2>2. PICK x \in T : \A y \in T : ~ (<<y, x>> \in R)
    <3> HIDE DEF R
    <3> QED BY <1>1, <2>1, WFMin
  <2> QED BY <1>1, <2>2 DEF OpToRel
<1>5. PICK i \in S : x = n - i
  BY <1>3
<1> QED BY <1>2, <1>4, <1>5

\* Last(S) is it.
LEMMA LastIsLatest ==
  ASSUME NEW n \in Nat, NEW S \in SUBSET (1 .. n)
  PROVE  /\ S = {} => Last(S) = 0
         /\ S # {} => Last(S) \in S
         /\ \A j \in S : j <= Last(S)
BY LatestExists DEF Last

\* The position just added is the latest.
LEMMA LastAdded ==
  ASSUME NEW n \in Nat, NEW S \in SUBSET (1 .. n)
  PROVE  Last(S \cup {n + 1}) = n + 1
<1> DEFINE U == S \cup {n + 1}
<1>1. n + 1 \in Nat /\ U \in SUBSET (1 .. n + 1) /\ n + 1 \in U
  OBVIOUS
<1> HIDE DEF U
<1>2. Last(U) \in U /\ n + 1 <= Last(U)
  BY <1>1, LastIsLatest
<1>3. \A j \in U : j \in Nat /\ j <= n + 1
  BY <1>1
<1>4. Last(U) = n + 1
  <2> HIDE DEF U
  <2>1. Last(U) \in Nat /\ Last(U) <= n + 1
    BY <1>2, <1>3
  <2> QED BY <1>2, <2>1
<1> QED BY <1>4 DEF U

----------------------------------------------------------------------------
(* What appending an event does to what readers of the log compute.        *)

\* The log is extended at its end.
LEMMA AppendLog ==
  ASSUME NEW l, IsLog(l), NEW e
  PROVE  /\ IsLog(Append(l, e))
         /\ Len(l) \in Nat
         /\ DOMAIN l = 1 .. Len(l)
         /\ Len(Append(l, e)) = Len(l) + 1
         /\ DOMAIN Append(l, e) = 1 .. Len(l) + 1
         /\ \A i \in 1 .. Len(l) : Append(l, e)[i] = l[i]
         /\ Append(l, e)[Len(l) + 1] = e
<1>1. PICK S : l \in Seq(S)
  BY DEF IsLog
<1> DEFINE T == S \cup {e}
<1>2. l \in Seq(T) /\ e \in T
  BY <1>1
<1> HIDE DEF T
<1>3. Append(l, e) \in Seq(T)
  BY <1>2
<1> QED BY <1>2, <1>3 DEF IsLog

\* The events of a type gain the new one if it is of that type.
LEMMA AtAppend ==
  ASSUME NEW l, IsLog(l), NEW e, NEW type
  PROVE  /\ At(l, type) \subseteq 1 .. Len(l)
         /\ At(Append(l, e), type) =
              IF e.type = type THEN At(l, type) \cup {Len(l) + 1} ELSE At(l, type)
<1> QED BY AppendLog DEF At

\* A reset leaves nothing in sight; any other event comes in sight.
LEMMA VisibleAppend ==
  ASSUME NEW l, IsLog(l), NEW e
  PROVE  /\ Visible(l) \subseteq 1 .. Len(l)
         /\ Visible(Append(l, e)) =
              IF e.type = "cleared" THEN {} ELSE Visible(l) \cup {Len(l) + 1}
<1> DEFINE C == At(l, "cleared")
<1>1. Len(l) \in Nat /\ Len(Append(l, e)) = Len(l) + 1 /\ C \in SUBSET (1 .. Len(l))
  BY AppendLog, AtAppend
<1>2. Last(C) \in 0 .. Len(l) /\ Last(C \cup {Len(l) + 1}) = Len(l) + 1
  <2> HIDE DEF C
  <2>1. Last(C \cup {Len(l) + 1}) = Len(l) + 1
    BY <1>1, LastAdded
  <2>2. Last(C) \in C \cup {0}
    BY <1>1, LastIsLatest
  <2>3. \A i \in C \cup {0} : i \in 0 .. Len(l)
    BY <1>1
  <2>4. Last(C) \in 0 .. Len(l)
    BY <2>2, <2>3
  <2> QED BY <2>1, <2>4
<1>3. At(Append(l, e), "cleared") = IF e.type = "cleared" THEN C \cup {Len(l) + 1} ELSE C
  BY AtAppend
<1>4. /\ Visible(l) = Last(C) + 1 .. Len(l)
      /\ Visible(Append(l, e)) = Last(At(Append(l, e), "cleared")) + 1 .. Len(l) + 1
  BY <1>1 DEF Visible
<1> HIDE DEF C
<1>5. Visible(l) \subseteq 1 .. Len(l)
  BY <1>1, <1>2, <1>4
<1>6. CASE e.type = "cleared"
  <2>1. Visible(Append(l, e)) = Len(l) + 1 + 1 .. Len(l) + 1
    BY <1>2, <1>3, <1>4, <1>6
  <2>2. Len(l) + 1 + 1 .. Len(l) + 1 = {}
    BY <1>1
  <2> QED BY <1>5, <1>6, <2>1, <2>2
<1>7. CASE e.type # "cleared"
  <2>1. Visible(Append(l, e)) = Last(C) + 1 .. Len(l) + 1
    BY <1>3, <1>4, <1>7
  <2>2. \A k \in 0 .. Len(l) : k + 1 .. Len(l) + 1 = (k + 1 .. Len(l)) \cup {Len(l) + 1}
    BY <1>1
  <2> QED BY <1>2, <1>4, <1>5, <1>7, <2>1, <2>2
<1> QED BY <1>6, <1>7

\* What a reader sees of a type.
LEMMA SeenAppend ==
  ASSUME NEW l, IsLog(l), NEW e, NEW type
  PROVE  /\ Seen(l, type) \subseteq At(l, type)
         /\ Seen(Append(l, e), type) =
              IF e.type = "cleared" THEN {}
              ELSE IF e.type = type THEN Seen(l, type) \cup {Len(l) + 1}
              ELSE Seen(l, type)
<1>1. Len(l) \in Nat
  BY AppendLog
<1> QED BY <1>1, AtAppend, VisibleAppend DEF Seen

\* The same, for a step that records an event.
LEMMA Grown ==
  ASSUME IsLog(log), NEW e, log' = Append(log, e)
  PROVE  /\ Len(log) \in Nat /\ IsLog(log')
         /\ Len(log') = Len(log) + 1
         /\ \A i \in 1 .. Len(log) : log'[i] = log[i]
         /\ log'[Len(log) + 1] = e
         /\ \A type :
              /\ At(log, type) \subseteq 1 .. Len(log)
              /\ At(log', type) = IF e.type = type THEN At(log, type) \cup {Len(log) + 1}
                                  ELSE At(log, type)
              /\ Seen(log, type) \subseteq At(log, type)
              /\ Seen(log', type) = IF e.type = "cleared" THEN {}
                                    ELSE IF e.type = type THEN Seen(log, type) \cup {Len(log) + 1}
                                    ELSE Seen(log, type)
<1>1. /\ Len(log) \in Nat /\ IsLog(log')
      /\ Len(log') = Len(log) + 1
      /\ \A i \in 1 .. Len(log) : log'[i] = log[i]
      /\ log'[Len(log) + 1] = e
  BY AppendLog
<1>2. ASSUME NEW type
      PROVE  /\ At(log, type) \subseteq 1 .. Len(log)
             /\ At(log', type) = IF e.type = type THEN At(log, type) \cup {Len(log) + 1}
                                 ELSE At(log, type)
  BY AtAppend
<1>3. ASSUME NEW type
      PROVE  /\ Seen(log, type) \subseteq At(log, type)
             /\ Seen(log', type) = IF e.type = "cleared" THEN {}
                                   ELSE IF e.type = type THEN Seen(log, type) \cup {Len(log) + 1}
                                   ELSE Seen(log, type)
  BY SeenAppend
<1> QED BY <1>1, <1>2, <1>3

\* Events in sight can be counted.
LEMMA Counts ==
  ASSUME NEW l, IsLog(l), NEW type
  PROVE  IsFiniteSet(Seen(l, type)) /\ Cardinality(Seen(l, type)) \in Nat
<1>1. Len(l) \in Nat /\ IsFiniteSet(1 .. Len(l))
  BY AppendLog, FS_Interval
<1>2. Seen(l, type) \subseteq 1 .. Len(l)
  BY AtAppend, SeenAppend
<1> QED BY <1>1, <1>2, FS_Subset, FS_CardinalityType

\* An event in sight adds one to the count of its type.
LEMMA CountAppend ==
  ASSUME NEW l, IsLog(l), NEW e, e.type # "cleared"
  PROVE  Cardinality(Seen(Append(l, e), e.type)) = Cardinality(Seen(l, e.type)) + 1
<1>1. Len(l) \in Nat /\ Seen(l, e.type) \subseteq 1 .. Len(l)
  BY AppendLog, AtAppend, SeenAppend
<1>2. Len(l) + 1 \notin Seen(l, e.type)
  BY <1>1
<1>3. Seen(Append(l, e), e.type) = Seen(l, e.type) \cup {Len(l) + 1}
  BY SeenAppend
<1> QED BY <1>2, <1>3, Counts, FS_AddElement

\* No run is nobody.
LEMMA RunNotNone == \A r \in Run : r # None
BY RoomAssumption DEF Run

----------------------------------------------------------------------------
(* Type correctness.                                                       *)

LEMMA RoundIsNat == IsLog(log) => NextRound(log) \in Nat
BY Counts DEF NextRound

\* The facts in sight are claims.
FactsAreClaims == \A i \in At(log, "fact") : log[i].claim \in Claim

Typed == IsLog(log) /\ TypeOK /\ FactsAreClaims

\* A run that moves on, or lets go of the lock, leaves the lock with a live run.
LEMMA LockStaysLive ==
  ASSUME TypeOK, NEW r \in Run, NEW to,
         pc' = [pc EXCEPT ![r] = to],
         to \notin Over \/ Unlock(r), lock' \in {lock, None}
  PROVE  lock' \in {q \in Run : Live(q)'} \cup {None}
<1>1. \A q \in Run : q # r => pc'[q] = pc[q]
  BY DEF TypeOK
<1>2. pc'[r] = to
  BY DEF TypeOK
<1>3. lock # None => lock \in Run /\ pc[lock] \notin Over
  BY DEF TypeOK, Live
<1>4. CASE lock' = None
  BY <1>4
<1>5. CASE lock' # None
  <2>1. lock' = lock /\ lock \in Run
    BY <1>3, <1>5
  <2>2. CASE lock = r
    <3>1. to \notin Over
      BY <1>5, <2>1, <2>2 DEF Unlock
    <3> QED BY <1>2, <2>1, <2>2, <3>1 DEF Live
  <2>3. CASE lock # r
    BY <1>1, <1>3, <1>5, <2>1, <2>3 DEF Live
  <2> QED BY <2>2, <2>3
<1> QED BY <1>4, <1>5

\* What a step does to the log keeps it a log whose events are of runs.
LEMMA LogStaysTyped ==
  ASSUME IsLog(log), TypeOK, FactsAreClaims, NEW e, log' = Append(log, e),
         "run" \in DOMAIN e => e.run \in Run,
         e.type = "fact" => e.claim \in Claim
  PROVE  /\ IsLog(log') /\ FactsAreClaims'
         /\ \A i \in DOMAIN log' : "run" \in DOMAIN log'[i] => log'[i].run \in Run
<1>1. DOMAIN log = 1 .. Len(log) /\ DOMAIN log' = 1 .. Len(log) + 1
  BY AppendLog
<1>2. \A i \in 1 .. Len(log) + 1 : i \in 1 .. Len(log) \/ i = Len(log) + 1
  BY Grown
<1>3. \A i \in 1 .. Len(log) : "run" \in DOMAIN log'[i] => log'[i].run \in Run
  BY <1>1, Grown DEF TypeOK
<1>4. FactsAreClaims'
  BY Grown DEF FactsAreClaims
<1> QED BY <1>1, <1>2, <1>3, <1>4, Grown

\* Every action keeps every variable within its type.
LEMMA TypeStep ==
  ASSUME Typed, [Next]_vars
  PROVE  Typed'
<1> USE DEF Typed
<1> USE DEF TypeOK
<1>1. ASSUME NEW r \in Run, Arrive(r)
      PROVE  Typed'
  <2>1. pc' = [pc EXCEPT ![r] = "waiting"] /\ UNCHANGED lock
    BY <1>1 DEF Arrive, Goto
  <2>2. lock' \in {q \in Run : Live(q)'} \cup {None}
    BY <2>1, LockStaysLive DEF Over
  <2>3. PICK e \in Entry, s \in SUBSET Claim :
          /\ via' = [via EXCEPT ![r] = e] /\ scope' = [scope EXCEPT ![r] = s]
          /\ strayed' \in {strayed \cup {r}, strayed}
    BY <1>1 DEF Arrive
  <2> QED BY <1>1, <2>1, <2>2, <2>3 DEF Arrive, FactsAreClaims, IsLog, Over
<1>2. ASSUME NEW r \in Run, Start(r)
      PROVE  Typed'
  <2>1. pc' = [pc EXCEPT ![r] = "working"] /\ lock' \in {lock, r}
    BY <1>2 DEF Start, Goto, Lock
  <2>2. lock' \in {q \in Run : Live(q)'} \cup {None}
    <3>1. CASE lock' = lock
      BY <2>1, <3>1, LockStaysLive DEF Over
    <3>2. CASE lock' = r
      BY <2>1, <3>2 DEF Live, Over
    <3> QED BY <2>1, <3>1, <3>2
  <2> DEFINE e == [type |-> "started", run |-> r, round |-> NextRound(log)]
  <2>3. log' = Append(log, e) /\ e.run = r /\ e.type # "fact"
    BY <1>2 DEF Start, Record
  <2>4. /\ IsLog(log') /\ FactsAreClaims'
        /\ \A i \in DOMAIN log' : "run" \in DOMAIN log'[i] => log'[i].run \in Run
    <3> HIDE DEF e
    <3> QED BY <2>3, LogStaysTyped
  <2>5. Facts(log) \subseteq Claim
    BY SeenAppend DEF Facts, FactsAreClaims
  <2>6. known' \in [Run -> SUBSET Claim] /\ round' \in [Run -> Nat]
    BY <1>2, <2>5, RoundIsNat DEF Start
  <2>7. stage' \in [Run -> [Claim -> {"off", "floor", "model", "done"}]]
    BY <1>2 DEF Start
  <2> QED BY <1>2, <2>1, <2>2, <2>4, <2>6, <2>7 DEF Start, Over
<1>3. ASSUME NEW r \in Run, NEW c \in Claim, WriteFloor(r, c)
      PROVE  Typed'
  <2>1. stage' \in [Run -> [Claim -> {"off", "floor", "model", "done"}]]
    BY <1>3 DEF WriteFloor
  <2>2. UNCHANGED <<pc, via, scope, round, known, lock, aged, orphans>>
    BY <1>3 DEF WriteFloor, run
  <2>3. /\ IsLog(log') /\ FactsAreClaims' /\ strayed' \subseteq Run
        /\ \A i \in DOMAIN log' : "run" \in DOMAIN log'[i] => log'[i].run \in Run
    <3>1. CASE c \in known[r]
      BY <1>3, <3>1 DEF WriteFloor, IsLog, FactsAreClaims
    <3>2. CASE c \notin known[r]
      <4> DEFINE e == [type |-> "fact", run |-> r, claim |-> c]
      <4>1. log' = Append(log, e) /\ e.run = r /\ e.claim = c /\ strayed' \subseteq Run
        BY <1>3, <3>2 DEF WriteFloor, Record, Stray
      <4> HIDE DEF e
      <4> QED BY <4>1, LogStaysTyped
    <3> QED BY <3>1, <3>2
  <2> QED BY <2>1, <2>2, <2>3 DEF Live
<1>4. ASSUME NEW r \in Run, NEW c \in Claim, WriteAssessment(r, c)
      PROVE  Typed'
  <2>1. stage' \in [Run -> [Claim -> {"off", "floor", "model", "done"}]]
    BY <1>4 DEF WriteAssessment
  <2>2. /\ UNCHANGED <<pc, via, scope, round, known, lock, aged, orphans>>
        /\ strayed' \subseteq Run
    BY <1>4 DEF WriteAssessment, run, Stray
  <2>3. PICK v \in Verdict : log' = Append(log, [type |-> "assessed", run |-> r, claim |-> c,
                                                 round |-> round[r], verdict |-> v])
    BY <1>4 DEF WriteAssessment, Record
  <2>4. /\ IsLog(log') /\ FactsAreClaims'
        /\ \A i \in DOMAIN log' : "run" \in DOMAIN log'[i] => log'[i].run \in Run
    <3> DEFINE e == [type |-> "assessed", run |-> r, claim |-> c,
                     round |-> round[r], verdict |-> v]
    <3>1. e.run = r /\ e.type # "fact" /\ log' = Append(log, e)
      BY <2>3
    <3> HIDE DEF e
    <3> QED BY <3>1, LogStaysTyped
  <2> QED BY <2>1, <2>2, <2>4 DEF Live
<1>5. ASSUME NEW r \in Run, Critic(r) \/ Compute(r)
      PROVE  Typed'
  <2>1. PICK to \in {"record", "closing"} : pc' = [pc EXCEPT ![r] = to]
    BY <1>5 DEF Critic, Compute, Goto
  <2>2. UNCHANGED <<via, scope, round, known, stage, lock, aged, orphans, strayed>>
    BY <1>5 DEF Critic, Compute, run
  <2>3. /\ IsLog(log') /\ FactsAreClaims'
        /\ \A i \in DOMAIN log' : "run" \in DOMAIN log'[i] => log'[i].run \in Run
    <3>1. CASE Critic(r)
      <4>1. PICK bad \in SUBSET scope[r] :
              log' = Append(log, [type |-> "checked", run |-> r, round |-> round[r],
                                  failed |-> bad])
        BY <3>1 DEF Critic, Record
      <4> DEFINE e == [type |-> "checked", run |-> r, round |-> round[r], failed |-> bad]
      <4>2. e.run = r /\ e.type # "fact" /\ log' = Append(log, e)
        BY <4>1
      <4> HIDE DEF e
      <4> QED BY <4>2, LogStaysTyped
    <3>2. CASE Compute(r)
      <4> DEFINE e == [type |-> "computed", run |-> r, basis |-> Recommendation(log)]
      <4>1. e.run = r /\ e.type # "fact" /\ log' = Append(log, e)
        BY <3>2 DEF Compute, Record
      <4> HIDE DEF e
      <4> QED BY <4>1, LogStaysTyped
    <3> QED BY <1>5, <3>1, <3>2
  <2>4. lock' \in {q \in Run : Live(q)'} \cup {None}
    BY <2>1, <2>2, LockStaysLive DEF Over
  <2> QED BY <2>1, <2>2, <2>3, <2>4 DEF Over
<1>6. ASSUME NEW r \in Run, Reply(r)
      PROVE  Typed'
  <2>1. pc' = [pc EXCEPT ![r] = "closing"] /\ UNCHANGED lock
    BY <1>6 DEF Reply, Goto
  <2>2. lock' \in {q \in Run : Live(q)'} \cup {None}
    BY <2>1, LockStaysLive DEF Over
  <2> QED BY <1>6, <2>1, <2>2 DEF Reply, Over, IsLog, FactsAreClaims, run
<1>7. ASSUME NEW r \in Run, Complete(r)
      PROVE  Typed'
  <2>1. pc' = [pc EXCEPT ![r] = "done"] /\ Unlock(r) /\ lock' \in {lock, None}
    BY <1>7 DEF Complete, Goto, Unlock
  <2>2. lock' \in {q \in Run : Live(q)'} \cup {None}
    BY <2>1, LockStaysLive DEF Over
  <2> DEFINE e == [type |-> "completed", run |-> r]
  <2>3. e.run = r /\ e.type # "fact" /\ log' = Append(log, e)
    BY <1>7 DEF Complete, Record
  <2>4. /\ IsLog(log') /\ FactsAreClaims'
        /\ \A i \in DOMAIN log' : "run" \in DOMAIN log'[i] => log'[i].run \in Run
    <3> HIDE DEF e
    <3> QED BY <2>3, LogStaysTyped
  <2> QED BY <1>7, <2>1, <2>2, <2>4 DEF Complete, Over, run
<1>8. ASSUME NEW r \in Run, Die(r)
      PROVE  Typed'
  <2>1. pc' = [pc EXCEPT ![r] = "dead"] /\ Unlock(r) /\ lock' \in {lock, None}
    BY <1>8 DEF Die, Unlock
  <2>2. lock' \in {q \in Run : Live(q)'} \cup {None}
    BY <2>1, LockStaysLive DEF Over
  <2>3. PICK begun \in SUBSET Leftover(r) :
          /\ stage' = [stage EXCEPT ![r] = [c \in Claim |-> IF c \in begun THEN @[c]
                                                            ELSE "off"]]
          /\ strayed' \in {strayed \cup {r}, strayed}
    BY <1>8 DEF Die
  <2>4. stage' \in [Run -> [Claim -> {"off", "floor", "model", "done"}]]
    BY <2>3
  <2> QED BY <1>8, <2>1, <2>2, <2>3, <2>4 DEF Die, Over, IsLog, FactsAreClaims, run
<1>9. ASSUME NEW r \in Run, Orphan(r)
      PROVE  Typed'
  BY <1>9 DEF Orphan, Unlock, Live, IsLog, FactsAreClaims, run
<1>10. ASSUME NEW r \in Run, Age(r)
      PROVE  Typed'
  BY <1>10 DEF Age, Live, IsLog, FactsAreClaims, run
<1>11. CASE Restart
  <2>1. pc' \in [Run -> Over \cup {"waiting", "working", "record", "closing"}]
    BY <1>11 DEF Restart, Over
  <2> QED BY <1>11, <2>1 DEF Restart, IsLog, FactsAreClaims, run
<1>12. CASE Reset
  <2> DEFINE e == [type |-> "cleared"]
  <2>1. "run" \notin DOMAIN e /\ e.type # "fact" /\ log' = Append(log, e)
    BY <1>12 DEF Reset, Record
  <2>2. /\ IsLog(log') /\ FactsAreClaims'
        /\ \A i \in DOMAIN log' : "run" \in DOMAIN log'[i] => log'[i].run \in Run
    <3> HIDE DEF e
    <3> QED BY <2>1, LogStaysTyped
  <2> QED BY <1>12, <2>2 DEF Reset, Live, run
<1>13. CASE ReadToSign
  BY <1>13 DEF ReadToSign, Live, IsLog, FactsAreClaims, run
<1>14. CASE Sign
  <2> DEFINE e == [type |-> "decided", basis |-> signing]
  <2>1. "run" \notin DOMAIN e /\ e.type # "fact" /\ log' = Append(log, e)
    BY <1>14 DEF Sign, Record
  <2>2. /\ IsLog(log') /\ FactsAreClaims'
        /\ \A i \in DOMAIN log' : "run" \in DOMAIN log'[i] => log'[i].run \in Run
    <3> HIDE DEF e
    <3> QED BY <2>1, LogStaysTyped
  <2> QED BY <1>14, <2>2 DEF Sign, Live, run
<1>15. CASE UNCHANGED vars
  BY <1>15 DEF vars, Live, IsLog, FactsAreClaims
<1> QED BY <1>1, <1>2, <1>3, <1>4, <1>5, <1>6, <1>7, <1>8, <1>9, <1>10, <1>11, <1>12,
           <1>13, <1>14, <1>15 DEF Next, Review

LEMMA TypeInit == Init => Typed
<1> SUFFICES ASSUME Init
             PROVE  Typed
  OBVIOUS
<1>1. IsLog(log) /\ DOMAIN log = {}
  <2>1. log \in Seq({})
    BY DEF Init
  <2> QED BY <2>1 DEF Init, IsLog
<1>2. FactsAreClaims
  BY <1>1 DEF FactsAreClaims, At
<1> QED BY <1>1, <1>2 DEF Init, Typed, TypeOK, Over

----------------------------------------------------------------------------
(* What one step does to the log and to the runs.                          *)

\* What is recorded stays, and at most one event is added.
LEMMA LogStep ==
  ASSUME Typed, [Next]_vars
  PROVE  /\ Len(log) \in Nat
         /\ UNCHANGED log \/ \E e : log' = Append(log, e)
         /\ \A i \in 1 .. Len(log) : log'[i] = log[i]
         /\ \A type : At(log, type) \subseteq 1 .. Len(log) /\ At(log, type) \subseteq At(log', type)
<1>1. UNCHANGED log \/ \E e : log' = Append(log, e)
  BY DEF Next, vars, Arrive, Review, Start, WriteFloor, WriteAssessment, Critic, Compute,
         Reply, Complete, Die, Orphan, Age, Restart, Reset, ReadToSign, Sign, Record
<1>2. CASE UNCHANGED log
  BY <1>1, <1>2, AppendLog, AtAppend DEF Typed
<1>3. ASSUME NEW e, log' = Append(log, e)
      PROVE  /\ Len(log) \in Nat
             /\ \A i \in 1 .. Len(log) : log'[i] = log[i]
             /\ \A type : /\ At(log, type) \subseteq 1 .. Len(log)
                          /\ At(log, type) \subseteq At(log', type)
  BY <1>3, Grown DEF Typed
<1> QED BY <1>1, <1>2, <1>3

\* The action that recorded an event, by its type.
Writer(type, e) ==
  CASE type = "started" -> e.run \in Run /\ Start(e.run) /\ e.round = NextRound(log)
    [] type = "fact" -> e.run \in Run /\ e.claim \in Claim /\ WriteFloor(e.run, e.claim)
    [] type = "assessed" -> /\ e.run \in Run /\ e.claim \in Claim
                            /\ WriteAssessment(e.run, e.claim)
                            /\ e.round = round[e.run]
    [] type = "checked" -> e.run \in Run /\ Critic(e.run)
    [] type = "computed" -> e.run \in Run /\ Compute(e.run) /\ e.basis = Recommendation(log)
    [] type = "completed" -> e.run \in Run /\ Complete(e.run)
    [] type = "cleared" -> Reset
    [] type = "decided" -> Sign /\ e.basis = signing
    [] OTHER -> FALSE

LEMMA Wrote ==
  ASSUME Typed, [Next]_vars, ~ UNCHANGED log
  PROVE  \E e : log' = Append(log, e) /\ Writer(e.type, e)
<1>1. ASSUME NEW r \in Run, Start(r)
      PROVE  \E e : log' = Append(log, e) /\ Writer(e.type, e)
  <2> DEFINE e == [type |-> "started", run |-> r, round |-> NextRound(log)]
  <2>1. log' = Append(log, e)
    BY <1>1 DEF Start, Record
  <2>2. e.type = "started" /\ e.run = r /\ e.round = NextRound(log)
    OBVIOUS
  <2> HIDE DEF e
  <2> QED BY <1>1, <2>1, <2>2 DEF Writer
<1>2. ASSUME NEW r \in Run, NEW c \in Claim, WriteFloor(r, c)
      PROVE  \E e : log' = Append(log, e) /\ Writer(e.type, e)
  <2> DEFINE e == [type |-> "fact", run |-> r, claim |-> c]
  <2>1. log' = Append(log, e)
    BY <1>2 DEF WriteFloor, Record
  <2>2. e.type = "fact" /\ e.run = r /\ e.claim = c
    OBVIOUS
  <2> HIDE DEF e
  <2> QED BY <1>2, <2>1, <2>2 DEF Writer
<1>3. ASSUME NEW r \in Run, NEW c \in Claim, WriteAssessment(r, c)
      PROVE  \E e : log' = Append(log, e) /\ Writer(e.type, e)
  <2>1. PICK v \in Verdict : log' = Append(log, [type |-> "assessed", run |-> r, claim |-> c,
                                                 round |-> round[r], verdict |-> v])
    BY <1>3 DEF WriteAssessment, Record
  <2> DEFINE e == [type |-> "assessed", run |-> r, claim |-> c,
                   round |-> round[r], verdict |-> v]
  <2>2. log' = Append(log, e) /\ e.type = "assessed" /\ e.run = r /\ e.claim = c
        /\ e.round = round[r]
    BY <2>1
  <2> HIDE DEF e
  <2> QED BY <1>3, <2>2 DEF Writer
<1>4. ASSUME NEW r \in Run, Critic(r)
      PROVE  \E e : log' = Append(log, e) /\ Writer(e.type, e)
  <2>1. PICK bad \in SUBSET scope[r] :
          log' = Append(log, [type |-> "checked", run |-> r, round |-> round[r],
                              failed |-> bad])
    BY <1>4 DEF Critic, Record
  <2> DEFINE e == [type |-> "checked", run |-> r, round |-> round[r], failed |-> bad]
  <2>2. log' = Append(log, e) /\ e.type = "checked" /\ e.run = r
    BY <2>1
  <2> HIDE DEF e
  <2> QED BY <1>4, <2>2 DEF Writer
<1>5. ASSUME NEW r \in Run, Compute(r)
      PROVE  \E e : log' = Append(log, e) /\ Writer(e.type, e)
  <2> DEFINE e == [type |-> "computed", run |-> r, basis |-> Recommendation(log)]
  <2>1. log' = Append(log, e)
    BY <1>5 DEF Compute, Record
  <2>2. e.type = "computed" /\ e.run = r /\ e.basis = Recommendation(log)
    OBVIOUS
  <2> HIDE DEF e
  <2> QED BY <1>5, <2>1, <2>2 DEF Writer
<1>6. ASSUME NEW r \in Run, Complete(r)
      PROVE  \E e : log' = Append(log, e) /\ Writer(e.type, e)
  <2> DEFINE e == [type |-> "completed", run |-> r]
  <2>1. log' = Append(log, e)
    BY <1>6 DEF Complete, Record
  <2>2. e.type = "completed" /\ e.run = r
    OBVIOUS
  <2> HIDE DEF e
  <2> QED BY <1>6, <2>1, <2>2 DEF Writer
<1>7. CASE Reset
  <2> DEFINE e == [type |-> "cleared"]
  <2>1. log' = Append(log, e) /\ e.type = "cleared"
    BY <1>7 DEF Reset, Record
  <2> HIDE DEF e
  <2> QED BY <1>7, <2>1 DEF Writer
<1>8. CASE Sign
  <2> DEFINE e == [type |-> "decided", basis |-> signing]
  <2>1. log' = Append(log, e)
    BY <1>8 DEF Sign, Record
  <2>2. e.type = "decided" /\ e.basis = signing
    OBVIOUS
  <2> HIDE DEF e
  <2> QED BY <1>8, <2>1, <2>2 DEF Writer
<1>9. /\ \A r \in Run : ~ Arrive(r) /\ ~ Reply(r) /\ ~ Die(r) /\ ~ Orphan(r) /\ ~ Age(r)
      /\ ~ Restart /\ ~ ReadToSign /\ ~ UNCHANGED vars
  BY DEF Arrive, Reply, Die, Orphan, Age, Restart, ReadToSign, vars
<1> QED BY <1>1, <1>2, <1>3, <1>4, <1>5, <1>6, <1>7, <1>8, <1>9 DEF Next, Review

\* An event that was not there before, and who recorded it.
LEMMA NewEvent ==
  ASSUME Typed, [Next]_vars, NEW type, NEW i \in At(log', type), i \notin At(log, type)
  PROVE  /\ i = Len(log) + 1 /\ log' = Append(log, log'[i])
         /\ Writer(type, log'[i])
<1>1. ~ UNCHANGED log
  OBVIOUS
<1>2. PICK e : log' = Append(log, e) /\ Writer(e.type, e)
  BY <1>1, Wrote
<1>3. i = Len(log) + 1 /\ e.type = type /\ log'[i] = e
  BY <1>2, Grown DEF Typed
<1> QED BY <1>2, <1>3

\* What is in sight stays in sight, with what is new, unless it is reset.
LEMMA SightStep ==
  ASSUME Typed, [Next]_vars
  PROVE  \/ Reset /\ \A type : Seen(log', type) = {}
         \/ /\ At(log', "cleared") = At(log, "cleared")
            /\ \A type : Seen(log', type) = Seen(log, type) \cup (At(log', type) \ At(log, type))
<1>1. CASE UNCHANGED log
  BY <1>1
<1>2. CASE ~ UNCHANGED log
  <2>1. PICK e : log' = Append(log, e) /\ Writer(e.type, e)
    BY <1>2, Wrote
  <2>2. CASE e.type = "cleared"
    <3>1. Reset
      BY <2>1, <2>2 DEF Writer
    <3>2. ASSUME NEW type
          PROVE  Seen(log', type) = {}
      BY <2>1, <2>2, SeenAppend DEF Typed
    <3> QED BY <3>1, <3>2
  <2>3. CASE e.type # "cleared"
    <3>1. At(log', "cleared") = At(log, "cleared")
      BY <2>1, <2>3, AtAppend DEF Typed
    <3>2. ASSUME NEW type
          PROVE  Seen(log', type) = Seen(log, type) \cup (At(log', type) \ At(log, type))
      <4>1. /\ Len(log) + 1 \notin At(log, type)
            /\ At(log', type) = IF e.type = type THEN At(log, type) \cup {Len(log) + 1}
                                ELSE At(log, type)
            /\ Seen(log', type) = IF e.type = type THEN Seen(log, type) \cup {Len(log) + 1}
                                  ELSE Seen(log, type)
        BY <2>1, <2>3, Grown DEF Typed
      <4> QED BY <4>1
    <3> QED BY <3>1, <3>2
  <2> QED BY <2>2, <2>3
<1> QED BY <1>1, <1>2

\* Runs only move on, and what a run was given at its start stays with it.
LEMMA Onward ==
  ASSUME Typed, [Next]_vars, NEW r \in Run
  PROVE  /\ pc[r] # "new" => pc'[r] # "new" /\ via'[r] = via[r]
         /\ pc[r] \notin {"new", "waiting"} =>
              /\ pc'[r] \notin {"new", "waiting"}
              /\ round'[r] = round[r] /\ scope'[r] = scope[r]
              /\ Leftover(r)' \subseteq Leftover(r)
         /\ pc[r] = "done" => pc'[r] = "done"
         /\ strayed \subseteq strayed' /\ aged \subseteq aged'
<1> USE DEF Typed
<1> USE DEF TypeOK
<1>1. ASSUME NEW q \in Run, Arrive(q)
      PROVE  /\ pc[r] # "new" => pc'[r] # "new" /\ via'[r] = via[r]
             /\ pc[r] \notin {"new", "waiting"} =>
                  /\ pc'[r] \notin {"new", "waiting"}
                  /\ round'[r] = round[r] /\ scope'[r] = scope[r]
                  /\ Leftover(r)' \subseteq Leftover(r)
             /\ pc[r] = "done" => pc'[r] = "done"
             /\ strayed \subseteq strayed' /\ aged \subseteq aged'
  <2>1. CASE q = r
    BY <1>1, <2>1 DEF Arrive, Goto
  <2>2. CASE q # r
    <3>1. pc'[r] = pc[r] /\ via'[r] = via[r] /\ scope'[r] = scope[r]
      BY <1>1, <2>2 DEF Arrive, Goto
    <3> QED BY <1>1, <3>1 DEF Arrive, Leftover
  <2> QED BY <2>1, <2>2
<1>2. ASSUME NEW q \in Run, Start(q)
      PROVE  /\ pc[r] # "new" => pc'[r] # "new" /\ via'[r] = via[r]
             /\ pc[r] \notin {"new", "waiting"} =>
                  /\ pc'[r] \notin {"new", "waiting"}
                  /\ round'[r] = round[r] /\ scope'[r] = scope[r]
                  /\ Leftover(r)' \subseteq Leftover(r)
             /\ pc[r] = "done" => pc'[r] = "done"
             /\ strayed \subseteq strayed' /\ aged \subseteq aged'
  <2>1. CASE q = r
    BY <1>2, <2>1 DEF Start, Goto
  <2>2. CASE q # r
    <3>1. pc'[r] = pc[r] /\ round'[r] = round[r] /\ stage'[r] = stage[r]
      BY <1>2, <2>2 DEF Start, Goto
    <3> QED BY <1>2, <3>1 DEF Start, Leftover
  <2> QED BY <2>1, <2>2
<1>3. ASSUME NEW q \in Run, NEW c \in Claim, WriteFloor(q, c) \/ WriteAssessment(q, c)
      PROVE  /\ UNCHANGED <<pc, via, round, scope, aged>> /\ strayed \subseteq strayed'
             /\ Leftover(r)' \subseteq Leftover(r)
  <2>1. UNCHANGED <<pc, via, round, scope, aged>> /\ strayed \subseteq strayed'
    BY <1>3 DEF WriteFloor, WriteAssessment, run, Stray
  <2>2. PICK s \in {"off", "model", "done"} :
          /\ stage[q][c] \in {"floor", "model"}
          /\ stage' = [stage EXCEPT ![q][c] = s]
    BY <1>3 DEF WriteFloor, WriteAssessment
  <2>3. \A d \in Claim : stage'[r][d] \in {"floor", "model"} => stage[r][d] \in {"floor", "model"}
    BY <2>2
  <2> QED BY <2>1, <2>3 DEF Leftover
<1>4. ASSUME NEW q \in Run, Critic(q) \/ Compute(q) \/ Reply(q) \/ Complete(q)
      PROVE  /\ UNCHANGED <<via, round, scope, stage, aged, strayed>>
             /\ pc'[r] \in {pc[r], "record", "closing", "done"}
             /\ pc[r] = "done" => pc'[r] = "done"
  <2>1. PICK from \in {"working", "record", "closing"}, to \in {"record", "closing", "done"} :
          pc[q] = from /\ pc' = [pc EXCEPT ![q] = to]
    BY <1>4 DEF Critic, Compute, Reply, Complete, Goto
  <2> QED BY <1>4, <2>1 DEF Critic, Compute, Reply, Complete, run
<1>5. ASSUME NEW q \in Run, Die(q)
      PROVE  /\ UNCHANGED <<via, round, scope, aged>> /\ strayed \subseteq strayed'
             /\ Leftover(r)' \subseteq Leftover(r)
             /\ pc'[r] \in {pc[r], "dead"}
             /\ pc[r] = "done" => pc'[r] = "done"
  <2>1. PICK begun \in SUBSET Leftover(q) :
          /\ stage' = [stage EXCEPT ![q] = [c \in Claim |-> IF c \in begun THEN @[c]
                                                            ELSE "off"]]
          /\ strayed \subseteq strayed'
    BY <1>5 DEF Die
  <2>2. \A d \in Claim : stage'[r][d] \in {"floor", "model"} => stage[r][d] \in {"floor", "model"}
    BY <2>1
  <2> QED BY <1>5, <2>1, <2>2 DEF Die, run, Leftover, Live, Over
<1>6. ASSUME NEW q \in Run, Orphan(q) \/ Age(q)
      PROVE  /\ UNCHANGED <<pc, via, round, scope, stage>>
             /\ strayed \subseteq strayed' /\ aged \subseteq aged'
  BY <1>6 DEF Orphan, Age, run
<1>7. CASE Restart
  <2>1. UNCHANGED <<via, round, scope, aged, strayed>>
    BY <1>7 DEF Restart, run
  <2>2. stage'[r] = [c \in Claim |-> "off"]
    BY <1>7 DEF Restart
  <2>3. Leftover(r)' = {}
    BY <2>2 DEF Leftover
  <2>4. pc'[r] = IF Live(r) THEN "dead" ELSE pc[r]
    BY <1>7 DEF Restart
  <2> QED BY <2>1, <2>3, <2>4 DEF Live, Over
<1>8. CASE Reset \/ ReadToSign \/ Sign \/ UNCHANGED vars
  BY <1>8 DEF Reset, ReadToSign, Sign, vars, run, Leftover
<1>9. UNCHANGED stage => Leftover(r)' = Leftover(r)
  BY DEF Leftover
<1> QED BY <1>1, <1>2, <1>3, <1>4, <1>5, <1>6, <1>7, <1>8, <1>9 DEF Next, Review

----------------------------------------------------------------------------
(* What the records of a case keep to, strays or not.                      *)

LEMMA RecordsInit == Init => Records /\ Counted /\ Orderly
<1> SUFFICES ASSUME Init
             PROVE  Records /\ Counted /\ Orderly
  OBVIOUS
<1>1. \A type : At(log, type) = {} /\ Seen(log, type) = {}
  BY DEF Init, At, Seen
<1>2. \A r \in Run : Leftover(r) = {} /\ pc[r] = "new"
  BY DEF Init, Leftover
<1>3. aged = {} /\ signing = None
  BY DEF Init
<1>4. Records /\ Counted
  BY <1>1, <1>2, <1>3 DEF Records, Starts, Completions, AtWork, AssessedOnce, Agents,
                          AgedInOrder, Counted
<1>5. Held /\ Leftovers /\ Signing /\ AssessedInSight
  BY <1>1, <1>2, <1>3 DEF Begun, Held, Leftovers, Signing, AssessedInSight
<1> QED BY <1>4, <1>5 DEF Orderly

LEMMA StartsStep ==
  ASSUME Typed, Starts, [Next]_vars
  PROVE  Starts'
<1>1. ASSUME NEW i \in At(log, "started")
      PROVE  /\ log'[i] = log[i] /\ log[i].run \in Run
             /\ log[i].round = round'[log[i].run]
             /\ pc[log[i].run] \notin {"new", "waiting"}
             /\ pc'[log[i].run] \notin {"new", "waiting"}
  BY LogStep, Onward DEF Starts
<1>2. ASSUME NEW i \in At(log', "started"), i \notin At(log, "started")
      PROVE  /\ i = Len(log) + 1 /\ log'[i].run \in Run
             /\ log'[i].round = round'[log'[i].run]
             /\ pc[log'[i].run] = "waiting"
             /\ pc'[log'[i].run] \notin {"new", "waiting"}
  <2>1. /\ i = Len(log) + 1 /\ log'[i].run \in Run /\ Start(log'[i].run)
        /\ log'[i].round = NextRound(log)
    BY <1>2, NewEvent DEF Writer
  <2> QED BY <2>1 DEF Start, Goto, Typed, TypeOK
<1> QED BY <1>1, <1>2 DEF Starts

LEMMA CompletionsStep ==
  ASSUME Typed, Starts, Completions, [Next]_vars
  PROVE  Completions'
<1>1. ASSUME NEW i \in At(log, "completed")
      PROVE  /\ log'[i] = log[i] /\ log[i].run \in Run
             /\ pc[log[i].run] = "done" /\ pc'[log[i].run] = "done"
             /\ \A j \in At(log, "started") : log[j].run = log[i].run => j < i
  BY LogStep, Onward DEF Completions
<1>2. ASSUME NEW i \in At(log', "completed"), i \notin At(log, "completed")
      PROVE  /\ i = Len(log) + 1 /\ log'[i].run \in Run /\ pc'[log'[i].run] = "done"
             /\ pc[log'[i].run] = "closing"
  <2>1. i = Len(log) + 1 /\ log'[i].run \in Run /\ Complete(log'[i].run)
    BY <1>2, NewEvent DEF Writer
  <2> QED BY <2>1 DEF Complete, Goto, Typed, TypeOK
<1>3. ASSUME NEW j \in At(log, "started")
      PROVE  log'[j] = log[j] /\ j < Len(log) + 1
  BY LogStep
<1>4. ASSUME NEW j \in At(log', "started"), j \notin At(log, "started")
      PROVE  pc[log'[j].run] = "waiting"
  <2>1. Start(log'[j].run)
    BY <1>4, NewEvent DEF Writer
  <2> QED BY <2>1 DEF Start, Goto
<1>5. ASSUME NEW i \in At(log', "completed"), NEW j \in At(log', "started"),
             log'[j].run = log'[i].run
      PROVE  j < i
  BY <1>1, <1>2, <1>3, <1>4, <1>5
<1> QED BY <1>1, <1>2, <1>5 DEF Completions

LEMMA AtWorkStep ==
  ASSUME Typed, AtWork, [Next]_vars
  PROVE  AtWork'
<1> SUFFICES ASSUME NEW r \in Run, NEW c \in Leftover(r)'
             PROVE  c \in scope'[r] /\ pc'[r] \in {"working", "dead"}
  BY DEF AtWork
<1> USE DEF Typed
<1>1. CASE c \notin Leftover(r)
  <2>1. pc[r] \in {"new", "waiting"}
    BY <1>1, Onward DEF AtWork
  <2>2. ~ UNCHANGED stage
    BY <1>1 DEF Leftover
  <2>3. c \in Claim /\ stage'[r][c] \in {"floor", "model"}
    BY DEF Leftover
  <2>4. ASSUME NEW q \in Run, Start(q)
        PROVE  c \in scope'[r] /\ pc'[r] \in {"working", "dead"}
    <3>1. stage' = [stage EXCEPT ![q] = [d \in Claim |-> IF d \in scope[q] THEN "floor"
                                                         ELSE "off"]]
      BY <2>4 DEF Start
    <3>2. q = r
      BY <1>1, <2>3, <3>1 DEF TypeOK, Leftover
    <3>3. c \in scope[r]
      BY <2>3, <3>1, <3>2 DEF TypeOK
    <3> QED BY <2>4, <3>2, <3>3 DEF Start, Goto, TypeOK
  <2>5. ASSUME NEW q \in Run, NEW d \in Claim, WriteFloor(q, d) \/ WriteAssessment(q, d)
        PROVE  FALSE
    <3>1. PICK s \in {"off", "model", "done"} :
            /\ stage[q][d] \in {"floor", "model"}
            /\ stage' = [stage EXCEPT ![q][d] = s]
      BY <2>5 DEF WriteFloor, WriteAssessment
    <3>2. stage[r][c] \in {"floor", "model"}
      BY <2>3, <3>1 DEF TypeOK
    <3> QED BY <1>1, <2>3, <3>2 DEF Leftover
  <2>6. ASSUME NEW q \in Run, Die(q)
        PROVE  FALSE
    <3>1. PICK begun \in SUBSET Leftover(q) :
            stage' = [stage EXCEPT ![q] = [d \in Claim |-> IF d \in begun THEN @[d]
                                                           ELSE "off"]]
      BY <2>6 DEF Die
    <3>2. stage[r][c] \in {"floor", "model"}
      BY <2>3, <3>1 DEF TypeOK
    <3> QED BY <1>1, <2>3, <3>2 DEF Leftover
  <2>7. CASE Restart
    BY <2>3, <2>7 DEF Restart
  <2> QED BY <2>2, <2>4, <2>5, <2>6, <2>7
      DEF Next, Review, Arrive, Critic, Compute, Reply, Complete, Orphan, Age, Reset,
          ReadToSign, Sign, vars
<1>2. CASE c \in Leftover(r)
  <2>1. c \in scope'[r] /\ c \in scope[r] /\ pc[r] \in {"working", "dead"}
    BY <1>2, Onward DEF AtWork
  <2>2. stage[r][c] \in {"floor", "model"} /\ stage[r][c] # "done"
    BY <1>2 DEF Leftover
  <2>3. ~ Critic(r) /\ ~ Compute(r) /\ ~ Reply(r) /\ ~ Complete(r) /\ ~ Arrive(r)
    BY <2>1, <2>2 DEF Critic, Reviewed, Compute, Reply, Complete, Goto, Arrive
  <2>4. pc'[r] \in {"working", "dead"}
    <3>1. ASSUME NEW q \in Run, NEW from, NEW to, q # r, Goto(q, from, to)
          PROVE  pc'[r] = pc[r]
      BY <3>1 DEF Goto, TypeOK
    <3>2. ASSUME NEW q \in Run, Start(q) \/ Critic(q) \/ Compute(q) \/ Reply(q) \/ Complete(q)
                                \/ Arrive(q)
          PROVE  pc'[r] \in {"working", "dead"}
      <4>1. q # r
        BY <2>1, <2>3, <3>2 DEF Start, Goto
      <4>2. pc'[r] = pc[r]
        BY <3>1, <3>2, <4>1 DEF Start, Critic, Compute, Reply, Complete, Arrive
      <4> QED BY <2>1, <4>2
    <3>3. ASSUME NEW q \in Run, Die(q)
          PROVE  pc'[r] \in {"working", "dead"}
      BY <2>1, <3>3 DEF Die, TypeOK
    <3>4. CASE Restart
      BY <2>1, <3>4 DEF Restart
    <3> QED BY <2>1, <3>2, <3>3, <3>4
        DEF Next, Review, WriteFloor, WriteAssessment, Orphan, Age, Reset, ReadToSign,
            Sign, vars
  <2> QED BY <2>1, <2>4
<1> QED BY <1>1, <1>2

LEMMA AssessedOnceStep ==
  ASSUME Typed, AtWork, AssessedOnce, [Next]_vars
  PROVE  AssessedOnce'
<1>1. ASSUME NEW i \in At(log, "assessed")
      PROVE  /\ log'[i] = log[i] /\ log[i].run \in Run /\ log[i].claim \in Claim
             /\ pc'[log[i].run] \notin {"new", "waiting"}
             /\ log[i].claim \notin Leftover(log[i].run)
             /\ \A r \in Run : log[i].run = r => log[i].claim \notin Leftover(r)'
  BY LogStep, Onward DEF AssessedOnce
<1>2. ASSUME NEW i \in At(log', "assessed"), i \notin At(log, "assessed")
      PROVE  /\ i = Len(log) + 1 /\ log'[i].run \in Run /\ log'[i].claim \in Claim
             /\ pc'[log'[i].run] \notin {"new", "waiting"}
             /\ \A r \in Run : log'[i].run = r =>
                  log'[i].claim \in Leftover(r) /\ log'[i].claim \notin Leftover(r)'
  <2>1. PICK r \in Run, c \in Claim :
          i = Len(log) + 1 /\ log'[i].run = r /\ log'[i].claim = c /\ WriteAssessment(r, c)
    BY <1>2, NewEvent DEF Writer
  <2>2. stage[r][c] = "model" /\ stage' = [stage EXCEPT ![r][c] = "done"] /\ pc' = pc
    BY <2>1 DEF WriteAssessment
  <2>3. c \in Leftover(r) /\ c \notin Leftover(r)'
    BY <2>2 DEF Leftover, Typed, TypeOK
  <2>4. pc'[r] \notin {"new", "waiting"}
    BY <2>2, <2>3 DEF AtWork
  <2> QED BY <2>1, <2>3, <2>4
<1>3. ASSUME NEW i \in At(log', "assessed"), NEW j \in At(log', "assessed"),
             log'[i].run = log'[j].run, log'[i].claim = log'[j].claim
      PROVE  i = j
  <2>1. CASE i \in At(log, "assessed") /\ j \in At(log, "assessed")
    BY <1>1, <1>3, <2>1 DEF AssessedOnce
  <2>2. CASE i \notin At(log, "assessed") /\ j \notin At(log, "assessed")
    BY <1>2, <2>2
  <2>3. ASSUME NEW k \in At(log, "assessed"), NEW m \in At(log', "assessed"),
               m \notin At(log, "assessed"), log'[k].run = log'[m].run,
               log'[k].claim = log'[m].claim
        PROVE  FALSE
    BY <1>1, <1>2, <2>3
  <2> QED BY <1>3, <2>1, <2>2, <2>3
<1>4. \A i \in At(log', "assessed") :
        /\ log'[i].run \in Run /\ log'[i].claim \in Claim
        /\ pc'[log'[i].run] \notin {"new", "waiting"}
        /\ \A r \in Run : log'[i].run = r => log'[i].claim \notin Leftover(r)'
  BY <1>1, <1>2
<1> QED BY <1>3, <1>4 DEF AssessedOnce, Leftover

LEMMA AgentsStep ==
  ASSUME Typed, Agents, [Next]_vars
  PROVE  Agents'
<1> SUFFICES ASSUME NEW r \in Run, pc'[r] # "new", via'[r] = "agent"
             PROVE  r \in strayed'
  BY DEF Agents
<1>1. CASE pc[r] # "new"
  BY <1>1, Onward DEF Agents
<1>2. CASE pc[r] = "new"
  <2>1. ASSUME NEW q \in Run, NEW from, NEW to, Goto(q, from, to), from # "new"
        PROVE  FALSE
    BY <1>2, <2>1 DEF Goto, Typed, TypeOK
  <2>2. ASSUME NEW q \in Run, Start(q) \/ Critic(q) \/ Compute(q) \/ Reply(q) \/ Complete(q)
        PROVE  FALSE
    BY <2>1, <2>2 DEF Start, Critic, Compute, Reply, Complete
  <2>3. ASSUME NEW q \in Run, Die(q)
        PROVE  FALSE
    BY <1>2, <2>3 DEF Die, Live, Over, Typed, TypeOK
  <2>4. ASSUME Restart
        PROVE  FALSE
    BY <1>2, <2>4 DEF Restart, Live, Over
  <2>5. ASSUME \A q \in Run : ~ Arrive(q)
        PROVE  pc' = pc
    <3>1. ASSUME NEW q \in Run, NEW c \in Claim, WriteFloor(q, c) \/ WriteAssessment(q, c)
          PROVE  pc' = pc
      BY <3>1 DEF WriteFloor, WriteAssessment
    <3>2. ASSUME NEW q \in Run, Orphan(q) \/ Age(q)
          PROVE  pc' = pc
      BY <3>2 DEF Orphan, Age
    <3>3. CASE Reset \/ ReadToSign \/ Sign \/ UNCHANGED vars
      BY <3>3 DEF Reset, ReadToSign, Sign, vars
    <3> QED BY <2>2, <2>3, <2>4, <2>5, <3>1, <3>2, <3>3 DEF Next, Review
  <2>6. PICK q \in Run : Arrive(q)
    BY <1>2, <2>5
  <2>7. q = r
    BY <1>2, <2>6 DEF Arrive, Goto, Typed, TypeOK
  <2>8. PICK e \in Entry : /\ via' = [via EXCEPT ![r] = e]
                          /\ strayed' = IF e = "agent" THEN strayed \cup {r} ELSE strayed
    BY <2>6, <2>7 DEF Arrive
  <2> QED BY <2>8 DEF Typed, TypeOK
<1> QED BY <1>1, <1>2

LEMMA AgedInOrderStep ==
  ASSUME Typed, Starts, AgedInOrder, [Next]_vars
  PROVE  AgedInOrder'
<1>1. ASSUME NEW r \in Run, Finished(r)
      PROVE  Finished(r)'
  BY <1>1, LogStep DEF Finished
<1>2. ASSUME NEW i \in At(log, "started")
      PROVE  log'[i] = log[i] /\ log[i].run \in Run /\ i \in At(log', "started")
  BY LogStep DEF Starts
<1>3. CASE aged' = aged
  <2>1. ASSUME NEW i \in At(log', "started"), log'[i].run \in aged
        PROVE  i \in At(log, "started")
    <3>1. SUFFICES ASSUME i \notin At(log, "started")
                   PROVE  FALSE
      OBVIOUS
    <3>2. Start(log'[i].run)
      BY <3>1, NewEvent DEF Writer
    <3>3. pc[log'[i].run] = "waiting"
      BY <3>2 DEF Start, Goto
    <3> QED BY <2>1, <3>3 DEF AgedInOrder, Starts
  <2>2. ASSUME NEW i \in At(log', "started"), NEW j \in At(log', "started"),
               j < i, log'[i].run \in aged
        PROVE  \A r \in Run : log'[j].run = r => r \in aged \/ Finished(r)'
    <3>1. i \in At(log, "started")
      BY <2>1, <2>2
    <3>2. j \in At(log, "started")
      BY <2>2, <3>1, LogStep, NewEvent
    <3> QED BY <1>1, <1>2, <2>2, <3>1, <3>2 DEF AgedInOrder
  <2>3. \A i \in At(log', "started") : log'[i].run \in Run
    BY <1>2, NewEvent DEF Writer
  <2>4. \A r \in aged : \E i \in At(log', "started") : log'[i].run = r
    BY <1>2 DEF AgedInOrder
  <2> QED BY <1>3, <2>2, <2>3, <2>4 DEF AgedInOrder, Finished
<1>4. ASSUME NEW r \in Run, Age(r)
      PROVE  AgedInOrder'
  <2>1. /\ log' = log /\ aged' = aged \cup {r}
        /\ \A q \in Run : Finished(q)' = Finished(q)
        /\ At(log', "started") = At(log, "started")
    BY <1>4 DEF Age, Finished
  <2>2. PICK i \in At(log, "started") :
          /\ log[i].run = r
          /\ \A j \in At(log, "started") :
               j < i => log[j].run \in aged \/ Finished(log[j].run)
    BY <1>4 DEF Age
  <2>3. ASSUME NEW k \in At(log, "started"), NEW j \in At(log, "started"),
               j < k, log[k].run \in aged \cup {r}
        PROVE  log[j].run \in aged \cup {r} \/ Finished(log[j].run)
    <3>1. CASE log[k].run = r
      BY <2>2, <2>3, <3>1 DEF Starts
    <3>2. CASE log[k].run # r
      BY <2>3, <3>2 DEF AgedInOrder
    <3> QED BY <3>1, <3>2
  <2> QED BY <1>2, <2>1, <2>2, <2>3 DEF AgedInOrder
<1>5. aged' = aged \/ \E r \in Run : Age(r)
  BY DEF Next, Review, Arrive, Start, WriteFloor, WriteAssessment, Critic, Compute, Reply,
         Complete, Die, Orphan, Restart, Reset, ReadToSign, Sign, vars
<1> QED BY <1>3, <1>4, <1>5

LEMMA CountedStep ==
  ASSUME Typed, Starts, Counted, [Next]_vars
  PROVE  Counted'
<1>1. CASE UNCHANGED log
  BY <1>1 DEF Counted
<1>2. CASE ~ UNCHANGED log
  <2>1. PICK e : log' = Append(log, e) /\ Writer(e.type, e)
    BY <1>2, Wrote
  <2>2. ASSUME NEW i \in Seen(log, "started")
        PROVE  /\ log'[i] = log[i] /\ log[i].round \in Nat
               /\ log[i].round <= Cardinality(Seen(log, "started"))
    <3>1. i \in At(log, "started")
      BY SeenAppend DEF Typed
    <3> QED BY <3>1, LogStep DEF Counted, Starts, Typed, TypeOK
  <2>3. Cardinality(Seen(log, "started")) \in Nat
    BY Counts DEF Typed
  <2>4. CASE e.type = "started"
    <3>1. e.round = 1 + Cardinality(Seen(log, "started"))
      BY <2>1, <2>4 DEF Writer, NextRound
    <3>2. Cardinality(Seen(log', "started")) = Cardinality(Seen(log, "started")) + 1
      BY <2>1, <2>4, CountAppend DEF Typed
    <3>3. \A i \in Seen(log', "started") : i \in Seen(log, "started") \/ log'[i] = e
      BY <2>1, <2>4, Grown DEF Typed
    <3> QED BY <2>2, <2>3, <3>1, <3>2, <3>3 DEF Counted
  <2>5. CASE e.type # "started"
    <3>1. Seen(log', "started") \in {{}, Seen(log, "started")}
      BY <2>1, <2>5, Grown DEF Typed
    <3> QED BY <2>2, <3>1 DEF Counted
  <2> QED BY <2>4, <2>5
<1> QED BY <1>1, <1>2

----------------------------------------------------------------------------
(* What holds while nothing strays.                                        *)

\* What strayed once has strayed.
LEMMA StillConfined ==
  ASSUME Typed, [Next]_vars, Confined'
  PROVE  Confined /\ strayed' = strayed
<1>1. strayed \subseteq strayed' \/ Run = {}
  BY Onward
<1>2. strayed \subseteq Run
  BY DEF Typed, TypeOK
<1> QED BY <1>1, <1>2 DEF Confined

\* A run is at work only after its Start.
LEMMA Begins ==
  ASSUME Typed, [Next]_vars, NEW r \in Run, pc'[r] \in Begun, pc[r] \notin Begun
  PROVE  Start(r)
<1> USE DEF Typed
<1> USE DEF TypeOK
<1> USE DEF Begun
<1>1. ASSUME NEW q \in Run, NEW from, NEW to, Goto(q, from, to), from \in Begun \/ to \notin Begun
      PROVE  FALSE
  BY <1>1 DEF Goto
<1>2. ASSUME NEW q \in Run, Arrive(q) \/ Critic(q) \/ Compute(q) \/ Reply(q) \/ Complete(q)
      PROVE  FALSE
  BY <1>1, <1>2 DEF Arrive, Critic, Compute, Reply, Complete
<1>3. ASSUME NEW q \in Run, Die(q)
      PROVE  FALSE
  BY <1>3 DEF Die
<1>4. ASSUME Restart
      PROVE  FALSE
  BY <1>4 DEF Restart
<1>5. ASSUME NEW q \in Run, NEW c \in Claim, WriteFloor(q, c) \/ WriteAssessment(q, c)
      PROVE  FALSE
  BY <1>5 DEF WriteFloor, WriteAssessment
<1>6. ASSUME NEW q \in Run, Orphan(q) \/ Age(q)
      PROVE  FALSE
  BY <1>6 DEF Orphan, Age
<1>7. ~ Reset /\ ~ ReadToSign /\ ~ Sign /\ ~ UNCHANGED vars
  BY DEF Reset, ReadToSign, Sign, vars
<1>8. PICK q \in Run : Start(q)
  BY <1>2, <1>3, <1>4, <1>5, <1>6, <1>7 DEF Next, Review
<1>9. q = r
  BY <1>8 DEF Start, Goto
<1> QED BY <1>8, <1>9

\* A run that starts where nothing strays takes the lock.
LEMMA TakesLock ==
  ASSUME Agents, Confined, NEW r \in Run, Start(r)
  PROVE  lock = None /\ lock' = r
<1>1. pc[r] = "waiting"
  BY DEF Start, Goto
<1>2. via[r] # "agent"
  BY <1>1 DEF Agents, Confined
<1> QED BY <1>2 DEF Start, Lock

\* A run at work keeps the lock for as long as it is at work.
LEMMA KeepsLock ==
  ASSUME Typed, Agents, Held, Confined, Confined', [Next]_vars,
         NEW r \in Run, pc[r] \in Begun, pc'[r] \in Begun
  PROVE  lock = r /\ lock' = r
<1>1. lock = r /\ lock # None
  BY RunNotNone DEF Held
<1>2. ASSUME NEW q \in Run, Start(q)
      PROVE  FALSE
  BY <1>1, <1>2, TakesLock
<1>3. ASSUME NEW q \in Run, Complete(q) \/ Die(q)
      PROVE  lock' = lock
  <2>1. pc'[q] \notin Begun
    BY <1>3 DEF Complete, Die, Goto, Typed, TypeOK, Begun
  <2>2. q # r /\ Unlock(q)
    BY <1>3, <2>1 DEF Complete, Die
  <2> QED BY <1>1, <2>2 DEF Unlock
<1>4. ASSUME NEW q \in Run, Orphan(q)
      PROVE  FALSE
  BY <1>4 DEF Orphan, Confined
<1>5. ASSUME Restart
      PROVE  FALSE
  BY <1>5 DEF Restart, Live, Begun, Over
<1>6. ASSUME NEW q \in Run, Arrive(q) \/ Critic(q) \/ Compute(q) \/ Reply(q) \/ Age(q)
      PROVE  lock' = lock
  BY <1>6 DEF Arrive, Critic, Compute, Reply, Age
<1>7. ASSUME NEW q \in Run, NEW c \in Claim, WriteFloor(q, c) \/ WriteAssessment(q, c)
      PROVE  lock' = lock
  BY <1>7 DEF WriteFloor, WriteAssessment
<1>8. Reset \/ ReadToSign \/ Sign \/ UNCHANGED vars => lock' = lock
  BY DEF Reset, ReadToSign, Sign, vars
<1> QED BY <1>1, <1>2, <1>3, <1>4, <1>5, <1>6, <1>7, <1>8 DEF Next, Review

LEMMA HeldStep ==
  ASSUME Typed, Agents, Held, Confined, Confined', [Next]_vars
  PROVE  Held'
<1> SUFFICES ASSUME NEW r \in Run, pc'[r] \in Begun
             PROVE  /\ lock' = r
                    /\ \E i \in Seen(log', "started") :
                         /\ log'[i].run = r
                         /\ pc'[r] # "closing" => \A k \in At(log', "computed") : k < i
  BY DEF Held
<1>1. CASE pc[r] \in Begun
  <2>1. lock = r /\ lock' = r /\ ~ Reset
    BY <1>1, KeepsLock, RunNotNone DEF Reset
  <2>2. PICK i \in Seen(log, "started") :
          /\ log[i].run = r
          /\ pc[r] # "closing" => \A k \in At(log, "computed") : k < i
    BY <1>1 DEF Held
  <2>3. i \in Seen(log', "started") /\ log'[i] = log[i]
    <3>1. i \in 1 .. Len(log)
      BY AtAppend, SeenAppend DEF Typed
    <3> QED BY <2>1, <3>1, SightStep, LogStep
  <2>4. ASSUME pc'[r] # "closing", NEW k \in At(log', "computed")
        PROVE  k < i
    <3>1. k \in At(log, "computed")
      <4>1. ASSUME k \notin At(log, "computed")
            PROVE  FALSE
        <5>1. PICK q \in Run : Compute(q)
          BY <4>1, NewEvent DEF Writer
        <5>2. pc[q] \in Begun /\ pc'[q] = "closing"
          BY <5>1 DEF Compute, Goto, Begun, Typed, TypeOK
        <5>3. q = r
          BY <2>1, <5>2 DEF Held
        <5> QED BY <2>4, <5>2, <5>3
      <4> QED BY <4>1
    <3>2. pc[r] # "closing"
      <4>1. ASSUME pc[r] = "closing"
            PROVE  FALSE
        <5>1. ASSUME NEW q \in Run, NEW from, NEW to, Goto(q, from, to), from # "closing"
              PROVE  pc'[r] = "closing"
          BY <4>1, <5>1 DEF Goto, Typed, TypeOK
        <5>2. ASSUME NEW q \in Run, Arrive(q) \/ Start(q) \/ Critic(q) \/ Compute(q) \/ Reply(q)
              PROVE  pc'[r] = "closing"
          BY <5>1, <5>2 DEF Arrive, Start, Critic, Compute, Reply
        <5>3. ASSUME NEW q \in Run, Complete(q) \/ Die(q)
              PROVE  pc'[r] \in {"closing", "done", "dead"}
          BY <4>1, <5>3 DEF Complete, Die, Goto, Typed, TypeOK
        <5>4. ASSUME NEW q \in Run, NEW c \in Claim, WriteFloor(q, c) \/ WriteAssessment(q, c)
              PROVE  pc' = pc
          BY <5>4 DEF WriteFloor, WriteAssessment
        <5>5. ASSUME NEW q \in Run, Orphan(q) \/ Age(q)
              PROVE  pc' = pc
          BY <5>5 DEF Orphan, Age
        <5>6. ASSUME Restart
              PROVE  pc'[r] = "dead"
          BY <4>1, <5>6 DEF Restart, Live, Over
        <5>7. Reset \/ ReadToSign \/ Sign \/ UNCHANGED vars => pc' = pc
          BY DEF Reset, ReadToSign, Sign, vars
        <5>8. pc'[r] \in {"closing", "done", "dead"}
          BY <4>1, <5>2, <5>3, <5>4, <5>5, <5>6, <5>7 DEF Next, Review
        <5> QED BY <2>4, <5>8 DEF Begun
      <4> QED BY <4>1
    <3> QED BY <2>2, <3>1, <3>2
  <2> QED BY <2>1, <2>2, <2>3, <2>4
<1>2. CASE pc[r] \notin Begun
  <2>1. Start(r) /\ lock' = r
    BY <1>2, Begins, TakesLock
  <2> DEFINE e == [type |-> "started", run |-> r, round |-> NextRound(log)]
  <2>2. log' = Append(log, e) /\ e.type = "started" /\ e.run = r
    BY <2>1 DEF Start, Record
  <2> HIDE DEF e
  <2>3. /\ Len(log) + 1 \in Seen(log', "started") /\ log'[Len(log) + 1].run = r
        /\ \A k \in At(log', "computed") : k \in 1 .. Len(log)
    BY <2>2, Grown DEF Typed
  <2>4. \A k \in At(log', "computed") : k < Len(log) + 1
    BY <2>3, LogStep
  <2> QED BY <2>1, <2>3, <2>4
<1> QED BY <1>1, <1>2

\* What is in sight of the log is in the log.
LEMMA SeenIsThere ==
  ASSUME Typed, NEW type
  PROVE  Seen(log, type) \subseteq At(log, type) /\ At(log, type) \subseteq 1 .. Len(log)
BY AtAppend, SeenAppend DEF Typed

\* A run stays overtaken.
LEMMA StillOvertaken ==
  ASSUME Typed, [Next]_vars, NEW r \in Run, Overtaken(r)
  PROVE  Overtaken(r)'
<1>1. PICK i \in DOMAIN log, j \in At(log, "started") :
        log[i].type \in {"computed", "completed"} /\ log[j].run = r /\ i > j
  BY DEF Overtaken
<1>2. i \in 1 .. Len(log) /\ j \in 1 .. Len(log)
  BY <1>1, AppendLog, SeenIsThere DEF Typed
<1>3. i \in DOMAIN log' /\ log'[i] = log[i] /\ log'[j] = log[j] /\ j \in At(log', "started")
  <2>1. i \in At(log, log[i].type)
    BY <1>1 DEF At
  <2>2. i \in At(log', log[i].type)
    BY <2>1, LogStep
  <2> QED BY <1>2, <2>2, LogStep DEF At
<1> QED BY <1>1, <1>3 DEF Overtaken

\* The latest review is later than any in sight, or the same.
LEMMA LatestIsLast ==
  ASSUME Typed, Starts, NEW i \in At(log, "started")
  PROVE  \E m \in At(log, "started") :
           i <= m /\ LatestReview = {log[m].run} /\ log[m].run \in Run
<1> DEFINE S == At(log, "started")
           m == Last(S)
<1>1. Len(log) \in Nat /\ S \in SUBSET (1 .. Len(log)) /\ i \in S
  BY AppendLog, AtAppend DEF Typed
<1>2. m \in S /\ i <= m
  <2> HIDE DEF S
  <2> QED BY <1>1, LastIsLatest
<1>3. m # 0
  BY <1>1, <1>2
<1>4. LatestReview = {log[m].run}
  BY <1>3 DEF LatestReview
<1> QED BY <1>2, <1>4 DEF Starts

\* Once the latest review has completed, it overtakes the runs that have not.
LEMMA CompletedOvertakes ==
  ASSUME Typed, Starts, Completions, NEW r \in Run, InSight(r),
         \A q \in LatestReview : Finished(q)
  PROVE  Overtaken(r)
<1>1. PICK i \in At(log, "started") : log[i].run = r
  BY SeenIsThere DEF InSight
<1>2. PICK m \in At(log, "started") : i <= m /\ LatestReview = {log[m].run}
  BY LatestIsLast
<1>3. PICK k \in At(log, "completed") : log[k].run = log[m].run
  BY <1>2 DEF Finished
<1>4. m < k
  BY <1>3 DEF Completions
<1>5. i \in Nat /\ m \in Nat /\ k \in Nat /\ k \in DOMAIN log
  BY SeenIsThere, AppendLog DEF Typed
<1>6. k > i
  BY <1>2, <1>4, <1>5
<1> QED BY <1>1, <1>3, <1>5, <1>6 DEF Overtaken, At

LEMMA LeftoversStep ==
  ASSUME Typed, Records, Held, Leftovers, Confined, Confined', [Next]_vars
  PROVE  Leftovers'
<1> SUFFICES ASSUME NEW r \in Run, pc'[r] = "dead", Leftover(r)' # {}
             PROVE  r \notin aged' /\ (InSight(r)' \/ Overtaken(r)')
  BY DEF Leftovers
<1> USE DEF Records
<1>1. CASE pc[r] = "dead"
  <2>1. Leftover(r) # {}
    BY <1>1, Onward
  <2>2. r \notin aged /\ (InSight(r) \/ Overtaken(r))
    BY <1>1, <2>1 DEF Leftovers
  <2>3. r \notin aged'
    <3>1. \A q \in Run : ~ Age(q)
      BY <1>1, <2>1 DEF Age
    <3>2. aged' = aged
      BY <3>1 DEF Next, Review, Arrive, Start, WriteFloor, WriteAssessment, Critic, Compute,
                  Reply, Complete, Die, Orphan, Restart, Reset, ReadToSign, Sign, vars
    <3> QED BY <2>2, <3>2
  <2>4. CASE Overtaken(r)
    BY <2>3, <2>4, StillOvertaken
  <2>5. CASE InSight(r)
    <3>1. PICK i \in Seen(log, "started") : log[i].run = r
      BY <2>5 DEF InSight
    <3>2. CASE Reset
      <4>1. PICK m \in At(log, "started") :
              i <= m /\ LatestReview = {log[m].run} /\ log[m].run \in Run
        BY <3>1, SeenIsThere, LatestIsLast
      <4>2. CASE Finished(log[m].run)
        <5>1. Overtaken(r)
          BY <2>5, <4>1, <4>2, CompletedOvertakes
        <5> QED BY <2>3, <5>1, StillOvertaken
      <4>3. CASE log[m].run \in aged
        <5>1. i \in At(log, "started") /\ i \in Nat /\ m \in Nat
          BY <3>1, SeenIsThere
        <5>2. i = m \/ i < m
          BY <4>1, <5>1
        <5>3. r \in aged \/ Finished(r)
          BY <3>1, <4>1, <4>3, <5>1, <5>2 DEF AgedInOrder
        <5>4. ~ Finished(r)
          BY <1>1 DEF Finished, Completions
        <5> QED BY <2>2, <5>3, <5>4
      <4> QED BY <3>2, <4>1, <4>2, <4>3 DEF Reset
    <3>3. CASE ~ Reset
      <4>1. i \in Seen(log', "started") /\ log'[i] = log[i]
        BY <3>1, <3>3, SeenIsThere, SightStep, LogStep
      <4> QED BY <2>3, <3>1, <4>1 DEF InSight
    <3> QED BY <3>2, <3>3
  <2> QED BY <2>2, <2>4, <2>5
<1>2. CASE pc[r] # "dead"
  <2>1. Die(r) \/ Restart
    <3>1. ASSUME NEW q \in Run, NEW from, NEW to, Goto(q, from, to), to # "dead"
          PROVE  FALSE
      BY <1>2, <3>1 DEF Goto, Typed, TypeOK
    <3>2. ASSUME NEW q \in Run, \/ Arrive(q) \/ Start(q) \/ Critic(q) \/ Compute(q)
                                \/ Reply(q) \/ Complete(q)
          PROVE  FALSE
      BY <3>1, <3>2 DEF Arrive, Start, Critic, Compute, Reply, Complete
    <3>3. ASSUME NEW q \in Run, Die(q), q # r
          PROVE  FALSE
      BY <1>2, <3>3 DEF Die, Typed, TypeOK
    <3>4. ASSUME NEW q \in Run, NEW c \in Claim, WriteFloor(q, c) \/ WriteAssessment(q, c)
          PROVE  FALSE
      BY <1>2, <3>4 DEF WriteFloor, WriteAssessment
    <3>5. ASSUME NEW q \in Run, Orphan(q) \/ Age(q)
          PROVE  FALSE
      BY <1>2, <3>5 DEF Orphan, Age
    <3>6. ~ Reset /\ ~ ReadToSign /\ ~ Sign /\ ~ UNCHANGED vars
      BY <1>2 DEF Reset, ReadToSign, Sign, vars
    <3> QED BY <3>2, <3>3, <3>4, <3>5, <3>6 DEF Next, Review
  <2>2. ~ Restart
    <3>1. ASSUME Restart
          PROVE  FALSE
      <4>1. stage'[r] = [c \in Claim |-> "off"]
        BY <3>1 DEF Restart
      <4> QED BY <4>1 DEF Leftover
    <3> QED BY <3>1
  <2>3. PICK begun \in SUBSET Leftover(r) :
          /\ stage' = [stage EXCEPT ![r] = [c \in Claim |-> IF c \in begun THEN @[c]
                                                            ELSE "off"]]
          /\ strayed' = IF r \in aged /\ begun # {} THEN strayed \cup {r}
                        ELSE strayed
    BY <2>1, <2>2 DEF Die
  <2>4. begun # {}
    BY <2>3 DEF Leftover, Typed, TypeOK
  <2>5. r \notin aged
    BY <2>3, <2>4 DEF Confined
  <2>6. pc[r] = "working"
    BY <1>2, <2>4 DEF AtWork
  <2>7. InSight(r)
    BY <2>6 DEF Held, InSight, Begun
  <2>8. aged' = aged /\ log' = log
    BY <2>1, <2>2 DEF Die
  <2> QED BY <2>5, <2>7, <2>8 DEF InSight
<1> QED BY <1>1, <1>2

\* Who writes about a claim is at work, or is a dead run that is not overtaken.
LEMMA WriterInSight ==
  ASSUME Typed, Records, Held, Leftovers, Confined, Confined',
         NEW r \in Run, NEW c \in Claim, ~ UNCHANGED log,
         WriteFloor(r, c) \/ WriteAssessment(r, c)
  PROVE  /\ \/ pc[r] = "working"
            \/ pc[r] = "dead" /\ Leftover(r) # {} /\ ~ Overtaken(r)
         /\ InSight(r)
<1>1. c \in Leftover(r) /\ Stray(r)
  BY DEF WriteFloor, WriteAssessment, Leftover
<1>2. pc[r] \in {"working", "dead"}
  BY <1>1 DEF Records, AtWork
<1>3. pc[r] = "dead" => ~ Overtaken(r)
  BY <1>1 DEF Stray, Confined
<1>4. CASE pc[r] = "working"
  <2>1. \E i \in Seen(log, "started") : log[i].run = r
    BY <1>4 DEF Held, Begun
  <2> QED BY <1>4, <2>1 DEF InSight
<1>5. CASE pc[r] = "dead"
  BY <1>1, <1>3, <1>5 DEF Leftovers
<1> QED BY <1>1, <1>2, <1>3, <1>4, <1>5

LEMMA AssessedInSightStep ==
  ASSUME Typed, Records, Held, Leftovers, AssessedInSight, Confined, Confined', [Next]_vars
  PROVE  AssessedInSight'
<1> SUFFICES ASSUME NEW i \in Seen(log', "assessed")
             PROVE  \E j \in Seen(log', "started") :
                      log'[j].run = log'[i].run /\ log'[j].round = log'[i].round
  BY DEF AssessedInSight
<1>1. \A type : Seen(log', type) = Seen(log, type) \cup (At(log', type) \ At(log, type))
  BY SightStep
<1>2. CASE i \in Seen(log, "assessed")
  <2>1. PICK j \in Seen(log, "started") : log[j].run = log[i].run /\ log[j].round = log[i].round
    BY <1>2 DEF AssessedInSight
  <2>2. log'[i] = log[i] /\ log'[j] = log[j]
    BY <1>2, SeenIsThere, LogStep
  <2> QED BY <1>1, <2>1, <2>2
<1>3. CASE i \notin Seen(log, "assessed")
  <2>1. i \in At(log', "assessed") /\ i \notin At(log, "assessed")
    BY <1>1, <1>3
  <2>2. PICK r \in Run, c \in Claim :
          log'[i].run = r /\ log'[i].round = round[r] /\ WriteAssessment(r, c)
    BY <2>1, NewEvent DEF Writer
  <2>3. ~ UNCHANGED log
    BY <2>1
  <2>4. InSight(r)
    BY <2>2, <2>3, WriterInSight
  <2>5. PICK j \in Seen(log, "started") : log[j].run = r
    BY <2>4 DEF InSight
  <2>6. log[j].round = round[r] /\ log'[j] = log[j]
    BY <2>5, SeenIsThere, LogStep DEF Records, Starts
  <2> QED BY <1>1, <2>2, <2>5, <2>6
<1> QED BY <1>2, <1>3

\* While a signature is pending, nothing changes but what threads of dead runs
\* leave unwritten.
LEMMA SigningStep ==
  ASSUME Typed, Records, Held, Leftovers, Signing, Confined, Confined', [Next]_vars
  PROVE  Signing'
<1> SUFFICES ASSUME signing' # None
             PROVE  /\ lock' = None
                    /\ signing' = Recommendation(log')
                    /\ Facts(log') # {}
                    /\ \A r \in Run : pc'[r] = "dead" /\ Leftover(r)' # {} => Overtaken(r)'
  BY DEF Signing
<1> USE DEF Records
<1>1. CASE signing # None
  <2>1. /\ lock = None /\ signing = Recommendation(log) /\ Facts(log) # {}
        /\ \A r \in Run : pc[r] = "dead" /\ Leftover(r) # {} => Overtaken(r)
    BY <1>1 DEF Signing
  <2>2. \A r \in Run : pc[r] \notin Begun
    BY <2>1, RunNotNone DEF Held
  <2>3. ASSUME NEW r \in Run, NEW c \in Claim, WriteFloor(r, c) \/ WriteAssessment(r, c)
        PROVE  UNCHANGED <<log, pc, lock, signing>>
    <3>1. pc[r] # "working"
      BY <2>2 DEF Begun
    <3>2. UNCHANGED log
      BY <2>1, <2>3, <3>1, WriterInSight
    <3> QED BY <2>3, <3>2 DEF WriteFloor, WriteAssessment
  <2>4. ASSUME NEW r \in Run, \/ Arrive(r) \/ Start(r) \/ Critic(r) \/ Compute(r) \/ Reply(r)
                              \/ Complete(r) \/ Die(r) \/ Orphan(r)
        PROVE  FALSE
    BY <1>1, <2>4 DEF LoopFree, Arrive, Start, Critic, Compute, Reply, Complete, Die, Orphan
  <2>5. ASSUME NEW r \in Run, Age(r)
        PROVE  UNCHANGED <<log, pc, lock, signing>>
    BY <2>5 DEF Age
  <2>6. ~ Restart /\ ~ Reset /\ ~ ReadToSign /\ ~ Sign
    BY <1>1 DEF Restart, Reset, ReadToSign, Sign, LoopFree
  <2>7. UNCHANGED <<log, pc, lock, signing>>
    BY <2>3, <2>4, <2>5, <2>6 DEF Next, Review, vars
  <2>8. ASSUME NEW r \in Run, pc'[r] = "dead", Leftover(r)' # {}
        PROVE  Overtaken(r)'
    <3>1. pc[r] = "dead" /\ Leftover(r) # {}
      BY <2>7, <2>8, Onward
    <3> QED BY <2>1, <3>1, StillOvertaken
  <2> QED BY <2>1, <2>7, <2>8
<1>2. CASE signing = None
  <2>1. ReadToSign
    BY <1>2 DEF Next, Review, Arrive, Start, WriteFloor, WriteAssessment, Critic, Compute, Reply,
                Complete, Die, Orphan, Age, Restart, Reset, Sign, vars
  <2>2. /\ lock' = None /\ signing' = Recommendation(log) /\ Facts(log) # {}
        /\ UNCHANGED <<log, pc, stage>>
        /\ \A q \in LatestReview : Finished(q)
    BY <2>1 DEF ReadToSign
  <2>3. ASSUME NEW r \in Run, pc[r] = "dead", Leftover(r) # {}
        PROVE  Overtaken(r)
    BY <2>2, <2>3, CompletedOvertakes DEF Leftovers
  <2>4. ASSUME NEW r \in Run, pc'[r] = "dead", Leftover(r)' # {}
        PROVE  Overtaken(r)'
    <3>1. pc[r] = "dead" /\ Leftover(r) # {}
      BY <2>2, <2>4 DEF Leftover
    <3> QED BY <2>3, <3>1, StillOvertaken
  <2> QED BY <2>2, <2>4
<1> QED BY <1>1, <1>2

----------------------------------------------------------------------------
(* The invariants hold.                                                    *)

RoomInv == Typed /\ Records /\ Counted /\ Orderly

LEMMA RecordsStep ==
  ASSUME Typed, Records, [Next]_vars
  PROVE  Records'
BY StartsStep, CompletionsStep, AtWorkStep, AssessedOnceStep, AgentsStep, AgedInOrderStep
   DEF Records

LEMMA OrderlyStep ==
  ASSUME Typed, Records, Orderly, [Next]_vars
  PROVE  Orderly'
<1> SUFFICES ASSUME Confined'
             PROVE  Held' /\ Leftovers' /\ Signing' /\ AssessedInSight'
  BY DEF Orderly
<1>1. Confined /\ Held /\ Leftovers /\ Signing /\ AssessedInSight /\ Agents
  BY StillConfined DEF Orderly, Records
<1> QED BY <1>1, HeldStep, LeftoversStep, SigningStep, AssessedInSightStep

LEMMA RoomInvInit == Init => RoomInv
BY TypeInit, RecordsInit DEF RoomInv

LEMMA RoomInvStep ==
  ASSUME RoomInv, [Next]_vars
  PROVE  RoomInv'
<1>1. Starts
  BY DEF RoomInv, Records
<1> QED BY <1>1, TypeStep, RecordsStep, CountedStep, OrderlyStep DEF RoomInv

LEMMA Invariance == Spec => []RoomInv
<1>1. RoomInv /\ [Next]_vars => RoomInv'
  BY RoomInvStep
<1> QED BY <1>1, RoomInvInit, PTL DEF Spec

\* The type of every variable, and that whoever holds the lock is a live run.
THEOREM TypeCorrect == Spec => []TypeOK
<1>1. RoomInv => TypeOK
  BY DEF RoomInv, Typed
<1> QED BY <1>1, Invariance, PTL

----------------------------------------------------------------------------
(* Rounds.                                                                 *)

LEMMA RoundsRiseStep ==
  ASSUME RoomInv, RoundsRise, [Next]_vars
  PROVE  RoundsRise'
<1> USE DEF RoomInv
<1> SUFFICES ASSUME NEW i \in Seen(log', "started"), NEW j \in Seen(log', "started"), i < j
             PROVE  log'[i].round < log'[j].round
  BY DEF RoundsRise
<1>1. \A type : Seen(log', type) = Seen(log, type) \cup (At(log', type) \ At(log, type))
  BY SightStep
<1>2. ASSUME NEW k \in Seen(log', "started"), k \notin Seen(log, "started")
      PROVE  /\ k = Len(log) + 1
             /\ log'[k].round = 1 + Cardinality(Seen(log, "started"))
  <2>1. k \in At(log', "started") /\ k \notin At(log, "started")
    BY <1>1, <1>2
  <2> QED BY <2>1, NewEvent DEF Writer, NextRound
<1>3. ASSUME NEW k \in Seen(log, "started")
      PROVE  /\ k \in 1 .. Len(log) /\ log'[k] = log[k]
             /\ log[k].round <= Cardinality(Seen(log, "started")) /\ log[k].round \in Nat
  <2>1. k \in At(log, "started") /\ k \in 1 .. Len(log)
    BY SeenIsThere
  <2> QED BY <2>1, LogStep DEF Counted, Records, Starts, Typed, TypeOK
<1>4. Cardinality(Seen(log, "started")) \in Nat /\ Len(log) \in Nat
  BY Counts, LogStep DEF Typed
<1>5. CASE i \in Seen(log, "started") /\ j \in Seen(log, "started")
  BY <1>3, <1>5 DEF RoundsRise
<1>6. CASE i \in Seen(log, "started") /\ j \notin Seen(log, "started")
  BY <1>2, <1>3, <1>4, <1>6
<1>7. CASE i \notin Seen(log, "started")
  <2>1. i = Len(log) + 1
    BY <1>2, <1>7
  <2>2. j \in 1 .. Len(log) + 1
    BY <1>2, <1>3, <1>4
  <2> QED BY <1>4, <2>1, <2>2
<1> QED BY <1>5, <1>6, <1>7

\* Each review in sight has a higher round than those before it, so a later
\* review supersedes whatever runs overlap, die or are reset.
THEOREM RoundsAlwaysRise == Spec => []RoundsRise
<1>1. Init => RoundsRise
  BY DEF Init, RoundsRise, Seen, At
<1>2. RoomInv /\ RoundsRise /\ [Next]_vars => RoundsRise'
  BY RoundsRiseStep
<1> QED BY <1>1, <1>2, Invariance, PTL DEF Spec

LEMMA DistinctIds ==
  ASSUME RoomInv, RoundsRise
  PROVE  NoVerdictDropped
<1> SUFFICES ASSUME Confined, NEW c \in Claim,
                    NEW a \in Assessments(log, c), NEW b \in Assessments(log, c),
                    a.event.round = b.event.round
             PROVE  a = b
  BY DEF NoVerdictDropped
<1>1. PICK i \in Seen(log, "assessed") : log[i].claim = c /\ a = [at |-> i, event |-> log[i]]
  BY DEF Assessments
<1>2. PICK j \in Seen(log, "assessed") : log[j].claim = c /\ b = [at |-> j, event |-> log[j]]
  BY DEF Assessments
<1>3. log[i].round = log[j].round
  BY <1>1, <1>2
<1>4. AssessedInSight
  BY DEF RoomInv, Orderly
<1>5. PICK m \in Seen(log, "started") : log[m].run = log[i].run /\ log[m].round = log[i].round
  BY <1>4 DEF AssessedInSight
<1>6. PICK n \in Seen(log, "started") : log[n].run = log[j].run /\ log[n].round = log[j].round
  BY <1>4 DEF AssessedInSight
<1>7. /\ m \in Nat /\ n \in Nat
      /\ log[m].round \in Nat /\ log[n].round \in Nat
  <2>1. m \in At(log, "started") /\ n \in At(log, "started") /\ m \in Nat /\ n \in Nat
    BY SeenIsThere DEF RoomInv
  <2> QED BY <2>1 DEF RoomInv, Records, Starts, Typed, TypeOK
<1>8. m = n
  BY <1>3, <1>5, <1>6, <1>7 DEF RoundsRise
<1>9. i \in At(log, "assessed") /\ j \in At(log, "assessed")
  BY SeenIsThere DEF RoomInv
<1>10. i = j
  BY <1>1, <1>2, <1>5, <1>6, <1>8, <1>9 DEF RoomInv, Records, AssessedOnce
<1> QED BY <1>1, <1>2, <1>10

\* While nothing strays, no two assessments in sight share an id, so none is
\* dropped when the ledger is projected.
THEOREM VerdictsAreKept == Spec => []NoVerdictDropped
<1>1. RoomInv /\ RoundsRise => NoVerdictDropped
  BY DistinctIds
<1> QED BY <1>1, Invariance, RoundsAlwaysRise, PTL

----------------------------------------------------------------------------
(* Resets.                                                                 *)

\* Whatever is recorded but a start, a reset and a decision comes from a run
\* whose start is in sight; and all but scores and completions before them.
LEMMA FromInSight ==
  ASSUME RoomInv, Confined, Confined', [Next]_vars, NEW e,
         log' = Append(log, e), Writer(e.type, e),
         e.type \notin {"started", "cleared", "decided"}
  PROVE  \E i \in Seen(log, "started") :
           e.type \notin {"computed", "completed"} =>
             \A k \in At(log, "computed") : k < i
<1>1. Typed /\ Records /\ Held /\ Leftovers
  BY DEF RoomInv, Orderly
<1>2. ~ UNCHANGED log
  <2>1. Len(log') = Len(log) + 1 /\ Len(log) \in Nat
    BY <1>1, Grown DEF Typed
  <2> QED BY <2>1
<1>3. CASE e.type \in {"fact", "assessed"}
  <2>1. PICK r \in Run, c \in Claim : WriteFloor(r, c) \/ WriteAssessment(r, c)
    BY <1>3 DEF Writer
  <2>2. /\ \/ pc[r] = "working"
           \/ pc[r] = "dead" /\ Leftover(r) # {} /\ ~ Overtaken(r)
        /\ InSight(r)
    BY <1>1, <1>2, <2>1, WriterInSight
  <2>3. CASE pc[r] = "working"
    <3>1. PICK i \in Seen(log, "started") : \A k \in At(log, "computed") : k < i
      BY <1>1, <2>3 DEF Held, Begun
    <3> QED BY <3>1
  <2>4. CASE ~ Overtaken(r)
    <3>1. PICK i \in Seen(log, "started") : log[i].run = r
      BY <2>2 DEF InSight
    <3>2. ASSUME NEW k \in At(log, "computed")
          PROVE  k < i
      <4>1. /\ k \in Nat /\ i \in Nat /\ i \in At(log, "started")
            /\ k \in DOMAIN log /\ log[k].type = "computed" /\ log[i].type = "started"
        BY <1>1, SeenIsThere DEF At
      <4>2. ~ k > i
        BY <2>4, <3>1, <4>1 DEF Overtaken
      <4>3. k # i
        BY <4>1
      <4> QED BY <4>1, <4>2, <4>3
    <3> QED BY <3>2
  <2> QED BY <2>2, <2>3, <2>4
<1>4. CASE e.type = "checked"
  <2>1. PICK r \in Run : Critic(r)
    BY <1>4 DEF Writer
  <2>2. pc[r] = "working"
    BY <2>1 DEF Critic, Goto
  <2>3. PICK i \in Seen(log, "started") : \A k \in At(log, "computed") : k < i
    BY <1>1, <2>2 DEF Held, Begun
  <2> QED BY <2>3
<1>5. CASE e.type \in {"computed", "completed"}
  <2>1. PICK r \in Run : Compute(r) \/ Complete(r)
    BY <1>5 DEF Writer
  <2>2. pc[r] \in Begun
    BY <2>1 DEF Compute, Complete, Goto, Begun
  <2>3. Seen(log, "started") # {}
    BY <1>1, <2>2 DEF Held
  <2> QED BY <1>5, <2>3
<1> QED BY <1>3, <1>4, <1>5 DEF Writer

LEMMA ResetClearsStep ==
  ASSUME RoomInv, ResetClears, [Next]_vars
  PROVE  ResetClears'
<1> SUFFICES ASSUME Confined'
             PROVE  \/ Last(At(log', "cleared")) = 0
                    \/ Seen(log', "started") # {}
                    \/ Visible(log') = {}
  BY DEF ResetClears
<1>1. Confined /\ Typed /\ Signing
  BY StillConfined DEF RoomInv, Orderly
<1>2. \/ Last(At(log, "cleared")) = 0
      \/ Seen(log, "started") # {}
      \/ Visible(log) = {}
  BY <1>1 DEF ResetClears
<1>3. CASE UNCHANGED log
  BY <1>2, <1>3
<1>4. CASE ~ UNCHANGED log
  <2>1. PICK e : log' = Append(log, e) /\ Writer(e.type, e)
    BY <1>1, <1>4, Wrote
  <2>2. CASE e.type = "cleared"
    BY <1>1, <2>1, <2>2, VisibleAppend DEF Typed
  <2>3. CASE e.type # "cleared"
    <3>1. /\ At(log', "cleared") = At(log, "cleared")
          /\ Seen(log, "started") \subseteq Seen(log', "started")
      BY <1>1, <2>1, <2>3, AtAppend, SeenAppend DEF Typed
    <3>2. CASE e.type = "started"
      <4>1. Len(log) + 1 \in Seen(log', "started")
        BY <1>1, <2>1, <3>2, SeenAppend DEF Typed
      <4> QED BY <4>1
    <3>3. CASE e.type = "decided"
      <4>1. signing # None
        BY <2>1, <3>3 DEF Writer, Sign
      <4>2. Facts(log) # {}
        BY <1>1, <4>1 DEF Signing
      <4>3. Visible(log) # {}
        BY <4>2 DEF Facts, Seen
      <4> QED BY <1>2, <3>1, <4>3
    <3>4. CASE e.type \notin {"started", "decided"}
      <4>1. Seen(log, "started") # {}
        BY <1>1, <2>1, <2>3, <3>4, FromInSight
      <4> QED BY <3>1, <4>1
    <3> QED BY <3>2, <3>3, <3>4
  <2> QED BY <2>2, <2>3
<1> QED BY <1>3, <1>4

\* While nothing strays, a reset leaves nothing in sight until a new review
\* starts.
THEOREM ResetsAlwaysClear == Spec => []ResetClears
<1>1. Init => ResetClears
  BY DEF Init, ResetClears, Last, At
<1>2. RoomInv /\ ResetClears /\ [Next]_vars => ResetClears'
  BY ResetClearsStep
<1> QED BY <1>1, <1>2, Invariance, PTL DEF Spec

----------------------------------------------------------------------------
(* What is shown and signed.                                               *)

\* Starting, scoring, completing and deciding leave the recommendation alone.
LEMMA RecommendationKept ==
  ASSUME NEW l, IsLog(l), NEW e, e.type \in {"started", "computed", "completed", "decided"}
  PROVE  Recommendation(Append(l, e)) = Recommendation(l)
<1> DEFINE m == Append(l, e)
<1>1. ASSUME NEW type \in {"fact", "assessed", "checked"}
      PROVE  /\ Seen(m, type) = Seen(l, type) /\ Seen(l, type) \subseteq 1 .. Len(l)
             /\ At(m, type) = At(l, type) /\ At(l, type) \subseteq 1 .. Len(l)
  <2>1. e.type # type /\ e.type # "cleared"
    OBVIOUS
  <2>2. At(m, type) = At(l, type) /\ At(l, type) \subseteq 1 .. Len(l)
    BY <2>1, AtAppend
  <2>3. Seen(m, type) = Seen(l, type) /\ Seen(l, type) \subseteq At(l, type)
    BY <2>1, SeenAppend
  <2> QED BY <2>2, <2>3
<1>2. \A i \in 1 .. Len(l) : m[i] = l[i]
  BY AppendLog
<1> HIDE DEF m
<1>3. Facts(m) = Facts(l)
  BY <1>1, <1>2 DEF Facts
<1>4. Flagged(m) = Flagged(l)
  BY <1>1, <1>2 DEF Flagged
<1>5. ASSUME NEW c, NEW flagged
      PROVE  VerdictOn(m, c, flagged) = VerdictOn(l, c, flagged)
  <2>1. Assessments(m, c) = Assessments(l, c)
    BY <1>1, <1>2 DEF Assessments
  <2>2. Current(m, c) = Current(l, c)
    BY <2>1 DEF Current
  <2> QED BY <2>1, <2>2 DEF VerdictOn
<1>6. Recommended(m, Flagged(m)) = Recommended(l, Flagged(l))
  BY <1>3, <1>4, <1>5 DEF Recommended
<1> QED BY <1>6 DEF Recommendation, m

LEMMA QueueAgreesStep ==
  ASSUME RoomInv, QueueAgrees, [Next]_vars
  PROVE  QueueAgrees'
<1> DEFINE i == Last(Seen(log', "computed"))
<1> SUFFICES ASSUME Confined', i # 0, \A j \in Seen(log', "started") : j < i
             PROVE  log'[i].basis = Recommendation(log')
  BY DEF QueueAgrees
<1>1. Confined /\ Typed
  BY StillConfined DEF RoomInv
<1>2. CASE UNCHANGED log
  BY <1>1, <1>2 DEF QueueAgrees
<1>3. CASE ~ UNCHANGED log
  <2>1. PICK e : log' = Append(log, e) /\ Writer(e.type, e)
    BY <1>1, <1>3, Wrote
  <2>2. /\ Len(log) \in Nat
        /\ Seen(log, "computed") \in SUBSET (1 .. Len(log))
        /\ Seen(log, "computed") \subseteq At(log, "computed")
        /\ Seen(log, "started") \subseteq 1 .. Len(log)
    BY <1>1, SeenIsThere, AppendLog DEF Typed
  <2>3. CASE e.type = "cleared"
    <3>1. Seen(log', "computed") = {}
      BY <1>1, <2>1, <2>3, SeenAppend DEF Typed
    <3> QED BY <3>1 DEF Last
  <2>4. CASE e.type = "computed"
    <3>1. Seen(log', "computed") = Seen(log, "computed") \cup {Len(log) + 1}
      BY <1>1, <2>1, <2>4, SeenAppend DEF Typed
    <3>2. i = Len(log) + 1
      BY <2>2, <3>1, LastAdded
    <3>3. log'[Len(log) + 1] = e
      BY <1>1, <2>1, Grown DEF Typed
    <3>4. e.basis = Recommendation(log)
      BY <2>1, <2>4 DEF Writer
    <3>5. Recommendation(log') = Recommendation(log)
      BY <1>1, <2>1, <2>4, RecommendationKept DEF Typed
    <3> HIDE DEF i
    <3> QED BY <3>2, <3>3, <3>4, <3>5
  <2>5. CASE e.type \notin {"cleared", "computed"}
    <3>1. /\ Seen(log', "computed") = Seen(log, "computed")
          /\ Seen(log, "started") \subseteq Seen(log', "started")
          /\ e.type = "started" => Len(log) + 1 \in Seen(log', "started")
      BY <1>1, <2>1, <2>5, SeenAppend DEF Typed
    <3>2. i = Last(Seen(log, "computed"))
      BY <3>1
    <3>3. i \in Seen(log, "computed")
      <4>1. Seen(log, "computed") # {}
        BY <3>1 DEF Last
      <4> QED BY <2>2, <3>2, <4>1, LastIsLatest
    <3>4. log'[i] = log[i] /\ i \in 1 .. Len(log) /\ i \in At(log, "computed")
      BY <1>1, <2>2, <3>3, LogStep
    <3> HIDE DEF i
    <3>5. log[i].basis = Recommendation(log)
      BY <1>1, <3>1, <3>2 DEF QueueAgrees
    <3>6. e.type # "started"
      BY <2>2, <3>1, <3>4
    <3>7. CASE e.type \in {"completed", "decided"}
      <4>1. Recommendation(log') = Recommendation(log)
        BY <1>1, <2>1, <3>7, RecommendationKept DEF Typed
      <4> QED BY <3>4, <3>5, <4>1
    <3>8. CASE e.type \notin {"completed", "decided"}
      <4>1. e.type \notin {"started", "cleared", "decided"}
            /\ e.type \notin {"computed", "completed"}
        BY <2>5, <3>6, <3>8
      <4>2. PICK j \in Seen(log, "started") : \A k \in At(log, "computed") : k < j
        BY <1>1, <2>1, <4>1, FromInSight
      <4>3. i < j /\ j < i /\ i \in Nat /\ j \in Nat
        BY <2>2, <3>1, <3>4, <4>2
      <4> QED BY <4>3
    <3> QED BY <3>7, <3>8
  <2> QED BY <2>3, <2>4, <2>5
<1> QED BY <1>2, <1>3

\* While nothing strays and nothing new was started, the queue shows what the
\* case page computes.
THEOREM QueueAlwaysAgrees == Spec => []QueueAgrees
<1>1. Init => QueueAgrees
  BY DEF Init, QueueAgrees, Last, Seen, At
<1>2. RoomInv /\ QueueAgrees /\ [Next]_vars => QueueAgrees'
  BY QueueAgreesStep
<1> QED BY <1>1, <1>2, Invariance, PTL DEF Spec

\* A prefix of a log is a prefix of its extension.
LEMMA PrefixKept ==
  ASSUME NEW l, IsLog(l), NEW e
  PROVE  /\ SubSeq(Append(l, e), 1, Len(l)) = l
         /\ \A n \in 1 .. Len(l) : SubSeq(Append(l, e), 1, n - 1) = SubSeq(l, 1, n - 1)
<1>1. PICK S : l \in Seq(S)
  BY DEF IsLog
<1> DEFINE T == S \cup {e}
<1>2. l \in Seq(T) /\ e \in T
  BY <1>1
<1> HIDE DEF T
<1> QED BY <1>2

LEMMA DecisionBoundStep ==
  ASSUME RoomInv, DecisionBound, [Next]_vars
  PROVE  DecisionBound'
<1> SUFFICES ASSUME Confined', NEW i \in At(log', "decided")
             PROVE  log'[i].basis = Recommendation(SubSeq(log', 1, i - 1))
  BY DEF DecisionBound
<1>1. Confined /\ Typed /\ Signing
  BY StillConfined DEF RoomInv, Orderly
<1>2. CASE i \in At(log, "decided")
  <2>1. i \in 1 .. Len(log) /\ log'[i] = log[i]
    BY <1>1, <1>2, LogStep
  <2>2. log[i].basis = Recommendation(SubSeq(log, 1, i - 1))
    BY <1>1, <1>2 DEF DecisionBound
  <2>3. SubSeq(log', 1, i - 1) = SubSeq(log, 1, i - 1)
    <3>1. UNCHANGED log \/ \E e : log' = Append(log, e)
      BY <1>1, LogStep
    <3> QED BY <1>1, <2>1, <3>1, PrefixKept DEF Typed
  <2> QED BY <2>1, <2>2, <2>3
<1>3. CASE i \notin At(log, "decided")
  <2>1. /\ i = Len(log) + 1 /\ log' = Append(log, log'[i])
        /\ Sign /\ log'[i].basis = signing
    BY <1>1, <1>3, NewEvent DEF Writer
  <2>2. signing = Recommendation(log)
    BY <1>1, <2>1 DEF Sign, Signing
  <2>3. SubSeq(log', 1, Len(log)) = log
    BY <1>1, <2>1, PrefixKept DEF Typed
  <2>4. i - 1 = Len(log)
    BY <1>1, <2>1, LogStep
  <2> QED BY <2>1, <2>2, <2>3, <2>4
<1> QED BY <1>2, <1>3

\* While nothing strays, a decision signs exactly what the ledger said.
THEOREM DecisionsAreBound == Spec => []DecisionBound
<1>1. Init => DecisionBound
  BY DEF Init, DecisionBound, At
<1>2. RoomInv /\ DecisionBound /\ [Next]_vars => DecisionBound'
  BY DecisionBoundStep
<1> QED BY <1>1, <1>2, Invariance, PTL DEF Spec
=============================================================================
