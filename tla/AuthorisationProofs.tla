------------------------- MODULE AuthorisationProofs -----------------------
(***************************************************************************)
(* What agents/assess.py current leaves of the assessments of any number   *)
(* of rounds, runs, agents and rules: a run keeps every verdict that no    *)
(* later round of the same claim took back, and a round that looks at some *)
(* runs takes nothing from the others.                                     *)
(*                                                                         *)
(* And what pipeline/authorisation.py recommend makes of them, for every   *)
(* dossier, rulebook, policy and set of findings: one more breach on a run *)
(* that counts never brings a better disposition.  A weight is a sum over  *)
(* the events into which findings are joined, and sums and events are made *)
(* from the data; what is said of them for all data rests on sums being    *)
(* counts of marks, and on a finite set of sets having a smallest.         *)
(***************************************************************************)
EXTENDS Authorisation, FiniteSetTheorems, TLAPS

\* The fields of an assessment on the ledger.  What they hold is left open.
AllFields == {"agent", "round", "rule", "subject", "verdict", "runs", "scope", "review",
              "certain", "cites"}

\* Assessments that are complete.
AreAssessments(as) == \A a \in as : DOMAIN a = AllFields

\* What later rounds of its claim took away from an assessment, and the
\* assessment as it stands after that, if it does.
Taken(as, a) == UNION {b.review : b \in Later(as, a)}
ByRun(as, a) == a.scope = "run" /\ Taken(as, a) # {}
Stays(as, a) ==
  /\ ~\E b \in Later(as, a) : b.review = {}
  /\ ByRun(as, a) => a.runs \ Taken(as, a) # {}
Narrowed(as, a) ==
  [a EXCEPT !.runs = IF ByRun(as, a) THEN a.runs \ Taken(as, a) ELSE a.runs,
            !.cites = IF ByRun(as, a) THEN {c \in a.cites : c[2] \notin Taken(as, a)}
                      ELSE a.cites]

\* A later round of the same claim has looked at run i, or at everything.
Replaced(as, a, i) == \E b \in Later(as, a) : b.review = {} \/ i \in b.review

\* The assessments of single runs that concern run i and were not replaced.
Kept(as, i) == {a \in as : a.scope = "run" /\ i \in a.runs /\ ~Replaced(as, a, i)}

\* What a reader takes away of an assessment.
Summary(a) == <<a.agent, a.rule, a.subject, a.verdict>>
----------------------------------------------------------------------------
\* What stands is what is left, narrowed (assess.py, current).
LEMMA CurrentIsNarrowed ==
  ASSUME NEW as
  PROVE  Current(as) = {Narrowed(as, a) : a \in {b \in as : Stays(as, b)}}
BY DEF Current, Narrowed, Stays, ByRun, Taken

\* Narrowing an assessment changes its runs and what it cites, and nothing
\* else of it.
LEMMA NarrowedFields ==
  ASSUME NEW as, NEW a, DOMAIN a = AllFields
  PROVE  /\ DOMAIN Narrowed(as, a) = AllFields
         /\ Narrowed(as, a).agent = a.agent
         /\ Narrowed(as, a).round = a.round
         /\ Narrowed(as, a).rule = a.rule
         /\ Narrowed(as, a).subject = a.subject
         /\ Narrowed(as, a).verdict = a.verdict
         /\ Narrowed(as, a).scope = a.scope
         /\ Narrowed(as, a).review = a.review
         /\ Narrowed(as, a).certain = a.certain
BY DEF Narrowed, AllFields

\* What narrowing does to the runs and to the citations.
LEMMA NarrowedRuns ==
  ASSUME NEW as, NEW a, DOMAIN a = AllFields
  PROVE  /\ ByRun(as, a) => Narrowed(as, a).runs = a.runs \ Taken(as, a)
         /\ ~ByRun(as, a) => Narrowed(as, a).runs = a.runs
         /\ \A c \in a.cites : c[2] \notin Taken(as, a) => c \in Narrowed(as, a).cites
BY DEF Narrowed, AllFields

\* Narrowing changes nothing that a reader takes away.
LEMMA SummaryStays ==
  ASSUME NEW as, NEW a, DOMAIN a = AllFields
  PROVE  Summary(Narrowed(as, a)) = Summary(a)
BY NarrowedFields DEF Summary

\* A run that was looked at again was taken away, or everything was.
LEMMA ReplacedIsTaken ==
  ASSUME NEW as, NEW a, NEW i
  PROVE  Replaced(as, a, i) <=> \/ \E b \in Later(as, a) : b.review = {}
                                \/ i \in Taken(as, a)
BY DEF Replaced, Taken

\* An assessment of single runs stands on run i when it concerns the run and
\* was not replaced for it.
LEMMA StandsOnRun ==
  ASSUME NEW as, NEW a \in as, DOMAIN a = AllFields, NEW i
  PROVE  /\ Stays(as, a)
         /\ Narrowed(as, a).scope = "run"
         /\ i \in Narrowed(as, a).runs
         <=> a \in Kept(as, i)
<1>1. /\ Narrowed(as, a).scope = a.scope
      /\ ByRun(as, a) => Narrowed(as, a).runs = a.runs \ Taken(as, a)
      /\ ~ByRun(as, a) => Narrowed(as, a).runs = a.runs
  BY NarrowedFields, NarrowedRuns
<1>2. CASE ByRun(as, a)
  BY <1>1, <1>2, ReplacedIsTaken DEF Kept, Stays
<1>3. CASE ~ByRun(as, a)
  <2>1. a.scope = "run" => Taken(as, a) = {}
    BY <1>3 DEF ByRun
  <2>. QED
    BY <1>1, <1>3, <2>1, ReplacedIsTaken DEF Kept, Stays
<1>. QED
  BY <1>2, <1>3

\* What stands on a run is what was said of it and not replaced for it:
\* narrowing an assessment to the runs it has left neither drops a verdict
\* that still applies nor keeps one that does not.
THEOREM StandingIsKept ==
  ASSUME NEW as, AreAssessments(as), NEW i
  PROVE  OnRun(as, i) = {Summary(a) : a \in Kept(as, i)}
<1>1. OnRun(as, i) = {Summary(b) : b \in {c \in Current(as) : c.scope = "run" /\ i \in c.runs}}
  BY DEF OnRun, Summary
<1>2. ASSUME NEW x \in OnRun(as, i) PROVE x \in {Summary(a) : a \in Kept(as, i)}
  <2>1. PICK b \in Current(as) : b.scope = "run" /\ i \in b.runs /\ x = Summary(b)
    BY <1>1
  <2>2. PICK a \in as : Stays(as, a) /\ b = Narrowed(as, a)
    BY CurrentIsNarrowed
  <2>3. DOMAIN a = AllFields
    BY DEF AreAssessments
  <2>. QED
    BY <2>1, <2>2, <2>3, StandsOnRun, SummaryStays
<1>3. ASSUME NEW a \in Kept(as, i) PROVE Summary(a) \in OnRun(as, i)
  <2>1. a \in as
    BY DEF Kept
  <2>2. DOMAIN a = AllFields
    BY <2>1 DEF AreAssessments
  <2>3. Narrowed(as, a) \in {c \in Current(as) : c.scope = "run" /\ i \in c.runs}
    BY <2>1, <2>2, CurrentIsNarrowed, StandsOnRun
  <2>. QED
    BY <1>1, <2>2, <2>3, SummaryStays
<1>. QED
  BY <1>2, <1>3

\* A round that looked at some runs only leaves what stands on every other
\* run as it was, whatever it found and whatever is on the record.
THEOREM FocusedReviewsStayFocused ==
  ASSUME NEW as, NEW new, AreAssessments(as), AreAssessments(new),
         NEW seen, NEW i, i \notin seen, seen # {},
         \A n \in new : n.review = seen /\ n.runs \subseteq seen
  PROVE  OnRun(as \cup new, i) = OnRun(as, i)
<1>. DEFINE all == as \cup new
<1>1. AreAssessments(all)
  BY DEF AreAssessments
<1>2. \A a \in new : a \notin Kept(all, i)
  BY DEF Kept
<1>3. \A a \in as : Replaced(all, a, i) <=> Replaced(as, a, i)
  BY DEF Replaced, Later
<1>4. Kept(all, i) = Kept(as, i)
  BY <1>2, <1>3 DEF Kept
<1>. QED
  BY <1>1, <1>4, StandingIsKept
----------------------------------------------------------------------------
\* As many marks for each element as its value, so that a sum is a count.
Marks(f, S) == UNION {{<<k, n>> : n \in 1 .. f[k]} : k \in S}

\* What is made of a finite set, one by one, is finite.
LEMMA ImageIsFinite ==
  ASSUME NEW S, IsFiniteSet(S), NEW g, NEW T, \A y \in T : \E x \in S : y = g[x]
  PROVE  IsFiniteSet(T)
<1>. DEFINE U == {x \in S : g[x] \in T}
            h == [x \in U |-> g[x]]
<1>1. IsFiniteSet(U)
  BY FS_Subset
<1>2. h \in Surjection(U, T)
  BY DEF Surjection
<1>. QED
  BY <1>1, <1>2, FS_Surjection

\* An element has as many marks as its value.
LEMMA MarksOfOne ==
  ASSUME NEW f, NEW k, f[k] \in Nat
  PROVE  /\ IsFiniteSet({<<k, n>> : n \in 1 .. f[k]})
         /\ Cardinality({<<k, n>> : n \in 1 .. f[k]}) = f[k]
<1>. DEFINE T == {<<k, n>> : n \in 1 .. f[k]}
            h == [n \in 1 .. f[k] |-> <<k, n>>]
<1>1. IsFiniteSet(1 .. f[k]) /\ Cardinality(1 .. f[k]) = f[k]
  BY FS_Interval
<1>2. h \in Surjection(1 .. f[k], T) /\ h \in Injection(1 .. f[k], T)
  BY DEF Surjection, Injection, IsInjective
<1>. QED
  BY <1>1, <1>2, FS_Surjection

\* One more element adds its marks.
LEMMA MarksAdd ==
  ASSUME NEW f, NEW S, IsFiniteSet(Marks(f, S)), NEW k, k \notin S, f[k] \in Nat
  PROVE  /\ IsFiniteSet(Marks(f, S \cup {k}))
         /\ Cardinality(Marks(f, S \cup {k})) = Cardinality(Marks(f, S)) + f[k]
<1>. DEFINE T == {<<k, n>> : n \in 1 .. f[k]}
<1>1. IsFiniteSet(T) /\ Cardinality(T) = f[k]
  BY MarksOfOne
<1>2. Marks(f, S \cup {k}) = Marks(f, S) \cup T /\ Marks(f, S) \cap T = {}
  BY DEF Marks
<1>3. Cardinality({}) = 0 /\ Cardinality(Marks(f, S)) \in Nat
  BY FS_EmptySet, FS_CardinalityType
<1>. HIDE DEF T
<1>4. /\ IsFiniteSet(Marks(f, S) \cup T)
      /\ Cardinality(Marks(f, S) \cup T)
         = Cardinality(Marks(f, S)) + Cardinality(T) - Cardinality(Marks(f, S) \cap T)
  BY <1>1, FS_Union
<1>5. Cardinality(Marks(f, S) \cap T) = 0
  BY <1>2, <1>3
<1>6. Cardinality(Marks(f, S) \cup T) = Cardinality(Marks(f, S)) + f[k]
  BY <1>1, <1>3, <1>4, <1>5
<1>. QED
  BY <1>2, <1>4, <1>6, Zenon

\* Among subsets of a finite set, some has no other below it.
LEMMA Smallest ==
  ASSUME NEW S, IsFiniteSet(S), NEW T, T \subseteq SUBSET S, T # {}
  PROVE  \E s \in T : \A t \in T : t \subseteq s => t = s
<1>1. IsWellFoundedOn(StrictSubsetOrdering(S), SUBSET S)
  BY FS_StrictSubsetOrderingWellFounded, FS_FiniteSubsetsOfFinite
<1>2. PICK s \in T : \A t \in T : <<t, s>> \notin StrictSubsetOrdering(S)
  BY <1>1, WFMin
<1>. QED
  BY <1>2 DEF StrictSubsetOrdering

\* A finite set has finitely many marks: else some smallest subset had not.
LEMMA MarksFinite ==
  ASSUME NEW S, IsFiniteSet(S), NEW f, \A k \in S : f[k] \in Nat
  PROVE  IsFiniteSet(Marks(f, S))
<1>. DEFINE T == {s \in SUBSET S : ~IsFiniteSet(Marks(f, s))}
<1>. SUFFICES ASSUME T # {} PROVE FALSE
  OBVIOUS
<1>1. PICK s \in T : \A t \in T : t \subseteq s => t = s
  <2>1. T \subseteq SUBSET S
    OBVIOUS
  <2>. HIDE DEF T
  <2>. QED
    BY <2>1, Smallest
<1>2. s # {}
  <2>1. Marks(f, {}) = {}
    BY DEF Marks
  <2>. QED
    BY <2>1, FS_EmptySet
<1>3. PICK k \in s : TRUE
  BY <1>2
<1>4. IsFiniteSet(Marks(f, s \ {k}))
  BY <1>1, <1>3
<1>5. (s \ {k}) \cup {k} = s
  BY <1>3
<1>. QED
  BY <1>3, <1>4, <1>5, MarksAdd

\* A sum over a finite set, whatever order it is taken in, is the number of
\* the marks: else some smallest subset had another.
LEMMA SumIsCount ==
  ASSUME NEW S, IsFiniteSet(S), NEW f, \A k \in S : f[k] \in Nat
  PROVE  SumFunctionOnSet(f, S) = Cardinality(Marks(f, S))
<1>. DEFINE one(s) == CHOOSE x \in s : TRUE
            step(h) == [s \in SUBSET S |-> IF s = {} THEN 0 ELSE f[one(s)] + h[s \ {one(s)}]]
            sum == CHOOSE h : h = step(h)
            count == [s \in SUBSET S |-> Cardinality(Marks(f, s))]
<1>1. SumFunctionOnSet(f, S) = sum[S]
  BY DEF SumFunctionOnSet, FoldFunctionOnSet, MapThenFoldSet
<1>2. ASSUME NEW s \in SUBSET S PROVE s # {} => one(s) \in s
  OBVIOUS
<1>3. ASSUME NEW s \in SUBSET S, s # {}
      PROVE  count[s] = f[one(s)] + count[s \ {one(s)}]
  <2>. DEFINE t == s \ {one(s)}
  <2>1. one(s) \in s /\ t \cup {one(s)} = s /\ one(s) \notin t /\ t \in SUBSET S
    BY <1>2, <1>3
  <2>. HIDE DEF one, t
  <2>2. IsFiniteSet(t)
    BY <2>1, FS_Subset
  <2>3. IsFiniteSet(Marks(f, t))
    BY <2>1, <2>2, MarksFinite
  <2>4. Cardinality(Marks(f, s)) = Cardinality(Marks(f, t)) + f[one(s)]
    BY <2>1, <2>3, MarksAdd
  <2>5. Cardinality(Marks(f, t)) \in Nat /\ f[one(s)] \in Nat
    BY <2>1, <2>3, FS_CardinalityType
  <2>. QED
    BY <2>1, <2>4, <2>5 DEF t
<1>4. Cardinality(Marks(f, {})) = 0
  <2>1. Marks(f, {}) = {}
    BY DEF Marks
  <2>. QED
    BY <2>1, FS_EmptySet
<1>5. count = step(count)
  <2>1. ASSUME NEW s \in SUBSET S
        PROVE  count[s] = IF s = {} THEN 0 ELSE f[one(s)] + count[s \ {one(s)}]
    BY <1>3, <1>4
  <2>2. DOMAIN count = SUBSET S /\ count = [s \in SUBSET S |-> count[s]]
    OBVIOUS
  <2>. HIDE DEF count, one
  <2>. QED
    BY <2>1, <2>2
<1>6. sum = step(sum)
  <2>. HIDE DEF step, count
  <2>. QED
    BY <1>5
<1>7. ASSUME NEW s \in SUBSET S
      PROVE  sum[s] = IF s = {} THEN 0 ELSE f[one(s)] + sum[s \ {one(s)}]
  <2>. HIDE DEF sum, one
  <2>. QED
    BY <1>6
<1>8. sum[S] = count[S]
  <2>. DEFINE T == {s \in SUBSET S : sum[s] # count[s]}
  <2>. SUFFICES ASSUME T # {} PROVE FALSE
    OBVIOUS
  <2>. HIDE DEF sum, count, one
  <2>1. PICK s \in T : \A t \in T : t \subseteq s => t = s
    <3>1. T \subseteq SUBSET S
      OBVIOUS
    <3>. HIDE DEF T
    <3>. QED
      BY <3>1, Smallest
  <2>2. CASE s = {}
    BY <1>4, <1>7, <2>1, <2>2 DEF count
  <2>3. CASE s # {}
    <3>1. one(s) \in s
      BY <1>2, <2>3
    <3>2. sum[s \ {one(s)}] = count[s \ {one(s)}]
      BY <2>1, <3>1
    <3>. QED
      BY <1>3, <1>7, <2>1, <2>3, <3>2
  <2>. QED
    BY <2>2, <2>3
<1>. QED
  BY <1>1, <1>8

\* A sum of naturals over a finite set is a natural.
LEMMA SumType ==
  ASSUME NEW S, IsFiniteSet(S), NEW f, \A k \in S : f[k] \in Nat
  PROVE  SumFunctionOnSet(f, S) \in Nat
BY SumIsCount, MarksFinite, FS_CardinalityType

\* One more element adds its value to a sum.
LEMMA SumAdds ==
  ASSUME NEW S, IsFiniteSet(S), NEW f, NEW k, k \notin S, \A l \in S \cup {k} : f[l] \in Nat
  PROVE  SumFunctionOnSet(f, S \cup {k}) = SumFunctionOnSet(f, S) + f[k]
<1>1. IsFiniteSet(S \cup {k})
  BY FS_AddElement
<1>2. SumFunctionOnSet(f, S \cup {k}) = Cardinality(Marks(f, S \cup {k}))
  BY <1>1, SumIsCount
<1>3. SumFunctionOnSet(f, S) = Cardinality(Marks(f, S)) /\ IsFiniteSet(Marks(f, S))
  BY SumIsCount, MarksFinite
<1>4. Cardinality(Marks(f, S \cup {k})) = Cardinality(Marks(f, S)) + f[k]
  BY <1>3, MarksAdd
<1>. QED
  BY <1>2, <1>3, <1>4

\* Functions that agree on a finite set have the same sum over it.
LEMMA SumAgrees ==
  ASSUME NEW S, IsFiniteSet(S), NEW f, NEW g, \A k \in S : f[k] = g[k] /\ f[k] \in Nat
  PROVE  SumFunctionOnSet(f, S) = SumFunctionOnSet(g, S)
<1>1. Marks(f, S) = Marks(g, S)
  BY DEF Marks
<1>2. SumFunctionOnSet(f, S) = Cardinality(Marks(f, S))
  BY SumIsCount
<1>3. SumFunctionOnSet(g, S) = Cardinality(Marks(g, S))
  BY SumIsCount
<1>. QED
  BY <1>1, <1>2, <1>3

\* Of the elements of a finite set, one has the fewest greater ones.
LEMMA OneIsOnTop ==
  ASSUME NEW S, IsFiniteSet(S), S # {}
  PROVE  \E x \in S : \A y \in S :
           {z \in S : z > y} \subseteq {z \in S : z > x} => {z \in S : z > y} = {z \in S : z > x}
<1>. DEFINE T == {t \in SUBSET S : \E x \in S : t = {y \in S : y > x}}
<1>1. T \subseteq SUBSET S /\ T # {}
  <2>1. PICK x \in S : TRUE
    OBVIOUS
  <2>2. {y \in S : y > x} \in T
    BY <2>1
  <2>. QED
    BY <2>2
<1>2. PICK s \in T : \A t \in T : t \subseteq s => t = s
  <2>. HIDE DEF T
  <2>. QED
    BY <1>1, Smallest
<1>3. PICK x \in S : s = {z \in S : z > x}
  BY <1>2
<1>4. ASSUME NEW y \in S PROVE {z \in S : z > y} \in T
  OBVIOUS
<1>5. ASSUME NEW y \in S, {z \in S : z > y} \subseteq {z \in S : z > x}
      PROVE  {z \in S : z > y} = {z \in S : z > x}
  <2>. HIDE DEF T
  <2>1. {z \in S : z > y} \in T /\ {z \in S : z > y} \subseteq s
    BY <1>3, <1>4, <1>5
  <2>2. {z \in S : z > y} = s
    BY <1>2, <2>1
  <2>. QED
    BY <1>3, <2>2
<1>. QED
  BY <1>5

\* A finite set of numbers that is not empty has a greatest.
LEMMA MaxIs ==
  ASSUME NEW S, IsFiniteSet(S), S # {}, S \subseteq Nat
  PROVE  Max(S) \in S /\ \A x \in S : x <= Max(S)
<1>1. PICK x \in S : \A y \in S :
        {z \in S : z > y} \subseteq {z \in S : z > x} => {z \in S : z > y} = {z \in S : z > x}
  BY OneIsOnTop, Zenon
<1>4. ASSUME NEW y \in S PROVE x >= y
  <2>. SUFFICES ASSUME y > x PROVE FALSE
    OBVIOUS
  <2>1. (\A z \in S : z > y => z > x) /\ ~(y > y)
    OBVIOUS
  <2>. QED
    BY <1>1, <2>1
<1>5. \E z \in S : \A y \in S : z >= y
  BY <1>4
<1>6. Max(S) \in S /\ \A y \in S : Max(S) >= y
  BY <1>5 DEF Max
<1>. QED
  BY <1>6

\* Of more numbers the greatest is no less.
LEMMA MaxGrows ==
  ASSUME NEW S, NEW T, IsFiniteSet(T), S # {}, S \subseteq T, T \subseteq Nat
  PROVE  Max(S) \in Nat /\ Max(T) \in Nat /\ Max(S) <= Max(T)
<1>1. IsFiniteSet(S)
  BY FS_Subset
<1>2. Max(S) \in S /\ Max(T) \in T /\ \A x \in T : x <= Max(T)
  BY <1>1, MaxIs
<1>. QED
  BY <1>2
----------------------------------------------------------------------------
\* An event has its finding, only findings of one run, and leaves out nothing
\* that is joined; and no smaller set does.
LEMMA EventIs ==
  ASSUME NEW P, NEW C, NEW k \in P
  PROVE  /\ k \in Event(k, P, C) /\ Event(k, P, C) \subseteq P
         /\ \A l \in Event(k, P, C) : l[2] = k[2]
         /\ Closed(Event(k, P, C), P, C)
         /\ \A e : k \in e /\ Closed(e, P, C) => Event(k, P, C) \subseteq e
<1>. DEFINE near == {l \in P : l[2] = k[2]}
            ev == Event(k, P, C)
<1>1. ev = {l \in near : \A e \in SUBSET near : k \in e /\ Closed(e, near, C) => l \in e}
  BY DEF Event
<1>2. k \in ev /\ ev \subseteq P /\ \A l \in ev : l[2] = k[2]
  BY <1>1
<1>3. ASSUME NEW l \in ev, NEW m \in P, SameEvent(l, m, C) PROVE m \in ev
  <2>1. m \in near /\ l \in near
    BY <1>1, <1>3 DEF SameEvent
  <2>2. ASSUME NEW e \in SUBSET near, k \in e, Closed(e, near, C) PROVE m \in e
    <3>1. l \in e
      BY <1>1, <2>2
    <3>. QED
      BY <1>3, <2>1, <2>2, <3>1 DEF Closed
  <2>. QED
    BY <1>1, <2>1, <2>2
<1>4. ASSUME NEW e, k \in e, Closed(e, P, C) PROVE ev \subseteq e
  <2>1. e \cap near \in SUBSET near /\ k \in e \cap near
    BY <1>4
  <2>2. Closed(e \cap near, near, C)
    BY <1>4 DEF Closed
  <2>. QED
    BY <1>1, <2>1, <2>2
<1>. HIDE DEF ev
<1>5. Closed(ev, P, C)
  BY <1>3 DEF Closed
<1>. QED
  BY <1>2, <1>4, <1>5 DEF ev

\* A finding of an event has the same event.
LEMMA EventsAreClasses ==
  ASSUME NEW P, NEW C, NEW k \in P, NEW l \in Event(k, P, C)
  PROVE  Event(l, P, C) = Event(k, P, C)
<1>. DEFINE ek == Event(k, P, C)
            el == Event(l, P, C)
<1>1. k \in ek /\ ek \subseteq P /\ Closed(ek, P, C)
      /\ \A e : k \in e /\ Closed(e, P, C) => ek \subseteq e
  BY EventIs
<1>2. l \in P
  BY <1>1
<1>3. l \in el /\ el \subseteq P /\ Closed(el, P, C)
      /\ \A e : l \in e /\ Closed(e, P, C) => el \subseteq e
  BY <1>2, EventIs
<1>. HIDE DEF ek, el
<1>4. l \in ek
  BY DEF ek
<1>5. el \subseteq ek
  BY <1>1, <1>3, <1>4
<1>6. k \in el
  <2>. SUFFICES ASSUME k \notin el PROVE FALSE
    OBVIOUS
  <2>1. \A x, y : SameEvent(x, y, C) => SameEvent(y, x, C)
    BY DEF SameEvent
  <2>2. Closed(ek \ el, P, C)
    BY <1>1, <1>3, <2>1 DEF Closed
  <2>3. ek \subseteq ek \ el
    BY <1>1, <2>2
  <2>. QED
    BY <1>3, <1>4, <2>3
<1>7. ek \subseteq el
  BY <1>1, <1>3, <1>6
<1>. QED
  BY <1>5, <1>7 DEF ek, el

\* Two sets of relations join the same findings of a set.
Alike(P, C, D) == \A k, l \in P : k # l => (SameEvent(k, l, D) <=> SameEvent(k, l, C))

\* Findings are joined with each other.
LEMMA JoinedBothWays ==
  ASSUME NEW C, NEW k, NEW l
  PROVE  SameEvent(k, l, C) <=> SameEvent(l, k, C)
BY DEF SameEvent

\* One more finding leaves the events it is not joined with as they were, and
\* is added to the others.
LEMMA EventOfMore ==
  ASSUME NEW P, NEW C, NEW D, Alike(P, C, D), NEW h, h \notin P, NEW k \in P
  PROVE  /\ (\A l \in Event(k, P, C) : ~SameEvent(h, l, D))
            => Event(k, P \cup {h}, D) = Event(k, P, C)
         /\ \A o \in Event(k, P, C) :
              SameEvent(h, o, D) /\ (\A l \in P : SameEvent(h, l, D) => l = o)
              => Event(k, P \cup {h}, D) = Event(k, P, C) \cup {h}
<1>. DEFINE Q == P \cup {h}
            ek == Event(k, P, C)
            en == Event(k, Q, D)
<1>1. /\ k \in ek /\ ek \subseteq P /\ Closed(ek, P, C)
      /\ \A e : k \in e /\ Closed(e, P, C) => ek \subseteq e
  BY EventIs
<1>2. /\ k \in en /\ en \subseteq Q /\ Closed(en, Q, D)
      /\ \A e : k \in e /\ Closed(e, Q, D) => en \subseteq e
  <2>1. k \in Q
    OBVIOUS
  <2>. HIDE DEF Q
  <2>. QED
    BY <2>1, EventIs
<1>3. ek \subseteq en
  <2>1. Closed(en \cap P, P, C)
    BY <1>2 DEF Closed, Alike
  <2>. QED
    BY <1>1, <1>2, <2>1
<1>. HIDE DEF ek, en
<1>4. \A l \in ek, m \in P : SameEvent(l, m, D) => m \in ek
  BY <1>1 DEF Closed, Alike
<1>5. ASSUME \A l \in ek : ~SameEvent(h, l, D) PROVE en = ek
  <2>1. Closed(ek, Q, D)
    BY <1>4, <1>5, JoinedBothWays DEF Closed
  <2>. QED
    BY <1>1, <1>2, <1>3, <2>1
<1>6. ASSUME NEW o \in ek, SameEvent(h, o, D), \A l \in P : SameEvent(h, l, D) => l = o
      PROVE  en = ek \cup {h}
  <2>1. Closed(ek \cup {h}, Q, D)
    BY <1>4, <1>6 DEF Closed
  <2>2. SameEvent(o, h, D) /\ o \in en
    BY <1>3, <1>6, JoinedBothWays
  <2>3. h \in en
    BY <1>2, <2>2 DEF Closed
  <2>. QED
    BY <1>1, <1>2, <1>3, <2>1, <2>3
<1>. QED
  BY <1>5, <1>6 DEF ek, en

\* A finding that is joined with none is an event of its own.
LEMMA EventsApart ==
  ASSUME NEW P, NEW C, NEW D, Alike(P, C, D), NEW h, h \notin P,
         \A l \in P : ~SameEvent(h, l, D)
  PROVE  Events(P \cup {h}, D) = Events(P, C) \cup {{h}}
<1>1. ASSUME NEW k \in P PROVE Event(k, P \cup {h}, D) = Event(k, P, C)
  <2>1. Event(k, P, C) \subseteq P
    BY EventIs
  <2>. QED
    BY <2>1, EventOfMore
<1>2. Event(h, P \cup {h}, D) = {h}
  <2>. DEFINE Q == P \cup {h}
              e == Event(h, Q, D)
  <2>1. h \in e /\ \A f : h \in f /\ Closed(f, Q, D) => e \subseteq f
    <3>1. h \in Q
      OBVIOUS
    <3>. HIDE DEF Q
    <3>. QED
      BY <3>1, EventIs
  <2>2. Closed({h}, Q, D)
    BY DEF Closed
  <2>. HIDE DEF e
  <2>3. e = {h}
    BY <2>1, <2>2
  <2>. QED
    BY <2>3 DEF e
<1>. QED
  BY <1>1, <1>2 DEF Events

\* A finding that is joined with one is added to the event of that one.
LEMMA EventsJoin ==
  ASSUME NEW P, NEW C, NEW D, Alike(P, C, D), NEW h, h \notin P,
         NEW o \in P, SameEvent(h, o, D), \A l \in P : SameEvent(h, l, D) => l = o
  PROVE  Events(P \cup {h}, D)
           = (Events(P, C) \ {Event(o, P, C)}) \cup {Event(o, P, C) \cup {h}}
<1>. DEFINE eo == Event(o, P, C)
            Q == P \cup {h}
<1>1. ASSUME NEW k \in P, Event(k, P, C) = eo PROVE Event(k, Q, D) = eo \cup {h}
  <2>1. o \in eo
    BY EventIs
  <2>. HIDE DEF eo
  <2>. QED
    BY <1>1, <2>1, EventOfMore
<1>2. ASSUME NEW k \in P, Event(k, P, C) # eo PROVE Event(k, Q, D) = Event(k, P, C)
  <2>1. o \notin Event(k, P, C)
    BY <1>2, EventsAreClasses
  <2>2. Event(k, P, C) \subseteq P
    BY EventIs
  <2>. QED
    BY <2>1, <2>2, EventOfMore
<1>3. Event(h, Q, D) = eo \cup {h}
  <2>1. o \in Q
    OBVIOUS
  <2>2. Event(o, Q, D) = eo \cup {h}
    BY <1>1
  <2>3. h \in Event(o, Q, D)
    BY <2>2
  <2>. HIDE DEF Q
  <2>4. Event(h, Q, D) = Event(o, Q, D)
    BY <2>1, <2>3, EventsAreClasses
  <2>. QED
    BY <2>2, <2>4
<1>4. Events(Q, D) = {Event(k, Q, D) : k \in P} \cup {Event(h, Q, D)}
  BY DEF Events
<1>5. Events(P, C) = {Event(k, P, C) : k \in P}
  BY DEF Events
<1>6. eo \in Events(P, C)
  BY <1>5
<1>. HIDE DEF eo, Q
<1>7. \A k \in P : Event(k, Q, D) \in (Events(P, C) \ {eo}) \cup {eo \cup {h}}
  BY <1>1, <1>2, <1>5
<1>8. \A k \in P : Event(k, P, C) # eo => Event(k, P, C) \in Events(Q, D)
  BY <1>2, <1>4
<1>9. eo \cup {h} \in Events(Q, D)
  BY <1>3, <1>4
<1>. QED
  <2>1. Events(Q, D) \subseteq (Events(P, C) \ {eo}) \cup {eo \cup {h}}
    BY <1>3, <1>4, <1>7
  <2>2. (Events(P, C) \ {eo}) \cup {eo \cup {h}} \subseteq Events(Q, D)
    BY <1>5, <1>8, <1>9
  <2>. QED
    BY <2>1, <2>2 DEF eo, Q

\* What one finding weighs, and what an event does.
PriceOf(k, severity, policy) ==
  severity[k[1].rule] * (IF k[1].certain THEN policy.certain ELSE policy.probable)
Prices(P, severity, policy) == [k \in P |-> PriceOf(k, severity, policy)]
EventWeight(price, policy, event) ==
  policy.sameEvent * SumFunctionOnSet(price, event)
    + (100 - policy.sameEvent) * Max({price[k] : k \in event})
EventWeights(E, price, policy) == [event \in E |-> EventWeight(price, policy, event)]

\* A policy is in hundredths.
APolicy(policy) ==
  /\ policy.sameEvent \in 0 .. 100
  /\ policy.certain \in Nat /\ policy.probable \in Nat

\* A weight is the sum of the weights of the events.
LEMMA WeightIs ==
  ASSUME NEW active, NEW C, NEW severity, NEW policy
  PROVE  Weight(active, C, severity, policy)
           = SumFunctionOnSet(EventWeights(Events(Priced(active), C),
                                           Prices(Priced(active), severity, policy), policy),
                              Events(Priced(active), C)) \div 100
BY DEF Weight, Prices, PriceOf, EventWeights, EventWeight

\* A share of more is no less.
LEMMA ShareGrows ==
  ASSUME NEW s \in Nat, NEW a \in Nat, NEW b \in Nat, a <= b
  PROVE  s * a \in Nat /\ s * b \in Nat /\ s * a <= s * b
<1>1. PICK d \in Nat : b = a + d
  <2>1. b - a \in Nat /\ b = a + (b - a)
    OBVIOUS
  <2>. QED
    BY <2>1
<1>2. s * a \in Nat /\ s * d \in Nat
  OBVIOUS
<1>3. s * b = s * a + s * d
  BY <1>1
<1>. QED
  BY <1>2, <1>3

\* A larger event weighs no less.
LEMMA EventWeightGrows ==
  ASSUME NEW e, NEW f, IsFiniteSet(f), e # {}, e \subseteq f, NEW price,
         \A k \in f : price[k] \in Nat, NEW policy, APolicy(policy),
         SumFunctionOnSet(price, e) <= SumFunctionOnSet(price, f)
  PROVE  /\ EventWeight(price, policy, e) \in Nat /\ EventWeight(price, policy, f) \in Nat
         /\ EventWeight(price, policy, e) <= EventWeight(price, policy, f)
<1>. DEFINE me == {price[k] : k \in e}
            mf == {price[k] : k \in f}
<1>1. IsFiniteSet(e)
  BY FS_Subset
<1>2. SumFunctionOnSet(price, e) \in Nat /\ SumFunctionOnSet(price, f) \in Nat
  BY <1>1, SumType
<1>3. IsFiniteSet(mf)
  <2>1. \A y \in mf : \E x \in f : y = price[x]
    OBVIOUS
  <2>. HIDE DEF mf
  <2>. QED
    BY <2>1, ImageIsFinite
<1>4. me # {} /\ me \subseteq mf /\ mf \subseteq Nat
  OBVIOUS
<1>5. Max(me) \in Nat /\ Max(mf) \in Nat /\ Max(me) <= Max(mf)
  <2>. HIDE DEF me, mf
  <2>. QED
    BY <1>3, <1>4, MaxGrows
<1>6. policy.sameEvent \in Nat /\ 100 - policy.sameEvent \in Nat
  BY DEF APolicy
<1>. DEFINE se == SumFunctionOnSet(price, e)
            sf == SumFunctionOnSet(price, f)
            we == Max(me)
            wf == Max(mf)
            q == 100 - policy.sameEvent
<1>. HIDE DEF se, sf, we, wf, q
<1>7. policy.sameEvent * se \in Nat /\ policy.sameEvent * sf \in Nat
      /\ policy.sameEvent * se <= policy.sameEvent * sf
  BY <1>2, <1>6, ShareGrows DEF se, sf
<1>8. q * we \in Nat /\ q * wf \in Nat /\ q * we <= q * wf
  BY <1>5, <1>6, ShareGrows DEF we, wf, q
<1>9. EventWeight(price, policy, e) = policy.sameEvent * se + q * we
  BY DEF EventWeight, se, we, q
<1>10. EventWeight(price, policy, f) = policy.sameEvent * sf + q * wf
  BY DEF EventWeight, sf, wf, q
<1>. QED
  BY <1>7, <1>8, <1>9, <1>10

\* An event weighs what its findings weigh, whoever else is priced.
LEMMA EventWeightAgrees ==
  ASSUME NEW e, IsFiniteSet(e), NEW price, NEW price2, NEW policy,
         \A k \in e : price[k] = price2[k] /\ price[k] \in Nat
  PROVE  EventWeight(price, policy, e) = EventWeight(price2, policy, e)
<1>1. SumFunctionOnSet(price, e) = SumFunctionOnSet(price2, e)
  BY SumAgrees
<1>2. {price[k] : k \in e} = {price2[k] : k \in e}
  OBVIOUS
<1>. QED
  BY <1>1, <1>2 DEF EventWeight

\* The weights of events over finitely many findings are numbers, and a sum.
LEMMA WeightsAreNumbers ==
  ASSUME NEW P, IsFiniteSet(P), NEW C, NEW price, \A k \in P : price[k] \in Nat,
         NEW policy, APolicy(policy)
  PROVE  /\ IsFiniteSet(Events(P, C))
         /\ \A e \in Events(P, C) : /\ e # {} /\ e \subseteq P /\ IsFiniteSet(e)
                                    /\ EventWeight(price, policy, e) \in Nat
<1>1. \A e \in Events(P, C) : e # {} /\ e \subseteq P
  BY EventIs DEF Events
<1>2. IsFiniteSet(Events(P, C))
  <2>1. IsFiniteSet(SUBSET P)
    BY FS_SUBSET
  <2>. QED
    BY <1>1, <2>1, FS_Subset
<1>3. ASSUME NEW e \in Events(P, C) PROVE IsFiniteSet(e) /\ EventWeight(price, policy, e) \in Nat
  <2>1. e # {} /\ e \subseteq P /\ IsFiniteSet(e)
    BY <1>1, FS_Subset
  <2>2. \A k \in e : price[k] \in Nat
    BY <2>1
  <2>3. SumFunctionOnSet(price, e) \in Nat
    BY <2>1, <2>2, SumType
  <2>4. SumFunctionOnSet(price, e) <= SumFunctionOnSet(price, e)
    BY <2>3
  <2>. QED
    BY <2>1, <2>2, <2>4, EventWeightGrows
<1>. QED
  BY <1>1, <1>2, <1>3

\* The findings of finitely many breaches, each on finitely many runs.
AreFew(active) == /\ IsFiniteSet(Breaches(active))
                  /\ \A a \in Breaches(active) : IsFiniteSet(a.runs)

\* They are priced finitely often.
LEMMA PricedIsFinite ==
  ASSUME NEW active, AreFew(active)
  PROVE  IsFiniteSet(Priced(active))
<1>. DEFINE B == Breaches(active)
            on(a) == IF a.runs = {} THEN {0} ELSE a.runs
            of == [a \in B |-> {<<a, i>> : i \in on(a)}]
            T == {of[a] : a \in B}
<1>1. Priced(active) = UNION T
  BY DEF Priced
<1>2. IsFiniteSet(T)
  <2>1. \A y \in T : \E x \in B : y = of[x]
    OBVIOUS
  <2>2. IsFiniteSet(B)
    BY DEF AreFew
  <2>. HIDE DEF T, of, B
  <2>. QED
    BY <2>1, <2>2, ImageIsFinite
<1>3. ASSUME NEW a \in B PROVE IsFiniteSet(of[a])
  <2>1. IsFiniteSet(on(a))
    BY FS_Singleton DEF AreFew
  <2>. DEFINE pair == [i \in on(a) |-> <<a, i>>]
  <2>2. \A y \in of[a] : \E i \in on(a) : y = pair[i]
    OBVIOUS
  <2>. HIDE DEF on, pair, of
  <2>. QED
    BY <2>1, <2>2, ImageIsFinite
<1>4. \A t \in T : IsFiniteSet(t)
  BY <1>3
<1>. HIDE DEF T
<1>. QED
  BY <1>1, <1>2, <1>4, FS_UNION

\* One more breach on one run is one more finding.
LEMMA PricedGrows ==
  ASSUME NEW active, NEW harm, harm.verdict = "breach", NEW i, harm.runs = {i}, harm \notin active
  PROVE  /\ Breaches(active \cup {harm}) = Breaches(active) \cup {harm}
         /\ \A k : k \in Priced(active \cup {harm}) <=> k \in Priced(active) \/ k = <<harm, i>>
         /\ <<harm, i>> \notin Priced(active)
         /\ \A k \in Priced(active) : k = <<k[1], k[2]>> /\ k[1] \in Breaches(active)
<1>. DEFINE of(a) == {<<a, n>> : n \in IF a.runs = {} THEN {0} ELSE a.runs}
<1>1. Breaches(active \cup {harm}) = Breaches(active) \cup {harm} /\ harm \notin Breaches(active)
  BY DEF Breaches
<1>2. of(harm) = {<<harm, i>>}
  OBVIOUS
<1>3. Priced(active) = UNION {of(a) : a \in Breaches(active)}
  BY DEF Priced
<1>4. Priced(active \cup {harm}) = UNION {of(a) : a \in Breaches(active \cup {harm})}
  BY DEF Priced
<1>5. \A k \in Priced(active) : k = <<k[1], k[2]>> /\ k[1] \in Breaches(active)
  BY <1>3
<1>6. <<harm, i>> \notin Priced(active)
  BY <1>1, <1>3
<1>. HIDE DEF of
<1>7. Priced(active \cup {harm}) = Priced(active) \cup of(harm)
  BY <1>1, <1>3, <1>4
<1>. QED
  BY <1>1, <1>2, <1>5, <1>6, <1>7

\* What is added joins the new breach with one finding at most.
LEMMA OneIsJoined ==
  ASSUME NEW active, NEW harm, harm.verdict = "breach", NEW i, harm.runs = {i},
         harm \notin active,
         NEW C, \A c \in C : harm \notin c.of,
         NEW D, NEW other, \A c \in D : c.of = {harm, other}
  PROVE  /\ Alike(Priced(active), C, C \cup D)
         /\ \A l \in Priced(active) : SameEvent(<<harm, i>>, l, C \cup D) => l = <<other, i>>
<1>1. \A k \in Priced(active) : k = <<k[1], k[2]>> /\ k[1] # harm
  <2>1. \A k \in Priced(active) : k = <<k[1], k[2]>> /\ k[1] \in Breaches(active)
    BY PricedGrows
  <2>. QED
    BY <2>1 DEF Breaches
<1>2. ASSUME NEW k \in Priced(active), NEW l \in Priced(active), k # l,
             SameEvent(k, l, C \cup D)
      PROVE  SameEvent(k, l, C)
  <2>1. PICK c \in C \cup D : c.relationship = "same_event" /\ {k[1], l[1]} \subseteq c.of
    BY <1>2 DEF SameEvent
  <2>2. k[2] = l[2]
    BY <1>2 DEF SameEvent
  <2>3. c \notin D
    <3>. SUFFICES ASSUME c \in D PROVE FALSE
      OBVIOUS
    <3>1. k[1] = other /\ l[1] = other
      BY <1>1, <2>1
    <3>. QED
      BY <1>1, <1>2, <2>2, <3>1
  <2>. QED
    BY <2>1, <2>2, <2>3 DEF SameEvent
<1>3. ASSUME NEW l \in Priced(active), SameEvent(<<harm, i>>, l, C \cup D)
      PROVE  l = <<other, i>>
  <2>1. PICK c \in C \cup D : c.relationship = "same_event" /\ {harm, l[1]} \subseteq c.of
    BY <1>3 DEF SameEvent
  <2>2. l[2] = i
    BY <1>3 DEF SameEvent
  <2>3. c \in D
    BY <2>1
  <2>4. l[1] = other
    BY <1>1, <2>1, <2>3
  <2>. QED
    BY <1>1, <2>2, <2>4
<1>4. \A k, l : SameEvent(k, l, C) => SameEvent(k, l, C \cup D)
  BY DEF SameEvent
<1>. QED
  BY <1>2, <1>3, <1>4 DEF Alike

\* What stands, and one more breach, on a run, that is priced like the others.
OneMore(active, harm, i, severity, severity2) ==
  /\ AreFew(active)
  /\ harm \notin active /\ harm.verdict = "breach" /\ harm.runs = {i}
  /\ severity2[harm.rule] \in Nat
  /\ \A a \in Breaches(active) : /\ severity[a.rule] \in Nat
                                 /\ severity2[a.rule] = severity[a.rule]

\* One more breach is one more price, and changes no other.
LEMMA PricesAgree ==
  ASSUME NEW active, NEW harm, NEW i, NEW severity, NEW severity2,
         OneMore(active, harm, i, severity, severity2), NEW policy, APolicy(policy)
  PROVE  /\ IsFiniteSet(Priced(active)) /\ <<harm, i>> \notin Priced(active)
         /\ \A k : k \in Priced(active \cup {harm}) <=> k \in Priced(active) \/ k = <<harm, i>>
         /\ \A k \in Priced(active) :
              /\ PriceOf(k, severity, policy) \in Nat
              /\ PriceOf(k, severity2, policy) = PriceOf(k, severity, policy)
         /\ PriceOf(<<harm, i>>, severity2, policy) \in Nat
<1>1. harm.verdict = "breach" /\ harm.runs = {i} /\ harm \notin active
  BY DEF OneMore
<1>2. /\ \A k : k \in Priced(active \cup {harm}) <=> k \in Priced(active) \/ k = <<harm, i>>
      /\ <<harm, i>> \notin Priced(active)
      /\ \A k \in Priced(active) : k = <<k[1], k[2]>> /\ k[1] \in Breaches(active)
  BY <1>1, PricedGrows
<1>3. policy.certain \in Nat /\ policy.probable \in Nat
  BY DEF APolicy
<1>4. \A m, n : m \in Nat /\ n \in Nat => m * n \in Nat
  OBVIOUS
<1>5. \A k, s : s[k[1].rule] \in Nat => PriceOf(k, s, policy) \in Nat
  BY <1>3, <1>4 DEF PriceOf
<1>6. \A k \in Priced(active) :
        severity[k[1].rule] \in Nat /\ severity2[k[1].rule] = severity[k[1].rule]
  BY <1>2 DEF OneMore
<1>7. \A k \in Priced(active) : PriceOf(k, severity2, policy) = PriceOf(k, severity, policy)
  BY <1>6 DEF PriceOf
<1>8. \A k \in Priced(active) : PriceOf(k, severity, policy) \in Nat
  BY <1>5, <1>6
<1>9. PriceOf(<<harm, i>>, severity2, policy) \in Nat
  <2>1. severity2[harm.rule] \in Nat /\ <<harm, i>>[1] = harm
    BY DEF OneMore
  <2>. QED
    BY <1>5, <2>1
<1>10. IsFiniteSet(Priced(active))
  BY PricedIsFinite DEF OneMore
<1>. QED
  BY <1>2, <1>7, <1>8, <1>9, <1>10

\* A sum over one more element.
LEMMA SumOfMore ==
  ASSUME NEW E, IsFiniteSet(E), NEW x, x \notin E, NEW F, F = E \cup {x}, NEW w, NEW v,
         \A e \in E : w[e] = v[e] /\ w[e] \in Nat, v[x] \in Nat
  PROVE  /\ SumFunctionOnSet(w, E) \in Nat
         /\ SumFunctionOnSet(v, F) = SumFunctionOnSet(w, E) + v[x]
<1>1. SumFunctionOnSet(w, E) = SumFunctionOnSet(v, E) /\ SumFunctionOnSet(w, E) \in Nat
  BY SumAgrees, SumType
<1>2. \A e \in E \cup {x} : v[e] \in Nat
  OBVIOUS
<1>3. SumFunctionOnSet(v, E \cup {x}) = SumFunctionOnSet(v, E) + v[x]
  BY <1>2, SumAdds
<1>. QED
  BY <1>1, <1>3

\* A sum in which one element has made way for one that weighs no less.
LEMMA SumOfOther ==
  ASSUME NEW E, IsFiniteSet(E), NEW x \in E, NEW y, y \notin E \ {x}, NEW F,
         F = (E \ {x}) \cup {y}, NEW w, NEW v, \A e \in E \ {x} : w[e] = v[e] /\ w[e] \in Nat,
         w[x] \in Nat, v[y] \in Nat, w[x] <= v[y]
  PROVE  SumFunctionOnSet(w, E) <= SumFunctionOnSet(v, F)
<1>. DEFINE R == E \ {x}
<1>1. IsFiniteSet(R) /\ x \notin R /\ E = R \cup {x} /\ F = R \cup {y} /\ y \notin R
  BY FS_Subset
<1>2. \A e \in R : w[e] = v[e] /\ w[e] = w[e] /\ w[e] \in Nat
  OBVIOUS
<1>. HIDE DEF R
<1>3. SumFunctionOnSet(w, R) \in Nat /\ SumFunctionOnSet(v, F) = SumFunctionOnSet(w, R) + v[y]
  BY <1>1, <1>2, SumOfMore
<1>4. SumFunctionOnSet(w, E) = SumFunctionOnSet(w, R) + w[x]
  BY <1>1, <1>2, SumOfMore
<1>. QED
  BY <1>3, <1>4

\* The sum of the weights of the events does not fall.
LEMMA EventsWeighMore ==
  ASSUME NEW P, IsFiniteSet(P), NEW h, h \notin P, NEW C, NEW D, Alike(P, C, D),
         NEW o, \A l \in P : SameEvent(h, l, D) => l = o,
         NEW p, NEW q, \A k \in P : p[k] \in Nat /\ q[k] = p[k],
         \A k \in P \cup {h} : q[k] \in Nat, NEW policy, APolicy(policy)
  PROVE  LET E == Events(P, C)
             F == Events(P \cup {h}, D)
             w == EventWeights(E, p, policy)
             v == EventWeights(F, q, policy)
         IN  /\ SumFunctionOnSet(w, E) \in Nat /\ SumFunctionOnSet(v, F) \in Nat
             /\ SumFunctionOnSet(w, E) <= SumFunctionOnSet(v, F)
<1>. DEFINE Q == P \cup {h}
            E == Events(P, C)
            F == Events(P \cup {h}, D)
            w == EventWeights(E, p, policy)
            v == EventWeights(F, q, policy)
<1>. SUFFICES /\ SumFunctionOnSet(w, E) \in Nat /\ SumFunctionOnSet(v, F) \in Nat
              /\ SumFunctionOnSet(w, E) <= SumFunctionOnSet(v, F)
  OBVIOUS
<1>1. IsFiniteSet(Q)
  BY FS_AddElement
<1>2. /\ IsFiniteSet(E)
      /\ \A e \in E : /\ e # {} /\ e \subseteq P /\ IsFiniteSet(e)
                      /\ EventWeight(p, policy, e) \in Nat
  BY WeightsAreNumbers
<1>3. /\ IsFiniteSet(F)
      /\ \A e \in F : /\ e # {} /\ e \subseteq Q /\ IsFiniteSet(e)
                      /\ EventWeight(q, policy, e) \in Nat
  <2>1. \A k \in Q : q[k] \in Nat
    OBVIOUS
  <2>2. F = Events(Q, D)
    OBVIOUS
  <2>. HIDE DEF Q
  <2>. QED
    BY <1>1, <2>1, <2>2, WeightsAreNumbers
<1>4. \A e \in E : w[e] = EventWeight(p, policy, e) /\ w[e] \in Nat
  BY <1>2 DEF EventWeights
<1>5. \A e \in F : v[e] = EventWeight(q, policy, e) /\ v[e] \in Nat
  BY <1>3 DEF EventWeights
<1>6. \A e \in E : EventWeight(q, policy, e) = EventWeight(p, policy, e)
  <2>1. ASSUME NEW e \in E PROVE EventWeight(p, policy, e) = EventWeight(q, policy, e)
    <3>1. \A k \in e : p[k] = q[k] /\ p[k] \in Nat
      BY <1>2
    <3>2. IsFiniteSet(e)
      BY <1>2
    <3>. QED
      BY <3>1, <3>2, EventWeightAgrees
  <2>. QED
    BY <2>1
<1>. HIDE DEF E, F, w, v
<1>7. SumFunctionOnSet(w, E) \in Nat /\ SumFunctionOnSet(v, F) \in Nat
  BY <1>2, <1>3, <1>4, <1>5, SumType
<1>8. CASE \A l \in P : ~SameEvent(h, l, D)
  <2>1. F = E \cup {{h}}
    BY <1>8, EventsApart DEF E, F
  <2>2. {h} \notin E
    BY <1>2
  <2>3. \A e \in E : w[e] = v[e] /\ w[e] \in Nat
    BY <1>4, <1>5, <1>6, <2>1
  <2>4. v[{h}] \in Nat
    BY <1>5, <2>1
  <2>5. PICK x : x = {h}
    OBVIOUS
  <2>6. IsFiniteSet(E) /\ x \notin E /\ F = E \cup {x} /\ v[x] \in Nat
    BY <1>2, <2>1, <2>2, <2>4, <2>5
  <2>7. SumFunctionOnSet(v, F) = SumFunctionOnSet(w, E) + v[x]
    BY <2>3, <2>6, SumOfMore
  <2>. QED
    BY <1>7, <2>6, <2>7
<1>9. CASE \E l \in P : SameEvent(h, l, D)
  <2>. DEFINE eo == Event(o, P, C)
              en == eo \cup {h}
              R == E \ {eo}
  <2>1. o \in P /\ SameEvent(h, o, D)
    BY <1>9
  <2>2. F = R \cup {en}
    BY <2>1, EventsJoin DEF E, F
  <2>3. eo \in E
    BY <2>1 DEF E, Events
  <2>4. h \in en /\ eo \subseteq en /\ en \in F
    BY <2>2
  <2>. HIDE DEF eo, en
  <2>5. en \notin R
    BY <1>2, <2>4
  <2>6. \A e \in R : w[e] = v[e] /\ w[e] \in Nat
    BY <1>4, <1>5, <1>6, <2>2
  <2>10. w[eo] \in Nat /\ v[en] \in Nat /\ w[eo] <= v[en]
    <3>1. w[eo] = EventWeight(q, policy, eo) /\ v[en] = EventWeight(q, policy, en)
      BY <1>4, <1>5, <1>6, <2>3, <2>4
    <3>2. IsFiniteSet(en) /\ eo # {} /\ eo \subseteq P /\ en \subseteq Q /\ IsFiniteSet(eo)
      BY <1>2, <1>3, <2>3, <2>4
    <3>3. \A k \in en : q[k] \in Nat
      BY <3>2
    <3>4. SumFunctionOnSet(q, eo \cup {h}) = SumFunctionOnSet(q, eo) + q[h]
      <4>1. h \notin eo /\ \A l \in eo \cup {h} : q[l] \in Nat
        BY <3>2
      <4>. QED
        BY <3>2, <4>1, SumAdds
    <3>5. SumFunctionOnSet(q, eo) \in Nat /\ q[h] \in Nat
      <4>1. \A l \in eo : q[l] \in Nat
        BY <3>2
      <4>. QED
        BY <3>2, <4>1, SumType
    <3>6. SumFunctionOnSet(q, eo) <= SumFunctionOnSet(q, en)
      BY <3>4, <3>5 DEF en
    <3>. QED
      BY <2>4, <3>1, <3>2, <3>3, <3>6, EventWeightGrows
  <2>. QED
    BY <1>2, <1>7, <2>2, <2>3, <2>5, <2>6, <2>10, SumOfOther
<1>. QED
  BY <1>8, <1>9

\* So the weight does not fall, whatever was joined before, and though the
\* new breach is joined with another finding (authorisation.py, same_event).
LEMMA WeightGrows ==
  ASSUME NEW active, NEW harm, NEW i, NEW severity, NEW severity2,
         OneMore(active, harm, i, severity, severity2), NEW policy, APolicy(policy),
         NEW C, \A c \in C : harm \notin c.of, NEW D, NEW other, \A c \in D : c.of = {harm, other}
  PROVE  /\ Weight(active, C, severity, policy) \in Nat
         /\ Weight(active \cup {harm}, C \cup D, severity2, policy) \in Nat
         /\ Weight(active, C, severity, policy)
              <= Weight(active \cup {harm}, C \cup D, severity2, policy)
<1>. DEFINE P == Priced(active)
            h == <<harm, i>>
            Q == P \cup {h}
            p == Prices(P, severity, policy)
            q == Prices(Q, severity2, policy)
            E == Events(P, C)
            F == Events(Q, C \cup D)
            w == EventWeights(E, p, policy)
            v == EventWeights(F, q, policy)
            sw == SumFunctionOnSet(w, E)
            sv == SumFunctionOnSet(v, F)
<1>1. /\ h \notin P /\ Priced(active \cup {harm}) = Q /\ IsFiniteSet(P)
      /\ \A k \in P : p[k] \in Nat /\ q[k] = p[k]
      /\ \A k \in P \cup {h} : q[k] \in Nat
  <2>. DEFINE dear(k, s) == PriceOf(k, s, policy)
  <2>1. /\ h \notin P /\ IsFiniteSet(P)
        /\ \A k : k \in Priced(active \cup {harm}) <=> k \in P \/ k = h
        /\ \A k \in P : dear(k, severity) \in Nat /\ dear(k, severity2) = dear(k, severity)
        /\ dear(h, severity2) \in Nat
    BY PricesAgree
  <2>2. /\ \A k \in P : p[k] = dear(k, severity)
        /\ \A k \in P \cup {h} : q[k] = dear(k, severity2)
    BY DEF Prices
  <2>. HIDE DEF P, h, p, q, dear
  <2>3. \A k \in P : p[k] \in Nat /\ q[k] = p[k]
    BY <2>1, <2>2
  <2>4. \A k \in P \cup {h} : q[k] \in Nat
    BY <2>1, <2>2
  <2>. QED
    BY <2>1, <2>3, <2>4 DEF Q
<1>2. /\ Alike(P, C, C \cup D)
      /\ \A l \in P : SameEvent(h, l, C \cup D) => l = <<other, i>>
  BY OneIsJoined DEF OneMore
<1>3. Weight(active, C, severity, policy) = sw \div 100
  BY WeightIs
<1>4. Weight(active \cup {harm}, C \cup D, severity2, policy) = sv \div 100
  BY <1>1, WeightIs
<1>5. sw \in Nat /\ sv \in Nat /\ sw <= sv
  <2>. HIDE DEF P, h, p, q, E, F, w, v
  <2>. QED
    BY <1>1, <1>2, EventsWeighMore DEF E, F, w, v
<1>. HIDE DEF sw, sv
<1>. QED
  BY <1>3, <1>4, <1>5

\* And its thresholds are numbers.
AThreshold(policy) ==
  policy.refusalWeight \in Nat /\ policy.monitorWeight \in Nat /\ policy.minCoverage \in Nat

\* Enough of the rulebook was exercised.
Covered(facts, active, rules, policy) ==
  100 * Cardinality(Exercised(facts, active, rules))
    >= policy.minCoverage * Cardinality(DOMAIN rules)

\* What an adequate case has: enough of the rulebook exercised, nothing left
\* open, and nothing missing.
LEMMA AdequateIs ==
  ASSUME NEW s, NEW runs, NEW facts, NEW active, NEW rules, IsFiniteSet(DOMAIN rules),
         NEW policy, AThreshold(policy), ~Inadequate(s, runs, facts, active, rules, policy)
  PROVE  /\ Covered(facts, active, rules, policy)
         /\ \A a \in active : a.verdict # "inconclusive"
         /\ \A f \in facts : ~Absent(f)
<1>. DEFINE n == Cardinality(Exercised(facts, active, rules))
            m == Cardinality(DOMAIN rules)
<1>1. n \in Nat /\ m \in Nat
  <2>1. Exercised(facts, active, rules) \subseteq DOMAIN rules
    BY DEF Exercised
  <2>2. IsFiniteSet(Exercised(facts, active, rules))
    BY <2>1, FS_Subset
  <2>. QED
    BY <2>2, FS_CardinalityType
<1>2. /\ ~(100 * n < policy.minCoverage * m)
      /\ ~\E a \in active : a.verdict = "inconclusive"
      /\ ~\E f \in facts : Absent(f)
  BY DEF Inadequate
<1>3. policy.minCoverage * m \in Nat /\ 100 * n \in Nat
  <2>1. \A x, y : x \in Nat /\ y \in Nat => x * y \in Nat
    OBVIOUS
  <2>. QED
    BY <1>1, <2>1 DEF AThreshold
<1>4. 100 * n >= policy.minCoverage * m
  <2>. HIDE DEF n, m
  <2>1. \A x, y : x \in Nat /\ y \in Nat /\ ~(x < y) => x >= y
    OBVIOUS
  <2>. QED
    BY <1>2, <1>3, <2>1
<1>. QED
  BY <1>2, <1>4 DEF Covered

\* The runs that count against the weight.
Counting(s, runs, facts, active, covered) ==
  {i \in DOMAIN runs : \/ RunVerdict(i, facts, active, covered) = "breach"
                       \/ /\ RunVerdict(i, facts, active, covered) = "clean"
                          /\ i \in TargetRuns(s, runs)}

\* What a weight is shared over is a number.
LEMMA PerRunIs ==
  ASSUME NEW s, NEW runs, NEW facts, NEW active, NEW covered, IsFiniteSet(DOMAIN runs)
  PROVE  /\ PerRun(s, runs, facts, active, covered)
              = Max({1, Cardinality(Counting(s, runs, facts, active, covered))})
         /\ PerRun(s, runs, facts, active, covered) \in Nat
<1>. DEFINE n == Cardinality(Counting(s, runs, facts, active, covered))
<1>1. PerRun(s, runs, facts, active, covered) = Max({1, n})
  BY DEF PerRun, Counting
<1>2. n \in Nat
  <2>1. IsFiniteSet(Counting(s, runs, facts, active, covered))
    BY FS_Subset DEF Counting
  <2>. QED
    BY <2>1, FS_CardinalityType
<1>3. IsFiniteSet({1, n})
  <2>1. IsFiniteSet({1}) /\ IsFiniteSet({n})
    BY FS_Singleton
  <2>2. IsFiniteSet({1} \cup {n})
    BY <2>1, FS_Union
  <2>3. {1} \cup {n} = {1, n}
    OBVIOUS
  <2>. QED
    BY <2>2, <2>3
<1>. HIDE DEF n
<1>4. {1, n} # {} /\ {1, n} \subseteq Nat
  BY <1>2
<1>5. Max({1, n}) \in {1, n}
  BY <1>3, <1>4, MaxIs
<1>. QED
  BY <1>1, <1>4, <1>5 DEF n

\* A run that counts goes on counting, and no other run comes to count.
LEMMA SameRunsCount ==
  ASSUME NEW s, NEW runs, NEW facts, NEW active, NEW harm, harm.verdict = "breach",
         NEW i, harm.runs = {i}, \E f \in facts : f[2] = i,
         \/ i \in TargetRuns(s, runs)
         \/ RunVerdict(i, facts, active, TRUE) = "breach",
         \A a \in active : a.verdict # "inconclusive", \A f \in facts : ~Absent(f)
  PROVE  Counting(s, runs, facts, active \cup {harm}, TRUE)
           = Counting(s, runs, facts, active, TRUE)
<1>. DEFINE worse == active \cup {harm}
            rel(as, j) == {a \in as : j \in a.runs}
<1>1. ASSUME NEW j, j # i
      PROVE  RunVerdict(j, facts, worse, TRUE) = RunVerdict(j, facts, active, TRUE)
  <2>1. rel(worse, j) = rel(active, j)
    BY <1>1
  <2>. QED
    BY <2>1 DEF RunVerdict
<1>2. RunVerdict(i, facts, worse, TRUE) = "breach"
  BY DEF RunVerdict
<1>3. RunVerdict(i, facts, active, TRUE) \in {"breach", "clean"}
  BY DEF RunVerdict
<1>. HIDE DEF worse
<1>. QED
  BY <1>1, <1>2, <1>3 DEF Counting, worse

\* The disposition by weight.
ByWeight(active, weight, per, policy) ==
  IF weight >= policy.refusalWeight * per THEN "refuse"
  ELSE IF weight >= policy.monitorWeight * per \/ \E a \in active : a.verdict = "concern"
  THEN "monitor" ELSE "authorise"

\* The order of the policy: gates, adequacy, weight (authorisation.py,
\* recommend).
LEMMA RecommendIs ==
  ASSUME NEW s, NEW runs, NEW facts, NEW active, NEW C, NEW rules, NEW severity, NEW policy
  PROVE  LET covered == Covered(facts, active, rules, policy)
             after == Recommend(s, runs, facts, active, C, rules, severity, policy)
         IN  /\ Gates(active, policy) # {} => after = "refuse"
             /\ Gates(active, policy) = {} /\ Inadequate(s, runs, facts, active, rules, policy)
                => after = "incomplete-submission"
             /\ Gates(active, policy) = {} /\ ~Inadequate(s, runs, facts, active, rules, policy)
                => after = ByWeight(active, Weight(active, C, severity, policy),
                                    PerRun(s, runs, facts, active, covered), policy)
BY DEF Recommend, Covered, ByWeight

\* More weight over as many runs, and no concern less, is no better.
LEMMA HeavierIsNoBetter ==
  ASSUME NEW active, NEW worse, active \subseteq worse, NEW w \in Nat, NEW v \in Nat, w <= v,
         NEW per \in Nat, NEW policy, AThreshold(policy)
  PROVE  ~Better(ByWeight(worse, v, per, policy), ByWeight(active, w, per, policy))
<1>. DEFINE r == policy.refusalWeight * per
            m == policy.monitorWeight * per
<1>1. r \in Nat /\ m \in Nat
  <2>1. \A x, y : x \in Nat /\ y \in Nat => x * y \in Nat
    OBVIOUS
  <2>. QED
    BY <2>1 DEF AThreshold
<1>2. (w >= r => v >= r) /\ (w >= m => v >= m)
  <2>. HIDE DEF r, m
  <2>. QED
    BY <1>1
<1>3. ByWeight(active, w, per, policy)
        = IF w >= r THEN "refuse"
          ELSE IF w >= m \/ \E a \in active : a.verdict = "concern" THEN "monitor"
          ELSE "authorise"
  BY DEF ByWeight
<1>4. ByWeight(worse, v, per, policy)
        = IF v >= r THEN "refuse"
          ELSE IF v >= m \/ \E a \in worse : a.verdict = "concern" THEN "monitor"
          ELSE "authorise"
  BY DEF ByWeight
<1>. HIDE DEF r, m
<1>5. (\E a \in active : a.verdict = "concern") => \E a \in worse : a.verdict = "concern"
  OBVIOUS
<1>. QED
  BY <1>2, <1>3, <1>4, <1>5 DEF Better

\* One more breach on a run that counts, of any rule with a severity, never
\* brings a better disposition, whatever stands, whatever was related before,
\* and though it is taken for the same event as another finding
\* (authorisation.py, recommend).
THEOREM OneMoreBreachIsNoHelp ==
  ASSUME NEW s, NEW runs, IsFiniteSet(DOMAIN runs), NEW facts,
         NEW rules, IsFiniteSet(DOMAIN rules),
         NEW policy, APolicy(policy), AThreshold(policy),
         NEW severity, NEW severity2,
         NEW active, NEW harm, NEW i, OneMore(active, harm, i, severity, severity2),
         \E f \in facts : f[2] = i,
         \/ i \in TargetRuns(s, runs)
         \/ RunVerdict(i, facts, active, TRUE) = "breach",
         NEW C, \A c \in C : harm \notin c.of,
         NEW D, NEW other, \A c \in D : c.of = {harm, other},
         Recommend(s, runs, facts, active, C, rules, severity, policy) \in Decided
  PROVE  ~Better(Recommend(s, runs, facts, active \cup {harm}, C \cup D, rules, severity2,
                           policy),
                 Recommend(s, runs, facts, active, C, rules, severity, policy))
<1>. DEFINE worse == active \cup {harm}
            before == Recommend(s, runs, facts, active, C, rules, severity, policy)
            after == Recommend(s, runs, facts, worse, C \cup D, rules, severity2, policy)
            w == Weight(active, C, severity, policy)
            v == Weight(worse, C \cup D, severity2, policy)
            per == PerRun(s, runs, facts, active, TRUE)
<1>1. CASE Gates(worse, policy) # {}
  <2>1. after = "refuse"
    BY <1>1, RecommendIs
  <2>. HIDE DEF before, after
  <2>. QED
    BY <2>1 DEF Better, before, after
<1>2. CASE Gates(worse, policy) = {} /\ Inadequate(s, runs, facts, worse, rules, policy)
  <2>1. after = "incomplete-submission"
    BY <1>2, RecommendIs
  <2>. HIDE DEF before, after
  <2>. QED
    BY <2>1 DEF Better, before, after
<1>3. CASE Gates(worse, policy) = {} /\ ~Inadequate(s, runs, facts, worse, rules, policy)
  <2>1. Gates(active, policy) = {}
    BY <1>3 DEF Gates
  <2>2. ~Inadequate(s, runs, facts, active, rules, policy)
    <3>. SUFFICES ASSUME Inadequate(s, runs, facts, active, rules, policy) PROVE FALSE
      OBVIOUS
    <3>1. before = "incomplete-submission"
      BY <2>1, RecommendIs
    <3>. QED
      BY <3>1 DEF Decided
  <2>3. /\ Covered(facts, active, rules, policy)
        /\ \A a \in active : a.verdict # "inconclusive"
        /\ \A f \in facts : ~Absent(f)
    BY <2>2, AdequateIs
  <2>4. Covered(facts, worse, rules, policy)
    <3>. HIDE DEF worse
    <3>. QED
      BY <1>3, AdequateIs
  <2>5. harm.verdict = "breach" /\ harm.runs = {i}
    BY DEF OneMore
  <2>6. Counting(s, runs, facts, worse, TRUE) = Counting(s, runs, facts, active, TRUE)
    BY <2>3, <2>5, SameRunsCount
  <2>7. per \in Nat /\ PerRun(s, runs, facts, worse, TRUE) = per
    <3>1. /\ per = Max({1, Cardinality(Counting(s, runs, facts, active, TRUE))})
          /\ per \in Nat
      BY PerRunIs
    <3>2. PerRun(s, runs, facts, worse, TRUE)
            = Max({1, Cardinality(Counting(s, runs, facts, worse, TRUE))})
      <4>. HIDE DEF worse
      <4>. QED
        BY PerRunIs
    <3>. HIDE DEF worse, per
    <3>. QED
      BY <2>6, <3>1, <3>2
  <2>8. w \in Nat /\ v \in Nat /\ w <= v
    BY WeightGrows
  <2>9. before = ByWeight(active, w, per, policy)
    <3>1. Covered(facts, active, rules, policy) = TRUE
      BY <2>3 DEF Covered
    <3>. QED
      BY <2>1, <2>2, <3>1, RecommendIs
  <2>10. after = ByWeight(worse, v, per, policy)
    <3>1. Covered(facts, worse, rules, policy) = TRUE
      BY <2>4 DEF Covered
    <3>2. after = ByWeight(worse, v, PerRun(s, runs, facts, worse,
                                            Covered(facts, worse, rules, policy)), policy)
      BY <1>3, RecommendIs
    <3>. HIDE DEF worse, per, v, after
    <3>. QED
      BY <2>7, <3>1, <3>2
  <2>11. active \subseteq worse
    OBVIOUS
  <2>. HIDE DEF worse, before, after, w, v, per
  <2>12. ~Better(after, before)
    BY <2>7, <2>8, <2>9, <2>10, <2>11, HeavierIsNoBetter
  <2>. QED
    BY <2>12 DEF worse, before, after
<1>. QED
  BY <1>1, <1>2, <1>3
=============================================================================
