---------------------------- MODULE SandboxProofs ---------------------------
(***************************************************************************)
(* Theorems about Sandbox, for any rulebooks, drafts, sweeps and bounds:   *)
(* its type, and the four properties of a promotion and of the scorecard   *)
(* it rests on.                                                            *)
(***************************************************************************)
EXTENDS Sandbox, TLAPS

----------------------------------------------------------------------------
(* The invariants.                                                         *)

Draft == [domain : Domain, base : Nat, label : Label, book : Book, edits : SUBSET Rule]
Copy == [domain : Domain, book : Book]
Grounds == [corpus : Nat, books : [Domain -> Book], code : Nat]
AllPins == [mode : Mode, corpus : Nat,
            policy : [Domain -> Book] \X (SUBSET Domain) \X (SUBSET Copy), code : Nat]
Sweep == [ref : Ref, rules : Book, pins : AllPins, seen : SUBSET Grounds,
          state : {"running", "done", "failed"}]
Promotion == [domain : Domain, book : Book, draft : Ref, sweep : Nat,
              edits : SUBSET Rule, from : Book, logged : BOOLEAN]

Typed ==
  /\ book \in [Domain -> Book] /\ torn \in SUBSET Domain
  /\ published \in SUBSET Copy
  /\ drafts \in SUBSET Draft
  /\ \A f, g \in drafts : Path(f) = Path(g) => f = g
  /\ sweeps \in Seq(Sweep)
  /\ running \in 0 .. Len(sweeps) /\ left \in 0 .. Dossiers
  /\ running # 0 => sweeps[running].state = "running"
  /\ corpus \in Nat /\ code \in Nat /\ corpus + code <= MaxGround
  /\ promotions \in Seq(Promotion)

\* A copy of a book is not newer than the book in force, and one of its
\* version is a copy of it.
CopiesAreOlder ==
  \A p \in published : /\ p.book.version <= book[p.domain].version
                       /\ p.book.version = book[p.domain].version
                            => p.book = book[p.domain]

\* The book in force is one that was made; what was made is in force or kept.
Kept == /\ EveryBookKept
        /\ \A d \in Domain : book[d] \in {FirstBook} \cup BooksMade(d)

\* What a sweep has seen lies between what it was pinned to and today.
SeenBetween ==
  \A n \in DOMAIN sweeps : \A g \in sweeps[n].seen :
    /\ sweeps[n].pins.corpus <= g.corpus /\ g.corpus <= corpus
    /\ sweeps[n].pins.code <= g.code /\ g.code <= code
    /\ \A d \in Domain :
         /\ sweeps[n].pins.policy[1][d].version <= g.books[d].version
         /\ g.books[d].version <= book[d].version
         /\ g.books[d].version = book[d].version => g.books[d] = book[d]

\* Pins are not of the future.
PinsArePast ==
  \A n \in DOMAIN sweeps :
    /\ sweeps[n].pins.corpus <= corpus /\ sweeps[n].pins.code <= code
    /\ \A d \in Domain : sweeps[n].pins.policy[1][d].version <= book[d].version

\* A sweep that carried a promotion is pinned to a book that is past.
Spent ==
  \A i \in DOMAIN promotions :
    LET p == promotions[i] IN
    /\ p.sweep \in DOMAIN sweeps
    /\ sweeps[p.sweep].pins.policy[1][p.domain].version < book[p.domain].version

\* A draft of the book in force lists what it changes of it; no draft is of a
\* later book.
DraftsTell ==
  \A f \in drafts : /\ f.base <= book[f.domain].version
                    /\ f.base = book[f.domain].version
                         => f.edits = Edits(book[f.domain], f.book)

SandboxInv == /\ Typed /\ CopiesAreOlder /\ Kept /\ SeenBetween /\ PinsArePast
              /\ Spent /\ OneVersionPerSweep /\ DraftsTell /\ LedgerTellsTheChange

----------------------------------------------------------------------------
(* Types.                                                                  *)

\* What is written takes the place of what had its path, and of nothing else.
LEMMA WrittenTyped ==
  ASSUME Typed, NEW f \in Draft
  PROVE  /\ Written(f) \in SUBSET Draft
         /\ \A g, h \in Written(f) : Path(g) = Path(h) => g = h
BY DEF Typed, Written

\* A ref that can be resolved stands for a rulebook.
LEMMA ResolveTyped ==
  ASSUME Typed, NEW ref \in Ref, Resolvable(ref)
  PROVE  Resolve(ref) \in Book
<1>1. CASE ref.label = None
  BY <1>1 DEF Typed, Resolve, Ref
<1>2. CASE ref.label # None
  <2>1. PICK f \in drafts : Id(f) = ref
    BY <1>2 DEF Resolvable
  <2>2. (CHOOSE g \in drafts : Id(g) = ref) \in drafts
    BY <2>1
  <2> QED BY <1>2, <2>2 DEF Typed, Resolve, Draft
<1> QED BY <1>1, <1>2

\* The refs that requests name are refs.
LEMMA RefsTyped ==
  ASSUME Typed
  PROVE  Refs \subseteq Ref
<1>1. \A d \in Domain : InForce(d) \in Ref
  BY DEF InForce, Ref
<1>2. \A f \in drafts : Id(f) \in Ref
  BY DEF Typed, Draft, Id, Ref
<1> QED BY <1>1, <1>2 DEF Refs

LEMMA PinsTyped ==
  ASSUME Typed, NEW mode \in Mode
  PROVE  Pins(mode) \in AllPins
BY DEF Typed, Pins, AllPins

LEMMA GroundTyped ==
  ASSUME Typed
  PROVE  Ground \in Grounds
BY DEF Typed, Ground, Grounds

\* A step promotes a draft, to some point, or leaves the files in force, the
\* copies and the promotions alone.
LEMMA StepKinds ==
  ASSUME [Next]_vars
  PROVE  \/ \E f \in drafts, n \in DOMAIN sweeps,
               upto \in {"copied", "torn", "written", "logged"} : Promote(f, n, upto)
         \/ UNCHANGED <<files, promotions>>
BY DEF Next, vars, Fork, Edit, Delete, Start, Measure, End, Promoted, PromoteDies,
       Restart, Relabel, Deploy, files

\* What a promotion puts in force.
Successor(f) == [f.book EXCEPT !.version = book[f.domain].version + 1]

LEMMA SuccessorTyped ==
  ASSUME Typed, NEW f \in drafts
  PROVE  /\ f.domain \in Domain /\ f.book \in Book /\ f.base \in Nat
         /\ f.edits \in SUBSET Rule /\ Id(f) \in Ref
         /\ book[f.domain] \in Book /\ book[f.domain].version \in Nat
         /\ Successor(f) \in Book
         /\ Successor(f).version = book[f.domain].version + 1
         /\ Successor(f).rules = f.book.rules
<1>1. f \in Draft
  BY DEF Typed
<1>2. /\ f.domain \in Domain /\ f.book \in Book /\ f.base \in Nat
      /\ f.edits \in SUBSET Rule /\ f.label \in Label
  BY <1>1 DEF Draft
<1>3. Id(f) \in Ref
  BY <1>2 DEF Id, Ref
<1>4. book[f.domain] \in Book
  BY <1>2 DEF Typed
<1>5. book[f.domain].version \in Nat
  BY <1>4 DEF Book
<1> DEFINE v == book[f.domain].version + 1
<1>6. Successor(f) = [f.book EXCEPT !.version = v]
  BY DEF Successor
<1>7. v \in Nat
  BY <1>5
<1> HIDE DEF v
<1>8. Successor(f) \in Book /\ Successor(f).version = v /\ Successor(f).rules = f.book.rules
  BY <1>2, <1>6, <1>7 DEF Book
<1> QED BY <1>2, <1>3, <1>4, <1>5, <1>8 DEF v

LEMMA CopiedTyped ==
  ASSUME Typed, NEW d \in Domain
  PROVE  Copied(d) \in SUBSET Copy
BY DEF Typed, Copied, Copy

\* What a promotion does to the files and to the list of promotions.
LEMMA PromoteDoes ==
  ASSUME Typed, NEW f \in drafts, NEW n \in DOMAIN sweeps,
         NEW upto \in {"copied", "torn", "written", "logged"}, Promote(f, n, upto)
  PROVE  /\ published' = Copied(f.domain)
         /\ f.domain \notin torn
         /\ sweeps[n].ref = Id(f) /\ sweeps[n].rules = f.book
         /\ sweeps[n].pins.policy[1] = book
         /\ UNCHANGED <<drafts, sweeps, corpus, code>>
         /\ \/ /\ upto \in {"copied", "torn"}
               /\ UNCHANGED <<book, promotions>> /\ torn' \in {torn, torn \cup {f.domain}}
            \/ /\ upto \in {"written", "logged"}
               /\ book' = [book EXCEPT ![f.domain] = Successor(f)] /\ torn' = torn
               /\ promotions' = Append(promotions,
                    [domain |-> f.domain, book |-> Successor(f), draft |-> Id(f), sweep |-> n,
                     edits |-> f.edits, from |-> book[f.domain], logged |-> upto = "logged"])
BY DEF Promote, Promotable, Incomparable, Pins, Successor, ground

LEMMA TypedStep ==
  ASSUME SandboxAssumption, Typed, [Next]_vars
  PROVE  Typed'
<1> USE SandboxAssumption
<1>1. ASSUME NEW d \in Domain, NEW l \in Label, Fork(d, l)
      PROVE  Typed'
  <2> DEFINE f == [domain |-> d, base |-> book[d].version, label |-> l,
                   book |-> book[d], edits |-> {}]
  <2>1. f \in Draft
    BY DEF Typed, Draft, Book
  <2>2. drafts' = Written(f)
    BY <1>1 DEF Fork
  <2> HIDE DEF f
  <2>3. drafts' \in SUBSET Draft /\ \A g, h \in drafts' : Path(g) = Path(h) => g = h
    BY <2>1, <2>2, WrittenTyped
  <2> QED BY <1>1, <2>3 DEF Typed, Fork, files, sweeping, ground, Path
<1>2. ASSUME NEW f \in drafts, NEW r \in Rule, NEW s \in Setting, Edit(f, r, s)
      PROVE  Typed'
  <2> DEFINE b == [f.book EXCEPT !.rules[r] = s]
             g == [f EXCEPT !.book = b, !.edits = Edits(book[f.domain], b)]
  <2>1. b \in Book
    BY DEF Typed, Draft, Book
  <2>2. g \in Draft
    <3> HIDE DEF b
    <3> QED BY <2>1 DEF Typed, Draft, Edits
  <2>3. drafts' = Written(g)
    BY <1>2 DEF Edit
  <2> HIDE DEF g
  <2>4. drafts' \in SUBSET Draft /\ \A k, h \in drafts' : Path(k) = Path(h) => k = h
    BY <2>2, <2>3, WrittenTyped
  <2> QED BY <1>2, <2>4 DEF Typed, Edit, files, sweeping, ground, Path
<1>3. ASSUME NEW f \in drafts, Delete(f)
      PROVE  Typed'
  BY <1>3 DEF Typed, Delete, files, sweeping, ground, Path
<1>4. ASSUME NEW ref \in Refs, NEW mode \in Mode, Start(ref, mode)
      PROVE  Typed'
  <2> DEFINE w == [ref |-> ref, rules |-> Resolve(ref), pins |-> Pins(mode), seen |-> {},
                   state |-> "running"]
  <2>1. ref \in Ref
    BY RefsTyped
  <2>2. Resolve(ref) \in Book /\ Pins(mode) \in AllPins
    BY <1>4, <2>1, ResolveTyped, PinsTyped DEF Start
  <2>3. w \in Sweep
    BY <2>1, <2>2 DEF Sweep
  <2>4. sweeps' = Append(sweeps, w) /\ running' = Len(sweeps) + 1 /\ left' = Dossiers
    BY <1>4 DEF Start
  <2>5. w.state = "running"
    OBVIOUS
  <2> HIDE DEF w
  <2>6. /\ sweeps' \in Seq(Sweep) /\ Len(sweeps') = Len(sweeps) + 1
        /\ sweeps'[Len(sweeps) + 1] = w
    BY <2>3, <2>4 DEF Typed
  <2> QED BY <1>4, <2>4, <2>5, <2>6 DEF Typed, Start, files, ground, Path
<1>5. CASE Measure
  <2> DEFINE w == [sweeps[running] EXCEPT !.seen = @ \cup {Ground}]
  <2>1. running \in DOMAIN sweeps /\ sweeps[running] \in Sweep
    BY <1>5 DEF Typed, Measure
  <2>2. w \in Sweep /\ w.state = sweeps[running].state
    BY <2>1, GroundTyped DEF Sweep
  <2>3. sweeps' = [sweeps EXCEPT ![running] = w]
    BY <1>5 DEF Measure
  <2> HIDE DEF w
  <2>4. /\ sweeps' \in Seq(Sweep) /\ Len(sweeps') = Len(sweeps)
        /\ sweeps'[running].state = sweeps[running].state
    BY <2>1, <2>2, <2>3 DEF Typed
  <2>5. left' \in 0 .. Dossiers /\ running' = running
    BY <1>5 DEF Typed, Measure
  <2> QED BY <1>5, <2>4, <2>5 DEF Typed, Measure, files, ground, Path
<1>6. ASSUME NEW state \in {"done", "failed"}, End(state)
      PROVE  Typed'
  <2> DEFINE w == [sweeps[running] EXCEPT !.state = state]
  <2>1. running \in DOMAIN sweeps /\ sweeps[running] \in Sweep
    BY <1>6 DEF Typed, End
  <2>2. w \in Sweep
    BY <2>1 DEF Sweep
  <2>3. sweeps' = [sweeps EXCEPT ![running] = w]
    BY <1>6 DEF End
  <2> HIDE DEF w
  <2>4. sweeps' \in Seq(Sweep) /\ Len(sweeps') = Len(sweeps)
    BY <2>1, <2>2, <2>3 DEF Typed
  <2> QED BY <1>6, <2>4 DEF Typed, End, files, ground, Path
<1>7. ASSUME NEW f \in drafts, NEW n \in DOMAIN sweeps,
             NEW upto \in {"copied", "torn", "written", "logged"}, Promote(f, n, upto),
             running' \in {running, 0}, left' \in {left, 0}
      PROVE  Typed'
  <2> DEFINE p == [domain |-> f.domain, book |-> Successor(f), draft |-> Id(f), sweep |-> n,
                   edits |-> f.edits, from |-> book[f.domain], logged |-> upto = "logged"]
  <2>1. p \in Promotion
    BY SuccessorTyped DEF Typed, Promotion
  <2>2. published' \in SUBSET Copy
    <3>1. f.domain \in Domain
      BY SuccessorTyped
    <3>2. Copied(f.domain) \in SUBSET Copy
      BY <3>1, CopiedTyped
    <3>3. published' = Copied(f.domain)
      BY <1>7, PromoteDoes
    <3> QED BY <3>2, <3>3
  <2>3. book' \in [Domain -> Book] /\ torn' \in SUBSET Domain
    <3>1. f.domain \in Domain /\ Successor(f) \in Book
      BY SuccessorTyped
    <3>2. \/ UNCHANGED book /\ torn' \in {torn, torn \cup {f.domain}}
          \/ book' = [book EXCEPT ![f.domain] = Successor(f)] /\ torn' = torn
      BY <1>7, PromoteDoes
    <3>3. book \in [Domain -> Book] /\ torn \in SUBSET Domain
      BY DEF Typed
    <3> QED BY <3>1, <3>2, <3>3
  <2>4. promotions' \in Seq(Promotion)
    <3>1. promotions' = promotions \/ promotions' = Append(promotions, p)
      BY <1>7, PromoteDoes
    <3>2. promotions \in Seq(Promotion)
      BY DEF Typed
    <3> HIDE DEF p
    <3> QED BY <2>1, <3>1, <3>2
  <2>5. UNCHANGED <<drafts, sweeps, corpus, code>>
    BY <1>7, PromoteDoes
  <2> QED BY <1>7, <2>2, <2>3, <2>4, <2>5 DEF Typed, Path
<1>8. CASE Restart
  BY <1>8 DEF Typed, Restart, Die, files, ground, Path
<1>9. CASE Relabel
  BY <1>9 DEF Typed, Relabel, files, sweeping, Path
<1>10. CASE Deploy
  BY <1>10 DEF Typed, Deploy, Die, files, Path
<1>11. CASE UNCHANGED vars
  BY <1>11 DEF Typed, vars, Path
<1>12. ASSUME NEW f \in drafts, NEW n \in DOMAIN sweeps, Promoted(f, n) \/ PromoteDies(f, n)
       PROVE  Typed'
  BY <1>7, <1>12 DEF Promoted, PromoteDies, Die
<1> QED BY <1>1, <1>2, <1>3, <1>4, <1>5, <1>6, <1>8, <1>9, <1>10, <1>11, <1>12 DEF Next
LEMMA TypedInit ==
  ASSUME SandboxAssumption, Init
  PROVE  Typed
<1>1. FirstBook \in Book
  BY DEF FirstBook, Book, SandboxAssumption
<1> QED BY <1>1 DEF Init, Typed, SandboxAssumption

\* Every file, draft, sweep and promotion has its type, and no two drafts share
\* a file (drafts.py, service.py).
THEOREM TypeCorrect == Spec => []TypeOK
<1>1. ASSUME Typed
      PROVE  TypeOK
  <2>1. \A p \in published : p.domain \in Domain /\ p.book \in Book
    BY <1>1 DEF Typed, Copy
  <2>2. \A f \in drafts : Id(f) \in Ref /\ f.book \in Book /\ f.edits \subseteq Rule
    BY <1>1, SuccessorTyped
  <2>3. \A n \in DOMAIN sweeps : /\ sweeps[n].ref \in Ref /\ sweeps[n].rules \in Book
                                 /\ sweeps[n].state \in {"running", "done", "failed"}
    <3>1. \A n \in DOMAIN sweeps : sweeps[n] \in Sweep
      BY <1>1 DEF Typed
    <3> QED BY <3>1 DEF Sweep
  <2>4. {corpus, code} \subseteq 0 .. MaxGround
    BY <1>1, SandboxAssumption DEF Typed
  <2> QED BY <1>1, <2>1, <2>2, <2>3, <2>4 DEF Typed, TypeOK
<1>2. Init => Typed
  BY SandboxAssumption, TypedInit
<1>3. Typed /\ [Next]_vars => Typed'
  BY SandboxAssumption, TypedStep
<1> QED BY <1>1, <1>2, <1>3, PTL DEF Spec

----------------------------------------------------------------------------
(* Copies and books.                                                       *)

\* A promotion is put behind those there are.
LEMMA Appended ==
  ASSUME NEW S, NEW q \in Seq(S), NEW e \in S
  PROVE  /\ DOMAIN Append(q, e) = DOMAIN q \cup {Len(q) + 1}
         /\ \A i \in DOMAIN q : i # Len(q) + 1 /\ Append(q, e)[i] = q[i]
         /\ Append(q, e)[Len(q) + 1] = e
OBVIOUS

\* What the last promotion put in force was made.
LEMMA BooksMadeGrow ==
  ASSUME Typed, NEW p \in Promotion, promotions' = Append(promotions, p), NEW d \in Domain
  PROVE  BooksMade(d)' = IF p.domain = d THEN BooksMade(d) \cup {p.book} ELSE BooksMade(d)
<1>1. promotions \in Seq(Promotion)
  BY DEF Typed
<1>2. /\ DOMAIN promotions' = DOMAIN promotions \cup {Len(promotions) + 1}
      /\ \A i \in DOMAIN promotions : /\ i # Len(promotions) + 1
                                      /\ promotions'[i] = promotions[i]
      /\ promotions'[Len(promotions) + 1] = p
  BY <1>1, Appended
<1> QED BY <1>2 DEF BooksMade

LEMMA PromotionTyped ==
  ASSUME Typed, NEW f \in drafts, NEW n \in DOMAIN sweeps, NEW upto
  PROVE  [domain |-> f.domain, book |-> Successor(f), draft |-> Id(f), sweep |-> n,
          edits |-> f.edits, from |-> book[f.domain], logged |-> upto = "logged"] \in Promotion
BY SuccessorTyped DEF Typed, Promotion

LEMMA CopiesStep ==
  ASSUME Typed, CopiesAreOlder, [Next]_vars
  PROVE  CopiesAreOlder'
<1>1. CASE UNCHANGED <<files, promotions>>
  BY <1>1 DEF CopiesAreOlder, files
<1>2. ASSUME NEW f \in drafts, NEW n \in DOMAIN sweeps,
             NEW upto \in {"copied", "torn", "written", "logged"}, Promote(f, n, upto)
      PROVE  CopiesAreOlder'
  <2> DEFINE d == f.domain
  <2>1. /\ d \in Domain /\ Successor(f).version = book[d].version + 1
        /\ book \in [Domain -> Book] /\ book[d].version \in Nat
    BY SuccessorTyped DEF Typed
  <2>2. published' = Copied(d)
    BY <1>2, PromoteDoes
  <2>3. \/ UNCHANGED book
        \/ book' = [book EXCEPT ![d] = Successor(f)]
    BY <1>2, PromoteDoes
  <2>4. \A p \in published : /\ p.domain \in Domain /\ p.book.version \in Nat
                             /\ book[p.domain].version \in Nat
    BY DEF Typed, Copy, Book
  <2> HIDE DEF d
  <2>5. ASSUME NEW p \in published' 
        PROVE  /\ p.book.version <= book'[p.domain].version
               /\ p.book.version = book'[p.domain].version => p.book = book'[p.domain]
    <3>1. \/ p \in published /\ (p.domain # d \/ p.book.version # book[d].version)
          \/ p.domain = d /\ p.book = book[d]
      BY <2>2 DEF Copied
    <3> QED BY <2>1, <2>3, <2>4, <3>1 DEF CopiesAreOlder
  <2> QED BY <2>5 DEF CopiesAreOlder
<1> QED BY <1>1, <1>2, StepKinds

LEMMA KeptStep ==
  ASSUME Typed, CopiesAreOlder, Kept, [Next]_vars
  PROVE  Kept'
<1>1. CASE UNCHANGED <<files, promotions>>
  BY <1>1 DEF Kept, EveryBookKept, BooksMade, files
<1>2. ASSUME NEW f \in drafts, NEW n \in DOMAIN sweeps,
             NEW upto \in {"copied", "torn", "written", "logged"}, Promote(f, n, upto)
      PROVE  Kept'
  <2> DEFINE d == f.domain
             s == Successor(f)
  <2>1. d \in Domain /\ book \in [Domain -> Book] /\ d \notin torn
    <3>1. book \in [Domain -> Book]
      BY DEF Typed
    <3> QED BY <1>2, <3>1, SuccessorTyped, PromoteDoes
  <2>2. published' = Copied(d)
    BY <1>2, PromoteDoes
  \* What was kept still is, and the outgoing book is.
  <2>3. ASSUME NEW e \in Domain, NEW b, [domain |-> e, book |-> b] \in published
        PROVE  [domain |-> e, book |-> b] \in published'
    BY <2>2, <2>3 DEF Copied, CopiesAreOlder
  <2>4. [domain |-> d, book |-> book[d]] \in published'
    BY <2>2 DEF Copied
  <2>5. ASSUME NEW e \in Domain, NEW b \in {FirstBook} \cup BooksMade(e)
        PROVE  \/ b = book'[e] /\ e \notin torn'
               \/ [domain |-> e, book |-> b] \in published'
    <3>1. \/ b = book[e] /\ e \notin torn
          \/ [domain |-> e, book |-> b] \in published
      BY DEF Kept, EveryBookKept
    <3>2. CASE e = d
      BY <2>3, <2>4, <3>1, <3>2
    <3>3. CASE e # d
      <4>1. book'[e] = book[e] /\ (e \in torn' <=> e \in torn)
        BY <1>2, <2>1, <3>3, PromoteDoes
      <4> QED BY <2>3, <3>1, <4>1
    <3> QED BY <3>2, <3>3
  <2>6. CASE UNCHANGED <<book, promotions>>
    <3>1. \A e \in Domain : BooksMade(e)' = BooksMade(e)
      BY <2>6 DEF BooksMade
    <3> QED BY <2>5, <2>6, <3>1 DEF Kept, EveryBookKept
  <2>7. CASE /\ book' = [book EXCEPT ![d] = s] /\ torn' = torn
             /\ promotions' = Append(promotions,
                  [domain |-> d, book |-> s, draft |-> Id(f), sweep |-> n, edits |-> f.edits,
                   from |-> book[d], logged |-> upto = "logged"])
    <3> DEFINE p == [domain |-> d, book |-> s, draft |-> Id(f), sweep |-> n,
                     edits |-> f.edits, from |-> book[d], logged |-> upto = "logged"]
    <3>p. p \in Promotion /\ promotions' = Append(promotions, p) /\ p.domain = d /\ p.book = s
      BY <2>7, PromotionTyped
    <3> HIDE DEF p
    <3>1. \A e \in Domain : BooksMade(e)' = IF d = e THEN BooksMade(e) \cup {s}
                                                     ELSE BooksMade(e)
      <4>1. ASSUME NEW e \in Domain
            PROVE  BooksMade(e)' = IF p.domain = e THEN BooksMade(e) \cup {p.book}
                                                   ELSE BooksMade(e)
        BY <3>p, BooksMadeGrow
      <4> QED BY <3>p, <4>1
    <3>2. book'[d] = s /\ \A e \in Domain \ {d} : book'[e] = book[e]
      BY <2>1, <2>7
    <3> HIDE DEF d, s
    <3>3. ASSUME NEW e \in Domain, NEW b \in {FirstBook} \cup BooksMade(e)'
          PROVE  \/ b = book'[e] /\ e \notin torn'
                 \/ [domain |-> e, book |-> b] \in published'
      <4>1. b \in {FirstBook} \cup BooksMade(e) \/ (e = d /\ b = s)
        BY <3>1
      <4>2. CASE e = d /\ b = s
        BY <2>1, <2>7, <3>2, <4>2
      <4> QED BY <2>5, <4>1, <4>2
    <3>4. \A e \in Domain : book'[e] \in {FirstBook} \cup BooksMade(e)'
      BY <3>1, <3>2 DEF Kept
    <3>5. EveryBookKept'
      BY <3>3 DEF EveryBookKept
    <3> QED BY <3>4, <3>5 DEF Kept
  <2> QED BY <1>2, <2>6, <2>7, PromoteDoes
<1> QED BY <1>1, <1>2, StepKinds

----------------------------------------------------------------------------
(* Sweeps and the ground they rest on.                                     *)

\* What a sweep is pinned to, and has seen, has its type.
LEMMA SweepTyped ==
  ASSUME Typed, NEW n \in DOMAIN sweeps
  PROVE  /\ sweeps[n].pins.corpus \in Nat /\ sweeps[n].pins.code \in Nat
         /\ sweeps[n].pins.policy[1] \in [Domain -> Book]
         /\ sweeps[n].seen \in SUBSET Grounds
<1>1. sweeps[n] \in Sweep
  BY DEF Typed
<1>2. sweeps[n].pins \in AllPins /\ sweeps[n].seen \in SUBSET Grounds
  BY <1>1 DEF Sweep
<1> QED BY <1>2 DEF AllPins

\* No register is rewritten: the books, the corpus and the code move forward.
LEMMA Forward ==
  ASSUME Typed, [Next]_vars
  PROVE  /\ corpus <= corpus' /\ code <= code'
         /\ \A d \in Domain : /\ book[d].version <= book'[d].version
                              /\ book'[d].version = book[d].version => book'[d] = book[d]
<1>1. corpus <= corpus' /\ code <= code'
  <2>1. corpus' \in {corpus, corpus + 1} /\ code' \in {code, code + 1}
    BY DEF Next, vars, Fork, Edit, Delete, Start, Measure, End, Promoted, PromoteDies,
           Promote, Restart, Relabel, Deploy, ground
  <2> QED BY <2>1 DEF Typed
<1>2. \A d \in Domain : book[d].version \in Nat
  BY DEF Typed, Book
<1>3. CASE UNCHANGED <<files, promotions>>
  BY <1>1, <1>2, <1>3 DEF files
<1>4. ASSUME NEW f \in drafts, NEW n \in DOMAIN sweeps,
             NEW upto \in {"copied", "torn", "written", "logged"}, Promote(f, n, upto),
             NEW d \in Domain
      PROVE  /\ book[d].version <= book'[d].version
             /\ book'[d].version = book[d].version => book'[d] = book[d]
  <2>1. \/ book' = book
        \/ book' = [book EXCEPT ![f.domain] = Successor(f)]
    BY <1>4, PromoteDoes
  <2>2. Successor(f).version = book[f.domain].version + 1 /\ book \in [Domain -> Book]
    <3>1. book \in [Domain -> Book]
      BY DEF Typed
    <3> QED BY <3>1, SuccessorTyped
  <2> QED BY <1>2, <2>1, <2>2
<1> QED BY <1>1, <1>3, <1>4, StepKinds

\* A step leaves what a sweep was asked and is pinned to; a sweep that starts
\* is pinned to today and has seen nothing, and one that is running sees today.
LEMMA SweepKinds ==
  ASSUME SandboxAssumption, Typed, [Next]_vars
  PROVE  /\ DOMAIN sweeps \subseteq DOMAIN sweeps'
         /\ \A n \in DOMAIN sweeps :
              /\ sweeps'[n].ref = sweeps[n].ref /\ sweeps'[n].rules = sweeps[n].rules
              /\ sweeps'[n].pins = sweeps[n].pins
              /\ sweeps'[n].seen \subseteq sweeps[n].seen \cup {Ground}
         /\ \A n \in DOMAIN sweeps' \ DOMAIN sweeps :
              /\ sweeps'[n].seen = {}
              /\ sweeps'[n].pins.corpus = corpus /\ sweeps'[n].pins.code = code
              /\ sweeps'[n].pins.policy[1] = book
<1>1. CASE UNCHANGED sweeps
  BY <1>1
<1>2. ASSUME NEW ref \in Refs, NEW mode \in Mode, Start(ref, mode)
      PROVE  /\ DOMAIN sweeps' = DOMAIN sweeps \cup {Len(sweeps) + 1}
             /\ \A n \in DOMAIN sweeps : sweeps'[n] = sweeps[n]
             /\ sweeps'[Len(sweeps) + 1].seen = {}
             /\ sweeps'[Len(sweeps) + 1].pins = Pins(mode)
  <2> DEFINE w == [ref |-> ref, rules |-> Resolve(ref), pins |-> Pins(mode), seen |-> {},
                   state |-> "running"]
  <2>1. Resolve(ref) \in Book /\ Pins(mode) \in AllPins /\ ref \in Ref
    BY <1>2, RefsTyped, ResolveTyped, PinsTyped DEF Start
  <2>2. w \in Sweep /\ w.seen = {} /\ w.pins = Pins(mode)
    BY <2>1 DEF Sweep
  <2>3. sweeps' = Append(sweeps, w) /\ sweeps \in Seq(Sweep)
    BY <1>2 DEF Start, Typed
  <2> HIDE DEF w
  <2> QED BY <2>2, <2>3, Appended
<1>3. ASSUME NEW ref \in Refs, NEW mode \in Mode, Start(ref, mode)
      PROVE  \A n \in DOMAIN sweeps' \ DOMAIN sweeps :
               /\ sweeps'[n].seen = {}
               /\ sweeps'[n].pins.corpus = corpus /\ sweeps'[n].pins.code = code
               /\ sweeps'[n].pins.policy[1] = book
  <2>1. /\ Pins(mode).corpus = corpus /\ Pins(mode).code = code
        /\ Pins(mode).policy[1] = book
    BY DEF Pins
  <2>2. \A n \in DOMAIN sweeps' \ DOMAIN sweeps : n = Len(sweeps) + 1
    BY <1>2, <1>3
  <2>3. /\ sweeps'[Len(sweeps) + 1].seen = {}
        /\ sweeps'[Len(sweeps) + 1].pins = Pins(mode)
    BY <1>2, <1>3
  <2> QED BY <2>1, <2>2, <2>3
<1>4. ASSUME Measure \/ End("done") \/ End("failed")
      PROVE  /\ DOMAIN sweeps' = DOMAIN sweeps
             /\ \A n \in DOMAIN sweeps :
                  /\ sweeps'[n].ref = sweeps[n].ref /\ sweeps'[n].rules = sweeps[n].rules
                  /\ sweeps'[n].pins = sweeps[n].pins
                  /\ sweeps'[n].seen \subseteq sweeps[n].seen \cup {Ground}
  <2>1. running \in DOMAIN sweeps /\ sweeps[running] \in Sweep /\ sweeps \in Seq(Sweep)
    BY <1>4 DEF Typed, Measure, End
  <2>2. ASSUME NEW s, s = [sweeps[running] EXCEPT !.seen = @ \cup {Ground}]
        PROVE  /\ s.ref = sweeps[running].ref /\ s.rules = sweeps[running].rules
               /\ s.pins = sweeps[running].pins
               /\ s.seen = sweeps[running].seen \cup {Ground}
    BY <2>1, <2>2 DEF Sweep
  <2>3. ASSUME NEW state, NEW s, s = [sweeps[running] EXCEPT !.state = state]
        PROVE  /\ s.ref = sweeps[running].ref /\ s.rules = sweeps[running].rules
               /\ s.pins = sweeps[running].pins /\ s.seen = sweeps[running].seen
    BY <2>1, <2>3 DEF Sweep
  <2>4. PICK s : /\ sweeps' = [sweeps EXCEPT ![running] = s]
                 /\ s.ref = sweeps[running].ref /\ s.rules = sweeps[running].rules
                 /\ s.pins = sweeps[running].pins
                 /\ s.seen \subseteq sweeps[running].seen \cup {Ground}
    <3>1. CASE Measure
      BY <2>2, <3>1 DEF Measure
    <3>2. CASE End("done") \/ End("failed")
      BY <2>3, <3>2 DEF End
    <3> QED BY <1>4, <3>1, <3>2
  <2> QED BY <2>1, <2>4
<1>5. \/ UNCHANGED sweeps
      \/ \E ref \in Refs, mode \in Mode : Start(ref, mode)
      \/ Measure \/ End("done") \/ End("failed")
  BY DEF Next, vars, sweeping, Fork, Edit, Delete, Promoted, PromoteDies, Promote, Restart,
         Relabel, Deploy
<1>6. CASE \E ref \in Refs, mode \in Mode : Start(ref, mode)
  <2>1. PICK ref \in Refs, mode \in Mode : Start(ref, mode)
    BY <1>6
  <2>2. /\ DOMAIN sweeps' = DOMAIN sweeps \cup {Len(sweeps) + 1}
        /\ \A n \in DOMAIN sweeps : sweeps'[n] = sweeps[n]
    BY <1>2, <2>1
  <2> QED BY <1>3, <2>1, <2>2
<1>7. CASE Measure \/ End("done") \/ End("failed")
  <2>1. DOMAIN sweeps' = DOMAIN sweeps
    BY <1>4, <1>7
  <2> QED BY <1>4, <1>7, <2>1
<1> QED BY <1>1, <1>5, <1>6, <1>7

LEMMA SeenStep ==
  ASSUME SandboxAssumption, Typed, Typed', SeenBetween, PinsArePast, [Next]_vars
  PROVE  SeenBetween' /\ PinsArePast'
<1>1. /\ corpus \in Nat /\ code \in Nat /\ corpus' \in Nat /\ code' \in Nat
      /\ \A d \in Domain : book[d].version \in Nat /\ book'[d].version \in Nat
  BY DEF Typed, Book
<1>f. /\ corpus <= corpus' /\ code <= code'
      /\ \A d \in Domain : /\ book[d].version <= book'[d].version
                           /\ book'[d].version = book[d].version => book'[d] = book[d]
  BY Forward
<1>2. ASSUME NEW n \in DOMAIN sweeps', NEW g \in sweeps'[n].seen
      PROVE  n \in DOMAIN sweeps /\ (g \in sweeps[n].seen \/ g = Ground)
  BY <1>2, SweepKinds
<1>3. ASSUME NEW n \in DOMAIN sweeps
      PROVE  /\ sweeps[n].pins.corpus \in Nat /\ sweeps[n].pins.code \in Nat
             /\ \A d \in Domain : sweeps[n].pins.policy[1][d].version \in Nat
             /\ \A g \in sweeps[n].seen :
                  /\ g.corpus \in Nat /\ g.code \in Nat
                  /\ \A d \in Domain : g.books[d].version \in Nat
  <2>1. /\ sweeps[n].pins.corpus \in Nat /\ sweeps[n].pins.code \in Nat
        /\ sweeps[n].pins.policy[1] \in [Domain -> Book]
        /\ sweeps[n].seen \in SUBSET Grounds
    BY SweepTyped
  <2> QED BY <2>1 DEF Grounds, Book
<1>4. ASSUME NEW n \in DOMAIN sweeps', NEW g \in sweeps'[n].seen
      PROVE  /\ sweeps'[n].pins.corpus <= g.corpus /\ g.corpus <= corpus'
             /\ sweeps'[n].pins.code <= g.code /\ g.code <= code'
  <2>1. n \in DOMAIN sweeps /\ sweeps'[n].pins = sweeps[n].pins
    BY <1>2, SweepKinds
  <2>2. corpus <= corpus' /\ code <= code'
    BY <1>f
  <2>3. CASE g \in sweeps[n].seen
    BY <1>1, <1>3, <2>1, <2>2, <2>3 DEF SeenBetween
  <2>4. CASE g = Ground
    BY <1>1, <1>3, <2>1, <2>2, <2>4 DEF PinsArePast, Ground
  <2> QED BY <1>2, <2>3, <2>4
<1>5. ASSUME NEW n \in DOMAIN sweeps', NEW g \in sweeps'[n].seen, NEW d \in Domain
      PROVE  /\ sweeps'[n].pins.policy[1][d].version <= g.books[d].version
             /\ g.books[d].version <= book'[d].version
             /\ g.books[d].version = book'[d].version => g.books[d] = book'[d]
  <2>1. n \in DOMAIN sweeps /\ sweeps'[n].pins = sweeps[n].pins
    BY <1>2, SweepKinds
  <2>2. /\ book[d].version <= book'[d].version
        /\ book'[d].version = book[d].version => book'[d] = book[d]
    BY <1>f
  <2>3. CASE g \in sweeps[n].seen
    <3>1. /\ sweeps[n].pins.policy[1][d].version <= g.books[d].version
          /\ g.books[d].version <= book[d].version
          /\ g.books[d].version = book[d].version => g.books[d] = book[d]
          /\ g.books[d].version \in Nat
      BY <1>3, <2>1, <2>3 DEF SeenBetween
    <3> QED BY <1>1, <2>1, <2>2, <3>1
  <2>4. CASE g = Ground
    <3>1. g.books[d] = book[d]
      BY <2>4 DEF Ground
    <3>2. sweeps[n].pins.policy[1][d].version <= book[d].version
      BY <2>1 DEF PinsArePast
    <3> QED BY <1>1, <2>1, <2>2, <3>1, <3>2
  <2> QED BY <1>2, <2>3, <2>4
<1>6. SeenBetween'
  BY <1>4, <1>5 DEF SeenBetween
<1>7. ASSUME NEW n \in DOMAIN sweeps'
      PROVE  /\ sweeps'[n].pins.corpus <= corpus' /\ sweeps'[n].pins.code <= code'
             /\ \A d \in Domain :
                  sweeps'[n].pins.policy[1][d].version <= book'[d].version
  <2>1. CASE n \in DOMAIN sweeps
    <3>1. sweeps'[n].pins = sweeps[n].pins
      BY <2>1, SweepKinds
    <3>2. /\ sweeps[n].pins.corpus <= corpus /\ sweeps[n].pins.code <= code
          /\ \A d \in Domain : sweeps[n].pins.policy[1][d].version <= book[d].version
      BY <2>1 DEF PinsArePast
    <3> QED BY <1>1, <1>3, <1>f, <2>1, <3>1, <3>2
  <2>2. CASE n \notin DOMAIN sweeps
    <3>1. /\ sweeps'[n].pins.corpus = corpus /\ sweeps'[n].pins.code = code
          /\ sweeps'[n].pins.policy[1] = book
      BY <2>2, SweepKinds
    <3> QED BY <1>1, <1>f, <3>1
  <2> QED BY <2>1, <2>2
<1>8. PinsArePast'
  BY <1>7 DEF PinsArePast
<1> QED BY <1>6, <1>8

\* What is pinned as today is pinned, and was seen in between, was seen today.
LEMMA TodayThroughout ==
  ASSUME Typed, SeenBetween, NEW n \in DOMAIN sweeps,
         sweeps[n].pins.corpus = corpus, sweeps[n].pins.code = code,
         sweeps[n].pins.policy[1] = book, NEW g \in sweeps[n].seen
  PROVE  g = Ground
<1>1. /\ g \in Grounds /\ corpus \in Nat /\ code \in Nat /\ book \in [Domain -> Book]
  BY SweepTyped DEF Typed
<1>2. g.corpus \in Nat /\ g.code \in Nat /\ g.books \in [Domain -> Book]
  BY <1>1 DEF Grounds
<1>3. g.corpus = corpus /\ g.code = code
  <2>1. /\ corpus <= g.corpus /\ g.corpus <= corpus /\ code <= g.code /\ g.code <= code
    BY DEF SeenBetween
  <2> QED BY <1>1, <1>2, <2>1
<1>4. ASSUME NEW d \in Domain
      PROVE  g.books[d] = book[d]
  <2>1. book[d].version \in Nat /\ g.books[d].version \in Nat
    BY <1>1, <1>2 DEF Book
  <2>2. /\ book[d].version <= g.books[d].version /\ g.books[d].version <= book[d].version
        /\ g.books[d].version = book[d].version => g.books[d] = book[d]
    BY DEF SeenBetween
  <2> QED BY <2>1, <2>2
<1>5. g.books = book
  BY <1>1, <1>2, <1>4
<1>6. g = [corpus |-> corpus, books |-> book, code |-> code]
  BY <1>1, <1>3, <1>5 DEF Grounds
<1> QED BY <1>6 DEF Ground

LEMMA PresentGround ==
  ASSUME Typed, SeenBetween
  PROVE  RestsOnPresentGround
<1> SUFFICES ASSUME NEW n \in DOMAIN sweeps,
                    Reusable(n) \/ \E f \in drafts : Promotable(f, n),
                    NEW g \in sweeps[n].seen
             PROVE  g = Ground
  BY DEF RestsOnPresentGround
<1>1. /\ sweeps[n].pins.corpus = corpus /\ sweeps[n].pins.code = code
      /\ sweeps[n].pins.policy[1] = book
  <2> DEFINE today == Pins(sweeps[n].pins.mode)
  <2>1. /\ sweeps[n].pins.corpus = today.corpus /\ sweeps[n].pins.code = today.code
        /\ sweeps[n].pins.policy = today.policy
    BY DEF Reusable, Promotable, Incomparable
  <2>2. /\ today.corpus = corpus /\ today.code = code
        /\ today.policy = <<book, torn, published>>
    BY DEF Pins
  <2> QED BY <2>1, <2>2
<1> QED BY <1>1, TodayThroughout

----------------------------------------------------------------------------
(* Promotions, their sweeps and their drafts.                              *)

\* A promotion that is made rests on a sweep that is pinned to the books in
\* force, and is put behind the others.
LEMMA PromotionKinds ==
  ASSUME Typed, [Next]_vars
  PROVE  \/ UNCHANGED promotions
         \/ \E p \in Promotion :
              /\ promotions' = Append(promotions, p)
              /\ p.sweep \in DOMAIN sweeps /\ UNCHANGED sweeps
              /\ sweeps[p.sweep].pins.policy[1] = book
              /\ sweeps[p.sweep].ref = p.draft
              /\ sweeps[p.sweep].rules.rules = p.book.rules
              /\ book'[p.domain].version = book[p.domain].version + 1
              /\ p.from = book[p.domain]
              /\ \E f \in drafts : /\ f.domain = p.domain /\ p.draft.base = f.base
                                   /\ p.edits = f.edits /\ p.book.rules = f.book.rules
<1>1. CASE UNCHANGED <<files, promotions>>
  BY <1>1
<1>2. ASSUME NEW f \in drafts, NEW n \in DOMAIN sweeps,
             NEW upto \in {"copied", "torn", "written", "logged"}, Promote(f, n, upto),
             promotions' # promotions
      PROVE  \E p \in Promotion :
              /\ promotions' = Append(promotions, p)
              /\ p.sweep \in DOMAIN sweeps /\ UNCHANGED sweeps
              /\ sweeps[p.sweep].pins.policy[1] = book
              /\ sweeps[p.sweep].ref = p.draft
              /\ sweeps[p.sweep].rules.rules = p.book.rules
              /\ book'[p.domain].version = book[p.domain].version + 1
              /\ p.from = book[p.domain]
              /\ \E g \in drafts : /\ g.domain = p.domain /\ p.draft.base = g.base
                                   /\ p.edits = g.edits /\ p.book.rules = g.book.rules
  <2> DEFINE p == [domain |-> f.domain, book |-> Successor(f), draft |-> Id(f), sweep |-> n,
                   edits |-> f.edits, from |-> book[f.domain], logged |-> upto = "logged"]
  <2>1. /\ promotions' = Append(promotions, p)
        /\ book' = [book EXCEPT ![f.domain] = Successor(f)]
        /\ sweeps[n].ref = Id(f) /\ sweeps[n].rules = f.book /\ sweeps' = sweeps
        /\ sweeps[n].pins.policy[1] = book
    BY <1>2, PromoteDoes
  <2>2. /\ p \in Promotion /\ p.sweep = n /\ p.draft = Id(f) /\ p.book = Successor(f)
        /\ p.domain = f.domain /\ p.from = book[f.domain] /\ p.edits = f.edits
    BY PromotionTyped
  <2>3. /\ Successor(f).rules = f.book.rules /\ f.domain \in Domain
        /\ Successor(f).version = book[f.domain].version + 1
    BY SuccessorTyped
  <2>4. book'[f.domain].version = book[f.domain].version + 1
    BY <2>1, <2>3 DEF Typed
  <2>5. p.draft.base = f.base
    BY <2>2 DEF Id
  <2> HIDE DEF p
  <2> QED BY <2>1, <2>2, <2>3, <2>4, <2>5
<1> QED BY <1>1, <1>2, StepKinds

\* The drafts after a step: those there were, but for one that is forked from
\* the book in force or edited against it.
LEMMA DraftKinds ==
  ASSUME Typed, [Next]_vars, NEW f \in drafts'
  PROVE  \/ f \in drafts
         \/ /\ f.domain \in Domain /\ UNCHANGED book
            /\ f.edits = Edits(book[f.domain], f.book)
            /\ \/ f.base = book[f.domain].version
               \/ \E g \in drafts : f.domain = g.domain /\ f.base = g.base
<1>1. CASE drafts' \subseteq drafts
  BY <1>1
<1>2. ASSUME NEW d \in Domain, NEW l \in Label, Fork(d, l), f \notin drafts
      PROVE  /\ f.domain \in Domain /\ UNCHANGED book
             /\ f.edits = Edits(book[f.domain], f.book)
             /\ f.base = book[f.domain].version
  <2>1. /\ f = [domain |-> d, base |-> book[d].version, label |-> l, book |-> book[d],
                edits |-> {}]
        /\ UNCHANGED book
    BY <1>2 DEF Fork, Written, files
  <2> QED BY <2>1 DEF Edits
<1>3. ASSUME NEW g \in drafts, NEW r \in Rule, NEW s \in Setting, Edit(g, r, s),
             f \notin drafts
      PROVE  /\ f.domain \in Domain /\ UNCHANGED book
             /\ f.edits = Edits(book[f.domain], f.book)
             /\ f.domain = g.domain /\ f.base = g.base
  <2> DEFINE b == [g.book EXCEPT !.rules[r] = s]
             e == Edits(book[g.domain], b)
  <2>1. f = [g EXCEPT !.book = b, !.edits = e] /\ UNCHANGED book
    BY <1>3 DEF Edit, Written, files
  <2>2. g \in Draft
    BY DEF Typed
  <2> HIDE DEF b, e
  <2>3. f.domain = g.domain /\ f.base = g.base /\ f.book = b /\ f.edits = e
    BY <2>1, <2>2 DEF Draft
  <2> QED BY <2>1, <2>2, <2>3 DEF e, Draft
<1>4. \/ drafts' \subseteq drafts
      \/ \E d \in Domain, l \in Label : Fork(d, l)
      \/ \E g \in drafts, r \in Rule, s \in Setting : Edit(g, r, s)
  BY DEF Next, vars, Delete, Start, Measure, End, Promoted, PromoteDies, Promote, Restart,
         Relabel, Deploy
<1> QED BY <1>1, <1>2, <1>3, <1>4

\* A sweep keeps what it is pinned to, and the books move past it.
LEMMA SpentStep ==
  ASSUME SandboxAssumption, Typed, Spent, [Next]_vars
  PROVE  Spent'
<1>1. ASSUME NEW n \in DOMAIN sweeps, NEW d \in Domain,
             sweeps[n].pins.policy[1][d].version < book[d].version
      PROVE  n \in DOMAIN sweeps' /\ sweeps'[n].pins.policy[1][d].version < book'[d].version
  <2>1. book[d].version \in Nat /\ sweeps[n].pins.policy[1][d].version \in Nat
    BY SweepTyped DEF Typed, Book
  <2>2. n \in DOMAIN sweeps' /\ sweeps'[n].pins = sweeps[n].pins
    BY SweepKinds
  <2>3. book[d].version <= book'[d].version
    BY Forward
  <2>4. book'[d].version \in Nat
    BY TypedStep DEF Typed, Book
  <2> QED BY <1>1, <2>1, <2>2, <2>3, <2>4
<1>2. ASSUME NEW i \in DOMAIN promotions
      PROVE  /\ promotions[i].sweep \in DOMAIN sweeps /\ promotions[i].domain \in Domain
             /\ sweeps[promotions[i].sweep].pins.policy[1][promotions[i].domain].version
                  < book[promotions[i].domain].version
  <2>1. promotions[i] \in Promotion
    BY DEF Typed
  <2>2. promotions[i].domain \in Domain
    BY <2>1 DEF Promotion
  <2> QED BY <2>2 DEF Spent
<1>3. CASE UNCHANGED promotions
  BY <1>1, <1>2, <1>3 DEF Spent
<1>4. ASSUME NEW p \in Promotion, promotions' = Append(promotions, p),
             p.sweep \in DOMAIN sweeps, UNCHANGED sweeps,
             sweeps[p.sweep].pins.policy[1] = book,
             book'[p.domain].version = book[p.domain].version + 1
      PROVE  Spent'
  <2>1. /\ DOMAIN promotions' = DOMAIN promotions \cup {Len(promotions) + 1}
        /\ \A i \in DOMAIN promotions : promotions'[i] = promotions[i]
        /\ promotions'[Len(promotions) + 1] = p
    <3>1. promotions \in Seq(Promotion)
      BY DEF Typed
    <3> QED BY <1>4, <3>1, Appended
  <2>2. book[p.domain].version \in Nat
    BY DEF Typed, Book, Promotion
  <2>3. /\ p.sweep \in DOMAIN sweeps'
        /\ sweeps'[p.sweep].pins.policy[1][p.domain].version < book'[p.domain].version
    BY <1>4, <2>2
  <2> QED BY <1>1, <1>2, <2>1, <2>3 DEF Spent
<1> QED BY <1>3, <1>4, PromotionKinds

\* The sweep of a promotion has carried none before: it is pinned to today.
LEMMA OneVersionStep ==
  ASSUME Typed, Spent, OneVersionPerSweep, [Next]_vars
  PROVE  OneVersionPerSweep'
<1>1. CASE UNCHANGED promotions
  BY <1>1 DEF OneVersionPerSweep
<1>2. ASSUME NEW p \in Promotion, promotions' = Append(promotions, p),
             p.sweep \in DOMAIN sweeps, sweeps[p.sweep].pins.policy[1] = book
      PROVE  OneVersionPerSweep'
  <2>1. /\ DOMAIN promotions' = DOMAIN promotions \cup {Len(promotions) + 1}
        /\ \A i \in DOMAIN promotions : promotions'[i] = promotions[i]
        /\ promotions'[Len(promotions) + 1] = p
    <3>1. promotions \in Seq(Promotion)
      BY DEF Typed
    <3> QED BY <1>2, <3>1, Appended
  <2>2. ASSUME NEW i \in DOMAIN promotions
        PROVE  promotions[i].sweep # p.sweep
    <3>0. promotions[i] \in Promotion
      BY DEF Typed
    <3>1. promotions[i].domain \in Domain
      BY <3>0 DEF Promotion
    <3>2. book[promotions[i].domain].version \in Nat
      BY <3>1 DEF Typed, Book
    <3>3. sweeps[promotions[i].sweep].pins.policy[1][promotions[i].domain].version
            < book[promotions[i].domain].version
      BY DEF Spent
    <3> QED BY <1>2, <3>2, <3>3
  <2> QED BY <2>1, <2>2 DEF OneVersionPerSweep
<1> QED BY <1>1, <1>2, PromotionKinds

LEMMA DraftsStep ==
  ASSUME Typed, Typed', DraftsTell, [Next]_vars
  PROVE  DraftsTell'
<1> SUFFICES ASSUME NEW f \in drafts'
             PROVE  /\ f.base <= book'[f.domain].version
                    /\ f.base = book'[f.domain].version
                         => f.edits = Edits(book'[f.domain], f.book)
  BY DEF DraftsTell, Edits
<1>1. \A d \in Domain : book[d].version \in Nat
  BY DEF Typed, Book
<1>2. ASSUME NEW g \in drafts
      PROVE  /\ g.domain \in Domain /\ g.base \in Nat
             /\ g.base <= book[g.domain].version
             /\ g.base = book[g.domain].version => g.edits = Edits(book[g.domain], g.book)
  BY SuccessorTyped DEF DraftsTell
<1>3. CASE f \in drafts
  <2>1. /\ book[f.domain].version <= book'[f.domain].version
        /\ book'[f.domain].version = book[f.domain].version => book'[f.domain] = book[f.domain]
    BY <1>2, <1>3, Forward
  <2>2. book'[f.domain].version \in Nat
    BY <1>2, <1>3 DEF Typed, Book
  <2> QED BY <1>1, <1>2, <1>3, <2>1, <2>2
<1>4. CASE f \notin drafts
  <2>1. /\ f.domain \in Domain /\ UNCHANGED book
        /\ f.edits = Edits(book[f.domain], f.book)
        /\ \/ f.base = book[f.domain].version
           \/ \E g \in drafts : f.domain = g.domain /\ f.base = g.base
    BY <1>4, DraftKinds
  <2> QED BY <1>1, <1>2, <2>1
<1> QED BY <1>3, <1>4

LEMMA LedgerStep ==
  ASSUME SandboxAssumption, Typed, Spent, DraftsTell, LedgerTellsTheChange, [Next]_vars
  PROVE  LedgerTellsTheChange'
<1>1. ASSUME NEW i \in DOMAIN promotions, promotions[i].logged
      PROVE  /\ sweeps'[promotions[i].sweep].ref = promotions[i].draft
             /\ sweeps'[promotions[i].sweep].rules.rules = promotions[i].book.rules
             /\ promotions[i].draft.base = promotions[i].from.version =>
                  promotions[i].edits = Edits(promotions[i].from, promotions[i].book)
  <2>1. promotions[i].sweep \in DOMAIN sweeps
    BY DEF Spent
  <2>2. /\ sweeps'[promotions[i].sweep].ref = sweeps[promotions[i].sweep].ref
        /\ sweeps'[promotions[i].sweep].rules = sweeps[promotions[i].sweep].rules
    BY <2>1, SweepKinds
  <2> QED BY <1>1, <2>2 DEF LedgerTellsTheChange
<1>2. CASE UNCHANGED promotions
  BY <1>1, <1>2 DEF LedgerTellsTheChange, Edits
<1>3. ASSUME NEW p \in Promotion, promotions' = Append(promotions, p), UNCHANGED sweeps,
             sweeps[p.sweep].ref = p.draft, sweeps[p.sweep].rules.rules = p.book.rules,
             p.from = book[p.domain],
             NEW f \in drafts, f.domain = p.domain, p.draft.base = f.base,
             p.edits = f.edits, p.book.rules = f.book.rules
      PROVE  LedgerTellsTheChange'
  <2>1. /\ DOMAIN promotions' = DOMAIN promotions \cup {Len(promotions) + 1}
        /\ \A i \in DOMAIN promotions : promotions'[i] = promotions[i]
        /\ promotions'[Len(promotions) + 1] = p
    <3>1. promotions \in Seq(Promotion)
      BY DEF Typed
    <3> QED BY <1>3, <3>1, Appended
  <2>2. p.draft.base = p.from.version => p.edits = Edits(p.from, p.book)
    <3>1. f.base = book[f.domain].version => f.edits = Edits(book[f.domain], f.book)
      BY DEF DraftsTell
    <3> QED BY <1>3, <3>1 DEF Edits
  <2>3. ASSUME NEW i \in DOMAIN promotions', promotions'[i].logged
        PROVE  /\ sweeps'[promotions'[i].sweep].ref = promotions'[i].draft
               /\ sweeps'[promotions'[i].sweep].rules.rules = promotions'[i].book.rules
               /\ promotions'[i].draft.base = promotions'[i].from.version =>
                    promotions'[i].edits = Edits(promotions'[i].from, promotions'[i].book)
    <3>1. CASE i \in DOMAIN promotions
      BY <1>1, <2>1, <2>3, <3>1
    <3>2. CASE i = Len(promotions) + 1
      BY <1>3, <2>1, <2>2, <3>2
    <3> QED BY <2>1, <3>1, <3>2
  <2> QED BY <2>3 DEF LedgerTellsTheChange, Edits
<1> QED BY <1>2, <1>3, PromotionKinds

----------------------------------------------------------------------------
LEMMA SandboxInitially ==
  ASSUME SandboxAssumption, Init
  PROVE  SandboxInv
<1>1. Typed
  BY TypedInit
<1>2. /\ CopiesAreOlder /\ SeenBetween /\ PinsArePast /\ Spent /\ OneVersionPerSweep
      /\ DraftsTell /\ LedgerTellsTheChange
  BY DEF Init, CopiesAreOlder, SeenBetween, PinsArePast, Spent, OneVersionPerSweep,
         DraftsTell, LedgerTellsTheChange
<1>3. Kept
  BY DEF Init, Kept, EveryBookKept, BooksMade
<1> QED BY <1>1, <1>2, <1>3 DEF SandboxInv

\* The invariant.  That a sweep carries one promotion rests on its pins: they
\* name a book that a promotion puts behind it, and no book comes back.
LEMMA Invariance == Spec => []SandboxInv
<1>1. Init => SandboxInv
  BY SandboxAssumption, SandboxInitially
<1>2. SandboxInv /\ [Next]_vars => SandboxInv'
  <2> SUFFICES ASSUME SandboxInv, [Next]_vars
               PROVE  SandboxInv'
    OBVIOUS
  <2>1. Typed /\ Typed'
    BY SandboxAssumption, TypedStep DEF SandboxInv
  <2>2. CopiesAreOlder' /\ Kept'
    BY <2>1, CopiesStep, KeptStep DEF SandboxInv
  <2>3. SeenBetween' /\ PinsArePast'
    BY <2>1, SandboxAssumption, SeenStep DEF SandboxInv
  <2>4. Spent' /\ OneVersionPerSweep'
    BY <2>1, SandboxAssumption, SpentStep, OneVersionStep DEF SandboxInv
  <2>5. DraftsTell' /\ LedgerTellsTheChange'
    BY <2>1, SandboxAssumption, DraftsStep, LedgerStep DEF SandboxInv
  <2> QED BY <2>1, <2>2, <2>3, <2>4, <2>5 DEF SandboxInv
<1> QED BY <1>1, <1>2, PTL DEF Spec

\* Every book that was ever in force is in force or can be read under
\* published/, wherever a promotion died (service.py promote).
THEOREM BooksAreKept == Spec => []EveryBookKept
<1>1. SandboxInv => EveryBookKept
  BY DEF SandboxInv, Kept
<1> QED BY <1>1, Invariance, PTL

\* A scorecard that is handed out again or promoted on was taken on today's
\* corpus, code and rulebooks from its first dossier to its last (service.py
\* pins, incomparable_reason).
THEOREM ScorecardsRestOnToday == Spec => []RestsOnPresentGround
<1>1. SandboxInv => RestsOnPresentGround
  BY PresentGround DEF SandboxInv
<1> QED BY <1>1, Invariance, PTL

\* No sweep carries two promotions, though a promotion that died before its
\* event was appended is asked for again (service.py promote).
THEOREM SweepsAreSpent == Spec => []OneVersionPerSweep
<1>1. SandboxInv => OneVersionPerSweep
  BY DEF SandboxInv
<1> QED BY <1>1, Invariance, PTL

\* What the ledger says of a promotion is what was measured and what changed
\* (service.py promote, drafts.py describe_edits).
THEOREM LedgerIsTrue == Spec => []LedgerTellsTheChange
<1>1. SandboxInv => LedgerTellsTheChange
  BY DEF SandboxInv
<1> QED BY <1>1, Invariance, PTL
=============================================================================
