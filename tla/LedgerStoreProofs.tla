------------------------- MODULE LedgerStoreProofs -------------------------
(***************************************************************************)
(* Proofs about LedgerStore for every set of threads, processes, locks and *)
(* calls.  The argument: SQLite's write lock is held from the read of the  *)
(* tail to the commit, so the row a writer prepared is still the next row  *)
(* of the chain when it commits.  The in-process lock is not needed for    *)
(* it, and the proof never uses it.                                        *)
(***************************************************************************)
EXTENDS LedgerStore, SequenceTheorems, TLAPS

NextRow(body) == Chain!Event(LastSeq + 1, body, TailRow.hash)

\* Whoever is inside a transaction holds the write lock.
WriterHolds == \A t \in Thread : pc[t] \in InTransaction => writeLock = t

\* The uncommitted row is the next row of the chain.
PendingNext == \A t \in Thread : pc[t] = "commit" => pending[t] = NextRow(req[t])

\* A row about to be handed back is committed.
PendingCommitted ==
  \A t \in Thread : pc[t] = "return" =>
    /\ pending[t].seq \in DOMAIN events
    /\ events[pending[t].seq] = pending[t]

\* The digests a row cites were put before the row was inserted.
CitesPut ==
  /\ \A t \in Thread : pc[t] = "put" => req[t].cites \subseteq artifacts \cup todo[t]
  /\ \A t \in Thread : pc[t] \in Holding => req[t].cites \subseteq artifacts
  /\ \A s \in DOMAIN events : events[s].body.cites \subseteq artifacts

\* A verify() in progress walks a prefix of the chain in order.
AuditPrefix ==
  LET m == audit.snapshot IN
  /\ audit = [step |-> audit.step, snapshot |-> m, expected |-> audit.expected,
              prev |-> audit.prev, problems |-> audit.problems]
  /\ audit.expected \in Nat \ {0}
  /\ DOMAIN m \subseteq DOMAIN events
  /\ \A s \in DOMAIN m : m[s] = events[s] /\ \A r \in 1 .. s : r \in DOMAIN m
  /\ audit.prev = IF audit.expected = 1 THEN Genesis
                  ELSE m[audit.expected - 1].hash
  /\ audit.expected > 1 => audit.expected - 1 \in DOMAIN m

ChainInv ==
  /\ events = [s \in DOMAIN events |-> events[s]]
  /\ LastSeq \in Nat
  /\ WriterHolds
  /\ ChainIntact
  /\ NextSeqFree
  /\ PendingNext

----------------------------------------------------------------------------
\* ORDER BY seq DESC LIMIT 1 over rows 1 .. n finds row n.
LEMMA MaxOfInterval ==
  ASSUME NEW n \in Nat
  PROVE  MaxSeq(1 .. n) = n
<1>1. CASE n = 0
  BY <1>1 DEF MaxSeq
<1>2. CASE n # 0
  <2>1. n \in 1 .. n /\ \A r \in 1 .. n : r <= n
    BY <1>2
  <2>2. \A s \in 1 .. n : (\A r \in 1 .. n : r <= s) => s = n
    BY <1>2
  <2>. QED
    BY <2>1, <2>2 DEF MaxSeq
<1>. QED
  BY <1>1, <1>2

\* Every variable keeps its type: threads are where append can be, locks are
\* held by threads, and whoever is past "idle" serves a call.
THEOREM TypeCorrect == Spec => []TypeOK
<1>. USE StoreAssumption DEF Holding, InTransaction, local, locks
<1>1. Init => TypeOK
  BY DEF Init, TypeOK
<1>2. TypeOK /\ [Next]_vars => TypeOK'
  <2>. SUFFICES ASSUME TypeOK, [Next]_vars PROVE TypeOK'
    OBVIOUS
  <2>. USE DEF TypeOK
  <2>1. ASSUME NEW t \in Thread, Call(t) PROVE TypeOK'
    BY <2>1 DEF Call, Request, Numbered
  <2>2. ASSUME NEW t \in Thread, PutArtifact(t) PROVE TypeOK'
    BY <2>2 DEF PutArtifact
  <2>3. ASSUME NEW t \in Thread, PutBusy(t) PROVE TypeOK'
    BY <2>3 DEF PutBusy, Goto, Raise, Forget
  <2>4. ASSUME NEW t \in Thread, RefuseType(t) PROVE TypeOK'
    BY <2>4 DEF RefuseType, Goto, Raise, Forget
  <2>5. ASSUME NEW t \in Thread, TakeKeyLock(t) PROVE TypeOK'
    BY <2>5 DEF TakeKeyLock, Goto
  <2>6. ASSUME NEW t \in Thread, BeginImmediate(t) PROVE TypeOK'
    BY <2>6 DEF BeginImmediate, Goto
  <2>7. ASSUME NEW t \in Thread, Busy(t) PROVE TypeOK'
    BY <2>7 DEF Busy, Goto, Free, Raise, Forget
  <2>8. ASSUME NEW t \in Thread, ReadTail(t) PROVE TypeOK'
    BY <2>8 DEF ReadTail, Goto
  <2>9. ASSUME NEW t \in Thread, Insert(t) PROVE TypeOK'
    BY <2>9 DEF Insert, Goto
  <2>10. ASSUME NEW t \in Thread, Commit(t) PROVE TypeOK'
    BY <2>10 DEF Commit, Goto
  <2>11. ASSUME NEW t \in Thread, Fail(t) PROVE TypeOK'
    BY <2>11 DEF Fail, Free, Raise, Forget
  <2>12. ASSUME NEW t \in Thread, Return(t) PROVE TypeOK'
    BY <2>12 DEF Return, Goto, Free, Forget
  <2>13. ASSUME NEW p \in Process, Crash(p) PROVE TypeOK'
    BY <2>13 DEF Crash, Forget
  <2>14. CASE Verify
    BY <2>14 DEF Verify, VerifyRead, VerifyEvent, VerifyDone
  <2>15. CASE UNCHANGED vars
    BY <2>15 DEF vars
  <2>. QED
    BY <2>1, <2>2, <2>3, <2>4, <2>5, <2>6, <2>7, <2>8, <2>9, <2>10, <2>11,
       <2>12, <2>13, <2>14, <2>15 DEF Next, Serve, AppendStep
<1>. QED
  BY <1>1, <1>2, PTL DEF Spec

----------------------------------------------------------------------------
\* A commit adds the next row of the chain; nothing else touches the rows.
CommitsNext(t) ==
  /\ pc[t] = "commit"
  /\ events' = [s \in DOMAIN events \cup {LastSeq + 1} |->
                  IF s = LastSeq + 1 THEN NextRow(req[t]) ELSE events[s]]

\* A commit of append's row puts it behind the tail, whatever was there.
LEMMA CommitAddsNextRow ==
  ASSUME TypeOK, ChainInv, NEW t \in Thread, Commit(t)
  PROVE  CommitsNext(t)
<1>1. pending[t] = NextRow(req[t])
  BY DEF Commit, Goto, ChainInv, PendingNext
<1>2. pending[t].seq = LastSeq + 1
  BY <1>1 DEF NextRow, Chain!Event
<1>. QED
  BY <1>1, <1>2 DEF Commit, Goto, CommitsNext

\* The chain with its next row is again a chain, one longer.
LEMMA NextRowKeepsChain ==
  ASSUME TypeOK, ChainInv, NEW t \in Thread, CommitsNext(t)
  PROVE  /\ LastSeq' = LastSeq + 1
         /\ LastSeq' \in Nat
         /\ events' = [s \in DOMAIN events' |-> events'[s]]
         /\ ChainIntact'
<1>. DEFINE n == LastSeq
<1>1. n \in Nat /\ DOMAIN events = 1 .. n
  BY DEF ChainInv, ChainIntact
<1>2. DOMAIN events' = 1 .. (n + 1)
  BY <1>1 DEF CommitsNext
<1>3. LastSeq' = n + 1
  BY <1>1, <1>2, MaxOfInterval DEF LastSeq
<1>4. events' = [s \in DOMAIN events' |-> events'[s]]
  BY DEF CommitsNext
<1>5. \A s \in 1 .. n : events'[s] = events[s]
  BY <1>1 DEF CommitsNext
<1>6. events'[n + 1] = NextRow(req[t])
  BY <1>1 DEF CommitsNext
<1>7. TailRow.hash = IF n = 0 THEN Genesis ELSE events[n].hash
  BY DEF TailRow
<1>8. ASSUME NEW s \in DOMAIN events'
      PROVE  /\ events'[s].seq = s
             /\ events'[s].prev = IF s = 1 THEN Genesis ELSE events'[s - 1].hash
             /\ events'[s].hash = Chain!EventHash(s, events'[s].body, events'[s].prev)
  <2>1. CASE s \in 1 .. n
    <3>1. s # 1 => s - 1 \in 1 .. n
      BY <1>1, <2>1
    <3>. QED
      BY <1>1, <1>5, <2>1, <3>1 DEF ChainInv, ChainIntact
  <2>2. CASE s = n + 1
    <3>1. s # 1 => s - 1 = n /\ n \in 1 .. n /\ n # 0
      BY <1>1, <2>2
    <3>2. s = 1 => n = 0
      BY <1>1, <2>2
    <3>. QED
      BY <1>5, <1>6, <1>7, <2>2, <3>1, <3>2 DEF NextRow, Chain!Event
  <2>. QED
    BY <1>1, <1>2, <1>8, <2>1, <2>2
<1>. QED
  BY <1>1, <1>2, <1>3, <1>4, <1>8 DEF ChainIntact

\* With the rows unchanged the tail is unchanged.
LEMMA SameRows ==
  ASSUME ChainInv, UNCHANGED events
  PROVE  /\ TailRow' = TailRow /\ LastSeq' = LastSeq
         /\ LastSeq' \in Nat
         /\ ChainIntact'
         /\ events' = [s \in DOMAIN events' |-> events'[s]]
BY DEF ChainInv, ChainIntact, TailRow, LastSeq

\* Every step of every process keeps the chain and what the writer in
\* append knows of its tail.
LEMMA ChainInvStep == TypeOK /\ TypeOK' /\ ChainInv /\ [Next]_vars => ChainInv'
<1>. SUFFICES ASSUME TypeOK, TypeOK', ChainInv, [Next]_vars PROVE ChainInv'
  OBVIOUS
<1>. USE StoreAssumption DEF Holding, InTransaction, local, locks
<1>. DEFINE Others == WriterHolds' /\ NextSeqFree' /\ PendingNext'
<1>1. ASSUME UNCHANGED events, Others PROVE ChainInv'
  BY <1>1, SameRows DEF ChainInv
<1>2. ASSUME NEW t \in Thread, Call(t) PROVE ChainInv'
  <2>1. Others
    BY <1>2, SameRows DEF Call, ChainInv, WriterHolds, NextSeqFree, PendingNext, NextRow, TypeOK
  <2>. QED BY <1>1, <1>2, <2>1 DEF Call
<1>3. ASSUME NEW t \in Thread, PutArtifact(t) PROVE ChainInv'
  <2>1. Others
    BY <1>3, SameRows DEF PutArtifact, ChainInv, WriterHolds, NextSeqFree, PendingNext, NextRow
  <2>. QED BY <1>1, <1>3, <2>1 DEF PutArtifact
<1>4. ASSUME NEW t \in Thread, PutBusy(t) PROVE ChainInv'
  <2>1. Others
    BY <1>4, SameRows DEF PutBusy, Goto, Raise, Forget, ChainInv, WriterHolds,
                          NextSeqFree, PendingNext, NextRow, TypeOK
  <2>. QED BY <1>1, <1>4, <2>1 DEF PutBusy
<1>5. ASSUME NEW t \in Thread, RefuseType(t) PROVE ChainInv'
  <2>1. Others
    BY <1>5, SameRows DEF RefuseType, Goto, Raise, Forget, ChainInv, WriterHolds,
                          NextSeqFree, PendingNext, NextRow, TypeOK
  <2>. QED BY <1>1, <1>5, <2>1 DEF RefuseType
<1>6. ASSUME NEW t \in Thread, TakeKeyLock(t) PROVE ChainInv'
  <2>1. Others
    BY <1>6, SameRows DEF TakeKeyLock, Goto, ChainInv, WriterHolds, NextSeqFree,
                          PendingNext, NextRow, TypeOK
  <2>. QED BY <1>1, <1>6, <2>1 DEF TakeKeyLock
<1>7. ASSUME NEW t \in Thread, BeginImmediate(t) PROVE ChainInv'
  <2>1. Others
    BY <1>7, SameRows DEF BeginImmediate, Goto, ChainInv, WriterHolds, NextSeqFree,
                          PendingNext, NextRow, TypeOK
  <2>. QED BY <1>1, <1>7, <2>1 DEF BeginImmediate
<1>8. ASSUME NEW t \in Thread, Busy(t) PROVE ChainInv'
  <2>1. Others
    BY <1>8, SameRows DEF Busy, Goto, Raise, Forget, ChainInv, WriterHolds,
                          NextSeqFree, PendingNext, NextRow, TypeOK
  <2>. QED BY <1>1, <1>8, <2>1 DEF Busy
<1>9. ASSUME NEW t \in Thread, ReadTail(t) PROVE ChainInv'
  <2>1. Others
    BY <1>9, SameRows DEF ReadTail, Goto, ChainInv, WriterHolds, NextSeqFree,
                          PendingNext, NextRow, TypeOK
  <2>. QED BY <1>1, <1>9, <2>1 DEF ReadTail
<1>10. ASSUME NEW t \in Thread, Insert(t) PROVE ChainInv'
  <2>1. tail[t] = TailRow
    BY <1>10 DEF Insert, Goto, ChainInv, NextSeqFree
  <2>2. pending'[t] = NextRow(req[t])
    BY <1>10, <2>1 DEF Insert, TypeOK, NextRow, TailRow
  <2>3. Others
    BY <1>10, <2>2, SameRows DEF Insert, Goto, ChainInv, WriterHolds, NextSeqFree,
                                 PendingNext, NextRow, TypeOK
  <2>. QED BY <1>1, <1>10, <2>3 DEF Insert
<1>11. ASSUME NEW t \in Thread, Commit(t) PROVE ChainInv'
  <2>1. \A u \in Thread \ {t} : pc[u] \notin InTransaction
    BY <1>11 DEF Commit, Goto, ChainInv, WriterHolds
  <2>2. \A u \in Thread : pc'[u] \notin InTransaction
    BY <1>11, <2>1 DEF Commit, Goto, TypeOK
  <2>3. Others
    BY <2>2 DEF WriterHolds, NextSeqFree, PendingNext
  <2>. QED
    BY <1>11, <2>3, CommitAddsNextRow, NextRowKeepsChain DEF ChainInv
<1>12. ASSUME NEW t \in Thread, Fail(t) PROVE ChainInv'
  <2>1. \A u \in Thread \ {t} : pc[u] \notin InTransaction
    BY <1>12 DEF Fail, ChainInv, WriterHolds
  <2>2. \A u \in Thread : pc'[u] \notin InTransaction
    BY <1>12, <2>1 DEF Fail, TypeOK
  <2>3. Others
    BY <2>2 DEF WriterHolds, NextSeqFree, PendingNext
  <2>. QED BY <1>1, <1>12, <2>3 DEF Fail
<1>13. ASSUME NEW t \in Thread, Return(t) PROVE ChainInv'
  <2>1. Others
    BY <1>13, SameRows DEF Return, Goto, Forget, ChainInv, WriterHolds, NextSeqFree,
                           PendingNext, NextRow, TypeOK
  <2>. QED BY <1>1, <1>13, <2>1 DEF Return
<1>14. ASSUME NEW p \in Process, Crash(p) PROVE ChainInv'
  <2>1. Others
    BY <1>14, SameRows DEF Crash, Forget, ChainInv, WriterHolds, NextSeqFree,
                           PendingNext, NextRow, TypeOK
  <2>. QED BY <1>1, <1>14, <2>1 DEF Crash
<1>15. ASSUME UNCHANGED <<events, pc, req, tail, pending, writeLock>> PROVE ChainInv'
  <2>1. Others
    BY <1>15, SameRows DEF ChainInv, WriterHolds, NextSeqFree, PendingNext, NextRow
  <2>. QED BY <1>1, <1>15, <2>1
<1>16. CASE Verify
  BY <1>15, <1>16 DEF Verify, VerifyRead, VerifyEvent, VerifyDone
<1>17. CASE UNCHANGED vars
  BY <1>15, <1>17 DEF vars
<1>. QED
  BY <1>2, <1>3, <1>4, <1>5, <1>6, <1>7, <1>8, <1>9, <1>10, <1>11, <1>12,
     <1>13, <1>14, <1>16, <1>17 DEF Next, Serve, AppendStep

\* The chain invariant holds in every reachable state.
LEMMA ChainInvInvariant == Spec => []ChainInv
<1>1. Init => ChainInv
  <2>. SUFFICES ASSUME Init PROVE ChainInv
    OBVIOUS
  <2>1. DOMAIN events = {} /\ LastSeq = 0
    BY DEF Init, LastSeq, MaxSeq
  <2>2. events = [s \in DOMAIN events |-> events[s]]
    BY DEF Init
  <2>. QED
    BY <2>1, <2>2 DEF Init, ChainInv, WriterHolds, ChainIntact, NextSeqFree,
                      PendingNext, InTransaction
<1>. QED
  BY <1>1, TypeCorrect, ChainInvStep, PTL DEF Spec

\* store.append, "must not fork the chain": the committed rows are one
\* unbroken chain for any number of threads and processes and any crashes.
THEOREM ChainHolds == Spec => []ChainIntact
<1>1. ChainInv => ChainIntact
  BY DEF ChainInv
<1>. QED
  BY <1>1, ChainInvInvariant, PTL

\* No writer is ever refused by the primary key: the tail it read is still
\* the tail when it inserts.
THEOREM TailStaysFresh == Spec => []NextSeqFree
<1>1. ChainInv => NextSeqFree
  BY DEF ChainInv
<1>. QED
  BY <1>1, ChainInvInvariant, PTL

----------------------------------------------------------------------------
\* Rows that are there stay as they are.
RowsStay == \A s \in DOMAIN events : s \in DOMAIN events' /\ events'[s] = events[s]

\* No step takes a committed row away or changes it.
LEMMA EventsOnlyGrow ==
  ASSUME TypeOK, ChainInv, [Next]_vars
  PROVE  RowsStay
<1>1. ASSUME NEW t \in Thread, Commit(t) PROVE RowsStay
  <2>1. LastSeq + 1 \notin DOMAIN events
    BY DEF ChainInv, ChainIntact
  <2>. QED
    BY <1>1, <2>1, CommitAddsNextRow DEF CommitsNext, RowsStay
<1>2. CASE UNCHANGED events
  BY <1>2 DEF RowsStay
<1>. QED
  BY <1>1, <1>2 DEF Next, Serve, AppendStep, Call, PutArtifact, PutBusy, RefuseType,
     TakeKeyLock, BeginImmediate, Busy, ReadTail, Insert, Fail, Return, Crash,
     Verify, VerifyRead, VerifyEvent, VerifyDone, vars

AckInv == PendingCommitted /\ AckedDurable

\* Every step keeps acknowledged events in the ledger.
LEMMA AckInvStep ==
  TypeOK /\ TypeOK' /\ ChainInv /\ AckInv /\ [Next]_vars => AckInv'
<1>. SUFFICES ASSUME TypeOK, TypeOK', ChainInv, AckInv, [Next]_vars PROVE AckInv'
  OBVIOUS
<1>1. RowsStay
  BY EventsOnlyGrow
<1>2. ASSUME NEW t \in Thread, Commit(t) PROVE AckInv'
  <2>1. pending[t] = NextRow(req[t]) /\ CommitsNext(t)
    BY <1>2, CommitAddsNextRow DEF Commit, Goto, ChainInv, PendingNext
  <2>2. pending[t].seq = LastSeq + 1
    BY <2>1 DEF NextRow, Chain!Event
  <2>3. pending'[t].seq \in DOMAIN events' /\ events'[pending'[t].seq] = pending'[t]
    BY <1>2, <2>1, <2>2 DEF Commit, local, CommitsNext
  <2>. QED
    BY <1>1, <1>2, <2>3 DEF Commit, Goto, local, AckInv, PendingCommitted,
                            AckedDurable, RowsStay, TypeOK
<1>3. ASSUME NEW t \in Thread, Return(t) PROVE AckInv'
  <2>1. acked' \subseteq acked \cup {pending[t]}
    BY <1>3 DEF Return
  <2>2. pending[t].seq \in DOMAIN events /\ events[pending[t].seq] = pending[t]
    BY <1>3 DEF Return, Goto, AckInv, PendingCommitted
  <2>3. AckedDurable'
    BY <1>1, <2>1, <2>2 DEF AckInv, AckedDurable, RowsStay
  <2>4. PendingCommitted'
    BY <1>1, <1>3 DEF Return, Goto, Forget, AckInv, PendingCommitted, RowsStay, TypeOK
  <2>. QED
    BY <2>3, <2>4 DEF AckInv
<1>4. ASSUME UNCHANGED <<events, acked>>,
             \A t \in Thread : pc'[t] = "return" => pc[t] = "return" /\ pending'[t] = pending[t]
      PROVE  AckInv'
  BY <1>4 DEF AckInv, PendingCommitted, AckedDurable
<1>5. ASSUME NEW t \in Thread,
             \/ Call(t) \/ PutArtifact(t) \/ PutBusy(t) \/ RefuseType(t)
             \/ TakeKeyLock(t) \/ BeginImmediate(t) \/ Busy(t)
             \/ ReadTail(t) \/ Insert(t) \/ Fail(t)
      PROVE  AckInv'
  BY <1>4, <1>5 DEF Call, PutArtifact, PutBusy, RefuseType, TakeKeyLock,
     BeginImmediate, Busy, ReadTail, Insert, Fail, Goto, Raise, Forget, TypeOK, local
<1>6. ASSUME NEW p \in Process, Crash(p) PROVE AckInv'
  BY <1>4, <1>6 DEF Crash, Forget
<1>7. CASE Verify
  BY <1>4, <1>7 DEF Verify, VerifyRead, VerifyEvent, VerifyDone, local
<1>8. CASE UNCHANGED vars
  BY <1>4, <1>8 DEF vars
<1>. QED
  BY <1>2, <1>3, <1>5, <1>6, <1>7, <1>8 DEF Next, Serve, AppendStep

\* An event append returned to its caller stays in the ledger, unchanged,
\* through every later append and every crash.
THEOREM AcksAreDurable == Spec => []AckedDurable
<1>1. Init => AckInv
  BY DEF Init, AckInv, PendingCommitted, AckedDurable
<1>2. Spec => [](TypeOK /\ ChainInv)
  BY TypeCorrect, ChainInvInvariant, PTL
<1>3. AckInv => AckedDurable
  BY DEF AckInv
<1>. QED
  BY <1>1, <1>2, <1>3, AckInvStep, PTL DEF Spec

----------------------------------------------------------------------------
\* Appending to a sequence, seen as a function on 1 .. n.
LEMMA AppendIsNext ==
  ASSUME NEW n \in Nat, NEW S, NEW f \in [1 .. n -> S], NEW x \in S
  PROVE  Append(f, x) = [s \in 1 .. n \cup {n + 1} |-> IF s = n + 1 THEN x ELSE f[s]]
<1>. DEFINE g == [s \in 1 .. n \cup {n + 1} |-> IF s = n + 1 THEN x ELSE f[s]]
<1>1. f \in Seq(S) /\ Len(f) = n
  BY SeqDef, LenProperties
<1>2. 1 .. n \cup {n + 1} = 1 .. (n + 1)
  OBVIOUS
<1>3. g \in [1 .. (n + 1) -> S]
  BY <1>2
<1>4. g \in Seq(S) /\ Len(g) = n + 1
  <2>. HIDE DEF g
  <2>. QED
    BY <1>3, SeqDef, LenProperties
<1>5. Append(f, x) \in Seq(S) /\ Len(Append(f, x)) = n + 1
  BY <1>1
<1>6. \A i \in 1 .. (n + 1) : Append(f, x)[i] = g[i]
  BY <1>1, <1>2
<1>7. Append(f, x) = g
  <2>. HIDE DEF g
  <2>. QED
    BY <1>4, <1>5, <1>6, SeqEqual
<1>. QED
  BY <1>7

\* The store implements the abstract chain of HashChain: every step adds one
\* event at its end or leaves it alone.
LEMMA StepImplementsChain ==
  TypeOK /\ ChainInv /\ ChainInv' /\ [Next]_vars => [Chain!Next]_events
<1>. SUFFICES ASSUME TypeOK, ChainInv, ChainInv', [Next]_vars PROVE [Chain!Next]_events
  OBVIOUS
<1>1. ASSUME NEW t \in Thread, Commit(t) PROVE Chain!Add(req[t])
  <2>. DEFINE n == LastSeq
              Rows == {events[s] : s \in DOMAIN events}
  <2>1. n \in Nat /\ DOMAIN events = 1 .. n /\ events = [s \in DOMAIN events |-> events[s]]
    BY DEF ChainInv, ChainIntact
  <2>2. events \in Seq(Rows) /\ Len(events) = n
    <3>1. events \in [1 .. n -> Rows]
      BY <2>1
    <3>. QED
      BY <2>1, <3>1, SeqDef, LenProperties
  <2>3. Chain!TipHash(events) = TailRow.hash
    BY <2>1, <2>2 DEF Chain!TipHash, TailRow
  <2>4. events' = Append(events, NextRow(req[t]))
    <3>. DEFINE row == NextRow(req[t])
                All == Rows \cup {row}
    <3>1. events \in [1 .. n -> All]
      BY <2>1
    <3>2. events' = [s \in 1 .. n \cup {n + 1} |-> IF s = n + 1 THEN row ELSE events[s]]
      BY <1>1, <2>1, CommitAddsNextRow DEF CommitsNext
    <3>. QED
      BY <2>1, <3>1, <3>2, AppendIsNext
  <2>. QED
    BY <2>2, <2>3, <2>4 DEF Chain!Add, NextRow
<1>2. ASSUME NEW t \in Thread, Commit(t) PROVE Chain!Next
  <2>1. req[t] \in Request
    BY <1>2 DEF Commit, Goto, TypeOK
  <2>. QED
    BY <1>1, <1>2, <2>1 DEF Chain!Next
<1>3. CASE UNCHANGED events
  BY <1>3
<1>. QED
  BY <1>2, <1>3 DEF Next, Serve, AppendStep, Call, PutArtifact, PutBusy, RefuseType,
     TakeKeyLock, BeginImmediate, Busy, ReadTail, Insert, Fail, Return, Crash,
     Verify, VerifyRead, VerifyEvent, VerifyDone, vars

\* Every behaviour of the store is one of the abstract chain: SQLite, locks
\* and crashes are invisible but for the appended events.
THEOREM StoreImplementsChain == Spec => ImplementsHashChain
<1>1. Init => Chain!Init
  BY DEF Init, Chain!Init
<1>2. Spec => [](TypeOK /\ ChainInv)
  BY TypeCorrect, ChainInvInvariant, PTL
<1>. QED
  BY <1>1, <1>2, StepImplementsChain, PTL DEF Spec, ImplementsHashChain, Chain!Spec

----------------------------------------------------------------------------
AuditInv == CitesPut /\ AuditPrefix /\ VerifyQuiet

\* Every event cites an artifact that was put before it was appended.
LEMMA CitesPutStep ==
  TypeOK /\ TypeOK' /\ ChainInv /\ CitesPut /\ [Next]_vars => CitesPut'
<1>. SUFFICES ASSUME TypeOK, TypeOK', ChainInv, CitesPut, [Next]_vars PROVE CitesPut'
  OBVIOUS
<1>. USE StoreAssumption DEF Holding, InTransaction, local, locks
<1>1. ASSUME NEW t \in Thread, Call(t) PROVE CitesPut'
  BY <1>1 DEF Call, Numbered, CitesPut, TypeOK
<1>2. ASSUME NEW t \in Thread, PutArtifact(t) PROVE CitesPut'
  BY <1>2 DEF PutArtifact, CitesPut, TypeOK
<1>3. ASSUME NEW t \in Thread,
             PutBusy(t) \/ RefuseType(t) \/ Busy(t) \/ Fail(t) \/ Return(t)
      PROVE  CitesPut'
  BY <1>3 DEF PutBusy, RefuseType, Busy, Fail, Return, Goto, Raise, Forget, CitesPut, TypeOK
<1>4. ASSUME NEW t \in Thread,
             TakeKeyLock(t) \/ BeginImmediate(t) \/ ReadTail(t) \/ Insert(t)
      PROVE  CitesPut'
  BY <1>4 DEF TakeKeyLock, BeginImmediate, ReadTail, Insert, Goto, CitesPut, TypeOK
<1>5. ASSUME NEW t \in Thread, Commit(t) PROVE CitesPut'
  <2>1. req[t].cites \subseteq artifacts
    BY <1>5 DEF Commit, Goto, CitesPut
  <2>2. NextRow(req[t]).body = req[t]
    BY DEF NextRow, Chain!Event
  <2>3. \A s \in DOMAIN events' : events'[s].body.cites \subseteq artifacts
    BY <1>5, <2>1, <2>2, CommitAddsNextRow DEF CommitsNext, CitesPut
  <2>4. /\ UNCHANGED <<req, todo, artifacts>>
        /\ \A u \in Thread \ {t} : pc'[u] = pc[u]
        /\ pc[t] = "commit" /\ pc'[t] = "return"
    BY <1>5 DEF Commit, Goto, TypeOK
  <2>5. \A u \in Thread : pc'[u] = "put" => req'[u].cites \subseteq artifacts' \cup todo'[u]
    BY <2>4 DEF CitesPut
  <2>6. \A u \in Thread : pc'[u] \in Holding => req'[u].cites \subseteq artifacts'
    BY <2>4 DEF CitesPut
  <2>. QED
    BY <2>3, <2>4, <2>5, <2>6 DEF CitesPut
<1>6. ASSUME NEW p \in Process, Crash(p) PROVE CitesPut'
  BY <1>6 DEF Crash, Forget, CitesPut, TypeOK
<1>7. CASE Verify
  BY <1>7 DEF Verify, VerifyRead, VerifyEvent, VerifyDone, CitesPut
<1>8. CASE UNCHANGED vars
  BY <1>8 DEF vars, CitesPut
<1>. QED
  BY <1>1, <1>2, <1>3, <1>4, <1>5, <1>6, <1>7, <1>8 DEF Next, Serve, AppendStep

\* The event verify() looks at is the one it expects, and finds in order.
LEMMA WalkFindsNothing ==
  ASSUME ChainInv, CitesPut, AuditPrefix, VerifyEvent
  PROVE  /\ audit.expected \in DOMAIN audit.snapshot
         /\ audit' = [audit EXCEPT !.expected = audit.expected + 1,
                                   !.prev = audit.snapshot[audit.expected].hash]
<1>. DEFINE m == audit.snapshot
            n == audit.expected
<1>1. PICK s \in Unwalked :
        /\ \A r \in Unwalked : s <= r
        /\ audit' = [audit EXCEPT !.expected = m[s].seq + 1, !.prev = m[s].hash,
                                  !.problems = @ \cup Problems(m[s])]
  BY DEF VerifyEvent
<1>2. s \in DOMAIN m /\ s \in Nat \ {0} /\ s >= n /\ n \in Nat \ {0}
  BY DEF Unwalked, AuditPrefix, ChainInv, ChainIntact
<1>3. n \in Unwalked
  BY <1>2 DEF Unwalked, AuditPrefix
<1>4. s = n
  BY <1>1, <1>2, <1>3
<1>5. n \in DOMAIN events /\ m[n] = events[n]
  BY <1>2, <1>4 DEF AuditPrefix
<1>6. n # 1 => n - 1 \in DOMAIN m /\ m[n - 1] = events[n - 1]
  BY <1>2 DEF AuditPrefix
<1>7. audit.prev = IF n = 1 THEN Genesis ELSE events[n - 1].hash
  BY <1>6 DEF AuditPrefix
<1>8. Problems(m[n]) = {}
  <2>1. /\ m[n].seq = n
        /\ m[n].prev = audit.prev
        /\ m[n].hash = Chain!EventHash(n, m[n].body, m[n].prev)
    BY <1>5, <1>7 DEF ChainInv, ChainIntact
  <2>2. m[n].body.cites \subseteq artifacts
    BY <1>5 DEF CitesPut
  <2>. QED
    BY <2>1, <2>2 DEF Problems
<1>9. m[n].seq = n
  BY <1>5 DEF ChainInv, ChainIntact
<1>. QED
  BY <1>1, <1>2, <1>4, <1>8, <1>9 DEF AuditPrefix

\* Every step keeps verify()'s rows a prefix of the ledger and its walk quiet.
LEMMA AuditInvStep ==
  TypeOK /\ TypeOK' /\ ChainInv /\ ChainInv' /\ AuditInv /\ [Next]_vars => AuditInv'
<1>. SUFFICES ASSUME TypeOK, TypeOK', ChainInv, ChainInv', AuditInv, [Next]_vars
              PROVE  AuditInv'
  OBVIOUS
<1>1. CitesPut'
  BY CitesPutStep DEF AuditInv
<1>2. RowsStay
  BY EventsOnlyGrow
<1>3. CASE VerifyRead
  <2>1. /\ UNCHANGED events
        /\ audit'.snapshot = events /\ audit'.expected = 1
        /\ audit'.prev = Genesis /\ audit'.problems = {}
        /\ audit' = [step |-> audit'.step, snapshot |-> events, expected |-> 1,
                     prev |-> Genesis, problems |-> {}]
    BY <1>3 DEF VerifyRead
  <2>2. \A s \in DOMAIN events : \A r \in 1 .. s : r \in DOMAIN events
    BY DEF ChainInv, ChainIntact
  <2>. QED
    BY <1>1, <2>1, <2>2 DEF AuditInv, AuditPrefix, VerifyQuiet
<1>4. CASE VerifyEvent
  <2>1. /\ audit.expected \in DOMAIN audit.snapshot
        /\ audit' = [audit EXCEPT !.expected = audit.expected + 1,
                                  !.prev = audit.snapshot[audit.expected].hash]
    BY <1>4, WalkFindsNothing DEF AuditInv
  <2>2. audit' = [step |-> audit.step, snapshot |-> audit.snapshot,
                  expected |-> audit.expected + 1,
                  prev |-> audit.snapshot[audit.expected].hash,
                  problems |-> audit.problems]
    BY <2>1 DEF AuditInv, AuditPrefix
  <2>3. UNCHANGED events
    BY <1>4 DEF VerifyEvent
  <2>. QED
    <3>1. /\ audit'.snapshot = audit.snapshot
          /\ audit'.expected = audit.expected + 1
          /\ audit'.prev = audit.snapshot[audit.expected].hash
          /\ audit'.problems = audit.problems
      BY <2>2
    <3>2. audit.expected \in Nat \ {0} /\ audit'.expected - 1 = audit.expected
      BY <3>1 DEF AuditInv, AuditPrefix
    <3>3. AuditPrefix'
      <4>1. audit' = [step |-> audit'.step, snapshot |-> audit'.snapshot,
                      expected |-> audit'.expected, prev |-> audit'.prev,
                      problems |-> audit'.problems]
        BY <2>2
      <4>2. /\ audit'.expected \in Nat \ {0}
            /\ audit'.expected # 1
            /\ audit'.expected - 1 \in DOMAIN audit'.snapshot
        BY <2>1, <3>1, <3>2
      <4>3. audit'.prev = audit'.snapshot[audit'.expected - 1].hash
        BY <3>1, <3>2
      <4>4. DOMAIN audit'.snapshot \subseteq DOMAIN events'
        BY <2>3, <3>1 DEF AuditInv, AuditPrefix
      <4>5. \A s \in DOMAIN audit'.snapshot :
               audit'.snapshot[s] = events'[s] /\ \A r \in 1 .. s : r \in DOMAIN audit'.snapshot
        BY <2>3, <3>1 DEF AuditInv, AuditPrefix
      <4>. QED
        BY <4>1, <4>2, <4>3, <4>4, <4>5 DEF AuditPrefix
    <3>. QED
      BY <1>1, <3>1, <3>3 DEF AuditInv, VerifyQuiet
<1>5. CASE VerifyDone
  BY <1>1, <1>5 DEF VerifyDone, NoAudit, AuditInv, AuditPrefix, VerifyQuiet
<1>6. CASE UNCHANGED audit
  BY <1>1, <1>2, <1>6 DEF AuditInv, AuditPrefix, VerifyQuiet, RowsStay
<1>. QED
  BY <1>3, <1>4, <1>5, <1>6 DEF Next, Serve, AppendStep, Call, PutArtifact, PutBusy,
     RefuseType, TakeKeyLock, BeginImmediate, Busy, ReadTail, Insert, Commit, Fail,
     Return, Crash, Verify, vars

\* verify(), interleaved with writers and crashes, reports no problem of a
\* ledger only append wrote.
THEOREM VerifyIsQuiet == Spec => []VerifyQuiet
<1>1. Init => AuditInv
  BY DEF Init, NoAudit, AuditInv, CitesPut, AuditPrefix, VerifyQuiet, Holding, InTransaction
<1>2. Spec => [](TypeOK /\ ChainInv)
  BY TypeCorrect, ChainInvInvariant, PTL
<1>3. AuditInv => VerifyQuiet
  BY DEF AuditInv
<1>. QED
  BY <1>1, <1>2, <1>3, AuditInvStep, PTL DEF Spec
----------------------------------------------------------------------------
\* Threads that serve a call whose row is not committed yet.
Unwritten == {"put", "begin"} \cup InTransaction

\* Calls are numbered below the counter: those being served, those on a row
\* and those that raised.
NumbersUsed ==
  /\ \A t \in Thread : pc[t] # "idle" => req[t].id < issued
  /\ \A s \in DOMAIN events : events[s].body.id \in Nat /\ events[s].body.id < issued
  /\ \A r \in raised : r.id < issued

\* No two threads serve the same call, and no call is served that raised.
ServedOnce ==
  /\ \A t, u \in Thread :
       t # u /\ pc[t] # "idle" /\ pc[u] # "idle" => req[t].id # req[u].id
  /\ \A t \in Thread : pc[t] # "idle" => \A r \in raised : r.id # req[t].id

\* A call has no row before its commit.
NoRowYet ==
  \A t \in Thread : pc[t] \in Unwritten =>
    \A s \in DOMAIN events : events[s].body.id # req[t].id

CallInv == NumbersUsed /\ ServedOnce /\ NoRowYet /\ RaisedUnwritten

\* Every step keeps calls apart, so no row is that of a call which raised.
LEMMA CallInvStep ==
  TypeOK /\ TypeOK' /\ ChainInv /\ CallInv /\ [Next]_vars => CallInv'
<1>. SUFFICES ASSUME TypeOK, TypeOK', ChainInv, CallInv, [Next]_vars PROVE CallInv'
  OBVIOUS
<1>. USE StoreAssumption DEF Holding, InTransaction, Unwritten, local, locks
<1>0. \A r \in Request : r.id \in Nat
  BY DEF Request, Numbered
<1>1. ASSUME NEW t \in Thread, Call(t) PROVE CallInv'
  <2>1. issued \in Nat /\ issued' = issued + 1 /\ UNCHANGED <<events, raised>>
    BY <1>1 DEF Call, TypeOK
  <2>2. pc' = [pc EXCEPT ![t] = "put"] /\ pc[t] = "idle"
    BY <1>1 DEF Call
  <2>3. req'[t].id = issued /\ \A u \in Thread \ {t} : req'[u] = req[u]
    BY <1>1 DEF Call, Numbered, TypeOK
  <2>4. \A u \in Thread : pc[u] # "idle" => req[u].id \in Nat
    BY <1>0 DEF TypeOK
  <2>5. \A u \in Thread \ {t} : pc'[u] = pc[u]
    BY <2>2 DEF TypeOK
  <2>6. \A s \in DOMAIN events : events[s].body.id < issued /\ events[s].body.id \in Nat
    BY DEF CallInv, NumbersUsed
  <2>7. \A r \in raised : r.id < issued /\ r.id \in Nat
    BY <1>0 DEF CallInv, NumbersUsed, TypeOK
  <2>. QED
    BY <2>1, <2>3, <2>4, <2>5, <2>6, <2>7
       DEF CallInv, NumbersUsed, ServedOnce, NoRowYet, RaisedUnwritten
<1>2. ASSUME NEW t \in Thread, pc[t] \in Unwritten, UNCHANGED <<events, issued>>,
             pc'[t] = "idle", \A u \in Thread \ {t} : pc'[u] = pc[u] /\ req'[u] = req[u],
             raised' = raised \cup {req[t]}
      PROVE  CallInv'
  BY <1>2 DEF CallInv, NumbersUsed, ServedOnce, NoRowYet, RaisedUnwritten
<1>3. ASSUME NEW t \in Thread, PutBusy(t) \/ RefuseType(t) \/ Busy(t) \/ Fail(t)
      PROVE  CallInv'
  BY <1>2, <1>3 DEF PutBusy, RefuseType, Busy, Fail, Goto, Raise, Forget, TypeOK
<1>4. ASSUME UNCHANGED <<events, issued, raised>>,
             \A u \in Thread : /\ pc'[u] # "idle" => pc[u] # "idle" /\ req'[u] = req[u]
                               /\ pc'[u] \in Unwritten => pc[u] \in Unwritten
      PROVE  CallInv'
  BY <1>4 DEF CallInv, NumbersUsed, ServedOnce, NoRowYet, RaisedUnwritten
<1>5. ASSUME NEW t \in Thread,
             PutArtifact(t) \/ TakeKeyLock(t) \/ BeginImmediate(t) \/ ReadTail(t) \/ Insert(t)
      PROVE  CallInv'
  BY <1>4, <1>5 DEF PutArtifact, TakeKeyLock, BeginImmediate, ReadTail, Insert, Goto, TypeOK
<1>6. ASSUME NEW t \in Thread, Commit(t) PROVE CallInv'
  <2>1. NextRow(req[t]).body = req[t] /\ CommitsNext(t)
    BY <1>6, CommitAddsNextRow DEF NextRow, Chain!Event
  <2>2. \A s \in DOMAIN events' :
          \/ s \in DOMAIN events /\ events'[s] = events[s]
          \/ events'[s].body = req[t]
    BY <2>1 DEF CommitsNext
  <2>3. /\ pc[t] = "commit" /\ pc'[t] = "return"
        /\ \A u \in Thread \ {t} : pc'[u] = pc[u]
        /\ UNCHANGED <<req, raised, issued>>
    BY <1>6 DEF Commit, Goto, TypeOK
  <2>4. NumbersUsed'
    BY <1>0, <2>2, <2>3 DEF CallInv, NumbersUsed, TypeOK
  <2>5. ServedOnce'
    BY <2>3 DEF CallInv, ServedOnce
  <2>6. NoRowYet'
    BY <2>2, <2>3 DEF CallInv, ServedOnce, NoRowYet
  <2>7. RaisedUnwritten'
    BY <2>2, <2>3 DEF CallInv, ServedOnce, RaisedUnwritten
  <2>. QED
    BY <2>4, <2>5, <2>6, <2>7 DEF CallInv
<1>7. ASSUME NEW t \in Thread, Return(t) PROVE CallInv'
  <2>1. /\ pc[t] = "return" /\ pc'[t] = "idle"
        /\ \A u \in Thread \ {t} : pc'[u] = pc[u] /\ req'[u] = req[u]
        /\ UNCHANGED <<events, issued>>
    BY <1>7 DEF Return, Goto, Forget, TypeOK
  <2>2. \/ UNCHANGED raised
        \/ raised' = raised \cup {req[t]} /\ req[t].actor \notin TypedActor
    BY <1>7 DEF Return
  <2>. QED
    BY <2>1, <2>2 DEF CallInv, NumbersUsed, ServedOnce, NoRowYet, RaisedUnwritten
<1>8. ASSUME NEW p \in Process, Crash(p) PROVE CallInv'
  BY <1>4, <1>8 DEF Crash, Forget, TypeOK
<1>9. CASE Verify
  BY <1>4, <1>9 DEF Verify, VerifyRead, VerifyEvent, VerifyDone
<1>10. CASE UNCHANGED vars
  BY <1>4, <1>10 DEF vars
<1>. QED
  BY <1>1, <1>3, <1>5, <1>6, <1>7, <1>8, <1>9, <1>10 DEF Next, Serve, AppendStep

\* A call with a well-formed actor that raised has left no row: its caller may
\* try again without recording the event twice, whatever failed or died.
THEOREM RetriesAreSafe == Spec => []RaisedUnwritten
<1>1. Init => CallInv
  BY DEF Init, CallInv, NumbersUsed, ServedOnce, NoRowYet, RaisedUnwritten,
         Unwritten, InTransaction
<1>2. Spec => [](TypeOK /\ ChainInv)
  BY TypeCorrect, ChainInvInvariant, PTL
<1>3. CallInv => RaisedUnwritten
  BY DEF CallInv
<1>. QED
  BY <1>1, <1>2, <1>3, CallInvStep, PTL DEF Spec
============================================================================
