---------------------------- MODULE LedgerStore ----------------------------
(***************************************************************************)
(* The case ledger of ledger/store.py: LedgerStore.append, put_artifact    *)
(* and verify, run by several threads of several processes over one SQLite *)
(* file.                                                                   *)
(*                                                                         *)
(* A thread first takes the in-process lock registered for the path it     *)
(* opened, then SQLite's write lock (BEGIN IMMEDIATE), reads the tail row, *)
(* inserts the next row, commits, and only then builds the LedgerEvent     *)
(* that checks the actor.  A process may die between any two steps; SQLite *)
(* then rolls the open transaction back and what was committed stays.      *)
(***************************************************************************)
EXTENDS Naturals, Sequences

CONSTANTS Thread,       \* threads that write
          Key,          \* in-process locks: one per process and path spelling
          KeyOf,        \* the lock a thread's store holds (_lock_for)
          Process,      \* operating system processes
          ProcessOf,    \* the process a lock lives in
          Case,         \* case ids
          EventType,    \* the closed vocabulary of ledger/events.py
          UnknownType,  \* an event type outside it
          TypedActor,   \* actors '<kind>:<name>' with a known kind
          UntypedActor, \* any other string, for instance "human:"
          Content,      \* the calls that callers make
          Artifact,     \* digests of content kept beside the events
          Genesis,      \* GENESIS_HASH
          None,         \* no thread, no call, no row
          MaxRequests,  \* bound: calls of submit/append in a behaviour
          MaxCrashes    \* bound: process deaths in a behaviour

ASSUME StoreAssumption ==
  /\ KeyOf \in [Thread -> Key]
  /\ ProcessOf \in [Key -> Process]
  /\ None \notin Thread
  /\ TypedActor \cap UntypedActor = {}
  /\ UnknownType \notin EventType
  /\ Content \subseteq [case : Case, type : EventType \cup {UnknownType},
                        actor : TypedActor \cup UntypedActor,
                        cites : SUBSET Artifact]
  /\ MaxRequests \in Nat /\ MaxCrashes \in Nat

VARIABLES events,     \* the committed rows of the events table, by primary key
          artifacts,  \* the committed digests of the artifacts table
          pc,         \* where each thread is
          req,        \* the call each thread is serving
          todo,       \* digests it has still to put before it appends
          tail,       \* the seq and hash it read inside its transaction
          pending,    \* the row it inserted and has not committed
          keyLock,    \* holder of each in-process lock
          writeLock,  \* holder of SQLite's write lock
          acked,      \* rows handed back to callers as LedgerEvents
          raised,     \* calls that ended in an exception
          issued,     \* calls made so far; numbers the calls
          crashes,    \* process deaths so far
          audit       \* the verify() call in progress

locks == <<keyLock, writeLock>>
local == <<req, todo, tail, pending>>
vars == <<events, artifacts, pc, req, todo, tail, pending, keyLock, writeLock,
          acked, raised, issued, crashes, audit>>

----------------------------------------------------------------------------
\* A call: case_id, event_type, actor and the digests its payload names
\* (run_artifacts, rulebook_artifacts, policy_artifact).  The number stands
\* for the rest of the payload and tells two calls apart.
Numbered(n, c) == [id |-> n, case |-> c.case, type |-> c.type,
                   actor |-> c.actor, cites |-> c.cites]

Request == {Numbered(n, c) : n \in 0 .. MaxRequests, c \in Content}

Chain == INSTANCE HashChain WITH Body <- Request, log <- events

\* The largest seq of a set of rows, 0 when there is none.
MaxSeq(S) == IF S = {} THEN 0 ELSE CHOOSE s \in S : \A r \in S : r <= s

LastSeq == MaxSeq(DOMAIN events)

\* SELECT seq, hash FROM events ORDER BY seq DESC LIMIT 1.
TailRow == [seq |-> LastSeq,
            hash |-> IF LastSeq = 0 THEN Genesis ELSE events[LastSeq].hash]

NoAudit == [step |-> "idle", snapshot |-> << >>, expected |-> 1,
            prev |-> Genesis, problems |-> {}]

Init ==
  /\ events = << >>
  /\ artifacts = {}
  /\ pc = [t \in Thread |-> "idle"]
  /\ req = [t \in Thread |-> None]
  /\ todo = [t \in Thread |-> {}]
  /\ tail = [t \in Thread |-> None]
  /\ pending = [t \in Thread |-> None]
  /\ keyLock = [k \in Key |-> None]
  /\ writeLock = None
  /\ acked = {}
  /\ raised = {}
  /\ issued = 0
  /\ crashes = 0
  /\ audit = NoAudit

\* Steps of a transaction, from BEGIN IMMEDIATE to commit or close.
InTransaction == {"tail", "insert", "commit"}
Holding == InTransaction \cup {"begin", "return"}

Goto(t, from, to) == pc[t] = from /\ pc' = [pc EXCEPT ![t] = to]

\* Mutant of Free: the lock is not given back.
FreeLeaks(t) == UNCHANGED keyLock

Free(t) == keyLock' = [keyLock EXCEPT ![KeyOf[t]] = None]

\* The call is over: its locals are gone.
Forget(dead) ==
  /\ req' = [t \in Thread |-> IF t \in dead THEN None ELSE req[t]]
  /\ todo' = [t \in Thread |-> IF t \in dead THEN {} ELSE todo[t]]
  /\ tail' = [t \in Thread |-> IF t \in dead THEN None ELSE tail[t]]
  /\ pending' = [t \in Thread |-> IF t \in dead THEN None ELSE pending[t]]

Raise(t) == Forget({t}) /\ raised' = raised \cup {req[t]}

----------------------------------------------------------------------------
\* A caller files an event.  Digests its payload names are put first
\* (seed.submit_dossier, review_basis.build_basis, then store.append).
Call(t) ==
  /\ pc[t] = "idle"
  /\ issued < MaxRequests
  /\ \E c \in Content :
       /\ req' = [req EXCEPT ![t] = Numbered(issued, c)]
       /\ todo' = [todo EXCEPT ![t] = c.cites]
  /\ issued' = issued + 1
  /\ pc' = [pc EXCEPT ![t] = "put"]
  /\ UNCHANGED <<events, artifacts, tail, pending, locks, acked, raised,
                 crashes, audit>>

\* put_artifact: INSERT OR IGNORE under the in-process lock, committed by the
\* connection's context manager.  One statement, one step.
PutArtifact(t) ==
  /\ pc[t] = "put"
  /\ keyLock[KeyOf[t]] = None
  /\ writeLock = None
  /\ \E d \in todo[t] :
       /\ artifacts' = artifacts \cup {d}
       /\ todo' = [todo EXCEPT ![t] = @ \ {d}]
  /\ UNCHANGED <<events, pc, req, tail, pending, locks, acked, raised, issued,
                 crashes, audit>>

\* The same, when another writer holds the file longer than the connection
\* waits: sqlite3 raises "database is locked".
PutBusy(t) ==
  /\ Goto(t, "put", "idle")
  /\ todo[t] # {}
  /\ writeLock # None
  /\ Raise(t)
  /\ UNCHANGED <<events, artifacts, locks, acked, issued, crashes, audit>>

\* append: an unknown event_type is refused before any lock is taken.
RefuseType(t) ==
  /\ Goto(t, "put", "idle")
  /\ todo[t] = {}
  /\ req[t].type \notin EventType
  /\ Raise(t)
  /\ UNCHANGED <<events, artifacts, locks, acked, issued, crashes, audit>>

\* Mutant of TakeKeyLock: append before the artifacts are put.
TakeKeyLockEarly(t) ==
  /\ Goto(t, "put", "begin")
  /\ req[t].type \in EventType
  /\ keyLock[KeyOf[t]] = None
  /\ keyLock' = [keyLock EXCEPT ![KeyOf[t]] = t]
  /\ UNCHANGED <<events, artifacts, local, writeLock, acked, raised, issued,
                 crashes, audit>>

\* with self._lock
TakeKeyLock(t) ==
  /\ Goto(t, "put", "begin")
  /\ todo[t] = {}
  /\ req[t].type \in EventType
  /\ keyLock[KeyOf[t]] = None
  /\ keyLock' = [keyLock EXCEPT ![KeyOf[t]] = t]
  /\ UNCHANGED <<events, artifacts, local, writeLock, acked, raised, issued,
                 crashes, audit>>

\* Mutant of BeginImmediate: a deferred transaction.
BeginDeferred(t) ==
  /\ Goto(t, "begin", "tail")
  /\ writeLock' = t
  /\ UNCHANGED <<events, artifacts, local, keyLock, acked, raised, issued,
                 crashes, audit>>

\* BEGIN IMMEDIATE takes SQLite's write lock.
BeginImmediate(t) ==
  /\ Goto(t, "begin", "tail")
  /\ writeLock = None
  /\ writeLock' = t
  /\ UNCHANGED <<events, artifacts, local, keyLock, acked, raised, issued,
                 crashes, audit>>

\* Another writer held the file too long: "database is locked" again.
Busy(t) ==
  /\ Goto(t, "begin", "idle")
  /\ writeLock # None
  /\ Free(t)
  /\ Raise(t)
  /\ UNCHANGED <<events, artifacts, writeLock, acked, issued, crashes,
                 audit>>

\* Mutant of ReadTail: the link is taken from the last event of the case.
ReadTailOfCase(t) ==
  LET mine == {s \in DOMAIN events : events[s].body.case = req[t].case} IN
  /\ Goto(t, "tail", "insert")
  /\ tail' = [tail EXCEPT ![t] =
                [seq |-> LastSeq,
                 hash |-> IF mine = {} THEN Genesis
                          ELSE events[CHOOSE s \in mine :
                                        \A r \in mine : r <= s].hash]]
  /\ UNCHANGED <<events, artifacts, req, todo, pending, locks, acked, raised,
                 issued, crashes, audit>>

ReadTail(t) ==
  /\ Goto(t, "tail", "insert")
  /\ tail' = [tail EXCEPT ![t] = TailRow]
  /\ UNCHANGED <<events, artifacts, req, todo, pending, locks, acked, raised,
                 issued, crashes, audit>>

\* Mutant of Insert: the row is acknowledged and never committed.
InsertUncommitted(t) ==
  /\ Goto(t, "insert", "return")
  /\ writeLock' = None
  /\ pending' = [pending EXCEPT ![t] =
                   Chain!Event(tail[t].seq + 1, req[t], tail[t].hash)]
  /\ UNCHANGED <<events, artifacts, req, todo, tail, keyLock, acked, raised,
                 issued, crashes, audit>>

\* INSERT: the primary key refuses a seq that is taken.
Insert(t) ==
  /\ Goto(t, "insert", "commit")
  /\ tail[t].seq + 1 \notin DOMAIN events
  /\ pending' = [pending EXCEPT ![t] =
                   Chain!Event(tail[t].seq + 1, req[t], tail[t].hash)]
  /\ UNCHANGED <<events, artifacts, req, todo, tail, locks, acked, raised,
                 issued, crashes, audit>>

Commit(t) ==
  /\ Goto(t, "commit", "return")
  /\ events' = [s \in DOMAIN events \cup {pending[t].seq} |->
                  IF s = pending[t].seq THEN pending[t] ELSE events[s]]
  /\ writeLock' = None
  /\ UNCHANGED <<artifacts, local, keyLock, acked, raised, issued, crashes, audit>>

\* Mutant of Fail: closing the connection commits instead of rolling back.
FailCommits(t) ==
  /\ pc[t] \in InTransaction
  /\ pc' = [pc EXCEPT ![t] = "idle"]
  /\ writeLock' = None
  /\ Free(t)
  /\ events' = IF pc[t] = "commit" THEN Append(events, pending[t]) ELSE events
  /\ Raise(t)
  /\ UNCHANGED <<artifacts, acked, issued, crashes, audit>>

\* A statement inside the transaction raises (disk full, an I/O error).  The
\* finally clause closes the connection, which rolls the transaction back,
\* and leaving the with block frees the lock.
Fail(t) ==
  /\ pc[t] \in InTransaction
  /\ pc' = [pc EXCEPT ![t] = "idle"]
  /\ writeLock' = None
  /\ Free(t)
  /\ Raise(t)
  /\ UNCHANGED <<events, artifacts, acked, issued, crashes, audit>>

\* The row is committed and the locks are released; now LedgerEvent(...) is
\* built, and its validator is the first to look at the actor.
Return(t) ==
  /\ Goto(t, "return", "idle")
  /\ Free(t)
  /\ Forget({t})
  /\ IF req[t].actor \in TypedActor
       THEN acked' = acked \cup {pending[t]} /\ UNCHANGED raised
       ELSE raised' = raised \cup {req[t]} /\ UNCHANGED acked
  /\ UNCHANGED <<events, artifacts, writeLock, issued, crashes, audit>>

\* Mutant of Crash: threads of the dead process go on with what they did.
CrashSurvived(p) ==
  LET dead == {t \in Thread : ProcessOf[KeyOf[t]] = p} IN
  /\ crashes < MaxCrashes
  /\ crashes' = crashes + 1
  /\ Forget(dead)
  /\ UNCHANGED <<events, artifacts, pc, locks, acked, raised, issued, audit>>

\* A process dies.  Its threads and their locks go with it; SQLite rolls back
\* the transaction one of them may have had open.
Crash(p) ==
  LET dead == {t \in Thread : ProcessOf[KeyOf[t]] = p} IN
  /\ crashes < MaxCrashes
  /\ crashes' = crashes + 1
  /\ Forget(dead)
  /\ pc' = [t \in Thread |-> IF t \in dead THEN "idle" ELSE pc[t]]
  /\ keyLock' = [k \in Key |-> IF ProcessOf[k] = p THEN None ELSE keyLock[k]]
  /\ writeLock' = IF writeLock \in dead THEN None ELSE writeLock
  /\ UNCHANGED <<events, artifacts, acked, raised, issued, audit>>

----------------------------------------------------------------------------
\* verify: all_events() is one read.  Rebuilding a row as a LedgerEvent
\* raises when its actor is not typed, and then verify itself raises.
VerifyRead ==
  /\ audit.step = "idle"
  /\ audit' = [step |-> IF \A s \in DOMAIN events :
                             events[s].body.actor \in TypedActor
                        THEN "walk" ELSE "raised",
                snapshot |-> events, expected |-> 1, prev |-> Genesis,
                problems |-> {}]
  /\ UNCHANGED <<events, artifacts, pc, local, locks, acked, raised, issued,
                 crashes>>

\* The rows not yet walked.  ORDER BY seq and a primary key make the walk
\* strictly increasing.
Unwalked == {s \in DOMAIN audit.snapshot : s >= audit.expected}

Problems(e) ==
  {x \in {"seq gap", "broken link", "hash", "artifact"} :
    \/ x = "seq gap"     /\ e.seq # audit.expected
    \/ x = "broken link" /\ e.prev # audit.prev
    \/ x = "hash"        /\ e.hash # Chain!EventHash(e.seq, e.body, e.prev)
    \/ x = "artifact"    /\ ~(e.body.cites \subseteq artifacts)}

\* One event of verify's loop; each cited artifact is read from the database
\* as it is now, not as it was when the rows were read.
VerifyEvent ==
  /\ audit.step = "walk"
  /\ \E s \in Unwalked :
       LET e == audit.snapshot[s] IN
       /\ \A r \in Unwalked : s <= r
       /\ audit' = [audit EXCEPT !.expected = e.seq + 1,
                                 !.prev = e.hash,
                                 !.problems = @ \cup Problems(e)]
  /\ UNCHANGED <<events, artifacts, pc, local, locks, acked, raised, issued,
                 crashes>>

VerifyDone ==
  /\ \/ audit.step = "walk" /\ Unwalked = {}
     \/ audit.step = "raised"
  /\ audit' = NoAudit
  /\ UNCHANGED <<events, artifacts, pc, local, locks, acked, raised, issued,
                 crashes>>

----------------------------------------------------------------------------
AppendStep(t) ==
  \/ RefuseType(t) \/ TakeKeyLock(t) \/ BeginImmediate(t) \/ Busy(t)
  \/ ReadTail(t) \/ Insert(t) \/ Commit(t) \/ Fail(t) \/ Return(t)

Serve(t) == PutArtifact(t) \/ PutBusy(t) \/ AppendStep(t)

Verify == VerifyRead \/ VerifyEvent \/ VerifyDone

Next == \/ \E t \in Thread : Call(t) \/ Serve(t)
        \/ \E p \in Process : Crash(p)
        \/ Verify

Spec == Init /\ [][Next]_vars

\* The operating system runs every live thread; nobody is obliged to call.
FairSpec == Spec /\ \A t \in Thread : WF_vars(Serve(t))

----------------------------------------------------------------------------
TypeOK ==
  /\ artifacts \subseteq Artifact
  /\ pc \in [Thread -> {"idle", "put"} \cup Holding]
  /\ req \in [Thread -> Request \cup {None}]
  /\ \A t \in Thread : pc[t] # "idle" => req[t] \in Request
  /\ todo \in [Thread -> SUBSET Artifact]
  /\ tail = [t \in Thread |-> tail[t]]
  /\ pending = [t \in Thread |-> pending[t]]
  /\ keyLock \in [Key -> Thread \cup {None}]
  /\ writeLock \in Thread \cup {None}
  /\ raised \subseteq Request
  /\ issued \in 0 .. MaxRequests
  /\ crashes \in 0 .. MaxCrashes

\* The committed rows are seq 1 .. n with no gap, every row links to the hash
\* of the row before it and its own hash recomputes: what verify() looks for,
\* whatever the writers of all processes do and wherever they die.
ChainIntact ==
  /\ DOMAIN events = 1 .. LastSeq
  /\ \A s \in DOMAIN events :
       /\ events[s].seq = s
       /\ events[s].prev = IF s = 1 THEN Genesis ELSE events[s - 1].hash
       /\ events[s].hash = Chain!EventHash(s, events[s].body, events[s].prev)

\* The tail a writer read is still the tail when it inserts, so the primary
\* key never refuses a row: no append is lost to an IntegrityError, although
\* two processes do not share the in-process lock.
NextSeqFree == \A t \in Thread : pc[t] = "insert" => tail[t] = TailRow

\* An event handed back to a caller is in the ledger, at its seq and
\* unchanged, from then on: no crash and no later append takes it away.
AckedDurable ==
  \A e \in acked : e.seq \in DOMAIN events /\ events[e.seq] = e

\* verify() reads the rows and then, over other connections, the artifacts
\* they cite.  Interleaved with writers and crashes it never reports a
\* problem of a ledger nobody tampered with.
VerifyQuiet == audit.problems = {}

\* A caller whose append raised, and whose actor was well formed, may call
\* again without recording the event twice: its row is not in the ledger.
RaisedUnwritten ==
  \A r \in raised : r.actor \in TypedActor =>
                     \A s \in DOMAIN events : events[s].body # r

\* The same for every call that raised.  docs/architecture.md: "actors are
\* typed <kind>:<name>", among what is validated on write.
ValidatedOnWrite ==
  \A r \in raised : \A s \in DOMAIN events : events[s].body # r

\* The store implements the abstract chain: a commit adds one event at the
\* end, and nothing else any process does is visible.
ImplementsHashChain == Chain!Spec

\* No call waits for ever: whatever fails or dies, the locks come free.
EveryCallEnds == \A t \in Thread : []<>(pc[t] = "idle")
============================================================================
