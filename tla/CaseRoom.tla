------------------------------ MODULE CaseRoom ------------------------------
(***************************************************************************)
(* One case of the supervisor: its ledger, and the review runs, resets and *)
(* decisions that api/dossiers.py, api/main.py and pipeline/graph.py let   *)
(* officers start on it.                                                   *)
(*                                                                         *)
(* An append is one step here; LedgerStore.tla is about what it is made    *)
(* of.  The event loop runs a handler from one await to the next without   *)
(* interruption; only the worker threads of asyncio.to_thread write in     *)
(* between.  A claim stands for what one specialist decides about one      *)
(* rule (assess._claim), its fact for the deterministic floor under it.    *)
(***************************************************************************)
EXTENDS Naturals, Sequences, FiniteSets

CONSTANTS Claim,       \* what specialists assess
          Verdict,     \* verdicts of an assessment
          Unresolved,  \* the verdict 'inconclusive'
          None,
          Entry,       \* ways in: "review", "question" and "agent"
          MaxRuns,     \* bound: runs of the review graph
          MaxResets,   \* bound: review_history_cleared markers
          MaxDecisions,\* bound: signed decisions
          MaxOrphans   \* bound: runs that outlive their response stream

ASSUME RoomAssumption ==
  /\ None \notin Verdict \cup {Unresolved}
  /\ MaxRuns \in Nat /\ None \notin 1 .. MaxRuns
  /\ MaxResets \in Nat /\ MaxDecisions \in Nat /\ MaxOrphans \in Nat
  /\ Entry \subseteq {"review", "question", "agent"}

Run == 1 .. MaxRuns  \* runs, in the order their requests arrive

VARIABLES log,      \* the events of the case, in seq order
          pc,       \* where each run is
          via,      \* the endpoint it came through
          scope,    \* the claims it was dispatched to review
          round,    \* its review_round
          known,    \* claims whose fact it found on the record at ingest
          stage,    \* how far each claim of each run has got
          lock,     \* holder of the case's asyncio.Lock
          signing,  \* the recommendation decide() is about to sign
          aged,     \* runs started more than 20 minutes ago
          orphans,  \* runs that go on although their stream is closed
          strayed   \* runs that wrote where the lock protects nobody

vars == <<log, pc, via, scope, round, known, stage, lock, signing, aged,
          orphans, strayed>>

run == <<via, scope, round, known>>

----------------------------------------------------------------------------
\* Indexes of the events of a type in a log.
At(l, type) == {i \in DOMAIN l : l[i].type = type}

Last(S) == IF S = {} THEN 0 ELSE CHOOSE i \in S : \A j \in S : j <= i

\* visible_events: what the last reset marker leaves of a log.  (The
\* submission, which it always leaves, is not an event of this model.)
Visible(l) == Last(At(l, "cleared")) + 1 .. Len(l)

Seen(l, type) == At(l, type) \cap Visible(l)

\* _next_round over the projection.  Mutant: only finished runs count.
NextRoundOfFinished(l) ==
  1 + Cardinality({i \in Seen(l, "started") :
                     \E j \in Seen(l, "completed") : l[j].run = l[i].run})
NextRound(l) == 1 + Cardinality(Seen(l, "started"))

\* _add_facts: facts are kept once per id.
Facts(l) == {l[i].claim : i \in Seen(l, "fact")}

\* The assessments of a claim, each at its place in the log.
Assessments(l, c) ==
  {[at |-> i, event |-> l[i]] : i \in {j \in Seen(l, "assessed") : l[j].claim = c}}

\* _add_assessments keeps the first of an id, which is <<claim, round>>;
\* assess.current keeps the latest round of a claim.
Latest(S) == CHOOSE a \in S : \A b \in S :
               \/ b.event.round < a.event.round
               \/ b.event.round = a.event.round /\ a.at <= b.at

Current(l, c) == Latest(Assessments(l, c)).event

\* review_flags: every assessment id the critic ever failed, on all events of
\* the case, those before a reset too.
Flagged(l) == UNION {l[i].failed \X {l[i].round} : i \in At(l, "checked")}

\* recommend() downgrades the assessments it is told are flagged.
VerdictOn(l, c, flagged) ==
  IF Assessments(l, c) = {} THEN None
  ELSE IF <<c, Current(l, c).round>> \in flagged THEN Unresolved
  ELSE Current(l, c).verdict

Recommended(l, flagged) ==
  [facts |-> Facts(l),
   verdicts |-> [c \in Claim |-> VerdictOn(l, c, flagged)]]

\* authorisation.recommend, as far as the ledger decides it.
Recommendation(l) == Recommended(l, Flagged(l))

\* The run of the latest run_started of the whole log, whatever was cleared:
\* a set of one, or empty.
LatestReview == {log[i].run : i \in {Last(At(log, "started"))} \ {0}}
Finished(r) == \E i \in At(log, "completed") : log[i].run = r

----------------------------------------------------------------------------
Init ==
  /\ log = << >>
  /\ pc = [r \in Run |-> "new"]
  /\ via = [r \in Run |-> None]
  /\ scope = [r \in Run |-> {}]
  /\ round = [r \in Run |-> 0]
  /\ known = [r \in Run |-> {}]
  /\ stage = [r \in Run |-> [c \in Claim |-> "off"]]
  /\ lock = None
  /\ signing = None
  /\ aged = {}
  /\ orphans = {}
  /\ strayed = {}

Over == {"new", "done", "dead"}
Live(r) == pc[r] \notin Over

Goto(r, from, to) == pc[r] = from /\ pc' = [pc EXCEPT ![r] = to]

Record(event) == log' = Append(log, event)

\* decide() does not yield between reading the ledger and appending to it.
LoopFree == signing = None

\* Leaving `async with lock(cid)`.  Mutant: the lock stays taken.
UnlockKeeps(r) == UNCHANGED lock
Unlock(r) == lock' = IF lock = r THEN None ELSE lock

\* Work a cancelled run left to its worker threads.
Leftover(r) == {c \in Claim : stage[r][c] \in {"floor", "model"}}

\* Ghost: r writes after a later run was scored or completed over what the
\* ledger held then.
Overtaken(r) == \E i \in DOMAIN log : \E j \in At(log, "started") :
                  /\ log[i].type \in {"computed", "completed"}
                  /\ log[j].run = r /\ i > j

Stray(r) == strayed' = IF pc[r] = "dead" /\ Overtaken(r)
                         THEN strayed \cup {r} ELSE strayed

----------------------------------------------------------------------------
\* A request.  POST /review looks at the lock and answers 409 if it is taken;
\* POST /question queues for it; the chat agent and the background triage of
\* POST /triage never take it.  A question may be answered from the record,
\* with nothing dispatched.
Arrive(r) ==
  /\ LoopFree
  /\ \A q \in Run : q < r => pc[q] # "new"
  /\ Goto(r, "new", "waiting")
  /\ \E e \in Entry, s \in SUBSET Claim :
       /\ e = "review" => lock = None
       /\ e # "question" => s # {}
       /\ via' = [via EXCEPT ![r] = e]
       /\ scope' = [scope EXCEPT ![r] = s]
       /\ strayed' = IF e = "agent" THEN strayed \cup {r} ELSE strayed
  /\ UNCHANGED <<log, round, known, stage, lock, signing, aged, orphans>>

\* async with lock(cid).  Mutant: the handler does not wait for it.
LockUnasked(r) == UNCHANGED lock
Lock(r) == lock = None /\ lock' = r

\* ingest, once the lock is held: read the record, number the round, append
\* run_started (and question_asked), seed the state with the facts of earlier
\* rounds.  The specialists r is dispatched to start on their floors.
Start(r) ==
  /\ LoopFree
  /\ Goto(r, "waiting", "working")
  /\ IF via[r] = "agent" THEN UNCHANGED lock ELSE Lock(r)
  /\ round' = [round EXCEPT ![r] = NextRound(log)]
  /\ known' = [known EXCEPT ![r] = IF NextRound(log) > 1 THEN Facts(log) ELSE {}]
  /\ stage' = [stage EXCEPT ![r] = [c \in Claim |-> IF c \in scope[r] THEN "floor"
                                                    ELSE "off"]]
  /\ Record([type |-> "started", run |-> r, round |-> NextRound(log)])
  /\ UNCHANGED <<via, scope, signing, aged, orphans, strayed>>

\* A worker thread appends the floor of a claim, unless its fact was on the
\* record.  A thread is not cancelled with its run.
WriteFloor(r, c) ==
  /\ stage[r][c] = "floor"
  /\ stage' = [stage EXCEPT ![r][c] = IF pc[r] = "dead" THEN "off" ELSE "model"]
  /\ IF c \in known[r] THEN UNCHANGED <<log, strayed>>
     ELSE Record([type |-> "fact", run |-> r, claim |-> c]) /\ Stray(r)
  /\ UNCHANGED <<pc, run, lock, signing, aged, orphans>>

\* The model answered, failed or timed out (unjudged_review then says
\* inconclusive), and a worker thread appends the assessment.
WriteAssessment(r, c) ==
  /\ stage[r][c] = "model"
  /\ stage' = [stage EXCEPT ![r][c] = "done"]
  /\ \E v \in Verdict : Record([type |-> "assessed", run |-> r, claim |-> c,
                                round |-> round[r], verdict |-> v])
  /\ Stray(r)
  /\ UNCHANGED <<pc, run, lock, signing, aged, orphans>>

Reviewed(r) == \A c \in scope[r] : stage[r][c] = "done"

\* critic: the assessments of this round it could not ground.
Critic(r) ==
  /\ LoopFree
  /\ Goto(r, "working", "record")
  /\ scope[r] # {} /\ Reviewed(r)
  /\ \E bad \in SUBSET scope[r] :
       Record([type |-> "checked", run |-> r, round |-> round[r], failed |-> bad])
  /\ UNCHANGED <<run, stage, lock, signing, aged, orphans, strayed>>

\* Mutant of Compute: the critic's flags are not passed on.
ComputeUnflagged(r) ==
  /\ LoopFree
  /\ Goto(r, "record", "closing")
  /\ Record([type |-> "computed", run |-> r, basis |-> Recommended(log, {})])
  /\ UNCHANGED <<run, stage, lock, signing, aged, orphans, strayed>>

\* record: record_recommendation reads the ledger and appends what the
\* policy makes of it.
Compute(r) ==
  /\ LoopFree
  /\ Goto(r, "record", "closing")
  /\ Record([type |-> "computed", run |-> r, basis |-> Recommendation(log)])
  /\ UNCHANGED <<run, stage, lock, signing, aged, orphans, strayed>>

\* The same node after a run that recorded no assessment: no score.
Reply(r) ==
  /\ LoopFree
  /\ scope[r] = {}
  /\ Goto(r, "working", "closing")
  /\ UNCHANGED <<log, run, stage, lock, signing, aged, orphans, strayed>>

\* The closing brief is in; run_completed ends the run.
Complete(r) ==
  /\ LoopFree
  /\ Goto(r, "closing", "done")
  /\ Record([type |-> "completed", run |-> r])
  /\ Unlock(r)
  /\ UNCHANGED <<run, stage, signing, aged, orphans, strayed>>

\* The run is cancelled with its stream, or an exception leaves the graph.
\* What its worker threads had begun, they finish; if the run is old enough
\* already, no reset waits for them.
Die(r) ==
  /\ LoopFree
  /\ Live(r)
  /\ pc' = [pc EXCEPT ![r] = "dead"]
  /\ Unlock(r)
  /\ \E begun \in SUBSET Leftover(r) :
       stage' = [stage EXCEPT ![r] = [c \in Claim |-> IF c \in begun THEN @[c]
                                                      ELSE "off"]]
       /\ strayed' = IF r \in aged /\ begun # {} THEN strayed \cup {r}
                     ELSE strayed
  /\ UNCHANGED <<log, run, signing, aged, orphans>>

\* The stream of a review is closed while it is suspended at a yield: what it
\* gets is GeneratorExit, which `except asyncio.CancelledError` does not catch.
\* The lock is released and the task it created runs on.
Orphan(r) ==
  /\ LoopFree
  /\ via[r] = "review" /\ lock = r
  /\ Cardinality(orphans) < MaxOrphans
  /\ orphans' = orphans \cup {r}
  /\ strayed' = strayed \cup {r}
  /\ Unlock(r)
  /\ UNCHANGED <<log, pc, run, stage, signing, aged>>

\* The backend is restarted: locks, runs and threads are gone, the ledger is
\* not.
Restart ==
  /\ \E r \in Run : Live(r)
  /\ pc' = [r \in Run |-> IF Live(r) THEN "dead" ELSE pc[r]]
  /\ stage' = [r \in Run |-> [c \in Claim |-> "off"]]
  /\ lock' = None
  /\ signing' = None
  /\ UNCHANGED <<log, run, aged, orphans, strayed>>

\* Twenty minutes have passed since r, which never completed, started, and
\* since every run before it did.  Threads of dead runs are through by then; a
\* live run may take longer.
Age(r) ==
  /\ r \notin aged /\ ~Finished(r)
  /\ \E i \in At(log, "started") :
       /\ log[i].run = r
       /\ \A j \in At(log, "started") :
            j < i => log[j].run \in aged \/ Finished(log[j].run)
  /\ \A q \in Run : pc[q] = "dead" => Leftover(q) = {}
  /\ aged' = aged \cup {r}
  /\ UNCHANGED <<log, pc, run, stage, lock, signing, orphans, strayed>>

\* Mutant of Reset: an unfinished run never blocks it.
ResetAnyway ==
  /\ LoopFree
  /\ lock = None
  /\ Cardinality(At(log, "cleared")) < MaxResets
  /\ Record([type |-> "cleared"])
  /\ UNCHANGED <<pc, run, stage, lock, signing, aged, orphans, strayed>>

\* reset_review_history, under the lock: refused while the latest review is
\* unfinished and younger than _ABANDONED_AFTER_S.
Reset ==
  /\ LoopFree
  /\ lock = None
  /\ Cardinality(At(log, "cleared")) < MaxResets
  /\ \A r \in LatestReview : Finished(r) \/ r \in aged
  /\ Record([type |-> "cleared"])
  /\ UNCHANGED <<pc, run, stage, lock, signing, aged, orphans, strayed>>

\* Mutant of ReadToSign: the latest review may be unfinished.
ReadToSignAnyway ==
  /\ LoopFree
  /\ lock = None
  /\ Cardinality(At(log, "decided")) < MaxDecisions
  /\ Facts(log) # {}
  /\ signing' = Recommendation(log)
  /\ UNCHANGED <<log, pc, run, stage, lock, aged, orphans, strayed>>

\* decide, under the lock: the recommendation the officer saw must still be
\* the one the ledger gives, which is what gets signed.
ReadToSign ==
  /\ LoopFree
  /\ lock = None
  /\ Cardinality(At(log, "decided")) < MaxDecisions
  /\ \A r \in LatestReview : Finished(r)
  /\ Facts(log) # {}
  /\ signing' = Recommendation(log)
  /\ UNCHANGED <<log, pc, run, stage, lock, aged, orphans, strayed>>

\* ... and appends authorisation_decided (and case_watched) with it.
Sign ==
  /\ signing # None
  /\ Record([type |-> "decided", basis |-> signing])
  /\ signing' = None
  /\ UNCHANGED <<pc, run, stage, lock, aged, orphans, strayed>>

----------------------------------------------------------------------------
Review(r) == \/ Start(r)
             \/ \E c \in Claim : WriteFloor(r, c) \/ WriteAssessment(r, c)
             \/ Critic(r) \/ Compute(r) \/ Reply(r) \/ Complete(r)

Next == \/ \E r \in Run : Arrive(r) \/ Review(r) \/ Die(r) \/ Orphan(r) \/ Age(r)
        \/ Restart \/ Reset \/ ReadToSign \/ Sign

Spec == Init /\ [][Next]_vars

----------------------------------------------------------------------------
TypeOK ==
  /\ pc \in [Run -> Over \cup {"waiting", "working", "record", "closing"}]
  /\ via \in [Run -> Entry \cup {None}]
  /\ scope \in [Run -> SUBSET Claim]
  /\ round \in [Run -> Nat]
  /\ known \in [Run -> SUBSET Claim]
  /\ stage \in [Run -> [Claim -> {"off", "floor", "model", "done"}]]
  /\ lock \in {r \in Run : Live(r)} \cup {None}
  /\ aged \subseteq Run /\ orphans \subseteq Run /\ strayed \subseteq Run
  /\ \A i \in DOMAIN log : "run" \in DOMAIN log[i] => log[i].run \in Run

\* No run wrote without the lock, and no thread so late that a later run had
\* already been scored: what the case lock is there for.
Confined == strayed = {}

\* Of the reviews a reader can see, each has a higher round than those before
\* it, however runs overlap, die or are reset: a later review always
\* supersedes (graph.py _next_round).
RoundsRise ==
  \A i, j \in Seen(log, "started") : i < j => log[i].round < log[j].round

\* No two visible assessments share an id, so that _add_assessments, which
\* keeps the first of an id, never drops a verdict the ledger holds.
NoVerdictDropped ==
  Confined => \A c \in Claim : \A a, b \in Assessments(log, c) :
                a.event.round = b.event.round => a = b

\* While nothing new was started, the disposition the queue shows (the last
\* authorisation_computed, main.py _summary) is the one the case page computes
\* and decide() compares digests with.
QueueAgrees ==
  LET i == Last(Seen(log, "computed")) IN
  Confined /\ i # 0 /\ (\A j \in Seen(log, "started") : j < i)
    => log[i].basis = Recommendation(log)

\* A signed decision rests on exactly what the ledger said when it was
\* recorded: no writer gets in between reading and signing.
DecisionBound ==
  Confined => \A i \in At(log, "decided") :
                log[i].basis = Recommendation(SubSeq(log, 1, i - 1))

\* After a reset, and until a new review starts, no fact, assessment, score or
\* decision is visible: no run that was cleared writes behind the marker.
ResetClears ==
  Confined => \/ Last(At(log, "cleared")) = 0
              \/ Seen(log, "started") # {}
              \/ Visible(log) = {}

\* dossiers.py: "The latest review is unfinished. Complete a review before
\* signing."  Every assessment a decision rests on is of a finished review.
SignedOnFinished ==
  \A i \in At(log, "decided") :
    LET before == SubSeq(log, 1, i - 1) IN
    \A c \in Claim : Assessments(before, c) # {} =>
      \E j \in At(before, "completed") :
        before[j].run = Current(before, c).run

\* dossiers.py: a reset is "a marker the projection reads as carry nothing
\* recorded before here".  What is recommended depends on visible events only.
CarriesNothing ==
  Recommendation(log) =
    Recommendation(SubSeq(log, Last(At(log, "cleared")) + 1, Len(log)))
=============================================================================
