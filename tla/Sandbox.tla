------------------------------ MODULE Sandbox ------------------------------
(***************************************************************************)
(* The policy sandbox (sandbox/, api/sandbox.py): candidate rulebooks are  *)
(* forked from the book in force, edited, measured over the labelled       *)
(* corpus and promoted.  The requests of one server interleave at awaits;  *)
(* only a sweep awaits.  A promotion is one request without an await, but  *)
(* it writes three files, and the server may die between two of them.      *)
(*                                                                         *)
(* A digest is the content it is taken over, so equal digests are equal    *)
(* contents.  A rule is what an edit can change of it: one setting.        *)
(***************************************************************************)
EXTENDS Naturals, Sequences, FiniteSets

CONSTANTS Domain,      \* rulebooks
          Rule,        \* rules of a book
          Setting,     \* what status, severity and parameters of a rule can be
          Default,     \* the setting of every rule at first
          Label,       \* slugs of the labels officers give their drafts
          Clipped,     \* labels that _slug(draft_id)[:48] no longer tells apart
          Mode,        \* "mechanical", "live"
          None,        \* no label
          Dossiers,    \* number of labelled dossiers a sweep runs
          MaxDrafts,   \* bound: drafts on disk at a time
          MaxVersion,  \* bound: versions of a book
          MaxSweeps,   \* bound: sweeps started
          MaxGround    \* bound: changes of the corpus and of the code

ASSUME SandboxAssumption ==
  /\ Default \in Setting
  /\ None \notin Label /\ Clipped \subseteq Label
  /\ {Dossiers, MaxDrafts, MaxVersion, MaxSweeps, MaxGround} \subseteq Nat

VARIABLES book,        \* registry/rulesets/<domain>.json
          torn,        \* domains whose file a dying write left unreadable
          published,   \* registry/rulesets/published/<domain>@<version>.json
          drafts,      \* registry/drafts/<domain>/<slug>.json
          sweeps,      \* SweepStore, in the order of started_at
          running,     \* the sweep that holds _sweep_lock, 0 if none
          left,        \* dossiers it has yet to run
          corpus,      \* data/dossiers with their labels
          code,        \* agents/, pipeline/, ..., the regulator's registries
          promotions   \* promotions made; the logged ones are on the ledger

files == <<book, torn, published>>
sweeping == <<sweeps, running, left>>
ground == <<corpus, code>>
vars == <<book, torn, published, drafts, sweeps, running, left,
          corpus, code, promotions>>

----------------------------------------------------------------------------
Book == [version : Nat, rules : [Rule -> Setting]]
FirstBook == [version |-> 1, rules |-> [r \in Rule |-> Default]]

\* A ref names a draft, or with no label the book in force.
Ref == [domain : Domain, base : Nat, label : Label \cup {None}]
InForce(d) == [domain |-> d, base |-> 0, label |-> None]
Id(f) == [domain |-> f.domain, base |-> f.base, label |-> f.label]

\* The file of a draft is named by the first 48 characters of its slug.
Path(f) == [domain |-> f.domain, base |-> f.base,
            stem |-> IF f.label \in Clipped THEN None ELSE f.label]

\* Mutant: an edited draft is added next to the one it came from.
WrittenBeside(f) == drafts \cup {f}

\* _write: the draft takes the place of the one with the same path.
Written(f) == {g \in drafts : Path(g) # Path(f)} \cup {f}

\* describe_edits
Edits(before, after) == {r \in Rule : before.rules[r] # after.rules[r]}

\* _resolve: the rules a ref stands for now, if there are any.
Resolvable(ref) == IF ref.label = None THEN ref.domain \notin torn
                                       ELSE \E f \in drafts : Id(f) = ref
Resolve(ref) == IF ref.label = None
                THEN book[ref.domain]
                ELSE (CHOOSE f \in drafts : Id(f) = ref).book

\* pins: everything a sweep stands on but the rulebook.  code_revision moves
\* with code here.
Pins(mode) == [mode |-> mode, corpus |-> corpus,
               policy |-> <<book, torn, published>>, code |-> code]

\* Mutant: the rest of the policy is not compared.
IncomparableSansPolicy(a, b) ==
  a.mode # b.mode \/ a.corpus # b.corpus \/ a.code # b.code

\* incomparable_reason
Incomparable(a, b) == \/ a.mode # b.mode
                      \/ a.corpus # b.corpus
                      \/ a.policy # b.policy
                      \/ a.code # b.code

\* What one dossier of a sweep is run on.
Ground == [corpus |-> corpus, books |-> book, code |-> code]

----------------------------------------------------------------------------
Init ==
  /\ book = [d \in Domain |-> FirstBook] /\ torn = {}
  /\ published = {} /\ drafts = {}
  /\ sweeps = <<>> /\ running = 0 /\ left = 0
  /\ corpus = 0 /\ code = 0
  /\ promotions = <<>>

\* create_draft
Fork(d, l) ==
  LET f == [domain |-> d, base |-> book[d].version, label |-> l,
            book |-> book[d], edits |-> {}]
  IN /\ d \notin torn
     /\ \A g \in drafts : Id(g) # Id(f)
     /\ drafts' = Written(f) /\ Cardinality(drafts') <= MaxDrafts
     /\ UNCHANGED <<files, sweeping, ground, promotions>>

\* Mutant: the edits listed are only the last one.
EditLast(f, r, s) ==
  LET b == [f.book EXCEPT !.rules[r] = s]
  IN /\ f.domain \notin torn
     /\ drafts' = Written([f EXCEPT !.book = b, !.edits = Edits(f.book, b)])
     /\ UNCHANGED <<files, sweeping, ground, promotions>>

\* edit_rule: the edits it lists are those against the book now in force.
Edit(f, r, s) ==
  LET b == [f.book EXCEPT !.rules[r] = s]
  IN /\ f.domain \notin torn
     /\ drafts' = Written([f EXCEPT !.book = b,
                                    !.edits = Edits(book[f.domain], b)])
     /\ UNCHANGED <<files, sweeping, ground, promotions>>

\* delete_draft
Delete(f) ==
  /\ drafts' = drafts \ {f}
  /\ UNCHANGED <<files, sweeping, ground, promotions>>

----------------------------------------------------------------------------
\* POST /sweeps, without a scorecard to reuse or forced: start_sweep, once the
\* lock is free, up to its await.  A request that waits for the lock carries
\* only what was asked for, so waiting is no state; what it asked for may be
\* gone by then, which is a 404.
Start(ref, mode) ==
  /\ running = 0 /\ Len(sweeps) < MaxSweeps
  /\ Resolvable(ref)
  /\ sweeps' = Append(sweeps, [ref |-> ref, rules |-> Resolve(ref),
                               pins |-> Pins(mode), seen |-> {},
                               state |-> "running"])
  /\ running' = Len(sweeps) + 1 /\ left' = Dossiers
  /\ UNCHANGED <<files, drafts, ground, promotions>>

\* run_triage of one more dossier, with the rulebooks read from disk again.
Measure ==
  /\ running # 0 /\ left > 0 /\ torn = {}
  /\ sweeps' = [sweeps EXCEPT ![running].seen = @ \cup {Ground}]
  /\ left' = left - 1
  /\ UNCHANGED <<files, drafts, running, ground, promotions>>

\* The sweep ends and the lock is free: with a result after its last dossier,
\* with an error whenever anything raises.
End(state) ==
  /\ running # 0
  /\ \/ state = "done" /\ left = 0
     \/ state = "failed" /\ left > 0
  /\ sweeps' = [sweeps EXCEPT ![running].state = state]
  /\ running' = 0 /\ left' = 0
  /\ UNCHANGED <<files, drafts, ground, promotions>>

----------------------------------------------------------------------------
\* Mutant: the scorecard may be of any day.
PromotableAnyDay(f, n) ==
  /\ sweeps[n].ref = Id(f) /\ sweeps[n].rules = f.book
  /\ sweeps[n].state = "done" /\ f.domain \notin torn

\* The gates of promote.
Promotable(f, n) ==
  /\ sweeps[n].ref = Id(f) /\ sweeps[n].rules = f.book
  /\ sweeps[n].state = "done"
  /\ ~Incomparable(sweeps[n].pins, Pins(sweeps[n].pins.mode))
  /\ f.domain \notin torn

\* Mutant: the copy is named by its domain alone.
CopiedOver(d) == {p \in published : p.domain # d}
                 \cup {[domain |-> d, book |-> book[d]]}

\* The outgoing book goes to published/<domain>@<version>.json.
Copied(d) == {p \in published : p.domain # d \/ p.book.version # book[d].version}
             \cup {[domain |-> d, book |-> book[d]]}

\* promote: the outgoing book is copied, the file of the book in force written
\* over, the event appended.  A promotion that dies has done the first of these
\* ("copied"), has left the file half written ("torn"), or lacks only its event.
Promote(f, n, upto) ==
  LET d == f.domain
      b == [f.book EXCEPT !.version = book[d].version + 1]
  IN /\ Promotable(f, n) /\ b.version <= MaxVersion
     /\ published' = Copied(d)
     /\ book' = IF upto \in {"written", "logged"} THEN [book EXCEPT ![d] = b]
                                                  ELSE book
     /\ torn' = IF upto = "torn" THEN torn \cup {d} ELSE torn
     /\ promotions' =
          IF upto \in {"written", "logged"}
          THEN Append(promotions,
                 [domain |-> d, book |-> b, draft |-> Id(f), sweep |-> n,
                  edits |-> f.edits, from |-> book[d], logged |-> upto = "logged"])
          ELSE promotions
     /\ UNCHANGED <<drafts, sweeps, ground>>

\* The server dies and starts again: what it was doing is lost.
Die == running' = 0 /\ left' = 0

Promoted(f, n) == /\ Promote(f, n, "logged")
                  /\ UNCHANGED <<running, left>>
PromoteDies(f, n) == \E upto \in {"copied", "torn", "written"} :
                       Promote(f, n, upto) /\ Die

Restart == Die /\ UNCHANGED <<files, drafts, sweeps, ground, promotions>>

\* External: the corpus is relabelled under a running server; code and
\* registries, which it keeps in memory, are changed with a restart.
Relabel == /\ corpus + code < MaxGround /\ corpus' = corpus + 1
           /\ UNCHANGED <<files, drafts, sweeping, code, promotions>>
Deploy == /\ corpus + code < MaxGround /\ code' = code + 1
          /\ Die /\ UNCHANGED <<files, drafts, sweeps, corpus, promotions>>

----------------------------------------------------------------------------
\* equivalent: the scorecard a request for this ref would be answered with.
Reusable(n) == /\ Resolvable(sweeps[n].ref)
               /\ sweeps[n].rules = Resolve(sweeps[n].ref)
               /\ sweeps[n].state = "done"
               /\ sweeps[n].pins = Pins(sweeps[n].pins.mode)

Refs == {InForce(d) : d \in Domain} \cup {Id(f) : f \in drafts}

Next ==
  \/ \E d \in Domain, l \in Label : Fork(d, l)
  \/ \E f \in drafts, r \in Rule, s \in Setting : Edit(f, r, s)
  \/ \E f \in drafts : Delete(f)
  \/ \E ref \in Refs, mode \in Mode : Start(ref, mode)
  \/ Measure \/ End("done") \/ End("failed")
  \/ \E f \in drafts, n \in DOMAIN sweeps : Promoted(f, n) \/ PromoteDies(f, n)
  \/ Restart \/ Relabel \/ Deploy

Spec == Init /\ [][Next]_vars

----------------------------------------------------------------------------
\* What every file, draft and sweep looks like; no two drafts share a file
\* (drafts.py _path).
TypeOK ==
  /\ book \in [Domain -> Book] /\ torn \subseteq Domain
  /\ \A p \in published : p.domain \in Domain /\ p.book \in Book
  /\ \A f \in drafts : Id(f) \in Ref /\ f.book \in Book /\ f.edits \subseteq Rule
  /\ \A f, g \in drafts : Path(f) = Path(g) => f = g
  /\ \A n \in DOMAIN sweeps :
       /\ sweeps[n].ref \in Ref /\ sweeps[n].rules \in Book
       /\ sweeps[n].state \in {"running", "done", "failed"}
  /\ running \in 0 .. Len(sweeps) /\ left \in 0 .. Dossiers
  /\ {corpus, code} \subseteq 0 .. MaxGround
  /\ running # 0 => sweeps[running].state = "running"

\* A scorecard that is handed out again, or on which a draft can be promoted,
\* was taken over today's corpus and today's rulebooks from its first dossier
\* to its last, although promotions and relabellings go on while a sweep runs.
RestsOnPresentGround ==
  \A n \in DOMAIN sweeps :
    \/ Reusable(n) \/ \E f \in drafts : Promotable(f, n)
    => \A g \in sweeps[n].seen : g = Ground

\* A sweep carries one promotion.  Asking again after a promotion that died on
\* the way does not put a second version in force.
OneVersionPerSweep ==
  \A i, j \in DOMAIN promotions : promotions[i].sweep = promotions[j].sweep => i = j

BooksMade(d) == {promotions[i].book :
                   i \in {j \in DOMAIN promotions : promotions[j].domain = d}}

\* Every book that has ever been in force is still in force or can be read
\* under published/, wherever a promotion died.
EveryBookKept ==
  \A d \in Domain : \A b \in {FirstBook} \cup BooksMade(d) :
    \/ b = book[d] /\ d \notin torn
    \/ [domain |-> d, book |-> b] \in published

\* What the ledger says of a promotion is so: the book it names was measured as
\* it is, and, if its draft was forked from the book it replaced, the edits it
\* lists are the difference between the two.
LedgerTellsTheChange ==
  \A i \in DOMAIN promotions :
    LET p == promotions[i] IN
    p.logged => /\ sweeps[p.sweep].ref = p.draft
                /\ sweeps[p.sweep].rules.rules = p.book.rules
                /\ p.draft.base = p.from.version => p.edits = Edits(p.from, p.book)
=============================================================================
