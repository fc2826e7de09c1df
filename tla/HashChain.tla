----------------------------- MODULE HashChain -----------------------------
(***************************************************************************)
(* What the case ledger promises, seen from outside: one global sequence   *)
(* of events that only ever grows at its end, each event carrying its      *)
(* position and the hash of the event before it (ledger/store.py, module   *)
(* docstring).  LedgerStore is shown to implement this module.             *)
(*                                                                         *)
(* A hash is modelled as the injective record of what it covers, so two    *)
(* equal hashes cover equal content and equal history.                     *)
(***************************************************************************)
EXTENDS Naturals, Sequences

CONSTANTS Body,      \* the contents an event may carry
          Genesis    \* GENESIS_HASH, the link of the first event

VARIABLE log         \* the committed events, in seq order

\* event_hash: the digest covers the position, the content and the link.
EventHash(seq, body, prev) == [seq |-> seq, body |-> body, prev |-> prev]

\* One row of the events table.
Event(seq, body, prev) ==
  [seq |-> seq, body |-> body, prev |-> prev, hash |-> EventHash(seq, body, prev)]

TipHash(l) == IF Len(l) = 0 THEN Genesis ELSE l[Len(l)].hash

Init == log = << >>

Add(body) == log' = Append(log, Event(Len(log) + 1, body, TipHash(log)))

Next == \E body \in Body : Add(body)

Spec == Init /\ [][Next]_log
============================================================================
