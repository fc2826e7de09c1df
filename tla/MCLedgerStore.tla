--------------------------- MODULE MCLedgerStore ---------------------------
(* Two threads of one backend share an in-process lock; a script in a second *)
(* process writes the same file.                                             *)
EXTENDS LedgerStore

CONSTANTS t1, t2, t3, backend, script,
          c1, c2, submitted, edited, officer, anonymous, a1

MCThread == {t1, t2, t3}
MCProcess == {backend, script}
MCKeyOf == [t \in MCThread |-> IF t = t3 THEN script ELSE backend]
MCProcessOf == [k \in MCProcess |-> k]

\* One call of every sort: with artifacts, with an empty officer name
\* ("human:"), with an event type outside the vocabulary; two cases.
MCContent ==
  {[case |-> c1, type |-> submitted, actor |-> officer, cites |-> {a1}],
   [case |-> c2, type |-> submitted, actor |-> anonymous, cites |-> {}],
   [case |-> c1, type |-> edited, actor |-> officer, cites |-> {}]}
============================================================================
