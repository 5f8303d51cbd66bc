---------------------------- MODULE MCTaskRunner ----------------------------
(* Small instances of TaskRunner: two tasks of one domain, the first of     *)
(* which may be retried once.                                               *)
EXTENDS TaskRunner, TLC
CONSTANTS t1, t2, d1

MCDomainOf == [t \in Tasks |-> d1]
MCRetries == [t \in Tasks |-> IF t = t1 THEN 1 ELSE 0]

\* Whose context may end inside Enqueue: nobody's, or that of the retry timers
\* and the reconciler.
MCNobody == {}
MCLoops == Callers \ Requests

WorkerSymmetry == Permutations(Workers)
=============================================================================
