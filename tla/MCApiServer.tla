---------------------------- MODULE MCApiServer ----------------------------
(* A small instance of ApiServer: ids of tasks and sessions, and of the     *)
(* requests of a kind, are interchangeable.                                 *)
EXTENDS ApiServer, TLC

IdSymmetry ==
  Permutations(Requests \ Readers) \cup Permutations(Tasks) \cup Permutations(Sessions)
=============================================================================
