---------------------------- MODULE MCNodeLease ----------------------------
(* Small instances of NodeLease: two workers of one runner, so that their   *)
(* leases differ by token only.                                             *)
EXTENDS NodeLease

MCOwner == [w \in Workers |-> "runner"]
=============================================================================
