---------------------------- MODULE MCIdempotency ----------------------------
(* Small instances of Idempotency: three requests with one key are enough   *)
(* for a late one to meddle with the claim of a second and let in a third.  *)
EXTENDS Idempotency

AllFaults == {"expiry", "store", "crash"}
NoFaults  == {}
=============================================================================
