--------------------------- MODULE TaskLifecycle ---------------------------
(***************************************************************************)
(* What a client of the task API can rely on, whatever the runner does     *)
(* inside: the statuses of task.Status and how one follows another.  A     *)
(* task is attempted at most MaxRetries + 1 times, an attempt that fails   *)
(* may put it back in the queue, and a status that answers the client      *)
(* (completed, failed, canceled) is the last one.                          *)
(***************************************************************************)
EXTENDS Naturals

CONSTANTS Tasks, MaxRetries

VARIABLES status, attempt

lifecycle == <<status, attempt>>

Init ==
  /\ status = [t \in Tasks |-> "absent"]
  /\ attempt = [t \in Tasks |-> 0]

\* Task t goes from one of the statuses `from` to status `to`.
Becomes(t, from, to) ==
  /\ status[t] \in from
  /\ status' = [status EXCEPT ![t] = to]

Create(t) == Becomes(t, {"absent"}, "queued") /\ UNCHANGED attempt

Start(t) ==
  /\ Becomes(t, {"queued"}, "running")
  /\ attempt[t] <= MaxRetries[t]
  /\ attempt' = [attempt EXCEPT ![t] = @ + 1]

Retry(t) ==
  /\ Becomes(t, {"running"}, "queued")
  /\ attempt[t] <= MaxRetries[t]
  /\ UNCHANGED attempt

Complete(t) == Becomes(t, {"running"}, "completed") /\ UNCHANGED attempt
Fail(t)     == Becomes(t, {"running"}, "failed") /\ UNCHANGED attempt
Cancel(t)   == Becomes(t, {"queued", "running"}, "canceled") /\ UNCHANGED attempt

Next ==
  \E t \in Tasks : Create(t) \/ Start(t) \/ Retry(t) \/ Complete(t) \/ Fail(t) \/ Cancel(t)

Spec == Init /\ [][Next]_lifecycle
=============================================================================
