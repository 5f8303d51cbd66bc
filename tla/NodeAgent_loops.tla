--------------------------- MODULE NodeAgent_loops ---------------------------
(***************************************************************************)
(* Proofs about the goal loop of NodeAgent: the counters by which it       *)
(* notices that it repeats itself, how stale the page is that the planner  *)
(* is shown, what becomes of a plan, and that every run comes to its end.  *)
(* They rest on the kinds of steps of NodeAgent_proofs and its invariant.  *)
(***************************************************************************)
EXTENDS NodeAgent_proofs

USE AgentAssumption

-----------------------------------------------------------------------------
(* Runs at the end of a sequence *)

\* The longest run at the end of s is n times v; s is empty as long as v is
\* none of S.
Ends(s, n, v, S) ==
  IF Len(s) = 0 THEN v \notin S
  ELSE /\ n \in 1 .. Len(s)
       /\ \A j \in Len(s) - n + 1 .. Len(s) : s[j] = v
       /\ n < Len(s) => s[Len(s) - n] # v

LEMMA EndsNothing ==
  ASSUME NEW S, NEW n, NEW v, v \notin S, NEW k \in Nat
  PROVE  Ends(<<>>, n, v, S) /\ NoRun(<<>>, k)
<1>1. Len(<<>>) = 0
  BY EmptySeq
<1>2. QED
  BY <1>1 DEF Ends, NoRun

\* One more element goes on with the run, or begins one.
NextCount(x, v, n) == IF x = v THEN n + 1 ELSE 1

LEMMA EndsAppend ==
  ASSUME NEW S, NEW s \in Seq(S), NEW n \in Nat, NEW v, NEW x \in S, Ends(s, n, v, S)
  PROVE  Ends(Append(s, x), NextCount(x, v, n), x, S)
<1>1. NextCount(x, v, n) \in Nat
  BY DEF NextCount
<1>2. SUFFICES ASSUME NEW t, t = Append(s, x), NEW m \in Nat, m = NextCount(x, v, n)
               PROVE  Ends(t, m, x, S)
  BY <1>1
<1>3. PICK k \in Nat : k = Len(s)
  BY LenProperties
<1>4. Len(t) = k + 1 /\ t[k + 1] = x /\ \A i \in 1 .. k : t[i] = s[i]
  BY <1>2, <1>3, AppendProperties
<1>5. CASE k = 0
  <2>1. m = 1
    BY <1>2, <1>3, <1>5 DEF Ends, NextCount
  <2>2. /\ Len(t) = 1 /\ m \in 1 .. 1 /\ ~(m < 1)
        /\ \A j \in 1 - m + 1 .. 1 : t[j] = x
    BY <1>4, <1>5, <2>1
  <2>3. QED
    BY <2>2 DEF Ends
<1>6. CASE k # 0 /\ x = v
  <2>1. /\ n \in 1 .. k /\ \A j \in k - n + 1 .. k : s[j] = v
        /\ n < k => s[k - n] # v
    BY <1>3, <1>6 DEF Ends
  <2>2. m = n + 1
    BY <1>2, <1>6 DEF NextCount
  <2>3. ASSUME NEW j \in (k + 1) - m + 1 .. k + 1
        PROVE  t[j] = x
    <3>1. j = k + 1 \/ (j \in 1 .. k /\ j \in k - n + 1 .. k)
      BY <2>1, <2>2
    <3>2. QED
      BY <1>4, <1>6, <2>1, <3>1
  <2>4. ASSUME m < k + 1
        PROVE  t[(k + 1) - m] # x
    <3>1. n < k /\ k - n \in 1 .. k /\ (k + 1) - m = k - n
      BY <2>1, <2>2, <2>4
    <3>2. QED
      BY <1>4, <1>6, <2>1, <3>1
  <2>5. m \in 1 .. k + 1
    BY <2>1, <2>2
  <2>6. QED
    BY <1>4, <2>3, <2>4, <2>5 DEF Ends
<1>7. CASE k # 0 /\ x # v
  <2>1. n \in 1 .. k /\ \A j \in k - n + 1 .. k : s[j] = v
    BY <1>3, <1>7 DEF Ends
  <2>2. m = 1 /\ s[k] = v
    BY <1>2, <1>7, <2>1 DEF NextCount
  <2>3. t[k] # x
    BY <1>4, <1>7, <2>2
  <2>4. (k + 1) - m = k /\ (k + 1) - m + 1 = k + 1 /\ m \in 1 .. k + 1
    BY <2>2
  <2>5. \A j \in k + 1 .. k + 1 : t[j] = x
    BY <1>4
  <2>6. QED
    BY <1>4, <2>3, <2>4, <2>5 DEF Ends
<1>8. QED
  BY <1>5, <1>6, <1>7

\* As long as the run at the end is not too long, there is none that is.
LEMMA NoRunAppend ==
  ASSUME NEW S, NEW s \in Seq(S), NEW x \in S, NEW t, t = Append(s, x),
         NEW m \in Nat, Ends(t, m, x, S), NEW n \in Nat, m <= n, NoRun(s, n)
  PROVE  NoRun(t, n)
<1>1. PICK k \in Nat : k = Len(s)
  BY LenProperties
<1>2. Len(t) = k + 1 /\ t[k + 1] = x /\ \A i \in 1 .. k : t[i] = s[i]
  BY <1>1, AppendProperties
<1>3. m \in 1 .. k + 1 /\ (m < k + 1 => t[(k + 1) - m] # x)
  BY <1>2 DEF Ends
<1>4. ASSUME NEW i \in 1 .. (k + 1) - n
      PROVE  \E j \in i .. i + n : t[j] # t[i]
  <2>1. CASE i \in 1 .. k - n
    <3>1. PICK j \in i .. i + n : s[j] # s[i]
      BY <1>1, <2>1 DEF NoRun
    <3>2. j \in 1 .. k /\ i \in 1 .. k
      BY <2>1
    <3>3. QED
      BY <1>2, <3>1, <3>2
  <2>2. CASE i = (k + 1) - n
    <3>1. PICK j : j = (k + 1) - m
      OBVIOUS
    <3>2. j \in i .. i + n /\ k + 1 \in i .. i + n /\ m < k + 1
      BY <1>3, <2>2, <3>1
    <3>3. t[j] # t[k + 1]
      BY <1>2, <1>3, <3>1, <3>2
    <3>4. QED
      BY <3>2, <3>3
  <2>3. i \in 1 .. k - n \/ i = (k + 1) - n
    OBVIOUS
  <2>4. QED
    BY <2>1, <2>2, <2>3, Zenon
<1>5. QED
  BY <1>2, <1>4 DEF NoRun

-----------------------------------------------------------------------------
(* The steps, once more *)

\* The locals, but for the deadline and the rest of a script, are the same.
Quiet == holder' = holder /\ at' = at /\ KeepsEnd(run', run) /\ KeepsWork(run', run)

\* A run has not begun, or has just ended.
Outside == at \in {"idle", "dial"} /\ Fresh(run)

LEMMA StepKinds ==
  ASSUME TypeInv, [Next]_vars
  PROVE  Quiet \/ Outside' \/ (holder # None /\ Onward)
<1>1. CASE Aside
  BY <1>1 DEF Aside, Quiet, KeepsEnd, KeepsWork, KeepsTrace, KeepsCount, KeepsLooks, KeepsFails,
              KeepsPlans
<1>2. CASE \E r \in Requests : Acquire(r)
  <2>1. at' = "dial" /\ Fresh(run')
    BY <1>2, AcquireMoves, BlankIsFresh
  <2>2. QED
    BY <2>1 DEF Outside
<1>3. CASE Expire
  BY <1>3, ExpireMoves DEF Quiet, calls
<1>4. CASE holder # None /\ Execution
  <2>1. CASE Replied
    <3>1. at' = "idle" /\ Fresh(run')
      BY <2>1, ReplyMoves, BlankIsFresh DEF Replied
    <3>2. QED
      BY <3>1 DEF Outside
  <2>2. QED
    BY <1>4, <2>1, ExecutionKinds
<1>5. QED
  BY <1>1, <1>2, <1>3, <1>4, AsideTypes DEF Next

-----------------------------------------------------------------------------
(* The actions that were begun, and the counter of repeated actions *)

CountInv ==
  /\ Goal => Ends(run.started, run.repeats, run.last, Kinds) /\ NoRun(run.started, MaxRepeatActions)
  /\ run.repeats <= MaxRepeatActions
  /\ at \in {"plan", "refresh"} => run.repeats < MaxRepeatActions

LEMMA CountOutside ==
  ASSUME Outside
  PROVE  CountInv
<1>1. run.started = <<>> /\ run.last \notin Kinds /\ run.repeats = 0 /\ at \notin {"plan", "refresh"}
  BY DEF Outside, Fresh, Kinds
<1>2. Ends(run.started, run.repeats, run.last, Kinds) /\ NoRun(run.started, MaxRepeatActions)
  BY <1>1, EndsNothing
<1>3. 0 <= MaxRepeatActions
  OBVIOUS
<1>4. QED
  BY <1>1, <1>2, <1>3 DEF CountInv

LEMMA CountStep ==
  ASSUME TypeInv, Control, CountInv, [Next]_vars
  PROVE  CountInv'
<1>1. ASSUME holder' = holder, run'.started = run.started, KeepsCount(run', run),
             at' \in {"plan", "refresh"} => run.repeats < MaxRepeatActions
      PROVE  CountInv'
  BY <1>1 DEF CountInv, KeepsCount, Goal
<1>2. CASE Quiet
  BY <1>1, <1>2 DEF Quiet, KeepsWork, KeepsTrace, CountInv
<1>3. CASE Outside'
  <2>1. (Outside => CountInv)'
    BY CountOutside, PTL
  <2>2. QED
    BY <1>3, <2>1
<1>4. ASSUME Onward
      PROVE  CountInv'
  <2>0. holder' = holder /\ run.repeats \in Nat
    BY <1>4, LocalsTypes DEF Onward, TypeInv
  <2>1. CASE Walk
    <3>1. at' \in {"plan", "refresh"} => run.repeats < MaxRepeatActions
      BY <2>0, <2>1 DEF Walk, ActionLoop, Acting
    <3>2. QED
      BY <1>1, <2>0, <2>1, <3>1 DEF Walk, KeepsTrace, KeepsCount
  <2>2. CASE Observed
    <3>1. run.repeats = 0
      BY <2>2 DEF Observed, Control, Early, Fresh
    <3>2. QED
      BY <1>1, <2>0, <2>2, <3>1 DEF Observed, KeepsTrace
  <2>3. CASE Halt
    BY <1>1, <2>0, <2>3 DEF Halt, KeepsTrace
  <2>4. CASE Round
    BY <1>1, <2>0, <2>4 DEF Round, KeepsTrace, CountInv
  <2>5. CASE BegunPlanned
    <3>1. PICK kind \in Kinds :
            /\ run'.last = kind /\ run'.started = Append(run.started, kind)
            /\ run'.repeats = IF kind = run.last THEN run.repeats + 1 ELSE 1
      BY <2>5 DEF BegunPlanned, Begun
    <3>2. at' \notin {"plan", "refresh"} /\ Goal /\ run.repeats < MaxRepeatActions
      BY <2>5 DEF BegunPlanned, Begun, Acting, Control, CountInv
    <3>3. PICK m \in Nat : m = run'.repeats /\ m <= MaxRepeatActions
      BY <2>0, <3>1, <3>2
    <3>4. PICK s \in Seq(Kinds) : s = run.started
      BY TraceTypes
    <3>5. PICK n \in Nat : n = run.repeats
      BY <2>0
    <3>6. PICK v : v = run.last
      OBVIOUS
    <3>7. Ends(s, n, v, Kinds) /\ NoRun(s, MaxRepeatActions)
      BY <3>2, <3>4, <3>5, <3>6 DEF CountInv
    <3>8. PICK t : t = Append(s, kind)
      OBVIOUS
    <3>9. m = NextCount(kind, v, n)
      BY <3>1, <3>3, <3>5, <3>6 DEF NextCount
    <3>10. Ends(t, m, kind, Kinds)
      <4>1. Ends(Append(s, kind), NextCount(kind, v, n), kind, Kinds)
        BY <3>7, EndsAppend, Zenon
      <4>2. QED
        BY <3>8, <3>9, <4>1
    <3>11. NoRun(t, MaxRepeatActions)
      <4>1. PICK limit \in Nat : limit = MaxRepeatActions
        OBVIOUS
      <4>2. m <= limit /\ NoRun(s, limit)
        BY <3>3, <3>7, <4>1
      <4>3. NoRun(t, limit)
        BY <3>8, <3>10, <4>2, NoRunAppend, Zenon
      <4>4. QED
        BY <4>1, <4>3
    <3>12. QED
      BY <3>1, <3>2, <3>3, <3>4, <3>8, <3>10, <3>11 DEF CountInv
  <2>6. CASE BegunScripted
    <3>1. at' \notin {"plan", "refresh"} /\ ~Goal /\ KeepsCount(run', run)
      BY <2>6 DEF BegunScripted, Begun, Acting, Control
    <3>2. QED
      BY <2>0, <3>1 DEF CountInv, KeepsCount, Goal
  <2>7. CASE Done
    BY <1>1, <2>0, <2>7 DEF Done
  <2>8. QED
    BY <1>4, <2>1, <2>2, <2>3, <2>4, <2>5, <2>6, <2>7 DEF Onward
<1>5. QED
  BY <1>2, <1>3, <1>4, StepKinds

-----------------------------------------------------------------------------
(* The pages that were looked at, and the counter of repeated snapshots *)

LooksInv ==
  /\ Ends(run.looks, run.still + 1, run.snap, Pages)
  /\ run.still <= MaxRepeatSnapshots
  /\ run.then # "finish" =>
       run.still < MaxRepeatSnapshots /\ NoRun(run.looks, MaxRepeatSnapshots)

LEMMA LooksOutside ==
  ASSUME Outside
  PROVE  LooksInv
<1>1. run.looks = <<>> /\ run.snap \notin Pages /\ run.still = 0
  BY DEF Outside, Fresh
<1>2. Ends(run.looks, run.still + 1, run.snap, Pages) /\ NoRun(run.looks, MaxRepeatSnapshots)
  BY <1>1, EndsNothing
<1>3. 0 < MaxRepeatSnapshots
  OBVIOUS
<1>4. QED
  BY <1>1, <1>2, <1>3 DEF LooksInv

\* The first look, and those that follow.
LEMMA LooksFirst ==
  ASSUME TypeInv, Control, Observed
  PROVE  LooksInv'
<1>1. run'.looks = <<page>> /\ run'.snap = page /\ run'.still = 0
  BY DEF Observed, Control, Early, Fresh
<1>2. Ends(<<page>>, 1, page, Pages)
  <2>1. Len(<<page>>) = 1 /\ <<page>>[1] = page
    OBVIOUS
  <2>2. QED
    BY <2>1 DEF Ends
<1>3. PICK limit \in Nat \ {0} : limit = MaxRepeatSnapshots
  OBVIOUS
<1>4. NoRun(<<page>>, limit)
  <2>1. Len(<<page>>) = 1 /\ ~\E i \in 1 .. 1 - limit : TRUE
    OBVIOUS
  <2>2. QED
    BY <2>1 DEF NoRun
<1>5. QED
  BY <1>1, <1>2, <1>3, <1>4 DEF LooksInv

LEMMA LooksAgain ==
  ASSUME TypeInv, LooksInv, run.then # "finish", SeesAgain
  PROVE  /\ Ends(run'.looks, run'.still + 1, run'.snap, Pages)
         /\ run'.still <= MaxRepeatSnapshots
         /\ run'.still < MaxRepeatSnapshots => NoRun(run'.looks, MaxRepeatSnapshots)
<1>1. PICK s \in Seq(Pages) : s = run.looks
  BY LocalsTypes DEF TypeInv
<1>2. PICK n \in Nat : n = run.still
  BY LocalsTypes DEF TypeInv
<1>3. PICK v : v = run.snap
  OBVIOUS
<1>4. PICK x \in Pages : x = page
  BY DEF TypeInv, BrowserOK
<1>5. PICK limit \in Nat \ {0} : limit = MaxRepeatSnapshots
  OBVIOUS
<1>6. Ends(s, n + 1, v, Pages) /\ NoRun(s, limit) /\ n < limit
  BY <1>1, <1>2, <1>3, <1>5 DEF LooksInv
<1>7. PICK t : t = Append(s, x)
  OBVIOUS
<1>8. PICK m \in Nat : m = run'.still
  BY <1>2 DEF SeesAgain
<1>9. /\ run'.looks = t /\ run'.snap = x
      /\ m = IF x = v THEN n + 1 ELSE 0
  BY <1>1, <1>2, <1>3, <1>4, <1>7, <1>8 DEF SeesAgain
<1>10. m + 1 = NextCount(x, v, n + 1)
  BY <1>9 DEF NextCount
<1>11. n + 1 \in Nat /\ m + 1 \in Nat
  OBVIOUS
<1>12. Ends(t, m + 1, x, Pages)
  <2>1. Ends(Append(s, x), NextCount(x, v, n + 1), x, Pages)
    BY <1>6, <1>11, EndsAppend, Zenon
  <2>2. QED
    BY <1>7, <1>10, <2>1
<1>13. m <= limit
  BY <1>6, <1>9
<1>14. ASSUME m < limit
       PROVE  NoRun(t, limit)
  <2>1. m + 1 <= limit /\ limit \in Nat
    BY <1>14
  <2>2. QED
    BY <1>6, <1>7, <1>11, <1>12, <2>1, NoRunAppend, Zenon
<1>15. QED
  BY <1>5, <1>8, <1>9, <1>12, <1>13, <1>14

LEMMA LooksStep ==
  ASSUME TypeInv, Control, LooksInv, [Next]_vars
  PROVE  LooksInv'
<1>1. ASSUME KeepsLooks(run', run), run'.then # "finish" => run.then # "finish"
      PROVE  LooksInv'
  BY <1>1 DEF LooksInv, KeepsLooks
<1>2. CASE Quiet
  BY <1>1, <1>2 DEF Quiet, KeepsWork, KeepsEnd
<1>3. CASE Outside'
  <2>1. (Outside => LooksInv)'
    BY LooksOutside, PTL
  <2>2. QED
    BY <1>3, <2>1
<1>4. CASE Onward
  <2>1. CASE Walk
    BY <1>1, <2>1 DEF Walk, KeepsLooks
  <2>2. CASE Observed
    BY <2>2, LooksFirst
  <2>3. CASE Halt
    <3>1. run'.then = "finish"
      BY <2>3 DEF Halt
    <3>2. CASE KeepsLooks(run', run)
      BY <1>1, <3>1, <3>2
    <3>3. CASE at = "refresh" /\ SeesAgain
      <4>1. run.then # "finish"
        BY <3>3 DEF Control
      <4>2. QED
        BY <3>1, <3>3, <4>1, LooksAgain DEF LooksInv
    <3>4. QED
      BY <2>3, <3>2, <3>3 DEF Halt, SeesNothing
  <2>4. CASE Round
    <3>1. run.then # "finish" /\ run'.then = run.then
      BY <2>4 DEF Round, Control, KeepsEnd
    <3>2. CASE SeesNothing
      BY <1>1, <3>1, <3>2 DEF SeesNothing
    <3>3. CASE SeesAgain /\ run'.still < MaxRepeatSnapshots
      BY <3>1, <3>3, LooksAgain DEF LooksInv
    <3>4. QED
      BY <2>4, <3>2, <3>3 DEF Round
  <2>5. CASE BegunPlanned \/ BegunScripted
    BY <1>1, <2>5 DEF BegunPlanned, BegunScripted, Begun, KeepsEnd
  <2>6. CASE Done
    <3>1. run.then # "finish"
      BY <2>6 DEF Done, Control, Looking
    <3>2. QED
      BY <1>1, <2>6, <3>1 DEF Done
  <2>7. QED
    BY <1>4, <2>1, <2>2, <2>3, <2>4, <2>5, <2>6 DEF Onward
<1>5. QED
  BY <1>2, <1>3, <1>4, StepKinds

-----------------------------------------------------------------------------
(* How old the snapshot is: at most a step for each refresh that failed, and *)
(* one more for the action that was just done.                               *)

StaleInv ==
  /\ run.failures <= MaxFailures
  /\ Goal /\ at \in Acting \cup {"plan"} => Len(run.trace) - run.snapAt <= run.failures
  /\ at = "refresh" \/ (at \in Looking /\ run.then = "next")
       => Len(run.trace) - run.snapAt <= run.failures + 1

LEMMA StaleOutside ==
  ASSUME Outside
  PROVE  StaleInv
<1>1. run.failures = 0 /\ at \notin Acting \cup Looking \cup {"plan", "refresh"}
  BY DEF Outside, Fresh, Acting, Looking
<1>2. 0 <= MaxFailures
  OBVIOUS
<1>3. QED
  BY <1>1, <1>2 DEF StaleInv

LEMMA StaleStep ==
  ASSUME TypeInv, Control, StaleInv, [Next]_vars
  PROVE  StaleInv'
<1>0. Len(run.trace) \in Nat /\ run.snapAt \in Nat /\ run.failures \in Nat
  BY TraceTypes, LocalsTypes DEF TypeInv
<1>1. ASSUME holder' = holder, run'.trace = run.trace, run'.snapAt = run.snapAt,
             KeepsFails(run', run), Goal /\ at' \in Acting \cup {"plan"} => at \in Acting \cup {"plan"},
             at' = "refresh" \/ (at' \in Looking /\ run'.then = "next")
               => at = "refresh" \/ (at \in Looking /\ run.then = "next")
      PROVE  StaleInv'
  BY <1>1 DEF StaleInv, KeepsFails, Goal
<1>2. CASE Quiet
  BY <1>1, <1>2 DEF Quiet, KeepsWork, KeepsEnd, KeepsTrace, KeepsLooks
<1>3. CASE Outside'
  <2>1. (Outside => StaleInv)'
    BY StaleOutside, PTL
  <2>2. QED
    BY <1>3, <2>1
<1>4. CASE Onward
  <2>0. holder' = holder
    BY <1>4 DEF Onward
  <2>1. CASE Walk
    <3>1. run' = run /\ KeepsFails(run', run)
      BY <2>1 DEF Walk, KeepsFails
    <3>2. at' \in Acting \cup {"plan"} => at \in Acting \cup {"plan"}
      BY <2>1 DEF Walk, Acting, Looking
    <3>3. at' = "refresh" \/ (at' \in Looking /\ run'.then = "next")
               => at = "refresh" \/ (at \in Looking /\ run.then = "next")
      BY <2>1 DEF Walk, Acting, Looking, Control, Early, Fresh
    <3>4. QED
      BY <1>1, <2>0, <3>1, <3>2, <3>3
  <2>2. CASE Observed
    <3>1. run'.trace = <<>> /\ run'.snapAt = 0 /\ run'.failures = 0 /\ at' = "plan"
      BY <2>2 DEF Observed, Control, Early, Fresh, KeepsTrace, KeepsFails
    <3>2. Len(run'.trace) = 0
      BY <3>1, EmptyLen, Zenon
    <3>3. 0 <= MaxFailures
      OBVIOUS
    <3>4. QED
      BY <3>1, <3>2, <3>3 DEF StaleInv, Looking
  <2>3. CASE Halt
    <3>1. at' = "look" /\ run'.then = "finish"
      BY <2>3 DEF Halt
    <3>2. run'.failures <= MaxFailures
      BY <2>3 DEF Halt, KeepsFails, SeesNothing, SeesAgain, StaleInv
    <3>3. QED
      BY <3>1, <3>2 DEF StaleInv, Acting
  <2>4. CASE Round
    <3>1. at = "refresh" /\ at' = "plan" /\ run'.trace = run.trace
      BY <2>4 DEF Round, KeepsTrace
    <3>2. CASE SeesNothing
      <4>1. /\ run'.snapAt = run.snapAt /\ run'.failures = run.failures + 1
            /\ run'.failures <= MaxFailures
        BY <3>2 DEF SeesNothing, KeepsLooks
      <4>2. QED
        BY <3>1, <4>1 DEF StaleInv, Looking
    <3>3. CASE SeesAgain
      <4>1. run'.snapAt = Len(run.trace) /\ run'.failures = run.failures
        BY <3>3 DEF SeesAgain, KeepsFails
      <4>2. Len(run'.trace) - run'.snapAt = 0
        BY <1>0, <3>1, <4>1
      <4>3. QED
        BY <1>0, <3>1, <4>1, <4>2 DEF StaleInv, Looking
    <3>4. QED
      BY <2>4, <3>2, <3>3 DEF Round
  <2>5. CASE BegunPlanned \/ BegunScripted
    <3>1. /\ at' \in Acting /\ run'.trace = run.trace /\ KeepsLooks(run', run)
          /\ KeepsFails(run', run) /\ (Goal => at = "plan")
      BY <2>5 DEF BegunPlanned, BegunScripted, Begun, Control
    <3>2. at' # "refresh" /\ at' \notin Looking
      BY <3>1 DEF Acting, Looking
    <3>3. QED
      BY <1>1, <2>0, <3>1, <3>2 DEF KeepsLooks
  <2>6. CASE Done
    <3>1. /\ at \in Acting /\ at' \notin Acting \cup {"plan", "refresh"}
          /\ KeepsLooks(run', run) /\ KeepsFails(run', run)
      BY <2>6 DEF Done, Acting
    <3>2. run'.trace = Append(run.trace, DoneStep)
      BY <2>6, Zenon DEF Done, DoneStep
    <3>3. Len(run'.trace) = Len(run.trace) + 1
      BY <3>2, TraceTypes, DoneStepTypes, AppendProperties
    <3>4. at' \in Looking => Goal
      BY <2>6 DEF Done, Looking
    <3>5. QED
      BY <1>0, <3>1, <3>3, <3>4 DEF StaleInv, KeepsLooks, KeepsFails
  <2>7. QED
    BY <1>4, <2>1, <2>2, <2>3, <2>4, <2>5, <2>6 DEF Onward
<1>5. QED
  BY <1>2, <1>3, <1>4, StepKinds

-----------------------------------------------------------------------------
(* Plans: as long as there was only one, it is what was begun.               *)

Follows(started, plan) ==
  Len(started) <= Len(plan) /\ \A i \in 1 .. Len(started) : started[i] = plan[i]

PlanInv ==
  /\ ~Goal => run.plans = {}
  /\ run.plans = {} /\ Goal => Len(run.started) = 0
  /\ \A plan \in run.plans : run.plans = {plan} => Follows(run.started, plan)

LEMMA PlanOutside ==
  ASSUME Outside
  PROVE  PlanInv
<1>1. run.plans = {} /\ run.started = <<>>
  BY DEF Outside, Fresh
<1>2. Len(run.started) = 0
  BY <1>1, EmptyLen, Zenon
<1>3. QED
  BY <1>1, <1>2 DEF PlanInv

\* What was begun before this round followed the plan, if it is the only one.
LEMMA FollowedSoFar ==
  ASSUME TypeInv, PlanInv, Goal, NEW plan \in Seq(Kinds), run.plans \subseteq {plan}
  PROVE  Follows(run.started, plan)
<1>1. CASE run.plans = {plan}
  BY <1>1 DEF PlanInv
<1>2. CASE run.plans = {}
  <2>1. Len(run.started) = 0 /\ Len(plan) \in Nat
    BY <1>2, LenProperties DEF PlanInv
  <2>2. QED
    BY <2>1 DEF Follows
<1>3. QED
  BY <1>1, <1>2

\* A plan all of whose actions were begun, in order, is exhausted.
LEMMA WholePlan ==
  ASSUME NEW plan \in Seq(Kinds), NEW l \in Locals, Follows(l.started, plan),
         Len(l.trace) = Len(l.started), Len(l.trace) >= Len(plan)
  PROVE  Exhausted(plan, l)
<1>1. PICK s \in Seq(Kinds) : s = l.started
  BY LocalsTypes
<1>2. PICK n \in Nat : n = Len(plan)
  BY LenProperties
<1>3. DOMAIN plan = 1 .. n /\ DOMAIN s = 1 .. Len(s) /\ Len(s) \in Nat
  BY <1>2, LenProperties
<1>4. Len(s) = n /\ \A i \in 1 .. n : s[i] = plan[i]
  BY <1>1, <1>2, <1>3 DEF Follows
<1>5. \A i \in 1 .. n : plan[i] \in Used(l)
  BY <1>1, <1>3, <1>4, Zenon DEF Used
<1>6. QED
  BY <1>3, <1>5 DEF Exhausted

LEMMA FollowsBegun ==
  ASSUME TypeInv, NEW plan \in Seq(Kinds), ~Exhausted(plan, run),
         Follows(run.started, plan), Len(run.trace) = Len(run.started)
  PROVE  Follows(Append(run.started, Chosen(plan, run)), plan)
<1>1. run \in Locals
  BY DEF TypeInv
<1>2. PICK s \in Seq(Kinds) : s = run.started
  BY TraceTypes
<1>3. PICK k \in Nat : k = Len(s)
  BY LenProperties
<1>4. PICK n \in Nat : n = Len(plan)
  BY LenProperties
<1>5. PICK kind \in Kinds : kind = Chosen(plan, run)
  BY <1>1, ChosenIsPlanned
<1>6. k < n
  <2>1. Len(run.trace) = k
    BY <1>2, <1>3
  <2>2. ~(k >= n)
    BY <1>1, <1>4, <2>1, WholePlan
  <2>3. QED
    BY <2>2
<1>7. kind = plan[k + 1]
  <2>1. Len(run.trace) = k /\ Len(run.trace) < Len(plan)
    BY <1>2, <1>3, <1>4, <1>6
  <2>2. QED
    BY <1>1, <1>5, <2>1, ChosenIsPlanned
<1>8. PICK t : t = Append(s, kind)
  OBVIOUS
<1>9. Len(t) = k + 1 /\ t[k + 1] = kind /\ \A i \in 1 .. k : t[i] = s[i]
  BY <1>3, <1>8, AppendProperties
<1>10. \A i \in 1 .. k : s[i] = plan[i]
  BY <1>2, <1>3 DEF Follows
<1>11. ASSUME NEW i \in 1 .. k + 1
       PROVE  t[i] = plan[i]
  <2>1. i = k + 1 \/ i \in 1 .. k
    OBVIOUS
  <2>2. QED
    BY <1>7, <1>9, <1>10, <2>1
<1>12. Follows(t, plan)
  BY <1>4, <1>6, <1>9, <1>11 DEF Follows
<1>13. QED
  BY <1>2, <1>5, <1>8, <1>12

LEMMA PlanStep ==
  ASSUME TypeInv, Control, Traced, PlanInv, [Next]_vars
  PROVE  PlanInv'
<1>1. ASSUME holder' = holder, run'.started = run.started, KeepsPlans(run', run)
      PROVE  PlanInv'
  BY <1>1 DEF PlanInv, KeepsPlans, Goal
<1>2. CASE Quiet
  BY <1>1, <1>2 DEF Quiet, KeepsWork, KeepsTrace
<1>3. CASE Outside'
  <2>1. (Outside => PlanInv)'
    BY PlanOutside, PTL
  <2>2. QED
    BY <1>3, <2>1
<1>4. CASE Onward
  <2>0. holder' = holder
    BY <1>4 DEF Onward
  <2>1. ASSUME at = "plan", NEW plan \in Planned, run'.plans = run.plans \cup {plan},
               run.plans \subseteq {plan} => Follows(run'.started, plan)
        PROVE  PlanInv'
    <3>1. Goal /\ Goal'
      BY <2>0, <2>1 DEF Control, Goal
    <3>2. ASSUME NEW p \in run'.plans, run'.plans = {p}
          PROVE  Follows(run'.started, p)
      <4>1. p = plan /\ run.plans \subseteq {plan}
        BY <2>1, <3>2
      <4>2. QED
        BY <2>1, <4>1
    <3>3. run'.plans # {}
      BY <2>1
    <3>4. QED
      BY <3>1, <3>2, <3>3 DEF PlanInv
  <2>2. CASE Walk \/ Observed \/ Round \/ Done
    BY <1>1, <2>0, <2>2 DEF Walk, Observed, Round, Done, KeepsTrace, KeepsPlans
  <2>3. CASE Halt
    <3>1. run'.started = run.started
      BY <2>3 DEF Halt, KeepsTrace
    <3>2. ASSUME at = "plan", NEW plan \in Planned, run'.plans = run.plans \cup {plan}
          PROVE  PlanInv'
      <4>1. plan \in Seq(Kinds) /\ Goal
        BY <3>2 DEF Planned, Control
      <4>2. QED
        BY <2>1, <3>1, <3>2, <4>1, FollowedSoFar
    <3>3. CASE KeepsPlans(run', run)
      BY <1>1, <2>0, <3>1, <3>3
    <3>4. QED
      BY <2>3, <3>2, <3>3 DEF Halt
  <2>4. CASE BegunPlanned
    <3>1. PICK plan \in Planned :
            /\ ~Exhausted(plan, run) /\ run'.plans = run.plans \cup {plan}
            /\ run'.started = Append(run.started, Chosen(plan, run))
      BY <2>4 DEF BegunPlanned, Begun
    <3>2. at = "plan" /\ plan \in Seq(Kinds) /\ Goal
      BY <2>4 DEF BegunPlanned, Planned, Control
    <3>3. Len(run.trace) = Len(run.started)
      BY <3>2 DEF Traced, Acting
    <3>4. run.plans \subseteq {plan} => Follows(run'.started, plan)
      BY <3>1, <3>2, <3>3, FollowedSoFar, FollowsBegun
    <3>5. QED
      BY <2>1, <3>1, <3>2, <3>4
  <2>5. CASE BegunScripted
    <3>1. ~Goal /\ run'.plans = run.plans
      BY <2>5 DEF BegunScripted, Control, KeepsPlans
    <3>2. QED
      BY <2>0, <3>1 DEF PlanInv, Goal
  <2>6. QED
    BY <1>4, <2>2, <2>3, <2>4, <2>5 DEF Onward
<1>5. QED
  BY <1>2, <1>3, <1>4, StepKinds

-----------------------------------------------------------------------------
(* The invariant of the goal loop, and what follows *)

LoopInv == CountInv /\ LooksInv /\ StaleInv /\ PlanInv

\* The counters of the goal loop count the repetitions that its histories
\* show, the snapshot is as old as the failures tell, and a plan that was
\* never replaced is what was begun.
THEOREM LoopInvariant == Spec => [](AgentInv /\ LoopInv)
<1>1. Init => AgentInv /\ LoopInv
  <2>1. Init => Outside
    BY BlankIsFresh DEF Init, Outside
  <2>2. QED
    BY <2>1, AgentInit, CountOutside, LooksOutside, StaleOutside, PlanOutside DEF LoopInv
<1>2. AgentInv /\ LoopInv /\ [Next]_vars => LoopInv'
  BY CountStep, LooksStep, StaleStep, PlanStep DEF AgentInv, LoopInv
<1>3. QED
  BY <1>1, <1>2, AgentInvariant, PTL DEF Spec

\* The types, and the limits of the three counters, which the code compares
\* only after it has counted (main.go:263-400).
THEOREM TypesAndLimits == Spec => []TypeOK
<1>1. AgentInv /\ LoopInv => TypeOK
  <2> SUFFICES ASSUME AgentInv, LoopInv
               PROVE  TypeOK
    OBVIOUS
  <2>1. TypeInv
    BY DEF AgentInv
  <2>2. ASSUME NEW r \in Requests
        PROVE  /\ answer[r].kind \in {"none", "ok", "blocked", "failed", "error"}
               /\ answer[r].trace \in Seq(Step) /\ answer[r].stop \in Stops
               /\ answer[r].shot \in Requests \cup {None} /\ answer[r].did \in Seq(Kinds)
    BY <2>1 DEF TypeInv, CallsOK, Answers, Replies
  <2>3. /\ run.trace \in Seq(Step) /\ run.stop \in Stops /\ run.snap \in Pages \cup {None}
        /\ run.failures \in Nat /\ run.repeats \in Nat /\ run.still \in Nat
    BY <2>1, LocalsTypes DEF TypeInv
  <2>4. /\ run.failures <= MaxFailures /\ run.repeats <= MaxRepeatActions
        /\ run.still <= MaxRepeatSnapshots
    BY DEF LoopInv, CountInv, LooksInv, StaleInv
  <2>5. /\ run.failures \in 0 .. MaxFailures /\ run.repeats \in 0 .. MaxRepeatActions
        /\ run.still \in 0 .. MaxRepeatSnapshots
    BY <2>3, <2>4
  <2>6. act.what \in Kinds /\ act.field \in {"old", "empty", "part", "text", "mixed"}
    BY <2>1, StepTypes DEF Fields
  <2>7. QED
    BY <2>1, <2>2, <2>3, <2>5, <2>6 DEF TypeOK, TypeInv, CallsOK, BrowserOK
<1>2. QED
  BY <1>1, LoopInvariant, PTL

\* README.md:573: a goal's run begins no action more than MaxRepeatActions
\* times in a row, plans nothing more once a page was seen MaxRepeatSnapshots
\* times again, and begins at most MaxSteps actions.
THEOREM AllLoopsAreCut == Spec => []LoopsAreCut
<1>1. AgentInv /\ LoopInv => LoopsAreCut
  <2> SUFFICES ASSUME AgentInv, LoopInv, Goal
               PROVE  /\ Len(run.started) <= MaxSteps
                      /\ NoRun(run.started, MaxRepeatActions)
                      /\ at = "plan" => NoRun(run.looks, MaxRepeatSnapshots)
    BY DEF LoopsAreCut
  <2>1. Len(run.started) <= MaxSteps
    <3>1. Len(run.trace) \in Nat
      BY TraceTypes DEF AgentInv
    <3>2. QED
      BY <3>1 DEF AgentInv, Traced
  <2>2. NoRun(run.started, MaxRepeatActions)
    BY DEF LoopInv, CountInv
  <2>3. at = "plan" => run.then # "finish"
    BY DEF AgentInv, Control, Looking
  <2>4. QED
    BY <2>1, <2>2, <2>3 DEF LoopInv, LooksInv
<1>2. QED
  BY <1>1, LoopInvariant, PTL

\* The planner is shown a page that is out of date by no more steps than
\* refreshes have failed, and that is at most MaxFailures (main.go:371-383).
THEOREM StaleSnapshotsCounted == Spec => []StaleSnapshotCounted
<1>1. AgentInv /\ LoopInv => StaleSnapshotCounted
  BY DEF AgentInv, Control, LoopInv, StaleInv, StaleSnapshotCounted
<1>2. QED
  BY <1>1, LoopInvariant, PTL

\* A plan that the planner sticks to is carried out from its beginning and
\* without a step left out (planner.go:87-137).
THEOREM EachPlanFollowed == Spec => []PlanFollowed
<1>1. AgentInv /\ LoopInv => PlanFollowed
  <2>1. ASSUME AgentInv, LoopInv
        PROVE  DOMAIN run.started = 1 .. Len(run.started)
    BY <2>1, TraceTypes, LenProperties DEF AgentInv
  <2>2. QED
    BY <2>1, Zenon DEF LoopInv, PlanInv, Follows, PlanFollowed
<1>2. QED
  BY <1>1, LoopInvariant, PTL

-----------------------------------------------------------------------------
(* Every run ends: how many steps it can still take.                         *)

\* The place of a stage in a round, from the last one; the stages before the
\* first round come first, the ones after the last round at the end.
Place(stage, then, field) ==
  CASE stage = "dial" -> 20 [] stage = "navigate" -> 19 [] stage = "render" -> 18
    [] stage = "look" /\ then = "start" -> 17 [] stage = "recheck" /\ then = "start" -> 16
    [] stage = "observe" -> 15
    [] stage = "look" /\ then = "next" -> 14 [] stage = "recheck" /\ then = "next" -> 13
    [] stage = "refresh" -> 12 [] stage = "plan" -> 11
    [] stage \in {"await", "pause"} -> 10
    [] stage = "human" /\ field = "old" -> 9 [] stage = "human" /\ field = "empty" -> 8
    [] stage = "human" /\ field \notin {"old", "empty"} -> 7
    [] stage = "plain" -> 6 [] stage = "confirm" -> 5 [] stage = "check" -> 4
    [] stage = "script" -> 3
    [] stage = "look" /\ then = "finish" -> 2 [] stage = "recheck" /\ then = "finish" -> 1
    [] stage \in {"report", "capture", "idle"} -> 0

RoundsLeft(l, r) ==
  IF l.then = "finish" THEN 0
  ELSE IF r \in Goals THEN MaxSteps - Len(l.trace) ELSE Len(l.todo)

StepsLeft == 21 * RoundsLeft(run, holder) + Place(at, run.then, act.field)

LEMMA PlaceBounds ==
  ASSUME NEW stage \in Stages, NEW then \in {"start", "next", "finish"}, NEW field
  PROVE  Place(stage, then, field) \in 0 .. 20
<1>1. CASE stage \in Looking
  <2>1. CASE stage = "look"
    BY <2>1 DEF Place
  <2>2. CASE stage = "recheck"
    BY <2>2 DEF Place
  <2>3. QED
    BY <1>1, <2>1, <2>2 DEF Looking
<1>2. CASE stage = "human"
  BY <1>2 DEF Place
<1>3. CASE stage \in Acting \ {"human"}
  BY <1>3 DEF Place, Acting
<1>4. CASE stage \notin Looking \cup Acting
  BY <1>4 DEF Place, Stages, Looking, Acting
<1>5. QED
  BY <1>1, <1>2, <1>3, <1>4

LEMMA RoundsBounds ==
  ASSUME TypeInv, Traced
  PROVE  /\ RoundsLeft(run, holder) \in Nat
         /\ Goal => RoundsLeft(run, holder) <= MaxSteps
<1>1. Len(run.trace) \in Nat /\ Len(run.todo) \in Nat
  BY TraceTypes, LocalsTypes, LenProperties DEF TypeInv
<1>2. Goal => Len(run.trace) <= MaxSteps
  BY DEF Traced
<1>3. QED
  BY <1>1, <1>2 DEF RoundsLeft, Goal

LEMMA StepsBounds ==
  ASSUME TypeInv, Traced
  PROVE  StepsLeft \in Nat /\ (Goal => StepsLeft <= 21 * MaxSteps + 20)
<1>1. PICK n \in Nat : n = RoundsLeft(run, holder) /\ (Goal => n <= MaxSteps)
  BY RoundsBounds
<1>2. PICK p \in 0 .. 20 : p = Place(at, run.then, act.field)
  BY PlaceBounds, LocalsTypes DEF TypeInv
<1>3. StepsLeft = 21 * n + p
  BY <1>1, <1>2 DEF StepsLeft
<1>4. QED
  BY <1>1, <1>3

\* The steps of a run that go on within a round, and those that end one.
LEMMA ShorterRound ==
  ASSUME TypeInv, Traced, TypeInv', Traced',
         \/ /\ RoundsLeft(run', holder') <= RoundsLeft(run, holder)
            /\ Place(at', run'.then, act'.field) < Place(at, run.then, act.field)
         \/ RoundsLeft(run', holder') < RoundsLeft(run, holder)
  PROVE  StepsLeft' < StepsLeft
<1>1. PICK n \in Nat : n = RoundsLeft(run, holder)
  BY RoundsBounds
<1>2. PICK p \in 0 .. 20 : p = Place(at, run.then, act.field)
  BY PlaceBounds, LocalsTypes DEF TypeInv
<1>3. PICK m \in Nat : m = RoundsLeft(run', holder')
  <2>1. (TypeInv /\ Traced => RoundsLeft(run, holder) \in Nat)'
    BY RoundsBounds, PTL
  <2>2. QED
    BY <2>1
<1>4. PICK q \in 0 .. 20 : q = Place(at', run'.then, act'.field)
  <2>1. at' \in Stages /\ run' \in Locals
    BY DEF TypeInv
  <2>2. run'.then \in {"start", "next", "finish"}
    BY <2>1, LocalsTypes
  <2>3. QED
    BY <2>1, <2>2, PlaceBounds
<1>5. (m <= n /\ q < p) \/ m < n
  BY <1>1, <1>2, <1>3, <1>4
<1>6. 21 * m + q < 21 * n + p
  BY <1>5
<1>7. StepsLeft = 21 * n + p /\ StepsLeft' = 21 * m + q
  BY <1>1, <1>2, <1>3, <1>4 DEF StepsLeft
<1>8. QED
  BY <1>6, <1>7

\* What the attempts at an action leave to do.
LEMMA ShorterAttempt ==
  ASSUME TypeInv, ActInv, NEW then, at' \in Acting,
         \/ Await \/ HumanClick \/ HumanScroll \/ HumanType \/ FallBack
         \/ PlainType \/ PlainClick \/ PlainEnter \/ PlainOther \/ Confirm \/ Pause
  PROVE  Place(at', then, act'.field) < Place(at, then, act.field)
<1>1. ~StepFails
  BY ReplyMoves DEF Acting
<1>2. CASE Await
  BY <1>1, <1>2 DEF Await, Goto, Place
<1>3. CASE HumanClick \/ HumanScroll
  <2>1. at = "human" /\ at' = "check"
    BY <1>3 DEF HumanClick, HumanScroll, Goto
  <2>2. QED
    BY <2>1 DEF Place
<1>4. CASE HumanType
  <2>1. /\ at = "human" /\ act' = [act EXCEPT !.field = TypedSoFar(@)]
        /\ at' = IF act.field = "part" THEN "confirm" ELSE "human"
    BY <1>4 DEF HumanType, Goto
  <2>2. PICK f : f = TypedSoFar(act.field)
    OBVIOUS
  <2>3. act'.field = f
    BY <2>1, <2>2, TypedUpdate
  <2>4. act.field \in {"old", "empty", "part"}
    BY <2>1 DEF ActInv
  <2>5. CASE act.field = "part"
    BY <2>1, <2>5 DEF Place
  <2>6. CASE act.field = "old"
    BY <2>1, <2>2, <2>3, <2>6 DEF Place, TypedSoFar
  <2>7. CASE act.field = "empty"
    BY <2>1, <2>2, <2>3, <2>7 DEF Place, TypedSoFar
  <2>8. QED
    BY <2>4, <2>5, <2>6, <2>7
<1>5. CASE FallBack
  <2>1. at = "human" /\ at' = "plain"
    BY <1>5 DEF FallBack, Goto
  <2>2. QED
    BY <2>1 DEF Place
<1>6. CASE PlainType \/ PlainClick \/ PlainEnter \/ PlainOther
  <2>1. at = "plain" /\ at' \in {"confirm", "check"}
    BY <1>6 DEF PlainType, PlainClick, PlainEnter, PlainOther, Goto
  <2>2. QED
    BY <2>1 DEF Place
<1>7. CASE Confirm \/ Pause
  <2>1. at \in {"confirm", "pause"} /\ at' = "check"
    BY <1>1, <1>7 DEF Confirm, Pause, Goto
  <2>2. QED
    BY <2>1 DEF Place
<1>8. QED
  BY <1>2, <1>3, <1>4, <1>5, <1>6, <1>7

LEMMA SameRounds ==
  ASSUME NEW l, NEW m, NEW r, KeepsEnd(m, l), m.trace = l.trace, r \in Goals \/ m.todo = l.todo
  PROVE  RoundsLeft(m, r) = RoundsLeft(l, r)
BY DEF KeepsEnd, RoundsLeft

\* A run that goes on without any news is a stage further.
LEMMA ShorterWalk ==
  ASSUME AgentInv, holder # None, Execution, Onward, Walk
  PROVE  Place(at', run.then, act'.field) < Place(at, run.then, act.field)
<1>1. CASE at \notin Acting
  <2>1. at = "render" => run.then = "start"
    BY DEF AgentInv, Control, Early, Fresh
  <2>2. CASE at \in {"dial", "navigate"}
    BY <1>1, <2>2 DEF Walk, Looking, Place
  <2>3. CASE at = "render"
    BY <1>1, <2>1, <2>3 DEF Walk, Looking, Place
  <2>4. CASE at \in Looking /\ at' = "recheck"
    <3>1. run.then \in {"start", "next", "finish"}
      BY LocalsTypes DEF AgentInv, TypeInv
    <3>2. at = "look"
      BY <1>1, <2>4, Zenon DEF Walk
    <3>3. QED
      BY <2>4, <3>1, <3>2 DEF Place
  <2>5. CASE at \in Looking /\ run.then = "start" /\ at' \in {"observe", "script"}
    BY <2>5 DEF Looking, Place
  <2>6. CASE at \in Looking /\ run.then = "next" /\ at' = "refresh"
    BY <2>6 DEF Looking, Place
  <2>7. CASE at \in Looking /\ run.then = "finish" /\ at' = "report"
    BY <2>7 DEF Looking, Place
  <2>8. QED
    BY <1>1, <2>2, <2>3, <2>4, <2>5, <2>6, <2>7 DEF Walk, Looking
<1>2. CASE at \in Acting
  <2>1. at' \in Acting
    BY <1>2 DEF Walk, Acting, Looking
  <2>2. at' # "idle"
    BY <2>1 DEF Acting
  <2>3. CASE \/ Await \/ HumanClick \/ HumanScroll \/ HumanType \/ FallBack
             \/ PlainType \/ PlainClick \/ PlainEnter \/ PlainOther \/ Confirm \/ Pause
    BY <2>1, <2>3, ShorterAttempt DEF AgentInv
  <2>4. CASE HumanAborted \/ PlainFails \/ Check
    <3>1. StepFails \/ StepDone
      BY <2>4 DEF HumanAborted, PlainFails, Check
    <3>2. StepDone => at' \notin Acting
      BY DEF StepDone, Goto, Acting
    <3>3. QED
      BY <2>1, <2>2, <3>1, <3>2, ReplyMoves
  <2>5. QED
    BY <1>2, <2>3, <2>4
       DEF Execution, Acting, Dial, Capture, Navigate, Render, Look, Recheck, Report,
           Observe, Plan, RefreshFails, Refresh, Script
<1>3. QED
  BY <1>1, <1>2

LEMMA OnwardShorter ==
  ASSUME AgentInv, TypeInv', Traced', holder # None, Execution, Onward
  PROVE  StepsLeft' < StepsLeft
<1>1. holder' = holder /\ TypeInv /\ Traced /\ RoundsLeft(run, holder) \in Nat
  BY RoundsBounds DEF Onward, AgentInv
<1>2. run.then = "finish" => at \in Looking \cup {"report"}
  BY DEF AgentInv, Control
<1>3. CASE Walk
  <2>1. run' = run
    BY <1>3 DEF Walk
  <2>2. RoundsLeft(run', holder') <= RoundsLeft(run, holder)
    BY <1>1, <2>1
  <2>3. Place(at', run'.then, act'.field) < Place(at, run.then, act.field)
    BY <1>3, <2>1, ShorterWalk
  <2>4. QED
    BY <1>1, <2>2, <2>3, ShorterRound
<1>4. CASE Observed \/ Round \/ BegunPlanned
  <2>1. at \in {"observe", "refresh", "plan"} /\ Goal
    BY <1>4 DEF Observed, Round, BegunPlanned, AgentInv, Control
  <2>2. KeepsEnd(run', run) /\ run'.trace = run.trace
    BY <1>4 DEF Observed, Round, BegunPlanned, Begun, KeepsTrace
  <2>3. RoundsLeft(run', holder') = RoundsLeft(run, holder)
    BY <1>1, <2>1, <2>2, SameRounds DEF Goal
  <2>4. CASE Observed \/ Round
    <3>1. at \in {"observe", "refresh"} /\ at' = "plan"
      BY <2>4 DEF Observed, Round
    <3>2. Place(at', run'.then, act'.field) < Place(at, run.then, act.field)
      BY <3>1 DEF Place
    <3>3. QED
      BY <1>1, <2>3, <3>2, ShorterRound
  <2>5. CASE BegunPlanned
    <3>1. at = "plan" /\ at' \in Acting \ {"confirm", "check"}
      BY <2>5 DEF BegunPlanned, Begun
    <3>2. at' \in {"await", "human", "plain", "pause"}
      BY <3>1 DEF Acting
    <3>3. Place(at', run'.then, act'.field) <= 10
      BY <3>2 DEF Place
    <3>4. Place(at', run'.then, act'.field) \in Int /\ Place(at, run.then, act.field) = 11
      BY <3>1, <3>2 DEF Place
    <3>5. QED
      BY <1>1, <2>3, <3>3, <3>4, ShorterRound
  <2>6. QED
    BY <1>4, <2>4, <2>5
<1>5. CASE Halt
  <2>1. at' = "look" /\ run'.then = "finish"
    BY <1>5 DEF Halt
  <2>2. at \in {"plan", "refresh", "script"} \/ (at \in Looking /\ run.then = "next")
    BY <1>5 DEF Halt
  <2>3. RoundsLeft(run', holder') <= RoundsLeft(run, holder)
    BY <1>1, <2>1 DEF RoundsLeft
  <2>4. Place(at', run'.then, act'.field) = 2
    BY <2>1 DEF Place
  <2>5. 2 < Place(at, run.then, act.field)
    <3>1. CASE at \in {"plan", "refresh", "script"}
      BY <3>1 DEF Place
    <3>2. CASE at \in Looking /\ run.then = "next"
      BY <3>2 DEF Place, Looking
    <3>3. QED
      BY <2>2, <3>1, <3>2
  <2>6. QED
    BY <1>1, <2>3, <2>4, <2>5, ShorterRound
<1>6. CASE BegunScripted
  <2>1. /\ at = "script" /\ run'.then = run.then /\ run.then # "finish"
        /\ run.todo # <<>> /\ run'.todo = Tail(run.todo)
    BY <1>2, <1>6 DEF BegunScripted, Begun, KeepsEnd, Looking
  <2>2. holder \notin Goals
    BY <2>1 DEF AgentInv, Control, Goal
  <2>3. PICK todo \in Seq(Kinds) : todo = run.todo
    BY <1>1, LocalsTypes DEF TypeInv
  <2>4. Len(todo) \in Nat /\ Len(Tail(todo)) = Len(todo) - 1
    BY <2>1, <2>3, LenProperties, HeadTailProperties
  <2>5. RoundsLeft(run, holder) = Len(todo) /\ RoundsLeft(run', holder') = Len(Tail(todo))
    BY <1>1, <2>1, <2>2, <2>3 DEF RoundsLeft
  <2>6. RoundsLeft(run', holder') < RoundsLeft(run, holder)
    BY <2>4, <2>5
  <2>7. QED
    BY <1>1, <2>6, ShorterRound
<1>7. CASE Done
  <2>1. at = "check" /\ run.then # "finish"
    BY <1>2, <1>7 DEF Done, Looking
  <2>2. CASE Goal
    <3>1. PICK trace \in Seq(Step) : trace = run.trace
      BY <1>1, LocalsTypes DEF TypeInv
    <3>2. /\ run'.then = "next"
          /\ run'.trace = Append(trace, [what |-> act.what, ok |-> TRUE])
      BY <1>7, <2>2, <3>1 DEF Done
    <3>3. [what |-> act.what, ok |-> TRUE] \in Step
      BY <1>1, DoneStepTypes DEF DoneStep
    <3>4. Len(trace) \in Nat /\ Len(run'.trace) = Len(trace) + 1
      BY <3>2, <3>3, LenProperties, AppendProperties
    <3>5. /\ RoundsLeft(run, holder) = MaxSteps - Len(trace)
          /\ RoundsLeft(run', holder') = MaxSteps - Len(run'.trace)
      BY <1>1, <2>1, <2>2, <3>1, <3>2 DEF RoundsLeft, Goal
    <3>6. RoundsLeft(run', holder') < RoundsLeft(run, holder)
      BY <3>4, <3>5
    <3>7. QED
      BY <1>1, <3>6, ShorterRound
  <2>3. CASE ~Goal
    <3>1. at' = "script" /\ KeepsEnd(run', run) /\ run'.todo = run.todo
      BY <1>7, <2>3 DEF Done, KeepsEnd
    <3>2. RoundsLeft(run', holder') = RoundsLeft(run, holder)
      BY <1>1, <2>3, <3>1 DEF RoundsLeft, Goal, KeepsEnd
    <3>3. Place(at', run'.then, act'.field) < Place(at, run.then, act.field)
      BY <2>1, <3>1 DEF Place
    <3>4. QED
      BY <1>1, <3>2, <3>3, ShorterRound
  <2>4. QED
    BY <2>2, <2>3
<1>8. QED
  BY <1>3, <1>4, <1>5, <1>6, <1>7 DEF Onward

\* A run of a node ends whatever the pages, the plans and the failures: the
\* steps left of the request that holds the lock are a number, for a goal no
\* more than the limit of its rounds allows; nothing that another call, the
\* page or the timeout does adds to them, and every step of the execution
\* takes from them until it answers (main.go:263-431).
THEOREM EveryRunGetsShorter ==
  Spec => /\ [](holder # None => StepsLeft \in Nat /\ (Goal => StepsLeft <= 21 * MaxSteps + 20))
          /\ [][holder # None /\ holder' = holder =>
                 StepsLeft' <= StepsLeft /\ (Execution => StepsLeft' < StepsLeft)]_vars
<1>1. AgentInv => StepsLeft \in Nat /\ (Goal => StepsLeft <= 21 * MaxSteps + 20)
  BY StepsBounds DEF AgentInv
<1>2. ASSUME AgentInv, AgentInv', [Next]_vars, holder # None, holder' = holder
      PROVE  StepsLeft' <= StepsLeft /\ (Execution => StepsLeft' < StepsLeft)
  <2>1. TypeInv /\ TypeInv' /\ Traced' /\ StepsLeft \in Nat
    BY <1>2, StepsBounds DEF AgentInv
  <2>2. CASE Execution
    <3>1. ~Replied
      BY <1>2, ReplyMoves DEF Replied
    <3>2. StepsLeft' < StepsLeft /\ StepsLeft' \in Nat
      <4>1. StepsLeft' < StepsLeft
        BY <1>2, <2>1, <2>2, <3>1, ExecutionKinds, OnwardShorter
      <4>2. (AgentInv => StepsLeft \in Nat)'
        BY <1>1, PTL
      <4>3. QED
        BY <1>2, <4>1, <4>2
    <3>3. QED
      BY <2>1, <3>2
  <2>3. CASE ~Execution
    <3>1. CASE Aside
      BY <2>1, <2>3, <3>1 DEF Aside, StepsLeft
    <3>2. CASE Expire
      <4>1. KeepsEnd(run', run) /\ run'.trace = run.trace /\ run'.todo = run.todo
            /\ UNCHANGED <<at, act>>
        BY <2>1, <3>2, ExpireMoves DEF KeepsWork, KeepsTrace
      <4>2. RoundsLeft(run', holder') = RoundsLeft(run, holder)
        BY <1>2, <4>1 DEF RoundsLeft, KeepsEnd
      <4>3. StepsLeft' = StepsLeft
        BY <4>1, <4>2 DEF StepsLeft, KeepsEnd
      <4>4. QED
        BY <2>1, <2>3, <4>3
    <3>3. ~\E r \in Requests : Acquire(r)
      BY <1>2 DEF Acquire
    <3>4. QED
      BY <1>2, <2>1, <2>3, <3>1, <3>2, <3>3, AsideTypes DEF Next
  <2>4. QED
    BY <2>2, <2>3
<1>3. QED
  BY <1>1, <1>2, AgentInvariant, PTL DEF Spec

=============================================================================
