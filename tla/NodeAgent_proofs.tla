-------------------------- MODULE NodeAgent_proofs --------------------------
(***************************************************************************)
(* Proofs about NodeAgent for any number of requests, any plans, scripts   *)
(* and pages, any limits of the goal loop, and any number of faults: what  *)
(* the steps of the agent do to its locals, and the invariants about the   *)
(* answers, the actions and the screenshots.  The invariants of the goal   *)
(* loop are in NodeAgent_loops.                                            *)
(***************************************************************************)
EXTENDS NodeAgent, FiniteSetTheorems, SequenceTheorems, TLAPS

USE AgentAssumption

-----------------------------------------------------------------------------
(* Types *)

Acting  == {"await", "human", "plain", "confirm", "pause", "check"}
Looking == {"look", "recheck"}
Fields  == {"old", "empty", "part", "text", "mixed"}
Replies == {"none", "ok", "blocked", "failed", "error"}
Answers ==
  [ kind : Replies, trace : Seq(Step), stop : Stops, shot : Requests \cup {None}, did : Seq(Kinds) ]
Locals ==
  [ then : {"start", "next", "finish"}, todo : Seq(Kinds), trace : Seq(Step), stop : Stops,
    snap : Pages \cup {None}, snapAt : Nat, failures : Nat,
    last : Kinds \cup {""}, repeats : Nat, still : Nat, expired : BOOLEAN,
    looks : Seq(Pages), plans : SUBSET Seq(Kinds), started : Seq(Kinds) ]
Acts == [what : Kinds, clicks : Nat, field : Fields]

CallsOK ==
  /\ client \in [Requests -> {"new", "calling", "done", "gone"}] /\ lapsed \subseteq Requests
  /\ rpc \in [Requests -> {"execute", "snapshot"}]
  /\ state \in [Requests -> {"idle", "queued", "running", "replied"}]
  /\ cancelled \in [Requests -> BOOLEAN]
  /\ answer \in [Requests -> Answers]
  /\ holder \in Requests \cup {None}
BrowserOK ==
  /\ conn \in {"closed", "open", "broken"} /\ page \in Pages
  /\ driver \in Requests \cup {None} /\ faults \in 0 .. MaxFaults
TypeInv == CallsOK /\ BrowserOK /\ at \in Stages /\ run \in Locals /\ act \in Acts

-----------------------------------------------------------------------------
(* What the updates of the locals leave alone *)

KeepsEnd(m, l)   == m.then = l.then /\ m.stop = l.stop
KeepsTrace(m, l) == m.trace = l.trace /\ m.started = l.started
KeepsCount(m, l) == m.last = l.last /\ m.repeats = l.repeats
KeepsLooks(m, l) ==
  m.looks = l.looks /\ m.snap = l.snap /\ m.snapAt = l.snapAt /\ m.still = l.still
KeepsFails(m, l) == m.failures = l.failures
KeepsPlans(m, l) == m.plans = l.plans

LEMMA BlankTypes == Blank \in Locals /\ NoAct \in Acts /\ NoAnswer \in Answers
BY EmptySeq DEF Blank, Locals, NoAct, Acts, NoAnswer, Answers, Stops, Kinds, Fields, Replies

LEMMA LocalsTypes ==
  ASSUME NEW l \in Locals
  PROVE  /\ l.then \in {"start", "next", "finish"} /\ l.stop \in Stops
         /\ l.todo \in Seq(Kinds) /\ l.trace \in Seq(Step) /\ l.started \in Seq(Kinds)
         /\ l.last \in Kinds \cup {""} /\ l.repeats \in Nat
         /\ l.looks \in Seq(Pages) /\ l.snap \in Pages \cup {None} /\ l.snapAt \in Nat
         /\ l.still \in Nat /\ l.failures \in Nat /\ l.plans \in SUBSET Seq(Kinds)
BY Zenon DEF Locals

LEMMA TodoUpdate ==
  ASSUME NEW l \in Locals, NEW todo \in Seq(Kinds), NEW m, m = [l EXCEPT !.todo = todo]
  PROVE  /\ m \in Locals /\ m.todo = todo
         /\ KeepsEnd(m, l) /\ KeepsTrace(m, l) /\ KeepsCount(m, l) /\ KeepsLooks(m, l)
         /\ KeepsFails(m, l) /\ KeepsPlans(m, l)
BY DEF Locals, KeepsEnd, KeepsTrace, KeepsCount, KeepsLooks, KeepsFails, KeepsPlans

LEMMA ExpiredUpdate ==
  ASSUME NEW l \in Locals, NEW m, m = [l EXCEPT !.expired = TRUE]
  PROVE  /\ m \in Locals /\ m.todo = l.todo
         /\ KeepsEnd(m, l) /\ KeepsTrace(m, l) /\ KeepsCount(m, l) /\ KeepsLooks(m, l)
         /\ KeepsFails(m, l) /\ KeepsPlans(m, l)
BY DEF Locals, KeepsEnd, KeepsTrace, KeepsCount, KeepsLooks, KeepsFails, KeepsPlans

LEMMA FinishUpdate ==
  ASSUME NEW l \in Locals, NEW m, m = [l EXCEPT !.then = "finish"]
  PROVE  /\ m \in Locals /\ m.then = "finish" /\ m.stop = l.stop
         /\ KeepsTrace(m, l) /\ KeepsCount(m, l) /\ KeepsLooks(m, l)
         /\ KeepsFails(m, l) /\ KeepsPlans(m, l)
BY DEF Locals, KeepsTrace, KeepsCount, KeepsLooks, KeepsFails, KeepsPlans

LEMMA StopUpdate ==
  ASSUME NEW l \in Locals, NEW why \in Stops, NEW m, m = [l EXCEPT !.stop = why]
  PROVE  /\ m \in Locals /\ m.then = l.then /\ m.stop = why
         /\ KeepsTrace(m, l) /\ KeepsCount(m, l) /\ KeepsLooks(m, l)
         /\ KeepsFails(m, l) /\ KeepsPlans(m, l)
BY DEF Locals, KeepsTrace, KeepsCount, KeepsLooks, KeepsFails, KeepsPlans

LEMMA OnePage ==
  ASSUME NEW p \in Pages
  PROVE  <<p>> \in Seq(Pages)
<1>1. <<p>> \in [1 .. 1 -> Pages]
  OBVIOUS
<1>2. QED
  BY <1>1, SeqDef

SeenFirst(l, p, looks) == [l EXCEPT !.snap = p, !.looks = looks]

LEMMA ObserveUpdate ==
  ASSUME NEW l \in Locals, NEW p \in Pages, NEW looks \in Seq(Pages),
         NEW m, m = SeenFirst(l, p, looks)
  PROVE  /\ m \in Locals /\ m.snap = p /\ m.looks = looks
         /\ m.snapAt = l.snapAt /\ m.still = l.still
         /\ KeepsEnd(m, l) /\ KeepsTrace(m, l) /\ KeepsCount(m, l)
         /\ KeepsFails(m, l) /\ KeepsPlans(m, l)
BY DEF SeenFirst, Locals, KeepsEnd, KeepsTrace, KeepsCount, KeepsFails, KeepsPlans

LEMMA PlansUpdate ==
  ASSUME NEW l \in Locals, NEW plan \in Seq(Kinds), NEW m, m = [l EXCEPT !.plans = @ \cup {plan}]
  PROVE  /\ m \in Locals /\ m.plans = l.plans \cup {plan}
         /\ KeepsEnd(m, l) /\ KeepsTrace(m, l) /\ KeepsCount(m, l) /\ KeepsLooks(m, l)
         /\ KeepsFails(m, l)
BY DEF Locals, KeepsEnd, KeepsTrace, KeepsCount, KeepsLooks, KeepsFails

LEMMA CountedUpdate ==
  ASSUME NEW l \in Locals, NEW kind \in Kinds, NEW m, m = Counted(l, kind)
  PROVE  /\ m \in Locals /\ m.last = kind
         /\ m.repeats = IF kind = l.last THEN l.repeats + 1 ELSE 1
         /\ KeepsEnd(m, l) /\ KeepsTrace(m, l) /\ KeepsLooks(m, l)
         /\ KeepsFails(m, l) /\ KeepsPlans(m, l)
<1>1. PICK n \in Nat : n = IF kind = l.last THEN l.repeats + 1 ELSE 1
  <2>1. l.repeats \in Nat
    BY LocalsTypes
  <2>2. QED
    BY <2>1
<1>2. m = [l EXCEPT !.last = kind, !.repeats = n]
  BY <1>1, Zenon DEF Counted
<1>3. /\ m \in Locals /\ m.last = kind /\ m.repeats = n
      /\ KeepsEnd(m, l) /\ KeepsTrace(m, l) /\ KeepsLooks(m, l)
      /\ KeepsFails(m, l) /\ KeepsPlans(m, l)
  <2>1. m \in Locals /\ m.last = kind /\ m.repeats = n
    BY <1>2 DEF Locals
  <2>2. QED
    BY <1>2, <2>1 DEF Locals, KeepsEnd, KeepsTrace, KeepsLooks, KeepsFails, KeepsPlans
<1>4. QED
  BY <1>1, <1>3

LEMMA StartedUpdate ==
  ASSUME NEW l \in Locals, NEW kind \in Kinds, NEW m, m = [l EXCEPT !.started = Append(@, kind)]
  PROVE  /\ m \in Locals /\ m.started = Append(l.started, kind) /\ m.trace = l.trace
         /\ m.todo = l.todo
         /\ KeepsEnd(m, l) /\ KeepsCount(m, l) /\ KeepsLooks(m, l)
         /\ KeepsFails(m, l) /\ KeepsPlans(m, l)
BY AppendProperties DEF Locals, KeepsEnd, KeepsCount, KeepsLooks, KeepsFails, KeepsPlans

LEMMA FailedUpdate ==
  ASSUME NEW l \in Locals, NEW m, m = Failed(l)
  PROVE  /\ m \in Locals /\ m.failures = l.failures + 1
         /\ KeepsEnd(m, l) /\ KeepsTrace(m, l) /\ KeepsCount(m, l) /\ KeepsLooks(m, l)
         /\ KeepsPlans(m, l)
<1>1. PICK n \in Nat : n = l.failures + 1
  <2>1. l.failures \in Nat
    BY LocalsTypes
  <2>2. QED
    BY <2>1
<1>2. m = [l EXCEPT !.failures = n]
  BY <1>1, Zenon DEF Failed
<1>3. /\ m \in Locals /\ m.failures = n
      /\ KeepsEnd(m, l) /\ KeepsTrace(m, l) /\ KeepsCount(m, l) /\ KeepsLooks(m, l)
      /\ KeepsPlans(m, l)
  BY <1>2 DEF Locals, KeepsEnd, KeepsTrace, KeepsCount, KeepsLooks, KeepsPlans
<1>4. QED
  BY <1>1, <1>3

SeenAgain(l, p, n, still, looks) ==
  [l EXCEPT !.still = still, !.snap = p, !.snapAt = n, !.looks = looks]

LEMMA TraceUpdate ==
  ASSUME NEW l \in Locals, NEW trace \in Seq(Step), NEW m, m = [l EXCEPT !.trace = trace]
  PROVE  /\ m \in Locals /\ m.trace = trace /\ m.started = l.started
         /\ m.todo = l.todo
         /\ KeepsEnd(m, l) /\ KeepsCount(m, l) /\ KeepsLooks(m, l)
         /\ KeepsFails(m, l) /\ KeepsPlans(m, l)
BY DEF Locals, KeepsEnd, KeepsCount, KeepsLooks, KeepsFails, KeepsPlans

LEMMA NextUpdate ==
  ASSUME NEW l \in Locals, NEW m, m = [l EXCEPT !.then = "next"]
  PROVE  /\ m \in Locals /\ m.then = "next" /\ m.stop = l.stop /\ m.todo = l.todo
         /\ KeepsTrace(m, l) /\ KeepsCount(m, l) /\ KeepsLooks(m, l)
         /\ KeepsFails(m, l) /\ KeepsPlans(m, l)
BY DEF Locals, KeepsTrace, KeepsCount, KeepsLooks, KeepsFails, KeepsPlans

-----------------------------------------------------------------------------
(* The steps, by what they do to the locals of the request that runs *)

\* A step of somebody else, of the page, or none.
Aside == UNCHANGED <<holder, conn, at, run, act>>

\* The run goes on without any news.
Walk ==
  /\ run' = run
  /\ IF at \in Acting THEN act'.what = act.what ELSE act' = act
  /\ \/ at = "dial" /\ at' = IF rpc[holder] = "execute" THEN "navigate" ELSE "capture"
     \/ at = "navigate" /\ at' = "render"
     \/ at = "render" /\ at' = "look"
     \/ at = "look" /\ at' = "recheck"
     \/ at \in Looking /\ run.then = "start" /\ at' = IF Goal THEN "observe" ELSE "script"
     \/ at \in Looking /\ run.then = "next" /\ ~ActionLoop(run) /\ at' = "refresh"
     \/ at \in Looking /\ run.then = "finish" /\ at' = "report"
     \/ at \in Acting /\ at' \in Acting

Observed ==
  /\ at = "observe" /\ at' = "plan" /\ act' = act
  /\ run'.snap = page /\ run'.looks = <<page>>
  /\ run'.snapAt = run.snapAt /\ run'.still = run.still
  /\ KeepsEnd(run', run) /\ KeepsTrace(run', run) /\ KeepsCount(run', run)
  /\ KeepsFails(run', run) /\ KeepsPlans(run', run)

\* A refresh that worked, and one that did not.
SeesAgain ==
  /\ run'.looks = Append(run.looks, page) /\ run'.snap = page
  /\ run'.snapAt = Len(run.trace)
  /\ run'.still = (IF page = run.snap THEN run.still + 1 ELSE 0)
  /\ KeepsFails(run', run)
SeesNothing ==
  /\ KeepsLooks(run', run)
  /\ run'.failures = run.failures + 1 /\ run'.failures <= MaxFailures

\* The reasons to stop, each with what it changes besides.
Halt ==
  /\ at' = "look" /\ run'.then = "finish" /\ act' = act
  /\ KeepsTrace(run', run) /\ KeepsCount(run', run)
  /\ \/ /\ at \in Looking /\ run.then = "next"
        /\ run'.stop = "loop_detected_repeated_action"
        /\ KeepsLooks(run', run) /\ KeepsFails(run', run) /\ KeepsPlans(run', run)
     \/ /\ at = "plan" /\ run'.stop \in {"no_actions", "plan_exhausted"}
        /\ \E plan \in Planned : run'.plans = run.plans \cup {plan}
        /\ KeepsLooks(run', run) /\ KeepsFails(run', run)
     \/ /\ at = "refresh" /\ run'.stop = "max_planner_steps_reached"
        /\ Len(run.trace) >= MaxSteps
        /\ SeesNothing \/ (SeesAgain /\ run'.still < MaxRepeatSnapshots)
        /\ KeepsPlans(run', run)
     \/ /\ at = "refresh" /\ run'.stop = "loop_detected_repeated_snapshot"
        /\ SeesAgain /\ KeepsPlans(run', run)
     \/ /\ at = "script" /\ run'.stop = run.stop
        /\ KeepsLooks(run', run) /\ KeepsFails(run', run) /\ KeepsPlans(run', run)

\* The next round.
Round ==
  /\ at = "refresh" /\ at' = "plan" /\ act' = act
  /\ Len(run.trace) < MaxSteps
  /\ SeesNothing \/ (SeesAgain /\ run'.still < MaxRepeatSnapshots)
  /\ KeepsEnd(run', run) /\ KeepsTrace(run', run) /\ KeepsCount(run', run)
  /\ KeepsPlans(run', run)

Begun(kind) ==
  /\ at' \in Acting \ {"confirm", "check"} /\ run'.trace = run.trace
  /\ run'.started = Append(run.started, kind)
  /\ act' = [NoAct EXCEPT !.what = kind]
  /\ at' = "pause" => kind = "wait"
  /\ KeepsEnd(run', run) /\ KeepsLooks(run', run) /\ KeepsFails(run', run)

\* An action of a plan begins, and one of a script.
BegunPlanned ==
  /\ at = "plan"
  /\ \E plan \in Planned :
       /\ plan # <<>> /\ ~Exhausted(plan, run)
       /\ run'.plans = run.plans \cup {plan}
       /\ run'.last = Chosen(plan, run)
       /\ run'.repeats = IF Chosen(plan, run) = run.last THEN run.repeats + 1 ELSE 1
       /\ Chosen(plan, run) \in Kinds /\ Begun(Chosen(plan, run))
BegunScripted ==
  /\ at = "script"
  /\ run.todo # <<>> /\ run'.todo = Tail(run.todo)
  /\ \E kind \in Kinds : Begun(kind)
  /\ KeepsCount(run', run) /\ KeepsPlans(run', run)

Done ==
  /\ at = "check" /\ act' = NoAct
  /\ at' = (IF Goal THEN "look" ELSE "script")
  /\ run'.then = (IF Goal THEN "next" ELSE run.then) /\ run'.stop = run.stop
  /\ run'.trace = Append(run.trace, [what |-> act.what, ok |-> TRUE])
  /\ run'.started = run.started /\ run'.todo = run.todo
  /\ KeepsCount(run', run) /\ KeepsLooks(run', run) /\ KeepsFails(run', run)
  /\ KeepsPlans(run', run)

\* The answers: an error; the screenshot, or the answer as it was without one;
\* and what an execution says of itself.
Errs(a) ==
  /\ rpc[holder] = "execute" \/ at \notin {"dial", "capture"}
  /\ a = [NoAnswer EXCEPT !.kind = "error", !.did = run.started]
Shows(a) ==
  /\ rpc[holder] # "execute" \/ at = "capture"
  /\ \/ a = answer[holder]
     \/ at = "capture" /\ driver' = driver /\ a = [answer[holder] EXCEPT !.shot = driver]
Tells(a) == a.did = run.started /\ a.shot \in {None, driver}
Blocks(a) ==
  /\ at \in Looking /\ a.kind = "blocked" /\ a.trace = run.trace /\ Tells(a) /\ driver' = driver
  /\ a.stop = IF run.then = "next" THEN "blocker_detected" ELSE run.stop
Reports(a) ==
  /\ at = "report" /\ a.kind = "ok" /\ a.trace = run.trace /\ Tells(a) /\ driver' = driver
  /\ a.stop = run.stop
Fails(a) ==
  /\ at \in Acting /\ a.kind = "failed" /\ Tells(a)
  /\ a.trace = Append(run.trace, [what |-> act.what, ok |-> FALSE])
  /\ a.stop \in {"", "action_failed"}

Replied ==
  \E a \in Answers : Reply(a) /\ (Errs(a) \/ Shows(a) \/ Blocks(a) \/ Reports(a) \/ Fails(a))

Onward ==
  /\ UNCHANGED <<client, lapsed, rpc, state, cancelled, answer, holder>>
  /\ at' \in Stages \ {"idle", "dial"} /\ run' \in Locals /\ act' \in Acts
  /\ Walk \/ Observed \/ Halt \/ Round \/ BegunPlanned \/ BegunScripted \/ Done

\* The answers are typed.
LEMMA AnswerTypes ==
  ASSUME TypeInv, holder # None
  PROVE  /\ answer[holder] \in Answers
         /\ [answer[holder] EXCEPT !.shot = driver] \in Answers
         /\ [NoAnswer EXCEPT !.kind = "error", !.did = run.started] \in Answers
<1>1. answer[holder] \in Answers /\ driver \in Requests \cup {None}
  BY DEF TypeInv, CallsOK, BrowserOK
<1>2. [answer[holder] EXCEPT !.shot = driver] \in Answers
  BY <1>1 DEF Answers
<1>3. run.started \in Seq(Kinds)
  BY LocalsTypes DEF TypeInv
<1>4. [NoAnswer EXCEPT !.kind = "error", !.did = run.started] \in Answers
  BY <1>3, BlankTypes DEF Answers, Replies
<1>5. QED
  BY <1>1, <1>2, <1>4

Told(kind, trace, stop, shot) ==
  [kind |-> kind, trace |-> trace, stop |-> stop, shot |-> shot, did |-> run.started]

LEMMA ToldTypes ==
  ASSUME TypeInv, NEW kind \in Replies, NEW trace \in Seq(Step), NEW stop \in Stops,
         NEW shot \in Requests \cup {None}
  PROVE  Told(kind, trace, stop, shot) \in Answers
<1>1. run.started \in Seq(Kinds)
  BY LocalsTypes DEF TypeInv
<1>2. QED
  BY <1>1 DEF Told, Answers

LEMMA StepTypes ==
  ASSUME TypeInv
  PROVE  /\ WithStep(TRUE) \in Seq(Step) /\ WithStep(FALSE) \in Seq(Step)
         /\ act.what \in Kinds /\ act.clicks \in Nat /\ act.field \in Fields
<1>1. run.trace \in Seq(Step)
  BY LocalsTypes DEF TypeInv
<1>2. act.what \in Kinds /\ act.clicks \in Nat /\ act.field \in Fields
  BY DEF TypeInv, Acts
<1>3. [what |-> act.what, ok |-> TRUE] \in Step /\ [what |-> act.what, ok |-> FALSE] \in Step
  BY <1>2, Zenon DEF Step
<1>4. QED
  BY <1>1, <1>2, <1>3, AppendProperties DEF WithStep

LEMMA ErrorKind ==
  ASSUME TypeInv, holder # None, rpc[holder] = "execute" \/ at \notin {"dial", "capture"}, ReplyError
  PROVE  Replied
<1> DEFINE a == [NoAnswer EXCEPT !.kind = "error", !.did = run.started]
<1>1. a \in Answers /\ Reply(a)
  BY AnswerTypes DEF ReplyError
<1>2. Errs(a)
  BY DEF Errs
<1>3. QED
  BY <1>1, <1>2 DEF Replied

LEMMA ShotTypes ==
  ASSUME TypeInv, NEW shot \in Shots
  PROVE  shot \in {None, driver} /\ shot \in Requests \cup {None}
BY DEF Shots, TypeInv, BrowserOK

LEMMA BlockedKind ==
  ASSUME TypeInv, at \in Looking, Blocked, driver' = driver
  PROVE  Replied
<1>1. PICK shot \in Shots :
        Reply(Told("blocked", run.trace,
                   IF run.then = "next" THEN "blocker_detected" ELSE run.stop, shot))
  BY Zenon DEF Blocked, Told
<1>2. PICK stop \in Stops : stop = IF run.then = "next" THEN "blocker_detected" ELSE run.stop
  BY LocalsTypes DEF TypeInv, Stops
<1> DEFINE a == Told("blocked", run.trace, stop, shot)
<1>3. a \in Answers
  <2>1. run.trace \in Seq(Step) /\ "blocked" \in Replies
    BY LocalsTypes DEF TypeInv, Replies
  <2>2. QED
    BY <2>1, ToldTypes, ShotTypes
<1>4. Reply(a)
  BY <1>1, <1>2
<1>5. Blocks(a)
  BY <1>2, ShotTypes DEF Blocks, Told, Tells
<1>6. QED
  BY <1>3, <1>4, <1>5 DEF Replied

LEMMA StepFailsKind ==
  ASSUME TypeInv, at \in Acting, StepFails
  PROVE  Replied
<1>1. PICK shot \in Shots :
        Reply(Told("failed", WithStep(FALSE), IF Goal THEN "action_failed" ELSE "", shot))
  BY Zenon DEF StepFails, Told
<1>2. PICK stop \in {"", "action_failed"} : stop = IF Goal THEN "action_failed" ELSE ""
  OBVIOUS
<1> DEFINE a == Told("failed", WithStep(FALSE), stop, shot)
<1>3. a \in Answers
  <2>1. WithStep(FALSE) \in Seq(Step) /\ "failed" \in Replies /\ stop \in Stops
    BY StepTypes DEF Replies, Stops
  <2>2. QED
    BY <2>1, ToldTypes, ShotTypes
<1>4. Reply(a)
  BY <1>1, <1>2
<1>5. Fails(a)
  <2>1. a.kind = "failed" /\ a.did = run.started /\ a.shot = shot /\ a.stop = stop
    BY DEF Told
  <2>2. a.trace = WithStep(FALSE)
    BY DEF Told
  <2>3. QED
    BY <2>1, <2>2, ShotTypes, Zenon DEF Fails, Tells, WithStep
<1>6. QED
  BY <1>3, <1>4, <1>5 DEF Replied

\* What a step that goes on leaves alone.
LEMMA GotoKind ==
  ASSUME TypeInv, NEW stage \in Stages \ {"idle", "dial"}, NEW l \in Locals, Goto(stage, l),
         act' \in Acts, Walk \/ Observed \/ Halt \/ Round \/ BegunPlanned \/ BegunScripted \/ Done
  PROVE  Onward
BY DEF Goto, calls, Onward

\* A step that goes on with the same locals.
Hop(stage) ==
  /\ UNCHANGED act
  /\ \/ at = "dial" /\ stage = IF rpc[holder] = "execute" THEN "navigate" ELSE "capture"
     \/ at = "navigate" /\ stage = "render"
     \/ at = "render" /\ stage = "look"
     \/ at = "look" /\ stage = "recheck"
     \/ at \in Looking /\ run.then = "start" /\ stage = IF Goal THEN "observe" ELSE "script"
     \/ at \in Looking /\ run.then = "next" /\ ~ActionLoop(run) /\ stage = "refresh"
     \/ at \in Looking /\ run.then = "finish" /\ stage = "report"

LEMMA HopKind ==
  ASSUME TypeInv, NEW stage, Hop(stage), Goto(stage, run)
  PROVE  Onward
<1>1. stage \in Stages \ {"idle", "dial"} /\ run \in Locals /\ act' \in Acts /\ at \notin Acting
  BY DEF Hop, Stages, TypeInv, Looking, Acting
<1>2. Walk
  BY <1>1 DEF Hop, Walk, Goto
<1>3. QED
  BY <1>1, <1>2, GotoKind

LEMMA ActKind ==
  ASSUME TypeInv, at \in Acting, NEW stage \in Acting, Goto(stage, run),
         act' \in Acts, act'.what = act.what
  PROVE  Onward
<1>1. stage \in Stages \ {"idle", "dial"} /\ run \in Locals
  BY DEF Stages, TypeInv, Acting
<1>2. Walk
  BY DEF Walk, Goto
<1>3. QED
  BY <1>1, <1>2, GotoKind

KeepsWork(m, l) ==
  KeepsTrace(m, l) /\ KeepsCount(m, l) /\ KeepsLooks(m, l) /\ KeepsFails(m, l) /\ KeepsPlans(m, l)

LEMMA FinishMoves ==
  ASSUME NEW l \in Locals, Finish(l)
  PROVE  /\ at' = "look" /\ run' \in Locals /\ run'.then = "finish" /\ run'.stop = l.stop
         /\ KeepsWork(run', l) /\ UNCHANGED calls
<1>1. PICK m : m = [l EXCEPT !.then = "finish"]
  OBVIOUS
<1>2. run' = m /\ at' = "look" /\ UNCHANGED calls
  BY <1>1, Zenon DEF Finish, Goto
<1>3. QED
  BY <1>1, <1>2, FinishUpdate DEF KeepsWork

LEMMA StopMoves ==
  ASSUME NEW l \in Locals, NEW why \in Stops, Stop(l, why)
  PROVE  /\ at' = "look" /\ run' \in Locals /\ run'.then = "finish" /\ run'.stop = why
         /\ KeepsWork(run', l) /\ UNCHANGED calls
<1>1. PICK m : m = [l EXCEPT !.stop = why]
  OBVIOUS
<1>2. m \in Locals /\ m.stop = why /\ KeepsWork(m, l)
  BY <1>1, StopUpdate DEF KeepsWork
<1>3. Finish(m)
  BY <1>1 DEF Stop
<1>4. QED
  BY <1>2, <1>3, FinishMoves
     DEF KeepsWork, KeepsTrace, KeepsCount, KeepsLooks, KeepsFails, KeepsPlans

LEMMA HaltKind ==
  ASSUME TypeInv, Halt, act' = act, at' = "look", run' \in Locals, UNCHANGED calls
  PROVE  Onward
BY DEF Onward, calls, TypeInv, Stages

LEMMA NotBlockedKind ==
  ASSUME TypeInv, at \in Looking, NotBlocked, UNCHANGED act
  PROVE  Onward
<1>0. run \in Locals /\ run.then \in {"start", "next", "finish"}
  BY LocalsTypes DEF TypeInv
<1>1. CASE run.then = "start"
  <2>1. Goto(IF Goal THEN "observe" ELSE "script", run)
    BY <1>1 DEF NotBlocked
  <2>2. Hop(IF Goal THEN "observe" ELSE "script")
    BY <1>1 DEF Hop
  <2>3. QED
    BY <2>1, <2>2, HopKind
<1>2. CASE run.then = "next" /\ ActionLoop(run)
  <2>1. Stop(run, "loop_detected_repeated_action")
    BY <1>2 DEF NotBlocked
  <2>2. "loop_detected_repeated_action" \in Stops
    BY DEF Stops
  <2>3. /\ at' = "look" /\ run' \in Locals /\ run'.then = "finish"
        /\ run'.stop = "loop_detected_repeated_action"
        /\ KeepsWork(run', run) /\ UNCHANGED calls
    BY <1>0, <2>1, <2>2, StopMoves
  <2>4. Halt
    BY <1>2, <2>3 DEF Halt, KeepsWork
  <2>5. QED
    BY <2>3, <2>4, HaltKind
<1>3. CASE run.then = "next" /\ ~ActionLoop(run)
  <2>1. Goto("refresh", run) /\ Hop("refresh")
    BY <1>3 DEF NotBlocked, Hop
  <2>2. QED
    BY <2>1, HopKind
<1>4. CASE run.then = "finish"
  <2>1. Goto("report", run) /\ Hop("report")
    BY <1>4 DEF NotBlocked, Hop
  <2>2. QED
    BY <2>1, HopKind
<1>5. QED
  BY <1>0, <1>1, <1>2, <1>3, <1>4

LEMMA FrameKinds ==
  ASSUME TypeInv, holder # None,
         Dial \/ Capture \/ Navigate \/ Render \/ Look \/ Recheck \/ Report
  PROVE  Replied \/ Onward
<1>1. CASE Dial
  <2>1. at = "dial"
    BY <1>1 DEF Dial
  <2>2. CASE Goto(IF rpc[holder] = "execute" THEN "navigate" ELSE "capture", run) /\ UNCHANGED act
    BY <2>1, <2>2, HopKind DEF Hop
  <2>3. CASE rpc[holder] = "execute" /\ ReplyError
    BY <2>3, ErrorKind
  <2>4. CASE rpc[holder] # "execute" /\ Reply(answer[holder])
    BY <2>4, AnswerTypes DEF Replied, Shows
  <2>5. QED
    BY <1>1, <2>2, <2>3, <2>4 DEF Dial
<1>2. CASE Capture
  <2>1. at = "capture" /\ driver' = driver
    BY <1>2 DEF Capture, Stays, browser
  <2>2. CASE Reply(answer[holder])
    BY <2>1, <2>2, AnswerTypes DEF Replied, Shows
  <2>3. CASE Reply([answer[holder] EXCEPT !.shot = driver])
    <3>1. PICK a \in Answers : a = [answer[holder] EXCEPT !.shot = driver]
      BY AnswerTypes
    <3>2. Reply(a) /\ Shows(a)
      BY <2>1, <2>3, <3>1 DEF Shows
    <3>3. QED
      BY <3>2 DEF Replied
  <2>4. QED
    BY <1>2, <2>2, <2>3 DEF Capture
<1>3. CASE Navigate
  <2>1. at = "navigate"
    BY <1>3 DEF Navigate
  <2>2. CASE Goto("render", run) /\ UNCHANGED act
    BY <2>1, <2>2, HopKind DEF Hop
  <2>3. CASE ReplyError
    BY <2>1, <2>3, ErrorKind
  <2>4. QED
    BY <1>3, <2>2, <2>3 DEF Navigate
<1>4. CASE Render
  <2>1. at = "render"
    BY <1>4 DEF Render
  <2>2. CASE Goto("look", run) /\ UNCHANGED act
    BY <2>1, <2>2, HopKind DEF Hop
  <2>3. CASE ReplyError
    BY <2>1, <2>3, ErrorKind
  <2>4. QED
    BY <1>4, <2>2, <2>3 DEF Render
<1>5. CASE Look
  <2>1. at = "look" /\ at \in Looking /\ driver' = driver
    BY <1>5 DEF Look, Looking, Stays, browser
  <2>2. CASE NotBlocked /\ UNCHANGED act
    BY <2>1, <2>2, NotBlockedKind
  <2>3. CASE Goto("recheck", run) /\ UNCHANGED act
    BY <2>1, <2>3, HopKind DEF Hop
  <2>4. CASE Blocked
    BY <2>1, <2>4, BlockedKind
  <2>5. QED
    BY <1>5, <2>2, <2>3, <2>4 DEF Look
<1>6. CASE Recheck
  <2>1. at \in Looking /\ driver' = driver
    BY <1>6 DEF Recheck, Looking, Stays, browser
  <2>2. CASE NotBlocked /\ UNCHANGED act
    BY <2>1, <2>2, NotBlockedKind
  <2>3. CASE Blocked
    BY <2>1, <2>3, BlockedKind
  <2>4. QED
    BY <1>6, <2>2, <2>3 DEF Recheck
<1>7. CASE Report
  <2>1. at = "report" /\ driver' = driver
    BY <1>7 DEF Report, Stays, browser
  <2>2. CASE ReplyError
    BY <2>1, <2>2, ErrorKind
  <2>3. CASE Reply(Told("ok", run.trace, run.stop, driver))
    <3>1. run.trace \in Seq(Step) /\ run.stop \in Stops /\ driver \in Requests \cup {None}
      BY LocalsTypes DEF TypeInv, BrowserOK
    <3>2. Told("ok", run.trace, run.stop, driver) \in Answers
      BY <3>1, ToldTypes DEF Replies
    <3>3. Reports(Told("ok", run.trace, run.stop, driver))
      BY <2>1 DEF Reports, Told, Tells
    <3>4. QED
      BY <2>3, <3>2, <3>3 DEF Replied
  <2>4. QED
    BY <1>7, <2>2, <2>3, Zenon DEF Report, Told
<1>8. QED
  BY <1>1, <1>2, <1>3, <1>4, <1>5, <1>6, <1>7

\* A set of indices has a first one.  (Intervals are ordered by inclusion, and
\* that order is well-founded.)
LEMMA FirstIndex ==
  ASSUME NEW n \in Nat, NEW D \in SUBSET (1 .. n), D # {}
  PROVE  \E i \in D : \A j \in D : i <= j
<1> DEFINE Below == {1 .. i : i \in D}
<1>1. Below \subseteq FiniteSubsetsOf(Nat) /\ Below # {}
  <2>1. ASSUME NEW i \in D
        PROVE  1 .. i \in FiniteSubsetsOf(Nat)
    <3>1. i \in Int /\ 1 \in Int /\ 1 .. i \in SUBSET Nat
      OBVIOUS
    <3>2. IsFiniteSet(1 .. i)
      BY <3>1, FS_Interval
    <3>3. QED
      BY <3>1, <3>2 DEF FiniteSubsetsOf
  <2>2. QED
    BY <2>1
<1>2. IsWellFoundedOn(StrictSubsetOrdering(Nat), FiniteSubsetsOf(Nat))
  BY FS_StrictSubsetOrderingWellFounded
<1> HIDE DEF Below
<1>3. PICK b \in Below : \A c \in Below : <<c, b>> \notin StrictSubsetOrdering(Nat)
  BY <1>1, <1>2, WFMin
<1>4. PICK i \in D : b = 1 .. i
  BY DEF Below
<1>5. ASSUME NEW j \in D, j < i
      PROVE  FALSE
  <2>1. 1 .. j \in Below
    BY DEF Below
  <2>2. 1 .. j \subseteq 1 .. i /\ i \in 1 .. i /\ i \notin 1 .. j /\ 1 .. i \subseteq Nat
    BY <1>5
  <2>3. <<1 .. j, 1 .. i>> \in StrictSubsetOrdering(Nat)
    BY <2>2 DEF StrictSubsetOrdering
  <2>4. QED
    BY <1>3, <1>4, <2>1, <2>3
<1>6. QED
  BY <1>5

\* What is chosen from a plan that is not exhausted is an action of the plan:
\* the one at the place of the round, or one that has not been carried out.
LEMMA ChosenIsPlanned ==
  ASSUME NEW plan \in Seq(Kinds), NEW l \in Locals, ~Exhausted(plan, l)
  PROVE  /\ Chosen(plan, l) \in Kinds
         /\ Len(l.trace) < Len(plan) => Chosen(plan, l) = plan[Len(l.trace) + 1]
<1>1. PICK n \in Nat : n = Len(plan)
  BY LenProperties
<1>2. DOMAIN plan = 1 .. n /\ \A i \in 1 .. n : plan[i] \in Kinds
  BY <1>1, LenProperties, ElementOfSeq
<1>3. PICK k \in Nat : k = Len(l.trace)
  BY LocalsTypes, LenProperties
<1>4. CASE k < n
  BY <1>1, <1>2, <1>3, <1>4 DEF Chosen
<1>5. CASE k >= n
  <2> DEFINE Left == {i \in 1 .. n : plan[i] \notin Used(l)}
             IsFirst(i) == plan[i] \notin Used(l) /\ \A j \in 1 .. i - 1 : plan[j] \in Used(l)
  <2>1. Left # {}
    BY <1>1, <1>2, <1>3, <1>5 DEF Exhausted
  <2>2. PICK i \in Left : \A j \in Left : i <= j
    BY <2>1, FirstIndex
  <2>3. i \in 1 .. n /\ IsFirst(i)
    BY <2>2
  <2>4. Chosen(plan, l) = plan[CHOOSE j \in 1 .. n : IsFirst(j)]
    BY <1>1, <1>2, <1>3, <1>5 DEF Chosen
  <2> HIDE DEF IsFirst
  <2>5. (CHOOSE j \in 1 .. n : IsFirst(j)) \in 1 .. n
    BY <2>3
  <2>6. QED
    BY <1>1, <1>2, <1>3, <1>5, <2>4, <2>5
<1>6. QED
  BY <1>4, <1>5

LEMMA BeginMoves ==
  ASSUME TypeInv, NEW l \in Locals, NEW kind \in Kinds, Begin(l, kind),
         l.trace = run.trace, l.started = run.started,
         KeepsEnd(l, run), KeepsLooks(l, run), KeepsFails(l, run)
  PROVE  /\ Begun(kind) /\ run' \in Locals /\ act' \in Acts /\ UNCHANGED calls
         /\ KeepsCount(run', l) /\ KeepsPlans(run', l) /\ run'.todo = l.todo
<1>1. PICK m : m = [l EXCEPT !.started = Append(@, kind)]
  OBVIOUS
<1>2. /\ m \in Locals /\ m.started = Append(l.started, kind) /\ m.trace = l.trace
      /\ m.todo = l.todo
      /\ KeepsEnd(m, l) /\ KeepsCount(m, l) /\ KeepsLooks(m, l)
      /\ KeepsFails(m, l) /\ KeepsPlans(m, l)
  BY <1>1, StartedUpdate
<1>3. PICK stage : stage = CASE kind = "wait" -> "pause"
                             [] kind = "scroll" -> IF Humanized THEN "human" ELSE "plain"
                             [] OTHER -> "await"
  OBVIOUS
<1>4. stage \in Acting \ {"confirm", "check"} /\ (stage = "pause" => kind = "wait")
  BY <1>3 DEF Acting
<1>5. Goto(stage, m) /\ act' = [NoAct EXCEPT !.what = kind]
  BY <1>1, <1>3 DEF Begin
<1>6. run' = m /\ at' = stage /\ UNCHANGED calls
  BY <1>5 DEF Goto
<1>7. act' \in Acts
  BY <1>5, BlankTypes DEF Acts
<1>8. /\ KeepsEnd(run', run) /\ KeepsLooks(run', run) /\ KeepsFails(run', run)
      /\ run'.trace = run.trace /\ run'.started = Append(run.started, kind)
  BY <1>2, <1>6 DEF KeepsEnd, KeepsLooks, KeepsFails
<1>9. QED
  BY <1>2, <1>4, <1>5, <1>6, <1>7, <1>8 DEF Begun

LEMMA ObserveKind ==
  ASSUME TypeInv, holder # None, Observe
  PROVE  Replied \/ Onward
<1>1. at = "observe"
  BY DEF Observe
<1>2. CASE ReplyError
  BY <1>1, <1>2, ErrorKind
<1>3. CASE UNCHANGED act /\ Goto("plan", [run EXCEPT !.snap = page, !.looks = <<page>>])
  <2>1. run \in Locals /\ page \in Pages /\ act \in Acts
    BY DEF TypeInv, BrowserOK
  <2>2. PICK looks \in Seq(Pages) : looks = <<page>>
    BY <2>1, OnePage
  <2>3. PICK m : m = SeenFirst(run, page, looks)
    OBVIOUS
  <2>4. Goto("plan", m)
    BY <1>3, <2>2, <2>3 DEF SeenFirst
  <2>5. run' = m /\ at' = "plan"
    BY <2>4 DEF Goto
  <2>6. /\ m \in Locals /\ m.snap = page /\ m.looks = looks
        /\ m.snapAt = run.snapAt /\ m.still = run.still
        /\ KeepsEnd(m, run) /\ KeepsTrace(m, run) /\ KeepsCount(m, run)
        /\ KeepsFails(m, run) /\ KeepsPlans(m, run)
    BY <2>1, <2>3, ObserveUpdate
  <2>7. Observed
    BY <1>1, <1>3, <2>2, <2>5, <2>6 DEF Observed
  <2>8. QED
    BY <1>3, <2>1, <2>4, <2>6, <2>7, GotoKind DEF Stages
<1>4. QED
  BY <1>2, <1>3 DEF Observe

LEMMA PlanKind ==
  ASSUME TypeInv, holder # None, Plan
  PROVE  Replied \/ Onward
<1>0. run \in Locals /\ at = "plan"
  BY DEF Plan, TypeInv
<1>1. PICK plan \in Planned :
        LET l == [run EXCEPT !.plans = @ \cup {plan}] IN
        IF plan = <<>> THEN Stop(l, "no_actions") /\ UNCHANGED act
        ELSE IF Exhausted(plan, l) THEN Stop(l, "plan_exhausted") /\ UNCHANGED act
        ELSE Begin(Counted(l, Chosen(plan, l)), Chosen(plan, l))
  BY Zenon DEF Plan
<1>2. plan \in Seq(Kinds)
  BY DEF Planned
<1>3. PICK l : l = [run EXCEPT !.plans = @ \cup {plan}]
  OBVIOUS
<1>4. /\ l \in Locals /\ l.plans = run.plans \cup {plan}
      /\ KeepsEnd(l, run) /\ KeepsTrace(l, run) /\ KeepsCount(l, run) /\ KeepsLooks(l, run)
      /\ KeepsFails(l, run)
  BY <1>0, <1>2, <1>3, PlansUpdate
<1>5. CASE \E why \in {"no_actions", "plan_exhausted"} : Stop(l, why) /\ UNCHANGED act
  <2>1. PICK why \in {"no_actions", "plan_exhausted"} : Stop(l, why) /\ UNCHANGED act
    BY <1>5
  <2>2. why \in Stops
    BY DEF Stops
  <2>3. /\ at' = "look" /\ run' \in Locals /\ run'.then = "finish" /\ run'.stop = why
        /\ KeepsWork(run', l) /\ UNCHANGED calls
    BY <1>4, <2>1, <2>2, StopMoves
  <2>4. KeepsTrace(run', run) /\ KeepsCount(run', run) /\ KeepsLooks(run', run)
        /\ KeepsFails(run', run) /\ run'.plans = run.plans \cup {plan}
    BY <1>4, <2>3 DEF KeepsWork, KeepsTrace, KeepsCount, KeepsLooks, KeepsFails, KeepsPlans
  <2>5. Halt
    BY <1>0, <2>1, <2>3, <2>4 DEF Halt
  <2>6. QED
    BY <2>1, <2>3, <2>5, HaltKind
<1>6. CASE plan # <<>> /\ ~Exhausted(plan, l) /\ Begin(Counted(l, Chosen(plan, l)), Chosen(plan, l))
  <2>1. PICK kind : kind = Chosen(plan, l)
    OBVIOUS
  <2>2. kind \in Kinds
    BY <1>2, <1>4, <1>6, <2>1, ChosenIsPlanned
  <2>3. PICK c : c = Counted(l, kind)
    OBVIOUS
  <2>4. /\ c \in Locals /\ c.last = kind
        /\ c.repeats = IF kind = l.last THEN l.repeats + 1 ELSE 1
        /\ KeepsEnd(c, l) /\ KeepsTrace(c, l) /\ KeepsLooks(c, l)
        /\ KeepsFails(c, l) /\ KeepsPlans(c, l)
    BY <1>4, <2>2, <2>3, CountedUpdate
  <2>5. /\ KeepsEnd(c, run) /\ KeepsLooks(c, run) /\ KeepsFails(c, run)
        /\ c.trace = run.trace /\ c.started = run.started
    BY <1>4, <2>4 DEF KeepsEnd, KeepsTrace, KeepsLooks, KeepsFails
  <2>6. Begin(c, kind)
    BY <1>6, <2>1, <2>3
  <2>7. /\ Begun(kind) /\ run' \in Locals /\ act' \in Acts /\ UNCHANGED calls
        /\ KeepsCount(run', c) /\ KeepsPlans(run', c)
    BY <2>2, <2>4, <2>5, <2>6, BeginMoves
  <2>8. Chosen(plan, l) = Chosen(plan, run) /\ (Exhausted(plan, l) <=> Exhausted(plan, run))
    BY <1>4 DEF Chosen, Exhausted, Used, KeepsTrace
  <2>9. run'.last = kind /\ run'.repeats = IF kind = run.last THEN run.repeats + 1 ELSE 1
    BY <1>4, <2>4, <2>7 DEF KeepsCount
  <2>10. run'.plans = run.plans \cup {plan}
    BY <1>4, <2>4, <2>7 DEF KeepsPlans
  <2>11. BegunPlanned
    BY <1>0, <1>6, <2>1, <2>2, <2>7, <2>8, <2>9, <2>10 DEF BegunPlanned
  <2>12. at' \in Stages \ {"idle", "dial"}
    BY <2>7 DEF Begun, Stages, Acting
  <2>13. QED
    BY <2>7, <2>11, <2>12 DEF Onward, calls
<1>7. QED
  BY <1>1, <1>3, <1>5, <1>6

\* The end of a round, with the locals that a refresh has left.
LEMMA NextRoundMoves ==
  ASSUME TypeInv, NEW l \in Locals, NextRound(l), at = "refresh", UNCHANGED act,
         KeepsEnd(l, run), KeepsTrace(l, run), KeepsCount(l, run), KeepsPlans(l, run),
         \/ KeepsLooks(l, run) /\ l.failures = run.failures + 1 /\ l.failures <= MaxFailures
         \/ /\ l.looks = Append(run.looks, page) /\ l.snap = page /\ l.snapAt = Len(run.trace)
            /\ l.still = (IF page = run.snap THEN run.still + 1 ELSE 0)
            /\ KeepsFails(l, run) /\ l.still < MaxRepeatSnapshots
  PROVE  Onward
<1>1. CASE Len(l.trace) >= MaxSteps
  <2>1. Stop(l, "max_planner_steps_reached")
    BY <1>1 DEF NextRound
  <2>2. "max_planner_steps_reached" \in Stops
    BY DEF Stops
  <2>3. /\ at' = "look" /\ run' \in Locals /\ run'.then = "finish"
        /\ run'.stop = "max_planner_steps_reached"
        /\ KeepsWork(run', l) /\ UNCHANGED calls
    BY <2>1, <2>2, StopMoves
  <2>4. KeepsTrace(run', run) /\ KeepsCount(run', run) /\ KeepsPlans(run', run)
    BY <2>3 DEF KeepsWork, KeepsTrace, KeepsCount, KeepsPlans
  <2>5. SeesNothing \/ (SeesAgain /\ run'.still < MaxRepeatSnapshots)
    BY <2>3 DEF KeepsWork, KeepsLooks, KeepsFails, SeesAgain, SeesNothing
  <2>6. Len(run.trace) >= MaxSteps
    BY <1>1 DEF KeepsTrace
  <2>7. Halt
    BY <2>3, <2>4, <2>5, <2>6 DEF Halt
  <2>8. QED
    BY <2>3, <2>7, HaltKind
<1>2. CASE ~(Len(l.trace) >= MaxSteps)
  <2>1. Goto("plan", l)
    BY <1>2 DEF NextRound
  <2>2. run' = l /\ at' = "plan"
    BY <2>1 DEF Goto
  <2>3. Len(run.trace) < MaxSteps
    <3>1. Len(run.trace) \in Nat /\ MaxSteps \in Nat
      BY LocalsTypes, LenProperties DEF TypeInv
    <3>2. QED
      BY <1>2, <3>1 DEF KeepsTrace
  <2>4. SeesNothing \/ (SeesAgain /\ run'.still < MaxRepeatSnapshots)
    BY <2>2 DEF SeesAgain, SeesNothing
  <2>5. Round
    BY <2>2, <2>3, <2>4 DEF Round
  <2>6. QED
    BY <2>1, <2>5, GotoKind DEF Stages, TypeInv
<1>3. QED
  BY <1>1, <1>2

LEMMA RefreshFailsKind ==
  ASSUME TypeInv, holder # None, RefreshFails
  PROVE  Replied \/ Onward
<1>0. at = "refresh" /\ run \in Locals
  BY DEF RefreshFails, TypeInv
<1>1. PICK l : l = Failed(run)
  OBVIOUS
<1>2. /\ l \in Locals /\ l.failures = run.failures + 1
      /\ KeepsEnd(l, run) /\ KeepsTrace(l, run) /\ KeepsCount(l, run) /\ KeepsLooks(l, run)
      /\ KeepsPlans(l, run)
  BY <1>0, <1>1, FailedUpdate
<1>3. CASE ReplyError
  BY <1>0, <1>3, ErrorKind
<1>4. CASE ~(l.failures > MaxFailures) /\ NextRound(l) /\ UNCHANGED act
  <2>1. l.failures <= MaxFailures
    <3>1. l.failures \in Nat
      BY <1>2, LocalsTypes
    <3>2. QED
      BY <1>4, <3>1
  <2>2. QED
    BY <1>0, <1>2, <1>4, <2>1, NextRoundMoves
<1>5. QED
  BY <1>1, <1>3, <1>4 DEF RefreshFails

LEMMA RefreshKind ==
  ASSUME TypeInv, holder # None, Refresh
  PROVE  Replied \/ Onward
<1>0. at = "refresh" /\ UNCHANGED act /\ run \in Locals /\ page \in Pages
  BY DEF Refresh, TypeInv, BrowserOK
<1>1. PICK still \in Nat : still = IF page = run.snap THEN run.still + 1 ELSE 0
  <2>1. run.still \in Nat
    BY <1>0, LocalsTypes
  <2>2. QED
    BY <2>1
<1>2. PICK n \in Nat : n = Len(run.trace)
  BY <1>0, LocalsTypes, LenProperties
<1>3. PICK looks \in Seq(Pages) : looks = Append(run.looks, page)
  <2>1. run.looks \in Seq(Pages)
    BY <1>0, LocalsTypes
  <2>2. QED
    BY <1>0, <2>1, AppendProperties
<1>4. PICK l : l = SeenAgain(run, page, n, still, looks)
  OBVIOUS
<1>5. /\ l \in Locals /\ l.still = still /\ l.snap = page /\ l.snapAt = n
      /\ l.looks = looks
      /\ KeepsEnd(l, run) /\ KeepsTrace(l, run) /\ KeepsCount(l, run)
      /\ KeepsFails(l, run) /\ KeepsPlans(l, run)
  <2>1. run \in Locals /\ page \in Pages
    BY <1>0
  <2>2. QED
    BY <1>4, <2>1 DEF SeenAgain, Locals, KeepsEnd, KeepsTrace, KeepsCount, KeepsFails, KeepsPlans
<1>6. IF still >= MaxRepeatSnapshots THEN Stop(l, "loop_detected_repeated_snapshot")
                                     ELSE NextRound(l)
  BY <1>1, <1>2, <1>3, <1>4 DEF Refresh, SeenAgain
<1>7. CASE still >= MaxRepeatSnapshots
  <2>1. Stop(l, "loop_detected_repeated_snapshot")
    BY <1>6, <1>7
  <2>2. "loop_detected_repeated_snapshot" \in Stops
    BY DEF Stops
  <2>3. /\ at' = "look" /\ run' \in Locals /\ run'.then = "finish"
        /\ run'.stop = "loop_detected_repeated_snapshot"
        /\ KeepsWork(run', l) /\ UNCHANGED calls
    BY <1>5, <2>1, <2>2, StopMoves
  <2>4. KeepsTrace(run', run) /\ KeepsCount(run', run) /\ KeepsPlans(run', run)
    BY <1>5, <2>3 DEF KeepsWork, KeepsTrace, KeepsCount, KeepsPlans
  <2>5. run'.looks = l.looks /\ run'.snap = l.snap /\ run'.snapAt = l.snapAt /\ run'.still = l.still
    BY <2>3 DEF KeepsWork, KeepsLooks
  <2>6. KeepsFails(run', run)
    BY <1>5, <2>3 DEF KeepsWork, KeepsFails
  <2>7. SeesAgain
    BY <1>1, <1>2, <1>3, <1>5, <2>5, <2>6 DEF SeesAgain
  <2>8. Halt
    BY <1>0, <2>3, <2>4, <2>7 DEF Halt
  <2>9. QED
    BY <1>0, <2>3, <2>8, HaltKind
<1>8. CASE ~(still >= MaxRepeatSnapshots)
  <2>1. NextRound(l) /\ l.still < MaxRepeatSnapshots
    BY <1>5, <1>6, <1>8
  <2>2. l.still = (IF page = run.snap THEN run.still + 1 ELSE 0) /\ l.snapAt = Len(run.trace)
    BY <1>1, <1>2, <1>5
  <2>3. QED
    BY <1>0, <1>3, <1>5, <2>1, <2>2, NextRoundMoves
<1>9. QED
  BY <1>7, <1>8

LEMMA ScriptKind ==
  ASSUME TypeInv, holder # None, Script
  PROVE  Replied \/ Onward
<1>0. at = "script" /\ run \in Locals /\ run.todo \in Seq(Kinds)
  BY LocalsTypes DEF Script, TypeInv
<1>1. CASE run.todo = <<>>
  <2>1. Finish(run) /\ UNCHANGED act
    BY <1>1 DEF Script
  <2>2. /\ at' = "look" /\ run' \in Locals /\ run'.then = "finish" /\ run'.stop = run.stop
        /\ KeepsWork(run', run) /\ UNCHANGED calls
    BY <1>0, <2>1, FinishMoves
  <2>3. Halt
    BY <1>0, <2>1, <2>2 DEF Halt, KeepsWork
  <2>4. QED
    BY <2>1, <2>2, <2>3, HaltKind
<1>2. CASE run.todo # <<>>
  <2>1. PICK todo \in Seq(Kinds) : todo = Tail(run.todo)
    BY <1>0, <1>2, HeadTailProperties
  <2>2. PICK kind \in Kinds : kind = Head(run.todo)
    BY <1>0, <1>2, HeadTailProperties
  <2>3. PICK l : l = [run EXCEPT !.todo = todo]
    OBVIOUS
  <2>4. /\ l \in Locals /\ l.todo = todo
        /\ KeepsEnd(l, run) /\ KeepsTrace(l, run) /\ KeepsCount(l, run) /\ KeepsLooks(l, run)
        /\ KeepsFails(l, run) /\ KeepsPlans(l, run)
    BY <1>0, <2>3, TodoUpdate
  <2>5. Begin(l, kind)
    BY <1>2, <2>1, <2>2, <2>3 DEF Script
  <2>6. /\ Begun(kind) /\ run' \in Locals /\ act' \in Acts /\ UNCHANGED calls
        /\ KeepsCount(run', l) /\ KeepsPlans(run', l) /\ run'.todo = l.todo
    BY <2>4, <2>5, BeginMoves DEF KeepsTrace
  <2>7. KeepsCount(run', run) /\ KeepsPlans(run', run)
    BY <2>4, <2>6 DEF KeepsCount, KeepsPlans
  <2>8. BegunScripted
    BY <1>0, <1>2, <2>1, <2>4, <2>6, <2>7 DEF BegunScripted
  <2>9. at' \in Stages \ {"idle", "dial"}
    BY <2>6 DEF Begun, Stages, Acting
  <2>10. QED
    BY <2>6, <2>8, <2>9 DEF Onward, calls
<1>3. QED
  BY <1>1, <1>2

\* What an event of an action does to what is known of the action.
LEMMA ActUpdates ==
  ASSUME NEW a \in Acts
  PROVE  /\ \A n \in Nat : /\ [a EXCEPT !.clicks = n] \in Acts
                           /\ [a EXCEPT !.clicks = n].what = a.what
                           /\ [a EXCEPT !.clicks = n].clicks = n
                           /\ [a EXCEPT !.clicks = n].field = a.field
         /\ \A f \in Fields : /\ [a EXCEPT !.field = f] \in Acts
                              /\ [a EXCEPT !.field = f].what = a.what
                              /\ [a EXCEPT !.field = f].clicks = a.clicks
                              /\ [a EXCEPT !.field = f].field = f
BY DEF Acts

LEMMA PressedUpdate ==
  ASSUME TypeInv
  PROVE  /\ Pressed \in Acts /\ Pressed.what = act.what
         /\ Pressed.clicks = act.clicks + 1 /\ Pressed.field = act.field
<1>1. PICK n \in Nat : n = act.clicks + 1
  BY StepTypes
<1>2. Pressed = [act EXCEPT !.clicks = n]
  BY <1>1 DEF Pressed
<1>3. act \in Acts
  BY DEF TypeInv
<1>4. /\ Pressed \in Acts /\ Pressed.what = act.what
      /\ Pressed.clicks = n /\ Pressed.field = act.field
  BY <1>2, <1>3, ActUpdates
<1>5. QED
  BY <1>1, <1>4

LEMMA TypedUpdate ==
  ASSUME TypeInv, NEW f, f = TypedSoFar(act.field) \/ f = TypeInto(act.field),
         act' = [act EXCEPT !.field = f]
  PROVE  act' \in Acts /\ act'.what = act.what /\ act'.clicks = act.clicks /\ act'.field = f
<1>1. f \in Fields
  BY DEF TypedSoFar, TypeInto, Fields
<1>2. act \in Acts
  BY DEF TypeInv
<1>3. QED
  BY <1>1, <1>2, ActUpdates

LEMMA DoneKind ==
  ASSUME TypeInv, at = "check", StepDone, act' = NoAct
  PROVE  Onward
<1>1. PICK trace \in Seq(Step) : trace = WithStep(TRUE)
  BY StepTypes
<1>2. PICK l : l = [run EXCEPT !.trace = trace]
  OBVIOUS
<1>3. /\ l \in Locals /\ l.trace = trace /\ l.started = run.started /\ l.todo = run.todo
      /\ KeepsEnd(l, run) /\ KeepsCount(l, run) /\ KeepsLooks(l, run)
      /\ KeepsFails(l, run) /\ KeepsPlans(l, run)
  BY <1>2, TraceUpdate DEF TypeInv
<1>4. IF Goal THEN Goto("look", [l EXCEPT !.then = "next"]) ELSE Goto("script", l)
  BY <1>1, <1>2 DEF StepDone
<1>5. PICK m : m = IF Goal THEN [l EXCEPT !.then = "next"] ELSE l
  OBVIOUS
<1>6. /\ m \in Locals /\ m.trace = trace /\ m.started = run.started /\ m.todo = run.todo
      /\ m.then = (IF Goal THEN "next" ELSE run.then) /\ m.stop = run.stop
      /\ KeepsCount(m, run) /\ KeepsLooks(m, run) /\ KeepsFails(m, run) /\ KeepsPlans(m, run)
  <2>1. CASE Goal
    <3>1. /\ m \in Locals /\ m.then = "next" /\ m.stop = l.stop /\ m.todo = l.todo
          /\ KeepsTrace(m, l) /\ KeepsCount(m, l) /\ KeepsLooks(m, l)
          /\ KeepsFails(m, l) /\ KeepsPlans(m, l)
      BY <1>3, <1>5, <2>1, NextUpdate
    <3>2. QED
      BY <1>3, <2>1, <3>1
         DEF KeepsEnd, KeepsTrace, KeepsCount, KeepsLooks, KeepsFails, KeepsPlans
  <2>2. CASE ~Goal
    BY <1>3, <1>5, <2>2 DEF KeepsEnd
  <2>3. QED
    BY <2>1, <2>2
<1>7. run' = m /\ at' = (IF Goal THEN "look" ELSE "script") /\ UNCHANGED calls
  BY <1>4, <1>5 DEF Goto
<1>8. run'.trace = Append(run.trace, [what |-> act.what, ok |-> TRUE])
  BY <1>1, <1>6, <1>7, Zenon DEF WithStep
<1>9. Done
  BY <1>6, <1>7, <1>8 DEF Done
<1>10. QED
  BY <1>6, <1>7, <1>9, BlankTypes DEF Onward, calls, Stages

LEMMA ActionKinds ==
  ASSUME TypeInv, holder # None,
         \/ Await \/ HumanClick \/ HumanScroll \/ HumanType \/ FallBack \/ HumanAborted
         \/ PlainType \/ PlainClick \/ PlainEnter \/ PlainOther \/ PlainFails
         \/ Confirm \/ Pause \/ Check
  PROVE  Replied \/ Onward
<1>0. act \in Acts
  BY DEF TypeInv
<1>1. CASE Await
  <2>1. CASE UNCHANGED act /\ Goto(IF Humanized /\ act.what \in {"click", "type"} THEN "human" ELSE "plain", run)
    BY <1>0, <1>1, <2>1, ActKind DEF Await, Acting
  <2>2. CASE StepFails
    BY <1>1, <2>2, StepFailsKind DEF Await, Acting
  <2>3. QED
    BY <1>1, <2>1, <2>2 DEF Await
<1>2. CASE HumanClick \/ PlainClick
  <2>1. at \in Acting /\ act' = Pressed /\ Goto("check", run)
    BY <1>2 DEF HumanClick, PlainClick, Acting
  <2>2. QED
    BY <2>1, PressedUpdate, ActKind DEF Acting
<1>3. CASE HumanScroll \/ PlainEnter \/ PlainOther
  <2>1. at \in Acting /\ act' = act /\ Goto("check", run)
    BY <1>3 DEF HumanScroll, PlainEnter, PlainOther, Acting
  <2>2. QED
    BY <1>0, <2>1, ActKind DEF Acting
<1>4. CASE HumanType
  <2>1. /\ at \in Acting /\ act' = [act EXCEPT !.field = TypedSoFar(@)]
        /\ Goto(IF act.field = "part" THEN "confirm" ELSE "human", run)
    BY <1>4 DEF HumanType, Acting
  <2>2. act' \in Acts /\ act'.what = act.what
    BY <2>1, TypedUpdate
  <2>3. QED
    BY <2>1, <2>2, ActKind DEF Acting
<1>5. CASE FallBack
  <2>1. at \in Acting /\ Goto("plain", run)
    BY <1>5 DEF FallBack, Acting
  <2>2. \/ act' = act \/ act' = Pressed
        \/ \E f : f = TypedSoFar(act.field) /\ act' = [act EXCEPT !.field = f]
    BY <1>5 DEF FallBack
  <2>3. act' \in Acts /\ act'.what = act.what
    BY <1>0, <2>2, TypedUpdate, PressedUpdate
  <2>4. QED
    BY <2>1, <2>3, ActKind DEF Acting
<1>6. CASE HumanAborted \/ PlainFails
  BY <1>6, StepFailsKind DEF HumanAborted, PlainFails, Acting
<1>7. CASE PlainType
  <2>1. at \in Acting /\ act' = [act EXCEPT !.field = TypeInto(@)] /\ Goto("confirm", run)
    BY <1>7 DEF PlainType, Acting
  <2>2. act' \in Acts /\ act'.what = act.what
    BY <2>1, TypedUpdate
  <2>3. QED
    BY <2>1, <2>2, ActKind DEF Acting
<1>8. CASE Confirm \/ Pause
  <2>1. at \in Acting
    BY <1>8 DEF Confirm, Pause, Acting
  <2>2. CASE Goto("check", run) /\ UNCHANGED act
    BY <1>0, <2>1, <2>2, ActKind DEF Acting
  <2>3. CASE StepFails
    BY <2>1, <2>3, StepFailsKind
  <2>4. QED
    BY <1>8, <2>2, <2>3 DEF Confirm, Pause
<1>9. CASE Check
  <2>1. at = "check" /\ at \in Acting
    BY <1>9 DEF Check, Acting
  <2>2. CASE StepDone /\ act' = NoAct
    BY <2>1, <2>2, DoneKind
  <2>3. CASE StepFails
    BY <2>1, <2>3, StepFailsKind
  <2>4. QED
    BY <1>9, <2>2, <2>3 DEF Check
<1>10. QED
  BY <1>1, <1>2, <1>3, <1>4, <1>5, <1>6, <1>7, <1>8, <1>9

LEMMA ExecutionKinds ==
  ASSUME TypeInv, holder # None, Execution
  PROVE  Replied \/ Onward
BY FrameKinds, ObserveKind, PlanKind, RefreshFailsKind, RefreshKind, ScriptKind, ActionKinds
   DEF Execution

-----------------------------------------------------------------------------
(* What an execution does to the browser *)

Faulted == Fault \/ NoFault
Linked  == conn' \in {"closed", "open", "broken"}

LEMMA CallMoves ==
  /\ CallOk => Faulted /\ conn' = conn
  /\ CallFails => Faulted /\ (conn' = conn \/ conn' \in {"open", "broken"})
  /\ FailsWith => Faulted
  /\ ResponseLost => Faulted /\ conn' = "broken"
BY DEF CallOk, CallFails, FailsWith, ResponseLost, Faulted, NoFault

LEMMA ReplyMoves ==
  /\ ReplyError => \E a : Reply(a)
  /\ Blocked => \E a : Reply(a)
  /\ StepFails => \E a : Reply(a)
  /\ \A a : Reply(a) =>
       /\ conn' = "closed" /\ at' = "idle" /\ run' = Blank /\ act' = NoAct /\ holder' = None
       /\ UNCHANGED <<client, lapsed, rpc, cancelled>>
       /\ answer' = [answer EXCEPT ![holder] = a]
       /\ state' = [state EXCEPT ![holder] = "replied"]
<1>1. ReplyError => \E a : Reply(a)
  BY Zenon DEF ReplyError
<1>2. Blocked => \E a : Reply(a)
  BY Zenon DEF Blocked
<1>3. StepFails => \E a : Reply(a)
  BY Zenon DEF StepFails
<1>4. QED
  BY <1>1, <1>2, <1>3 DEF Reply, Unlocked

LEMMA ExecutionMoves ==
  ASSUME TypeInv, Execution
  PROVE  Faulted /\ Linked /\ (Stays \/ Moves)
<1>1. conn \in {"closed", "open", "broken"}
  BY DEF TypeInv, BrowserOK
<1> USE <1>1, CallMoves, ReplyMoves DEF Linked
<1>2. CASE Dial \/ Capture \/ Navigate \/ Render
  <2>1. CASE Dial
    BY <2>1 DEF Dial, Faulted
  <2>2. CASE Capture
    BY <2>2 DEF Capture, Faulted
  <2>3. CASE Navigate \/ Render
    BY <2>3 DEF Navigate, Render, Faulted
  <2>4. QED
    BY <1>2, <2>1, <2>2, <2>3
<1>3. CASE Look \/ Recheck \/ Report
  <2>1. CASE Look
    BY <2>1 DEF Look, Faulted
  <2>2. CASE Recheck
    BY <2>2 DEF Recheck, Faulted, NoFault
  <2>3. CASE Report
    BY <2>3 DEF Report, Faulted
  <2>4. QED
    BY <1>3, <2>1, <2>2, <2>3
<1>4. CASE Observe \/ RefreshFails \/ Refresh
  BY <1>4 DEF Observe, RefreshFails, Refresh
<1>5. CASE Plan \/ Script
  BY <1>5 DEF Plan, Script, Stays, browser, Faulted, NoFault
<1>6. CASE Await \/ HumanClick \/ HumanScroll \/ HumanType \/ FallBack \/ HumanAborted
  BY <1>6 DEF Await, HumanClick, HumanScroll, HumanType, FallBack, HumanAborted, Faulted
<1>7. CASE PlainType \/ PlainClick \/ PlainEnter \/ PlainOther \/ PlainFails
  BY <1>7 DEF PlainType, PlainClick, PlainEnter, PlainOther, PlainFails, Faulted
<1>8. CASE Confirm \/ Pause \/ Check
  BY <1>8 DEF Confirm, Pause, Check, Faulted
<1>9. QED
  BY <1>2, <1>3, <1>4, <1>5, <1>6, <1>7, <1>8 DEF Execution

LEMMA FaultedTypes ==
  ASSUME TypeInv, Faulted
  PROVE  faults' \in 0 .. MaxFaults
BY DEF Faulted, Fault, NoFault, TypeInv, BrowserOK

-----------------------------------------------------------------------------
(* The types are kept *)

LEMMA AsideTypes ==
  ASSUME TypeInv,
         \/ \E r \in Requests : Send(r) \/ Lapse(r) \/ Refuse(r) \/ Receive(r) \/ GiveUp(r) \/ CancelArrives(r)
         \/ Stir \/ UNCHANGED vars
  PROVE  TypeInv' /\ Aside
<1>1. Aside
  BY DEF Send, Lapse, Refuse, Receive, GiveUp, CancelArrives, Stir, vars, calls, Aside
<1>2. at' \in Stages /\ run' \in Locals /\ act' \in Acts
  BY <1>1 DEF Aside, TypeInv
<1>3. BrowserOK'
  <2>1. conn' = conn /\ driver' = driver /\ page' \in Pages /\ Faulted
    BY DEF Send, Lapse, Refuse, Receive, GiveUp, CancelArrives, Stir, vars, browser, Faulted, NoFault,
           TypeInv, BrowserOK
  <2>2. QED
    BY <2>1, FaultedTypes DEF TypeInv, BrowserOK
<1>4. holder' \in Requests \cup {None}
  BY <1>1 DEF Aside, TypeInv, CallsOK
<1>5. answer' \in [Requests -> Answers]
  <2>1. answer \in [Requests -> Answers]
    BY DEF TypeInv, CallsOK
  <2>2. CASE \E r \in Requests : Refuse(r)
    <3>1. [NoAnswer EXCEPT !.kind = "error"] \in Answers
      BY BlankTypes DEF Answers, Replies
    <3>2. QED
      BY <2>1, <2>2, <3>1 DEF Refuse
  <2>3. CASE answer' = answer
    BY <2>1, <2>3
  <2>4. QED
    BY <2>2, <2>3 DEF Send, Lapse, Receive, GiveUp, CancelArrives, Stir, vars, calls
<1>6. client' \in [Requests -> {"new", "calling", "done", "gone"}] /\ lapsed' \subseteq Requests
  BY DEF Send, Lapse, Refuse, Receive, GiveUp, CancelArrives, Stir, vars, calls, TypeInv, CallsOK
<1>7. /\ rpc' \in [Requests -> {"execute", "snapshot"}]
      /\ state' \in [Requests -> {"idle", "queued", "running", "replied"}]
  BY DEF Send, Lapse, Refuse, Receive, GiveUp, CancelArrives, Stir, vars, calls, TypeInv, CallsOK
<1>8. cancelled' \in [Requests -> BOOLEAN]
  BY DEF Send, Lapse, Refuse, Receive, GiveUp, CancelArrives, Stir, vars, calls, TypeInv, CallsOK
<1>9. QED
  BY <1>1, <1>2, <1>3, <1>4, <1>5, <1>6, <1>7, <1>8 DEF TypeInv, CallsOK

LEMMA AcquireMoves ==
  ASSUME TypeInv, NEW r \in Requests, Acquire(r)
  PROVE  /\ TypeInv' /\ at' = "dial" /\ act' = act /\ holder' = r
         /\ KeepsEnd(run', Blank) /\ KeepsWork(run', Blank)
<1>1. run' \in Locals /\ KeepsEnd(run', Blank) /\ KeepsWork(run', Blank)
  <2>1. CASE run' = Blank
    BY <2>1, BlankTypes
       DEF KeepsEnd, KeepsWork, KeepsTrace, KeepsCount, KeepsLooks, KeepsFails, KeepsPlans
  <2>2. CASE \E script \in Scripts : run' = [Blank EXCEPT !.todo = script]
    <3>1. PICK script \in Seq(Kinds) : run' = [Blank EXCEPT !.todo = script]
      BY <2>2
    <3>2. QED
      BY <3>1, BlankTypes, TodoUpdate DEF KeepsWork
  <2>3. QED
    BY <2>1, <2>2 DEF Acquire
<1>2. CallsOK'
  BY DEF Acquire, TypeInv, CallsOK
<1>3. BrowserOK'
  BY DEF Acquire, browser, TypeInv, BrowserOK
<1>4. QED
  BY <1>1, <1>2, <1>3 DEF Acquire, TypeInv, Stages

LEMMA ExpireMoves ==
  ASSUME TypeInv, Expire
  PROVE  /\ TypeInv' /\ UNCHANGED <<calls, conn, browser, at, act>>
         /\ KeepsEnd(run', run) /\ KeepsWork(run', run) /\ run'.todo = run.todo
<1>1. run' \in Locals /\ KeepsEnd(run', run) /\ KeepsWork(run', run) /\ run'.todo = run.todo
  BY ExpiredUpdate DEF Expire, TypeInv, KeepsWork
<1>2. UNCHANGED <<calls, conn, browser, at, act>> /\ Faulted
  BY DEF Expire, Faulted
<1>3. CallsOK'
  BY <1>2 DEF calls, TypeInv, CallsOK
<1>4. BrowserOK'
  BY <1>2, FaultedTypes DEF browser, TypeInv, BrowserOK
<1>5. QED
  BY <1>1, <1>2, <1>3, <1>4 DEF TypeInv

LEMMA ExecutionTypes ==
  ASSUME TypeInv, holder # None, Execution
  PROVE  TypeInv'
<1>0. holder \in Requests
  BY DEF TypeInv, CallsOK
<1>1. BrowserOK'
  BY <1>0, ExecutionMoves, FaultedTypes DEF Linked, Stays, Moves, browser, TypeInv, BrowserOK
<1>2. CASE Onward
  BY <1>1, <1>2 DEF Onward, TypeInv, CallsOK
<1>3. CASE Replied
  <2>1. PICK a \in Answers : Reply(a)
    BY <1>3 DEF Replied
  <2>2. CallsOK'
    BY <1>0, <2>1, ReplyMoves DEF TypeInv, CallsOK
  <2>3. at' \in Stages /\ run' \in Locals /\ act' \in Acts
    BY <2>1, ReplyMoves, BlankTypes DEF Stages
  <2>4. QED
    BY <1>1, <2>2, <2>3 DEF TypeInv
<1>4. QED
  BY <1>2, <1>3, ExecutionKinds

LEMMA TypeStep ==
  ASSUME TypeInv, [Next]_vars
  PROVE  TypeInv'
BY AsideTypes, AcquireMoves, ExpireMoves, ExecutionTypes DEF Next

LEMMA TypeInit ==
  ASSUME Init
  PROVE  TypeInv
<1>1. CallsOK
  BY BlankTypes DEF Init, CallsOK
<1>2. QED
  BY <1>1, BlankTypes DEF Init, TypeInv, BrowserOK, Stages

-----------------------------------------------------------------------------
(* Calls and the lock: one call that has its lease is outstanding at a time, *)
(* and the request that runs is the one that holds the lock.                 *)

CallInv ==
  /\ \A r \in Requests : client[r] = "new" => state[r] = "idle" /\ rpc[r] = "execute"
  /\ \A r \in Requests : state[r] \in {"queued", "running"} => client[r] \in {"calling", "gone"}
  /\ \A r, q \in Requests \ lapsed : client[r] = "calling" /\ client[q] = "calling" => r = q
  /\ \A r \in Requests : state[r] = "running" <=> holder = r
  /\ holder = None <=> at = "idle"

LEMMA CallStep ==
  ASSUME TypeInv, CallInv, [Next]_vars
  PROVE  CallInv'
<1> USE DEF TypeInv, CallsOK, CallInv
<1>1. ASSUME NEW r \in Requests, Send(r)
      PROVE  CallInv'
  BY <1>1 DEF Send, Over
<1>2. ASSUME NEW r \in Requests, Refuse(r)
      PROVE  CallInv'
  BY <1>2 DEF Refuse
<1>3. ASSUME NEW r \in Requests, Receive(r)
      PROVE  CallInv'
  BY <1>3 DEF Receive
<1>4. ASSUME NEW r \in Requests, Lapse(r) \/ GiveUp(r) \/ CancelArrives(r)
      PROVE  CallInv'
  BY <1>4 DEF Lapse, GiveUp, CancelArrives
<1>5. ASSUME NEW r \in Requests, Acquire(r)
      PROVE  CallInv'
  BY <1>5 DEF Acquire
<1>6. CASE Expire \/ Stir \/ UNCHANGED vars
  BY <1>6 DEF Expire, Stir, vars, calls
<1>7. ASSUME holder # None, Execution
      PROVE  CallInv'
  <2>1. CASE Onward
    BY <1>7, <2>1 DEF Onward
  <2>2. CASE Replied
    <3>1. PICK a \in Answers : Reply(a)
      BY <2>2 DEF Replied
    <3>2. /\ at' = "idle" /\ holder' = None /\ UNCHANGED <<client, lapsed, rpc>>
          /\ state' = [state EXCEPT ![holder] = "replied"]
      BY <3>1, ReplyMoves
    <3>3. QED
      BY <1>7, <3>2
  <2>3. QED
    BY <1>7, <2>1, <2>2, ExecutionKinds
<1>8. QED
  BY <1>1, <1>2, <1>3, <1>4, <1>5, <1>6, <1>7 DEF Next

-----------------------------------------------------------------------------
(* Where a run is, and what its locals say of it *)

\* The locals of a run that has not looked at anything nor begun any action.
Fresh(l) ==
  /\ l.then = "start" /\ l.trace = <<>> /\ l.stop = "" /\ l.started = <<>>
  /\ l.last = "" /\ l.repeats = 0 /\ l.failures = 0 /\ l.snapAt = 0
  /\ l.still = 0 /\ l.snap = None /\ l.looks = <<>> /\ l.plans = {}

Early == \/ at \in {"idle", "dial", "capture", "navigate", "render", "observe"}
         \/ at \in Looking /\ run.then = "start"

Control ==
  /\ at = "idle" => run = Blank
  /\ at \notin Acting => act = NoAct
  /\ at \in {"observe", "plan", "refresh"} => Goal
  /\ at = "script" => ~Goal
  /\ run.then = "next" => Goal
  /\ run.then = "finish" => at \in Looking \cup {"report"}
  /\ at = "report" => run.then = "finish"
  /\ at = "refresh" => run.then = "next"
  /\ run.stop # "" => run.then = "finish"
  /\ Goal /\ run.then = "finish" => run.stop # ""
  /\ holder # None /\ rpc[holder] = "snapshot" => at \in {"dial", "capture"}
  /\ at = "capture" => rpc[holder] = "snapshot"
  /\ Early => Fresh(run)

LEMMA BlankIsFresh ==
  /\ Fresh(Blank) /\ Blank.then = "start" /\ Blank.stop = ""
  /\ \A l : KeepsEnd(l, Blank) /\ KeepsWork(l, Blank) => Fresh(l)
BY DEF Blank, Fresh, KeepsEnd, KeepsWork, KeepsTrace, KeepsCount, KeepsLooks, KeepsFails, KeepsPlans

LEMMA FreshKept ==
  ASSUME NEW l, NEW m, Fresh(l), KeepsEnd(m, l), KeepsWork(m, l)
  PROVE  Fresh(m)
BY DEF Fresh, KeepsEnd, KeepsWork, KeepsTrace, KeepsCount, KeepsLooks, KeepsFails, KeepsPlans

LEMMA ControlOnward ==
  ASSUME TypeInv, CallInv, Control, holder # None, Onward
  PROVE  Control'
<1> USE DEF Control, Looking, Acting, Early
<1>1. holder' = holder /\ rpc' = rpc
  BY DEF Onward
<1>2. CASE Walk
  <2>1. run' = run
    BY <1>2 DEF Walk
  <2>2. rpc[holder] \in {"execute", "snapshot"} /\ run.then \in {"start", "next", "finish"}
    BY LocalsTypes DEF TypeInv, CallsOK
  <2>3. CASE at \in Acting
    <3>1. at' \in Acting
      BY <1>2, <2>3 DEF Walk
    <3>2. run.then \notin {"finish"} /\ rpc[holder] # "snapshot"
      BY <2>3
    <3>3. QED
      BY <1>1, <2>1, <2>2, <3>1, <3>2 DEF Goal
  <2>4. CASE at \notin Acting
    <3>1. act' = act /\ at' \notin Acting
      BY <1>2, <2>4 DEF Walk
    <3>2. Early' => Fresh(run')
      BY <1>2, <2>1, <2>4 DEF Walk
    <3>3. at' \notin {"idle"} /\ act' = NoAct
      BY <1>2, <2>4, <3>1 DEF Walk
    <3>4. QED
      BY <1>1, <1>2, <2>1, <2>2, <2>4, <3>1, <3>2, <3>3 DEF Walk, Goal
  <2>5. QED
    BY <2>3, <2>4
<1>3. CASE Observed
  BY <1>1, <1>3 DEF Observed, Goal, KeepsEnd
<1>4. CASE Halt
  <2>1. /\ at' = "look" /\ run'.then = "finish" /\ act' = act
        /\ at \in Looking \cup {"plan", "refresh", "script"}
    BY <1>4 DEF Halt
  <2>2. Goal => run'.stop # ""
    BY <1>4 DEF Halt, Goal
  <2>3. QED
    BY <1>1, <2>1, <2>2 DEF Goal
<1>5. CASE Round
  BY <1>1, <1>5 DEF Round, Goal, KeepsEnd
<1>6. CASE BegunPlanned \/ BegunScripted
  <2>1. at \in {"plan", "script"} /\ at' \in Acting /\ KeepsEnd(run', run)
    BY <1>6 DEF BegunPlanned, BegunScripted, Begun
  <2>2. QED
    BY <1>1, <2>1 DEF Goal, KeepsEnd
<1>7. CASE Done
  BY <1>1, <1>7 DEF Done, Goal
<1>8. QED
  BY <1>2, <1>3, <1>4, <1>5, <1>6, <1>7 DEF Onward

LEMMA ControlStep ==
  ASSUME TypeInv, CallInv, Control, [Next]_vars
  PROVE  Control'
<1>1. ASSUME Aside, holder = None \/ rpc'[holder] = rpc[holder]
      PROVE  Control'
  <2>1. holder' = holder /\ at' = at /\ run' = run /\ act' = act
    BY <1>1 DEF Aside
  <2>2. at = "capture" => holder # None
    BY DEF CallInv
  <2>3. QED
    BY <1>1, <2>1, <2>2 DEF Control, Goal, Early
<1>2. ASSUME NEW r \in Requests,
             Send(r) \/ Lapse(r) \/ Refuse(r) \/ Receive(r) \/ GiveUp(r) \/ CancelArrives(r)
      PROVE  Control'
  <2>1. Aside
    BY <1>2, AsideTypes
  <2>2. holder = None \/ rpc'[holder] = rpc[holder]
    BY <1>2 DEF Send, Lapse, Refuse, Receive, GiveUp, CancelArrives, CallInv, TypeInv, CallsOK
  <2>3. QED
    BY <1>1, <2>1, <2>2
<1>3. CASE Stir \/ UNCHANGED vars
  <2>1. Aside /\ rpc' = rpc
    BY <1>3, AsideTypes DEF Stir, vars, calls
  <2>2. QED
    BY <1>1, <2>1
<1>4. ASSUME NEW r \in Requests, Acquire(r)
      PROVE  Control'
  <2>1. /\ at' = "dial" /\ act' = act /\ holder' = r
        /\ KeepsEnd(run', Blank) /\ KeepsWork(run', Blank)
    BY <1>4, AcquireMoves
  <2>2. Fresh(run')
    BY <2>1, BlankIsFresh
  <2>3. act = NoAct
    BY <1>4 DEF Acquire, CallInv, Control, Acting
  <2>4. QED
    BY <2>1, <2>2, <2>3 DEF Control, Early, Acting, Looking, Goal, Fresh
<1>5. CASE Expire
  <2>1. UNCHANGED <<calls, at, act>> /\ KeepsEnd(run', run) /\ KeepsWork(run', run)
    BY <1>5, ExpireMoves
  <2>2. Fresh(run) => Fresh(run')
    BY <2>1, FreshKept
  <2>3. at # "idle"
    BY <1>5 DEF Expire, CallInv
  <2>4. QED
    BY <2>1, <2>2, <2>3 DEF calls, KeepsEnd, Control, Early, Goal
<1>6. CASE holder # None /\ Execution
  <2>1. CASE Onward
    BY <1>6, <2>1, ControlOnward
  <2>2. CASE Replied
    <3>1. at' = "idle" /\ run' = Blank /\ act' = NoAct /\ holder' = None
      BY <2>2, ReplyMoves DEF Replied
    <3>2. QED
      BY <3>1, BlankIsFresh DEF Control, Early, Acting, Looking
  <2>3. QED
    BY <1>6, <2>1, <2>2, ExecutionKinds
<1>7. QED
  BY <1>2, <1>3, <1>4, <1>5, <1>6 DEF Next

-----------------------------------------------------------------------------
(* The trace: a step for every action that is done, and one action more when *)
(* one is being carried out.                                                 *)

Matches(trace, started) ==
  \A i \in 1 .. Len(trace) : trace[i].what = started[i] /\ trace[i].ok = TRUE

Traced ==
  /\ Matches(run.trace, run.started)
  /\ Len(run.started) = IF at \in Acting THEN Len(run.trace) + 1 ELSE Len(run.trace)
  /\ at \in Acting => run.started[Len(run.started)] = act.what
  /\ Goal => Len(run.trace) <= MaxSteps
  /\ Goal /\ at \in Acting \cup {"plan"} => Len(run.trace) < MaxSteps
  /\ run.stop = "max_planner_steps_reached" => Len(run.trace) = MaxSteps

LEMMA MatchesNothing ==
  ASSUME NEW started
  PROVE  Matches(<<>>, started)
BY EmptySeq DEF Matches

LEMMA MatchesBegun ==
  ASSUME NEW trace \in Seq(Step), NEW started \in Seq(Kinds), NEW kind \in Kinds,
         Matches(trace, started), Len(started) = Len(trace)
  PROVE  /\ Matches(trace, Append(started, kind))
         /\ Len(Append(started, kind)) = Len(trace) + 1
         /\ Append(started, kind)[Len(Append(started, kind))] = kind
<1>1. PICK n \in Nat : n = Len(trace)
  BY LenProperties
<1>2. PICK s : s = Append(started, kind)
  OBVIOUS
<1>3. Len(s) = n + 1 /\ s[n + 1] = kind /\ \A i \in 1 .. n : s[i] = started[i]
  BY <1>1, <1>2, AppendProperties
<1>4. Matches(trace, s)
  BY <1>1, <1>3 DEF Matches
<1>5. QED
  BY <1>1, <1>2, <1>3, <1>4

LEMMA MatchesDone ==
  ASSUME NEW trace \in Seq(Step), NEW started \in Seq(Kinds), NEW step \in Step,
         Matches(trace, started), Len(started) = Len(trace) + 1,
         step.what = started[Len(started)], step.ok = TRUE
  PROVE  /\ Matches(Append(trace, step), started)
         /\ Len(Append(trace, step)) = Len(trace) + 1
<1>1. PICK n \in Nat : n = Len(trace)
  BY LenProperties
<1>2. PICK t : t = Append(trace, step)
  OBVIOUS
<1>3. Len(t) = n + 1 /\ t[n + 1] = step /\ \A i \in 1 .. n : t[i] = trace[i]
  BY <1>1, <1>2, AppendProperties
<1>4. ASSUME NEW i \in 1 .. n + 1
      PROVE  t[i].what = started[i] /\ t[i].ok = TRUE
  <2>1. CASE i = n + 1
    BY <1>1, <1>3, <2>1
  <2>2. CASE i \in 1 .. n
    BY <1>1, <1>3, <2>2 DEF Matches
  <2>3. i = n + 1 \/ i \in 1 .. n
    BY <1>1
  <2>4. QED
    BY <2>1, <2>2, <2>3, Zenon
<1>5. Matches(t, started)
  BY <1>3, <1>4 DEF Matches
<1>6. QED
  BY <1>1, <1>2, <1>3, <1>5

DoneStep == [what |-> act.what, ok |-> TRUE]

LEMMA DoneStepTypes ==
  ASSUME TypeInv
  PROVE  DoneStep \in Step /\ DoneStep.what = act.what /\ DoneStep.ok = TRUE
<1>1. act.what \in Kinds
  BY StepTypes
<1>2. QED
  BY <1>1, Zenon DEF DoneStep, Step

LEMMA TraceTypes ==
  ASSUME TypeInv
  PROVE  /\ run.trace \in Seq(Step) /\ run.started \in Seq(Kinds)
         /\ Len(run.trace) \in Nat /\ Len(run.started) \in Nat
BY LocalsTypes, LenProperties DEF TypeInv

\* A step that leaves the trace alone and does not begin an action.
LEMMA TracedKept ==
  ASSUME Traced, KeepsTrace(run', run), holder' = holder, at' \in Acting <=> at \in Acting,
         at' \in Acting => act'.what = act.what,
         at' = "plan" => Len(run.trace) < MaxSteps \/ ~Goal,
         run'.stop = "max_planner_steps_reached" => Len(run.trace) = MaxSteps
  PROVE  Traced'
BY DEF Traced, KeepsTrace, Goal

LEMMA TracedOnward ==
  ASSUME TypeInv, Control, Traced, holder # None, Onward
  PROVE  Traced'
<1>1. holder' = holder
  BY DEF Onward
<1>2. CASE Walk
  <2>1. run' = run /\ at' # "plan" /\ (at' \in Acting <=> at \in Acting)
    BY <1>2 DEF Walk, Looking, Acting
  <2>2. at \in Acting => act'.what = act.what
    BY <1>2 DEF Walk
  <2>3. QED
    BY <1>1, <2>1, <2>2, TracedKept DEF KeepsTrace, Traced
<1>3. CASE Observed
  <2>1. run.trace = <<>> /\ MaxSteps \in Nat \ {0}
    BY <1>3 DEF Observed, Control, Early, Fresh
  <2>2. Len(run.trace) < MaxSteps
    BY <2>1, EmptySeq
  <2>3. run'.stop = run.stop /\ KeepsTrace(run', run) /\ at \notin Acting /\ at' \notin Acting
    BY <1>3 DEF Observed, KeepsEnd, Acting
  <2>4. QED
    BY <1>1, <2>2, <2>3, TracedKept DEF Traced
<1>4. CASE Halt
  <2>1. KeepsTrace(run', run) /\ at \notin Acting /\ at' \notin Acting /\ at' # "plan"
    BY <1>4 DEF Halt, Acting, Looking
  <2>2. ASSUME run'.stop = "max_planner_steps_reached"
        PROVE  Len(run.trace) = MaxSteps
    <3>1. CASE at = "refresh" /\ Len(run.trace) >= MaxSteps
      <4>1. Goal
        BY <3>1 DEF Control
      <4>2. QED
        BY <3>1, <4>1, TraceTypes DEF Traced
    <3>2. CASE run'.stop = run.stop
      BY <2>2, <3>2 DEF Traced
    <3>3. QED
      BY <1>4, <2>2, <3>1, <3>2 DEF Halt
  <2>3. QED
    BY <1>1, <2>1, <2>2, TracedKept
<1>5. CASE Round
  <2>1. /\ KeepsTrace(run', run) /\ run'.stop = run.stop /\ Len(run.trace) < MaxSteps
        /\ at \notin Acting /\ at' \notin Acting
    BY <1>5 DEF Round, KeepsEnd, Acting
  <2>2. QED
    BY <1>1, <2>1, TracedKept DEF Traced
<1>6. CASE BegunPlanned \/ BegunScripted
  <2>1. PICK kind \in Kinds : Begun(kind)
    BY <1>6 DEF BegunPlanned, BegunScripted
  <2>2. /\ at' \in Acting /\ run'.trace = run.trace /\ run'.stop = run.stop
        /\ run'.started = Append(run.started, kind)
    BY <2>1 DEF Begun, KeepsEnd
  <2>3. at \in {"plan", "script"} /\ at \notin Acting
    BY <1>6 DEF BegunPlanned, BegunScripted, Acting
  <2>4. act'.what = kind
    BY <2>1, BlankTypes DEF Begun, Acts
  <2>5. /\ Matches(run'.trace, run'.started)
        /\ Len(run'.started) = Len(run'.trace) + 1
        /\ run'.started[Len(run'.started)] = act'.what
    BY <2>2, <2>3, <2>4, TraceTypes, MatchesBegun DEF Traced
  <2>6. Goal => Len(run'.trace) < MaxSteps
    BY <2>2, <2>3 DEF Traced, Control
  <2>7. Len(run'.trace) \in Nat
    BY <2>2, TraceTypes
  <2>8. QED
    BY <1>1, <2>2, <2>5, <2>6, <2>7 DEF Traced, Goal
<1>7. CASE Done
  <2>1. /\ at = "check" /\ at \in Acting /\ at' \notin Acting /\ at' # "plan"
        /\ run'.stop = run.stop /\ run'.started = run.started
    BY <1>7 DEF Done, Acting
  <2>2. run'.trace = Append(run.trace, DoneStep)
    BY <1>7, Zenon DEF Done, DoneStep
  <2>3. /\ Matches(run'.trace, run'.started)
        /\ Len(run'.trace) = Len(run.trace) + 1
    <3>1. PICK step \in Step : step = DoneStep
      BY DoneStepTypes
    <3>2. Len(run.started) = Len(run.trace) + 1 /\ Matches(run.trace, run.started)
      BY <2>1 DEF Traced
    <3>3. step.what = run.started[Len(run.started)] /\ step.ok = TRUE
      BY <2>1, <3>1, DoneStepTypes DEF Traced
    <3>4. /\ Matches(Append(run.trace, step), run.started)
          /\ Len(Append(run.trace, step)) = Len(run.trace) + 1
      BY <3>2, <3>3, TraceTypes, MatchesDone
    <3>5. QED
      BY <2>1, <2>2, <3>1, <3>4
  <2>4. Goal => Len(run.trace) < MaxSteps
    BY <2>1 DEF Traced
  <2>5. run.stop # "max_planner_steps_reached"
    <3>1. run.then # "finish"
      BY <2>1 DEF Control, Looking
    <3>2. QED
      BY <3>1 DEF Control
  <2>6. QED
    BY <1>1, <2>1, <2>3, <2>4, <2>5, TraceTypes DEF Traced, Goal
<1>8. QED
  BY <1>2, <1>3, <1>4, <1>5, <1>6, <1>7 DEF Onward

LEMMA TracedFresh ==
  ASSUME Fresh(run), at \notin Acting
  PROVE  Traced
<1>1. Len(<<>>) = 0 /\ MaxSteps \in Nat \ {0}
  BY EmptySeq
<1>2. Matches(run.trace, run.started)
  BY MatchesNothing DEF Fresh
<1>3. run.trace = <<>> /\ run.started = <<>> /\ run.stop # "max_planner_steps_reached"
  BY DEF Fresh
<1>4. QED
  BY <1>1, <1>2, <1>3 DEF Traced

LEMMA TracedStep ==
  ASSUME TypeInv, CallInv, Control, Traced, [Next]_vars
  PROVE  Traced'
<1>1. ASSUME Aside
      PROVE  Traced'
  BY <1>1 DEF Aside, Traced, Goal
<1>2. ASSUME NEW r \in Requests, Acquire(r)
      PROVE  Traced'
  <2>1. Fresh(run') /\ at' \notin Acting
    BY <1>2, AcquireMoves, BlankIsFresh DEF Acting
  <2>2. (Fresh(run) /\ at \notin Acting => Traced)'
    BY TracedFresh, PTL
  <2>3. QED
    BY <2>1, <2>2
<1>3. CASE Expire
  <2>1. UNCHANGED <<calls, conn, browser, at, act>> /\ KeepsEnd(run', run) /\ KeepsWork(run', run)
    BY <1>3, ExpireMoves
  <2>2. holder' = holder /\ KeepsTrace(run', run) /\ run'.stop = run.stop
    BY <2>1 DEF calls, KeepsEnd, KeepsWork
  <2>3. at' = "plan" => Len(run.trace) < MaxSteps \/ ~Goal
    BY <2>1 DEF Traced
  <2>4. QED
    BY <2>1, <2>2, <2>3, TracedKept DEF Traced
<1>4. CASE holder # None /\ Execution
  <2>1. CASE Onward
    BY <1>4, <2>1, TracedOnward
  <2>2. CASE Replied
    <3>1. at' = "idle" /\ run' = Blank
      BY <2>2, ReplyMoves DEF Replied
    <3>2. Fresh(run') /\ at' \notin Acting
      BY <3>1, BlankIsFresh DEF Acting
    <3>3. (Fresh(run) /\ at \notin Acting => Traced)'
      BY TracedFresh, PTL
    <3>4. QED
      BY <3>2, <3>3
  <2>3. QED
    BY <1>4, <2>1, <2>2, ExecutionKinds
<1>5. QED
  BY <1>1, <1>2, <1>3, <1>4, AsideTypes DEF Next

-----------------------------------------------------------------------------
(* Answers *)

Effects(a) ==
  a.kind \in {"ok", "blocked", "failed"} =>
    Len(a.trace) = Len(a.did) /\ \A i \in 1 .. Len(a.trace) : a.trace[i].what = a.did[i]
Verdicts(a) ==
  IF a.kind = "failed"
    THEN /\ Len(a.trace) > 0 /\ a.trace[Len(a.trace)].ok = FALSE
         /\ \A i \in 1 .. Len(a.trace) - 1 : a.trace[i].ok = TRUE
    ELSE \A i \in 1 .. Len(a.trace) : a.trace[i].ok = TRUE
Reasons(r, a) ==
  /\ r \in Goals /\ a.kind = "ok" => a.stop # ""
  /\ a.stop = "max_planner_steps_reached" => Len(a.trace) = MaxSteps
AnswerInv ==
  \A r \in Requests : Effects(answer[r]) /\ Verdicts(answer[r]) /\ Reasons(r, answer[r])

LEMMA EmptyLen ==
  ASSUME NEW s, s = <<>>
  PROVE  Len(s) = 0 /\ ~\E i \in 1 .. Len(s) : TRUE
<1>1. Len(s) = 0
  OBVIOUS
<1>2. QED
  BY <1>1

LEMMA ErrorAnswers ==
  ASSUME NEW a, a.trace = <<>>, a.kind \in {"none", "error"}, a.stop = "", NEW r
  PROVE  Effects(a) /\ Verdicts(a) /\ Reasons(r, a)
<1>1. Len(a.trace) = 0 /\ ~\E i \in 1 .. Len(a.trace) : TRUE
  BY EmptyLen, Zenon
<1>2. Verdicts(a)
  <2>1. a.kind # "failed"
    OBVIOUS
  <2>2. QED
    BY <1>1, <2>1, Zenon DEF Verdicts
<1>3. QED
  BY <1>2 DEF Effects, Reasons

FailedStep == [what |-> act.what, ok |-> FALSE]

LEMMA FailedStepTypes ==
  ASSUME TypeInv
  PROVE  FailedStep \in Step /\ FailedStep.what = act.what /\ FailedStep.ok = FALSE
<1>1. act.what \in Kinds
  BY StepTypes
<1>2. QED
  BY <1>1, Zenon DEF FailedStep, Step

LEMMA BlockedOrDone ==
  ASSUME TypeInv, Control, Traced, NEW a, Blocks(a) \/ Reports(a)
  PROVE  Effects(a) /\ Verdicts(a) /\ Reasons(holder, a)
<1>1. /\ at \notin Acting /\ a.trace = run.trace /\ a.did = run.started
      /\ a.kind \in {"blocked", "ok"}
  BY DEF Blocks, Reports, Tells, Looking, Acting
<1>2. Matches(a.trace, a.did) /\ Len(a.did) = Len(a.trace)
  BY <1>1 DEF Traced
<1>3. Effects(a)
  BY <1>2, Zenon DEF Effects, Matches
<1>4. Verdicts(a)
  BY <1>1, <1>2, Zenon DEF Verdicts, Matches
<1>5. a.stop = "blocker_detected" \/ a.stop = run.stop
  BY DEF Blocks, Reports
<1>6. a.stop = "max_planner_steps_reached" => Len(a.trace) = MaxSteps
  BY <1>1, <1>5 DEF Traced
<1>7. holder \in Goals /\ a.kind = "ok" => a.stop # ""
  BY DEF Blocks, Reports, Control, Goal
<1>8. QED
  BY <1>3, <1>4, <1>6, <1>7 DEF Reasons

LEMMA FailedAnswers ==
  ASSUME TypeInv, Traced, NEW a, Fails(a)
  PROVE  Effects(a) /\ Verdicts(a) /\ Reasons(holder, a)
<1>1. at \in Acting /\ a.kind = "failed" /\ a.did = run.started /\ a.stop \in {"", "action_failed"}
  BY DEF Fails, Tells
<1>2. PICK step \in Step : step = FailedStep
  BY FailedStepTypes
<1>3. a.trace = Append(run.trace, step)
  BY <1>2, Zenon DEF Fails, FailedStep
<1>4. PICK n \in Nat : n = Len(run.trace)
  BY TraceTypes
<1>5. Len(a.trace) = n + 1 /\ a.trace[n + 1] = step /\ \A i \in 1 .. n : a.trace[i] = run.trace[i]
  BY <1>3, <1>4, TraceTypes, AppendProperties
<1>6. Len(a.did) = n + 1 /\ a.did[n + 1] = act.what
  BY <1>1, <1>4 DEF Traced
<1>7. ASSUME NEW i \in 1 .. n
      PROVE  a.trace[i].what = a.did[i] /\ a.trace[i].ok = TRUE
  <2>1. run.trace[i].what = run.started[i] /\ run.trace[i].ok = TRUE
    BY <1>4 DEF Traced, Matches
  <2>2. QED
    BY <1>1, <1>5, <2>1, Zenon
<1>8. step.what = act.what /\ step.ok = FALSE
  BY <1>2, FailedStepTypes
<1>9. Effects(a)
  <2>1. ASSUME NEW i \in 1 .. n + 1
        PROVE  a.trace[i].what = a.did[i]
    <3>1. i = n + 1 \/ i \in 1 .. n
      OBVIOUS
    <3>2. a.trace[n + 1].what = a.did[n + 1]
      BY <1>5, <1>6, <1>8, Zenon
    <3>3. QED
      BY <1>7, <3>1, <3>2, Zenon
  <2>2. QED
    BY <1>5, <1>6, <2>1 DEF Effects
<1>10. Verdicts(a)
  <2>1. a.trace[n + 1].ok = FALSE
    BY <1>5, <1>8, Zenon
  <2>2. n + 1 > 0 /\ (n + 1) - 1 = n
    OBVIOUS
  <2>3. \A i \in 1 .. n : a.trace[i].ok = TRUE
    BY <1>7, Zenon
  <2>4. QED
    BY <1>1, <1>5, <2>1, <2>2, <2>3, Zenon DEF Verdicts
<1>11. QED
  BY <1>1, <1>9, <1>10 DEF Reasons

\* The call for a screenshot changes nothing else of the answer.
LEMMA ShownAnswers ==
  ASSUME NEW a \in Answers, NEW b, b = a \/ \E shot : b = [a EXCEPT !.shot = shot], NEW r,
         Effects(a) /\ Verdicts(a) /\ Reasons(r, a)
  PROVE  Effects(b) /\ Verdicts(b) /\ Reasons(r, b)
<1>1. b.kind = a.kind /\ b.trace = a.trace /\ b.stop = a.stop /\ b.did = a.did
  BY DEF Answers
<1>2. Effects(b) /\ Reasons(r, b)
  BY <1>1, Zenon DEF Effects, Reasons
<1>3. Verdicts(b)
  BY <1>1, Zenon DEF Verdicts
<1>4. QED
  BY <1>2, <1>3

LEMMA AnswerStep ==
  ASSUME TypeInv, CallInv, Control, Traced, AnswerInv, [Next]_vars
  PROVE  AnswerInv'
<1>0. answer \in [Requests -> Answers]
  BY DEF TypeInv, CallsOK
<1>1. CASE answer' = answer
  BY <1>1 DEF AnswerInv
<1>2. ASSUME NEW p \in Requests, NEW a, answer' = [answer EXCEPT ![p] = a],
             Effects(a), Verdicts(a), Reasons(p, a)
      PROVE  AnswerInv'
  <2>1. ASSUME NEW r \in Requests
        PROVE  Effects(answer'[r]) /\ Verdicts(answer'[r]) /\ Reasons(r, answer'[r])
    <3>1. CASE r = p
      BY <1>0, <1>2, <3>1
    <3>2. CASE r # p
      BY <1>0, <1>2, <3>2 DEF AnswerInv
    <3>3. QED
      BY <3>1, <3>2
  <2>2. QED
    BY <2>1 DEF AnswerInv
<1>3. ASSUME NEW r \in Requests, Refuse(r)
      PROVE  AnswerInv'
  <2>1. PICK a : a = [NoAnswer EXCEPT !.kind = "error"]
    OBVIOUS
  <2>2. answer' = [answer EXCEPT ![r] = a]
    BY <1>3, <2>1 DEF Refuse
  <2>3. a.trace = <<>> /\ a.kind \in {"none", "error"} /\ a.stop = ""
    BY <2>1 DEF NoAnswer
  <2>4. QED
    BY <1>2, <2>2, <2>3, ErrorAnswers
<1>4. ASSUME holder # None, Execution
      PROVE  AnswerInv'
  <2>0. holder \in Requests
    BY <1>4 DEF TypeInv, CallsOK
  <2>1. CASE Onward
    BY <1>1, <2>1 DEF Onward
  <2>2. CASE Replied
    <3>1. PICK a \in Answers :
            Reply(a) /\ (Errs(a) \/ Shows(a) \/ Blocks(a) \/ Reports(a) \/ Fails(a))
      BY <2>2 DEF Replied
    <3>2. answer' = [answer EXCEPT ![holder] = a]
      BY <3>1, ReplyMoves
    <3>3. CASE Errs(a)
      <4>1. a.trace = <<>> /\ a.kind \in {"none", "error"} /\ a.stop = ""
        BY <3>3 DEF Errs, NoAnswer
      <4>2. QED
        BY <1>2, <2>0, <3>2, <4>1, ErrorAnswers
    <3>4. CASE Shows(a)
      <4>1. a = answer[holder] \/ \E shot : a = [answer[holder] EXCEPT !.shot = shot]
        BY <3>4 DEF Shows
      <4>2. /\ answer[holder] \in Answers
            /\ Effects(answer[holder]) /\ Verdicts(answer[holder]) /\ Reasons(holder, answer[holder])
        BY <1>0, <2>0 DEF AnswerInv
      <4>3. Effects(a) /\ Verdicts(a) /\ Reasons(holder, a)
        BY <4>1, <4>2, ShownAnswers
      <4>4. QED
        BY <1>2, <2>0, <3>2, <4>3
    <3>5. CASE Blocks(a) \/ Reports(a)
      BY <1>2, <2>0, <3>2, <3>5, BlockedOrDone
    <3>6. CASE Fails(a)
      BY <1>2, <2>0, <3>2, <3>6, FailedAnswers
    <3>7. QED
      BY <3>1, <3>3, <3>4, <3>5, <3>6
  <2>3. QED
    BY <1>4, <2>1, <2>2, ExecutionKinds
<1>5. QED
  BY <1>1, <1>3, <1>4
     DEF Next, Send, Lapse, Receive, GiveUp, CancelArrives, Acquire, Expire, Stir, vars, calls

-----------------------------------------------------------------------------
(* Actions: one that may have clicked already is tried again in one go only  *)
(* if the connection is gone, and then it cannot click.                      *)

ActInv ==
  /\ act.clicks <= 1
  /\ at \in {"await", "human"} => act.clicks = 0
  /\ at = "await" => act.field = "old"
  /\ at = "human" => act.field \in {"old", "empty", "part"}
  /\ at = "plain" /\ act.clicks = 1 => conn # "open"
  /\ at \in {"confirm", "check"} /\ act.what = "type" => act.field = "text"
  /\ at = "pause" => act.what = "wait"

LEMMA ActNone ==
  ASSUME act = NoAct, at \notin Acting
  PROVE  ActInv
BY DEF NoAct, Acting, ActInv

\* The attempts at one action.
LEMMA ActAttempts ==
  ASSUME TypeInv, ActInv,
         \/ Await \/ HumanClick \/ HumanScroll \/ HumanType \/ FallBack
         \/ PlainType \/ PlainClick \/ PlainEnter \/ PlainOther \/ Confirm \/ Pause,
         at' \in Acting, act'.what = act.what
  PROVE  ActInv'
<1>0. act.clicks \in Nat /\ act.what \in Kinds /\ act.field \in Fields
  BY StepTypes
<1>1. ~StepFails
  BY ReplyMoves DEF Acting
<1> USE DEF Goto
<1>2. CASE Await
  BY <1>0, <1>1, <1>2 DEF Await, ActInv
<1>3. CASE HumanClick
  <2>1. at = "human" /\ act.what = "click" /\ at' = "check" /\ act' = Pressed
    BY <1>3 DEF HumanClick
  <2>2. act'.clicks = act.clicks + 1
    BY <2>1, PressedUpdate
  <2>3. act.clicks = 0
    BY <2>1 DEF ActInv
  <2>4. QED
    BY <2>1, <2>2, <2>3 DEF ActInv
<1>4. CASE HumanScroll
  BY <1>4 DEF HumanScroll, ActInv
<1>5. CASE HumanType
  <2>1. /\ at = "human" /\ act.what = "type" /\ act' = [act EXCEPT !.field = TypedSoFar(@)]
        /\ at' = IF act.field = "part" THEN "confirm" ELSE "human"
    BY <1>5 DEF HumanType
  <2>2. PICK f : f = TypedSoFar(act.field)
    OBVIOUS
  <2>3. act'.clicks = act.clicks /\ act'.field = f
    BY <2>1, <2>2, TypedUpdate
  <2>4. IF act.field = "part" THEN f = "text" ELSE f \in {"empty", "part"}
    BY <2>1, <2>2 DEF TypedSoFar, ActInv
  <2>5. QED
    BY <2>1, <2>3, <2>4 DEF ActInv
<1>6. CASE FallBack
  <2>1. at = "human" /\ at' = "plain"
    BY <1>6 DEF FallBack
  <2>2. CASE UNCHANGED act
    BY <2>1, <2>2 DEF ActInv
  <2>3. CASE ResponseLost /\ act.what = "click" /\ act' = Pressed
    <3>1. act.clicks = 0 /\ act'.clicks = act.clicks + 1
      BY <2>1, <2>3, PressedUpdate DEF ActInv
    <3>2. conn' = "broken"
      BY <2>3, CallMoves
    <3>3. QED
      BY <2>1, <3>1, <3>2 DEF ActInv
  <2>4. CASE ResponseLost /\ act' = [act EXCEPT !.field = TypedSoFar(@)]
    <3>1. PICK f : f = TypedSoFar(act.field)
      OBVIOUS
    <3>2. act'.clicks = act.clicks
      BY <2>4, <3>1, TypedUpdate
    <3>3. conn' = "broken"
      BY <2>4, CallMoves
    <3>4. QED
      BY <2>1, <3>2, <3>3 DEF ActInv
  <2>5. QED
    BY <1>6, <2>2, <2>3, <2>4 DEF FallBack
<1>7. CASE PlainType
  <2>1. at' = "confirm" /\ act' = [act EXCEPT !.field = TypeInto(@)]
    BY <1>7 DEF PlainType
  <2>2. PICK f : f = TypeInto(act.field)
    OBVIOUS
  <2>3. act'.clicks = act.clicks /\ act'.field = f /\ f = "text"
    BY <2>1, <2>2, TypedUpdate DEF TypeInto
  <2>4. QED
    BY <2>1, <2>3 DEF ActInv
<1>8. CASE PlainClick
  <2>1. at = "plain" /\ act.what = "click" /\ at' = "check" /\ act' = Pressed /\ conn = "open"
    BY <1>8 DEF PlainClick, CallOk, Works
  <2>2. act'.clicks = act.clicks + 1
    BY <2>1, PressedUpdate
  <2>3. act.clicks = 0
    BY <1>0, <2>1 DEF ActInv
  <2>4. QED
    BY <2>1, <2>2, <2>3 DEF ActInv
<1>9. CASE PlainEnter \/ PlainOther
  BY <1>9 DEF PlainEnter, PlainOther, ActInv
<1>10. CASE Confirm
  BY <1>1, <1>10 DEF Confirm, ActInv
<1>11. CASE Pause
  BY <1>1, <1>11 DEF Pause, ActInv
<1>12. QED
  BY <1>2, <1>3, <1>4, <1>5, <1>6, <1>7, <1>8, <1>9, <1>10, <1>11

LEMMA ActStep ==
  ASSUME TypeInv, CallInv, Control, ActInv, [Next]_vars
  PROVE  ActInv'
<1>1. (act = NoAct /\ at \notin Acting => ActInv)'
  BY ActNone, PTL
<1>2. CASE conn' = conn /\ at' = at /\ act' = act
  BY <1>2 DEF ActInv
<1>3. ASSUME NEW r \in Requests, Acquire(r)
      PROVE  ActInv'
  <2>1. at = "idle" /\ at' = "dial" /\ act' = act
    BY <1>3, AcquireMoves DEF Acquire, CallInv
  <2>2. QED
    BY <1>1, <2>1 DEF Control, Acting
<1>4. ASSUME holder # None, Execution
      PROVE  ActInv'
  <2>1. Replied \/ Onward
    BY <1>4, ExecutionKinds
  <2>2. CASE Replied
    <3>1. at' = "idle" /\ act' = NoAct
      BY <2>2, ReplyMoves DEF Replied
    <3>2. QED
      BY <1>1, <3>1 DEF Acting
  <2>3. CASE Onward /\ Walk /\ at \notin Acting
    <3>1. at' \notin Acting /\ act' = act
      BY <2>3 DEF Walk, Acting, Looking
    <3>2. QED
      BY <1>1, <2>3, <3>1 DEF Control
  <2>4. CASE Onward /\ Walk /\ at \in Acting
    <3>1. at' \in Acting /\ act'.what = act.what
      BY <2>4 DEF Walk, Acting, Looking
    <3>2. at' # "idle"
      BY <3>1 DEF Acting
    <3>3. CASE \/ Await \/ HumanClick \/ HumanScroll \/ HumanType \/ FallBack
               \/ PlainType \/ PlainClick \/ PlainEnter \/ PlainOther \/ Confirm \/ Pause
      BY <3>1, <3>3, ActAttempts
    <3>4. CASE HumanAborted \/ PlainFails \/ Check
      <4>1. StepFails \/ StepDone
        BY <3>4 DEF HumanAborted, PlainFails, Check
      <4>2. StepDone => at' \notin Acting
        BY DEF StepDone, Goto, Acting
      <4>3. QED
        BY <3>1, <3>2, <4>1, <4>2, ReplyMoves
    <3>5. CASE at \notin Acting
      BY <2>4, <3>5
    <3>6. QED
      BY <1>4, <2>4, <3>3, <3>4
         DEF Execution, Acting, Dial, Capture, Navigate, Render, Look, Recheck, Report,
             Observe, Plan, RefreshFails, Refresh, Script
  <2>5. CASE Onward /\ (Observed \/ Halt \/ Round)
    <3>1. at \notin Acting /\ at' \notin Acting /\ act' = act
      BY <2>5 DEF Observed, Halt, Round, Acting, Looking
    <3>2. QED
      BY <1>1, <3>1 DEF Control
  <2>6. CASE Onward /\ (BegunPlanned \/ BegunScripted)
    <3>1. PICK kind \in Kinds : Begun(kind)
      BY <2>6 DEF BegunPlanned, BegunScripted
    <3>2. /\ act' = [NoAct EXCEPT !.what = kind] /\ at' \in Acting \ {"confirm", "check"}
          /\ at' = "pause" => kind = "wait"
      BY <3>1 DEF Begun
    <3>3. act'.what = kind /\ act'.clicks = 0 /\ act'.field = "old"
      BY <3>2 DEF NoAct
    <3>4. QED
      BY <3>2, <3>3 DEF ActInv
  <2>7. CASE Onward /\ Done
    <3>1. act' = NoAct /\ at' \notin Acting
      BY <2>7 DEF Done, Acting
    <3>2. QED
      BY <1>1, <3>1
  <2>8. QED
    BY <2>1, <2>2, <2>3, <2>4, <2>5, <2>6, <2>7 DEF Onward
<1>5. QED
  BY <1>2, <1>3, <1>4, AsideTypes, ExpireMoves DEF Aside, Next

-----------------------------------------------------------------------------
(* Screenshots: whose page the browser shows.  A request that is past its    *)
(* navigation has touched the page last, and while the screenshot of one is  *)
(* still to be taken, only requests that have lost the node or were given up *)
(* can come in between.                                                      *)
ToBeShown(r) ==
  /\ client[r] = "calling" /\ r \notin lapsed
  /\ rpc[r] = "snapshot" \/ (state[r] = "replied" /\ answer[r].kind \in {"ok", "blocked"})

DriverInv ==
  /\ at \notin {"idle", "dial", "capture", "navigate"} => driver = holder
  /\ \A r \in Requests : ToBeShown(r) => driver \in {r} \cup Astray
  /\ ShotIsOwn

LEMMA DriverCalls ==
  ASSUME TypeInv, CallInv, DriverInv, NEW r \in Requests,
         \/ Send(r) \/ Lapse(r) \/ Refuse(r) \/ Receive(r)
         \/ GiveUp(r) \/ CancelArrives(r) \/ Acquire(r)
  PROVE  DriverInv'
<1> USE DEF TypeInv, CallsOK
<1>1. driver' = driver
  BY DEF Send, Lapse, Refuse, Receive, GiveUp, CancelArrives, Acquire, browser
<1>2. at' \notin {"idle", "dial", "capture", "navigate"} => driver' = holder'
  BY <1>1 DEF Send, Lapse, Refuse, Receive, GiveUp, CancelArrives, Acquire, DriverInv
<1>3. Astray \subseteq Astray'
  BY DEF Send, Lapse, Refuse, Receive, GiveUp, CancelArrives, Acquire, Astray
<1>4. ASSUME NEW q \in Requests, ToBeShown(q)'
      PROVE  ToBeShown(q)
  <2>1. CASE Send(r)
    BY <1>4, <2>1 DEF Send, ToBeShown, CallInv
  <2>2. CASE Refuse(r)
    <3>1. answer'[r] = [NoAnswer EXCEPT !.kind = "error"]
      BY <2>2 DEF Refuse
    <3>2. answer'[r].kind = "error"
      BY <3>1 DEF NoAnswer
    <3>3. q # r => answer'[q] = answer[q] /\ state'[q] = state[q]
      BY <2>2 DEF Refuse
    <3>4. UNCHANGED <<rpc, client, lapsed>> /\ rpc[r] = "execute"
      BY <2>2 DEF Refuse
    <3>5. QED
      BY <1>4, <3>2, <3>3, <3>4 DEF ToBeShown
  <2>3. CASE Receive(r)
    BY <1>4, <2>3 DEF Receive, Backfills, ToBeShown
  <2>4. CASE Lapse(r) \/ GiveUp(r) \/ CancelArrives(r) \/ Acquire(r)
    BY <1>4, <2>4 DEF Lapse, GiveUp, CancelArrives, Acquire, ToBeShown
  <2>5. QED
    BY <2>1, <2>2, <2>3, <2>4
<1>5. ASSUME NEW q \in Requests, q \notin Astray'
      PROVE  q \notin Astray /\ answer'[q].shot \in {None, answer[q].shot}
  <2>1. q \notin Astray
    BY <1>3, <1>5
  <2>2. CASE Refuse(r)
    <3>1. answer'[r] = [NoAnswer EXCEPT !.kind = "error"]
      BY <2>2 DEF Refuse
    <3>2. answer'[r].shot = None
      BY <3>1 DEF NoAnswer
    <3>3. q # r => answer'[q] = answer[q]
      BY <2>2 DEF Refuse
    <3>4. QED
      BY <2>1, <3>2, <3>3
  <2>3. CASE answer' = answer
    BY <2>1, <2>3
  <2>4. QED
    BY <2>2, <2>3 DEF Send, Lapse, Receive, GiveUp, CancelArrives, Acquire
<1>6. QED
  BY <1>1, <1>2, <1>3, <1>4, <1>5 DEF DriverInv, ShotIsOwn, Astray

\* Whatever the holder does to the page, it is the request to be shown or has
\* been given up.
LEMMA DriverKept ==
  ASSUME TypeInv, CallInv, DriverInv, holder # None, Execution,
         NEW r \in Requests, ToBeShown(r)
  PROVE  driver' \in {r} \cup Astray
<1>1. driver' \in {driver, holder}
  BY ExecutionMoves DEF Stays, Moves, browser
<1>2. holder \in Requests /\ client[holder] \in {"calling", "gone"}
  BY DEF TypeInv, CallsOK, CallInv
<1>3. holder \in {r} \cup Astray
  BY <1>2 DEF ToBeShown, CallInv, Astray
<1>4. QED
  BY <1>1, <1>3 DEF DriverInv

LEMMA DriverOnward ==
  ASSUME TypeInv, CallInv, DriverInv, holder # None, Execution, Onward
  PROVE  DriverInv'
<1>1. UNCHANGED <<client, lapsed, rpc, state, answer, holder>>
  BY DEF Onward
<1>2. at # "idle"
  BY DEF CallInv
<1>3. ASSUME at' \notin {"idle", "dial", "capture", "navigate"}
      PROVE  driver' = holder
  <2>1. CASE at \in {"dial", "capture"}
    BY <1>3, <2>1 DEF Onward, Walk, Observed, Halt, Round, BegunPlanned, BegunScripted, Done,
                      Looking, Acting
  <2>2. CASE at = "navigate"
    <3>1. Navigate
      BY <2>2 DEF Execution, Dial, Capture, Render, Look, Recheck, Report, Observe, Plan,
                  RefreshFails, Refresh, Script, Await, HumanClick, HumanScroll, HumanType,
                  FallBack, HumanAborted, PlainType, PlainClick, PlainEnter, PlainOther,
                  PlainFails, Confirm, Pause, Check
    <3>2. Moves
      BY <1>3, <3>1, ReplyMoves DEF Navigate
    <3>3. QED
      BY <3>2 DEF Moves
  <2>3. CASE at \notin {"idle", "dial", "capture", "navigate"}
    <3>1. driver' \in {driver, holder}
      BY ExecutionMoves DEF Stays, Moves, browser
    <3>2. QED
      BY <2>3, <3>1 DEF DriverInv
  <2>4. QED
    BY <1>2, <2>1, <2>2, <2>3
<1>4. ASSUME NEW r \in Requests, ToBeShown(r)'
      PROVE  driver' \in {r} \cup Astray
  <2>1. ToBeShown(r)
    BY <1>1, <1>4 DEF ToBeShown
  <2>2. QED
    BY <2>1, DriverKept
<1>5. QED
  BY <1>1, <1>3, <1>4 DEF DriverInv, ShotIsOwn, Astray

LEMMA DriverReplied ==
  ASSUME TypeInv, CallInv, Control, DriverInv, holder # None, Execution, Replied
  PROVE  DriverInv'
<1>0. holder \in Requests /\ answer \in [Requests -> Answers]
  BY DEF TypeInv, CallsOK
<1>1. PICK a \in Answers :
        Reply(a) /\ (Errs(a) \/ Shows(a) \/ Blocks(a) \/ Reports(a) \/ Fails(a))
  BY DEF Replied
<1>2. /\ at' = "idle" /\ UNCHANGED <<client, lapsed, rpc>>
      /\ answer' = [answer EXCEPT ![holder] = a]
      /\ state' = [state EXCEPT ![holder] = "replied"]
  BY <1>1, ReplyMoves
<1>3. answer'[holder] = a /\ \A r \in Requests \ {holder} : answer'[r] = answer[r]
  BY <1>0, <1>2
<1>4. \A r \in Requests \ {holder} : state'[r] = state[r]
  BY <1>2 DEF TypeInv, CallsOK
<1>5. Blocks(a) \/ Reports(a) \/ Fails(a) => driver = holder
  BY DEF Blocks, Reports, Fails, Looking, Acting, DriverInv
<1>6. at = "capture" => rpc[holder] = "snapshot"
  BY DEF Control
<1>7. ASSUME NEW r \in Requests, ToBeShown(r)'
      PROVE  driver' \in {r} \cup Astray
  <2>1. CASE r # holder \/ rpc[r] = "snapshot"
    <3>1. ToBeShown(r)
      BY <1>2, <1>3, <1>4, <1>7, <2>1 DEF ToBeShown
    <3>2. QED
      BY <3>1, DriverKept
  <2>2. CASE r = holder /\ rpc[r] # "snapshot"
    <3>1. a.kind \in {"ok", "blocked"}
      BY <1>2, <1>3, <1>7, <2>2 DEF ToBeShown
    <3>2. ~Errs(a)
      BY <3>1 DEF Errs, NoAnswer
    <3>3. ~Fails(a)
      BY <3>1 DEF Fails
    <3>4. ~Shows(a)
      BY <1>6, <2>2 DEF Shows, TypeInv, CallsOK
    <3>5. driver' = driver /\ driver = holder
      BY <1>1, <1>5, <3>2, <3>3, <3>4 DEF Blocks, Reports
    <3>6. QED
      BY <2>2, <3>5
  <2>3. QED
    BY <2>1, <2>2
<1>8. ASSUME NEW r \in Requests \ Astray
      PROVE  answer'[r].shot \in {None, r} \cup Astray
  <2>1. answer[r].shot \in {None, r} \cup Astray
    BY <1>8 DEF DriverInv, ShotIsOwn, Astray
  <2>2. CASE r # holder
    BY <1>3, <2>1, <2>2
  <2>3. CASE r = holder
    <3>1. CASE Errs(a)
      <4>1. a.shot = None
        BY <3>1 DEF Errs, NoAnswer
      <4>2. QED
        BY <1>3, <2>3, <4>1
    <3>2. CASE a = answer[holder]
      BY <1>3, <2>1, <2>3, <3>2
    <3>3. CASE at = "capture" /\ a = [answer[holder] EXCEPT !.shot = driver]
      <4>1. a.shot = driver
        BY <1>0, <3>3 DEF Answers
      <4>2. ToBeShown(r)
        BY <1>6, <1>8, <2>3, <3>3 DEF ToBeShown, CallInv, Astray
      <4>3. QED
        BY <1>3, <2>3, <4>1, <4>2 DEF DriverInv
    <3>4. CASE Blocks(a) \/ Reports(a) \/ Fails(a)
      <4>1. a.shot \in {None, driver}
        BY <3>4 DEF Blocks, Reports, Fails, Tells
      <4>2. QED
        BY <1>3, <1>5, <2>3, <3>4, <4>1
    <3>5. QED
      BY <1>1, <3>1, <3>2, <3>3, <3>4 DEF Shows
  <2>4. QED
    BY <2>2, <2>3
<1>9. QED
  BY <1>2, <1>7, <1>8 DEF DriverInv, ShotIsOwn, Astray

LEMMA DriverStep ==
  ASSUME TypeInv, CallInv, Control, DriverInv, [Next]_vars
  PROVE  DriverInv'
<1>1. CASE Expire \/ Stir \/ UNCHANGED vars
  <2>1. UNCHANGED <<client, lapsed, rpc, state, answer, holder, driver, at>>
    BY <1>1 DEF Expire, Stir, vars, calls, browser
  <2>2. QED
    BY <2>1 DEF DriverInv, ToBeShown, ShotIsOwn, Astray
<1>2. ASSUME holder # None, Execution
      PROVE  DriverInv'
  BY <1>2, ExecutionKinds, DriverOnward, DriverReplied
<1>3. QED
  BY <1>1, <1>2, DriverCalls DEF Next

-----------------------------------------------------------------------------
(* The invariant of the agent but for its goal loop, and what follows.       *)

AgentInv ==
  TypeInv /\ CallInv /\ Control /\ Traced /\ AnswerInv /\ ActInv /\ DriverInv

LEMMA AgentInit ==
  ASSUME Init
  PROVE  AgentInv
<1>1. TypeInv
  BY TypeInit
<1>2. CallInv
  BY DEF Init, CallInv
<1>3. run = Blank /\ at = "idle" /\ act = NoAct /\ holder = None
  BY DEF Init
<1>4. Fresh(run) /\ at \notin Acting
  BY <1>3, BlankIsFresh DEF Acting
<1>5. Control
  BY <1>3, <1>4 DEF Control, Looking, Acting, Fresh
<1>6. Traced /\ ActInv
  BY <1>3, <1>4, TracedFresh, ActNone
<1>7. ASSUME NEW r \in Requests
      PROVE  answer[r].trace = <<>> /\ answer[r].kind = "none" /\ answer[r].stop = ""
             /\ answer[r].shot = None
  BY DEF Init, NoAnswer
<1>8. AnswerInv
  BY <1>7, ErrorAnswers DEF AnswerInv
<1>9. DriverInv
  BY <1>3, <1>7 DEF Init, DriverInv, ToBeShown, ShotIsOwn
<1>10. QED
  BY <1>1, <1>2, <1>5, <1>6, <1>8, <1>9 DEF AgentInv

\* The invariant of everything but the goal loop: types, the calls and the
\* lock, where a run is, its trace, the answers, the attempts at an action
\* and the page's driver.
THEOREM AgentInvariant == Spec => []AgentInv
<1>1. Init => AgentInv
  BY AgentInit
<1>2. AgentInv /\ [Next]_vars => AgentInv'
  BY TypeStep, CallStep, ControlStep, TracedStep, AnswerStep, ActStep, DriverStep DEF AgentInv
<1>3. QED
  BY <1>1, <1>2, PTL DEF Spec

\* Every action that a run has begun is in the trace of its answer, in order,
\* whatever became of it (main.go:325-431).
THEOREM AllEffectsReported == Spec => []EffectsReported
<1>1. AgentInv => EffectsReported
  <2>1. ASSUME AgentInv, NEW r \in Requests, answer[r].kind \in {"ok", "blocked", "failed"}
        PROVE  [i \in DOMAIN answer[r].trace |-> answer[r].trace[i].what] = answer[r].did
    <3>1. answer[r].trace \in Seq(Step) /\ answer[r].did \in Seq(Kinds)
      BY <2>1 DEF AgentInv, TypeInv, CallsOK, Answers
    <3>2. PICK t \in Seq(Step) : t = answer[r].trace
      BY <3>1
    <3>3. PICK d \in Seq(Kinds) : d = answer[r].did
      BY <3>1
    <3>4. Len(t) = Len(d) /\ \A i \in 1 .. Len(t) : t[i].what = d[i]
      BY <2>1, <3>2, <3>3, Zenon DEF AgentInv, AnswerInv, Effects
    <3>5. DOMAIN t = 1 .. Len(t) /\ DOMAIN d = 1 .. Len(d)
      BY LenProperties
    <3>6. d = [i \in 1 .. Len(d) |-> d[i]]
      BY <3>5, LenProperties, ElementOfSeq
    <3>7. [i \in DOMAIN t |-> t[i].what] = [i \in 1 .. Len(d) |-> d[i]]
      BY <3>4, <3>5, Zenon
    <3>8. QED
      BY <3>2, <3>3, <3>6, <3>7
  <2>2. QED
    BY <2>1 DEF EffectsReported
<1>2. QED
  BY <1>1, AgentInvariant, PTL

\* An answer says how the run ended: only a failed one has a failed step, and
\* it is the last; a goal's run that ended well has its reason, and says that
\* it is out of steps only when it is (main.go:402-410).
THEOREM AllAnswersSayHow == Spec => []AnswersSayHow
<1>1. AgentInv => AnswersSayHow
  <2>1. ASSUME AgentInv, NEW r \in Requests, NEW a, a = answer[r]
        PROVE  /\ \A i \in DOMAIN a.trace :
                     a.trace[i].ok <=> ~(a.kind = "failed" /\ i = Len(a.trace))
               /\ a.kind = "failed" => a.trace # <<>>
    <3>1. a.trace \in Seq(Step) /\ Verdicts(a)
      BY <2>1 DEF AgentInv, AnswerInv, TypeInv, CallsOK, Answers
    <3>2. PICK t \in Seq(Step) : t = a.trace
      BY <3>1
    <3>3. PICK n \in Nat : n = Len(t)
      BY LenProperties
    <3>4. DOMAIN t = 1 .. n
      BY <3>3, LenProperties
    <3>5. a.kind = "failed" => n > 0 /\ t[n].ok = FALSE /\ \A i \in 1 .. n - 1 : t[i].ok = TRUE
      BY <3>1, <3>2, <3>3, Zenon DEF Verdicts
    <3>6. a.kind # "failed" => \A i \in 1 .. n : t[i].ok = TRUE
      BY <3>1, <3>2, <3>3, Zenon DEF Verdicts
    <3>7. ASSUME NEW i \in 1 .. n
          PROVE  t[i].ok <=> ~(a.kind = "failed" /\ i = n)
      <4>1. i = n \/ (i # n /\ i \in 1 .. n - 1)
        OBVIOUS
      <4>2. QED
        BY <3>5, <3>6, <4>1, Zenon
    <3>8. a.kind = "failed" => t # <<>>
      <4>1. t = <<>> => Len(t) = 0
        BY EmptyLen, Zenon
      <4>2. QED
        BY <3>3, <3>5, <4>1
    <3>9. QED
      BY <3>2, <3>3, <3>4, <3>7, <3>8, Zenon
  <2>2. AgentInv => \A r \in Requests : Reasons(r, answer[r])
    BY DEF AgentInv, AnswerInv
  <2>3. QED
    BY <2>1, <2>2, Zenon DEF AnswersSayHow, Reasons
<1>2. QED
  BY <1>1, AgentInvariant, PTL

\* An action that is tried in a human way and then in one go clicks at most
\* once, and types the text once (applyAction, main.go:752-798).
THEOREM EachActedOnce == Spec => []ActedOnce
<1>1. AgentInv => ActedOnce
  BY DEF AgentInv, ActInv, ActedOnce
<1>2. QED
  BY <1>1, AgentInvariant, PTL

\* A screenshot shows what its own request did to the page, if that has kept its
\* lease and was not given up, unless one that has not did something after it
\* (grpc_client.go:87-96).
THEOREM EachShotIsOwn == Spec => []ShotIsOwn
<1>1. AgentInv => ShotIsOwn
  BY DEF AgentInv, DriverInv
<1>2. QED
  BY <1>1, AgentInvariant, PTL

=============================================================================
