----------------------------- MODULE NodeAgent -----------------------------
(***************************************************************************)
(* A browser node at work (src/cmd/node-agent): the executor, which drives *)
(* the one page of its browser over one CDP connection at a time, under a  *)
(* mutex; the goal loop, which looks at the page, plans, acts and looks    *)
(* again; and the orchestrator's side of the calls                         *)
(* (src/internal/nodeclient/grpc_client.go).                               *)
(*                                                                         *)
(* The runner of tasks sends a request to a node only when the one before  *)
(* it has come back, has been given up, or has lost its lease of the node  *)
(* (NodeLease).  A request that was given up stays in the agent until its  *)
(* cancellation gets there and is noticed; one that has lost its lease     *)
(* goes on beside the next, but for the mutex.                             *)
(*                                                                         *)
(* A page is what its snapshot signature tells apart.  "read" stands for    *)
(* the actions that only read: extract_text, wait_for and                  *)
(* wait_for_url_contains.  The planners never fail: each model planner     *)
(* falls back to the template planner and that one to the heuristic, so    *)
(* the loop's branches for a planner's error are not taken.                *)
(***************************************************************************)
EXTENDS Integers, Sequences, FiniteSets

CONSTANTS
  Requests,     \* execute calls of the orchestrator
  Goals,        \* those that come with a goal and without actions
  Scripts,      \* sequences of actions that the others come with
  ModelPlans,   \* what a model replies; no action twice (sanitized)
  Templates,    \* what the template planner and the heuristic make up
  Pages,
  Foreign,      \* pages that the egress policy refuses
  Checks,       \* pages that look like a challenge that passes by itself
  Walls,        \* pages that block for good
  Humanized,    \* whether there is a humanizer
  MaxSteps, MaxFailures, MaxRepeatActions, MaxRepeatSnapshots,
  MaxFaults,    \* bound: failed calls, timeouts, pages that move, calls given up
  None

Kinds == {"click", "type", "scroll", "enter", "read", "wait"}

ASSUME AgentAssumption ==
  /\ Goals \subseteq Requests /\ None \notin Requests \cup Pages
  /\ Foreign \cup Checks \cup Walls \subseteq Pages /\ Pages # {}
  /\ Scripts \cup ModelPlans \cup Templates \subseteq Seq(Kinds)
  /\ Humanized \in BOOLEAN
  /\ MaxSteps \in Nat \ {0} /\ MaxFailures \in Nat /\ MaxFaults \in Nat
  /\ MaxRepeatActions \in Nat \ {0} /\ MaxRepeatSnapshots \in Nat \ {0}

VARIABLES
  client,     \* per request: how far the orchestrator's call is
  lapsed,     \* history: requests that lost their lease during the call
  rpc,        \* per request: what it asks for, the execution or a screenshot
  state,      \* per request: how far the agent is with it
  cancelled,  \* per request: whether the agent knows that it was given up
  answer,     \* per request: what it is told
  holder,     \* the request that holds browserExecutor.mu
  conn,       \* its CDP connection
  page,       \* the page that the browser shows
  driver,     \* history: the request that last did something to the page
  at,         \* where the holder is
  run,        \* its locals
  act,        \* the action it is carrying out
  faults

calls   == <<client, lapsed, rpc, state, cancelled, answer, holder>>
browser == <<page, driver>>
vars    == <<calls, conn, browser, at, run, act, faults>>

-----------------------------------------------------------------------------
NoAct == [what |-> "wait", clicks |-> 0, field |-> "old"]

\* `then`: what an unblocked page leads to; `todo`: the rest of a script;
\* `looks`, `plans` and `started` are histories.
Blank ==
  [ then |-> "start", todo |-> <<>>, trace |-> <<>>, stop |-> "",
    snap |-> None, snapAt |-> 0, failures |-> 0,
    last |-> "", repeats |-> 0, still |-> 0, expired |-> FALSE,
    looks |-> <<>>, plans |-> {}, started |-> <<>> ]

NoAnswer == [kind |-> "none", trace |-> <<>>, stop |-> "", shot |-> None, did |-> <<>>]

Init ==
  /\ client = [r \in Requests |-> "new"] /\ lapsed = {}
  /\ rpc = [r \in Requests |-> "execute"]
  /\ state = [r \in Requests |-> "idle"]
  /\ cancelled = [r \in Requests |-> FALSE]
  /\ answer = [r \in Requests |-> NoAnswer]
  /\ holder = None /\ conn = "closed"
  /\ page \in Pages /\ driver = None
  /\ at = "idle" /\ run = Blank /\ act = NoAct /\ faults = 0

-----------------------------------------------------------------------------
\* CDP calls.  One whose context has ended fails; when it ends in the middle
\* of a read the websocket library closes the connection, and nothing dials
\* again until the run is over.  An error that CDP reports leaves it open.

Fault == faults < MaxFaults /\ faults' = faults + 1
NoFault == UNCHANGED faults

Alive == ~run.expired /\ ~cancelled[holder]
Works == Alive /\ conn = "open"

CallOk == Works /\ UNCHANGED <<conn, faults>>
CallFails ==
  \/ ~Works /\ UNCHANGED <<conn, faults>>
  \/ Works /\ Fault /\ conn' \in {"open", "broken"}

Stays == UNCHANGED browser
Moves == page' \in Pages /\ driver' = holder

\* The call had its effect, and its response was lost.
ResponseLost == Works /\ Fault /\ conn' = "broken"

Goal == holder \in Goals
Goto(stage, locals) == at' = stage /\ run' = locals /\ UNCHANGED calls
Shots == {None} \cup (IF Works THEN {driver} ELSE {})

-----------------------------------------------------------------------------
\* The call and its answer.

\* Slip: the return on an error forgets the lock.
Unlocked_NotOnError(a) == IF a.kind = "error" THEN holder ELSE None

Unlocked(a) == None

Reply(a) ==
  /\ answer' = [answer EXCEPT ![holder] = a]
  /\ state' = [state EXCEPT ![holder] = "replied"]
  /\ holder' = Unlocked(a) /\ conn' = "closed"
  /\ at' = "idle" /\ run' = Blank /\ act' = NoAct
  /\ UNCHANGED <<client, lapsed, rpc, cancelled>>

\* ExecuteWithActions returns an error that is not an executeFlowError: all
\* that it tells is the error.
ReplyError == Reply([NoAnswer EXCEPT !.kind = "error", !.did = run.started])

\* A call that fails and with it the run.
FailsWith == (Works /\ Fault) \/ (~Works /\ NoFault)

\* The lease that stands for request q no longer keeps the node from others.
Over(q) == client[q] # "calling" \/ q \in lapsed

Send(r) ==
  /\ client[r] = "new"
  /\ \A q \in Requests : Over(q)
  /\ client' = [client EXCEPT ![r] = "calling"]
  /\ state' = [state EXCEPT ![r] = "queued"]
  /\ UNCHANGED <<lapsed, rpc, cancelled, answer, holder, conn, browser, at, run, act, faults>>

\* No url, or one that the egress policy refuses; found out before the lock.
Refuse(r) ==
  /\ state[r] = "queued" /\ rpc[r] = "execute"
  /\ answer' = [answer EXCEPT ![r] = [NoAnswer EXCEPT !.kind = "error"]]
  /\ state' = [state EXCEPT ![r] = "replied"]
  /\ UNCHANGED <<client, lapsed, rpc, cancelled, holder, conn, browser, at, run, act, faults>>

\* The lease runs out while the call is under way.  That renewing it has failed
\* does not stop the execution.
Lapse(r) ==
  /\ client[r] = "calling" /\ r \notin lapsed
  /\ Fault
  /\ lapsed' = lapsed \cup {r}
  /\ UNCHANGED <<client, rpc, state, cancelled, answer, holder, conn, browser, at, run, act>>

\* Slip: a failure is not returned before the screenshot is asked for.
Backfills_OnFailure(a) == a.shot = None

\* An execution that came without a screenshot and did not fail.
Backfills(a) == a.kind \in {"ok", "blocked"} /\ a.shot = None

\* The answer arrives, and may be followed by a call for a screenshot.
Receive(r) ==
  /\ client[r] = "calling" /\ state[r] = "replied"
  /\ IF rpc[r] = "execute" /\ Backfills(answer[r])
       THEN /\ rpc' = [rpc EXCEPT ![r] = "snapshot"]
            /\ state' = [state EXCEPT ![r] = "queued"]
            /\ UNCHANGED client
       ELSE /\ client' = [client EXCEPT ![r] = "done"]
            /\ UNCHANGED <<rpc, state>>
  /\ UNCHANGED <<lapsed, cancelled, answer, holder, conn, browser, at, run, act, faults>>

\* The call times out, the task is cancelled, or the keepalive learns that the
\* lease is lost.
GiveUp(r) ==
  /\ client[r] = "calling" /\ Fault
  /\ client' = [client EXCEPT ![r] = "gone"]
  /\ UNCHANGED <<lapsed, rpc, state, cancelled, answer, holder, conn, browser, at, run, act>>

CancelArrives(r) ==
  /\ client[r] = "gone" /\ ~cancelled[r]
  /\ cancelled' = [cancelled EXCEPT ![r] = TRUE]
  /\ UNCHANGED <<client, lapsed, rpc, state, answer, holder, conn, browser, at, run, act, faults>>

\* The mutex is taken whether or not anybody still waits for the answer.
Acquire(r) ==
  /\ holder = None /\ state[r] = "queued"
  /\ holder' = r
  /\ state' = [state EXCEPT ![r] = "running"]
  /\ at' = "dial"
  /\ IF rpc[r] = "execute" /\ r \notin Goals
       THEN \E script \in Scripts : run' = [Blank EXCEPT !.todo = script]
       ELSE run' = Blank
  /\ UNCHANGED <<client, lapsed, rpc, cancelled, answer, conn, browser, act, faults>>

\* The execute timeout, which starts only when the lock is held.
Expire ==
  /\ holder # None /\ ~run.expired /\ Fault
  /\ run' = [run EXCEPT !.expired = TRUE]
  /\ UNCHANGED <<calls, conn, browser, at, act>>

\* A page goes on loading, or a challenge is over.
Stir ==
  /\ holder # None /\ Fault
  /\ page' \in Pages
  /\ UNCHANGED <<calls, conn, driver, at, run, act>>

Dial ==
  /\ at = "dial"
  /\ \/ /\ Alive /\ NoFault
        /\ conn' = "open"
        /\ Goto(IF rpc[holder] = "execute" THEN "navigate" ELSE "capture", run)
        /\ UNCHANGED act
     \/ ((Alive /\ Fault) \/ (~Alive /\ NoFault))
        /\ IF rpc[holder] = "execute" THEN ReplyError ELSE Reply(answer[holder])
  /\ Stays

Capture ==
  /\ at = "capture"
  /\ \/ Works /\ NoFault /\ Reply([answer[holder] EXCEPT !.shot = driver])
     \/ FailsWith /\ Reply(answer[holder])
  /\ Stays

-----------------------------------------------------------------------------
\* The frame of an execution: navigate, look out for a blocker, act, look out
\* for a blocker, report.

Navigate ==
  /\ at = "navigate"
  /\ \/ CallOk /\ Moves /\ Goto("render", run) /\ UNCHANGED act
     \/ FailsWith /\ ReplyError /\ Stays
     \/ Works /\ Fault /\ ReplyError /\ Moves

Render ==
  /\ at = "render" /\ NoFault /\ Stays
  /\ \/ Goto("look", run) /\ UNCHANGED <<conn, act>>
     \/ ~Alive /\ ReplyError

\* Slip: the counter is compared too late.
ActionLoop_Late(l) == l.repeats > MaxRepeatActions

ActionLoop(l) == l.repeats >= MaxRepeatActions

Finish(l) == Goto("look", [l EXCEPT !.then = "finish"])
Stop(l, why) == Finish([l EXCEPT !.stop = why])

Challenged == page \in Checks \cup Walls
MayPass == page \in Checks \ Walls

NotBlocked ==
  CASE run.then = "start"  -> Goto(IF Goal THEN "observe" ELSE "script", run)
    [] run.then = "next"   -> IF ActionLoop(run)
                                THEN Stop(run, "loop_detected_repeated_action")
                                ELSE Goto("refresh", run)
    [] run.then = "finish" -> Goto("report", run)

Blocked ==
  \E shot \in Shots :
     Reply([ kind |-> "blocked", trace |-> run.trace, shot |-> shot, did |-> run.started,
             stop |-> IF run.then = "next" THEN "blocker_detected" ELSE run.stop ])

\* detectBlocker.  What cannot be read does not block.
Look ==
  /\ at = "look" /\ Stays
  /\ \/ CallFails /\ NotBlocked /\ UNCHANGED act
     \/ CallOk /\ ~Challenged /\ NotBlocked /\ UNCHANGED act
     \/ CallOk /\ MayPass /\ Goto("recheck", run) /\ UNCHANGED act
     \/ Works /\ NoFault /\ Challenged /\ ~MayPass /\ Blocked

\* A challenge that may pass is looked at again after a delay.  If that look
\* fails the first one stands.
Recheck ==
  /\ at = "recheck" /\ Stays
  /\ \/ ~Alive /\ NotBlocked /\ UNCHANGED <<conn, act, faults>>
     \/ CallOk /\ ~Challenged /\ NotBlocked /\ UNCHANGED act
     \/ Works /\ NoFault /\ Challenged /\ Blocked
     \/ FailsWith /\ Blocked

Report ==
  /\ at = "report" /\ Stays
  /\ \/ /\ Works /\ NoFault
        /\ Reply([ kind |-> "ok", trace |-> run.trace, stop |-> run.stop,
                   shot |-> driver, did |-> run.started ])
     \/ FailsWith /\ ReplyError

-----------------------------------------------------------------------------
\* The goal loop.  Each round adds one step to the trace, so the round is the
\* length of the trace.

Observe ==
  /\ at = "observe" /\ Stays
  /\ \/ /\ CallOk /\ UNCHANGED act
        /\ Goto("plan", [run EXCEPT !.snap = page, !.looks = <<page>>])
     \/ FailsWith /\ ReplyError

Begin(l, kind) ==
  /\ act' = [NoAct EXCEPT !.what = kind]
  /\ Goto( CASE kind = "wait" -> "pause"
             [] kind = "scroll" -> IF Humanized THEN "human" ELSE "plain"
             [] OTHER -> "await",
           [l EXCEPT !.started = Append(@, kind)] )

Counted(l, kind) ==
  [l EXCEPT !.last = kind, !.repeats = IF kind = l.last THEN @ + 1 ELSE 1]

Used(l) == {l.started[i] : i \in DOMAIN l.started}

\* Slip: the plan is read from its beginning in every round.
Chosen_First(plan, l) == plan[1]

\* PlanStep on a plan that is not done: the action at the place of the round,
\* or else the first one that has not been carried out.
Chosen(plan, l) ==
  IF Len(l.trace) < Len(plan)
    THEN plan[Len(l.trace) + 1]
    ELSE plan[CHOOSE i \in DOMAIN plan :
                /\ plan[i] \notin Used(l)
                /\ \A j \in 1 .. i - 1 : plan[j] \in Used(l)]

Exhausted(plan, l) ==
  Len(l.trace) >= Len(plan) /\ \A i \in DOMAIN plan : plan[i] \in Used(l)

\* A model that cannot be reached, or whose reply has no valid action, is
\* replaced by the templates.
Planned == (ModelPlans \ {<<>>}) \cup Templates

Plan ==
  /\ at = "plan"
  /\ \E plan \in Planned :
       LET l == [run EXCEPT !.plans = @ \cup {plan}] IN
       IF plan = <<>> THEN Stop(l, "no_actions") /\ UNCHANGED act
       ELSE IF Exhausted(plan, l) THEN Stop(l, "plan_exhausted") /\ UNCHANGED act
       ELSE Begin(Counted(l, Chosen(plan, l)), Chosen(plan, l))
  /\ UNCHANGED <<conn, browser, faults>>

\* Slip: running out of rounds is not told.
NextRound_Silent(l) == IF Len(l.trace) >= MaxSteps THEN Finish(l) ELSE Goto("plan", l)

NextRound(l) ==
  IF Len(l.trace) >= MaxSteps THEN Stop(l, "max_planner_steps_reached")
                              ELSE Goto("plan", l)

\* Slip: a failure is not counted.
Failed_Uncounted(l) == l

Failed(l) == [l EXCEPT !.failures = @ + 1]

\* A refresh that fails is counted, and the loop goes on with the snapshot it
\* has; one failure too many ends the run.
RefreshFails ==
  /\ at = "refresh" /\ Stays
  /\ LET l == Failed(run) IN
     IF l.failures > MaxFailures THEN FailsWith /\ ReplyError
                                 ELSE CallFails /\ NextRound(l) /\ UNCHANGED act

Refresh ==
  /\ at = "refresh" /\ CallOk /\ Stays /\ UNCHANGED act
  /\ LET still == IF page = run.snap THEN run.still + 1 ELSE 0
         l == [run EXCEPT !.still = still, !.snap = page, !.snapAt = Len(run.trace),
                          !.looks = Append(@, page)] IN
     IF still >= MaxRepeatSnapshots THEN Stop(l, "loop_detected_repeated_snapshot")
                                    ELSE NextRound(l)

Script ==
  /\ at = "script" /\ UNCHANGED <<conn, browser, faults>>
  /\ IF run.todo = <<>> THEN Finish(run) /\ UNCHANGED act
     ELSE Begin([run EXCEPT !.todo = Tail(@)], Head(run.todo))

-----------------------------------------------------------------------------
\* One action.  Clicks, typing and scrolling are first tried in a human way,
\* event by event, and if that fails, other than by its context, in one go.

\* Slip: the failed step is left out of the trace.
WithStep_Dropped(ok) == IF ok THEN Append(run.trace, [what |-> act.what, ok |-> ok]) ELSE run.trace

WithStep(ok) == Append(run.trace, [what |-> act.what, ok |-> ok])

StepFails ==
  \E shot \in Shots :
     Reply([ kind |-> "failed", trace |-> WithStep(FALSE), shot |-> shot, did |-> run.started,
             stop |-> IF Goal THEN "action_failed" ELSE "" ])

StepDone ==
  LET l == [run EXCEPT !.trace = WithStep(TRUE)] IN
  IF Goal THEN Goto("look", [l EXCEPT !.then = "next"]) ELSE Goto("script", l)

Await ==
  /\ at = "await" /\ Stays
  /\ \/ CallOk /\ UNCHANGED act
        /\ Goto(IF Humanized /\ act.what \in {"click", "type"} THEN "human" ELSE "plain", run)
     \/ FailsWith /\ StepFails

Pressed == [act EXCEPT !.clicks = @ + 1]
TypedSoFar(field) == CASE field = "old" -> "empty" [] field = "empty" -> "part" [] OTHER -> "text"

HumanClick ==
  /\ at = "human" /\ act.what = "click"
  /\ CallOk /\ Moves
  /\ act' = Pressed /\ Goto("check", run)

HumanScroll ==
  /\ at = "human" /\ act.what = "scroll"
  /\ CallOk /\ Stays
  /\ Goto("check", run) /\ UNCHANGED act

\* Click on the field and clear it, then one key after the other.
HumanType ==
  /\ at = "human" /\ act.what = "type"
  /\ CallOk /\ Stays
  /\ act' = [act EXCEPT !.field = TypedSoFar(@)]
  /\ Goto(IF act.field = "part" THEN "confirm" ELSE "human", run)

\* The attempt fails, and the context has not ended.
FallBack ==
  /\ at = "human" /\ Alive
  /\ \/ CallFails /\ Stays /\ UNCHANGED act
     \/ ResponseLost /\ act.what = "click" /\ Moves /\ act' = Pressed
     \/ ResponseLost /\ act.what = "type" /\ Stays /\ act' = [act EXCEPT !.field = TypedSoFar(@)]
  /\ Goto("plain", run)

\* The action's time is up, or the run's.
HumanAborted ==
  /\ at = "human" /\ StepFails
  /\ \/ (Fault \/ (~Alive /\ NoFault)) /\ Stays
     \/ Works /\ Fault /\ act.what = "click" /\ Moves

\* Slip: what the human way has typed is not cleared.
TypeInto_Appended(field) == IF field = "part" THEN "mixed" ELSE "text"

TypeInto(field) == "text"

PlainType ==
  /\ at = "plain" /\ act.what = "type" /\ CallOk /\ Stays
  /\ act' = [act EXCEPT !.field = TypeInto(@)]
  /\ Goto("confirm", run)

PlainClick ==
  /\ at = "plain" /\ act.what = "click" /\ CallOk /\ Moves
  /\ act' = Pressed /\ Goto("check", run)

\* That the url did not change in time is ignored, but if the time is up in
\* the middle of a read the connection is gone.
PlainEnter ==
  /\ at = "plain" /\ act.what = "enter" /\ Moves
  /\ CallOk \/ ResponseLost
  /\ Goto("check", run) /\ UNCHANGED act

PlainOther ==
  /\ at = "plain" /\ act.what \in {"scroll", "read"} /\ CallOk /\ Stays
  /\ Goto("check", run) /\ UNCHANGED act

PlainFails ==
  /\ at = "plain" /\ StepFails
  /\ \/ FailsWith /\ Stays
     \/ Works /\ Fault /\ act.what \in {"click", "enter"} /\ Moves

Confirm ==
  /\ at = "confirm" /\ Stays
  /\ \/ CallOk /\ act.field \in {"text", "mixed"} /\ Goto("check", run) /\ UNCHANGED act
     \/ FailsWith /\ StepFails

\* A wait needs no browser.
Pause ==
  /\ at = "pause" /\ Stays /\ NoFault
  /\ \/ Goto("check", run) /\ UNCHANGED <<conn, act>>
     \/ ~Alive /\ StepFails

\* Where has the action led?  A url that cannot be read is not checked.
Check ==
  /\ at = "check" /\ Stays
  /\ \/ CallOk /\ page \notin Foreign /\ StepDone /\ act' = NoAct
     \/ CallFails /\ StepDone /\ act' = NoAct
     \/ Works /\ NoFault /\ page \in Foreign /\ StepFails

-----------------------------------------------------------------------------
Execution ==
  \/ Dial \/ Capture \/ Navigate \/ Render \/ Look \/ Recheck \/ Report
  \/ Observe \/ Plan \/ RefreshFails \/ Refresh \/ Script
  \/ Await \/ HumanClick \/ HumanScroll \/ HumanType \/ FallBack \/ HumanAborted
  \/ PlainType \/ PlainClick \/ PlainEnter \/ PlainOther \/ PlainFails
  \/ Confirm \/ Pause \/ Check

Next ==
  \/ \E r \in Requests :
       \/ Send(r) \/ Lapse(r) \/ Refuse(r) \/ Receive(r)
       \/ GiveUp(r) \/ CancelArrives(r) \/ Acquire(r)
  \/ holder # None /\ Execution
  \/ Expire \/ Stir

\* A goroutine that holds the lock goes on, every call of it ends, and a
\* mutex that is free is taken by somebody who waits for it.
Fairness ==
  /\ WF_vars(holder # None /\ Execution)
  /\ \A r \in Requests : WF_vars(Acquire(r))

Spec == Init /\ [][Next]_vars /\ Fairness

-----------------------------------------------------------------------------
\* Properties.

Step == [what : Kinds, ok : BOOLEAN]
Stops == {"", "no_actions", "plan_exhausted", "loop_detected_repeated_action",
          "loop_detected_repeated_snapshot", "max_planner_steps_reached",
          "blocker_detected", "action_failed"}
Stages == {"idle", "dial", "capture", "navigate", "render", "look", "recheck", "report",
           "observe", "plan", "refresh", "script",
           "await", "human", "plain", "confirm", "pause", "check"}

\* The counters of the goal loop never pass their limits, which the code
\* compares after it has counted (main.go:263-400); for the rest, types.
TypeOK ==
  /\ client \in [Requests -> {"new", "calling", "done", "gone"}] /\ lapsed \subseteq Requests
  /\ rpc \in [Requests -> {"execute", "snapshot"}]
  /\ state \in [Requests -> {"idle", "queued", "running", "replied"}]
  /\ cancelled \in [Requests -> BOOLEAN]
  /\ \A r \in Requests :
       LET a == answer[r] IN
       /\ a.kind \in {"none", "ok", "blocked", "failed", "error"}
       /\ a.trace \in Seq(Step) /\ a.stop \in Stops
       /\ a.shot \in Requests \cup {None} /\ a.did \in Seq(Kinds)
  /\ holder \in Requests \cup {None} /\ conn \in {"closed", "open", "broken"}
  /\ page \in Pages /\ driver \in Requests \cup {None} /\ at \in Stages
  /\ run.trace \in Seq(Step) /\ run.stop \in Stops /\ run.snap \in Pages \cup {None}
  /\ run.failures \in 0 .. MaxFailures
  /\ run.repeats \in 0 .. MaxRepeatActions /\ run.still \in 0 .. MaxRepeatSnapshots
  /\ act.what \in Kinds /\ act.field \in {"old", "empty", "part", "text", "mixed"}
  /\ faults \in 0 .. MaxFaults

\* An answer with a trace leaves nothing out: every action that the run has
\* begun, and may have done something to the page, is in it and in order
\* (ExecuteWithActions appends on every path, main.go:325-431).
EffectsReported ==
  \A r \in Requests :
    LET a == answer[r] IN
    a.kind \in {"ok", "blocked", "failed"} =>
      [i \in DOMAIN a.trace |-> a.trace[i].what] = a.did

\* An answer says how the run ended: only a failed one has a failed step, its
\* last; a goal's run that ended well has a reason to stop, and it is out of
\* steps when it says so (main.go:402-410).
AnswersSayHow ==
  \A r \in Requests :
    LET a == answer[r] IN
    /\ \A i \in DOMAIN a.trace : a.trace[i].ok <=> ~(a.kind = "failed" /\ i = Len(a.trace))
    /\ a.kind = "failed" => a.trace # <<>>
    /\ r \in Goals /\ a.kind = "ok" => a.stop # ""
    /\ a.stop = "max_planner_steps_reached" => Len(a.trace) = MaxSteps

NoRun(s, n) == \A i \in 1 .. Len(s) - n : \E j \in i .. i + n : s[j] # s[i]

\* README.md:573: a goal's run is cut when it repeats itself.  No action is
\* begun more than MaxRepeatActions times in a row, nothing more is planned
\* once a page was seen MaxRepeatSnapshots times again, and never more than
\* MaxSteps actions are begun.
LoopsAreCut ==
  Goal =>
    /\ Len(run.started) <= MaxSteps
    /\ NoRun(run.started, MaxRepeatActions)
    /\ at = "plan" => NoRun(run.looks, MaxRepeatSnapshots)

\* The planner is shown a page that is out of date by no more steps than
\* refreshes have failed, and that is at most MaxFailures (main.go:371-383).
StaleSnapshotCounted ==
  at = "plan" =>
    Len(run.trace) - run.snapAt <= run.failures /\ run.failures <= MaxFailures

\* An action that is tried in a human way and then again in one go does not
\* click twice, and what a successful one has typed is the text, once
\* (applyAction, main.go:752-798, on fields with a value).
ActedOnce ==
  /\ act.clicks <= 1
  /\ at = "check" /\ act.what = "type" => act.field = "text"

\* The screenshot that comes with an answer, or is asked for afterwards under
\* a lock of its own (grpc_client.go:87-96), shows what this request did to
\* the page, as long as the request was not given up and kept its lease of the
\* node, and unless one that did not has done something after it.
Astray == {q \in Requests : client[q] = "gone" \/ q \in lapsed}
ShotIsOwn ==
  \A r \in Requests \ Astray : answer[r].shot \in {None, r} \cup Astray

\* As long as the planner sticks to its plan, the plan is what is carried out,
\* from its beginning and without a step left out (planner.go:87-137).
PlanFollowed ==
  \A plan \in run.plans :
    run.plans = {plan} =>
      /\ Len(run.started) <= Len(plan)
      /\ \A i \in DOMAIN run.started : run.started[i] = plan[i]

\* The agent gets done with every request, the abandoned ones and the failing
\* ones too, though the lock is waited for without a limit (main.go:223): again
\* and again nobody waits.
AllAnswered ==
  []<>(\A r \in Requests : state[r] \notin {"queued", "running"})
=============================================================================
