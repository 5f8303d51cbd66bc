----------------------------- MODULE TaskRunner -----------------------------
(***************************************************************************)
(* The orchestrator's task runner (src/internal/taskrunner/runner.go) over *)
(* the task store (src/internal/task) and under the API handlers that      *)
(* create and cancel tasks (src/internal/api/tasks.go).                    *)
(*                                                                         *)
(* Three kinds of goroutine call Runner.Enqueue concurrently: the handler  *)
(* of a create request, the retry timer of an attempt (enqueueAfterDelay)  *)
(* and the reconciler loop.  Enqueue marks the task in the `enqueued` set  *)
(* under a mutex, sends to a bounded channel outside of it, and removes    *)
(* the mark again when the channel is full.  Workers receive from the      *)
(* channel, remove the mark, and drive one attempt: Start, domain          *)
(* cooldown, node acquisition, execution, report.  Cancel requests read    *)
(* the store, signal the worker registered for the task, write the store.  *)
(*                                                                         *)
(* Node leases are in module NodeLease: here a node is either acquired or  *)
(* not within the wait, and a lease may be lost during the execution.      *)
(* Store calls do not fail except by their own guards.                     *)
(***************************************************************************)
EXTENDS Naturals, Sequences, FiniteSets

CONSTANTS
  Tasks,            \* tasks that clients may submit
  Workers,          \* worker goroutines (Config.Workers)
  Domains,          \* hosts of the task URLs
  DomainOf,         \* [Tasks -> Domains]: the host of a task's URL
  MaxRetries,       \* [Tasks -> Nat]: Task.MaxRetries
  QueueSize,        \* capacity of the channel (Config.QueueSize)
  EnqueueAttempts,  \* tries of enqueueAfterDelay before it fails the task (10)
  MaxCrashes,       \* bound: restarts of the orchestrator process
  Cancels,          \* bound: the tasks that a client may ask to cancel, once
  Impatient,        \* bound: the Enqueue callers whose context may end first
  NoTask

ASSUME ConstantsAssumption ==
  /\ DomainOf \in [Tasks -> Domains]
  /\ MaxRetries \in [Tasks -> Nat]
  /\ QueueSize \in Nat \ {0}
  /\ EnqueueAttempts \in Nat \ {0}
  /\ MaxCrashes \in Nat
  /\ Cancels \subseteq Tasks
  /\ NoTask \notin Tasks

VARIABLES
  \* the store, which survives a crash
  status,     \* Task.Status
  attempt,    \* Task.Attempt
  due,        \* NextRetryAt is nil or has passed
  \* the runner's shared state
  queue,      \* the channel
  enqueued,   \* the set that deduplicates Enqueue
  running,    \* the registered cancel function of a task, as the attempt whose
              \* context it cancels; 0: none
  cleared,    \* history: the workers that execute an attempt whose registration
              \* another worker removed
  cooldown,   \* domains in blockedDomains whose cooldown has not ended
  \* the workers
  pc,         \* where a worker is in processTask
  job,        \* the task it took from the queue
  tries,      \* startedTask.Attempt, the copy Start returned
  stopping,   \* a cancel request has cancelled the execution's context
  outcome,    \* what the attempt will be reported as
  \* the goroutines that call Enqueue
  phase,      \* where a caller is
  refusals,   \* how often Enqueue refused a retry timer
  batch,      \* what is left of the reconciler's list
  picked,     \* the reconciler's current item
  \* cancel requests
  cancel,     \* where the cancel request for a task is
  crashes

store   == <<status, attempt, due>>
registry == <<running, cleared>>
shared  == <<queue, enqueued, registry, cooldown>>
workers == <<pc, job, tries, stopping, outcome>>
callers == <<phase, refusals, batch, picked>>
vars    == <<store, shared, workers, callers, cancel, crashes>>

-----------------------------------------------------------------------------
(* Values *)

Terminal == {"completed", "failed", "canceled"}
Status   == {"absent", "queued", "running"} \cup Terminal

PC == {"idle", "taken", "start", "acquire", "execute", "report",
       "abort", "finish"}
Outcome == {"none", "success", "retriable", "failure", "stopped"}
Phase   == {"none", "sleep", "mark", "send", "unmark", "drop", "refuse",
            "accepted", "refused", "gone"}
CancelPhase == {"none", "signal", "store", "ok", "conflict", "gone"}

\* The callers of Enqueue: a request per task, a retry timer per attempt that
\* can be retried, the reconciler.
Request(t)  == [kind |-> "request", task |-> t, n |-> 0]
Timer(t, k) == [kind |-> "timer", task |-> t, n |-> k]
Reconciler  == [kind |-> "reconciler", task |-> NoTask, n |-> 0]
Requests == {Request(t) : t \in Tasks}
Timers   == UNION {{Timer(t, k) : k \in 1..MaxRetries[t]} : t \in Tasks}
Callers  == Requests \cup Timers \cup {Reconciler}

TypeOK ==
  /\ status \in [Tasks -> Status]
  /\ attempt \in [Tasks -> Nat]
  /\ due \in [Tasks -> BOOLEAN]
  /\ queue \in Seq(Tasks) /\ Len(queue) <= QueueSize
  /\ enqueued \in SUBSET Tasks
  /\ running \in [Tasks -> Nat]
  /\ cleared \in SUBSET Workers
  /\ cooldown \in SUBSET Domains
  /\ pc \in [Workers -> PC]
  /\ job \in [Workers -> Tasks \cup {NoTask}]
  /\ tries \in [Workers -> Nat]
  /\ stopping \in [Workers -> BOOLEAN]
  /\ outcome \in [Workers -> Outcome]
  /\ phase \in [Callers -> Phase]
  /\ refusals \in [Callers -> 0..EnqueueAttempts]
  /\ batch \in SUBSET Tasks
  /\ picked \in Tasks \cup {NoTask}
  /\ cancel \in [Tasks -> CancelPhase]
  /\ crashes \in 0..MaxCrashes

Init ==
  /\ status = [t \in Tasks |-> "absent"]
  /\ attempt = [t \in Tasks |-> 0]
  /\ due = [t \in Tasks |-> TRUE]
  /\ queue = << >>
  /\ enqueued = {}
  /\ running = [t \in Tasks |-> 0]
  /\ cleared = {}
  /\ cooldown = {}
  /\ pc = [w \in Workers |-> "idle"]
  /\ job = [w \in Workers |-> NoTask]
  /\ tries = [w \in Workers |-> 0]
  /\ stopping = [w \in Workers |-> FALSE]
  /\ outcome = [w \in Workers |-> "none"]
  /\ phase = [c \in Callers |-> "none"]
  /\ refusals = [c \in Callers |-> 0]
  /\ batch = {}
  /\ picked = NoTask
  /\ cancel = [t \in Tasks |-> "none"]
  /\ crashes = 0

-----------------------------------------------------------------------------
(* The store (task/service.go): each operation is one critical section, or *)
(* one UPDATE whose WHERE clause is the guard.                             *)

StoreStart(t) ==
  /\ status' = [status EXCEPT ![t] = "running"]
  /\ attempt' = [attempt EXCEPT ![t] = @ + 1]
  /\ due' = [due EXCEPT ![t] = TRUE]

\* Slip: Complete and Fail without their guard.
StoreFinish_Unguarded(t, s) ==
  /\ status' = [status EXCEPT ![t] = s]
  /\ due' = [due EXCEPT ![t] = TRUE]
  /\ UNCHANGED attempt

\* Complete and Fail refuse a canceled task only.
StoreFinish(t, s) ==
  /\ IF status[t] = "canceled"
       THEN UNCHANGED <<status, due>>
       ELSE /\ status' = [status EXCEPT ![t] = s]
            /\ due' = [due EXCEPT ![t] = TRUE]
  /\ UNCHANGED attempt

\* Its guard is in Retries.
StoreRetry(t) ==
  /\ status' = [status EXCEPT ![t] = "queued"]
  /\ due' = [due EXCEPT ![t] = FALSE]
  /\ UNCHANGED attempt

StoreCancel(t) ==
  /\ status' = [status EXCEPT ![t] = "canceled"]
  /\ due' = [due EXCEPT ![t] = TRUE]
  /\ UNCHANGED attempt

\* NextRetryAt passes.
RetryDue(t) ==
  /\ status[t] = "queued" /\ ~due[t]
  /\ due' = [due EXCEPT ![t] = TRUE]
  /\ UNCHANGED <<status, attempt, shared, workers, callers, cancel, crashes>>

\* Slip: the reconciler leaves retries to their timers.
Listable_NewOnly == {t \in Tasks : status[t] = "queued" /\ due[t] /\ attempt[t] = 0}

Listable == {t \in Tasks : status[t] = "queued" /\ due[t]}

-----------------------------------------------------------------------------
(* Runner.Enqueue and its three callers                                    *)

Items(c) == IF c.kind = "reconciler" THEN batch ELSE {c.task}
Item(c)  == IF c.kind = "reconciler" THEN picked ELSE c.task

\* A caller goes on to phase p, having dealt with task t.
Goto(c, p) ==
  /\ phase' = [phase EXCEPT ![c] = p]
  /\ UNCHANGED <<batch, picked>>

\* The reconciler goes on with what is left of its list.
NextItem(rest) ==
  /\ phase' = [phase EXCEPT ![Reconciler] = IF rest = {} THEN "none" ELSE "mark"]
  /\ batch' = rest
  /\ picked' = NoTask

\* Enqueue returned nil.
Accepted(c, t) ==
  /\ \/ c.kind = "request" /\ Goto(c, "accepted")
     \/ c.kind = "timer" /\ Goto(c, "none")
     \/ c.kind = "reconciler" /\ NextItem(batch \ {t})
  /\ UNCHANGED refusals

\* Slip: a timer that is refused tries again for ever.
Refused_NoLimit(c) ==
  \/ c.kind = "request" /\ Goto(c, "refuse") /\ UNCHANGED refusals
  \/ /\ c.kind = "timer"
     /\ refusals' = [refusals EXCEPT ![c] = @ + 1]
     /\ Goto(c, "mark")
  \/ c.kind = "reconciler" /\ NextItem({}) /\ UNCHANGED refusals

\* Enqueue returned ErrQueueFull: the handler fails the task, a timer tries
\* again up to its limit and then fails it, the reconciler ends its round.
Refused(c) ==
  \/ c.kind = "request" /\ Goto(c, "refuse") /\ UNCHANGED refusals
  \/ /\ c.kind = "timer"
     /\ refusals' = [refusals EXCEPT ![c] = @ + 1]
     /\ Goto(c, IF refusals[c] + 1 = EnqueueAttempts THEN "refuse" ELSE "mark")
  \/ c.kind = "reconciler" /\ NextItem({}) /\ UNCHANGED refusals

\* Enqueue returned the error of its context: a client that has gone away
\* cannot write the store either, a timer gives up, the reconciler goes on.
Dropped(c, t) ==
  /\ \/ c.kind = "request" /\ Goto(c, "gone")
     \/ c.kind = "timer" /\ Goto(c, "none")
     \/ c.kind = "reconciler" /\ NextItem(batch \ {t})
  /\ UNCHANGED refusals

\* enqueueM: a task that is marked already is taken to be queued.
Mark(c, t) ==
  /\ phase[c] = "mark"
  /\ t \in Items(c)
  /\ IF t \in enqueued
       THEN Accepted(c, t) /\ UNCHANGED enqueued
       ELSE /\ enqueued' = enqueued \cup {t}
            /\ phase' = [phase EXCEPT ![c] = "send"]
            /\ picked' = IF c.kind = "reconciler" THEN t ELSE picked
            /\ UNCHANGED <<refusals, batch>>
  /\ UNCHANGED <<store, queue, registry, cooldown, workers, cancel, crashes>>

\* The select: send, or default.
Send(c) ==
  /\ phase[c] = "send"
  /\ IF Len(queue) < QueueSize
       THEN queue' = Append(queue, Item(c)) /\ Accepted(c, Item(c))
       ELSE Goto(c, "unmark") /\ UNCHANGED <<queue, refusals>>
  /\ UNCHANGED <<store, enqueued, registry, cooldown, workers, cancel, crashes>>

\* The select: the caller's context is done.
ContextDone(c) ==
  /\ c \in Impatient
  /\ phase[c] = "send"
  /\ Goto(c, "drop")
  /\ UNCHANGED <<store, shared, workers, refusals, cancel, crashes>>

\* Slip: ErrQueueFull is returned with the mark left behind.
Unmark_Leaks(c) ==
  /\ phase[c] \in {"unmark", "drop"}
  /\ IF phase[c] = "unmark"
       THEN Refused(c) /\ UNCHANGED enqueued
       ELSE Dropped(c, Item(c)) /\ enqueued' = enqueued \ {Item(c)}
  /\ UNCHANGED <<store, queue, registry, cooldown, workers, cancel, crashes>>

\* clearEnqueued on the two error returns.
Unmark(c) ==
  /\ phase[c] \in {"unmark", "drop"}
  /\ enqueued' = enqueued \ {Item(c)}
  /\ IF phase[c] = "unmark" THEN Refused(c) ELSE Dropped(c, Item(c))
  /\ UNCHANGED <<store, queue, registry, cooldown, workers, cancel, crashes>>

\* enqueueCreatedTask and enqueueAfterDelay fail a task that was refused.
Refuse(c) ==
  /\ phase[c] = "refuse"
  /\ StoreFinish(c.task, "failed")
  /\ Goto(c, IF c.kind = "request" THEN "refused" ELSE "none")
  /\ UNCHANGED <<shared, workers, refusals, cancel, crashes>>

\* createAndQueueTaskNonIdempotent up to its Enqueue.
Submit(t) ==
  /\ status[t] = "absent"
  /\ status' = [status EXCEPT ![t] = "queued"]
  /\ phase' = [phase EXCEPT ![Request(t)] = "mark"]
  /\ UNCHANGED <<attempt, due, shared, workers, refusals, batch, picked,
                 cancel, crashes>>

\* The delay of a retry ends; its task's NextRetryAt is not later.
TimerFires(c) ==
  /\ c.kind = "timer" /\ phase[c] = "sleep"
  /\ attempt[c.task] = c.n => due[c.task]
  /\ Goto(c, "mark")
  /\ UNCHANGED <<store, shared, workers, refusals, cancel, crashes>>

\* reconcileQueuedOnce lists at most QueueSize queued tasks that are due.
Reconcile(S) ==
  /\ phase[Reconciler] = "none"
  /\ S \subseteq Listable /\ S # {}
  /\ Cardinality(S) <= QueueSize
  /\ S = Listable \/ Cardinality(S) = QueueSize
  /\ NextItem(S)
  /\ UNCHANGED <<store, shared, workers, refusals, cancel, crashes>>

-----------------------------------------------------------------------------
(* A worker and the attempt it drives                                      *)

Leave(w) ==
  /\ pc' = [pc EXCEPT ![w] = "idle"]
  /\ job' = [job EXCEPT ![w] = NoTask]
  /\ tries' = [tries EXCEPT ![w] = 0]
  /\ stopping' = [stopping EXCEPT ![w] = FALSE]
  /\ outcome' = [outcome EXCEPT ![w] = "none"]

Step(w, from, to) ==
  /\ pc[w] = from
  /\ pc' = [pc EXCEPT ![w] = to]

Take(w) ==
  /\ Step(w, "idle", "taken")
  /\ queue # << >>
  /\ job' = [job EXCEPT ![w] = Head(queue)]
  /\ queue' = Tail(queue)
  /\ UNCHANGED <<store, enqueued, registry, cooldown, tries, stopping, outcome,
                 callers, cancel, crashes>>

ClearEnqueued(w) ==
  /\ Step(w, "taken", "start")
  /\ enqueued' = enqueued \ {job[w]}
  /\ UNCHANGED <<store, queue, registry, cooldown, job, tries, stopping, outcome,
                 callers, cancel, crashes>>

\* Slip: a task that runs already may start again.
Startable_WhileRunning(t) == status[t] \in {"queued", "running"}

\* The guard of Store.Start, and of the Get before it.
Startable(t) == status[t] = "queued"

\* Get and Start: a task that is not queued any more is left alone.  The
\* cooldown of the task's domain is looked up next, without waiting.
Start(w) ==
  LET t == job[w] IN
  /\ pc[w] = "start"
  /\ IF Startable(t)
       THEN /\ StoreStart(t)
            /\ tries' = [tries EXCEPT ![w] = attempt[t] + 1]
            /\ IF DomainOf[t] \in cooldown
                 THEN /\ Step(w, "start", "abort")
                      /\ outcome' = [outcome EXCEPT ![w] = "failure"]
                 ELSE Step(w, "start", "acquire") /\ UNCHANGED outcome
            /\ UNCHANGED <<job, stopping>>
       ELSE Leave(w) /\ UNCHANGED store
  /\ UNCHANGED <<shared, callers, cancel, crashes>>

\* Slip: setRunningCancel keeps what is registered already.
AcquireNode_KeepsOld(w) ==
  /\ Step(w, "acquire", "execute")
  /\ running' = [running EXCEPT ![job[w]] = IF @ = 0 THEN tries[w] ELSE @]
  /\ UNCHANGED <<store, queue, enqueued, cleared, cooldown, job, tries, stopping,
                 outcome, callers, cancel, crashes>>

\* acquireNode, then setRunningCancel with the cancel function of this attempt's
\* context, and the start of the execution.
AcquireNode(w) ==
  /\ Step(w, "acquire", "execute")
  /\ running' = [running EXCEPT ![job[w]] = tries[w]]
  /\ UNCHANGED <<store, queue, enqueued, cleared, cooldown, job, tries, stopping,
                 outcome, callers, cancel, crashes>>

\* "no node available": the wait ended, or the lease or node store failed.
NoNode(w) ==
  /\ Step(w, "acquire", "abort")
  /\ outcome' = [outcome EXCEPT ![w] = "retriable"]
  /\ UNCHANGED <<store, shared, job, tries, stopping, callers, cancel, crashes>>

\* Execute returns: a result, an error that isRetriableError accepts (among
\* them the loss of the lease), one that it does not, or the cancellation of
\* the context.  A result or another error may still win over a cancellation.
ExecutionEnds(w, o) ==
  /\ Step(w, "execute", "report")
  /\ o \in {"success", "retriable", "failure"} \cup
           IF stopping[w] THEN {"stopped"} ELSE {}
  /\ outcome' = [outcome EXCEPT ![w] = o]
  /\ stopping' = [stopping EXCEPT ![w] = FALSE]
  /\ cleared' = cleared \ {w}
  /\ UNCHANGED <<store, queue, enqueued, running, cooldown, job, tries, callers,
                 cancel, crashes>>

\* Execute returns a blocker, in its result or with its error; the domain of
\* the final URL, or else of the task, goes into cooldown (markDomainBlocked).
ExecutionBlocked(w, d) ==
  /\ Step(w, "execute", "report")
  /\ outcome' = [outcome EXCEPT ![w] = "failure"]
  /\ stopping' = [stopping EXCEPT ![w] = FALSE]
  /\ cleared' = cleared \ {w}
  /\ cooldown' = cooldown \cup {d}
  /\ UNCHANGED <<store, queue, enqueued, running, job, tries, callers, cancel,
                 crashes>>

\* Slip: one retry too many.
ShouldRetry_OffByOne(w) ==
  outcome[w] = "retriable" /\ tries[w] <= MaxRetries[job[w]] + 1

ShouldRetry(w) ==
  outcome[w] = "retriable" /\ tries[w] <= MaxRetries[job[w]]

\* Slip: Retry without its guard.
Retries_Unguarded(w) == ShouldRetry(w)

\* The attempt is retried, and the store agrees: Retry refuses a canceled task.
Retries(w) == ShouldRetry(w) /\ status[job[w]] # "canceled"

\* Complete, or handleExecutionFailureWithEvidence: Retry and start the timer
\* of this attempt, or Fail.
Report(w) ==
  LET t == job[w] IN
  /\ \/ /\ pc[w] = "report"
        /\ pc' = [pc EXCEPT ![w] = "finish"]
        /\ tries' = [tries EXCEPT ![w] = 0]
        /\ outcome' = [outcome EXCEPT ![w] = "none"]
        /\ UNCHANGED <<job, stopping>>
     \/ pc[w] = "abort" /\ Leave(w)
  /\ \/ /\ outcome[w] = "success"
        /\ StoreFinish(t, "completed")
        /\ UNCHANGED <<phase, refusals>>
     \/ /\ Retries(w)
        /\ StoreRetry(t)
        /\ phase' = [phase EXCEPT ![Timer(t, tries[w])] = "sleep"]
        /\ refusals' = [refusals EXCEPT ![Timer(t, tries[w])] = 0]
     \/ /\ outcome[w] # "success" /\ ~Retries(w)
        /\ StoreFinish(t, "failed")
        /\ UNCHANGED <<phase, refusals>>
  /\ UNCHANGED <<shared, batch, picked, cancel, crashes>>

\* The deferred clearRunningCancel, by task: it removes whatever is registered,
\* which may be the next attempt's.
Finish(w) ==
  /\ pc[w] = "finish"
  /\ running' = [running EXCEPT ![job[w]] = 0]
  /\ cleared' = cleared \cup
       {v \in Workers : pc[v] = "execute" /\ job[v] = job[w] /\ running[job[w]] = tries[v]}
  /\ Leave(w)
  /\ UNCHANGED <<store, queue, enqueued, cooldown, callers, cancel, crashes>>

CooldownEnds(d) ==
  /\ d \in cooldown
  /\ cooldown' = cooldown \ {d}
  /\ UNCHANGED <<store, queue, enqueued, registry, workers, callers, cancel, crashes>>

-----------------------------------------------------------------------------
(* A cancel request (cancelTask): read the store, signal, write the store. *)

CancelRead(t) ==
  /\ t \in Cancels
  /\ cancel[t] = "none" /\ status[t] # "absent"
  /\ cancel' = [cancel EXCEPT ![t] = IF status[t] = "running" THEN "signal" ELSE "store"]
  /\ UNCHANGED <<store, shared, workers, callers, crashes>>

\* Runner.Cancel calls what is registered: it ends the context of that attempt,
\* which means something only while the attempt executes.
CancelSignal(t) ==
  /\ cancel[t] = "signal"
  /\ cancel' = [cancel EXCEPT ![t] = "store"]
  /\ stopping' = [w \in Workers |->
       \/ stopping[w]
       \/ pc[w] = "execute" /\ job[w] = t /\ tries[w] = running[t]]
  /\ UNCHANGED <<store, shared, pc, job, tries, outcome, callers, crashes>>

\* Slip: only a canceled task refuses to be canceled.
CancelStore_Ended(t) ==
  /\ cancel[t] = "store"
  /\ IF status[t] = "canceled"
       THEN /\ cancel' = [cancel EXCEPT ![t] = "conflict"]
            /\ UNCHANGED store
       ELSE /\ cancel' = [cancel EXCEPT ![t] = "ok"]
            /\ StoreCancel(t)
  /\ UNCHANGED <<shared, workers, callers, crashes>>

CancelStore(t) ==
  /\ cancel[t] = "store"
  /\ IF status[t] \in Terminal
       THEN /\ cancel' = [cancel EXCEPT ![t] = "conflict"]
            /\ UNCHANGED store
       ELSE /\ cancel' = [cancel EXCEPT ![t] = "ok"]
            /\ StoreCancel(t)
  /\ UNCHANGED <<shared, workers, callers, crashes>>

-----------------------------------------------------------------------------
(* The process dies and starts again with the store it finds.              *)
Crash ==
  /\ crashes < MaxCrashes
  /\ crashes' = crashes + 1
  /\ queue' = << >>
  /\ enqueued' = {}
  /\ running' = [t \in Tasks |-> 0]
  /\ cleared' = {}
  /\ cooldown' = {}
  /\ pc' = [w \in Workers |-> "idle"]
  /\ job' = [w \in Workers |-> NoTask]
  /\ tries' = [w \in Workers |-> 0]
  /\ stopping' = [w \in Workers |-> FALSE]
  /\ outcome' = [w \in Workers |-> "none"]
  /\ phase' = [c \in Callers |->
                 IF c.kind # "request" THEN "none"
                 ELSE IF phase[c] \in {"mark", "send", "unmark", "drop", "refuse"}
                 THEN "gone" ELSE phase[c]]
  /\ refusals' = [c \in Callers |-> 0]
  /\ batch' = {}
  /\ picked' = NoTask
  /\ cancel' = [t \in Tasks |-> IF cancel[t] \in {"signal", "store"} THEN "gone"
                                ELSE cancel[t]]
  /\ UNCHANGED store

EnqueueStep(c) ==
  \/ \E t \in Tasks : Mark(c, t)
  \/ Send(c) \/ ContextDone(c) \/ Unmark(c)
  \/ Refuse(c) \/ TimerFires(c)

WorkerStep(w) ==
  \/ Take(w) \/ ClearEnqueued(w) \/ Start(w)
  \/ AcquireNode(w) \/ NoNode(w)
  \/ \E o \in Outcome : ExecutionEnds(w, o)
  \/ \E d \in Domains : ExecutionBlocked(w, d)
  \/ Report(w) \/ Finish(w)

CancelStep(t) == CancelRead(t) \/ CancelSignal(t) \/ CancelStore(t)

Next ==
  \/ \E t \in Tasks : Submit(t) \/ RetryDue(t) \/ CancelStep(t)
  \/ \E c \in Callers : EnqueueStep(c)
  \/ \E S \in SUBSET Tasks : Reconcile(S)
  \/ \E w \in Workers : WorkerStep(w)
  \/ \E d \in Domains : CooldownEnds(d)
  \/ Crash

Spec == Init /\ [][Next]_vars

(***************************************************************************)
(* Goroutines that are not blocked are scheduled, timers fire, node waits  *)
(* and executions end (NodeWaitTimeout, the executor's timeout).           *)
(* Clients promise nothing, and the process need not crash.                *)
(***************************************************************************)
Fairness ==
  /\ \A t \in Tasks : WF_vars(RetryDue(t))
  /\ \A c \in Callers : WF_vars(EnqueueStep(c))
  /\ WF_vars(\E S \in SUBSET Tasks : Reconcile(S))
  /\ \A w \in Workers : WF_vars(WorkerStep(w))

FairSpec == Spec /\ Fairness

-----------------------------------------------------------------------------
(* Properties                                                              *)

\* Caller c has marked task t and not finished with the channel yet.
Sending(c, t) == phase[c] \in {"send", "unmark", "drop"} /\ Item(c) = t

\* Worker w has received task t and not removed its mark yet.
Received(w, t) == pc[w] = "taken" /\ job[w] = t

\* Worker w is between the Start of task t and the report of that attempt.
InAttempt(w, t) ==
  pc[w] \in {"acquire", "execute", "report", "abort"} /\ job[w] = t

\* A mark in `enqueued` is neither leaked (the task could never be enqueued
\* again) nor shared (its removal would let a second copy into the channel):
\* it stands for exactly one goroutine in Enqueue, one entry of the channel or
\* one worker about to remove it (runner.go:130-147, 173-174).
MarkedIffHeld ==
  \A t \in Tasks :
    t \in enqueued <=> \/ \E c \in Callers : Sending(c, t)
                       \/ \E w \in Workers : Received(w, t)
                       \/ \E i \in DOMAIN queue : queue[i] = t
HeldOnce ==
  /\ \A c1, c2 \in Callers, t \in Tasks :
       Sending(c1, t) /\ Sending(c2, t) => c1 = c2
  /\ \A w1, w2 \in Workers, t \in Tasks :
       Received(w1, t) /\ Received(w2, t) => w1 = w2
  /\ \A i, j \in DOMAIN queue : queue[i] = queue[j] => i = j
  /\ \A c \in Callers, w \in Workers, t \in Tasks : ~(Sending(c, t) /\ Received(w, t))
  /\ \A c \in Callers, i \in DOMAIN queue : ~Sending(c, queue[i])
  /\ \A w \in Workers, i \in DOMAIN queue : ~Received(w, queue[i])
QueueMarksExact == MarkedIffHeld /\ HeldOnce

\* No two workers ever drive attempts of one task at the same time, although
\* the task may be enqueued again while it runs (runner.go:186-201).
OneAttemptAtATime ==
  \A t \in Tasks, w1, w2 \in Workers :
    InAttempt(w1, t) /\ InAttempt(w2, t) => w1 = w2

\* A task is attempted at most MaxRetries + 1 times (runner.go:405-413), also
\* when a refused dispatch has failed it in between.
AttemptsBounded == \A t \in Tasks : attempt[t] <= MaxRetries[t] + 1

\* A cancel request that found the task running stops the execution under way at
\* its signal.  The one execution it does not reach is one whose registration
\* the late clear of an earlier attempt has removed, because the registry is
\* cleared by task and not by attempt (runner.go:150-163, 225-226, 344-361).
SignalReachesExecution ==
  [][\A t \in Tasks, w \in Workers :
       cancel[t] = "signal" /\ cancel'[t] = "store" /\ pc[w] = "execute" /\ job[w] = t
         => stopping'[w] \/ w \in cleared]_vars

\* Once canceled, a task stays canceled and is not attempted again, whichever
\* goroutine still works on it (service.go:230, 254, 283).
CanceledIsFinal ==
  [][\A t \in Tasks : status[t] = "canceled" =>
       status'[t] = "canceled" /\ attempt'[t] = attempt[t]]_vars

\* A completed task is never queued or run again; a late refusal of its
\* dispatch may still mark it failed (service.go:283).
CompletedNeverRerun ==
  [][\A t \in Tasks : status[t] = "completed" =>
       /\ status'[t] \in {"completed", "failed"}
       /\ attempt'[t] = attempt[t]]_vars

\* With room for every task in the channel the answer to a cancel request stays
\* true: 200 says the task is canceled, 409 that it had ended by itself
\* (api/tasks.go:167-186).  After a refusal a worker may still retry a failed task.
CancelAnswerStands ==
  \A t \in Tasks :
    /\ cancel[t] = "ok" => status[t] = "canceled"
    /\ cancel[t] = "conflict" => status[t] \in {"completed", "failed"}

\* With room for every task in the channel the runner implements the lifecycle
\* that the API promises: every terminal status is the last one.
Lifecycle == INSTANCE TaskLifecycle
  WITH Tasks <- Tasks, MaxRetries <- MaxRetries, status <- status, attempt <- attempt
LifecycleSpec == Lifecycle!Spec

\* A task whose attempt died with the process.
Stranded(t) ==
  crashes > 0 /\ status[t] = "running" /\ \A w \in Workers : ~InAttempt(w, t)

\* Every task that was accepted or refused ends in a terminal status: no mark,
\* timer or lost channel slot leaves it in the queue, and after a crash the
\* reconciler makes up for those that were lost (runner.go:308, 319-336).  Only
\* a task that was being attempted when the process died is left running: the
\* reconciler does not list it.
EveryTaskSettles ==
  \A t \in Tasks : status[t] \in {"queued", "running"} ~> status[t] \in Terminal \/ Stranded(t)

\* What TestCreateTaskQueueFullMarksFailed expects of a refused request: the
\* task the client was told had failed stays failed.
RefusedStaysFailed ==
  [][\A t \in Tasks :
       phase[Request(t)] = "refused" /\ status[t] = "failed" => status'[t] = "failed"]_vars

-----------------------------------------------------------------------------
(* The parts of the inductive invariant that the proofs add                *)

\* Where a goroutine is determines what it holds.
Control ==
  /\ \A w \in Workers : pc[w] # "idle" => job[w] \in Tasks
  /\ phase[Reconciler] \in {"none", "mark", "send", "unmark", "drop"}
  /\ phase[Reconciler] \in {"send", "unmark", "drop"} => picked \in Tasks
  /\ \A c \in Callers : phase[c] \in {"sleep", "mark", "send", "unmark", "drop"} =>
       refusals[c] < EnqueueAttempts
  /\ \A c \in Callers : c.kind # "timer" => refusals[c] = 0

\* During an attempt nobody else can queue or complete the task, and the
\* worker's copy of the attempt number is the store's.
AttemptOwned ==
  \A t \in Tasks, w \in Workers :
    InAttempt(w, t) => /\ status[t] \in {"running", "failed", "canceled"}
                       /\ tries[w] = attempt[t]

\* A task in the queue has an attempt left.
AttemptLeft ==
  \A t \in Tasks : /\ status[t] = "absent" => attempt[t] = 0
                   /\ status[t] = "queued" => attempt[t] <= MaxRetries[t]

\* An execution is registered under its task, unless another worker's clear came
\* in between.
RegistryExact ==
  \A w \in Workers :
    pc[w] = "execute" => running[job[w]] = tries[w] \/ w \in cleared

AttemptInv == AttemptOwned /\ AttemptLeft /\ AttemptsBounded /\ OneAttemptAtATime
IInv == TypeOK /\ Control /\ QueueMarksExact /\ AttemptInv /\ RegistryExact
=============================================================================
