------------------------- MODULE TaskRunner_proofs -------------------------
(***************************************************************************)
(* Proofs about TaskRunner for every set of tasks and workers, every       *)
(* MaxRetries, QueueSize and EnqueueAttempts, with crashes, cancel         *)
(* requests and contexts that end.                                         *)
(***************************************************************************)
EXTENDS TaskRunner, SequenceTheorems, TLAPS

USE ConstantsAssumption

-----------------------------------------------------------------------------
(* Type correctness *)

\* What the three kinds of caller are.
LEMMA CallerFacts ==
  /\ Reconciler \in Callers
  /\ \A t \in Tasks : Request(t) \in Callers
  /\ \A c \in Callers : \/ c.kind = "request" /\ c.task \in Tasks
                        \/ c.kind = "timer" /\ c.task \in Tasks
                        \/ c = Reconciler
  /\ Reconciler.kind = "reconciler"
<1>1. Reconciler \in Callers
  BY DEF Callers
<1>2. \A t \in Tasks : Request(t) \in Callers
  BY DEF Callers, Requests
<1>3. ASSUME NEW c \in Callers
      PROVE  \/ c.kind = "request" /\ c.task \in Tasks
             \/ c.kind = "timer" /\ c.task \in Tasks
             \/ c = Reconciler
  <2>1. CASE c \in Requests
    BY <2>1 DEF Requests, Request
  <2>2. CASE c \in Timers
    <3>1. PICK t \in Tasks : c \in {Timer(t, k) : k \in 1..MaxRetries[t]}
      BY <2>2 DEF Timers
    <3>2. PICK k \in 1..MaxRetries[t] : c = Timer(t, k)
      BY <3>1
    <3>3. QED
      BY <3>2 DEF Timer
  <2>3. QED
    BY <2>1, <2>2 DEF Callers
<1>4. Reconciler.kind = "reconciler"
  BY DEF Reconciler
<1>5. QED
  BY <1>1, <1>2, <1>3, <1>4

\* TypeOK and Control, by the goroutines whose state they describe.
StoreOK ==
  /\ status \in [Tasks -> Status]
  /\ attempt \in [Tasks -> Nat]
  /\ due \in [Tasks -> BOOLEAN]
SharedOK ==
  /\ queue \in Seq(Tasks) /\ Len(queue) <= QueueSize
  /\ enqueued \in SUBSET Tasks
  /\ running \in [Tasks -> Nat]
  /\ cleared \in SUBSET Workers
  /\ cooldown \in SUBSET Domains
WorkersOK ==
  /\ pc \in [Workers -> PC]
  /\ job \in [Workers -> Tasks \cup {NoTask}]
  /\ tries \in [Workers -> Nat]
  /\ stopping \in [Workers -> BOOLEAN]
  /\ outcome \in [Workers -> Outcome]
  /\ \A w \in Workers : pc[w] # "idle" => job[w] \in Tasks
CallersOK ==
  /\ phase \in [Callers -> Phase]
  /\ refusals \in [Callers -> 0..EnqueueAttempts]
  /\ batch \in SUBSET Tasks
  /\ picked \in Tasks \cup {NoTask}
  /\ phase[Reconciler] \in {"none", "mark", "send", "unmark", "drop"}
  /\ phase[Reconciler] \in {"send", "unmark", "drop"} => picked \in Tasks
  /\ \A c \in Callers : phase[c] \in {"sleep", "mark", "send", "unmark", "drop"} =>
       refusals[c] < EnqueueAttempts
  /\ \A c \in Callers : c.kind # "timer" => refusals[c] = 0
CancelOK == cancel \in [Tasks -> CancelPhase] /\ crashes \in 0..MaxCrashes
TypeInv == StoreOK /\ SharedOK /\ WorkersOK /\ CallersOK /\ CancelOK

\* TypeOK and Control say together what the parts say.
LEMMA TypeParts == (TypeOK /\ Control) <=> TypeInv
BY DEF TypeOK, Control, TypeInv, StoreOK, SharedOK, WorkersOK, CallersOK, CancelOK

\* The initial states satisfy each part.
LEMMA TypeInit == Init => TypeInv
BY CallerFacts DEF Init, TypeInv, StoreOK, SharedOK, WorkersOK, CallersOK, CancelOK,
                   Status, PC, Outcome, Phase, CancelPhase

\* Each part depends on the variables of that part only.
LEMMA TypeStutter ==
  /\ StoreOK /\ UNCHANGED store => StoreOK'
  /\ SharedOK /\ UNCHANGED shared => SharedOK'
  /\ WorkersOK /\ UNCHANGED workers => WorkersOK'
  /\ CallersOK /\ UNCHANGED callers => CallersOK'
  /\ CancelOK /\ UNCHANGED <<cancel, crashes>> => CancelOK'
BY DEF StoreOK, SharedOK, WorkersOK, CallersOK, CancelOK, store, shared, registry, workers, callers

-----------------------------------------------------------------------------
(* Type correctness: the store and the callers *)

\* Every write of the store keeps StoreOK.
LEMMA StoreTypes ==
  ASSUME StoreOK, NEW t \in Tasks, NEW s \in Status,
         StoreStart(t) \/ StoreFinish(t, s) \/ StoreRetry(t) \/ StoreCancel(t)
  PROVE  StoreOK'
<1>1. CASE StoreStart(t)
  <2>1. attempt[t] + 1 \in Nat
    BY DEF StoreOK
  <2>2. attempt' \in [Tasks -> Nat]
    BY <1>1, <2>1 DEF StoreOK, StoreStart
  <2>3. QED
    BY <1>1, <2>2 DEF StoreOK, StoreStart, Status
<1>2. CASE StoreFinish(t, s)
  <2>1. CASE status[t] = "canceled"
    BY <1>2, <2>1 DEF StoreOK, StoreFinish
  <2>2. CASE status[t] # "canceled"
    <3>1. /\ status' = [status EXCEPT ![t] = s]
          /\ due' = [due EXCEPT ![t] = TRUE]
          /\ attempt' = attempt
      BY <1>2, <2>2 DEF StoreFinish
    <3>2. status' \in [Tasks -> Status]
      BY <3>1 DEF StoreOK
    <3>3. due' \in [Tasks -> BOOLEAN]
      BY <3>1 DEF StoreOK
    <3>4. QED
      BY <3>1, <3>2, <3>3 DEF StoreOK
  <2>3. QED
    BY <2>1, <2>2
<1>3. CASE StoreRetry(t)
  BY <1>3 DEF StoreOK, StoreRetry, Status
<1>4. CASE StoreCancel(t)
  BY <1>4 DEF StoreOK, StoreCancel, Status, Terminal
<1>5. QED
  BY <1>1, <1>2, <1>3, <1>4

\* Item(c) is a task while caller c is in Enqueue.
LEMMA ItemIsTask ==
  ASSUME CallersOK, NEW c \in Callers, phase[c] \in {"send", "unmark", "drop"}
  PROVE  Item(c) \in Tasks
<1>1. CASE c = Reconciler
  <2>1. Item(c) = picked
    BY <1>1, CallerFacts DEF Item
  <2>2. QED
    BY <1>1, <2>1 DEF CallersOK
<1>2. CASE c.kind \in {"request", "timer"} /\ c.task \in Tasks
  BY <1>2 DEF Item
<1>3. QED
  BY <1>1, <1>2, CallerFacts

\* What each kind of caller does with the answer of Enqueue keeps CallersOK.
LEMMA ReturnsKeep ==
  ASSUME CallersOK, NEW c \in Callers, NEW t \in Tasks,
         \/ phase[c] \in {"mark", "send", "drop"} /\ (Accepted(c, t) \/ Dropped(c, t))
         \/ phase[c] = "unmark" /\ Refused(c)
  PROVE  CallersOK'
<1>1. CASE c.kind = "request"
  BY <1>1, CallerFacts
  DEF CallersOK, Accepted, Refused, Dropped, Goto, Phase
<1>2. CASE c.kind = "timer"
  <2>1. CASE Accepted(c, t) \/ Dropped(c, t)
    BY <1>2, <2>1, CallerFacts
    DEF CallersOK, Accepted, Dropped, Goto, Phase
  <2>2. CASE phase[c] = "unmark" /\ Refused(c)
    <3>1. refusals[c] \in 0..EnqueueAttempts /\ refusals[c] < EnqueueAttempts
      BY <2>2 DEF CallersOK
    <3>2. refusals[c] + 1 \in 0..EnqueueAttempts
      BY <3>1
    <3>3. /\ refusals' = [refusals EXCEPT ![c] = refusals[c] + 1]
          /\ phase' = [phase EXCEPT ![c] =
               IF refusals[c] + 1 = EnqueueAttempts THEN "refuse" ELSE "mark"]
          /\ UNCHANGED <<batch, picked>>
      BY <1>2, <2>2 DEF Refused, Goto
    <3>4. refusals' \in [Callers -> 0..EnqueueAttempts]
      BY <3>2, <3>3 DEF CallersOK
    <3>5. \A d \in Callers : phase'[d] \in {"sleep", "mark", "send", "unmark", "drop"} =>
            refusals'[d] < EnqueueAttempts
      <4>1. TAKE d \in Callers
      <4>2. CASE d = c
        BY <3>1, <3>3, <4>2 DEF CallersOK
      <4>3. CASE d # c
        BY <3>3, <4>3 DEF CallersOK
      <4>4. QED
        BY <4>2, <4>3
    <3>6. c # Reconciler
      BY <1>2, CallerFacts
    <3>7. phase' \in [Callers -> Phase]
      BY <3>3 DEF CallersOK, Phase
    <3>8. \A d \in Callers : d.kind # "timer" => refusals'[d] = 0
      BY <1>2, <3>3 DEF CallersOK
    <3>9. phase'[Reconciler] = phase[Reconciler]
      BY <3>3, <3>6, CallerFacts DEF CallersOK
    <3>10. QED
      BY <3>3, <3>4, <3>5, <3>7, <3>8, <3>9 DEF CallersOK
  <2>3. QED
    BY <2>1, <2>2
<1>3. CASE c = Reconciler
  BY <1>3, CallerFacts
  DEF CallersOK, Accepted, Refused, Dropped, NextItem, Phase
<1>4. QED
  BY <1>1, <1>2, <1>3, CallerFacts

\* A caller goes on to a phase that asks nothing of the other variables.
LEMMA GotoKeeps ==
  ASSUME CallersOK, NEW c \in Callers, NEW p \in Phase, Goto(c, p), UNCHANGED refusals,
         \/ p \in {"none", "drop", "unmark"} /\ phase[c] = "send"
         \/ p \in {"none", "refused"} /\ phase[c] = "refuse"
         \/ p = "mark" /\ phase[c] = "sleep"
  PROVE  CallersOK'
<1>1. /\ phase' = [phase EXCEPT ![c] = p]
      /\ UNCHANGED <<batch, picked, refusals>>
  BY DEF Goto
<1>2. phase' \in [Callers -> Phase]
  BY <1>1 DEF CallersOK
<1>3. c = Reconciler => phase[c] = "send" /\ p \in {"none", "drop", "unmark"}
  BY DEF CallersOK
<1>4. \A d \in Callers : phase'[d] \in {"sleep", "mark", "send", "unmark", "drop"} =>
        refusals'[d] < EnqueueAttempts
  <2>1. TAKE d \in Callers
  <2>2. CASE d = c
    BY <1>1, <2>2 DEF CallersOK
  <2>3. CASE d # c
    BY <1>1, <2>3 DEF CallersOK
  <2>4. QED
    BY <2>2, <2>3
<1>5. /\ phase'[Reconciler] \in {"none", "mark", "send", "unmark", "drop"}
      /\ phase'[Reconciler] \in {"send", "unmark", "drop"} => picked' \in Tasks
  BY <1>1, <1>3, CallerFacts DEF CallersOK
<1>6. QED
  BY <1>1, <1>2, <1>4, <1>5 DEF CallersOK

\* A channel operation keeps the channel's type and bound.
LEMMA QueueOps ==
  ASSUME NEW q \in Seq(Tasks), Len(q) <= QueueSize
  PROVE  /\ \A t \in Tasks : Len(q) < QueueSize =>
              Append(q, t) \in Seq(Tasks) /\ Len(Append(q, t)) <= QueueSize
         /\ q # << >> => /\ Head(q) \in Tasks
                         /\ Tail(q) \in Seq(Tasks) /\ Len(Tail(q)) <= QueueSize
<1>1. ASSUME NEW t \in Tasks, Len(q) < QueueSize
      PROVE  Append(q, t) \in Seq(Tasks) /\ Len(Append(q, t)) <= QueueSize
  BY <1>1, AppendProperties
<1>2. ASSUME q # << >>
      PROVE  Head(q) \in Tasks /\ Tail(q) \in Seq(Tasks) /\ Len(Tail(q)) <= QueueSize
  BY <1>2, HeadTailProperties
<1>3. QED
  BY <1>1, <1>2

\* Marking, sending and unmarking keep the invariant.
LEMMA EnqueueTypes ==
  ASSUME TypeInv, NEW c \in Callers, EnqueueStep(c)
  PROVE  TypeInv'
<1> USE DEF TypeInv
<1>1. ASSUME NEW t \in Tasks, Mark(c, t)  PROVE TypeInv'
  <2>1. UNCHANGED <<store, queue, registry, cooldown, workers, cancel, crashes>>
    BY <1>1 DEF Mark
  <2>2. SharedOK'
    BY <1>1, <2>1 DEF Mark, SharedOK, registry
  <2>3. CallersOK'
    <3>1. CASE t \in enqueued
      BY <1>1, <3>1, ReturnsKeep DEF Mark
    <3>2. CASE t \notin enqueued
      <4>1. /\ phase[c] = "mark"
            /\ phase' = [phase EXCEPT ![c] = "send"]
            /\ picked' = IF c.kind = "reconciler" THEN t ELSE picked
            /\ UNCHANGED <<refusals, batch>>
        BY <1>1, <3>2 DEF Mark
      <4>2. phase' \in [Callers -> Phase] /\ picked' \in Tasks \cup {NoTask}
        BY <4>1 DEF CallersOK, Phase
      <4>3. \A d \in Callers : phase'[d] \in {"sleep", "mark", "send", "unmark", "drop"} =>
              refusals'[d] < EnqueueAttempts
        BY <4>1 DEF CallersOK
      <4>4. /\ phase'[Reconciler] \in {"none", "mark", "send", "unmark", "drop"}
            /\ phase'[Reconciler] \in {"send", "unmark", "drop"} => picked' \in Tasks
        BY <4>1, CallerFacts DEF CallersOK
      <4>5. QED
        BY <4>1, <4>2, <4>3, <4>4 DEF CallersOK
    <3>3. QED
      BY <3>1, <3>2
  <2>4. QED
    BY <2>1, <2>2, <2>3, TypeStutter DEF store
<1>2. CASE Send(c)
  <2>1. /\ phase[c] = "send"
        /\ UNCHANGED <<store, enqueued, registry, cooldown, workers, cancel, crashes>>
    BY <1>2 DEF Send
  <2>2. Item(c) \in Tasks
    BY <2>1, ItemIsTask
  <2>3. SharedOK' /\ CallersOK'
    <3>1. CASE Len(queue) < QueueSize
      <4>1. queue' = Append(queue, Item(c)) /\ Accepted(c, Item(c))
        BY <1>2, <3>1 DEF Send
      <4>2. queue' \in Seq(Tasks) /\ Len(queue') <= QueueSize
        BY <2>2, <3>1, <4>1, QueueOps DEF SharedOK
      <4>3. CallersOK'
        BY <2>1, <2>2, <4>1, ReturnsKeep
      <4>4. QED
        BY <2>1, <4>2, <4>3 DEF SharedOK, registry
    <3>2. CASE ~(Len(queue) < QueueSize)
      <4>1. CallersOK'
        BY <1>2, <2>1, <3>2, GotoKeeps DEF Send, Phase
      <4>2. QED
        BY <1>2, <2>1, <3>2, <4>1 DEF Send, SharedOK, registry
    <3>3. QED
      BY <3>1, <3>2
  <2>4. QED
    BY <2>1, <2>3, TypeStutter
<1>3. CASE ContextDone(c)
  BY <1>3, GotoKeeps, TypeStutter DEF ContextDone, Phase
<1>4. CASE Unmark(c)
  <2>1. /\ phase[c] \in {"unmark", "drop"}
        /\ UNCHANGED <<store, queue, registry, cooldown, workers, cancel, crashes>>
        /\ enqueued' = enqueued \ {Item(c)}
    BY <1>4 DEF Unmark
  <2>2. Item(c) \in Tasks
    BY <2>1, ItemIsTask
  <2>3. CallersOK'
    BY <1>4, <2>1, <2>2, ReturnsKeep DEF Unmark
  <2>4. SharedOK'
    BY <2>1 DEF SharedOK, registry
  <2>5. QED
    BY <2>1, <2>3, <2>4, TypeStutter
<1>5. CASE Refuse(c)
  <2>1. c \in Requests \cup Timers /\ c.task \in Tasks
    BY <1>5, CallerFacts DEF Refuse, CallersOK, Callers
  <2>2. StoreOK'
    BY <1>5, <2>1, StoreTypes DEF Refuse, Status, Terminal
  <2>3. CallersOK'
    BY <1>5, GotoKeeps DEF Refuse, Phase
  <2>4. QED
    BY <1>5, <2>2, <2>3, TypeStutter DEF Refuse
<1>6. CASE TimerFires(c)
  BY <1>6, GotoKeeps, TypeStutter DEF TimerFires, Phase
<1>7. QED
  BY <1>1, <1>2, <1>3, <1>4, <1>5, <1>6 DEF EnqueueStep

\* So does creating a task,
LEMMA SubmitTypes ==
  ASSUME TypeInv, NEW t \in Tasks, Submit(t)
  PROVE  TypeInv'
<1> USE DEF TypeInv
<1>1. StoreOK'
  BY DEF Submit, StoreOK, Status
<1>2. CallersOK'
  <2>1. /\ phase' = [phase EXCEPT ![Request(t)] = "mark"]
        /\ UNCHANGED <<refusals, batch, picked>>
        /\ Request(t) # Reconciler
    BY CallerFacts DEF Submit, Request, Reconciler
  <2>2. phase' \in [Callers -> Phase]
    BY <2>1 DEF CallersOK, Phase
  <2>3. refusals[Request(t)] < EnqueueAttempts
    BY CallerFacts DEF CallersOK, Request
  <2>4. \A c \in Callers : phase'[c] \in {"sleep", "mark", "send", "unmark", "drop"} =>
          refusals'[c] < EnqueueAttempts
    BY <2>1, <2>3, CallerFacts DEF CallersOK
  <2>5. phase'[Reconciler] = phase[Reconciler]
    BY <2>1, CallerFacts DEF CallersOK
  <2>6. QED
    BY <2>1, <2>2, <2>4, <2>5 DEF CallersOK
<1>3. QED
  BY <1>1, <1>2, TypeStutter DEF Submit

\* and a round of the reconciler.
LEMMA ReconcileTypes ==
  ASSUME TypeInv, NEW S \in SUBSET Tasks, Reconcile(S)
  PROVE  TypeInv'
<1> USE DEF TypeInv
<1>1. CallersOK'
  BY CallerFacts DEF Reconcile, NextItem, CallersOK, Phase
<1>2. QED
  BY <1>1, TypeStutter DEF Reconcile

-----------------------------------------------------------------------------
(* Type correctness: the workers, cancel requests and crashes *)

\* A worker that leaves processTask is idle.
LEMMA LeaveKeeps ==
  ASSUME WorkersOK, NEW w \in Workers, Leave(w)
  PROVE  WorkersOK'
<1>1. /\ pc' \in [Workers -> PC]
      /\ job' \in [Workers -> Tasks \cup {NoTask}]
      /\ tries' \in [Workers -> Nat]
  BY DEF Leave, WorkersOK, PC
<1>2. stopping' \in [Workers -> BOOLEAN] /\ outcome' \in [Workers -> Outcome]
  BY DEF Leave, WorkersOK, Outcome
<1>3. \A v \in Workers : pc'[v] # "idle" => job'[v] \in Tasks
  BY DEF Leave, WorkersOK
<1>4. QED
  BY <1>1, <1>2, <1>3 DEF WorkersOK

\* A step of a worker that has a task keeps the types of pc and job.
LEMMA StepKeeps ==
  ASSUME WorkersOK, NEW w \in Workers, NEW from \in PC, NEW to \in PC,
         Step(w, from, to), from # "idle", job' = job
  PROVE  /\ pc' \in [Workers -> PC]
         /\ job' \in [Workers -> Tasks \cup {NoTask}]
         /\ \A v \in Workers : pc'[v] # "idle" => job'[v] \in Tasks
<1>1. pc[w] # "idle" /\ pc' = [pc EXCEPT ![w] = to]
  BY DEF Step
<1>2. QED
  BY <1>1 DEF WorkersOK

\* Every step of a worker keeps the invariant.
LEMMA WorkerTypes ==
  ASSUME TypeInv, NEW w \in Workers, WorkerStep(w)
  PROVE  TypeInv'
<1> USE DEF TypeInv
<1>1. CASE Take(w)
  <2>1. Head(queue) \in Tasks /\ queue' \in Seq(Tasks) /\ Len(queue') <= QueueSize
    BY <1>1, QueueOps DEF Take, SharedOK, registry
  <2>2. SharedOK'
    BY <1>1, <2>1 DEF Take, SharedOK, registry
  <2>3. /\ pc' = [pc EXCEPT ![w] = "taken"]
        /\ job' = [job EXCEPT ![w] = Head(queue)]
        /\ UNCHANGED <<tries, stopping, outcome>>
    BY <1>1 DEF Take, Step
  <2>4. WorkersOK'
    BY <2>1, <2>3 DEF WorkersOK, PC
  <2>5. QED
    BY <1>1, <2>2, <2>4, TypeStutter DEF Take
<1>2. CASE ClearEnqueued(w)
  <2>1. WorkersOK'
    BY <1>2, StepKeeps DEF ClearEnqueued, WorkersOK, PC
  <2>2. SharedOK'
    BY <1>2 DEF ClearEnqueued, SharedOK, registry
  <2>3. QED
    BY <1>2, <2>1, <2>2, TypeStutter DEF ClearEnqueued
<1>3. CASE Start(w)
  <2>1. job[w] \in Tasks /\ UNCHANGED <<shared, callers, cancel, crashes>>
    BY <1>3 DEF Start, WorkersOK
  <2>2. CASE Startable(job[w])
    <3>1. StoreStart(job[w]) /\ tries' = [tries EXCEPT ![w] = attempt[job[w]] + 1]
      BY <1>3, <2>2 DEF Start
    <3>2. StoreOK'
      BY <2>1, <3>1, StoreTypes DEF Status
    <3>3. tries' \in [Workers -> Nat]
      <4>1. attempt[job[w]] + 1 \in Nat
        BY <2>1 DEF StoreOK
      <4>2. QED
        BY <3>1, <4>1 DEF WorkersOK
    <3>4. \/ Step(w, "start", "abort") /\ outcome' = [outcome EXCEPT ![w] = "failure"]
          \/ Step(w, "start", "acquire") /\ UNCHANGED outcome
      BY <1>3, <2>2 DEF Start
    <3>5. outcome' \in [Workers -> Outcome]
      BY <3>4 DEF WorkersOK, Outcome
    <3>6. UNCHANGED <<job, stopping>>
      BY <1>3, <2>2 DEF Start
    <3>7. WorkersOK'
      BY <3>3, <3>4, <3>5, <3>6, StepKeeps DEF WorkersOK, PC
    <3>8. QED
      BY <2>1, <3>2, <3>7, TypeStutter
  <2>3. CASE ~Startable(job[w])
    BY <1>3, <2>1, <2>3, LeaveKeeps, TypeStutter DEF Start
  <2>4. QED
    BY <2>2, <2>3
<1>4. CASE AcquireNode(w)
  <2>1. WorkersOK'
    BY <1>4, StepKeeps DEF AcquireNode, WorkersOK, PC
  <2>2. SharedOK'
    BY <1>4 DEF AcquireNode, SharedOK, WorkersOK
  <2>3. QED
    BY <1>4, <2>1, <2>2, TypeStutter DEF AcquireNode
<1>5. CASE NoNode(w)
  <2>1. outcome' \in [Workers -> Outcome]
    BY <1>5 DEF NoNode, WorkersOK, Outcome
  <2>2. WorkersOK'
    BY <1>5, <2>1, StepKeeps DEF NoNode, WorkersOK, PC
  <2>3. QED
    BY <1>5, <2>2, TypeStutter DEF NoNode
<1>6. ASSUME NEW o \in Outcome, ExecutionEnds(w, o)  PROVE TypeInv'
  <2>1. outcome' \in [Workers -> Outcome]
    BY <1>6 DEF ExecutionEnds, WorkersOK
  <2>2. stopping' \in [Workers -> BOOLEAN]
    BY <1>6 DEF ExecutionEnds, WorkersOK
  <2>3. WorkersOK'
    BY <1>6, <2>1, <2>2, StepKeeps DEF ExecutionEnds, WorkersOK, PC
  <2>4. SharedOK'
    BY <1>6 DEF ExecutionEnds, SharedOK
  <2>5. QED
    BY <1>6, <2>3, <2>4, TypeStutter DEF ExecutionEnds
<1>7. ASSUME NEW d \in Domains, ExecutionBlocked(w, d)  PROVE TypeInv'
  <2>1. outcome' \in [Workers -> Outcome]
    BY <1>7 DEF ExecutionBlocked, WorkersOK, Outcome
  <2>2. stopping' \in [Workers -> BOOLEAN]
    BY <1>7 DEF ExecutionBlocked, WorkersOK
  <2>3. WorkersOK'
    BY <1>7, <2>1, <2>2, StepKeeps DEF ExecutionBlocked, WorkersOK, PC
  <2>4. SharedOK'
    BY <1>7 DEF ExecutionBlocked, SharedOK
  <2>5. QED
    BY <1>7, <2>3, <2>4, TypeStutter DEF ExecutionBlocked
<1>8. CASE Report(w)
  <2>1. job[w] \in Tasks /\ UNCHANGED <<shared, batch, picked, cancel, crashes>>
    BY <1>8 DEF Report, WorkersOK
  <2>2. WorkersOK'
    <3>1. CASE pc[w] = "report"
      <4>1. /\ Step(w, "report", "finish")
            /\ tries' = [tries EXCEPT ![w] = 0]
            /\ outcome' = [outcome EXCEPT ![w] = "none"]
            /\ UNCHANGED <<job, stopping>>
        BY <1>8, <3>1 DEF Report, Step
      <4>2. tries' \in [Workers -> Nat] /\ outcome' \in [Workers -> Outcome]
        BY <4>1 DEF WorkersOK, Outcome
      <4>3. QED
        BY <4>1, <4>2, StepKeeps DEF WorkersOK, PC
    <3>2. CASE pc[w] # "report"
      BY <1>8, <3>2, LeaveKeeps DEF Report
    <3>3. QED
      BY <3>1, <3>2
  <2>3. StoreOK'
    BY <1>8, <2>1, StoreTypes DEF Report, Status, Terminal
  <2>4. CallersOK'
    <3>1. CASE UNCHANGED <<phase, refusals>>
      BY <2>1, <3>1 DEF CallersOK
    <3>2. CASE /\ phase' = [phase EXCEPT ![Timer(job[w], tries[w])] = "sleep"]
               /\ refusals' = [refusals EXCEPT ![Timer(job[w], tries[w])] = 0]
      <4>1. phase' \in [Callers -> Phase] /\ refusals' \in [Callers -> 0..EnqueueAttempts]
        <5> DEFINE T == Timer(job[w], tries[w])
        <5> HIDE DEF T
        <5>1. /\ phase' = [phase EXCEPT ![T] = "sleep"]
              /\ refusals' = [refusals EXCEPT ![T] = 0]
          BY <3>2 DEF T
        <5>2. 0 \in 0..EnqueueAttempts /\ "sleep" \in Phase
          BY DEF Phase
        <5>3. phase' \in [Callers -> Phase]
          BY <5>1, <5>2 DEF CallersOK
        <5>4. refusals' \in [Callers -> 0..EnqueueAttempts]
          BY <5>1, <5>2 DEF CallersOK
        <5>5. QED
          BY <5>3, <5>4
      <4>2. Timer(job[w], tries[w]) # Reconciler
        BY DEF Timer, Reconciler
      <4>3. phase'[Reconciler] = phase[Reconciler]
        BY <3>2, <4>2, CallerFacts DEF CallersOK
      <4>4. \A c \in Callers : phase'[c] \in {"sleep", "mark", "send", "unmark", "drop"} =>
              refusals'[c] < EnqueueAttempts
        BY <3>2 DEF CallersOK
      <4>5. \A c \in Callers : c.kind # "timer" => refusals'[c] = 0
        BY <3>2 DEF CallersOK
      <4>6. QED
        BY <2>1, <4>1, <4>3, <4>4, <4>5 DEF CallersOK
    <3>3. QED
      BY <1>8, <3>1, <3>2 DEF Report
  <2>5. QED
    BY <2>1, <2>2, <2>3, <2>4, TypeStutter
<1>9. CASE Finish(w)
  <2>1. SharedOK'
    BY <1>9 DEF Finish, SharedOK
  <2>2. QED
    BY <1>9, <2>1, LeaveKeeps, TypeStutter DEF Finish
<1>10. QED
  BY <1>1, <1>2, <1>3, <1>4, <1>5, <1>6, <1>7, <1>8, <1>9 DEF WorkerStep

\* So does every step of a cancel request,
LEMMA CancelTypes ==
  ASSUME TypeInv, NEW t \in Tasks, CancelStep(t)
  PROVE  TypeInv'
<1> USE DEF TypeInv
<1>1. CASE CancelRead(t)
  <2>1. CancelOK'
    BY <1>1 DEF CancelRead, CancelOK, CancelPhase
  <2>2. QED
    BY <1>1, <2>1, TypeStutter DEF CancelRead
<1>2. CASE CancelSignal(t)
  <2>1. CancelOK'
    BY <1>2 DEF CancelSignal, CancelOK, CancelPhase
  <2>2. stopping' \in [Workers -> BOOLEAN]
    BY <1>2 DEF CancelSignal
  <2>3. WorkersOK'
    BY <1>2, <2>2 DEF CancelSignal, WorkersOK
  <2>4. QED
    BY <1>2, <2>1, <2>3, TypeStutter DEF CancelSignal
<1>3. CASE CancelStore(t)
  <2>1. CancelOK'
    BY <1>3 DEF CancelStore, CancelOK, CancelPhase
  <2>2. StoreOK'
    BY <1>3, StoreTypes, TypeStutter DEF CancelStore, Status
  <2>3. QED
    BY <1>3, <2>1, <2>2, TypeStutter DEF CancelStore
<1>4. QED
  BY <1>1, <1>2, <1>3 DEF CancelStep

\* and a crash with the restart after it.
LEMMA CrashTypes ==
  ASSUME TypeInv, Crash
  PROVE  TypeInv'
<1> USE DEF TypeInv
<1>1. SharedOK'
  BY DEF Crash, SharedOK
<1>2. WorkersOK'
  BY DEF Crash, WorkersOK, PC, Outcome
<1>3. CallersOK'
  <2>1. phase' \in [Callers -> Phase]
    BY DEF Crash, CallersOK, Phase
  <2>2. phase'[Reconciler] = "none"
    BY CallerFacts DEF Crash
  <2>3. QED
    BY <2>1, <2>2 DEF Crash, CallersOK
<1>4. CancelOK'
  BY DEF Crash, CancelOK, CancelPhase
<1>5. QED
  BY <1>1, <1>2, <1>3, <1>4, TypeStutter DEF Crash

\* Every step keeps the whole of TypeInv.
LEMMA TypeStep == TypeInv /\ [Next]_vars => TypeInv'
<1> SUFFICES ASSUME TypeInv, [Next]_vars  PROVE TypeInv'
  OBVIOUS
<1>1. ASSUME NEW t \in Tasks, RetryDue(t)  PROVE TypeInv'
  <2>1. StoreOK'
    BY <1>1 DEF RetryDue, StoreOK, TypeInv
  <2>2. QED
    BY <1>1, <2>1, TypeStutter DEF RetryDue, TypeInv
<1>2. ASSUME NEW d \in Domains, CooldownEnds(d)  PROVE TypeInv'
  <2>1. SharedOK'
    BY <1>2 DEF CooldownEnds, SharedOK, registry, TypeInv
  <2>2. QED
    BY <1>2, <2>1, TypeStutter DEF CooldownEnds, TypeInv
<1>3. CASE UNCHANGED vars
  BY <1>3, TypeStutter DEF vars, TypeInv
<1>4. QED
  BY <1>1, <1>2, <1>3, SubmitTypes, EnqueueTypes, ReconcileTypes, WorkerTypes,
     CancelTypes, CrashTypes DEF Next

\* The variables have their types, and each goroutine holds what its position
\* says, in every reachable state.
THEOREM TypeCorrect == Spec => [](TypeOK /\ Control)
<1>1. Spec => []TypeInv
  BY TypeInit, TypeStep, PTL DEF Spec
<1>2. QED
  BY <1>1, TypeParts, PTL

-----------------------------------------------------------------------------
(* Attempts: one worker at a time, at most MaxRetries + 1 of them.         *)
(* AttemptOwned and AttemptLeft make the two properties inductive: a task  *)
(* that somebody attempts is not in the queue, so nobody can start it.     *)

\* Nothing is attempted in the initial states.
LEMMA AttemptInit == Init => AttemptInv
BY DEF Init, AttemptInv, AttemptOwned, AttemptLeft, AttemptsBounded,
       OneAttemptAtATime, InAttempt

\* A step that begins no attempt keeps the invariant if it only ends tasks, or
\* queues a task that nobody attempts and that has an attempt left.
LEMMA NoNewAttempt ==
  ASSUME AttemptInv,
         \A v \in Workers, t \in Tasks :
           InAttempt(v, t)' => InAttempt(v, t) /\ tries'[v] = tries[v],
         attempt' = attempt,
         \A t \in Tasks :
           \/ status'[t] = status[t]
           \/ status'[t] \in {"failed", "canceled"}
           \/ /\ \A v \in Workers : ~InAttempt(v, t)'
              /\ \/ status'[t] = "completed"
                 \/ status'[t] = "queued" /\ attempt[t] <= MaxRetries[t]
  PROVE  AttemptInv'
<1>1. AttemptOwned'
  BY DEF AttemptInv, AttemptOwned
<1>2. AttemptLeft'
  BY DEF AttemptInv, AttemptLeft
<1>3. AttemptsBounded' /\ OneAttemptAtATime'
  BY DEF AttemptInv, AttemptsBounded, OneAttemptAtATime
<1>4. QED
  BY <1>1, <1>2, <1>3 DEF AttemptInv

\* The store operations, one task at a time.
LEMMA StoreEffects ==
  ASSUME StoreOK, NEW t \in Tasks, NEW s \in Status
  PROVE  /\ StoreFinish(t, s) => /\ attempt' = attempt
                                 /\ status'[t] = IF status[t] = "canceled" THEN "canceled" ELSE s
                                 /\ \A u \in Tasks \ {t} : status'[u] = status[u]
         /\ StoreRetry(t) => /\ attempt' = attempt
                             /\ status'[t] = "queued"
                             /\ \A u \in Tasks \ {t} : status'[u] = status[u]
         /\ StoreCancel(t) => /\ attempt' = attempt
                              /\ status'[t] = "canceled"
                              /\ \A u \in Tasks \ {t} : status'[u] = status[u]
         /\ StoreStart(t) => /\ attempt'[t] = attempt[t] + 1
                             /\ status'[t] = "running"
                             /\ \A u \in Tasks \ {t} : status'[u] = status[u]
                                                    /\ attempt'[u] = attempt[u]
<1>1. StoreFinish(t, s) => /\ attempt' = attempt
                           /\ status'[t] = IF status[t] = "canceled" THEN "canceled" ELSE s
                           /\ \A u \in Tasks \ {t} : status'[u] = status[u]
  BY DEF StoreFinish, StoreOK
<1>2. QED
  BY <1>1 DEF StoreRetry, StoreCancel, StoreStart, StoreOK

\* Start takes a task that nobody else has in an attempt.
LEMMA StartKeepsAttempts ==
  ASSUME TypeInv, AttemptInv, NEW w \in Workers, Start(w)
  PROVE  AttemptInv'
<1> DEFINE t == job[w]
<1>1. t \in Tasks /\ pc[w] = "start"
  BY DEF Start, TypeInv, WorkersOK
<1>2. CASE Startable(t)
  <2>1. /\ status[t] = "queued"
        /\ StoreStart(t)
        /\ tries' = [tries EXCEPT ![w] = attempt[t] + 1]
        /\ job' = job
        /\ \A v \in Workers \ {w} : pc'[v] = pc[v]
    BY <1>2 DEF Start, Startable, Step, TypeInv, WorkersOK
  <2>2. /\ attempt'[t] = attempt[t] + 1 /\ status'[t] = "running"
        /\ \A u \in Tasks \ {t} : status'[u] = status[u] /\ attempt'[u] = attempt[u]
    BY <1>1, <2>1, StoreEffects DEF TypeInv, Status
  <2>3. \A v \in Workers : ~InAttempt(v, t)
    BY <1>1, <2>1 DEF AttemptInv, AttemptOwned
  <2>4. \A v \in Workers, u \in Tasks :
          InAttempt(v, u)' => \/ v = w /\ u = t
                              \/ v # w /\ u # t /\ InAttempt(v, u)
    BY <2>1, <2>3 DEF InAttempt
  <2>5. tries'[w] = attempt[t] + 1 /\ \A v \in Workers \ {w} : tries'[v] = tries[v]
    BY <2>1 DEF TypeInv, WorkersOK
  <2>6. attempt[t] \in Nat /\ attempt[t] <= MaxRetries[t]
    BY <1>1, <2>1 DEF AttemptInv, AttemptLeft, TypeInv, StoreOK
  <2>7. AttemptOwned'
    BY <2>2, <2>4, <2>5 DEF AttemptInv, AttemptOwned
  <2>8. AttemptLeft'
    BY <2>2 DEF AttemptInv, AttemptLeft
  <2>9. AttemptsBounded'
    BY <2>2, <2>6 DEF AttemptInv, AttemptsBounded
  <2>10. OneAttemptAtATime'
    BY <2>4 DEF AttemptInv, OneAttemptAtATime
  <2>11. QED
    BY <2>7, <2>8, <2>9, <2>10 DEF AttemptInv
<1>3. CASE ~Startable(t)
  <2>1. Leave(w) /\ UNCHANGED <<status, attempt>>
    BY <1>3 DEF Start, store
  <2>2. \A v \in Workers, u \in Tasks :
          InAttempt(v, u)' => InAttempt(v, u) /\ tries'[v] = tries[v]
    BY <2>1 DEF Leave, InAttempt, TypeInv, WorkersOK
  <2>3. QED
    BY <2>1, <2>2, NoNewAttempt
<1>4. QED
  BY <1>2, <1>3

\* A report ends the only attempt of its task.
LEMMA ReportKeepsAttempts ==
  ASSUME TypeInv, AttemptInv, NEW w \in Workers, Report(w)
  PROVE  AttemptInv'
<1>1. PICK t \in Tasks : t = job[w] /\ InAttempt(w, t)
  BY DEF Report, TypeInv, WorkersOK, InAttempt
<1>2. tries[w] = attempt[t]
  BY <1>1 DEF AttemptInv, AttemptOwned
<1>3. \A v \in Workers, u \in Tasks :
        InAttempt(v, u)' => v # w /\ InAttempt(v, u) /\ tries'[v] = tries[v]
  BY DEF Report, Leave, InAttempt, TypeInv, WorkersOK
<1>4. \A v \in Workers : ~InAttempt(v, t)'
  BY <1>1, <1>3 DEF AttemptInv, OneAttemptAtATime
<1>5. \/ StoreFinish(t, "completed") \/ StoreFinish(t, "failed")
      \/ StoreRetry(t) /\ attempt[t] <= MaxRetries[t]
  BY <1>1, <1>2 DEF Report, Retries, ShouldRetry
<1>6. /\ attempt' = attempt
      /\ \A u \in Tasks :
           \/ status'[u] = status[u]
           \/ status'[u] \in {"failed", "canceled"}
           \/ /\ \A v \in Workers : ~InAttempt(v, u)'
              /\ \/ status'[u] = "completed"
                 \/ status'[u] = "queued" /\ attempt[u] <= MaxRetries[u]
  <2>1. \A u \in Tasks \ {t} : status'[u] = status[u]
    BY <1>5, StoreEffects DEF TypeInv, Status, Terminal
  <2>2. attempt' = attempt
    BY <1>5 DEF StoreFinish, StoreRetry
  <2>3. \/ status'[t] \in {"canceled", "failed", "completed"}
        \/ status'[t] = "queued" /\ attempt[t] <= MaxRetries[t]
    BY <1>5, StoreEffects DEF TypeInv, Status, Terminal
  <2>4. QED
    BY <1>4, <2>1, <2>2, <2>3 DEF InAttempt
<1>7. QED
  BY <1>3, <1>6, NoNewAttempt

\* Every step keeps AttemptInv.
LEMMA AttemptStep == TypeInv /\ AttemptInv /\ [Next]_vars => AttemptInv'
<1> SUFFICES ASSUME TypeInv, AttemptInv, [Next]_vars  PROVE AttemptInv'
  OBVIOUS
<1>1. ASSUME NEW t \in Tasks, Submit(t)  PROVE AttemptInv'
  <2>1. /\ status[t] = "absent"
        /\ status' = [status EXCEPT ![t] = "queued"]
        /\ UNCHANGED <<attempt, pc, job, tries>>
    BY <1>1 DEF Submit, workers
  <2>2. status'[t] = "queued" /\ \A u \in Tasks \ {t} : status'[u] = status[u]
    BY <2>1 DEF TypeInv, StoreOK
  <2>3. \A v \in Workers, u \in Tasks :
          InAttempt(v, u)' => InAttempt(v, u) /\ tries'[v] = tries[v]
    BY <2>1 DEF InAttempt
  <2>4. (\A v \in Workers : ~InAttempt(v, t)') /\ attempt[t] <= MaxRetries[t]
    BY <2>1, <2>3 DEF AttemptInv, AttemptOwned, AttemptLeft
  <2>5. QED
    BY <2>1, <2>2, <2>3, <2>4, NoNewAttempt
<1>2. ASSUME NEW c \in Callers, Refuse(c)  PROVE AttemptInv'
  <2>1. c.task \in Tasks
    BY <1>2, CallerFacts DEF Refuse, TypeInv, CallersOK
  <2>2. StoreFinish(c.task, "failed") /\ UNCHANGED <<pc, job, tries>>
    BY <1>2 DEF Refuse, workers
  <2>3. \A u \in Tasks : status'[u] = status[u] \/ status'[u] \in {"failed", "canceled"}
    BY <2>1, <2>2, StoreEffects DEF TypeInv, Status, Terminal
  <2>4. attempt' = attempt
    BY <2>2 DEF StoreFinish
  <2>5. QED
    BY <2>2, <2>3, <2>4, NoNewAttempt DEF InAttempt
<1>3. ASSUME NEW t \in Tasks, CancelStore(t)  PROVE AttemptInv'
  <2>1. (StoreCancel(t) \/ UNCHANGED store) /\ UNCHANGED <<pc, job, tries>>
    BY <1>3 DEF CancelStore, workers
  <2>2. \A u \in Tasks : status'[u] = status[u] \/ status'[u] \in {"failed", "canceled"}
    BY <2>1, StoreEffects DEF TypeInv, Status, Terminal, store
  <2>3. attempt' = attempt
    BY <2>1 DEF StoreCancel, store
  <2>4. QED
    BY <2>1, <2>2, <2>3, NoNewAttempt DEF InAttempt
<1>4. ASSUME NEW w \in Workers,
             \/ Take(w) \/ ClearEnqueued(w) \/ AcquireNode(w) \/ NoNode(w) \/ Finish(w)
             \/ \E o \in Outcome : ExecutionEnds(w, o)
             \/ \E d \in Domains : ExecutionBlocked(w, d)
      PROVE  AttemptInv'
  <2>1. UNCHANGED <<status, attempt>>
    BY <1>4 DEF Take, ClearEnqueued, AcquireNode, NoNode, Finish, ExecutionEnds,
                ExecutionBlocked, store
  <2>2. \A v \in Workers, u \in Tasks :
          InAttempt(v, u)' => InAttempt(v, u) /\ tries'[v] = tries[v]
    BY <1>4 DEF Take, ClearEnqueued, AcquireNode, NoNode, Finish, Leave, ExecutionEnds,
                ExecutionBlocked, Step, InAttempt, TypeInv, WorkersOK
  <2>3. QED
    BY <2>1, <2>2, NoNewAttempt
<1>5. CASE \/ \E c \in Callers, t \in Tasks : Mark(c, t)
           \/ \E c \in Callers : Send(c) \/ ContextDone(c) \/ Unmark(c) \/ TimerFires(c)
           \/ \E t \in Tasks : RetryDue(t) \/ CancelRead(t) \/ CancelSignal(t)
           \/ \E S \in SUBSET Tasks : Reconcile(S)
           \/ \E d \in Domains : CooldownEnds(d)
           \/ UNCHANGED vars
  <2>1. UNCHANGED <<status, attempt, pc, job, tries>>
    BY <1>5 DEF Mark, Send, ContextDone, Unmark, TimerFires, RetryDue, CancelRead,
                CancelSignal, Reconcile, CooldownEnds, vars, store, workers
  <2>2. QED
    BY <2>1, NoNewAttempt DEF InAttempt
<1>6. CASE Crash
  <2>1. UNCHANGED <<status, attempt>> /\ \A v \in Workers, u \in Tasks : ~InAttempt(v, u)'
    BY <1>6 DEF Crash, InAttempt, store
  <2>2. QED
    BY <2>1, NoNewAttempt
<1>7. QED
  BY <1>1, <1>2, <1>3, <1>4, <1>5, <1>6, StartKeepsAttempts, ReportKeepsAttempts
  DEF Next, EnqueueStep, WorkerStep, CancelStep

\* Both invariants hold in every reachable state.
LEMMA AttemptsInvariant == Spec => [](TypeInv /\ AttemptInv)
<1>1. Init => TypeInv /\ AttemptInv
  BY TypeInit, AttemptInit
<1>2. TypeInv /\ AttemptInv /\ [Next]_vars => (TypeInv /\ AttemptInv)'
  BY TypeStep, AttemptStep
<1>3. QED
  BY <1>1, <1>2, PTL DEF Spec

\* Two workers never drive attempts of one task at the same time, however often
\* and by whom the task is enqueued.
THEOREM OneAttempt == Spec => []OneAttemptAtATime
<1>1. AttemptInv => OneAttemptAtATime
  BY DEF AttemptInv
<1>2. QED
  BY <1>1, AttemptsInvariant, PTL

\* No schedule, refusal, cancel request or crash buys a task more than
\* MaxRetries + 1 attempts.
THEOREM BoundedAttempts == Spec => []AttemptsBounded
<1>1. AttemptInv => AttemptsBounded
  BY DEF AttemptInv
<1>2. QED
  BY <1>1, AttemptsInvariant, PTL

-----------------------------------------------------------------------------
(* What a step may do to the status of a task.                             *)

Keeps(t)     == status'[t] = status[t] /\ attempt'[t] = attempt[t]
Submits(t)   == status[t] = "absent" /\ status'[t] = "queued" /\ attempt'[t] = attempt[t]
Starts(t)    == /\ status[t] = "queued" /\ status'[t] = "running"
                /\ attempt'[t] = attempt[t] + 1
Cancellation(t) == /\ status[t] \notin Terminal /\ status'[t] = "canceled"
                   /\ attempt'[t] = attempt[t]
Reported(t)  == /\ \E w \in Workers : InAttempt(w, t)
                /\ status[t] # "canceled"
                /\ status'[t] \in {"completed", "failed", "queued"}
                /\ attempt'[t] = attempt[t]
Refusal(t)   == /\ status[t] # "canceled" /\ status'[t] = "failed"
                /\ attempt'[t] = attempt[t]
StatusMove(t) ==
  Keeps(t) \/ Submits(t) \/ Starts(t) \/ Cancellation(t) \/ Reported(t) \/ Refusal(t)

\* Every step moves the status of a task in one of these ways, or not at all.
LEMMA StatusMoves ==
  ASSUME TypeInv, [Next]_vars, NEW t \in Tasks
  PROVE  StatusMove(t)
<1>1. CASE UNCHANGED <<status, attempt>>
  BY <1>1 DEF StatusMove, Keeps
<1>2. ASSUME NEW u \in Tasks, Submit(u)  PROVE StatusMove(t)
  <2>1. /\ status[u] = "absent"
        /\ status' = [status EXCEPT ![u] = "queued"]
        /\ attempt' = attempt
    BY <1>2 DEF Submit
  <2>2. QED
    BY <2>1 DEF TypeInv, StoreOK, StatusMove, Keeps, Submits
<1>3. ASSUME NEW w \in Workers, Start(w)  PROVE StatusMove(t)
  <2>1. job[w] \in Tasks
    BY <1>3 DEF Start, TypeInv, WorkersOK
  <2>2. \/ StoreStart(job[w]) /\ status[job[w]] = "queued"
        \/ UNCHANGED <<status, attempt>>
    BY <1>3 DEF Start, Startable, store
  <2>3. QED
    BY <2>1, <2>2, StoreEffects DEF TypeInv, Status, StatusMove, Keeps, Starts
<1>4. ASSUME NEW w \in Workers, Report(w)  PROVE StatusMove(t)
  <2>1. job[w] \in Tasks /\ InAttempt(w, job[w])
    BY <1>4 DEF Report, TypeInv, WorkersOK, InAttempt
  <2>2. \/ StoreFinish(job[w], "completed") \/ StoreFinish(job[w], "failed")
        \/ StoreRetry(job[w]) /\ status[job[w]] # "canceled"
    BY <1>4 DEF Report, Retries
  <2>3. attempt' = attempt
    BY <2>2 DEF StoreFinish, StoreRetry
  <2>4. CASE t = job[w]
    <3>1. Keeps(t) \/ (status[t] # "canceled" /\ status'[t] \in {"completed", "failed", "queued"})
      BY <2>1, <2>2, <2>3, <2>4, StoreEffects DEF TypeInv, Status, Terminal, Keeps
    <3>2. QED
      BY <2>1, <2>3, <2>4, <3>1 DEF StatusMove, Reported
  <2>5. CASE t # job[w]
    BY <2>1, <2>2, <2>3, <2>5, StoreEffects DEF TypeInv, Status, Terminal, StatusMove, Keeps
  <2>6. QED
    BY <2>4, <2>5
<1>5. ASSUME NEW c \in Callers, Refuse(c)  PROVE StatusMove(t)
  <2>1. c.task \in Tasks /\ StoreFinish(c.task, "failed")
    BY <1>5, CallerFacts DEF Refuse, TypeInv, CallersOK
  <2>2. attempt' = attempt
    BY <2>1 DEF StoreFinish
  <2>3. QED
    BY <2>1, <2>2, StoreEffects DEF TypeInv, Status, Terminal, StatusMove, Keeps, Refusal
<1>6. ASSUME NEW u \in Tasks, CancelStore(u)  PROVE StatusMove(t)
  <2>1. \/ StoreCancel(u) /\ status[u] \notin Terminal
        \/ UNCHANGED <<status, attempt>>
    BY <1>6 DEF CancelStore, store
  <2>2. QED
    BY <2>1, StoreEffects DEF TypeInv, Status, StatusMove, Keeps, Cancellation
<1>7. ASSUME [Next]_vars,
             \A u \in Tasks : ~Submit(u) /\ ~CancelStore(u),
             \A w \in Workers : ~Start(w) /\ ~Report(w),
             \A c \in Callers : ~Refuse(c)
      PROVE  UNCHANGED <<status, attempt>>
  BY <1>7 DEF Next, EnqueueStep, WorkerStep, CancelStep, RetryDue, CancelRead, CancelSignal,
              Mark, Send, ContextDone, Unmark, TimerFires, Reconcile, Take, ClearEnqueued,
              AcquireNode, NoNode, ExecutionEnds, ExecutionBlocked, Finish, CooldownEnds,
              Crash, vars, store
<1>8. QED
  BY <1>1, <1>2, <1>3, <1>4, <1>5, <1>6, <1>7

\* A canceled task is never revived: no worker, timer, reconciler round or
\* restart changes its status or attempts it again.
THEOREM CanceledForGood == Spec => CanceledIsFinal
<1>1. TypeInv /\ [Next]_vars =>
        [\A t \in Tasks : status[t] = "canceled" =>
            status'[t] = "canceled" /\ attempt'[t] = attempt[t]]_vars
  BY StatusMoves DEF StatusMove, Keeps, Submits, Starts, Cancellation, Reported, Refusal,
                     Terminal
<1>2. QED
  BY <1>1, AttemptsInvariant, PTL DEF Spec, CanceledIsFinal

\* A completed task is never queued or started again.
THEOREM CompletedForGood == Spec => CompletedNeverRerun
<1>1. TypeInv /\ AttemptInv /\ [Next]_vars =>
        [\A t \in Tasks : status[t] = "completed" =>
            /\ status'[t] \in {"completed", "failed"}
            /\ attempt'[t] = attempt[t]]_vars
  BY StatusMoves DEF StatusMove, Keeps, Submits, Starts, Cancellation, Reported, Refusal,
                     Terminal, AttemptInv, AttemptOwned
<1>2. QED
  BY <1>1, AttemptsInvariant, PTL DEF Spec, CompletedNeverRerun

-----------------------------------------------------------------------------
(* The registry of cancel functions.  It holds one entry per task; since   *)
(* no two workers attempt a task at once, an execution overwrites no other *)
(* execution's entry, and only the late clear of an earlier attempt takes  *)
(* its own away.                                                           *)

\* Nobody executes in the initial states.
LEMMA RegistryInit == Init => RegistryExact
BY DEF Init, RegistryExact

\* A step that leaves the registry and every execution alone.
LEMMA RegistryKept ==
  ASSUME RegistryExact, UNCHANGED registry,
         \A v \in Workers : pc'[v] = "execute" =>
           pc[v] = "execute" /\ job'[v] = job[v] /\ tries'[v] = tries[v]
  PROVE  RegistryExact'
BY DEF RegistryExact, registry

\* The steps of a worker that are not about an execution leave the executions of
\* all workers alone.
LEMMA OtherSteps ==
  ASSUME TypeInv, RegistryExact, NEW w \in Workers,
         Take(w) \/ ClearEnqueued(w) \/ Start(w) \/ NoNode(w) \/ Report(w)
  PROVE  RegistryExact'
<1>1. UNCHANGED registry
  BY DEF Take, ClearEnqueued, Start, NoNode, Report, shared
<1>2. /\ pc[w] # "execute" /\ pc'[w] # "execute"
      /\ \A v \in Workers \ {w} : pc'[v] = pc[v] /\ job'[v] = job[v] /\ tries'[v] = tries[v]
  <2>1. CASE Take(w) \/ ClearEnqueued(w) \/ NoNode(w)
    BY <2>1 DEF Take, ClearEnqueued, NoNode, Step, TypeInv, WorkersOK
  <2>2. CASE Start(w)
    BY <2>2 DEF Start, Leave, Step, TypeInv, WorkersOK
  <2>3. CASE Report(w)
    BY <2>3 DEF Report, Leave, TypeInv, WorkersOK
  <2>4. QED
    BY <2>1, <2>2, <2>3
<1>3. QED
  BY <1>1, <1>2, RegistryKept

\* Every step keeps the registry exact.
LEMMA RegistryStep == TypeInv /\ AttemptInv /\ RegistryExact /\ [Next]_vars => RegistryExact'
<1> SUFFICES ASSUME TypeInv, AttemptInv, RegistryExact, [Next]_vars  PROVE RegistryExact'
  OBVIOUS
<1>1. ASSUME NEW w \in Workers, AcquireNode(w)  PROVE RegistryExact'
  <2>1. /\ pc[w] = "acquire" /\ pc' = [pc EXCEPT ![w] = "execute"]
        /\ running' = [running EXCEPT ![job[w]] = tries[w]]
        /\ UNCHANGED <<job, tries, cleared>>
    BY <1>1 DEF AcquireNode, Step
  <2>2. job[w] \in Tasks /\ InAttempt(w, job[w])
    BY <2>1 DEF TypeInv, WorkersOK, InAttempt
  <2>3. ASSUME NEW v \in Workers, pc'[v] = "execute"
        PROVE  running'[job'[v]] = tries'[v] \/ v \in cleared'
    <3>1. CASE v = w
      BY <2>1, <2>2, <3>1 DEF TypeInv, SharedOK
    <3>2. CASE v # w
      <4>1. pc[v] = "execute" /\ job[v] \in Tasks
        BY <2>1, <2>3, <3>2 DEF TypeInv, WorkersOK
      <4>2. job[v] # job[w]
        BY <2>2, <3>2, <4>1 DEF AttemptInv, OneAttemptAtATime, InAttempt
      <4>3. running'[job[v]] = running[job[v]]
        BY <2>1, <4>1, <4>2 DEF TypeInv, SharedOK
      <4>4. QED
        BY <2>1, <4>1, <4>3 DEF RegistryExact
    <3>3. QED
      BY <3>1, <3>2
  <2>4. QED
    BY <2>3 DEF RegistryExact
<1>2. ASSUME NEW w \in Workers,
             \/ \E o \in Outcome : ExecutionEnds(w, o)
             \/ \E d \in Domains : ExecutionBlocked(w, d)
      PROVE  RegistryExact'
  <2>1. /\ pc' = [pc EXCEPT ![w] = "report"] /\ cleared' = cleared \ {w}
        /\ UNCHANGED <<job, tries, running>>
    BY <1>2 DEF ExecutionEnds, ExecutionBlocked, Step
  <2>2. QED
    BY <2>1 DEF RegistryExact, TypeInv, WorkersOK
<1>3. ASSUME NEW w \in Workers, Finish(w)  PROVE RegistryExact'
  <2>1. /\ job[w] \in Tasks /\ pc'[w] = "idle"
        /\ running' = [running EXCEPT ![job[w]] = 0]
        /\ cleared' = cleared \cup {v \in Workers : /\ pc[v] = "execute" /\ job[v] = job[w]
                                                   /\ running[job[w]] = tries[v]}
        /\ \A v \in Workers \ {w} : pc'[v] = pc[v] /\ job'[v] = job[v] /\ tries'[v] = tries[v]
    BY <1>3 DEF Finish, Leave, TypeInv, WorkersOK
  <2>2. ASSUME NEW v \in Workers, pc'[v] = "execute"
        PROVE  running'[job'[v]] = tries'[v] \/ v \in cleared'
    <3>1. v # w /\ pc[v] = "execute" /\ job[v] \in Tasks
      BY <2>1, <2>2 DEF TypeInv, WorkersOK
    <3>2. CASE job[v] = job[w]
      BY <2>1, <3>1, <3>2 DEF RegistryExact
    <3>3. CASE job[v] # job[w]
      BY <2>1, <3>1, <3>3 DEF RegistryExact, TypeInv, SharedOK
    <3>4. QED
      BY <3>2, <3>3
  <2>3. QED
    BY <2>2 DEF RegistryExact
<1>4. ASSUME NEW t \in Tasks, Submit(t) \/ RetryDue(t) \/ CancelStep(t)  PROVE RegistryExact'
  <2>1. UNCHANGED <<registry, pc, job, tries>>
    BY <1>4 DEF Submit, RetryDue, CancelStep, CancelRead, CancelSignal, CancelStore,
                shared, workers
  <2>2. QED
    BY <2>1, RegistryKept
<1>5. CASE \/ \E c \in Callers : EnqueueStep(c)
           \/ \E S \in SUBSET Tasks : Reconcile(S)
           \/ \E d \in Domains : CooldownEnds(d)
           \/ UNCHANGED vars
  <2>1. UNCHANGED <<registry, pc, job, tries>>
    BY <1>5 DEF EnqueueStep, Mark, Send, ContextDone, Unmark, Refuse, TimerFires, Reconcile,
                CooldownEnds, vars, shared, workers
  <2>2. QED
    BY <2>1, RegistryKept
<1>6. CASE Crash
  BY <1>6 DEF Crash, RegistryExact
<1>7. QED
  BY <1>1, <1>2, <1>3, <1>4, <1>5, <1>6, OtherSteps DEF Next, WorkerStep

\* A step in which a cancel request goes on from its signal is that signal, and
\* it stops the execution that is registered for the task.
LEMMA SignalStops ==
  ASSUME TypeInv, RegistryExact, [Next]_vars, NEW t \in Tasks, NEW w \in Workers,
         cancel[t] = "signal", cancel'[t] = "store", pc[w] = "execute", job[w] = t
  PROVE  stopping'[w] \/ w \in cleared
<1>1. CancelSignal(t)
  <2>1. ASSUME NEW c \in Callers, EnqueueStep(c)  PROVE UNCHANGED cancel
    BY <2>1 DEF EnqueueStep, Mark, Send, ContextDone, Unmark, Refuse, TimerFires
  <2>2. ASSUME NEW v \in Workers, WorkerStep(v)  PROVE UNCHANGED cancel
    BY <2>2 DEF WorkerStep, Take, ClearEnqueued, Start, AcquireNode, NoNode, ExecutionEnds,
                ExecutionBlocked, Report, Finish
  <2>3. ASSUME NEW u \in Tasks, Submit(u) \/ RetryDue(u)  PROVE UNCHANGED cancel
    BY <2>3 DEF Submit, RetryDue
  <2>4. ASSUME NEW u \in Tasks, CancelStep(u)  PROVE u = t /\ CancelSignal(t)
    <3>1. u = t
      BY <2>4 DEF CancelStep, CancelRead, CancelSignal, CancelStore, TypeInv, CancelOK
    <3>2. QED
      BY <2>4, <3>1 DEF CancelStep, CancelRead, CancelStore
  <2>5. CASE \/ \E S \in SUBSET Tasks : Reconcile(S)
             \/ \E d \in Domains : CooldownEnds(d)
             \/ UNCHANGED vars
    BY <2>5 DEF Reconcile, CooldownEnds, vars
  <2>6. CASE Crash
    BY <2>6 DEF Crash
  <2>7. QED
    BY <2>1, <2>2, <2>3, <2>4, <2>5, <2>6 DEF Next
<1>2. running[t] = tries[w] \/ w \in cleared
  BY DEF RegistryExact
<1>3. QED
  BY <1>1, <1>2 DEF CancelSignal

\* The signal of a cancel request reaches the execution under way, unless the
\* late clear of an earlier attempt has removed its registration.
THEOREM SignalReaches == Spec => SignalReachesExecution
<1>1. Init => TypeInv /\ AttemptInv /\ RegistryExact
  BY TypeInit, AttemptInit, RegistryInit
<1>2. TypeInv /\ AttemptInv /\ RegistryExact /\ [Next]_vars =>
        (TypeInv /\ AttemptInv /\ RegistryExact)'
  BY TypeStep, AttemptStep, RegistryStep
<1>3. TypeInv /\ RegistryExact /\ [Next]_vars =>
        [\A t \in Tasks, w \in Workers :
           cancel[t] = "signal" /\ cancel'[t] = "store" /\ pc[w] = "execute" /\ job[w] = t
             => stopping'[w] \/ w \in cleared]_vars
  BY SignalStops
<1>4. QED
  BY <1>1, <1>2, <1>3, PTL DEF Spec, SignalReachesExecution

-----------------------------------------------------------------------------
(* Fresh callers: a request enqueues once, and the timer of an attempt is  *)
(* armed once, at the end of that attempt; arming it never takes a caller  *)
(* out of the middle of Enqueue.                                           *)

FreshInv ==
  /\ \A t \in Tasks : status[t] = "absent" => phase[Request(t)] = "none"
  /\ \A t \in Tasks : \A k \in 1..MaxRetries[t] : phase[Timer(t, k)] # "none" =>
       /\ k <= attempt[t]
       /\ k = attempt[t] => \A w \in Workers : ~InAttempt(w, t)

\* The timers of a task are callers, and no two callers are the same.
LEMMA TimerFacts ==
  /\ \A t \in Tasks : \A k \in 1..MaxRetries[t] : Timer(t, k) \in Callers
  /\ \A t, u \in Tasks, j, k \in Nat : Timer(t, k) = Timer(u, j) <=> t = u /\ k = j
  /\ \A t, u \in Tasks : Request(t) = Request(u) <=> t = u
  /\ \A t, u \in Tasks, k \in Nat : Timer(t, k) # Request(u)
  /\ \A t \in Tasks, k \in Nat : Timer(t, k) # Reconciler /\ Request(t) # Reconciler
<1>1. ASSUME NEW t \in Tasks, NEW k \in 1..MaxRetries[t]
      PROVE  Timer(t, k) \in Callers
  BY DEF Callers, Timers
<1>2. QED
  BY <1>1 DEF Timer, Request, Reconciler

\* No timer exists in the initial states.
LEMMA FreshInit == Init => FreshInv
BY CallerFacts, TimerFacts DEF Init, FreshInv

\* A step that begins no attempt and takes no caller out of phase "none".
LEMMA FreshKept ==
  ASSUME TypeInv, FreshInv, [Next]_vars,
         \A c \in Callers : phase[c] = "none" /\ c # Reconciler => phase'[c] = "none",
         \A t \in Tasks, w \in Workers : InAttempt(w, t)' => InAttempt(w, t),
         attempt' = attempt
  PROVE  FreshInv'
<1>1. ASSUME NEW t \in Tasks, status'[t] = "absent"
      PROVE  phase'[Request(t)] = "none"
  <2>1. status[t] = "absent"
    BY <1>1, StatusMoves DEF StatusMove, Keeps, Submits, Starts, Cancellation, Reported, Refusal
  <2>2. QED
    BY <2>1, CallerFacts, TimerFacts DEF FreshInv
<1>2. ASSUME NEW t \in Tasks, NEW k \in 1..MaxRetries[t], phase'[Timer(t, k)] # "none"
      PROVE  /\ k <= attempt'[t]
             /\ k = attempt'[t] => \A w \in Workers : ~InAttempt(w, t)'
  <2>1. phase[Timer(t, k)] # "none"
    BY <1>2, TimerFacts
  <2>2. QED
    BY <2>1 DEF FreshInv
<1>3. QED
  BY <1>1, <1>2 DEF FreshInv

\* Every step keeps FreshInv.
LEMMA FreshStep == TypeInv /\ AttemptInv /\ FreshInv /\ [Next]_vars => FreshInv'
<1> SUFFICES ASSUME TypeInv, AttemptInv, FreshInv, [Next]_vars  PROVE FreshInv'
  OBVIOUS
<1>1. ASSUME NEW u \in Tasks, Submit(u)  PROVE FreshInv'
  <2>1. /\ status' = [status EXCEPT ![u] = "queued"]
        /\ phase' = [phase EXCEPT ![Request(u)] = "mark"]
        /\ UNCHANGED <<attempt, pc, job>>
    BY <1>1 DEF Submit, workers
  <2>2. \A t \in Tasks : status'[t] = "absent" => phase'[Request(t)] = "none"
    BY <2>1, CallerFacts, TimerFacts DEF FreshInv, TypeInv, StoreOK, CallersOK
  <2>3. \A t \in Tasks : \A k \in 1..MaxRetries[t] : phase'[Timer(t, k)] = phase[Timer(t, k)]
    BY <2>1, TimerFacts DEF TypeInv, CallersOK
  <2>4. QED
    BY <2>1, <2>2, <2>3 DEF FreshInv, InAttempt
<1>2. ASSUME NEW w \in Workers, Start(w)  PROVE FreshInv'
  <2>1. PICK t \in Tasks : t = job[w]
    BY <1>2 DEF Start, TypeInv, WorkersOK
  <2>2. CASE Startable(t)
    <3>1. StoreStart(t) /\ phase' = phase /\ job' = job
          /\ \A v \in Workers \ {w} : pc'[v] = pc[v]
      BY <1>2, <2>1, <2>2 DEF Start, Step, callers, TypeInv, WorkersOK
    <3>2. /\ attempt'[t] = attempt[t] + 1 /\ status'[t] = "running"
          /\ \A u \in Tasks \ {t} : status'[u] = status[u] /\ attempt'[u] = attempt[u]
      BY <3>1, StoreEffects DEF TypeInv, Status
    <3>3. \A u \in Tasks : status'[u] = "absent" => phase'[Request(u)] = "none"
      BY <3>1, <3>2 DEF FreshInv
    <3>4. ASSUME NEW u \in Tasks, NEW k \in 1..MaxRetries[u], phase'[Timer(u, k)] # "none"
          PROVE  /\ k <= attempt'[u]
                 /\ k = attempt'[u] => \A v \in Workers : ~InAttempt(v, u)'
      <4>1. CASE u = t
        BY <3>1, <3>2, <3>4, <4>1 DEF FreshInv, TypeInv, StoreOK
      <4>2. CASE u # t
        BY <2>1, <3>1, <3>2, <3>4, <4>2 DEF FreshInv, InAttempt
      <4>3. QED
        BY <4>1, <4>2
    <3>5. QED
      BY <3>3, <3>4 DEF FreshInv
  <2>3. CASE ~Startable(t)
    <3>1. Leave(w) /\ phase' = phase /\ attempt' = attempt
      BY <1>2, <2>1, <2>3 DEF Start, callers, store
    <3>2. \A u \in Tasks, v \in Workers : InAttempt(v, u)' => InAttempt(v, u)
      BY <3>1 DEF Leave, InAttempt, TypeInv, WorkersOK
    <3>3. QED
      BY <3>1, <3>2, FreshKept
  <2>4. QED
    BY <2>2, <2>3
<1>3. ASSUME NEW w \in Workers, Report(w)  PROVE FreshInv'
  <2>1. PICK t \in Tasks : t = job[w] /\ InAttempt(w, t)
    BY <1>3 DEF Report, TypeInv, WorkersOK, InAttempt
  <2>2. \A v \in Workers, u \in Tasks : InAttempt(v, u)' => v # w /\ InAttempt(v, u)
    BY <1>3 DEF Report, Leave, InAttempt, TypeInv, WorkersOK
  <2>3. attempt' = attempt
    BY <1>3 DEF Report, StoreFinish, StoreRetry
  <2>4. CASE phase' = phase
    BY <2>2, <2>3, <2>4, FreshKept
  <2>5. CASE phase' = [phase EXCEPT ![Timer(t, tries[w])] = "sleep"]
    <3>1. tries[w] = attempt[t] /\ attempt[t] \in Nat
      BY <2>1 DEF AttemptInv, AttemptOwned, TypeInv, StoreOK
    <3>2. \A v \in Workers : ~InAttempt(v, t)'
      BY <2>1, <2>2 DEF AttemptInv, OneAttemptAtATime, InAttempt
    <3>3. ASSUME NEW u \in Tasks, status'[u] = "absent"
          PROVE  phase'[Request(u)] = "none"
      <4>1. status[u] = "absent"
        BY <3>3, StatusMoves
        DEF StatusMove, Keeps, Submits, Starts, Cancellation, Reported, Refusal
      <4>2. Request(u) # Timer(t, tries[w])
        BY <3>1, TimerFacts
      <4>3. QED
        BY <2>5, <4>1, <4>2, CallerFacts DEF FreshInv, TypeInv, CallersOK
    <3>4. ASSUME NEW u \in Tasks, NEW k \in 1..MaxRetries[u], phase'[Timer(u, k)] # "none"
          PROVE  /\ k <= attempt'[u]
                 /\ k = attempt'[u] => \A v \in Workers : ~InAttempt(v, u)'
      <4>1. CASE u = t /\ k = tries[w]
        BY <2>3, <3>1, <3>2, <4>1 DEF InAttempt
      <4>2. CASE ~(u = t /\ k = tries[w])
        <5>1. Timer(u, k) # Timer(t, tries[w])
          BY <3>1, <4>2, TimerFacts
        <5>2. phase[Timer(u, k)] # "none"
          BY <2>5, <3>4, <5>1, TimerFacts DEF TypeInv, CallersOK
        <5>3. QED
          BY <2>2, <2>3, <5>2 DEF FreshInv
      <4>3. QED
        BY <4>1, <4>2
    <3>5. QED
      BY <3>3, <3>4 DEF FreshInv
  <2>6. QED
    BY <1>3, <2>1, <2>4, <2>5 DEF Report
<1>4. ASSUME NEW c \in Callers, EnqueueStep(c)  PROVE FreshInv'
  <2>1. UNCHANGED <<attempt, pc, job>>
    BY <1>4 DEF EnqueueStep, Mark, Send, ContextDone, Unmark, Refuse, TimerFires, StoreFinish,
                store, workers
  <2>2. phase[c] # "none"
    BY <1>4 DEF EnqueueStep, Mark, Send, ContextDone, Unmark, Refuse, TimerFires
  <2>3. \A d \in Callers : d # c /\ d # Reconciler => phase'[d] = phase[d]
    BY <1>4 DEF EnqueueStep, Mark, Send, ContextDone, Unmark, Refuse, TimerFires, Accepted,
                Refused, Dropped, Goto, NextItem, TypeInv, CallersOK
  <2>4. QED
    BY <2>1, <2>2, <2>3, FreshKept DEF InAttempt
<1>5. ASSUME NEW w \in Workers,
             \/ Take(w) \/ ClearEnqueued(w) \/ AcquireNode(w) \/ NoNode(w) \/ Finish(w)
             \/ \E o \in Outcome : ExecutionEnds(w, o)
             \/ \E d \in Domains : ExecutionBlocked(w, d)
      PROVE  FreshInv'
  <2>1. UNCHANGED <<phase, attempt>>
    BY <1>5 DEF Take, ClearEnqueued, AcquireNode, NoNode, Finish, ExecutionEnds,
                ExecutionBlocked, store, callers
  <2>2. \A u \in Tasks, v \in Workers : InAttempt(v, u)' => InAttempt(v, u)
    BY <1>5 DEF Take, ClearEnqueued, AcquireNode, NoNode, Finish, Leave, ExecutionEnds,
                ExecutionBlocked, Step, InAttempt, TypeInv, WorkersOK
  <2>3. QED
    BY <2>1, <2>2, FreshKept
<1>6. CASE \/ \E t \in Tasks : RetryDue(t) \/ CancelStep(t)
           \/ \E d \in Domains : CooldownEnds(d)
           \/ \E S \in SUBSET Tasks : Reconcile(S)
           \/ UNCHANGED vars
  <2>1. UNCHANGED <<attempt, pc, job>>
    BY <1>6 DEF RetryDue, CancelStep, CancelRead, CancelSignal, CancelStore, StoreCancel,
                CooldownEnds, Reconcile, vars, store, workers
  <2>2. \A d \in Callers : d # Reconciler => phase'[d] = phase[d]
    BY <1>6 DEF RetryDue, CancelStep, CancelRead, CancelSignal, CancelStore,
                CooldownEnds, Reconcile, NextItem, vars, callers, TypeInv, CallersOK
  <2>3. QED
    BY <2>1, <2>2, FreshKept DEF InAttempt
<1>7. CASE Crash
  <2>1. \A c \in Callers : phase[c] = "none" => phase'[c] = "none"
    BY <1>7 DEF Crash
  <2>2. attempt' = attempt /\ \A u \in Tasks, v \in Workers : ~InAttempt(v, u)'
    BY <1>7 DEF Crash, InAttempt, store
  <2>3. QED
    BY <2>1, <2>2, FreshKept
<1>8. QED
  BY <1>1, <1>2, <1>3, <1>4, <1>5, <1>6, <1>7 DEF Next, WorkerStep

-----------------------------------------------------------------------------
(* The marks of `enqueued`.                                                *)

InQueue(t) == \E i \in DOMAIN queue : queue[i] = t

\* Nothing is marked in the initial states.
LEMMA MarksInit == Init => QueueMarksExact
<1> SUFFICES ASSUME Init  PROVE QueueMarksExact
  OBVIOUS
<1>1. DOMAIN queue = {}
  BY DEF Init
<1>2. \A c \in Callers, t \in Tasks : ~Sending(c, t)
  BY DEF Init, Sending
<1>3. \A w \in Workers, t \in Tasks : ~Received(w, t)
  BY DEF Init, Received
<1>4. MarkedIffHeld
  BY <1>1, <1>2, <1>3 DEF Init, MarkedIffHeld
<1>5. HeldOnce
  BY <1>1, <1>2, <1>3 DEF HeldOnce
<1>6. QED
  BY <1>4, <1>5 DEF QueueMarksExact

\* A step that moves no mark.
LEMMA MarksKept ==
  ASSUME TypeInv, QueueMarksExact, UNCHANGED <<queue, enqueued>>,
         \A c \in Callers, t \in Tasks : Sending(c, t)' <=> Sending(c, t),
         \A w \in Workers, t \in Tasks : Received(w, t)' <=> Received(w, t)
  PROVE  QueueMarksExact'
<1>1. \A i \in DOMAIN queue : queue[i] \in Tasks
  BY ElementOfSeq DEF TypeInv, SharedOK
<1>2. MarkedIffHeld'
  BY DEF QueueMarksExact, MarkedIffHeld
<1>3. HeldOnce'
  BY <1>1 DEF QueueMarksExact, HeldOnce
<1>4. QED
  BY <1>2, <1>3 DEF QueueMarksExact

\* Caller c marks an unmarked task: c is its holder.
LEMMA MarkMarks ==
  ASSUME TypeInv, QueueMarksExact, NEW c \in Callers, NEW t \in Tasks, Mark(c, t)
  PROVE  QueueMarksExact'
<1>1. phase[c] = "mark" /\ UNCHANGED <<queue, pc, job>> /\ t \in Items(c)
  BY DEF Mark, workers
<1>2. \A w \in Workers, u \in Tasks : Received(w, u)' <=> Received(w, u)
  BY <1>1 DEF Received
<1>3. \A d \in Callers \ {c}, u \in Tasks : Sending(d, u)' <=> Sending(d, u)
  <2>1. \A d \in Callers \ {c} : phase'[d] = phase[d] /\ (d = Reconciler => picked' = picked)
    BY <1>1, CallerFacts DEF Mark, Accepted, Goto, NextItem, TypeInv, CallersOK
  <2>2. \A d \in Callers \ {c} : d # Reconciler => d.kind # "reconciler"
    BY CallerFacts
  <2>3. QED
    BY <2>1, <2>2, CallerFacts DEF Sending, Item
<1>4. \A u \in Tasks : ~Sending(c, u)
  BY <1>1 DEF Sending
<1>5. CASE t \in enqueued
  <2>1. enqueued' = enqueued /\ phase'[c] \in {"accepted", "none", "mark"}
    BY <1>5, CallerFacts DEF Mark, Accepted, Goto, NextItem, TypeInv, CallersOK
  <2>2. \A d \in Callers, u \in Tasks : Sending(d, u)' <=> Sending(d, u)
    BY <1>3, <1>4, <2>1 DEF Sending
  <2>3. QED
    BY <1>1, <1>2, <2>1, <2>2, MarksKept
<1>6. CASE t \notin enqueued
  <2>1. enqueued' = enqueued \cup {t} /\ phase'[c] = "send"
    BY <1>6 DEF Mark, TypeInv, CallersOK
  <2>2. Item(c)' = t
    BY <1>1, <1>6, CallerFacts DEF Mark, Item, Items
  <2>3. \A u \in Tasks : Sending(c, u)' <=> u = t
    BY <2>1, <2>2 DEF Sending
  <2>4. /\ \A d \in Callers : ~Sending(d, t)
        /\ \A w \in Workers : ~Received(w, t)
        /\ \A i \in DOMAIN queue : queue[i] # t
    BY <1>6 DEF QueueMarksExact, MarkedIffHeld
  <2>5. MarkedIffHeld'
    <3>1. ASSUME NEW u \in Tasks
          PROVE  u \in enqueued' <=> \/ \E d \in Callers : Sending(d, u)'
                                     \/ \E w \in Workers : Received(w, u)'
                                     \/ \E i \in DOMAIN queue' : queue'[i] = u
      <4>1. CASE u = t
        BY <2>1, <2>3, <4>1
      <4>2. CASE u # t
        <5>1. \A d \in Callers : Sending(d, u)' <=> Sending(d, u)
          BY <1>3, <1>4, <2>3, <4>2
        <5>2. QED
          BY <1>1, <1>2, <2>1, <4>2, <5>1 DEF QueueMarksExact, MarkedIffHeld
      <4>3. QED
        BY <4>1, <4>2
    <3>2. QED
      BY <3>1 DEF MarkedIffHeld
  <2>6. \A i \in DOMAIN queue : queue[i] \in Tasks
    BY ElementOfSeq DEF TypeInv, SharedOK
  <2>7. \A d \in Callers, u \in Tasks :
          Sending(d, u)' <=> (d = c /\ u = t) \/ (d # c /\ u # t /\ Sending(d, u))
    BY <1>3, <2>3, <2>4
  <2>8. HeldOnce'
    BY <1>1, <1>2, <2>4, <2>6, <2>7 DEF QueueMarksExact, HeldOnce
  <2>9. QED
    BY <2>5, <2>8 DEF QueueMarksExact
<1>7. QED
  BY <1>5, <1>6

\* What a step of one caller leaves of the others.
LEMMA OthersSend ==
  ASSUME TypeInv, NEW c \in Callers,
         \/ \E t \in Tasks : Accepted(c, t) \/ Dropped(c, t)
         \/ Refused(c)
         \/ \E p \in Phase : Goto(c, p)
  PROVE  \A d \in Callers \ {c}, u \in Tasks : Sending(d, u)' <=> Sending(d, u)
<1>1. \A d \in Callers \ {c} : phase'[d] = phase[d] /\ (d = Reconciler => picked' = picked)
  BY CallerFacts DEF Accepted, Dropped, Refused, Goto, NextItem, TypeInv, CallersOK
<1>2. \A d \in Callers \ {c} : d # Reconciler => d.kind # "reconciler"
  BY CallerFacts
<1>3. QED
  BY <1>1, <1>2, CallerFacts DEF Sending, Item

\* Caller c sends: the channel's last entry takes over from it.
LEMMA SendMarks ==
  ASSUME TypeInv, QueueMarksExact, NEW c \in Callers, Send(c)
  PROVE  QueueMarksExact'
<1>1. phase[c] = "send" /\ UNCHANGED <<enqueued, pc, job>>
  BY DEF Send, workers
<1>2. PICK t \in Tasks : t = Item(c)
  BY <1>1, ItemIsTask DEF TypeInv
<1>3. \A w \in Workers, u \in Tasks : Received(w, u)' <=> Received(w, u)
  BY <1>1 DEF Received
<1>4. \A u \in Tasks : Sending(c, u) <=> u = t
  BY <1>1, <1>2 DEF Sending
<1>5. CASE Len(queue) < QueueSize
  <2>1. queue' = Append(queue, t) /\ Accepted(c, t)
    BY <1>2, <1>5 DEF Send
  <2>2. \A d \in Callers \ {c}, u \in Tasks : Sending(d, u)' <=> Sending(d, u)
    BY <2>1, OthersSend
  <2>3. \A u \in Tasks : ~Sending(c, u)'
    BY <2>1, CallerFacts DEF Accepted, Goto, NextItem, TypeInv, CallersOK, Sending
  <2>4. /\ queue \in Seq(Tasks) /\ DOMAIN queue = 1..Len(queue)
        /\ DOMAIN queue' = 1..(Len(queue) + 1)
        /\ \A i \in 1..Len(queue) : queue'[i] = queue[i] /\ queue[i] \in Tasks
        /\ queue'[Len(queue) + 1] = t
        /\ Len(queue) \in Nat
    BY <2>1, AppendProperties, ElementOfSeq, LenProperties DEF TypeInv, SharedOK
  <2>5. \A i \in DOMAIN queue' : \/ i \in DOMAIN queue /\ queue'[i] = queue[i]
                                 \/ i = Len(queue) + 1 /\ queue'[i] = t
    BY <2>4
  <2>6. /\ \A d \in Callers : Sending(d, t) => d = c
        /\ \A w \in Workers : ~Received(w, t)
        /\ \A i \in DOMAIN queue : queue[i] # t
    BY <1>4 DEF QueueMarksExact, HeldOnce
  <2>7. \A u \in Tasks : InQueue(u)' <=> InQueue(u) \/ u = t
    <3>1. ASSUME NEW u \in Tasks, NEW i \in DOMAIN queue', queue'[i] = u
          PROVE  InQueue(u) \/ u = t
      BY <2>5, <3>1 DEF InQueue
    <3>2. ASSUME NEW u \in Tasks, NEW i \in DOMAIN queue, queue[i] = u
          PROVE  i \in DOMAIN queue' /\ queue'[i] = u
      BY <2>4, <3>2
    <3>3. Len(queue) + 1 \in DOMAIN queue' /\ queue'[Len(queue) + 1] = t
      BY <2>4
    <3>4. QED
      BY <3>1, <3>2, <3>3 DEF InQueue
  <2>8. MarkedIffHeld'
    <3>1. ASSUME NEW u \in Tasks
          PROVE  u \in enqueued' <=> \/ \E d \in Callers : Sending(d, u)'
                                     \/ \E w \in Workers : Received(w, u)'
                                     \/ InQueue(u)'
      <4>1. u \in enqueued <=> \/ \E d \in Callers : Sending(d, u)
                               \/ \E w \in Workers : Received(w, u)
                               \/ InQueue(u)
        BY DEF QueueMarksExact, MarkedIffHeld, InQueue
      <4>2. (\E d \in Callers : Sending(d, u)) <=> (\E d \in Callers : Sending(d, u)') \/ u = t
        BY <1>4, <2>2, <2>3, <2>6
      <4>3. QED
        BY <1>1, <1>3, <2>7, <4>1, <4>2
    <3>2. QED
      BY <3>1 DEF MarkedIffHeld, InQueue
  <2>9. HeldOnce'
    <3>1. \A d1, d2 \in Callers, u \in Tasks :
            Sending(d1, u)' /\ Sending(d2, u)' => d1 = d2
      BY <2>2, <2>3 DEF QueueMarksExact, HeldOnce
    <3>2. \A w1, w2 \in Workers, u \in Tasks :
            Received(w1, u)' /\ Received(w2, u)' => w1 = w2
      BY <1>3 DEF QueueMarksExact, HeldOnce
    <3>3. \A i, j \in DOMAIN queue' : queue'[i] = queue'[j] => i = j
      BY <2>5, <2>6 DEF QueueMarksExact, HeldOnce
    <3>4. \A d \in Callers, w \in Workers, u \in Tasks : ~(Sending(d, u)' /\ Received(w, u)')
      BY <1>3, <2>2, <2>3 DEF QueueMarksExact, HeldOnce
    <3>5. \A d \in Callers, u \in Tasks : Sending(d, u)' => ~InQueue(u)'
      <4>1. \A d \in Callers, u \in Tasks : Sending(d, u)' => ~InQueue(u) /\ u # t
        BY <2>2, <2>3, <2>6 DEF QueueMarksExact, HeldOnce, InQueue
      <4>2. QED
        BY <2>7, <4>1
    <3>6. \A w \in Workers, u \in Tasks : Received(w, u)' => ~InQueue(u)'
      <4>1. \A w \in Workers, u \in Tasks : Received(w, u) => ~InQueue(u) /\ u # t
        BY <2>6 DEF QueueMarksExact, HeldOnce, InQueue
      <4>2. QED
        BY <1>3, <2>7, <4>1
    <3>7. \A i \in DOMAIN queue' : queue'[i] \in Tasks
      BY <2>4, <2>5
    <3>8. QED
      BY <3>1, <3>2, <3>3, <3>4, <3>5, <3>6, <3>7 DEF HeldOnce, InQueue
  <2>10. QED
    BY <2>8, <2>9 DEF QueueMarksExact
<1>6. CASE ~(Len(queue) < QueueSize)
  <2>1. Goto(c, "unmark") /\ queue' = queue
    BY <1>6 DEF Send
  <2>2. \A d \in Callers \ {c}, u \in Tasks : Sending(d, u)' <=> Sending(d, u)
    BY <2>1, OthersSend DEF Phase
  <2>3. \A u \in Tasks : Sending(c, u)' <=> Sending(c, u)
    BY <1>1, <2>1 DEF Goto, Sending, Item, TypeInv, CallersOK
  <2>4. \A d \in Callers, u \in Tasks : Sending(d, u)' <=> Sending(d, u)
    BY <2>2, <2>3
  <2>5. QED
    BY <1>1, <1>3, <2>1, <2>4, MarksKept
<1>7. QED
  BY <1>5, <1>6

\* Caller c gives up and removes its own mark.
LEMMA UnmarkMarks ==
  ASSUME TypeInv, QueueMarksExact, NEW c \in Callers, Unmark(c)
  PROVE  QueueMarksExact'
<1>1. phase[c] \in {"unmark", "drop"} /\ UNCHANGED <<queue, pc, job>>
  BY DEF Unmark, workers
<1>2. PICK t \in Tasks : t = Item(c)
  BY <1>1, ItemIsTask DEF TypeInv
<1>3. enqueued' = enqueued \ {t} /\ (Refused(c) \/ Dropped(c, t))
  BY <1>2 DEF Unmark
<1>4. \A w \in Workers, u \in Tasks : Received(w, u)' <=> Received(w, u)
  BY <1>1 DEF Received
<1>5. \A u \in Tasks : Sending(c, u) <=> u = t
  BY <1>1, <1>2 DEF Sending
<1>6. \A d \in Callers \ {c}, u \in Tasks : Sending(d, u)' <=> Sending(d, u)
  BY <1>3, OthersSend
<1>7. \A u \in Tasks : ~Sending(c, u)'
  BY <1>3, CallerFacts DEF Refused, Dropped, Goto, NextItem, TypeInv, CallersOK, Sending
<1>8. /\ \A d \in Callers : Sending(d, t) => d = c
      /\ \A w \in Workers : ~Received(w, t)
      /\ \A i \in DOMAIN queue : queue[i] # t
  BY <1>5 DEF QueueMarksExact, HeldOnce
<1>9. MarkedIffHeld'
  <2>1. ASSUME NEW u \in Tasks
        PROVE  u \in enqueued' <=> \/ \E d \in Callers : Sending(d, u)'
                                   \/ \E w \in Workers : Received(w, u)'
                                   \/ InQueue(u)
    <3>1. u \in enqueued <=> \/ \E d \in Callers : Sending(d, u)
                             \/ \E w \in Workers : Received(w, u)
                             \/ InQueue(u)
      BY DEF QueueMarksExact, MarkedIffHeld, InQueue
    <3>2. (\E d \in Callers : Sending(d, u)') <=> (\E d \in Callers : Sending(d, u)) /\ u # t
      BY <1>5, <1>6, <1>7, <1>8
    <3>3. u = t => ~InQueue(u) /\ \A w \in Workers : ~Received(w, u)
      BY <1>8 DEF InQueue
    <3>4. QED
      BY <1>3, <1>4, <3>1, <3>2, <3>3
  <2>2. QED
    BY <1>1, <2>1 DEF MarkedIffHeld, InQueue
<1>10. HeldOnce'
  <2>1. \A i \in DOMAIN queue : queue[i] \in Tasks
    BY ElementOfSeq DEF TypeInv, SharedOK
  <2>2. \A d \in Callers, u \in Tasks : Sending(d, u)' => Sending(d, u)
    BY <1>6, <1>7
  <2>3. QED
    BY <1>1, <1>4, <2>1, <2>2 DEF QueueMarksExact, HeldOnce
<1>11. QED
  BY <1>9, <1>10 DEF QueueMarksExact

\* Worker w receives the head of the channel and its mark with it.
LEMMA TakeMarks ==
  ASSUME TypeInv, QueueMarksExact, NEW w \in Workers, Take(w)
  PROVE  QueueMarksExact'
<1>1. PICK t \in Tasks : t = Head(queue)
  BY HeadTailProperties DEF Take, TypeInv, SharedOK
<1>2. /\ queue # << >> /\ queue' = Tail(queue) /\ UNCHANGED <<enqueued, phase, picked>>
      /\ pc[w] = "idle" /\ pc'[w] = "taken" /\ job'[w] = t
      /\ \A v \in Workers \ {w} : pc'[v] = pc[v] /\ job'[v] = job[v]
  BY <1>1 DEF Take, Step, callers, TypeInv, WorkersOK
<1>3. \A d \in Callers, u \in Tasks : Sending(d, u)' <=> Sending(d, u)
  BY <1>2 DEF Sending, Item
<1>4. \A v \in Workers, u \in Tasks :
        Received(v, u)' <=> (v = w /\ u = t) \/ (v # w /\ Received(v, u))
  BY <1>2 DEF Received
<1>5. \A u \in Tasks : ~Received(w, u)
  BY <1>2 DEF Received
<1>6. /\ DOMAIN queue = 1..Len(queue) /\ Len(queue) \in Nat \ {0}
      /\ queue[1] = t
      /\ DOMAIN queue' = 1..(Len(queue) - 1)
      /\ \A i \in 1..(Len(queue) - 1) : queue'[i] = queue[i + 1]
      /\ \A i \in DOMAIN queue : queue[i] \in Tasks
  BY <1>1, <1>2, HeadTailProperties, EmptySeq, LenProperties, ElementOfSeq
  DEF TypeInv, SharedOK
<1>7. /\ \A d \in Callers : ~Sending(d, t)
      /\ \A v \in Workers : ~Received(v, t)
      /\ \A i \in DOMAIN queue : queue[i] = t => i = 1
  BY <1>6 DEF QueueMarksExact, HeldOnce
<1>8. \A u \in Tasks : InQueue(u)' <=> InQueue(u) /\ u # t
  <2>1. ASSUME NEW u \in Tasks, NEW i \in DOMAIN queue', queue'[i] = u
        PROVE  InQueue(u) /\ u # t
    <3>1. i + 1 \in DOMAIN queue /\ queue[i + 1] = u /\ i + 1 # 1
      BY <1>6, <2>1
    <3>2. QED
      BY <1>7, <3>1 DEF InQueue
  <2>2. ASSUME NEW u \in Tasks, NEW i \in DOMAIN queue, queue[i] = u, u # t
        PROVE  i - 1 \in DOMAIN queue' /\ queue'[i - 1] = u
    BY <1>6, <2>2
  <2>3. QED
    BY <2>1, <2>2 DEF InQueue
<1>9. MarkedIffHeld'
  <2>1. ASSUME NEW u \in Tasks
        PROVE  u \in enqueued' <=> \/ \E d \in Callers : Sending(d, u)'
                                   \/ \E v \in Workers : Received(v, u)'
                                   \/ InQueue(u)'
    <3>1. u \in enqueued <=> \/ \E d \in Callers : Sending(d, u)
                             \/ \E v \in Workers : Received(v, u)
                             \/ InQueue(u)
      BY DEF QueueMarksExact, MarkedIffHeld, InQueue
    <3>2. (\E v \in Workers : Received(v, u)') <=> (\E v \in Workers : Received(v, u)) \/ u = t
      BY <1>4, <1>5
    <3>3. InQueue(t)
      <4>1. 1 \in DOMAIN queue /\ queue[1] = t
        BY <1>6
      <4>2. QED
        BY <4>1 DEF InQueue
    <3>4. InQueue(u)' <=> InQueue(u) /\ u # t
      BY <1>8
    <3>5. InQueue(u)' \/ u = t <=> InQueue(u)
      BY <3>3, <3>4
    <3>6. QED
      BY <1>2, <1>3, <3>1, <3>2, <3>5
  <2>2. QED
    BY <2>1 DEF MarkedIffHeld, InQueue
<1>10. HeldOnce'
  <2>1. \A d1, d2 \in Callers, u \in Tasks : Sending(d1, u)' /\ Sending(d2, u)' => d1 = d2
    BY <1>3 DEF QueueMarksExact, HeldOnce
  <2>2. \A v1, v2 \in Workers, u \in Tasks : Received(v1, u)' /\ Received(v2, u)' => v1 = v2
    BY <1>4, <1>7 DEF QueueMarksExact, HeldOnce
  <2>3. \A i, j \in DOMAIN queue' : queue'[i] = queue'[j] => i = j
    <3>1. TAKE i, j \in DOMAIN queue'
    <3>2. /\ i + 1 \in DOMAIN queue /\ j + 1 \in DOMAIN queue
          /\ queue'[i] = queue[i + 1] /\ queue'[j] = queue[j + 1]
      BY <1>6
    <3>3. queue[i + 1] = queue[j + 1] => i + 1 = j + 1
      BY <3>2 DEF QueueMarksExact, HeldOnce
    <3>4. QED
      BY <1>6, <3>2, <3>3
  <2>4. \A d \in Callers, v \in Workers, u \in Tasks : ~(Sending(d, u)' /\ Received(v, u)')
    BY <1>3, <1>4, <1>7 DEF QueueMarksExact, HeldOnce
  <2>5. \A d \in Callers, u \in Tasks : Sending(d, u)' => ~InQueue(u)'
    BY <1>3, <1>8 DEF QueueMarksExact, HeldOnce, InQueue
  <2>6. \A v \in Workers, u \in Tasks : Received(v, u)' => ~InQueue(u)'
    <3>1. \A v \in Workers, u \in Tasks : Received(v, u) => ~InQueue(u)
      BY DEF QueueMarksExact, HeldOnce, InQueue
    <3>2. QED
      BY <1>4, <1>8, <3>1
  <2>7. \A i \in DOMAIN queue' : queue'[i] \in Tasks
    <3>1. TAKE i \in DOMAIN queue'
    <3>2. i + 1 \in DOMAIN queue /\ queue'[i] = queue[i + 1]
      BY <1>6
    <3>3. QED
      BY <1>6, <3>2
  <2>8. QED
    BY <2>1, <2>2, <2>3, <2>4, <2>5, <2>6, <2>7 DEF HeldOnce, InQueue
<1>11. QED
  BY <1>9, <1>10 DEF QueueMarksExact

\* Worker w removes the mark it received.
LEMMA ClearMarks ==
  ASSUME TypeInv, QueueMarksExact, NEW w \in Workers, ClearEnqueued(w)
  PROVE  QueueMarksExact'
<1>1. PICK t \in Tasks : t = job[w]
  BY DEF ClearEnqueued, Step, TypeInv, WorkersOK
<1>2. /\ UNCHANGED <<queue, phase, picked, job>> /\ enqueued' = enqueued \ {t}
      /\ pc[w] = "taken" /\ pc'[w] = "start"
      /\ \A v \in Workers \ {w} : pc'[v] = pc[v]
  BY <1>1 DEF ClearEnqueued, Step, callers, TypeInv, WorkersOK
<1>3. \A d \in Callers, u \in Tasks : Sending(d, u)' <=> Sending(d, u)
  BY <1>2 DEF Sending, Item
<1>4. /\ \A v \in Workers \ {w}, u \in Tasks : Received(v, u)' <=> Received(v, u)
      /\ \A u \in Tasks : ~Received(w, u)' /\ (Received(w, u) <=> u = t)
  BY <1>1, <1>2 DEF Received
<1>5. /\ \A d \in Callers : ~Sending(d, t)
      /\ \A v \in Workers : Received(v, t) => v = w
      /\ \A i \in DOMAIN queue : queue[i] # t
  BY <1>4 DEF QueueMarksExact, HeldOnce
<1>6. MarkedIffHeld'
  <2>1. ASSUME NEW u \in Tasks
        PROVE  u \in enqueued' <=> \/ \E d \in Callers : Sending(d, u)'
                                   \/ \E v \in Workers : Received(v, u)'
                                   \/ InQueue(u)
    <3>1. u \in enqueued <=> \/ \E d \in Callers : Sending(d, u)
                             \/ \E v \in Workers : Received(v, u)
                             \/ InQueue(u)
      BY DEF QueueMarksExact, MarkedIffHeld, InQueue
    <3>2. (\E v \in Workers : Received(v, u)') <=> (\E v \in Workers : Received(v, u)) /\ u # t
      BY <1>4, <1>5
    <3>3. u = t => ~InQueue(u) /\ \A d \in Callers : ~Sending(d, u)
      BY <1>5 DEF InQueue
    <3>4. QED
      BY <1>2, <1>3, <3>1, <3>2, <3>3
  <2>2. QED
    BY <1>2, <2>1 DEF MarkedIffHeld, InQueue
<1>7. HeldOnce'
  <2>1. \A i \in DOMAIN queue : queue[i] \in Tasks
    BY ElementOfSeq DEF TypeInv, SharedOK
  <2>2. \A v \in Workers, u \in Tasks : Received(v, u)' => Received(v, u)
    BY <1>4
  <2>3. QED
    BY <1>2, <1>3, <2>1, <2>2 DEF QueueMarksExact, HeldOnce
<1>8. QED
  BY <1>6, <1>7 DEF QueueMarksExact

\* Every step keeps the marks exact.
LEMMA MarksStep ==
  TypeInv /\ AttemptInv /\ FreshInv /\ QueueMarksExact /\ [Next]_vars => QueueMarksExact'
<1> SUFFICES ASSUME TypeInv, AttemptInv, FreshInv, QueueMarksExact, [Next]_vars
             PROVE  QueueMarksExact'
  OBVIOUS
<1>1. ASSUME NEW t \in Tasks, Submit(t)  PROVE QueueMarksExact'
  <2>1. /\ phase[Request(t)] = "none"
        /\ phase' = [phase EXCEPT ![Request(t)] = "mark"]
        /\ UNCHANGED <<queue, enqueued, picked, pc, job>>
    BY <1>1 DEF Submit, FreshInv, shared, workers
  <2>2. \A c \in Callers, u \in Tasks : Sending(c, u)' <=> Sending(c, u)
    BY <2>1 DEF Sending, Item, TypeInv, CallersOK
  <2>3. QED
    BY <2>1, <2>2, MarksKept DEF Received
<1>2. ASSUME NEW w \in Workers, Report(w)  PROVE QueueMarksExact'
  <2>1. PICK t \in Tasks : t = job[w] /\ InAttempt(w, t)
    BY <1>2 DEF Report, TypeInv, WorkersOK, InAttempt
  <2>2. UNCHANGED <<queue, enqueued, picked>>
    BY <1>2 DEF Report, shared
  <2>3. \A v \in Workers, u \in Tasks : Received(v, u)' <=> Received(v, u)
    BY <1>2 DEF Report, Leave, Received, TypeInv, WorkersOK
  <2>4. \A c \in Callers, u \in Tasks : Sending(c, u)' <=> Sending(c, u)
    <3>1. CASE phase' = phase
      BY <2>2, <3>1 DEF Sending, Item
    <3>2. CASE ShouldRetry(w) /\ phase' = [phase EXCEPT ![Timer(t, tries[w])] = "sleep"]
      <4>1. tries[w] = attempt[t] /\ attempt[t] \in Nat
        BY <2>1 DEF AttemptInv, AttemptOwned, TypeInv, StoreOK
      <4>2. ASSUME Timer(t, tries[w]) \in Callers
            PROVE  phase[Timer(t, tries[w])] = "none"
        <5>1. tries[w] \in 1..MaxRetries[t]
          <6>1. Timer(t, tries[w]) \in Timers
            BY <4>2 DEF Callers, Requests, Request, Timer, Reconciler
          <6>2. PICK u \in Tasks : Timer(t, tries[w]) \in {Timer(u, k) : k \in 1..MaxRetries[u]}
            BY <6>1 DEF Timers
          <6>3. PICK k \in 1..MaxRetries[u] : Timer(t, tries[w]) = Timer(u, k)
            BY <6>2
          <6>4. QED
            BY <6>3 DEF Timer
        <5>2. QED
          BY <2>1, <4>1, <5>1 DEF FreshInv
      <4>3. \A c \in Callers : phase'[c] # phase[c] => phase[c] = "none" /\ phase'[c] = "sleep"
        BY <3>2, <4>2 DEF TypeInv, CallersOK
      <4>4. QED
        BY <2>2, <4>3 DEF Sending, Item
    <3>3. QED
      BY <1>2, <2>1, <3>1, <3>2 DEF Report, Retries
  <2>5. QED
    BY <2>2, <2>3, <2>4, MarksKept
<1>3. ASSUME NEW S \in SUBSET Tasks, Reconcile(S)  PROVE QueueMarksExact'
  <2>1. /\ phase[Reconciler] = "none" /\ phase'[Reconciler] = "mark"
        /\ \A c \in Callers \ {Reconciler} : phase'[c] = phase[c]
        /\ UNCHANGED <<queue, enqueued, pc, job>>
    BY <1>3, CallerFacts DEF Reconcile, NextItem, shared, workers, TypeInv, CallersOK
  <2>2. \A c \in Callers \ {Reconciler} : c.kind # "reconciler"
    BY CallerFacts
  <2>3. \A c \in Callers, u \in Tasks : Sending(c, u)' <=> Sending(c, u)
    BY <2>1, <2>2 DEF Sending, Item
  <2>4. QED
    BY <2>1, <2>3, MarksKept DEF Received
<1>4. ASSUME NEW c \in Callers, ContextDone(c) \/ Refuse(c) \/ TimerFires(c)
      PROVE  QueueMarksExact'
  <2>1. /\ UNCHANGED <<queue, enqueued, pc, job, picked>>
        /\ \/ phase[c] = "send" /\ phase'[c] = "drop"
           \/ phase[c] \in {"refuse", "sleep"} /\ phase'[c] \in {"refused", "none", "mark"}
        /\ \A d \in Callers \ {c} : phase'[d] = phase[d]
    BY <1>4 DEF ContextDone, Refuse, TimerFires, Goto, shared, workers, TypeInv, CallersOK
  <2>2. \A d \in Callers, u \in Tasks : Sending(d, u)' <=> Sending(d, u)
    BY <2>1 DEF Sending, Item
  <2>3. QED
    BY <2>1, <2>2, MarksKept DEF Received
<1>5. ASSUME NEW w \in Workers,
             \/ Start(w) \/ AcquireNode(w) \/ NoNode(w) \/ Finish(w)
             \/ \E o \in Outcome : ExecutionEnds(w, o)
             \/ \E d \in Domains : ExecutionBlocked(w, d)
      PROVE  QueueMarksExact'
  <2>1. UNCHANGED <<queue, enqueued, phase, picked>>
    BY <1>5 DEF Start, AcquireNode, NoNode, Finish, ExecutionEnds, ExecutionBlocked,
                shared, callers
  <2>2. \A v \in Workers, u \in Tasks : Received(v, u)' <=> Received(v, u)
    BY <1>5 DEF Start, AcquireNode, NoNode, Finish, ExecutionEnds, ExecutionBlocked, Leave,
                Step, Received, TypeInv, WorkersOK
  <2>3. QED
    BY <2>1, <2>2, MarksKept DEF Sending, Item
<1>6. CASE \/ \E t \in Tasks : RetryDue(t) \/ CancelStep(t)
           \/ \E d \in Domains : CooldownEnds(d)
           \/ UNCHANGED vars
  <2>1. UNCHANGED <<queue, enqueued, phase, picked, pc, job>>
    BY <1>6 DEF RetryDue, CancelStep, CancelRead, CancelSignal, CancelStore, CooldownEnds,
                vars, shared, callers, workers
  <2>2. QED
    BY <2>1, MarksKept DEF Sending, Item, Received
<1>7. CASE Crash
  <2>1. queue' = << >> /\ enqueued' = {}
    BY <1>7 DEF Crash
  <2>2. \A c \in Callers, t \in Tasks : ~Sending(c, t)'
    BY <1>7 DEF Crash, Sending
  <2>3. \A w \in Workers, t \in Tasks : ~Received(w, t)'
    BY <1>7 DEF Crash, Received
  <2>4. MarkedIffHeld'
    BY <2>1, <2>2, <2>3 DEF MarkedIffHeld
  <2>5. HeldOnce'
    BY <2>1, <2>2, <2>3 DEF HeldOnce
  <2>6. QED
    BY <2>4, <2>5 DEF QueueMarksExact
<1>8. QED
  BY <1>1, <1>2, <1>3, <1>4, <1>5, <1>6, <1>7, MarkMarks, SendMarks, UnmarkMarks, TakeMarks,
     ClearMarks DEF Next, EnqueueStep, WorkerStep

\* The `enqueued` set and the channel never disagree: no mark is leaked and no
\* task is in the channel twice, however Enqueue, the workers and crashes
\* interleave.
THEOREM MarksExact == Spec => []QueueMarksExact
<1>1. Init => TypeInv /\ AttemptInv /\ FreshInv /\ QueueMarksExact
  BY TypeInit, AttemptInit, FreshInit, MarksInit
<1>2. TypeInv /\ AttemptInv /\ FreshInv /\ QueueMarksExact /\ [Next]_vars =>
        (TypeInv /\ AttemptInv /\ FreshInv /\ QueueMarksExact)'
  BY TypeStep, AttemptStep, FreshStep, MarksStep
<1>3. QED
  BY <1>1, <1>2, PTL DEF Spec
=============================================================================
