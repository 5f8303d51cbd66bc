----------------------- MODULE TaskRunner_refinement -----------------------
(***************************************************************************)
(* With room for every task in the channel the runner implements           *)
(* TaskLifecycle: proved here for every finite set of tasks that fits, all *)
(* workers, retries and crashes.  Room matters because a refused dispatch  *)
(* fails its task whatever the workers make of it in the meantime.         *)
(***************************************************************************)
EXTENDS TaskRunner_proofs, FiniteSetTheorems

\* The channel has room for every task (QueueSize against the open tasks).
Roomy == IsFiniteSet(Tasks) /\ Cardinality(Tasks) <= QueueSize

-----------------------------------------------------------------------------
(* What room adds to the inductive invariant                               *)

\* Enqueue never answers that the queue is full.
NoRefusal == \A c \in Callers : phase[c] \notin {"unmark", "refuse", "refused"}

\* A worker's attempt is the one the store knows of, unless it was canceled.
RunningHeld ==
  \A t \in Tasks, w \in Workers : InAttempt(w, t) => status[t] \in {"running", "canceled"}

\* Only a cancel request cancels a task, and it answers what the store says.
CancelExact ==
  \A t \in Tasks : /\ cancel[t] # "none" => status[t] # "absent"
                   /\ cancel[t] = "ok" <=> status[t] = "canceled"
                   /\ cancel[t] = "conflict" => status[t] \in {"completed", "failed"}

Base    == TypeInv /\ AttemptInv /\ FreshInv /\ QueueMarksExact
RoomInv == Base /\ NoRefusal /\ RunningHeld /\ CancelExact

\* The marks make the entries of the channel distinct and different from the
\* task about to be sent, so that there is a slot for it.
LEMMA HasRoom ==
  ASSUME Roomy, TypeInv, QueueMarksExact, NEW c \in Callers, phase[c] = "send"
  PROVE  Len(queue) < QueueSize
<1> DEFINE t == Item(c)
           Rest == Tasks \ {t}
<1>1. t \in Tasks
  BY ItemIsTask DEF TypeInv
<1>2. Sending(c, t)
  BY DEF Sending
<1>3. queue \in Seq(Tasks) /\ Len(queue) \in Nat /\ DOMAIN queue = 1..Len(queue)
  BY LenProperties DEF TypeInv, SharedOK
<1>4. \A i \in DOMAIN queue : queue[i] \in Rest
  BY <1>2, <1>3, ElementOfSeq DEF QueueMarksExact, HeldOnce
<1>5. queue \in [1..Len(queue) -> Rest]
  BY <1>3, <1>4
<1>6. queue \in Injection(1..Len(queue), Rest)
  BY <1>3, <1>5 DEF Injection, IsInjective, QueueMarksExact, HeldOnce
<1>7. IsFiniteSet(Rest) /\ Cardinality(Rest) = Cardinality(Tasks) - 1
  BY <1>1, FS_RemoveElement DEF Roomy
<1>8. Cardinality(1..Len(queue)) <= Cardinality(Rest)
  BY <1>6, <1>7, FS_Injection
<1>9. Cardinality(1..Len(queue)) = Len(queue)
  BY <1>3, FS_Interval
<1>10. Cardinality(Tasks) \in Nat /\ QueueSize \in Nat
  BY FS_CardinalityType, ConstantsAssumption DEF Roomy
<1>11. QED
  BY <1>3, <1>7, <1>8, <1>9, <1>10 DEF Roomy

-----------------------------------------------------------------------------
(* Every step keeps RoomInv                                                *)

\* A send that finds room leaves Enqueue with nil; nobody else refuses.
LEMMA NoRefusalStep ==
  ASSUME Roomy, RoomInv, [Next]_vars
  PROVE  NoRefusal'
<1> USE DEF RoomInv, Base
<1>1. ASSUME NEW c \in Callers, Send(c)  PROVE NoRefusal'
  <2>1. Accepted(c, Item(c))
    BY <1>1, HasRoom DEF Send
  <2>2. QED
    BY <2>1, CallerFacts DEF Accepted, Goto, NextItem, NoRefusal, TypeInv, CallersOK
<1>2. ASSUME NEW c \in Callers, NEW t \in Tasks, Mark(c, t)  PROVE NoRefusal'
  BY <1>2, CallerFacts DEF Mark, Accepted, Goto, NextItem, NoRefusal, TypeInv, CallersOK
<1>3. ASSUME NEW c \in Callers, ContextDone(c) \/ Unmark(c) \/ Refuse(c) \/ TimerFires(c)
      PROVE  NoRefusal'
  <2>1. Unmark(c) => phase[c] = "drop" /\ Dropped(c, Item(c))
    BY DEF Unmark, NoRefusal
  <2>2. ~Refuse(c)
    BY DEF Refuse, NoRefusal
  <2>3. QED
    BY <1>3, <2>1, <2>2, CallerFacts
    DEF ContextDone, TimerFires, Dropped, Goto, NextItem, NoRefusal, TypeInv, CallersOK
<1>4. ASSUME NEW t \in Tasks, Submit(t)  PROVE NoRefusal'
  BY <1>4 DEF Submit, NoRefusal, TypeInv, CallersOK
<1>5. ASSUME NEW S \in SUBSET Tasks, Reconcile(S)  PROVE NoRefusal'
  BY <1>5 DEF Reconcile, NextItem, NoRefusal, TypeInv, CallersOK
<1>6. ASSUME NEW w \in Workers, Report(w)  PROVE NoRefusal'
  BY <1>6 DEF Report, NoRefusal, TypeInv, CallersOK
<1>7. CASE Crash
  BY <1>7 DEF Crash, NoRefusal
<1>8. CASE \/ \E t \in Tasks : RetryDue(t) \/ CancelStep(t)
           \/ \E w \in Workers : \/ Take(w) \/ ClearEnqueued(w) \/ Start(w) \/ AcquireNode(w)
                                 \/ NoNode(w) \/ Finish(w)
                                 \/ \E o \in Outcome : ExecutionEnds(w, o)
                                 \/ \E d \in Domains : ExecutionBlocked(w, d)
           \/ \E d \in Domains : CooldownEnds(d)
           \/ UNCHANGED vars
  <2>1. UNCHANGED phase
    BY <1>8 DEF RetryDue, CancelStep, CancelRead, CancelSignal, CancelStore, Take,
                ClearEnqueued, Start, AcquireNode, NoNode, Finish, ExecutionEnds,
                ExecutionBlocked, CooldownEnds, vars, callers
  <2>2. QED
    BY <2>1 DEF NoRefusal
<1>9. QED
  BY <1>1, <1>2, <1>3, <1>4, <1>5, <1>6, <1>7, <1>8 DEF Next, EnqueueStep, WorkerStep

\* The four writers of the store, and what the others leave alone.
LEMMA StoreWriters ==
  ASSUME RoomInv, [Next]_vars
  PROVE  \/ \E t \in Tasks : Submit(t) \/ CancelStore(t)
         \/ \E w \in Workers : Start(w) /\ Startable(job[w])
         \/ \E w \in Workers : Report(w)
         \/ UNCHANGED <<status, attempt>>
<1>1. \A c \in Callers : ~Refuse(c)
  BY DEF RoomInv, NoRefusal, Refuse
<1>2. \A w \in Workers : Start(w) => Startable(job[w]) \/ UNCHANGED <<status, attempt>>
  BY DEF Start, store
<1>3. ASSUME \A t \in Tasks : ~Submit(t) /\ ~CancelStore(t),
             \A w \in Workers : ~Start(w) /\ ~Report(w)
      PROVE  UNCHANGED <<status, attempt>>
  BY <1>1, <1>3
  DEF Next, EnqueueStep, WorkerStep, CancelStep, RetryDue, CancelRead, CancelSignal, Mark,
      Send, ContextDone, Unmark, TimerFires, Reconcile, Take, ClearEnqueued, AcquireNode,
      NoNode, ExecutionEnds, ExecutionBlocked, Finish, CooldownEnds, Crash, vars, store
<1>4. QED
  BY <1>2, <1>3
\* While a worker has an attempt nobody fails or queues its task.
LEMMA RunningHeldStep ==
  ASSUME RoomInv, [Next]_vars
  PROVE  RunningHeld'
<1> USE DEF RoomInv, Base
<1>1. ASSUME NEW t \in Tasks, Submit(t)  PROVE RunningHeld'
  <2>1. /\ status[t] = "absent" /\ \A u \in Tasks \ {t} : status'[u] = status[u]
        /\ UNCHANGED <<pc, job>>
    BY <1>1 DEF Submit, workers, TypeInv, StoreOK
  <2>2. QED
    BY <2>1 DEF RunningHeld, InAttempt
<1>2. ASSUME NEW t \in Tasks, CancelStore(t)  PROVE RunningHeld'
  <2>1. \A u \in Tasks : status'[u] \in {status[u], "canceled"}
    BY <1>2 DEF CancelStore, StoreCancel, store, TypeInv, StoreOK
  <2>2. QED
    BY <1>2, <2>1 DEF CancelStore, workers, RunningHeld, InAttempt
<1>3. ASSUME NEW w \in Workers, Start(w), Startable(job[w])  PROVE RunningHeld'
  <2>1. /\ job[w] \in Tasks /\ UNCHANGED job
        /\ status'[job[w]] = "running"
        /\ \A u \in Tasks \ {job[w]} : status'[u] = status[u]
        /\ \A v \in Workers \ {w} : pc'[v] = pc[v]
    BY <1>3 DEF Start, Step, StoreStart, TypeInv, StoreOK, WorkersOK
  <2>2. QED
    BY <2>1 DEF RunningHeld, InAttempt
<1>4. ASSUME NEW w \in Workers, Report(w)  PROVE RunningHeld'
  <2>1. PICK t \in Tasks : t = job[w] /\ InAttempt(w, t)
    BY <1>4 DEF Report, TypeInv, WorkersOK, InAttempt
  <2>2. \A v \in Workers, u \in Tasks : InAttempt(v, u)' => v # w /\ InAttempt(v, u)
    BY <1>4 DEF Report, Leave, InAttempt, TypeInv, WorkersOK
  <2>3. \A v \in Workers : InAttempt(v, t) => v = w
    BY <2>1 DEF AttemptInv, OneAttemptAtATime
  <2>4. \A u \in Tasks \ {t} : status'[u] = status[u]
    BY <1>4, <2>1 DEF Report, StoreFinish, StoreRetry, TypeInv, StoreOK
  <2>5. QED
    BY <2>2, <2>3, <2>4 DEF RunningHeld
<1>5. ASSUME UNCHANGED <<status, attempt>>,
             \A w \in Workers : ~(Start(w) /\ Startable(job[w])) /\ ~Report(w)
      PROVE  RunningHeld'
  <2>1. \A v \in Workers, u \in Tasks : InAttempt(v, u)' => InAttempt(v, u)
    <3>1. ASSUME NEW w \in Workers, WorkerStep(w)
          PROVE  \A v \in Workers, u \in Tasks : InAttempt(v, u)' => InAttempt(v, u)
      BY <1>5, <3>1
      DEF WorkerStep, Take, ClearEnqueued, Start, AcquireNode, NoNode, ExecutionEnds,
          ExecutionBlocked, Finish, Leave, Step, InAttempt, TypeInv, WorkersOK
    <3>2. CASE Crash
      BY <3>2 DEF Crash, InAttempt
    <3>3. CASE \/ \E t \in Tasks : Submit(t) \/ RetryDue(t) \/ CancelStep(t)
               \/ \E c \in Callers : EnqueueStep(c)
               \/ \E S \in SUBSET Tasks : Reconcile(S)
               \/ \E d \in Domains : CooldownEnds(d)
               \/ UNCHANGED vars
      <4>1. UNCHANGED <<pc, job>>
        BY <3>3 DEF Submit, RetryDue, CancelStep, CancelRead, CancelSignal, CancelStore,
                    EnqueueStep, Mark, Send, ContextDone, Unmark, Refuse, TimerFires,
                    Reconcile, CooldownEnds, vars, workers
      <4>2. QED
        BY <4>1 DEF InAttempt
    <3>4. QED
      BY <3>1, <3>2, <3>3 DEF Next
  <2>2. QED
    BY <1>5, <2>1 DEF RunningHeld
<1>6. QED
  BY <1>1, <1>2, <1>3, <1>4, <1>5, StoreWriters

\* A cancel request for task t that does not answer, if it moves at all.
UnansweredMove(t) ==
  \/ cancel'[t] = cancel[t]
  \/ /\ {cancel[t], cancel'[t]} \cap {"ok", "conflict"} = {}
     /\ cancel[t] # "none" \/ status[t] # "absent"

\* A step that is no cancel request writing the store.
LEMMA CancelKept ==
  ASSUME CancelExact,
         \A t \in Tasks :
           /\ UnansweredMove(t)
           /\ status[t] # "absent" => status'[t] # "absent"
           /\ status'[t] = "canceled" <=> status[t] = "canceled"
           /\ status[t] \in {"completed", "failed"} => status'[t] \in {"completed", "failed"}
  PROVE  CancelExact'
BY DEF CancelExact, UnansweredMove

\* The cancel requests that do not write the store answer nothing.
LEMMA CancelMoves ==
  ASSUME TypeInv, [Next]_vars, \A t \in Tasks : ~CancelStore(t), NEW t \in Tasks
  PROVE  UnansweredMove(t)
<1>1. ASSUME NEW u \in Tasks, CancelRead(u) \/ CancelSignal(u)
      PROVE  UnansweredMove(t)
  BY <1>1 DEF CancelRead, CancelSignal, TypeInv, CancelOK, UnansweredMove
<1>2. CASE Crash
  BY <1>2 DEF Crash, TypeInv, CancelOK, UnansweredMove
<1>3. ASSUME ~Crash, \A u \in Tasks : ~CancelRead(u) /\ ~CancelSignal(u)
      PROVE  UNCHANGED cancel
  BY <1>3
  DEF Next, Submit, RetryDue, CancelStep, EnqueueStep, WorkerStep, Mark, Send, ContextDone,
      Unmark, Refuse, TimerFires, Reconcile, Take, ClearEnqueued, Start, AcquireNode, NoNode,
      ExecutionEnds, ExecutionBlocked, Report, Finish, CooldownEnds, vars
<1>4. QED
  BY <1>1, <1>2, <1>3 DEF UnansweredMove

\* What a report makes of the task's status, while the attempt is held.
LEMMA ReportMoves ==
  ASSUME RoomInv, NEW w \in Workers, Report(w)
  PROVE  \E t \in Tasks :
           /\ attempt' = attempt
           /\ \/ UNCHANGED status
              \/ /\ status[t] = "running"
                 /\ \/ status' = [status EXCEPT ![t] = "completed"]
                    \/ status' = [status EXCEPT ![t] = "failed"]
                    \/ status' = [status EXCEPT ![t] = "queued"] /\ attempt[t] <= MaxRetries[t]
<1> USE DEF RoomInv, Base
<1>1. PICK t \in Tasks : t = job[w] /\ InAttempt(w, t)
  BY DEF Report, TypeInv, WorkersOK, InAttempt
<1>2. status[t] \in {"running", "canceled"} /\ tries[w] = attempt[t]
  BY <1>1 DEF RunningHeld, AttemptInv, AttemptOwned
<1>3. \/ StoreFinish(t, "completed") \/ StoreFinish(t, "failed")
      \/ Retries(w) /\ StoreRetry(t)
  BY <1>1 DEF Report
<1>4. Retries(w) => status[t] # "canceled" /\ attempt[t] <= MaxRetries[t]
  BY <1>1, <1>2 DEF Retries, ShouldRetry
<1>5. QED
  BY <1>2, <1>3, <1>4 DEF StoreFinish, StoreRetry

\* The answers of cancel requests stay true.
LEMMA CancelExactStep ==
  ASSUME RoomInv, [Next]_vars
  PROVE  CancelExact'
<1> USE DEF RoomInv, Base
<1>1. ASSUME NEW t \in Tasks, CancelStore(t)  PROVE CancelExact'
  <2>1. CASE status[t] \in Terminal
    <3>1. /\ cancel[t] = "store" /\ status[t] \in {"completed", "failed"}
          /\ cancel' = [cancel EXCEPT ![t] = "conflict"] /\ UNCHANGED status
      BY <1>1, <2>1 DEF CancelStore, CancelExact, Terminal, store
    <3>2. QED
      BY <3>1 DEF CancelExact, TypeInv, CancelOK
  <2>2. CASE status[t] \notin Terminal
    <3>1. /\ cancel' = [cancel EXCEPT ![t] = "ok"]
          /\ status' = [status EXCEPT ![t] = "canceled"]
      BY <1>1, <2>2 DEF CancelStore, StoreCancel
    <3>2. QED
      BY <3>1 DEF CancelExact, TypeInv, CancelOK, StoreOK
  <2>3. QED
    BY <2>1, <2>2
<1>2. ASSUME \A t \in Tasks : ~CancelStore(t)  PROVE CancelExact'
  <2>1. \A t \in Tasks : /\ status[t] # "absent" => status'[t] # "absent"
                         /\ status'[t] = "canceled" <=> status[t] = "canceled"
                         /\ status[t] \in {"completed", "failed"} =>
                              status'[t] \in {"completed", "failed"}
    <3>1. ASSUME NEW u \in Tasks, Submit(u)
          PROVE  \A t \in Tasks \ {u} : status'[t] = status[t]
      BY <3>1 DEF Submit, TypeInv, StoreOK
    <3>2. ASSUME NEW u \in Tasks, Submit(u)
          PROVE  status[u] = "absent" /\ status'[u] = "queued"
      BY <3>2 DEF Submit, TypeInv, StoreOK
    <3>3. ASSUME NEW w \in Workers, Start(w), Startable(job[w])
          PROVE  \E u \in Tasks : /\ status[u] = "queued" /\ status'[u] = "running"
                                  /\ \A t \in Tasks \ {u} : status'[t] = status[t]
      BY <3>3 DEF Start, Startable, StoreStart, TypeInv, StoreOK, WorkersOK
    <3>4. ASSUME NEW w \in Workers, Report(w)
          PROVE  \A t \in Tasks : \/ status'[t] = status[t]
                                  \/ /\ status[t] = "running"
                                     /\ status'[t] \in {"completed", "failed", "queued"}
      BY <3>4, ReportMoves DEF TypeInv, StoreOK
    <3>5. QED
      BY <1>2, <3>1, <3>2, <3>3, <3>4, StoreWriters
  <2>2. QED
    BY <1>2, <2>1, CancelMoves, CancelKept
<1>3. QED
  BY <1>1, <1>2

\* RoomInv holds at first, and every step keeps it.
LEMMA RoomInit == Init => RoomInv
<1>1. Init => Base
  BY TypeInit, AttemptInit, FreshInit, MarksInit DEF Base
<1>2. Init => NoRefusal /\ RunningHeld /\ CancelExact
  BY DEF Init, NoRefusal, RunningHeld, InAttempt, CancelExact
<1>3. QED
  BY <1>1, <1>2 DEF RoomInv

LEMMA RoomStep == Roomy /\ RoomInv /\ [Next]_vars => RoomInv'
<1> SUFFICES ASSUME Roomy, RoomInv, [Next]_vars  PROVE RoomInv'
  OBVIOUS
<1>1. Base'
  BY TypeStep, AttemptStep, FreshStep, MarksStep DEF RoomInv, Base
<1>2. QED
  BY <1>1, NoRefusalStep, RunningHeldStep, CancelExactStep DEF RoomInv

LEMMA RoomInvariant == ASSUME Roomy PROVE Spec => []RoomInv
<1>1. RoomInv /\ [Next]_vars => RoomInv'
  BY RoomStep
<1>2. QED
  BY <1>1, RoomInit, PTL DEF Spec

\* With room in the channel the answer to a cancel request stays true for ever,
\* whatever workers, timers, the reconciler and crashes do after it.
THEOREM AnswersStand == ASSUME Roomy PROVE Spec => []CancelAnswerStands
<1>1. RoomInv => CancelAnswerStands
  BY DEF RoomInv, CancelExact, CancelAnswerStands
<1>2. QED
  BY <1>1, RoomInvariant, PTL

-----------------------------------------------------------------------------
(* The refinement                                                          *)

\* The four writers of the store take the steps of the lifecycle.
LEMMA LifecycleStep == RoomInv /\ [Next]_vars => [Lifecycle!Next]_(Lifecycle!lifecycle)
<1> SUFFICES ASSUME RoomInv, [Next]_vars
             PROVE  Lifecycle!Next \/ UNCHANGED <<status, attempt>>
  BY DEF Lifecycle!lifecycle
<1> USE DEF RoomInv, Base
<1>1. ASSUME NEW t \in Tasks, Submit(t)  PROVE Lifecycle!Next
  <2>1. Lifecycle!Create(t)
    BY <1>1 DEF Submit, Lifecycle!Create, Lifecycle!Becomes
  <2>2. QED
    BY <2>1 DEF Lifecycle!Next
<1>2. ASSUME NEW t \in Tasks, CancelStore(t)
      PROVE  Lifecycle!Next \/ UNCHANGED <<status, attempt>>
  <2>1. CASE status[t] \in Terminal
    BY <1>2, <2>1 DEF CancelStore, store
  <2>2. CASE status[t] \notin Terminal
    <3>1. cancel[t] = "store" /\ StoreCancel(t)
      BY <1>2, <2>2 DEF CancelStore
    <3>2. status[t] # "absent"
      BY <3>1 DEF CancelExact
    <3>3. status[t] \in {"queued", "running"}
      BY <2>2, <3>2 DEF TypeInv, StoreOK, Status
    <3>4. Lifecycle!Cancel(t)
      BY <3>1, <3>3 DEF StoreCancel, Lifecycle!Cancel, Lifecycle!Becomes
    <3>5. QED
      BY <3>4 DEF Lifecycle!Next
  <2>3. QED
    BY <2>1, <2>2
<1>3. ASSUME NEW w \in Workers, Start(w), Startable(job[w])  PROVE Lifecycle!Next
  <2>1. PICK t \in Tasks : t = job[w]
    BY <1>3 DEF Start, TypeInv, WorkersOK
  <2>2. status[t] = "queued" /\ attempt[t] <= MaxRetries[t] /\ StoreStart(t)
    BY <1>3, <2>1 DEF Start, Startable, AttemptInv, AttemptLeft
  <2>3. Lifecycle!Start(t)
    BY <2>2 DEF StoreStart, Lifecycle!Start, Lifecycle!Becomes
  <2>4. QED
    BY <2>3 DEF Lifecycle!Next
<1>4. ASSUME NEW w \in Workers, Report(w)
      PROVE  Lifecycle!Next \/ UNCHANGED <<status, attempt>>
  <2>1. PICK t \in Tasks :
           /\ attempt' = attempt
           /\ \/ UNCHANGED status
              \/ /\ status[t] = "running"
                 /\ \/ status' = [status EXCEPT ![t] = "completed"]
                    \/ status' = [status EXCEPT ![t] = "failed"]
                    \/ status' = [status EXCEPT ![t] = "queued"] /\ attempt[t] <= MaxRetries[t]
    BY <1>4, ReportMoves
  <2>2. \/ Lifecycle!Complete(t) \/ Lifecycle!Fail(t) \/ Lifecycle!Retry(t)
        \/ UNCHANGED <<status, attempt>>
    BY <2>1 DEF Lifecycle!Complete, Lifecycle!Fail, Lifecycle!Retry, Lifecycle!Becomes
  <2>3. QED
    BY <2>2 DEF Lifecycle!Next
<1>5. QED
  BY <1>1, <1>2, <1>3, <1>4, StoreWriters

\* With room in the channel the runner implements the task lifecycle: the store
\* maps to itself, every other variable is an implementation's.
THEOREM ImplementsLifecycle == ASSUME Roomy PROVE Spec => LifecycleSpec
<1>1. Init => Lifecycle!Init
  BY DEF Init, Lifecycle!Init
<1>2. RoomInv /\ [Next]_vars => [Lifecycle!Next]_(Lifecycle!lifecycle)
  BY LifecycleStep
<1>3. QED
  BY <1>1, <1>2, RoomInvariant, PTL DEF Spec, LifecycleSpec, Lifecycle!Spec
=============================================================================
