----------------------------- MODULE ApiServer -----------------------------
(***************************************************************************)
(* The task and session handlers of the API (src/internal/api/tasks.go,    *)
(* sessions.go) over the two PostgreSQL stores.  A handler is a sequence of*)
(* store calls, so that requests interleave with each other and with the   *)
(* runner, and a handler that fails half-way leaves behind what it did.    *)
(*                                                                         *)
(* Of the runner there is what its goroutines write to the task store: a   *)
(* worker starts a queued task and ends its attempt; a retry timer that the*)
(* channel refuses, or a worker whose call failed, fails a task which some *)
(* other worker may have in hand, or have completed.  When the channel is  *)
(* full, how often a task is tried and the calls of a cancel request are   *)
(* left open here: they are in TaskRunner.  Repeated requests are in       *)
(* Idempotency.                                                            *)
(***************************************************************************)
EXTENDS Integers, Sequences, FiniteSets

CONSTANTS
  Requests,
  Tasks, Sessions,   \* the ids that the stores will hand out
  Depths,            \* what `max_depth` may be, its default included
  Readers,           \* bound: the requests that ask for chains; the others make tasks
  MaxFaults,         \* bound: store calls that fail, clients that leave
  None

ASSUME ApiAssumption ==
  /\ None \notin Tasks \cup Sessions
  /\ Depths \subseteq Nat \ {0} /\ MaxFaults \in Nat

VARIABLES
  sessions,   \* the session store
  deleted,    \* history: sessions that were deleted
  status,     \* the task store: Task.Status,
  session,    \*   Task.SessionID,
  source,     \*   Task.SourceTaskID
  working,    \* tasks with an attempt under way that may still write to them
  pending,    \* tasks that some goroutine may fail out of turn: the timer of a
              \* retry, or a worker whose call of the store failed
  overruled,  \* history: tasks that were failed by one of those, or because
              \* the channel was full when they were created
  req,        \* per request: how far its handler is, and its locals
  faults

lifecycle == <<status, working, pending, overruled>>
tasks     == <<lifecycle, session, source>>
vars      == <<sessions, deleted, tasks, req, faults>>

-----------------------------------------------------------------------------
\* `before` is a history: the sessions deleted before the request arrived.
NewRequest ==
  [ kind |-> "none", at |-> "new", code |-> 0, before |-> {},
    sess |-> None, src |-> None, task |-> None,
    told |-> "", next |-> None, depth |-> 0, chain |-> <<>>, cut |-> FALSE ]

Init ==
  /\ sessions = {} /\ deleted = {}
  /\ status = [t \in Tasks |-> "absent"]
  /\ working = {} /\ pending = {} /\ overruled = {}
  /\ session = [t \in Tasks |-> None]
  /\ source = [t \in Tasks |-> None]
  /\ req = [r \in Requests |-> NewRequest]
  /\ faults = 0

Fault == faults < MaxFaults /\ faults' = faults + 1
NoFault == UNCHANGED faults

\* A store call succeeds or fails; that of a client that has left fails too.
StoreOk == NoFault
StoreFails == Fault

At(r, stage) == req[r].at = stage
Arrival(kind) == [NewRequest EXCEPT !.kind = kind, !.before = deleted]
Goto(r, q, stage) == req' = [req EXCEPT ![r] = [q EXCEPT !.at = stage]]

\* An answered request keeps what its client was told, and the task it made.
Answered(q, code) ==
  [NewRequest EXCEPT !.at = "answered", !.code = code, !.task = q.task]
Answer(r, q, code) == req' = [req EXCEPT ![r] = Answered(q, code)]

Exists(t) == status[t] # "absent"
Fresh == Sessions \ (sessions \cup deleted)

-----------------------------------------------------------------------------
\* Sessions.

PostSession ==
  /\ \E s \in Fresh : sessions' = sessions \cup {s}
  /\ UNCHANGED <<deleted, tasks, req, faults>>

DeleteSession ==
  /\ \E s \in sessions : sessions' = sessions \ {s} /\ deleted' = deleted \cup {s}
  /\ UNCHANGED <<tasks, req, faults>>

\* A session for the task of request q.  If the response is lost the session
\* stays, and so it does if the task is refused later.  A replay looks its new
\* session up again.
Mint(r, q) ==
  /\ \/ /\ StoreOk
        /\ \E s \in Fresh :
             /\ sessions' = sessions \cup {s}
             /\ Goto(r, [q EXCEPT !.sess = s], IF q.kind = "replay" THEN "ensure" ELSE "create")
     \/ StoreFails /\ Answer(r, q, 400) /\ UNCHANGED sessions
     \/ StoreFails /\ Answer(r, q, 400) /\ \E s \in Fresh : sessions' = sessions \cup {s}
  /\ UNCHANGED <<deleted, tasks>>

\* Slip: the session of the replayed task is taken for granted.
Ensured_UnlessReplay(q) == q.kind = "replay" \/ q.sess \in sessions

Ensured(q) == q.sess \in sessions

Ensure(r, q) ==
  /\ \/ StoreOk /\ Ensured(q) /\ Goto(r, q, "create")
     \/ StoreOk /\ ~Ensured(q) /\ Answer(r, q, 400)
     \/ StoreFails /\ Answer(r, q, 400)
  /\ UNCHANGED <<sessions, deleted, tasks>>

-----------------------------------------------------------------------------
\* Tasks.  A request arrives with its first store call: it has no effect before.

PostTask(r) ==
  /\ At(r, "new") /\ r \notin Readers
  /\ LET q == Arrival("create") IN
     Mint(r, q) \/ \E s \in Sessions : Ensure(r, [q EXCEPT !.sess = s])

\* The task to replay, in a new session, in its own or in another.  A store
\* that fails is told like a task that is not there.
PostReplay(r) ==
  /\ At(r, "new") /\ r \notin Readers
  /\ \E t \in Tasks :
       LET q == [Arrival("replay") EXCEPT !.src = t] IN
       \/ /\ StoreOk /\ Exists(t)
          /\ \/ Goto(r, q, "mint")
             \/ \E s \in Sessions \cup {session[t]} : Goto(r, [q EXCEPT !.sess = s], "ensure")
       \/ StoreOk /\ ~Exists(t) /\ Answer(r, q, 404)
       \/ StoreFails /\ Answer(r, q, 404)
  /\ UNCHANGED <<sessions, deleted, tasks>>

MintForReplay(r) == At(r, "mint") /\ Mint(r, req[r])
EnsureForReplay(r) == At(r, "ensure") /\ Ensure(r, req[r])

Insert(r, t) ==
  /\ status[t] = "absent" /\ status' = [status EXCEPT ![t] = "queued"]
  /\ UNCHANGED <<working, pending, overruled>>
  /\ session' = [session EXCEPT ![t] = req[r].sess]
  /\ source' = [source EXCEPT ![t] = req[r].src]

\* A task that is not valid is rejected.  If the response of the store is lost
\* the client is told that there is no task.
Create(r) ==
  /\ At(r, "create")
  /\ LET q == req[r] IN
     \/ /\ StoreOk
        /\ \E t \in Tasks :
             Insert(r, t) /\ Goto(r, [NewRequest EXCEPT !.kind = q.kind, !.task = t], "enqueue")
     \/ StoreOk /\ Answer(r, q, 400) /\ UNCHANGED tasks
     \/ StoreFails /\ Answer(r, q, 400) /\ UNCHANGED tasks
     \/ /\ StoreFails
        /\ \E t \in Tasks : Insert(r, t) /\ Answer(r, [q EXCEPT !.task = t], 400)
  /\ UNCHANGED <<sessions, deleted>>

\* Complete and Fail: one UPDATE, of a task that is not canceled.
Finish(t, s) ==
  /\ status[t] # "canceled"
  /\ status' = [status EXCEPT ![t] = s]

\* A task is failed whatever has become of it, unless it was canceled.
Overrule(t) ==
  /\ Finish(t, "failed")
  /\ overruled' = overruled \cup {t}
  /\ UNCHANGED working

\* The client of a creation may wait for the end of its task.  If it has left
\* before the task is enqueued, the task cannot be marked failed either: the
\* reconciler will find it in the queue.
Enqueue(r) ==
  /\ At(r, "enqueue")
  /\ LET q == req[r] IN
     \/ NoFault /\ Answer(r, q, 202)
     \/ NoFault /\ q.kind = "create" /\ Goto(r, q, "poll")
     \/ NoFault /\ Goto(r, q, "refuse")
     \/ Fault /\ Answer(r, q, 500)
  /\ UNCHANGED <<sessions, deleted, tasks>>

\* The channel was full: the handler fails the task, which the reconciler may
\* have put into the channel, and a worker completed, by now.  It does not look
\* whether the store could write.
Refuse(r) ==
  /\ At(r, "refuse")
  /\ \/ (StoreOk \/ StoreFails) /\ Overrule(req[r].task) /\ UNCHANGED pending
     \/ StoreFails /\ UNCHANGED lifecycle
     \/ StoreOk /\ status[req[r].task] = "canceled" /\ UNCHANGED lifecycle
  /\ Answer(r, req[r], 503)
  /\ UNCHANGED <<sessions, deleted, session, source>>

\* Slip: a task that has left the queue is taken for done.
Settled_Started(t) == status[t] # "queued"

Settled(t) == status[t] \in {"completed", "failed", "canceled"}

Poll(r) ==
  /\ At(r, "poll")
  /\ LET q == req[r] IN
     /\ StoreOk /\ Settled(q.task)
     /\ req' = [req EXCEPT ![r] = [Answered(q, 200) EXCEPT !.told = status[q.task]]]
  /\ UNCHANGED <<sessions, deleted, tasks>>

\* The wait is over, or the client has left.  What is told is the task as it
\* was created.
WaitEnds(r) ==
  /\ At(r, "poll") /\ NoFault
  /\ Answer(r, req[r], 202)
  /\ UNCHANGED <<sessions, deleted, tasks>>

-----------------------------------------------------------------------------
\* Where does a task come from?

Full(q) == Len(q.chain) >= q.depth
Visited(q) == {q.chain[i] : i \in DOMAIN q.chain}

\* Slip: a chain that just fits is taken for cut.
Cut_WhenFull(q) == Full(q)

Cut(q) == q.next # None

AnswerChain(r, q, cut) ==
  req' = [req EXCEPT ![r] = [Answered(q, 200) EXCEPT !.depth = q.depth, !.chain = q.chain,
                                                     !.cut = cut]]

ChainEnds(r, q) ==
  /\ Full(q) \/ q.next = None \/ q.next \in Visited(q)
  /\ NoFault
  /\ AnswerChain(r, q, Cut(q))

ChainGrows(r, q) ==
  /\ ~Full(q) /\ q.next # None /\ q.next \notin Visited(q)
  /\ \/ /\ StoreOk /\ Exists(q.next)
        /\ Goto(r, [q EXCEPT !.chain = Append(@, q.next), !.next = source[q.next]], "chain")
     \/ /\ StoreFails \/ (StoreOk /\ ~Exists(q.next))
        /\ IF q.chain = <<>> THEN Answer(r, q, 404) ELSE AnswerChain(r, q, TRUE)

GetChain(r) ==
  /\ \/ /\ At(r, "new") /\ r \in Readers
        /\ \E t \in Tasks, depth \in Depths :
             ChainGrows(r, [Arrival("chain") EXCEPT !.before = {}, !.next = t, !.depth = depth])
     \/ At(r, "chain") /\ ChainGrows(r, req[r])
     \/ At(r, "chain") /\ ChainEnds(r, req[r])
  /\ UNCHANGED <<sessions, deleted, tasks>>

-----------------------------------------------------------------------------
\* The runner, and cancel requests.

\* A worker starts a task that is queued: it was put into the channel by its
\* handler, a retry timer or the reconciler, which looks for what is queued.
Start(t) ==
  /\ status[t] = "queued" /\ StoreOk
  /\ status' = [status EXCEPT ![t] = "running"]
  /\ working' = working \cup {t}
  /\ UNCHANGED <<pending, overruled>>

\* A call of Start fails: its worker, for which the task was queued, is going
\* to fail it.
StartFails(t) ==
  /\ Exists(t) /\ StoreFails
  /\ pending' = pending \cup {t}
  /\ UNCHANGED <<status, working, overruled>>

\* The attempt is to be repeated: its timer will put the task into the channel,
\* or fail it when the channel was full ten times.
Retry(t) ==
  /\ t \in working /\ status[t] # "canceled"
  /\ status' = [status EXCEPT ![t] = "queued"]
  /\ working' = working \ {t}
  /\ pending' = pending \cup {t}
  /\ UNCHANGED <<overruled, faults>>

\* The attempt ends for good.  A worker that does not get to know whether its
\* Complete was carried out is going to fail the task.
Report(t) ==
  /\ t \in working /\ working' = working \ {t}
  /\ \/ /\ StoreOk /\ UNCHANGED pending
        /\ Finish(t, "completed") \/ Finish(t, "failed")
     \/ /\ StoreFails /\ pending' = pending \cup {t}
        /\ UNCHANGED status \/ Finish(t, "completed")
  /\ UNCHANGED overruled

\* A timer that was refused to the end, or a worker whose call failed, fails the
\* task.  There may be more of them, which are not counted, and timers end unseen
\* that are not refused: the task stays pending.
FailOutOfTurn(t) ==
  /\ t \in pending
  /\ Overrule(t) /\ UNCHANGED <<pending, faults>>

\* A client cancels a task that has not ended.  Whoever had it in hand can write
\* nothing to it any more.
Cancel(t) ==
  /\ status[t] \in {"queued", "running"}
  /\ status' = [status EXCEPT ![t] = "canceled"]
  /\ working' = working \ {t} /\ pending' = pending \ {t}
  /\ UNCHANGED <<overruled, faults>>

Run ==
  /\ \E t \in Tasks : \/ Start(t) \/ StartFails(t) \/ Retry(t) \/ Report(t)
                      \/ FailOutOfTurn(t) \/ Cancel(t)
  /\ UNCHANGED <<sessions, deleted, session, source, req>>

Next ==
  \/ \E r \in Requests :
       \/ PostTask(r) \/ PostReplay(r) \/ MintForReplay(r) \/ EnsureForReplay(r)
       \/ Create(r) \/ Enqueue(r) \/ Refuse(r) \/ Poll(r) \/ WaitEnds(r) \/ GetChain(r)
  \/ PostSession \/ DeleteSession \/ Run

Spec == Init /\ [][Next]_vars

-----------------------------------------------------------------------------
\* Properties.

\* What a client that waits is told stays true: 200 comes with a status that the
\* task has kept since (tasks.go:500-524), unless it was overruled.  Then a task
\* told completed has become failed, and one told failed may have become
\* anything, with the worker that had it in hand; a cancellation is final.  And
\* unless a store call failed or a client left, a request that was rejected has
\* left no task behind.
AnswersStand ==
  \A r \in Requests :
    LET q == req[r] IN
    /\ q.told # "" /\ status[q.task] # q.told =>
         \/ q.task \in overruled /\ q.told = "failed"
         \/ q.task \in overruled /\ q.told = "completed" /\ status[q.task] = "failed"
    /\ q.code \in {400, 404} /\ faults = 0 => q.task = None

\* The session of a task was there at some time while the request was under
\* way: nobody gets a task in a session that was deleted before, though the
\* session is looked up and the task inserted in two steps (tasks.go:211-218).
SessionBehindTask ==
  [][\A r \in Requests :
       LET t == req'[r].task IN
       t # req[r].task => session'[t] \in (sessions \cup deleted) \ req[r].before]_vars

\* How far back the chain of replays of a task goes, by its definition.
IsLineage(s) ==
  /\ \A i, j \in DOMAIN s : s[i] = s[j] => i = j
  /\ \A i \in 1 .. Len(s) - 1 : s[i + 1] = source[s[i]]

\* A replay chain is a part of the lineage of its task, no longer than was
\* asked for, and if it is not said to be truncated it is all of it; it is not
\* truncated without a reason (tasks.go:399-446).
ChainTruthful ==
  \A r \in Requests :
    LET q == req[r] IN
    q.code = 200 /\ q.told = "" =>
      /\ IsLineage(q.chain) /\ q.chain # <<>> /\ Len(q.chain) <= q.depth
      /\ ~q.cut => source[q.chain[Len(q.chain)]] = None
      /\ q.cut /\ faults = 0 => Len(q.chain) = q.depth /\ source[q.chain[Len(q.chain)]] # None
=============================================================================
