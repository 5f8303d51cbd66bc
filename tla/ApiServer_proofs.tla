-------------------------- MODULE ApiServer_proofs --------------------------
(***************************************************************************)
(* Proofs about ApiServer for any number of requests, tasks and sessions,  *)
(* any depths and retries, and any number of failing store calls.          *)
(***************************************************************************)
EXTENDS ApiServer, SequenceTheorems, TLAPS

USE ApiAssumption

-----------------------------------------------------------------------------
(* Types *)

Statuses == {"absent", "queued", "running", "completed", "failed", "canceled"}
Final    == {"completed", "failed", "canceled"}
Stages   == {"new", "mint", "ensure", "create", "enqueue", "refuse", "poll", "chain", "answered"}
Codes    == {0, 200, 202, 400, 404, 500, 503}
Kinds    == {"none", "create", "replay", "chain"}
Locals ==
  [ kind : Kinds, at : Stages, code : Codes,
    before : SUBSET Sessions, sess : Sessions \cup {None}, src : Tasks \cup {None},
    task : Tasks \cup {None}, told : Final \cup {""}, next : Tasks \cup {None},
    depth : Nat, chain : Seq(Tasks), cut : BOOLEAN ]

StoreOK ==
  /\ sessions \in SUBSET Sessions /\ deleted \in SUBSET Sessions
  /\ status \in [Tasks -> Statuses] /\ working \in SUBSET Tasks
  /\ pending \in SUBSET Tasks /\ overruled \in SUBSET Tasks
  /\ session \in [Tasks -> Sessions \cup {None}]
  /\ source \in [Tasks -> Tasks \cup {None}]
  /\ faults \in Nat
TypeInv == StoreOK /\ req \in [Requests -> Locals]

\* What a step does to the status of task t, and to who has it in hand.
Ruled(t) ==
  /\ t \in overruled => t \in overruled'
  /\ status[t] # "absent" => status'[t] # "absent"
  /\ \/ status'[t] = status[t] /\ (t \in working' => t \in working)
     \/ status[t] = "absent" /\ status'[t] = "queued" /\ (t \in working' => t \in working)
     \/ status[t] = "queued" /\ status'[t] = "running"
     \/ status[t] # "canceled" /\ t \in working \ working'
     \/ /\ status[t] # "canceled" /\ status'[t] = "failed" /\ t \in overruled'
        /\ t \in working' => t \in working
     \/ status[t] \in {"queued", "running"} /\ status'[t] = "canceled" /\ t \notin working'

LEMMA OverruleMoves ==
  ASSUME StoreOK, NEW u \in Tasks, Overrule(u)
  PROVE  /\ status' \in [Tasks -> Statuses] /\ working' \in SUBSET Tasks
         /\ overruled' \in SUBSET Tasks
         /\ \A t \in Tasks : Ruled(t)
BY DEF Overrule, Finish, StoreOK, Statuses, Ruled

LEMMA RunMoves ==
  ASSUME StoreOK, Run
  PROVE  /\ UNCHANGED <<sessions, deleted, session, source, req>>
         /\ status' \in [Tasks -> Statuses] /\ working' \in SUBSET Tasks
         /\ pending' \in SUBSET Tasks /\ overruled' \in SUBSET Tasks
         /\ faults' \in Nat /\ (faults' = 0 => faults = 0)
         /\ \A t \in Tasks : Ruled(t)
<1>1. PICK u \in Tasks : \/ Start(u) \/ StartFails(u) \/ Retry(u) \/ Report(u)
                         \/ FailOutOfTurn(u) \/ Cancel(u)
  BY DEF Run
<1>2. UNCHANGED <<sessions, deleted, session, source, req>>
  BY DEF Run
<1>3. faults' \in Nat /\ (faults' = 0 => faults = 0)
  BY <1>1 DEF Start, StartFails, Retry, Report, FailOutOfTurn, Cancel, StoreOk, StoreFails,
              NoFault, Fault, StoreOK
<1>4. CASE Start(u)
  BY <1>2, <1>3, <1>4 DEF Start, StoreOK, Statuses, Ruled
<1>5. CASE StartFails(u)
  BY <1>2, <1>3, <1>5 DEF StartFails, StoreOK, Statuses, Ruled
<1>6. CASE Retry(u)
  BY <1>2, <1>3, <1>6 DEF Retry, StoreOK, Statuses, Ruled
<1>7. CASE Report(u)
  <2>1. /\ u \in working /\ working' = working \ {u} /\ overruled' = overruled
        /\ pending' = pending \/ pending' = pending \cup {u}
        /\ UNCHANGED status \/ Finish(u, "completed") \/ Finish(u, "failed")
    BY <1>7 DEF Report
  <2>2. CASE UNCHANGED status
    BY <1>2, <1>3, <2>1, <2>2 DEF StoreOK, Ruled
  <2>3. ASSUME NEW s \in {"completed", "failed"}, Finish(u, s)
        PROVE  status' \in [Tasks -> Statuses] /\ \A t \in Tasks : Ruled(t)
    BY <2>1, <2>3 DEF Finish, StoreOK, Statuses, Ruled
  <2>4. QED
    BY <1>2, <1>3, <2>1, <2>2, <2>3 DEF StoreOK
<1>8. CASE FailOutOfTurn(u)
  BY <1>2, <1>3, <1>8, OverruleMoves DEF FailOutOfTurn, StoreOK
<1>9. CASE Cancel(u)
  BY <1>2, <1>3, <1>9 DEF Cancel, StoreOK, Statuses, Ruled
<1>10. QED
  BY <1>1, <1>4, <1>5, <1>6, <1>7, <1>8, <1>9

\* An insertion brings one task into being.
LEMMA InsertMoves ==
  ASSUME TypeInv, NEW r \in Requests, NEW t \in Tasks, Insert(r, t)
  PROVE  /\ status[t] = "absent" /\ status'[t] = "queued"
         /\ session'[t] = req[r].sess /\ source'[t] = req[r].src
         /\ \A u \in Tasks \ {t} : /\ status'[u] = status[u] /\ session'[u] = session[u]
                                   /\ source'[u] = source[u]
         /\ status' \in [Tasks -> Statuses] /\ UNCHANGED <<working, pending, overruled>>
         /\ session' \in [Tasks -> Sessions \cup {None}]
         /\ source' \in [Tasks -> Tasks \cup {None}]
BY DEF Insert, TypeInv, StoreOK, Locals, Statuses

\* A handler that goes on, and one that answers.
LEMMA GotoMoves ==
  ASSUME TypeInv, NEW r \in Requests, NEW q \in Locals, NEW stage \in Stages, Goto(r, q, stage)
  PROVE  /\ req' \in [Requests -> Locals]
         /\ req'[r] = [q EXCEPT !.at = stage]
         /\ \A p \in Requests \ {r} : req'[p] = req[p]
BY DEF Goto, TypeInv, Locals

Made(kind, t) == [NewRequest EXCEPT !.kind = kind, !.task = t]

LEMMA NewTypes ==
  ASSUME NEW kind \in Kinds, NEW t \in Tasks
  PROVE  /\ Made(kind, t) \in Locals
         /\ Made(kind, t).code = 0 /\ Made(kind, t).told = "" /\ Made(kind, t).task = t
<1>1. Made(kind, t) \in Locals
  <2>1. <<>> \in Seq(Tasks)
    BY EmptySeq
  <2>2. NewRequest \in Locals
    BY <2>1 DEF NewRequest, Locals, Stages, Codes, Kinds
  <2>3. QED
    BY <2>2 DEF Made, Locals
<1>2. QED
  BY <1>1 DEF Made, NewRequest

LEMMA AnsweredTypes ==
  ASSUME NEW q \in Locals, NEW code \in Codes
  PROVE  /\ Answered(q, code) \in Locals
         /\ Answered(q, code).at = "answered" /\ Answered(q, code).code = code
         /\ Answered(q, code).told = "" /\ Answered(q, code).task = q.task
BY EmptySeq DEF Answered, NewRequest, Locals, Kinds, Stages

\* What an answered request is left with.
AnsweredWith(r, q, code) ==
  /\ req' \in [Requests -> Locals]
  /\ req'[r].at = "answered" /\ req'[r].code = code
  /\ req'[r].told = "" /\ req'[r].task = q.task
  /\ \A p \in Requests \ {r} : req'[p] = req[p]

LEMMA AnswerMoves ==
  ASSUME TypeInv, NEW r \in Requests, NEW q \in Locals, NEW code \in Codes, Answer(r, q, code)
  PROVE  AnsweredWith(r, q, code)
BY AnsweredTypes DEF Answer, AnsweredWith, TypeInv

\* A request arrives with locals that are typed.
LEMMA ArrivalTypes ==
  ASSUME TypeInv, NEW kind \in {"create", "replay", "chain"}
  PROVE  Arrival(kind) \in Locals
<1>1. deleted \in SUBSET Sessions /\ <<>> \in Seq(Tasks)
  BY EmptySeq DEF TypeInv, StoreOK
<1>2. NewRequest \in Locals
  BY <1>1 DEF NewRequest, Locals, Kinds, Stages, Codes
<1>3. QED
  BY <1>1, <1>2 DEF Arrival, Locals, Kinds

\* What is left alone and what a step of a handler does to the counter of faults.
LEMMA FaultMoves ==
  ASSUME TypeInv, Fault \/ NoFault \/ StoreOk \/ StoreFails
  PROVE  faults' \in Nat /\ (faults' = 0 => faults = 0 /\ ~Fault /\ ~StoreFails)
BY DEF Fault, NoFault, StoreOk, StoreFails, TypeInv, StoreOK

\* What minting a session for the task of request q comes to.
LEMMA MintMoves ==
  ASSUME TypeInv, NEW r \in Requests, NEW q \in Locals, Mint(r, q)
  PROVE  /\ UNCHANGED <<deleted, tasks>> /\ faults' \in Nat
         /\ sessions \subseteq sessions' /\ sessions' \in SUBSET Sessions
         /\ sessions' \cap deleted = sessions \cap deleted
         /\ \/ \E s \in sessions' \ deleted, stage \in {"create", "ensure"} :
                 Goto(r, [q EXCEPT !.sess = s], stage)
            \/ Answer(r, q, 400)
<1>1. faults' \in Nat
  BY FaultMoves DEF Mint
<1>2. UNCHANGED <<deleted, tasks>>
  BY DEF Mint
<1>3. CASE \E s \in Fresh : /\ sessions' = sessions \cup {s}
                            /\ Goto(r, [q EXCEPT !.sess = s],
                                    IF q.kind = "replay" THEN "ensure" ELSE "create")
  BY <1>1, <1>2, <1>3 DEF Fresh, TypeInv, StoreOK
<1>4. CASE Answer(r, q, 400) /\ (UNCHANGED sessions \/ \E s \in Fresh : sessions' = sessions \cup {s})
  BY <1>1, <1>2, <1>4 DEF Fresh, TypeInv, StoreOK
<1>5. QED
  BY <1>3, <1>4 DEF Mint

\* What looking a session up comes to.
LEMMA EnsureMoves ==
  ASSUME TypeInv, NEW r \in Requests, NEW q \in Locals, Ensure(r, q)
  PROVE  /\ UNCHANGED <<sessions, deleted, tasks>> /\ faults' \in Nat
         /\ \/ q.sess \in sessions /\ Goto(r, q, "create")
            \/ Answer(r, q, 400)
BY FaultMoves DEF Ensure, Ensured

-----------------------------------------------------------------------------
(* What the steps of a handler do to its locals *)

\* Where a handler is determines what it holds.
FlowOK(r) ==
  LET q == req[r] IN
  /\ q.at # "answered" => q.told = "" /\ q.code = 0
  /\ q.at \in {"new", "mint", "ensure", "create", "chain"} => q.task = None
  /\ q.at \in {"enqueue", "refuse", "poll"} => q.task \in Tasks
  /\ q.at \in {"mint", "ensure", "create"} => /\ q.before \subseteq deleted
                                              /\ q.src # None => Exists(q.src)
FlowInv == \A r \in Requests : FlowOK(r)

\* Request r gets, or looks for, the session of its task.
Resolves(r) ==
  /\ req[r].at \in {"new", "mint", "ensure"}
  /\ UNCHANGED <<deleted, tasks>>
  /\ sessions \subseteq sessions' /\ sessions' \cap deleted = sessions \cap deleted
  /\ LET q == req'[r] IN
     /\ q.task = None /\ q.told = ""
     /\ \/ q.at = "answered" /\ q.code \in {400, 404}
        \/ /\ q.at \in {"mint", "ensure", "create"} /\ q.code = 0
           /\ q.before \subseteq deleted
           /\ q.src # None => Exists(q.src)
           /\ q.at = "create" => q.sess \in sessions'

\* Request r inserts its task, or is rejected.
Creates(r) ==
  /\ req[r].at = "create"
  /\ UNCHANGED <<sessions, deleted>>
  /\ LET q == req'[r] IN
     /\ q.told = ""
     /\ \/ /\ \E t \in Tasks : Insert(r, t) /\ q.task = t
           /\ \/ q.at = "enqueue" /\ q.code = 0
              \/ q.at = "answered" /\ q.code = 400 /\ faults' # 0
        \/ UNCHANGED tasks /\ q.task = None /\ q.at = "answered" /\ q.code = 400

\* Request r is answered with its task, or waits for its end.
Ends(r) ==
  /\ req[r].at \in {"enqueue", "poll"}
  /\ UNCHANGED <<sessions, deleted, tasks>>
  /\ LET q == req'[r] IN
     /\ q.task = req[r].task
     /\ \/ q.at \in {"poll", "refuse"} /\ q.code = 0 /\ q.told = ""
        \/ q.at = "answered" /\ q.code \in {202, 500} /\ q.told = ""
        \/ /\ q.at = "answered" /\ q.code = 200
           /\ q.told \in Final /\ q.told = status[q.task]

\* Request r fails its task, for which there was no room.
Refuses(r) ==
  /\ req[r].at = "refuse"
  /\ UNCHANGED <<sessions, deleted, session, source>>
  /\ \A t \in Tasks : Ruled(t)
  /\ LET q == req'[r] IN
     q.task = req[r].task /\ q.at = "answered" /\ q.code = 503 /\ q.told = ""

\* Request r follows a chain of replays: it reads its first task, or one more,
\* answers with what it has, or has nothing to answer with.
BeginsChain(r) ==
  LET q == req'[r] IN
  /\ req[r].at = "new" /\ q.at = "chain" /\ q.code = 0
  /\ \E t \in Tasks : /\ Exists(t) /\ q.chain = Append(<<>>, t) /\ q.next = source[t]
                      /\ q.depth \in Nat \ {0}

GrowsChain(r) ==
  LET old == req[r]  q == req'[r] IN
  /\ old.at = "chain" /\ q.at = "chain" /\ q.code = 0
  /\ \E t \in Tasks : /\ t = old.next /\ Exists(t) /\ t \notin Visited(old) /\ ~Full(old)
                      /\ q.chain = Append(old.chain, t) /\ q.next = source[t]
                      /\ q.depth = old.depth

TellsChain(r) ==
  LET old == req[r]  q == req'[r] IN
  /\ old.at = "chain" /\ q.at = "answered" /\ q.code = 200
  /\ q.chain = old.chain /\ q.depth = old.depth
  /\ \/ /\ q.cut <=> old.next # None
        /\ Full(old) \/ old.next = None \/ old.next \in Visited(old)
     \/ /\ q.cut /\ old.next # None
        /\ faults' # 0 \/ ~Exists(old.next)

Follows(r) ==
  /\ UNCHANGED <<sessions, deleted, tasks>>
  /\ req'[r].task = None /\ req'[r].told = ""
  /\ \/ BeginsChain(r) \/ GrowsChain(r) \/ TellsChain(r)
     \/ /\ req[r].at \in {"new", "chain"}
        /\ req'[r].at = "answered" /\ req'[r].code = 404

\* A step of request r alone, well typed.
Alone(r) ==
  /\ \A p \in Requests \ {r} : req'[p] = req[p]
  /\ TypeInv' /\ faults \in Nat /\ (faults' = 0 => faults = 0)

\* Creating a task or replaying one, up to its session.
LEMMA ResolveSteps ==
  ASSUME TypeInv, FlowInv, NEW r \in Requests,
         PostTask(r) \/ PostReplay(r) \/ MintForReplay(r) \/ EnsureForReplay(r)
  PROVE  Alone(r) /\ Resolves(r)
<1>1. ASSUME NEW q \in Locals, Mint(r, q), req[r].at \in {"new", "mint", "ensure"},
             q.task = None, q.told = "", q.code = 0, q.before \subseteq deleted,
             q.src # None => Exists(q.src)
      PROVE  Alone(r) /\ Resolves(r)
  <2>1. /\ UNCHANGED <<deleted, tasks>> /\ faults' \in Nat
        /\ sessions \subseteq sessions' /\ sessions' \in SUBSET Sessions
        /\ sessions' \cap deleted = sessions \cap deleted
        /\ \/ \E s \in sessions' \ deleted, stage \in {"create", "ensure"} :
                Goto(r, [q EXCEPT !.sess = s], stage)
           \/ Answer(r, q, 400)
    BY <1>1, MintMoves
  <2>2. StoreOK'
    BY <2>1 DEF TypeInv, StoreOK, tasks, lifecycle
  <2>3. faults' = 0 => faults = 0
    BY <1>1, FaultMoves DEF Mint
  <2>4. ASSUME NEW s \in sessions' \ deleted, NEW stage \in {"create", "ensure"},
               Goto(r, [q EXCEPT !.sess = s], stage)
        PROVE  Alone(r) /\ Resolves(r)
    <3>1. [q EXCEPT !.sess = s] \in Locals /\ stage \in Stages
      BY <2>1 DEF Locals, Stages
    <3>2. /\ req' \in [Requests -> Locals]
          /\ req'[r] = [[q EXCEPT !.sess = s] EXCEPT !.at = stage]
          /\ \A p \in Requests \ {r} : req'[p] = req[p]
      BY <2>4, <3>1, GotoMoves
    <3>3. /\ req'[r].at = stage /\ req'[r].sess = s /\ req'[r].task = None
          /\ req'[r].told = "" /\ req'[r].code = 0 /\ req'[r].before = q.before
          /\ req'[r].src = q.src
      BY <1>1, <3>2 DEF Locals
    <3>4. Alone(r)
      BY <2>2, <2>3, <3>2 DEF Alone, TypeInv, StoreOK
    <3>5. Resolves(r)
      <4>1. /\ req[r].at \in {"new", "mint", "ensure"} /\ req'[r].before \subseteq deleted
            /\ req'[r].src # None => Exists(req'[r].src)
        BY <1>1, <3>3
      <4>2. /\ UNCHANGED <<deleted, tasks>> /\ sessions \subseteq sessions'
            /\ sessions' \cap deleted = sessions \cap deleted
        BY <2>1
      <4>3. req'[r].sess \in sessions'
        BY <3>3
      <4>4. QED
        BY <3>3, <4>1, <4>2, <4>3 DEF Resolves
    <3>6. QED
      BY <3>4, <3>5
  <2>5. CASE Answer(r, q, 400)
    <3>1. PICK code \in Codes : code \in {400, 404} /\ Answer(r, q, code)
      BY <2>5 DEF Codes
    <3>2. AnsweredWith(r, q, code)
      <4>1. q \in Locals
        BY <1>1
      <4>2. QED
        BY <3>1, <4>1, AnswerMoves
    <3>3. Alone(r)
      BY <2>2, <2>3, <2>5, <3>2 DEF AnsweredWith, Alone, TypeInv, StoreOK
    <3>4. QED
      BY <1>1, <2>1, <2>5, <3>1, <3>2, <3>3 DEF AnsweredWith, Resolves
  <2>6. QED
    BY <2>1, <2>4, <2>5
<1>2. ASSUME NEW q \in Locals, Ensure(r, q), req[r].at \in {"new", "mint", "ensure"},
             q.task = None, q.told = "", q.code = 0, q.before \subseteq deleted,
             q.src # None => Exists(q.src)
      PROVE  Alone(r) /\ Resolves(r)
  <2>1. /\ UNCHANGED <<sessions, deleted, tasks>> /\ faults' \in Nat
        /\ \/ q.sess \in sessions /\ Goto(r, q, "create")
           \/ Answer(r, q, 400)
    BY <1>2, EnsureMoves
  <2>2. StoreOK' /\ (faults' = 0 => faults = 0)
    BY <1>2, <2>1, FaultMoves DEF Ensure, TypeInv, StoreOK, tasks, lifecycle
  <2>3. CASE q.sess \in sessions /\ Goto(r, q, "create")
    <3>1. /\ req' \in [Requests -> Locals]
          /\ req'[r] = [q EXCEPT !.at = "create"]
          /\ \A p \in Requests \ {r} : req'[p] = req[p]
      BY <2>3, GotoMoves DEF Stages
    <3>2. /\ req'[r].at = "create" /\ req'[r].sess = q.sess /\ req'[r].task = None
          /\ req'[r].told = "" /\ req'[r].code = 0 /\ req'[r].before = q.before
          /\ req'[r].src = q.src
      BY <1>2, <3>1 DEF Locals
    <3>3. Alone(r)
      BY <2>2, <3>1 DEF Alone, TypeInv, StoreOK
    <3>4. /\ req[r].at \in {"new", "mint", "ensure"} /\ req'[r].before \subseteq deleted
          /\ req'[r].src # None => Exists(req'[r].src)
          /\ q.sess \in sessions
      BY <1>2, <2>3, <3>2
    <3>5. /\ UNCHANGED <<deleted, tasks>> /\ sessions \subseteq sessions'
          /\ sessions' \cap deleted = sessions \cap deleted
          /\ req'[r].sess \in sessions'
      <4>1. UNCHANGED <<sessions, deleted, tasks>>
        BY <2>1
      <4>2. req'[r].sess = q.sess /\ q.sess \in sessions
        BY <3>2, <3>4
      <4>3. QED
        BY <4>1, <4>2
    <3>6. Resolves(r)
      BY <3>2, <3>4, <3>5 DEF Resolves
    <3>7. QED
      BY <3>3, <3>6
  <2>4. CASE Answer(r, q, 400)
    <3>1. PICK code \in Codes : code \in {400, 404} /\ Answer(r, q, code)
      BY <2>4 DEF Codes
    <3>2. AnsweredWith(r, q, code)
      <4>1. q \in Locals
        BY <1>2
      <4>2. QED
        BY <3>1, <4>1, AnswerMoves
    <3>3. Alone(r)
      BY <2>2, <2>4, <3>2 DEF AnsweredWith, Alone, TypeInv, StoreOK
    <3>4. QED
      BY <1>2, <2>1, <2>4, <3>1, <3>2, <3>3 DEF AnsweredWith, Resolves
  <2>5. QED
    BY <2>1, <2>3, <2>4
<1>3. CASE PostTask(r)
  <2>1. Arrival("create") \in Locals
    BY ArrivalTypes
  <2>2. \A s \in Sessions : [Arrival("create") EXCEPT !.sess = s] \in Locals
    BY <2>1 DEF Locals
  <2>3. QED
    BY <1>1, <1>2, <1>3, <2>1, <2>2 DEF PostTask, At, Arrival, NewRequest
<1>4. CASE MintForReplay(r) \/ EnsureForReplay(r)
  BY <1>1, <1>2, <1>4 DEF MintForReplay, EnsureForReplay, At, FlowInv, FlowOK, TypeInv
<1>5. CASE PostReplay(r)
  <2>1. PICK t \in Tasks :
          LET q == [Arrival("replay") EXCEPT !.src = t] IN
          \/ /\ StoreOk /\ Exists(t)
             /\ \/ Goto(r, q, "mint")
                \/ \E s \in Sessions \cup {session[t]} :
                     Goto(r, [q EXCEPT !.sess = s], "ensure")
          \/ StoreOk /\ ~Exists(t) /\ Answer(r, q, 404)
          \/ StoreFails /\ Answer(r, q, 404)
    BY <1>5 DEF PostReplay
  <2> DEFINE q == [Arrival("replay") EXCEPT !.src = t]
  <2>2. UNCHANGED <<sessions, deleted, tasks>> /\ req[r].at = "new"
    BY <1>5 DEF PostReplay, At
  <2>3. faults' \in Nat /\ (faults' = 0 => faults = 0)
    BY <2>1, FaultMoves
  <2>4. StoreOK'
    BY <2>2, <2>3 DEF TypeInv, StoreOK, tasks, lifecycle
  <2>5. q \in Locals
    BY ArrivalTypes DEF Locals
  <2>6. q.task = None /\ q.told = "" /\ q.code = 0 /\ q.before = deleted /\ q.src = t
    BY DEF Arrival, NewRequest
  <2>7. ASSUME NEW s \in Sessions \cup {None}, NEW stage \in {"mint", "ensure"}, Exists(t),
               Goto(r, [q EXCEPT !.sess = s], stage)
        PROVE  Alone(r) /\ Resolves(r)
    <3>1. [q EXCEPT !.sess = s] \in Locals /\ stage \in Stages
      BY <2>5 DEF Locals, Stages
    <3>2. /\ req' \in [Requests -> Locals]
          /\ req'[r] = [[q EXCEPT !.sess = s] EXCEPT !.at = stage]
          /\ \A p \in Requests \ {r} : req'[p] = req[p]
      BY <2>7, <3>1, GotoMoves
    <3>3. /\ req'[r].at = stage /\ req'[r].task = None /\ req'[r].told = ""
          /\ req'[r].code = 0 /\ req'[r].before = deleted /\ req'[r].src = t
      BY <2>5, <2>6, <3>2 DEF Locals
    <3>4. Alone(r)
      BY <2>3, <2>4, <3>2 DEF Alone, TypeInv, StoreOK
    <3>5. QED
      <4>1. req'[r].at \in {"mint", "ensure"} /\ Exists(req'[r].src)
        BY <2>7, <3>3
      <4>2. Resolves(r)
        BY <2>2, <3>3, <4>1 DEF Resolves
      <4>3. QED
        BY <3>4, <4>2
  <2>8. CASE Exists(t) /\ Goto(r, q, "mint")
    <3>1. q = [q EXCEPT !.sess = None]
      <4>1. q.sess = None
        BY DEF Arrival, NewRequest
      <4>2. QED
        BY <2>5, <4>1 DEF Locals
    <3>2. QED
      BY <2>7, <2>8, <3>1
  <2>9. CASE Answer(r, q, 404)
    <3>1. PICK code \in Codes : code \in {400, 404} /\ Answer(r, q, code)
      BY <2>9 DEF Codes
    <3>2. AnsweredWith(r, q, code)
      BY <2>5, <3>1, AnswerMoves
    <3>3. Alone(r)
      BY <2>3, <2>4, <2>5, <2>9, <3>2 DEF AnsweredWith, Alone, TypeInv, StoreOK
    <3>4. QED
      BY <2>2, <2>5, <2>6, <2>9, <3>1, <3>2, <3>3 DEF AnsweredWith, Resolves
  <2>10. session[t] \in Sessions \cup {None}
    BY DEF TypeInv, StoreOK
  <2>11. QED
    BY <2>1, <2>7, <2>8, <2>9, <2>10
<1>6. QED
  BY <1>3, <1>4, <1>5

\* Inserting a task or being rejected.
LEMMA CreateSteps ==
  ASSUME TypeInv, FlowInv, NEW r \in Requests, Create(r)
  PROVE  Alone(r) /\ Creates(r)
<1> DEFINE q == req[r]
<1>1. /\ q \in Locals /\ q.at = "create" /\ q.task = None /\ q.told = "" /\ q.code = 0
      /\ UNCHANGED <<sessions, deleted>>
  BY DEF Create, At, TypeInv, FlowInv, FlowOK
<1>2. faults' \in Nat /\ (faults' = 0 => faults = 0)
  BY FaultMoves DEF Create
<1>3. ASSUME NEW t \in Tasks, Insert(r, t),
             Goto(r, [NewRequest EXCEPT !.kind = q.kind, !.task = t], "enqueue")
      PROVE  Alone(r) /\ Creates(r)
  <2>1. /\ req' \in [Requests -> Locals]
        /\ \A p \in Requests \ {r} : req'[p] = req[p]
        /\ req'[r].at = "enqueue" /\ req'[r].code = 0 /\ req'[r].told = "" /\ req'[r].task = t
    <3>0. PICK kind \in Kinds : kind = q.kind
      BY <1>1 DEF Locals
    <3>1. PICK n : kind = q.kind /\ n = Made(kind, t)
      BY <3>0
    <3>2. n \in Locals /\ n.code = 0 /\ n.told = "" /\ n.task = t
      BY <3>1, NewTypes
    <3>3. PICK stage \in Stages : stage = "enqueue" /\ Goto(r, n, stage)
      BY <1>3, <3>1 DEF Stages, Made
    <3>4. /\ req' \in [Requests -> Locals]
          /\ req'[r] = [n EXCEPT !.at = stage]
          /\ \A p \in Requests \ {r} : req'[p] = req[p]
      <4>1. n \in Locals
        BY <3>2
      <4>2. QED
        BY <3>3, <4>1, GotoMoves
    <3>5. QED
      BY <3>2, <3>3, <3>4 DEF Locals
  <2>2. StoreOK'
    BY <1>1, <1>2, <1>3, InsertMoves DEF TypeInv, StoreOK
  <2>3. Alone(r)
    BY <1>2, <2>1, <2>2 DEF Alone, TypeInv, StoreOK
  <2>4. QED
    BY <1>1, <1>3, <2>1, <2>3 DEF Creates
<1>4. ASSUME Answer(r, q, 400), UNCHANGED tasks
      PROVE  Alone(r) /\ Creates(r)
  <2>1. PICK code \in Codes : code = 400 /\ Answer(r, q, code)
    BY <1>4 DEF Codes
  <2>2. AnsweredWith(r, q, code)
    <3>1. q \in Locals
      BY <1>1
    <3>2. QED
      BY <2>1, <3>1, AnswerMoves
  <2>3. StoreOK'
    BY <1>1, <1>2, <1>4 DEF TypeInv, StoreOK, tasks, lifecycle
  <2>4. Alone(r)
    BY <1>2, <2>2, <2>3 DEF AnsweredWith, Alone, TypeInv, StoreOK
  <2>5. /\ req'[r].at = "answered" /\ req'[r].code = 400 /\ req'[r].told = ""
        /\ req'[r].task = q.task
    BY <2>1, <2>2, Zenon DEF AnsweredWith
  <2>6. QED
    BY <1>1, <1>4, <2>4, <2>5 DEF Creates
<1>5. ASSUME NEW t \in Tasks, Insert(r, t), StoreFails, Answer(r, [q EXCEPT !.task = t], 400)
      PROVE  Alone(r) /\ Creates(r)
  <2> DEFINE n == [q EXCEPT !.task = t]
  <2>1. PICK code \in Codes : code = 400 /\ Answer(r, n, code)
    BY <1>5 DEF Codes
  <2>2. n \in Locals /\ n.task = t
    BY <1>1 DEF Locals
  <2>3. AnsweredWith(r, n, code)
    <3> HIDE DEF n
    <3>1. QED
      BY <2>1, <2>2, AnswerMoves
  <2>4. StoreOK'
    BY <1>1, <1>2, <1>5, InsertMoves DEF TypeInv, StoreOK
  <2>5. Alone(r)
    BY <1>2, <2>3, <2>4 DEF AnsweredWith, Alone, TypeInv, StoreOK
  <2>6. faults' # 0
    BY <1>5 DEF StoreFails, Fault, TypeInv, StoreOK
  <2>7. req'[r].task = t /\ req'[r].at = "answered" /\ req'[r].code = 400 /\ req'[r].told = ""
    <3> HIDE DEF n
    <3>1. QED
      BY <2>1, <2>2, <2>3 DEF AnsweredWith
  <2>8. QED
    BY <1>1, <1>5, <2>5, <2>6, <2>7 DEF Creates
<1>6. QED
  BY <1>3, <1>4, <1>5 DEF Create

\* Answering with a task, or waiting for its end.
LEMMA EndSteps ==
  ASSUME TypeInv, FlowInv, NEW r \in Requests, Enqueue(r) \/ Poll(r) \/ WaitEnds(r)
  PROVE  Alone(r) /\ Ends(r)
<1>0. PICK q \in Locals : q = req[r]
  BY DEF TypeInv
<1>1. /\ q = req[r] /\ q.at \in {"enqueue", "poll"} /\ q.task \in Tasks
      /\ q.told = "" /\ q.code = 0
      /\ UNCHANGED <<sessions, deleted, tasks>>
  BY <1>0 DEF Enqueue, Poll, WaitEnds, At, TypeInv, FlowInv, FlowOK
<1>2. faults' \in Nat /\ (faults' = 0 => faults = 0)
  BY FaultMoves DEF Enqueue, Poll, WaitEnds
<1>3. StoreOK'
  BY <1>1, <1>2 DEF TypeInv, StoreOK, tasks, lifecycle
<1>4. ASSUME NEW code \in Codes, code \in {202, 500}, Answer(r, q, code)
      PROVE  Alone(r) /\ Ends(r)
  <2>1. AnsweredWith(r, q, code)
    BY <1>4, AnswerMoves
  <2>2. Alone(r)
    BY <1>2, <1>3, <2>1 DEF AnsweredWith, Alone, TypeInv, StoreOK
  <2>3. /\ req'[r].at = "answered" /\ req'[r].told = "" /\ req'[r].task = q.task
        /\ req'[r].code = code
    BY <2>1 DEF AnsweredWith
  <2>4. /\ req[r].at \in {"enqueue", "poll"} /\ req'[r].task = req[r].task
        /\ req'[r].code \in {202, 500}
    <3>1. req[r].at \in {"enqueue", "poll"} /\ req'[r].task = req[r].task
      BY <1>1, <2>3
    <3>2. req'[r].code \in {202, 500}
      BY <1>4, <2>3, Zenon
    <3>3. QED
      BY <3>1, <3>2, Zenon
  <2>5. Ends(r)
    BY <1>1, <2>3, <2>4 DEF Ends
  <2>6. QED
    BY <2>2, <2>5
<1>5. ASSUME NEW stage \in {"poll", "refuse"}, Goto(r, q, stage)
      PROVE  Alone(r) /\ Ends(r)
  <2>1. /\ req' \in [Requests -> Locals]
        /\ req'[r] = [q EXCEPT !.at = stage]
        /\ \A p \in Requests \ {r} : req'[p] = req[p]
    <3>1. stage \in Stages
      BY DEF Stages
    <3>2. QED
      BY <1>5, <3>1, GotoMoves
  <2>2. Alone(r)
    BY <1>2, <1>3, <2>1 DEF Alone, TypeInv, StoreOK
  <2>3. /\ req'[r].at = stage /\ req'[r].code = 0 /\ req'[r].told = ""
        /\ req'[r].task = q.task
    BY <1>1, <2>1 DEF Locals
  <2>4. /\ req[r].at \in {"enqueue", "poll"} /\ req'[r].at \in {"poll", "refuse"}
        /\ req'[r].task = req[r].task
    BY <1>1, <2>3
  <2>5. QED
    BY <1>1, <2>2, <2>3, <2>4 DEF Ends
<1>6. CASE Poll(r)
  <2>1. PICK n : n = [Answered(q, 200) EXCEPT !.told = status[q.task]]
    OBVIOUS
  <2>2. Settled(q.task) /\ req' = [req EXCEPT ![r] = n]
    BY <1>1, <1>6, <2>1 DEF Poll
  <2>3. status[q.task] \in Final
    BY <2>2 DEF Settled, Final
  <2>4. /\ n \in Locals /\ n.at = "answered" /\ n.code = 200 /\ n.task = q.task
        /\ n.told = status[q.task]
    <3>1. PICK m : m = Answered(q, 200)
      OBVIOUS
    <3>2. m \in Locals /\ m.at = "answered" /\ m.code = 200 /\ m.task = q.task
      <4>1. PICK code \in Codes : code = 200
        BY DEF Codes
      <4>2. /\ Answered(q, code) \in Locals
            /\ Answered(q, code).at = "answered" /\ Answered(q, code).code = code
            /\ Answered(q, code).task = q.task
        BY AnsweredTypes
      <4>3. QED
        BY <3>1, <4>1, <4>2
    <3>3. n = [m EXCEPT !.told = status[q.task]]
      BY <2>1, <3>1
    <3>4. QED
      BY <2>3, <3>2, <3>3 DEF Locals
  <2>5. /\ req' \in [Requests -> Locals] /\ req'[r] = n
        /\ \A p \in Requests \ {r} : req'[p] = req[p]
    BY <2>2, <2>4 DEF TypeInv
  <2>6. Alone(r)
    BY <1>2, <1>3, <2>5 DEF Alone, TypeInv, StoreOK
  <2>7. /\ req'[r].task = q.task /\ req'[r].at = "answered" /\ req'[r].code = 200
        /\ req'[r].told = status[q.task] /\ req'[r].told \in Final
    BY <2>3, <2>4, <2>5
  <2>8. QED
    BY <1>1, <2>6, <2>7 DEF Ends
<1>7. CASE Enqueue(r) \/ WaitEnds(r)
  <2>1. \/ \E stage \in {"poll", "refuse"} : Goto(r, q, stage)
        \/ \E code \in Codes : code \in {202, 500} /\ Answer(r, q, code)
    <3>1. Goto(r, q, "poll") \/ Goto(r, q, "refuse") \/ Answer(r, q, 202) \/ Answer(r, q, 500)
      BY <1>1, <1>7 DEF Enqueue, WaitEnds
    <3>2. QED
      BY <3>1 DEF Codes
  <2>2. QED
    BY <1>4, <1>5, <2>1
<1>8. QED
  BY <1>6, <1>7

\* Refusing.
LEMMA RefuseSteps ==
  ASSUME TypeInv, FlowInv, NEW r \in Requests, Refuse(r)
  PROVE  Alone(r) /\ Refuses(r)
<1>0. PICK q \in Locals : q = req[r]
  BY DEF TypeInv
<1>1. /\ q.at = "refuse" /\ q.task \in Tasks
      /\ UNCHANGED <<sessions, deleted, session, source>>
  BY <1>0 DEF Refuse, At, FlowInv, FlowOK
<1>2. faults' \in Nat /\ (faults' = 0 => faults = 0)
  BY FaultMoves DEF Refuse
<1>3. StoreOK' /\ \A t \in Tasks : Ruled(t)
  <2>1. CASE Overrule(q.task) /\ UNCHANGED pending
    BY <1>1, <1>2, <2>1, OverruleMoves DEF TypeInv, StoreOK
  <2>2. CASE UNCHANGED lifecycle
    BY <1>1, <1>2, <2>2 DEF lifecycle, TypeInv, StoreOK, Ruled
  <2>3. QED
    BY <1>0, <2>1, <2>2 DEF Refuse
<1>4. PICK code \in Codes : code = 503 /\ Answer(r, q, code)
  BY <1>0 DEF Refuse, Codes
<1>5. AnsweredWith(r, q, code)
  BY <1>4, AnswerMoves
<1>6. Alone(r)
  BY <1>2, <1>3, <1>5 DEF AnsweredWith, Alone, TypeInv, StoreOK
<1>7. /\ req'[r].task = q.task /\ req'[r].at = "answered" /\ req'[r].code = 503
      /\ req'[r].told = ""
  BY <1>4, <1>5, Zenon DEF AnsweredWith
<1>8. QED
  BY <1>0, <1>1, <1>3, <1>6, <1>7 DEF Refuses

\* A chain that has become longer by a task, and one that is told.
Longer(q) == [q EXCEPT !.chain = Append(@, q.next), !.next = source[q.next]]
ToldChain(q, cut) ==
  [Answered(q, 200) EXCEPT !.depth = q.depth, !.chain = q.chain, !.cut = cut]

LEMMA LongerTypes ==
  ASSUME StoreOK, NEW q \in Locals, q.next # None
  PROVE  /\ Longer(q) \in Locals
         /\ Longer(q).chain = Append(q.chain, q.next) /\ Longer(q).next = source[q.next]
         /\ Longer(q).depth = q.depth /\ Longer(q).task = q.task
         /\ Longer(q).told = q.told /\ Longer(q).code = q.code
<1>1. q.next \in Tasks /\ q.chain \in Seq(Tasks)
  BY DEF Locals
<1>2. Append(q.chain, q.next) \in Seq(Tasks) /\ source[q.next] \in Tasks \cup {None}
  BY <1>1, AppendProperties DEF StoreOK
<1>3. QED
  BY <1>2 DEF Longer, Locals

LEMMA ToldTypes ==
  ASSUME NEW q \in Locals, NEW cut \in BOOLEAN
  PROVE  /\ ToldChain(q, cut) \in Locals
         /\ ToldChain(q, cut).at = "answered" /\ ToldChain(q, cut).code = 200
         /\ ToldChain(q, cut).told = "" /\ ToldChain(q, cut).task = q.task
         /\ ToldChain(q, cut).chain = q.chain /\ ToldChain(q, cut).depth = q.depth
         /\ ToldChain(q, cut).cut = cut
<1>1. PICK code \in Codes : code = 200
  BY DEF Codes
<1>2. PICK m \in Locals : /\ m = Answered(q, code)
                          /\ m.at = "answered" /\ m.code = code
                          /\ m.told = "" /\ m.task = q.task
  <2>1. /\ Answered(q, code) \in Locals
        /\ Answered(q, code).at = "answered" /\ Answered(q, code).code = code
        /\ Answered(q, code).told = "" /\ Answered(q, code).task = q.task
    BY AnsweredTypes
  <2>2. QED
    BY <2>1
<1>3. ToldChain(q, cut) = [m EXCEPT !.depth = q.depth, !.chain = q.chain, !.cut = cut]
  BY <1>1, <1>2 DEF ToldChain
<1>4. PICK depth \in Nat, chain \in Seq(Tasks) : depth = q.depth /\ chain = q.chain
  BY DEF Locals
<1>5. PICK k : k = [m EXCEPT !.depth = depth, !.chain = chain]
  OBVIOUS
<1>6. /\ k \in Locals /\ k.at = m.at /\ k.code = m.code /\ k.told = m.told /\ k.task = m.task
      /\ k.depth = depth /\ k.chain = chain
  <2>1. [m EXCEPT !.depth = depth] \in Locals
    <3>1. m \in Locals
      BY <1>2
    <3>2. QED
      BY <3>1, Zenon DEF Locals
  <2>2. k \in Locals
    BY <1>5, <2>1, Zenon DEF Locals
  <2>3. QED
    BY <1>2, <1>5, <2>2 DEF Locals
<1>7. PICK n : n = [k EXCEPT !.cut = cut]
  OBVIOUS
<1>8. /\ n \in Locals /\ n.at = k.at /\ n.code = k.code /\ n.told = k.told /\ n.task = k.task
      /\ n.depth = k.depth /\ n.chain = k.chain /\ n.cut = cut
  <2>1. k \in Locals
    BY <1>6
  <2>2. n \in Locals
    BY <2>1, <1>7, Zenon DEF Locals
  <2>3. QED
    BY <2>1, <1>7, Zenon DEF Locals
<1>9. ToldChain(q, cut) = n
  BY <1>3, <1>4, <1>5, <1>7
<1>10. /\ k.at = "answered" /\ k.code = code /\ k.told = "" /\ k.task = q.task
       /\ k.depth = q.depth /\ k.chain = q.chain
  BY <1>2, <1>4, <1>6
<1>11. /\ n.at = k.at /\ n.code = k.code /\ n.told = k.told /\ n.task = k.task
       /\ n.depth = k.depth /\ n.chain = k.chain
  BY <1>8
<1>12. /\ n.at = "answered" /\ n.code = 200 /\ n.told = "" /\ n.task = q.task
       /\ n.depth = q.depth /\ n.chain = q.chain
  BY <1>1, <1>10, <1>11
<1>13. n \in Locals /\ n.cut = cut
  BY <1>8
<1>14. QED
  BY <1>9, <1>12, <1>13, Zenon

\* What the answer to request r tells of a chain q.
Tells(r, q, cut) ==
  /\ req'[r].at = "answered" /\ req'[r].code = 200 /\ req'[r].told = ""
  /\ req'[r].task = q.task /\ req'[r].chain = q.chain /\ req'[r].depth = q.depth
  /\ req'[r].cut = cut

LEMMA ToldMoves ==
  ASSUME TypeInv, NEW r \in Requests, NEW q \in Locals, NEW cut \in BOOLEAN,
         AnswerChain(r, q, cut)
  PROVE  /\ req' \in [Requests -> Locals] /\ Tells(r, q, cut)
         /\ \A p \in Requests \ {r} : req'[p] = req[p]
<1>1. PICK n : n = ToldChain(q, cut)
  OBVIOUS
<1>2. req' = [req EXCEPT ![r] = n]
  BY <1>1 DEF AnswerChain, ToldChain
<1>3. /\ n \in Locals
      /\ n.at = "answered" /\ n.code = 200 /\ n.told = "" /\ n.task = q.task
      /\ n.chain = q.chain /\ n.depth = q.depth /\ n.cut = cut
  <2>1. /\ ToldChain(q, cut) \in Locals
        /\ ToldChain(q, cut).at = "answered" /\ ToldChain(q, cut).code = 200
        /\ ToldChain(q, cut).told = "" /\ ToldChain(q, cut).task = q.task
        /\ ToldChain(q, cut).chain = q.chain /\ ToldChain(q, cut).depth = q.depth
        /\ ToldChain(q, cut).cut = cut
    BY ToldTypes
  <2>2. QED
    BY <1>1, <2>1, Zenon
<1>4. /\ req' \in [Requests -> Locals] /\ req'[r] = n
      /\ \A p \in Requests \ {r} : req'[p] = req[p]
  <2>1. n \in Locals
    BY <1>3
  <2>2. QED
    BY <1>2, <2>1 DEF TypeInv
<1>5. Tells(r, q, cut)
  BY <1>3, <1>4, Zenon DEF Tells
<1>6. QED
  BY <1>4, <1>5

\* Request r has read one more task of the chain q.
Grown(r, q) ==
  /\ q.next \in Tasks /\ Exists(q.next) /\ q.next \notin Visited(q) /\ ~Full(q)
  /\ req'[r].at = "chain" /\ req'[r].code = 0 /\ req'[r].told = "" /\ req'[r].task = None
  /\ req'[r].chain = Append(q.chain, q.next) /\ req'[r].next = source[q.next]
  /\ req'[r].depth = q.depth

\* What reading one more task comes to.
LEMMA GrowMoves ==
  ASSUME TypeInv, NEW r \in Requests, NEW q \in Locals, ChainGrows(r, q),
         UNCHANGED <<sessions, deleted, tasks>>,
         q.told = "", q.code = 0, q.task = None
  PROVE  /\ Alone(r)
         /\ \/ Grown(r, q)
            \/ q.chain = <<>> /\ \E code \in Codes : code = 404 /\ AnsweredWith(r, q, code)
            \/ /\ q.chain # <<>> /\ Tells(r, q, TRUE) /\ q.next # None
               /\ faults' # 0 \/ ~Exists(q.next)
<1>1. faults' \in Nat /\ (faults' = 0 => faults = 0)
  BY FaultMoves DEF ChainGrows
<1>2. StoreOK'
  BY <1>1 DEF TypeInv, StoreOK, tasks, lifecycle
<1>3. ~Full(q) /\ q.next # None /\ q.next \notin Visited(q)
  BY DEF ChainGrows
<1>4. CASE Exists(q.next) /\ Goto(r, Longer(q), "chain")
  <2>1. PICK n \in Locals : /\ n = Longer(q)
                            /\ n.chain = Append(q.chain, q.next) /\ n.next = source[q.next]
                            /\ n.depth = q.depth /\ n.task = None /\ n.told = "" /\ n.code = 0
    BY <1>3, LongerTypes DEF TypeInv
  <2>2. PICK stage \in Stages : stage = "chain" /\ Goto(r, n, stage)
    BY <1>4, <2>1 DEF Stages
  <2>3. /\ req' \in [Requests -> Locals]
        /\ req'[r] = [n EXCEPT !.at = stage]
        /\ \A p \in Requests \ {r} : req'[p] = req[p]
    <3>1. Goto(r, n, stage)
      BY <2>2
    <3>2. QED
      BY <3>1, GotoMoves
  <2>4. Alone(r)
    BY <1>1, <1>2, <2>3 DEF Alone, TypeInv, StoreOK
  <2>5. q.next \in Tasks
    BY <1>3 DEF Locals
  <2>6. Grown(r, q)
    BY <1>3, <1>4, <2>1, <2>2, <2>3, <2>5 DEF Grown, Locals
  <2>7. QED
    BY <2>4, <2>6
<1>5. CASE q.chain = <<>> /\ Answer(r, q, 404)
  <2>1. PICK code \in Codes : code = 404 /\ Answer(r, q, code)
    BY <1>5 DEF Codes
  <2>2. AnsweredWith(r, q, code)
    <3>1. Answer(r, q, code)
      BY <2>1
    <3>2. QED
      BY <3>1, AnswerMoves
  <2>3. Alone(r)
    BY <1>1, <1>2, <2>2 DEF AnsweredWith, Alone, TypeInv, StoreOK
  <2>4. \E c \in Codes : c = 404 /\ AnsweredWith(r, q, c)
    <3> WITNESS code \in Codes
    <3> QED
      BY <2>1, <2>2
  <2>5. QED
    BY <1>5, <2>3, <2>4
<1>6. CASE /\ StoreFails \/ (StoreOk /\ ~Exists(q.next))
           /\ q.chain # <<>> /\ AnswerChain(r, q, TRUE)
  <2>1. /\ req' \in [Requests -> Locals] /\ Tells(r, q, TRUE)
        /\ \A p \in Requests \ {r} : req'[p] = req[p]
    BY <1>6, ToldMoves
  <2>2. Alone(r)
    BY <1>1, <1>2, <2>1 DEF Alone, TypeInv, StoreOK
  <2>3. faults' # 0 \/ ~Exists(q.next)
    <3>1. CASE StoreFails
      BY <3>1, FaultMoves
    <3>2. QED
      BY <1>6, <3>1
  <2>4. QED
    BY <1>3, <1>6, <2>1, <2>2, <2>3
<1>7. QED
  BY <1>4, <1>5, <1>6 DEF ChainGrows, Longer

\* Following the chain of replays of a task.
LEMMA ChainSteps ==
  ASSUME TypeInv, FlowInv, NEW r \in Requests, GetChain(r)
  PROVE  Alone(r) /\ Follows(r)
<1>1. UNCHANGED <<sessions, deleted, tasks>>
  BY DEF GetChain
<1>2. ASSUME NEW t \in Tasks, NEW depth \in Depths, At(r, "new"),
             ChainGrows(r, [Arrival("chain") EXCEPT !.before = {}, !.next = t, !.depth = depth])
      PROVE  Alone(r) /\ Follows(r)
  <2>1. PICK q : q = [Arrival("chain") EXCEPT !.before = {}, !.next = t, !.depth = depth]
    OBVIOUS
  <2>2. q \in Locals
    BY <2>1, ArrivalTypes DEF Locals
  <2>3. /\ q.told = "" /\ q.code = 0 /\ q.task = None /\ q.next = t /\ q.depth = depth
        /\ q.chain = <<>>
    BY <2>1 DEF Arrival, NewRequest
  <2>4. /\ Alone(r)
        /\ \/ Grown(r, q)
           \/ q.chain = <<>> /\ \E code \in Codes : code = 404 /\ AnsweredWith(r, q, code)
           \/ q.chain # <<>> /\ Tells(r, q, TRUE)
    BY <1>1, <1>2, <2>1, <2>2, <2>3, GrowMoves
  <2>5. req[r].at = "new"
    BY <1>2 DEF At
  <2>6. CASE Grown(r, q)
    <3>1. BeginsChain(r)
      BY <2>3, <2>5, <2>6 DEF Grown, BeginsChain
    <3>2. QED
      BY <1>1, <2>4, <2>6, <3>1 DEF Grown, Follows
  <2>7. CASE \E code \in Codes : code = 404 /\ AnsweredWith(r, q, code)
    BY <1>1, <2>3, <2>4, <2>5, <2>7 DEF AnsweredWith, Follows
  <2>8. QED
    BY <2>3, <2>4, <2>6, <2>7
<1>3. PICK q \in Locals : q = req[r]
  BY DEF TypeInv
<1>4. ASSUME At(r, "chain")
      PROVE  q.told = "" /\ q.code = 0 /\ q.task = None /\ q.at = "chain"
  BY <1>3, <1>4 DEF At, FlowInv, FlowOK
<1>5. ASSUME At(r, "chain"), ChainGrows(r, q)
      PROVE  Alone(r) /\ Follows(r)
  <2>1. /\ Alone(r)
        /\ \/ Grown(r, q)
           \/ q.chain = <<>> /\ \E code \in Codes : code = 404 /\ AnsweredWith(r, q, code)
           \/ /\ q.chain # <<>> /\ Tells(r, q, TRUE) /\ q.next # None
              /\ faults' # 0 \/ ~Exists(q.next)
    BY <1>1, <1>4, <1>5, GrowMoves
  <2>2. CASE Grown(r, q)
    BY <1>1, <1>3, <1>4, <1>5, <2>1, <2>2 DEF Grown, Follows, GrowsChain
  <2>3. CASE \E code \in Codes : code = 404 /\ AnsweredWith(r, q, code)
    BY <1>1, <1>3, <1>4, <1>5, <2>1, <2>3 DEF AnsweredWith, Follows
  <2>4. CASE Tells(r, q, TRUE) /\ q.next # None /\ (faults' # 0 \/ ~Exists(q.next))
    BY <1>1, <1>3, <1>4, <1>5, <2>1, <2>4 DEF Tells, Follows, TellsChain
  <2>5. QED
    BY <2>1, <2>2, <2>3, <2>4
<1>6. ASSUME At(r, "chain"), ChainEnds(r, q)
      PROVE  Alone(r) /\ Follows(r)
  <2>1. /\ Full(q) \/ q.next = None \/ q.next \in Visited(q)
        /\ AnswerChain(r, q, Cut(q)) /\ faults' = faults
    BY <1>6 DEF ChainEnds, NoFault
  <2>2. Cut(q) \in BOOLEAN
    BY DEF Cut
  <2>3. /\ req' \in [Requests -> Locals] /\ Tells(r, q, Cut(q))
        /\ \A p \in Requests \ {r} : req'[p] = req[p]
    BY <2>1, <2>2, ToldMoves
  <2>4. Alone(r)
    BY <1>1, <2>1, <2>3 DEF Alone, TypeInv, StoreOK, tasks, lifecycle
  <2>5. TellsChain(r)
    BY <1>3, <1>4, <1>6, <2>1, <2>3 DEF Tells, TellsChain, Cut
  <2>6. QED
    BY <1>1, <1>4, <1>6, <2>3, <2>4, <2>5 DEF Tells, Follows
<1>7. QED
  BY <1>2, <1>3, <1>5, <1>6 DEF GetChain

-----------------------------------------------------------------------------
(* What every step does *)

\* What is written once stays: sessions are not forgotten, and tasks stay with
\* their source.
Stands ==
  /\ deleted \subseteq deleted' /\ sessions \cup deleted \subseteq sessions' \cup deleted'
  /\ sessions \cap deleted = {} => sessions' \cap deleted' = {}
  /\ \A t \in Tasks : /\ Ruled(t)
                      /\ status[t] # "absent" => status'[t] # "absent" /\ source'[t] = source[t]
  /\ faults' = 0 => faults = 0

\* The steps of the handlers.
Handled(r) ==
  Alone(r) /\ (Resolves(r) \/ Creates(r) \/ Ends(r) \/ Refuses(r) \/ Follows(r))

LEMMA HandlerStands ==
  ASSUME TypeInv, NEW r \in Requests, Handled(r)
  PROVE  Stands
<1>1. faults' = 0 => faults = 0
  BY DEF Handled, Alone
<1>2. CASE Resolves(r)
  BY <1>1, <1>2 DEF Resolves, Stands, Ruled, tasks, lifecycle
<1>3. CASE Creates(r)
  <2>1. UNCHANGED <<sessions, deleted>>
    BY <1>3 DEF Creates
  <2>2. CASE UNCHANGED tasks
    BY <1>1, <2>1, <2>2 DEF Stands, Ruled, tasks, lifecycle
  <2>3. ASSUME NEW t \in Tasks, Insert(r, t)
        PROVE  Stands
    <3>1. /\ status[t] = "absent" /\ status'[t] = "queued"
          /\ \A u \in Tasks \ {t} : status'[u] = status[u] /\ source'[u] = source[u]
          /\ UNCHANGED <<working, overruled>>
      BY <2>3, InsertMoves
    <3>2. QED
      BY <1>1, <2>1, <3>1 DEF Stands, Ruled
  <2>4. QED
    BY <1>3, <2>2, <2>3 DEF Creates
<1>4. CASE Ends(r)
  BY <1>1, <1>4 DEF Ends, Stands, Ruled, tasks, lifecycle
<1>5. CASE Follows(r)
  BY <1>1, <1>5 DEF Follows, Stands, Ruled, tasks, lifecycle
<1>6. CASE Refuses(r)
  <2>1. /\ UNCHANGED <<sessions, deleted, source>>
        /\ \A t \in Tasks : Ruled(t)
    BY <1>6 DEF Refuses
  <2>2. \A t \in Tasks : status[t] # "absent" => status'[t] # "absent"
    BY <2>1 DEF Ruled
  <2>3. QED
    BY <1>1, <2>1, <2>2 DEF Stands
<1>7. QED
  BY <1>2, <1>3, <1>4, <1>5, <1>6 DEF Handled

LEMMA Moves ==
  ASSUME TypeInv, FlowInv, [Next]_vars
  PROVE  TypeInv' /\ Stands /\ (UNCHANGED <<req, source>> \/ \E r \in Requests : Handled(r))
<1>1. ASSUME NEW r \in Requests, Handled(r)
      PROVE  TypeInv' /\ Stands
  BY <1>1, HandlerStands DEF Handled, Alone
<1>2. ASSUME NEW r \in Requests,
             \/ PostTask(r) \/ PostReplay(r) \/ MintForReplay(r) \/ EnsureForReplay(r)
             \/ Create(r) \/ Enqueue(r) \/ Refuse(r) \/ Poll(r) \/ WaitEnds(r) \/ GetChain(r)
      PROVE  Handled(r)
  <2>1. CASE PostTask(r) \/ PostReplay(r) \/ MintForReplay(r) \/ EnsureForReplay(r)
    BY <2>1, ResolveSteps DEF Handled
  <2>2. CASE Create(r)
    BY <2>2, CreateSteps DEF Handled
  <2>3. CASE Enqueue(r) \/ Poll(r) \/ WaitEnds(r)
    BY <2>3, EndSteps DEF Handled
  <2>4. CASE GetChain(r)
    BY <2>4, ChainSteps DEF Handled
  <2>5. CASE Refuse(r)
    BY <2>5, RefuseSteps DEF Handled
  <2>6. QED
    BY <1>2, <2>1, <2>2, <2>3, <2>4, <2>5
<1>3. CASE PostSession
  <2>1. /\ UNCHANGED <<deleted, tasks, req, faults>>
        /\ \E s \in Fresh : sessions' = sessions \cup {s}
    BY <1>3 DEF PostSession
  <2>2. TypeInv'
    BY <2>1 DEF TypeInv, StoreOK, tasks, lifecycle, Fresh
  <2>3. Stands
    BY <2>1 DEF Stands, Ruled, tasks, lifecycle, Fresh
  <2>4. QED
    BY <2>1, <2>2, <2>3 DEF tasks
<1>4. CASE DeleteSession
  <2>1. /\ UNCHANGED <<tasks, req, faults>>
        /\ \E s \in sessions : sessions' = sessions \ {s} /\ deleted' = deleted \cup {s}
    BY <1>4 DEF DeleteSession
  <2>2. TypeInv'
    BY <2>1 DEF TypeInv, StoreOK, tasks, lifecycle
  <2>3. Stands
    BY <2>1 DEF Stands, Ruled, tasks, lifecycle
  <2>4. QED
    BY <2>1, <2>2, <2>3 DEF tasks
<1>5. CASE Run
  <2>1. /\ UNCHANGED <<sessions, deleted, session, source, req>>
        /\ status' \in [Tasks -> Statuses] /\ working' \in SUBSET Tasks
        /\ pending' \in SUBSET Tasks /\ overruled' \in SUBSET Tasks
        /\ faults' \in Nat /\ (faults' = 0 => faults = 0)
        /\ \A t \in Tasks : Ruled(t)
    BY <1>5, RunMoves DEF TypeInv
  <2>2. TypeInv'
    BY <2>1 DEF TypeInv, StoreOK
  <2>3. Stands
    BY <2>1 DEF Stands, Ruled
  <2>4. QED
    BY <2>1, <2>2, <2>3
<1>6. CASE UNCHANGED vars
  BY <1>6 DEF vars, tasks, lifecycle, TypeInv, StoreOK, Stands, Ruled
<1>7. QED
  BY <1>1, <1>2, <1>3, <1>4, <1>5, <1>6 DEF Next

LEMMA FlowStep ==
  ASSUME TypeInv, FlowInv, [Next]_vars
  PROVE  TypeInv' /\ FlowInv'
<1>1. TypeInv' /\ Stands /\ (UNCHANGED req \/ \E r \in Requests : Handled(r))
  BY Moves
<1>2. ASSUME NEW p \in Requests, req'[p] = req[p]
      PROVE  FlowOK(p)'
  <2>1. FlowOK(p) /\ req[p].src \in Tasks \cup {None}
    BY DEF FlowInv, TypeInv, Locals
  <2>2. req[p].src # None => (Exists(req[p].src) => status'[req[p].src] # "absent")
    BY <1>1, <2>1 DEF Stands, Exists
  <2>3. QED
    BY <1>1, <1>2, <2>1, <2>2 DEF FlowOK, Stands, Exists
<1>3. CASE UNCHANGED req
  BY <1>1, <1>2, <1>3 DEF FlowInv
<1>4. ASSUME NEW r \in Requests, Handled(r)
      PROVE  FlowInv'
  <2>1. FlowOK(r)'
    <3>1. CASE Resolves(r)
      BY <3>1 DEF Resolves, FlowOK, Exists, tasks, lifecycle
    <3>2. CASE Creates(r)
      BY <3>2 DEF Creates, FlowOK
    <3>3. CASE Ends(r)
      <4>1. FlowOK(r)
        BY DEF FlowInv
      <4>2. QED
        BY <3>3, <4>1 DEF Ends, FlowOK
    <3>4. CASE Follows(r)
      BY <3>4 DEF Follows, BeginsChain, GrowsChain, TellsChain, FlowOK
    <3>5. CASE Refuses(r)
      BY <3>5 DEF Refuses, FlowOK
    <3>6. QED
      BY <1>4, <3>1, <3>2, <3>3, <3>4, <3>5 DEF Handled
  <2>2. \A p \in Requests \ {r} : req'[p] = req[p]
    BY <1>4 DEF Handled, Alone
  <2>3. QED
    BY <1>2, <2>1, <2>2 DEF FlowInv
<1>5. QED
  BY <1>1, <1>3, <1>4

LEMMA FlowInit ==
  ASSUME Init
  PROVE  TypeInv /\ FlowInv
<1>1. NewRequest \in Locals
  BY EmptySeq DEF NewRequest, Locals, Kinds, Stages, Codes
<1>2. StoreOK
  BY DEF Init, StoreOK, Statuses
<1>3. /\ NewRequest.at = "new" /\ NewRequest.told = "" /\ NewRequest.code = 0
      /\ NewRequest.task = None
  BY DEF NewRequest
<1>4. QED
  BY <1>1, <1>2, <1>3 DEF Init, TypeInv, FlowInv, FlowOK

\* Every variable keeps its type, and where a handler is determines what it
\* holds (tasks.go:202-262, 314-356, 399-446, 500-524).
THEOREM FlowInvariant == Spec => [](TypeInv /\ FlowInv)
<1>1. Init => TypeInv /\ FlowInv
  BY FlowInit
<1>2. TypeInv /\ FlowInv /\ [Next]_vars => (TypeInv /\ FlowInv)'
  BY FlowStep
<1>3. QED
  BY <1>1, <1>2, PTL DEF Spec

-----------------------------------------------------------------------------
(* A task has its session *)

\* A request that is about to insert a task has found its session since it
\* arrived.
SessionFound(r) ==
  req[r].at = "create" => req[r].sess \in (sessions \cup deleted) \ req[r].before
SessInv ==
  /\ sessions \cap deleted = {}
  /\ \A r \in Requests : SessionFound(r)

LEMMA SessStep ==
  ASSUME TypeInv, FlowInv, SessInv, [Next]_vars
  PROVE  SessInv'
<1>1. TypeInv' /\ Stands /\ (UNCHANGED req \/ \E r \in Requests : Handled(r))
  BY Moves
<1>2. sessions' \cap deleted' = {}
  BY <1>1 DEF SessInv, Stands
<1>3. ASSUME NEW p \in Requests, req'[p] = req[p]
      PROVE  SessionFound(p)'
  BY <1>1, <1>3 DEF SessInv, SessionFound, Stands
<1>4. ASSUME NEW r \in Requests, Handled(r)
      PROVE  SessInv'
  <2>1. SessionFound(r)'
    <3>1. CASE Resolves(r)
      BY <3>1 DEF Resolves, SessInv, SessionFound
    <3>2. CASE Creates(r) \/ Ends(r) \/ Refuses(r) \/ Follows(r)
      BY <3>2 DEF Creates, Ends, Refuses, Follows, BeginsChain, GrowsChain, TellsChain, SessionFound
    <3>3. QED
      BY <1>4, <3>1, <3>2 DEF Handled
  <2>2. \A p \in Requests \ {r} : req'[p] = req[p]
    BY <1>4 DEF Handled, Alone
  <2>3. QED
    BY <1>2, <1>3, <2>1, <2>2 DEF SessInv
<1>5. QED
  BY <1>1, <1>2, <1>3, <1>4 DEF SessInv

\* The step that gives a request its task gives the task that session.
BehindTask(r) ==
  LET t == req'[r].task IN
  t # req[r].task => session'[t] \in (sessions \cup deleted) \ req[r].before

LEMMA BehindStep ==
  ASSUME TypeInv, FlowInv, SessInv, [Next]_vars, NEW p \in Requests
  PROVE  BehindTask(p)
<1>1. UNCHANGED req \/ \E r \in Requests : Handled(r)
  BY Moves
<1>2. CASE req'[p] = req[p]
  BY <1>2 DEF BehindTask
<1>3. ASSUME Handled(p)
      PROVE  BehindTask(p)
  <2>1. FlowOK(p) /\ SessionFound(p)
    BY DEF FlowInv, SessInv
  <2>2. CASE Resolves(p)
    BY <2>1, <2>2 DEF Resolves, FlowOK, BehindTask
  <2>3. CASE Creates(p)
    <3>1. ASSUME NEW t \in Tasks, Insert(p, t), req'[p].task = t
          PROVE  BehindTask(p)
      <4>1. session'[t] = req[p].sess
        BY <3>1, InsertMoves
      <4>2. QED
        BY <2>1, <2>3, <3>1, <4>1 DEF Creates, SessionFound, BehindTask
    <3>2. CASE req'[p].task = None
      BY <2>1, <2>3, <3>2 DEF Creates, FlowOK, BehindTask
    <3>3. QED
      BY <2>3, <3>1, <3>2 DEF Creates
  <2>4. CASE Ends(p) \/ Refuses(p)
    BY <2>4 DEF Ends, Refuses, BehindTask
  <2>5. CASE Follows(p)
    BY <2>1, <2>5 DEF Follows, BeginsChain, GrowsChain, TellsChain, FlowOK, BehindTask
  <2>6. QED
    BY <1>3, <2>2, <2>3, <2>4, <2>5 DEF Handled
<1>4. QED
  BY <1>1, <1>2, <1>3 DEF Handled, Alone

\* Nobody gets a task in a session that was deleted before the request arrived,
\* however many sessions come and go between looking one up and inserting the
\* task (tasks.go:211-218).
THEOREM SessionStandsBehindTask == Spec => SessionBehindTask
<1>1. Init => SessInv
  <2>1. NewRequest.at = "new"
    BY DEF NewRequest
  <2>2. QED
    BY <2>1 DEF Init, SessInv, SessionFound
<1>2. TypeInv /\ FlowInv /\ SessInv /\ [Next]_vars => SessInv'
  BY SessStep
<1>3. TypeInv /\ FlowInv /\ SessInv /\ [Next]_vars =>
        [\A r \in Requests :
           LET t == req'[r].task IN
           t # req[r].task => session'[t] \in (sessions \cup deleted) \ req[r].before]_vars
  BY BehindStep DEF BehindTask
<1>4. QED
  BY <1>1, <1>2, <1>3, FlowInvariant, PTL DEF Spec, SessionBehindTask

-----------------------------------------------------------------------------
(* What clients are told of their tasks *)

\* A worker has in hand what it runs, or what was overruled meanwhile.
WorkInv ==
  \A t \in working : status[t] = "running" \/ (status[t] = "failed" /\ t \in overruled)

\* What was told of task t, that its status is s, is true, or was overruled.
Kept(s, t) ==
  /\ status[t] = s \/ (t \in overruled /\ s # "canceled")
  /\ s = "completed" => status[t] \in {"completed", "failed"} /\ t \notin working

LEMMA WorkStep ==
  ASSUME TypeInv, TypeInv', Stands, WorkInv
  PROVE  WorkInv'
<1> SUFFICES ASSUME NEW t \in Tasks, t \in working'
             PROVE  status'[t] = "running" \/ (status'[t] = "failed" /\ t \in overruled')
  BY DEF WorkInv, TypeInv, StoreOK
<1>1. Ruled(t)
  BY DEF Stands
<1>2. t \in working => status[t] = "running" \/ (status[t] = "failed" /\ t \in overruled)
  BY DEF WorkInv
<1>3. QED
  BY <1>1, <1>2 DEF Ruled

LEMMA KeptStep ==
  ASSUME Stands, WorkInv, NEW t \in Tasks, NEW s \in Final, Kept(s, t)
  PROVE  Kept(s, t)'
<1>1. Ruled(t)
  BY DEF Stands
<1>2. t \in working => status[t] = "running" \/ (status[t] = "failed" /\ t \in overruled)
  BY DEF WorkInv
<1>3. CASE s = "completed"
  BY <1>1, <1>3 DEF Kept, Ruled
<1>4. CASE s = "failed"
  BY <1>1, <1>2, <1>4 DEF Kept, Ruled
<1>5. CASE s = "canceled"
  BY <1>1, <1>5 DEF Kept, Ruled
<1>6. QED
  BY <1>3, <1>4, <1>5 DEF Final

ToldStands(r) ==
  LET q == req[r] IN
  q.told # "" => q.task \in Tasks /\ q.told \in Final /\ Kept(q.told, q.task)
Rejected(r) == req[r].code = 400 \/ req[r].code = 404
RejectedWhole(r) == Rejected(r) /\ faults = 0 => req[r].task = None
AnswerInv == \A r \in Requests : ToldStands(r) /\ RejectedWhole(r)

LEMMA AnswerStep ==
  ASSUME TypeInv, FlowInv, WorkInv, AnswerInv, [Next]_vars
  PROVE  WorkInv' /\ AnswerInv'
<1>1. TypeInv' /\ Stands /\ (UNCHANGED req \/ \E r \in Requests : Handled(r))
  BY Moves
<1>2. ASSUME NEW p \in Requests, req'[p] = req[p]
      PROVE  ToldStands(p)' /\ RejectedWhole(p)'
  <2>1. ToldStands(p) /\ RejectedWhole(p)
    BY DEF AnswerInv
  <2>2. ToldStands(p)'
    BY <1>1, <1>2, <2>1, KeptStep DEF ToldStands
  <2>3. RejectedWhole(p)'
    BY <1>1, <1>2, <2>1 DEF RejectedWhole, Rejected, Stands
  <2>4. QED
    BY <2>2, <2>3
<1>3. ASSUME NEW r \in Requests, Handled(r)
      PROVE  AnswerInv'
  <2>1. FlowOK(r)
    BY DEF FlowInv
  <2>2. ToldStands(r)' /\ RejectedWhole(r)'
    <3>1. CASE Resolves(r)
      BY <3>1 DEF Resolves, ToldStands, RejectedWhole
    <3>2. CASE Creates(r)
      <4>1. ToldStands(r)'
        BY <3>2 DEF Creates, ToldStands
      <4>2. RejectedWhole(r)'
        <5>1. req'[r].code = 0 \/ faults' # 0 \/ req'[r].task = None
          BY <3>2 DEF Creates
        <5>2. req'[r].code = 0 => ~Rejected(r)'
          BY DEF Rejected
        <5>3. QED
          BY <5>1, <5>2 DEF RejectedWhole
      <4>3. QED
        BY <4>1, <4>2
    <3>3. CASE Ends(r)
      <4>1. ToldStands(r)'
        <5>1. CASE req'[r].told = ""
          BY <5>1 DEF ToldStands
        <5>2. CASE req'[r].told # ""
          <6>1. PICK t \in Tasks : t = req[r].task
            BY <2>1, <3>3 DEF Ends, FlowOK
          <6>2. req'[r].task = t /\ req'[r].told \in Final /\ req'[r].told = status[t]
            BY <3>3, <5>2, <6>1 DEF Ends
          <6>3. t \notin working \/ status[t] # "completed"
            BY DEF WorkInv
          <6>4. Kept(status[t], t)
            BY <6>3 DEF Kept
          <6>5. Kept(status[t], t)'
            BY <3>3, <6>4 DEF Ends, tasks, lifecycle, Kept
          <6>6. status'[t] = status[t]
            BY <3>3 DEF Ends, tasks, lifecycle
          <6>7. QED
            BY <6>2, <6>5, <6>6 DEF ToldStands
        <5>3. QED
          BY <5>1, <5>2
      <4>2. RejectedWhole(r)'
        <5>1. req'[r].code \in {0, 200, 202, 500}
          BY <3>3 DEF Ends
        <5>2. ~Rejected(r)'
          BY <5>1 DEF Rejected
        <5>3. QED
          BY <5>2 DEF RejectedWhole
      <4>3. QED
        BY <4>1, <4>2
    <3>4. CASE Follows(r)
      BY <3>4 DEF Follows, ToldStands, RejectedWhole
    <3>5. CASE Refuses(r)
      <4>1. req'[r].told = ""
        BY <3>5 DEF Refuses
      <4>2. req'[r].code = 503
        BY <3>5, Zenon DEF Refuses
      <4>3. req'[r].code # 400 /\ req'[r].code # 404
        BY <4>2
      <4>4. ~Rejected(r)'
        BY <4>3, Zenon DEF Rejected
      <4>5. QED
        BY <4>1, <4>4, Zenon DEF ToldStands, RejectedWhole
    <3>6. QED
      BY <1>3, <3>1, <3>2, <3>3, <3>4, <3>5 DEF Handled
  <2>3. \A p \in Requests \ {r} : req'[p] = req[p]
    BY <1>3 DEF Handled, Alone
  <2>4. QED
    BY <1>2, <2>2, <2>3 DEF AnswerInv
<1>4. WorkInv'
  BY <1>1, WorkStep
<1>5. QED
  BY <1>1, <1>2, <1>3, <1>4 DEF AnswerInv

\* What a client that waits is told stays true but for what overrules it: a
\* cancellation is final, and a completed task may only become failed.  And a
\* request that is rejected leaves no task behind unless a call failed or a
\* client left (tasks.go:202-262, 384-394, 500-524; runner.go:282-297, 480-512).
THEOREM AnswersStandAlways == Spec => []AnswersStand
<1>1. Init => WorkInv /\ AnswerInv
  <2>1. NewRequest.told = "" /\ NewRequest.code = 0
    BY DEF NewRequest
  <2>2. ASSUME NEW r \in Requests, req[r] = NewRequest
        PROVE  ToldStands(r) /\ RejectedWhole(r)
    <3>1. ToldStands(r)
      BY <2>1, <2>2 DEF ToldStands
    <3>2. ~Rejected(r)
      <4>1. req[r].code = 0
        BY <2>1, <2>2, Zenon
      <4>2. QED
        BY <4>1 DEF Rejected
    <3>3. QED
      BY <3>1, <3>2 DEF RejectedWhole
  <2>3. QED
    BY <2>2 DEF Init, AnswerInv, WorkInv
<1>2. TypeInv /\ FlowInv /\ WorkInv /\ AnswerInv /\ [Next]_vars => WorkInv' /\ AnswerInv'
  BY AnswerStep
<1>3. AnswerInv => AnswersStand
  <2> SUFFICES ASSUME AnswerInv, NEW r \in Requests
               PROVE  LET q == req[r] IN
                      /\ q.told # "" /\ status[q.task] # q.told =>
                           \/ q.task \in overruled /\ q.told = "failed"
                           \/ /\ q.task \in overruled /\ q.told = "completed"
                              /\ status[q.task] = "failed"
                      /\ q.code \in {400, 404} /\ faults = 0 => q.task = None
    BY DEF AnswersStand
  <2>1. ToldStands(r) /\ RejectedWhole(r)
    BY DEF AnswerInv
  <2>2. req[r].code \in {400, 404} => Rejected(r)
    BY DEF Rejected
  <2>3. req[r].code \in {400, 404} /\ faults = 0 => req[r].task = None
    BY <2>1, <2>2 DEF RejectedWhole
  <2>4. req[r].told # "" /\ status[req[r].task] # req[r].told =>
          \/ req[r].task \in overruled /\ req[r].told = "failed"
          \/ /\ req[r].task \in overruled /\ req[r].told = "completed"
             /\ status[req[r].task] = "failed"
    BY <2>1 DEF ToldStands, Kept, Final
  <2>5. QED
    BY <2>3, <2>4, Zenon
<1>4. QED
  BY <1>1, <1>2, <1>3, FlowInvariant, PTL DEF Spec

-----------------------------------------------------------------------------
(* What is told of a chain of replays *)

\* The source of a task was there before it: a rank grows along the chains.
Ranked(rank) ==
  \A t \in Tasks : source[t] # None => /\ Exists(t) /\ Exists(source[t])
                                       /\ rank[source[t]] < rank[t]

\* A chain read so far: its tasks exist, each after the first is the source of
\* the one before it, and it is no longer than was asked for.
Linked(rank, chain, depth) ==
  /\ chain # <<>> /\ Len(chain) <= depth
  /\ \A i \in 1 .. Len(chain) : Exists(chain[i])
  /\ \A i \in 1 .. Len(chain) - 1 : chain[i + 1] = source[chain[i]]
  /\ \A i, j \in 1 .. Len(chain) : i < j => rank[chain[j]] < rank[chain[i]]

Last(chain) == chain[Len(chain)]

\* The chain of a request that reads one, and of one that was told it.
ReadingOK(rank, r) ==
  req[r].at = "chain" => /\ Linked(rank, req[r].chain, req[r].depth)
                         /\ req[r].next = source[Last(req[r].chain)]
ToldOK(rank, r) ==
  req[r].code = 200 /\ req[r].told = "" =>
    /\ Linked(rank, req[r].chain, req[r].depth)
    /\ ~req[r].cut => source[Last(req[r].chain)] = None
    /\ req[r].cut /\ faults = 0 => /\ Len(req[r].chain) = req[r].depth
                                   /\ source[Last(req[r].chain)] # None
ChainOK(rank) ==
  /\ Ranked(rank)
  /\ \A r \in Requests : ReadingOK(rank, r) /\ ToldOK(rank, r)
ChainInv == \E rank \in [Tasks -> Nat] : ChainOK(rank)

\* A chain that was read stays linked.
LEMMA LinkedStays ==
  ASSUME TypeInv, Stands, NEW rank, NEW rank2, NEW chain \in Seq(Tasks), NEW depth \in Nat,
         Linked(rank, chain, depth),
         \A t \in Tasks : Exists(t) => rank2[t] = rank[t]
  PROVE  /\ Linked(rank2, chain, depth)'
         /\ Last(chain) \in Tasks /\ source'[Last(chain)] = source[Last(chain)]
<1>1. /\ Len(chain) \in Nat /\ Len(chain) >= 1
      /\ \A i \in 1 .. Len(chain) : chain[i] \in Tasks
  BY EmptySeq, LenProperties, ElementOfSeq DEF Linked
<1>2. \A i \in 1 .. Len(chain) : Exists(chain[i]) /\ status'[chain[i]] # "absent"
                                 /\ source'[chain[i]] = source[chain[i]]
                                 /\ rank2[chain[i]] = rank[chain[i]]
  BY <1>1 DEF Linked, Stands, Exists
<1>3. Last(chain) \in Tasks /\ source'[Last(chain)] = source[Last(chain)]
  BY <1>1, <1>2 DEF Last
<1>4. \A i \in 1 .. Len(chain) - 1 : chain[i + 1] = source'[chain[i]]
  BY <1>1, <1>2 DEF Linked
<1>5. \A i, j \in 1 .. Len(chain) : i < j => rank2[chain[j]] < rank2[chain[i]]
  BY <1>2 DEF Linked
<1>6. QED
  BY <1>2, <1>3, <1>4, <1>5 DEF Linked, Exists

\* A rank for the chains after a step that agrees with the one before it.
Extends(rank2, rank) == \A t \in Tasks : Exists(t) => rank2[t] = rank[t]

LEMMA RankStep ==
  ASSUME TypeInv, FlowInv, [Next]_vars, NEW rank \in [Tasks -> Nat], Ranked(rank)
  PROVE  \E rank2 \in [Tasks -> Nat] : Extends(rank2, rank) /\ Ranked(rank2)'
<1>1. Stands /\ (UNCHANGED <<req, source>> \/ \E r \in Requests : Handled(r))
  BY Moves
<1>2. CASE UNCHANGED source
  <2>1. Ranked(rank)'
    BY <1>1, <1>2 DEF Ranked, Stands, Exists, TypeInv, StoreOK
  <2>2. QED
    BY <2>1 DEF Extends
<1>3. ASSUME NEW r \in Requests, NEW t \in Tasks, FlowOK(r), req[r].at = "create", Insert(r, t)
      PROVE  \E rank2 \in [Tasks -> Nat] : Extends(rank2, rank) /\ Ranked(rank2)'
  <2>1. PICK s \in Tasks \cup {None} : s = req[r].src
    BY DEF TypeInv, Locals
  <2>2. s # None => s \in Tasks /\ Exists(s)
    BY <1>3, <2>1 DEF FlowOK
  <2>3. /\ status[t] = "absent" /\ status'[t] = "queued" /\ source'[t] = s
        /\ \A u \in Tasks \ {t} : status'[u] = status[u] /\ source'[u] = source[u]
    BY <1>3, <2>1, InsertMoves
  <2>4. \A u \in Tasks \ {t} : source'[u] # None => /\ Exists(u)' /\ Exists(source[u])'
                                                    /\ source[u] \in Tasks \ {t}
                                                    /\ rank[source[u]] < rank[u]
    BY <2>3 DEF Ranked, Exists, TypeInv, StoreOK
  <2>5. CASE s = None
    <3>1. Ranked(rank)'
      BY <2>3, <2>4, <2>5 DEF Ranked, Exists
    <3>2. QED
      BY <3>1 DEF Extends
  <2>6. CASE s # None
    <3> DEFINE rank2 == [rank EXCEPT ![t] = rank[s] + 1]
    <3>1. s \in Tasks \ {t} /\ status'[s] # "absent"
      BY <2>2, <2>3, <2>6 DEF Exists
    <3>2. rank2 \in [Tasks -> Nat] /\ rank2[t] = rank[s] + 1 /\ rank2[s] = rank[s]
      BY <3>1
    <3>3. \A u \in Tasks \ {t} : rank2[u] = rank[u]
      OBVIOUS
    <3>4. Extends(rank2, rank)
      BY <2>3, <3>3 DEF Extends, Exists
    <3>5. rank2[s] < rank2[t]
      BY <3>1, <3>2
    <3>6. \A u \in Tasks \ {t} : source'[u] # None => rank2[source'[u]] < rank2[u]
      BY <2>3, <2>4, <3>3
    <3> HIDE DEF rank2
    <3>7. Ranked(rank2)'
      BY <2>3, <2>4, <3>1, <3>5, <3>6 DEF Ranked, Exists
    <3>8. QED
      BY <3>2, <3>4, <3>7
  <2>7. QED
    BY <2>5, <2>6
<1>4. ASSUME NEW r \in Requests, Handled(r), ~UNCHANGED source
      PROVE  \E t \in Tasks : FlowOK(r) /\ req[r].at = "create" /\ Insert(r, t)
  BY <1>4 DEF FlowInv, Handled, Resolves, Creates, Ends, Refuses, Follows, tasks
<1>5. QED
  BY <1>1, <1>2, <1>3, <1>4

\* The chain of a request that did nothing.
LEMMA ChainKept ==
  ASSUME TypeInv, TypeInv', Stands, NEW rank, NEW rank2, NEW p \in Requests,
         Extends(rank2, rank), ReadingOK(rank, p), ToldOK(rank, p), req'[p] = req[p]
  PROVE  ReadingOK(rank2, p)' /\ ToldOK(rank2, p)'
<1>1. PICK q \in Locals : q = req[p] /\ q = req'[p]
  BY DEF TypeInv
<1>2. q.chain \in Seq(Tasks) /\ q.depth \in Nat
  BY DEF Locals
<1>3. \A t \in Tasks : Exists(t) => rank2[t] = rank[t]
  BY DEF Extends
<1>4. Linked(rank, q.chain, q.depth) => /\ Linked(rank2, q.chain, q.depth)'
                                        /\ source'[Last(q.chain)] = source[Last(q.chain)]
  BY <1>2, <1>3, LinkedStays
<1>5. ReadingOK(rank2, p)'
  BY <1>1, <1>4 DEF ReadingOK
<1>6. ToldOK(rank2, p)'
  <2>1. faults' = 0 => faults = 0
    BY DEF Stands
  <2>2. ASSUME q.code = 200, q.told = ""
        PROVE  /\ Linked(rank2, q.chain, q.depth)'
               /\ ~q.cut => source'[Last(q.chain)] = None
               /\ q.cut /\ faults' = 0 => /\ Len(q.chain) = q.depth
                                          /\ source'[Last(q.chain)] # None
    <3>1. /\ Linked(rank, q.chain, q.depth)
          /\ ~q.cut => source[Last(q.chain)] = None
          /\ q.cut /\ faults = 0 => /\ Len(q.chain) = q.depth
                                    /\ source[Last(q.chain)] # None
      BY <1>1, <2>2 DEF ToldOK
    <3>2. QED
      BY <1>4, <2>1, <3>1
  <2>3. QED
    BY <1>1, <2>2, Zenon DEF ToldOK
<1>7. QED
  BY <1>5, <1>6

\* A chain that is read further stays linked.
LEMMA LinkedGrows ==
  ASSUME TypeInv, NEW rank \in [Tasks -> Nat], Ranked(rank), NEW chain \in Seq(Tasks),
         NEW depth \in Nat, Linked(rank, chain, depth), Len(chain) < depth,
         NEW t \in Tasks, t = source[Last(chain)], Exists(t)
  PROVE  /\ Linked(rank, Append(chain, t), depth) /\ Last(Append(chain, t)) = t
<1> DEFINE longer == Append(chain, t)
<1>1. /\ Len(chain) \in Nat /\ Len(chain) >= 1
      /\ \A i \in 1 .. Len(chain) : chain[i] \in Tasks
  BY EmptySeq, LenProperties, ElementOfSeq DEF Linked
<1>2. /\ longer \in Seq(Tasks) /\ Len(longer) = Len(chain) + 1
      /\ \A i \in 1 .. Len(chain) : longer[i] = chain[i]
      /\ longer[Len(chain) + 1] = t
  BY AppendProperties
<1>3. Last(chain) \in Tasks /\ t # None
  BY <1>1 DEF Last
<1>4. rank[t] < rank[chain[Len(chain)]] /\ t = source[chain[Len(chain)]]
  BY <1>3 DEF Ranked, Last
<1>5. \A i \in 1 .. Len(chain) : rank[t] < rank[chain[i]]
  <2>1. \A i \in 1 .. Len(chain) : i < Len(chain) => rank[chain[Len(chain)]] < rank[chain[i]]
    BY <1>1 DEF Linked
  <2>2. rank[t] \in Nat /\ \A i \in 1 .. Len(chain) : rank[chain[i]] \in Nat
    BY <1>1
  <2>3. ASSUME NEW i \in 1 .. Len(chain)
        PROVE  rank[t] < rank[chain[i]]
    <3>1. CASE i = Len(chain)
      BY <1>4, <3>1
    <3>2. CASE i < Len(chain)
      <4>1. rank[chain[Len(chain)]] < rank[chain[i]]
        BY <2>1, <3>2
      <4>2. /\ rank[t] \in Nat /\ rank[chain[i]] \in Nat
            /\ rank[chain[Len(chain)]] \in Nat
        BY <1>1, <2>2
      <4>3. QED
        BY <1>4, <4>1, <4>2
    <3>3. QED
      BY <1>1, <3>1, <3>2
  <2>4. QED
    BY <2>3
<1> HIDE DEF longer
<1>6. PICK n \in Nat : n = Len(chain) /\ n >= 1 /\ Len(longer) = n + 1
  BY <1>1, <1>2
<1>7. /\ \A i \in 1 .. n : Exists(chain[i])
      /\ \A i \in 1 .. n - 1 : chain[i + 1] = source[chain[i]]
      /\ \A i, j \in 1 .. n : i < j => rank[chain[j]] < rank[chain[i]]
  BY <1>6 DEF Linked
<1>8. /\ \A i \in 1 .. n : longer[i] = chain[i] /\ rank[t] < rank[chain[i]]
      /\ longer[n + 1] = t /\ t = source[chain[n]]
  BY <1>2, <1>4, <1>5, <1>6
<1>9. \A i \in 1 .. n + 1 : Exists(longer[i])
  <2>1. \A i \in 1 .. n + 1 : i = n + 1 \/ i \in 1 .. n
    OBVIOUS
  <2>2. QED
    BY <1>7, <1>8, <2>1
<1>10. \A i \in 1 .. n : longer[i + 1] = source[longer[i]]
  <2>1. ASSUME NEW i \in 1 .. n
        PROVE  longer[i + 1] = source[longer[i]]
    <3>1. CASE i = n
      BY <1>8, <2>1, <3>1
    <3>2. CASE i # n
      <4>1. i \in 1 .. n - 1 /\ i + 1 \in 1 .. n
        BY <3>2
      <4>2. QED
        BY <1>7, <1>8, <4>1
    <3>3. QED
      BY <3>1, <3>2
  <2>2. QED
    BY <2>1
<1>11. \A i, j \in 1 .. n + 1 : i < j => rank[longer[j]] < rank[longer[i]]
  <2>1. ASSUME NEW i \in 1 .. n + 1, NEW j \in 1 .. n + 1, i < j
        PROVE  rank[longer[j]] < rank[longer[i]]
    <3>1. i \in 1 .. n
      BY <2>1
    <3>2. CASE j = n + 1
      BY <1>8, <3>1, <3>2
    <3>3. CASE j # n + 1
      <4>1. j \in 1 .. n
        BY <3>3
      <4>2. QED
        BY <1>7, <1>8, <2>1, <3>1, <4>1
    <3>4. QED
      BY <3>2, <3>3
  <2>2. QED
    BY <2>1
<1>12. longer # <<>>
  BY <1>6
<1>13. Len(longer) <= depth /\ Len(longer) - 1 = n /\ longer[Len(longer)] = t
  BY <1>6, <1>8
<1>14. Linked(rank, longer, depth)
  BY <1>6, <1>9, <1>10, <1>11, <1>12, <1>13 DEF Linked
<1>15. QED
  BY <1>13, <1>14 DEF Last, longer

\* The source of the last task of a chain is no task of the chain.
LEMMA NotVisited ==
  ASSUME TypeInv, NEW rank \in [Tasks -> Nat], Ranked(rank), NEW q \in Locals,
         Linked(rank, q.chain, q.depth), q.next = source[Last(q.chain)], q.next # None
  PROVE  q.next \notin Visited(q) /\ Exists(q.next)
<1>1. PICK chain \in Seq(Tasks) : chain = q.chain
  BY DEF Locals
<1>2. /\ Len(chain) \in Nat /\ Len(chain) >= 1 /\ DOMAIN chain = 1 .. Len(chain)
      /\ \A i \in 1 .. Len(chain) : chain[i] \in Tasks
  BY <1>1, EmptySeq, LenProperties, ElementOfSeq DEF Linked
<1>3. PICK t : t = q.next
  OBVIOUS
<1>4. chain[Len(chain)] \in Tasks /\ t = source[chain[Len(chain)]] /\ t # None
  BY <1>1, <1>2, <1>3 DEF Last
<1>5. Exists(t) /\ rank[t] < rank[chain[Len(chain)]] /\ t \in Tasks
  BY <1>4 DEF Ranked, TypeInv, StoreOK
<1>6. ASSUME NEW i \in 1 .. Len(chain), chain[i] = t
      PROVE  FALSE
  <2>0. PICK depth : Linked(rank, chain, depth)
    BY <1>1
  <2>1. i < Len(chain) => rank[chain[Len(chain)]] < rank[chain[i]]
    BY <1>2, <2>0 DEF Linked
  <2>2. rank[chain[i]] \in Nat /\ rank[chain[Len(chain)]] \in Nat
    BY <1>2
  <2>3. QED
    BY <1>2, <1>5, <1>6, <2>1, <2>2
<1>7. QED
  BY <1>1, <1>2, <1>3, <1>5, <1>6 DEF Visited

\* A chain of one task is linked.
LEMMA LinkedBegins ==
  ASSUME NEW rank, NEW t \in Tasks, Exists(t), NEW depth \in Nat \ {0}
  PROVE  /\ Append(<<>>, t) \in Seq(Tasks) /\ Linked(rank, Append(<<>>, t), depth)
         /\ Last(Append(<<>>, t)) = t
<1>1. PICK one : one = Append(<<>>, t)
  OBVIOUS
<1>2. one \in Seq(Tasks) /\ Len(one) = 1 /\ one[1] = t
  BY <1>1
<1>3. one # <<>> /\ Len(one) <= depth
  <2>1. Len(one) <= depth
    BY <1>2
  <2>2. ASSUME one = <<>>
        PROVE  FALSE
    <3>1. Len(<<>>) = 1
      BY <1>2, <2>2, Zenon
    <3>2. QED
      BY <3>1, EmptySeq
  <2>3. QED
    BY <2>1, <2>2
<1>4. \A i \in 1 .. 1 : i = 1
  OBVIOUS
<1>5. Linked(rank, one, depth)
  BY <1>2, <1>3, <1>4 DEF Linked
<1>6. QED
  BY <1>1, <1>2, <1>5 DEF Last

\* The chain of the request that is handled.
LEMMA HandledChain ==
  ASSUME TypeInv, TypeInv', FlowInv, Stands,
         NEW rank \in [Tasks -> Nat], Ranked(rank), NEW rank2, Extends(rank2, rank),
         NEW r \in Requests, Handled(r), ReadingOK(rank, r)
  PROVE  ReadingOK(rank2, r)' /\ ToldOK(rank2, r)'
<1>1. PICK old \in Locals : old = req[r]
  BY DEF TypeInv
<1>2. PICK q \in Locals : q = req'[r]
  BY DEF TypeInv
<1>3. old.chain \in Seq(Tasks) /\ old.depth \in Nat /\ q.chain \in Seq(Tasks) /\ q.depth \in Nat
  BY DEF Locals
<1>4. \A t \in Tasks : Exists(t) => rank2[t] = rank[t]
  BY DEF Extends
<1>5. ASSUME q.at # "chain", q.code # 200 \/ q.told # ""
      PROVE  ReadingOK(rank2, r)' /\ ToldOK(rank2, r)'
  <2>1. ReadingOK(rank2, r)'
    BY <1>2, <1>5 DEF ReadingOK
  <2>2. ToldOK(rank2, r)'
    BY <1>2, <1>5, Zenon DEF ToldOK
  <2>3. QED
    BY <2>1, <2>2
<1>6. CASE Resolves(r)
  <2>1. req'[r].at # "chain" /\ (req'[r].code = 0 \/ req'[r].code \in {400, 404})
    <3>1. req'[r].at # "chain"
      BY <1>6 DEF Resolves
    <3>2. req'[r].code = 0 \/ req'[r].code \in {400, 404}
      BY <1>6, Zenon DEF Resolves
    <3>3. QED
      BY <3>1, <3>2
  <2>2. req'[r].code # 200
    BY <2>1
  <2>3. QED
    BY <1>2, <1>5, <2>1, <2>2, Zenon
<1>7. CASE Creates(r)
  <2>1. req'[r].at # "chain" /\ req'[r].code \in {0, 400}
    BY <1>7 DEF Creates
  <2>2. req'[r].code # 200
    BY <2>1
  <2>3. QED
    BY <1>2, <1>5, <2>1, <2>2, Zenon
<1>8. CASE Ends(r)
  <2>1. /\ req'[r].at # "chain"
        /\ req'[r].code = 0 \/ req'[r].code \in {202, 500} \/ req'[r].told \in Final
    <3>1. req'[r].at # "chain"
      BY <1>8 DEF Ends
    <3>2. req'[r].code = 0 \/ req'[r].code \in {202, 500} \/ req'[r].told \in Final
      BY <1>8, Zenon DEF Ends
    <3>3. QED
      BY <3>1, <3>2
  <2>2. req'[r].code = 0 \/ req'[r].code \in {202, 500} => req'[r].code # 200
    OBVIOUS
  <2>3. req'[r].told \in Final => req'[r].told # ""
    BY DEF Final
  <2>4. QED
    BY <1>2, <1>5, <2>1, <2>2, <2>3, Zenon
<1>9. CASE Follows(r)
  <2>1. UNCHANGED source
    BY <1>9 DEF Follows, tasks
  <2>2. ASSUME Linked(rank, q.chain, q.depth), q.at = "chain", q.code = 0,
               q.next = source[Last(q.chain)]
        PROVE  ReadingOK(rank2, r)' /\ ToldOK(rank2, r)'
    <3>1. Linked(rank2, q.chain, q.depth)'
      BY <1>3, <1>4, <2>2, LinkedStays
    <3>2. ReadingOK(rank2, r)'
      BY <1>2, <2>1, <2>2, <3>1 DEF ReadingOK
    <3>3. ToldOK(rank2, r)'
      <4>1. q.code # 200
        BY <2>2
      <4>2. QED
        BY <1>2, <4>1, Zenon DEF ToldOK
    <3>4. QED
      BY <3>2, <3>3
  <2>3. CASE BeginsChain(r)
    <3>1. PICK t \in Tasks, depth \in Nat \ {0} :
            /\ Exists(t) /\ q.chain = Append(<<>>, t) /\ q.next = source[t] /\ q.depth = depth
            /\ q.at = "chain" /\ q.code = 0
      BY <1>2, <2>3 DEF BeginsChain
    <3>2. Linked(rank, q.chain, q.depth) /\ Last(q.chain) = t
      BY <3>1, LinkedBegins
    <3>3. QED
      BY <2>2, <3>1, <3>2
  <2>4. CASE GrowsChain(r)
    <3>1. PICK t \in Tasks :
            /\ t = old.next /\ Exists(t) /\ ~Full(old)
            /\ q.chain = Append(old.chain, t) /\ q.next = source[t]
            /\ q.depth = old.depth /\ q.at = "chain" /\ q.code = 0 /\ old.at = "chain"
      BY <1>1, <1>2, <2>4 DEF GrowsChain
    <3>2. Linked(rank, old.chain, old.depth) /\ old.next = source[Last(old.chain)]
      BY <1>1, <3>1 DEF ReadingOK
    <3>3. Len(old.chain) < old.depth
      BY <1>3, <3>1, LenProperties DEF Full
    <3>4. Linked(rank, Append(old.chain, t), old.depth) /\ Last(Append(old.chain, t)) = t
      <4>1. t = source[Last(old.chain)] /\ Exists(t)
        BY <3>1, <3>2
      <4>2. Linked(rank, old.chain, old.depth)
        BY <3>2
      <4>3. QED
        BY <1>3, <3>3, <4>1, <4>2, LinkedGrows
    <3>5. QED
      BY <2>2, <3>1, <3>4
  <2>5. CASE TellsChain(r)
    <3>1. /\ old.at = "chain" /\ q.at = "answered" /\ q.chain = old.chain /\ q.depth = old.depth
          /\ \/ /\ q.cut <=> old.next # None
                /\ Full(old) \/ old.next = None \/ old.next \in Visited(old)
             \/ /\ q.cut /\ old.next # None
                /\ faults' # 0 \/ ~Exists(old.next)
      BY <1>1, <1>2, <2>5 DEF TellsChain
    <3>2. Linked(rank, old.chain, old.depth) /\ old.next = source[Last(old.chain)]
      BY <1>1, <3>1 DEF ReadingOK
    <3>3. Linked(rank2, q.chain, q.depth)'
      <4>1. Linked(rank, q.chain, q.depth)
        BY <3>1, <3>2, Zenon
      <4>2. QED
        BY <1>3, <1>4, <4>1, LinkedStays
    <3>4. ~q.cut => source'[Last(q.chain)] = None
      BY <2>1, <3>1, <3>2
    <3>5. old.next # None => old.next \notin Visited(old) /\ Exists(old.next)
      BY <3>2, NotVisited
    <3>6. q.cut /\ faults' = 0 => Full(old) /\ old.next # None
      BY <3>1, <3>5
    <3>7. q.cut /\ faults' = 0 => Len(q.chain) = q.depth /\ source'[Last(q.chain)] # None
      <4>1. Full(old) => Len(q.chain) = q.depth
        BY <1>3, <3>1, <3>2, LenProperties DEF Full, Linked
      <4>2. QED
        BY <2>1, <3>1, <3>2, <3>6, <4>1
    <3>8. ReadingOK(rank2, r)'
      BY <1>2, <3>1 DEF ReadingOK
    <3>9. ToldOK(rank2, r)'
      BY <1>2, <3>3, <3>4, <3>7 DEF ToldOK
    <3>10. QED
      BY <3>8, <3>9
  <2>6. CASE req'[r].at = "answered" /\ req'[r].code = 404
    BY <1>2, <1>5, <2>6
  <2>7. QED
    BY <1>9, <2>3, <2>4, <2>5, <2>6 DEF Follows
<1>10. CASE Refuses(r)
  <2>1. req'[r].at = "answered" /\ req'[r].code = 503
    BY <1>10 DEF Refuses
  <2>2. req'[r].at # "chain" /\ req'[r].code # 200
    BY <2>1
  <2>3. QED
    BY <1>2, <1>5, <2>2, Zenon
<1>11. QED
  BY <1>6, <1>7, <1>8, <1>9, <1>10 DEF Handled

LEMMA ChainStep ==
  ASSUME TypeInv, FlowInv, ChainInv, [Next]_vars
  PROVE  ChainInv'
<1>1. PICK rank \in [Tasks -> Nat] : ChainOK(rank)
  BY DEF ChainInv
<1>2. Ranked(rank) /\ \A r \in Requests : ReadingOK(rank, r) /\ ToldOK(rank, r)
  BY <1>1 DEF ChainOK
<1>3. PICK rank2 \in [Tasks -> Nat] : Extends(rank2, rank) /\ Ranked(rank2)'
  BY <1>2, RankStep
<1>4. TypeInv' /\ Stands /\ (UNCHANGED req \/ \E r \in Requests : Handled(r))
  BY Moves
<1>5. ASSUME NEW p \in Requests, req'[p] = req[p] \/ Handled(p)
      PROVE  ReadingOK(rank2, p)' /\ ToldOK(rank2, p)'
  <2>1. CASE req'[p] = req[p]
    BY <1>2, <1>3, <1>4, <2>1, ChainKept
  <2>2. CASE Handled(p)
    BY <1>2, <1>3, <1>4, <2>2, HandledChain
  <2>3. QED
    BY <1>5, <2>1, <2>2
<1>6. \A p \in Requests : req'[p] = req[p] \/ Handled(p)
  BY <1>4 DEF Handled, Alone
<1>7. ChainOK(rank2)'
  BY <1>3, <1>5, <1>6 DEF ChainOK
<1>8. QED
  BY <1>7 DEF ChainInv

\* What a chain tells its client, from what is known of it.
LEMMA ToldTruthful ==
  ASSUME TypeInv, ChainInv
  PROVE  ChainTruthful
<1>1. PICK rank \in [Tasks -> Nat] : ChainOK(rank)
  BY DEF ChainInv
<1>2. ASSUME NEW r \in Requests, req[r].code = 200, req[r].told = ""
      PROVE  LET q == req[r] IN
             /\ IsLineage(q.chain) /\ q.chain # <<>> /\ Len(q.chain) <= q.depth
             /\ ~q.cut => source[q.chain[Len(q.chain)]] = None
             /\ q.cut /\ faults = 0 => /\ Len(q.chain) = q.depth
                                       /\ source[q.chain[Len(q.chain)]] # None
  <2>1. PICK q \in Locals : q = req[r]
    BY DEF TypeInv
  <2>2. /\ Linked(rank, q.chain, q.depth)
        /\ ~q.cut => source[Last(q.chain)] = None
        /\ q.cut /\ faults = 0 => Len(q.chain) = q.depth /\ source[Last(q.chain)] # None
    BY <1>1, <1>2, <2>1 DEF ChainOK, ToldOK
  <2>3. PICK chain \in Seq(Tasks) : chain = q.chain
    BY DEF Locals
  <2>4. /\ DOMAIN chain = 1 .. Len(chain) /\ Len(chain) \in Nat
        /\ \A i \in 1 .. Len(chain) : chain[i] \in Tasks
    BY LenProperties, ElementOfSeq
  <2>5. /\ \A i \in 1 .. Len(chain) - 1 : chain[i + 1] = source[chain[i]]
        /\ \A i, j \in 1 .. Len(chain) : i < j => rank[chain[j]] < rank[chain[i]]
    <3>1. PICK depth : Linked(rank, chain, depth)
      BY <2>2, <2>3
    <3>2. QED
      BY <3>1 DEF Linked
  <2>6. \A i, j \in 1 .. Len(chain) : chain[i] = chain[j] => i = j
    <3>1. ASSUME NEW i \in 1 .. Len(chain), NEW j \in 1 .. Len(chain), i < j
          PROVE  chain[i] # chain[j]
      <4>1. rank[chain[j]] < rank[chain[i]] /\ rank[chain[i]] \in Nat
        BY <2>4, <2>5, <3>1
      <4>2. QED
        BY <4>1
    <3>2. QED
      BY <2>4, <3>1
  <2>7. IsLineage(chain)
    BY <2>4, <2>5, <2>6 DEF IsLineage
  <2>8. chain # <<>> /\ Len(q.chain) <= q.depth
    BY <2>2, <2>3 DEF Linked
  <2>9. QED
    BY <2>1, <2>2, <2>3, <2>7, <2>8 DEF Last
<1>3. QED
  BY <1>2 DEF ChainTruthful

\* A replay chain tells the lineage of its task, as far as was asked for, and
\* says whether there is more (tasks.go:399-446).
THEOREM ChainsTruthful == Spec => []ChainTruthful
<1>1. Init => ChainInv
  <2>1. ASSUME Init
        PROVE  ChainOK([t \in Tasks |-> 0])
    <3>1. NewRequest.at = "new" /\ NewRequest.code = 0
      BY DEF NewRequest
    <3>2. \A r \in Requests : req[r].at = "new" /\ req[r].code = 0
      BY <2>1, <3>1 DEF Init
    <3>3. \A t \in Tasks : source[t] = None
      BY <2>1 DEF Init
    <3>4. Ranked([t \in Tasks |-> 0])
      BY <3>3 DEF Ranked
    <3>5. ASSUME NEW r \in Requests
          PROVE  ReadingOK([t \in Tasks |-> 0], r) /\ ToldOK([t \in Tasks |-> 0], r)
      <4>1. req[r].at # "chain" /\ req[r].code # 200
        BY <3>2
      <4>2. QED
        BY <4>1, Zenon DEF ReadingOK, ToldOK
    <3>6. QED
      BY <3>4, <3>5 DEF ChainOK
  <2>2. QED
    BY <2>1 DEF ChainInv
<1>2. TypeInv /\ FlowInv /\ ChainInv /\ [Next]_vars => ChainInv'
  BY ChainStep
<1>3. TypeInv /\ ChainInv => ChainTruthful
  BY ToldTruthful
<1>4. QED
  BY <1>1, <1>2, <1>3, FlowInvariant, PTL DEF Spec
=============================================================================
