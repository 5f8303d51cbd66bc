------------------------- MODULE Idempotency_proofs -------------------------
(***************************************************************************)
(* Proofs about Idempotency for every number of requests with one key, any *)
(* faults, and both stores.                                                *)
(***************************************************************************)
EXTENDS Idempotency, TLAPS

USE RequestsAssumption

-----------------------------------------------------------------------------
(* The inductive invariant *)

\* A request has a status of its own when its execution has ended.
StatusInv ==
  \A r \in Requests :
    /\ pc[r] \in {"new", "get", "claim", "wait", "execute", "created"} => status[r] = "none"
    /\ pc[r] \in {"save", "answer", "release"} => status[r] # "none"

\* Whoever executes holds the claim unless it has expired, and in memory
\* nobody else holds it.
ClaimInv ==
  /\ \A r \in Requests : Executing(r) /\ r \notin expired => claim = r
  /\ ClaimsHaveHolders

\* Whatever has been promised, or is about to be, is in the store.
EntryInv ==
  /\ \A r \in Requests :
       pc[r] = "answer" /\ status[r] # "failed" /\ r \notin forgotten => entry # NoRequest
  /\ promised => entry # NoRequest

\* A request that comes after a promise finds the entry, and goes no further.
KnownInv ==
  /\ known # {} => promised
  /\ \A r \in known : pc[r] \in {"get", "done"}

IInv == TypeOK /\ StatusInv /\ ClaimInv /\ EntryInv /\ KnownInv

\* No request has been sent in the initial states.
LEMMA InitInv == Init => IInv
BY DEF Init, IInv, TypeOK, StatusInv, ClaimInv, ClaimsHaveHolders, EntryInv, KnownInv, PC, Executing

-----------------------------------------------------------------------------
(* Each part is preserved by every step *)

\* Types, and the entry is an answer below 500.
LEMMA TypeStep == IInv /\ [Next]_vars => TypeOK'
<1> SUFFICES ASSUME TypeOK, StatusInv, [Next]_vars
             PROVE  TypeOK'
  BY DEF IInv
<1> USE DEF TypeOK, StatusInv, store, handler, history
<1>1. ASSUME NEW r \in Requests, RequestStep(r)
      PROVE  TypeOK'
  <2> USE <1>1 DEF Goto, PC
  <2>1. CASE Send(r)
    BY <2>1 DEF Send
  <2>2. CASE Replay(r) \/ Miss(r) \/ GetFails(r) \/ WaitEnds(r)
    BY <2>2 DEF Replay, Miss, GetFails, WaitEnds
  <2>3. CASE Claim(r) \/ ClaimFails(r)
    BY <2>3 DEF Claim, ClaimFails
  <2>4. CASE Create(r)
    BY <2>4 DEF Create
  <2>5. ASSUME NEW s \in {"ok", "refused", "failed"}, ExecutionEnds(r, s)
        PROVE  TypeOK'
    BY <2>5 DEF ExecutionEnds
  <2>6. CASE Save(r) \/ SaveFails(r)
    BY <2>6 DEF Save, SaveFails
  <2>7. CASE Answer(r) \/ Release(r) \/ ReleaseFails(r)
    BY <2>7 DEF Answer, Release, ReleaseFails
  <2>8. QED
    BY <2>1, <2>2, <2>3, <2>4, <2>5, <2>6, <2>7 DEF RequestStep
<1>2. CASE ClaimExpires
  BY <1>2 DEF ClaimExpires
<1>3. CASE EntryExpires
  BY <1>3 DEF EntryExpires
<1>4. CASE Crash
  BY <1>4 DEF Crash, PC
<1>5. CASE UNCHANGED vars
  BY <1>5 DEF vars
<1>6. QED
  BY <1>1, <1>2, <1>3, <1>4, <1>5 DEF Next

\* A status is set by the step that ends the execution.
LEMMA StatusStep == IInv /\ [Next]_vars => StatusInv'
<1> SUFFICES ASSUME TypeOK, StatusInv, [Next]_vars
             PROVE  StatusInv'
  BY DEF IInv
<1> USE DEF TypeOK, StatusInv, store, handler, history
<1>1. ASSUME NEW r \in Requests, RequestStep(r)
      PROVE  StatusInv'
  <2> USE <1>1 DEF Goto
  <2>1. CASE Send(r) \/ Replay(r) \/ Miss(r) \/ GetFails(r) \/ WaitEnds(r)
    BY <2>1 DEF Send, Replay, Miss, GetFails, WaitEnds
  <2>2. CASE Claim(r) \/ ClaimFails(r) \/ Create(r)
    BY <2>2 DEF Claim, ClaimFails, Create
  <2>3. ASSUME NEW s \in {"ok", "refused", "failed"}, ExecutionEnds(r, s)
        PROVE  StatusInv'
    BY <2>3 DEF ExecutionEnds
  <2>4. CASE Save(r) \/ SaveFails(r) \/ Answer(r) \/ Release(r) \/ ReleaseFails(r)
    BY <2>4 DEF Save, SaveFails, Answer, Release, ReleaseFails
  <2>5. QED
    BY <2>1, <2>2, <2>3, <2>4 DEF RequestStep
<1>2. CASE ClaimExpires \/ EntryExpires
  BY <1>2 DEF ClaimExpires, EntryExpires
<1>3. CASE Crash
  BY <1>3 DEF Crash
<1>4. CASE UNCHANGED vars
  BY <1>4 DEF vars
<1>5. QED
  BY <1>1, <1>2, <1>3, <1>4 DEF Next

\* A claim changes hands only when it is free, released by its owner, or expired.
LEMMA ClaimStep == IInv /\ [Next]_vars => ClaimInv'
<1> SUFFICES ASSUME TypeOK, ClaimInv, [Next]_vars
             PROVE  ClaimInv'
  BY DEF IInv
<1> USE DEF TypeOK, ClaimInv, ClaimsHaveHolders, Executing, store, handler, history
<1>1. ASSUME NEW r \in Requests, RequestStep(r)
      PROVE  ClaimInv'
  <2> USE <1>1 DEF Goto
  <2>1. CASE Send(r) \/ Replay(r) \/ Miss(r) \/ GetFails(r) \/ WaitEnds(r)
    BY <2>1 DEF Send, Replay, Miss, GetFails, WaitEnds
  <2>2. CASE Claim(r)
    BY <2>2 DEF Claim
  <2>3. CASE ClaimFails(r)
    BY <2>3 DEF ClaimFails, StoreMayFail
  <2>4. CASE Create(r) \/ \E s \in {"ok", "refused", "failed"} : ExecutionEnds(r, s)
    BY <2>4 DEF Create, ExecutionEnds
  <2>5. CASE Save(r) \/ SaveFails(r) \/ Answer(r)
    BY <2>5 DEF Save, SaveFails, Answer
  <2>6. CASE Release(r)
    BY <2>6 DEF Release
  <2>7. CASE ReleaseFails(r)
    BY <2>7 DEF ReleaseFails, StoreMayFail
  <2>8. QED
    BY <2>1, <2>2, <2>3, <2>4, <2>5, <2>6, <2>7 DEF RequestStep
<1>2. CASE ClaimExpires
  BY <1>2 DEF ClaimExpires
<1>3. CASE EntryExpires
  BY <1>3 DEF EntryExpires
<1>4. CASE Crash
  BY <1>4 DEF Crash, InFlight
<1>5. CASE UNCHANGED vars
  BY <1>5 DEF vars
<1>6. QED
  BY <1>1, <1>2, <1>3, <1>4, <1>5 DEF Next

\* A promise is made when the entry is there, and ends with the entry.
LEMMA EntryStep == IInv /\ [Next]_vars => EntryInv'
<1> SUFFICES ASSUME TypeOK, EntryInv, [Next]_vars
             PROVE  EntryInv'
  BY DEF IInv
<1> USE DEF TypeOK, EntryInv, store, handler, history
<1>1. ASSUME NEW r \in Requests, RequestStep(r)
      PROVE  EntryInv'
  <2> USE <1>1 DEF Goto
  <2>1. CASE Send(r) \/ Replay(r) \/ Miss(r) \/ GetFails(r) \/ WaitEnds(r)
    BY <2>1 DEF Send, Replay, Miss, GetFails, WaitEnds
  <2>2. CASE Claim(r) \/ ClaimFails(r) \/ Create(r)
    BY <2>2 DEF Claim, ClaimFails, Create
  <2>3. CASE \E s \in {"ok", "refused", "failed"} : ExecutionEnds(r, s)
    BY <2>3 DEF ExecutionEnds
  <2>4. CASE Save(r)
    BY <2>4 DEF Save
  <2>5. CASE SaveFails(r)
    BY <2>5 DEF SaveFails
  <2>6. CASE Answer(r)
    BY <2>6 DEF Answer
  <2>7. CASE Release(r) \/ ReleaseFails(r)
    BY <2>7 DEF Release, ReleaseFails
  <2>8. QED
    BY <2>1, <2>2, <2>3, <2>4, <2>5, <2>6, <2>7 DEF RequestStep
<1>2. CASE ClaimExpires
  BY <1>2 DEF ClaimExpires
<1>3. CASE EntryExpires
  BY <1>3 DEF EntryExpires
<1>4. CASE Crash
  BY <1>4 DEF Crash, InFlight
<1>5. CASE UNCHANGED vars
  BY <1>5 DEF vars
<1>6. QED
  BY <1>1, <1>2, <1>3, <1>4, <1>5 DEF Next

\* A request that comes after a promise misses the entry only if it has lapsed.
LEMMA KnownStep == IInv /\ [Next]_vars => KnownInv'
<1> SUFFICES ASSUME TypeOK, EntryInv, KnownInv, [Next]_vars
             PROVE  KnownInv'
  BY DEF IInv
<1> USE DEF TypeOK, KnownInv, store, handler, history
<1>1. ASSUME NEW r \in Requests, RequestStep(r)
      PROVE  KnownInv'
  <2> USE <1>1 DEF Goto
  <2>1. CASE Send(r)
    BY <2>1 DEF Send
  <2>2. CASE Replay(r) \/ GetFails(r) \/ WaitEnds(r)
    BY <2>2 DEF Replay, GetFails, WaitEnds
  <2>3. CASE Miss(r)
    BY <2>3 DEF Miss, EntryInv
  <2>4. CASE Claim(r) \/ ClaimFails(r) \/ Create(r)
    BY <2>4 DEF Claim, ClaimFails, Create
  <2>5. CASE \E s \in {"ok", "refused", "failed"} : ExecutionEnds(r, s)
    BY <2>5 DEF ExecutionEnds
  <2>6. CASE Save(r) \/ SaveFails(r) \/ Answer(r) \/ Release(r) \/ ReleaseFails(r)
    BY <2>6 DEF Save, SaveFails, Answer, Release, ReleaseFails
  <2>7. QED
    BY <2>1, <2>2, <2>3, <2>4, <2>5, <2>6 DEF RequestStep
<1>2. CASE ClaimExpires \/ EntryExpires
  BY <1>2 DEF ClaimExpires, EntryExpires
<1>3. CASE Crash
  BY <1>3 DEF Crash, InFlight
<1>4. CASE UNCHANGED vars
  BY <1>4 DEF vars
<1>5. QED
  BY <1>1, <1>2, <1>3, <1>4 DEF Next

-----------------------------------------------------------------------------
(* The theorems *)

\* The strengthened invariant holds in every reachable state.
LEMMA Invariance == Spec => []IInv
<1>1. IInv /\ [Next]_vars => IInv'
  BY TypeStep, StatusStep, ClaimStep, EntryStep, KnownStep DEF IInv
<1>2. QED
  BY InitInv, <1>1, PTL DEF Spec

\* Every variable has its type, and the entry is the answer below 500 of an
\* execution (idempotency.go:69-71).
THEOREM TypeCorrect == Spec => []TypeOK
<1>1. IInv => TypeOK
  BY DEF IInv
<1>2. QED
  BY Invariance, <1>1, PTL

\* Requests with one key overlap only if a claim has expired under one of
\* them (idempotency.go:39, 52; inmemory.go:77, 136; redis.go:61, 110).
THEOREM ClaimsExclude == Spec => []OverlapOnlyByExpiry
<1>1. IInv => OverlapOnlyByExpiry
  BY DEF IInv, ClaimInv, OverlapOnlyByExpiry
<1>2. QED
  BY Invariance, <1>1, PTL

\* In memory a claim does not outlive its handler (idempotency.go:52-54).
THEOREM ClaimsEnd == Spec => []ClaimsHaveHolders
<1>1. IInv => ClaimsHaveHolders
  BY DEF IInv, ClaimInv
<1>2. QED
  BY Invariance, <1>1, PTL

\* A request sent after an answer below 500 does not execute while the answer
\* is remembered (idempotency.go:30, 69-72).
THEOREM RetriesReplay == Spec => []AnsweredRetriesReplay
<1>1. IInv => AnsweredRetriesReplay
  BY DEF IInv, KnownInv, AnsweredRetriesReplay, Executing
<1>2. QED
  BY Invariance, <1>1, PTL
=============================================================================
