----------------------------- MODULE Idempotency -----------------------------
(***************************************************************************)
(* Requests that carry the same Idempotency-Key in the same scope          *)
(* (src/internal/api/idempotency.go).  A request looks the key up and is   *)
(* answered from the entry it finds.  Otherwise it claims the key, executes*)
(* the request proper, saves the answer as the key's entry, answers, and   *)
(* releases its claim; or, if the key is claimed already, polls for an     *)
(* entry for a while.                                                      *)
(*                                                                         *)
(* A store (src/internal/idempotency) does each call atomically.  It keeps *)
(* entries and claims in memory, or in Redis, where a call may fail before *)
(* or after it has taken effect.  Claims and entries expire.  The process  *)
(* may crash: Redis, and the resources in Postgres, survive it.            *)
(***************************************************************************)
CONSTANTS
  Requests,   \* bound: the requests that are sent with the key
  Faults,     \* what may go wrong in a run: "expiry", "store", "crash"
  NoRequest

ASSUME RequestsAssumption == NoRequest \notin Requests

VARIABLES
  memory,     \* the store is InMemoryStore, not RedisStore
  entry,      \* the key's entry, as the request whose answer it is
  claim,      \* the key's claim, as the request that owns it
  pc,         \* where the handler of a request is
  status,     \* the answer of a request's own execution
  expired,    \* history: requests whose claim has expired under them
  forgotten,  \* history: requests whose answer was not saved, or not for long
  promised,   \* history: an answer was given that repeats until it expires
  known       \* history: the requests that were sent after such an answer

store   == <<memory, entry, claim>>
handler == <<pc, status>>
history == <<expired, forgotten, promised, known>>
vars    == <<store, handler, history>>

-----------------------------------------------------------------------------
PC == {"new", "get", "claim", "wait", "execute", "created", "save", "answer",
       "release", "done"}

Init ==
  /\ memory \in BOOLEAN
  /\ entry = NoRequest
  /\ claim = NoRequest
  /\ pc = [r \in Requests |-> "new"]
  /\ status = [r \in Requests |-> "none"]
  /\ expired = {}
  /\ forgotten = {}
  /\ promised = FALSE
  /\ known = {}

Goto(r, from, to) == pc[r] = from /\ pc' = [pc EXCEPT ![r] = to]

StoreMayFail == ~memory /\ "store" \in Faults

\* A client sends a request: its first, or a retry of one that it has sent.
Send(r) ==
  /\ Goto(r, "new", "get")
  /\ known' = IF promised THEN known \cup {r} ELSE known
  /\ UNCHANGED <<store, status, expired, forgotten, promised>>

-----------------------------------------------------------------------------
(* Lookup, claim and wait                                                  *)

\* The entry is found, by the lookup or while waiting, and answered.
Replay(r) ==
  /\ pc[r] \in {"get", "wait"} /\ entry # NoRequest
  /\ pc' = [pc EXCEPT ![r] = "done"]
  /\ promised' = TRUE
  /\ UNCHANGED <<store, status, expired, forgotten, known>>

Miss(r) ==
  /\ entry = NoRequest
  /\ Goto(r, "get", "claim")
  /\ UNCHANGED <<store, status, history>>

GetFails(r) ==
  /\ StoreMayFail
  /\ Goto(r, "get", "done")
  /\ UNCHANGED <<store, status, history>>

\* The claim has a new owner, or belongs to another request.
Claim(r) ==
  /\ pc[r] = "claim"
  /\ IF claim = NoRequest
       THEN claim' = r /\ Goto(r, "claim", "execute")
       ELSE UNCHANGED claim /\ Goto(r, "claim", "wait")
  /\ UNCHANGED <<memory, entry, status, history>>

\* Nobody releases a claim that Redis granted without saying so.
ClaimFails(r) ==
  /\ StoreMayFail
  /\ Goto(r, "claim", "done")
  /\ claim' \in IF claim = NoRequest THEN {claim, r} ELSE {claim}
  /\ UNCHANGED <<memory, entry, status, history>>

\* Slip: only an error of the store ends the wait.
WaitEnds_OnError(r) ==
  /\ StoreMayFail
  /\ Goto(r, "wait", "done")
  /\ UNCHANGED <<store, status, history>>

\* The wait times out, its client goes away, or a lookup fails: 409.
WaitEnds(r) ==
  /\ Goto(r, "wait", "done")
  /\ UNCHANGED <<store, status, history>>

-----------------------------------------------------------------------------
(* Execution, answer and release                                           *)

\* The session or task is stored.
Create(r) ==
  /\ Goto(r, "execute", "created")
  /\ UNCHANGED <<store, status, history>>

\* The execution ends: "ok" is a 2xx, "refused" a 4xx and "failed" a 5xx.  A
\* store of sessions or tasks that fails is a 400, even if it has stored the
\* resource; a task that cannot be queued is a 5xx.
ExecutionEnds(r, s) ==
  /\ \/ pc[r] = "execute" /\ s = "refused"
     \/ pc[r] = "created" /\ s \in {"ok", "refused", "failed"}
  /\ pc' = [pc EXCEPT ![r] = "save"]
  /\ status' = [status EXCEPT ![r] = s]
  /\ UNCHANGED <<store, history>>

\* Slip: every answer is saved.
Save_Always(r) ==
  /\ Goto(r, "save", "answer")
  /\ entry' = r
  /\ UNCHANGED <<memory, claim, status, history>>

\* Slip: only the answers that report success are saved.
Save_OnlySuccess(r) ==
  /\ Goto(r, "save", "answer")
  /\ entry' = IF status[r] = "ok" THEN r ELSE entry
  /\ UNCHANGED <<memory, claim, status, history>>

\* The answer becomes the entry, whoever owns the claim by now; 5xx do not.
Save(r) ==
  /\ Goto(r, "save", "answer")
  /\ entry' = IF status[r] = "failed" THEN entry ELSE r
  /\ UNCHANGED <<memory, claim, status, history>>

\* The error of Save is dropped.
SaveFails(r) ==
  /\ StoreMayFail /\ status[r] # "failed"
  /\ Goto(r, "save", "answer")
  /\ entry' \in {entry, r}
  /\ forgotten' = forgotten \cup {r}
  /\ UNCHANGED <<memory, claim, status, expired, promised, known>>

Answer(r) ==
  /\ Goto(r, "answer", "release")
  /\ promised' = (promised \/ (status[r] # "failed" /\ r \notin forgotten))
  /\ UNCHANGED <<store, status, expired, forgotten, known>>

\* Slip: a request that fails does not release its claim.
Release_OnlySuccess(r) ==
  /\ Goto(r, "release", "done")
  /\ claim' = IF claim = r /\ status[r] = "ok" THEN NoRequest ELSE claim
  /\ UNCHANGED <<memory, entry, status, history>>

\* Slip: the owner is not compared.
Release_AnyOwner(r) ==
  /\ Goto(r, "release", "done")
  /\ claim' = NoRequest
  /\ UNCHANGED <<memory, entry, status, history>>

\* The claim is deleted if it still is the request's own.
Release(r) ==
  /\ Goto(r, "release", "done")
  /\ claim' = IF claim = r THEN NoRequest ELSE claim
  /\ UNCHANGED <<memory, entry, status, history>>

\* Redis does not release the claim, and it runs out.
ReleaseFails(r) ==
  /\ StoreMayFail
  /\ Goto(r, "release", "done")
  /\ UNCHANGED <<store, status, history>>

-----------------------------------------------------------------------------
(* Time and crashes                                                        *)

\* An entry in memory that has expired is still there, and counts as absent.
ClaimExpires ==
  /\ "expiry" \in Faults /\ claim # NoRequest
  /\ claim' = NoRequest
  /\ expired' = expired \cup {claim}
  /\ UNCHANGED <<memory, entry, handler, forgotten, promised, known>>

EntryExpires ==
  /\ "expiry" \in Faults /\ entry # NoRequest
  /\ entry' = NoRequest
  /\ forgotten' = forgotten \cup {r \in Requests : pc[r] = "answer"}
  /\ promised' = FALSE
  /\ known' = {}
  /\ UNCHANGED <<memory, claim, handler, expired>>

\* The process stops and starts again, without the requests it was handling.
InFlight(r) == pc[r] \notin {"new", "done"}

Crash ==
  /\ "crash" \in Faults /\ \E r \in Requests : InFlight(r)
  /\ pc' = [r \in Requests |-> IF InFlight(r) THEN "done" ELSE pc[r]]
  /\ IF memory
       THEN entry' = NoRequest /\ claim' = NoRequest /\ promised' = FALSE /\ known' = {}
       ELSE UNCHANGED <<entry, claim, promised, known>>
  /\ UNCHANGED <<memory, status, expired, forgotten>>

-----------------------------------------------------------------------------
RequestStep(r) ==
  \/ Send(r) \/ Replay(r) \/ Miss(r) \/ GetFails(r)
  \/ Claim(r) \/ ClaimFails(r) \/ WaitEnds(r)
  \/ Create(r) \/ (\E s \in {"ok", "refused", "failed"} : ExecutionEnds(r, s))
  \/ Save(r) \/ SaveFails(r) \/ Answer(r) \/ Release(r) \/ ReleaseFails(r)

Next ==
  \/ \E r \in Requests : RequestStep(r)
  \/ ClaimExpires \/ EntryExpires \/ Crash

Spec == Init /\ [][Next]_vars

\* The timer of a wait fires.  Nothing else is assumed: an execution may last.
Fairness == \A r \in Requests : WF_vars(WaitEnds(r))

FairSpec == Spec /\ Fairness

-----------------------------------------------------------------------------
(* Properties                                                              *)

\* In particular, the entry is the answer of an execution, and never a 5xx.
TypeOK ==
  /\ memory \in BOOLEAN
  /\ entry \in {r \in Requests : status[r] \in {"ok", "refused"}} \cup {NoRequest}
  /\ claim \in Requests \cup {NoRequest}
  /\ pc \in [Requests -> PC]
  /\ status \in [Requests -> {"none", "ok", "refused", "failed"}]
  /\ expired \subseteq Requests
  /\ forgotten \subseteq Requests
  /\ promised \in BOOLEAN
  /\ known \subseteq Requests

Executing(r) == pc[r] \in {"execute", "created", "save", "answer", "release"}

\* Two requests with one key are between claim and release at the same time
\* only when the claim of one of them has expired: a slow request whose claim
\* another one has taken over does not release that one's claim, which would
\* let in a third (idempotency.go:52; inmemory.go:77, 136; redis.go:110).
OverlapOnlyByExpiry ==
  \A q, r \in Requests :
    q # r /\ Executing(q) /\ Executing(r) => q \in expired \/ r \in expired

\* A request that is sent after the key has been answered below 500 does not
\* execute: its client gets the remembered answer, unless the store failed to
\* save it, or it has expired or been lost since (idempotency.go:30, 69-72).
AnsweredRetriesReplay == \A r \in known : ~Executing(r)

\* No claim outlives the handler that made it, however the handler ends, and
\* locks its key for the retries: this is so in memory.  Redis keeps a claim
\* for its TTL if a call fails or the process crashes (idempotency.go:52-54).
ClaimsHaveHolders == memory /\ claim # NoRequest => Executing(claim)

\* Who waits for another request's answer is answered, although that request
\* may never save one: it may answer with a 5xx, which is not saved, its claim
\* may expire, or its execution may last (idempotency.go:76-98).
WaitersAreAnswered == \A r \in Requests : pc[r] = "wait" ~> pc[r] = "done"

\* README.md:280: "to get safe retries without duplicate resources": no two
\* requests with the same key each report a resource of their own.
OneResourcePerKey ==
  \A q, r \in Requests : status[q] = "ok" /\ status[r] = "ok" => q = r
=============================================================================
