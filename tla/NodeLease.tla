------------------------------ MODULE NodeLease ------------------------------
(***************************************************************************)
(* How a worker of the task runner gets a browser node to itself           *)
(* (src/internal/taskrunner/runner.go:520-632): it lists the nodes that    *)
(* the registry calls ready, acquires a lease on one of them, marks the    *)
(* node as leased, executes with a keepalive goroutine that renews the     *)
(* lease, reports the result, releases the lease and marks the node ready. *)
(* A cancel request or a shutdown ends the execution's context, and with   *)
(* it the keepalive, while the worker still is at the node.                *)
(*                                                                         *)
(* The lease manager keeps its entries in memory or in Redis; which of the *)
(* two is decided when the process starts (src/cmd/orchestrator/main.go).  *)
(* The registry is also written by the node agents, which register and     *)
(* heartbeat, and by operators, who drain and activate nodes.              *)
(*                                                                         *)
(* Time passes in ticks.  A lease lasts TTL ticks and a keepalive's ticker *)
(* fires every Period ticks; nothing but PromptWorkers says how soon a     *)
(* goroutine reacts.                                                       *)
(***************************************************************************)
EXTENDS Integers

CONSTANTS
  Nodes, Workers,
  Owner,          \* [Workers -> STRING]: Runner.ownerID of a worker's runner
  TTL,            \* Config.LeaseTTL
  Period,         \* the interval of the keepalive, a third of the TTL
  MaxFailures,    \* bound: errors of Renew in a row that a keepalive meets
  PromptWorkers,  \* workers whose lease calls are done before time moves on
  MaxToken,       \* bound: tokens drawn per node
  NoNode

ASSUME LeaseAssumption ==
  /\ TTL \in Nat \ {0} /\ Period \in Nat \ {0}
  /\ MaxFailures \in Nat /\ MaxToken \in Nat
  /\ PromptWorkers \subseteq Workers
  /\ NoNode \notin Nodes

\* The errors that a prompt keepalive meets leave it time to renew.
ASSUME KeepaliveAssumption ==
  PromptWorkers # {} => Period * (MaxFailures + 1) < TTL

VARIABLES
  memory,   \* the lease manager is InMemoryManager, not RedisManager
  lease,    \* per node: the entry or key, with the ticks it has left
  seq,      \* per node: the last token drawn
  reg,      \* per node: Node.State
  drain,    \* history: an operator has drained the node while nobody had it at
            \* hand, and it was not activated or registered since
  pc,       \* where a worker is
  snap,     \* the ready nodes it has listed and not tried yet
  node,     \* the node it tries, or has leased
  token,    \* the token it has drawn
  keeper,   \* what its keepalive goroutine is doing
  timer,    \* ticks until the keepalive's ticker fires
  due,      \* a tick waits in the ticker's channel
  fails,    \* errors of Renew since the last success
  lost,     \* the keepalive has stopped the execution
  age,      \* ticks since the lease was acquired or last renewed
  strays    \* keepalives that were stopped and have a call left to make

leases    == <<memory, lease, seq>>
worker    == <<pc, snap, node, token>>
keepalive == <<keeper, timer, due, fails, lost, age>>
registry  == <<reg, drain>>
vars      == <<leases, registry, worker, keepalive, strays>>

-----------------------------------------------------------------------------
NodeState == {"absent", "ready", "leased", "draining"}
PC == {"idle", "try", "claim", "mark", "execute", "complete", "fail",
       "release", "ready"}

NoLease == [owner |-> "", token |-> 0, left |-> 0]
Lease   == [owner : {Owner[w] : w \in Workers}, token : 1..MaxToken, left : -1..TTL]
Stray   == [node : Nodes, owner : {Owner[w] : w \in Workers},
            token : 1..MaxToken, step : {"renew", "beat"}]

Init ==
  /\ memory \in BOOLEAN
  /\ lease = [n \in Nodes |-> NoLease]
  /\ seq = [n \in Nodes |-> 0]
  /\ reg = [n \in Nodes |-> "absent"]
  /\ drain = [n \in Nodes |-> FALSE]
  /\ pc = [w \in Workers |-> "idle"]
  /\ snap = [w \in Workers |-> {}]
  /\ node = [w \in Workers |-> NoNode]
  /\ token = [w \in Workers |-> 0]
  /\ keeper = [w \in Workers |-> "off"]
  /\ timer = [w \in Workers |-> Period]
  /\ due = [w \in Workers |-> FALSE]
  /\ fails = [w \in Workers |-> 0]
  /\ lost = [w \in Workers |-> FALSE]
  /\ age = [w \in Workers |-> 0]
  /\ strays = {}

-----------------------------------------------------------------------------
(* The lease managers                                                      *)

\* Slip: the key is SET, whoever holds it.
Free_Always(n) == TRUE

\* Acquire may take the node: no entry, or now is not before its expiry.
Free(n) == lease[n].left <= 0

\* Slip: the token is not compared.
Own_AnyToken(n, o, k) == lease[n] # NoLease /\ lease[n].owner = o

\* Release and Renew compare owner and token.
Own(n, o, k) == lease[n] # NoLease /\ lease[n].owner = o /\ lease[n].token = k

\* Renew finds the lease unexpired; at the very instant of expiry only the
\* entry in memory is still there.
Renewable(n, o, k) == Own(n, o, k) /\ lease[n].left >= (IF memory THEN 0 ELSE 1)

\* Slip: the entry with its new expiry is not stored back.
Extended_NotStored(n) == lease

Extended(n) == [lease EXCEPT ![n].left = TTL]

\* What Renew leaves behind if it says no: in memory it drops an expired entry.
Dropped(n) == IF memory /\ lease[n].left < 0 THEN [lease EXCEPT ![n] = NoLease] ELSE lease

-----------------------------------------------------------------------------
(* The registry                                                            *)

\* Heartbeat: an unknown node is an error, and `ready` does not end draining.
Heard(old, s) ==
  IF old = "absent" \/ (old = "draining" /\ s = "ready") THEN old ELSE s

Heartbeat(n, s) ==
  /\ reg' = [reg EXCEPT ![n] = Heard(@, s)]
  /\ UNCHANGED drain

\* Nobody has node n at hand: not listed, not leased, not about to be marked.
Quiet(n) ==
  /\ \A w \in Workers : n \notin snap[w] /\ node[w] # n
  /\ \A s \in strays : s.node # n

\* An agent starts, and registers its node.
Register(n) ==
  /\ reg' = [reg EXCEPT ![n] = "ready"]
  /\ drain' = [drain EXCEPT ![n] = FALSE]
  /\ UNCHANGED <<leases, worker, keepalive, strays>>

AgentBeat(n) == Heartbeat(n, "ready") /\ UNCHANGED <<leases, worker, keepalive, strays>>

\* An operator drains or activates a node, whatever its state.
SetState(n, s) ==
  /\ reg[n] # "absent"
  /\ s \in {"draining", "ready"}
  /\ reg' = [reg EXCEPT ![n] = s]
  /\ drain' = [drain EXCEPT ![n] = s = "draining" /\ Quiet(n)]
  /\ UNCHANGED <<leases, worker, keepalive, strays>>

-----------------------------------------------------------------------------
(* A worker: tryAcquireReadyNode                                           *)

Goto(w, from, to) == pc[w] = from /\ pc' = [pc EXCEPT ![w] = to]

Listed(w, S) ==
  /\ S # {}
  /\ Goto(w, "idle", "try")
  /\ snap' = [snap EXCEPT ![w] = S]
  /\ UNCHANGED <<leases, registry, node, token, keepalive, strays>>

\* Slip: nodes are listed whatever their state.
List_AnyState(w) == Listed(w, {n \in Nodes : reg[n] # "absent"})

List(w) == Listed(w, {n \in Nodes : reg[n] = "ready"})

\* Back to idle, with the locals as they were.
Idle(w) ==
  /\ pc' = [pc EXCEPT ![w] = "idle"]
  /\ snap' = [snap EXCEPT ![w] = {}]
  /\ node' = [node EXCEPT ![w] = NoNode]
  /\ token' = [token EXCEPT ![w] = 0]

\* Node n is taken: on to the next, or wait and list again.
Skip(w, n) ==
  IF snap[w] = {n} THEN Idle(w)
  ELSE /\ pc' = [pc EXCEPT ![w] = "try"]
       /\ snap' = [snap EXCEPT ![w] = @ \ {n}]
       /\ node' = [node EXCEPT ![w] = NoNode]
       /\ token' = [token EXCEPT ![w] = 0]

Grant(w, n, k) ==
  lease' = [lease EXCEPT ![n] = [owner |-> Owner[w], token |-> k, left |-> TTL]]

\* Acquired: the rest of the list is forgotten.
Acquired(w, n, k) ==
  /\ Grant(w, n, k)
  /\ pc' = [pc EXCEPT ![w] = "mark"]
  /\ snap' = [snap EXCEPT ![w] = {}]
  /\ node' = [node EXCEPT ![w] = n]
  /\ token' = [token EXCEPT ![w] = k]
  /\ age' = [age EXCEPT ![w] = 0]

\* Slip: the counter is incremented after the token is taken from it.
Acquire_TokenFirst(w, n) ==
  /\ memory
  /\ pc[w] = "try" /\ n \in snap[w]
  /\ IF Free(n)
       THEN /\ seq[n] < MaxToken
            /\ Acquired(w, n, seq[n])
            /\ seq' = [m \in Nodes |-> seq[n] + 1]
       ELSE Skip(w, n) /\ UNCHANGED <<lease, seq, age>>
  /\ UNCHANGED <<memory, registry, keeper, timer, due, fails, lost, strays>>

\* InMemoryManager.Acquire: one critical section, one counter for all nodes.
Acquire(w, n) ==
  /\ memory
  /\ pc[w] = "try" /\ n \in snap[w]
  /\ IF Free(n)
       THEN /\ seq[n] < MaxToken
            /\ Acquired(w, n, seq[n] + 1)
            /\ seq' = [m \in Nodes |-> seq[n] + 1]
       ELSE Skip(w, n) /\ UNCHANGED <<lease, seq, age>>
  /\ UNCHANGED <<memory, registry, keeper, timer, due, fails, lost, strays>>

\* RedisManager.Acquire: INCR draws a token, whoever gets the lease.
Draw(w, n) ==
  /\ ~memory
  /\ n \in snap[w] /\ seq[n] < MaxToken
  /\ Goto(w, "try", "claim")
  /\ seq' = [seq EXCEPT ![n] = @ + 1]
  /\ node' = [node EXCEPT ![w] = n]
  /\ token' = [token EXCEPT ![w] = seq[n] + 1]
  /\ UNCHANGED <<memory, lease, registry, snap, keepalive, strays>>

\* ... and SETNX takes the lease.
Claim(w) ==
  /\ pc[w] = "claim"
  /\ IF Free(node[w])
       THEN Acquired(w, node[w], token[w])
       ELSE Skip(w, node[w]) /\ UNCHANGED <<lease, age>>
  /\ UNCHANGED <<memory, seq, registry, keeper, timer, due, fails, lost, strays>>

\* Redis fails, before or after it has done what it was asked: "no node
\* available", and perhaps a lease that nobody holds.
AcquireFails(w) ==
  /\ ~memory /\ pc[w] \in {"try", "claim"}
  /\ \/ UNCHANGED lease
     \/ pc[w] = "claim" /\ Free(node[w]) /\ Grant(w, node[w], token[w])
  /\ Idle(w)
  /\ UNCHANGED <<memory, seq, registry, keepalive, strays>>

\* The node is marked as leased; execution and keepalive start.
Mark(w) ==
  /\ Goto(w, "mark", "execute")
  /\ Heartbeat(node[w], "leased")
  /\ keeper' = [keeper EXCEPT ![w] = "wait"]
  /\ UNCHANGED <<leases, snap, node, token, timer, due, fails, lost, age, strays>>

-----------------------------------------------------------------------------
(* Its keepalive goroutine: startLeaseKeepalive                            *)

\* Renew fails, before or after it has extended the lease: try again later.
RenewFails(w) ==
  /\ ~memory
  /\ keeper[w] = "wait" /\ due[w] /\ fails[w] < MaxFailures
  /\ due' = [due EXCEPT ![w] = FALSE]
  /\ fails' = [fails EXCEPT ![w] = @ + 1]
  /\ \/ UNCHANGED lease
     \/ Renewable(node[w], Owner[w], token[w]) /\ lease' = Extended(node[w])
  /\ UNCHANGED <<memory, seq, registry, worker, keeper, timer, lost, age, strays>>

\* Slip: a lease that is gone is taken for an error.
Renew_Continues(w) ==
  /\ keeper[w] = "wait" /\ due[w]
  /\ due' = [due EXCEPT ![w] = FALSE]
  /\ IF Renewable(node[w], Owner[w], token[w])
       THEN /\ lease' = Extended(node[w])
            /\ keeper' = [keeper EXCEPT ![w] = "beat"]
            /\ fails' = [fails EXCEPT ![w] = 0]
            /\ age' = [age EXCEPT ![w] = 0]
            /\ UNCHANGED lost
       ELSE UNCHANGED <<lease, keeper, lost, fails, age>>
  /\ UNCHANGED <<memory, seq, registry, worker, timer, strays>>

Renew(w) ==
  /\ keeper[w] = "wait" /\ due[w]
  /\ due' = [due EXCEPT ![w] = FALSE]
  /\ IF Renewable(node[w], Owner[w], token[w])
       THEN /\ lease' = Extended(node[w])
            /\ keeper' = [keeper EXCEPT ![w] = "beat"]
            /\ fails' = [fails EXCEPT ![w] = 0]
            /\ age' = [age EXCEPT ![w] = 0]
            /\ UNCHANGED lost
       ELSE /\ lease' = Dropped(node[w])
            /\ keeper' = [keeper EXCEPT ![w] = "off"]
            /\ lost' = [lost EXCEPT ![w] = TRUE]
            /\ UNCHANGED <<fails, age>>
  /\ UNCHANGED <<memory, seq, registry, worker, timer, strays>>

Beat(w) ==
  /\ keeper[w] = "beat"
  /\ Heartbeat(node[w], "leased")
  /\ keeper' = [keeper EXCEPT ![w] = "wait"]
  /\ UNCHANGED <<leases, worker, timer, due, fails, lost, age, strays>>

\* Stopping a keepalive does not wait for it: it may be about to renew, or
\* to heartbeat, and a tick may still win over its context.
StrayOf(w, s) == [node |-> node[w], owner |-> Owner[w], token |-> token[w], step |-> s]
StraysOf(w) ==
  CASE keeper[w] = "beat" -> {{StrayOf(w, "beat")}}
    [] keeper[w] = "wait" /\ due[w] -> {{}, {StrayOf(w, "renew")}}
    [] OTHER -> {{}}

StopKeepalive(w) ==
  /\ \E S \in StraysOf(w) : strays' = strays \cup S
  /\ keeper' = [keeper EXCEPT ![w] = "off"]
  /\ timer' = [timer EXCEPT ![w] = Period]
  /\ due' = [due EXCEPT ![w] = FALSE]
  /\ fails' = [fails EXCEPT ![w] = 0]

\* A cancel request for its task, or a shutdown: the execution's context is
\* cancelled, and the keepalive's with it.
Stopped(w) ==
  /\ keeper[w] # "off"
  /\ StopKeepalive(w)
  /\ UNCHANGED <<leases, registry, worker, lost, age>>

StrayRenew(s) ==
  /\ s \in strays /\ s.step = "renew"
  /\ IF Renewable(s.node, s.owner, s.token)
       THEN /\ lease' = Extended(s.node)
            /\ strays' = (strays \ {s}) \cup {[s EXCEPT !.step = "beat"]}
       ELSE /\ lease' = Dropped(s.node)
            /\ strays' = strays \ {s}
  /\ UNCHANGED <<memory, seq, registry, worker, keepalive>>

StrayBeat(s) ==
  /\ s \in strays /\ s.step = "beat"
  /\ Heartbeat(s.node, "leased")
  /\ \/ strays' = strays \ {s}
     \/ strays' = (strays \ {s}) \cup {[s EXCEPT !.step = "renew"]}
  /\ UNCHANGED <<leases, worker, keepalive>>

-----------------------------------------------------------------------------
(* The end of an attempt                                                   *)

\* Execute returns; an execution that was stopped may still have succeeded.
ExecutionEnds(w, p) ==
  /\ p \in {"complete", "fail"}
  /\ Goto(w, "execute", p)
  /\ UNCHANGED <<leases, registry, snap, node, token, keepalive, strays>>

\* The attempt is reported and the keepalive stopped, if it still runs.
Report(w) ==
  /\ pc[w] \in {"complete", "fail"}
  /\ pc' = [pc EXCEPT ![w] = "release"]
  /\ StopKeepalive(w)
  /\ lost' = [lost EXCEPT ![w] = FALSE]
  /\ age' = [age EXCEPT ![w] = 0]
  /\ UNCHANGED <<leases, registry, snap, node, token>>

\* releaseNode, first half; Redis may fail, and the lease then runs out.
Release(w) ==
  /\ Goto(w, "release", "ready")
  /\ \/ /\ Own(node[w], Owner[w], token[w])
        /\ lease' = [lease EXCEPT ![node[w]] = NoLease]
     \/ /\ Own(node[w], Owner[w], token[w]) => ~memory
        /\ UNCHANGED lease
  /\ UNCHANGED <<memory, seq, registry, snap, node, token, keepalive, strays>>

\* releaseNode, second half.
Ready(w) ==
  /\ pc[w] = "ready"
  /\ Heartbeat(node[w], "ready")
  /\ Idle(w)
  /\ UNCHANGED <<leases, keepalive, strays>>

-----------------------------------------------------------------------------
(* Time                                                                    *)

Executing(w) == pc[w] \in {"execute", "complete", "fail"}

\* The worker starts its keepalive at once, which answers each tick before the next.
OnTime(w) == pc[w] # "mark" /\ ~due[w]

Aged(l) ==
  IF l = NoLease THEN l
  ELSE IF memory THEN [l EXCEPT !.left = IF @ < 0 THEN @ ELSE @ - 1]
  ELSE IF l.left = 1 THEN NoLease ELSE [l EXCEPT !.left = @ - 1]

Tick ==
  /\ \A w \in PromptWorkers : OnTime(w)
  /\ lease' = [n \in Nodes |-> Aged(lease[n])]
  /\ timer' = [w \in Workers |-> IF keeper[w] = "off" THEN timer[w]
                                 ELSE IF timer[w] = 1 THEN Period ELSE timer[w] - 1]
  /\ due' = [w \in Workers |-> due[w] \/ (keeper[w] # "off" /\ timer[w] = 1)]
  /\ age' = [w \in Workers |-> IF (Executing(w) \/ pc[w] = "mark") /\ age[w] < TTL
                               THEN age[w] + 1 ELSE age[w]]
  /\ UNCHANGED <<memory, seq, registry, worker, keeper, fails, lost, strays>>

AgentStep(n) == Register(n) \/ AgentBeat(n) \/ \E s \in NodeState : SetState(n, s)

WorkerStep(w) ==
  \/ List(w) \/ (\E n \in Nodes : Acquire(w, n) \/ Draw(w, n)) \/ Claim(w)
  \/ AcquireFails(w) \/ Mark(w)
  \/ (\E p \in PC : ExecutionEnds(w, p)) \/ Stopped(w) \/ Report(w)
  \/ Release(w) \/ Ready(w)

KeepaliveStep(w) == RenewFails(w) \/ Renew(w) \/ Beat(w)

StrayStep == \E s \in strays : StrayRenew(s) \/ StrayBeat(s)

Next ==
  \/ \E n \in Nodes : AgentStep(n)
  \/ \E w \in Workers : WorkerStep(w) \/ KeepaliveStep(w)
  \/ StrayStep
  \/ Tick

Spec == Init /\ [][Next]_vars

(***************************************************************************)
(* Time passes, a worker that has acquired a node goes on to execute, its  *)
(* keepalive is scheduled, and an execution whose context was cancelled,   *)
(* by its keepalive or together with it, returns.  Other executions may    *)
(* last for ever.  The three exclude each other, so one condition does.    *)
(***************************************************************************)
StoppedEnds(w) == keeper[w] = "off" /\ \E p \in PC : ExecutionEnds(w, p)

GoesOn(w) == Mark(w) \/ KeepaliveStep(w) \/ StoppedEnds(w)

Fairness == WF_vars(Tick) /\ \A w \in Workers : WF_vars(GoesOn(w))

FairSpec == Spec /\ Fairness

-----------------------------------------------------------------------------
(* Properties                                                              *)

\* Every variable has its type; workers at the same node have drawn different
\* tokens (lease/inmemory.go:50-51, redis.go:43), and only an execution has a
\* keepalive or has lost its lease (runner.go:223-232).
TypeOK ==
  /\ memory \in BOOLEAN
  /\ lease \in [Nodes -> Lease \cup {NoLease}]
  /\ seq \in [Nodes -> 0..MaxToken]
  /\ reg \in [Nodes -> NodeState]
  /\ drain \in [Nodes -> BOOLEAN]
  /\ pc \in [Workers -> PC]
  /\ snap \in [Workers -> SUBSET Nodes]
  /\ node \in [Workers -> Nodes \cup {NoNode}]
  /\ token \in [Workers -> 0..MaxToken]
  /\ keeper \in [Workers -> {"off", "wait", "beat"}]
  /\ timer \in [Workers -> 1..Period]
  /\ due \in [Workers -> BOOLEAN]
  /\ fails \in [Workers -> 0..MaxFailures]
  /\ lost \in [Workers -> BOOLEAN]
  /\ age \in [Workers -> 0..TTL]
  /\ strays \subseteq Stray
  /\ \A u, w \in Workers :
       u # w /\ node[u] \in Nodes /\ node[u] = node[w] => token[u] # token[w]
  /\ \A w \in Workers : keeper[w] # "off" \/ due[w] \/ lost[w] => Executing(w)

Holds(w) == Own(node[w], Owner[w], token[w]) /\ lease[node[w]].left > 0

\* Two executions share a node only when one of them has gone without a
\* successful Acquire or Renew for a whole TTL (runner.go:553, 612; what
\* TestRunnerSharedLeasePreventsConcurrentExecutionOnSingleNode samples).
FreshExecutorIsAlone ==
  \A w1, w2 \in Workers :
    Executing(w1) /\ Executing(w2) /\ w1 # w2 /\ node[w1] = node[w2]
      => age[w1] = TTL \/ age[w2] = TTL

\* A keepalive that is on time keeps the lease until it is stopped, by the end
\* of the execution, a cancel request or a shutdown, through as many errors of
\* the lease store as a third of the TTL allows for, and never finds the lease
\* lost (runner.go:595-601, 611-621).
PromptKeepsLease ==
  \A w \in PromptWorkers : ~lost[w] /\ (keeper[w] # "off" => Holds(w))

\* A lease that has not expired is only released, or extended, on behalf of
\* the worker it was granted to, whatever late calls its former holders
\* still make (lease/inmemory.go:82, 117; redis.go:125-145).
LeaseLostOnlyByExpiry ==
  [][\A n \in Nodes : lease[n].left > 0 =>
       \/ lease'[n].token = lease[n].token /\ lease'[n].left <= lease[n].left
       \/ lease[n].left = 1 /\ lease'[n] = NoLease
       \/ /\ lease'[n].token = lease[n].token
          /\ \/ \E w \in Workers :
                  keeper[w] # "off" /\ node[w] = n /\ token[w] = lease[n].token
             \/ \E s \in strays : s.node = n /\ s.token = lease[n].token
       \/ \E w \in Workers :
            pc[w] = "release" /\ pc'[w] = "ready" /\ node[w] = n /\ token[w] = lease[n].token]_vars

\* A node that nobody was using when it was drained stays drained and unused
\* until it is activated or its agent starts again, although agents keep on
\* saying that it is ready (registry.go:108; runner.go:548).
DrainedIdleStaysDrained ==
  \A n \in Nodes : drain[n] => reg[n] = "draining" /\ Quiet(n)

\* An execution that has lost its lease is stopped, unless a cancel request or
\* a shutdown has stopped it before (runner.go:223-228, 617-621).
LosersStop ==
  \A w \in Workers :
    pc[w] = "execute" /\ ~Own(node[w], Owner[w], token[w]) ~> pc[w] # "execute"

\* README.md:153, of the fencing tokens: "If a lease expires mid-execution (due
\* to a slow task), the orchestrator will not accept stale results."
StaleResultsRefused ==
  [][\A w \in Workers : pc[w] = "complete" /\ pc'[w] = "release" => Holds(w)]_vars
=============================================================================
