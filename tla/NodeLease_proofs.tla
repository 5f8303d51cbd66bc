-------------------------- MODULE NodeLease_proofs --------------------------
(***************************************************************************)
(* Proofs about NodeLease for every set of nodes and workers, every TTL,   *)
(* interval and number of errors, and both lease managers.                 *)
(***************************************************************************)
EXTENDS NodeLease, TLAPS

USE LeaseAssumption

-----------------------------------------------------------------------------
(* Types, and what ties the variables of a part together *)

LeaseInv ==
  /\ memory \in BOOLEAN
  /\ lease \in [Nodes -> Lease \cup {NoLease}]
  /\ seq \in [Nodes -> 0..MaxToken]
  /\ \A n \in Nodes : lease[n].token <= seq[n]
  /\ memory => \A m, n \in Nodes : seq[m] = seq[n]
  /\ ~memory => \A n \in Nodes : lease[n] = NoLease \/ lease[n].left >= 1

RegistryInv ==
  /\ reg \in [Nodes -> NodeState]
  /\ drain \in [Nodes -> BOOLEAN]

WorkerTypes ==
  /\ pc \in [Workers -> PC]
  /\ snap \in [Workers -> SUBSET Nodes]
  /\ node \in [Workers -> Nodes \cup {NoNode}]
  /\ token \in [Workers -> 0..MaxToken]
  /\ \A w \in Workers : node[w] \in Nodes <=> pc[w] \notin {"idle", "try"}

\* Workers that are at the same node have drawn different tokens.
TokenInv ==
  /\ \A w \in Workers : node[w] \in Nodes => token[w] \in 1..seq[node[w]]
  /\ \A u, w \in Workers :
       u # w /\ node[u] \in Nodes /\ node[u] = node[w] => token[u] # token[w]

\* What the keepalive of a worker that is not executing looks like.
AtRest(w) == keeper[w] = "off" /\ timer[w] = Period /\ ~due[w] /\ fails[w] = 0 /\ ~lost[w]

KeepaliveInv ==
  /\ keeper \in [Workers -> {"off", "wait", "beat"}]
  /\ timer \in [Workers -> 1..Period]
  /\ due \in [Workers -> BOOLEAN]
  /\ fails \in [Workers -> 0..MaxFailures]
  /\ lost \in [Workers -> BOOLEAN]
  /\ age \in [Workers -> 0..TTL]
  /\ \A w \in Workers : ~Executing(w) => AtRest(w)

StrayInv == strays \subseteq Stray

TypeInv == LeaseInv /\ RegistryInv /\ WorkerTypes /\ TokenInv /\ KeepaliveInv /\ StrayInv

\* The strengthened invariant says of every variable what TypeOK says.
LEMMA TypeInvImpliesTypeOK == TypeInv => TypeOK
BY DEF TypeInv, LeaseInv, RegistryInv, WorkerTypes, TokenInv, KeepaliveInv, StrayInv, AtRest,
   TypeOK

\* No entry is no lease, and token and time left are numbers in both.
LEMMA NoLeaseIsNoLease ==
  /\ NoLease \notin Lease /\ NoLease.token = 0 /\ NoLease.left = 0
  /\ \A l \in Lease \cup {NoLease} : l.token \in Nat /\ l.left \in Int
<1>1. NoLease \notin Lease /\ NoLease.token = 0 /\ NoLease.left = 0
  BY DEF NoLease, Lease
<1>2. \A l \in Lease : l.token \in 1..MaxToken /\ l.left \in -1..TTL
  BY DEF Lease
<1>3. QED
  BY <1>1, <1>2

\* No node is registered and no worker has anything in the initial states.
LEMMA TypeInit == Init => TypeInv
BY NoLeaseIsNoLease DEF Init, TypeInv, LeaseInv, RegistryInv, WorkerTypes, TokenInv,
   KeepaliveInv, StrayInv, NodeState, PC, AtRest, Executing

\* Each part of the invariant depends on the variables of that part only.
LEMMA TypeStutter ==
  /\ LeaseInv /\ UNCHANGED leases => LeaseInv'
  /\ RegistryInv /\ UNCHANGED registry => RegistryInv'
  /\ WorkerTypes /\ UNCHANGED worker => WorkerTypes'
  /\ TokenInv /\ UNCHANGED <<seq, node, token>> => TokenInv'
  /\ KeepaliveInv /\ UNCHANGED <<pc, keepalive>> => KeepaliveInv'
  /\ StrayInv /\ UNCHANGED strays => StrayInv'
BY DEF LeaseInv, RegistryInv, WorkerTypes, TokenInv, KeepaliveInv, StrayInv,
   leases, registry, worker, keepalive, AtRest, Executing

-----------------------------------------------------------------------------
(* The leases *)

\* The ways in which a step other than Tick writes the leases of node n.
LEMMA Granting ==
  ASSUME LeaseInv, NEW n \in Nodes, NEW w \in Workers, NEW k \in 1..MaxToken,
         Grant(w, n, k), UNCHANGED memory,
         seq' \in [Nodes -> 0..MaxToken], k <= seq'[n],
         \A m \in Nodes : seq[m] <= seq'[m],
         memory => \A l, m \in Nodes : seq'[l] = seq'[m]
  PROVE  LeaseInv'
<1> DEFINE entry == [owner |-> Owner[w], token |-> k, left |-> TTL]
<1>1. entry \in Lease
  BY DEF Lease
<1>2. lease' = [lease EXCEPT ![n] = entry]
  BY DEF Grant
<1>3. /\ lease'[n] = entry
      /\ \A m \in Nodes : m # n => lease'[m] = lease[m]
      /\ lease' \in [Nodes -> Lease \cup {NoLease}]
  BY <1>1, <1>2 DEF LeaseInv
<1>4. ASSUME NEW m \in Nodes
      PROVE  lease'[m].token <= seq'[m]
  <2>1. CASE m = n
    BY <1>3, <2>1
  <2>2. CASE m # n
    <3>1. lease[m].token \in Nat
      BY NoLeaseIsNoLease DEF LeaseInv
    <3>2. QED
      BY <1>3, <2>2, <3>1 DEF LeaseInv
  <2>3. QED
    BY <2>1, <2>2
<1>5. QED
  BY <1>3, <1>4 DEF LeaseInv

\* Renew, when it says yes, leaves a well-typed entry.
LEMMA Extending ==
  ASSUME LeaseInv, NEW n \in Nodes, lease[n] # NoLease,
         lease' = Extended(n), UNCHANGED <<memory, seq>>
  PROVE  LeaseInv'
<1>1. lease[n] \in Lease
  BY DEF LeaseInv
<1>2. [lease[n] EXCEPT !.left = TTL] \in Lease
  BY <1>1 DEF Lease
<1>3. lease' = [lease EXCEPT ![n] = [lease[n] EXCEPT !.left = TTL]]
  BY DEF Extended
<1>4. lease' \in [Nodes -> Lease \cup {NoLease}]
  BY <1>2, <1>3 DEF LeaseInv
<1>5. \A m \in Nodes : m # n => lease'[m] = lease[m]
  BY <1>3 DEF LeaseInv
<1>6. lease'[n].token = lease[n].token /\ lease'[n].left = TTL
  BY <1>1, <1>3 DEF Lease, LeaseInv
<1>7. QED
  BY <1>4, <1>5, <1>6 DEF LeaseInv

\* So does Release, and a Renew that drops an expired entry.
LEMMA Removing ==
  ASSUME LeaseInv, NEW n \in Nodes,
         lease' = [lease EXCEPT ![n] = NoLease], UNCHANGED <<memory, seq>>
  PROVE  LeaseInv'
<1>1. /\ lease' \in [Nodes -> Lease \cup {NoLease}]
      /\ lease'[n] = NoLease
      /\ \A m \in Nodes : m # n => lease'[m] = lease[m]
  BY DEF LeaseInv
<1>2. QED
  BY <1>1, NoLeaseIsNoLease DEF LeaseInv

\* So does time: the entry in memory stops ageing below zero, the key is gone at zero.
LEMMA Aging ==
  ASSUME LeaseInv, lease' = [n \in Nodes |-> Aged(lease[n])], UNCHANGED <<memory, seq>>
  PROVE  LeaseInv'
<1>1. ASSUME NEW n \in Nodes
      PROVE  /\ lease'[n] \in Lease \cup {NoLease}
             /\ lease'[n].token <= seq[n]
             /\ ~memory => lease'[n] = NoLease \/ lease'[n].left >= 1
  <2>1. CASE lease[n] = NoLease
    BY <2>1 DEF LeaseInv, Aged
  <2>2. CASE lease[n] # NoLease
    <3> DEFINE l == lease[n]
    <3>1. l \in Lease /\ l.left \in -1..TTL /\ l.token <= seq[n]
      BY <2>2 DEF LeaseInv, Lease
    <3>2. CASE memory
      <4>1. lease'[n] = [l EXCEPT !.left = IF @ < 0 THEN @ ELSE @ - 1]
        BY <2>2, <3>2 DEF Aged
      <4>2. QED
        BY <3>1, <3>2, <4>1 DEF Lease
    <3>3. CASE ~memory /\ l.left = 1
      <4>1. lease'[n] = NoLease
        BY <2>2, <3>3 DEF Aged
      <4>2. QED
        BY <4>1, NoLeaseIsNoLease DEF LeaseInv
    <3>4. CASE ~memory /\ l.left # 1
      <4>1. lease'[n] = [l EXCEPT !.left = @ - 1]
        BY <2>2, <3>4 DEF Aged
      <4>2. l.left >= 1
        BY <2>2, <3>4 DEF LeaseInv
      <4>3. QED
        BY <3>1, <3>4, <4>1, <4>2 DEF Lease
    <3>5. QED
      BY <3>2, <3>3, <3>4 DEF LeaseInv
  <2>3. QED
    BY <2>1, <2>2
<1>2. lease' \in [Nodes -> Lease \cup {NoLease}]
  BY <1>1
<1>3. QED
  BY <1>1, <1>2 DEF LeaseInv

\* A worker has a node while it claims, holds or gives back a lease.
LEMMA NodeOf ==
  ASSUME TypeInv, NEW w \in Workers
  PROVE  /\ pc[w] \notin {"idle", "try"} => node[w] \in Nodes /\ token[w] \in 1..MaxToken
         /\ pc[w] \notin {"idle", "try"} => token[w] <= seq[node[w]]
         /\ keeper[w] # "off" \/ due[w] \/ lost[w] => Executing(w)
         /\ Executing(w) => pc[w] \notin {"idle", "try"}
<1>1. Executing(w) => pc[w] \notin {"idle", "try"}
  BY DEF Executing
<1>2. keeper[w] # "off" \/ due[w] \/ lost[w] => Executing(w)
  BY DEF TypeInv, KeepaliveInv, AtRest
<1>3. pc[w] \notin {"idle", "try"} => node[w] \in Nodes
  BY DEF TypeInv, WorkerTypes
<1>4. node[w] \in Nodes => token[w] \in 1..seq[node[w]] /\ seq[node[w]] \in 0..MaxToken
  BY DEF TypeInv, TokenInv, LeaseInv
<1>5. node[w] \in Nodes => token[w] \in 1..MaxToken /\ token[w] <= seq[node[w]]
  BY <1>4
<1>6. QED
  BY <1>1, <1>2, <1>3, <1>5

\* Who owns a lease, or may renew it, finds an entry.
LEMMA OwnsEntry ==
  ASSUME NEW n, NEW o, NEW k, Own(n, o, k) \/ Renewable(n, o, k)
  PROVE  lease[n] # NoLease
BY DEF Own, Renewable

\* A Renew that says no leaves the leases as they were, or drops an entry.
LEMMA DropTypes ==
  ASSUME LeaseInv, NEW n \in Nodes, lease' = Dropped(n), UNCHANGED <<memory, seq>>
  PROVE  LeaseInv'
<1>1. lease' = [lease EXCEPT ![n] = NoLease] \/ UNCHANGED leases
  BY DEF Dropped, leases
<1>2. QED
  BY <1>1, Removing, TypeStutter

\* Every step keeps LeaseInv.
LEMMA LeaseStep ==
  ASSUME TypeInv, Next
  PROVE  LeaseInv'
<1> USE DEF TypeInv
<1>1. CASE UNCHANGED leases
  BY <1>1, TypeStutter
<1>2. ASSUME NEW w \in Workers, NEW n \in Nodes, Acquire(w, n)
      PROVE  LeaseInv'
  <2>1. CASE Free(n)
    <3>1. /\ seq[n] < MaxToken /\ memory /\ memory' = memory
          /\ Grant(w, n, seq[n] + 1)
          /\ seq' = [m \in Nodes |-> seq[n] + 1]
      BY <1>2, <2>1 DEF Acquire, Acquired
    <3>2. seq[n] + 1 \in 1..MaxToken
      BY <3>1 DEF LeaseInv
    <3>3. \A m \in Nodes : seq'[m] = seq[n] + 1 /\ seq[m] = seq[n]
      BY <3>1 DEF LeaseInv
    <3>4. QED
      BY <3>1, <3>2, <3>3, Granting DEF LeaseInv
  <2>2. CASE ~Free(n)
    BY <1>1, <1>2, <2>2 DEF Acquire, leases
  <2>3. QED
    BY <2>1, <2>2
<1>3. ASSUME NEW w \in Workers, NEW n \in Nodes, Draw(w, n)
      PROVE  LeaseInv'
  <2>1. /\ ~memory /\ memory' = memory /\ lease' = lease /\ seq[n] < MaxToken
        /\ seq' = [seq EXCEPT ![n] = @ + 1]
    BY <1>3 DEF Draw
  <2>2. /\ seq' \in [Nodes -> 0..MaxToken]
        /\ \A m \in Nodes : seq[m] <= seq'[m]
    BY <2>1 DEF LeaseInv
  <2>3. \A m \in Nodes : lease[m].token \in Nat
    BY NoLeaseIsNoLease DEF LeaseInv
  <2>4. ASSUME NEW m \in Nodes
        PROVE  lease'[m].token <= seq'[m]
    <3>1. lease'[m].token = lease[m].token /\ lease[m].token <= seq[m] /\ seq[m] <= seq'[m]
      BY <2>1, <2>2 DEF LeaseInv
    <3>2. lease[m].token \in Int /\ seq[m] \in Int /\ seq'[m] \in Int
      BY <2>2, <2>3 DEF LeaseInv
    <3>3. QED
      BY <3>1, <3>2
  <2>5. QED
    BY <2>1, <2>2, <2>4 DEF LeaseInv
<1>4. ASSUME NEW w \in Workers, pc[w] = "claim", Grant(w, node[w], token[w]),
             UNCHANGED <<memory, seq>>
      PROVE  LeaseInv'
  <2>1. node[w] \in Nodes /\ token[w] \in 1..MaxToken /\ token[w] <= seq[node[w]]
    BY <1>4, NodeOf
  <2>2. /\ \A m \in Nodes : seq[m] <= seq'[m]
        /\ seq' \in [Nodes -> 0..MaxToken] /\ token[w] <= seq'[node[w]]
        /\ memory => \A l, m \in Nodes : seq'[l] = seq'[m]
    BY <1>4, <2>1 DEF LeaseInv
  <2>3. QED
    BY <1>4, <2>1, <2>2, Granting
<1>5. ASSUME NEW w \in Workers, Claim(w)
      PROVE  LeaseInv'
  BY <1>1, <1>4, <1>5 DEF Claim, Acquired, leases
<1>6. ASSUME NEW w \in Workers, AcquireFails(w)
      PROVE  LeaseInv'
  BY <1>1, <1>4, <1>6 DEF AcquireFails, leases
<1>7. ASSUME NEW w \in Workers, RenewFails(w) \/ Renew(w)
      PROVE  LeaseInv'
  <2>1. node[w] \in Nodes
    BY <1>7, NodeOf DEF RenewFails, Renew
  <2>2. CASE UNCHANGED leases
    BY <1>1, <2>2
  <2>3. CASE Renewable(node[w], Owner[w], token[w]) /\ lease' = Extended(node[w])
             /\ UNCHANGED <<memory, seq>>
    BY <2>1, <2>3, OwnsEntry, Extending
  <2>4. CASE lease' = Dropped(node[w]) /\ UNCHANGED <<memory, seq>>
    BY <2>1, <2>4, DropTypes
  <2>5. QED
    BY <1>7, <2>2, <2>3, <2>4 DEF RenewFails, Renew, leases
<1>8. ASSUME NEW s \in strays, StrayRenew(s)
      PROVE  LeaseInv'
  <2>1. s.node \in Nodes
    BY DEF StrayInv, Stray
  <2>2. CASE Renewable(s.node, s.owner, s.token)
    <3>1. lease' = Extended(s.node) /\ UNCHANGED <<memory, seq>>
      BY <1>8, <2>2 DEF StrayRenew
    <3>2. QED
      BY <2>1, <2>2, <3>1, OwnsEntry, Extending
  <2>3. CASE ~Renewable(s.node, s.owner, s.token)
    BY <1>8, <2>1, <2>3, DropTypes DEF StrayRenew
  <2>4. QED
    BY <2>2, <2>3
<1>9. ASSUME NEW w \in Workers, Release(w)
      PROVE  LeaseInv'
  <2>1. node[w] \in Nodes
    BY <1>9, NodeOf DEF Release, Goto
  <2>2. QED
    BY <1>1, <1>9, <2>1, Removing DEF Release, leases
<1>10. CASE Tick
  BY <1>10, Aging DEF Tick
<1>11. QED
  <2>1. ASSUME NEW n \in Nodes, AgentStep(n)
        PROVE  UNCHANGED leases
    BY <2>1 DEF AgentStep, Register, AgentBeat, SetState
  <2>2. ASSUME NEW w \in Workers,
               List(w) \/ Mark(w) \/ (\E p \in PC : ExecutionEnds(w, p)) \/ Stopped(w)
               \/ Report(w) \/ Ready(w) \/ Beat(w)
        PROVE  UNCHANGED leases
    BY <2>2 DEF List, Listed, Mark, ExecutionEnds, Stopped, Report, Ready, Beat
  <2>3. ASSUME NEW s \in strays, StrayBeat(s)
        PROVE  UNCHANGED leases
    BY <2>3 DEF StrayBeat
  <2>4. QED
    BY <1>1, <1>2, <1>3, <1>5, <1>6, <1>7, <1>8, <1>9, <1>10, <2>1, <2>2, <2>3
       DEF Next, WorkerStep, KeepaliveStep, StrayStep

-----------------------------------------------------------------------------
(* The registry, the workers, their tokens, and the keepalives *)

\* A heartbeat leaves the registry well typed, whatever it makes of the state.
LEMMA HeartbeatTypes ==
  ASSUME RegistryInv, NEW n \in Nodes, NEW s \in NodeState, Heartbeat(n, s)
  PROVE  RegistryInv'
<1>1. Heard(reg[n], s) \in NodeState
  BY DEF RegistryInv, Heard
<1>2. reg' = [reg EXCEPT ![n] = Heard(reg[n], s)] /\ drain' = drain
  BY DEF Heartbeat
<1>3. QED
  BY <1>1, <1>2 DEF RegistryInv

\* Every step keeps RegistryInv.
LEMMA RegistryStep ==
  ASSUME TypeInv, Next
  PROVE  RegistryInv'
<1> USE DEF TypeInv
<1>1. CASE UNCHANGED registry
  BY <1>1, TypeStutter
<1>2. ASSUME NEW n \in Nodes, AgentStep(n)
      PROVE  RegistryInv'
  <2>1. CASE Register(n)
    BY <2>1 DEF Register, RegistryInv, NodeState
  <2>2. CASE AgentBeat(n)
    BY <2>2, HeartbeatTypes DEF AgentBeat, NodeState
  <2>3. ASSUME NEW s \in NodeState, SetState(n, s)
        PROVE  RegistryInv'
    BY <2>3 DEF SetState, RegistryInv
  <2>4. QED
    BY <1>2, <2>1, <2>2, <2>3 DEF AgentStep
<1>3. ASSUME NEW w \in Workers, Mark(w) \/ Ready(w) \/ Beat(w)
      PROVE  RegistryInv'
  <2>1. node[w] \in Nodes
    BY <1>3, NodeOf DEF Mark, Ready, Beat, Goto
  <2>2. "leased" \in NodeState /\ "ready" \in NodeState
    BY DEF NodeState
  <2>3. QED
    BY <1>3, <2>1, <2>2, HeartbeatTypes DEF Mark, Ready, Beat
<1>4. ASSUME NEW s \in strays, StrayBeat(s)
      PROVE  RegistryInv'
  BY <1>4, HeartbeatTypes DEF StrayBeat, StrayInv, Stray, NodeState
<1>5. CASE Tick
  BY <1>1, <1>5 DEF Tick
<1>6. QED
  <2>1. ASSUME NEW w \in Workers,
               List(w) \/ (\E n \in Nodes : Acquire(w, n) \/ Draw(w, n)) \/ Claim(w)
               \/ AcquireFails(w) \/ (\E p \in PC : ExecutionEnds(w, p)) \/ Stopped(w)
               \/ Report(w) \/ Release(w) \/ RenewFails(w) \/ Renew(w)
        PROVE  UNCHANGED registry
    BY <2>1 DEF List, Listed, Acquire, Draw, Claim, AcquireFails, ExecutionEnds, Stopped,
                Report, Release, RenewFails, Renew
  <2>2. ASSUME NEW s \in strays, StrayRenew(s)
        PROVE  UNCHANGED registry
    BY <2>2 DEF StrayRenew
  <2>3. QED
    BY <1>1, <1>2, <1>3, <1>4, <1>5, <2>1, <2>2
       DEF Next, WorkerStep, KeepaliveStep, StrayStep

\* Where a worker is, and the node and token that it has there.
Stay(w) == UNCHANGED <<pc[w], snap[w], node[w], token[w]>>
Move(w, p, S, n, k) ==
  /\ pc' = [pc EXCEPT ![w] = p]
  /\ snap' = [snap EXCEPT ![w] = S]
  /\ node' = [node EXCEPT ![w] = n]
  /\ token' = [token EXCEPT ![w] = k]

\* A step of worker w leaves it with a node, or without one.
LEMMA Moving ==
  ASSUME WorkerTypes, NEW w \in Workers, NEW p \in PC, NEW S \in SUBSET Nodes,
         NEW n \in Nodes \cup {NoNode}, NEW k \in 0..MaxToken,
         Move(w, p, S, n, k), n \in Nodes <=> p \notin {"idle", "try"}
  PROVE  WorkerTypes'
BY DEF WorkerTypes, Move

\* A worker that did not get a node has none, and no token.
LEMMA Skipping ==
  ASSUME WorkerTypes, NEW w \in Workers, NEW n, Skip(w, n) \/ Idle(w)
  PROVE  \E p \in {"idle", "try"} : \E S \in SUBSET Nodes : Move(w, p, S, NoNode, 0)
<1>1. {} \in SUBSET Nodes /\ snap[w] \ {n} \in SUBSET Nodes
  BY DEF WorkerTypes
<1>2. CASE Idle(w)
  BY <1>1, <1>2 DEF Idle, Move
<1>3. CASE Skip(w, n) /\ ~Idle(w)
  <2>1. Move(w, "try", snap[w] \ {n}, NoNode, 0)
    BY <1>3 DEF Skip, Move
  <2>2. QED
    BY <1>1, <2>1
<1>4. QED
  BY <1>2, <1>3

\* Worker w keeps its node and token, drops them, or draws a new token.
Keeps(w) == \E p \in PC, S \in SUBSET Nodes :
  /\ Move(w, p, S, node[w], token[w])
  /\ pc[w] \in {"idle", "try"} <=> p \in {"idle", "try"}
Leaves(w) == \E p \in {"idle", "try"}, S \in SUBSET Nodes : Move(w, p, S, NoNode, 0)
Draws(w) == \E p \in PC \ {"idle", "try"}, S \in SUBSET Nodes, n \in Nodes :
  /\ Move(w, p, S, n, seq[n] + 1)
  /\ seq[n] < MaxToken /\ seq'[n] = seq[n] + 1

\* A step that writes pc and perhaps the list keeps node and token.
LEMMA Keeping ==
  ASSUME WorkerTypes, NEW w \in Workers, NEW p \in PC, NEW S \in SUBSET Nodes,
         pc' = [pc EXCEPT ![w] = p], snap' = snap \/ snap' = [snap EXCEPT ![w] = S],
         UNCHANGED <<node, token>>,
         pc[w] \in {"idle", "try"} <=> p \in {"idle", "try"}
  PROVE  Keeps(w)
<1>1. node' = [node EXCEPT ![w] = node[w]] /\ token' = [token EXCEPT ![w] = token[w]]
  BY DEF WorkerTypes
<1>2. snap = [snap EXCEPT ![w] = snap[w]] /\ snap[w] \in SUBSET Nodes
  BY DEF WorkerTypes
<1>3. PICK T \in SUBSET Nodes : snap' = [snap EXCEPT ![w] = T]
  BY <1>2
<1>4. Move(w, p, T, node[w], token[w])
  BY <1>1, <1>3 DEF Move
<1>5. QED
  BY <1>4 DEF Keeps

\* Every step of a worker is one of the three.
LEMMA Moves ==
  ASSUME TypeInv, NEW w \in Workers, WorkerStep(w)
  PROVE  Keeps(w) \/ Leaves(w) \/ Draws(w)
<1> USE DEF TypeInv
<1>1. ASSUME NEW n, Skip(w, n) \/ Idle(w)
      PROVE  Leaves(w)
  BY <1>1, Skipping DEF Leaves
<1>2. CASE List(w)
  <2>1. {n \in Nodes : reg[n] = "ready"} \in SUBSET Nodes
    OBVIOUS
  <2>2. QED
    BY <1>2, <2>1, Keeping DEF List, Listed, Goto, PC
<1>3. ASSUME NEW n \in Nodes, Acquire(w, n)
      PROVE  Leaves(w) \/ Draws(w)
  <2>1. CASE Free(n)
    <3>1. /\ Move(w, "mark", {}, n, seq[n] + 1)
          /\ seq[n] < MaxToken /\ seq'[n] = seq[n] + 1
      BY <1>3, <2>1 DEF Acquire, Acquired, Move
    <3>2. "mark" \in PC \ {"idle", "try"} /\ {} \in SUBSET Nodes
      BY DEF PC
    <3>3. QED
      BY <3>1, <3>2 DEF Draws
  <2>2. CASE ~Free(n)
    BY <1>1, <1>3, <2>2 DEF Acquire
  <2>3. QED
    BY <2>1, <2>2
<1>4. ASSUME NEW n \in Nodes, Draw(w, n)
      PROVE  Draws(w)
  <2>1. snap = [snap EXCEPT ![w] = snap[w]] /\ snap[w] \in SUBSET Nodes
    BY DEF WorkerTypes
  <2>2. Move(w, "claim", snap[w], n, seq[n] + 1)
    BY <1>4, <2>1 DEF Draw, Goto, Move
  <2>3. seq[n] < MaxToken /\ seq'[n] = seq[n] + 1
    BY <1>4 DEF Draw, LeaseInv
  <2>4. "claim" \in PC \ {"idle", "try"}
    BY DEF PC
  <2>5. QED
    BY <2>1, <2>2, <2>3, <2>4 DEF Draws
<1>5. CASE Claim(w)
  <2>1. CASE Free(node[w])
    <3>1. Move(w, "mark", {}, node[w], token[w]) /\ pc[w] = "claim"
      BY <1>5, <2>1 DEF Claim, Acquired, Move
    <3>2. "mark" \in PC /\ {} \in SUBSET Nodes
      BY DEF PC
    <3>3. QED
      BY <3>1, <3>2 DEF Keeps
  <2>2. CASE ~Free(node[w])
    BY <1>1, <1>5, <2>2 DEF Claim
  <2>3. QED
    BY <2>1, <2>2
<1>6. CASE AcquireFails(w) \/ Ready(w)
  BY <1>1, <1>6 DEF AcquireFails, Ready
<1>7. CASE Mark(w)
  BY <1>7, Keeping DEF Mark, Goto, PC
<1>8. ASSUME NEW p \in PC, ExecutionEnds(w, p)
      PROVE  Keeps(w)
  BY <1>8, Keeping DEF ExecutionEnds, Goto
<1>9. CASE Report(w)
  BY <1>9, Keeping DEF Report, PC
<1>10. CASE Release(w)
  BY <1>10, Keeping DEF Release, Goto, PC
<1>11. CASE Stopped(w)
  <2>1. pc' = [pc EXCEPT ![w] = pc[w]] /\ pc[w] \in PC
    BY <1>11 DEF Stopped, worker, WorkerTypes
  <2>2. QED
    BY <1>11, <2>1, Keeping DEF Stopped, worker
<1>12. QED
  BY <1>2, <1>3, <1>4, <1>5, <1>6, <1>7, <1>8, <1>9, <1>10, <1>11 DEF WorkerStep

\* Tokens are drawn in increasing order, on every node.
LEMMA SeqGrows ==
  ASSUME TypeInv, Next
  PROVE  seq' \in [Nodes -> 0..MaxToken] /\ \A n \in Nodes : seq[n] <= seq'[n]
<1> USE DEF TypeInv
<1>1. seq' \in [Nodes -> 0..MaxToken]
  BY LeaseStep DEF LeaseInv
<1>2. CASE UNCHANGED seq
  BY <1>1, <1>2
<1>3. ASSUME NEW w \in Workers, NEW n \in Nodes, Acquire(w, n)
      PROVE  \A m \in Nodes : seq[m] <= seq'[m]
  <2>1. CASE seq' = [m \in Nodes |-> seq[n] + 1] /\ memory
    <3>1. \A m \in Nodes : seq'[m] = seq[n] + 1 /\ seq[m] = seq[n]
      BY <2>1 DEF LeaseInv
    <3>2. QED
      BY <3>1 DEF LeaseInv
  <2>2. QED
    BY <1>2, <1>3, <2>1, <1>1 DEF Acquire, LeaseInv
<1>4. ASSUME NEW w \in Workers, NEW n \in Nodes, Draw(w, n)
      PROVE  \A m \in Nodes : seq[m] <= seq'[m]
  BY <1>4 DEF Draw, LeaseInv
<1>5. QED
  <2>1. ASSUME NEW n \in Nodes, AgentStep(n)
        PROVE  UNCHANGED seq
    BY <2>1 DEF AgentStep, Register, AgentBeat, SetState, leases
  <2>2. ASSUME NEW w \in Workers,
               List(w) \/ Claim(w) \/ AcquireFails(w) \/ Mark(w)
               \/ (\E p \in PC : ExecutionEnds(w, p)) \/ Stopped(w) \/ Report(w)
               \/ Release(w) \/ Ready(w) \/ KeepaliveStep(w)
        PROVE  UNCHANGED seq
    BY <2>2 DEF List, Listed, Claim, AcquireFails, Mark, ExecutionEnds, Stopped, Report,
                Release, Ready, KeepaliveStep, RenewFails, Renew, Beat, leases
  <2>3. CASE StrayStep \/ Tick
    BY <2>3, <1>2, <1>1 DEF StrayStep, StrayRenew, StrayBeat, Tick, leases
  <2>4. QED
    BY <1>1, <1>2, <1>3, <1>4, <2>1, <2>2, <2>3 DEF Next, WorkerStep, LeaseInv

\* Only the worker itself writes where it is.
LEMMA OthersLeaveWorkers ==
  ASSUME Next, \A w \in Workers : ~WorkerStep(w)
  PROVE  UNCHANGED worker
<1>1. ASSUME NEW n \in Nodes, AgentStep(n)
      PROVE  UNCHANGED worker
  BY <1>1 DEF AgentStep, Register, AgentBeat, SetState
<1>2. ASSUME NEW w \in Workers, KeepaliveStep(w)
      PROVE  UNCHANGED worker
  BY <1>2 DEF KeepaliveStep, RenewFails, Renew, Beat
<1>3. CASE StrayStep \/ Tick
  BY <1>3 DEF StrayStep, StrayRenew, StrayBeat, Tick
<1>4. QED
  BY <1>1, <1>2, <1>3 DEF Next

\* Every step keeps WorkerTypes.
LEMMA WorkerTypesStep ==
  ASSUME TypeInv, Next
  PROVE  WorkerTypes'
<1> USE DEF TypeInv
<1>1. CASE UNCHANGED worker
  BY <1>1, TypeStutter
<1>2. ASSUME NEW w \in Workers, WorkerStep(w)
      PROVE  WorkerTypes'
  <2>1. CASE Keeps(w)
    <3>1. /\ node[w] \in Nodes \cup {NoNode} /\ token[w] \in 0..MaxToken
          /\ node[w] \in Nodes <=> pc[w] \notin {"idle", "try"}
      BY DEF WorkerTypes
    <3>2. QED
      BY <2>1, <3>1, Moving DEF Keeps
  <2>2. CASE Leaves(w)
    <3>1. {"idle", "try"} \subseteq PC
      BY DEF PC
    <3>2. QED
      BY <2>2, <3>1, Moving DEF Leaves
  <2>3. CASE Draws(w)
    <3>1. PICK p \in PC \ {"idle", "try"}, S \in SUBSET Nodes, n \in Nodes :
                 Move(w, p, S, n, seq[n] + 1) /\ seq[n] < MaxToken
      BY <2>3 DEF Draws
    <3>2. seq[n] + 1 \in 0..MaxToken
      BY <3>1 DEF LeaseInv
    <3>3. QED
      BY <3>1, <3>2, Moving
  <2>4. QED
    BY <1>2, <2>1, <2>2, <2>3, Moves
<1>3. QED
  BY <1>1, <1>2, OthersLeaveWorkers

\* The token that a worker has drawn is larger than all that were drawn before.
LEMMA TokenStep ==
  ASSUME TypeInv, Next
  PROVE  TokenInv'
<1> USE DEF TypeInv
<1>1. \A u \in Workers : node[u] \in Nodes =>
        /\ token[u] \in 1..seq[node[u]] /\ seq[node[u]] \in Nat /\ seq'[node[u]] \in Nat
        /\ seq[node[u]] <= seq'[node[u]]
  BY SeqGrows DEF TokenInv, LeaseInv
<1>2. \A u \in Workers : node[u] \in Nodes => token[u] \in 1..seq'[node[u]]
  BY <1>1
<1>3. CASE UNCHANGED worker
  BY <1>2, <1>3 DEF worker, TokenInv
<1>4. ASSUME NEW w \in Workers, WorkerStep(w)
      PROVE  TokenInv'
  <2>1. ASSUME NEW p, NEW S, NEW n, NEW k, Move(w, p, S, n, k)
        PROVE  /\ node'[w] = n /\ token'[w] = k
               /\ \A u \in Workers : u # w => node'[u] = node[u] /\ token'[u] = token[u]
    BY <2>1 DEF Move, WorkerTypes
  <2>2. CASE Keeps(w)
    <3>1. \A u \in Workers : node'[u] = node[u] /\ token'[u] = token[u]
      BY <2>1, <2>2 DEF Keeps
    <3>2. QED
      BY <1>2, <3>1 DEF TokenInv
  <2>3. CASE Leaves(w)
    <3>1. /\ node'[w] = NoNode
          /\ \A u \in Workers : u # w => node'[u] = node[u] /\ token'[u] = token[u]
      BY <2>1, <2>3 DEF Leaves
    <3>2. QED
      BY <1>2, <3>1 DEF TokenInv
  <2>4. CASE Draws(w)
    <3>1. PICK n \in Nodes : /\ node'[w] = n /\ token'[w] = seq[n] + 1
                             /\ seq'[n] = seq[n] + 1
                             /\ \A u \in Workers : u # w => /\ node'[u] = node[u]
                                                            /\ token'[u] = token[u]
      BY <2>1, <2>4 DEF Draws
    <3>2. \A u \in Workers : u # w /\ node'[u] = n => token'[u] # seq[n] + 1
      BY <1>1, <3>1
    <3>3. token'[w] \in 1..seq'[n]
      BY <3>1 DEF LeaseInv
    <3>4. ASSUME NEW u \in Workers, node'[u] \in Nodes
          PROVE  token'[u] \in 1..seq'[node'[u]]
      BY <1>2, <3>1, <3>3, <3>4
    <3>5. ASSUME NEW u \in Workers, NEW v \in Workers, u # v, node'[u] \in Nodes,
                 node'[u] = node'[v]
          PROVE  token'[u] # token'[v]
      <4>1. CASE u = w \/ v = w
        BY <3>1, <3>2, <3>5, <4>1
      <4>2. CASE u # w /\ v # w
        BY <3>1, <3>5, <4>2 DEF TokenInv
      <4>3. QED
        BY <4>1, <4>2
    <3>6. QED
      BY <3>4, <3>5 DEF TokenInv
  <2>5. QED
    BY <1>4, <2>2, <2>3, <2>4, Moves
<1>5. QED
  BY <1>3, <1>4, OthersLeaveWorkers

\* Every step keeps KeepaliveInv: a stopped keepalive is at rest.
LEMMA KeepaliveTypesStep ==
  ASSUME TypeInv, Next
  PROVE  KeepaliveInv'
<1> USE DEF TypeInv
<1>1. CASE UNCHANGED <<pc, keepalive>>
  BY <1>1, TypeStutter
<1>2. ASSUME NEW w \in Workers, UNCHANGED <<keeper, timer, due, fails, lost>>,
             age' = age \/ age' = [age EXCEPT ![w] = 0],
             \A u \in Workers : u # w => pc'[u] = pc[u],
             Executing(w) => Executing(w)'
      PROVE  KeepaliveInv'
  BY <1>2 DEF KeepaliveInv, AtRest, Executing
<1>3. ASSUME NEW w \in Workers, WorkerStep(w), ~Mark(w), ~Stopped(w), ~Report(w)
      PROVE  KeepaliveInv'
  <2>1. /\ UNCHANGED <<keeper, timer, due, fails, lost>>
        /\ age' = age \/ age' = [age EXCEPT ![w] = 0]
    BY <1>3 DEF WorkerStep, List, Listed, Acquire, Acquired, Draw, Claim, AcquireFails,
                ExecutionEnds, Release, Ready, keepalive
  <2>2. \A u \in Workers : u # w => pc'[u] = pc[u]
    BY <1>3, Moves DEF Keeps, Leaves, Draws, Move, WorkerTypes
  <2>3. Executing(w) => Executing(w)'
    BY <1>3 DEF WorkerStep, List, Listed, Acquire, Draw, Claim, AcquireFails,
                ExecutionEnds, Release, Ready, Goto, Executing, WorkerTypes
  <2>4. QED
    BY <1>2, <2>1, <2>2, <2>3
<1>4. ASSUME NEW w \in Workers, Mark(w)
      PROVE  KeepaliveInv'
  BY <1>4 DEF Mark, Goto, KeepaliveInv, WorkerTypes, AtRest, Executing
<1>5. ASSUME NEW w \in Workers, Report(w)
      PROVE  KeepaliveInv'
  BY <1>5 DEF Report, StopKeepalive, KeepaliveInv, WorkerTypes, AtRest, Executing
<1>6. ASSUME NEW w \in Workers, KeepaliveStep(w)
      PROVE  KeepaliveInv'
  <2>1. Executing(w) /\ Executing(w)'
    BY <1>6, NodeOf DEF KeepaliveStep, RenewFails, Renew, Beat, worker, Executing
  <2>2. pc' = pc
    BY <1>6 DEF KeepaliveStep, RenewFails, Renew, Beat, worker
  <2>3. /\ keeper' \in [Workers -> {"off", "wait", "beat"}]
        /\ timer' = timer
        /\ due' \in [Workers -> BOOLEAN]
        /\ fails' \in [Workers -> 0..MaxFailures]
        /\ lost' \in [Workers -> BOOLEAN]
        /\ age' \in [Workers -> 0..TTL]
    <3>1. CASE RenewFails(w)
      <4>1. fails[w] + 1 \in 0..MaxFailures
        BY <3>1 DEF RenewFails, KeepaliveInv
      <4>2. QED
        BY <3>1, <4>1 DEF RenewFails, KeepaliveInv
    <3>2. CASE Renew(w)
      <4>1. 0 \in 0..MaxFailures /\ 0 \in 0..TTL
        OBVIOUS
      <4>2. /\ keeper' \in [Workers -> {"off", "wait", "beat"}]
            /\ fails' \in [Workers -> 0..MaxFailures]
            /\ age' \in [Workers -> 0..TTL]
        BY <3>2, <4>1 DEF Renew, KeepaliveInv
      <4>3. /\ timer' = timer
            /\ due' \in [Workers -> BOOLEAN]
            /\ lost' \in [Workers -> BOOLEAN]
        BY <3>2 DEF Renew, KeepaliveInv
      <4>4. QED
        BY <4>2, <4>3
    <3>3. CASE Beat(w)
      BY <3>3 DEF Beat, KeepaliveInv
    <3>4. QED
      BY <1>6, <3>1, <3>2, <3>3 DEF KeepaliveStep
  <2>4. \A u \in Workers : u # w =>
          /\ keeper'[u] = keeper[u] /\ due'[u] = due[u] /\ fails'[u] = fails[u]
          /\ lost'[u] = lost[u]
    BY <1>6 DEF KeepaliveStep, RenewFails, Renew, Beat, KeepaliveInv
  <2>5. QED
    BY <2>1, <2>2, <2>3, <2>4 DEF KeepaliveInv, AtRest, Executing
<1>7. CASE Tick
  <2>1. pc' = pc /\ keeper' = keeper /\ fails' = fails /\ lost' = lost
    BY <1>7 DEF Tick, worker
  <2>2. ASSUME NEW w \in Workers
        PROVE  /\ timer'[w] \in 1..Period
               /\ age'[w] \in 0..TTL
               /\ due'[w] \in BOOLEAN
               /\ keeper[w] = "off" => timer'[w] = timer[w] /\ (due'[w] = due[w])
    BY <1>7 DEF Tick, KeepaliveInv
  <2>3. /\ timer' = [w \in Workers |-> timer'[w]] /\ age' = [w \in Workers |-> age'[w]]
        /\ due' = [w \in Workers |-> due'[w]]
    BY <1>7 DEF Tick
  <2>4. QED
    BY <2>1, <2>2, <2>3 DEF KeepaliveInv, AtRest, Executing
<1>8. ASSUME NEW w \in Workers, Stopped(w)
      PROVE  KeepaliveInv'
  <2>1. Executing(w)
    BY <1>8, NodeOf DEF Stopped
  <2>2. QED
    BY <1>8, <2>1 DEF Stopped, StopKeepalive, worker, KeepaliveInv, AtRest, Executing
<1>9. QED
  <2>1. ASSUME NEW n \in Nodes, AgentStep(n)
        PROVE  UNCHANGED <<pc, keepalive>>
    BY <2>1 DEF AgentStep, Register, AgentBeat, SetState, worker
  <2>2. CASE StrayStep
    BY <1>1, <2>2 DEF StrayStep, StrayRenew, StrayBeat, worker
  <2>3. QED
    BY <1>1, <1>3, <1>4, <1>5, <1>6, <1>7, <1>8, <2>1, <2>2 DEF Next

\* Every step keeps StrayInv.
LEMMA StrayTypesStep ==
  ASSUME TypeInv, Next
  PROVE  StrayInv'
<1> USE DEF TypeInv
<1>1. ASSUME NEW w \in Workers, Stopped(w) \/ Report(w)
      PROVE  StrayInv'
  <2>1. node[w] \in Nodes /\ token[w] \in 1..MaxToken
    BY <1>1, NodeOf DEF Stopped, Report
  <2>2. StrayOf(w, "beat") \in Stray /\ StrayOf(w, "renew") \in Stray
    BY <2>1 DEF StrayOf, Stray
  <2>3. \A S \in StraysOf(w) : S \subseteq Stray
    BY <2>2 DEF StraysOf
  <2>4. QED
    BY <1>1, <2>3 DEF Stopped, Report, StopKeepalive, StrayInv
<1>2. ASSUME NEW s \in strays, StrayRenew(s) \/ StrayBeat(s)
      PROVE  StrayInv'
  <2>1. s \in Stray
    BY DEF StrayInv
  <2>2. [s EXCEPT !.step = "beat"] \in Stray /\ [s EXCEPT !.step = "renew"] \in Stray
    BY <2>1 DEF Stray
  <2>3. strays' \subseteq strays \cup {[s EXCEPT !.step = "beat"], [s EXCEPT !.step = "renew"]}
    BY <1>2 DEF StrayRenew, StrayBeat
  <2>4. QED
    BY <2>2, <2>3 DEF StrayInv
<1>3. CASE UNCHANGED strays
  BY <1>3, TypeStutter
<1>4. QED
  <2>1. ASSUME NEW n \in Nodes, AgentStep(n)
        PROVE  UNCHANGED strays
    BY <2>1 DEF AgentStep, Register, AgentBeat, SetState
  <2>2. ASSUME NEW w \in Workers, WorkerStep(w) \/ KeepaliveStep(w),
               ~Stopped(w), ~Report(w)
        PROVE  UNCHANGED strays
    BY <2>2 DEF WorkerStep, List, Listed, Acquire, Draw, Claim, AcquireFails, Mark,
                ExecutionEnds, Release, Ready, KeepaliveStep, RenewFails, Renew, Beat
  <2>3. CASE Tick
    BY <1>3, <2>3 DEF Tick
  <2>4. QED
    BY <1>1, <1>2, <1>3, <2>1, <2>2, <2>3 DEF Next, StrayStep

\* Every step keeps the whole of TypeInv.
LEMMA TypeStep == TypeInv /\ [Next]_vars => TypeInv'
<1>1. CASE TypeInv /\ Next
  BY <1>1, LeaseStep, RegistryStep, WorkerTypesStep, TokenStep, KeepaliveTypesStep,
     StrayTypesStep DEF TypeInv
<1>2. CASE TypeInv /\ UNCHANGED vars
  BY <1>2, TypeStutter DEF TypeInv, vars, leases, registry, worker, keepalive
<1>3. QED
  BY <1>1, <1>2

\* TypeInv holds in every reachable state.
LEMMA TypeInvariant == Spec => []TypeInv
BY TypeInit, TypeStep, PTL DEF Spec

\* Every variable keeps its type, workers at the same node have drawn different
\* tokens, and only an execution has a keepalive or has lost its lease.
THEOREM TypeCorrect == Spec => []TypeOK
BY TypeInvariant, TypeInvImpliesTypeOK, PTL

-----------------------------------------------------------------------------
(* What a step may do to a lease that has not expired *)

\* The lease of n is extended for the worker it was granted to.
Extends(n) ==
  /\ lease'[n] # NoLease
  /\ lease'[n].owner = lease[n].owner /\ lease'[n].token = lease[n].token
  /\ lease'[n].left = TTL
  /\ \/ \E w \in Workers : keeper[w] # "off" /\ node[w] = n /\ token[w] = lease[n].token
     \/ \E s \in strays : s.node = n /\ s.token = lease[n].token

\* A worker releases its own lease of n.
Releases(n) ==
  \E w \in Workers : Release(w) /\ node[w] = n /\ token[w] = lease[n].token

\* Extending a lease changes nothing but the time that it has left.
LEMMA ExtendedEntry ==
  ASSUME LeaseInv, NEW m \in Nodes, lease[m] # NoLease, lease' = Extended(m), NEW n \in Nodes
  PROVE  /\ n # m => lease'[n] = lease[n]
         /\ n = m => /\ lease'[n] # NoLease
                     /\ lease'[n].owner = lease[n].owner
                     /\ lease'[n].token = lease[n].token
                     /\ lease'[n].left = TTL
<1>1. lease[m] \in Lease
  BY DEF LeaseInv
<1>2. n # m => lease'[n] = lease[n]
  BY DEF LeaseInv, Extended
<1>3. lease'[m] = [lease[m] EXCEPT !.left = TTL]
  BY DEF LeaseInv, Extended
<1>4. /\ lease'[m].owner = lease[m].owner /\ lease'[m].token = lease[m].token
      /\ lease'[m].left = TTL
  BY <1>1, <1>3 DEF Lease
<1>5. lease'[m] # NoLease
  BY <1>4, NoLeaseIsNoLease
<1>6. QED
  BY <1>2, <1>4, <1>5

\* A step other than Tick leaves an unexpired lease alone, extends it for its holder,
\* or is its holder's Release: Acquire finds it taken, and a late Renew or Release
\* has another token.
LEMMA Writes ==
  ASSUME TypeInv, Next, ~Tick, NEW n \in Nodes, lease[n].left > 0
  PROVE  lease'[n] = lease[n] \/ Extends(n) \/ Releases(n)
<1> USE DEF TypeInv
<1>1. CASE UNCHANGED leases
  BY <1>1 DEF leases
<1>2. ASSUME NEW m \in Nodes, NEW w \in Workers, NEW k, Free(m), Grant(w, m, k)
      PROVE  lease'[n] = lease[n]
  <2>1. lease[n].left \in Int
    BY NoLeaseIsNoLease DEF LeaseInv
  <2>2. m # n
    BY <1>2, <2>1 DEF Free
  <2>3. QED
    BY <1>2, <2>2 DEF Grant, LeaseInv
<1>3. ASSUME NEW m \in Nodes, lease' = Dropped(m)
      PROVE  lease'[n] = lease[n]
  <2>1. lease[n].left \in Int
    BY NoLeaseIsNoLease DEF LeaseInv
  <2>2. QED
    BY <1>3, <2>1 DEF Dropped, LeaseInv
<1>4. ASSUME NEW w \in Workers, NEW m \in Nodes, Acquire(w, m)
      PROVE  lease'[n] = lease[n]
  BY <1>2, <1>4 DEF Acquire, Acquired
<1>5. ASSUME NEW w \in Workers, Claim(w) \/ AcquireFails(w)
      PROVE  lease'[n] = lease[n]
  <2>1. CASE lease' = lease
    BY <2>1
  <2>2. CASE pc[w] = "claim" /\ Free(node[w]) /\ Grant(w, node[w], token[w])
    BY <1>2, <2>2, NodeOf
  <2>3. QED
    BY <1>5, <2>1, <2>2 DEF Claim, AcquireFails, Acquired
<1>6. ASSUME NEW w \in Workers, RenewFails(w) \/ Renew(w)
      PROVE  lease'[n] = lease[n] \/ Extends(n)
  <2>1. node[w] \in Nodes /\ keeper[w] # "off"
    BY <1>6, NodeOf DEF RenewFails, Renew
  <2>2. CASE lease' = lease
    BY <2>2
  <2>3. CASE lease' = Dropped(node[w])
    BY <1>3, <2>1, <2>3
  <2>4. CASE Renewable(node[w], Owner[w], token[w]) /\ lease' = Extended(node[w])
    <3>1. lease[node[w]] # NoLease /\ lease[node[w]].token = token[w]
      BY <2>4 DEF Renewable, Own
    <3>2. CASE n = node[w]
      BY <2>1, <2>4, <3>1, <3>2, ExtendedEntry DEF Extends
    <3>3. CASE n # node[w]
      BY <2>1, <2>4, <3>1, <3>3, ExtendedEntry
    <3>4. QED
      BY <3>2, <3>3
  <2>5. QED
    BY <1>6, <2>2, <2>3, <2>4 DEF RenewFails, Renew
<1>7. ASSUME NEW s \in strays, StrayRenew(s)
      PROVE  lease'[n] = lease[n] \/ Extends(n)
  <2>1. s.node \in Nodes
    BY DEF StrayInv, Stray
  <2>2. CASE ~Renewable(s.node, s.owner, s.token)
    BY <1>3, <1>7, <2>1, <2>2 DEF StrayRenew
  <2>3. CASE Renewable(s.node, s.owner, s.token)
    <3>1. lease[s.node] # NoLease /\ lease[s.node].token = s.token /\ lease' = Extended(s.node)
      BY <1>7, <2>3 DEF StrayRenew, Renewable, Own
    <3>2. CASE n = s.node
      BY <2>1, <3>1, <3>2, ExtendedEntry DEF Extends
    <3>3. CASE n # s.node
      BY <2>1, <3>1, <3>3, ExtendedEntry
    <3>4. QED
      BY <3>2, <3>3
  <2>4. QED
    BY <2>2, <2>3
<1>8. ASSUME NEW w \in Workers, Release(w)
      PROVE  lease'[n] = lease[n] \/ Releases(n)
  <2>1. node[w] \in Nodes
    BY <1>8, NodeOf DEF Release, Goto
  <2>2. CASE lease' = lease
    BY <2>2
  <2>3. CASE Own(node[w], Owner[w], token[w]) /\ lease' = [lease EXCEPT ![node[w]] = NoLease]
    BY <1>8, <2>1, <2>3 DEF Own, Releases, LeaseInv
  <2>4. QED
    BY <1>8, <2>2, <2>3 DEF Release
<1>9. QED
  <2>1. ASSUME NEW m \in Nodes, AgentStep(m)
        PROVE  UNCHANGED leases
    BY <2>1 DEF AgentStep, Register, AgentBeat, SetState
  <2>2. ASSUME NEW w \in Workers,
               List(w) \/ (\E m \in Nodes : Draw(w, m)) \/ Mark(w)
               \/ (\E p \in PC : ExecutionEnds(w, p)) \/ Stopped(w) \/ Report(w)
               \/ Ready(w) \/ Beat(w)
        PROVE  lease' = lease
    BY <2>2 DEF List, Listed, Draw, Mark, ExecutionEnds, Stopped, Report, Ready, Beat, leases
  <2>3. ASSUME NEW s \in strays, StrayBeat(s)
        PROVE  UNCHANGED leases
    BY <2>3 DEF StrayBeat
  <2>4. QED
    BY <1>1, <1>4, <1>5, <1>6, <1>7, <1>8, <2>1, <2>2, <2>3
       DEF Next, WorkerStep, KeepaliveStep, StrayStep

\* Tick takes one tick from a lease, and removes it if that was the last.
LEMMA TickLease ==
  ASSUME TypeInv, Tick, NEW n \in Nodes, lease[n].left > 0
  PROVE  \/ lease[n].left = 1 /\ lease'[n] = NoLease
         \/ /\ lease'[n].owner = lease[n].owner /\ lease'[n].token = lease[n].token
            /\ lease'[n].left = lease[n].left - 1
<1> DEFINE l == lease[n]
<1>1. l # NoLease
  BY NoLeaseIsNoLease
<1>2. l \in Lease /\ l.left \in Int
  BY <1>1, NoLeaseIsNoLease DEF TypeInv, LeaseInv
<1>3. lease'[n] = Aged(l)
  BY DEF Tick
<1>4. CASE ~memory /\ l.left = 1
  BY <1>1, <1>3, <1>4 DEF Aged
<1>5. CASE memory \/ l.left # 1
  <2>1. Aged(l) = [l EXCEPT !.left = l.left - 1]
    BY <1>1, <1>2, <1>5 DEF Aged
  <2>2. QED
    BY <1>2, <1>3, <2>1 DEF Lease
<1>6. QED
  BY <1>4, <1>5

\* A lease that has not expired is only released or extended on behalf of the
\* worker it was granted to.
THEOREM LeaseOnlyExpires == Spec => LeaseLostOnlyByExpiry
<1> DEFINE A == \A n \in Nodes : lease[n].left > 0 =>
       \/ lease'[n].token = lease[n].token /\ lease'[n].left <= lease[n].left
       \/ lease[n].left = 1 /\ lease'[n] = NoLease
       \/ /\ lease'[n].token = lease[n].token
          /\ \/ \E w \in Workers :
                  keeper[w] # "off" /\ node[w] = n /\ token[w] = lease[n].token
             \/ \E s \in strays : s.node = n /\ s.token = lease[n].token
       \/ \E w \in Workers :
            pc[w] = "release" /\ pc'[w] = "ready" /\ node[w] = n /\ token[w] = lease[n].token
<1>1. TypeInv /\ [Next]_vars => [A]_vars
  <2> SUFFICES ASSUME TypeInv, Next, NEW n \in Nodes, lease[n].left > 0
               PROVE  \/ lease'[n].token = lease[n].token /\ lease'[n].left <= lease[n].left
                      \/ lease[n].left = 1 /\ lease'[n] = NoLease
                      \/ Extends(n)
                      \/ \E w \in Workers : /\ pc[w] = "release" /\ pc'[w] = "ready"
                                            /\ node[w] = n /\ token[w] = lease[n].token
    BY DEF Extends
  <2>1. lease[n].left \in Int
    BY NoLeaseIsNoLease DEF TypeInv, LeaseInv
  <2>2. CASE Tick
    BY <2>1, <2>2, TickLease
  <2>3. CASE ~Tick
    <3>1. ASSUME NEW w \in Workers, Release(w)
          PROVE  pc[w] = "release" /\ pc'[w] = "ready"
      BY <3>1 DEF Release, Goto, TypeInv, WorkerTypes
    <3>2. QED
      BY <2>1, <2>3, <3>1, Writes DEF Releases
  <2>4. QED
    BY <2>2, <2>3
<1>2. QED
  BY <1>1, TypeInvariant, PTL DEF Spec, LeaseLostOnlyByExpiry

-----------------------------------------------------------------------------
(* A worker that has not gone without its lease for a TTL holds it *)

Holding(w) == pc[w] = "mark" \/ Executing(w)

\* The lease lasts for what is left of a TTL since the last success.
Fresh(w) ==
  Holding(w) /\ age[w] < TTL =>
    /\ Own(node[w], Owner[w], token[w])
    /\ lease[node[w]].left >= TTL - age[w]

FreshInv == \A w \in Workers : Fresh(w)

\* The part of its state that only the worker and its keepalive write.
Same(w) ==
  UNCHANGED <<pc[w], node[w], token[w], keeper[w], timer[w], due[w], fails[w], lost[w], age[w]>>

\* Neither another worker nor an agent nor a stray writes the part of worker w.
LEMMA OthersAreSame ==
  ASSUME TypeInv, Next, ~Tick, NEW w \in Workers, ~WorkerStep(w), ~KeepaliveStep(w)
  PROVE  Same(w)
<1> USE DEF TypeInv
<1>1. CASE UNCHANGED <<worker, keepalive>>
  BY <1>1 DEF worker, keepalive, Same
<1>2. ASSUME NEW u \in Workers, u # w, WorkerStep(u)
      PROVE  Same(w)
  <2>1. pc'[w] = pc[w] /\ node'[w] = node[w] /\ token'[w] = token[w]
    BY <1>2, Moves DEF Keeps, Leaves, Draws, Move, WorkerTypes
  <2>2. /\ keeper'[w] = keeper[w] /\ timer'[w] = timer[w] /\ due'[w] = due[w]
        /\ fails'[w] = fails[w] /\ lost'[w] = lost[w] /\ age'[w] = age[w]
    BY <1>2 DEF WorkerStep, List, Listed, Acquire, Acquired, Draw, Claim, AcquireFails, Mark,
                ExecutionEnds, Stopped, StopKeepalive, Report, Release, Ready, keepalive,
                KeepaliveInv
  <2>3. QED
    BY <2>1, <2>2 DEF Same
<1>3. ASSUME NEW u \in Workers, u # w, KeepaliveStep(u)
      PROVE  Same(w)
  BY <1>3 DEF KeepaliveStep, RenewFails, Renew, Beat, worker, Same, KeepaliveInv
<1>4. ASSUME NEW n \in Nodes, AgentStep(n)
      PROVE  Same(w)
  BY <1>1, <1>4 DEF AgentStep, Register, AgentBeat, SetState
<1>5. CASE StrayStep
  BY <1>1, <1>5 DEF StrayStep, StrayRenew, StrayBeat
<1>6. QED
  BY <1>2, <1>3, <1>4, <1>5 DEF Next

\* While a worker holds its node nobody but Tick takes anything from its lease.
LEMMA LeaseKept ==
  ASSUME TypeInv, Next, ~Tick, NEW w \in Workers, Holding(w),
         Own(node[w], Owner[w], token[w]), lease[node[w]].left > 0,
         UNCHANGED <<node[w], token[w]>>
  PROVE  /\ Own(node[w], Owner[w], token[w])'
         /\ lease'[node'[w]].left >= lease[node[w]].left
<1> DEFINE n == node[w]
<1>1. n \in Nodes /\ pc[w] \notin {"idle", "try"} /\ pc[w] # "release"
  BY NodeOf DEF Holding, Executing
<1>2. /\ lease[n] # NoLease /\ lease[n].owner = Owner[w] /\ lease[n].token = token[w]
      /\ lease[n].left \in Int /\ lease[n].left <= TTL
  <2>1. lease[n] \in Lease
    BY <1>1 DEF TypeInv, LeaseInv, Own
  <2>2. QED
    BY <2>1 DEF Own, Lease
<1>3. ~Releases(n)
  <2>1. ASSUME NEW u \in Workers, Release(u), node[u] = n, token[u] = token[w]
        PROVE  FALSE
    BY <1>1, <2>1 DEF TypeInv, TokenInv, Release, Goto
  <2>2. QED
    BY <1>2, <2>1 DEF Releases
<1>4. lease'[n] = lease[n] \/ Extends(n)
  BY <1>1, <1>3, Writes
<1>5. /\ lease'[n] # NoLease /\ lease'[n].owner = Owner[w] /\ lease'[n].token = token[w]
      /\ lease'[n].left >= lease[n].left
  BY <1>2, <1>4 DEF Extends
<1>6. QED
  BY <1>5 DEF Own

\* A worker that goes on with the same node stays fresh until time passes.
LEMMA FreshSame ==
  ASSUME TypeInv, Next, ~Tick, NEW w \in Workers, Fresh(w), Holding(w),
         UNCHANGED <<node[w], token[w], age[w]>>
  PROVE  Fresh(w)'
<1>1. SUFFICES ASSUME age[w] < TTL
               PROVE  /\ Own(node[w], Owner[w], token[w])'
                      /\ lease'[node'[w]].left >= TTL - age[w]
  BY DEF Fresh
<1>2. Own(node[w], Owner[w], token[w]) /\ lease[node[w]].left >= TTL - age[w]
  BY <1>1 DEF Fresh
<1>3. age[w] \in Nat /\ node[w] \in Nodes
  BY NodeOf DEF TypeInv, KeepaliveInv, Holding, Executing
<1>4. lease[node[w]].left \in Int
  BY <1>3, NoLeaseIsNoLease DEF TypeInv, LeaseInv
<1>5. lease[node[w]].left > 0
  BY <1>1, <1>2, <1>3, <1>4
<1>6. Own(node[w], Owner[w], token[w])' /\ lease'[node'[w]].left >= lease[node[w]].left
  BY <1>2, <1>5, LeaseKept
<1>7. lease'[node'[w]].left \in Int
  BY <1>3, LeaseStep, NoLeaseIsNoLease DEF LeaseInv
<1>8. QED
  BY <1>2, <1>3, <1>4, <1>6, <1>7

\* A lease that was just granted is fresh.
LEMMA FreshGrant ==
  ASSUME TypeInv, NEW w \in Workers, NEW n \in Nodes, NEW k \in 1..MaxToken, Acquired(w, n, k)
  PROVE  Fresh(w)'
<1> DEFINE entry == [owner |-> Owner[w], token |-> k, left |-> TTL]
<1>1. lease'[n] = entry /\ node'[w] = n /\ token'[w] = k /\ age'[w] = 0
  BY DEF Acquired, Grant, TypeInv, LeaseInv, WorkerTypes, KeepaliveInv
<1>2. entry # NoLease
  BY DEF NoLease
<1>3. Own(node[w], Owner[w], token[w])' /\ lease'[n].left = TTL
  BY <1>1, <1>2 DEF Own
<1>4. QED
  BY <1>1, <1>3 DEF Fresh

\* Every step keeps a worker fresh.
LEMMA FreshStep ==
  ASSUME TypeInv, Next, NEW w \in Workers, Fresh(w)
  PROVE  Fresh(w)'
<1> USE DEF TypeInv
<1>1. CASE Tick
  <2>1. SUFFICES ASSUME Holding(w)', age'[w] < TTL
                 PROVE  /\ Own(node[w], Owner[w], token[w])'
                        /\ lease'[node'[w]].left >= TTL - age'[w]
    BY DEF Fresh
  <2>2. Holding(w) /\ node'[w] = node[w] /\ token'[w] = token[w]
    BY <1>1, <2>1 DEF Tick, worker, Holding, Executing
  <2>3. age[w] \in Nat /\ age[w] + 1 < TTL /\ age'[w] = age[w] + 1
    BY <1>1, <2>1, <2>2 DEF Tick, Holding, KeepaliveInv
  <2>4. Own(node[w], Owner[w], token[w]) /\ lease[node[w]].left >= TTL - age[w]
    BY <2>2, <2>3 DEF Fresh
  <2>5. node[w] \in Nodes
    BY <2>2, NodeOf DEF Holding, Executing
  <2>6. lease[node[w]].left \in Int
    BY <2>5, NoLeaseIsNoLease DEF LeaseInv
  <2>7. lease[node[w]].left > 1
    BY <2>3, <2>4, <2>6
  <2>8. /\ lease'[node[w]].owner = lease[node[w]].owner
        /\ lease'[node[w]].token = lease[node[w]].token
        /\ lease'[node[w]].left = lease[node[w]].left - 1
    BY <1>1, <2>5, <2>6, <2>7, TickLease
  <2>9. lease'[node[w]] # NoLease
    BY <2>6, <2>7, <2>8, NoLeaseIsNoLease
  <2>10. QED
    BY <2>2, <2>3, <2>4, <2>6, <2>8, <2>9 DEF Own
<1>2. CASE ~Tick /\ ~WorkerStep(w) /\ ~KeepaliveStep(w)
  <2>1. Same(w)
    BY <1>2, OthersAreSame
  <2>2. CASE Holding(w)
    BY <1>2, <2>1, <2>2, FreshSame DEF Same
  <2>3. CASE ~Holding(w)
    BY <2>1, <2>3 DEF Same, Holding, Executing, Fresh
  <2>4. QED
    BY <2>2, <2>3
<1>3. CASE ~Tick /\ KeepaliveStep(w)
  <2>1. Holding(w) /\ UNCHANGED <<node[w], token[w]>> /\ node[w] \in Nodes
    BY <1>3, NodeOf DEF KeepaliveStep, RenewFails, Renew, Beat, worker, Holding, Executing
  <2>2. CASE age'[w] = age[w]
    BY <1>3, <2>1, <2>2, FreshSame
  <2>3. CASE /\ Renewable(node[w], Owner[w], token[w]) /\ lease' = Extended(node[w])
             /\ age' = [age EXCEPT ![w] = 0]
    <3>1. Own(node[w], Owner[w], token[w])
      BY <2>3 DEF Renewable
    <3>2. /\ lease'[node[w]] # NoLease /\ lease'[node[w]].left = TTL
          /\ lease'[node[w]].owner = lease[node[w]].owner
          /\ lease'[node[w]].token = lease[node[w]].token
      BY <2>1, <2>3, <3>1, ExtendedEntry DEF Own
    <3>3. age'[w] = 0
      BY <2>3 DEF KeepaliveInv
    <3>4. QED
      BY <2>1, <3>1, <3>2, <3>3 DEF Fresh, Own
  <2>4. QED
    BY <1>3, <2>2, <2>3 DEF KeepaliveStep, RenewFails, Renew, Beat
<1>4. CASE ~Tick /\ WorkerStep(w)
  <2>1. ASSUME NEW n \in Nodes, Acquire(w, n)
        PROVE  Fresh(w)'
    <3>1. CASE Free(n)
      <4>1. Acquired(w, n, seq[n] + 1) /\ seq[n] + 1 \in 1..MaxToken
        BY <2>1, <3>1 DEF Acquire, LeaseInv
      <4>2. QED
        BY <4>1, FreshGrant
    <3>2. CASE ~Free(n)
      BY <2>1, <3>2, Skipping DEF Acquire, Move, WorkerTypes, Fresh, Holding, Executing
    <3>3. QED
      BY <3>1, <3>2
  <2>2. CASE Claim(w)
    <3>1. CASE Free(node[w])
      <4>1. Acquired(w, node[w], token[w]) /\ node[w] \in Nodes /\ token[w] \in 1..MaxToken
        BY <2>2, <3>1, NodeOf DEF Claim
      <4>2. QED
        BY <4>1, FreshGrant
    <3>2. CASE ~Free(node[w])
      BY <2>2, <3>2, Skipping DEF Claim, Move, WorkerTypes, Fresh, Holding, Executing
    <3>3. QED
      BY <3>1, <3>2
  <2>3. CASE List(w) \/ (\E n \in Nodes : Draw(w, n)) \/ AcquireFails(w) \/ Report(w)
             \/ Release(w) \/ Ready(w)
    <3>1. ~Holding(w)'
      BY <2>3 DEF List, Listed, Draw, AcquireFails, Report, Release, Ready, Goto, Idle,
                  WorkerTypes, Holding, Executing
    <3>2. QED
      BY <3>1 DEF Fresh
  <2>4. CASE Mark(w) \/ Stopped(w) \/ \E p \in PC : ExecutionEnds(w, p)
    <3>1. Holding(w) /\ UNCHANGED <<node[w], token[w], age[w]>>
      BY <2>4, NodeOf DEF Mark, Stopped, ExecutionEnds, Goto, Holding, Executing, worker,
         keepalive
    <3>2. QED
      BY <1>4, <3>1, FreshSame
  <2>5. QED
    BY <1>4, <2>1, <2>2, <2>3, <2>4 DEF WorkerStep
<1>5. QED
  BY <1>1, <1>2, <1>3, <1>4

\* Every worker is fresh in every reachable state.
LEMMA FreshInvariant == Spec => []FreshInv
<1>1. Init => FreshInv
  BY DEF Init, FreshInv, Fresh, Holding, Executing
<1>2. TypeInv /\ FreshInv /\ [Next]_vars => FreshInv'
  <2>1. CASE TypeInv /\ FreshInv /\ Next
    BY <2>1, FreshStep DEF FreshInv
  <2>2. CASE FreshInv /\ UNCHANGED vars
    BY <2>2 DEF FreshInv, Fresh, Holding, Executing, Own, vars, leases, worker, keepalive
  <2>3. QED
    BY <2>1, <2>2
<1>3. QED
  BY <1>1, <1>2, TypeInvariant, PTL DEF Spec

\* Two executions share a node only when one of them has gone without a
\* successful Acquire or Renew for a whole TTL.
THEOREM FreshExecutorAlone == Spec => []FreshExecutorIsAlone
<1>1. TypeInv /\ FreshInv => FreshExecutorIsAlone
  <2> SUFFICES ASSUME TypeInv, FreshInv, NEW u \in Workers, NEW w \in Workers,
                      Executing(u), Executing(w), u # w, node[u] = node[w],
                      age[u] # TTL, age[w] # TTL
               PROVE  FALSE
    BY DEF FreshExecutorIsAlone
  <2>1. age[u] < TTL /\ age[w] < TTL
    BY DEF TypeInv, KeepaliveInv
  <2>2. Own(node[u], Owner[u], token[u]) /\ Own(node[w], Owner[w], token[w])
    BY <2>1 DEF FreshInv, Fresh, Holding
  <2>3. token[u] = token[w]
    BY <2>2 DEF Own
  <2>4. QED
    BY <2>3, NodeOf DEF TypeInv, TokenInv
<1>2. QED
  BY <1>1, TypeInvariant, FreshInvariant, PTL

-----------------------------------------------------------------------------
(* A keepalive that is on time keeps the lease *)

\* The ticks that the lease may have lost since it was last extended: an
\* interval for each error, and what has passed of the current one.
Spent(w) == Period * fails[w] + (IF due[w] THEN Period ELSE Period - timer[w])

Prompt(w) ==
  /\ pc[w] = "mark" => age[w] = 0
  /\ ~lost[w]
  /\ keeper[w] # "off" =>
       /\ due[w] => timer[w] = Period
       /\ Own(node[w], Owner[w], token[w])
       /\ lease[node[w]].left >= TTL - Spent(w)

PromptInv == \A w \in PromptWorkers : Prompt(w)

\* The errors and the current interval are over before the lease is.
LEMMA SpentBound ==
  ASSUME TypeInv, NEW w \in PromptWorkers
  PROVE  Spent(w) \in Nat /\ Spent(w) < TTL /\ w \in Workers
<1>1. w \in Workers /\ Period * (MaxFailures + 1) < TTL
  BY KeepaliveAssumption
<1>2. /\ fails[w] \in 0..MaxFailures /\ timer[w] \in 1..Period /\ due[w] \in BOOLEAN
  BY <1>1 DEF TypeInv, KeepaliveInv
<1>3. Period * fails[w] <= Period * MaxFailures /\ Period * fails[w] \in Nat
  BY <1>2
<1>4. Period * (MaxFailures + 1) = Period * MaxFailures + Period
  OBVIOUS
<1>5. (IF due[w] THEN Period ELSE Period - timer[w]) \in 0..Period
  BY <1>2
<1>6. QED
  BY <1>1, <1>3, <1>4, <1>5 DEF Spent

\* Steps that leave the timer alone, and do not write the worker's lease.
LEMMA PromptSame ==
  ASSUME TypeInv, Next, ~Tick, NEW w \in PromptWorkers, Prompt(w),
         Executing(w)', keeper[w] # "off", keeper'[w] # "off",
         UNCHANGED <<node[w], token[w], timer[w], lost[w]>>,
         due'[w] => due[w], Spent(w)' = Spent(w)
  PROVE  Prompt(w)'
<1>1. w \in Workers /\ Spent(w) \in Nat /\ Spent(w) < TTL
  BY SpentBound
<1>2. Own(node[w], Owner[w], token[w]) /\ lease[node[w]].left >= TTL - Spent(w)
  BY DEF Prompt
<1>3. node[w] \in Nodes
  BY <1>1, NodeOf
<1>4. lease[node[w]].left \in Int /\ lease'[node[w]].left \in Int
  BY <1>3, LeaseStep, NoLeaseIsNoLease DEF TypeInv, LeaseInv
<1>5. lease[node[w]].left > 0
  BY <1>1, <1>2, <1>4
<1>6. Own(node[w], Owner[w], token[w])' /\ lease'[node'[w]].left >= lease[node[w]].left
  BY <1>1, <1>2, <1>5, NodeOf, LeaseKept DEF Holding
<1>7. lease'[node'[w]].left >= TTL - Spent(w)'
  BY <1>1, <1>2, <1>4, <1>6
<1>8. QED
  BY <1>6, <1>7 DEF Prompt, Executing

\* Every step keeps the lease of a prompt worker: Tick uses up a tick of what is
\* left, and a successful Renew gives all of it back.
LEMMA PromptStep ==
  ASSUME TypeInv, Next, NEW w \in PromptWorkers, Prompt(w), Fresh(w)
  PROVE  Prompt(w)'
<1> USE DEF TypeInv
<1>w. w \in Workers
  BY SpentBound
<1>t. /\ fails[w] \in 0..MaxFailures /\ timer[w] \in 1..Period /\ due[w] \in BOOLEAN
      /\ age[w] \in 0..TTL
  BY <1>w DEF KeepaliveInv
<1>1. CASE Tick
  <2>1. /\ pc[w] # "mark" /\ ~due[w]
        /\ pc' = pc /\ node' = node /\ token' = token /\ keeper' = keeper
        /\ fails' = fails /\ lost' = lost
    BY <1>1 DEF Tick, OnTime, worker
  <2>2. SUFFICES ASSUME keeper[w] # "off"
                 PROVE  /\ due'[w] => timer'[w] = Period
                        /\ Own(node[w], Owner[w], token[w])'
                        /\ lease'[node[w]].left >= TTL - Spent(w)'
    BY <2>1 DEF Prompt
  <2>3. /\ Own(node[w], Owner[w], token[w])
        /\ lease[node[w]].left >= TTL - Spent(w)
    BY <2>2 DEF Prompt
  <2>4. /\ timer[w] = 1 => timer'[w] = Period /\ (due'[w] <=> TRUE)
        /\ timer[w] # 1 => timer'[w] = timer[w] - 1 /\ (due'[w] <=> FALSE)
    BY <1>1, <1>w, <2>1, <2>2 DEF Tick
  <2>5. Spent(w)' = Spent(w) + 1 /\ Spent(w)' \in Nat /\ Spent(w)' < TTL
    <3>1. TypeInv'
      BY <1>1, TypeStep
    <3>2. Spent(w) = Period * fails[w] + (Period - timer[w])
      BY <2>1 DEF Spent
    <3>3. Spent(w)' = Period * fails[w] + (IF timer[w] = 1 THEN Period
                                           ELSE Period - (timer[w] - 1))
      BY <2>1, <2>4 DEF Spent
    <3>4. Period * fails[w] \in Nat
      BY <1>t
    <3>5. Spent(w)' = Spent(w) + 1 /\ Spent(w)' \in Nat
      BY <1>t, <3>2, <3>3, <3>4
    <3>6. Period * (MaxFailures + 1) < TTL /\ Period * fails[w] <= Period * MaxFailures
      BY <1>t, KeepaliveAssumption
    <3>7. Period * (MaxFailures + 1) = Period * MaxFailures + Period
      OBVIOUS
    <3>8. Spent(w)' <= Period * fails[w] + Period
      BY <1>t, <3>3, <3>4
    <3>9. QED
      BY <3>4, <3>5, <3>6, <3>7, <3>8
  <2>6. node[w] \in Nodes
    BY <1>w, <2>2, NodeOf
  <2>7. lease[node[w]].left \in Int /\ Spent(w) \in Nat
    BY <2>6, NoLeaseIsNoLease, SpentBound DEF LeaseInv
  <2>8. lease[node[w]].left > 1
    BY <2>3, <2>5, <2>7
  <2>9. /\ lease'[node[w]].owner = lease[node[w]].owner
        /\ lease'[node[w]].token = lease[node[w]].token
        /\ lease'[node[w]].left = lease[node[w]].left - 1
    BY <1>1, <2>6, <2>7, <2>8, TickLease
  <2>10. lease'[node[w]] # NoLease
    BY <2>7, <2>8, <2>9, NoLeaseIsNoLease
  <2>11. Own(node[w], Owner[w], token[w])'
    BY <2>1, <2>3, <2>9, <2>10 DEF Own
  <2>12. lease'[node[w]].left >= TTL - Spent(w)'
    BY <2>3, <2>5, <2>7, <2>9
  <2>13. QED
    BY <2>4, <2>11, <2>12
<1>2. CASE ~Tick /\ ~WorkerStep(w) /\ ~KeepaliveStep(w)
  <2>1. Same(w)
    BY <1>2, <1>w, OthersAreSame
  <2>2. Spent(w)' = Spent(w)
    BY <2>1 DEF Same, Spent
  <2>3. CASE keeper[w] # "off"
    <3>1. Executing(w)' /\ keeper'[w] # "off"
      BY <1>w, <2>1, <2>3, NodeOf DEF Same, Executing
    <3>2. QED
      BY <1>2, <2>1, <2>2, <2>3, <3>1, PromptSame DEF Same
  <2>4. CASE keeper[w] = "off"
    BY <2>1, <2>4 DEF Same, Prompt
  <2>5. QED
    BY <2>3, <2>4
<1>3. CASE ~Tick /\ KeepaliveStep(w)
  <2>1. /\ keeper[w] # "off" /\ Executing(w)' /\ node[w] \in Nodes
        /\ UNCHANGED <<node[w], token[w], timer[w]>>
    BY <1>3, <1>w, NodeOf
       DEF KeepaliveStep, RenewFails, Renew, Beat, worker, keepalive, Executing
  <2>2. /\ due[w] => timer[w] = Period
        /\ Own(node[w], Owner[w], token[w]) /\ ~lost[w]
        /\ lease[node[w]].left >= TTL - Spent(w)
    BY <2>1 DEF Prompt
  <2>3. CASE RenewFails(w)
    <3>1. /\ due[w] /\ ~due'[w] /\ fails'[w] = fails[w] + 1
          /\ keeper'[w] # "off" /\ lost'[w] = lost[w] /\ timer'[w] = Period
      BY <1>w, <2>1, <2>2, <2>3 DEF RenewFails, KeepaliveInv
    <3>2. Spent(w) = Period * fails[w] + Period /\ Spent(w)' = Period * (fails[w] + 1) + 0
      BY <1>t, <3>1 DEF Spent
    <3>3. Period * (fails[w] + 1) = Period * fails[w] + Period
      BY <1>t
    <3>4. Spent(w)' = Spent(w)
      BY <1>t, <3>2, <3>3
    <3>5. QED
      BY <1>3, <2>1, <3>1, <3>4, PromptSame
  <2>4. CASE Renew(w)
    <3>1. due[w] /\ Spent(w) \in Nat /\ Spent(w) < TTL
      BY <2>4, SpentBound DEF Renew
    <3>2. lease[node[w]].left \in Int
      BY <2>1, NoLeaseIsNoLease DEF LeaseInv
    <3>3. lease[node[w]].left >= 1
      BY <2>2, <3>1, <3>2
    <3>4. Renewable(node[w], Owner[w], token[w])
      BY <2>2, <3>2, <3>3 DEF Renewable
    <3>5. /\ lease' = Extended(node[w]) /\ lost' = lost
          /\ keeper'[w] = "beat" /\ fails'[w] = 0 /\ ~due'[w] /\ timer'[w] = Period
      BY <1>w, <2>1, <2>2, <2>4, <3>1, <3>4 DEF Renew, KeepaliveInv
    <3>6. /\ lease'[node[w]] # NoLease /\ lease'[node[w]].left = TTL
          /\ lease'[node[w]].owner = lease[node[w]].owner
          /\ lease'[node[w]].token = lease[node[w]].token
      BY <2>1, <2>2, <3>5, ExtendedEntry DEF Own
    <3>7. Spent(w)' = 0
      BY <3>5 DEF Spent
    <3>8. QED
      BY <2>1, <2>2, <3>5, <3>6, <3>7 DEF Prompt, Own, Executing
  <2>5. CASE Beat(w)
    <3>1. UNCHANGED <<due[w], fails[w], lost[w]>> /\ keeper'[w] # "off"
      BY <1>w, <2>5 DEF Beat, KeepaliveInv
    <3>2. Spent(w)' = Spent(w)
      BY <2>1, <3>1 DEF Spent
    <3>3. QED
      BY <1>3, <2>1, <3>1, <3>2, PromptSame
  <2>6. QED
    BY <1>3, <2>3, <2>4, <2>5 DEF KeepaliveStep
<1>4. CASE ~Tick /\ WorkerStep(w)
  <2>1. ASSUME ~Executing(w)'
        PROVE  keeper'[w] = "off" /\ ~lost'[w]
    BY <1>w, <2>1, KeepaliveTypesStep DEF KeepaliveInv, AtRest
  <2>2. CASE Mark(w)
    <3>1. /\ pc[w] = "mark" /\ pc'[w] = "execute" /\ lease' = lease
          /\ node' = node /\ token' = token /\ keeper'[w] = "wait"
          /\ timer' = timer /\ due' = due /\ fails' = fails /\ lost' = lost
      BY <1>w, <2>2 DEF Mark, Goto, WorkerTypes, KeepaliveInv, leases
    <3>2. ~due[w] /\ fails[w] = 0 /\ timer[w] = Period /\ ~lost[w]
      BY <1>w, <3>1 DEF KeepaliveInv, AtRest, Executing
    <3>3. Own(node[w], Owner[w], token[w]) /\ lease[node[w]].left >= TTL - 0
      BY <3>1 DEF Prompt, Fresh, Holding
    <3>4. Spent(w)' = 0
      BY <3>1, <3>2 DEF Spent
    <3>5. QED
      BY <3>1, <3>2, <3>3, <3>4 DEF Prompt, Own, Executing
  <2>3. ASSUME NEW p \in PC, ExecutionEnds(w, p)
        PROVE  Prompt(w)'
    <3>1. /\ Executing(w)'
          /\ UNCHANGED <<node[w], token[w], timer[w], lost[w], due[w], fails[w], keeper[w]>>
      BY <1>w, <2>3 DEF ExecutionEnds, Goto, Executing, keepalive, WorkerTypes
    <3>2. Spent(w)' = Spent(w) /\ pc'[w] # "mark"
      BY <3>1 DEF Spent, Executing
    <3>3. CASE keeper[w] = "off"
      BY <3>1, <3>2, <3>3 DEF Prompt
    <3>4. CASE keeper[w] # "off"
      BY <1>4, <3>1, <3>2, <3>4, PromptSame
    <3>5. QED
      BY <3>3, <3>4
  <2>4. ASSUME Claim(w) \/ \E n \in Nodes : Acquire(w, n)
        PROVE  ~Executing(w)' /\ ((pc[w] = "mark")' => age'[w] = 0)
    <3>1. CASE Leaves(w)
      BY <1>w, <3>1 DEF Leaves, Move, WorkerTypes, Executing
    <3>2. CASE \E m, k : Acquired(w, m, k)
      BY <1>w, <3>2 DEF Acquired, WorkerTypes, KeepaliveInv, Executing
    <3>3. QED
      BY <1>w, <2>4, <3>1, <3>2, Skipping DEF Acquire, Claim, Leaves
  <2>5. CASE List(w) \/ (\E n \in Nodes : Draw(w, n)) \/ AcquireFails(w) \/ Report(w)
             \/ Release(w) \/ Ready(w)
    <3>1. ~Executing(w)' /\ pc'[w] # "mark"
      BY <1>w, <2>5 DEF List, Listed, Draw, AcquireFails, Report, Release, Ready, Goto,
         Idle, WorkerTypes, Executing
    <3>2. QED
      BY <2>1, <3>1 DEF Prompt
  <2>6. CASE Stopped(w)
    <3>1. keeper'[w] = "off" /\ lost'[w] = lost[w] /\ pc'[w] = pc[w] /\ pc[w] # "mark"
      BY <1>w, <2>6, NodeOf
         DEF Stopped, StopKeepalive, worker, KeepaliveInv, Executing
    <3>2. QED
      BY <3>1 DEF Prompt
  <2>7. ASSUME ~Executing(w)', (pc[w] = "mark")' => age'[w] = 0
        PROVE  Prompt(w)'
    BY <2>1, <2>7 DEF Prompt
  <2>8. QED
    BY <1>4, <2>2, <2>3, <2>4, <2>5, <2>6, <2>7 DEF WorkerStep
<1>5. QED
  BY <1>1, <1>2, <1>3, <1>4

\* A keepalive that is on time keeps the lease as long as the execution takes,
\* through as many errors in a row as leave time for a renewal.
THEOREM PromptLeaseKept == Spec => []PromptKeepsLease
<1>1. Init => PromptInv
  BY KeepaliveAssumption DEF Init, PromptInv, Prompt
<1>2. TypeInv /\ FreshInv /\ PromptInv /\ [Next]_vars => PromptInv'
  <2>1. CASE TypeInv /\ FreshInv /\ PromptInv /\ Next
    BY <2>1, PromptStep, SpentBound DEF PromptInv, FreshInv
  <2>2. CASE PromptInv /\ UNCHANGED vars
    BY <2>2 DEF PromptInv, Prompt, Spent, Own, vars, leases, worker, keepalive
  <2>3. QED
    BY <2>1, <2>2
<1>3. TypeInv /\ PromptInv => PromptKeepsLease
  <2> SUFFICES ASSUME TypeInv, PromptInv, NEW w \in PromptWorkers, keeper[w] # "off"
               PROVE  Holds(w)
    BY DEF PromptKeepsLease, PromptInv, Prompt
  <2>1. /\ Own(node[w], Owner[w], token[w])
        /\ lease[node[w]].left >= TTL - Spent(w)
    BY DEF PromptInv, Prompt
  <2>2. Spent(w) \in Nat /\ Spent(w) < TTL /\ node[w] \in Nodes
    BY SpentBound, NodeOf
  <2>3. lease[node[w]].left \in Int
    BY <2>2, NoLeaseIsNoLease DEF TypeInv, LeaseInv
  <2>4. QED
    BY <2>1, <2>2, <2>3 DEF Holds
<1>4. QED
  BY <1>1, <1>2, <1>3, TypeInvariant, FreshInvariant, PTL DEF Spec

-----------------------------------------------------------------------------
(* A node that nobody was using when it was drained *)

\* While nobody has node n at hand, nobody comes to have it.
LEMMA QuietStays ==
  ASSUME TypeInv, Next, NEW n \in Nodes, reg[n] = "draining", Quiet(n)
  PROVE  Quiet(n)'
<1> USE DEF TypeInv
<1>1. ASSUME NEW w \in Workers, WorkerStep(w)
      PROVE  \A u \in Workers : n \notin snap'[u] /\ node'[u] # n
  <2>1. \A u \in Workers : u # w => snap'[u] = snap[u] /\ node'[u] = node[u]
    BY <1>1, Moves DEF Keeps, Leaves, Draws, Move, WorkerTypes
  <2>2. CASE List(w)
    BY <2>1, <2>2 DEF List, Listed, Quiet, WorkerTypes
  <2>3. ASSUME NEW m, Skip(w, m)
        PROVE  n \notin snap'[w] /\ node'[w] # n
    BY <2>3 DEF Skip, Idle, Quiet, WorkerTypes
  <2>4. ASSUME NEW m \in snap[w] \cup {node[w]}, NEW k, Acquired(w, m, k)
        PROVE  n \notin snap'[w] /\ node'[w] # n
    BY <2>4 DEF Acquired, Quiet, WorkerTypes
  <2>5. ASSUME NEW m \in Nodes, Acquire(w, m)
        PROVE  n \notin snap'[w] /\ node'[w] # n
    BY <2>3, <2>4, <2>5 DEF Acquire
  <2>6. ASSUME NEW m \in Nodes, Draw(w, m)
        PROVE  n \notin snap'[w] /\ node'[w] # n
    BY <2>6 DEF Draw, Quiet, WorkerTypes
  <2>7. CASE Claim(w)
    <3>1. n \notin snap'[w] /\ node'[w] # n
      BY <2>3, <2>4, <2>7 DEF Claim
    <3>2. QED
      BY <2>1, <3>1 DEF Quiet
  <2>8. CASE AcquireFails(w) \/ Mark(w) \/ (\E p \in PC : ExecutionEnds(w, p))
             \/ Stopped(w) \/ Report(w) \/ Release(w) \/ Ready(w)
    BY <2>8 DEF AcquireFails, Mark, ExecutionEnds, Stopped, Report, Release, Ready, Idle,
                Quiet, worker, WorkerTypes
  <2>9. QED
    BY <1>1, <2>1, <2>2, <2>5, <2>6, <2>7, <2>8 DEF WorkerStep, Quiet
<1>2. \A u \in Workers : n \notin snap'[u] /\ node'[u] # n
  BY <1>1, OthersLeaveWorkers DEF worker, Quiet
<1>3. ASSUME NEW w \in Workers, Stopped(w) \/ Report(w)
      PROVE  \A s \in strays' : s.node # n
  <2>1. \A S \in StraysOf(w) : \A s \in S : s.node = node[w]
    BY DEF StraysOf, StrayOf
  <2>2. QED
    BY <1>3, <2>1 DEF Stopped, Report, StopKeepalive, Quiet
<1>4. ASSUME NEW s \in strays, StrayRenew(s) \/ StrayBeat(s)
      PROVE  \A r \in strays' : r.node # n
  <2>1. s \in Stray /\ s.node # n
    BY DEF StrayInv, Quiet
  <2>2. [s EXCEPT !.step = "beat"].node = s.node /\ [s EXCEPT !.step = "renew"].node = s.node
    BY <2>1 DEF Stray
  <2>3. strays' \subseteq strays \cup {[s EXCEPT !.step = "beat"], [s EXCEPT !.step = "renew"]}
    BY <1>4 DEF StrayRenew, StrayBeat
  <2>4. QED
    BY <2>1, <2>2, <2>3 DEF Quiet
<1>5. ASSUME UNCHANGED strays
      PROVE  \A s \in strays' : s.node # n
  BY <1>5 DEF Quiet
<1>6. \A s \in strays' : s.node # n
  <2>1. ASSUME NEW m \in Nodes, AgentStep(m)
        PROVE  UNCHANGED strays
    BY <2>1 DEF AgentStep, Register, AgentBeat, SetState
  <2>2. ASSUME NEW w \in Workers, WorkerStep(w) \/ KeepaliveStep(w),
               ~Stopped(w), ~Report(w)
        PROVE  UNCHANGED strays
    BY <2>2 DEF WorkerStep, List, Listed, Acquire, Draw, Claim, AcquireFails, Mark,
                ExecutionEnds, Release, Ready, KeepaliveStep, RenewFails, Renew, Beat
  <2>3. CASE Tick
    BY <1>5, <2>3 DEF Tick
  <2>4. QED
    BY <1>3, <1>4, <1>5, <2>1, <2>2, <2>3 DEF Next, StrayStep
<1>7. QED
  BY <1>2, <1>6 DEF Quiet

\* The only heartbeat that a quiet node has is its agent's.
LEMMA DrainStep ==
  ASSUME TypeInv, DrainedIdleStaysDrained, Next, NEW n \in Nodes, drain'[n]
  PROVE  reg'[n] = "draining" /\ Quiet(n)'
<1> USE DEF TypeInv
<1>1. ASSUME NEW s \in NodeState, SetState(n, s)
      PROVE  reg'[n] = "draining" /\ Quiet(n)'
  <2>1. s = "draining" /\ Quiet(n) /\ reg'[n] = "draining"
    BY <1>1 DEF SetState, RegistryInv
  <2>2. QED
    BY <1>1, <2>1 DEF SetState, Quiet, worker
<1>2. CASE Register(n)
  BY <1>2 DEF Register, RegistryInv
<1>3. ASSUME drain'[n] = drain[n], reg[n] = "draining" /\ Quiet(n) => reg'[n] = "draining"
      PROVE  reg'[n] = "draining" /\ Quiet(n)'
  BY <1>3, QuietStays DEF DrainedIdleStaysDrained
<1>4. ASSUME NEW m \in Nodes, NEW s \in {"ready", "leased"}, Heartbeat(m, s),
             m # n \/ s = "ready"
      PROVE  drain'[n] = drain[n] /\ (reg[n] = "draining" => reg'[n] = "draining")
  BY <1>4 DEF Heartbeat, Heard, RegistryInv
<1>5. ASSUME NEW m \in Nodes, AgentStep(m)
      PROVE  reg'[n] = "draining" /\ Quiet(n)'
  <2>1. CASE AgentBeat(m)
    BY <1>3, <1>4, <2>1 DEF AgentBeat
  <2>2. CASE m = n /\ ~AgentBeat(m)
    BY <1>1, <1>2, <1>5, <2>2 DEF AgentStep
  <2>3. CASE m # n /\ ~AgentBeat(m)
    BY <1>3, <1>5, <2>3 DEF AgentStep, Register, SetState, RegistryInv
  <2>4. QED
    BY <2>1, <2>2, <2>3
<1>6. ASSUME NEW w \in Workers, Mark(w) \/ Ready(w) \/ Beat(w)
      PROVE  reg'[n] = "draining" /\ Quiet(n)'
  <2>1. node[w] \in Nodes
    BY <1>6, NodeOf DEF Mark, Ready, Beat, Goto
  <2>2. PICK s \in {"ready", "leased"} : Heartbeat(node[w], s)
    BY <1>6 DEF Mark, Ready, Beat
  <2>3. drain'[n] = drain[n] /\ (Quiet(n) => node[w] # n)
    BY <2>2 DEF Heartbeat, Quiet
  <2>4. QED
    BY <1>3, <1>4, <2>1, <2>2, <2>3
<1>7. ASSUME NEW s \in strays, StrayBeat(s)
      PROVE  reg'[n] = "draining" /\ Quiet(n)'
  <2>1. s.node \in Nodes /\ Heartbeat(s.node, "leased")
    BY <1>7 DEF StrayBeat, StrayInv, Stray
  <2>2. drain'[n] = drain[n] /\ (Quiet(n) => s.node # n)
    BY <2>1 DEF Heartbeat, Quiet
  <2>3. QED
    BY <1>3, <1>4, <2>1, <2>2
<1>8. CASE UNCHANGED registry
  BY <1>3, <1>8 DEF registry
<1>9. QED
  <2>1. ASSUME NEW w \in Workers,
               List(w) \/ (\E m \in Nodes : Acquire(w, m) \/ Draw(w, m)) \/ Claim(w)
               \/ AcquireFails(w) \/ (\E p \in PC : ExecutionEnds(w, p)) \/ Stopped(w)
               \/ Report(w) \/ Release(w) \/ RenewFails(w) \/ Renew(w)
        PROVE  UNCHANGED registry
    BY <2>1 DEF List, Listed, Acquire, Draw, Claim, AcquireFails, ExecutionEnds, Stopped,
                Report, Release, RenewFails, Renew
  <2>2. ASSUME NEW s \in strays, StrayRenew(s)
        PROVE  UNCHANGED registry
    BY <2>2 DEF StrayRenew
  <2>3. CASE Tick
    BY <1>8, <2>3 DEF Tick
  <2>4. QED
    BY <1>5, <1>6, <1>7, <1>8, <2>1, <2>2, <2>3
       DEF Next, WorkerStep, KeepaliveStep, StrayStep

\* A node that nobody was using when it was drained stays drained and unused
\* until it is activated or its agent starts again.
THEOREM DrainedStays == Spec => []DrainedIdleStaysDrained
<1>1. Init => DrainedIdleStaysDrained
  BY DEF Init, DrainedIdleStaysDrained
<1>2. TypeInv /\ DrainedIdleStaysDrained /\ [Next]_vars => DrainedIdleStaysDrained'
  <2>1. CASE TypeInv /\ DrainedIdleStaysDrained /\ Next
    BY <2>1, DrainStep DEF DrainedIdleStaysDrained
  <2>2. CASE DrainedIdleStaysDrained /\ UNCHANGED vars
    BY <2>2 DEF DrainedIdleStaysDrained, Quiet, vars, registry, worker
  <2>3. QED
    BY <2>1, <2>2
<1>3. QED
  BY <1>1, <1>2, TypeInvariant, PTL DEF Spec
=============================================================================
