---------------------------- MODULE PoolManager ----------------------------
(***************************************************************************)
(* The warm pool (src/internal/pool/manager.go) and everybody else who     *)
(* writes the node registry (pool/registry.go): node agents, which         *)
(* register once and heartbeat for ever (src/cmd/node-agent/main.go),      *)
(* workers of the task runner with their keepalives, and operators, who    *)
(* drain, activate and recycle nodes (api/nodes.go).                       *)
(*                                                                         *)
(* The manager reconciles: it lists the nodes, decides on that list which  *)
(* to destroy and how many to provision, and then makes one docker call    *)
(* after the other while the others go on.                                 *)
(*                                                                         *)
(* Time passes in ticks; an age is counted up to one more than the limit   *)
(* it is compared with.  A node is used by one worker at a time, which is  *)
(* the business of NodeLease; here workers matter for what they write into *)
(* the registry, with a list that is out of date or after they have left.  *)
(***************************************************************************)
EXTENDS Integers, FiniteSets

CONSTANTS
  Managed,           \* ids that the provider may draw
  Static,            \* ids of nodes that were not started by the manager
  TargetReady,       \* ManagerConfig.TargetReady
  HeartbeatTimeout,  \* ManagerConfig.HeartbeatTimeout, in ticks
  NodeMaxAge,        \* ManagerConfig.NodeMaxAge, in ticks
  MaxFaults,         \* bound: failures, delays and operators' requests
  NoNode

Nodes == Managed \cup Static

ASSUME PoolAssumption ==
  /\ IsFiniteSet(Nodes) /\ Managed \cap Static = {} /\ NoNode \notin Nodes
  /\ TargetReady \in Nat /\ HeartbeatTimeout \in Nat /\ NodeMaxAge \in Nat
  /\ MaxFaults \in Nat

VARIABLES
  box,       \* per node: the container and the agent in it
  reg,       \* per node: Node.State
  beat,      \* per node: ticks since Node.LastHeartbeat
  boot,      \* per node: ticks since Node.BootedAt
  use,       \* per node: whether a worker is at it
  listed,    \* nodes that some worker has in its list of ready nodes
  strays,    \* nodes whose last keepalive was stopped with a heartbeat to make
  warming,   \* per node: ticks since it was provisioned, if in Manager.warming
  stale,     \* the manager's locals: nodes to reap by heartbeat or age,
  late,      \*   warming nodes that have timed out,
  surplus,   \*   ready nodes to scale down,
  needed,    \*   nodes to provision,
  victim,    \*   the node that is to be marked dead next,
  minted,    \*   the node that has been started and is not in warming yet,
  since,     \*   ticks since it listed the nodes
  request,   \* a recycle request: its node and next step
  lost,      \* history: containers the manager can no longer know of
  faults

registry == <<reg, beat, boot>>
clients  == <<use, listed, strays>>
manager  == <<warming, stale, late, surplus, needed, victim, minted, since>>
vars     == <<box, registry, clients, manager, request, lost, faults>>

-----------------------------------------------------------------------------
Box == {"unused", "starting", "slow", "beating", "hung", "removed"}
NodeState == {"absent", "ready", "leased", "draining", "dead"}
Out == -1   \* not in the map `warming`
NoRequest == [node |-> NoNode, step |-> "none"]
Least(a, b) == IF a < b THEN a ELSE b
Older(age, limit) == Least(age + 1, limit + 1)

Up(n) == box[n] \in {"starting", "slow", "beating", "hung"}
Warming == {n \in Nodes : warming[n] # Out}

Init ==
  /\ box = [n \in Nodes |-> IF n \in Static THEN "starting" ELSE "unused"]
  /\ reg = [n \in Nodes |-> "absent"]
  /\ beat = [n \in Nodes |-> 0]
  /\ boot = [n \in Nodes |-> 0]
  /\ use = [n \in Nodes |-> "free"]
  /\ listed = {} /\ strays = {}
  /\ warming = [n \in Nodes |-> Out]
  /\ stale = {} /\ late = {} /\ surplus = {}
  /\ needed = 0 /\ victim = NoNode /\ minted = NoNode /\ since = 0
  /\ request = NoRequest
  /\ lost = {}
  /\ faults = 0

Fault == faults < MaxFaults /\ faults' = faults + 1

-----------------------------------------------------------------------------
(* The registry                                                            *)

\* Slip: a dead node that says it is ready is ready.
Heard_Revives(old, s) ==
  IF old = "absent" \/ (s = "ready" /\ old = "draining") THEN old ELSE s

\* Heartbeat: an unknown node is an error; `ready` does not end draining or death.
Heard(old, s) ==
  IF old = "absent" \/ (s = "ready" /\ old \in {"draining", "dead"}) THEN old ELSE s

Put(n, s) ==
  /\ reg' = [reg EXCEPT ![n] = s]
  /\ beat' = [beat EXCEPT ![n] = 0]
  /\ UNCHANGED boot

Heartbeat(n, s) == Put(n, Heard(reg[n], s))

\* An unknown node is an error here as well.
SetState(n, s) == Put(n, IF reg[n] = "absent" THEN "absent" ELSE s)

-----------------------------------------------------------------------------
(* Node agents                                                             *)

\* The agent registers once; BootedAt is about when its container started.
Register(n) ==
  /\ box[n] \in {"starting", "slow"}
  /\ box' = [box EXCEPT ![n] = "beating"]
  /\ Put(n, "ready")
  /\ UNCHANGED <<clients, manager, request, lost, faults>>

\* It always says that it is ready, also while a task runs.
AgentBeat(n) ==
  /\ box[n] = "beating"
  /\ Heartbeat(n, "ready")
  /\ UNCHANGED <<box, clients, manager, request, lost, faults>>

\* It does not get through to the orchestrator, for as long as it may be; for
\* static nodes that makes no difference.
Hang(n) ==
  /\ Fault
  /\ n \in Managed
  /\ \/ box[n] = "starting" /\ box' = [box EXCEPT ![n] = "slow"]
     \/ box[n] = "beating" /\ box' = [box EXCEPT ![n] = "hung"]
  /\ UNCHANGED <<registry, clients, manager, request, lost>>

Resume(n) ==
  /\ box[n] = "hung"
  /\ box' = [box EXCEPT ![n] = "beating"]
  /\ UNCHANGED <<registry, clients, manager, request, lost, faults>>

-----------------------------------------------------------------------------
(* Workers                                                                 *)

\* A worker lists node n as ready ...
List(n) ==
  /\ reg[n] = "ready"
  /\ listed' = listed \cup {n}
  /\ UNCHANGED <<box, registry, use, strays, manager, request, lost, faults>>

\* ... and the last one that has it in its list goes on without it, ...
Unlist(n) ==
  /\ n \in listed
  /\ listed' = listed \ {n}
  /\ UNCHANGED <<box, registry, use, strays, manager, request, lost, faults>>

\* ... or a worker with such a list, however old, leases the node and marks it.
\* Its keepalive says again that it is leased at every renewal.
Mark(n) ==
  /\ n \in listed \/ use[n] = "busy"
  /\ use' = [use EXCEPT ![n] = "busy"]
  /\ Heartbeat(n, "leased")
  /\ UNCHANGED <<box, listed, strays, manager, request, lost, faults>>

\* It gives the node back, whether or not that has done anything.  Nobody waits
\* for the keepalive, which may have renewed and not said so yet.
Release(n) ==
  /\ use[n] = "busy"
  /\ use' = [use EXCEPT ![n] = "free"]
  /\ Heartbeat(n, "ready")
  /\ \/ UNCHANGED <<strays, faults>>
     \/ Fault /\ strays' = strays \cup {n}
  /\ UNCHANGED <<box, listed, manager, request, lost>>

StrayBeat(n) ==
  /\ n \in strays
  /\ strays' = strays \ {n}
  /\ Heartbeat(n, "leased")
  /\ UNCHANGED <<box, use, listed, manager, request, lost, faults>>

-----------------------------------------------------------------------------
(* The manager: one pass of reconcile                                      *)

\* Slip: dead nodes are left alone.
MustReap_NotDead(n) ==
  /\ reg[n] # "dead"
  /\ beat[n] > HeartbeatTimeout \/ (reg[n] # "leased" /\ boot[n] > NodeMaxAge)

MustReap(n) ==
  \/ reg[n] # "dead" /\ beat[n] > HeartbeatTimeout
  \/ reg[n] # "leased" /\ boot[n] > NodeMaxAge

Known == {n \in Managed : reg[n] # "absent"}
Reaped == {n \in Known : MustReap(n)}
Candidates == {n \in Known \ Reaped : reg[n] = "ready"}

\* Slip: a node that is reaped is taken off the count that it was never part of.
ReadyCount_Reaped ==
  Cardinality(Candidates \cup {n \in Static : reg[n] = "ready"}) - Cardinality(Reaped)

ReadyCount == Cardinality(Candidates \cup {n \in Static : reg[n] = "ready"})
TimedOut == {n \in Warming \ Known : warming[n] > HeartbeatTimeout}

\* The sets of the oldest nodes that may be scaled down.
Surplus ==
  LET count == Least(IF ReadyCount > TargetReady THEN ReadyCount - TargetReady ELSE 0,
                     Cardinality(Candidates))
  IN {S \in SUBSET Candidates :
        /\ Cardinality(S) = count
        /\ \A n \in S, o \in Candidates \ S : boot[n] >= boot[o]}

\* Slip: what has been provisioned already is not counted.
Missing_Ready(ready, coming) ==
  IF TargetReady > ready THEN TargetReady - ready ELSE 0

Missing(ready, coming) ==
  IF TargetReady > ready + coming THEN TargetReady - ready - coming ELSE 0

Idle ==
  /\ stale = {} /\ late = {} /\ surplus = {}
  /\ needed = 0 /\ victim = NoNode /\ minted = NoNode

\* Slip: a node that has timed out stays in the map.
StillWarming_All == Warming \ Known

StillWarming == (Warming \ Known) \ TimedOut

\* List, and everything that is decided on that list.
Reconcile ==
  /\ Idle
  /\ stale' = Reaped
  /\ late' = TimedOut
  /\ warming' = [n \in Nodes |-> IF n \in StillWarming THEN warming[n] ELSE Out]
  /\ \E S \in Surplus :
       /\ surplus' = S
       /\ needed' = Missing(ReadyCount - Cardinality(S), Cardinality(StillWarming))
  /\ since' = 0
  /\ UNCHANGED <<box, registry, clients, victim, minted, request, lost, faults>>

\* docker rm -f: a container that is not there is no error.
Removed(n) == [box EXCEPT ![n] = IF n \in Managed /\ Up(n) THEN "removed" ELSE @]

\* Nodes to reap come first, then those to scale down; either way ...
Reap(n) ==
  /\ victim = NoNode
  /\ \/ n \in stale /\ stale' = stale \ {n} /\ UNCHANGED surplus
     \/ stale = {} /\ late = {} /\ n \in surplus /\ surplus' = surplus \ {n} /\ UNCHANGED stale
  /\ victim' = n
  /\ \/ box' = Removed(n) /\ UNCHANGED faults
     \/ Fault /\ UNCHANGED box
  /\ UNCHANGED <<registry, clients, warming, late, needed, minted, since, request, lost>>

\* Slip: destroyed nodes keep their state.
Bury_Skipped ==
  /\ victim # NoNode
  /\ victim' = NoNode
  /\ UNCHANGED <<box, registry, clients, warming, stale, late, surplus, needed, minted, since, request, lost, faults>>

\* ... they are marked dead whether or not they are gone.
Bury ==
  /\ victim # NoNode
  /\ Heartbeat(victim, "dead")
  /\ victim' = NoNode
  /\ UNCHANGED <<box, clients, warming, stale, late, surplus, needed, minted, since, request, lost, faults>>

\* A warming node that has timed out is only destroyed.
ReapLate(n) ==
  /\ victim = NoNode /\ stale = {}
  /\ n \in late
  /\ late' = late \ {n}
  /\ \/ box' = Removed(n) /\ UNCHANGED <<lost, faults>>
     \/ /\ Fault
        /\ lost' = IF Up(n) THEN lost \cup {n} ELSE lost
        /\ UNCHANGED box
  /\ UNCHANGED <<registry, clients, warming, stale, surplus, needed, victim, minted, since, request>>

\* Ids never come back.  To bound their number, one whose container and
\* history are over does duty for the next.
Fresh(n) ==
  /\ n \in Managed
  /\ \/ box[n] = "unused"
     \/ box[n] = "removed" /\ reg[n] \in {"absent", "dead"}
  /\ use[n] = "free" /\ n \notin listed \cup strays
  /\ warming[n] = Out /\ request.node # n

Provisioning ==
  /\ stale = {} /\ late = {} /\ surplus = {}
  /\ victim = NoNode /\ minted = NoNode
  /\ needed > 0
  /\ needed' = needed - 1
  /\ UNCHANGED <<clients, warming, stale, late, surplus, victim, since, request>>

Starts(n) ==
  /\ Fresh(n)
  /\ box' = [box EXCEPT ![n] = "starting"]
  /\ reg' = [reg EXCEPT ![n] = "absent"]
  /\ beat' = [beat EXCEPT ![n] = 0]
  /\ boot' = [boot EXCEPT ![n] = 0]

Provision(n) ==
  /\ Provisioning
  /\ Starts(n)
  /\ minted' = n
  /\ lost' = lost \ {n}
  /\ UNCHANGED faults

\* docker run fails, or the model has run out of ids, ...
ProvisionFails ==
  /\ Provisioning
  /\ Fault \/ ((~ \E n \in Managed : Fresh(n)) /\ UNCHANGED faults)
  /\ UNCHANGED <<box, registry, minted, lost>>

\* ... or it fails, or its context ends, when the container runs already: the id
\* is dropped with the error and nothing removes the container.
ProvisionFailsLate(n) ==
  /\ Provisioning
  /\ Fault
  /\ Starts(n)
  /\ lost' = lost \cup {n}
  /\ UNCHANGED minted

\* Slip: the node is not remembered.
SetWarming_Skipped ==
  /\ minted # NoNode
  /\ minted' = NoNode
  /\ UNCHANGED <<box, registry, clients, warming, stale, late, surplus, needed, victim, since, request, lost, faults>>

\* The node counts from when the pass began, not from when it was started.
SetWarming ==
  /\ minted # NoNode
  /\ warming' = [warming EXCEPT ![minted] = since]
  /\ minted' = NoNode
  /\ UNCHANGED <<box, registry, clients, stale, late, surplus, needed, victim, since, request, lost, faults>>

-----------------------------------------------------------------------------
(* Operators                                                               *)

Drain(n) ==
  /\ Fault
  /\ SetState(n, "draining")
  /\ UNCHANGED <<box, clients, manager, request, lost>>

Activate(n) ==
  /\ Fault
  /\ SetState(n, "ready")
  /\ UNCHANGED <<box, clients, manager, request, lost>>

\* Recycling: drain the node, known or not ...
Recycle(n) ==
  /\ Fault
  /\ request = NoRequest
  /\ request' = [node |-> n, step |-> "destroy"]
  /\ SetState(n, "draining")
  /\ UNCHANGED <<box, clients, manager, lost>>

\* ... destroy it; a failure is answered and leaves it draining ...
RecycleDestroys ==
  /\ request.step = "destroy"
  /\ \/ /\ box' = Removed(request.node)
        /\ request' = [request EXCEPT !.step = "bury"]
        /\ UNCHANGED faults
     \/ Fault /\ request' = NoRequest /\ UNCHANGED box
  /\ UNCHANGED <<registry, clients, manager, lost>>

\* ... and mark it dead.
RecycleBuries ==
  /\ request.step = "bury"
  /\ SetState(request.node, "dead")
  /\ request' = NoRequest
  /\ UNCHANGED <<box, clients, manager, lost, faults>>

-----------------------------------------------------------------------------
(* The orchestrator and the clock                                          *)

\* The registry and the map of warming nodes are in memory; agents go on
\* beating and do not register again.
Restart ==
  /\ Fault
  /\ reg' = [n \in Nodes |-> "absent"]
  /\ use' = [n \in Nodes |-> "free"]
  /\ listed' = {} /\ strays' = {}
  /\ warming' = [n \in Nodes |-> Out]
  /\ stale' = {} /\ late' = {} /\ surplus' = {}
  /\ needed' = 0 /\ victim' = NoNode /\ minted' = NoNode /\ since' = 0
  /\ request' = NoRequest
  /\ lost' = lost \cup {n \in Managed : Up(n)}
  /\ UNCHANGED <<box, beat, boot>>

\* Agents that do not hang are on time.
OnTime(n) ==
  /\ box[n] = "starting" => boot[n] < HeartbeatTimeout
  /\ (box[n] = "beating" /\ reg[n] \notin {"absent", "dead"}) => beat[n] < HeartbeatTimeout

\* Nobody looks at the ages of static nodes.  A tick in the middle of a pass is
\* a docker call that takes long.
Tick ==
  /\ \A n \in Nodes : OnTime(n)
  /\ IF Idle THEN UNCHANGED faults ELSE Fault
  /\ since' = IF Idle THEN since ELSE Older(since, HeartbeatTimeout)
  /\ beat' = [n \in Nodes |-> IF n \in Static \/ reg[n] \in {"absent", "dead"} THEN beat[n]
                               ELSE Older(beat[n], HeartbeatTimeout)]
  /\ boot' = [n \in Nodes |-> IF n \in Static \/ box[n] = "unused" THEN boot[n]
                               ELSE Older(boot[n], NodeMaxAge)]
  /\ warming' = [n \in Nodes |-> IF warming[n] = Out THEN Out
                                  ELSE Older(warming[n], HeartbeatTimeout)]
  /\ UNCHANGED <<box, reg, clients, stale, late, surplus, needed, victim, minted, request, lost>>

ManagerStep ==
  \/ Reconcile \/ Bury \/ ProvisionFails \/ SetWarming
  \/ \E n \in Managed : Reap(n) \/ ReapLate(n) \/ Provision(n) \/ ProvisionFailsLate(n)

Next ==
  \/ ManagerStep
  \/ \E n \in Nodes :
       \/ Register(n) \/ AgentBeat(n) \/ Hang(n) \/ Resume(n)
       \/ List(n) \/ Unlist(n) \/ Mark(n) \/ Release(n) \/ StrayBeat(n)
       \/ Drain(n) \/ Activate(n) \/ Recycle(n)
  \/ RecycleDestroys \/ RecycleBuries
  \/ Restart \/ Tick

Spec == Init /\ [][Next]_vars

\* The manager, open requests and the agents that do not hang go on, what workers
\* have begun at a node goes on, and what they all do does not stop the clock.
Fairness ==
  /\ WF_vars(ManagerStep)
  /\ WF_vars(RecycleDestroys \/ RecycleBuries)
  /\ \A n \in Nodes :
       /\ WF_vars((box[n] = "starting" /\ Register(n)) \/ AgentBeat(n))
       /\ WF_vars(Release(n) \/ StrayBeat(n) \/ (reg[n] # "ready" /\ Unlist(n)))
  /\ SF_vars(Tick)

FairSpec == Spec /\ Fairness

-----------------------------------------------------------------------------
(* Properties                                                              *)

\* Values are of their types; the manager reaps, scales down and records as
\* warming only nodes of its own, and never starts more than its target at once.
TypeOK ==
  /\ box \in [Nodes -> Box]
  /\ reg \in [Nodes -> NodeState]
  /\ beat \in [Nodes -> 0 .. HeartbeatTimeout + 1]
  /\ boot \in [Nodes -> 0 .. NodeMaxAge + 1]
  /\ use \in [Nodes -> {"free", "busy"}]
  /\ listed \subseteq Nodes /\ strays \subseteq Nodes
  /\ warming \in [Nodes -> {Out} \cup (0 .. HeartbeatTimeout + 1)]
  /\ Warming \subseteq Managed
  /\ stale \subseteq Managed /\ late \subseteq Managed /\ surplus \subseteq Managed
  /\ needed \in 0 .. TargetReady
  /\ {victim, minted} \subseteq Managed \cup {NoNode}
  /\ since \in 0 .. HeartbeatTimeout + 1
  /\ request \in {NoRequest} \cup [node : Nodes, step : {"destroy", "bury"}]
  /\ lost \subseteq Managed
  /\ faults \in 0 .. MaxFaults

\* The manager never has more nodes under way than it wants ready, however
\* slow they are to register and whatever fails (manager.go:132: the number
\* to provision is computed from two views that lag each other).
Coming == Warming \cup ({minted} \ {NoNode})
WarmingBounded == Cardinality(Coming) + needed <= TargetReady

\* A container that is up is one that somebody will look at: it is in the
\* registry, it is warming or about to be, or it is to be destroyed.  The
\* only ones forgotten are those that a restart, a failed destruction of a
\* late node, or a docker run that failed after it had started the container
\* leaves behind, and they may still register (manager.go:143-148, 208-246).
NoContainerForgotten ==
  \A n \in Managed :
    Up(n) => \/ reg[n] # "absent" \/ n \in Warming
             \/ n \in late \/ n = minted \/ n \in lost

\* A node that was marked dead comes back only by a start of its agent, by an
\* operator, or by a worker: one that is at it, one that has it in a list from
\* before, or one whose stopped keepalive says once more that it is leased.  Its
\* own heartbeats, which go on as long as the container is there, do not revive
\* it (registry.go:106-112, runner.go:542-566, 603-627).
DeadStaysDead ==
  [][\A n \in Nodes :
       reg[n] = "dead" /\ reg'[n] # "dead" =>
         \/ use[n] # "free" \/ n \in listed \/ n \in strays
         \/ box[n] \in {"starting", "slow"} /\ box'[n] = "beating"
         \/ box'[n] = "starting"
         \/ faults' > faults]_vars

\* Containers that are still up after their nodes were marked dead are destroyed
\* in the end, whichever docker calls fail: again and again there is none
\* (manager.go:174: marking goes on after a failure; only the age of the dead
\* node brings it back).
LeakedContainersGo ==
  []<>(\A n \in Managed : ~ (reg[n] = "dead" /\ Up(n)))

\* The pool gets back to its target again and again (manager.go:139-150).
PoolRefills ==
  []<>(\/ Cardinality({n \in Nodes : reg[n] = "ready"}) >= TargetReady
       \/ \A n \in Managed : ~ Fresh(n))

\* A managed node that has fallen silent is not offered to workers for ever,
\* as long as none of them takes it (manager.go:106).
SilentNodesGo ==
  \A n \in Managed :
    (reg[n] = "ready" /\ box[n] \in {"hung", "removed"} /\ use[n] = "free")
      ~> (reg[n] # "ready" \/ box[n] = "beating" \/ use[n] # "free")
=============================================================================
