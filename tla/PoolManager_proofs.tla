------------------------ MODULE PoolManager_proofs ------------------------
(***************************************************************************)
(* Proofs about PoolManager for any number of nodes, any target, time-outs *)
(* and number of faults.                                                   *)
(***************************************************************************)
EXTENDS PoolManager, FiniteSetTheorems, TLAPS

USE PoolAssumption

-----------------------------------------------------------------------------
(* Operators                                                               *)

LEMMA OlderType ==
  ASSUME NEW limit \in Nat, NEW age \in 0 .. limit + 1
  PROVE  Older(age, limit) \in 0 .. limit + 1
BY DEF Older, Least

LEMMA HeardType ==
  ASSUME NEW old \in NodeState, NEW s \in NodeState
  PROVE  /\ Heard(old, s) \in NodeState
         /\ Heard(old, s) = "absent" => old = "absent" \/ s = "absent"
         /\ old = "absent" => Heard(old, s) = "absent"
         /\ old = "dead" /\ s \in {"ready", "dead"} => Heard(old, s) = "dead"
BY DEF Heard, NodeState

LEMMA ManagedFinite == IsFiniteSet(Managed) /\ IsFiniteSet(Static)
BY FS_Subset DEF Nodes

LEMMA CountType ==
  ASSUME NEW S, S \subseteq Nodes
  PROVE  IsFiniteSet(S) /\ Cardinality(S) \in Nat
BY FS_Subset, FS_CardinalityType

LEMMA NeededType ==
  ASSUME NEW S \in Surplus
  PROVE  /\ S \subseteq Managed
         /\ Missing(ReadyCount - Cardinality(S), Cardinality(StillWarming)) \in 0 .. TargetReady
         /\ \/ Missing(ReadyCount - Cardinality(S), Cardinality(StillWarming)) = 0
            \/ Missing(ReadyCount - Cardinality(S), Cardinality(StillWarming))
                 + Cardinality(StillWarming) <= TargetReady
<1> DEFINE Offered == Candidates \cup {n \in Static : reg[n] = "ready"}
<1>1. S \subseteq Candidates /\ Candidates \subseteq Managed
  BY DEF Surplus, Candidates, Known
<1>2. S \subseteq Offered /\ Offered \subseteq Nodes /\ StillWarming \subseteq Nodes
  BY <1>1 DEF Nodes, StillWarming, Warming
<1>3. Cardinality(S) \in Nat /\ Cardinality(Offered) \in Nat /\ Cardinality(StillWarming) \in Nat
  BY <1>2, CountType
<1>4. Cardinality(S) <= Cardinality(Offered)
  BY <1>2, CountType, FS_Subset
<1>5. ReadyCount = Cardinality(Offered)
  BY DEF ReadyCount
<1> QED  BY <1>1, <1>3, <1>4, <1>5 DEF Missing

-----------------------------------------------------------------------------
(* Types                                                                   *)

LEMMA TypeInit == Init => TypeOK
BY DEF Init, TypeOK, Box, NodeState, Out, NoRequest, Nodes, Warming

LEMMA PutType ==
  ASSUME TypeOK, NEW n \in Nodes, NEW s \in NodeState, Put(n, s)
  PROVE  /\ reg' \in [Nodes -> NodeState]
         /\ beat' \in [Nodes -> 0 .. HeartbeatTimeout + 1]
         /\ boot' \in [Nodes -> 0 .. NodeMaxAge + 1]
BY DEF Put, TypeOK

LEMMA HeartbeatType ==
  ASSUME TypeOK, NEW n \in Nodes, NEW s \in NodeState, Heartbeat(n, s)
  PROVE  /\ reg' \in [Nodes -> NodeState]
         /\ beat' \in [Nodes -> 0 .. HeartbeatTimeout + 1]
         /\ boot' \in [Nodes -> 0 .. NodeMaxAge + 1]
BY HeardType, PutType DEF Heartbeat, TypeOK

LEMMA SetStateType ==
  ASSUME TypeOK, NEW n \in Nodes, NEW s \in NodeState, SetState(n, s)
  PROVE  /\ reg' \in [Nodes -> NodeState]
         /\ beat' \in [Nodes -> 0 .. HeartbeatTimeout + 1]
         /\ boot' \in [Nodes -> 0 .. NodeMaxAge + 1]
<1>1. "absent" \in NodeState  BY DEF NodeState
<1> QED  BY <1>1, PutType DEF SetState

LEMMA TypeStep == TypeOK /\ [Next]_vars => TypeOK'
<1> SUFFICES ASSUME TypeOK, [Next]_vars PROVE TypeOK'
  OBVIOUS
<1> USE DEF TypeOK, Warming
<1>s. {"ready", "leased", "draining", "dead", "absent"} = NodeState
  BY DEF NodeState
<1>1. ASSUME NEW n \in Nodes, Register(n) PROVE TypeOK'
  BY <1>1, <1>s, PutType DEF Register, clients, manager, Box
<1>2. ASSUME NEW n \in Nodes, AgentBeat(n) PROVE TypeOK'
  BY <1>2, <1>s, HeartbeatType DEF AgentBeat, clients, manager
<1>3. ASSUME NEW n \in Nodes, Hang(n) PROVE TypeOK'
  BY <1>3 DEF Hang, Fault, registry, clients, manager, Box
<1>4. ASSUME NEW n \in Nodes, Resume(n) PROVE TypeOK'
  BY <1>4 DEF Resume, registry, clients, manager, Box
<1>5. ASSUME NEW n \in Nodes, List(n) \/ Unlist(n) PROVE TypeOK'
  BY <1>5 DEF List, Unlist, registry, manager
<1>6. ASSUME NEW n \in Nodes, Mark(n) PROVE TypeOK'
  BY <1>6, <1>s, HeartbeatType DEF Mark, manager
<1>7. ASSUME NEW n \in Nodes, Release(n) PROVE TypeOK'
  <2>1. faults' \in 0 .. MaxFaults /\ strays' \subseteq Nodes
    BY <1>7 DEF Release, Fault
  <2> QED  BY <1>7, <2>1, <1>s, HeartbeatType DEF Release, manager
<1>24. ASSUME NEW n \in Nodes, StrayBeat(n) PROVE TypeOK'
  BY <1>24, <1>s, HeartbeatType DEF StrayBeat, manager
<1>8. ASSUME Reconcile PROVE TypeOK'
  <2>1. PICK S \in Surplus :
          surplus' = S /\ needed' = Missing(ReadyCount - Cardinality(S), Cardinality(StillWarming))
    BY <1>8 DEF Reconcile
  <2>2. surplus' \subseteq Managed /\ needed' \in 0 .. TargetReady
    BY <2>1, NeededType
  <2>3. stale' \subseteq Managed
    BY <1>8 DEF Reconcile, Reaped, Known
  <2>4. late' \subseteq Managed
    BY <1>8 DEF Reconcile, TimedOut
  <2>5. warming' \in [Nodes -> {Out} \cup (0 .. HeartbeatTimeout + 1)] /\ Warming' \subseteq Managed
    BY <1>8 DEF Reconcile, StillWarming
  <2> QED  BY <1>8, <2>2, <2>3, <2>4, <2>5 DEF Reconcile, registry, clients
<1>9. ASSUME NEW n \in Managed, Reap(n) PROVE TypeOK'
  BY <1>9 DEF Reap, Removed, Fault, registry, clients, Box, Nodes
<1>10. ASSUME Bury PROVE TypeOK'
  <2>1. victim \in Nodes  BY <1>10 DEF Bury, Nodes
  <2> QED  BY <1>10, <2>1, <1>s, HeartbeatType DEF Bury, clients
<1>11. ASSUME NEW n \in Managed, ReapLate(n) PROVE TypeOK'
  BY <1>11 DEF ReapLate, Removed, Fault, registry, clients, Box, Nodes
<1>12. ASSUME NEW n \in Managed, Provision(n) PROVE TypeOK'
  BY <1>12, <1>s DEF Provision, Provisioning, Starts, clients, Box, Nodes
<1>25. ASSUME NEW n \in Managed, ProvisionFailsLate(n) PROVE TypeOK'
  BY <1>25, <1>s DEF ProvisionFailsLate, Provisioning, Starts, Fault, clients, Box, Nodes
<1>13. ASSUME ProvisionFails PROVE TypeOK'
  BY <1>13 DEF ProvisionFails, Provisioning, Fault, registry, clients
<1>14. ASSUME SetWarming PROVE TypeOK'
  BY <1>14 DEF SetWarming, registry, clients, Nodes
<1>15. ASSUME NEW n \in Nodes, Drain(n) PROVE TypeOK'
  BY <1>15, <1>s, SetStateType DEF Drain, Fault, clients, manager
<1>16. ASSUME NEW n \in Nodes, Activate(n) PROVE TypeOK'
  BY <1>16, <1>s, SetStateType DEF Activate, Fault, clients, manager
<1>17. ASSUME NEW n \in Nodes, Recycle(n) PROVE TypeOK'
  BY <1>17, <1>s, SetStateType DEF Recycle, Fault, clients, manager
<1>18. ASSUME RecycleDestroys PROVE TypeOK'
  BY <1>18 DEF RecycleDestroys, Removed, NoRequest, Fault, registry, clients, manager, Box
<1>19. ASSUME RecycleBuries PROVE TypeOK'
  BY <1>19, <1>s, SetStateType DEF RecycleBuries, NoRequest, clients, manager
<1>20. ASSUME Restart PROVE TypeOK'
  BY <1>20, <1>s DEF Restart, NoRequest, Fault, Nodes
<1>21. ASSUME Tick PROVE TypeOK'
  <2>1. \A a \in 0 .. HeartbeatTimeout + 1 :
          Older(a, HeartbeatTimeout) \in 0 .. HeartbeatTimeout + 1
    BY OlderType
  <2>2. \A a \in 0 .. NodeMaxAge + 1 : Older(a, NodeMaxAge) \in 0 .. NodeMaxAge + 1
    BY OlderType
  <2>3. since' \in 0 .. HeartbeatTimeout + 1
    BY <1>21, <2>1 DEF Tick
  <2>4. beat' \in [Nodes -> 0 .. HeartbeatTimeout + 1]
    BY <1>21, <2>1 DEF Tick
  <2>5. boot' \in [Nodes -> 0 .. NodeMaxAge + 1]
    BY <1>21, <2>2 DEF Tick
  <2>6. warming' \in [Nodes -> {Out} \cup (0 .. HeartbeatTimeout + 1)]
    BY <1>21, <2>1 DEF Tick
  <2>7. Warming' \subseteq Managed
    BY <1>21 DEF Tick
  <2>8. faults' \in 0 .. MaxFaults
    BY <1>21 DEF Tick, Fault
  <2> QED  BY <1>21, <2>3, <2>4, <2>5, <2>6, <2>7, <2>8 DEF Tick, clients
<1>22. ASSUME UNCHANGED vars PROVE TypeOK'
  BY <1>22 DEF vars, registry, clients, manager
<1>23. ASSUME ManagerStep PROVE TypeOK'
  BY <1>23, <1>8, <1>9, <1>10, <1>11, <1>12, <1>13, <1>14, <1>25 DEF ManagerStep
<1> HIDE DEF TypeOK
<1> QED
  BY <1>1, <1>2, <1>3, <1>4, <1>5, <1>6, <1>7, <1>15, <1>16, <1>17, <1>18, <1>19, <1>20,
     <1>21, <1>22, <1>23, <1>24 DEF Next

\* Every value of PoolManager keeps its type, for any bounds.
THEOREM TypeCorrect == Spec => []TypeOK
<1> QED  BY TypeInit, TypeStep, PTL DEF Spec

-----------------------------------------------------------------------------
(* Dead nodes                                                              *)

\* Only its agent's start, an operator or a worker revives a dead node: one
\* that is at it, that has it in its list, or whose keepalive is not over.
Revived ==
  \A n \in Nodes :
    reg[n] = "dead" /\ reg'[n] # "dead" =>
      \/ use[n] # "free" \/ n \in listed \/ n \in strays
      \/ box[n] \in {"starting", "slow"} /\ box'[n] = "beating"
      \/ box'[n] = "starting"
      \/ faults' > faults

LEMMA HeartbeatKeepsDead ==
  ASSUME TypeOK, NEW m \in Nodes, NEW n \in Nodes, NEW s \in {"ready", "dead"},
         Heartbeat(m, s), reg[n] = "dead"
  PROVE  reg'[n] = "dead"
BY HeardType DEF Heartbeat, Put, TypeOK, NodeState

LEMMA DeadStep == TypeOK /\ [Next]_vars => Revived
<1> SUFFICES ASSUME TypeOK, [Next]_vars, NEW n \in Nodes, reg[n] = "dead", reg'[n] # "dead"
             PROVE  \/ use[n] # "free" \/ n \in listed \/ n \in strays
                    \/ box[n] \in {"starting", "slow"} /\ box'[n] = "beating"
                    \/ box'[n] = "starting"
                    \/ faults' > faults
  BY DEF Revived
<1>1. CASE UNCHANGED reg
  BY <1>1
<1>2. ASSUME Fault PROVE faults' > faults
  BY <1>2 DEF Fault, TypeOK
<1>3. CASE Bury
  <2>1. victim \in Nodes  BY <1>3 DEF Bury, TypeOK, Nodes
  <2> QED  BY <1>3, <2>1, HeartbeatKeepsDead DEF Bury
<1>4. ASSUME NEW m \in Managed, Provision(m) \/ ProvisionFailsLate(m)
      PROVE  m = n /\ box'[n] = "starting"
  BY <1>4 DEF Provision, ProvisionFailsLate, Starts, TypeOK, Nodes
<1>5. ASSUME NEW m \in Nodes, Register(m)
      PROVE  m = n /\ box[n] \in {"starting", "slow"} /\ box'[n] = "beating"
  BY <1>5 DEF Register, Put, TypeOK
<1>6. ASSUME NEW m \in Nodes, AgentBeat(m) PROVE FALSE
  BY <1>6, HeartbeatKeepsDead DEF AgentBeat
<1>7. ASSUME NEW m \in Nodes, Mark(m) \/ Release(m) \/ StrayBeat(m)
      PROVE  use[n] # "free" \/ n \in listed \/ n \in strays
  BY <1>7 DEF Mark, Release, StrayBeat, Heartbeat, Put, TypeOK
<1>8. ASSUME NEW m \in Nodes, Drain(m) \/ Activate(m) \/ Recycle(m) \/ Hang(m) PROVE Fault
  BY <1>8 DEF Drain, Activate, Recycle, Hang
<1>9. CASE RecycleBuries
  BY <1>9 DEF RecycleBuries, SetState, Put, TypeOK
<1>10. CASE Restart
  BY <1>10, <1>2 DEF Restart
<1>11. CASE ManagerStep
  BY <1>1, <1>3, <1>4, <1>11 DEF ManagerStep, Reconcile, ProvisionFails, SetWarming, Reap, ReapLate, registry
<1>12. CASE \E m \in Nodes : Resume(m) \/ List(m) \/ Unlist(m)
  BY <1>1, <1>12 DEF Resume, List, Unlist, registry
<1>13. CASE RecycleDestroys \/ Tick \/ UNCHANGED vars
  BY <1>1, <1>13 DEF RecycleDestroys, Tick, vars, registry
<1> QED
  BY <1>2, <1>5, <1>6, <1>7, <1>8, <1>9, <1>10, <1>11, <1>12, <1>13 DEF Next

\* The heartbeats of a node that was marked dead do not revive it
\* (registry.go:110-112), whatever the manager and the operators do meanwhile.
THEOREM DeadStayDead == Spec => DeadStaysDead
<1>1. TypeOK /\ [Next]_vars => [Revived]_vars
  BY DeadStep
<1> QED  BY <1>1, TypeCorrect, PTL DEF Spec, DeadStaysDead, Revived

-----------------------------------------------------------------------------
(* Nodes that are under way                                                *)

LEMMA ComingFinite == TypeOK => Coming \subseteq Nodes /\ IsFiniteSet(Coming)
BY FS_Subset DEF Coming, Warming, TypeOK, Nodes

LEMMA ComingSame ==
  ASSUME WarmingBounded, Coming' = Coming, needed' = needed
  PROVE  WarmingBounded'
BY DEF WarmingBounded

LEMMA WarmingStep == TypeOK /\ WarmingBounded /\ [Next]_vars => WarmingBounded'
<1> SUFFICES ASSUME TypeOK, WarmingBounded, [Next]_vars PROVE WarmingBounded'
  OBVIOUS
<1>1. CASE UNCHANGED <<warming, minted, needed>>
  BY <1>1, ComingSame DEF Coming, Warming
<1>2. CASE Reconcile
  <2>1. PICK S \in Surplus :
          needed' = Missing(ReadyCount - Cardinality(S), Cardinality(StillWarming))
    BY <1>2 DEF Reconcile
  <2>2. Coming' = StillWarming /\ StillWarming \subseteq Coming
    <3>1. minted = NoNode /\ minted' = NoNode  BY <1>2 DEF Reconcile, Idle
    <3>2. Warming' = StillWarming
      BY <1>2 DEF Reconcile, Warming, StillWarming
    <3> QED  BY <3>1, <3>2 DEF Coming, StillWarming
  <2>3. Cardinality(StillWarming) <= Cardinality(Coming)
        /\ Cardinality(Coming) \in Nat /\ Cardinality(StillWarming) \in Nat
    BY <2>2, ComingFinite, FS_Subset, FS_CardinalityType
  <2>4. Cardinality(Coming) <= TargetReady
    BY <1>2, <2>3 DEF WarmingBounded, Reconcile, Idle
  <2> QED  BY <2>1, <2>2, <2>3, <2>4, NeededType DEF WarmingBounded
<1>3. ASSUME NEW n \in Managed, Provision(n) PROVE WarmingBounded'
  <2>1. n \notin Warming /\ minted = NoNode /\ n # NoNode /\ n \in Nodes
    BY <1>3 DEF Provision, Provisioning, Starts, Fresh, Warming, Nodes
  <2>2. Coming' = Coming \cup {n} /\ n \notin Coming
    BY <1>3, <2>1 DEF Coming, Warming, Provision, Provisioning
  <2>3. Cardinality(Coming') = Cardinality(Coming) + 1
    BY <2>2, ComingFinite, FS_AddElement
  <2>4. needed' = needed - 1  BY <1>3 DEF Provision, Provisioning
  <2>5. Cardinality(Coming) \in Nat /\ needed \in Nat
    BY ComingFinite, FS_CardinalityType DEF TypeOK
  <2> QED  BY <2>3, <2>4, <2>5 DEF WarmingBounded
<1>4. CASE ProvisionFails \/ \E n \in Managed : ProvisionFailsLate(n)
  <2>1. Coming' = Coming /\ needed' = needed - 1
    BY <1>4 DEF ProvisionFails, ProvisionFailsLate, Provisioning, Coming, Warming
  <2>2. Cardinality(Coming) \in Nat /\ needed \in Nat
    BY ComingFinite, FS_CardinalityType DEF TypeOK
  <2> QED  BY <2>1, <2>2 DEF WarmingBounded
<1>5. CASE SetWarming
  <2>1. minted \in Nodes /\ minted # NoNode /\ since # Out
    BY <1>5 DEF SetWarming, TypeOK, Nodes, Out
  <2>2. Warming' = Warming \cup {minted} /\ minted' = NoNode
    BY <1>5, <2>1 DEF SetWarming, Warming, TypeOK
  <2>3. Coming' = Coming
    BY <2>1, <2>2 DEF Coming
  <2> QED  BY <1>5, <2>3, ComingSame DEF SetWarming
<1>6. CASE Restart
  <2>1. Coming' = {} /\ needed' = 0
    BY <1>6 DEF Restart, Coming, Warming
  <2> QED  BY <2>1, FS_EmptySet DEF WarmingBounded
<1>7. CASE Tick
  <2>1. \A n \in Nodes : warming[n] # Out => Older(warming[n], HeartbeatTimeout) # Out
    BY OlderType DEF TypeOK, Out
  <2>2. Warming' = Warming
    BY <1>7, <2>1 DEF Tick, Warming
  <2> QED  BY <1>7, <2>2, ComingSame DEF Tick, Coming
<1>8. CASE \E n \in Managed : Reap(n) \/ ReapLate(n)
  BY <1>1, <1>8 DEF Reap, ReapLate
<1>9. CASE \E n \in Nodes :
             \/ Register(n) \/ AgentBeat(n) \/ Hang(n) \/ Resume(n)
             \/ List(n) \/ Unlist(n) \/ Mark(n) \/ Release(n) \/ StrayBeat(n)
             \/ Drain(n) \/ Activate(n) \/ Recycle(n)
  BY <1>1, <1>9 DEF Register, AgentBeat, Hang, Resume, List, Unlist, Mark, Release, StrayBeat,
     Drain, Activate, Recycle, manager
<1>10. CASE Bury \/ RecycleDestroys \/ RecycleBuries \/ UNCHANGED vars
  BY <1>1, <1>10 DEF Bury, RecycleDestroys, RecycleBuries, vars, manager
<1> QED
  BY <1>2, <1>3, <1>4, <1>5, <1>6, <1>7, <1>8, <1>9, <1>10 DEF Next, ManagerStep

\* Never more nodes under way than wanted, for any target and number of nodes.
THEOREM WarmingIsBounded == Spec => []WarmingBounded
<1>1. Init => WarmingBounded
  <2> SUFFICES ASSUME Init PROVE WarmingBounded
    OBVIOUS
  <2>1. Coming = {} /\ needed = 0  BY DEF Init, Coming, Warming
  <2> QED  BY <2>1, FS_EmptySet DEF WarmingBounded
<1> QED  BY <1>1, WarmingStep, TypeCorrect, PTL DEF Spec

-----------------------------------------------------------------------------
(* Containers                                                              *)

LEMMA ForgottenStep == TypeOK /\ NoContainerForgotten /\ [Next]_vars => NoContainerForgotten'
<1> SUFFICES ASSUME TypeOK, NoContainerForgotten, [Next]_vars,
                    NEW n \in Managed, Up(n)'
             PROVE  (\/ reg[n] # "absent" \/ n \in Warming
                     \/ n \in late \/ n = minted \/ n \in lost)'
  BY DEF NoContainerForgotten
<1>n. n \in Nodes /\ n # NoNode
  BY DEF Nodes
<1> DEFINE Seen == \/ reg[n] # "absent" \/ n \in Warming
                   \/ n \in late \/ n = minted \/ n \in lost
<1>s. Up(n) => Seen
  BY DEF NoContainerForgotten
<1>w. n \in Warming <=> warming[n] # Out
  BY <1>n DEF Warming
<1>x. (n \in Warming)' <=> warming'[n] # Out
  BY <1>n DEF Warming
<1> HIDE DEF Seen
<1>1. /\ Up(n)
      /\ UNCHANGED <<warming, late, minted, lost>>
      /\ reg[n] # "absent" => reg'[n] # "absent"
      => Seen'
  BY <1>s, <1>w, <1>x DEF Seen
<1>2. ASSUME NEW m \in Nodes, Register(m) PROVE Seen'
  <2>1. Up(n)
    BY <1>2, <1>n DEF Register, Up, TypeOK
  <2>2. reg[n] # "absent" => reg'[n] # "absent"
    BY <1>2, <1>n DEF Register, Put, TypeOK
  <2> QED  BY <1>1, <1>2, <2>1, <2>2 DEF Register, manager
<1>3. ASSUME NEW m \in Nodes, AgentBeat(m) \/ Mark(m) \/ Release(m) \/ StrayBeat(m) PROVE Seen'
  <2>1. PICK s \in {"ready", "leased"} : Heartbeat(m, s)
    BY <1>3 DEF AgentBeat, Mark, Release, StrayBeat
  <2>2. reg[n] # "absent" => reg'[n] # "absent"
    BY <2>1, <1>n DEF Heartbeat, Put, Heard, TypeOK
  <2> QED  BY <1>1, <1>3, <2>2 DEF AgentBeat, Mark, Release, StrayBeat, manager, Up
<1>4. ASSUME NEW m \in Nodes, Drain(m) \/ Activate(m) \/ Recycle(m) PROVE Seen'
  <2>1. reg[n] # "absent" => reg'[n] # "absent"
    BY <1>4, <1>n DEF Drain, Activate, Recycle, SetState, Put, TypeOK
  <2> QED  BY <1>1, <1>4, <2>1 DEF Drain, Activate, Recycle, manager, Up
<1>5. ASSUME \E m \in Nodes : Hang(m) \/ Resume(m) \/ List(m) \/ Unlist(m) PROVE Seen'
  BY <1>1, <1>5, <1>n DEF Hang, Resume, List, Unlist, registry, manager, Up, TypeOK
<1>6. ASSUME Reconcile PROVE Seen'
  <2>1. Up(n) /\ late = {} /\ minted = NoNode
    BY <1>6 DEF Reconcile, Up, Idle
  <2>2. CASE reg[n] # "absent" \/ n \in lost
    BY <1>6, <2>2 DEF Reconcile, registry, Seen
  <2>3. CASE reg[n] = "absent" /\ n \in Warming
    <3>1. n \in StillWarming \/ n \in TimedOut
      BY <2>3, <1>n DEF StillWarming, TimedOut, Known
    <3>2. n \in TimedOut => n \in late'
      BY <1>6 DEF Reconcile
    <3>3. n \in StillWarming => warming'[n] # Out
      BY <1>6, <1>n, <1>w, <2>3 DEF Reconcile
    <3> QED  BY <3>1, <3>2, <3>3, <1>x DEF Seen
  <2> QED  BY <1>n, <1>s, <2>1, <2>2, <2>3 DEF Seen
<1>7. ASSUME NEW m \in Managed, Reap(m) PROVE Seen'
  <2>1. Up(n)
    BY <1>7 DEF Reap, Removed, Up, TypeOK, Nodes
  <2> QED  BY <1>1, <1>7, <2>1 DEF Reap, registry
<1>8. ASSUME Bury PROVE Seen'
  <2>1. reg[n] # "absent" => reg'[n] # "absent"
    BY <1>8, <1>n DEF Bury, Heartbeat, Put, Heard, TypeOK
  <2> QED  BY <1>1, <1>8, <2>1 DEF Bury, Up
<1>9. ASSUME NEW m \in Managed, ReapLate(m) PROVE Seen'
  <2>1. Up(n) /\ (m = n => n \in lost')
    BY <1>9 DEF ReapLate, Removed, Up, TypeOK, Nodes
  <2>2. late \ {m} = late' /\ lost \subseteq lost' /\ UNCHANGED <<reg, warming, minted>>
    BY <1>9 DEF ReapLate, registry
  <2> QED  BY <2>1, <2>2, <1>s, <1>w, <1>x DEF Seen
<1>10. ASSUME NEW m \in Managed, Provision(m) \/ ProvisionFailsLate(m) PROVE Seen'
  <2>1. CASE m = n
    BY <1>10, <2>1 DEF Provision, ProvisionFailsLate, Seen
  <2>2. CASE m # n
    <3>1. Up(n) /\ UNCHANGED <<warming, late>> /\ reg'[n] = reg[n]
      BY <1>10, <2>2, <1>n DEF Provision, ProvisionFailsLate, Provisioning, Starts, Up, TypeOK
    <3>2. minted # n /\ lost \ {m} \subseteq lost'
      BY <1>10, <1>n DEF Provision, ProvisionFailsLate, Provisioning
    <3> QED  BY <2>2, <3>1, <3>2, <1>s, <1>w, <1>x DEF Seen
  <2> QED  BY <2>1, <2>2
<1>11. ASSUME ProvisionFails PROVE Seen'
  BY <1>1, <1>11 DEF ProvisionFails, Provisioning, registry, Up
<1>12. ASSUME SetWarming PROVE Seen'
  <2>1. Up(n) /\ UNCHANGED <<reg, late, lost>>
    BY <1>12 DEF SetWarming, Up, registry
  <2>2. n = minted => warming'[n] # Out
    BY <1>12, <1>n DEF SetWarming, TypeOK, Out
  <2>3. n # minted => warming'[n] = warming[n]
    BY <1>12, <1>n DEF SetWarming, TypeOK
  <2> QED  BY <2>1, <2>2, <2>3, <1>s, <1>w, <1>x DEF Seen
<1>13. ASSUME RecycleDestroys PROVE Seen'
  BY <1>1, <1>13, <1>n DEF RecycleDestroys, Removed, registry, manager, Up, TypeOK
<1>14. ASSUME RecycleBuries PROVE Seen'
  <2>1. reg[n] # "absent" => reg'[n] # "absent"
    BY <1>14, <1>n DEF RecycleBuries, SetState, Put, TypeOK
  <2> QED  BY <1>1, <1>14, <2>1 DEF RecycleBuries, manager, Up
<1>15. ASSUME Restart PROVE Seen'
  BY <1>15 DEF Restart, Up, Seen
<1>16. ASSUME Tick PROVE Seen'
  <2>1. warming[n] # Out => warming'[n] # Out
    BY <1>16, <1>n, OlderType DEF Tick, TypeOK, Out
  <2> QED  BY <1>16, <2>1, <1>s, <1>w, <1>x DEF Tick, Up, Seen
<1>17. ASSUME UNCHANGED vars PROVE Seen'
  BY <1>1, <1>17 DEF vars, registry, manager, Up
<1>18. Seen'
  <2>1. ManagerStep => Seen'
    BY <1>6, <1>7, <1>8, <1>9, <1>10, <1>11, <1>12 DEF ManagerStep
  <2> QED
    BY <2>1, <1>2, <1>3, <1>4, <1>5, <1>13, <1>14, <1>15, <1>16, <1>17 DEF Next
<1> QED  BY <1>18 DEF Seen

\* No container that is up is forgotten, but for the three cases that `lost`
\* records.
THEOREM NoneForgotten == Spec => []NoContainerForgotten
<1>1. Init => NoContainerForgotten
  BY DEF Init, NoContainerForgotten, Up, Nodes
<1> QED  BY <1>1, ForgottenStep, TypeCorrect, PTL DEF Spec
=============================================================================
