------------------------ MODULE NodeControllers_proofs ------------------------
(***************************************************************************)
(* The node controllers are safe on old copies of a Node and old answers   *)
(* of the engine: NodeInv is inductive, and the action properties follow.  *)
(***************************************************************************)
EXTENDS NodeControllers, TLAPS

\* No Node is a Node value without uid and providerID.
LEMMA NoNodeTyped == NoNode \in Nodes /\ NoNode.uid = 0 /\ NoNode.pid = 0
BY DEF NoNode, Nodes

\* What a write of the providerID makes of a Node.
LEMMA WithIDTyped ==
  ASSUME NEW x \in Nodes, NEW id \in Nat
  PROVE  /\ [x EXCEPT !.pid = id] \in Nodes
         /\ [x EXCEPT !.pid = id].uid = x.uid
         /\ [x EXCEPT !.pid = id].pid = id
BY DEF Nodes

\* The Machine and its VM move as MachineLifecycle says, with typed values.
LEMMA LifecycleTyped ==
  ASSUME TypeOK, LifecycleNext \/ NameReused
  PROVE  /\ life' \in {"alive", "deleting", "gone"} /\ held' \in BOOLEAN
         /\ vmid' \in Nat /\ made' \in Nat /\ mishaps' \in Nat
<1> USE DEF TypeOK
<1>1. CASE Hold
  BY <1>1 DEF Hold
<1>2. CASE Delete
  BY <1>2 DEF Delete
<1>3. CASE Provision
  BY <1>3 DEF Provision
<1>4. CASE Deprovision
  BY <1>4 DEF Deprovision
<1>5. CASE Release
  BY <1>5 DEF Release
<1>6. CASE Mishap
  BY <1>6 DEF Mishap
<1>7. CASE NameReused
  BY <1>7 DEF NameReused
<1> QED BY <1>1, <1>2, <1>3, <1>4, <1>5, <1>6, <1>7 DEF LifecycleNext

\* The Node, its copies, the VM and the two workers keep their types.
THEOREM NodeTypeCorrect == Spec => []TypeOK
<1>1. Init => TypeOK
  <2> SUFFICES ASSUME Init PROVE TypeOK
    OBVIOUS
  <2>1. life = "alive" /\ held \in BOOLEAN /\ bare \in BOOLEAN
    BY DEF Init, LifecycleInit
  <2>2. vmid \in Nat /\ made \in Nat /\ mishaps \in Nat
    BY DEF Init, LifecycleInit
  <2>3. node \in Nodes /\ cache \in Nodes /\ registered \in Nat
    BY NoNodeTyped DEF Init
  <2>4. found \in Nat /\ faults \in Nat
    BY DEF Init
  <2>5. /\ pc \in [Controllers -> {"idle", "find", "write"}]
        /\ copy \in [Controllers -> Nodes]
    BY NoNodeTyped DEF Init
  <2> QED BY <2>1, <2>2, <2>3, <2>4, <2>5 DEF TypeOK
<1>2. TypeOK /\ [Next]_vars => TypeOK'
  <2> SUFFICES ASSUME TypeOK, [Next]_vars PROVE TypeOK'
    OBVIOUS
  <2>1. CASE UNCHANGED vars
    BY <2>1 DEF vars, lifecycleVars, nodeVars, TypeOK
  <2>2. CASE NodeWorker
    BY <2>2, NoNodeTyped, NodeAssumption
    DEF NodeWorker, NodeStarts, NodeFinds, NodeFind, NodeDeletes, Start, Goto, Finish, stored,
        Fault, NoFault, lifecycleVars, TypeOK, Controllers
  <2>3. CASE ProviderIDStarts \/ ProviderIDFinds
    BY <2>3, NoNodeTyped, NodeAssumption
    DEF ProviderIDStarts, ProviderIDFinds, Start, Goto, Finish, stored,
        Fault, NoFault, lifecycleVars, TypeOK, Controllers
  <2>4. CASE ProviderIDUpdated
    <3>1. [node EXCEPT !.pid = found] \in Nodes
      BY WithIDTyped DEF TypeOK
    <3>2. node' \in Nodes /\ faults' \in Nat /\ found' \in Nat
      BY <2>4, <3>1 DEF ProviderIDUpdated, ProviderIDUpdate, Fault, NoFault, TypeOK
    <3> QED
      BY <2>4, <3>2, NoNodeTyped
      DEF ProviderIDUpdated, ProviderIDUpdate, Finish, lifecycleVars, TypeOK, Controllers
  <2>5. CASE KubeletRegisters \/ MachineDeletesNode \/ CacheSync
    BY <2>5, NoNodeTyped
    DEF KubeletRegisters, MachineDeletesNode, CacheSync, lifecycleVars, TypeOK, Nodes, Foreign
  <2>6. CASE MachineStep
    BY <2>6, LifecycleTyped DEF MachineStep, nodeVars, TypeOK
  <2> QED BY <2>1, <2>2, <2>3, <2>4, <2>5, <2>6 DEF Next, ProviderIDWorker
<1> QED BY <1>1, <1>2, PTL DEF Spec

-----------------------------------------------------------------------------
\* The Nodes and their copies as NodeInv speaks of them.
LEMMA CopiesTyped ==
  ASSUME TypeOK
  PROVE  \A x \in Copies \cup {node} : x \in Nodes /\ x.uid \in Nat /\ x.pid \in Int
BY DEF TypeOK, Copies, Controllers, Nodes, Foreign

\* A worker that starts takes the cached Node; one that ends keeps none.
LEMMA InvNodeWorker ==
  ASSUME TypeOK, NodeInv, NodeWorker
  PROVE  NodeInv'
<1> USE NoNodeTyped, CopiesTyped DEF TypeOK, Controllers, Copies
<1>1. CASE NodeStarts
  BY <1>1 DEF NodeStarts, Start, lifecycleVars, NodeInv
<1>2. CASE NodeFinds
  BY <1>2 DEF NodeFinds, NodeFind, Goto, Finish, stored, lifecycleVars, NodeInv
<1>3. CASE NodeDeletes
  BY <1>3 DEF NodeDeletes, Finish, lifecycleVars, NodeInv
<1> QED BY <1>1, <1>2, <1>3 DEF NodeWorker

\* The Update of the providerIDController meets the Node that it has read.
LEMMA InvProviderIDWorker ==
  ASSUME TypeOK, NodeInv, ProviderIDWorker
  PROVE  NodeInv'
<1> USE NoNodeTyped, CopiesTyped DEF TypeOK, Controllers, Copies
<1>1. CASE ProviderIDStarts
  BY <1>1 DEF ProviderIDStarts, Start, lifecycleVars, NodeInv
<1>2. CASE ProviderIDFinds
  BY <1>2 DEF ProviderIDFinds, Goto, Finish, stored, lifecycleVars, NodeInv
<1>3. CASE ProviderIDUpdated
  <2>1. \/ node' = node
        \/ node = copy["providerID"] /\ node' = [node EXCEPT !.pid = found]
    BY <1>3 DEF ProviderIDUpdated, ProviderIDUpdate
  <2>2. /\ pc["providerID"] = "write" /\ found' = 0 /\ Finish("providerID")
        /\ UNCHANGED <<life, held, vmid, made, mishaps, bare, cache, registered>>
    BY <1>3 DEF ProviderIDUpdated, ProviderIDUpdate, lifecycleVars
  <2>3. \/ node' = node
        \/ node = copy["providerID"] /\ node'.uid = node.uid /\ node'.pid = found
    <3>1. node \in Nodes /\ found \in Nat
      OBVIOUS
    <3>2. /\ [node EXCEPT !.pid = found].uid = node.uid
          /\ [node EXCEPT !.pid = found].pid = found
      BY <3>1, WithIDTyped
    <3> QED BY <2>1, <3>2
  <2> QED
    BY <2>2, <2>3 DEF Finish, NodeInv
<1> QED BY <1>1, <1>2, <1>3 DEF ProviderIDWorker

\* A Node has a uid of its own, and a VM an id of its own.
LEMMA InvEnvironment ==
  ASSUME TypeOK, NodeInv,
         KubeletRegisters \/ MachineDeletesNode \/ CacheSync \/ MachineStep
  PROVE  NodeInv'
<1> USE NoNodeTyped, CopiesTyped DEF TypeOK, Controllers, Copies
<1>1. CASE KubeletRegisters
  <2>1. PICK id \in {0, IF bare THEN Foreign ELSE 0} :
          node' = [uid |-> registered + 1, pid |-> id]
    BY <1>1 DEF KubeletRegisters
  <2>2. /\ node'.uid = registered + 1 /\ node'.pid \in {0, Foreign}
        /\ ~bare => node'.pid = 0
    BY <2>1
  <2> QED
    BY <1>1, <2>2 DEF KubeletRegisters, lifecycleVars, NodeInv, Foreign
<1>2. CASE MachineDeletesNode
  BY <1>2 DEF MachineDeletesNode, lifecycleVars, NodeInv
<1>3. CASE CacheSync
  BY <1>3 DEF CacheSync, lifecycleVars, NodeInv
<1>4. CASE MachineStep
  <2>1. /\ \/ vmid' = vmid /\ made' = made
           \/ vmid' = 0 /\ made' = made
           \/ vmid' = made + 1 /\ made' = made + 1
        /\ ~bare /\ UNCHANGED nodeVars
    BY <1>4
    DEF MachineStep, LifecycleNext, NameReused, Hold, Delete, Provision, Deprovision,
        Release, Mishap
  <2> QED
    BY <2>1 DEF nodeVars, NodeInv
<1> QED BY <1>1, <1>2, <1>3, <1>4

\* Whatever the cache and the workers hold of a Node agrees with the Node, and
\* a VM that the nodeController missed does not come back, over failed calls,
\* stale reads, Nodes registered again and names used again.
THEOREM NodeInvariant == Spec => []NodeInv
<1>1. Init => NodeInv
  BY NoNodeTyped DEF Init, LifecycleInit, NodeInv, Copies, Controllers
<1>2. TypeOK /\ NodeInv /\ [Next]_vars => NodeInv'
  <2> SUFFICES ASSUME TypeOK, NodeInv, [Next]_vars PROVE NodeInv'
    OBVIOUS
  <2>1. CASE UNCHANGED vars
    BY <2>1 DEF vars, lifecycleVars, nodeVars, NodeInv, Copies
  <2> QED
    BY <2>1, InvNodeWorker, InvProviderIDWorker, InvEnvironment DEF Next
<1> QED BY <1>1, <1>2, NodeTypeCorrect, PTL DEF Spec

-----------------------------------------------------------------------------
\* The Update of the providerIDController never replaces a providerID.
THEOREM ProviderIDKept == Spec => ProviderIDOnce
<1>1. TypeOK /\ NodeInv /\ [Next]_vars =>
        [node.uid # 0 /\ node'.uid = node.uid /\ node.pid # 0
           => node'.pid = node.pid]_vars
  <2> SUFFICES ASSUME TypeOK, NodeInv, Next,
                      node.uid # 0, node'.uid = node.uid, node.pid # 0
               PROVE  node'.pid = node.pid
    OBVIOUS
  <2> USE NoNodeTyped
  <2>1. CASE NodeWorker
    BY <2>1 DEF NodeWorker, NodeStarts, NodeFinds, NodeFind, NodeDeletes, Start, stored
  <2>2. CASE ProviderIDStarts \/ ProviderIDFinds
    BY <2>2 DEF ProviderIDStarts, ProviderIDFinds, Start, stored
  <2>3. CASE ProviderIDUpdated
    BY <2>3 DEF ProviderIDUpdated, ProviderIDUpdate, NodeInv
  <2>4. CASE KubeletRegisters \/ MachineDeletesNode \/ CacheSync \/ MachineStep
    BY <2>4 DEF KubeletRegisters, MachineDeletesNode, CacheSync, MachineStep, nodeVars
  <2> QED BY <2>1, <2>2, <2>3, <2>4 DEF Next, ProviderIDWorker
<1> QED BY <1>1, NodeTypeCorrect, NodeInvariant, PTL DEF Spec, ProviderIDOnce

\* The nodeController deletes the Node it has read only if the VM that the
\* providerID names is gone for good.
THEOREM DeletedWasDead == Spec => DeletesDeadOnly
<1>1. TypeOK /\ NodeInv /\ [Next]_vars =>
        [pc["node"] = "write" /\ pc'["node"] = "idle" /\ node.uid = copy["node"].uid
           => node.pid \notin {0, vmid}]_vars
  <2> SUFFICES ASSUME TypeOK, NodeInv, pc["node"] = "write", node.uid = copy["node"].uid
               PROVE  node.pid \notin {0, vmid}
    OBVIOUS
  <2>1. copy["node"].pid > 0 /\ copy["node"].pid # vmid
    BY DEF NodeInv
  <2>2. copy["node"].pid # 0
    BY <2>1
  <2>3. node.pid = copy["node"].pid
    BY <2>2 DEF NodeInv, Copies
  <2> QED BY <2>1, <2>2, <2>3
<1> QED BY <1>1, NodeTypeCorrect, NodeInvariant, PTL DEF Spec, DeletesDeadOnly

\* Neither controller touches the Node of a host that is not an oVirt VM.
THEOREM BareNodeUntouched == Spec => BareNodeKept
<1>1. TypeOK /\ NodeInv /\ [Next]_vars => [bare /\ node.uid # 0 => node' = node]_vars
  <2> SUFFICES ASSUME TypeOK, NodeInv, Next, bare, node.uid # 0
               PROVE  node' = node
    OBVIOUS
  <2>1. CASE NodeWorker
    <3>1. pc["node"] = "idle"
      BY CopiesTyped DEF NodeInv, Copies, Foreign
    <3> QED
      BY <2>1, <3>1 DEF NodeWorker, NodeStarts, NodeFinds, NodeFind, NodeDeletes, Start, stored
  <2>2. CASE ProviderIDWorker
    BY <2>2 DEF ProviderIDWorker, ProviderIDStarts, ProviderIDFinds, ProviderIDUpdated,
                ProviderIDUpdate, Start, stored, NodeInv
  <2>3. CASE KubeletRegisters \/ MachineDeletesNode \/ CacheSync \/ MachineStep
    BY <2>3 DEF KubeletRegisters, MachineDeletesNode, CacheSync, MachineStep, nodeVars
  <2> QED BY <2>1, <2>2, <2>3 DEF Next
<1> QED BY <1>1, NodeTypeCorrect, NodeInvariant, PTL DEF Spec, BareNodeKept
=============================================================================
