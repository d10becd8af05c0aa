-------------------------- MODULE NodeControllers --------------------------
(***************************************************************************)
(* The two controllers of pkg/controller for the Node of one name: the     *)
(* nodeController, which deletes the Node of a VM that is gone, and the    *)
(* providerIDController, which gives a Node its providerID.  Each has one  *)
(* worker; both read the Node from the manager's lagging cache and the VM  *)
(* by name from the engine.  The VM comes and goes as MachineLifecycle     *)
(* says.                                                                   *)
(*                                                                         *)
(* A reconcile starts whenever the worker is idle (watch, requeues, the    *)
(* ten-minute resync); one that finds nothing to do is not a step.  A VM   *)
(* that is down makes the nodeController look again a minute later, which  *)
(* is no step either.                                                      *)
(***************************************************************************)
EXTENDS MachineLifecycle, Integers

CONSTANTS
  MaxNodes,    \* bound: Nodes ever registered under this name
  MaxFaults    \* bound: calls that fail

ASSUME NodeAssumption ==
  MaxVMs \in Nat /\ MaxMishaps \in Nat /\ MaxNodes \in Nat /\ MaxFaults \in Nat

VARIABLES
  bare,        \* the name is that of a host that is not an oVirt VM
  node,        \* the Node as the API server stores it
  cache,       \* the Node as the manager's informer last saw it
  registered,  \* Nodes registered so far; the uid of the last one
  pc, copy,    \* where each worker is, and the Node it has read
  found,       \* the VM id fetchOvirtVmID returned
  faults       \* failed calls so far

nodeVars == <<bare, node, cache, registered, pc, copy, found, faults>>
vars == <<lifecycleVars, nodeVars>>

Controllers == {"node", "providerID"}

\* pid: the providerID; 0 is none, a VM id stands for ovirt://<id>.
Foreign == -1   \* a providerID without the ovirt prefix
Nodes   == [uid : Nat, pid : Nat \cup {Foreign}]
NoNode  == [uid |-> 0, pid |-> 0]

TypeOK ==
  /\ life \in {"alive", "deleting", "gone"} /\ held \in BOOLEAN
  /\ vmid \in Nat /\ made \in Nat /\ mishaps \in Nat
  /\ bare \in BOOLEAN
  /\ node \in Nodes /\ cache \in Nodes
  /\ registered \in Nat
  /\ pc \in [Controllers -> {"idle", "find", "write"}]
  /\ copy \in [Controllers -> Nodes]
  /\ found \in Nat /\ faults \in Nat

Init ==
  /\ LifecycleInit
  /\ bare \in BOOLEAN
  /\ node = NoNode /\ cache = NoNode /\ registered = 0
  /\ pc = [c \in Controllers |-> "idle"]
  /\ copy = [c \in Controllers |-> NoNode]
  /\ found = 0 /\ faults = 0

-----------------------------------------------------------------------------
Fault   == faults < MaxFaults /\ faults' = faults + 1
NoFault == faults' = faults

\* The worker of c goes on, or ends its reconcile.
Goto(c, l) == pc' = [pc EXCEPT ![c] = l] /\ copy' = copy
Finish(c)  == /\ pc' = [pc EXCEPT ![c] = "idle"]
              /\ copy' = [copy EXCEPT ![c] = NoNode]

\* The cached Get; a Node that needs no attention ends the reconcile.
Start(c, needed) ==
  /\ pc[c] = "idle"
  /\ cache.uid # 0 /\ needed
  /\ pc' = [pc EXCEPT ![c] = "find"]
  /\ copy' = [copy EXCEPT ![c] = cache]
  /\ UNCHANGED <<lifecycleVars, bare, node, cache, registered, found, faults>>

stored == <<lifecycleVars, bare, node, cache, registered>>

-----------------------------------------------------------------------------
(* nodeController.Reconcile                                                 *)

\* Mutant: every Node is looked at.
NodeStartsAny == Start("node", TRUE)

NodeStarts == Start("node", cache.pid > 0)

\* GetoVirtClient and GetVMByName: missing is what a VM that is not found leads
\* to, failed what another error leads to.
NodeFind(missing, failed) ==
  /\ pc["node"] = "find"
  /\ \/ NoFault /\ vmid # 0 /\ Finish("node")
     \/ NoFault /\ vmid = 0 /\ missing
     \/ Fault /\ failed
  /\ UNCHANGED <<stored, found>>

\* Mutants: any error is taken for a missing VM; none is.
NodeFindsAnyError == NodeFind(Goto("node", "write"), Goto("node", "write"))
NodeFindsNoError  == NodeFind(Finish("node"), Finish("node"))

NodeFinds == NodeFind(Goto("node", "write"), Finish("node"))

\* client.Delete, by name: whatever Node has that name by now.
NodeDeletes ==
  /\ pc["node"] = "write"
  /\ \/ NoFault /\ node' = NoNode
     \/ Fault /\ node' \in {node, NoNode}
  /\ Finish("node")
  /\ UNCHANGED <<lifecycleVars, bare, cache, registered, found>>

-----------------------------------------------------------------------------
(* providerIDController.Reconcile                                           *)

\* Mutant: a Node that already has a providerID is looked at again.
ProviderIDStartsAny == Start("providerID", TRUE)

ProviderIDStarts == Start("providerID", cache.pid = 0)

\* fetchOvirtVmID.
ProviderIDFinds ==
  /\ pc["providerID"] = "find"
  /\ \/ NoFault /\ vmid # 0 /\ found' = vmid /\ Goto("providerID", "write")
     \/ NoFault /\ vmid = 0 /\ UNCHANGED found /\ Finish("providerID")
     \/ Fault /\ UNCHANGED found /\ Finish("providerID")
  /\ UNCHANGED stored

\* client.Update of the copy with providerID id, where it is accepted.
ProviderIDUpdate(accepted, id) ==
  /\ pc["providerID"] = "write"
  /\ LET new == IF accepted THEN [node EXCEPT !.pid = id] ELSE node
     IN \/ NoFault /\ node' = new
        \/ Fault /\ node' \in {node, new}
  /\ found' = 0
  /\ Finish("providerID")
  /\ UNCHANGED <<lifecycleVars, bare, cache, registered>>

\* Mutants: a patch instead of an Update; the id is not put into the Node.
ProviderIDPatched  == ProviderIDUpdate(node.uid # 0, found)
ProviderIDDropped  == ProviderIDUpdate(node = copy["providerID"], 0)

\* The Update fails if the Node has changed since it was read.
ProviderIDUpdated == ProviderIDUpdate(node = copy["providerID"], found)

-----------------------------------------------------------------------------
(* The environment (external).                                              *)

\* The kubelet registers its Node, without a providerID if it runs in a VM of
\* the provider; it takes over a Node that is already there.
KubeletRegisters ==
  /\ node.uid = 0 /\ registered < MaxNodes
  /\ bare \/ vmid # 0
  /\ registered' = registered + 1
  /\ \E id \in {0, IF bare THEN Foreign ELSE 0} :
       node' = [uid |-> registered + 1, pid |-> id]
  /\ UNCHANGED <<lifecycleVars, bare, cache, pc, copy, found, faults>>

\* The machine controller deletes the Node of a deleted Machine once the VM is
\* gone.
MachineDeletesNode ==
  /\ ~bare /\ node.uid # 0
  /\ life = "deleting" /\ vmid = 0
  /\ node' = NoNode
  /\ UNCHANGED <<lifecycleVars, bare, cache, registered, pc, copy, found, faults>>

CacheSync ==
  /\ cache # node
  /\ cache' = node
  /\ UNCHANGED <<lifecycleVars, bare, node, registered, pc, copy, found, faults>>

\* After the Machine is gone its name may be used again.
NameReused ==
  /\ life = "gone" /\ made < MaxVMs
  /\ life' = "alive"
  /\ UNCHANGED <<held, vmid, made, mishaps>>

MachineStep == ~bare /\ (LifecycleNext \/ NameReused) /\ UNCHANGED nodeVars

NodeWorker       == NodeStarts \/ NodeFinds \/ NodeDeletes
ProviderIDWorker == ProviderIDStarts \/ ProviderIDFinds \/ ProviderIDUpdated

Next ==
  \/ NodeWorker \/ ProviderIDWorker
  \/ KubeletRegisters \/ MachineDeletesNode \/ CacheSync \/ MachineStep

Spec == Init /\ [][Next]_vars

\* The workers run, are woken by the resync of main.go at the latest, and the
\* informer delivers.
Fairness == WF_vars(NodeWorker) /\ WF_vars(ProviderIDWorker) /\ WF_vars(CacheSync)

FairSpec == Spec /\ Fairness

-----------------------------------------------------------------------------
(* Properties.                                                              *)

\* What makes the two controllers safe on old copies (an inductive invariant):
\* every copy of a Node agrees with the stored one on a providerID once it is
\* set, a worker acts on a Node it has something to do with, and the VM the
\* nodeController missed does not come back.
Copies == {cache, copy["node"], copy["providerID"]}

NodeInv ==
  /\ vmid <= made /\ found <= made
  /\ \A x \in Copies \cup {node} :
       /\ x.uid <= registered /\ x.pid <= made
       /\ x.uid = 0 => x.pid = 0
       /\ bare => x.pid \in {0, Foreign}
  /\ \A x \in Copies : x.uid = node.uid /\ x.pid # 0 => node.pid = x.pid
  /\ pc["node"] # "idle" => copy["node"].pid > 0
  /\ pc["node"] = "write" => vmid # copy["node"].pid
  /\ pc["providerID"] # "idle" =>
       copy["providerID"].uid # 0 /\ copy["providerID"].pid = 0
  /\ pc["providerID"] = "write" => found > 0 /\ ~bare
  /\ bare => vmid = 0

\* A Node keeps the providerID it was given, although the cache may still show
\* it without one when another VM already carries the name
\* (providerIDController.Reconcile).
ProviderIDOnce ==
  [][node.uid # 0 /\ node'.uid = node.uid /\ node.pid # 0
       => node'.pid = node.pid]_vars

\* The Node that the nodeController has read is deleted only when the VM its
\* providerID names is gone for good, however old the copy and the answer of the
\* engine are by then.  A Node that has taken the place of the one read is not
\* covered: the Delete goes by name.
DeletesDeadOnly ==
  [][pc["node"] = "write" /\ pc'["node"] = "idle" /\ node.uid = copy["node"].uid
       => node.pid \notin {0, vmid}]_vars

\* Both controllers leave a Node alone that is not one of oVirt's.
BareNodeKept == [][bare /\ node.uid # 0 => node' = node]_vars

\* If the VM is gone for good so is, in the end, every Node that has a
\* providerID, after failed calls and over a lagging cache
\* (nodeController.Reconcile).
OrphanNodeGoes ==
  <>[](~bare /\ vmid = 0) => <>[](node.pid = 0)

\* A Node that stays, of a VM that stays, is given that VM's providerID, unless
\* it already has another one (providerIDController.Reconcile).
ProviderIDArrives ==
  <>[](~bare /\ vmid # 0 /\ node.uid # 0) => <>[](node.pid # 0)
=============================================================================
