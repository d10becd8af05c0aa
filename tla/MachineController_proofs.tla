---------------------- MODULE MachineController_proofs ----------------------
(***************************************************************************)
(* Proofs about MachineController: types, and that no VM is left behind,   *)
(* for every set of provider specs and every bound on VMs, disturbances    *)
(* and faults, with stale reads or without.                                *)
(*                                                                         *)
(* First the operators of KubeMachine and OvirtEngine, so that Machines    *)
(* and VMs need not be unfolded again; then one lemma for each of the      *)
(* actuator, the controller and the environment, one step per action.      *)
(***************************************************************************)
EXTENDS MachineController, TLAPS

\* The fields of a Machine have the types Machines gives them.
LEMMA MachineFields ==
  ASSUME NEW o \in Machines
  PROVE  /\ o.exists \in BOOLEAN /\ o.deleting \in BOOLEAN /\ o.finalizer \in BOOLEAN
         /\ o.providerID \in Nat /\ o.annot \in InstanceStates
         /\ o.phase \in Phases /\ o.addr \in Addrs /\ o.pstate \in InstanceStates
         /\ o.err \in Reasons /\ o.node \in BOOLEAN
BY DEF Machines

\* The absent Machine and a new one are Machines.
LEMMA NoMachineTyped == NoMachine \in Machines /\ NewMachine \in Machines
BY DEF Machines, NoMachine, NewMachine, InstanceStates, Phases, Addrs, Reasons

\* A write to the main resource (handleMachineError, patchMachine) yields a
\* Machine.
LEMMA WithMainTyped ==
  ASSUME NEW o \in Machines, NEW id \in Nat, NEW st \in InstanceStates
  PROVE  WithMain(o, id, st) \in Machines
BY DEF Machines, WithMain

\* A write of addresses and instance state (patchMachine) yields a Machine.
LEMMA WithInstanceTyped ==
  ASSUME NEW o \in Machines, NEW ad \in Addrs, NEW st \in InstanceStates
  PROVE  WithInstance(o, ad, st) \in Machines
BY DEF Machines, WithInstance

\* The status patch of updateStatus yields a Machine.
LEMMA WithPhaseTyped ==
  ASSUME NEW o \in Machines, NEW ph \in Phases, NEW e \in Reasons,
         NEW st \in InstanceStates
  PROVE  WithPhase(o, ph, e, st) \in Machines
BY DEF Machines, WithPhase

\* Recording an error in the status (handleMachineError) yields a Machine.
LEMMA WithErrorTyped ==
  ASSUME NEW o \in Machines, NEW e \in Reasons
  PROVE  WithError(o, e) \in Machines
BY DEF Machines, WithError

\* So do restoring the status, and changing the finalizer, the deletion mark or
\* the node reference.
LEMMA FlagsTyped ==
  ASSUME NEW o \in Machines, NEW s \in Machines
  PROVE  /\ WithStatusOf(o, s) \in Machines
         /\ WithFinalizer(o) \in Machines
         /\ WithoutFinalizer(o) \in Machines
         /\ Deleted(o) \in Machines
         /\ Linked(o) \in Machines
BY NoMachineTyped DEF Machines, WithStatusOf, WithFinalizer, WithoutFinalizer,
                      Deleted, Linked, Reaped

\* A merge patch leaves a field within the type of the values it is made of.
LEMMA MergedTyped ==
  ASSUME NEW S, NEW x, NEW y \in S, NEW z \in S
  PROVE  Merged(x, y, z) \in S
BY DEF Merged

\* What the engine and create do to a VM yields a VM.
LEMMA VMTyped ==
  ASSUME NEW v \in VMs
  PROVE  /\ v.id \in Nat /\ v.status \in VMStatuses \cup {"none"}
         /\ \A c \in ConfSteps : Configured(v, c) \in VMs
         /\ \A s \in VMStatuses : InStatus(v, s) \in VMs /\ PoweredOff(v, s) \in VMs
         /\ WithIP(v) \in VMs
BY DEF VMs, Configured, InStatus, PoweredOff, WithIP

\* The absent VM and one just created are VMs.
LEMMA NewVMTyped ==
  /\ NoVM \in VMs
  /\ \A i \in Nat : NewVM(i) \in VMs
BY DEF VMs, NoVM, NewVM, VMStatuses

\* Every step of the actuator keeps the types.
LEMMA TypeActuator ==
  ASSUME TypeOK, ActuatorStep, UNCHANGED goal
  PROVE  TypeOK'
<1> USE DEF TypeOK, ActuatorTypeOK, EngineTypeOK, KubeTypeOK, Fault, NoFault,
            Goto, Return, Report, engineVars, kubeVars, scopeVars, ActuatorPCs, Results, Reasons,
            FailureReason, ConnectReason
<1>1. CASE Connect
  BY <1>1 DEF Connect, Entry
<1>2. CASE HandleMachineError
  <2> DEFINE new == WithMain(api, m.providerID, m.annot)
  <2>1. new \in Machines
    BY WithMainTyped, MachineFields
  <2>2. WithError(m, res) \in Machines
    BY <1>2, WithErrorTyped DEF HandleMachineError, HandleMachineErrorIf
  <2> HIDE DEF new
  <2>3. (api' \in {api, new}) /\ (seen' \in {seen, new}) /\ (m' \in {new, WithError(m, res)})
    BY <1>2 DEF HandleMachineError, HandleMachineErrorIf, new
  <2> QED
    BY <1>2, <2>1, <2>2, <2>3 DEF HandleMachineError, HandleMachineErrorIf
<1>3. CASE ExistsFind
  BY <1>3 DEF ExistsFind
<1>4. CASE CreateFind
  BY <1>4 DEF CreateFind
<1>5. CASE Prepare
  BY <1>5 DEF Prepare
<1>6. CASE CreateVM
  BY <1>6, NewVMTyped DEF CreateVM
<1>7. CASE WaitDown
  BY <1>7 DEF WaitDown, WaitForVMStatus
<1>8. CASE RemoveConsoles
  BY <1>8, VMTyped DEF RemoveConsoles, Configure, ConfSteps
<1>9. CASE ExtendDisk
  BY <1>9, VMTyped DEF ExtendDisk, ExtendDiskIf, ConfSteps
<1>10. CASE ReattachNICs
  BY <1>10, VMTyped DEF ReattachNICs, Configure, ConfSteps
<1>11. CASE OptimizePinning
  BY <1>11, VMTyped DEF OptimizePinning, Configure, ConfSteps
<1>12. CASE AddTag
  BY <1>12, VMTyped DEF AddTag, Configure, ConfSteps
<1>13. CASE AddAffinity
  BY <1>13, VMTyped DEF AddAffinity, Configure, ConfSteps
<1>14. CASE StartVM
  BY <1>14, VMTyped DEF StartVM, ConfSteps, VMStatuses
<1>15. CASE WaitUp
  BY <1>15 DEF WaitUp, WaitForVMStatus
<1>16. CASE DeleteFind
  BY <1>16, VMTyped DEF DeleteFind, DeleteFindOr
<1>17. CASE StopVM
  BY <1>17, VMTyped DEF StopVM, StopVMThen, VMStatuses
<1>18. CASE WaitStopped
  BY <1>18 DEF WaitStopped, WaitForVMStatus
<1>19. CASE RemoveVM
  BY <1>19, NewVMTyped DEF RemoveVM
<1>20. CASE ReconcileFind
  <2>1. Exists(vm) => WithMain(m, vm.id, vm.status) \in Machines
    BY WithMainTyped, VMTyped DEF InstanceStates, VMStatuses
  <2> QED
    BY <1>20, <2>1 DEF ReconcileFind
<1>21. CASE ReconcileNetwork
  <2>1. \A a \in Addrs : WithInstance(m, a, m.annot) \in Machines
    BY WithInstanceTyped, MachineFields
  <2>2. m.addr \in Addrs /\ (IF vm.ip THEN "ip" ELSE "emptyIP") \in Addrs
    BY MachineFields DEF Addrs
  <2> QED
    BY <1>21, <2>1, <2>2 DEF ReconcileNetwork
<1>22. CASE PatchMain
  <2> DEFINE new == WithMain(api, Merged(orig.providerID, m.providerID, api.providerID),
                                  Merged(orig.annot, m.annot, api.annot))
  <2>1. new \in Machines
    <3>1. Merged(orig.providerID, m.providerID, api.providerID) \in Nat
      BY MachineFields, MergedTyped
    <3>2. Merged(orig.annot, m.annot, api.annot) \in InstanceStates
      BY MachineFields, MergedTyped
    <3> QED BY <3>1, <3>2, WithMainTyped
  <2>2. WithStatusOf(new, m) \in Machines
    BY <2>1, FlagsTyped
  <2> HIDE DEF new
  <2>3. (api' \in {api, new}) /\ (seen' \in {seen, new}) /\ (m' \in {m, WithStatusOf(new, m)})
    BY <1>22 DEF PatchMain, PatchProviderID, new
  <2> QED
    BY <1>22, <2>1, <2>2, <2>3 DEF PatchMain, PatchProviderID
<1>23. CASE PatchStatus
  <2> DEFINE new == WithInstance(api, Merged(orig.addr, m.addr, api.addr),
                                      Merged(orig.pstate, m.pstate, api.pstate))
  <2>1. new \in Machines
    <3>1. Merged(orig.addr, m.addr, api.addr) \in Addrs
      BY MachineFields, MergedTyped
    <3>2. Merged(orig.pstate, m.pstate, api.pstate) \in InstanceStates
      BY MachineFields, MergedTyped
    <3> QED BY <3>1, <3>2, WithInstanceTyped
  <2> HIDE DEF new
  <2>3. (api' \in {api, new}) /\ (seen' \in {seen, new}) /\ (m' \in {m, new})
    BY <1>23 DEF PatchStatus, new
  <2> QED
    BY <1>23, <2>1, <2>3 DEF PatchStatus
<1> QED BY <1>1, <1>2, <1>3, <1>4, <1>5, <1>6, <1>7, <1>8, <1>9, <1>10, <1>11, <1>12,
      <1>13, <1>14, <1>15, <1>16, <1>17, <1>18, <1>19, <1>20, <1>21, <1>22,
      <1>23 DEF ActuatorStep

\* The end of a reconcile keeps the types.
LEMMA FinishTyped ==
  ASSUME Finish
  PROVE  /\ pc' \in ControllerPCs /\ pc' # "report"
         /\ op' \in Ops /\ inst' \in Nat /\ res' \in Results /\ goal' \in Phases
         /\ m' \in Machines /\ orig' \in Machines /\ seen' \in Machines
<1>1. /\ pc' \in ControllerPCs /\ pc' # "report"
      /\ op' \in Ops /\ inst' \in Nat /\ res' \in Results /\ goal' \in Phases
  BY DEF Finish, ControllerPCs, Ops, Results, Phases
<1>2. m' \in Machines /\ orig' \in Machines /\ seen' \in Machines
  BY NoMachineTyped DEF Finish
<1> QED BY <1>1, <1>2

\* Every step of Reconcile keeps the types.
LEMMA TypeController ==
  ASSUME TypeOK, ControllerStep
  PROVE  TypeOK'
<1> USE FinishTyped DEF TypeOK, ActuatorTypeOK, EngineTypeOK, KubeTypeOK,
          Fault, NoFault, Continue, Call, SetPhase, local, engineVars, kubeVars
<1>1. CASE StartReconcile
  BY <1>1 DEF StartReconcile, StartReconcileIf, ControllerPCs, ActuatorPCs, Ops, Phases
<1>2. CASE AddFinalizer
  <2>1. api' \in {api, WithFinalizer(api)} /\ faults' \in Nat
    BY <1>2 DEF AddFinalizer, AddFinalizerAs
  <2> QED
    BY <1>2, <2>1, FlagsTyped DEF AddFinalizer, AddFinalizerAs
<1>3. CASE UpdateStatus
  <2> DEFINE new == WithPhase(api, Merged(m.phase, goal, api.phase),
                                   Merged(m.err, StatusError, api.err),
                                   Merged(m.pstate, StatusState, api.pstate))
  <2>1. new \in Machines
    <3>1. Merged(m.phase, goal, api.phase) \in Phases
      BY MachineFields, MergedTyped
    <3>2. StatusError \in Reasons /\ StatusState \in InstanceStates
      BY MachineFields DEF StatusError, StatusState, Reasons, InstanceStates
    <3>3. Merged(m.err, StatusError, api.err) \in Reasons
      BY <3>2, MachineFields, MergedTyped
    <3>4. Merged(m.pstate, StatusState, api.pstate) \in InstanceStates
      BY <3>2, MachineFields, MergedTyped
    <3> QED BY <3>1, <3>3, <3>4, WithPhaseTyped
  <2> HIDE DEF new
  <2>2. /\ api' \in {api, new}
        /\ Finish \/ (seen' = new /\ m' = new /\ pc' = "deleting"
                       /\ UNCHANGED <<op, orig, inst, res, goal>>)
    BY <1>3 DEF UpdateStatus, new
  <2> QED
    BY <1>3, <2>1, <2>2 DEF UpdateStatus, ControllerPCs
<1>4. CASE PatchAnnotation
  <2> DEFINE new == WithMain(api, api.providerID, Merged(m.annot, "Unknown", api.annot))
  <2>1. new \in Machines
    <3>1. Merged(m.annot, "Unknown", api.annot) \in InstanceStates
      <4>1. "Unknown" \in InstanceStates
        BY DEF InstanceStates
      <4> QED BY <4>1, MachineFields, MergedTyped
    <3> QED BY <3>1, MachineFields, WithMainTyped
  <2> HIDE DEF new
  <2>2. /\ api' \in {api, new}
        /\ Finish \/ (seen' = new /\ m' = new /\ pc' = "update_status"
                       /\ UNCHANGED <<op, orig, inst, res, goal>>)
    BY <1>4 DEF PatchAnnotation, new
  <2> QED
    BY <1>4, <2>1, <2>2 DEF PatchAnnotation, ControllerPCs
<1>5. CASE StartDeletion
  <2>1. faults' \in Nat
    BY <1>5 DEF StartDeletion
  <2>2. CASE Finish
    BY <1>5, <2>1, <2>2 DEF StartDeletion
  <2>3. CASE Continue("drain") \/ Call("delete")
    BY <1>5, <2>1, <2>3 DEF StartDeletion, ControllerPCs, ActuatorPCs, Ops
  <2> QED
    BY <1>5, <2>2, <2>3 DEF StartDeletion
<1>6. CASE Drain
  <2>1. faults' \in Nat
    BY <1>6 DEF Drain
  <2>2. CASE Finish
    BY <1>6, <2>1, <2>2 DEF Drain
  <2>3. CASE Call("delete")
    BY <1>6, <2>1, <2>3 DEF Drain, ControllerPCs, ActuatorPCs, Ops
  <2> QED
    BY <1>6, <2>2, <2>3 DEF Drain
<1>7. CASE AfterDelete
  BY <1>7 DEF AfterDelete, AfterDeleteThen, ControllerPCs, ActuatorPCs, Ops, Phases
<1>8. CASE AfterDeleteExists
  BY <1>8 DEF AfterDeleteExists, ControllerPCs, ActuatorPCs, Ops, Phases
<1>9. CASE DeleteNode
  <2>1. faults' \in Nat
    BY <1>9 DEF DeleteNode
  <2>2. CASE Finish
    BY <1>9, <2>1, <2>2 DEF DeleteNode
  <2>3. CASE Continue("remove_finalizer")
    BY <1>9, <2>1, <2>3 DEF DeleteNode, ControllerPCs, ActuatorPCs, Ops
  <2> QED
    BY <1>9, <2>2, <2>3 DEF DeleteNode
<1>10. CASE RemoveFinalizer
  BY <1>10, FlagsTyped DEF RemoveFinalizer
<1>11. CASE AfterExists
  BY <1>11, MachineFields DEF AfterExists, ControllerPCs, ActuatorPCs, Ops, Phases
<1>12. CASE AfterUpdate
  BY <1>12, MachineFields DEF AfterUpdate, ControllerPCs, ActuatorPCs, Ops, Phases
<1>13. CASE AfterCreate
  BY <1>13 DEF AfterCreate, ControllerPCs, ActuatorPCs, Ops, Phases
<1> QED BY <1>1, <1>2, <1>3, <1>4, <1>5, <1>6, <1>7, <1>8, <1>9, <1>10, <1>11, <1>12,
      <1>13 DEF ControllerStep

\* The engine, the API server, the user and crashes keep the types.
LEMMA TypeEnvironment ==
  ASSUME TypeOK, Environment
  PROVE  TypeOK'
<1> USE DEF TypeOK, ActuatorTypeOK, EngineTypeOK, KubeTypeOK, engineVars,
            kubeVars, actuatorVars
<1>1. ASSUME EngineStep \/ DisturbStep, UNCHANGED <<kubeVars, actuatorVars, goal>>
      PROVE  TypeOK'
  BY <1>1, VMTyped, NewVMTyped
     DEF EngineStep, DisturbStep, EngineUnlocksImage, EngineBoots, EngineMigrated,
         EnginePowersDown, EngineReportsIP, AdminPowersOff, AdminMigrates,
         AdminRemoves, Disturb, SetStatus, VMStatuses
<1>2. ASSUME CacheSync \/ UserDeletes \/ NodeLinks,
             UNCHANGED <<engineVars, disturbs, actuatorVars, goal>>
      PROVE  TypeOK'
  BY <1>2, FlagsTyped DEF CacheSync, UserDeletes, NodeLinks
<1>3. CASE Crash
  BY <1>3, FinishTyped DEF Crash, Disturb
<1> QED BY <1>1, <1>2, <1>3 DEF Environment

\* The Machine, its cached and in-memory copies, the VM and the worker are always
\* of their types; handleMachineError is entered only with a reason the Machine
\* API knows.
THEOREM TypeCorrect == Spec => []TypeOK
<1>1. Init => TypeOK
  <2> SUFFICES ASSUME Init PROVE TypeOK
    OBVIOUS
  <2>1. /\ pc \in ControllerPCs /\ pc # "report" /\ op \in Ops /\ inst \in Nat
        /\ res \in Results /\ goal \in Phases /\ faults \in Nat
    BY DEF Init, ControllerPCs, Ops, Results, Phases
  <2> QED
    BY <2>1, NoMachineTyped, NewVMTyped
       DEF Init, EngineInit, KubeInit, TypeOK, ActuatorTypeOK, EngineTypeOK, KubeTypeOK
<1>2. TypeOK /\ [Next]_vars => TypeOK'
  <2> SUFFICES ASSUME TypeOK, [Next]_vars PROVE TypeOK'
    OBVIOUS
  <2>1. CASE UNCHANGED vars
    BY <2>1 DEF vars, engineVars, kubeVars, actuatorVars, TypeOK, ActuatorTypeOK,
                EngineTypeOK, KubeTypeOK
  <2>2. CASE Worker
    BY <2>2, TypeController, TypeActuator DEF Worker
  <2>3. CASE Environment
    BY <2>3, TypeEnvironment
  <2> QED BY <2>1, <2>2, <2>3 DEF Next
<1> QED BY <1>1, <1>2, PTL DEF Spec

-----------------------------------------------------------------------------
\* Two Machines agree on what holds a VM's Machine in place.
SameFlags(a, b) ==
  a.exists = b.exists /\ a.deleting = b.deleting /\ a.finalizer = b.finalizer

\* Only the finalizer and the deletion change whether a Machine exists, is being
\* deleted and is held: every patch of the provider leaves that alone.
LEMMA FlagsKept ==
  ASSUME NEW o \in Machines
  PROVE  /\ \A p, a : SameFlags(WithMain(o, p, a), o)
         /\ \A a, s : SameFlags(WithInstance(o, a, s), o)
         /\ \A p, e, s : SameFlags(WithPhase(o, p, e, s), o)
         /\ SameFlags(Linked(o), o)
BY DEF SameFlags, Machines, WithMain, WithInstance, WithPhase, Linked

\* Adding the finalizer changes nothing else; a Machine that survives the removal
\* of its finalizer is being deleted exactly if it was before; a deletion marks
\* the Machine and leaves it held exactly if it was.
LEMMA FlagsSet ==
  ASSUME NEW o \in Machines
  PROVE  /\ WithFinalizer(o).exists = o.exists
         /\ WithFinalizer(o).deleting = o.deleting
         /\ WithFinalizer(o).finalizer = TRUE
         /\ WithoutFinalizer(o).exists
              => o.exists /\ WithoutFinalizer(o).deleting = o.deleting
         /\ Deleted(o).exists => Deleted(o).deleting
         /\ Held(o) => Held(Deleted(o))
         /\ Held(Deleted(o)) => Held(o)
BY DEF Machines, WithFinalizer, WithoutFinalizer, Deleted, Reaped, NoMachine, Held

\* Configuring a VM or changing its status neither makes nor removes one.
LEMMA VMKept ==
  ASSUME NEW v \in VMs
  PROVE  /\ \A c : Exists(Configured(v, c)) = Exists(v)
         /\ \A s : Exists(InStatus(v, s)) = Exists(v)
         /\ \A s : Exists(PoweredOff(v, s)) = Exists(v)
         /\ Exists(WithIP(v)) = Exists(v)
         /\ ~Exists(NoVM)
BY DEF VMs, Exists, Configured, InStatus, PoweredOff, WithIP, NoVM

\* Where Create has not asked for a VM yet.
CreatePCs == {"create_find", "prepare", "create_vm"}

\* What a step of the actuator leaves alone: the operation and the flags of the
\* stored Machine; only CreateVM, in Create, makes a VM; only ExistsFind answers
\* that there is none.
LEMMA ActuatorFrame ==
  ASSUME TypeOK, ActuatorStep, pc \in CreatePCs => op = "create"
  PROVE  /\ op' = op
         /\ cache' = cache
         /\ SameFlags(api', api)
         /\ pc' \in ActuatorPCs
         /\ pc' \in CreatePCs => op = "create"
         /\ Exists(vm') => Exists(vm) \/ op = "create"
         /\ pc' = "return" /\ res' = "notfound" => ~Exists(vm')
<1>1. SameFlags(api, api)
  BY DEF SameFlags
<1> USE <1>1 DEF TypeOK, ActuatorTypeOK, EngineTypeOK, KubeTypeOK, Fault, NoFault, Goto, Return,
            Report, engineVars, kubeVars, scopeVars, ActuatorPCs, CreatePCs, Reasons
<1>2. CASE Connect
  BY <1>2 DEF Connect, Entry
<1>3. CASE HandleMachineError
  BY <1>3, FlagsKept DEF HandleMachineError, HandleMachineErrorIf
<1>4. CASE ExistsFind
  BY <1>4 DEF ExistsFind
<1>5. CASE CreateFind
  BY <1>5 DEF CreateFind
<1>6. CASE Prepare
  BY <1>6 DEF Prepare
<1>7. CASE CreateVM
  BY <1>7 DEF CreateVM
<1>8. CASE WaitDown
  BY <1>8 DEF WaitDown, WaitForVMStatus
<1>9. CASE RemoveConsoles
  BY <1>9, VMKept DEF RemoveConsoles, Configure
<1>10. CASE ExtendDisk
  BY <1>10, VMKept DEF ExtendDisk, ExtendDiskIf
<1>11. CASE ReattachNICs
  BY <1>11, VMKept DEF ReattachNICs, Configure
<1>12. CASE OptimizePinning
  BY <1>12, VMKept DEF OptimizePinning, Configure
<1>13. CASE AddTag
  BY <1>13, VMKept DEF AddTag, Configure
<1>14. CASE AddAffinity
  BY <1>14, VMKept DEF AddAffinity, Configure
<1>15. CASE StartVM
  <2> DEFINE on == InStatus(Configured(vm, "started"), "powering_up")
  <2>1. Configured(vm, "started") \in VMs
    BY VMTyped DEF ConfSteps
  <2>2. Exists(on) = Exists(vm)
    BY <2>1, VMKept
  <2> HIDE DEF on
  <2>3. vm' \in {vm, on}
    BY <1>15 DEF StartVM, on
  <2> QED
    BY <1>15, <2>2, <2>3 DEF StartVM
<1>16. CASE WaitUp
  BY <1>16 DEF WaitUp, WaitForVMStatus
<1>17. CASE DeleteFind
  BY <1>17 DEF DeleteFind, DeleteFindOr
<1>18. CASE StopVM
  BY <1>18, VMKept DEF StopVM, StopVMThen
<1>19. CASE WaitStopped
  BY <1>19 DEF WaitStopped, WaitForVMStatus
<1>20. CASE RemoveVM
  BY <1>20, VMKept DEF RemoveVM
<1>21. CASE ReconcileFind
  BY <1>21 DEF ReconcileFind
<1>22. CASE ReconcileNetwork
  BY <1>22 DEF ReconcileNetwork
<1>23. CASE PatchMain
  BY <1>23, FlagsKept DEF PatchMain, PatchProviderID
<1>24. CASE PatchStatus
  BY <1>24, FlagsKept DEF PatchStatus
<1> QED BY <1>2, <1>3, <1>4, <1>5, <1>6, <1>7, <1>8, <1>9, <1>10, <1>11, <1>12,
      <1>13, <1>14, <1>15, <1>16, <1>17, <1>18, <1>19, <1>20, <1>21, <1>22, <1>23,
      <1>24 DEF ActuatorStep

\* Every step of the actuator keeps OrphanInv: a VM is made only in Create, where
\* the finalizer is there, and not after absence was seen in the deletion branch.
LEMMA OrphanActuator ==
  ASSUME TypeOK, OrphanInv, ActuatorStep
  PROVE  OrphanInv'
<1>1. /\ op' = op /\ cache' = cache /\ SameFlags(api', api) /\ pc' \in ActuatorPCs
      /\ pc' \in CreatePCs => op = "create"
      /\ Exists(vm') => Exists(vm) \/ op = "create"
      /\ pc' = "return" /\ res' = "notfound" => ~Exists(vm')
  BY ActuatorFrame DEF OrphanInv, CreatePCs
<1>2. Held(api') = Held(api)
  BY <1>1 DEF SameFlags, Held
<1>3. NoOrphanVM'
  BY <1>1, <1>2 DEF OrphanInv, NoOrphanVM, InLiveBranch, Held
<1>4. (InLiveBranch => Held(api))'
  BY <1>1, <1>2 DEF OrphanInv, InLiveBranch
<1>5. /\ (InDeletion => Gone(cache) /\ Gone(api))'
      /\ (pc = "patch_annotation" => InLiveBranch)'
  BY <1>1 DEF OrphanInv, InDeletion, ActuatorPCs, SameFlags, Gone
<1>6. (AbsenceSeen => ~Exists(vm))'
  BY <1>1 DEF AbsenceSeen, ActuatorPCs
<1>7. /\ (Held(cache) /\ ~cache.deleting => Held(api))'
      /\ (cache.deleting => Gone(api))'
  BY <1>1, <1>2 DEF OrphanInv, SameFlags, Gone
<1> QED
  BY <1>1, <1>3, <1>4, <1>5, <1>6, <1>7 DEF OrphanInv, CreatePCs

\* Every step of Reconcile keeps OrphanInv: the finalizer is removed only once
\* absence was seen, and a branch is entered only with what the cache showed.
LEMMA OrphanController ==
  ASSUME TypeOK, OrphanInv, ControllerStep
  PROVE  OrphanInv'
<1> USE DEF OrphanInv, NoOrphanVM, InLiveBranch, InDeletion, AbsenceSeen, Held, Gone,
            Finish, Continue, Call, SetPhase, local, engineVars, kubeVars
<1>1. CASE StartReconcile
  BY <1>1 DEF StartReconcile, StartReconcileIf
<1>2. CASE AddFinalizer
  <2>1. /\ api'.exists = api.exists /\ api'.deleting = api.deleting
        /\ api.finalizer => api'.finalizer
    <3>1. api' = api \/ api' = WithFinalizer(api)
      BY <1>2 DEF AddFinalizer, AddFinalizerAs
    <3>2. api \in Machines
      BY DEF TypeOK, ActuatorTypeOK, KubeTypeOK
    <3>3. CASE api' = api
      BY <3>3
    <3>4. CASE api' = WithFinalizer(api)
      BY <3>2, <3>4, FlagsSet
    <3> QED BY <3>1, <3>3, <3>4
  <2>2. pc' = "idle" /\ op' = "none" /\ UNCHANGED <<vm, cache>>
    BY <1>2 DEF AddFinalizer, AddFinalizerAs
  <2> QED
    BY <2>1, <2>2
<1>3. CASE UpdateStatus
  <2>1. SameFlags(api', api)
    <3>1. SameFlags(api, api)
      BY DEF SameFlags
    <3> QED
      BY <1>3, <3>1, FlagsKept DEF UpdateStatus, TypeOK, ActuatorTypeOK, KubeTypeOK
  <2> QED
    BY <1>3, <2>1 DEF UpdateStatus, SameFlags
<1>4. CASE PatchAnnotation
  <2>1. SameFlags(api', api)
    <3>1. SameFlags(api, api)
      BY DEF SameFlags
    <3> QED
      BY <1>4, <3>1, FlagsKept DEF PatchAnnotation, TypeOK, ActuatorTypeOK, KubeTypeOK
  <2>2. op' \in {op, "none"} /\ pc' \in {"update_status", "idle"}
        /\ (pc' = "update_status" => op' = op) /\ UNCHANGED <<vm, cache>>
    BY <1>4 DEF PatchAnnotation
  <2>3. InLiveBranch
    BY <1>4 DEF PatchAnnotation
  <2> QED
    BY <2>1, <2>2, <2>3 DEF SameFlags
<1>5. CASE StartDeletion
  BY <1>5 DEF StartDeletion
<1>6. CASE Drain
  BY <1>6 DEF Drain
<1>7. CASE AfterDelete
  BY <1>7 DEF AfterDelete, AfterDeleteThen
<1>8. CASE AfterDeleteExists
  BY <1>8 DEF AfterDeleteExists
<1>9. CASE DeleteNode
  BY <1>9 DEF DeleteNode
<1>10. CASE RemoveFinalizer
  <2>1. ~Exists(vm) /\ Gone(cache) /\ Gone(api)
    BY <1>10 DEF RemoveFinalizer
  <2>2. api'.exists => api.exists /\ api'.deleting = api.deleting
    <3>1. api' = api \/ api' = WithoutFinalizer(api)
      BY <1>10 DEF RemoveFinalizer
    <3>2. api \in Machines
      BY DEF TypeOK, ActuatorTypeOK, KubeTypeOK
    <3>3. CASE api' = api
      BY <3>3
    <3>4. CASE api' = WithoutFinalizer(api)
      BY <3>2, <3>4, FlagsSet
    <3> QED BY <3>1, <3>3, <3>4
  <2>3. pc' = "idle" /\ op' = "none" /\ UNCHANGED <<vm, cache>>
    BY <1>10 DEF RemoveFinalizer
  <2> QED
    BY <2>1, <2>2, <2>3
<1>11. CASE AfterExists
  BY <1>11 DEF AfterExists
<1>12. CASE AfterUpdate
  BY <1>12 DEF AfterUpdate
<1>13. CASE AfterCreate
  BY <1>13 DEF AfterCreate
<1> QED BY <1>1, <1>2, <1>3, <1>4, <1>5, <1>6, <1>7, <1>8, <1>9, <1>10, <1>11, <1>12,
      <1>13 DEF ControllerStep

\* The engine, the API server, the user and crashes keep OrphanInv.
LEMMA OrphanEnvironment ==
  ASSUME TypeOK, OrphanInv, Environment
  PROVE  OrphanInv'
<1> USE DEF OrphanInv, NoOrphanVM, InLiveBranch, InDeletion, AbsenceSeen,
            Gone, engineVars, kubeVars, actuatorVars
<1>1. ASSUME EngineStep \/ DisturbStep, UNCHANGED <<kubeVars, actuatorVars, goal>>
      PROVE  OrphanInv'
  <2>1. Exists(vm') => Exists(vm)
    BY <1>1, VMKept
       DEF EngineStep, DisturbStep, EngineUnlocksImage, EngineBoots, EngineMigrated,
           EnginePowersDown, EngineReportsIP, AdminPowersOff, AdminMigrates,
           AdminRemoves, SetStatus, TypeOK, ActuatorTypeOK, EngineTypeOK
  <2> QED BY <1>1, <2>1
<1>2. ASSUME CacheSync \/ NodeLinks,
             UNCHANGED <<engineVars, disturbs, actuatorVars, goal>>
      PROVE  OrphanInv'
  <2>1. CASE CacheSync
    BY <1>2, <2>1 DEF CacheSync, Held
  <2>2. CASE NodeLinks
    <3>1. SameFlags(api', api) /\ cache' = cache
      BY <2>2, FlagsKept DEF NodeLinks, TypeOK, ActuatorTypeOK, KubeTypeOK
    <3> QED
      BY <1>2, <3>1 DEF SameFlags, Held
  <2> QED BY <1>2, <2>1, <2>2
<1>3. ASSUME UserDeletes, UNCHANGED <<engineVars, disturbs, actuatorVars, goal>>
      PROVE  OrphanInv'
  BY <1>3, FlagsSet DEF UserDeletes, Held, TypeOK, ActuatorTypeOK, KubeTypeOK
<1>4. CASE Crash
  BY <1>4 DEF Crash, Finish, Held
<1> QED BY <1>1, <1>2, <1>3, <1>4 DEF Environment

\* What one worker has read of finalizer and deletion stays true until its
\* reconcile ends, over lost answers, conflicts, crashes and stale reads
\* (Reconcile, actuator.Delete, actuator.Exists).
THEOREM OrphanInvariant == Spec => []OrphanInv
<1>1. Init => OrphanInv
  <2> SUFFICES ASSUME Init PROVE OrphanInv
    OBVIOUS
  <2>1. ~Exists(vm)
    BY DEF Init, EngineInit, Exists, NoVM
  <2>2. ~cache.exists /\ ~cache.deleting
    BY DEF Init, KubeInit, NoMachine
  <2> QED
    BY <2>1, <2>2 DEF Init, OrphanInv, NoOrphanVM, InLiveBranch, InDeletion,
                      AbsenceSeen, Held, Gone
<1>2. TypeOK /\ OrphanInv /\ [Next]_vars => OrphanInv'
  <2> SUFFICES ASSUME TypeOK, OrphanInv, [Next]_vars PROVE OrphanInv'
    OBVIOUS
  <2>1. CASE UNCHANGED vars
    BY <2>1 DEF vars, engineVars, kubeVars, actuatorVars, OrphanInv, NoOrphanVM,
                InLiveBranch, InDeletion, AbsenceSeen, Gone
  <2>2. CASE Worker
    BY <2>2, OrphanController, OrphanActuator DEF Worker
  <2>3. CASE Environment
    BY <2>3, OrphanEnvironment
  <2> QED BY <2>1, <2>2, <2>3 DEF Next
<1> QED BY <1>1, <1>2, TypeCorrect, PTL DEF Spec

\* As long as the VM exists, so does its Machine with its finalizer, over lost
\* answers, conflicts, crashes and stale reads.
THEOREM NoOrphan == Spec => []NoOrphanVM
<1>1. OrphanInv => NoOrphanVM
  BY DEF OrphanInv
<1> QED BY <1>1, OrphanInvariant, PTL
=============================================================================
