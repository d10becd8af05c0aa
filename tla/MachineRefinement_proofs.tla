----------------------- MODULE MachineRefinement_proofs -----------------------
(***************************************************************************)
(* MachineController implements MachineLifecycle, and the provider removes *)
(* a VM only for a deleted Machine and only when it is down.               *)
(***************************************************************************)
EXTENDS MachineController_proofs

\* Where Delete is.
DeletePCs == {"delete_find", "stop", "wait_stopped", "remove"}

\* What the implementation relies on besides OrphanInv: the Update that adds the
\* finalizer is conditional on a Machine that lives without one; Delete acts on a
\* VM it has found, which stays down between the wait and the removal; an object
\* that is gone carries no flags.
LifeInv ==
  /\ pc = "add_finalizer" => seen.exists /\ ~seen.deleting /\ ~seen.finalizer
  /\ pc \in DeletePCs => op = "delete"
  /\ pc \in DeletePCs \ {"delete_find"} => inst # 0
  /\ pc = "remove" /\ vm.id = inst => vm.status = "down"
  /\ ~api.exists => ~api.deleting /\ ~api.finalizer

\* An object that is not there carries no flags; one just made only exists.
LEMMA NoFlags ==
  /\ ~NoMachine.exists /\ NoMachine.deleting = FALSE /\ NoMachine.finalizer = FALSE
  /\ NewMachine.exists /\ NewMachine.deleting = FALSE /\ NewMachine.finalizer = FALSE
BY DEF NoMachine, NewMachine

\* Configuring a VM or changing its status leaves its id alone.
LEMMA VMIdKept ==
  ASSUME NEW v \in VMs
  PROVE  /\ \A c : Configured(v, c).id = v.id
         /\ \A s : InStatus(v, s).id = v.id /\ PoweredOff(v, s).id = v.id
         /\ WithIP(v).id = v.id
         /\ NoVM.id = 0 /\ \A i : NewVM(i).id = i
BY DEF VMs, Configured, InStatus, PoweredOff, WithIP, NoVM, NewVM

\* What an operation of the actuator may do to the VM: leave it, make one in
\* Create, or remove one that is down in Delete.
VMMoves ==
  \/ vm'.id = vm.id /\ created' = created
  \/ /\ op = "create"
     /\ vm.id = 0 /\ created < MaxVMs
     /\ vm'.id = created + 1 /\ created' = created + 1
  \/ /\ op = "delete"
     /\ vm.id # 0 /\ vm.status = "down"
     /\ vm'.id = 0 /\ created' = created

\* Every step of the actuator is one of these, and leaves the flags alone.
LEMMA ActuatorMoves ==
  ASSUME TypeOK, OrphanInv, LifeInv, ActuatorStep
  PROVE  VMMoves /\ SameFlags(api', api) /\ disturbs' = disturbs
<1>1. SameFlags(api', api)
  BY ActuatorFrame DEF OrphanInv, CreatePCs
<1> USE VMIdKept DEF VMMoves, TypeOK, ActuatorTypeOK, EngineTypeOK, Fault, NoFault, Goto, Return,
            Report, engineVars, kubeVars, scopeVars
<1>2. CASE CreateVM
  BY <1>1, <1>2 DEF CreateVM, OrphanInv, Exists
<1>3. CASE RemoveVM
  <2>1. vm' \in {vm, IF vm.id = inst THEN NoVM ELSE vm}
    BY <1>3 DEF RemoveVM
  <2>2. /\ pc = "remove" /\ op = "delete" /\ inst # 0
        /\ vm.id = inst => vm.status = "down"
    BY <1>3 DEF RemoveVM, LifeInv, DeletePCs
  <2>3. created' = created /\ disturbs' = disturbs
    BY <1>3 DEF RemoveVM
  <2> QED BY <1>1, <2>1, <2>2, <2>3
<1>4. CASE \/ Connect \/ HandleMachineError \/ ExistsFind \/ CreateFind \/ Prepare \/ WaitDown
           \/ WaitUp \/ DeleteFind \/ WaitStopped \/ ReconcileFind \/ ReconcileNetwork
           \/ PatchMain \/ PatchStatus
  <2>1. vm' = vm /\ created' = created /\ disturbs' = disturbs
    BY <1>4 DEF Connect, HandleMachineError, HandleMachineErrorIf, ExistsFind, CreateFind,
                Prepare, WaitDown, WaitUp, WaitForVMStatus, DeleteFind, DeleteFindOr,
                WaitStopped, ReconcileFind,
                ReconcileNetwork, PatchMain, PatchProviderID, PatchStatus
  <2> QED BY <1>1, <2>1
<1>5. CASE RemoveConsoles \/ ReattachNICs \/ OptimizePinning \/ AddTag \/ AddAffinity
  BY <1>1, <1>5 DEF RemoveConsoles, ReattachNICs, OptimizePinning, AddTag, AddAffinity, Configure
<1>6. CASE ExtendDisk
  BY <1>1, <1>6 DEF ExtendDisk, ExtendDiskIf
<1>7. CASE StartVM
  <2> DEFINE on == InStatus(Configured(vm, "started"), "powering_up")
  <2>1. on.id = vm.id
    <3>1. Configured(vm, "started") \in VMs
      BY VMTyped DEF ConfSteps
    <3> QED BY <3>1
  <2> HIDE DEF on
  <2>2. vm' \in {vm, on} /\ created' = created /\ disturbs' = disturbs
    BY <1>7 DEF StartVM, on
  <2> QED BY <1>1, <2>1, <2>2
<1>8. CASE StopVM
  <2>1. vm' \in {vm, PoweredOff(vm, "powering_down")}
    BY <1>8 DEF StopVM, StopVMThen
  <2> QED BY <1>1, <1>8, <2>1 DEF StopVM, StopVMThen
<1> QED BY <1>2, <1>3, <1>4, <1>5, <1>6, <1>7, <1>8 DEF ActuatorStep

-----------------------------------------------------------------------------
\* Delete goes through its calls in order, on the VM it has found.
LEMMA LifeActuator ==
  ASSUME TypeOK, OrphanInv, LifeInv, ActuatorStep
  PROVE  LifeInv'
<1>1. /\ SameFlags(api', api) /\ op' = op /\ pc' \in ActuatorPCs
  BY ActuatorFrame DEF OrphanInv, CreatePCs
<1>2. /\ (pc = "add_finalizer" => seen.exists /\ ~seen.deleting /\ ~seen.finalizer)'
      /\ (~api.exists => ~api.deleting /\ ~api.finalizer)'
  BY <1>1 DEF SameFlags, ActuatorPCs, LifeInv
<1>3. ASSUME pc' \notin DeletePCs
      PROVE  LifeInv'
  BY <1>2, <1>3 DEF LifeInv, DeletePCs
<1> USE DEF DeletePCs, Fault, NoFault, Goto, Return, Report
<1>4. CASE Connect
  BY <1>1, <1>2, <1>4 DEF Connect, Entry, LifeInv
<1>5. CASE DeleteFind
  BY <1>1, <1>2, <1>5 DEF DeleteFind, DeleteFindOr, LifeInv, Exists
<1>6. CASE StopVM
  BY <1>1, <1>2, <1>6 DEF StopVM, StopVMThen, LifeInv, scopeVars
<1>7. CASE WaitStopped
  BY <1>1, <1>2, <1>7 DEF WaitStopped, WaitForVMStatus, LifeInv, scopeVars, engineVars
<1>8. CASE HandleMachineError \/ ExistsFind \/ RemoveVM
  BY <1>3, <1>8 DEF HandleMachineError, HandleMachineErrorIf, ExistsFind, RemoveVM
<1>9. CASE CreateFind \/ Prepare \/ CreateVM \/ WaitDown \/ WaitUp
  BY <1>3, <1>9 DEF CreateFind, Prepare, CreateVM, WaitDown, WaitUp, WaitForVMStatus
<1>10. CASE RemoveConsoles \/ ReattachNICs \/ OptimizePinning \/ AddTag \/ AddAffinity
  BY <1>3, <1>10 DEF RemoveConsoles, ReattachNICs, OptimizePinning, AddTag, AddAffinity, Configure
<1>11. CASE ExtendDisk \/ StartVM
  BY <1>3, <1>11 DEF ExtendDisk, ExtendDiskIf, StartVM
<1>12. CASE ReconcileFind \/ ReconcileNetwork \/ PatchMain \/ PatchStatus
  BY <1>3, <1>12 DEF ReconcileFind, ReconcileNetwork, PatchMain, PatchProviderID, PatchStatus
<1> QED BY <1>4, <1>5, <1>6, <1>7, <1>8, <1>9, <1>10, <1>11, <1>12 DEF ActuatorStep

\* What Reconcile may do to the stored Machine: leave its flags, hold one that
\* lives, or let one go whose VM is gone.
MachineMoves ==
  \/ SameFlags(api', api)
  \/ /\ api.exists /\ ~api.deleting /\ ~api.finalizer
     /\ api'.exists /\ ~api'.deleting /\ api'.finalizer
  \/ /\ api.exists /\ api.deleting /\ ~Exists(vm)
     /\ api' = NoMachine

\* The flags of an object whose finalizer is removed, or that is deleted.
LEMMA FlagsReaped ==
  ASSUME NEW o \in Machines
  PROVE  /\ o.deleting => WithoutFinalizer(o) = NoMachine
         /\ ~o.deleting /\ ~o.finalizer => SameFlags(WithoutFinalizer(o), o)
         /\ o.finalizer => /\ Deleted(o).exists = o.exists
                           /\ Deleted(o).deleting /\ Deleted(o).finalizer
         /\ ~o.finalizer => Deleted(o) = NoMachine
BY DEF Machines, WithoutFinalizer, Deleted, Reaped, SameFlags

\* Every step of Reconcile is one of these, never enters Delete by itself, and
\* adds the finalizer to what it has read.
LEMMA ControllerMoves ==
  ASSUME TypeOK, OrphanInv, LifeInv, ControllerStep
  PROVE  /\ MachineMoves /\ UNCHANGED <<vm, created, disturbs>>
         /\ pc' \notin DeletePCs
         /\ pc' = "add_finalizer" => seen'.exists /\ ~seen'.deleting /\ ~seen'.finalizer
<1>1. api \in Machines /\ SameFlags(api, api)
  BY DEF TypeOK, ActuatorTypeOK, KubeTypeOK, SameFlags
<1> USE DEF DeletePCs, Finish, Continue, Call, SetPhase, local, engineVars, kubeVars
<1>2. CASE StartReconcile
  BY <1>1, <1>2 DEF StartReconcile, StartReconcileIf, MachineMoves
<1>3. CASE AddFinalizer
  <2>1. api' = api \/ (seen = api /\ api' = WithFinalizer(api))
    BY <1>3 DEF AddFinalizer, AddFinalizerAs
  <2>2. seen.exists /\ ~seen.deleting /\ ~seen.finalizer
    BY <1>3 DEF AddFinalizer, AddFinalizerAs, LifeInv
  <2>3. /\ WithFinalizer(api).exists = api.exists
        /\ WithFinalizer(api).deleting = api.deleting
        /\ WithFinalizer(api).finalizer
    BY <1>1, FlagsSet
  <2>4. MachineMoves
    BY <1>1, <2>1, <2>2, <2>3 DEF MachineMoves
  <2> QED BY <1>3, <2>4 DEF AddFinalizer, AddFinalizerAs
<1>4. CASE UpdateStatus
  <2>1. SameFlags(api', api)
    BY <1>1, <1>4, FlagsKept DEF UpdateStatus
  <2> QED BY <1>4, <2>1 DEF UpdateStatus, MachineMoves
<1>5. CASE PatchAnnotation
  <2>1. SameFlags(api', api)
    BY <1>1, <1>5, FlagsKept DEF PatchAnnotation
  <2> QED BY <1>5, <2>1 DEF PatchAnnotation, MachineMoves
<1>6. CASE StartDeletion \/ Drain
  BY <1>1, <1>6 DEF StartDeletion, Drain, MachineMoves
<1>7. CASE AfterDelete \/ AfterDeleteExists \/ DeleteNode
  BY <1>1, <1>7 DEF AfterDelete, AfterDeleteThen, AfterDeleteExists, DeleteNode, MachineMoves
<1>8. CASE RemoveFinalizer
  <2>1. api' = api \/ api' = WithoutFinalizer(api)
    BY <1>8 DEF RemoveFinalizer
  <2>2. ~Exists(vm) /\ Gone(api)
    BY <1>8 DEF RemoveFinalizer, OrphanInv, AbsenceSeen, InDeletion
  <2>3. CASE api.deleting
    <3>1. api.exists
      BY <2>3 DEF LifeInv
    <3> QED
      BY <1>1, <1>8, <2>1, <2>2, <2>3, <3>1, FlagsReaped DEF MachineMoves, RemoveFinalizer
  <2>4. CASE ~api.deleting
    <3>1. ~api.finalizer
      BY <2>2, <2>4 DEF LifeInv, Gone
    <3>2. SameFlags(api', api)
      BY <1>1, <2>1, <2>4, <3>1, FlagsReaped
    <3> QED BY <1>8, <3>2 DEF MachineMoves, RemoveFinalizer
  <2> QED BY <2>3, <2>4
<1>9. CASE AfterExists \/ AfterUpdate \/ AfterCreate
  BY <1>1, <1>9 DEF AfterExists, AfterUpdate, AfterCreate, MachineMoves
<1> QED BY <1>2, <1>3, <1>4, <1>5, <1>6, <1>7, <1>8, <1>9 DEF ControllerStep

\* Every step of Reconcile keeps LifeInv.
LEMMA LifeController ==
  ASSUME TypeOK, OrphanInv, LifeInv, ControllerStep
  PROVE  LifeInv'
<1>1. ~api'.exists => ~api'.deleting /\ ~api'.finalizer
  <2>1. CASE SameFlags(api', api)
    BY <2>1 DEF SameFlags, LifeInv
  <2>2. CASE api' = NoMachine
    BY <2>2, NoFlags
  <2> QED BY <2>1, <2>2, ControllerMoves DEF MachineMoves
<1> QED BY <1>1, ControllerMoves DEF LifeInv, DeletePCs

\* What others may do: the engine changes a VM that is not down, a disturbance
\* may remove it, the user deletes the Machine, the rest leaves both alone.
EnvironmentMoves ==
  \/ /\ UNCHANGED <<api, created, disturbs>>
     /\ vm'.id = vm.id /\ (vm' = vm \/ vm.status # "down")
  \/ /\ UNCHANGED <<api, created>> /\ Disturb
     /\ vm' = vm \/ vm'.id = 0 \/ (vm'.id = vm.id /\ vm.status # "down")
  \/ /\ UNCHANGED <<vm, created, disturbs>>
     /\ SameFlags(api', api)
  \/ /\ UNCHANGED <<vm, created, disturbs>>
     /\ api.exists /\ ~api.deleting /\ api' = Deleted(api)

\* Every step of the environment is one of these, and touches the worker only by
\* a crash.
LEMMA EnvironmentStep ==
  ASSUME TypeOK, Environment
  PROVE  /\ EnvironmentMoves
         /\ \/ UNCHANGED <<pc, op, inst, seen>>
            \/ pc' = "idle" /\ vm' = vm
<1>1. vm \in VMs /\ api \in Machines /\ SameFlags(api, api)
  BY DEF TypeOK, ActuatorTypeOK, EngineTypeOK, KubeTypeOK, SameFlags
<1> USE DEF engineVars, kubeVars, actuatorVars
<1>2. ASSUME EngineStep \/ DisturbStep, UNCHANGED <<kubeVars, actuatorVars, goal>>
      PROVE  EnvironmentMoves
  <2>1. CASE EngineStep
    BY <1>1, <1>2, <2>1, VMIdKept
    DEF EngineStep, EngineUnlocksImage, EngineBoots, EngineMigrated, EnginePowersDown,
        EngineReportsIP, SetStatus, EnvironmentMoves
  <2>2. CASE DisturbStep
    BY <1>1, <1>2, <2>2, VMIdKept
    DEF DisturbStep, AdminPowersOff, AdminMigrates, AdminRemoves, EnvironmentMoves
  <2> QED BY <1>2, <2>1, <2>2
<1>3. ASSUME CacheSync \/ UserDeletes \/ NodeLinks,
             UNCHANGED <<engineVars, disturbs, actuatorVars, goal>>
      PROVE  EnvironmentMoves
  BY <1>1, <1>3, FlagsKept DEF CacheSync, UserDeletes, NodeLinks, EnvironmentMoves
<1>4. CASE Crash
  BY <1>4 DEF Crash, Finish, EnvironmentMoves
<1> QED BY <1>2, <1>3, <1>4 DEF Environment

\* A VM that is down stays so until it is removed, so the environment keeps
\* LifeInv.
LEMMA LifeEnvironment ==
  ASSUME TypeOK, LifeInv, Environment
  PROVE  LifeInv'
<1>1. ~api'.exists => ~api'.deleting /\ ~api'.finalizer
  <2>1. api \in Machines
    BY DEF TypeOK, ActuatorTypeOK, KubeTypeOK
  <2>2. CASE api' = api \/ SameFlags(api', api)
    BY <2>2 DEF SameFlags, LifeInv
  <2>3. CASE api.exists /\ api' = Deleted(api)
    <3>1. CASE api.finalizer
      BY <2>1, <2>3, <3>1, FlagsReaped
    <3>2. CASE ~api.finalizer
      BY <2>1, <2>3, <3>2, FlagsReaped, NoFlags
    <3> QED BY <3>1, <3>2
  <2> QED BY <2>2, <2>3, EnvironmentStep DEF EnvironmentMoves
<1>2. (pc = "remove" /\ vm.id = inst => vm.status = "down")'
  BY EnvironmentStep DEF EnvironmentMoves, LifeInv, DeletePCs
<1> QED BY <1>1, <1>2, EnvironmentStep DEF LifeInv, DeletePCs

\* LifeInv holds along every behaviour, besides OrphanInv.
LEMMA LifeInvariant == Spec => []LifeInv
<1>1. Init => LifeInv
  BY DEF Init, KubeInit, NewMachine, NoMachine, LifeInv, DeletePCs
<1>2. TypeOK /\ OrphanInv /\ LifeInv /\ [Next]_vars => LifeInv'
  <2> SUFFICES ASSUME TypeOK, OrphanInv, LifeInv, [Next]_vars PROVE LifeInv'
    OBVIOUS
  <2>1. CASE UNCHANGED vars
    BY <2>1 DEF vars, engineVars, kubeVars, actuatorVars, LifeInv
  <2> QED
    BY <2>1, LifeActuator, LifeController, LifeEnvironment DEF Next, Worker
<1> QED BY <1>1, <1>2, TypeCorrect, OrphanInvariant, PTL DEF Spec

-----------------------------------------------------------------------------
\* The provider removes a VM only after the user deleted its Machine, and only
\* once the VM is down (machineScope.delete), for every bound and stale reads.
THEOREM RemovalIsSafe == Spec => RemovesOnlyDeleted
<1>1. TypeOK /\ OrphanInv /\ LifeInv /\ [Next]_vars =>
        [(Exists(vm) /\ ~Exists(vm') /\ disturbs' = disturbs)
           => api.deleting /\ vm.status = "down"]_vars
  <2> SUFFICES ASSUME TypeOK, OrphanInv, LifeInv, Next,
                      Exists(vm), ~Exists(vm'), disturbs' = disturbs
               PROVE  api.deleting /\ vm.status = "down"
    OBVIOUS
  <2>1. CASE ActuatorStep
    <3>1. VMMoves /\ created \in Nat
      BY <2>1, ActuatorMoves DEF TypeOK, ActuatorTypeOK, EngineTypeOK
    <3>2. op = "delete" /\ vm.status = "down"
      BY <3>1 DEF VMMoves, Exists
    <3> QED
      BY <3>2 DEF OrphanInv, NoOrphanVM, InDeletion, Gone
  <2>2. CASE ControllerStep
    BY <2>2, ControllerMoves
  <2>3. CASE Environment
    <3>1. disturbs \in Nat /\ EnvironmentMoves
      BY <2>3, EnvironmentStep DEF TypeOK, ActuatorTypeOK, EngineTypeOK
    <3> QED BY <3>1 DEF EnvironmentMoves, Disturb, Exists
  <2> QED BY <2>1, <2>2, <2>3 DEF Next, Worker
<1> QED BY <1>1, TypeCorrect, OrphanInvariant, LifeInvariant, PTL DEF Spec, RemovesOnlyDeleted

\* MachineController implements MachineLifecycle: every step of the worker, the
\* engine, the user or a crash is a step of the abstract life, or none.
THEOREM LifecycleRefined == Spec => ImplementsLifecycle
<1>1. Init => Life!LifecycleInit
  <2> SUFFICES ASSUME Init PROVE Life!LifecycleInit
    OBVIOUS
  <2>1. api.exists /\ ~api.deleting /\ api.finalizer = FALSE
    BY NoFlags DEF Init, KubeInit
  <2>2. vm.id = 0 /\ created = 0 /\ disturbs = 0
    BY DEF Init, EngineInit, NoVM
  <2> QED BY <2>1, <2>2 DEF Life!LifecycleInit
<1>2. TypeOK /\ OrphanInv /\ LifeInv /\ [Next]_vars
        => [Life!LifecycleNext]_(Life!lifecycleVars)
  <2> SUFFICES ASSUME TypeOK, OrphanInv, LifeInv, [Next]_vars
               PROVE  Life!LifecycleNext \/ UNCHANGED Life!lifecycleVars
    OBVIOUS
  <2>1. ASSUME SameFlags(api', api), vm'.id = vm.id, UNCHANGED <<created, disturbs>>
        PROVE  UNCHANGED Life!lifecycleVars
    BY <2>1 DEF SameFlags, Life!lifecycleVars
  <2>2. CASE UNCHANGED vars
    BY <2>2, <2>1 DEF vars, engineVars, kubeVars, SameFlags
  <2>3. CASE ActuatorStep
    <3>1. VMMoves /\ SameFlags(api', api) /\ disturbs' = disturbs
      BY <2>3, ActuatorMoves
    <3>2. CASE vm'.id = vm.id /\ created' = created
      BY <3>1, <3>2, <2>1
    <3>3. CASE /\ op = "create" /\ vm.id = 0 /\ created < MaxVMs
               /\ vm'.id = created + 1 /\ created' = created + 1
      <4>1. api.finalizer
        BY <3>3 DEF OrphanInv, InLiveBranch, Held
      <4> QED
        BY <3>1, <3>3, <4>1 DEF SameFlags, Life!Provision, Life!LifecycleNext
    <3>4. CASE /\ op = "delete" /\ vm.id # 0
               /\ vm'.id = 0 /\ created' = created
      <4>1. api.exists /\ api.deleting
        BY <3>4 DEF OrphanInv, NoOrphanVM, InDeletion, Gone, Exists
      <4> QED
        BY <3>1, <3>4, <4>1 DEF SameFlags, Life!Deprovision, Life!LifecycleNext
    <3> QED BY <3>1, <3>2, <3>3, <3>4 DEF VMMoves
  <2>4. CASE ControllerStep
    <3>1. MachineMoves /\ UNCHANGED <<vm, created, disturbs>>
      BY <2>4, ControllerMoves
    <3>2. CASE SameFlags(api', api)
      BY <3>1, <3>2, <2>1
    <3>3. CASE /\ api.exists /\ ~api.deleting /\ ~api.finalizer
               /\ api'.exists /\ ~api'.deleting /\ api'.finalizer
      BY <3>1, <3>3 DEF Life!Hold, Life!LifecycleNext
    <3>4. CASE api.exists /\ api.deleting /\ ~Exists(vm) /\ api' = NoMachine
      BY <3>1, <3>4 DEF Exists, NoMachine, Life!Release, Life!LifecycleNext
    <3> QED BY <3>1, <3>2, <3>3, <3>4 DEF MachineMoves
  <2>5. CASE Environment
    <3>1. EnvironmentMoves
      BY <2>5, EnvironmentStep
    <3>2. CASE UNCHANGED <<api, created, disturbs>> /\ vm'.id = vm.id
      BY <3>2, <2>1 DEF SameFlags
    <3>3. CASE UNCHANGED <<api, created>> /\ Disturb /\ vm'.id \in {vm.id, 0}
      BY <3>3 DEF Disturb, Life!Mishap, Life!LifecycleNext
    <3>4. CASE UNCHANGED <<vm, created, disturbs>> /\ SameFlags(api', api)
      BY <3>4, <2>1
    <3>5. CASE /\ UNCHANGED <<vm, created, disturbs>>
               /\ api.exists /\ ~api.deleting /\ api' = Deleted(api)
      <4>1. api \in Machines /\ api' \in Machines
        BY <2>5, TypeEnvironment DEF TypeOK, ActuatorTypeOK, KubeTypeOK
      <4>2. api.finalizer \in BOOLEAN /\ api'.finalizer \in BOOLEAN
        BY <4>1 DEF Machines
      <4>3. CASE api.finalizer
        <5>1. api'.exists /\ api'.deleting /\ api'.finalizer
          BY <3>5, <4>1, <4>3, FlagsReaped
        <5>2. api'.finalizer = api.finalizer
          BY <4>2, <4>3, <5>1
        <5> QED BY <3>5, <4>3, <5>1, <5>2 DEF Life!Delete, Life!LifecycleNext
      <4>4. CASE ~api.finalizer
        <5>1. ~api'.exists /\ ~api'.finalizer
          BY <3>5, <4>1, <4>4, FlagsReaped, NoFlags
        <5>2. api'.finalizer = api.finalizer
          BY <4>2, <4>4, <5>1
        <5> QED BY <3>5, <4>4, <5>1, <5>2 DEF Life!Delete, Life!LifecycleNext
      <4> QED BY <4>3, <4>4
    <3> QED BY <3>1, <3>2, <3>3, <3>4, <3>5 DEF EnvironmentMoves
  <2> QED BY <2>2, <2>3, <2>4, <2>5 DEF Next, Worker
<1> QED
  BY <1>1, <1>2, TypeCorrect, OrphanInvariant, LifeInvariant, PTL
  DEF Spec, ImplementsLifecycle, Life!Lifecycle
=============================================================================
