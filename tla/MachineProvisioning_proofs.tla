---------------------- MODULE MachineProvisioning_proofs ----------------------
(***************************************************************************)
(* What Create leaves behind, for fresh and for stale reads: a VM that was *)
(* started has been through every step the spec asks for, a Machine shown  *)
(* as Provisioned or Running names a VM that was created for it, and,      *)
(* where nothing failed, that VM is complete.                              *)
(***************************************************************************)
EXTENDS MachineRefinement_proofs

\* Where Create works on the VM it has made, and where an operation brings the
\* Machine up to date.
ConfigPCs == {"wait_down", "consoles", "disk", "nics", "pinning", "tag", "affinity",
              "start", "wait_up"}
PatchPCs  == {"reconcile_find", "reconcile_network", "patch", "patch_status"}

\* The steps that the VM has been through when Create has come to pc, and the
\* part of them that the spec asks for.
StepsDone ==
  /\ pc \in {"disk", "nics", "pinning", "tag", "affinity", "start"} /\ spec["hp"]
       => "consoles" \in vm.conf
  /\ pc \in {"nics", "pinning", "tag", "affinity", "start"} => "disk" \in vm.conf
  /\ pc \in {"pinning", "tag", "affinity", "start"} /\ spec["nics"] => "nics" \in vm.conf
  /\ pc \in {"tag", "affinity", "start"} /\ spec["pin"] => "pinning" \in vm.conf
  /\ pc \in {"affinity", "start"} => "tag" \in vm.conf
  /\ pc = "start" /\ spec["affinity"] => "affinity" \in vm.conf
  /\ pc = "wait_up" => "started" \in vm.conf

\* The inductive strengthening of StartedConfigured: Create configures a VM of
\* its own, in order, and a VM it no longer has does not come back.
ConfInv ==
  /\ StartedConfigured
  /\ pc \in ConfigPCs => op = "create" /\ inst # 0
  /\ pc \in ConfigPCs /\ vm.id = inst => StepsDone

\* What the operators of OvirtEngine do to id and configuration.
LEMMA VMConf ==
  ASSUME NEW v \in VMs
  PROVE  /\ \A c : Configured(v, c).id = v.id /\ Configured(v, c).conf = v.conf \cup {c}
         /\ \A s : InStatus(v, s).id = v.id /\ InStatus(v, s).conf = v.conf
         /\ \A s : PoweredOff(v, s).id = v.id /\ PoweredOff(v, s).conf = v.conf
         /\ WithIP(v).id = v.id /\ WithIP(v).conf = v.conf
         /\ NoVM.id = 0 /\ NoVM.conf = {}
         /\ \A i : NewVM(i).id = i /\ NewVM(i).conf = {}
BY DEF VMs, Configured, InStatus, PoweredOff, WithIP, NoVM, NewVM

\* What leaves the configuration alone, or removes the VM, keeps ConfInv.
LEMMA ConfFrame ==
  ASSUME ConfInv, spec' = spec,
         (vm'.id = vm.id /\ vm'.conf = vm.conf) \/ (vm'.id = 0 /\ vm'.conf = {}),
         (pc' = pc /\ op' = op /\ inst' = inst) \/ pc' \notin ConfigPCs
  PROVE  ConfInv'
<1>1. StartedConfigured'
  BY DEF ConfInv, StartedConfigured, Required
<1>2. CASE pc' \notin ConfigPCs
  BY <1>1, <1>2 DEF ConfInv
<1>3. CASE pc' = pc /\ op' = op /\ inst' = inst
  BY <1>1, <1>3 DEF ConfInv, StepsDone
<1> QED BY <1>2, <1>3

\* A step of Create that configures the VM, with what it adds and where it goes.
LEMMA ConfStep ==
  ASSUME TypeOK, ConfInv, pc \in ConfigPCs, NEW c, c # "started",
         spec' = spec, op' = op, inst' = inst,
         vm' = vm \/ (vm.id = inst /\ vm' = Configured(vm, c)),
         pc' \notin ConfigPCs \/ (vm.id = inst => StepsDone')
  PROVE  ConfInv'
<1>1. /\ vm \in VMs
      /\ vm'.id = vm.id
      /\ vm.conf \subseteq vm'.conf
      /\ "started" \in vm'.conf => "started" \in vm.conf
  BY VMConf DEF TypeOK, ActuatorTypeOK, EngineTypeOK
<1>2. StartedConfigured'
  BY <1>1 DEF ConfInv, StartedConfigured, Required
<1> QED BY <1>1, <1>2 DEF ConfInv

\* Every step of the actuator keeps ConfInv: Create starts the VM only after the
\* steps that the spec asks for, and no other operation configures one.
LEMMA ConfActuator ==
  ASSUME TypeOK, OrphanInv, ConfInv, ActuatorStep
  PROVE  ConfInv'
<1>1. vm \in VMs /\ spec' = spec
  BY DEF TypeOK, ActuatorTypeOK, EngineTypeOK, ActuatorStep, Connect, HandleMachineError,
         HandleMachineErrorIf, ExistsFind, CreateFind, Prepare, CreateVM, WaitDown, WaitUp,
         WaitForVMStatus,
         RemoveConsoles, ExtendDisk, ExtendDiskIf, ReattachNICs, OptimizePinning, AddTag,
         AddAffinity, Configure, StartVM, DeleteFind, DeleteFindOr, StopVM, StopVMThen,
         WaitStopped, RemoveVM, ReconcileFind, ReconcileNetwork, PatchMain,
         PatchProviderID, PatchStatus
<1>2. pc' \in ConfigPCs /\ pc \in ConfigPCs => op = "create" /\ inst # 0
  BY DEF ConfInv
<1> USE DEF Fault, NoFault, Goto, Return, Report, ConfigPCs, engineVars, scopeVars
<1>3. CASE \/ Connect \/ HandleMachineError \/ ExistsFind \/ CreateFind \/ Prepare
           \/ WaitUp \/ DeleteFind \/ WaitStopped \/ ReconcileFind \/ ReconcileNetwork
           \/ PatchMain \/ PatchStatus
  <2>1. vm' = vm /\ pc' \notin ConfigPCs
    BY <1>3 DEF Connect, Entry, HandleMachineError, HandleMachineErrorIf, ExistsFind,
                CreateFind, Prepare, WaitUp, WaitForVMStatus, DeleteFind, DeleteFindOr,
                WaitStopped, ReconcileFind,
                ReconcileNetwork, PatchMain, PatchProviderID, PatchStatus
  <2> QED BY <1>1, <2>1, ConfFrame
<1>4. CASE StopVM
  <2>1. vm' \in {vm, PoweredOff(vm, "powering_down")} /\ pc' \notin ConfigPCs
    BY <1>4 DEF StopVM, StopVMThen
  <2>2. vm'.id = vm.id /\ vm'.conf = vm.conf
    BY <1>1, <2>1, VMConf
  <2> QED BY <1>1, <2>1, <2>2, ConfFrame
<1>5. CASE RemoveVM
  <2>1. vm' \in {vm, NoVM} /\ pc' \notin ConfigPCs
    BY <1>5 DEF RemoveVM
  <2>2. NoVM.id = 0 /\ NoVM.conf = {}
    BY <1>1, VMConf
  <2> QED BY <1>1, <2>1, <2>2, ConfFrame
<1>6. CASE CreateVM
  <2>1. CASE vm' = vm /\ pc' \notin ConfigPCs
    BY <1>1, <2>1, ConfFrame
  <2>2. CASE /\ vm' = NewVM(created + 1)
             /\ pc' = "wait_down" => inst' = created + 1 /\ op' = op
             /\ pc' \in {"wait_down", "report"}
    <3>1. /\ vm'.id = created + 1 /\ vm'.conf = {}
      BY <1>1, <2>2, VMConf
    <3>2. created + 1 # 0 /\ op = "create"
      BY <1>6 DEF CreateVM, OrphanInv, TypeOK, ActuatorTypeOK, EngineTypeOK
    <3> QED BY <2>2, <3>1, <3>2 DEF ConfInv, StartedConfigured, StepsDone
  <2> QED BY <1>6, <2>1, <2>2 DEF CreateVM
<1>7. CASE WaitDown
  <2>1. /\ vm' = vm /\ op' = op /\ inst' = inst /\ pc = "wait_down"
        /\ pc' \in {"consoles", "report"}
    BY <1>7 DEF WaitDown, WaitForVMStatus
  <2> QED BY <1>1, <1>2, <2>1 DEF ConfInv, StartedConfigured, StepsDone, Required
<1>8. CASE RemoveConsoles
  <2>1. /\ op' = op /\ inst' = inst /\ pc = "consoles"
        /\ vm' = vm \/ (vm.id = inst /\ vm' = Configured(vm, "consoles"))
        /\ pc' = "disk" => ~spec["hp"] \/ vm' = Configured(vm, "consoles")
        /\ pc' \in {"disk", "report"}
    BY <1>8 DEF RemoveConsoles, Configure
  <2>2. pc' \notin ConfigPCs \/ (vm.id = inst => StepsDone')
    BY <1>1, <2>1, VMConf DEF StepsDone
  <2> QED BY <1>1, <2>1, <2>2, ConfStep
<1>9. CASE ExtendDisk
  <2>1. /\ op' = op /\ inst' = inst /\ pc = "disk"
        /\ vm' = vm \/ (vm.id = inst /\ vm' = Configured(vm, "disk"))
        /\ pc' = "nics" => vm' = Configured(vm, "disk")
        /\ pc' \in {"nics", "report", "reconcile_find"}
    BY <1>9 DEF ExtendDisk, ExtendDiskIf
  <2>2. pc' \notin ConfigPCs \/ (vm.id = inst => StepsDone')
    BY <1>1, <2>1, VMConf DEF StepsDone, ConfInv
  <2> QED BY <1>1, <2>1, <2>2, ConfStep
<1>10. CASE ReattachNICs
  <2>1. /\ op' = op /\ inst' = inst /\ pc = "nics"
        /\ vm' = vm \/ (vm.id = inst /\ vm' = Configured(vm, "nics"))
        /\ pc' = "pinning" => ~spec["nics"] \/ vm' = Configured(vm, "nics")
        /\ pc' \in {"pinning", "report"}
    BY <1>10 DEF ReattachNICs, Configure
  <2>2. pc' \notin ConfigPCs \/ (vm.id = inst => StepsDone')
    BY <1>1, <2>1, VMConf DEF StepsDone, ConfInv
  <2> QED BY <1>1, <2>1, <2>2, ConfStep
<1>11. CASE OptimizePinning
  <2>1. /\ op' = op /\ inst' = inst /\ pc = "pinning"
        /\ vm' = vm \/ (vm.id = inst /\ vm' = Configured(vm, "pinning"))
        /\ pc' = "tag" => ~spec["pin"] \/ vm' = Configured(vm, "pinning")
        /\ pc' \in {"tag", "report"}
    BY <1>11 DEF OptimizePinning, Configure
  <2>2. pc' \notin ConfigPCs \/ (vm.id = inst => StepsDone')
    BY <1>1, <2>1, VMConf DEF StepsDone, ConfInv
  <2> QED BY <1>1, <2>1, <2>2, ConfStep
<1>12. CASE AddTag
  <2>1. /\ op' = op /\ inst' = inst /\ pc = "tag"
        /\ vm' = vm \/ (vm.id = inst /\ vm' = Configured(vm, "tag"))
        /\ pc' = "affinity" => vm' = Configured(vm, "tag")
        /\ pc' \in {"affinity", "report"}
    BY <1>12 DEF AddTag, Configure
  <2>2. pc' \notin ConfigPCs \/ (vm.id = inst => StepsDone')
    BY <1>1, <2>1, VMConf DEF StepsDone, ConfInv
  <2> QED BY <1>1, <2>1, <2>2, ConfStep
<1>13. CASE AddAffinity
  <2>1. /\ op' = op /\ inst' = inst /\ pc = "affinity"
        /\ vm' = vm \/ (vm.id = inst /\ vm' = Configured(vm, "affinity"))
        /\ pc' = "start" => ~spec["affinity"] \/ vm' = Configured(vm, "affinity")
        /\ pc' \in {"start", "report"}
    BY <1>13 DEF AddAffinity, Configure
  <2>2. pc' \notin ConfigPCs \/ (vm.id = inst => StepsDone')
    BY <1>1, <2>1, VMConf DEF StepsDone, ConfInv
  <2> QED BY <1>1, <2>1, <2>2, ConfStep
<1>14. CASE StartVM
  <2> DEFINE on == InStatus(Configured(vm, "started"), "powering_up")
  <2>1. on.id = vm.id /\ on.conf = vm.conf \cup {"started"}
    <3>1. Configured(vm, "started") \in VMs
      BY <1>1, VMTyped DEF ConfSteps
    <3> QED BY <1>1, <3>1, VMConf
  <2>2. /\ op' = op /\ inst' = inst /\ pc = "start"
        /\ vm' = vm \/ (vm.id = inst /\ vm' = on)
        /\ pc' = "wait_up" => vm' = on
        /\ pc' \in {"wait_up", "report"}
    BY <1>14 DEF StartVM
  <2> HIDE DEF on
  <2>3. vm.id = inst => Required(spec) \subseteq vm.conf
    BY <2>2 DEF ConfInv, StepsDone, Required
  <2>4. CASE vm' = vm
    BY <1>1, <2>1, <2>2, <2>3, <2>4 DEF ConfInv, StartedConfigured, StepsDone, Required
  <2>5. CASE vm.id = inst /\ vm' = on
    BY <1>1, <2>1, <2>2, <2>3, <2>5 DEF ConfInv, StartedConfigured, StepsDone, Required
  <2> QED BY <2>2, <2>4, <2>5
<1> QED BY <1>3, <1>4, <1>5, <1>6, <1>7, <1>8, <1>9, <1>10, <1>11, <1>12, <1>13, <1>14
        DEF ActuatorStep

\* Reconcile never enters Create's work by itself, and never touches the VM.
LEMMA ConfController ==
  ASSUME ConfInv, ControllerStep
  PROVE  ConfInv'
<1>1. vm' = vm /\ spec' = spec /\ pc' \notin ConfigPCs
  BY DEF ControllerStep, StartReconcile, StartReconcileIf, AddFinalizer, AddFinalizerAs,
         UpdateStatus, PatchAnnotation, StartDeletion, Drain, AfterDelete, AfterDeleteThen,
         AfterDeleteExists, DeleteNode, RemoveFinalizer, AfterExists, AfterUpdate,
         AfterCreate, Finish, Continue, Call, SetPhase, local, engineVars, ConfigPCs
<1> QED BY <1>1, ConfFrame

\* What the engine and administrators do leaves the configuration of a VM alone or
\* removes it.
LEMMA ConfEnvironment ==
  ASSUME TypeOK, ConfInv, Environment
  PROVE  ConfInv'
<1>1. vm \in VMs
  BY DEF TypeOK, ActuatorTypeOK, EngineTypeOK
<1> USE DEF engineVars, actuatorVars
<1>2. ASSUME EngineStep \/ DisturbStep, UNCHANGED <<kubeVars, actuatorVars, goal>>
      PROVE  ConfInv'
  <2>1. (vm'.id = vm.id /\ vm'.conf = vm.conf) \/ (vm'.id = 0 /\ vm'.conf = {})
    BY <1>1, <1>2, VMConf
       DEF EngineStep, DisturbStep, EngineUnlocksImage, EngineBoots, EngineMigrated,
           EnginePowersDown, EngineReportsIP, AdminPowersOff, AdminMigrates,
           AdminRemoves, SetStatus
  <2> QED BY <1>2, <2>1, ConfFrame
<1>3. ASSUME UNCHANGED <<engineVars, disturbs, actuatorVars, goal>>
      PROVE  ConfInv'
  BY <1>3, ConfFrame
<1>4. CASE Crash
  BY <1>4, ConfFrame DEF Crash, Finish, ConfigPCs
<1> QED BY <1>2, <1>3, <1>4 DEF Environment

\* The configuration of the VM follows Create's steps.
LEMMA ConfInvariant == Spec => []ConfInv
<1>1. Init => ConfInv
  <2> SUFFICES ASSUME Init PROVE ConfInv
    OBVIOUS
  <2>1. "started" \notin vm.conf /\ pc \notin ConfigPCs
    BY DEF Init, EngineInit, NoVM, ConfigPCs
  <2> QED BY <2>1 DEF ConfInv, StartedConfigured
<1>2. TypeOK /\ OrphanInv /\ ConfInv /\ [Next]_vars => ConfInv'
  <2> SUFFICES ASSUME TypeOK, OrphanInv, ConfInv, [Next]_vars PROVE ConfInv'
    OBVIOUS
  <2>1. CASE UNCHANGED vars
    BY <2>1, ConfFrame DEF vars, engineVars, actuatorVars
  <2> QED
    BY <2>1, ConfActuator, ConfController, ConfEnvironment DEF Next, Worker
<1> QED BY <1>1, <1>2, TypeCorrect, OrphanInvariant, PTL DEF Spec

\* A VM that was started has everything the provider spec asks for, whatever
\* failed, crashed or was removed on the way (machineScope.create), for every set
\* of provider specs, every bound and stale reads.
THEOREM StartedIsConfigured == Spec => []StartedConfigured
<1>1. ConfInv => StartedConfigured
  BY DEF ConfInv
<1> QED BY <1>1, ConfInvariant, PTL

-----------------------------------------------------------------------------
\* Two Machines agree on what the phase promises.
SameIdentity(a, b) ==
  /\ a.exists = b.exists /\ a.providerID = b.providerID
  /\ a.phase = b.phase /\ a.err = b.err

\* Which fields each write to a Machine sets, among these four.
LEMMA IdentityWritten ==
  ASSUME NEW o \in Machines
  PROVE  /\ \A p, a : /\ WithMain(o, p, a).providerID = p
                      /\ WithMain(o, p, a).exists = o.exists
                      /\ WithMain(o, p, a).phase = o.phase
                      /\ WithMain(o, p, a).err = o.err
         /\ \A a, s : SameIdentity(WithInstance(o, a, s), o)
         /\ \A p, e, s : /\ WithPhase(o, p, e, s).providerID = o.providerID
                         /\ WithPhase(o, p, e, s).exists = o.exists
                         /\ WithPhase(o, p, e, s).phase = p
                         /\ WithPhase(o, p, e, s).err = e
         /\ \A e : /\ WithError(o, e).providerID = o.providerID
                   /\ WithError(o, e).exists = o.exists
                   /\ WithError(o, e).phase = o.phase
                   /\ WithError(o, e).err = e
         /\ \A s : /\ WithStatusOf(o, s).providerID = o.providerID
                   /\ WithStatusOf(o, s).exists = o.exists
                   /\ WithStatusOf(o, s).phase = s.phase
                   /\ WithStatusOf(o, s).err = s.err
         /\ SameIdentity(WithFinalizer(o), o)
         /\ SameIdentity(Linked(o), o)
         /\ SameIdentity(WithoutFinalizer(o), o) \/ WithoutFinalizer(o) = NoMachine
         /\ SameIdentity(Deleted(o), o) \/ Deleted(o) = NoMachine
BY DEF Machines, SameIdentity, WithMain, WithInstance, WithPhase, WithError, WithStatusOf,
       WithFinalizer, Linked, WithoutFinalizer, Deleted, Reaped

\* An object that is not there names no VM and has neither phase nor error.
LEMMA NoIdentity ==
  /\ ~NoMachine.exists /\ NoMachine.providerID = 0
  /\ NoMachine.phase = "" /\ NoMachine.err = "none"
  /\ NewMachine.providerID = 0 /\ NewMachine.phase = "" /\ NewMachine.err = "none"
BY DEF NoMachine, NewMachine

\* The phases that a successful Update leads to.
AfterPhases == {"Provisioned", "Running"}

\* The stored Machine names a VM, unless it is gone.
Named(o) == o.exists => o.providerID # 0

\* Ids are those of VMs created so far.
BoundInv ==
  /\ vm.id <= created
  /\ api.providerID <= created /\ cache.providerID <= created
  /\ m.providerID <= created /\ orig.providerID <= created /\ seen.providerID <= created

\* The inductive strengthening of ProvisionedHasID.  That the stored Machine names
\* a VM is stable, so whoever has read an id may rely on it; only Create and
\* Update put an id into the Machine in memory that may not be stored yet, and
\* they end well only once it is.  A phase is asked for by a reconcile that has
\* read it, or once the id is stored.
NameInv ==
  /\ cache.providerID # 0 => Named(api)
  /\ orig.providerID # 0 => Named(api)
  /\ (op \notin {"create", "update"} \/ pc = "connect") /\ m.providerID # 0 => Named(api)
  /\ seen.providerID # 0 => m.providerID # 0
  /\ pc \in PatchPCs => op \in {"create", "update"}
  /\ pc \in {"reconcile_network", "patch"} => m.providerID # 0
  /\ pc = "patch_status" => Named(api)
  /\ pc = "return" /\ op = "update" /\ res = "ok" => Named(api)
  /\ pc = "update_status" /\ goal \in AfterPhases => goal = m.phase \/ Named(api)
  /\ pc = "patch_annotation" => goal = "Failed"
  /\ pc \in {"deleting", "drain", "delete_node"} => op \notin {"create", "update"}
  /\ api.phase \in AfterPhases => api.providerID # 0

\* A call of the actuator that leaves the Machine alone keeps NameInv.
LEMMA NameFrame ==
  ASSUME NameInv, UNCHANGED <<api, cache, m, orig, seen, op>>,
         pc' \in ActuatorPCs \ {"connect", "reconcile_network", "patch", "patch_status"},
         pc' = "reconcile_find" => op \in {"create", "update"},
         pc' = "return" /\ op = "update" => res' # "ok"
  PROVE  NameInv'
BY DEF NameInv, Named, ActuatorPCs, PatchPCs

\* Every call of the actuator keeps NameInv.
LEMMA NameActuator ==
  ASSUME TypeOK, OrphanInv, LifeInv, ConfInv, NameInv, ActuatorStep, goal' = goal
  PROVE  NameInv'
<1>1. api \in Machines /\ m \in Machines /\ pc \in ActuatorPCs \cup ControllerPCs
  BY DEF TypeOK, ActuatorTypeOK, KubeTypeOK
<1> USE DEF Fault, NoFault, Goto, Return, Report, kubeVars, scopeVars
<1>2. CASE Connect
  <2>1. /\ UNCHANGED <<api, cache, m, seen, op>> /\ pc = "connect" /\ orig' \in {m, orig}
        /\ \/ pc' = "reconcile_find" /\ op = "update"
           \/ pc' \in {"create_find", "delete_find", "exists_find", "report"}
    BY <1>2 DEF Connect, Entry
  <2> QED BY <2>1 DEF NameInv, Named, PatchPCs
<1>3. CASE HandleMachineError
  <2> DEFINE new == WithMain(api, m.providerID, m.annot)
  <2>1. new.providerID = m.providerID /\ new.exists = api.exists /\ new.phase = api.phase
    BY <1>1, IdentityWritten
  <2>2. WithError(m, res).providerID = m.providerID
    BY <1>1, IdentityWritten
  <2> HIDE DEF new
  <2>3. /\ api' = api \/ (api' = new /\ seen = api)
        /\ seen' \in {seen, new} /\ m' \in {new, WithError(m, res)}
        /\ UNCHANGED <<cache, op, orig>> /\ pc = "report"
        /\ pc' = "return" /\ res' \in {res, "other"}
    BY <1>3 DEF HandleMachineError, HandleMachineErrorIf, new
  <2>4. res' # "ok"
    BY <2>3 DEF TypeOK, Reasons
  <2>5. m'.providerID = m.providerID /\ seen'.providerID \in {seen.providerID, m.providerID}
    BY <2>1, <2>2, <2>3
  <2>6. /\ api'.exists = api.exists /\ api'.phase = api.phase
        /\ api.providerID # 0 => api'.providerID # 0
    BY <2>1, <2>3 DEF NameInv
  <2> QED BY <2>3, <2>4, <2>5, <2>6 DEF NameInv, Named, PatchPCs
<1>4. CASE ExistsFind
  BY <1>4, NameFrame DEF ExistsFind, ActuatorPCs
<1>5. CASE CreateFind
  BY <1>5, NameFrame DEF CreateFind, ActuatorPCs, OrphanInv
<1>6. CASE Prepare \/ CreateVM
  BY <1>6, NameFrame DEF Prepare, CreateVM, ActuatorPCs
<1>7. CASE WaitDown \/ WaitStopped
  BY <1>7, NameFrame DEF WaitDown, WaitStopped, WaitForVMStatus, ActuatorPCs
<1>8. CASE WaitUp
  <2>1. op = "create"
    BY <1>8 DEF WaitUp, WaitForVMStatus, ConfInv, ConfigPCs
  <2> QED BY <1>8, <2>1, NameFrame DEF WaitUp, WaitForVMStatus, ActuatorPCs
<1>9. CASE RemoveConsoles \/ ReattachNICs \/ OptimizePinning \/ AddTag \/ AddAffinity
  BY <1>9, NameFrame DEF RemoveConsoles, ReattachNICs, OptimizePinning, AddTag,
                         AddAffinity, Configure, ActuatorPCs
<1>10. CASE ExtendDisk
  <2>1. op = "create"
    BY <1>10 DEF ExtendDisk, ExtendDiskIf, ConfInv, ConfigPCs
  <2> QED BY <1>10, <2>1, NameFrame DEF ExtendDisk, ExtendDiskIf, ActuatorPCs
<1>11. CASE StartVM
  BY <1>11, NameFrame DEF StartVM, ActuatorPCs
<1>12. CASE DeleteFind \/ StopVM \/ RemoveVM
  <2>1. op = "delete"
    BY <1>12 DEF DeleteFind, DeleteFindOr, StopVM, StopVMThen, RemoveVM, LifeInv, DeletePCs
  <2> QED BY <1>12, <2>1, NameFrame
          DEF DeleteFind, DeleteFindOr, StopVM, StopVMThen, RemoveVM, ActuatorPCs
<1>13. CASE ReconcileFind
  <2>1. Exists(vm) => WithMain(m, vm.id, vm.status).providerID # 0
    BY <1>1, IdentityWritten DEF Exists
  <2>2. /\ UNCHANGED <<api, cache, op, orig, seen>> /\ pc = "reconcile_find"
        /\ \/ pc' = "report" /\ m' = m
           \/ pc' = "reconcile_network" /\ m'.providerID # 0
    BY <1>13, <2>1 DEF ReconcileFind
  <2> QED BY <2>2 DEF NameInv, Named, PatchPCs
<1>14. CASE ReconcileNetwork
  <2>1. \A a, st : WithInstance(m, a, st).providerID = m.providerID
    BY <1>1, IdentityWritten DEF SameIdentity
  <2>2. /\ UNCHANGED <<api, cache, op, orig, seen>> /\ pc = "reconcile_network"
        /\ m'.providerID = m.providerID /\ pc' \in {"patch", "report", "panic"}
    BY <1>14, <2>1 DEF ReconcileNetwork
  <2> QED BY <2>2 DEF NameInv, Named, PatchPCs
<1>15. CASE PatchMain
  <2> DEFINE id  == Merged(orig.providerID, m.providerID, api.providerID)
             new == WithMain(api, id, Merged(orig.annot, m.annot, api.annot))
  <2>1. api.exists /\ m.providerID # 0 /\ op \in {"create", "update"}
    BY <1>15 DEF PatchMain, PatchProviderID, NameInv, PatchPCs
  <2>2. id # 0
    BY <2>1 DEF NameInv, Named, Merged
  <2>3. new \in Machines /\ new.providerID = id /\ new.phase = api.phase /\ new.exists
    <3>1. id \in Nat /\ Merged(orig.annot, m.annot, api.annot) \in InstanceStates
      BY MachineFields, MergedTyped DEF TypeOK, ActuatorTypeOK, KubeTypeOK
    <3> QED BY <1>1, <2>1, <3>1, WithMainTyped, IdentityWritten
  <2>4. WithStatusOf(new, m).providerID = id
    BY <2>3, IdentityWritten
  <2> HIDE DEF new, id
  <2>5. /\ UNCHANGED <<cache, op, orig>>
        /\ \/ api' = new /\ seen' = new /\ m' = WithStatusOf(new, m) /\ pc' = "patch_status"
           \/ api' \in {api, new} /\ UNCHANGED <<m, seen>> /\ pc' = "report"
    BY <1>15 DEF PatchMain, PatchProviderID, new, id
  <2>6. Named(api') \/ api' = api
    BY <2>2, <2>3, <2>5 DEF Named
  <2>7. m'.providerID # 0
    BY <2>1, <2>2, <2>4, <2>5
  <2> QED BY <2>1, <2>2, <2>3, <2>5, <2>6, <2>7 DEF NameInv, Named, PatchPCs
<1>16. CASE PatchStatus
  <2> DEFINE new == WithInstance(api, Merged(orig.addr, m.addr, api.addr),
                                      Merged(orig.pstate, m.pstate, api.pstate))
  <2>1. SameIdentity(new, api)
    BY <1>1, IdentityWritten
  <2> HIDE DEF new
  <2>2. /\ UNCHANGED <<cache, op, orig>> /\ pc = "patch_status"
        /\ \/ /\ api.exists /\ api' = new /\ seen' = new /\ m' = new /\ pc' = "return"
           \/ api' \in {api, new} /\ UNCHANGED <<m, seen>> /\ pc' = "report"
    BY <1>16 DEF PatchStatus, new
  <2>3. Named(api) /\ op \in {"create", "update"}
    BY <2>2 DEF NameInv, PatchPCs
  <2> QED BY <2>1, <2>2, <2>3 DEF NameInv, Named, PatchPCs, SameIdentity
<1> QED BY <1>2, <1>3, <1>4, <1>5, <1>6, <1>7, <1>8, <1>9, <1>10, <1>11, <1>12, <1>13,
           <1>14, <1>15, <1>16 DEF ActuatorStep

\* The end of a reconcile keeps NameInv if the stored Machine goes on naming a VM.
LEMMA NameFinish ==
  ASSUME NameInv, Finish,
         Named(api) => Named(api'), cache' \in {cache, api}, api' = api \/ cache' = cache,
         api'.phase \in AfterPhases => api'.providerID # 0
  PROVE  NameInv'
<1>1. m'.providerID = 0 /\ orig'.providerID = 0 /\ seen'.providerID = 0 /\ pc' = "idle"
  BY NoIdentity DEF Finish
<1>2. cache'.providerID # 0 => Named(api')
  BY DEF NameInv, Named
<1> QED BY <1>1, <1>2 DEF NameInv, PatchPCs

\* What follows an operation, and the deletion branch, leave the Machine alone.
LEMMA NameContinue ==
  ASSUME NameInv, UNCHANGED <<api, cache, m, orig, seen>>, pc' \notin PatchPCs,
         pc' \notin {"return", "patch_annotation", "update_status"},
         pc' = "connect" \/ op' = op,
         op \notin {"create", "update"}
  PROVE  NameInv'
BY DEF NameInv, Named, PatchPCs

\* Every step of Reconcile keeps NameInv: it asks for Provisioned or Running only
\* after an Update that stored the id.
LEMMA NameController ==
  ASSUME TypeOK, NameInv, ControllerStep
  PROVE  NameInv'
<1>1. api \in Machines /\ m \in Machines
  BY DEF TypeOK, ActuatorTypeOK, KubeTypeOK
<1>2. ASSUME Finish, UNCHANGED <<api, cache>>
      PROVE  NameInv'
  BY <1>2, NameFinish DEF NameInv
<1> USE DEF Fault, NoFault, Continue, Call, SetPhase, local, kubeVars
<1>3. CASE StartReconcile
  <2>1. /\ UNCHANGED <<api, cache, orig>> /\ m' = cache /\ seen' = cache
        /\ pc' \in {"add_finalizer", "update_status", "connect"}
        /\ pc' = "update_status" => goal' = "Deleting"
    BY <1>3 DEF StartReconcile, StartReconcileIf
  <2> QED BY <2>1 DEF NameInv, Named, PatchPCs, AfterPhases
<1>4. CASE AddFinalizer
  <2>1. Finish /\ cache' = cache /\ api' \in {api, WithFinalizer(api)}
    BY <1>4 DEF AddFinalizer, AddFinalizerAs
  <2>2. SameIdentity(WithFinalizer(api), api)
    BY <1>1, IdentityWritten
  <2> QED BY <2>1, <2>2, NameFinish DEF SameIdentity, NameInv, Named
<1>5. CASE UpdateStatus
  <2> DEFINE new == WithPhase(api, Merged(m.phase, goal, api.phase),
                                   Merged(m.err, StatusError, api.err),
                                   Merged(m.pstate, StatusState, api.pstate))
  <2>1. /\ new.providerID = api.providerID /\ new.exists = api.exists
        /\ new.phase = Merged(m.phase, goal, api.phase)
    BY <1>1, IdentityWritten
  <2> HIDE DEF new
  <2>2. /\ pc = "update_status" /\ cache' = cache
        /\ api' = api \/ (api.exists /\ api' = new)
        /\ Finish \/ (m' = new /\ seen' = new /\ api' = new /\ pc' = "deleting"
                       /\ UNCHANGED <<op, orig, goal>> /\ op = "none")
    BY <1>5 DEF UpdateStatus, new
  <2>3. api'.phase \in AfterPhases => api'.providerID # 0
    BY <2>1, <2>2 DEF NameInv, Named, Merged
  <2>4. Named(api) => Named(api')
    BY <2>1, <2>2 DEF Named
  <2> QED BY <2>1, <2>2, <2>3, <2>4, NameFinish DEF NameInv, Named, PatchPCs
<1>6. CASE PatchAnnotation
  <2> DEFINE new == WithMain(api, api.providerID, Merged(m.annot, "Unknown", api.annot))
  <2>1. /\ new.providerID = api.providerID /\ new.exists = api.exists
        /\ new.phase = api.phase
    BY <1>1, IdentityWritten
  <2> HIDE DEF new
  <2>2. /\ pc = "patch_annotation" /\ cache' = cache /\ api' \in {api, new}
        /\ Finish \/ (m' = new /\ seen' = new /\ api' = new /\ pc' = "update_status"
                       /\ UNCHANGED <<op, orig, goal>>)
    BY <1>6 DEF PatchAnnotation, new
  <2>3. api'.phase \in AfterPhases => api'.providerID # 0
    BY <2>1, <2>2 DEF NameInv
  <2>4. Named(api) => Named(api')
    BY <2>1, <2>2 DEF Named
  <2> QED BY <2>1, <2>2, <2>3, <2>4, NameFinish DEF NameInv, Named, PatchPCs, AfterPhases
<1>7. CASE RemoveFinalizer
  <2>1. Finish /\ cache' = cache /\ api' \in {api, WithoutFinalizer(api)}
    BY <1>7 DEF RemoveFinalizer
  <2>2. SameIdentity(WithoutFinalizer(api), api) \/ WithoutFinalizer(api) = NoMachine
    BY <1>1, IdentityWritten
  <2> QED BY <2>1, <2>2, NoIdentity, NameFinish DEF SameIdentity, NameInv, Named, AfterPhases
<1>8. CASE StartDeletion \/ Drain \/ DeleteNode
  <2>1. CASE Finish
    BY <1>2, <1>8, <2>1 DEF StartDeletion, Drain, DeleteNode
  <2>2. CASE ~Finish
    <3>1. op \notin {"create", "update"}
      BY <1>8 DEF StartDeletion, Drain, DeleteNode, NameInv
    <3> QED BY <1>8, <2>2, <3>1, NameContinue DEF StartDeletion, Drain, DeleteNode, PatchPCs
  <2> QED BY <2>1, <2>2
<1>9. CASE AfterDelete \/ AfterDeleteExists
  <2>1. CASE Finish
    BY <1>2, <1>9, <2>1 DEF AfterDelete, AfterDeleteThen, AfterDeleteExists
  <2>2. CASE ~Finish
    BY <1>9, <2>2, NameContinue DEF AfterDelete, AfterDeleteThen, AfterDeleteExists, PatchPCs
  <2> QED BY <2>1, <2>2
<1>10. CASE AfterExists
  BY <1>10 DEF AfterExists, NameInv, Named, PatchPCs, AfterPhases
<1>11. CASE AfterUpdate
  BY <1>11 DEF AfterUpdate, NameInv, Named, PatchPCs, AfterPhases
<1>12. CASE AfterCreate
  <2>1. CASE Finish
    BY <1>2, <1>12, <2>1 DEF AfterCreate
  <2>2. CASE SetPhase("Failed")
    BY <1>12, <2>2 DEF AfterCreate, NameInv, Named, PatchPCs
  <2> QED BY <1>12, <2>1, <2>2 DEF AfterCreate
<1> QED BY <1>3, <1>4, <1>5, <1>6, <1>7, <1>8, <1>9, <1>10, <1>11, <1>12
        DEF ControllerStep

\* Nobody else takes the id from a Machine that goes on to exist.
LEMMA NameEnvironment ==
  ASSUME TypeOK, NameInv, Environment
  PROVE  NameInv'
<1>1. api \in Machines
  BY DEF TypeOK, ActuatorTypeOK, KubeTypeOK
<1> USE DEF kubeVars, actuatorVars
<1>2. ASSUME UNCHANGED <<kubeVars, actuatorVars, goal>>
      PROVE  NameInv'
  BY <1>2 DEF NameInv, Named
<1>3. ASSUME CacheSync, UNCHANGED <<actuatorVars, goal>>
      PROVE  NameInv'
  BY <1>3 DEF CacheSync, NameInv, Named
<1>4. ASSUME UserDeletes \/ NodeLinks, UNCHANGED <<actuatorVars, goal>>
      PROVE  NameInv'
  <2>1. /\ SameIdentity(Linked(api), api)
        /\ SameIdentity(Deleted(api), api) \/ Deleted(api) = NoMachine
    BY <1>1, IdentityWritten
  <2>2. cache' = cache /\ (SameIdentity(api', api) \/ api' = NoMachine)
    BY <1>4, <2>1 DEF UserDeletes, NodeLinks
  <2>3. /\ Named(api) => Named(api')
        /\ api'.phase \in AfterPhases => api'.providerID # 0
    BY <2>2, NoIdentity DEF SameIdentity, Named, NameInv, AfterPhases
  <2> QED BY <1>4, <2>2, <2>3 DEF NameInv
<1>5. CASE Crash
  BY <1>5, NameFinish DEF Crash, NameInv
<1> QED BY <1>2, <1>3, <1>4, <1>5 DEF Environment

\* NameInv holds along every behaviour.
LEMMA NameInvariant == Spec => []NameInv
<1>1. Init => NameInv
  BY NoIdentity DEF Init, KubeInit, NameInv, PatchPCs, AfterPhases
<1>2. TypeOK /\ OrphanInv /\ LifeInv /\ ConfInv /\ NameInv /\ [Next]_vars => NameInv'
  <2> SUFFICES ASSUME TypeOK, OrphanInv, LifeInv, ConfInv, NameInv, [Next]_vars
               PROVE  NameInv'
    OBVIOUS
  <2>1. CASE UNCHANGED vars
    BY <2>1 DEF vars, kubeVars, actuatorVars, NameInv, Named
  <2> QED
    BY <2>1, NameActuator, NameController, NameEnvironment DEF Next, Worker
<1> QED BY <1>1, <1>2, TypeCorrect, OrphanInvariant, LifeInvariant, ConfInvariant, PTL DEF Spec

-----------------------------------------------------------------------------
\* The ids that are in use, and a step that brings in no other one.
IDs == {0, vm.id, api.providerID, cache.providerID, m.providerID, orig.providerID,
        seen.providerID}

IDsKept ==
  {api.providerID, cache.providerID, m.providerID, orig.providerID, seen.providerID}'
    \subseteq IDs

\* Such a step keeps BoundInv.
LEMMA BoundFrame ==
  ASSUME TypeOK, TypeOK', BoundInv, IDsKept, created' \in {created, created + 1},
         vm'.id \in IDs \/ vm'.id <= created'
  PROVE  BoundInv'
<1>1. created \in Nat /\ created' \in Nat /\ created <= created'
  BY DEF TypeOK, ActuatorTypeOK, EngineTypeOK
<1>2. ASSUME NEW i \in IDs PROVE i \in Nat /\ i <= created'
  <2>1. IDs \subseteq Nat
    BY MachineFields, VMTyped DEF IDs, TypeOK, ActuatorTypeOK, EngineTypeOK, KubeTypeOK
  <2>2. i <= created
    BY <1>1, <1>2 DEF BoundInv, IDs
  <2> QED BY <1>1, <1>2, <2>1, <2>2
<1> QED BY <1>2 DEF BoundInv, IDsKept

\* The actuator copies ids, or takes that of the VM.
LEMMA IDsActuator ==
  ASSUME TypeOK, ActuatorStep
  PROVE  IDsKept
<1>1. /\ api \in Machines /\ m \in Machines
      /\ \A p, a : /\ WithMain(api, p, a).providerID = p
                   /\ WithMain(m, p, a).providerID = p
      /\ \A a, st : /\ WithInstance(api, a, st).providerID = api.providerID
                    /\ WithInstance(m, a, st).providerID = m.providerID
      /\ WithError(m, res).providerID = m.providerID
  BY IdentityWritten DEF TypeOK, ActuatorTypeOK, KubeTypeOK, SameIdentity
<1> USE DEF IDsKept, IDs, kubeVars, scopeVars
<1>2. CASE Connect
  BY <1>2 DEF Connect
<1>3. CASE HandleMachineError
  <2>1. /\ api'.providerID \in {api.providerID, m.providerID}
        /\ seen'.providerID \in {seen.providerID, m.providerID}
        /\ m'.providerID = m.providerID /\ cache' = cache /\ orig' = orig
    BY <1>1, <1>3 DEF HandleMachineError, HandleMachineErrorIf
  <2> QED BY <2>1
<1>4. CASE ExistsFind \/ CreateFind \/ Prepare \/ CreateVM
  BY <1>4 DEF ExistsFind, CreateFind, Prepare, CreateVM
<1>5. CASE WaitDown \/ WaitUp \/ WaitStopped
  BY <1>5 DEF WaitDown, WaitUp, WaitStopped, WaitForVMStatus
<1>6. CASE RemoveConsoles \/ ReattachNICs \/ OptimizePinning \/ AddTag \/ AddAffinity
  BY <1>6 DEF RemoveConsoles, ReattachNICs, OptimizePinning, AddTag, AddAffinity, Configure
<1>7. CASE ExtendDisk \/ StartVM
  BY <1>7 DEF ExtendDisk, ExtendDiskIf, StartVM
<1>8. CASE DeleteFind \/ StopVM \/ RemoveVM
  BY <1>8 DEF DeleteFind, DeleteFindOr, StopVM, StopVMThen, RemoveVM
<1>9. CASE ReconcileFind
  <2>1. m'.providerID \in {m.providerID, vm.id} /\ UNCHANGED <<api, cache, orig, seen>>
    BY <1>1, <1>9 DEF ReconcileFind
  <2> QED BY <2>1
<1>10. CASE ReconcileNetwork
  <2>1. m'.providerID = m.providerID /\ UNCHANGED <<api, cache, orig, seen>>
    BY <1>1, <1>10 DEF ReconcileNetwork
  <2> QED BY <2>1
<1>11. CASE PatchMain
  <2> DEFINE id  == Merged(orig.providerID, m.providerID, api.providerID)
             new == WithMain(api, id, Merged(orig.annot, m.annot, api.annot))
  <2>1. id \in {m.providerID, api.providerID}
    BY DEF Merged
  <2>2. new \in Machines
    <3>1. id \in Nat /\ Merged(orig.annot, m.annot, api.annot) \in InstanceStates
      BY MachineFields, MergedTyped DEF TypeOK, ActuatorTypeOK, KubeTypeOK
    <3> QED BY <1>1, <3>1, WithMainTyped
  <2>3. new.providerID = id /\ WithStatusOf(new, m).providerID = id
    BY <1>1, <2>2, IdentityWritten
  <2> HIDE DEF new, id
  <2>4. /\ api' \in {api, new} /\ seen' \in {seen, new} /\ m' \in {m, WithStatusOf(new, m)}
        /\ UNCHANGED <<cache, orig>>
    BY <1>11 DEF PatchMain, PatchProviderID, new, id
  <2> QED BY <2>1, <2>3, <2>4
<1>12. CASE PatchStatus
  <2>1. /\ api'.providerID = api.providerID
        /\ seen'.providerID \in {seen.providerID, api.providerID}
        /\ m'.providerID \in {m.providerID, api.providerID}
        /\ UNCHANGED <<cache, orig>>
    BY <1>1, <1>12 DEF PatchStatus
  <2> QED BY <2>1
<1> QED BY <1>2, <1>3, <1>4, <1>5, <1>6, <1>7, <1>8, <1>9, <1>10, <1>11, <1>12
        DEF ActuatorStep

\* So does Reconcile.
LEMMA IDsController ==
  ASSUME TypeOK, ControllerStep
  PROVE  IDsKept
<1>1. /\ api \in Machines
      /\ \A a : WithMain(api, api.providerID, a).providerID = api.providerID
      /\ \A p, e, st : WithPhase(api, p, e, st).providerID = api.providerID
      /\ WithFinalizer(api).providerID = api.providerID
      /\ WithoutFinalizer(api).providerID \in {0, api.providerID}
      /\ NoMachine.providerID = 0
  <2>1. api \in Machines
    BY DEF TypeOK, ActuatorTypeOK, KubeTypeOK
  <2>2. SameIdentity(WithoutFinalizer(api), api) \/ WithoutFinalizer(api) = NoMachine
    BY <2>1, IdentityWritten
  <2>3. WithoutFinalizer(api).providerID \in {0, api.providerID} /\ NoMachine.providerID = 0
    BY <2>2, NoIdentity DEF SameIdentity
  <2>4. /\ \A a : WithMain(api, api.providerID, a).providerID = api.providerID
        /\ \A p, e, st : WithPhase(api, p, e, st).providerID = api.providerID
    BY <2>1, IdentityWritten
  <2>5. WithFinalizer(api).providerID = api.providerID
    BY <2>1, IdentityWritten DEF SameIdentity
  <2> QED BY <2>1, <2>3, <2>4, <2>5
<1> USE DEF IDsKept, IDs, Finish, Continue, Call, SetPhase, local, kubeVars
<1>2. CASE StartReconcile
  BY <1>2 DEF StartReconcile, StartReconcileIf
<1>3. CASE AddFinalizer
  BY <1>1, <1>3 DEF AddFinalizer, AddFinalizerAs
<1>4. CASE UpdateStatus
  <2>1. /\ api'.providerID = api.providerID /\ cache' = cache
        /\ {m, seen, orig}' \subseteq {m, seen, orig, NoMachine, api'}
    BY <1>1, <1>4 DEF UpdateStatus
  <2> QED BY <1>1, <2>1
<1>5. CASE PatchAnnotation
  <2>1. /\ api'.providerID = api.providerID /\ cache' = cache
        /\ {m, seen, orig}' \subseteq {m, seen, orig, NoMachine, api'}
    BY <1>1, <1>5 DEF PatchAnnotation
  <2> QED BY <1>1, <2>1
<1>6. CASE StartDeletion \/ Drain \/ DeleteNode
  BY <1>1, <1>6 DEF StartDeletion, Drain, DeleteNode
<1>7. CASE AfterDelete \/ AfterDeleteExists
  BY <1>1, <1>7 DEF AfterDelete, AfterDeleteThen, AfterDeleteExists
<1>8. CASE RemoveFinalizer
  <2>1. /\ api'.providerID \in {0, api.providerID} /\ cache' = cache
        /\ {m, seen, orig}' = {NoMachine}
    BY <1>1, <1>8 DEF RemoveFinalizer
  <2> QED BY <1>1, <2>1
<1>9. CASE AfterExists \/ AfterUpdate \/ AfterCreate
  BY <1>1, <1>9 DEF AfterExists, AfterUpdate, AfterCreate
<1> QED BY <1>2, <1>3, <1>4, <1>5, <1>6, <1>7, <1>8, <1>9 DEF ControllerStep

\* So does the environment.
LEMMA IDsEnvironment ==
  ASSUME TypeOK, Environment
  PROVE  IDsKept
<1>1. /\ api \in Machines
      /\ Linked(api).providerID = api.providerID
      /\ Deleted(api).providerID \in {0, api.providerID}
      /\ NoMachine.providerID = 0
  BY IdentityWritten, NoIdentity DEF TypeOK, ActuatorTypeOK, KubeTypeOK, SameIdentity
<1>2. /\ api'.providerID \in {0, api.providerID}
      /\ cache'.providerID \in {cache.providerID, api.providerID}
      /\ UNCHANGED <<m, orig, seen>> \/ Finish
  BY <1>1 DEF Environment, CacheSync, UserDeletes, NodeLinks, Crash, kubeVars, actuatorVars
<1> QED BY <1>1, <1>2 DEF IDsKept, IDs, Finish

\* No id is used that no VM was created with.
LEMMA BoundInvariant == Spec => []BoundInv
<1>1. Init => BoundInv
  <2> SUFFICES ASSUME Init PROVE BoundInv
    OBVIOUS
  <2>1. vm.id = 0 /\ created = 0
    BY DEF Init, EngineInit, NoVM
  <2>2. \A o \in {api, cache, m, orig, seen} : o.providerID = 0
    BY NoIdentity DEF Init, KubeInit
  <2> QED BY <2>1, <2>2 DEF BoundInv
<1>2. /\ TypeOK /\ TypeOK' /\ OrphanInv /\ LifeInv /\ BoundInv /\ [Next]_vars
      => BoundInv'
  <2> SUFFICES ASSUME TypeOK, TypeOK', OrphanInv, LifeInv, BoundInv, [Next]_vars
               PROVE  BoundInv'
    OBVIOUS
  <2>1. CASE UNCHANGED vars
    BY <2>1 DEF vars, engineVars, kubeVars, actuatorVars, BoundInv
  <2>2. CASE ActuatorStep
    <3>1. VMMoves
      BY <2>2, ActuatorMoves
    <3>2. created \in Nat
      BY DEF TypeOK, ActuatorTypeOK, EngineTypeOK
    <3>3. created' \in {created, created + 1} /\ (vm'.id \in IDs \/ vm'.id <= created')
      BY <3>1, <3>2 DEF VMMoves, IDs
    <3> QED BY <2>2, <3>3, IDsActuator, BoundFrame
  <2>3. CASE ControllerStep
    <3>1. UNCHANGED <<vm, created>>
      BY <2>3, ControllerMoves
    <3> QED BY <2>3, <3>1, IDsController, BoundFrame DEF IDs
  <2>4. CASE Environment
    <3>1. created' = created /\ vm'.id \in {0, vm.id}
      BY <2>4, EnvironmentStep DEF EnvironmentMoves
    <3> QED BY <2>4, <3>1, IDsEnvironment, BoundFrame DEF IDs
  <2> QED BY <2>1, <2>2, <2>3, <2>4 DEF Next, Worker
<1> QED BY <1>1, <1>2, TypeCorrect, OrphanInvariant, LifeInvariant, PTL DEF Spec

\* A Machine shown as Provisioned or Running carries the id of a VM that was
\* created for it (reconcileMachineProviderID, patchMachine, Reconcile), over lost
\* answers, conflicts, crashes and stale reads, for every bound.
THEOREM ProvisionedIsNamed == Spec => []ProvisionedHasID
<1>1. TypeOK /\ NameInv /\ BoundInv => ProvisionedHasID
  <2> SUFFICES ASSUME TypeOK, NameInv, BoundInv, api.phase \in AfterPhases
               PROVE  api.providerID \in 1 .. created
    BY DEF ProvisionedHasID, AfterPhases
  <2>1. api.providerID \in Nat /\ created \in Nat
    BY MachineFields DEF TypeOK, ActuatorTypeOK, EngineTypeOK, KubeTypeOK
  <2>2. api.providerID # 0 /\ api.providerID <= created
    BY DEF NameInv, BoundInv
  <2> QED BY <2>1, <2>2
<1> QED BY <1>1, TypeCorrect, NameInvariant, BoundInvariant, PTL

-----------------------------------------------------------------------------
\* A call of the actuator is made between the head of an operation and its return.
LEMMA ActuatorPC ==
  ASSUME ActuatorStep
  PROVE  pc \in ActuatorPCs \ {"return"} /\ pc' # "connect"
BY DEF ActuatorPCs, Goto, Return, Report,
       ActuatorStep, Connect, Entry, HandleMachineError, HandleMachineErrorIf, ExistsFind,
       CreateFind, Prepare, CreateVM, WaitDown, WaitUp, WaitForVMStatus, RemoveConsoles,
       ExtendDisk,
       ExtendDiskIf, ReattachNICs, OptimizePinning, AddTag, AddAffinity, Configure,
       StartVM, DeleteFind, DeleteFindOr, StopVM, StopVMThen, WaitStopped, RemoveVM,
       ReconcileFind, ReconcileNetwork, PatchMain, PatchProviderID, PatchStatus

\* What a call of the actuator leaves of existence, phase and error: it never
\* writes them, and the copies it makes of them are of what is stored, but for
\* the error of an Update that failed.
LEMMA ActuatorIdentity ==
  ASSUME TypeOK, ActuatorStep
  PROVE  /\ pc # "idle"
         /\ api'.exists = api.exists /\ api'.phase = api.phase /\ api'.err = api.err
         /\ m'.phase \in {m.phase, api.phase}
         /\ m'.err \in {m.err, api.err} \/ (pc' = "return" /\ res' = "other")
         /\ seen.exists => seen'.exists
         /\ seen.exists /\ ~api.exists => api' = api
<1>1. /\ api \in Machines /\ m \in Machines
      /\ \A p, a : /\ WithMain(api, p, a).exists = api.exists
                   /\ WithMain(api, p, a).phase = api.phase
                   /\ WithMain(api, p, a).err = api.err
                   /\ WithMain(m, p, a).phase = m.phase
                   /\ WithMain(m, p, a).err = m.err
      /\ \A e : WithError(m, e).phase = m.phase
  BY IdentityWritten DEF TypeOK, ActuatorTypeOK, KubeTypeOK
<1>2. /\ \A a, st : SameIdentity(WithInstance(api, a, st), api)
      /\ \A a, st : SameIdentity(WithInstance(m, a, st), m)
  BY <1>1, IdentityWritten
<1> USE DEF Fault, NoFault, Goto, Return, Report, kubeVars, scopeVars
<1>3. CASE \/ ExistsFind \/ CreateFind \/ Prepare \/ CreateVM \/ DeleteFind
           \/ RemoveVM \/ StartVM \/ ExtendDisk \/ StopVM \/ Connect
  BY <1>3 DEF Connect, ExistsFind, CreateFind, Prepare, CreateVM, DeleteFind, DeleteFindOr,
              RemoveVM, StartVM, ExtendDisk, ExtendDiskIf, StopVM, StopVMThen
<1>4. CASE WaitDown \/ WaitUp \/ WaitStopped
  BY <1>4 DEF WaitDown, WaitUp, WaitStopped, WaitForVMStatus
<1>5. CASE RemoveConsoles \/ ReattachNICs \/ OptimizePinning \/ AddTag \/ AddAffinity
  BY <1>5 DEF RemoveConsoles, ReattachNICs, OptimizePinning, AddTag, AddAffinity, Configure
<1>6. CASE HandleMachineError
  <2> DEFINE new == WithMain(api, m.providerID, m.annot)
  <2>1. new.exists = api.exists /\ new.phase = api.phase /\ new.err = api.err
    BY <1>1
  <2> HIDE DEF new
  <2>2. /\ pc = "report" /\ pc' = "return"
        /\ api' = api \/ (api' = new /\ seen = api)
        /\ seen' = seen \/ (seen' = new /\ seen = api)
        /\ m' = new \/ (m' = WithError(m, res) /\ res' = "other")
    BY <1>6 DEF HandleMachineError, HandleMachineErrorIf, new
  <2> QED BY <1>1, <2>1, <2>2
<1>7. CASE ReconcileFind \/ ReconcileNetwork
  <2>1. /\ UNCHANGED <<api, seen>> /\ pc # "idle"
        /\ m'.phase = m.phase /\ m'.err = m.err
    BY <1>1, <1>2, <1>7 DEF ReconcileFind, ReconcileNetwork, SameIdentity
  <2> QED BY <2>1
<1>8. CASE PatchMain
  <2> DEFINE id  == Merged(orig.providerID, m.providerID, api.providerID)
             st  == Merged(orig.annot, m.annot, api.annot)
             new == WithMain(api, id, st)
  <2>1. new.exists = api.exists /\ new.phase = api.phase /\ new.err = api.err
    BY <1>1
  <2>2. new \in Machines
    <3>1. id \in Nat /\ st \in InstanceStates
      BY MachineFields, MergedTyped DEF TypeOK, ActuatorTypeOK, KubeTypeOK
    <3> QED BY <1>1, <3>1, WithMainTyped
  <2>3. WithStatusOf(new, m).phase = m.phase /\ WithStatusOf(new, m).err = m.err
    BY <2>2, IdentityWritten
  <2> HIDE DEF new, id, st
  <2>4. /\ pc = "patch" /\ api.exists /\ api' \in {api, new} /\ seen' \in {seen, new}
        /\ m' \in {m, WithStatusOf(new, m)}
    BY <1>8 DEF PatchMain, PatchProviderID, new, id, st
  <2> QED BY <2>1, <2>3, <2>4
<1>9. CASE PatchStatus
  <2> DEFINE new == WithInstance(api, Merged(orig.addr, m.addr, api.addr),
                                      Merged(orig.pstate, m.pstate, api.pstate))
  <2>1. SameIdentity(new, api)
    BY <1>2
  <2> HIDE DEF new
  <2>2. /\ pc = "patch_status" /\ m' \in {m, new}
        /\ api' = api \/ (api' = new /\ api.exists)
        /\ seen' = seen \/ (seen' = new /\ api.exists)
    BY <1>9 DEF PatchStatus, new
  <2> QED BY <2>1, <2>2 DEF SameIdentity
<1> QED BY <1>3, <1>4, <1>5, <1>6, <1>7, <1>8, <1>9 DEF ActuatorStep

\* Only the status patch of updateStatus writes phase and error.
LEMMA ControllerIdentity ==
  ASSUME TypeOK, ControllerStep
  PROVE  SameIdentity(api', api) \/ api' = NoMachine \/ UpdateStatus
<1>1. api \in Machines /\ SameIdentity(api, api)
  BY DEF TypeOK, ActuatorTypeOK, KubeTypeOK, SameIdentity
<1>2. /\ \A a : SameIdentity(WithMain(api, api.providerID, a), api)
      /\ SameIdentity(WithFinalizer(api), api)
      /\ SameIdentity(WithoutFinalizer(api), api) \/ WithoutFinalizer(api) = NoMachine
  <2>1. \A a : SameIdentity(WithMain(api, api.providerID, a), api)
    BY <1>1, IdentityWritten DEF SameIdentity
  <2> QED BY <1>1, <2>1, IdentityWritten
<1>3. CASE AddFinalizer \/ PatchAnnotation \/ RemoveFinalizer
  <2>1. \/ api' = api \/ api' = WithFinalizer(api) \/ api' = WithoutFinalizer(api)
        \/ \E a : api' = WithMain(api, api.providerID, a)
    BY <1>3 DEF AddFinalizer, AddFinalizerAs, PatchAnnotation, RemoveFinalizer
  <2> QED BY <1>1, <1>2, <2>1
<1>4. CASE ~(AddFinalizer \/ PatchAnnotation \/ RemoveFinalizer \/ UpdateStatus)
  <2>1. api' = api
    BY <1>4 DEF ControllerStep, StartReconcile, StartReconcileIf, StartDeletion, Drain,
                AfterDelete, AfterDeleteThen, AfterDeleteExists, DeleteNode, AfterExists,
                AfterUpdate, AfterCreate, local, kubeVars
  <2> QED BY <1>1, <2>1
<1> QED BY <1>3, <1>4

\* Nobody but the worker writes phase, error or id: others at most remove the
\* Machine, and a crash ends the reconcile.
LEMMA EnvironmentIdentity ==
  ASSUME TypeOK, Environment
  PROVE  /\ SameIdentity(api', api) \/ api' = NoMachine
         /\ api' = api \/ api.exists
         /\ \/ UNCHANGED <<pc, op, inst, seen, m, orig, res, goal, spec, faults>>
            \/ /\ Finish /\ UNCHANGED <<api, vm, spec, faults>>
               /\ disturbs' # disturbs \/ pc = "panic"
<1>1. api \in Machines /\ SameIdentity(api, api) /\ disturbs \in Nat
  BY DEF TypeOK, ActuatorTypeOK, EngineTypeOK, KubeTypeOK, SameIdentity
<1>2. /\ SameIdentity(Linked(api), api)
      /\ SameIdentity(Deleted(api), api) \/ Deleted(api) = NoMachine
  BY <1>1, IdentityWritten
<1> USE DEF kubeVars, actuatorVars, engineVars
<1>3. CASE Crash
  BY <1>1, <1>3 DEF Crash, Disturb
<1>4. CASE ~Crash
  <2>1. UNCHANGED <<pc, op, inst, seen, m, orig, res, goal, spec, faults>>
    BY <1>4 DEF Environment
  <2>2. api' = api \/ (api.exists /\ api' \in {Linked(api), Deleted(api)})
    BY <1>4 DEF Environment, CacheSync, UserDeletes, NodeLinks
  <2> QED BY <1>1, <1>2, <2>1, <2>2
<1> QED BY <1>3, <1>4

-----------------------------------------------------------------------------
\* A Machine that is still there shows that it is being deleted.
Shown == api.exists => api.phase = "Deleting"

\* Deleting is the last phase, for stale reads too: it is written before Delete is
\* called, and once it is written no live reconcile is running and the cache
\* starts none.
DeletingInv ==
  /\ IF pc = "idle" THEN op = "none" ELSE seen.exists
  /\ ~api.exists => api = NoMachine
  /\ api.phase = "Deleting" => Gone(cache) /\ Gone(api) /\ ~InLiveBranch
  /\ cache.phase = "Deleting" => Shown
  /\ m.phase = "Deleting" => Shown
  /\ pc = "update_status" => \/ op = "none" /\ goal = "Deleting"
                             \/ InLiveBranch /\ goal # "Deleting"
  /\ InDeletion /\ pc # "update_status" => Shown

\* The actuator keeps DeletingInv.
LEMMA DeletingActuator ==
  ASSUME TypeOK, OrphanInv, DeletingInv, ActuatorStep
  PROVE  DeletingInv'
<1>1. op' = op /\ pc' \in ActuatorPCs /\ cache' = cache /\ SameFlags(api', api)
  BY ActuatorFrame DEF OrphanInv, CreatePCs
<1>2. /\ pc # "idle" /\ api'.exists = api.exists /\ api'.phase = api.phase
      /\ m'.phase \in {m.phase, api.phase}
      /\ seen.exists => seen'.exists
      /\ seen.exists /\ ~api.exists => api' = api
  BY ActuatorIdentity
<1>3. Shown' = Shown /\ Gone(api') = Gone(api) /\ InLiveBranch' = InLiveBranch
  BY <1>1, <1>2 DEF Shown, Gone, SameFlags, InLiveBranch
<1>4. pc # "update_status" /\ pc' \notin {"update_status", "idle"}
  BY <1>1, ActuatorPC DEF ActuatorPCs
<1>5. InDeletion' => InDeletion
  BY <1>1 DEF InDeletion, ActuatorPCs
<1>6. m'.phase = "Deleting" => Shown
  BY <1>2 DEF DeletingInv, Shown
<1> QED BY <1>1, <1>2, <1>3, <1>4, <1>5, <1>6 DEF DeletingInv

\* The end of a reconcile keeps DeletingInv if what is stored agrees with the cache.
LEMMA DeletingFinish ==
  ASSUME Finish, ~api'.exists => api' = NoMachine,
         api'.phase = "Deleting" => Gone(cache') /\ Gone(api'),
         cache'.phase = "Deleting" => Shown'
  PROVE  DeletingInv'
<1>1. /\ ~InLiveBranch' /\ ~InDeletion' /\ m'.phase = ""
      /\ pc' = "idle" /\ op' = "none"
  BY NoIdentity DEF Finish, InLiveBranch, InDeletion
<1> QED BY <1>1 DEF DeletingInv

\* Reconcile keeps DeletingInv.
LEMMA DeletingController ==
  ASSUME TypeOK, OrphanInv, LifeInv, NameInv, DeletingInv, ControllerStep
  PROVE  DeletingInv'
<1>1. api \in Machines /\ m \in Machines /\ op \in Ops
  BY DEF TypeOK, ActuatorTypeOK, KubeTypeOK
<1>2. cache' = cache
  BY DEF ControllerStep, StartReconcile, StartReconcileIf, AddFinalizer, AddFinalizerAs,
         UpdateStatus, PatchAnnotation, StartDeletion, Drain, AfterDelete, AfterDeleteThen,
         AfterDeleteExists, DeleteNode, RemoveFinalizer, AfterExists, AfterUpdate,
         AfterCreate, local, kubeVars
<1>3. ASSUME Finish, UNCHANGED api
      PROVE  DeletingInv'
  BY <1>2, <1>3, DeletingFinish DEF DeletingInv, Shown
<1> USE DEF Continue, Call, SetPhase, local, kubeVars
<1>4. CASE StartReconcile
  <2>1. /\ pc = "idle" /\ cache.exists /\ api' = api /\ m' = cache /\ seen' = cache
        /\ \/ pc' = "add_finalizer" /\ op' = op
           \/ pc' = "update_status" /\ goal' = "Deleting" /\ op' = op
           \/ pc' = "connect" /\ op' = "exists" /\ ~cache.deleting
    BY <1>4 DEF StartReconcile, StartReconcileIf
  <2>2. op = "none"
    BY <2>1 DEF DeletingInv
  <2> QED BY <1>2, <2>1, <2>2 DEF DeletingInv, Shown, Gone, InLiveBranch, InDeletion
<1>5. CASE AddFinalizer \/ RemoveFinalizer
  <2>1. Finish /\ ~UpdateStatus
    BY <1>5 DEF AddFinalizer, AddFinalizerAs, RemoveFinalizer, UpdateStatus
  <2>2. SameIdentity(api', api) \/ api' = NoMachine
    BY <2>1, ControllerIdentity
  <2>3. MachineMoves
    BY ControllerMoves
  <2>4. Gone(api) => Gone(api')
    BY <2>3, NoIdentity DEF MachineMoves, SameFlags, Gone
  <2>5. api'.exists => api.exists /\ api'.phase = api.phase
    BY <2>2, NoIdentity DEF SameIdentity
  <2>6. api'.phase \in {api.phase, ""}
    BY <2>2, NoIdentity DEF SameIdentity
  <2>7. ~api'.exists => api' = NoMachine
    <3>1. api' = api \/ (seen = api /\ pc # "idle" /\ api.exists)
      BY <1>5 DEF AddFinalizer, AddFinalizerAs, RemoveFinalizer, DeletingInv
    <3> QED BY <2>2, <3>1 DEF SameIdentity, DeletingInv
  <2> QED BY <1>2, <2>1, <2>4, <2>5, <2>6, <2>7, DeletingFinish DEF DeletingInv, Shown
<1>6. CASE UpdateStatus
  <2> DEFINE new == WithPhase(api, Merged(m.phase, goal, api.phase),
                                   Merged(m.err, StatusError, api.err),
                                   Merged(m.pstate, StatusState, api.pstate))
  <2>1. /\ new.exists = api.exists /\ new.phase = Merged(m.phase, goal, api.phase)
        /\ SameFlags(new, api)
    BY <1>1, IdentityWritten, FlagsKept
  <2> HIDE DEF new
  <2>2. /\ pc = "update_status"
        /\ api' = api \/ (api.exists /\ api' = new)
        /\ \/ Finish
           \/ /\ m' = new /\ seen' = new /\ api' = new /\ api.exists /\ pc' = "deleting"
              /\ op' = op /\ op = "none"
    BY <1>6 DEF UpdateStatus, new
  <2>3. CASE op = "none" /\ goal = "Deleting"
    <3>1. Gone(cache) /\ Gone(api)
      BY <2>2, <2>3 DEF OrphanInv, InDeletion
    <3>2. /\ api' = api \/ (api.exists /\ api' = new)
          /\ api.exists => new.phase = "Deleting"
      BY <2>1, <2>2, <2>3 DEF DeletingInv, Shown, Merged
    <3>3. Gone(api') /\ (Shown => Shown') /\ (~api'.exists => api' = NoMachine)
      BY <2>1, <3>1, <3>2 DEF Gone, SameFlags, Shown, DeletingInv
    <3>4. CASE Finish
      BY <1>2, <3>1, <3>3, <3>4, DeletingFinish DEF DeletingInv
    <3>5. CASE ~Finish
      <4>1. Shown' /\ seen'.exists
        BY <2>1, <2>2, <3>2, <3>5 DEF Shown
      <4> QED BY <1>2, <2>2, <3>1, <3>3, <3>5, <4>1 DEF DeletingInv, InLiveBranch, InDeletion
    <3> QED BY <3>4, <3>5
  <2>4. CASE InLiveBranch /\ goal # "Deleting"
    <3>1. Finish /\ api.exists /\ api.phase # "Deleting" /\ cache.phase # "Deleting"
      BY <2>2, <2>4 DEF InLiveBranch, OrphanInv, Held, DeletingInv, Shown
    <3>2. api'.phase # "Deleting" /\ api'.exists
      BY <2>1, <2>2, <2>4, <3>1 DEF Merged
    <3> QED BY <1>2, <3>1, <3>2, DeletingFinish
  <2> QED BY <2>2, <2>3, <2>4 DEF DeletingInv
<1>7. CASE PatchAnnotation
  <2> DEFINE new == WithMain(api, api.providerID, Merged(m.annot, "Unknown", api.annot))
  <2>1. new.exists = api.exists /\ new.phase = api.phase /\ SameFlags(new, api)
    BY <1>1, IdentityWritten, FlagsKept
  <2> HIDE DEF new
  <2>2. /\ pc = "patch_annotation" /\ api.exists /\ api' \in {api, new}
        /\ Finish \/ (m' = new /\ seen' = new /\ pc' = "update_status"
                       /\ UNCHANGED <<op, goal>>)
    BY <1>7 DEF PatchAnnotation, new
  <2>3. InLiveBranch /\ goal = "Failed" /\ api.phase # "Deleting" /\ cache.phase # "Deleting"
    BY <2>2 DEF OrphanInv, NameInv, DeletingInv, Shown
  <2>4. api'.exists /\ api'.phase # "Deleting"
    BY <2>1, <2>2, <2>3
  <2>5. CASE Finish
    BY <1>2, <2>3, <2>4, <2>5, DeletingFinish
  <2>6. CASE ~Finish
    BY <1>2, <2>1, <2>2, <2>3, <2>4, <2>6 DEF DeletingInv, Shown, InLiveBranch, InDeletion
  <2> QED BY <2>5, <2>6
<1>8. CASE StartDeletion \/ Drain \/ DeleteNode \/ AfterDelete \/ AfterDeleteExists
  <2>1. CASE Finish
    BY <1>3, <1>8, <2>1 DEF StartDeletion, Drain, DeleteNode, AfterDelete, AfterDeleteThen,
                            AfterDeleteExists
  <2>2. CASE ~Finish
    <3>1. /\ UNCHANGED <<api, m, seen>> /\ pc # "idle"
          /\ op' \in {"delete", "delete_exists"} \/ op' = op
          /\ pc' \in {"connect", "drain", "delete_node", "remove_finalizer"}
          /\ pc' = "connect" => op' \in {"delete", "delete_exists"}
          /\ pc \in {"deleting", "drain", "delete_node"} \/ op \in {"delete", "delete_exists"}
          /\ pc # "update_status"
      BY <1>8, <2>2 DEF StartDeletion, Drain, DeleteNode, AfterDelete, AfterDeleteThen,
                        AfterDeleteExists
    <3> QED BY <1>2, <3>1 DEF DeletingInv, Shown, InLiveBranch, InDeletion
  <2> QED BY <2>1, <2>2
<1>9. CASE AfterExists \/ AfterUpdate \/ AfterCreate
  <2>1. CASE Finish
    BY <1>3, <1>9, <2>1 DEF AfterExists, AfterUpdate, AfterCreate
  <2>2. CASE ~Finish
    <3>1. /\ pc = "return" /\ op \in {"exists", "update", "create"}
          /\ UNCHANGED <<api, m, seen>>
          /\ pc' \in {"connect", "patch_annotation", "update_status"}
          /\ op' \in {op, "update", "create"}
          /\ pc' = "update_status" =>
               goal' \in {m.phase, "Failed", "Provisioning", "Provisioned", "Running"}
      BY <1>9, <2>2 DEF AfterExists, AfterUpdate, AfterCreate
    <3>2. m.phase # "Deleting"
      BY <3>1 DEF InLiveBranch, OrphanInv, Held, DeletingInv, Shown
    <3> QED BY <1>2, <3>1, <3>2 DEF DeletingInv, Shown, InLiveBranch, InDeletion
  <2> QED BY <2>1, <2>2
<1> QED BY <1>4, <1>5, <1>6, <1>7, <1>8, <1>9 DEF ControllerStep

\* The environment keeps DeletingInv.
LEMMA DeletingEnvironment ==
  ASSUME TypeOK, LifeInv, DeletingInv, Environment
  PROVE  DeletingInv'
<1>1. /\ SameIdentity(api', api) \/ api' = NoMachine
      /\ api' = api \/ api.exists
  BY EnvironmentIdentity
<1>2. /\ ~api'.exists => api' = NoMachine
      /\ Shown => Shown'
      /\ api'.phase = "Deleting" => api.phase = "Deleting"
  BY <1>1, NoIdentity DEF DeletingInv, SameIdentity, Shown
<1>3. Gone(api) => Gone(api')
  <2>1. api \in Machines /\ (Deleted(api).exists => Deleted(api).deleting)
    BY FlagsSet DEF TypeOK, ActuatorTypeOK, KubeTypeOK
  <2> QED BY <2>1, EnvironmentStep DEF EnvironmentMoves, SameFlags, Gone
<1>4. cache' = cache \/ (cache' = api /\ api' = api)
  BY DEF Environment, CacheSync, UserDeletes, NodeLinks, Crash, kubeVars
<1>5. /\ api'.phase = "Deleting" => Gone(cache')
      /\ cache'.phase = "Deleting" => Shown'
  BY <1>2, <1>4 DEF DeletingInv, Shown
<1>6. CASE Finish
  BY <1>2, <1>3, <1>5, <1>6, DeletingFinish DEF DeletingInv
<1>7. CASE UNCHANGED <<pc, op, seen, m, goal>>
  <2>1. InLiveBranch' = InLiveBranch /\ InDeletion' = InDeletion
    BY <1>7 DEF InLiveBranch, InDeletion
  <2> QED BY <1>2, <1>3, <1>5, <1>7, <2>1 DEF DeletingInv
<1> QED BY <1>6, <1>7, EnvironmentIdentity

\* DeletingInv holds along every behaviour.
LEMMA DeletingInvariant == Spec => []DeletingInv
<1>1. Init => DeletingInv
  BY NoFlags, NoIdentity DEF Init, KubeInit, DeletingInv, Shown, Gone, InLiveBranch, InDeletion
<1>2. TypeOK /\ OrphanInv /\ LifeInv /\ NameInv /\ DeletingInv /\ [Next]_vars
        => DeletingInv'
  <2> SUFFICES ASSUME TypeOK, OrphanInv, LifeInv, NameInv, DeletingInv, [Next]_vars
               PROVE  DeletingInv'
    OBVIOUS
  <2>1. CASE UNCHANGED vars
    BY <2>1 DEF vars, kubeVars, actuatorVars, DeletingInv, Shown, Gone, InLiveBranch, InDeletion
  <2> QED
    BY <2>1, DeletingActuator, DeletingController, DeletingEnvironment DEF Next, Worker
<1> QED BY <1>1, <1>2, TypeCorrect, OrphanInvariant, LifeInvariant, NameInvariant, PTL DEF Spec

-----------------------------------------------------------------------------
\* Nothing has failed so far, and the template has a bootable disk.
Undisturbed == spec["bootable"] /\ faults = 0 /\ disturbs = 0

\* The inductive strengthening of ProvisionedIsComplete: where nothing failed,
\* Create keeps its VM until it is started, so a VM outside Create is a started
\* one; and the phase of a Machine says so only while it has a VM.
CompleteInv ==
  Undisturbed =>
    /\ Exists(vm) /\ pc \notin ConfigPCs => "started" \in vm.conf
    /\ pc \in ConfigPCs => vm.id = inst
    /\ op = "update" => Exists(vm)
    /\ op = "create" => api.phase \notin AfterPhases
    /\ api.phase \in AfterPhases => Exists(vm)
    /\ pc = "update_status" /\ goal \in AfterPhases => goal = m.phase \/ Exists(vm)
    /\ op = "exists" /\ pc = "return" => /\ res = "found" => Exists(vm)
                                         /\ res = "notfound" => ~Exists(vm)

\* While nothing has failed, no call of the actuator loses the VM that Create has
\* made: it reaches the end of Create or is removed by Delete.
LEMMA CompleteVM ==
  ASSUME TypeOK, OrphanInv, LifeInv, ConfInv, CompleteInv, ActuatorStep,
         Undisturbed, ~Fault
  PROVE  /\ pc' \in ConfigPCs => vm'.id = inst'
         /\ Exists(vm') /\ pc' \notin ConfigPCs => "started" \in vm'.conf
         /\ Exists(vm) => Exists(vm') \/ op = "delete"
         /\ pc' = "return" /\ res' = "found" /\ op = "exists" => Exists(vm')
<1>1. vm \in VMs /\ created \in Nat /\ spec["bootable"]
  BY DEF TypeOK, ActuatorTypeOK, EngineTypeOK, Undisturbed
<1>2. /\ Exists(vm) /\ pc \notin ConfigPCs => "started" \in vm.conf
      /\ pc \in ConfigPCs => vm.id = inst
  BY DEF CompleteInv
<1> USE DEF NoFault, Goto, Return, Report, engineVars, scopeVars, ConfigPCs
<1>3. CASE \/ Connect \/ HandleMachineError \/ ExistsFind \/ CreateFind \/ Prepare
           \/ DeleteFind \/ WaitStopped \/ ReconcileFind \/ ReconcileNetwork \/ PatchMain
           \/ PatchStatus
  <2>1. /\ vm' = vm /\ pc' \notin ConfigPCs /\ pc \notin ConfigPCs
        /\ pc' = "return" /\ res' = "found" => Exists(vm) \/ HandleMachineError
    BY <1>3 DEF Connect, Entry, HandleMachineError, HandleMachineErrorIf, ExistsFind,
                CreateFind, Prepare, DeleteFind, DeleteFindOr, WaitStopped, WaitForVMStatus,
                ReconcileFind,
                ReconcileNetwork, PatchMain, PatchProviderID, PatchStatus
  <2>2. HandleMachineError => res' # "found"
    BY DEF HandleMachineError, HandleMachineErrorIf, TypeOK, Reasons
  <2> QED BY <1>2, <2>1, <2>2
<1>4. CASE CreateVM
  <2>1. \/ vm' = vm /\ pc' = "report"
        \/ vm' = NewVM(created + 1) /\ inst' = created + 1 /\ pc' = "wait_down" /\ ~Exists(vm)
    BY <1>4 DEF CreateVM
  <2>2. NewVM(created + 1).id = created + 1
    BY <1>1, VMConf
  <2>3. pc = "create_vm"
    BY <1>4 DEF CreateVM
  <2> QED BY <1>1, <1>2, <2>1, <2>2, <2>3 DEF Exists
<1>5. CASE WaitDown
  <2>1. vm' = vm /\ inst' = inst /\ pc' = "consoles" /\ pc = "wait_down"
    BY <1>2, <1>5 DEF WaitDown, WaitForVMStatus
  <2> QED BY <1>2, <2>1
<1>6. CASE RemoveConsoles \/ ReattachNICs \/ OptimizePinning \/ AddTag \/ AddAffinity
  <2>1. /\ inst' = inst /\ pc' \in ConfigPCs /\ pc \in ConfigPCs
        /\ vm' = vm \/ \E c : vm' = Configured(vm, c)
    BY <1>2, <1>6 DEF RemoveConsoles, ReattachNICs, OptimizePinning, AddTag, AddAffinity,
                      Configure
  <2>2. vm'.id = vm.id
    BY <1>1, <2>1, VMConf
  <2> QED BY <1>2, <2>1, <2>2 DEF Exists
<1>7. CASE ExtendDisk
  <2>1. inst' = inst /\ pc' = "nics" /\ pc = "disk" /\ vm' = Configured(vm, "disk")
    BY <1>1, <1>2, <1>7 DEF ExtendDisk, ExtendDiskIf
  <2>2. vm'.id = vm.id
    BY <1>1, <2>1, VMConf
  <2> QED BY <1>2, <2>1, <2>2 DEF Exists
<1>8. CASE StartVM
  <2>1. /\ inst' = inst /\ pc' = "wait_up" /\ pc = "start"
        /\ vm' = InStatus(Configured(vm, "started"), "powering_up")
    BY <1>2, <1>8 DEF StartVM
  <2>2. Configured(vm, "started") \in VMs /\ Configured(vm, "started").id = vm.id
    BY <1>1, VMTyped, VMConf DEF ConfSteps
  <2>3. vm'.id = vm.id
    BY <2>1, <2>2, VMConf
  <2> QED BY <1>2, <2>1, <2>3 DEF Exists
<1>9. CASE WaitUp
  <2>1. vm' = vm /\ pc = "wait_up" /\ pc' = "reconcile_find"
    BY <1>2, <1>9 DEF WaitUp, WaitForVMStatus
  <2>2. "started" \in vm.conf
    BY <1>2, <2>1 DEF ConfInv, StepsDone
  <2> QED BY <2>1, <2>2
<1>10. CASE StopVM
  <2>1. vm' \in {vm, PoweredOff(vm, "powering_down")} /\ pc' \in {"wait_stopped", "report"}
    BY <1>10 DEF StopVM, StopVMThen
  <2>2. pc = "stop" /\ vm'.id = vm.id /\ vm'.conf = vm.conf
    BY <1>1, <1>10, <2>1, VMConf DEF StopVM, StopVMThen
  <2> QED BY <1>2, <2>1, <2>2 DEF Exists
<1>11. CASE RemoveVM
  <2>1. vm' \in {vm, NoVM} /\ pc = "remove" /\ pc' = "return" /\ res' = "ok"
    BY <1>11 DEF RemoveVM
  <2>2. op = "delete" /\ ~Exists(NoVM)
    BY <1>1, <2>1, VMKept DEF LifeInv, DeletePCs
  <2> QED BY <1>2, <2>1, <2>2
<1> QED BY <1>3, <1>4, <1>5, <1>6, <1>7, <1>8, <1>9, <1>10, <1>11 DEF ActuatorStep

\* The actuator keeps CompleteInv: Delete removes the VM of a Machine whose phase
\* is Deleting.
LEMMA CompleteActuator ==
  ASSUME TypeOK, OrphanInv, LifeInv, ConfInv, DeletingInv, CompleteInv, ActuatorStep
  PROVE  CompleteInv'
<1>1. SUFFICES ASSUME Undisturbed' PROVE CompleteInv'
  BY DEF CompleteInv
<1>2. faults' \in {faults, faults + 1} /\ disturbs' = disturbs /\ spec' = spec
  BY DEF ActuatorStep, Connect, HandleMachineError, HandleMachineErrorIf,
       ExistsFind, CreateFind, Prepare, CreateVM, WaitDown, WaitUp, WaitForVMStatus,
       RemoveConsoles, ExtendDisk, ExtendDiskIf, ReattachNICs, OptimizePinning, AddTag,
       AddAffinity, Configure, StartVM, DeleteFind, DeleteFindOr, StopVM, StopVMThen,
       WaitStopped, RemoveVM, ReconcileFind, ReconcileNetwork, PatchMain,
       PatchProviderID, PatchStatus, Fault, NoFault
<1>3. Undisturbed /\ ~Fault
  BY <1>1, <1>2 DEF Undisturbed, Fault, TypeOK, ActuatorTypeOK
<1>4. /\ pc' \in ConfigPCs => vm'.id = inst'
      /\ Exists(vm') /\ pc' \notin ConfigPCs => "started" \in vm'.conf
      /\ Exists(vm) => Exists(vm') \/ op = "delete"
      /\ pc' = "return" /\ res' = "found" /\ op = "exists" => Exists(vm')
  BY <1>3, CompleteVM
<1>5. /\ op' = op /\ pc' \in ActuatorPCs
      /\ pc' = "return" /\ res' = "notfound" => ~Exists(vm')
  BY ActuatorFrame DEF OrphanInv, CreatePCs
<1>6. api'.phase = api.phase
  BY ActuatorIdentity
<1>7. op = "delete" => api.phase \notin AfterPhases
  <2>1. pc # "update_status"
    BY ActuatorPC DEF ActuatorPCs
  <2> QED BY <2>1, NoIdentity DEF DeletingInv, Shown, InDeletion, AfterPhases
<1> QED BY <1>3, <1>4, <1>5, <1>6, <1>7 DEF CompleteInv, ActuatorPCs

\* Reconcile keeps CompleteInv: it calls Update, and asks for Provisioned or
\* Running, only for a Machine that has a VM.
LEMMA CompleteController ==
  ASSUME TypeOK, OrphanInv, LifeInv, NameInv, CompleteInv, ControllerStep
  PROVE  CompleteInv'
<1>1. SUFFICES ASSUME Undisturbed' PROVE CompleteInv'
  BY DEF CompleteInv
<1>2. /\ faults' \in {faults, faults + 1} /\ disturbs' = disturbs /\ spec' = spec /\ vm' = vm
      /\ pc \notin ConfigPCs /\ pc' \notin ConfigPCs
  BY DEF ControllerStep, StartReconcile,
         StartReconcileIf, AddFinalizer, AddFinalizerAs, UpdateStatus, PatchAnnotation,
         StartDeletion, Drain, AfterDelete, AfterDeleteThen, AfterDeleteExists, DeleteNode,
         RemoveFinalizer, AfterExists, AfterUpdate, AfterCreate, local, engineVars,
         Fault, NoFault, Finish, Continue, Call, SetPhase, ConfigPCs
<1>3. Undisturbed
  BY <1>1, <1>2 DEF Undisturbed, TypeOK, ActuatorTypeOK
<1>4. /\ Exists(vm) => "started" \in vm.conf
      /\ api.phase \in AfterPhases => Exists(vm)
  BY <1>2, <1>3 DEF CompleteInv
<1>5. ASSUME Finish, api'.phase \in AfterPhases => Exists(vm)
      PROVE  CompleteInv'
  BY <1>2, <1>4, <1>5 DEF CompleteInv, Finish
<1> USE DEF Continue, Call, SetPhase, local, kubeVars
<1>6. CASE UpdateStatus
  <2> DEFINE new == WithPhase(api, Merged(m.phase, goal, api.phase),
                                   Merged(m.err, StatusError, api.err),
                                   Merged(m.pstate, StatusState, api.pstate))
  <2>1. new.phase = Merged(m.phase, goal, api.phase)
    BY IdentityWritten DEF TypeOK, ActuatorTypeOK, KubeTypeOK
  <2> HIDE DEF new
  <2>2. /\ pc = "update_status" /\ api' \in {api, new}
        /\ Finish \/ (pc' = "deleting" /\ op' = op /\ op = "none")
    BY <1>6 DEF UpdateStatus, new
  <2>3. api'.phase \in AfterPhases => Exists(vm)
    BY <1>3, <1>4, <2>1, <2>2 DEF CompleteInv, Merged
  <2> QED BY <1>2, <1>4, <1>5, <2>2, <2>3 DEF CompleteInv
<1>7. CASE ~UpdateStatus
  <2>1. SameIdentity(api', api) \/ api' = NoMachine
    BY <1>7, ControllerIdentity
  <2>2. api'.phase \in {api.phase, ""}
    BY <2>1, NoIdentity DEF SameIdentity
  <2>3. api'.phase \in AfterPhases => Exists(vm)
    BY <1>4, <2>2 DEF AfterPhases
  <2>4. CASE Finish
    BY <1>5, <2>3, <2>4
  <2>5. CASE StartReconcile
    <3>1. \/ pc' = "add_finalizer" /\ op' = op
          \/ pc' = "update_status" /\ goal' = "Deleting" /\ op' = op
          \/ pc' = "connect" /\ op' = "exists"
      BY <2>5 DEF StartReconcile, StartReconcileIf
    <3> QED BY <1>2, <1>3, <1>4, <2>2, <2>3, <3>1 DEF CompleteInv, AfterPhases
  <2>6. CASE PatchAnnotation /\ ~Finish
    <3>1. op' = op /\ pc' = "update_status" /\ goal' = "Failed"
      BY <2>6 DEF PatchAnnotation, NameInv
    <3> QED BY <1>2, <1>3, <1>4, <2>2, <2>3, <3>1 DEF CompleteInv, AfterPhases
  <2>7. CASE /\ StartDeletion \/ Drain \/ AfterDelete \/ AfterDeleteExists \/ DeleteNode
             /\ ~Finish
    <3>1. /\ pc' \in {"connect", "drain", "delete_node", "remove_finalizer"}
          /\ op' \in {op, "delete", "delete_exists"}
      BY <2>7 DEF StartDeletion, Drain, AfterDelete, AfterDeleteThen, AfterDeleteExists,
                  DeleteNode
    <3> QED BY <1>2, <1>3, <1>4, <2>2, <2>3, <3>1 DEF CompleteInv, AfterPhases
  <2>8. CASE AfterExists
    <3>1. /\ api' = api /\ op = "exists" /\ pc = "return"
          /\ \/ res = "found" /\ op' = "update" /\ pc' = "connect"
             \/ res = "notfound" /\ op' = "create" /\ pc' = "connect"
             \/ /\ op' = op /\ m' = m /\ pc' \in {"patch_annotation", "update_status"}
                /\ goal' \in {m.phase, "Failed", "Provisioning"}
      BY <2>8 DEF AfterExists
    <3>2. res = "notfound" => api.phase \notin AfterPhases
      BY <1>3, <1>4, <3>1 DEF CompleteInv
    <3> QED BY <1>2, <1>3, <1>4, <3>1, <3>2 DEF CompleteInv, AfterPhases
  <2>9. CASE AfterUpdate
    <3>1. op = "update" /\ op' = op /\ pc' \in {"patch_annotation", "update_status"}
      BY <2>9 DEF AfterUpdate
    <3> QED BY <1>2, <1>3, <1>4, <2>3, <3>1 DEF CompleteInv
  <2>10. CASE AfterCreate /\ ~Finish
    <3>1. /\ op = "create" /\ op' = op /\ goal' = "Failed" /\ api' = api
          /\ pc' \in {"patch_annotation", "update_status"}
      BY <2>10 DEF AfterCreate
    <3> QED BY <1>2, <1>3, <1>4, <3>1 DEF CompleteInv, AfterPhases
  <2>11. AddFinalizer \/ RemoveFinalizer => Finish
    BY DEF AddFinalizer, AddFinalizerAs, RemoveFinalizer
  <2> QED BY <1>7, <2>4, <2>5, <2>6, <2>7, <2>8, <2>9, <2>10, <2>11 DEF ControllerStep
<1> QED BY <1>6, <1>7

\* The environment keeps CompleteInv: without a disturbance it takes no VM away.
LEMMA CompleteEnvironment ==
  ASSUME TypeOK, CompleteInv, Environment
  PROVE  CompleteInv'
<1>1. SUFFICES ASSUME Undisturbed' PROVE CompleteInv'
  BY DEF CompleteInv
<1>2. ~Disturb /\ disturbs' = disturbs
  <2>1. disturbs' = disturbs \/ Disturb
    BY EnvironmentStep DEF EnvironmentMoves
  <2>2. ~Disturb
    BY <1>1 DEF Undisturbed, Disturb, TypeOK, ActuatorTypeOK, EngineTypeOK
  <2> QED BY <2>1, <2>2
<1>3. \/ UNCHANGED <<pc, op, inst, m, res, goal, spec, faults>>
      \/ Finish /\ UNCHANGED <<spec, faults>> /\ pc = "panic"
  BY <1>2, EnvironmentIdentity
<1>4. vm'.id = vm.id /\ vm'.conf = vm.conf
  <2>1. vm \in VMs
    BY DEF TypeOK, ActuatorTypeOK, EngineTypeOK
  <2>2. vm' = vm \/ EngineStep
    BY <1>2 DEF Environment, DisturbStep, AdminPowersOff, AdminMigrates, AdminRemoves, Crash,
                engineVars
  <2> QED BY <2>1, <2>2, VMConf
          DEF EngineStep, EngineUnlocksImage, EngineBoots, EngineMigrated, EnginePowersDown,
              EngineReportsIP, SetStatus
<1>5. api'.phase \in {api.phase, ""}
  BY EnvironmentIdentity, NoIdentity DEF SameIdentity
<1>6. Undisturbed /\ Exists(vm') = Exists(vm)
  BY <1>1, <1>2, <1>3, <1>4 DEF Undisturbed, Exists
<1>7. CASE UNCHANGED <<pc, op, inst, m, res, goal, spec, faults>>
  BY <1>4, <1>5, <1>6, <1>7 DEF CompleteInv, AfterPhases
<1>8. CASE Finish /\ pc = "panic"
  BY <1>4, <1>5, <1>6, <1>8 DEF CompleteInv, AfterPhases, ConfigPCs, Finish
<1> QED BY <1>3, <1>7, <1>8

\* CompleteInv holds along every behaviour.
LEMMA CompleteInvariant == Spec => []CompleteInv
<1>1. Init => CompleteInv
  <2> SUFFICES ASSUME Init PROVE CompleteInv
    OBVIOUS
  <2>1. ~Exists(vm)
    BY DEF Init, EngineInit, Exists, NoVM
  <2>2. pc = "idle" /\ op = "none" /\ api.phase = ""
    BY NoIdentity DEF Init, KubeInit
  <2> QED BY <2>1, <2>2 DEF CompleteInv, ConfigPCs, AfterPhases
<1>2. /\ TypeOK /\ OrphanInv /\ LifeInv /\ ConfInv /\ NameInv /\ DeletingInv
      /\ CompleteInv /\ [Next]_vars
      => CompleteInv'
  <2> SUFFICES ASSUME TypeOK, OrphanInv, LifeInv, ConfInv, NameInv, DeletingInv,
                      CompleteInv, [Next]_vars
               PROVE  CompleteInv'
    OBVIOUS
  <2>1. CASE UNCHANGED vars
    BY <2>1 DEF vars, engineVars, kubeVars, actuatorVars, CompleteInv, Undisturbed
  <2> QED
    BY <2>1, CompleteActuator, CompleteController, CompleteEnvironment DEF Next, Worker
<1> QED BY <1>1, <1>2, TypeCorrect, OrphanInvariant, LifeInvariant, ConfInvariant,
           NameInvariant, DeletingInvariant, PTL DEF Spec

\* Where nothing failed, the VM of a Machine shown as Provisioned or Running has
\* been through every step that its spec asks for and was started (machineScope.
\* create, Reconcile), for every set of specs, every bound and stale reads, if the
\* template has a bootable disk.
THEOREM ProvisionedMachineIsComplete == Spec => []ProvisionedIsComplete
<1>1. ConfInv /\ CompleteInv => ProvisionedIsComplete
  <2> SUFFICES ASSUME ConfInv, CompleteInv, Undisturbed, api.phase \in AfterPhases
               PROVE  Required(spec) \cup {"started"} \subseteq vm.conf
    BY DEF ProvisionedIsComplete, Undisturbed, AfterPhases
  <2>1. Exists(vm) /\ op # "create"
    BY DEF CompleteInv
  <2>2. "started" \in vm.conf
    BY <2>1 DEF CompleteInv, ConfInv
  <2> QED BY <2>2 DEF ConfInv, StartedConfigured
<1> QED BY <1>1, ConfInvariant, CompleteInvariant, PTL
=============================================================================
