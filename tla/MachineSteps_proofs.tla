-------------------------- MODULE MachineSteps_proofs --------------------------
(***************************************************************************)
(* What no step of the provider may do to a Machine, for fresh and for     *)
(* stale reads: take away from it the VM it names, or mark it as Failed    *)
(* while it has a VM.                                                      *)
(***************************************************************************)
EXTENDS MachineProvisioning_proofs

\* What ReplacesOnlyLost relies on: the VM there is is the newest one, and an id
\* in memory that the Machine was not read with is the id of the newest VM, which
\* Create and Update have found after the last one was made.
NewestInv ==
  /\ Exists(vm) => vm.id = created
  /\ pc \in {"reconcile_network", "patch"} => m.providerID = created
  /\ m.providerID # seen.providerID =>
       /\ m.providerID = created
       /\ op \in {"create", "update"}
       /\ pc \notin {"connect"} \cup CreatePCs

\* The actuator keeps NewestInv, and writes an id it was not given only for the
\* newest VM.
LEMMA NewestActuator ==
  ASSUME TypeOK, OrphanInv, LifeInv, NameInv, NewestInv, ActuatorStep
  PROVE  /\ NewestInv'
         /\ api'.providerID \in {api.providerID, created}
<1>1. api \in Machines /\ m \in Machines
  BY DEF TypeOK, ActuatorTypeOK, KubeTypeOK
<1>2. VMMoves
  BY ActuatorMoves
<1>3. created \in Nat
  BY DEF TypeOK, ActuatorTypeOK, EngineTypeOK
<1>4. op' = op /\ pc' # "connect" /\ (pc' \in CreatePCs => pc \in {"connect"} \cup CreatePCs)
  <2>1. op' = op /\ pc' # "connect"
    BY ActuatorFrame, ActuatorPC DEF OrphanInv, CreatePCs
  <2>2. pc' \in CreatePCs => pc \in {"connect"} \cup CreatePCs
    BY DEF CreatePCs, ActuatorStep, Connect, HandleMachineError, HandleMachineErrorIf,
           ExistsFind, CreateFind, Prepare, CreateVM, WaitDown, WaitUp, WaitForVMStatus,
           RemoveConsoles, ExtendDisk, ExtendDiskIf, ReattachNICs, OptimizePinning, AddTag,
           AddAffinity, Configure, StartVM, DeleteFind, DeleteFindOr, StopVM, StopVMThen,
           WaitStopped, RemoveVM, ReconcileFind, ReconcileNetwork, PatchMain,
           PatchProviderID, PatchStatus, Goto, Return, Report
  <2> QED BY <2>1, <2>2
<1> USE DEF Fault, NoFault, Goto, Return, Report, kubeVars, scopeVars
<1>5. CASE CreateVM
  <2>1. /\ UNCHANGED <<api, m, seen>> /\ pc = "create_vm"
        /\ pc' \in {"wait_down", "report"}
    BY <1>5 DEF CreateVM
  <2>2. m.providerID = seen.providerID
    BY <2>1 DEF NewestInv, CreatePCs
  <2>3. Exists(vm') => vm'.id = created'
    BY <1>2, <1>3 DEF VMMoves, NewestInv, Exists
  <2> QED BY <2>1, <2>2, <2>3 DEF NewestInv
<1>6. ASSUME ~CreateVM
      PROVE  created' = created /\ vm'.id \in {0, vm.id}
  BY <1>6, <1>2, <1>3
     DEF VMMoves, ActuatorStep, Connect, HandleMachineError, HandleMachineErrorIf,
         ExistsFind, CreateFind, Prepare, WaitDown, WaitUp, WaitForVMStatus,
         RemoveConsoles, ExtendDisk, ExtendDiskIf, ReattachNICs, OptimizePinning, AddTag,
         AddAffinity, Configure, StartVM, DeleteFind, DeleteFindOr, StopVM, StopVMThen,
         WaitStopped, RemoveVM, ReconcileFind, ReconcileNetwork, PatchMain,
         PatchProviderID, PatchStatus, engineVars
<1>7. CASE HandleMachineError
  <2> DEFINE new == WithMain(api, m.providerID, m.annot)
  <2>1. new.providerID = m.providerID /\ WithError(m, res).providerID = m.providerID
    BY <1>1, IdentityWritten
  <2> HIDE DEF new
  <2>2. /\ pc = "report" /\ pc' = "return"
        /\ api' = api \/ (api' = new /\ seen = api)
        /\ \/ seen' = new /\ m' = new
           \/ seen' = seen /\ m' = WithError(m, res)
        /\ ~CreateVM
    BY <1>7 DEF HandleMachineError, HandleMachineErrorIf, CreateVM, new
  <2>3. m'.providerID = m.providerID /\ seen'.providerID \in {seen.providerID, m.providerID}
    BY <2>1, <2>2
  <2>4. api'.providerID \in {api.providerID, created}
    <3>1. CASE api' = new /\ seen = api
      BY <2>1, <3>1 DEF NewestInv
    <3> QED BY <2>2, <3>1
  <2>5. NewestInv'
    BY <1>4, <1>6, <2>2, <2>3 DEF NewestInv, CreatePCs, Exists
  <2> QED BY <2>4, <2>5
<1>8. CASE ReconcileFind
  <2>1. Exists(vm) => WithMain(m, vm.id, vm.status).providerID = created
    BY <1>1, IdentityWritten DEF NewestInv
  <2>2. /\ UNCHANGED <<api, seen>> /\ pc = "reconcile_find"
        /\ \/ m' = m /\ pc' = "report"
           \/ m'.providerID = created /\ pc' = "reconcile_network"
        /\ ~CreateVM
    BY <1>8, <2>1 DEF ReconcileFind, CreateVM
  <2>3. op \in {"create", "update"}
    BY <2>2 DEF NameInv, PatchPCs
  <2> QED BY <1>4, <1>6, <2>2, <2>3 DEF NewestInv, CreatePCs, Exists
<1>9. CASE ReconcileNetwork
  <2>1. \A a, st : WithInstance(m, a, st).providerID = m.providerID
    BY <1>1, IdentityWritten DEF SameIdentity
  <2>2. /\ UNCHANGED <<api, seen>> /\ pc = "reconcile_network"
        /\ m'.providerID = m.providerID /\ pc' \in {"patch", "report", "panic"}
        /\ ~CreateVM
    BY <1>9, <2>1 DEF ReconcileNetwork, CreateVM
  <2> QED BY <1>4, <1>6, <2>2 DEF NewestInv, CreatePCs, Exists
<1>10. CASE PatchMain
  <2> DEFINE id  == Merged(orig.providerID, m.providerID, api.providerID)
             new == WithMain(api, id, Merged(orig.annot, m.annot, api.annot))
  <2>1. pc = "patch" /\ m.providerID = created
    BY <1>10 DEF PatchMain, PatchProviderID, NewestInv
  <2>2. new \in Machines
    <3>1. id \in Nat /\ Merged(orig.annot, m.annot, api.annot) \in InstanceStates
      BY MachineFields, MergedTyped DEF TypeOK, ActuatorTypeOK, KubeTypeOK
    <3> QED BY <1>1, <3>1, WithMainTyped
  <2>3. /\ new.providerID = id /\ WithStatusOf(new, m).providerID = id
        /\ id \in {api.providerID, created}
    BY <1>1, <2>1, <2>2, IdentityWritten DEF Merged
  <2> HIDE DEF new, id
  <2>4. /\ api' \in {api, new} /\ pc' \in {"patch_status", "report"}
        /\ \/ seen' = new /\ m' = WithStatusOf(new, m)
           \/ UNCHANGED <<seen, m>>
        /\ ~CreateVM
    BY <1>10 DEF PatchMain, PatchProviderID, CreateVM, new, id
  <2>5. NewestInv'
    <3>1. m'.providerID = seen'.providerID \/ UNCHANGED <<seen, m>>
      BY <2>3, <2>4
    <3> QED BY <1>4, <1>6, <2>1, <2>4, <3>1 DEF NewestInv, CreatePCs, Exists
  <2> QED BY <2>3, <2>4, <2>5
<1>11. CASE PatchStatus
  <2> DEFINE new == WithInstance(api, Merged(orig.addr, m.addr, api.addr),
                                      Merged(orig.pstate, m.pstate, api.pstate))
  <2>1. new.providerID = api.providerID
    BY <1>1, IdentityWritten DEF SameIdentity
  <2> HIDE DEF new
  <2>2. /\ pc = "patch_status" /\ api' \in {api, new} /\ pc' \in {"return", "report"}
        /\ (seen' = new /\ m' = new) \/ UNCHANGED <<seen, m>>
        /\ ~CreateVM
    BY <1>11 DEF PatchStatus, CreateVM, new
  <2>3. NewestInv'
    BY <1>4, <1>6, <2>2 DEF NewestInv, CreatePCs, Exists
  <2> QED BY <2>1, <2>2, <2>3
<1>12. CASE /\ ~CreateVM /\ ~HandleMachineError /\ ~ReconcileFind /\ ~ReconcileNetwork
            /\ ~PatchMain /\ ~PatchStatus
  <2>1. /\ UNCHANGED <<api, m, seen>>
        /\ pc' \notin {"reconcile_network", "patch"}
    BY <1>12
       DEF ActuatorStep, Connect, Entry, ExistsFind, CreateFind, Prepare, WaitDown, WaitUp,
           WaitForVMStatus, RemoveConsoles, ExtendDisk, ExtendDiskIf, ReattachNICs,
           OptimizePinning, AddTag, AddAffinity, Configure, StartVM, DeleteFind,
           DeleteFindOr, StopVM, StopVMThen, WaitStopped, RemoveVM
  <2> QED BY <1>4, <1>6, <1>12, <2>1 DEF NewestInv, CreatePCs, Exists
<1> QED BY <1>5, <1>7, <1>8, <1>9, <1>10, <1>11, <1>12

\* Reconcile keeps NewestInv: an operation is called with the Machine as it was
\* read.
LEMMA NewestController ==
  ASSUME TypeOK, OrphanInv, LifeInv, NameInv, DeletingInv, NewestInv, ControllerStep
  PROVE  /\ NewestInv'
         /\ api'.exists => api'.providerID = api.providerID
<1>1. api \in Machines /\ UNCHANGED <<vm, created>>
  BY ControllerMoves DEF TypeOK, ActuatorTypeOK, KubeTypeOK
<1>2. ASSUME m'.providerID = seen'.providerID, pc' \notin {"reconcile_network", "patch"}
      PROVE  NewestInv'
  BY <1>1, <1>2 DEF NewestInv
<1>3. ASSUME Finish
      PROVE  NewestInv'
  BY <1>2, <1>3 DEF Finish
<1> USE DEF Continue, Call, SetPhase, local, kubeVars, CreatePCs
<1>4. CASE UpdateStatus \/ PatchAnnotation
  <2>1. /\ \A a : WithMain(api, api.providerID, a).providerID = api.providerID
        /\ \A p, e, st : WithPhase(api, p, e, st).providerID = api.providerID
    BY <1>1, IdentityWritten
  <2>2. /\ api'.providerID = api.providerID
        /\ Finish \/ (m' = seen' /\ pc' \in {"deleting", "update_status"})
    BY <1>4, <2>1 DEF UpdateStatus, PatchAnnotation
  <2> QED BY <1>2, <1>3, <2>2
<1>5. CASE AddFinalizer \/ RemoveFinalizer
  <2>1. ~UpdateStatus /\ Finish
    BY <1>5 DEF AddFinalizer, AddFinalizerAs, RemoveFinalizer, UpdateStatus
  <2>2. SameIdentity(api', api) \/ api' = NoMachine
    BY <2>1, ControllerIdentity
  <2> QED BY <1>3, <2>1, <2>2, NoIdentity DEF SameIdentity
<1>6. CASE StartReconcile
  <2>1. /\ api' = api /\ m' = cache /\ seen' = cache
        /\ pc' \in {"add_finalizer", "update_status", "connect"}
    BY <1>6 DEF StartReconcile, StartReconcileIf
  <2> QED BY <1>2, <2>1
<1>7. CASE \/ StartDeletion \/ Drain \/ AfterDelete \/ AfterDeleteExists \/ DeleteNode
           \/ AfterExists \/ AfterUpdate \/ AfterCreate
  <2>1. /\ api' = api
        /\ \/ Finish
           \/ /\ UNCHANGED <<m, seen>>
              /\ pc' \notin {"reconcile_network", "patch"} \cup CreatePCs
              /\ (pc' # "connect" /\ op' = op) \/ op \notin {"create", "update"}
    BY <1>7 DEF StartDeletion, Drain, AfterDelete, AfterDeleteThen, AfterDeleteExists,
                DeleteNode, AfterExists, AfterUpdate, AfterCreate, NameInv
  <2>2. CASE ~Finish
    BY <1>1, <2>1, <2>2 DEF NewestInv
  <2> QED BY <1>3, <2>1, <2>2
<1> QED BY <1>4, <1>5, <1>6, <1>7 DEF ControllerStep

\* The environment makes no VM and writes no id, and so keeps NewestInv.
LEMMA NewestEnvironment ==
  ASSUME TypeOK, NewestInv, Environment
  PROVE  /\ NewestInv'
         /\ api'.exists => api'.providerID = api.providerID
<1>1. /\ SameIdentity(api', api) \/ api' = NoMachine
      /\ UNCHANGED <<pc, op, m, seen>> \/ Finish
  BY EnvironmentIdentity
<1>2. created' = created /\ vm'.id \in {0, vm.id}
  BY EnvironmentStep DEF EnvironmentMoves
<1>3. Exists(vm') => vm'.id = created'
  BY <1>2 DEF NewestInv, Exists
<1>4. NewestInv'
  <2>1. CASE UNCHANGED <<pc, op, m, seen>>
    BY <1>2, <1>3, <2>1 DEF NewestInv, Exists
  <2>2. CASE Finish
    BY <1>2, <1>3, <2>2 DEF NewestInv, Exists, Finish
  <2> QED BY <1>1, <2>1, <2>2
<1> QED BY <1>1, <1>4, NoIdentity DEF SameIdentity

\* NewestInv holds along every behaviour.
LEMMA NewestInvariant == Spec => []NewestInv
<1>1. Init => NewestInv
  <2> SUFFICES ASSUME Init PROVE NewestInv
    OBVIOUS
  <2>1. ~Exists(vm) /\ pc = "idle" /\ m = seen
    BY DEF Init, EngineInit, Exists, NoVM
  <2> QED BY <2>1 DEF NewestInv
<1>2. TypeOK /\ OrphanInv /\ LifeInv /\ NameInv /\ DeletingInv /\ NewestInv /\ [Next]_vars
        => NewestInv'
  <2> SUFFICES ASSUME TypeOK, OrphanInv, LifeInv, NameInv, DeletingInv, NewestInv, [Next]_vars
               PROVE  NewestInv'
    OBVIOUS
  <2>1. CASE UNCHANGED vars
    BY <2>1 DEF vars, engineVars, kubeVars, actuatorVars, NewestInv
  <2> QED
    BY <2>1, NewestActuator, NewestController, NewestEnvironment DEF Next, Worker
<1> QED BY <1>1, <1>2, TypeCorrect, OrphanInvariant, LifeInvariant, NameInvariant,
           DeletingInvariant, PTL DEF Spec

\* A Machine gives up the VM it names only for a newer one, after the one it names
\* is gone (patchMachine, handleMachineError, the finalizer Updates), over lost
\* answers, conflicts, crashes, stale reads and VMs removed behind its back, for
\* every bound.
THEOREM NamesItsVM == Spec => ReplacesOnlyLost
<1>1. TypeOK /\ OrphanInv /\ LifeInv /\ NameInv /\ DeletingInv /\ BoundInv /\ NewestInv
        /\ [Next]_vars =>
        [(api.providerID # 0 /\ api'.exists /\ api'.providerID # api.providerID)
           => vm.id # api.providerID /\ api'.providerID > api.providerID]_vars
  <2> SUFFICES ASSUME TypeOK, OrphanInv, LifeInv, NameInv, DeletingInv, BoundInv, NewestInv,
                      Next, api.providerID # 0, api'.exists,
                      api'.providerID # api.providerID
               PROVE  vm.id # api.providerID /\ api'.providerID > api.providerID
    OBVIOUS
  <2>1. api'.providerID \in {api.providerID, created}
    BY NewestActuator, NewestController, NewestEnvironment DEF Next, Worker
  <2>2. api.providerID \in Nat /\ created \in Nat /\ api.providerID <= created
    BY MachineFields DEF TypeOK, ActuatorTypeOK, EngineTypeOK, KubeTypeOK, BoundInv
  <2>3. vm.id \in {0, created}
    BY DEF NewestInv, Exists
  <2> QED BY <2>1, <2>2, <2>3
<1> QED BY <1>1, TypeCorrect, OrphanInvariant, LifeInvariant, NameInvariant,
           DeletingInvariant, BoundInvariant, NewestInvariant, PTL DEF Spec, ReplacesOnlyLost

-----------------------------------------------------------------------------
\* What FailsWithoutVM relies on.  A reconcile of a Machine that lives starts from
\* a copy that has not Failed; the answers that lead to Failed, and the reason, were
\* given while there was no VM, and none is made after them; and the error in memory
\* is the stored one when the status patch is computed.
FailInv ==
  /\ InLiveBranch /\ m.phase = "Failed" => api.phase = "Failed"
  /\ op = "exists" /\ pc = "return" /\ res = "notfound" => ~Exists(vm)
  /\ op = "create" /\ (pc = "connect" \/ (pc \in {"report", "return"} /\ res = "invalid"))
       => ~Exists(vm)
  /\ pc \in {"patch_annotation", "update_status"} /\ goal = "Failed"
       => api.phase = "Failed" \/ (~Exists(vm) /\ StatusError # "none")
  /\ pc = "update_status" /\ goal = "Failed" => m.err = api.err

\* The end of a reconcile keeps FailInv.
LEMMA FailFinish ==
  ASSUME Finish
  PROVE  FailInv'
BY DEF FailInv, Finish, InLiveBranch

\* In Create, only the head of the operation blames the configuration, before it
\* has asked the engine for anything.
LEMMA CreateBlames ==
  ASSUME TypeOK, OrphanInv, ActuatorStep, op = "create",
         pc' \in {"report", "return"}, res' = "invalid"
  PROVE  vm' = vm /\ (pc = "connect" \/ (pc = "report" /\ res = "invalid"))
BY DEF ActuatorStep, Connect, HandleMachineError, HandleMachineErrorIf,
       ExistsFind, CreateFind, Prepare, CreateVM, WaitDown, WaitUp, WaitForVMStatus,
       RemoveConsoles, ExtendDisk, ExtendDiskIf, ReattachNICs, OptimizePinning, AddTag,
       AddAffinity, Configure, StartVM, DeleteFind, DeleteFindOr, StopVM, StopVMThen,
       WaitStopped, RemoveVM, ReconcileFind, ReconcileNetwork, PatchMain,
       PatchProviderID, PatchStatus, Goto, Return, Report, FailureReason, engineVars

\* The actuator keeps FailInv and writes no phase.
LEMMA FailActuator ==
  ASSUME TypeOK, OrphanInv, FailInv, ActuatorStep
  PROVE  FailInv' /\ api'.phase = api.phase
<1>1. /\ op' = op /\ pc' \in ActuatorPCs
      /\ Exists(vm') => Exists(vm) \/ op = "create"
      /\ pc' = "return" /\ res' = "notfound" => ~Exists(vm')
  BY ActuatorFrame DEF OrphanInv, CreatePCs
<1>2. /\ api'.phase = api.phase
      /\ m'.phase \in {m.phase, api.phase}
      /\ pc' \notin {"connect", "patch_annotation", "update_status"}
  BY <1>1, ActuatorPC, ActuatorIdentity DEF ActuatorPCs
<1>3. (InLiveBranch /\ m.phase = "Failed" => api.phase = "Failed")'
  BY <1>1, <1>2 DEF FailInv, InLiveBranch
<1>4. ASSUME op' = "create", pc' \in {"report", "return"}, res' = "invalid"
      PROVE  ~Exists(vm')
  <2>1. vm' = vm /\ (pc = "connect" \/ (pc = "report" /\ res = "invalid"))
    BY <1>1, <1>4, CreateBlames
  <2> QED BY <1>1, <1>4, <2>1 DEF FailInv
<1>5. FailInv'
  BY <1>1, <1>2, <1>3, <1>4 DEF FailInv
<1> QED BY <1>2, <1>5

\* Reconcile keeps FailInv: it asks for Failed only after Exists answered no, or
\* after Create refused the configuration of a Machine without a VM.  A Machine
\* becomes Failed only by the status patch that follows.
LEMMA FailController ==
  ASSUME TypeOK, OrphanInv, NameInv, DeletingInv, FailInv, ControllerStep
  PROVE  /\ FailInv'
         /\ api.phase # "Failed" /\ api'.phase = "Failed"
              => ~Exists(vm) /\ api'.err # "none"
<1>1. api \in Machines /\ m \in Machines /\ vm' = vm
  BY DEF TypeOK, ActuatorTypeOK, KubeTypeOK, ControllerStep, StartReconcile,
         StartReconcileIf, AddFinalizer, AddFinalizerAs, UpdateStatus, PatchAnnotation,
         StartDeletion, Drain, AfterDelete, AfterDeleteThen, AfterDeleteExists, DeleteNode,
         RemoveFinalizer, AfterExists, AfterUpdate, AfterCreate, local, engineVars
<1> USE DEF Fault, NoFault, Continue, Call, SetPhase, local, kubeVars
<1>2. CASE UpdateStatus
  <2> DEFINE new == WithPhase(api, Merged(m.phase, goal, api.phase),
                                   Merged(m.err, StatusError, api.err),
                                   Merged(m.pstate, StatusState, api.pstate))
  <2>1. /\ new.phase = Merged(m.phase, goal, api.phase)
        /\ new.err = Merged(m.err, StatusError, api.err)
    BY <1>1, IdentityWritten
  <2> HIDE DEF new
  <2>2. /\ pc = "update_status" /\ api' \in {api, new}
        /\ \/ Finish
           \/ pc' = "deleting" /\ op' = op /\ op = "none"
    BY <1>2 DEF UpdateStatus, new
  <2>3. FailInv'
    BY <2>2, FailFinish DEF FailInv, InLiveBranch
  <2>4. ASSUME api.phase # "Failed", api'.phase = "Failed"
        PROVE  ~Exists(vm) /\ api'.err # "none"
    <3>1. api' = new /\ goal = "Failed"
      BY <2>1, <2>2, <2>4 DEF Merged
    <3>2. ~Exists(vm) /\ StatusError # "none" /\ m.err = api.err
      BY <2>2, <2>4, <3>1 DEF FailInv
    <3> QED BY <2>1, <3>1, <3>2 DEF Merged
  <2> QED BY <2>3, <2>4
<1>3. ASSUME ~UpdateStatus
      PROVE  api'.phase \in {api.phase, ""}
  BY <1>3, ControllerIdentity, NoIdentity DEF SameIdentity
<1>4. CASE AddFinalizer \/ RemoveFinalizer
  <2>1. Finish /\ ~UpdateStatus
    BY <1>4 DEF AddFinalizer, AddFinalizerAs, RemoveFinalizer, UpdateStatus
  <2> QED BY <1>3, <2>1, FailFinish
<1>5. CASE PatchAnnotation
  <2> DEFINE new == WithMain(api, api.providerID, Merged(m.annot, "Unknown", api.annot))
  <2>1. new.err = api.err /\ new.phase = api.phase
    BY <1>1, IdentityWritten
  <2> HIDE DEF new
  <2>2. /\ pc = "patch_annotation" /\ goal = "Failed" /\ api' \in {api, new}
        /\ \/ Finish
           \/ /\ m' = new /\ api' = new /\ pc' = "update_status"
              /\ UNCHANGED <<op, res, goal>>
    BY <1>5 DEF PatchAnnotation, NameInv, new
  <2>3. FailInv'
    <3>1. CASE ~Finish
      <4>1. api'.phase = api.phase /\ m'.phase = api.phase /\ m'.err = api'.err
        BY <2>1, <2>2, <3>1
      <4>2. StatusError' = StatusError
        BY <2>2, <3>1 DEF StatusError
      <4> QED BY <1>1, <2>2, <3>1, <4>1, <4>2 DEF FailInv
    <3> QED BY <3>1, FailFinish
  <2> QED BY <2>1, <2>2, <2>3
<1>6. CASE StartReconcile
  <2>1. /\ pc = "idle" /\ api' = api /\ m' = cache
        /\ \/ pc' = "add_finalizer" /\ op' = op
           \/ pc' = "update_status" /\ goal' = "Deleting" /\ op' = op
           \/ pc' = "connect" /\ op' = "exists" /\ cache.phase # "Failed"
    BY <1>6 DEF StartReconcile, StartReconcileIf
  <2>2. op = "none"
    BY <2>1 DEF DeletingInv
  <2> QED BY <1>1, <2>1, <2>2 DEF FailInv, InLiveBranch
<1>7. CASE StartDeletion \/ Drain \/ DeleteNode \/ AfterDelete \/ AfterDeleteExists
  <2>1. api' = api
    BY <1>7 DEF StartDeletion, Drain, DeleteNode, AfterDelete, AfterDeleteThen,
                AfterDeleteExists
  <2>2. CASE ~Finish
    <3>1. /\ m' = m
          /\ op' \in {"delete", "delete_exists"} \/ op' = op
          /\ pc' \in {"connect", "drain", "delete_node", "remove_finalizer"}
          /\ pc' = "connect" => op' \in {"delete", "delete_exists"}
      BY <1>7, <2>2 DEF StartDeletion, Drain, DeleteNode, AfterDelete, AfterDeleteThen,
                        AfterDeleteExists
    <3> QED BY <1>1, <2>1, <3>1 DEF FailInv, InLiveBranch
  <2> QED BY <2>1, <2>2, FailFinish
<1>8. CASE AfterExists \/ AfterUpdate \/ AfterCreate
  <2>1. UNCHANGED <<api, m>> \/ Finish
    BY <1>8 DEF AfterExists, AfterUpdate, AfterCreate
  <2>2. api' = api
    BY <1>8 DEF AfterExists, AfterUpdate, AfterCreate
  <2>3. CASE ~Finish
    <3>1. /\ pc = "return" /\ op \in {"exists", "update", "create"}
          /\ pc' \in {"connect", "patch_annotation", "update_status"}
          /\ op' \in {op, "update", "create"}
          /\ pc' = "connect" /\ op' = "create" => op = "exists" /\ res = "notfound"
          /\ pc' = "update_status" => goal' # "Failed"
          /\ pc' = "patch_annotation" =>
               \/ goal' = m.phase
               \/ /\ op' = op /\ res' = res
                  /\ \/ op = "exists" /\ res = "notfound"
                     \/ op = "create" /\ res = "invalid"
      BY <1>8, <2>3 DEF AfterExists, AfterUpdate, AfterCreate
    <3>2. InLiveBranch
      BY <3>1 DEF InLiveBranch
    <3>3. (InLiveBranch /\ m.phase = "Failed" => api.phase = "Failed")'
      BY <2>1, <2>3, <3>2 DEF FailInv
    <3>4. pc' = "connect" /\ op' = "create" => ~Exists(vm')
      BY <1>1, <3>1 DEF FailInv
    <3>5. ASSUME pc' = "patch_annotation", goal' = "Failed"
          PROVE  api'.phase = "Failed" \/ (~Exists(vm') /\ StatusError' # "none")
      <4>1. CASE m.phase = "Failed"
        BY <2>2, <3>2, <4>1 DEF FailInv
      <4>2. CASE m.phase # "Failed"
        BY <1>1, <3>1, <3>5, <4>2 DEF FailInv, StatusError
      <4> QED BY <4>1, <4>2
    <3>6. FailInv'
      BY <3>1, <3>3, <3>4, <3>5 DEF FailInv, Exists
    <3> QED BY <2>2, <3>6
  <2> QED BY <2>2, <2>3, FailFinish
<1> QED BY <1>2, <1>4, <1>5, <1>6, <1>7, <1>8 DEF ControllerStep

\* The environment makes no VM and writes no phase, and so keeps FailInv.
LEMMA FailEnvironment ==
  ASSUME TypeOK, OrphanInv, DeletingInv, FailInv, Environment
  PROVE  FailInv' /\ api'.phase \in {api.phase, ""}
<1>1. SameIdentity(api', api) \/ api' = NoMachine
  BY EnvironmentIdentity
<1>2. Exists(vm') => Exists(vm)
  BY EnvironmentStep DEF EnvironmentMoves, Exists
<1>3. FailInv'
  <2>1. CASE UNCHANGED <<pc, op, m, res, goal>>
    <3>1. InLiveBranch => api'.phase = api.phase /\ api'.err = api.err
      <4>1. InLiveBranch' => api'.exists
        BY OrphanEnvironment DEF OrphanInv, Held
      <4>2. InLiveBranch' = InLiveBranch
        BY <2>1 DEF InLiveBranch
      <4> QED BY <1>1, <4>1, <4>2, NoIdentity DEF SameIdentity
    <3>2. pc \in {"patch_annotation", "update_status"} /\ goal = "Failed" => InLiveBranch
      BY DEF OrphanInv, DeletingInv
    <3>3. StatusError' = StatusError /\ InLiveBranch' = InLiveBranch
      BY <2>1 DEF StatusError, InLiveBranch
    <3> QED BY <1>2, <2>1, <3>1, <3>2, <3>3 DEF FailInv
  <2> QED BY <2>1, EnvironmentIdentity, FailFinish
<1> QED BY <1>1, <1>3, NoIdentity DEF SameIdentity

\* FailInv holds along every behaviour.
LEMMA FailInvariant == Spec => []FailInv
<1>1. Init => FailInv
  BY DEF Init, FailInv, InLiveBranch
<1>2. TypeOK /\ OrphanInv /\ NameInv /\ DeletingInv /\ FailInv /\ [Next]_vars => FailInv'
  <2> SUFFICES ASSUME TypeOK, OrphanInv, NameInv, DeletingInv, FailInv, [Next]_vars
               PROVE  FailInv'
    OBVIOUS
  <2>1. CASE UNCHANGED vars
    BY <2>1 DEF vars, engineVars, kubeVars, actuatorVars, FailInv, InLiveBranch, StatusError
  <2> QED
    BY <2>1, FailActuator, FailController, FailEnvironment DEF Next, Worker
<1> QED BY <1>1, <1>2, TypeCorrect, OrphanInvariant, NameInvariant, DeletingInvariant, PTL
        DEF Spec

\* A Machine becomes Failed only while it has no VM, and with a reason in the same
\* patch (Reconcile, updateStatus), over lost answers, conflicts, crashes and stale
\* reads, for every bound.
THEOREM FailedOnlyWithoutVM == Spec => FailsWithoutVM
<1>1. TypeOK /\ OrphanInv /\ NameInv /\ DeletingInv /\ FailInv /\ [Next]_vars =>
        [api.phase # "Failed" /\ api'.phase = "Failed"
           => ~Exists(vm) /\ api'.err # "none"]_vars
  <2> SUFFICES ASSUME TypeOK, OrphanInv, NameInv, DeletingInv, FailInv, Next,
                      api.phase # "Failed", api'.phase = "Failed"
               PROVE  ~Exists(vm) /\ api'.err # "none"
    OBVIOUS
  <2> QED BY FailActuator, FailController, FailEnvironment DEF Next, Worker
<1> QED BY <1>1, TypeCorrect, OrphanInvariant, NameInvariant, DeletingInvariant,
           FailInvariant, PTL DEF Spec, FailsWithoutVM
=============================================================================
