------------------------- MODULE MachineController -------------------------
(***************************************************************************)
(* The reconcile loop of the machine controller (vendored from             *)
(* machine-api-operator, started by cmd/manager) around the actuator, with *)
(* one worker and one Machine, composed with the engine, the API server,   *)
(* the informer cache, the user and crashes of the manager.                *)
(*                                                                         *)
(* A reconcile starts whenever the worker is idle: watch events, requeues  *)
(* and the ten-minute resync of main.go put the Machine back on the queue. *)
(* A reconcile that changes nothing (the Machine is not in the cache, its  *)
(* cluster label or providerSpec is missing, or it has Failed) is not a    *)
(* step.                                                                   *)
(***************************************************************************)
EXTENDS MachineActuator

CONSTANT
  StaleReads   \* FALSE: a reconcile starts only once the cache has caught up

ASSUME StaleReadsAssumption == StaleReads \in BOOLEAN

VARIABLE goal  \* the phase updateStatus is asked for

vars == <<engineVars, disturbs, kubeVars, actuatorVars, goal>>

ControllerPCs == {"idle", "add_finalizer", "patch_annotation", "update_status",
                  "deleting", "drain", "delete_node", "remove_finalizer"}

TypeOK ==
  /\ ActuatorTypeOK
  /\ pc \in ActuatorPCs \cup ControllerPCs
  /\ pc = "report" => res \in Reasons
  /\ goal \in Phases

Init ==
  /\ EngineInit /\ KubeInit
  /\ spec \in ProviderSpecs
  /\ pc = "idle" /\ op = "none" /\ res = "ok" /\ inst = 0 /\ goal = ""
  /\ m = NoMachine /\ orig = NoMachine /\ seen = NoMachine
  /\ faults = 0

-----------------------------------------------------------------------------
\* Reconcile returns: its local variables are gone.
Finish ==
  /\ pc' = "idle" /\ op' = "none" /\ res' = "ok" /\ inst' = 0 /\ goal' = ""
  /\ m' = NoMachine /\ orig' = NoMachine /\ seen' = NoMachine

\* Reconcile goes on at l.
Continue(l) == pc' = l /\ UNCHANGED <<op, m, orig, seen, inst, res, goal>>

\* Reconcile calls operation o of the actuator.
Call(o) ==
  /\ pc' = "connect" /\ op' = o
  /\ UNCHANGED <<m, orig, seen, inst, res, goal>>

\* Reconcile calls updateStatus(phase), which starts with the annotation if
\* the phase is Failed.
SetPhase(phase) ==
  /\ pc' = IF phase = "Failed" THEN "patch_annotation" ELSE "update_status"
  /\ goal' = phase
  /\ UNCHANGED <<op, m, orig, seen, inst, res>>

\* machineIsProvisioned
Provisioned(o) == o.addr # "none" \/ o.providerID # 0

local == <<engineVars, disturbs, kubeVars, spec>>

-----------------------------------------------------------------------------
\* Reconcile reads the Machine from the cache, has its labels and providerSpec
\* validated, and decides what to do with it, which depends on whether it has the
\* finalizer (held) and whether it Failed.
StartReconcileIf(held, failed) ==
  /\ pc = "idle"
  /\ cache.exists
  /\ spec["complete"]
  /\ StaleReads \/ cache = api
  /\ m' = cache /\ seen' = cache
  /\ \/ /\ ~cache.deleting /\ ~held
        /\ pc' = "add_finalizer" /\ UNCHANGED <<op, goal>>
     \/ /\ cache.deleting
        /\ pc' = "update_status" /\ goal' = "Deleting" /\ UNCHANGED op
     \/ /\ ~cache.deleting /\ held /\ ~failed
        /\ pc' = "connect" /\ op' = "exists" /\ UNCHANGED goal
  /\ UNCHANGED <<local, orig, inst, res, faults>>

\* Mutant: the instance is looked up before the finalizer is there.
StartReconcileNoFinalizer == StartReconcileIf(TRUE, cache.phase = "Failed")

StartReconcile == StartReconcileIf(cache.finalizer, cache.phase = "Failed")

\* The Update that adds the finalizer.
AddFinalizerAs(new) ==
  /\ pc = "add_finalizer"
  /\ \/ NoFault /\ api' = new
     \/ Fault /\ api' \in {api, new}
  /\ Finish
  /\ UNCHANGED <<engineVars, disturbs, cache, spec>>

\* Mutant: the Update replaces whatever is stored.
AddFinalizerForced == AddFinalizerAs(WithFinalizer(seen))

\* It fails if the Machine has changed since it was read.
AddFinalizer == AddFinalizerAs(IF seen = api THEN WithFinalizer(api) ELSE api)

\* updateStatus: the unconditional merge patch of phase, error and, for a
\* Failed Machine, the instance state.  Called before any operation of the
\* actuator, for the phase Deleting, it is followed by more work.
StatusError ==
  IF goal = "Failed" /\ op = "create" THEN "invalid"
  ELSE IF goal = "Failed" /\ op = "exists" /\ res = "notfound" THEN "missing"
  ELSE "none"

StatusState == IF goal = "Failed" /\ m.pstate # "none" THEN "Unknown" ELSE m.pstate

UpdateStatus ==
  /\ pc = "update_status"
  /\ LET new == WithPhase(api, Merged(m.phase, goal, api.phase),
                           Merged(m.err, StatusError, api.err),
                           Merged(m.pstate, StatusState, api.pstate))
     IN \/ /\ NoFault /\ api.exists /\ op = "none"
           /\ api' = new /\ m' = new /\ seen' = new
           /\ pc' = "deleting"
           /\ UNCHANGED <<op, orig, inst, res, goal>>
        \/ NoFault /\ api.exists /\ op # "none" /\ api' = new /\ Finish
        \/ NoFault /\ ~api.exists /\ UNCHANGED api /\ Finish
        \/ Fault /\ api' \in {api, IF api.exists THEN new ELSE api} /\ Finish
  /\ UNCHANGED <<engineVars, disturbs, cache, spec>>

\* patchFailedMachineInstanceAnnotation: the merge patch that precedes the
\* status patch of a Failed Machine.
PatchAnnotation ==
  /\ pc = "patch_annotation"
  /\ api.exists
  /\ LET new == WithMain(api, api.providerID, Merged(m.annot, "Unknown", api.annot))
     IN \/ /\ NoFault
           /\ api' = new /\ m' = new /\ seen' = new
           /\ pc' = "update_status"
           /\ UNCHANGED <<op, orig, inst, res, goal>>
        \/ Fault /\ api' \in {api, new} /\ Finish
  /\ UNCHANGED <<engineVars, disturbs, cache, spec>>

-----------------------------------------------------------------------------
(* The deletion branch.                                                     *)

\* Deleting has been written; without the finalizer there is nothing to do.  A
\* pre-terminate hook that still holds the Machine ends this reconcile, and is
\* counted as a fault.
StartDeletion ==
  /\ pc = "deleting"
  /\ \/ NoFault /\ ~m.finalizer /\ Finish
     \/ NoFault /\ m.finalizer /\ m.node  /\ Continue("drain")
     \/ NoFault /\ m.finalizer /\ ~m.node /\ Call("delete")
     \/ Fault   /\ m.finalizer /\ ~m.node /\ Finish
  /\ UNCHANGED local

\* drainNode; a pre-drain or pre-terminate hook that still holds the Machine,
\* like a drain that fails, ends this reconcile.
Drain ==
  /\ pc = "drain"
  /\ \/ NoFault /\ Call("delete")
     \/ Fault /\ Finish
  /\ UNCHANGED local

\* A Machine without addresses goes on although its configuration is invalid.
AfterDeleteThen(next) ==
  /\ pc = "return" /\ op = "delete"
  /\ IF res = "ok" \/ (res = "invalid" /\ m.addr = "none") THEN next ELSE Finish
  /\ UNCHANGED <<local, faults>>

\* Mutant: a successful Delete, or one excused, is taken as proof that the VM is
\* gone.
AfterDeleteNoExists == AfterDeleteThen(Continue("remove_finalizer"))

AfterDelete == AfterDeleteThen(Call("delete_exists"))

AfterDeleteExists ==
  /\ pc = "return" /\ op = "delete_exists"
  /\ \/ res = "notfound" /\ m.node  /\ Continue("delete_node")
     \/ res = "notfound" /\ ~m.node /\ Continue("remove_finalizer")
     \/ res # "notfound" /\ Finish
  /\ UNCHANGED <<local, faults>>

DeleteNode ==
  /\ pc = "delete_node"
  /\ \/ NoFault /\ Continue("remove_finalizer")
     \/ Fault /\ Finish
  /\ UNCHANGED local

\* The Update that releases the Machine; it fails if the Machine has changed.
RemoveFinalizer ==
  /\ pc = "remove_finalizer"
  /\ LET new == IF seen = api THEN WithoutFinalizer(api) ELSE api
     IN \/ NoFault /\ api' = new
        \/ Fault /\ api' \in {api, new}
  /\ Finish
  /\ UNCHANGED <<engineVars, disturbs, cache, spec>>

-----------------------------------------------------------------------------
(* The branch for a Machine that lives.                                     *)

AfterExists ==
  /\ pc = "return" /\ op = "exists"
  /\ \/ res = "found" /\ Call("update")
     \/ res = "notfound" /\ Provisioned(m) /\ SetPhase("Failed")
     \/ res = "notfound" /\ ~Provisioned(m) /\ m.phase = "" /\ SetPhase("Provisioning")
     \/ res = "notfound" /\ ~Provisioned(m) /\ m.phase # "" /\ Call("create")
     \/ res \notin {"found", "notfound"} /\ SetPhase(m.phase)
  /\ UNCHANGED <<local, faults>>

AfterUpdate ==
  /\ pc = "return" /\ op = "update"
  /\ SetPhase(IF res # "ok" \/ ~Provisioned(m) THEN m.phase
              ELSE IF m.node THEN "Running" ELSE "Provisioned")
  /\ UNCHANGED <<local, faults>>

AfterCreate ==
  /\ pc = "return" /\ op = "create"
  /\ IF res = "invalid" THEN SetPhase("Failed") ELSE Finish
  /\ UNCHANGED <<local, faults>>

ControllerStep ==
  \/ StartReconcile \/ AddFinalizer \/ UpdateStatus \/ PatchAnnotation
  \/ StartDeletion \/ Drain \/ AfterDelete \/ AfterDeleteExists
  \/ DeleteNode \/ RemoveFinalizer
  \/ AfterExists \/ AfterUpdate \/ AfterCreate

-----------------------------------------------------------------------------
Worker == ControllerStep \/ (ActuatorStep /\ UNCHANGED goal)

\* The manager dies in the middle of a reconcile, of a panic or of something
\* else, and starts again with a freshly listed cache.
Crash ==
  /\ pc # "idle"
  /\ \/ pc = "panic" /\ UNCHANGED disturbs
     \/ pc # "panic" /\ Disturb
  /\ Finish
  /\ cache' = api
  /\ UNCHANGED <<engineVars, api, spec, faults>>

\* The nodelink controller (external) finds the Node that registered from the VM.
NodeLinks ==
  /\ api.exists /\ ~api.node
  /\ vm.status = "up" /\ api.providerID = vm.id
  /\ api' = Linked(api)
  /\ UNCHANGED cache

Environment ==
  \/ /\ EngineStep \/ DisturbStep
     /\ UNCHANGED <<kubeVars, actuatorVars, goal>>
  \/ /\ CacheSync \/ UserDeletes \/ NodeLinks
     /\ UNCHANGED <<engineVars, disturbs, actuatorVars, goal>>
  \/ Crash

Next == Worker \/ Environment

Spec == Init /\ [][Next]_vars

\* The worker takes its next step (the resync of main.go restarts an idle
\* one), a manager that panicked is restarted, the informer delivers, and the
\* engine finishes what it was asked to.
Fairness ==
  /\ WF_vars(Worker)
  /\ WF_vars(Crash /\ pc = "panic")
  /\ WF_vars(CacheSync /\ UNCHANGED <<engineVars, disturbs, actuatorVars, goal>>)
  /\ \A step \in {"unlock", "boot", "migrated", "down", "ip"} :
       WF_vars(/\ CASE step = "unlock"   -> EngineUnlocksImage
                   [] step = "boot"     -> EngineBoots
                   [] step = "migrated" -> EngineMigrated
                   [] step = "down"     -> EnginePowersDown
                   [] step = "ip"       -> EngineReportsIP
               /\ UNCHANGED <<kubeVars, actuatorVars, goal>>)

FairSpec == Spec /\ Fairness

-----------------------------------------------------------------------------
(* Properties.                                                              *)

\* No VM is left behind: as long as the VM exists, so does its Machine, with
\* the finalizer that will make a deletion remove the VM.  It must hold over
\* lost answers, conflicts, crashes and reads of a stale cache (actuator.Delete,
\* actuator.Exists and the two Updates of the finalizer in Reconcile).
NoOrphanVM == Exists(vm) => api.exists /\ api.finalizer

\* The reasons why no VM is left behind (an inductive strengthening).  A
\* reconcile of the live branch, and every one the cache may still start, has
\* the finalizer to rely on; a reconcile of the deletion branch has read a
\* deleted Machine, so the cache will start no live one after it; and once
\* Exists has answered no in that branch, no VM appears.
Held(o) == o.exists /\ o.finalizer
Gone(o) == o.deleting \/ ~o.exists

InLiveBranch == op \in {"exists", "update", "create"}

InDeletion ==
  \/ op \in {"delete", "delete_exists"}
  \/ pc \in {"deleting", "drain", "delete_node", "remove_finalizer"}
  \/ pc = "update_status" /\ op = "none"

AbsenceSeen ==
  \/ pc \in {"delete_node", "remove_finalizer"}
  \/ pc = "return" /\ op = "delete_exists" /\ res = "notfound"

OrphanInv ==
  /\ NoOrphanVM
  /\ Held(cache) /\ ~cache.deleting => Held(api)
  /\ cache.deleting => Gone(api)
  /\ InLiveBranch => Held(api)
  /\ pc = "patch_annotation" => InLiveBranch
  /\ InDeletion => Gone(cache) /\ Gone(api)
  /\ AbsenceSeen => ~Exists(vm)
  /\ pc \in {"create_find", "prepare", "create_vm"} => op = "create"

\* The provider removes a VM only after the user deleted its Machine, and only
\* once the VM is down (machineScope.delete).
RemovesOnlyDeleted ==
  [][(Exists(vm) /\ ~Exists(vm') /\ disturbs' = disturbs)
       => api.deleting /\ vm.status = "down"]_vars

\* The whole of it implements the abstract life of a Machine and its VM: a VM is
\* made only for a Machine that is held, the Machine is let go only without a VM,
\* and nothing the provider writes undoes a deletion or a finalizer (Reconcile,
\* actuator.Create, actuator.Delete).
Life == INSTANCE MachineLifecycle WITH
  MaxMishaps <- MaxDisturbs,
  life <- IF ~api.exists THEN "gone" ELSE IF api.deleting THEN "deleting" ELSE "alive",
  held <- api.finalizer,
  vmid <- vm.id,
  made <- created,
  mishaps <- disturbs

ImplementsLifecycle == Life!Lifecycle

\* What create does to a VM before it starts it.
Required(s) ==
  {"disk", "tag"} \cup {c \in {"consoles"} : s["hp"]} \cup {c \in {"nics"} : s["nics"]}
    \cup {c \in {"pinning"} : s["pin"]} \cup {c \in {"affinity"} : s["affinity"]}

\* A VM that was started has everything the provider spec asks for, whatever
\* failed or crashed on the way (machineScope.create).
StartedConfigured == "started" \in vm.conf => Required(spec) \subseteq vm.conf

\* Where nothing failed, the VM of a Machine shown as Provisioned or Running has
\* been through every step of create and was started, unless its template has no
\* bootable disk, which create takes for the end of its work.
ProvisionedIsComplete ==
  (/\ api.phase \in {"Provisioned", "Running"} /\ spec["bootable"]
   /\ faults = 0 /\ disturbs = 0) => Required(spec) \cup {"started"} \subseteq vm.conf

\* A Machine shown as Provisioned or Running carries the id of a VM that was
\* created for it (reconcileMachineProviderID, patchMachine, Reconcile).
ProvisionedHasID ==
  api.phase \in {"Provisioned", "Running"} => api.providerID \in 1 .. created

\* A Machine gives up the VM it names only for a newer one, and only after the
\* one it names is gone: however old the copies are that the two patches of
\* patchMachine and the other writes of a reconcile start from, none clears an id
\* or puts an old one back, and none takes a VM away from its Machine.
ReplacesOnlyLost ==
  [][(api.providerID # 0 /\ api'.exists /\ api'.providerID # api.providerID)
       => vm.id # api.providerID /\ api'.providerID > api.providerID]_vars

\* A Machine becomes Failed only while it has no VM, and with the reason stored
\* in the same patch, whatever happened since the engine was asked: the outcomes
\* of Exists and Create that updateStatus(Failed) follows leave no room for a VM
\* to appear in between.
FailsWithoutVM ==
  [][api.phase # "Failed" /\ api'.phase = "Failed"
       => ~Exists(vm) /\ api'.err # "none"]_vars

\* A VM that was powered off while it was booting keeps the worker in the wait
\* of machineScope.create, which has no time limit.
Stuck == pc = "wait_up" /\ vm.status = "down"

\* A deleted Machine goes away whatever calls failed and wherever the manager
\* crashed, unless the worker hangs in that wait for ever.
DeletionCompletes == [](api.deleting => <>(~api.exists \/ []Stuck))

\* Without failures a Machine whose spec is valid ends up with a running VM,
\* its address, and the phase Provisioned or Running.
BecomesProvisioned ==
  (spec["complete"] /\ Accepts("create", spec) /\ spec["bootable"]) =>
    <>[](\/ api.deleting \/ ~api.exists
         \/ /\ api.phase \in {"Provisioned", "Running"} /\ api.addr = "ip"
            /\ vm.status \in {"up", "migrating"})

-----------------------------------------------------------------------------
(* What comments in the repository say of the code and the code does not do *)
(* (each is refuted by a run of its own).                                   *)

\* "ErrorReason should not be set for transitive errors ... (like service
\* outages)": it blames a configuration only if the configuration is at fault.
\* Create reports a failed connection as InvalidMachineConfiguration.
ErrorBlamesSpec == api.err = "invalid" => ~Accepts("create", spec)

\* "stop reconciliation till we get IP addresses": reconcileMachineNetwork
\* never publishes an address list without an IP.
AddressHasIP == api.addr # "emptyIP"

\* "All network interfaces from the template are discarded and new ones will be
\* created": the VM of a Machine shown as Provisioned has the NICs of the spec.
ProvisionedHasNICs ==
  (/\ api.phase \in {"Provisioned", "Running"}
   /\ Exists(vm) /\ api.providerID = vm.id /\ spec["nics"]) => "nics" \in vm.conf

\* "This is not a transient error, but indicates a state that will likely need to
\* be fixed before progress can be made": no VM is created for a Failed Machine.
\* A reconcile that starts from a cache in which it has not Failed yet does so.
FailedGetsNoVM == [][api.phase = "Failed" => created' = created]_vars
=============================================================================
