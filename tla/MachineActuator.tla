-------------------------- MODULE MachineActuator --------------------------
(***************************************************************************)
(* The actuator of pkg/actuators/machine: Create, Update, Exists and       *)
(* Delete for one Machine, one action per call that leaves the process     *)
(* (an oVirt engine call or an API server call).  Between two calls the    *)
(* engine, the API server, a user or a crash may step.                     *)
(*                                                                         *)
(* The caller sets op and pc = "connect"; the operation ends at            *)
(* pc = "return" with its result in res.  "report" is handleMachineError,  *)
(* entered with the reason of the MachineError in res.                     *)
(*                                                                         *)
(* Any call may fail.  A call that writes may fail after it took effect    *)
(* (the answer was lost).  go-ovirt-client retries what it classifies as   *)
(* transient, and the ContextStrategy the actuator passes replaces the     *)
(* client's default timeouts, so a fault here is an error the client does  *)
(* not retry, and a wait for a VM status has no time limit.                *)
(***************************************************************************)
EXTENDS OvirtEngine, KubeMachine

CONSTANTS
  ProviderSpecs,   \* the provider specs a Machine may carry
  MaxFaults        \* bound: calls that fail

\* complete: the Machine has its cluster label and a providerSpec value; parses:
\* that value unmarshals; valid: it passes validateMachine; hp: high_performance;
\* nics, pin, affinity: network interfaces, an auto pinning policy, affinity
\* groups are given; bootable: the template has a bootable disk.
SpecFields ==
  {"complete", "parses", "valid", "hp", "nics", "pin", "affinity", "bootable"}

ASSUME ActuatorAssumption ==
  /\ ProviderSpecs \subseteq [SpecFields -> BOOLEAN]
  /\ MaxFaults \in Nat

VARIABLES
  spec,    \* the providerSpec of the Machine
  pc,      \* where the worker is
  op,      \* the actuator operation the worker is in
  m,       \* the *Machine in memory
  orig,    \* machineScope.originalMachineToBePatched
  seen,    \* the stored object whose resourceVersion m carries
  inst,    \* id of the VM `instance' refers to
  res,     \* what the operation returned, or the reason being reported
  faults   \* failed calls so far

scopeVars == <<op, m, orig, seen, inst>>
actuatorVars == <<spec, pc, op, m, orig, seen, inst, res, faults>>

Ops == {"none", "exists", "delete_exists", "delete", "update", "create"}

\* Besides a reason: "other" is an error that is not a MachineError.
Results == Reasons \cup {"ok", "found", "notfound", "other"}

ActuatorPCs ==
  {"connect", "exists_find", "create_find", "prepare", "create_vm",
   "wait_down", "consoles", "disk", "nics", "pinning", "tag", "affinity",
   "start", "wait_up", "delete_find", "stop", "wait_stopped", "remove",
   "reconcile_find", "reconcile_network", "patch", "patch_status", "report",
   "return", "panic"}

ActuatorTypeOK ==
  /\ EngineTypeOK
  /\ KubeTypeOK
  /\ spec \in ProviderSpecs
  /\ op \in Ops
  /\ m \in Machines /\ orig \in Machines /\ seen \in Machines
  /\ inst \in Nat
  /\ res \in Results
  /\ faults \in Nat

-----------------------------------------------------------------------------
Fault   == faults < MaxFaults /\ faults' = faults + 1
NoFault == faults' = faults

Goto(l)   == pc' = l /\ res' = res
Return(r) == pc' = "return" /\ res' = r
Report(r) == pc' = "report" /\ res' = r

\* Mutants: every failure of Create is blamed on the configuration; the reason
\* is one the Machine API does not know.
FailureBlamesSpec(o) == IF o = "create" THEN "invalid" ELSE "update"
FailureUnknown(o)    == IF o = "create" THEN "create" ELSE o

\* The reason of the MachineError for a failed connection, and for what fails
\* after it.
ConnectReason(o) == IF o = "update" THEN "update" ELSE "invalid"
FailureReason(o) == IF o = "create" THEN "create" ELSE "update"

Entry(o) == IF o = "create" THEN "create_find"
            ELSE IF o = "update" THEN "reconcile_find"
            ELSE IF o = "delete" THEN "delete_find"
            ELSE "exists_find"

\* Create and Update unmarshal the spec, and Create validates it.
Accepts(o, s) ==
  /\ o \in {"create", "update"} => s["parses"]
  /\ o = "create" => s["valid"]

\* The head of the four operations: unmarshal the spec (Create, Update),
\* cachedOVirtClient.Get, validateMachine (Create), newMachineScope.
Connect ==
  /\ pc = "connect"
  /\ UNCHANGED <<engineVars, disturbs, kubeVars, spec, op, m, seen, inst>>
  /\ \/ /\ NoFault
        /\ Accepts(op, spec)
        /\ Goto(Entry(op))
        /\ orig' = m
     \/ /\ NoFault
        /\ ~Accepts(op, spec)
        /\ Report("invalid")
        /\ UNCHANGED orig
     \/ /\ Fault
        /\ Report(ConnectReason(op))
        /\ UNCHANGED orig

\* handleMachineError: the error goes into m.status, then client.Update(m).
\* Update writes the main resource only (status is a subresource), on the
\* condition that nobody changed the object since m was read; the stored object
\* it returns replaces m, error included.  If Update fails, its error replaces
\* the MachineError.
HandleMachineErrorIf(unchanged) ==
  /\ pc = "report"
  /\ LET new == WithMain(api, m.providerID, m.annot)
     IN \/ /\ NoFault
           /\ unchanged
           /\ api' = new /\ seen' = new /\ m' = new
           /\ Return(res)
        \/ /\ NoFault
           /\ ~unchanged
           /\ m' = WithError(m, res)
           /\ Return("other")
           /\ UNCHANGED <<api, seen>>
        \/ /\ Fault
           /\ api' \in {api, IF unchanged THEN new ELSE api}
           /\ m' = WithError(m, res)
           /\ Return("other")
           /\ UNCHANGED seen
  /\ UNCHANGED <<engineVars, disturbs, cache, spec, op, orig, inst>>

\* Mutant: the Update is a forced one.
HandleMachineErrorForced == HandleMachineErrorIf(api.exists)

HandleMachineError == HandleMachineErrorIf(seen = api)

-----------------------------------------------------------------------------
(* machineScope.exists                                                      *)

ExistsFind ==
  /\ pc = "exists_find"
  /\ \/ NoFault /\ Exists(vm)  /\ Return("found")
     \/ NoFault /\ ~Exists(vm) /\ Return("notfound")
     \/ Fault /\ Return("other")
  /\ UNCHANGED <<engineVars, disturbs, kubeVars, spec, scopeVars>>

-----------------------------------------------------------------------------
(* machineScope.create                                                      *)

\* A VM that already carries the name is taken as it is.
CreateFind ==
  /\ pc = "create_find"
  /\ \/ NoFault /\ Exists(vm)  /\ Goto("reconcile_find")
     \/ NoFault /\ ~Exists(vm) /\ Goto("prepare")
     \/ Fault /\ Report("create")
  /\ UNCHANGED <<engineVars, disturbs, kubeVars, spec, scopeVars>>

\* getIgnition, ListHosts, GetTemplateByName, ListTemplateDiskAttachments.
Prepare ==
  /\ pc = "prepare"
  /\ \/ NoFault /\ Goto("create_vm")
     \/ Fault /\ Report("create")
  /\ UNCHANGED <<engineVars, disturbs, kubeVars, spec, scopeVars>>

\* The engine refuses a second VM of the same name, and more than MaxVMs.
CreateVM ==
  /\ pc = "create_vm"
  /\ LET fits == ~Exists(vm) /\ created < MaxVMs
     IN \/ /\ NoFault
           /\ fits
           /\ vm' = NewVM(created + 1) /\ created' = created + 1
           /\ inst' = created + 1
           /\ Goto("wait_down")
        \/ /\ NoFault
           /\ ~fits
           /\ Report("create")
           /\ UNCHANGED <<engineVars, inst>>
        \/ /\ Fault
           /\ \/ UNCHANGED engineVars
              \/ fits /\ vm' = NewVM(created + 1) /\ created' = created + 1
           /\ Report("create")
           /\ UNCHANGED inst
  /\ UNCHANGED <<disturbs, kubeVars, spec, op, m, orig, seen>>

\* WaitForVMStatus: polls until the VM has the status; an error if the VM is
\* gone.
WaitForVMStatus(here, status, next) ==
  /\ pc = here
  /\ \/ NoFault /\ vm.id = inst /\ vm.status = status /\ Goto(next)
     \/ NoFault /\ vm.id # inst /\ Report(FailureReason(op))
     \/ Fault /\ Report(FailureReason(op))
  /\ UNCHANGED <<engineVars, disturbs, kubeVars, spec, scopeVars>>

WaitDown == WaitForVMStatus("wait_down", "down", "consoles")

\* A step that changes the VM's configuration, taken only if it is needed.
Configure(here, step, needed, next) ==
  /\ pc = here
  /\ LET done == Configured(vm, step)
     IN \/ NoFault /\ ~needed /\ Goto(next) /\ UNCHANGED vm
        \/ NoFault /\ needed /\ vm.id = inst /\ vm' = done /\ Goto(next)
        \/ NoFault /\ needed /\ vm.id # inst /\ Report("create") /\ UNCHANGED vm
        \/ /\ Fault /\ needed
           /\ vm' \in {vm, IF vm.id = inst THEN done ELSE vm}
           /\ Report("create")
  /\ UNCHANGED <<created, disturbs, kubeVars, spec, scopeVars>>

RemoveConsoles == Configure("consoles", "consoles", spec["hp"], "disk")

\* Without a bootable disk create returns errors.Wrapf(nil, ...), which is
\* nil: Create goes on as if the VM were complete.
ExtendDiskIf(bootable) ==
  /\ pc = "disk"
  /\ LET done == Configured(vm, "disk")
     IN \/ NoFault /\ vm.id = inst /\ bootable /\ vm' = done /\ Goto("nics")
        \/ /\ NoFault /\ vm.id = inst /\ ~bootable
           /\ Goto("reconcile_find")
           /\ UNCHANGED vm
        \/ NoFault /\ vm.id # inst /\ Report("create") /\ UNCHANGED vm
        \/ /\ Fault
           /\ vm' \in {vm, IF vm.id = inst /\ bootable THEN done ELSE vm}
           /\ Report("create")
  /\ UNCHANGED <<created, disturbs, kubeVars, spec, scopeVars>>

\* Mutant: only the first disk is looked at, and it is not the bootable one.
ExtendDiskFirst == ExtendDiskIf(FALSE)

ExtendDisk == ExtendDiskIf(spec["bootable"])

\* Mutants: the VM is started before it joins its affinity groups; it is never
\* started.
TagThenStart       == Configure("tag", "tag", TRUE, "start")
AffinityWithoutStart ==
  Configure("affinity", "affinity", spec["affinity"], "reconcile_find")

ReattachNICs    == Configure("nics", "nics", spec["nics"], "pinning")
OptimizePinning == Configure("pinning", "pinning", spec["pin"], "tag")
AddTag          == Configure("tag", "tag", TRUE, "affinity")
AddAffinity     == Configure("affinity", "affinity", spec["affinity"], "start")

StartVM ==
  /\ pc = "start"
  /\ LET on == InStatus(Configured(vm, "started"), "powering_up")
     IN \/ NoFault /\ vm.id = inst /\ vm.status = "down" /\ vm' = on /\ Goto("wait_up")
        \/ NoFault /\ vm.id # inst /\ Report("create") /\ UNCHANGED vm
        \/ /\ Fault
           /\ vm' \in {vm, IF vm.id = inst /\ vm.status = "down" THEN on ELSE vm}
           /\ Report("create")
  /\ UNCHANGED <<created, disturbs, kubeVars, spec, scopeVars>>

WaitUp == WaitForVMStatus("wait_up", "up", "reconcile_find")

-----------------------------------------------------------------------------
(* machineScope.delete                                                      *)

DeleteFindOr(missing) ==
  /\ pc = "delete_find"
  /\ \/ NoFault /\ Exists(vm)  /\ inst' = vm.id /\ Goto("stop")
     \/ NoFault /\ ~Exists(vm) /\ missing /\ UNCHANGED inst
     \/ Fault /\ Report("update") /\ UNCHANGED inst
  /\ UNCHANGED <<engineVars, disturbs, kubeVars, spec, op, m, orig, seen>>

\* Mutant: a VM that is gone is an error like any other.
DeleteFindNotFoundFails == DeleteFindOr(Report("update"))

DeleteFind == DeleteFindOr(Return("ok"))

\* Stop(force).  A VM that is down stays so; while its image is locked the
\* client retries.
StopVMThen(next) ==
  /\ pc = "stop"
  /\ LET off == IF vm.status = "down" THEN vm ELSE PoweredOff(vm, "powering_down")
     IN \/ /\ NoFault /\ vm.id = inst /\ vm.status # "image_locked"
           /\ vm' = off /\ Goto(next)
        \/ NoFault /\ vm.id # inst /\ Report("update") /\ UNCHANGED vm
        \/ /\ Fault
           /\ vm' \in {vm, IF vm.id = inst /\ vm.status # "image_locked"
                           THEN off ELSE vm}
           /\ Report("update")
  /\ UNCHANGED <<created, disturbs, kubeVars, spec, scopeVars>>

\* Mutant: the VM is removed without waiting for it to be down.
StopVMNoWait == StopVMThen("remove")

StopVM == StopVMThen("wait_stopped")

WaitStopped == WaitForVMStatus("wait_stopped", "down", "remove")

\* A VM that is already gone is a success.
RemoveVM ==
  /\ pc = "remove"
  /\ LET left == IF vm.id = inst THEN NoVM ELSE vm
     IN \/ NoFault /\ vm' = left /\ Return("ok")
        \/ Fault /\ vm' \in {vm, left} /\ Report("update")
  /\ UNCHANGED <<created, disturbs, kubeVars, spec, scopeVars>>

-----------------------------------------------------------------------------
(* machineScope.reconcileMachine                                            *)

\* The VM's id and status go into the Machine in memory.
ReconcileFind ==
  /\ pc = "reconcile_find"
  /\ \/ /\ NoFault /\ Exists(vm)
        /\ m' = WithMain(m, vm.id, vm.status)
        /\ Goto("reconcile_network")
     \/ NoFault /\ ~Exists(vm) /\ Report(FailureReason(op)) /\ UNCHANGED m
     \/ Fault /\ Report(FailureReason(op)) /\ UNCHANGED m
  /\ UNCHANGED <<engineVars, disturbs, kubeVars, spec, op, orig, seen, inst>>

\* reconcileMachineNetwork by the status read before, then
\* reconcileMachineProviderStatus.  A VM that reports no usable address makes
\* findUsableInternalAddress return "" and errors.Wrapf(nil, ...), i.e. nil.  A
\* failed read of the cluster's addresses is reported; a failed GetVMIPAddresses,
\* the VM being gone included, uses its answer before it looks at the error: a
\* panic, from which the worker does not recover.
ReconcileNetwork ==
  /\ pc = "reconcile_network"
  /\ LET hasAddress == m.annot \in {"up", "migrating"}
         address    == IF vm.ip THEN "ip" ELSE "emptyIP"
     IN \/ /\ NoFault /\ m.annot = "down"
           /\ m' = WithInstance(m, m.addr, m.annot)
           /\ Goto("patch")
        \/ /\ NoFault /\ hasAddress /\ vm.id = m.providerID
           /\ m' = WithInstance(m, address, m.annot)
           /\ Goto("patch")
        \/ /\ NoFault /\ hasAddress /\ vm.id # m.providerID
           /\ Goto("panic") /\ UNCHANGED m
        \/ /\ NoFault /\ m.annot # "down" /\ ~hasAddress
           /\ Report(FailureReason(op)) /\ UNCHANGED m
        \/ /\ Fault /\ hasAddress
           /\ Report(FailureReason(op)) \/ Goto("panic")
           /\ UNCHANGED m
  /\ UNCHANGED <<engineVars, disturbs, kubeVars, spec, op, orig, seen, inst>>

-----------------------------------------------------------------------------
(* machineScope.patchMachine: two merge patches of orig -> m.               *)

\* The main resource.  The answer overwrites m, whose status is then restored.
PatchProviderID(id) ==
  /\ pc = "patch"
  /\ api.exists
  /\ LET new == WithMain(api, id, Merged(orig.annot, m.annot, api.annot))
     IN \/ /\ NoFault
           /\ api' = new /\ seen' = new
           /\ m' = WithStatusOf(new, m)
           /\ Goto("patch_status")
        \/ /\ Fault
           /\ api' \in {api, new}
           /\ Report(FailureReason(op))
           /\ UNCHANGED <<m, seen>>
  /\ UNCHANGED <<engineVars, disturbs, cache, spec, op, orig, inst>>

\* Mutant: the patch carries the annotations and forgets the providerID.
PatchMainNoID == PatchProviderID(api.providerID)

PatchMain == PatchProviderID(Merged(orig.providerID, m.providerID, api.providerID))

\* The status.  If the first patch returned another resourceVersion than orig
\* has, the difference is part of this patch and makes it conditional.
PatchStatus ==
  /\ pc = "patch_status"
  /\ LET fresh == api.exists /\ (seen = orig \/ seen = api)
         new == WithInstance(api, Merged(orig.addr, m.addr, api.addr),
                              Merged(orig.pstate, m.pstate, api.pstate))
     IN \/ /\ NoFault /\ fresh
           /\ api' = new /\ seen' = new /\ m' = new
           /\ Return("ok")
        \/ /\ NoFault /\ ~fresh
           /\ Report(FailureReason(op))
           /\ UNCHANGED <<api, m, seen>>
        \/ /\ Fault
           /\ api' \in {api, IF fresh THEN new ELSE api}
           /\ Report(FailureReason(op))
           /\ UNCHANGED <<m, seen>>
  /\ UNCHANGED <<engineVars, disturbs, cache, spec, op, orig, inst>>

ActuatorStep ==
  \/ Connect \/ HandleMachineError \/ ExistsFind
  \/ CreateFind \/ Prepare \/ CreateVM \/ WaitDown \/ RemoveConsoles
  \/ ExtendDisk \/ ReattachNICs \/ OptimizePinning \/ AddTag \/ AddAffinity
  \/ StartVM \/ WaitUp
  \/ DeleteFind \/ StopVM \/ WaitStopped \/ RemoveVM
  \/ ReconcileFind \/ ReconcileNetwork \/ PatchMain \/ PatchStatus
=============================================================================
