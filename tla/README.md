# Verification of cluster-api-provider-ovirt

TLA+ models of the oVirt machine provider for OpenShift, TLC configurations that
check them, and TLAPS proofs. Every definition is translated from the code;
`PROJECT.json` ("map") names the lines.

## The system

One manager process (`cmd/manager/main.go`) runs three controllers over one API
server and one oVirt engine.

| Component | State it keeps | Operations | Interacts with |
|---|---|---|---|
| Machine controller (vendored `machine-api-operator`, `controller.go`) | none between reconciles | `Reconcile`, `updateStatus` | reads Machines from an informer cache, writes them to the API server, calls the actuator |
| Machine actuator (`pkg/actuators/machine`) | none between calls; within one, the Machine in memory and the copy patches are computed from | `Create`, `Update`, `Exists`, `Delete`, `handleMachineError` | engine, API server, cached client |
| Machine object | spec, finalizer, annotations, providerID; status | conditional updates, merge patches, status subresource | users, nodelink controller |
| oVirt engine (external) | VMs, unique by name | create, configure, start, stop, remove, query | administrators, hosts, guests |
| Credential service (`pkg/ovirt/clientService.go`) | listeners, an unbuffered channel, an informer on one Secret | `Run`, `processCredentialUpdate`, `Shutdown` | informer, cached clients |
| Cached oVirt client (`pkg/ovirt/cachedClient.go`) | credentials, client, mutex | `SetCredentials`, `Get` | one each for actuator, node, providerID controller and health check |
| Spec validation (`validations.go`) and what `create` makes of a spec | none | `validateMachine`, the VM parameters, the disk size, the address | called by `Create` |
| Node controller (`pkg/controller`) | none between reconciles | `Reconcile` | Nodes through an informer cache, engine |
| ProviderID controller (`pkg/controller`) | none between reconciles | `Reconcile`, `fetchOvirtVmID` | Nodes through an informer cache, engine |

What is hard here: nothing is stored between two reconciles except the Machine
object, and the VM is found by name only, so a reconcile that failed or crashed
halfway has to be understood from what it left in two systems that are not
updated together. Reads come from a cache that lags. Calls fail, or succeed and
lose their answer. Administrators stop, migrate and remove VMs. Waits for a VM
status have no time limit. Credentials change while clients are in use.

What makes the components correct:

* Machine controller and actuator: no VM outlives its Machine; a VM is removed
  only for a deleted Machine and only when down; a started VM has what the spec
  asks for; the Machine gives up the VM it names only for a newer one, after the
  old one has gone; it becomes Failed only while it has no VM; deletions complete;
  Machines get provisioned.
* Credential service: a cached client is built from the credentials it holds;
  credentials never go back; every good version of the Secret arrives; start-up
  and shutdown do not hang.
* Validation: what it accepts `create` can carry out; the VM has the disk and the
  CPU topology the spec asks for (the code breaks the second); its published
  address is its own.
* Node controllers: a Node is deleted only when its VM is gone for good; a
  providerID, once set, stays; Nodes of other hosts are left alone; a Node that
  stays gets its providerID, a Node of a lost VM goes.

## Modules

| Module | Models | Uses |
|---|---|---|
| `MachineLifecycle` | what the provider promises about one Machine and its VM (abstract) | |
| `OvirtEngine` | the VM that carries the Machine's name (external) | |
| `KubeMachine` | the Machine in the API server, the informer cache, the user | |
| `MachineActuator` | `actuator.go`, `machine.go` | extends `OvirtEngine`, `KubeMachine` |
| `MachineController` | `Reconcile` and `updateStatus`, one worker; composes everything above with crashes and the nodelink controller; the properties | extends `MachineActuator`; `Life` is an instance of `MachineLifecycle` |
| `NodeControllers` | `nodeController.go`, `providerIDController.go`, beside a VM that comes and goes | extends `MachineLifecycle` |
| `ProviderSpec` | `validations.go`, the VM parameters of `create`, disk size, choice of address | |
| `ClientService` | `pkg/ovirt` and the order of start and stop in `main.go` | |
| `MachineController_proofs` | types, `OrphanInv`, `NoOrphanVM` | extends `MachineController` |
| `MachineRefinement_proofs` | `RemovesOnlyDeleted`, the refinement | extends `MachineController_proofs` |
| `ClientService_proofs` | types, `ClientInv`, `ClientIsCurrent`, `CredentialsAdvance` | extends `ClientService` |
| `MachineProvisioning_proofs` | `StartedConfigured`, `ProvisionedHasID`, `ProvisionedIsComplete` | extends `MachineRefinement_proofs` |
| `MachineSteps_proofs` | `ReplacesOnlyLost`, `FailsWithoutVM` | extends `MachineProvisioning_proofs` |
| `NodeControllers_proofs` | `NodeInv` and the three action properties | extends `NodeControllers` |
| `ProviderSpec_proofs` | the three properties of `ProviderSpec` for all specs | extends `ProviderSpec` |
| `MCMachineController`, `MCClientService`, `MCProviderSpec` | instances for TLC | |

`NodeControllers` rests on `MachineController` through `MachineLifecycle`: the
machine side is shown to implement that module, and the node side assumes nothing
else of it.

### Machine side

State. `vm` is the VM of the Machine's name: id, status, the set `conf` of the
steps of `create` it has been through, and whether the guest reports a usable
address. `api` is the stored Machine and `cache` what the informer last saw, both
reduced to the fields the code decides by (the header of `KubeMachine` lists
them). The worker is `pc`, the operation `op`, its result `res`, the Machine in
memory `m`, the base of its patches `orig`, and `seen`, the stored object whose
resourceVersion `m` carries. `spec` is the provider spec as a set of yes/no
answers: does the Machine have its cluster label and providerSpec value, without
which `Reconcile` stops, does it unmarshal, does it validate, is it high
performance, does it have NICs, pinning, affinity groups, does its template have a
bootable disk.

Actions. One per call that leaves the process, so that everything else may happen
between two calls: `CreateFind`, `Prepare`, `CreateVM`, `WaitDown`,
`RemoveConsoles`, `ExtendDisk`, `ReattachNICs`, `OptimizePinning`, `AddTag`,
`AddAffinity`, `StartVM`, `WaitUp` are the calls of `machineScope.create` in
order, and so on for the other operations; `StartReconcile` to `AfterCreate` are
the branches of `Reconcile`. A step that loops over several calls of one kind
(remove each console, each NIC; add each affinity group) is one action whose
failure may leave it done or not done; a step half done counts as not done, which
is what a property about `conf` needs.

Failures. `Fault` is a call that returns an error; if it writes, it may have
taken effect all the same. `MaxFaults` bounds them. go-ovirt-client retries what
it takes for transient, so a fault is what is left after its retries.

The API server. `client.Update` is conditional on the resourceVersion and writes
the main resource only; its answer replaces the object in memory, status
included. Merge patches send the fields that differ from their base (`Merged`).
The second patch of `patchMachine` is computed against a base with the old
resourceVersion, which makes it conditional. Versions are compared by content:
two states of the object with equal fields count as one version, so the model
lets an `Update` through that the server would refuse when the object has changed
and changed back. This only adds behaviours.

The environment. The engine unlocks images, boots, migrates, powers down, reports
addresses. Disturbances (`MaxDisturbs`) are crashes of the manager, and power-off,
migration and removal of the VM by others. A crash loses everything in memory and
restarts with a fresh cache. Informer caches lag arbitrarily (`StaleReads`).
A panic also ends the process: `GetVMIPAddresses` uses its answer before it looks at
the error, so that a look-up that fails, as it does for a VM that is gone, panics,
and the worker does not recover. `pc` is then `panic`; the `Crash` that follows is
no disturbance of its own.

### Credential side

`ClientService` has main, the informer with its handler, the goroutine
`processCredentialUpdate` and the callers of `Get` as processes. Credentials are
the version of the Secret they came from; `Malformed` versions are those
`FromK8sSecret` rejects. Critical sections are split (`SetCredentials` /
`ListenerBuilt`, `GetBegins` / `GetTests` / `GetBuilds`), so the mutex matters.
Testing and building a client succeed or fail freely. The informer (external) may
skip versions, keeps their order, has an unbounded queue before the handler, and
resyncs; its `HasSynced` does not wait for handlers, and its `Run` does.

### The abstract life of a Machine

`MachineLifecycle` keeps five values: whether the Machine is alive, being deleted
or gone, whether it is held by its finalizer, the id of its VM, how many VMs were
made, and how many mishaps have happened. A VM is made only for a Machine that is
held; the provider removes it only for one that is being deleted; the Machine goes
only without a VM. The mapping (`MachineController!Life`) reads these values off
`api`, `vm`, `created` and `disturbs`; everything the controller and the actuator
do with copies, caches, patches and VM statuses is a stutter.

### Node side

`NodeControllers` has the two workers of `pkg/controller` for the Node of one name.
A Node is its uid and its providerID: none, that of a VM, or one without the ovirt
prefix (`Foreign`). Each worker reads the Node from `cache` into its `copy`, asks
the engine for the VM of that name, then writes; Nodes, VMs and the cache move
between any two of these. The node controller deletes by name, so the Delete hits
whatever Node has the name by then; the providerID controller calls `Update`, which
the API server refuses if the Node has changed since it was read (compared by
content, which for a Node that only ever gains a providerID is the same). A failed
write may have taken effect. `bare` is a name that belongs to a host outside oVirt.
The kubelet registers the Node (external, without a providerID in a VM of the
provider: nothing but the providerID controller sets one), and the machine
controller deletes the Node of a deleted Machine once the VM is gone. After a
Machine is gone its name may be used again.

### Provider spec side

`ProviderSpec` is pure data flow, as one behaviour per spec: `Validate`, `Build`,
`CreateVM`, `ExtendDisk`, `PublishAddress`. Each VM parameter setter is the record
update it does in the library, including that a later one replaces what an earlier
one has set and that the `Must...` ones panic. `Half` is the first number too large
for an integer (2^63 in the code), `GB` the bytes of a GiB. An address is its family, its first 32 bits and the rest, which is what
tells a `/32` range of IPv4 from one of IPv6.

## Runs

Passing:

| Run | Instance | Shows |
|---|---|---|
| `machine_stale` | 2 VMs, 1 disturbance, 2 faults, stale reads, five specs | `TypeOK`, `NoOrphanVM`, `OrphanInv`, `ProvisionedHasID`, `StartedConfigured`, `ProvisionedIsComplete`, `RemovesOnlyDeleted`, `ImplementsLifecycle` (the refinement), `ReplacesOnlyLost`, `FailsWithoutVM` |
| `machine_deletion` | 2 VMs, 1 disturbance, 1 fault, fresh reads, fairness | `DeletionCompletes` |
| `machine_provisioning` | 1 VM, no faults, stale reads, five specs, fairness | `BecomesProvisioned` |
| `service` | 2 clients, 2 requests on one, 3 versions, the second malformed, 1 failed `writeCA`, fairness | `TypeOK`, `ClientIsCurrent`, `ClientInv`, `CredentialsAdvance`, `CredentialsArrive`, `StartsUp`, `ShutdownEnds` |
| `node_controllers` | 3 VMs, 2 mishaps, 3 Nodes, 2 faults, fairness | `NodeInv`, `ProviderIDOnce`, `DeletesDeadOnly`, `BareNodeKept`, `OrphanNodeGoes`, `ProviderIDArrives` |
| `provider_spec` | every combination of hardware fields, of disk fields, all sizes of an 8-bit word, and one spec with every pair of interfaces of up to two addresses | `AcceptedIsCreated`, `DiskIsExtended`, `AddressIsOwn` |

Bounds. One Machine is enough because Machines share nothing but the worker and
the engine, and VMs are unique by name. Two VMs let a VM be lost and replaced.
One fault or disturbance puts a failure at every call; two faults put a failure
into the recovery from the first. Stale reads cost no bound. Three versions let a
good one follow a malformed one that follows a good one, with one in the channel
and one in the queue. Three VMs and three Nodes let a copy be two generations old
while a third VM carries the name. The inputs of `provider_spec` take, for each
number, a value below, on and above every comparison the code makes; a word of 8
bits with a GiB of 16 overflows at 8 GiB, as 64 bits do at 2^33.

`CHECK_DEADLOCK FALSE` in every configuration: a Machine that is gone or Failed
leaves the controller with nothing to do, an exited manager stops, and one `Create`
of `ProviderSpec` ends.

The five specs of the machine runs are the smallest valid one, one that asks for
everything, one that does not validate, one whose template has no bootable disk, and
a Machine without a label or providerSpec value. `machine_deletion` has the
smallest one only, and is the one passing run with `StaleReads = FALSE`: with stale
reads the property holds as well, but TLC takes over four minutes for it.

What stale reads do cost is said by `claim_failed_gets_no_vm`: a reconcile may start
from a Machine that is not yet shown as Failed, or has no providerID yet, and create
a VM for it. So a Failed Machine may get a VM, and even leave its phase, and a Machine
whose VM an administrator has removed may be given a second one. `ReplacesOnlyLost`
and `FailsWithoutVM` are what remains true then: the id of a Machine is exchanged
only for that of a newer VM after its own has gone, and the step into `Failed` is
taken only while there is no VM.

Violations, each a comment or a document the code does not live up to (quoted in
`PROJECT.json`, "findings"):

| Run | What TLC finds |
|---|---|
| `claim_error_blames_spec` | a failed connection makes a valid Machine Failed as an invalid configuration |
| `claim_address_has_ip` | `errors.Wrapf(nil, ...)` lets an empty IP be published |
| `claim_provisioned_has_nics` | a Create that failed halfway is skipped the next time; the Machine becomes Provisioned with an unfinished VM |
| `claim_failed_gets_no_vm` | a Machine becomes Failed in two writes; a reconcile that starts from a copy with the first of them only creates a VM for it |
| `claim_topology_is_given` | the sockets of the spec become threads and its threads sockets |
| `claim_invalid_is_reported` | a spec that `validateMachine` accepts makes `create` panic (zero cores) |

Also seen while modelling, without a run:

* `create` returns `errors.Wrapf(nil, ...)` for a VM without a bootable disk, which
  is success (`ExtendDisk`); `ProvisionedIsComplete` excepts it. `validateMachine`
  does the same for auto pinning that is not supported, and skips its last two
  rules (`ValidateMachine`, `Unchecked`).
* The wait for a started VM (`machine.go:327`) ends only with the VM up or gone: the
  `ContextStrategy` of its context has no deadline and replaces the library's
  timeouts. `DeletionCompletes` has to except it (`Stuck`).
* `Get` returns a client it has just built without testing it, although
  `clientCreateFunc.go:36` says it will be verified then (`GetBuilds`); `Run` returns
  when the informer has synced, before any client has credentials (`RunReturns`), so
  that the first reconciles may meet the failed connection of
  `claim_error_blames_spec`.
* For `high_performance` the topology and the guaranteed memory of the spec are
  dropped altogether (`HighPerformance`). `TopologyIsGiven` is violated by this too;
  `claim_topology_is_given` leaves high performance aside to show the exchange.
* `handleMachineError` means to store the reason with `client.Update`, which writes
  the main resource only and whose answer replaces the status in memory; the reason
  is lost unless `updateStatus` stores one of its own (`HandleMachineErrorIf`).
* The look-up of IP addresses may panic (`ReconcileNetwork`; the machine side, above).
* A storage domain in the spec replaces the list of disk parameters, and with it
  `sparse` and `format` (`Storage`).
* A `SizeGB` that is negative or too large for the product is not rejected
  (`NewDiskSize`).
* The cluster's addresses are excluded as `<address>/32`; for IPv6 this excludes a
  whole network, and a VM with addresses there has none left (`InRange`). Which
  interface provides the address depends on the order of a map.
* A Node whose VM goes before it has a providerID is never deleted by the node
  controller; and a Node that registers between the look-up and the Delete goes in
  place of the one that was read.

## Fairness

`MachineController!Fairness`: the worker takes its next step (an idle worker is
woken by watch events, requeues and at the latest by the ten-minute resync set in
`main.go`); a manager that panicked is restarted; the informer delivers; the engine
completes what it was asked to do.
No fairness for the user, for disturbances, for faults or for the nodelink
controller. `DeletionCompletes` therefore has to name the one state in which a
fair worker makes no progress, `Stuck`.

`ClientService!Fairness`: goroutines run, the informer delivers and resyncs, a
`Get` that holds the lock ends (the test of a client has the library's default
timeouts). `SetCredentials` has strong fairness: Go's mutex hands itself to a
waiter that has waited for a millisecond. Nobody is obliged to call `Get`, to
change the Secret or to stop the manager.

`NodeControllers!Fairness`: the two workers run and are woken at the latest by the
ten-minute resync of `main.go`, which is what retries a Node whose VM was not
found or whose look-up failed; the informer delivers. Nothing is assumed of the
kubelet, the Machine or the VM.

## Proofs

Checked by tlapm for all values of the constants (any set of provider specs, any
bounds, stale reads or not; any clients, listeners, callers, versions). Assumptions:
the named `ASSUME`s of the modules, which only give the constants their types.

* `TypeCorrect`. One lemma each for the actuator, the controller and the
  environment, one step per action; the record operators of `KubeMachine` and
  `OvirtEngine` have typing lemmas so that they stay folded.
* `OrphanInvariant`, `NoOrphan`: `Spec => []NoOrphanVM`. `NoOrphanVM` is not
  inductive: a state where the worker is about to create a VM and the finalizer is
  gone satisfies it. `OrphanInv` adds why that cannot be: (1) what the cache shows of
  finalizer and deletion is still true, since the finalizer is removed only from a
  deleted Machine and a deletion is never undone; (2) a reconcile of the live branch
  (`InLiveBranch`) has read a finalizer, and only the same single worker could
  remove it; (3) a reconcile of the deletion branch (`InDeletion`) has read a
  deleted Machine, so the cache starts no live reconcile any more; (4) once
  `Exists` has answered no in that branch (`AbsenceSeen`) no VM appears, because
  VMs are created in the live branch only. The proof rests on one worker and one
  manager process.
* `RemovalIsSafe`, `LifecycleRefined`: `Spec => RemovesOnlyDeleted` and
  `Spec => ImplementsLifecycle`. Both need a second invariant, `LifeInv`: the Update
  that adds the finalizer is conditional on a Machine read alive and not held;
  `Delete` acts on a VM it has found, and a VM seen down stays down until it is
  removed; an object that is gone carries no flags. Three lemmas sort the steps of
  actuator, controller and environment by what they do to the flags of the Machine
  and the id of the VM (`VMMoves`, `MachineMoves`, `EnvironmentMoves`); each kind is
  then one abstract action or a stutter.
* `StartedIsConfigured`: `Spec => []StartedConfigured` through `ConfInv`: as long as the
  VM that `create` made is there, it has the steps that lie before `pc`
  (`StepsDone`); and a VM that was removed meanwhile does not come back under its id,
  so that a `create` that goes on without its VM configures no other one. This is
  where the order of `create` counts: `StartVM` comes last.
* `ProvisionedIsNamed`: `Spec => []ProvisionedHasID` through `BoundInv` (no id is larger
  than the number of VMs created) and `NameInv`. That the stored Machine has a
  providerID is stable, so every copy that has one may be relied on, however stale.
  Only `create` and `update` put an id into the Machine in memory before it is
  stored, and they return well only after `patchMachine` has stored it; the phase is
  asked for after that, or was there before.
* `ProvisionedMachineIsComplete`: `Spec => []ProvisionedIsComplete` through `DeletingInv`
  and `CompleteInv`. Without a fault and a disturbance `create` keeps the VM it made
  until it is started, so outside `create` the only VM is a started one; and a Machine
  in a later phase still has it, because the VM goes only after the phase has become
  `Deleting`, which no reconcile that is still running takes back (`DeletingInv`).
* `NamesItsVM`: `Spec => ReplacesOnlyLost` through `NewestInv`: the VM there is is the
  newest one, and an id in memory that the Machine was not read with is that of the
  newest VM, because `create` and `update` found it after the last one was made and
  nothing creates one until they end. With `BoundInv` every id a Machine already has
  is smaller, so a patch cannot take it back, however stale its base.
* `FailedOnlyWithoutVM`: `Spec => FailsWithoutVM` through `FailInv`: `Failed` is asked
  for only after the engine has answered that there is no VM (`Exists`), or by a
  `create` that blames the configuration, which it does before it asks the engine for
  anything; no VM is made between that and the patch; and the error that goes with
  the phase is in memory as it is stored.
* `AcceptedSpecIsCreated`, `DiskHasItsSize`, `PublishedAddressIsOwn`, for every spec, every engine and every width of an integer,
  through `CreateInv`, which says what each stage of `Create` has established.
  `WholeBuild` follows the parameters through the builders in their order: each
  panics for a reason of its own or keeps topology, memory and guaranteed memory,
  except that high performance drops topology and guarantee. `GuaranteedFits` then
  compares what `validateMachine` checks with what the library checks, `SizeFits` is
  the arithmetic of the conversions, and `SameIPv4` is why a `/32` excludes no more
  than one IPv4 address.
* `ServiceTypeCorrect`, `ClientInvariant`, `ClientCurrent`: `Spec => []ClientIsCurrent`
  through `ClientInv`: whoever is inside a critical section holds the lock, a build
  in progress was given the credentials the client still holds, and a client locked
  by a `Get` is as current as a free one.
* `CredentialsInOrder`: `Spec => CredentialsAdvance` through `OrderInv`: the Secret has
  its last version or is gone, and from the indexer over the queue, the channel and
  the loop to the clients every version is at least as new as those ahead of it. A
  resync adds no order of its own: what the indexer holds is as new as anything
  under way.
* `NodeInvariant`: `NodeInv` is inductive. Uids and VM ids are never used twice, so
  a copy that has the uid of the stored Node and a providerID agrees with it, and a
  VM that was missed once is not the one that carries the name later. From it follow
  `ProviderIDKept`, `DeletedWasDead` and `BareNodeUntouched`.

Only model-checked: the liveness properties (`DeletionCompletes`,
`BecomesProvisioned`, `CredentialsArrive`, `StartsUp`, `ShutdownEnds`,
`OrphanNodeGoes`, `ProviderIDArrives`), because fairness and ENABLED are beyond the
prover. Every invariant and every action property that a passing run checks is
stated by a theorem.

## Not modelled

* Leader election: off by default; the models have one manager. A second one
  would break the argument of `NoOrphan`.
* A Machine deleted and re-created under its name (on the machine side; the node
  side has it as `NameReused`), and edits of a Machine's spec.
* A `CreateVM` that takes effect after its call has failed and the deletion branch
  has seen no VM. The controller's comment at `controller.go:257` accepts that
  window, and nothing in the code closes it.
* Lifecycle hooks other than as a fault of `StartDeletion` and of `Drain`, where they end
  the reconcile; conditions, events,
  metrics, logging; the temporary CA files that every notification leaves behind
  (`file.go`).
* Generated deep copies, scheme registration, the YAML/JSON conversions of the API
  types (only that they may fail), flags.

## Plan

1. Done: engine, Machine object, actuator, machine controller; credential service
   and cached clients; node controllers; provider spec; the abstract life of a
   Machine and its refinement; their runs and the theorems above.
2. Done: theorems for every safety property of the runs.
3. Open: how long after its VM was replaced a Machine may still publish the
   addresses of the old one; Nodes without a providerID (a Node whose VM goes before
   it has one); proofs of the liveness properties, should the prover come to
   support fairness.
