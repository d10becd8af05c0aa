---------------------------- MODULE OvirtEngine ----------------------------
(***************************************************************************)
(* The oVirt engine as the provider sees it through go-ovirt-client: the   *)
(* one VM that carries the name of the Machine under study.  VM names are  *)
(* unique in the engine, so `vm' is that VM or NoVM.  The engine is not    *)
(* part of this repository; what it may do is read off the calls the       *)
(* actuator makes and the statuses it waits for.                           *)
(***************************************************************************)
EXTENDS Naturals

CONSTANTS
  MaxVMs,       \* bound: VMs ever created under this name
  MaxDisturbs   \* bound: crashes, migrations, power-offs and removals of the VM

ASSUME EngineAssumption == MaxVMs \in Nat /\ MaxDisturbs \in Nat

VARIABLES
  vm,           \* the VM of that name
  created,      \* number of VMs created so far; the id of the last one
  disturbs      \* disturbances so far

engineVars == <<vm, created>>

\* The VM statuses the code tells apart.  powering_up stands for every
\* transient status the actuator only answers with "requeue" (wait_for_launch,
\* reboot_in_progress, ...).
VMStatuses ==
  {"image_locked", "down", "powering_up", "up", "migrating", "powering_down"}

\* What machineScope.create does to the VM after creating it, in this order.
ConfSteps ==
  {"consoles", "disk", "nics", "pinning", "tag", "affinity", "started"}

VMs == [id : Nat, status : VMStatuses \cup {"none"},
        conf : SUBSET ConfSteps, ip : BOOLEAN]

NoVM == [id |-> 0, status |-> "none", conf |-> {}, ip |-> FALSE]

\* A VM just added from a template: its disks are still being copied.
NewVM(id) == [id |-> id, status |-> "image_locked", conf |-> {}, ip |-> FALSE]

Exists(v) == v.id # 0

InStatus(v, s)      == [v EXCEPT !.status = s]
PoweredOff(v, s)    == [v EXCEPT !.status = s, !.ip = FALSE]
WithIP(v)           == [v EXCEPT !.ip = TRUE]
Configured(v, step) == [v EXCEPT !.conf = @ \cup {step}]

EngineTypeOK ==
  /\ vm \in VMs
  /\ created \in Nat
  /\ disturbs \in Nat

EngineInit == vm = NoVM /\ created = 0 /\ disturbs = 0

-----------------------------------------------------------------------------
(* What the engine does by itself.                                          *)

SetStatus(from, to) ==
  /\ vm.status = from
  /\ vm' = InStatus(vm, to)
  /\ UNCHANGED <<created, disturbs>>

EngineUnlocksImage == SetStatus("image_locked", "down")
EngineBoots        == SetStatus("powering_up", "up")
EngineMigrated     == SetStatus("migrating", "up")

\* The VM has stopped; the guest agent's addresses are gone.
EnginePowersDown ==
  /\ vm.status = "powering_down"
  /\ vm' = PoweredOff(vm, "down")
  /\ UNCHANGED <<created, disturbs>>

\* The guest agent reports an address the provider may use.
EngineReportsIP ==
  /\ vm.status \in {"up", "migrating"}
  /\ ~vm.ip
  /\ vm' = WithIP(vm)
  /\ UNCHANGED <<created, disturbs>>

EngineStep ==
  \/ EngineUnlocksImage \/ EngineBoots \/ EngineMigrated \/ EnginePowersDown
  \/ EngineReportsIP

-----------------------------------------------------------------------------
(* What happens to the VM behind the provider's back.                       *)

Disturb == disturbs < MaxDisturbs /\ disturbs' = disturbs + 1

\* An administrator, a guest shutdown, a host failure or a failed boot.
AdminPowersOff ==
  /\ Disturb
  /\ vm.status \in {"powering_up", "up", "migrating"}
  /\ vm' = PoweredOff(vm, "down")
  /\ UNCHANGED created

AdminMigrates ==
  /\ Disturb
  /\ vm.status = "up"
  /\ vm' = InStatus(vm, "migrating")
  /\ UNCHANGED created

AdminRemoves ==
  /\ Disturb
  /\ Exists(vm)
  /\ vm' = NoVM
  /\ UNCHANGED created

DisturbStep == AdminPowersOff \/ AdminMigrates \/ AdminRemoves
=============================================================================
