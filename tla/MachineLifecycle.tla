-------------------------- MODULE MachineLifecycle --------------------------
(***************************************************************************)
(* What the provider promises about one Machine and its VM, without saying *)
(* how: a VM is made only for a Machine that is held by its finalizer, the *)
(* provider removes it only after the Machine was deleted, and the Machine *)
(* goes away only without a VM.  MachineController implements this; the    *)
(* NodeControllers run beside it.                                          *)
(***************************************************************************)
EXTENDS Naturals

CONSTANTS
  MaxVMs,      \* bound: VMs ever made under this name
  MaxMishaps   \* bound: what happens to the VM or the manager from outside

VARIABLES
  life,      \* of the Machine: "alive", "deleting" or "gone"
  held,      \* the Machine has its finalizer
  vmid,      \* id of the VM that carries the Machine's name; 0 if there is none
  made,      \* VMs made so far; the id of the last one
  mishaps    \* mishaps so far

lifecycleVars == <<life, held, vmid, made, mishaps>>

LifecycleInit ==
  life = "alive" /\ held = FALSE /\ vmid = 0 /\ made = 0 /\ mishaps = 0

-----------------------------------------------------------------------------
\* The controller takes responsibility for the Machine.
Hold ==
  /\ life = "alive" /\ ~held
  /\ held' = TRUE
  /\ UNCHANGED <<life, vmid, made, mishaps>>

\* A user deletes it.
Delete ==
  /\ life = "alive"
  /\ life' = IF held THEN "deleting" ELSE "gone"
  /\ UNCHANGED <<held, vmid, made, mishaps>>

\* Create makes the VM, possibly for a Machine it does not yet see deleted.
Provision ==
  /\ held /\ vmid = 0 /\ made < MaxVMs
  /\ vmid' = made + 1 /\ made' = made + 1
  /\ UNCHANGED <<life, held, mishaps>>

\* Delete removes it.
Deprovision ==
  /\ life = "deleting" /\ vmid # 0
  /\ vmid' = 0
  /\ UNCHANGED <<life, held, made, mishaps>>

\* The controller lets the Machine go.
Release ==
  /\ life = "deleting" /\ vmid = 0
  /\ life' = "gone" /\ held' = FALSE
  /\ UNCHANGED <<vmid, made, mishaps>>

\* An administrator removes the VM, or something else goes wrong.
Mishap ==
  /\ mishaps < MaxMishaps /\ mishaps' = mishaps + 1
  /\ vmid' \in {vmid, 0}
  /\ UNCHANGED <<life, held, made>>

LifecycleNext ==
  Hold \/ Delete \/ Provision \/ Deprovision \/ Release \/ Mishap

Lifecycle == LifecycleInit /\ [][LifecycleNext]_lifecycleVars
=============================================================================
