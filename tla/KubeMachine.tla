---------------------------- MODULE KubeMachine ----------------------------
(***************************************************************************)
(* The Machine object in the API server, the informer cache the manager's  *)
(* client reads it from, and what others than this provider do to it.      *)
(*                                                                         *)
(* A Machine is reduced to the fields whose values decide what the         *)
(* controller and the actuator do next.  Fields of the main resource:      *)
(* deleting (a deletion timestamp), finalizer, providerID (with the VmId   *)
(* annotation, always written together; 0 is none) and annot (the          *)
(* instance-state annotation).  Fields of the status subresource: phase,   *)
(* addr, pstate (providerStatus.instanceState), err (ErrorReason and       *)
(* ErrorMessage) and node (a NodeRef).                                     *)
(***************************************************************************)
EXTENDS Naturals

VARIABLES
  api,     \* the Machine as the API server stores it
  cache    \* the Machine as the manager's informer last saw it

kubeVars == <<api, cache>>

InstanceStates == {"none", "image_locked", "down", "powering_up", "up",
                   "migrating", "powering_down", "Unknown"}
Phases  == {"", "Provisioning", "Provisioned", "Running", "Failed", "Deleting"}
Reasons == {"none", "invalid", "create", "update", "missing"}

\* addr: no addresses; the DNS name with an empty IP; the DNS name and an IP.
Addrs == {"none", "emptyIP", "ip"}

Machines == [exists : BOOLEAN, deleting : BOOLEAN, finalizer : BOOLEAN,
             providerID : Nat, annot : InstanceStates,
             phase : Phases, addr : Addrs, pstate : InstanceStates,
             err : Reasons, node : BOOLEAN]

NoMachine == [exists |-> FALSE, deleting |-> FALSE, finalizer |-> FALSE,
              providerID |-> 0, annot |-> "none",
              phase |-> "", addr |-> "none", pstate |-> "none",
              err |-> "none", node |-> FALSE]

NewMachine == [NoMachine EXCEPT !.exists = TRUE]

KubeTypeOK == api \in Machines /\ cache \in Machines

KubeInit == api = NewMachine /\ cache = NoMachine

\* An object marked for deletion disappears with its last finalizer.
Reaped(o) == IF o.deleting /\ ~o.finalizer THEN NoMachine ELSE o

\* The three-way rule of a merge patch: a field is sent when it differs from
\* the base the patch was computed from.
Merged(base, new, current) == IF new # base THEN new ELSE current

\* Writes to groups of fields.
WithMain(o, providerID, annot) ==
  [o EXCEPT !.providerID = providerID, !.annot = annot]

WithInstance(o, addr, pstate) == [o EXCEPT !.addr = addr, !.pstate = pstate]

WithPhase(o, phase, err, pstate) ==
  [o EXCEPT !.phase = phase, !.err = err, !.pstate = pstate]

WithError(o, err) == [o EXCEPT !.err = err]

WithStatusOf(o, s) ==
  [o EXCEPT !.phase = s.phase, !.addr = s.addr, !.pstate = s.pstate,
            !.err = s.err, !.node = s.node]

WithFinalizer(o)    == [o EXCEPT !.finalizer = TRUE]
WithoutFinalizer(o) == Reaped([o EXCEPT !.finalizer = FALSE])
Deleted(o)          == Reaped([o EXCEPT !.deleting = TRUE])
Linked(o)           == [o EXCEPT !.node = TRUE]

-----------------------------------------------------------------------------
\* The informer catches up with the API server.
CacheSync ==
  /\ cache # api
  /\ cache' = api
  /\ UNCHANGED api

\* A user or a MachineSet deletes the Machine.
UserDeletes ==
  /\ api.exists
  /\ ~api.deleting
  /\ api' = Deleted(api)
  /\ UNCHANGED cache
=============================================================================
