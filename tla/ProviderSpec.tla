---------------------------- MODULE ProviderSpec ----------------------------
(***************************************************************************)
(* What Create makes of a provider spec, in the order of the code:         *)
(* validateMachine, the VM parameters machineScope.create builds, the      *)
(* checks of CreateVM on them, the size of the OS disk, and the address    *)
(* reconcileMachineNetwork publishes once the VM is up.  One behaviour is  *)
(* one Create; the engine answers every call.                              *)
(*                                                                         *)
(* A string that the code only compares with "" is a Boolean.  A pointer,  *)
(* and a parameter, is the set of what it points to, empty for nil.  The   *)
(* parameters the code sets whatever the spec says (initialization,        *)
(* placement policy, sound card, serial console) are left out.             *)
(***************************************************************************)
EXTENDS Integers, Sequences

CONSTANTS
  Cases,      \* provider specs, each with what the engine and the cluster have
  Half,       \* integers are below it, and not below -Half (2^63 in the code)
  GB          \* a GiB (2^30 in the code)

Nil == {}
The(pointer) == CHOOSE v \in pointer : TRUE

Pointer(S) == {p \in SUBSET S : \A v, w \in p : v = w}

\* Signed integers, and the conversions between them and unsigned ones.
Words == -Half .. Half - 1

Unsigned(n) == n % (2 * Half)
Signed(n)   == Unsigned(n + Half) - Half

\* secret: UserDataSecret, and whether it has a name; disk: OSDisk and its SizeGB.
ProviderSpecs ==
  [secret : Pointer(BOOLEAN), instanceType : BOOLEAN,
   cpu : Pointer([sockets : Words, cores : Words, threads : Words]),
   memory : Int, guaranteed : Int, disk : Pointer(Int), vmType : STRING,
   pinning : STRING, hugepages : Int, clone : Pointer(BOOLEAN),
   sparse : Pointer(BOOLEAN), format : STRING, storage : BOOLEAN]

\* An address is its family, its first 32 bits and the rest of an IPv6 one; there
\* is none if a name or a text does not stand for one.
NoAddress == [family |-> 0, net |-> 0, rest |-> 0]
Addresses ==
  [family : {4}, net : Nat, rest : {0}] \cup [family : {6}, net : Nat, rest : Nat]

\* pinning: AutoPinning is supported; disks: disks of the template; size: of its
\* bootable disk; nics: what the guest reports of its interfaces, and whether the
\* name matches; api, ingress: the cluster's addresses.
Engines ==
  [pinning : BOOLEAN, disks : Nat, size : Nat,
   nics : SUBSET [matches : BOOLEAN, ips : Seq(Addresses)],
   api : Addresses \cup {NoAddress}, ingress : Addresses \cup {NoAddress}]

ASSUME SpecAssumption ==
  /\ Cases \subseteq ProviderSpecs \X Engines
  /\ Half \in Nat \ {0} /\ GB \in Nat \ {0}

VARIABLES
  stage,    \* how far Create has come
  spec, engine,
  params,   \* optionalVMParams
  disk,     \* size of the VM's bootable disk
  ip        \* the address published

vars == <<stage, spec, engine, params, disk, ip>>

-----------------------------------------------------------------------------
(* validateMachine                                                          *)

ValidInstanceID(s) ==
  IF s.instanceType THEN s.memory = 0 /\ s.cpu = Nil
                    ELSE s.memory # 0 /\ s.cpu # Nil

ValidVMType(t) == t \in {"server", "high_performance", "desktop"}

\* Mutant: any size of pages is valid.
AnyHugepages(h) == TRUE

ValidHugepages(h) == h \in {0, 2048, 1048576}

ValidGuaranteedMemory(s) == s.guaranteed <= s.memory

\* If auto pinning is asked for and not supported, errors.Wrap of a nil error is
\* returned: the spec is accepted, and the last two rules are not applied.
ValidateMachine(s, e) ==
  /\ s.secret = {TRUE}
  /\ ValidInstanceID(s)
  /\ s.disk \notin {Nil, {0}}
  /\ ValidVMType(s.vmType)
  /\ \/ s.pinning # "" /\ ~e.pinning
     \/ ValidHugepages(s.hugepages) /\ ValidGuaranteedMemory(s)

-----------------------------------------------------------------------------
(* The VM parameters.  A setter replaces what an earlier one has set; one   *)
(* that refuses its argument panics.                                        *)

Panic == [panic |-> TRUE]

NoParams == [panic |-> FALSE, topo |-> Nil, mode |-> Nil, memory |-> Nil,
             guaranteed |-> Nil, ballooning |-> Nil, hugepages |-> Nil,
             clone |-> Nil, disks |-> <<>>]

WithCPUParameters(p, cores, threads, sockets) ==
  IF 0 \in {cores, threads, sockets} THEN Panic
  ELSE [p EXCEPT !.topo = {[cores |-> cores, threads |-> threads, sockets |-> sockets]},
                 !.mode = Nil]

WithMemoryPolicy(p, guaranteed, ballooning) ==
  [p EXCEPT !.guaranteed = guaranteed, !.ballooning = ballooning]

IfPositive(n) == {k \in {n} : k > 0}

\* The parameters of MustWithCPUParameters are cores, threads and sockets.
CPU(p, c) ==
  WithCPUParameters(p, Unsigned(c.cores), Unsigned(c.sockets), Unsigned(c.threads))

\* validateMachine has seen to it that there is a CPU.
Hardware(p, s) ==
  IF s.instanceType THEN p
  ELSE LET q == CPU(p, The(s.cpu))
       IN IF q.panic THEN q
          ELSE [q EXCEPT !.memory = IfPositive(s.memory),
                         !.guaranteed = IfPositive(s.guaranteed)]

Pages(p, s) ==
  IF p.panic \/ s.hugepages <= 0 THEN p
  ELSE IF s.hugepages \notin {2048, 1048576} THEN Panic
  ELSE [p EXCEPT !.hugepages = {s.hugepages}]

DiskParams(sparse, format, storage) ==
  [sparse |-> sparse, format |-> format, storage |-> storage]

\* One entry for each disk of the template.
Disks(p, s, e) ==
  IF p.panic \/ (s.sparse = Nil /\ s.format = "") THEN p
  ELSE IF e.disks > 0 /\ s.format \notin {"", "cow", "raw"} THEN Panic
  ELSE [p EXCEPT !.disks = [d \in 1 .. e.disks |-> DiskParams(s.sparse, s.format, FALSE)]]

Clone(p, s) ==
  IF p.panic THEN p
  ELSE [p EXCEPT !.clone = IF s.clone = Nil THEN {s.vmType # "desktop"} ELSE s.clone]

\* The first disk of the template; without one the index is out of range.
Storage(p, s, e) ==
  IF p.panic \/ ~s.storage THEN p
  ELSE IF e.disks = 0 THEN Panic
  ELSE [p EXCEPT !.disks = <<DiskParams(Nil, "", TRUE)>>]

\* MustWithCPU and WithMemoryPolicy replace topology and guaranteed memory.
HighPerformance(p, s) ==
  IF p.panic \/ s.vmType # "high_performance" THEN p
  ELSE WithMemoryPolicy([p EXCEPT !.topo = Nil, !.mode = {"host_passthrough"}],
                        Nil, {FALSE})

BuildParams(s, e) ==
  HighPerformance(
    Storage(Clone(Disks(Pages(Hardware(NoParams, s), s), s, e), s), s, e), s)

\* validateVMCreationParameters of the library: a VM without a memory size has
\* 1 GiB, in MiB here.
Memory(p) == IF p.memory = Nil THEN 1024 ELSE The(p.memory)

CreateVMAccepts(p) == \A g \in p.guaranteed : g <= Memory(p)

-----------------------------------------------------------------------------
(* The size of the OS disk.                                                 *)

\* Mutant: the product is computed in a narrower word.
NarrowWord(sizeGB) == (sizeGB * GB) % (4 * GB)

\* The product of two int64, read as a uint64.
NewDiskSize(sizeGB) == Unsigned(Signed(sizeGB * GB))

ExtendedSize(size, sizeGB) ==
  IF NewDiskSize(sizeGB) > size THEN NewDiskSize(sizeGB) ELSE size

-----------------------------------------------------------------------------
(* The address.                                                             *)

\* The range to exclude is written "<address>/32".
InRange(a, excluded) == a.family = excluded.family /\ a.net = excluded.net

\* Mutant: one address takes the place of the other.
ClusterIngress(e) == {e.ingress}

ClusterAddress(e) == {e.api, e.ingress}

\* The places of the addresses in no excluded range.
Usable(nic, excluded) ==
  {i \in DOMAIN nic.ips : \A x \in excluded : ~InRange(nic.ips[i], x)}

\* The answer is the first address of an interface whose name matches; which
\* interface comes first is left to the iteration over a map.
FindUsableInternalAddress(e) ==
  LET usable(n) == Usable(n, ClusterAddress(e))
      nics      == {n \in e.nics : n.matches /\ usable(n) # {}}
      first(n)  == {n.ips[i] : i \in {k \in usable(n) : \A j \in usable(n) : k <= j}}
  IN IF nics = {} THEN {NoAddress} ELSE UNION {first(n) : n \in nics}

-----------------------------------------------------------------------------
Init ==
  /\ stage = "new"
  /\ \E c \in Cases : spec = c[1] /\ engine = c[2]
  /\ params = NoParams
  /\ disk = engine.size
  /\ ip = NoAddress

Validate ==
  /\ stage = "new"
  /\ stage' = IF ValidateMachine(spec, engine) THEN "accepted" ELSE "rejected"
  /\ UNCHANGED <<spec, engine, params, disk, ip>>

Build ==
  /\ stage = "accepted"
  /\ params' = BuildParams(spec, engine)
  /\ stage' = IF params'.panic THEN "panicked" ELSE "built"
  /\ UNCHANGED <<spec, engine, disk, ip>>

CreateVM ==
  /\ stage = "built"
  /\ stage' = IF CreateVMAccepts(params) THEN "created" ELSE "refused"
  /\ UNCHANGED <<spec, engine, params, disk, ip>>

\* A VM without a disk is left as it is, and is not started.
ExtendDisk ==
  /\ stage = "created"
  /\ \/ /\ engine.disks > 0
        /\ disk' = ExtendedSize(disk, The(spec.disk))
        /\ stage' = "extended"
     \/ engine.disks = 0 /\ stage' = "diskless" /\ UNCHANGED disk
  /\ UNCHANGED <<spec, engine, params, ip>>

\* An excluded address that does not parse is an error.
PublishAddress ==
  /\ stage = "extended"
  /\ \/ /\ NoAddress \in ClusterAddress(engine)
        /\ stage' = "unreachable" /\ UNCHANGED ip
     \/ /\ NoAddress \notin ClusterAddress(engine)
        /\ ip' \in FindUsableInternalAddress(engine)
        /\ stage' = "published"
  /\ UNCHANGED <<spec, engine, params, disk>>

Next == Validate \/ Build \/ CreateVM \/ ExtendDisk \/ PublishAddress

Spec == Init /\ [][Next]_vars

-----------------------------------------------------------------------------
(* Properties.                                                              *)

\* What validateMachine does not look at, or not on every path.
Unchecked(s, e) ==
  \/ \E c \in s.cpu : 0 \in {c.cores, c.threads, c.sockets}
  \/ s.pinning # "" /\ ~e.pinning
  \/ s.format \notin {"", "cow", "raw"}
  \/ s.storage /\ e.disks = 0

\* Apart from that, a spec that validateMachine accepts never makes create panic
\* nor CreateVM refuse it.
AcceptedIsCreated ==
  ~Unchecked(spec, engine) => stage \notin {"panicked", "refused"}

\* Every size that fits into a word is given to the VM, and a disk of the
\* template that is larger is not made smaller.
DiskIsExtended ==
  stage = "extended" =>
    \A n \in spec.disk :
      n > 0 /\ n * GB < Half =>
        disk = IF n * GB > engine.size THEN n * GB ELSE engine.size

OwnAddresses(e) ==
  UNION {{n.ips[i] : i \in DOMAIN n.ips} : n \in {k \in e.nics : k.matches}}

\* The address published is one the VM has on an interface of the right name, and
\* never one of the cluster's, which wander from node to node; there is one unless
\* the VM has none, or only IPv6 ones, of which "/32" may exclude too many
\* (findUsableInternalAddress, getClusterAddress).
AddressIsOwn ==
  stage = "published" =>
    LET own == OwnAddresses(engine) \ {engine.api, engine.ingress}
    IN \/ ip \in own
       \/ ip = NoAddress /\ \A a \in own : a.family = 6

-----------------------------------------------------------------------------
(* What comments in the repository say of the code and the code does not do *)
(* (each is refuted by a run of its own).                                   *)

\* "validateMachine validates the machine object yaml fields and returns
\* InvalidMachineConfiguration in case the validation failed": a field create
\* cannot carry out is reported; it does not end the manager in a panic.
InvalidIsReported == stage # "panicked"

\* "Sockets is the number of sockets for a VM", "Cores is the number of cores per
\* socket", "Thread is the number of thread per core": the VM has the topology of
\* the spec unless the instance type gives it one.
TopologyIsGiven ==
  stage = "created" /\ ~spec.instanceType =>
    \A c \in spec.cpu : c.sockets > 0 => params.topo = {c}
=============================================================================
