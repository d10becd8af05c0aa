------------------------ MODULE ProviderSpec_proofs ------------------------
(***************************************************************************)
(* For every provider spec, every engine and every width of an integer:    *)
(* what validateMachine accepts is built and created unless a field it     *)
(* never looks at is wrong, the VM's disk is extended and not shrunk, and  *)
(* the address published is its own.                                       *)
(***************************************************************************)
EXTENDS ProviderSpec, TLAPS

Stages == {"new", "accepted", "rejected", "built", "panicked", "created", "refused",
           "extended", "diskless", "published", "unreachable"}

\* The stages at which the parameters have been built.
Built == {"built", "created", "refused", "extended", "diskless", "published", "unreachable"}

InputInv == spec \in ProviderSpecs /\ engine \in Engines /\ stage \in Stages

\* What each stage says of the ones before it.
StageInv ==
  /\ stage \notin {"new", "rejected"} => ValidateMachine(spec, engine)
  /\ stage = "panicked" => BuildParams(spec, engine).panic
  /\ stage \in Built => params = BuildParams(spec, engine) /\ ~params.panic
  /\ stage = "refused" => ~CreateVMAccepts(params)

DiskInv ==
  /\ stage \notin {"extended", "published", "unreachable"} => disk = engine.size
  /\ stage = "extended" => disk = ExtendedSize(engine.size, The(spec.disk))

AddressInv ==
  stage = "published" =>
    /\ NoAddress \notin ClusterAddress(engine)
    /\ ip \in FindUsableInternalAddress(engine)

CreateInv == InputInv /\ StageInv /\ DiskInv /\ AddressInv

-----------------------------------------------------------------------------
(* The invariant holds.                                                     *)

\* Create starts from a spec and an engine of the given ones.
LEMMA InitCreateInv == Init => CreateInv
<1>1. SUFFICES ASSUME Init PROVE CreateInv
  OBVIOUS
<1>2. PICK c \in Cases : spec = c[1] /\ engine = c[2]
  BY <1>1 DEF Init
<1>3. spec \in ProviderSpecs /\ engine \in Engines
  BY <1>2, SpecAssumption
<1>4. stage = "new" /\ disk = engine.size
  BY <1>1 DEF Init
<1> QED
  BY <1>3, <1>4 DEF CreateInv, InputInv, StageInv, DiskInv, AddressInv, Stages, Built

\* A step of Create keeps what the earlier ones have established.
LEMMA NextCreateInv == CreateInv /\ [Next]_vars => CreateInv'
<1> SUFFICES ASSUME CreateInv, [Next]_vars PROVE CreateInv'
  OBVIOUS
<1> USE DEF CreateInv, InputInv, StageInv, DiskInv, AddressInv, Stages, Built
<1>1. CASE Validate
  BY <1>1 DEF Validate
<1>2. CASE Build
  BY <1>2 DEF Build
<1>3. CASE CreateVM
  BY <1>3 DEF CreateVM
<1>4. CASE ExtendDisk
  BY <1>4 DEF ExtendDisk
<1>5. CASE PublishAddress
  BY <1>5 DEF PublishAddress
<1>6. CASE UNCHANGED vars
  BY <1>6 DEF vars
<1> QED
  BY <1>1, <1>2, <1>3, <1>4, <1>5, <1>6 DEF Next

\* In every state the stages of Create agree with each other.
THEOREM StagesAgree == Spec => []CreateInv
  BY InitCreateInv, NextCreateInv, PTL DEF Spec

-----------------------------------------------------------------------------
(* The operators.                                                           *)

\* A pointer that is not nil points to its only element.
LEMMA PointsTo ==
  ASSUME NEW S, NEW p \in Pointer(S), NEW v \in p
  PROVE  The(p) = v
  BY DEF The, Pointer

\* A size that fits into a word is what the code computes.
LEMMA SizeFits ==
  ASSUME NEW n \in Int, n > 0, n * GB < Half
  PROVE  NewDiskSize(n) = n * GB
<1> DEFINE m == n * GB
<1>1. m \in Int /\ m >= 0 /\ m < Half /\ Half \in Nat /\ Half > 0
  BY SpecAssumption
<1> HIDE DEF m
<1>2. ASSUME NEW a \in Int, NEW b \in Int, 0 <= a, a < b
      PROVE  a % b = a
  BY <1>2
<1>3. (m + Half) % (2 * Half) = m + Half
  BY <1>1, <1>2
<1>4. m % (2 * Half) = m
  BY <1>1, <1>2
<1>5. m + Half - Half = m
  BY <1>1
<1>6. Signed(m) = m
  BY <1>1, <1>3, <1>5 DEF Unsigned, Signed
<1>7. Unsigned(m) = m
  BY <1>4 DEF Unsigned
<1> QED
  BY <1>6, <1>7 DEF NewDiskSize, m

-----------------------------------------------------------------------------
(* The parameters.  A builder panics, or keeps what decides over memory.    *)

Topologies == [cores : Int, threads : Int, sockets : Int]

DiskParameters == [sparse : SUBSET BOOLEAN, format : STRING \cup {""}, storage : BOOLEAN]

Params ==
  [panic : {FALSE}, topo : SUBSET Topologies, mode : SUBSET {"host_passthrough"},
   memory : SUBSET Int, guaranteed : SUBSET Int, ballooning : SUBSET BOOLEAN,
   hugepages : SUBSET Int, clone : SUBSET BOOLEAN, disks : Seq(DiskParameters)]

SameMemory(p, q) ==
  q.memory = p.memory /\ q.guaranteed = p.guaranteed

\* A sequence of one value over and over, and one of a single value.
LEMMA Repeated ==
  ASSUME NEW S, NEW v \in S, NEW n \in Nat
  PROVE  [k \in 1 .. n |-> v] \in Seq(S) /\ <<v>> \in Seq(S)
  OBVIOUS

\* What create starts from.
LEMMA NoParamsOK == NoParams \in Params
<1>1. <<>> \in Seq(DiskParameters)
  OBVIOUS
<1> QED
  BY <1>1 DEF NoParams, Params, Nil

\* An unsigned integer is a natural number, and zero only for zero.
LEMMA UnsignedZero ==
  ASSUME NEW n \in Words
  PROVE  Unsigned(n) \in Nat /\ (Unsigned(n) = 0 => n = 0)
<1>1. n \in Int /\ -Half <= n /\ n < Half /\ Half \in Nat /\ Half > 0
  BY SpecAssumption DEF Words
<1>2. CASE n >= 0
  <2>1. n % (2 * Half) = n
    BY <1>1, <1>2
  <2> QED
    BY <1>1, <1>2, <2>1 DEF Unsigned
<1>3. CASE n < 0
  <2>1. n % (2 * Half) = n + 2 * Half
    BY <1>1, <1>3
  <2> QED
    BY <1>1, <1>3, <2>1 DEF Unsigned
<1> QED
  BY <1>1, <1>2, <1>3

\* The CPU of a spec panics only over a zero, and the memory is taken over.
LEMMA HardwareParams ==
  ASSUME NEW s \in ProviderSpecs, ValidInstanceID(s), ~s.instanceType
  PROVE  \/ /\ Hardware(NoParams, s) = Panic
            /\ \E c \in s.cpu : 0 \in {c.cores, c.threads, c.sockets}
         \/ /\ Hardware(NoParams, s) \in Params
            /\ Hardware(NoParams, s).memory = IfPositive(s.memory)
            /\ Hardware(NoParams, s).guaranteed = IfPositive(s.guaranteed)
<1>1. NoParams \in Params
  BY NoParamsOK
<1>2. PICK c \in s.cpu : TRUE
  BY DEF ValidInstanceID, Nil
<1>3. s.cpu \in Pointer([sockets : Words, cores : Words, threads : Words])
  BY DEF ProviderSpecs
<1>4. The(s.cpu) = c
  BY <1>3, PointsTo
<1>5. c.cores \in Words /\ c.sockets \in Words /\ c.threads \in Words
  BY <1>3 DEF Pointer
<1> DEFINE given == {Unsigned(c.cores), Unsigned(c.sockets), Unsigned(c.threads)}
<1>6. CASE 0 \in given
  <2>1. CPU(NoParams, c) = Panic
    BY <1>6 DEF CPU, WithCPUParameters
  <2>2. Hardware(NoParams, s) = Panic
    BY <1>4, <2>1 DEF Hardware, Panic
  <2>3. 0 \in {c.cores, c.threads, c.sockets}
    BY <1>5, <1>6, UnsignedZero
  <2> QED
    BY <1>2, <2>2, <2>3
<1>7. CASE 0 \notin given
  <2> DEFINE t == [cores |-> Unsigned(c.cores), threads |-> Unsigned(c.sockets),
                   sockets |-> Unsigned(c.threads)]
             q == [NoParams EXCEPT !.topo = {t}, !.mode = Nil]
  <2>1. CPU(NoParams, c) = q
    BY <1>7 DEF CPU, WithCPUParameters
  <2>2. t \in Topologies
    BY <1>5, UnsignedZero DEF Topologies
  <2>3. q \in Params
    BY <1>1, <2>2 DEF Params, Nil
  <2>4. ~q.panic
    BY <2>3 DEF Params
  <2> HIDE DEF q
  <2>5. Hardware(NoParams, s) = [q EXCEPT !.memory = IfPositive(s.memory),
                                          !.guaranteed = IfPositive(s.guaranteed)]
    BY <1>4, <2>1, <2>4 DEF Hardware
  <2>6. IfPositive(s.memory) \in SUBSET Int /\ IfPositive(s.guaranteed) \in SUBSET Int
    BY DEF IfPositive, ProviderSpecs
  <2>7. /\ Hardware(NoParams, s) \in Params
        /\ Hardware(NoParams, s).memory = IfPositive(s.memory)
        /\ Hardware(NoParams, s).guaranteed = IfPositive(s.guaranteed)
    BY <2>3, <2>5, <2>6 DEF Params
  <2> QED
    BY <2>7
<1> QED
  BY <1>6, <1>7

\* Pages that validateMachine lets through do not panic.
LEMMA PagesParams ==
  ASSUME NEW s \in ProviderSpecs, NEW p \in Params
  PROVE  \/ Pages(p, s) = Panic /\ ~ValidHugepages(s.hugepages)
         \/ Pages(p, s) \in Params /\ SameMemory(p, Pages(p, s))
<1>1. s.hugepages \in Int /\ ~p.panic
  BY DEF ProviderSpecs, Params
<1>2. CASE s.hugepages <= 0
  BY <1>2 DEF Pages, SameMemory
<1>3. CASE s.hugepages > 0 /\ s.hugepages \notin {2048, 1048576}
  BY <1>1, <1>3 DEF Pages, ValidHugepages
<1>4. CASE s.hugepages > 0 /\ s.hugepages \in {2048, 1048576}
  <2>1. Pages(p, s) = [p EXCEPT !.hugepages = {s.hugepages}]
    BY <1>1, <1>4 DEF Pages
  <2> QED
    BY <1>1, <2>1 DEF Params, SameMemory
<1> QED
  BY <1>1, <1>2, <1>3, <1>4

\* The disks of the template panic only over their format.
LEMMA DisksParams ==
  ASSUME NEW s \in ProviderSpecs, NEW e \in Engines, NEW p \in Params
  PROVE  \/ Disks(p, s, e) = Panic /\ s.format \notin {"", "cow", "raw"}
         \/ Disks(p, s, e) \in Params /\ SameMemory(p, Disks(p, s, e))
<1>1. ~p.panic
  BY DEF Params
<1>2. CASE s.sparse = Nil /\ s.format = ""
  BY <1>2 DEF Disks, SameMemory
<1> DEFINE given == ~(s.sparse = Nil /\ s.format = "")
<1>3. CASE given /\ e.disks > 0 /\ s.format \notin {"", "cow", "raw"}
  BY <1>1, <1>3 DEF Disks
<1>4. CASE given /\ ~(e.disks > 0 /\ s.format \notin {"", "cow", "raw"})
  <2> DEFINE d == [k \in 1 .. e.disks |-> DiskParams(s.sparse, s.format, FALSE)]
  <2>1. DiskParams(s.sparse, s.format, FALSE) \in DiskParameters
    BY DEF DiskParams, DiskParameters, ProviderSpecs, Pointer
  <2>2. e.disks \in Nat
    BY DEF Engines
  <2>3. d \in Seq(DiskParameters)
    BY <2>1, <2>2, Repeated
  <2>4. Disks(p, s, e) = [p EXCEPT !.disks = d]
    BY <1>1, <1>4 DEF Disks
  <2> HIDE DEF d
  <2> QED
    BY <2>3, <2>4 DEF Params, SameMemory
<1> QED
  BY <1>2, <1>3, <1>4

\* The clone flag panics over nothing.
LEMMA CloneParams ==
  ASSUME NEW s \in ProviderSpecs, NEW p \in Params
  PROVE  Clone(p, s) \in Params /\ SameMemory(p, Clone(p, s))
<1> DEFINE c == IF s.clone = Nil THEN {s.vmType # "desktop"} ELSE s.clone
<1>1. c \in SUBSET BOOLEAN
  BY DEF ProviderSpecs, Pointer
<1>2. Clone(p, s) = [p EXCEPT !.clone = c]
  BY DEF Clone, Params
<1> HIDE DEF c
<1> QED
  BY <1>1, <1>2 DEF Params, SameMemory

\* The storage domain panics only over a template without disks.
LEMMA StorageParams ==
  ASSUME NEW s \in ProviderSpecs, NEW e \in Engines, NEW p \in Params
  PROVE  \/ Storage(p, s, e) = Panic /\ s.storage /\ e.disks = 0
         \/ Storage(p, s, e) \in Params /\ SameMemory(p, Storage(p, s, e))
<1>1. ~p.panic
  BY DEF Params
<1>2. CASE ~s.storage
  BY <1>2 DEF Storage, SameMemory
<1>3. CASE s.storage /\ e.disks = 0
  BY <1>1, <1>3 DEF Storage
<1>4. CASE s.storage /\ e.disks # 0
  <2> DEFINE d == <<DiskParams(Nil, "", TRUE)>>
  <2>1. DiskParams(Nil, "", TRUE) \in DiskParameters
    <3>1. Nil \in SUBSET BOOLEAN
      BY DEF Nil
    <3> QED
      BY <3>1 DEF DiskParams, DiskParameters
  <2>2. d \in Seq(DiskParameters)
    BY <2>1, Repeated
  <2>3. Storage(p, s, e) = [p EXCEPT !.disks = d]
    BY <1>1, <1>4 DEF Storage
  <2> HIDE DEF d
  <2> QED
    BY <2>2, <2>3 DEF Params, SameMemory
<1> QED
  BY <1>2, <1>3, <1>4

\* A high performance VM has its guaranteed memory dropped, any other nothing.
LEMMA HighPerformanceParams ==
  ASSUME NEW s \in ProviderSpecs, NEW p \in Params
  PROVE  /\ HighPerformance(p, s) \in Params
         /\ HighPerformance(p, s).guaranteed = Nil \/ SameMemory(p, HighPerformance(p, s))
<1>1. ~p.panic
  BY DEF Params
<1>2. CASE s.vmType # "high_performance"
  BY <1>2 DEF HighPerformance, SameMemory
<1>3. CASE s.vmType = "high_performance"
  <2> DEFINE q == [p EXCEPT !.topo = Nil, !.mode = {"host_passthrough"}]
  <2>1. Nil \in SUBSET Topologies /\ Nil \in SUBSET Int
    BY DEF Nil
  <2>2. {FALSE} \in SUBSET BOOLEAN
    OBVIOUS
  <2>3. q \in Params
    BY <2>1, <2>2 DEF Params
  <2>4. HighPerformance(p, s) = [q EXCEPT !.guaranteed = Nil, !.ballooning = {FALSE}]
    BY <1>1, <1>3 DEF HighPerformance, WithMemoryPolicy
  <2> HIDE DEF q
  <2> QED
    BY <1>3, <2>1, <2>2, <2>3, <2>4 DEF Params
<1> QED
  BY <1>2, <1>3

\* After a panic nothing is built.
LEMMA PanicStays ==
  ASSUME NEW s, NEW e
  PROVE  /\ Pages(Panic, s) = Panic /\ Disks(Panic, s, e) = Panic
         /\ Clone(Panic, s) = Panic /\ Storage(Panic, s, e) = Panic
         /\ HighPerformance(Panic, s) = Panic
<1>1. Panic.panic
  BY DEF Panic
<1> QED
  BY <1>1 DEF Pages, Disks, Clone, Storage, HighPerformance

\* create panics for one of four reasons, or its parameters hold the memory it
\* began with; only high performance takes the guaranteed memory away.
LEMMA WholeBuild ==
  ASSUME NEW s \in ProviderSpecs, NEW e \in Engines, NEW h \in Params \cup {Panic},
         h = Hardware(NoParams, s)
  PROVE  \/ /\ BuildParams(s, e) = Panic
            /\ \/ h = Panic
               \/ ~ValidHugepages(s.hugepages)
               \/ s.format \notin {"", "cow", "raw"}
               \/ s.storage /\ e.disks = 0
         \/ /\ BuildParams(s, e) \in Params
            /\ h \in Params
            /\ BuildParams(s, e).guaranteed = Nil \/ SameMemory(h, BuildParams(s, e))
<1> DEFINE p1 == Pages(h, s)
           p2 == Disks(p1, s, e)
           p3 == Clone(p2, s)
           p4 == Storage(p3, s, e)
           p5 == HighPerformance(p4, s)
<1>1. BuildParams(s, e) = p5
  BY DEF BuildParams
<1>2. \/ p1 = Panic /\ (h = Panic \/ ~ValidHugepages(s.hugepages))
      \/ p1 \in Params /\ h \in Params /\ SameMemory(h, p1)
  BY PagesParams, PanicStays
<1> HIDE DEF p1
<1>3. \/ p2 = Panic /\ (p1 = Panic \/ s.format \notin {"", "cow", "raw"})
      \/ p2 \in Params /\ p1 \in Params /\ SameMemory(p1, p2)
  BY <1>2, DisksParams, PanicStays
<1> HIDE DEF p2
<1>4. \/ p3 = Panic /\ p2 = Panic
      \/ p3 \in Params /\ p2 \in Params /\ SameMemory(p2, p3)
  BY <1>3, CloneParams, PanicStays
<1> HIDE DEF p3
<1>5. \/ p4 = Panic /\ (p3 = Panic \/ (s.storage /\ e.disks = 0))
      \/ p4 \in Params /\ p3 \in Params /\ SameMemory(p3, p4)
  BY <1>4, StorageParams, PanicStays
<1> HIDE DEF p4
<1>6. \/ p5 = Panic /\ p4 = Panic
      \/ /\ p5 \in Params /\ p4 \in Params
         /\ p5.guaranteed = Nil \/ SameMemory(p4, p5)
  BY <1>5, HighPerformanceParams, PanicStays
<1> HIDE DEF p5
<1>7. Panic \notin Params
  BY DEF Panic, Params
<1>8. CASE p4 = Panic
  BY <1>1, <1>2, <1>3, <1>4, <1>5, <1>6, <1>7, <1>8
<1>9. CASE p4 # Panic
  <2>1. h \in Params /\ SameMemory(h, p4)
    BY <1>2, <1>3, <1>4, <1>5, <1>7, <1>9 DEF SameMemory
  <2> QED
    BY <1>1, <1>6, <1>9, <2>1 DEF SameMemory
<1> QED
  BY <1>8, <1>9

-----------------------------------------------------------------------------
(* The properties.                                                          *)

\* A panic has one of the reasons that validateMachine does not look at.
LEMMA PanicIsUnchecked ==
  ASSUME NEW s \in ProviderSpecs, NEW e \in Engines,
         ValidateMachine(s, e), BuildParams(s, e).panic
  PROVE  Unchecked(s, e)
<1> DEFINE h == Hardware(NoParams, s)
<1>1. ValidInstanceID(s) /\ (Unchecked(s, e) \/ ValidHugepages(s.hugepages))
  BY DEF ValidateMachine, Unchecked
<1>2. \/ h = Panic /\ \E c \in s.cpu : 0 \in {c.cores, c.threads, c.sockets}
      \/ h \in Params
  <2>1. CASE s.instanceType
    BY <2>1, NoParamsOK DEF Hardware
  <2>2. CASE ~s.instanceType
    BY <1>1, <2>2, HardwareParams
  <2> QED
    BY <2>1, <2>2
<1>3. Panic \notin Params
  BY DEF Panic, Params
<1>4. BuildParams(s, e) \notin Params
  BY DEF Params
<1> HIDE DEF h
<1>5. \/ h = Panic
      \/ ~ValidHugepages(s.hugepages)
      \/ s.format \notin {"", "cow", "raw"}
      \/ s.storage /\ e.disks = 0
  BY <1>2, <1>4, WholeBuild DEF h
<1> QED
  BY <1>1, <1>2, <1>3, <1>5 DEF Unchecked

\* The guaranteed memory that validateMachine has compared with the memory is
\* within the memory the VM is created with.
LEMMA GuaranteedFits ==
  ASSUME NEW s \in ProviderSpecs, NEW e \in Engines,
         ValidateMachine(s, e), ~BuildParams(s, e).panic, ~Unchecked(s, e)
  PROVE  CreateVMAccepts(BuildParams(s, e))
<1> DEFINE h == Hardware(NoParams, s)
           b == BuildParams(s, e)
<1>1. ValidInstanceID(s) /\ ValidGuaranteedMemory(s)
  BY DEF ValidateMachine, Unchecked
<1>2. b # Panic
  BY DEF Panic
<1>3. s.memory \in Int /\ s.guaranteed \in Int
  BY DEF ProviderSpecs
<1>4. CASE s.instanceType
  <2>1. h = NoParams
    BY <1>4 DEF Hardware
  <2>2. b.guaranteed = Nil \/ SameMemory(NoParams, b)
    BY <1>2, <2>1, NoParamsOK, WholeBuild
  <2>3. b.guaranteed = Nil
    BY <2>2 DEF SameMemory, NoParams
  <2> QED
    BY <2>3 DEF CreateVMAccepts, Nil
<1>5. CASE ~s.instanceType
  <2>1. h = Panic \/ (h \in Params /\ h.memory = IfPositive(s.memory)
                                   /\ h.guaranteed = IfPositive(s.guaranteed))
    BY <1>1, <1>5, HardwareParams
  <2>2. h \in Params /\ (b.guaranteed = Nil \/ SameMemory(h, b))
    BY <1>2, <2>1, WholeBuild
  <2>3. CASE b.guaranteed = Nil
    BY <2>3 DEF CreateVMAccepts, Nil
  <2>4. CASE SameMemory(h, b)
    <3>1. b.memory = IfPositive(s.memory) /\ b.guaranteed = IfPositive(s.guaranteed)
      <4>1. Panic \notin Params
        BY DEF Panic, Params
      <4> QED
        BY <2>1, <2>2, <2>4, <4>1 DEF SameMemory
    <3>2. SUFFICES ASSUME NEW g \in b.guaranteed PROVE g <= Memory(b)
      BY DEF CreateVMAccepts
    <3>3. g = s.guaranteed /\ s.guaranteed > 0
      BY <3>1, <3>2 DEF IfPositive
    <3>4. s.memory > 0 /\ g <= s.memory
      BY <1>1, <1>3, <3>3 DEF ValidGuaranteedMemory
    <3>5. b.memory = {s.memory}
      BY <3>1, <3>4 DEF IfPositive
    <3>6. The({s.memory}) = s.memory
      BY DEF The
    <3> QED
      BY <3>4, <3>5, <3>6 DEF Memory, Nil
  <2> QED
    BY <2>2, <2>3, <2>4
<1> QED
  BY <1>4, <1>5

\* Whatever the specs and the engines: a spec that validateMachine accepts makes
\* create panic, or CreateVM refuse it, only over what validateMachine leaves
\* unchecked.
THEOREM AcceptedSpecIsCreated == Spec => []AcceptedIsCreated
<1>1. CreateInv => AcceptedIsCreated
  <2>1. SUFFICES ASSUME CreateInv, stage \in {"panicked", "refused"}, ~Unchecked(spec, engine)
                 PROVE  FALSE
    BY DEF AcceptedIsCreated
  <2>2. spec \in ProviderSpecs /\ engine \in Engines /\ ValidateMachine(spec, engine)
    BY <2>1 DEF CreateInv, InputInv, StageInv
  <2>3. CASE stage = "panicked"
    BY <2>1, <2>2, <2>3, PanicIsUnchecked DEF CreateInv, StageInv
  <2>4. CASE stage = "refused"
    BY <2>1, <2>2, <2>4, GuaranteedFits DEF CreateInv, StageInv, Built
  <2> QED
    BY <2>1, <2>3, <2>4
<1> QED
  BY <1>1, StagesAgree, PTL

\* Whatever the width of an integer and the size of the template's disk: a size that
\* fits is given to the VM, and a larger disk is not made smaller.
THEOREM DiskHasItsSize == Spec => []DiskIsExtended
<1>1. CreateInv => DiskIsExtended
  <2>1. SUFFICES ASSUME CreateInv, stage = "extended", NEW n \in spec.disk,
                        n > 0, n * GB < Half
                 PROVE  disk = IF n * GB > engine.size THEN n * GB ELSE engine.size
    BY DEF DiskIsExtended
  <2>2. spec.disk \in Pointer(Int)
    BY <2>1 DEF CreateInv, InputInv, ProviderSpecs
  <2>3. n \in Int /\ The(spec.disk) = n
    BY <2>2, PointsTo DEF Pointer
  <2>4. NewDiskSize(n) = n * GB
    BY <2>1, <2>3, SizeFits
  <2>5. disk = ExtendedSize(engine.size, n)
    BY <2>1, <2>3 DEF CreateInv, DiskInv
  <2> QED
    BY <2>4, <2>5 DEF ExtendedSize
<1> QED
  BY <1>1, StagesAgree, PTL

\* An IPv4 address in the range of another is that address.
LEMMA SameIPv4 ==
  ASSUME NEW a \in Addresses, NEW x \in Addresses, a.family = 4, InRange(a, x)
  PROVE  a = x
  BY DEF Addresses, InRange

\* Whatever the guest reports of its interfaces: the address published is the VM's
\* own and none of the cluster's, and it is missing only if there is no IPv4 one.
THEOREM PublishedAddressIsOwn == Spec => []AddressIsOwn
<1>1. CreateInv => AddressIsOwn
  <2> DEFINE own == OwnAddresses(engine) \ {engine.api, engine.ingress}
             usable(n) == Usable(n, ClusterAddress(engine))
             nics == {n \in engine.nics : n.matches /\ usable(n) # {}}
  <2>1. SUFFICES ASSUME CreateInv, stage = "published"
                 PROVE  ip \in own \/ (ip = NoAddress /\ \A a \in own : a.family = 6)
    BY DEF AddressIsOwn
  <2>2. /\ engine \in Engines
        /\ engine.api \in Addresses /\ engine.ingress \in Addresses
        /\ ip \in FindUsableInternalAddress(engine)
    BY <2>1 DEF CreateInv, InputInv, AddressInv, ClusterAddress, Engines
  <2>3. CASE nics = {}
    <3>1. ip = NoAddress
      BY <2>2, <2>3 DEF FindUsableInternalAddress
    <3>2. SUFFICES ASSUME NEW a \in own, a.family # 6 PROVE FALSE
      BY <3>1
    <3>3. PICK n \in engine.nics : n.matches /\ \E i \in DOMAIN n.ips : a = n.ips[i]
      BY <3>2 DEF OwnAddresses
    <3>4. a \in Addresses
      BY <2>2, <3>3 DEF Engines
    <3>5. a.family = 4
      BY <3>2, <3>4 DEF Addresses
    <3>6. PICK x \in {engine.api, engine.ingress} : InRange(a, x)
      BY <2>3, <3>3 DEF Usable, ClusterAddress
    <3>7. x \in Addresses
      BY <2>2, <3>6
    <3>8. a = x
      BY <3>4, <3>5, <3>6, <3>7, SameIPv4
    <3>9. a \notin {engine.api, engine.ingress}
      BY <3>2
    <3> QED
      BY <3>6, <3>8, <3>9
  <2>4. CASE nics # {}
    <3>1. PICK n \in nics : \E i \in usable(n) : ip = n.ips[i]
      BY <2>2, <2>4 DEF FindUsableInternalAddress
    <3>2. n \in engine.nics /\ n.matches /\ \E i \in DOMAIN n.ips : ip = n.ips[i]
      BY <3>1 DEF Usable
    <3>3. ~InRange(ip, engine.api) /\ ~InRange(ip, engine.ingress)
      BY <3>1 DEF Usable, ClusterAddress
    <3>4. ip # engine.api /\ ip # engine.ingress
      BY <3>3 DEF InRange
    <3>5. ip \in {n.ips[i] : i \in DOMAIN n.ips}
      BY <3>2
    <3>6. n \in {k \in engine.nics : k.matches}
      BY <3>2
    <3>7. ip \in OwnAddresses(engine)
      BY <3>5, <3>6 DEF OwnAddresses
    <3> QED
      BY <3>4, <3>7
  <2> QED
    BY <2>3, <2>4
<1> QED
  BY <1>1, StagesAgree, PTL
=============================================================================
