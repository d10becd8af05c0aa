--------------------------- MODULE MCProviderSpec ---------------------------
(***************************************************************************)
(* Bounded inputs for ProviderSpec: every combination of the fields that   *)
(* make the hardware, every combination of those that make the disks,      *)
(* every size of the OS disk in a small word, and one spec with every      *)
(* combination of a few addresses.                                         *)
(***************************************************************************)
EXTENDS ProviderSpec

Base == [secret |-> {TRUE}, instanceType |-> FALSE,
         cpu |-> {[sockets |-> 1, cores |-> 4, threads |-> 2]}, memory |-> 2,
         guaranteed |-> 0, disk |-> {3}, vmType |-> "server", pinning |-> "",
         hugepages |-> 0, clone |-> Nil, sparse |-> Nil, format |-> "",
         storage |-> FALSE]

Pointers == {Nil, {TRUE}, {FALSE}}

Types == {"", "server", "high_performance", "desktop", "other"}

CPUs == {Nil} \cup {{c} : c \in [sockets : {-1, 0, 1, 2}, cores : 0 .. 2, threads : 0 .. 2]}

HardwareSpecs ==
  {[Base EXCEPT !.instanceType = i, !.cpu = c, !.memory = mem, !.guaranteed = g,
                !.vmType = t, !.pinning = p, !.hugepages = h] :
     i \in BOOLEAN, c \in CPUs, mem \in {-1, 0, 2}, g \in {-1, 0, 1, 2, 3},
     t \in {"server", "high_performance"}, p \in {"", "none"}, h \in {0, 7, 2048}}

DiskSpecs ==
  {[Base EXCEPT !.secret = u, !.vmType = t, !.clone = c, !.sparse = s,
                !.format = f, !.storage = d] :
     u \in Pointers, t \in Types, c \in Pointers, s \in Pointers,
     f \in {"", "cow", "raw", "other"}, d \in BOOLEAN}

SizeSpecs == {[Base EXCEPT !.disk = n] : n \in {Nil} \cup {{k} : k \in -20 .. 20}}

AllSpecs == HardwareSpecs \cup DiskSpecs \cup SizeSpecs

\* Two IPv4 addresses, and two IPv6 ones that have their first 32 bits in common.
IP(family, net, rest) == [family |-> family, net |-> net, rest |-> rest]
IPs == {IP(4, 1, 0), IP(4, 2, 0), IP(6, 1, 1), IP(6, 1, 2)}

Lists(n) == UNION {[1 .. k -> IPs] : k \in 0 .. n}

\* The template's disk is no GiB, or two and a bit.
AllEngines ==
  [pinning : BOOLEAN, disks : {0, 2}, size : {1, 34}, nics : {{}},
   api : {IP(4, 1, 0)}, ingress : {IP(4, 2, 0)}]

\* Two interfaces, or one.
Networks ==
  [pinning : {TRUE}, disks : {2}, size : {1},
   nics : {{[matches |-> b, ips |-> q], [matches |-> TRUE, ips |-> r]} :
             b \in BOOLEAN, q \in Lists(2), r \in Lists(2)},
   api : IPs \cup {NoAddress}, ingress : IPs]

AllCases == (AllSpecs \X AllEngines) \cup ({Base} \X Networks)

\* A server VM whose sockets, cores and threads differ.
BaseCases == {Base} \X AllEngines
=============================================================================
