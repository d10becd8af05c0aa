------------------------ MODULE MCMachineController ------------------------
(***************************************************************************)
(* Instances of MachineController for TLC: which provider specs a Machine  *)
(* may carry.                                                              *)
(***************************************************************************)
EXTENDS MachineController

\* The smallest valid spec, one that asks for everything, one that does not
\* validate, one whose template has no bootable disk, and none at all.
With(fields) == [f \in SpecFields |-> f \in fields]

Plain      == With({"complete", "parses", "valid", "bootable"})
Full       == With(SpecFields)
Invalid    == With({"complete", "parses", "bootable"})
Unbootable == With({"complete", "parses", "valid"})
Incomplete == With({"bootable"})

AllSpecs   == {Plain, Full, Invalid, Unbootable, Incomplete}
FullOnly   == {Full}
PlainOnly  == {Plain}
=============================================================================
