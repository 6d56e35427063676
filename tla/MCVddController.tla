-------------------------- MODULE MCVddController --------------------------
(***************************************************************************)
(* An instance of VddController: the bundled driver `vdd', which is not    *)
(* installed yet, and another matching device `idd'.                       *)
(***************************************************************************)
EXTENDS VddController

TwoDisplays == <<"idd", "vdd">>
VddAbsent == [d \in {"idd", "vdd"} |-> IF d = "vdd" THEN "absent" ELSE "off"]
=============================================================================
