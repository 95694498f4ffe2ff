----------------------------- MODULE MCValidIGD -----------------------------
(***************************************************************************)
(* ValidIGD for TLC: two devices, which are gateways with none to three    *)
(* connection services or no gateways at all, in either order, alone, or   *)
(* none.                                                                   *)
(***************************************************************************)
EXTENDS ValidIGD

CONSTANTS d1, d2

AllDescriptions == [cif : {TRUE}, services : 0..3] \cup {[cif |-> FALSE, services |-> 0]}
AllDevLists == {<<>>, <<d1>>, <<d1, d2>>}
=============================================================================
