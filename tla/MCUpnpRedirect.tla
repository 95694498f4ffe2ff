--------------------------- MODULE MCUpnpRedirect ---------------------------
(* Instances of UpnpRedirect for TLC; the .cfg files set the constants to   *)
(* definitions of this module.                                              *)
EXTENDS UpnpRedirect, TLC

CONSTANTS c1, c2

TwoClients == {c1, c2}
ClientSymmetry == Permutations(TwoClients)

Nothing == {}

(* two addresses of one network, told apart by bit 0 *)
TwoAddresses == c1 :> {7} @@ c2 :> {0, 7}
Line(allow, emin, emax, addr, mask) ==
  [allow |-> allow, emin |-> emin, emax |-> emax, addr |-> addr, mask |-> mask,
   imin |-> 0, imax |-> 2, regex |-> FALSE, re |-> {}]
NoLines == <<>>

(* c2 may have port 1 for its internal port 2 only, and what is made over   *)
(* NAT-PMP may not have port 2                                              *)
FourLines ==
  << [Line(TRUE, 1, 1, {0, 7}, {0, 7}) EXCEPT !.imin = 2],
     Line(FALSE, 0, 1, {0}, {0}),
     [Line(FALSE, 2, 3, {}, {}) EXCEPT !.regex = TRUE, !.re = {NatpmpName, NatpmpDesc}],
     Line(TRUE, 0, 3, {}, {}) >>

NoFaults == {{}}

(* Additions, and deletions whose nat rule goes or that say they failed *)
FirewallFaults ==
  {{}, {"nat"}, {"filter"}, {"open"}, {"delete"}, {"reach"}, {"del_filter"},
   {"reach", "nat"}, {"del_filter", "filter"}}

(* Deletions in which the nat rule stays, and which do not say so, with     *)
(* whatever the addition that follows does                                  *)
HalfDeletions ==
  {{"reopen"}, {"del_nat"}, {"reopen", "nat"}, {"del_nat", "nat"}, {"reopen", "reach"},
   {"reopen", "del_filter"}, {"del_nat", "filter"}}
AllFaults == FirewallFaults \cup HalfDeletions
FailedRemoval == {{}, {"del_nat"}}
=============================================================================
