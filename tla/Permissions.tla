---------------------------- MODULE Permissions ----------------------------
(***************************************************************************)
(* The permission lines of miniupnpd.conf (upnppermissions.c): the first   *)
(* line that matches a mapping accepts or rejects it, and no match accepts *)
(* it.  AddAnyPortMapping searches for a port with a bitmap of the ports   *)
(* that the lines allow, which is built from the last line to the first, a *)
(* word at a time where a range covers one, and does not look at           *)
(* descriptions.                                                           *)
(*                                                                         *)
(* A line is [allow, emin, emax, addr, mask, imin, imax, regex, re]; an    *)
(* address and a mask are the sets of their bits, re is the set of the     *)
(* descriptions that the regular expression matches (ENABLE_REGEX).        *)
(***************************************************************************)
EXTENDS Naturals, Sequences, SequencesExt

CONSTANTS
  upnppermlist,  \* the lines, in the order of the file
  AddressBits,   \* the bits of each client's address
  WordBits       \* ports in one word of the bitmap, 32 in the code

ASSUME PermissionsAssumption == WordBits \in Nat \ {0}

match_address(perm, client) ==
  AddressBits[client] \cap perm.mask = perm.addr \cap perm.mask

match_permission(perm, eport, client, iport, desc) ==
  /\ eport \in perm.emin..perm.emax
  /\ iport \in perm.imin..perm.imax
  /\ match_address(perm, client)
  /\ perm.regex => desc \in perm.re

check_upnp_rule_against_permissions(eport, client, iport, desc) ==
  LET i == SelectInSeq(upnppermlist,
             LAMBDA perm : match_permission(perm, eport, client, iport, desc))
  IN i = 0 \/ upnppermlist[i].allow

(* The bits that the loop over the range of a line sets or clears *)
Bits(perm) ==
  LET from[j \in Nat] ==
        IF j > perm.emax THEN {}
        ELSE IF j % WordBits = 0 /\ perm.emax >= j + WordBits - 1
        THEN (j .. j + WordBits - 1) \cup from[j + WordBits]
        ELSE {j} \cup from[j + 1]
  IN from[perm.emin]

get_permitted_ext_ports(ports, client, iport) ==
  FoldRight(LAMBDA perm, allowed :
              IF match_address(perm, client) /\ iport \in perm.imin..perm.imax
              THEN IF perm.allow THEN allowed \cup Bits(perm) ELSE allowed \ Bits(perm)
              ELSE allowed,
            upnppermlist, ports)
=============================================================================
