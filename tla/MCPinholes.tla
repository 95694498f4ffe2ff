----------------------------- MODULE MCPinholes -----------------------------
(* Instances of Pinholes for TLC; the .cfg files set the constants to       *)
(* definitions of this module.                                              *)
EXTENDS Pinholes

CONSTANTS c1, c2

TwoClients == {c1, c2}

(* Short addresses: the whole port fits in the prefix *)
WholePort == [c \in Clients |-> 5]
=============================================================================
