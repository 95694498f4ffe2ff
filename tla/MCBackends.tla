----------------------------- MODULE MCBackends -----------------------------
(* Instances of Backends for TLC *)
EXTENDS Backends

Want(rhost, iaddr, iport, desc, ts) ==
  [rhost |-> rhost, iaddr |-> iaddr, iport |-> iport, desc |-> desc, ts |-> ts]

(* two ports of one host for one remote host, two descriptions; another     *)
(* host for all of them                                                     *)
ThreeWants == {Want(7, 11, 1, "a", 0), Want(7, 11, 1, "b", 2), Want(7, 11, 258, "a", 2)}
FourWants == ThreeWants \cup {Want(0, 12, 1, "a", 2)}

(* two remote hosts for one endpoint *)
TwoRemotes == {Want(0, 11, 1, "a", 0), Want(7, 11, 1, "a", 0)}

(* one of the descriptions is the label of a pinhole *)
LabelledWants == {Want(0, 11, 1, "a", 2), Want(7, 11, 258, "pinhole-1 ts-1: x", 0)}

NoLabels == <<>>
OneLabel == [d \in {"pinhole-1 ts-1: x"} |-> [uid |-> 1, ts |-> 1]]

(* the same internal port and protocol as the mappings *)
OnePinhole == {[proto |-> "udp", rhost |-> 0, rport |-> 0, iaddr |-> 61, port |-> 1]}
TwoPinholes == OnePinhole \cup {[proto |-> "udp", rhost |-> 62, rport |-> 3, iaddr |-> 61, port |-> 1]}

UdpKeys == {<<"udp", 1>>, <<"udp", 256>>}
=============================================================================
