--------------------------- MODULE MCPcpServer ---------------------------
(* Instances of PcpServer for TLC.  A packet is a well-formed MAP request    *)
(* of one of two clients with a few fields changed.                          *)
EXTENDS PcpServer, TLC

CONSTANTS c1, c2, udp

TwoClients == {c1, c2}

n1 == [map |-> "PCP MAP 1", peer |-> "PCP PEER 1"]
n2 == [map |-> "PCP MAP 2", peer |-> "PCP PEER 2"]
zero == [map |-> "PCP MAP 0", peer |-> "PCP PEER 0"]
MCNonces == {n1, n2, zero}
MCPcpDescs == {n.map : n \in MCNonces} \cup {n.peer : n \in MCNonces}

Map(c, nonce) ==
  [from |-> c, lan |-> TRUE, size |-> "ok", version |-> 2, opcode |-> "MAP",
   lifetime |-> 1, int_ip |-> c, nonce |-> nonce, proto |-> udp, iport |-> 1,
   eport |-> 0, ext_ip |-> "any", options |-> <<>>, rhost |-> AnyHost, rport |-> 1,
   tol |-> 0, name |-> ""]

Option(code, addr) == [code |-> code, ok |-> TRUE, addr |-> addr, up |-> 0, down |-> 0]
Prefer == Option("PREFER_FAILURE", c1)
Marked == [Option("FLOW_PRIORITY", c1) EXCEPT !.up = 1, !.down = 2]

(* c1 asks for any port, and for port 2 or none with too long a lifetime;   *)
(* c2 asks with version 1; both delete, and c1 with another nonce too.      *)
Maps ==
  {Map(c1, n1),
   [Map(c1, n1) EXCEPT !.eport = 2, !.lifetime = 5, !.options = <<Prefer>>],
   [Map(c1, n1) EXCEPT !.lifetime = 0],
   [Map(c1, n2) EXCEPT !.lifetime = 0],
   [Map(c2, n2) EXCEPT !.version = 1],
   [Map(c2, n2) EXCEPT !.version = 1, !.lifetime = 0, !.iport = 0]}

(* a flow of c1, through a port that mappings may have too *)
Peers ==
  {[Map(c1, n1) EXCEPT !.opcode = "PEER", !.eport = 2, !.options = <<Marked>>],
   [Map(c1, n1) EXCEPT !.opcode = "PEER", !.lifetime = 0]}

(* requests that are refused, or answered from no state *)
Refused ==
  {[Map(c2, n1) EXCEPT !.size = "cut"], [Map(c2, n1) EXCEPT !.version = 3],
   [Map(c2, n1) EXCEPT !.int_ip = c1],
   [Map(c2, n1) EXCEPT !.options = <<Option("THIRD_PARTY", c1)>>],
   [Map(c2, n1) EXCEPT !.options = <<Prefer>>],
   [Map(c2, n1) EXCEPT !.options = <<Option("FILTER", c1), Option("MANDATORY", c1)>>],
   [Map(c2, n1) EXCEPT !.proto = "all"],
   [Map(c2, n1) EXCEPT !.opcode = "ANNOUNCE"],
   [Map(c2, n1) EXCEPT !.opcode = "SADSCP", !.name = "voip"]}

MCPackets == Maps \cup Peers \cup Refused
Dscp == <<[name |-> "voip", tol |-> 1, dscp |-> 8], [name |-> "", tol |-> 0, dscp |-> 4]>>

(* answer is written and never read: it tells no states apart *)
AllButAnswer == <<vars, startup_time, epoch_origin, extaddr, upsets, holder, believed,
                  resetAt, unaware, retry, flows,
                  should_send_public_address_change_notif>>

(* a bound: flows of PEER, or a restart or change of address, not both *)
FlowsOrUpset == flows = {} \/ upsets = 0

Nothing == {}
NoFaults == {{}}
TwoAddresses == c1 :> {7} @@ c2 :> {0, 7}
NoPermissions == <<>>
PortThreeReserved == {<<udp, 3>>}
=============================================================================
