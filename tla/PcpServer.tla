----------------------------- MODULE PcpServer -----------------------------
(***************************************************************************)
(* The PCP server of miniupnpd (pcpserver.c) on top of the port mappings   *)
(* of module UpnpRedirect: the parsing and validation of a request and its *)
(* options, MAP and PEER requests for IPv4 clients, the SADSCP query, the  *)
(* answer, and the epoch by which clients learn that the daemon restarted  *)
(* or the external address changed.  MAP requests of IPv6 clients open     *)
(* pinholes: module Pinholes.  The build is the one of --pcp-peer, with    *)
(* PCP_FLOWP and PCP_SADSCP.                                               *)
(*                                                                         *)
(* The daemon answers one datagram at a time.  NAT-PMP requests, the sweep *)
(* of expired leases, restarts and changes of the external address come    *)
(* between the requests, in any order.                                     *)
(***************************************************************************)
EXTENDS UpnpRedirect

CONSTANTS
  Packets,       \* datagrams clients send; see PacketSet for the fields
  Nonces,        \* a nonce is [map, peer]: the two descriptions it makes
  ZeroNonce,     \* the nonce of a version 1 request, which has none
  NatpmpClients, \* the clients that use NAT-PMP too
  MinLifetime,   \* min_lifetime
  MaxLifetime,   \* max_lifetime
  ReservedKeys,  \* UDP ports 5350 and 5351
  AllowThird,    \* PCP_ALLOWTHIRDPARTYMASK
  SysUptime,     \* SYSUPTIMEMASK, "system_uptime=yes" of miniupnpd.conf
  DscpValues,    \* dscp_values_list: a sequence of [name, tol, dscp]
  Connections,   \* external ports connections may have; 0 for none
  Addresses,     \* addresses the external interface may have
  MaxPeers,      \* bound on the PEER and DSCP rules when another comes
  MaxUpsets      \* bound on the restarts and changes of the address

ASSUME PcpAssumption ==
  /\ PcpDescs = {n.map : n \in Nonces} \cup {n.peer : n \in Nonces}
  /\ MinLifetime \in Nat \ {0} /\ MaxLifetime \in Nat /\ MinLifetime < MaxLifetime
  /\ ReservedKeys \subseteq Keys
  /\ ZeroNonce \in Nonces /\ NatpmpClients \subseteq Clients
  /\ Connections \subseteq 0..MaxPort
  /\ AllowThird \in BOOLEAN /\ SysUptime \in BOOLEAN
  /\ MaxPeers \in Nat /\ MaxUpsets \in Nat

VARIABLES
  startup_time,  \* when the daemon started, or the system
  epoch_origin,  \* 0 until the first answer
  extaddr,       \* address of the external interface; NULL when it has none
  upsets,        \* number of restarts and changes of the external address
  should_send_public_address_change_notif,
  answer,        \* the response just sent; NULL after any other step
  holder,        \* history: the nonce a PCP client was granted each key with
  believed,      \* history: epoch origin each client has from its last answer
  resetAt,       \* history: when the daemon was last started or changed its
                 \* address after each client had heard of it; 0: never
  unaware,       \* history: clients that heard nothing since then
  retry,         \* history: each client's last MAP request granted, until
                 \* some mapping is removed
  flows          \* history: external endpoints that PEER requests were given

pcpvars == <<startup_time, epoch_origin, extaddr, upsets,
             should_send_public_address_change_notif, answer, holder,
             believed, resetAt, unaware, retry, flows>>

allvars == <<vars, pcpvars>>

NoNonce == [map |-> "none", peer |-> "none"]

Codes == {"SUCCESS", "UNSUPP_VERSION", "NOT_AUTHORIZED", "MALFORMED_REQUEST",
          "UNSUPP_OPCODE", "UNSUPP_OPTION", "MALFORMED_OPTION", "NETWORK_FAILURE",
          "NO_RESOURCES", "CANNOT_PROVIDE_EXTERNAL", "ADDRESS_MISMATCH"}

(* What a datagram holds.  size: "response" has the R bit, "tiny" is below  *)
(* 3 octets, "short" below PCP_MIN_LEN, "bad" above PCP_MAX_LEN or no       *)
(* multiple of 4, "cut" too short for its opcode, "cut_name" for its name.  *)
PacketSet ==
  [from : Clients, lan : BOOLEAN,
   size : {"ok", "response", "tiny", "short", "bad", "cut", "cut_name"},
   version : 1..3, opcode : {"ANNOUNCE", "MAP", "PEER", "SADSCP", "OTHER"},
   lifetime : Nat, int_ip : Clients, nonce : Nonces, proto : Protos \cup {"all"},
   iport : Iports \cup {0}, eport : 0..MaxPort, ext_ip : Addresses \cup {"any"},
   options : Seq([code : {"THIRD_PARTY", "PREFER_FAILURE", "FILTER",
                          "FLOW_PRIORITY", "MANDATORY", "OPTIONAL", "cut"},
                  ok : BOOLEAN, addr : Clients, up : Nat, down : Nat]),
   rhost : Rhosts, rport : Iports, tol : 0..3, name : STRING]

PcpTypeOK ==
  /\ TypeOK
  /\ startup_time \in Nat /\ epoch_origin \in Nat /\ upsets \in Nat
  /\ extaddr \in Addresses \cup {NULL}
  /\ should_send_public_address_change_notif \in BOOLEAN
  /\ answer \in [pkt : Packets, code : Codes, lifetime : Nat, eport : 0..MaxPort,
                 dscp : Nat] \cup {NULL}
  /\ holder \in [Keys -> Nonces \cup {NoNonce}]
  /\ believed \in [Clients -> Nat \cup {NULL}]
  /\ resetAt \in [Clients -> Nat]
  /\ unaware \subseteq Clients
  /\ retry \in [Clients -> [pkt : Packets, eport : 1..MaxPort] \cup {NULL}]
  /\ flows \subseteq Keys

-----------------------------------------------------------------------------
(* The clock of the answers *)

(* upnp_time() counts from the start of the system, as its uptime does *)
set_startup_time == IF SysUptime THEN 0 ELSE now

(* epoch_origin once an answer is made *)
Origin == IF epoch_origin = 0 THEN startup_time ELSE epoch_origin

PcpInit ==
  /\ Init
  /\ startup_time = (IF SysUptime THEN 0 ELSE now) /\ epoch_origin = 0
  /\ extaddr \in Addresses
  /\ upsets = 0
  /\ should_send_public_address_change_notif = FALSE
  /\ answer = NULL /\ retry = [c \in Clients |-> NULL] /\ flows = {}
  /\ holder = [k \in Keys |-> NoNonce]
  /\ believed = [c \in Clients |-> NULL]
  /\ resetAt = [c \in Clients |-> 0]
  /\ unaware = Clients

-----------------------------------------------------------------------------
(* Parsing.  An info is what pcp_info_t gathers from a packet. *)

(* lifetime within the configured range; 0 asks for a deletion *)
parseCommonRequestHeader(pkt) ==
  IF pkt.lifetime > MaxLifetime THEN MaxLifetime
  ELSE IF pkt.lifetime < MinLifetime /\ pkt.lifetime # 0 THEN MinLifetime
  ELSE pkt.lifetime

parsePCPPayload(pkt) ==
  LET nonce == IF pkt.version = 1 THEN ZeroNonce ELSE pkt.nonce
  IN [code |-> "SUCCESS", stop |-> FALSE, opcode |-> pkt.opcode, from |-> pkt.from,
      lifetime |-> IF pkt.opcode = "ANNOUNCE" THEN 0 ELSE parseCommonRequestHeader(pkt),
      int_ip |-> pkt.int_ip, mapped |-> pkt.int_ip, third |-> NULL, pfail |-> FALSE,
      up |-> 0, down |-> 0, proto |-> pkt.proto, iport |-> pkt.iport,
      eport |-> pkt.eport, ext_ip |-> pkt.ext_ip, rhost |-> pkt.rhost,
      rport |-> pkt.rport, nonce |-> nonce,
      desc |-> IF pkt.opcode = "PEER" THEN nonce.peer ELSE nonce.map]

(* An option that cannot be read ends the parsing; an unknown mandatory one *)
(* or a repeated PREFER_FAILURE leaves its error, and the next may change it *)
parsePCPOption(info, opt) ==
  LET ends(code) == [info EXCEPT !.code = code, !.stop = TRUE]
      leaves(code) == [info EXCEPT !.code = code]
  IN CASE opt.code = "cut" -> ends("MALFORMED_OPTION")
       [] opt.code = "THIRD_PARTY" ->
            IF ~opt.ok \/ info.third # NULL THEN ends("MALFORMED_OPTION")
            ELSE [info EXCEPT !.third = opt.addr, !.mapped = opt.addr]
       [] opt.code = "PREFER_FAILURE" ->
            IF info.opcode = "PEER" THEN ends("MALFORMED_REQUEST")
            ELSE IF ~opt.ok \/ info.lifetime = 0 THEN ends("MALFORMED_OPTION")
            ELSE IF info.pfail THEN leaves("MALFORMED_OPTION")
            ELSE [info EXCEPT !.pfail = TRUE]
       [] opt.code = "FILTER" ->
            IF ~opt.ok \/ info.lifetime = 0 THEN ends("MALFORMED_OPTION")
            ELSE IF info.opcode # "MAP" THEN ends("MALFORMED_REQUEST")
            ELSE info
       [] opt.code = "FLOW_PRIORITY" ->
            IF ~opt.ok THEN ends("MALFORMED_OPTION")
            ELSE [info EXCEPT !.up = opt.up, !.down = opt.down]
       [] opt.code = "MANDATORY" -> leaves("UNSUPP_OPTION")
       [] opt.code = "OPTIONAL" -> info

parsePCPOptions(info, options) ==
  FoldLeft(LAMBDA i, o : IF i.stop THEN i ELSE parsePCPOption(i, o), info, options)

(* The external address is the interface's; another one that is suggested   *)
(* is refused only with PREFER_FAILURE.                                     *)
CheckExternalAddress(info) ==
  IF extaddr = NULL THEN [info EXCEPT !.code = "NETWORK_FAILURE"]
  ELSE IF info.ext_ip \notin {"any", extaddr} /\ info.pfail
  THEN [info EXCEPT !.code = "CANNOT_PROVIDE_EXTERNAL"]
  ELSE [info EXCEPT !.ext_ip = extaddr]

ValidatePCPMsg(info) ==
  LET invalid(code) == [info EXCEPT !.code = code]
  IN IF info.code # "SUCCESS" THEN info
     ELSE IF info.int_ip # info.from THEN invalid("ADDRESS_MISMATCH")
     ELSE IF info.third # NULL /\ ~AllowThird THEN invalid("UNSUPP_OPTION")
     ELSE IF info.third = info.from THEN invalid("MALFORMED_REQUEST")
     ELSE IF info.proto = "all" /\ info.iport # 0 THEN invalid("MALFORMED_REQUEST")
     ELSE IF info.pfail /\ info.eport = 0 THEN invalid("MALFORMED_OPTION")
     ELSE CheckExternalAddress(info)

-----------------------------------------------------------------------------
(* MAP requests.  An outcome is [d, code, eport]: the daemon left, and what *)
(* the answer says.                                                         *)

Outcome(d, code, eport) == [d |-> d, code |-> code, eport |-> eport]

MappingOf(info, e) ==
  [key |-> <<info.proto, e>>, iaddr |-> info.mapped, iport |-> info.iport,
   rhost |-> AnyHost, str |-> info.desc]

(* netfilter knows no rule for ports of every protocol *)
AdditionFails(info, fails) ==
  IF info.proto \in Protos THEN fails ELSE fails \cup {"nat"}

(* The mapping of port e is the requester's own: same internal endpoint *)
OwnRule_Never(d, info, e) == FALSE

OwnRule(d, info, e) ==
  /\ RuleOf(d.fw, <<info.proto, e>>).iaddr = info.mapped
  /\ RuleOf(d.fw, <<info.proto, e>>).iport = info.iport

(* One turn of the search.  s is [d, e, then]: the port e to try next, or   *)
(* how the search ended there.  A port in local use is passed over even     *)
(* with PREFER_FAILURE; an own mapping is removed, to be added again, and   *)
(* taken as another's when that fails.                                      *)
TryPort(s, info, fails) ==
  LET key == <<info.proto, s.e>>
      next_port == [s EXCEPT !.e = PortAfter(s.e, 1)]
      ends(how) == [s EXCEPT !.then = how]
      del == _upnp_delete_redir(s.d, key, fails)
  IN IF key \in ReservedKeys \/ ~Permitted(MappingOf(info, s.e))
     THEN IF info.pfail THEN ends("refuse") ELSE next_port
     ELSE IF key \in InUse THEN next_port
     ELSE IF get_redirect_rule(s.d.fw, key, fails) # 0 THEN ends("add")
     ELSE IF OwnRule(s.d, info, s.e) /\ del.r = 0
     THEN [s EXCEPT !.d = del.d, !.then = "add"]
     ELSE LET left == IF OwnRule(s.d, info, s.e) THEN del.d ELSE s.d
          IN IF info.pfail THEN [s EXCEPT !.d = left, !.then = "refuse"]
             ELSE [next_port EXCEPT !.d = left]

(* The search goes up from the port suggested, or the internal port, and    *)
(* ends when it is back at it.                                              *)
SearchPort(info, first, fails) ==
  FoldLeft(LAMBDA t, n : IF t.then = "search" THEN TryPort(t, info, fails) ELSE t,
           [d |-> Daemon, e |-> first, then |-> "search"], [n \in 1..MaxPort |-> n])

AfterSearch(s, info, fails) ==
  LET added == upnp_redirect_internal(s.d, MappingOf(info, s.e), Timestamp(info.lifetime),
                                      AdditionFails(info, fails))
      allowed == \E e \in 1..MaxPort : /\ Permitted(MappingOf(info, e))
                                       /\ <<info.proto, e>> \notin ReservedKeys
  IN CASE s.then = "refuse" -> Outcome(s.d, "CANNOT_PROVIDE_EXTERNAL", s.e)
       [] s.then = "search" -> Outcome(s.d, IF allowed THEN "NO_RESOURCES"
                                            ELSE "NOT_AUTHORIZED", s.e)
       [] s.then = "add" -> Outcome(added.d, IF added.r < 0 THEN "NO_RESOURCES"
                                             ELSE "SUCCESS", s.e)

CreatePCPMap_NAT(info, fails) ==
  LET first == IF info.eport = 0 THEN info.iport ELSE info.eport
  IN IF first = 0 THEN Outcome(Daemon, "MALFORMED_REQUEST", 0)
     ELSE AfterSearch(SearchPort(info, first, fails), info, fails)

DeletePCPMap_AnyNonce(info, fails) ==
  LET i == IF "lookup" \in fails THEN 0
           ELSE SelectInSeq(fw.nat, LAMBDA r : /\ r.iaddr = info.mapped
                                               /\ Proto(r.key) = info.proto
                                               /\ info.iport \in {0, r.iport})
      del == _upnp_delete_redir(Daemon, fw.nat[i].key, fails)
  IN IF i = 0 THEN Outcome(Daemon, "SUCCESS", info.eport)
     ELSE Outcome(del.d, IF del.r < 0 THEN "NO_RESOURCES" ELSE "SUCCESS", info.eport)

(* The first rule of the client with this internal port (any for 0) is      *)
(* removed if the nonce is the one in its description; that no rule was     *)
(* found is a success.                                                      *)
DeletePCPMap(info, fails) ==
  LET i == IF "lookup" \in fails THEN 0
           ELSE SelectInSeq(fw.nat, LAMBDA r : /\ r.iaddr = info.mapped
                                               /\ Proto(r.key) = info.proto
                                               /\ info.iport \in {0, r.iport})
      del == _upnp_delete_redir(Daemon, fw.nat[i].key, fails)
  IN IF i = 0 THEN Outcome(Daemon, "SUCCESS", info.eport)
     ELSE IF get_redirect_desc(fw, fw.nat[i].key).str # info.desc
     THEN Outcome(Daemon, "NOT_AUTHORIZED", info.eport)
     ELSE Outcome(del.d, IF del.r < 0 THEN "NO_RESOURCES" ELSE "SUCCESS", info.eport)

-----------------------------------------------------------------------------
(* PEER requests *)

(* conn is what get_nat_ext_addr() finds: the external port of a connection *)
(* that the client already has with the peer, 0 if there is none.           *)
(* The rules are added in the order DSCP upstream, DSCP downstream, SNAT; a *)
(* failure leaves those before it.  Nothing looks for a rule the flow or    *)
(* the external port may already have.                                      *)
CreatePCPPeer_NAT(info, conn, fails) ==
  LET e == IF conn # 0 THEN conn
           ELSE IF info.eport # 0 THEN info.eport ELSE info.iport
      flow == [key |-> <<info.proto, e>>, iaddr |-> info.mapped, iport |-> info.iport,
               rhost |-> info.rhost, rport |-> info.rport]
      up == IF info.up = 0 THEN Answer(fw, 0)
            ELSE add_peer_dscp_rule2(fw, info.proto, info.mapped, info.iport,
                                     info.rhost, info.rport, info.up, fails)
      down == IF info.down = 0 \/ up.r < 0 THEN up
              ELSE add_peer_dscp_rule2(up.fw, info.proto, info.rhost, info.rport,
                                       info.mapped, info.iport, info.down, fails)
      added == IF down.r < 0 THEN down
               ELSE add_peer_redirect_rule2(down.fw, flow, info.desc,
                                            Timestamp(info.lifetime), fails)
  IN Outcome([Daemon EXCEPT !.fw = added.fw],
             IF added.r < 0 THEN "NO_RESOURCES" ELSE "SUCCESS",
             IF added.r < 0 THEN info.eport ELSE e)

(* The PEER rule found gives the external port whose rules are removed; a   *)
(* failure of the removal is not answered.                                  *)
DeletePCPPeer(info, fails) ==
  LET rules == PeerRules(fw)
      i == IF "lookup" \in fails THEN 0
           ELSE SelectInSeq(rules, LAMBDA r :
                  /\ r.flow.iaddr = info.mapped /\ r.flow.rhost = info.rhost
                  /\ Proto(r.flow.key) = info.proto /\ r.str = info.desc
                  /\ r.flow.iport = info.iport /\ r.flow.rport = info.rport)
  IN IF i = 0 THEN Outcome(Daemon, "NO_RESOURCES", info.eport)
     ELSE Outcome(_upnp_delete_redir(Daemon, rules[i].flow.key, fails).d,
                  "SUCCESS", info.eport)

-----------------------------------------------------------------------------
(* SADSCP: the first entry with the tolerance asked for, and with the       *)
(* application's name or no name                                            *)
get_dscp_value(pkt) ==
  LET i == SelectInSeq(DscpValues, LAMBDA v : v.tol = pkt.tol /\ v.name \in {pkt.name, ""})
  IN IF i = 0 THEN 0 ELSE DscpValues[i].dscp

(* The name must fit in the datagram, and tolerance 3 has no meaning *)
parseSADSCP(pkt) ==
  IF pkt.size = "cut_name" THEN "MALFORMED_OPTION"
  ELSE IF pkt.tol = 3 THEN "MALFORMED_REQUEST"
  ELSE "SUCCESS"

-----------------------------------------------------------------------------
(* Requests *)

Mapping(info, conn, fails) ==
  CASE info.opcode = "MAP" /\ info.lifetime = 0 -> DeletePCPMap(info, fails)
    [] info.opcode = "MAP" /\ info.lifetime # 0 -> CreatePCPMap_NAT(info, fails)
    [] info.opcode = "PEER" /\ info.lifetime = 0 -> DeletePCPPeer(info, fails)
    [] info.opcode = "PEER" /\ info.lifetime # 0 -> CreatePCPPeer_NAT(info, conn, fails)

(* The errors of a datagram in the order they are looked for, then what the *)
(* opcode does                                                              *)
processPCPRequest(pkt, conn, fails) ==
  LET error(code) == Outcome(Daemon, code, pkt.eport)
      parsed == parsePCPOptions(parsePCPPayload(pkt), pkt.options)
      info == ValidatePCPMsg(parsed)
  IN IF pkt.size \in {"short", "bad"} THEN error("MALFORMED_REQUEST")
     ELSE IF pkt.version > 2 THEN error("UNSUPP_VERSION")
     ELSE IF \/ pkt.opcode = "OTHER"
             \/ pkt.version = 1 /\ pkt.opcode \in {"ANNOUNCE", "SADSCP"}
     THEN error("UNSUPP_OPCODE")
     ELSE IF pkt.opcode = "ANNOUNCE"
     THEN error(IF pkt.int_ip # pkt.from THEN "ADDRESS_MISMATCH" ELSE parsed.code)
     ELSE IF pkt.size = "cut" THEN error("MALFORMED_REQUEST")
     ELSE IF pkt.opcode = "SADSCP" THEN error(parseSADSCP(pkt))
     ELSE IF info.code # "SUCCESS" THEN error(info.code)
     ELSE Mapping(info, conn, fails)

(* Errors that will last are answered with 30 minutes, the others with 30   *)
(* seconds                                                                  *)
LongErrors == Codes \ {"SUCCESS", "NETWORK_FAILURE", "NO_RESOURCES"}

createPCPResponse(pkt, code, eport) ==
  [pkt |-> pkt, code |-> code,
   lifetime |-> IF code \in LongErrors THEN 1800
                ELSE IF code # "SUCCESS" THEN 30
                ELSE parsePCPPayload(pkt).lifetime,
   eport |-> eport,
   dscp |-> IF pkt.opcode = "SADSCP" /\ code = "SUCCESS" THEN get_dscp_value(pkt) ELSE 0]

(* What the clients of an answer know afterwards *)
Heard(clients) ==
  /\ epoch_origin' = Origin
  /\ believed' = [c \in Clients |-> IF c \in clients THEN Origin ELSE believed[c]]
  /\ unaware' = unaware \ clients

(* A deletion its holder asked for *)
Released(d, info) ==
  {k \in Keys : /\ NatIndex(d.fw, k) = 0 /\ granted[k] # NULL
                /\ granted[k].iaddr = info.mapped /\ holder[k] = info.nonce}

(* A client that is answered NO_RESOURCES knows that it may have lost the   *)
(* mapping it asked for again                                               *)
TakenBack(info, code) ==
  {k \in Keys : /\ info.opcode = "MAP" /\ code = "NO_RESOURCES" /\ granted[k] # NULL
                /\ Proto(k) = info.proto /\ granted[k].iaddr = info.mapped
                /\ granted[k].iport = info.iport}

Forgotten == [c \in Clients |-> NULL]

(* Datagrams that are no requests or come from elsewhere are dropped *)
ProcessIncomingPCPPacket(pkt, conn, fails) ==
  /\ EnableNatpmp /\ Serving
  /\ pkt.size \notin {"response", "tiny"}
  /\ pkt.lan \/ AllowThird
  /\ \E info \in {parsePCPOptions(parsePCPPayload(pkt), pkt.options)},
        res \in {processPCPRequest(pkt, conn, fails)} :
       LET key == <<pkt.proto, res.eport>>
           mapped == pkt.opcode = "MAP" /\ info.lifetime # 0 /\ res.code = "SUCCESS"
       IN /\ (pkt.opcode = "PEER" /\ info.lifetime # 0) => Len(fw.peer \o fw.mangle) < MaxPeers
          /\ Becomes(res.d)
          /\ answer' = createPCPResponse(pkt, res.code, res.eport)
          /\ granted' = IF mapped
                        THEN [granted EXCEPT ![key] =
                                Granted(MappingOf(info, res.eport), answer'.lifetime)]
                        ELSE [k \in Keys |->
                                IF \/ info.lifetime = 0 /\ k \in Released(res.d, info)
                                   \/ k \in TakenBack(info, res.code)
                                THEN NULL ELSE granted[k]]
          /\ holder' = IF mapped THEN [holder EXCEPT ![key] = info.nonce] ELSE holder
          /\ retry' = IF mapped
                      THEN [retry EXCEPT ![pkt.from] = [pkt |-> pkt, eport |-> res.eport]]
                      ELSE IF Len(fw'.nat) < Len(fw.nat) THEN Forgotten ELSE retry
          /\ flows' = flows \cup {r.flow.key : r \in ToSet(PeerRules(fw'))}
  /\ Heard({pkt.from})
  /\ UNCHANGED <<rule_list, todo, reload, disabled, now, used, startup_time, extaddr,
                 upsets, should_send_public_address_change_notif, resetAt>>

-----------------------------------------------------------------------------
(* The rest of the daemon *)

(* NAT-PMP answers carry the same epoch *)
NatpmpRequest ==
  \E c \in NatpmpClients, p \in Protos, i \in Iports :
    /\ \/ NatpmpDelete(c, p, i) /\ UNCHANGED holder
       \/ \E e \in 1..MaxPort, t \in Leases \ {0} :
            /\ NatpmpMap(c, p, i, e, t, {})
            /\ holder' = [k \in Keys |-> IF granted'[k] # granted[k] THEN NoNonce
                                         ELSE holder[k]]
    /\ Heard({c})
    /\ answer' = NULL
    /\ retry' = IF Len(fw'.nat) < Len(fw.nat) THEN Forgotten ELSE retry
    /\ UNCHANGED <<faulty, startup_time, extaddr, upsets, resetAt, flows,
                   should_send_public_address_change_notif>>

PcpSweep ==
  /\ Sweep({}) \/ reload_from_lease_file({}) \/ Tick
  /\ answer' = NULL
  /\ retry' = IF Len(fw'.nat) < Len(fw.nat) THEN Forgotten ELSE retry
  /\ UNCHANGED <<faulty, startup_time, epoch_origin, extaddr, upsets, holder, flows,
                 should_send_public_address_change_notif, believed, resetAt, unaware>>

(* The announcement is a multicast datagram, which some clients may miss *)
PCPSendUnsolicitedAnnounce(origin) ==
  \E heard \in SUBSET Clients :
    /\ epoch_origin' = origin
    /\ believed' = [c \in Clients |-> IF c \in heard THEN origin ELSE believed[c]]
    /\ unaware' = Clients \ heard
    /\ resetAt' = [c \in Clients |-> IF believed[c] = NULL THEN 0 ELSE now]

(* The daemon is started again, with an address, and announces itself *)
PcpRestart(flushed) ==
  /\ extaddr # NULL
  /\ upsets < MaxUpsets /\ upsets' = upsets + 1
  /\ Restart(flushed)
  /\ startup_time' = set_startup_time
  /\ PCPSendUnsolicitedAnnounce(set_startup_time)
  /\ should_send_public_address_change_notif' = FALSE
  /\ answer' = NULL /\ retry' = Forgotten
  /\ UNCHANGED <<faulty, extaddr, holder, flows>>

(* The interface gets another address, or loses it, and the daemon is told *)
AddressChanges(addr) ==
  /\ upsets < MaxUpsets /\ addr # extaddr
  /\ extaddr' = addr /\ upsets' = upsets + 1
  /\ should_send_public_address_change_notif' = TRUE
  /\ answer' = NULL
  /\ UNCHANGED <<vars, startup_time, epoch_origin, holder, believed, resetAt, unaware,
                 retry, flows>>

PCPPublicAddressChanged_EpochKept ==
  /\ Serving
  /\ should_send_public_address_change_notif
  /\ should_send_public_address_change_notif' = FALSE
  /\ PCPSendUnsolicitedAnnounce(Origin)
  /\ answer' = NULL
  /\ disabled' = (extaddr = NULL)
  /\ UNCHANGED <<fw, lease, next, announced, rule_list, todo, reload, now, granted, used,
                 faulty, startup_time, extaddr, upsets, holder, retry, flows>>

(* The main loop: update_disable_port_forwarding(), and then "the Epoch     *)
(* time MUST be reset".  Addresses are public ones: port forwarding is      *)
(* disabled only while there is none.                                       *)
PCPPublicAddressChanged ==
  /\ Serving
  /\ should_send_public_address_change_notif
  /\ should_send_public_address_change_notif' = FALSE
  /\ PCPSendUnsolicitedAnnounce(now)
  /\ answer' = NULL
  /\ disabled' = (extaddr = NULL)
  /\ UNCHANGED <<fw, lease, next, announced, rule_list, todo, reload, now, granted, used,
                 faulty, startup_time, extaddr, upsets, holder, retry, flows>>

-----------------------------------------------------------------------------

PcpNext ==
  \/ \E pkt \in Packets, fails \in Faults :
       \E conn \in IF pkt.opcode = "PEER" THEN Connections ELSE {0} :
         Counted(fails) /\ ProcessIncomingPCPPacket(pkt, conn, fails)
  \/ NatpmpRequest
  \/ PcpSweep
  \/ \E flushed \in BOOLEAN : PcpRestart(flushed)
  \/ \E addr \in Addresses \cup {NULL} : AddressChanges(addr)
  \/ PCPPublicAddressChanged

PcpSpec == PcpInit /\ [][PcpNext]_allvars

-----------------------------------------------------------------------------
(* Properties *)

(* While no call of the firewall fails, what a SUCCESS answer to a MAP      *)
(* request said a client has, it has at that port until the lifetime        *)
(* answered is over, it is deleted with the nonce it was made with, or the  *)
(* client asks again and is told NO_RESOURCES: over the requests of other   *)
(* clients, the search for a port that removes and adds again, NAT-PMP      *)
(* requests for the same endpoint ("Preserve PCP mapping ownership"),       *)
(* sweeps, restarts and losses and changes of the address                   *)
(* (CreatePCPMap_NAT, DeletePCPMap, createPCPResponse).  It says nothing of *)
(* a port that a PEER request was given as well: DeletePCPPeer() removes    *)
(* the redirection of its port, whoever has it.                             *)
MapHonoured ==
  (reload = <<>> /\ faulty = 0) =>
    \A k \in Keys \ flows :
      (holder[k] # NoNonce /\ granted[k] # NULL /\ now < granted[k].until)
      => \E r \in Rules : r.key = k /\ r.iaddr = granted[k].iaddr
                                   /\ r.iport = granted[k].iport

(* A MAP request that is repeated because its answer was lost gets the same *)
(* external port again and no second mapping, whatever other clients asked  *)
(* in between, as long as nothing was removed: the search of                *)
(* CreatePCPMap_NAT meets the client's own mapping first.                   *)
RetrySamePort ==
  [][\A c \in Clients :
       (retry[c] # NULL /\ answer' # NULL /\ faulty' = faulty /\ ~disabled)
       => (answer'.pkt = retry[c].pkt /\ answer'.code # "NETWORK_FAILURE"
           => /\ answer'.code = "SUCCESS" /\ answer'.eport = retry[c].eport
              /\ Len(fw'.nat) = Len(fw.nat))]_allvars

(* "time elapsed since its port mapping table was initialized on startup or *)
(* reset for any other reason" (natpmp.c), "the Epoch time MUST be reset"   *)
(* (PCPPublicAddressChanged): a client that has heard the daemon since it   *)
(* last started or changed its address, by an answer or an announcement,    *)
(* computes an origin of the epoch that is no earlier, and so notices.      *)
EpochTells ==
  \A c \in Clients \ unaware : believed[c] # NULL => believed[c] >= resetAt[c]
=============================================================================
