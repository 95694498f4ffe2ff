------------------------------ MODULE IptcRdr ------------------------------
(***************************************************************************)
(* The netfilter backend of miniupnpd (netfilter/iptcrdr.c): the chain of  *)
(* DNAT rules in the nat table, the chain of ACCEPT rules in the filter    *)
(* table, and the list rdr_desc_list in which the daemon itself keeps what *)
(* netfilter cannot store, the description and the expiry time.            *)
(*                                                                         *)
(* A firewall is a record of sequences: nat, filter and desc, and for the  *)
(* PEER mappings of PCP the SNAT rules (peer) and DSCP rules (mangle).     *)
(* Each operation maps a firewall to [fw, r]: the firewall it leaves and   *)
(* the value it returns.  Its last parameter is the set of steps that fail *)
(* during the call, because each table is opened, changed and committed on *)
(* its own:                                                                *)
(*   "lookup"  iptc_init("nat") fails while searching a rule               *)
(*   "nat"     the addition to, or the update of, the nat table fails      *)
(*   "filter"  the addition to, or the update of, the filter table fails   *)
(*   "open"    iptc_init("filter") fails in an update                      *)
(*   "mangle"  the addition to the mangle table fails                      *)
(* and of a deletion, which one request may make before an addition,       *)
(*   "delete"      the first iptc_init("nat") fails                        *)
(*   "reopen"      the second iptc_init("nat") fails                       *)
(*   "del_nat"     the nat rule cannot be deleted                          *)
(*   "reach"       iptc_init("filter") fails                               *)
(*   "del_filter"  the ACCEPT rule cannot be deleted                       *)
(*   "del_peer"    the PEER rule cannot be deleted                         *)
(*   "remark"      iptc_init("mangle") fails                               *)
(*   "del_mangle"  the DSCP rule cannot be deleted                         *)
(* The build has no ENABLE_PORT_TRIGGERING.                                *)
(***************************************************************************)
EXTENDS Integers, Sequences, SequencesExt

FirewallSteps ==
  {"lookup", "nat", "filter", "open", "mangle", "delete", "reopen", "del_nat", "reach",
   "del_filter", "del_peer", "remark", "del_mangle"}

EmptyFirewall ==
  [nat |-> <<>>, filter |-> <<>>, desc |-> <<>>, peer |-> <<>>, mangle |-> <<>>]

(* A key is <<proto, eport>>: what a nat rule matches on *)
Proto(key) == key[1]
Eport(key) == key[2]

Answer(fw, r) == [fw |-> fw, r |-> r]

-----------------------------------------------------------------------------
(* rdr_desc_list: entries are added at the head, the first match is used    *)

add_redirect_desc(desc, key, str, timestamp) ==
  Cons([key |-> key, str |-> str, timestamp |-> timestamp], desc)

del_redirect_desc_None(desc, key) == desc

del_redirect_desc(desc, key) == RemoveFirstMatch(desc, LAMBDA d : d.key = key)

(* without an entry: the default description, and no expiry *)
get_redirect_desc(fw, key) ==
  LET i == SelectInSeq(fw.desc, LAMBDA d : d.key = key)
  IN IF i = 0 THEN [key |-> key, str |-> "miniupnpd", timestamp |-> 0]
              ELSE fw.desc[i]

-----------------------------------------------------------------------------
(* Searches *)

NatIndex(fw, key) == SelectInSeq(fw.nat, LAMBDA e : e.key = key)

FilterIndex_AnyPort(fw, proto, iaddr, iport) ==
  SelectInSeq(fw.filter, LAMBDA e : e.proto = proto /\ e.iaddr = iaddr)

(* The index of the ACCEPT rule of an internal endpoint: protocol, address *)
(* and port are compared, the remote host is not.                          *)
FilterIndex(fw, proto, iaddr, iport) ==
  SelectInSeq(fw.filter, LAMBDA e : /\ e.proto = proto
                                    /\ e.iaddr = iaddr
                                    /\ e.iport = iport)

RuleOf(fw, key) == fw.nat[NatIndex(fw, key)]

(* get_redirect_rule() answers -1 when the rule is not there and when the  *)
(* table cannot be opened alike                                            *)
get_redirect_rule(fw, key, fails) ==
  IF "lookup" \in fails \/ NatIndex(fw, key) = 0 THEN -1 ELSE 0

-----------------------------------------------------------------------------
(* Additions *)

(* a mapping m is [key, iaddr, iport, rhost, str]; rules go to the chain's end *)
addnatrule(nat, m) ==
  Append(nat, [key |-> m.key, iaddr |-> m.iaddr, iport |-> m.iport,
               rhost |-> m.rhost, pcnt |-> 0])

add_filter_rule(filter, m) ==
  Append(filter, [proto |-> Proto(m.key), iaddr |-> m.iaddr, iport |-> m.iport,
                  rhost |-> m.rhost])

(* The description is kept only once the nat rule is committed *)
add_redirect_rule2(fw, m, timestamp, fails) ==
  IF "nat" \in fails THEN Answer(fw, -1)
  ELSE Answer([fw EXCEPT !.nat = addnatrule(@, m),
                         !.desc = add_redirect_desc(@, m.key, m.str, timestamp)], 0)

add_filter_rule2(fw, m, fails) ==
  IF {"filter", "open"} \cap fails # {} THEN Answer(fw, -1)
  ELSE Answer([fw EXCEPT !.filter = add_filter_rule(@, m)], 0)

-----------------------------------------------------------------------------
(* PEER rules: the flow's SNAT rule in the postrouting chain, with the      *)
(* description in the same list as the redirections, and DSCP marks.        *)
(* A flow p is [key, iaddr, iport, rhost, rport].                           *)

addpeernatrule(peer, p) == Append(peer, p)

add_peer_redirect_rule2(fw, p, str, timestamp, fails) ==
  IF "nat" \in fails THEN Answer(fw, -1)
  ELSE Answer([fw EXCEPT !.peer = addpeernatrule(@, p),
                         !.desc = add_redirect_desc(@, p.key, str, timestamp)], 0)

addpeerdscprule(mangle, proto, src, sport, dst, dport, dscp) ==
  Append(mangle, [proto |-> proto, src |-> src, sport |-> sport,
                  dst |-> dst, dport |-> dport, dscp |-> dscp])

add_peer_dscp_rule2(fw, proto, src, sport, dst, dport, dscp, fails) ==
  IF "mangle" \in fails THEN Answer(fw, -1)
  ELSE Answer([fw EXCEPT !.mangle =
                 addpeerdscprule(@, proto, src, sport, dst, dport, dscp)], 0)

(* The rules of get_peer_rule_by_index(), each with the description that    *)
(* its external port has *)
PeerRules(fw) ==
  [i \in DOMAIN fw.peer |->
     [flow |-> fw.peer[i], str |-> get_redirect_desc(fw, fw.peer[i].key).str]]

-----------------------------------------------------------------------------
(* Deletion: the nat rule and the ACCEPT rule of its target; the first PEER *)
(* rule with this external port, and then the DSCP rule of its source; the  *)
(* description whatever happened before.                                    *)

DeletePeerRule(fw, key, fails) ==
  LET i == SelectInSeq(fw.peer, LAMBDA p : p.key = key)
  IN IF i = 0 \/ "del_peer" \in fails THEN Answer(fw, -1)
     ELSE Answer([fw EXCEPT !.peer = RemoveAt(@, i)], 0)

DeleteDscpRule(fw, flow, fails) ==
  LET i == SelectInSeq(fw.mangle, LAMBDA d : /\ d.proto = Proto(flow.key)
                                             /\ d.sport = flow.iport
                                             /\ d.src = flow.iaddr)
  IN IF i = 0 \/ "remark" \in fails THEN Answer(fw, 0)
     ELSE IF "del_mangle" \in fails THEN Answer(fw, -1)
     ELSE Answer([fw EXCEPT !.mangle = RemoveAt(@, i)], 0)

(* When the nat table cannot be opened again the nat rule stays, the ACCEPT *)
(* rule goes and the result is that of a success.  The two results are      *)
(* multiplied: two failures make 1.                                         *)
delete_redirect_and_filter_rules(fw, key, fails) ==
  LET n == NatIndex(fw, key)
      nat_gone == n # 0 /\ fails \cap {"reopen", "del_nat"} = {}
      nat_ok == n # 0 /\ ("reopen" \in fails \/ "del_nat" \notin fails)
      f == IF nat_ok /\ "reach" \notin fails
           THEN FilterIndex(fw, Proto(key), fw.nat[n].iaddr, fw.nat[n].iport)
           ELSE 0
      r == IF nat_ok /\ ~(f # 0 /\ "del_filter" \in fails) THEN 0 ELSE -1
      peer == DeletePeerRule(fw, key, fails)
      flow == fw.peer[SelectInSeq(fw.peer, LAMBDA p : p.key = key)]
      dscp == IF peer.r = 0 THEN DeleteDscpRule(peer.fw, flow, fails) ELSE peer
  IN IF "delete" \in fails THEN Answer(fw, -1)
     ELSE Answer([nat    |-> IF nat_gone THEN RemoveAt(fw.nat, n) ELSE fw.nat,
                  filter |-> IF f # 0 /\ "del_filter" \notin fails
                             THEN RemoveAt(fw.filter, f) ELSE fw.filter,
                  desc   |-> del_redirect_desc(fw.desc, key),
                  peer   |-> dscp.fw.peer,
                  mangle |-> dscp.fw.mangle],
                 r * dscp.r)

-----------------------------------------------------------------------------
(* Updates *)

update_portmapping_desc_timestamp(fw, key, str, timestamp) ==
  Answer([fw EXCEPT !.desc = add_redirect_desc(del_redirect_desc(@, key),
                                               key, str, timestamp)], 0)

(* The internal port moves in the nat rule, then in the ACCEPT rule; a      *)
(* failure in between leaves the first change in place.                     *)
update_portmapping(fw, key, iport, str, timestamp, fails) ==
  LET n == NatIndex(fw, key)
      rule == fw.nat[n]
      f == IF "open" \in fails THEN 0
           ELSE FilterIndex(fw, Proto(key), rule.iaddr, rule.iport)
      moved == [fw EXCEPT !.nat[n].iport = iport]
  IN IF n = 0 \/ "nat" \in fails THEN Answer(fw, -1)
     ELSE IF f = 0 \/ "filter" \in fails THEN Answer(moved, -1)
     ELSE update_portmapping_desc_timestamp([moved EXCEPT !.filter[f].iport = iport],
                                            key, str, timestamp)

=============================================================================
