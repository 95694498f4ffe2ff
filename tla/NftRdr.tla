------------------------------- MODULE NftRdr -------------------------------
(***************************************************************************)
(* The nftables backend (netfilter_nft/nftnlrdr.c, nftnlrdr_misc.c and     *)
(* nftpinhole.c), with the rules in an inet table and without PCP PEER     *)
(* rules.  A rule is sent to the kernel as a list of expressions on two    *)
(* registers and is understood by reading that list back; what was read is *)
(* kept in head_redirect and head_filter, newest rule first, until a       *)
(* change is sent.  A dump that fails leaves no rules at all: one that     *)
(* breaks off, and leaves some, is not told from it.                       *)
(***************************************************************************)
EXTENDS Firewall

-----------------------------------------------------------------------------
(* Expressions.  A payload is <<header, offset, length>>.                   *)

IpSaddr == <<"net", 12, 4>>
IpDaddr == <<"net", 16, 4>>
IpProto == <<"net", 9, 1>>
Ip6Saddr == <<"net", 8, 16>>
Ip6Daddr == <<"net", 24, 16>>
Ip6Next == <<"net", 6, 1>>
SrcPort == <<"transport", 0, 2>>
DstPort == <<"transport", 2, 2>>

htons(port) == (port % 256) * 256 + (port \div 256)

Expr(name, reg, val) == [name |-> name, reg |-> reg, val |-> val]

(* payload into register 1, then the comparison of that register *)
expr_add_cmp(what, val) == << Expr("payload", 1, what), Expr("cmp", 1, val) >>

(* pins the rule to one address family, in an inet table *)
expr_add_nfproto(family) == << Expr("meta", 1, "nfproto"), Expr("cmp", 1, family) >>

expr_add_nat_Swapped(type, addr, port) ==
  << Expr("immediate", 2, addr), Expr("immediate", 1, htons(port)), Expr("nat", 0, type) >>

(* address in register 1, port in register 2 *)
expr_add_nat(type, addr, port) ==
  << Expr("immediate", 1, addr), Expr("immediate", 2, htons(port)), Expr("nat", 0, type) >>

rule_set_dnat(m) ==
  expr_add_nfproto("ipv4")
  \o (IF m.rhost # 0 THEN expr_add_cmp(IpSaddr, m.rhost) ELSE <<>>)
  \o expr_add_cmp(IpProto, Proto(m.key))
  \o expr_add_cmp(DstPort, htons(Eport(m.key)))
  \o << Expr("counter", 0, 0) >>
  \o expr_add_nat("dnat", m.iaddr, m.iport)

rule_set_filter_common(e) ==
  expr_add_cmp(DstPort, htons(e.port))
  \o (IF e.rport # 0 THEN expr_add_cmp(SrcPort, htons(e.rport)) ELSE <<>>)

rule_set_filter(e) ==
  rule_set_filter_common(e)
  \o expr_add_nfproto("ipv4")
  \o expr_add_cmp(IpDaddr, e.iaddr)
  \o (IF e.rhost # 0 THEN expr_add_cmp(IpSaddr, e.rhost) ELSE <<>>)
  \o expr_add_cmp(IpProto, e.proto)
  \o << Expr("immediate", 0, "accept") >>

rule_set_filter6(e) ==
  rule_set_filter_common(e)
  \o expr_add_nfproto("ipv6")
  \o expr_add_cmp(Ip6Daddr, e.iaddr)
  \o (IF e.rhost # 0 THEN expr_add_cmp(Ip6Saddr, e.rhost) ELSE <<>>)
  \o expr_add_cmp(Ip6Next, e.proto)
  \o << Expr("immediate", 0, "accept") >>

-----------------------------------------------------------------------------
(* Reading a rule back: one expression at a time into a rule_t              *)

EmptyRule(type) ==
  [type |-> type, proto |-> "none", saddr |-> 0, daddr |-> 0, saddr6 |-> 0, daddr6 |-> 0,
   sport |-> 0, dport |-> 0, nat_type |-> "none", nat_addr |-> 0, nat_port |-> 0,
   reg_type |-> [i \in 1 .. 2 |-> "none"], reg_val |-> [i \in 1 .. 2 |-> 0]]

(* what a payload loads; the tests go by offset and length *)
parse_rule_payload(e, r) ==
  LET kind == CASE e.val = IpDaddr -> "daddr"   [] e.val = IpSaddr -> "saddr"
                [] e.val = IpProto -> "proto"   [] e.val = Ip6Next -> "proto"
                [] e.val = Ip6Daddr -> "daddr6" [] e.val = Ip6Saddr -> "saddr6"
                [] e.val = DstPort -> "dport"   [] e.val = SrcPort -> "sport"
  IN [r EXCEPT !.reg_type[e.reg] = kind]

parse_rule_cmp(e, r) ==
  LET field == r.reg_type[1]
      val == IF field \in {"dport", "sport"} THEN htons(e.val) ELSE e.val
      read == CASE field = "proto" -> [r EXCEPT !.proto = val]
                [] field = "saddr" -> [r EXCEPT !.saddr = val]
                [] field = "daddr" -> [r EXCEPT !.daddr = val]
                [] field = "saddr6" -> [r EXCEPT !.saddr6 = val]
                [] field = "daddr6" -> [r EXCEPT !.daddr6 = val]
                [] field = "sport" -> [r EXCEPT !.sport = val]
                [] field = "dport" -> [r EXCEPT !.dport = val]
                [] OTHER -> r
  IN [read EXCEPT !.reg_type[1] = "none"]

parse_rule_nat(e, r) ==
  [r EXCEPT !.type = "nat", !.nat_type = e.val, !.nat_addr = r.reg_val[1],
            !.nat_port = htons(r.reg_val[2]), !.reg_type = [i \in 1 .. 2 |-> "none"]]

(* the verdict does not go to a register *)
parse_rule_immediate(e, r) ==
  IF e.reg = 0 THEN r ELSE [r EXCEPT !.reg_val[e.reg] = e.val]

parse_rule_counter(r) == [r EXCEPT !.type = "counter"]

parse_rule_meta(e, r) == [r EXCEPT !.reg_type[e.reg] = e.val]

rule_expr_cb(r, e) ==
  CASE e.name = "cmp" -> parse_rule_cmp(e, r)
    [] e.name = "nat" -> parse_rule_nat(e, r)
    [] e.name = "meta" -> parse_rule_meta(e, r)
    [] e.name = "counter" -> parse_rule_counter(r)
    [] e.name = "payload" -> parse_rule_payload(e, r)
    [] e.name = "immediate" -> parse_rule_immediate(e, r)

(* nftnl_expr_iter_next() *)
Parse(r, exprs) ==
  LET after[i \in 0 .. Len(exprs)] ==
        IF i = 0 THEN r ELSE rule_expr_cb(after[i - 1], exprs[i])
  IN after[Len(exprs)]

table_cb(exprs, type) == Parse(EmptyRule(type), exprs)

(* A parsed rule as the operations below look at it; the label comes along  *)
Redirection(e, r) ==
  [key |-> <<r.proto, r.dport>>, rhost |-> r.saddr, iaddr |-> r.nat_addr, iport |-> r.nat_port,
   desc |-> e.desc, dnat |-> r.type = "nat" /\ r.nat_type = "dnat"]

Forward(e, r) ==
  [proto |-> r.proto, daddr |-> r.daddr, saddr6 |-> r.saddr6, daddr6 |-> r.daddr6,
   sport |-> r.sport, dport |-> r.dport, pinhole |-> ReadsAsPinhole(e),
   uid |-> e.uid, ts |-> e.ts, filter |-> r.type = "filter"]

Expressions(e) == IF e.kind = "pinhole" THEN rule_set_filter6(e) ELSE rule_set_filter(e)

-----------------------------------------------------------------------------
(* The cache.  nft_send_rule() marks it invalid before the request leaves;  *)
(* the rules it still holds are never looked at, as the next refresh drops  *)
(* them first.  No caller looks at the result of a refresh: after one that  *)
(* failed the list is empty and still invalid.                              *)

Invalid == [valid |-> FALSE, rules |-> <<>>]

ReadBack(parsed) == [valid |-> TRUE, rules |-> Reverse(parsed)]

refresh_nft_cache_redirect(fw, search, fails) ==
  IF fw.cache.rdr.valid THEN fw
  ELSE IF search \in fails THEN [fw EXCEPT !.cache.rdr = Invalid]
  ELSE [fw EXCEPT !.cache.rdr =
       ReadBack([i \in DOMAIN fw.rdr |->
                   Redirection(fw.rdr[i], table_cb(rule_set_dnat(fw.rdr[i]), "nat"))])]

refresh_nft_cache_filter(fw, fails) ==
  IF fw.cache.filter.valid THEN fw
  ELSE IF "filter?" \in fails THEN [fw EXCEPT !.cache.filter = Invalid]
  ELSE [fw EXCEPT !.cache.filter =
       ReadBack([i \in DOMAIN fw.filter |->
                   Forward(fw.filter[i], table_cb(Expressions(fw.filter[i]), "filter"))])]

Handle_Oldest(seq, i) == i

(* rule_del_handle(): the i-th cached rule is the i-th newest *)
Handle(seq, i) == Len(seq) + 1 - i

(* nft_send_rule() on the redirect chain, and on the forward chain *)
SendRdr(fw, rules, failed) ==
  [fw EXCEPT !.cache.rdr = Invalid, !.rdr = IF failed THEN @ ELSE rules]

SendFilter(fw, rules, failed) ==
  [fw EXCEPT !.cache.filter = Invalid, !.filter = IF failed THEN @ ELSE rules]

-----------------------------------------------------------------------------
(* Mappings *)

add_redirect_rule2(fw, m, fails) ==
  LET sent == SendRdr(fw, Append(fw.rdr, RdrRule(m, m.desc)), "rdr+" \in fails)
  IN IF "rdr+" \in fails THEN Answer(sent, -1)
     ELSE Answer([sent EXCEPT !.list = ListAdd(@, m.key, "none", m.ts)], 0)

add_filter_rule2(fw, m, fails) ==
  Answer(SendFilter(fw, Append(fw.filter, PassRule(m, m.iport)), "filter+" \in fails),
         IF "filter+" \in fails THEN -1 ELSE 0)

RdrIndex(fw, key) ==
  SelectInSeq(fw.cache.rdr.rules, LAMBDA e : e.key = key /\ e.dnat)

(* found by its endpoint, whatever its remote host; fw has just been read    *)
(* back                                                                     *)
DeletePass(fw, rule, fails) ==
  LET j == SelectInSeq(fw.cache.filter.rules, LAMBDA e :
             /\ e.dport = rule.iport /\ e.daddr = rule.iaddr
             /\ e.proto = Proto(rule.key) /\ e.filter)
  IN IF j = 0 THEN fw
     ELSE SendFilter(fw, RemoveAt(fw.filter, Handle(fw.filter, j)), "filter-" \in fails)

DeleteRdr(fw, i, fails) ==
  IF i = 0 THEN fw
  ELSE DeletePass(refresh_nft_cache_filter(
                    SendRdr(fw, RemoveAt(fw.rdr, Handle(fw.rdr, i)), "rdr-" \in fails), fails),
                  fw.cache.rdr.rules[i], fails)

(* The results of the deletions are not looked at; the timestamp stays      *)
delete_redirect_and_filter_rules(fw0, key, fails) ==
  LET fw == refresh_nft_cache_redirect(fw0, "rdr?", fails)
  IN Answer(DeleteRdr(fw, RdrIndex(fw, key), fails), 0)

get_nat_redirect_rule(fw, key) ==
  LET i == KeyIndex(fw.cache.rdr.rules, key)
  IN IF i = 0 THEN NoRow
     ELSE [rhost |-> fw.cache.rdr.rules[i].rhost, iaddr |-> fw.cache.rdr.rules[i].iaddr,
           iport |-> fw.cache.rdr.rules[i].iport, desc |-> fw.cache.rdr.rules[i].desc, ts |-> ListTs(fw.list, key)]

get_redirect_rule(fw, key, fails) ==
  get_nat_redirect_rule(refresh_nft_cache_redirect(fw, "find", fails), key)

get_redirect_rule_count(fw) == Len(refresh_nft_cache_redirect(fw, "find", {}).cache.rdr.rules)

get_redirect_rule_by_index(fw, index) ==
  refresh_nft_cache_redirect(fw, "find", {}).cache.rdr.rules[index + 1].key

get_portmappings_in_range(fw, start, end, proto) ==
  LET in == Kept(refresh_nft_cache_redirect(fw, "find", {}).cache.rdr.rules,
              LAMBDA e : Proto(e.key) = proto /\ start <= Eport(e.key) /\ Eport(e.key) <= end)
  IN [i \in DOMAIN in |-> Eport(in[i].key)]

(* the description is not changed *)
update_portmapping_desc_timestamp(fw, key, desc, ts, fails) ==
  Answer([fw EXCEPT !.list = ListAdd(ListRemove(@, key), key, "none", ts)], 0)

AddBoth(a, m, fails) == IF a.r < 0 THEN a ELSE add_filter_rule2(a.fw, m, fails)

update_portmapping(fw, key, iport, desc, ts, fails) ==
  LET row == get_redirect_rule(fw, key, fails)
      m == [key |-> key, rhost |-> row.rhost, iaddr |-> row.iaddr, iport |-> iport, desc |-> desc, ts |-> ts]
      d == delete_redirect_and_filter_rules(fw, key, fails)
  IN IF row = NoRow THEN Answer(refresh_nft_cache_redirect(fw, "find", fails), -1)
     ELSE AddBoth(add_redirect_rule2(d.fw, m, fails), m, fails)

-----------------------------------------------------------------------------
(* IPv6 pinholes share the forward chain *)

PinholeIndex(fw, uid) ==
  SelectInSeq(fw.cache.filter.rules, LAMBDA e : e.filter /\ e.pinhole /\ e.uid = uid)

Unlink(fw, i, failed) == SendFilter(fw, RemoveAt(fw.filter, Handle(fw.filter, i)), failed)

find_pinhole(fw0, p, fails) ==
  LET rules == refresh_nft_cache_filter(fw0, fails).cache.filter.rules
      i == SelectInSeq(rules, LAMBDA e :
             /\ e.filter /\ e.pinhole /\ e.proto = p.proto /\ e.sport = p.rport
             /\ e.saddr6 = p.rhost /\ e.dport = p.port /\ e.daddr6 = p.iaddr)
  IN IF i = 0 THEN -2 ELSE rules[i].uid

add_pinhole(fw, p, ts, maxuid, fails) ==
  LET sent == SendFilter(fw, Append(fw.filter, PinholeRule(p, fw.next_uid, ts)), "filter+" \in fails)
  IN IF "filter+" \in fails THEN Answer(sent, -1)
     ELSE Answer([sent EXCEPT !.next_uid = NextUid(@, maxuid)], fw.next_uid)

(* 0 as well when there is no such pinhole *)
get_pinhole_info(fw, uid) == 0

(* the result of the deletion is not looked at *)
delete_pinhole(fw0, uid, fails) ==
  LET fw == refresh_nft_cache_filter(fw0, fails)
      i == PinholeIndex(fw, uid)
  IN IF i = 0 THEN Answer(fw, -2) ELSE Answer(Unlink(fw, i, "filter-" \in fails), 0)

(* an IPv4 rule that reads as a pinhole has no IPv6 addresses *)
ReadPinhole(e) ==
  PinholeOf(IF e.kind = "pinhole" THEN e ELSE [e EXCEPT !.rhost = 0, !.iaddr = 0])

(* deleted, then added again with the new expiry; fw has just been read back *)
Renew(fw, uid, ts, fails) ==
  LET i == PinholeIndex(fw, uid)
      rule == fw.filter[Handle(fw.filter, i)]
      gone == Unlink(fw, i, "filter-" \in fails)
  IN IF i = 0 THEN Answer(fw, -2)
     ELSE IF "filter-" \in fails THEN Answer(gone, -1)
     ELSE Answer(SendFilter(gone, Append(gone.filter, PinholeRule(ReadPinhole(rule), uid, ts)),
                            "filter+" \in fails),
                 IF "filter+" \in fails THEN -1 ELSE 0)

update_pinhole(fw, uid, ts, fails) == Renew(refresh_nft_cache_filter(fw, fails), uid, ts, fails)

Expired(e, now) == e.pinhole /\ e.ts <= now

(* newest first; a deletion that fails leaves its rule and goes on: the     *)
(* requests of one call fail together here                                  *)
Clean(fw, now, maxuid, fails) ==
  LET rules == fw.cache.filter.rules
      old == {i \in DOMAIN rules : Expired(rules[i], now)}
      kept == Kept(fw.filter, LAMBDA e : ~(ReadsAsPinhole(e) /\ e.ts <= now))
      alive == Kept(rules, LAMBDA e : e.pinhole /\ ~Expired(e, now))
      sent == IF old = {} THEN fw ELSE SendFilter(fw, kept, "filter-" \in fails)
  IN Answer([sent EXCEPT !.next_uid = UidAfterClean([i \in DOMAIN alive |-> alive[i].uid], @, maxuid)],
            Cardinality(old))

clean_pinhole_list(fw, now, maxuid, fails) ==
  Clean(refresh_nft_cache_filter(fw, fails), now, maxuid, fails)
=============================================================================
