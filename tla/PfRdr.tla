-------------------------------- MODULE PfRdr --------------------------------
(***************************************************************************)
(* The pf backend (pf/obsdrdr.c and pf/pfpinhole.c), built with            *)
(* PF_ENABLE_FILTER_RULES and ENABLE_PORT_TRIGGERING.  Rules live in the   *)
(* daemon's anchor, in the order they were added; the label of a           *)
(* redirection is its description, the label of a pinhole its identifier   *)
(* and its expiry.  The expiry of a mapping is in timestamp_list.  The     *)
(* redirections, the nat rules and the pass rules are rulesets of their    *)
(* own: not the build with PF_NEWSTYLE, which keeps one ruleset and counts *)
(* and indexes all the rules of the anchor as if they were redirections.   *)
(***************************************************************************)
EXTENDS Firewall

-----------------------------------------------------------------------------
(* timestamp_list *)

get_timestamp(fw, key) == ListTs(fw.list, key)

remove_timestamp_entry_Keep(list, key) == list

remove_timestamp_entry(list, key) == ListRemove(list, key)

add_timestamp_entry(list, key, ts) == ListAdd(list, key, "none", ts)

-----------------------------------------------------------------------------
(* Searches: the first rule of the anchor that matches, none at all when   *)
(* the rules cannot be read                                                *)

get_redirect_rule(fw, key, fails) ==
  LET i == KeyIndex(fw.rdr, key)
  IN IF "find" \in fails \/ i = 0 THEN NoRow
     ELSE [rhost |-> fw.rdr[i].rhost, iaddr |-> fw.rdr[i].iaddr, iport |-> fw.rdr[i].iport,
           desc |-> fw.rdr[i].desc, ts |-> get_timestamp(fw, key)]

get_redirect_rule_count(fw) == Len(fw.rdr)

get_redirect_rule_by_index(fw, index) == fw.rdr[index + 1].key

get_portmappings_in_range(fw, start, end, proto) ==
  LET in == Kept(fw.rdr, LAMBDA e : Proto(e.key) = proto /\ start <= Eport(e.key)
                                         /\ Eport(e.key) <= end)
  IN [i \in DOMAIN in |-> Eport(in[i].key)]

-----------------------------------------------------------------------------
(* The nat rule gives the answers of a UDP host the external port *)

NatRule(m) == [key |-> m.key, rhost |-> m.rhost, iaddr |-> m.iaddr, iport |-> m.iport]

add_nat_rule(fw, m, fails) ==
  IF "nat+" \in fails THEN fw
  ELSE [fw EXCEPT !.nat = Append(@, NatRule(m))]

(* a deletion that cannot read the nat rules is one that is refused *)
delete_nat_rule(fw, m, fails) ==
  IF "nat-" \in fails THEN fw
  ELSE [fw EXCEPT !.nat = RemoveFirstMatch(@, LAMBDA e :
         e.key = m.key /\ e.iaddr = m.iaddr /\ e.iport = m.iport)]

(* the result of add_nat_rule() is not looked at *)
add_redirect_rule2(fw, m, fails) ==
  LET added == [fw EXCEPT !.rdr = Append(@, RdrRule(m, m.desc)),
                          !.list = IF m.ts > 0 THEN add_timestamp_entry(@, m.key, m.ts) ELSE @]
  IN IF "rdr+" \in fails THEN Answer(fw, -1)
     ELSE Answer(IF Proto(m.key) = "udp" THEN add_nat_rule(added, m, fails) ELSE added, 0)

add_filter_rule2(fw, m, fails) ==
  IF "filter+" \in fails THEN Answer(fw, -1)
  ELSE Answer([fw EXCEPT !.filter = Append(@, PassRule(m, m.iport))], 0)

-----------------------------------------------------------------------------
(* Deletions: -2 when there is no such rule, -1 when the kernel refuses or *)
(* cannot be asked.  A pass rule is found by its endpoint alone, whatever   *)
(* its remote host.                                                         *)

(* same: the description to check, if any; a rule that has it stays: 1 *)
priv_delete_redirect_rule_check_desc(fw, key, same, fails) ==
  LET i == KeyIndex(fw.rdr, key)
  IN IF "rdr?" \in fails THEN Answer(fw, -1)
     ELSE IF i = 0 THEN Answer(fw, -2)
     ELSE IF fw.rdr[i].desc \in same THEN Answer(fw, 1)
     ELSE IF "rdr-" \in fails THEN Answer(fw, -1)
     ELSE Answer([fw EXCEPT !.rdr = RemoveAt(@, i),
                            !.list = remove_timestamp_entry(@, key)], 0)

delete_redirect_rule(fw, key, fails) ==
  priv_delete_redirect_rule_check_desc(fw, key, {}, fails)

FilterIndex_AnyAddr(fw, proto, iaddr, iport) ==
  SelectInSeq(fw.filter, LAMBDA e : e.proto = proto /\ e.port = iport)

FilterIndex(fw, proto, iaddr, iport) ==
  SelectInSeq(fw.filter, LAMBDA e : e.proto = proto /\ e.port = iport /\ e.iaddr = iaddr)

priv_delete_filter_rule(fw, proto, iaddr, iport, fails) ==
  LET i == FilterIndex(fw, proto, iaddr, iport)
  IN IF "filter?" \in fails THEN Answer(fw, -1)
     ELSE IF i = 0 THEN Answer(fw, -2)
     ELSE IF "filter-" \in fails THEN Answer(fw, -1)
     ELSE Answer([fw EXCEPT !.filter = RemoveAt(@, i)], 0)

delete_redirect_and_filter_rules(fw, key, fails) ==
  LET rule == fw.rdr[KeyIndex(fw.rdr, key)]
      d == delete_redirect_rule(fw, key, fails)
      n == IF Proto(key) = "udp" THEN delete_nat_rule(d.fw, rule, fails) ELSE d.fw
  IN IF d.r # 0 THEN d
     ELSE priv_delete_filter_rule(n, Proto(key), rule.iaddr, rule.iport, fails)

-----------------------------------------------------------------------------
(* Updates: the rules are deleted and added again, and the first step that *)
(* fails ends the call.  The nat rule of a UDP mapping is not deleted.     *)

Readd(d, rule, iport, desc, ts, fails) ==
  LET f == priv_delete_filter_rule(d.fw, Proto(rule.key), rule.iaddr, rule.iport, fails)
      m == [key |-> rule.key, rhost |-> rule.rhost, iaddr |-> rule.iaddr, iport |-> iport,
            desc |-> desc, ts |-> ts]
      a == add_redirect_rule2(f.fw, m, fails)
      p == add_filter_rule2(a.fw, m, fails)
  IN IF d.r < 0 THEN Answer(d.fw, -1)
     ELSE IF f.r < 0 THEN Answer(f.fw, -1)
     ELSE IF a.r < 0 THEN Answer(a.fw, -1)
     ELSE p

update_portmapping(fw, key, iport, desc, ts, fails) ==
  Readd(delete_redirect_rule(fw, key, fails), fw.rdr[KeyIndex(fw.rdr, key)],
        iport, desc, ts, fails)

update_portmapping_desc_timestamp(fw, key, desc, ts, fails) ==
  LET d == priv_delete_redirect_rule_check_desc(fw, key, {desc}, fails)
      rule == fw.rdr[KeyIndex(fw.rdr, key)]
  IN IF d.r = 1
     THEN Answer([fw EXCEPT !.list = add_timestamp_entry(remove_timestamp_entry(@, key), key, ts)], 0)
     ELSE Readd(d, rule, rule.iport, desc, ts, fails)

-----------------------------------------------------------------------------
(* IPv6 pinholes *)

UidIndex(fw, uid) == SelectInSeq(fw.filter, LAMBDA e : ReadsAsPinhole(e) /\ e.uid = uid)

find_pinhole(fw, p, fails) ==
  LET i == SelectInSeq(fw.filter, LAMBDA e : ReadsAsPinhole(e) /\ PinholeOf(e) = p)
  IN IF "filter?" \in fails THEN -1
     ELSE IF i = 0 THEN -2 ELSE fw.filter[i].uid

add_pinhole(fw, p, ts, maxuid, fails) ==
  IF "filter+" \in fails THEN Answer(fw, -1)
  ELSE Answer([fw EXCEPT !.filter = Append(@, PinholeRule(p, fw.next_uid, ts)),
                         !.next_uid = NextUid(@, maxuid)], fw.next_uid)

get_pinhole_info(fw, uid, fails) ==
  IF "filter?" \in fails THEN -1 ELSE IF UidIndex(fw, uid) = 0 THEN -2 ELSE 0

delete_pinhole(fw, uid, fails) ==
  IF "filter?" \in fails THEN Answer(fw, -1)
  ELSE IF UidIndex(fw, uid) = 0 THEN Answer(fw, -2)
  ELSE IF "filter-" \in fails THEN Answer(fw, -1)
  ELSE Answer([fw EXCEPT !.filter = RemoveAt(@, UidIndex(fw, uid))], 0)

(* not implemented *)
update_pinhole(fw, uid, ts, fails) == Answer(fw, -42)

Expired(e, now) == ReadsAsPinhole(e) /\ e.ts <= now

(* The rules are visited from the last to the first; the first deletion    *)
(* that fails ends the call before next_uid is looked at.                  *)
clean_pinhole_list(fw, now, maxuid, fails) ==
  LET kept == Kept(fw.filter, LAMBDA e : ~Expired(e, now))
      pinholes == Reverse(Kept(kept, ReadsAsPinhole))
  IN IF \/ "filter?" \in fails
        \/ "filter-" \in fails /\ \E i \in DOMAIN fw.filter : Expired(fw.filter[i], now)
     THEN Answer(fw, -1)
     ELSE Answer([fw EXCEPT !.filter = kept,
                            !.next_uid = UidAfterClean([i \in DOMAIN pinholes |-> pinholes[i].uid],
                                                       @, maxuid)],
                 Len(fw.filter) - Len(kept))
=============================================================================
