------------------------------- MODULE IpfwRdr -------------------------------
(***************************************************************************)
(* The ipfw backend (ipfw/ipfwrdr.c and ipfwaux.c).  A forward rule is the *)
(* redirection and the pass rule at once; descriptions and expiries are in *)
(* mappings_list.  The whole ruleset is fetched for every search and its   *)
(* last rule, the default rule of ipfw, is left out of it.                 *)
(***************************************************************************)
EXTENDS Firewall

DefaultRule == [key |-> <<"all", 0>>, rhost |-> 0, iaddr |-> 0, iport |-> 0, desc |-> "none"]

ipfw_fetch_ruleset(fw) == Append(fw.rdr, DefaultRule)

Searched_Short(fw) == SubSeq(ipfw_fetch_ruleset(fw), 1, Len(ipfw_fetch_ruleset(fw)) - 2)

(* the loops stop one before the end *)
Searched(fw) == SubSeq(ipfw_fetch_ruleset(fw), 1, Len(ipfw_fetch_ruleset(fw)) - 1)

add_desc_time(list, key, desc, ts) == ListAdd(list, key, desc, ts)

del_desc_time(list, key) == ListRemove(list, key)

get_desc_time(list, key) == [desc |-> ListDesc(list, key), ts |-> ListTs(list, key)]

add_redirect_rule2(fw, m, fails) ==
  IF "rdr+" \in fails THEN Answer(fw, -1)
  ELSE Answer([fw EXCEPT !.rdr = Append(@, RdrRule(m, "none")),
                         !.list = add_desc_time(@, m.key, m.desc, m.ts)], 0)

(* a ruleset that cannot be fetched: no such rule *)
get_redirect_rule(fw, key, fails) ==
  LET i == KeyIndex(Searched(fw), key)
      d == get_desc_time(fw.list, key)
  IN IF "find" \in fails \/ i = 0 THEN NoRow
     ELSE [rhost |-> fw.rdr[i].rhost, iaddr |-> fw.rdr[i].iaddr, iport |-> fw.rdr[i].iport,
           desc |-> d.desc, ts |-> d.ts]

(* the default rule has no protocol: an error *)
get_redirect_rule_by_index(fw, index) == ipfw_fetch_ruleset(fw)[index + 1].key

get_portmappings_in_range(fw, start, end, proto) ==
  LET in == Kept(Searched(fw), LAMBDA e : Proto(e.key) = proto /\ start <= Eport(e.key)
                                               /\ Eport(e.key) <= end)
  IN [i \in DOMAIN in |-> Eport(in[i].key)]

delete_redirect_rule(fw, key, fails) ==
  LET i == KeyIndex(Searched(fw), key)
  IN IF i = 0 \/ "rdr?" \in fails \/ "rdr-" \in fails THEN Answer(fw, -1)
     ELSE Answer([fw EXCEPT !.rdr = RemoveAt(@, i), !.list = del_desc_time(@, key)], 0)

(* nothing to do *)
add_filter_rule2(fw, m, fails) == Answer(fw, 0)

delete_filter_rule(fw, key, fails) == Answer(fw, 0)

update_portmapping(fw, key, iport, desc, ts, fails) ==
  LET i == KeyIndex(Searched(fw), key)
      d == delete_redirect_rule(fw, key, fails)
  IN IF d.r < 0 THEN d
     ELSE add_redirect_rule2(d.fw, [key |-> key, rhost |-> fw.rdr[i].rhost,
                                    iaddr |-> fw.rdr[i].iaddr, iport |-> iport, desc |-> desc,
                                    ts |-> ts], fails)

update_portmapping_desc_timestamp(fw, key, desc, ts, fails) ==
  Answer([fw EXCEPT !.list = add_desc_time(del_desc_time(@, key), key, desc, ts)], 0)
=============================================================================
