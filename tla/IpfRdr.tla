------------------------------- MODULE IpfRdr -------------------------------
(***************************************************************************)
(* The IPFilter backend (ipf/ipfrdr.c).  Redirections carry the tag of the *)
(* daemon; descriptions and expiries are in rdr_desc_list.  A pass rule is *)
(* identified by its protocol and the external port.                       *)
(***************************************************************************)
EXTENDS Firewall

add_redirect_desc(list, key, desc, ts) == ListAdd(list, key, desc, ts)

(* The pointer to the entry before the match is never set: the head of the *)
(* list moves to the entry after it, whatever was in front.                *)
del_redirect_desc(list, key) ==
  LET i == KeyIndex(list, key) IN IF i = 0 THEN list ELSE SubSeq(list, i + 1, Len(list))

get_redirect_desc(list, key) == [desc |-> ListDesc(list, key), ts |-> ListTs(list, key)]

add_redirect_rule2(fw, m, fails) ==
  IF "rdr+" \in fails THEN Answer(fw, -1)
  ELSE Answer([fw EXCEPT !.rdr = Append(@, RdrRule(m, "none")),
                         !.list = add_redirect_desc(@, m.key, m.desc, m.ts)], 0)

(* the remote host of a mapping open to all of them is shown as 0.0.0.0 *)
AnyHost == -1

ShownHost(rhost) == IF rhost = 0 THEN AnyHost ELSE rhost

(* the iteration goes on after a match: the last one counts *)
get_redirect_rule(fw, key, fails) ==
  LET i == SelectLastInSeq(fw.rdr, LAMBDA e : e.key = key)
      d == get_redirect_desc(fw.list, key)
  IN IF "find" \in fails \/ i = 0 THEN NoRow
     ELSE [rhost |-> ShownHost(fw.rdr[i].rhost), iaddr |-> fw.rdr[i].iaddr,
           iport |-> fw.rdr[i].iport, desc |-> d.desc, ts |-> d.ts]

get_redirect_rule_by_index(fw, index) == fw.rdr[index + 1].key

get_portmappings_in_range(fw, start, end, proto) ==
  LET in == Kept(fw.rdr, LAMBDA e : Proto(e.key) = proto /\ start <= Eport(e.key)
                                         /\ Eport(e.key) <= end)
  IN [i \in DOMAIN in |-> Eport(in[i].key)]

(* the description goes even when the kernel refuses *)
real_delete_redirect_rule(fw, key, fails) ==
  LET i == KeyIndex(fw.rdr, key)
      forgot == [fw EXCEPT !.list = del_redirect_desc(@, key)]
  IN IF "rdr?" \in fails \/ i = 0 THEN Answer(fw, -1)
     ELSE IF "rdr-" \in fails THEN Answer(forgot, -1)
     ELSE Answer([forgot EXCEPT !.rdr = RemoveAt(@, i)], 0)

(* tried twice *)
delete_redirect_rule(fw, key, fails) ==
  LET d == real_delete_redirect_rule(fw, key, fails)
  IN IF d.r = -1 THEN real_delete_redirect_rule(d.fw, key, fails) ELSE d

add_filter_rule2(fw, m, fails) ==
  IF "filter+" \in fails THEN Answer(fw, -1)
  ELSE Answer([fw EXCEPT !.filter = Append(@, PassRule(m, Eport(m.key)))], 0)

delete_filter_rule(fw, key, fails) ==
  LET i == SelectInSeq(fw.filter, LAMBDA e : e.proto = Proto(key) /\ e.port = Eport(key))
  IN IF i = 0 \/ "filter?" \in fails \/ "filter-" \in fails THEN Answer(fw, -1)
     ELSE Answer([fw EXCEPT !.filter = RemoveAt(@, i)], 0)

(* not implemented *)
update_portmapping(fw, key, iport, desc, ts, fails) == Answer(fw, -1)

update_portmapping_desc_timestamp(fw, key, desc, ts, fails) ==
  Answer([fw EXCEPT !.list = add_redirect_desc(del_redirect_desc(@, key), key, desc, ts)], 0)
=============================================================================
