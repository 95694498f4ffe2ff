------------------------------ MODULE Firewall ------------------------------
(***************************************************************************)
(* What the firewall backends other than iptables have in common.  A       *)
(* firewall is a record:                                                   *)
(*   rdr      the redirections the kernel holds                            *)
(*   filter   its pass rules, those of the mappings and the IPv6 pinholes  *)
(*   nat      the outbound nat rules of UDP mappings (pf)                  *)
(*   list     what the daemon itself remembers of each mapping, because    *)
(*            the kernel cannot: the expiry and, for ipf and ipfw, the     *)
(*            description                                                  *)
(*   cache    the daemon's copy of the rules (nftables)                    *)
(*   next_uid the next pinhole identifier                                  *)
(* An operation maps a firewall to [fw, r]: the firewall it leaves and the *)
(* value it returns.  Its last parameter is the set of the kernel requests *)
(* that fail during the call, named after the table and the change         *)
(* ("rdr+", "rdr-", "filter+", "filter-", "nat+", "nat-") or after the      *)
(* rules that cannot be read: "find" is get_redirect_rule() of              *)
(* upnp_redirect(), "rdr?" and "filter?" the searches of the operations     *)
(* themselves.                                                              *)
(***************************************************************************)
EXTENDS Integers, Sequences, SequencesExt, FiniteSets, Lists

CONSTANT Labels   \* the descriptions that read as the label of a pinhole: desc -> [uid, ts]

Changes == {"rdr+", "rdr-", "filter+", "filter-", "nat+", "nat-"}
Searches == {"find", "rdr?", "filter?"}

Ports == 0 .. 65535

Answer(fw, r) == [fw |-> fw, r |-> r]

Proto(key) == key[1]
Eport(key) == key[2]

(* A mapping m is [key, rhost, iaddr, iport, desc, ts]: key is              *)
(* <<proto, eport>>, rhost the remote host it is open to, 0 for all of them *)
RdrRule(m, desc) ==
  [key |-> m.key, rhost |-> m.rhost, iaddr |-> m.iaddr, iport |-> m.iport, desc |-> desc]

(* The label of a pass rule is the description the client gave, and a       *)
(* pinhole is known by its label only: a pass rule with a label of that     *)
(* form is "labelled".  (IPFilter has neither labels nor pinholes.)         *)
PassRule(m, port) ==
  [kind |-> IF m.desc \in DOMAIN Labels THEN "labelled" ELSE "pass",
   proto |-> Proto(m.key), rhost |-> m.rhost, rport |-> 0, iaddr |-> m.iaddr, port |-> port,
   uid |-> IF m.desc \in DOMAIN Labels THEN Labels[m.desc].uid ELSE 0,
   ts |-> IF m.desc \in DOMAIN Labels THEN Labels[m.desc].ts ELSE 0]

(* A pinhole p is [proto, rhost, rport, iaddr, port]; its identifier and   *)
(* its expiry are kept in the label of the rule.                           *)
PinholeRule(p, uid, ts) ==
  [kind |-> "pinhole", proto |-> p.proto, rhost |-> p.rhost, rport |-> p.rport,
   iaddr |-> p.iaddr, port |-> p.port, uid |-> uid, ts |-> ts]

(* sscanf() of the label gives an identifier and an expiry *)
ReadsAsPinhole(e) == e.kind # "pass"

PinholeOf(e) == [proto |-> e.proto, rhost |-> e.rhost, rport |-> e.rport,
                 iaddr |-> e.iaddr, port |-> e.port]

(* The rules of a list that a test keeps, in their order *)
Kept(rules, Test(_)) == Sublist(rules, {e \in ToSet(rules) : Test(e)})

KeyIndex(rules, key) == SelectInSeq(rules, LAMBDA e : e.key = key)

NoRow == [rhost |-> 0, iaddr |-> 0, iport |-> 0, desc |-> "none", ts |-> 0]

(* The list of the daemon: entries go to the head, the first match counts  *)
ListAdd(list, key, desc, ts) == Cons([key |-> key, desc |-> desc, ts |-> ts], list)

ListRemove(list, key) == RemoveFirstMatch(list, LAMBDA d : d.key = key)

ListTs(list, key) ==
  LET i == KeyIndex(list, key) IN IF i = 0 THEN 0 ELSE list[i].ts

ListDesc(list, key) ==
  LET i == KeyIndex(list, key) IN IF i = 0 THEN "none" ELSE list[i].desc

(* uids go from 1 to maxuid - 1 *)
NextUid(uid, maxuid) == IF uid + 1 >= maxuid THEN 1 ELSE uid + 1

(* clean_pinhole_list() ends by moving next_uid out of the range in use.   *)
(* min_uid is set by a uid that is not a new maximum only, so the test      *)
(* min_uid - 32000 <= next_uid fails when every uid visited was one.  The   *)
(* identifiers of an instance stay below 32000.                             *)
UidAfterClean(uids, next_uid, maxuid) ==
  LET max == IF uids = <<>> THEN -1
             ELSE CHOOSE u \in ToSet(uids) : \A v \in ToSet(uids) : v <= u
      min_set == \E i, j \in 1 .. Len(uids) : i < j /\ uids[j] <= uids[i]
      next == IF min_set /\ next_uid <= max THEN max + 1 ELSE next_uid
  IN IF max <= 0 THEN next_uid
     ELSE IF next >= maxuid THEN 1 ELSE next
=============================================================================
