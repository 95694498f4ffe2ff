------------------------------ MODULE Backends ------------------------------
(***************************************************************************)
(* The daemon on the firewall backends pf, nftables, IPFilter and ipfw:    *)
(* the requests upnpredirect.c and upnppinhole.c make of them, changes the *)
(* kernel refuses, rules that cannot be read, and restarts of the daemon,  *)
(* which find the rules of the kernel and none of the daemon's own lists.  *)
(* The backend is chosen when the daemon is built: here, initially.        *)
(***************************************************************************)
EXTENDS Firewall

CONSTANTS
  Compiled,      \* the backends: a subset of {"pf", "nft", "ipf", "ipfw"}
  Keys,          \* external endpoints <<proto, eport>>
  Wants,         \* the mappings asked for: [rhost, iaddr, iport, desc, ts]
  Pinholes,      \* the pinholes asked for: [proto, rhost, rport, iaddr, port]
  PinholeTs,     \* expiry times asked for
  Faults,        \* changes and searches of the kernel's rules that may fail
  MaxFaults,     \* bound: failures in a behaviour
  MaxRestarts,   \* bound: restarts in a behaviour
  MaxList,       \* bound: entries of the daemon's list, and nat rules
  MaxRules,      \* bound: pass rules and pinholes before one more is added
  MaxUid,        \* 65535 in the code
  Times          \* the times at which pinholes are cleaned

ASSUME BackendsAssumption ==
  /\ Compiled \subseteq {"pf", "nft", "ipf", "ipfw"}
  /\ Faults \subseteq Changes \cup Searches
  /\ MaxUid \in Nat \ {0, 1}
  /\ Keys \subseteq {"tcp", "udp"} \X Ports
  /\ Wants \subseteq [rhost : Nat, iaddr : Nat \ {0}, iport : Ports, desc : STRING, ts : Nat]
  /\ Pinholes \subseteq [proto : {"tcp", "udp"}, rhost : Nat, rport : Ports,
                         iaddr : Nat \ {0}, port : Ports]
  \* mappings go to IPv4 hosts, pinholes to IPv6 hosts
  /\ \A w \in Wants, p \in Pinholes : w.iaddr # p.iaddr
  /\ PinholeTs \subseteq Nat /\ Times \subseteq Nat
  /\ \A d \in DOMAIN Labels : Labels[d].uid \in Nat /\ Labels[d].ts \in Nat
  /\ "none" \notin DOMAIN Labels

VARIABLES
  backend, \* which one the daemon was built with
  fw,      \* the firewall, see Firewall
  reply,   \* the last request on a mapping and its answer
  faults,  \* failures so far
  restarts

vars == <<backend, fw, reply, faults, restarts>>

Pf == INSTANCE PfRdr
Nft == INSTANCE NftRdr
Ipf == INSTANCE IpfRdr
Ipfw == INSTANCE IpfwRdr

EmptyCache == [rdr |-> Nft!Invalid, filter |-> Nft!Invalid]
NoReply == [op |-> "none", key |-> <<>>, want |-> NoRow, r |-> 0]

init_redirect ==
  [rdr |-> <<>>, filter |-> <<>>, nat |-> <<>>, list |-> <<>>,
   cache |-> EmptyCache, next_uid |-> 1]

-----------------------------------------------------------------------------
(* The functions of commonrdr.h, by backend *)

get_redirect_rule(key, fails) ==
  CASE backend = "pf" -> Pf!get_redirect_rule(fw, key, fails)
    [] backend = "nft" -> Nft!get_redirect_rule(fw, key, fails)
    [] backend = "ipf" -> Ipf!get_redirect_rule(fw, key, fails)
    [] backend = "ipfw" -> Ipfw!get_redirect_rule(fw, key, fails)

(* the search of nftables fills its cache *)
Searched(fails) ==
  IF backend = "nft" THEN Nft!refresh_nft_cache_redirect(fw, "find", fails) ELSE fw

add_redirect_rule2(m, fails) ==
  CASE backend = "pf" -> Pf!add_redirect_rule2(fw, m, fails)
    [] backend = "nft" -> Nft!add_redirect_rule2(Searched(fails), m, fails)
    [] backend = "ipf" -> Ipf!add_redirect_rule2(fw, m, fails)
    [] backend = "ipfw" -> Ipfw!add_redirect_rule2(fw, m, fails)

add_filter_rule2(f, m, fails) ==
  CASE backend = "pf" -> Pf!add_filter_rule2(f, m, fails)
    [] backend = "nft" -> Nft!add_filter_rule2(f, m, fails)
    [] backend = "ipf" -> Ipf!add_filter_rule2(f, m, fails)
    [] backend = "ipfw" -> Ipfw!add_filter_rule2(f, m, fails)

(* not called on Linux *)
CleanUp(f, key, fails) ==
  CASE backend = "pf" -> Pf!delete_redirect_rule(f, key, fails).fw
    [] backend = "nft" -> f
    [] backend = "ipf" -> Ipf!delete_redirect_rule(f, key, fails).fw
    [] backend = "ipfw" -> Ipfw!delete_redirect_rule(f, key, fails).fw

update_portmapping(key, w, fails) ==
  CASE backend = "pf" -> Pf!update_portmapping(fw, key, w.iport, w.desc, w.ts, fails)
    [] backend = "nft" -> Nft!update_portmapping(Searched(fails), key, w.iport, w.desc, w.ts, fails)
    [] backend = "ipf" -> Ipf!update_portmapping(fw, key, w.iport, w.desc, w.ts, fails)
    [] backend = "ipfw" -> Ipfw!update_portmapping(fw, key, w.iport, w.desc, w.ts, fails)

update_portmapping_desc_timestamp(key, w, fails) ==
  CASE backend = "pf" -> Pf!update_portmapping_desc_timestamp(fw, key, w.desc, w.ts, fails)
    [] backend = "nft" -> Nft!update_portmapping_desc_timestamp(Searched(fails), key, w.desc, w.ts, fails)
    [] backend = "ipf" -> Ipf!update_portmapping_desc_timestamp(fw, key, w.desc, w.ts, fails)
    [] backend = "ipfw" -> Ipfw!update_portmapping_desc_timestamp(fw, key, w.desc, w.ts, fails)

-----------------------------------------------------------------------------
(* upnpredirect.c *)

AddFilter(f, m, fails) ==
  IF f.r < 0 THEN Answer(CleanUp(f.fw, m.key, fails), -1) ELSE Answer(f.fw, 0)

AfterRdr(a, m, fails) ==
  IF a.r < 0 THEN Answer(a.fw, -1) ELSE AddFilter(add_filter_rule2(a.fw, m, fails), m, fails)

upnp_redirect_internal(m, fails) == AfterRdr(add_redirect_rule2(m, fails), m, fails)

(* a mapping is overwritten by its own host, for its own remote host, only *)
upnp_redirect(key, w, fails) ==
  LET old == get_redirect_rule(key, fails)
  IN IF old = NoRow
     THEN upnp_redirect_internal([key |-> key, rhost |-> w.rhost, iaddr |-> w.iaddr,
                                  iport |-> w.iport, desc |-> w.desc, ts |-> w.ts], fails)
     ELSE IF old.iaddr # w.iaddr \/ old.rhost # w.rhost THEN Answer(Searched(fails), -2)
     ELSE IF old.iport # w.iport THEN update_portmapping(key, w, fails)
     ELSE update_portmapping_desc_timestamp(key, w, fails)

(* on the systems without a combined function the answer is the first one  *)
ThenFilter(a, key, fails) ==
  Answer(IF backend = "ipf" THEN Ipf!delete_filter_rule(a.fw, key, fails).fw
         ELSE Ipfw!delete_filter_rule(a.fw, key, fails).fw, a.r)

upnp_delete_redir(key, fails) ==
  CASE backend = "pf" -> Pf!delete_redirect_and_filter_rules(fw, key, fails)
    [] backend = "nft" -> Nft!delete_redirect_and_filter_rules(fw, key, fails)
    [] backend = "ipf" -> ThenFilter(Ipf!delete_redirect_rule(fw, key, fails), key, fails)
    [] backend = "ipfw" -> ThenFilter(Ipfw!delete_redirect_rule(fw, key, fails), key, fails)

(* The mapping of a key in force, the first rule of the kernel for it, with *)
(* what the daemon adds to it                                               *)
RowOf(key) ==
  LET i == KeyIndex(fw.rdr, key)
      desc == IF backend \in {"pf", "nft"} THEN fw.rdr[i].desc ELSE ListDesc(fw.list, key)
  IN IF i = 0 THEN NoRow
     ELSE [rhost |-> fw.rdr[i].rhost, iaddr |-> fw.rdr[i].iaddr, iport |-> fw.rdr[i].iport,
           desc |-> desc, ts |-> ListTs(fw.list, key)]

(* At most one kind of change or search fails during a call *)
Outcome(fails) == faults + Cardinality(fails) <= MaxFaults
FailSets == {{}} \cup {{f} : f \in Faults}

Redirect(key, w, fails) ==
  /\ Outcome(fails)
  /\ Len(fw.list) < MaxList /\ Len(fw.nat) < MaxList
  /\ Len(fw.filter) < MaxRules \/ RowOf(key) # NoRow
  /\ \E a \in {upnp_redirect(key, w, fails)} :
        /\ fw' = a.fw
        /\ reply' = [op |-> "redirect", key |-> key, want |-> w, r |-> a.r]
  /\ faults' = faults + Cardinality(fails)
  /\ UNCHANGED <<backend, restarts>>

Delete(key, fails) ==
  /\ Outcome(fails)
  /\ \E a \in {upnp_delete_redir(key, fails)} :
        /\ fw' = a.fw
        /\ reply' = [op |-> "delete", key |-> key, want |-> NoRow, r |-> a.r]
  /\ faults' = faults + Cardinality(fails)
  /\ UNCHANGED <<backend, restarts>>

-----------------------------------------------------------------------------
(* upnppinhole.c, on the two backends that have pinholes *)

HasPinholes == backend \in {"pf", "nft"}

find_pinhole(p, fails) ==
  IF backend = "pf" THEN Pf!find_pinhole(fw, p, fails) ELSE Nft!find_pinhole(fw, p, fails)

upnp_add_inboundpinhole(p, ts, fails) ==
  LET uid == find_pinhole(p, fails)
      f == Nft!refresh_nft_cache_filter(fw, fails)
  IN IF backend = "pf"
     THEN IF uid >= 0 THEN Pf!update_pinhole(fw, uid, ts, fails)
          ELSE Pf!add_pinhole(fw, p, ts, MaxUid, fails)
     ELSE IF uid >= 0 THEN Nft!update_pinhole(f, uid, ts, fails)
          ELSE Nft!add_pinhole(f, p, ts, MaxUid, fails)

PinholeStep(a, fails) ==
  /\ HasPinholes /\ Outcome(fails)
  /\ fw' = a.fw
  /\ faults' = faults + Cardinality(fails)
  /\ UNCHANGED <<backend, reply, restarts>>

AddPinhole(p, ts, fails) ==
  /\ Len(fw.filter) < MaxRules
  /\ PinholeStep(upnp_add_inboundpinhole(p, ts, fails), fails)

get_pinhole_info(uid, fails) ==
  IF backend = "pf" THEN Pf!get_pinhole_info(fw, uid, fails) ELSE Nft!get_pinhole_info(fw, uid)

(* a request for an identifier that is not in use ends at the first search *)
DeletePinhole(uid, fails) ==
  /\ get_pinhole_info(uid, fails) >= 0
  /\ PinholeStep(IF backend = "pf" THEN Pf!delete_pinhole(fw, uid, fails)
                 ELSE Nft!delete_pinhole(fw, uid, fails), fails)

CleanPinholes(now, fails) ==
  PinholeStep(IF backend = "pf" THEN Pf!clean_pinhole_list(fw, now, MaxUid, fails)
              ELSE Nft!clean_pinhole_list(fw, now, MaxUid, fails), fails)

-----------------------------------------------------------------------------
(* the daemon's own lists are gone, the kernel's rules are not *)
Restart ==
  /\ restarts < MaxRestarts
  /\ restarts' = restarts + 1
  /\ fw' = [fw EXCEPT !.list = <<>>, !.cache = EmptyCache, !.next_uid = 1]
  /\ reply' = NoReply
  /\ UNCHANGED <<backend, faults>>

Init ==
  /\ backend \in Compiled
  /\ fw = init_redirect
  /\ reply = NoReply
  /\ faults = 0 /\ restarts = 0

Next ==
  \/ \E key \in Keys, w \in Wants, fails \in FailSets : Redirect(key, w, fails)
  \/ \E key \in Keys, fails \in FailSets : Delete(key, fails)
  \/ \E p \in Pinholes, ts \in PinholeTs, fails \in FailSets : AddPinhole(p, ts, fails)
  \/ \E uid \in 1 .. MaxUid - 1, fails \in FailSets : DeletePinhole(uid, fails)
  \/ \E now \in Times, fails \in FailSets : CleanPinholes(now, fails)
  \/ Restart

Spec == Init /\ [][Next]_vars

-----------------------------------------------------------------------------
(* Properties *)

TypeOK ==
  /\ backend \in Compiled
  /\ DOMAIN fw = {"rdr", "filter", "nat", "list", "cache", "next_uid"}
  /\ \A i \in DOMAIN fw.rdr : fw.rdr[i].key \in Keys
  /\ \A i \in DOMAIN fw.filter : fw.filter[i].kind \in {"pass", "labelled", "pinhole"}
  /\ fw.next_uid \in 1 .. MaxUid - 1
  /\ reply.r \in {0, -1, -2}

(* The backend as the table of commonrdr.h.  What IPFilter remembers of a   *)
(* mapping is left out of its rows: del_redirect_desc() drops more than the *)
(* entry it is asked to.                                                    *)
Untracked(row) == IF backend = "ipf" THEN [row EXCEPT !.desc = "none", !.ts = 0] ELSE row

ReplyOf == IF backend = "ipf" THEN [reply EXCEPT !.want.desc = "none", !.want.ts = 0] ELSE reply

Table == INSTANCE RdrTable
  WITH table <- [k \in Keys |-> Untracked(RowOf(k))], reply <- ReplyOf,
       quiet <- (backend = "nft"), literal <- (backend = "ipf")

(* Whatever changes the kernel refuses and whenever the daemon restarts,    *)
(* every backend is the table commonrdr.h describes: a request of           *)
(* upnpredirect.c changes the mapping it names and no other, and its answer *)
(* is true.  This needs that upnp_redirect() can read the rules ("find" is  *)
(* not among Faults): if it cannot, it adds a second rule for the port.     *)
ImplementsTable == Table!Spec

RulesOf(key, f) == Kept(f.rdr, LAMBDA e : e.key = key)

(* Even when rules cannot be read, descriptions read as labels and ports    *)
(* have several rules, a request leaves the redirections of every other     *)
(* port alone, and a restart those of every port.                           *)
KeepsOthers ==
  [][\A k \in Keys : reply'.key # k => RulesOf(k, fw') = RulesOf(k, fw)]_vars

(* what a pass rule lets through, whatever its label *)
Unlabelled(e) ==
  IF e.kind = "labelled" THEN [e EXCEPT !.kind = "pass", !.uid = 0, !.ts = 0] ELSE e

Plain(key, rhost, iaddr, port) ==
  [kind |-> "pass", proto |-> Proto(key), rhost |-> rhost, rport |-> 0, iaddr |-> iaddr,
   port |-> port, uid |-> 0, ts |-> 0]

RulesTo(proto, w) ==
  {i \in DOMAIN fw.rdr : Proto(fw.rdr[i].key) = proto /\ fw.rdr[i].rhost = w.rhost
     /\ fw.rdr[i].iaddr = w.iaddr /\ fw.rdr[i].iport = w.iport}

(* While the kernel refuses nothing, the pass rules are those of the        *)
(* redirections: as many from a remote host to an internal endpoint as      *)
(* there are mappings between the two, so that deleting one of two mappings *)
(* to the same host and port, or moving one of them, neither closes the     *)
(* other nor leaves a hole; and pf has the outbound nat rule of every UDP   *)
(* mapping.  This needs that the mappings to an endpoint have one remote    *)
(* host and that no description reads as the label of a pinhole.            *)
RulesPaired ==
  faults = 0 =>
    /\ backend \in {"pf", "nft"} =>
         \A key \in Keys, w \in Wants :
           Cardinality(RulesTo(Proto(key), w))
             = Cardinality({i \in DOMAIN fw.filter :
                              Unlabelled(fw.filter[i]) = Plain(key, w.rhost, w.iaddr, w.iport)})
    /\ backend = "ipf" =>
         \A key \in Keys : \A i \in DOMAIN fw.rdr : fw.rdr[i].key = key =>
           \E j \in DOMAIN fw.filter :
             Unlabelled(fw.filter[j]) = Plain(key, fw.rdr[i].rhost, fw.rdr[i].iaddr, Eport(key))
    /\ backend = "pf" =>
         \A i \in DOMAIN fw.rdr : Proto(fw.rdr[i].key) = "udp" =>
           Pf!NatRule(fw.rdr[i]) \in ToSet(fw.nat)

(* The rules nftables answers from are those of the kernel: a valid cache   *)
(* is what reading the rules back now would give, and reading back an       *)
(* expression list gives the mapping or the pinhole it was built from.      *)
CacheFresh ==
  backend = "nft" =>
    /\ fw.cache.rdr.valid =>
         /\ Len(fw.cache.rdr.rules) = Len(fw.rdr)
         /\ \A i \in DOMAIN fw.rdr :
              fw.cache.rdr.rules[Nft!Handle(fw.rdr, i)]
                = [key |-> fw.rdr[i].key, rhost |-> fw.rdr[i].rhost, iaddr |-> fw.rdr[i].iaddr,
                   iport |-> fw.rdr[i].iport, desc |-> fw.rdr[i].desc, dnat |-> TRUE]
    /\ fw.cache.filter.valid =>
         /\ Len(fw.cache.filter.rules) = Len(fw.filter)
         /\ \A i \in DOMAIN fw.filter :
              LET e == fw.filter[i] IN
              LET c == fw.cache.filter.rules[Nft!Handle(fw.filter, i)] IN
              /\ c.filter
              /\ <<c.proto, c.dport, c.sport, c.uid, c.ts>> = <<e.proto, e.port, e.rport, e.uid, e.ts>>
              /\ IF e.kind = "pinhole" THEN <<c.daddr6, c.saddr6, c.daddr>> = <<e.iaddr, e.rhost, 0>>
                 ELSE <<c.daddr, c.daddr6>> = <<e.iaddr, 0>>
              /\ c.pinhole = ReadsAsPinhole(e)

Shown(row) ==
  IF backend = "ipf" /\ row # NoRow THEN [row EXCEPT !.rhost = Ipf!ShownHost(@)] ELSE row

Count ==
  CASE backend = "pf" -> Pf!get_redirect_rule_count(fw)
    [] backend = "nft" -> Nft!get_redirect_rule_count(fw)
    [] OTHER -> Len(fw.rdr)

ByIndex(i) ==
  CASE backend = "pf" -> Pf!get_redirect_rule_by_index(fw, i)
    [] backend = "nft" -> Nft!get_redirect_rule_by_index(fw, i)
    [] backend = "ipf" -> Ipf!get_redirect_rule_by_index(fw, i)
    [] backend = "ipfw" -> Ipfw!get_redirect_rule_by_index(fw, i)

InRange(start, end, proto) ==
  CASE backend = "pf" -> Pf!get_portmappings_in_range(fw, start, end, proto)
    [] backend = "nft" -> Nft!get_portmappings_in_range(fw, start, end, proto)
    [] backend = "ipf" -> Ipf!get_portmappings_in_range(fw, start, end, proto)
    [] backend = "ipfw" -> Ipfw!get_portmappings_in_range(fw, start, end, proto)

(* The search of a port shows the mapping in force, and the ways to list    *)
(* mappings agree with it: by index, by number and by range they name the   *)
(* same mappings, each once.  On nftables only while the kernel refuses     *)
(* nothing: update_portmapping() does not notice that the old rule stayed,  *)
(* and then the daemon reads the newest rule and the kernel the oldest.     *)
(* This needs the searches of upnp_redirect() as well.  IPFilter shows a    *)
(* mapping open to every remote host with an address.                       *)
ListingsAgree ==
  LET found == {k \in Keys : get_redirect_rule(k, {}) # NoRow} IN
  (backend = "nft" => faults = 0) =>
  /\ \A k \in Keys : get_redirect_rule(k, {}) = Shown(RowOf(k))
  /\ Count = Cardinality(found)
  /\ {ByIndex(i) : i \in 0 .. Count - 1} = found
  /\ \A k \in Keys : (k \in found) <=> (Eport(k) \in ToSet(InRange(0, Eport(k), Proto(k))))

IsKind(kind, f) == Kept(f.filter, LAMBDA e : Unlabelled(e).kind = kind)

(* Mappings and pinholes share a chain, a search by port and, on nftables,  *)
(* a cache: a step that changes one of the two kinds leaves the other       *)
(* alone.  This needs that no description reads as the label of a pinhole:  *)
(* the sweep removes a pass rule with such a label.                         *)
PinholesApart ==
  [][IsKind("pinhole", fw') # IsKind("pinhole", fw)
       => /\ IsKind("pass", fw') = IsKind("pass", fw)
          /\ \A k \in Keys : RowOf(k)' = RowOf(k)]_vars
=============================================================================
