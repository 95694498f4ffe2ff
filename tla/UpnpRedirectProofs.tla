------------------------- MODULE UpnpRedirectProofs -------------------------
(***************************************************************************)
(* Theorems about the port mappings of UpnpRedirect, for every set of      *)
(* clients, ports, remote hosts and lease durations.                       *)
(***************************************************************************)
EXTENDS PcpServer, ListLemmas

(***************************************************************************)
(* What the operations of the netfilter backend (IptcRdr) do to a          *)
(* firewall, seen as sets of rules, for any chains and any set of failing  *)
(* steps                                                                   *)
(***************************************************************************)

Descriptions == Strs \cup PcpDescs \cup {NatpmpDesc}

NatRules == [key : Keys, iaddr : Clients, iport : Iports, rhost : Rhosts, pcnt : Nat]
FilterRules == [proto : Protos, iaddr : Clients, iport : Iports, rhost : Rhosts]
DescEntries == [key : Keys, str : Descriptions, timestamp : Nat]
PeerFlows == [key : Keys, iaddr : Clients, iport : Iports, rhost : Rhosts, rport : Iports]
DscpRules == [proto : Protos, src : Clients \cup Rhosts, sport : Iports,
              dst : Clients \cup Rhosts, dport : Iports, dscp : Nat]

Firewalls == [nat : Seq(NatRules), filter : Seq(FilterRules), desc : Seq(DescEntries),
              peer : Seq(PeerFlows), mangle : Seq(DscpRules)]

(* The rule that a mapping m becomes *)
NewRule(m) == [key |-> m.key, iaddr |-> m.iaddr, iport |-> m.iport,
               rhost |-> m.rhost, pcnt |-> 0]

(* The entry that keeps its description and expiry *)
NewDesc(key, str, timestamp) == [key |-> key, str |-> str, timestamp |-> timestamp]

(* One description for a port, none without a rule; one rule for a port *)
Described(f) == UniqueKeys(f.desc) /\ KeysOf(f.desc) \subseteq KeysOf(f.nat)
Tidy(f) == UniqueKeys(f.nat) /\ Described(f)

(* No step fails that keeps a deletion from taking the nat rule away though *)
(* it may report a success                                                  *)
Removes(fails) == {"reopen", "del_nat"} \cap fails = {}

-----------------------------------------------------------------------------
(* The keys of the rules *)

LEMMA KeysOfType ==
  ASSUME NEW f \in Firewalls
  PROVE  KeysOf(f.nat) \subseteq Keys /\ KeysOf(f.desc) \subseteq Keys
<1>1. f.nat \in Seq(NatRules) /\ f.desc \in Seq(DescEntries)
  BY DEF Firewalls
<1>2. \A i \in DOMAIN f.nat : f.nat[i] \in NatRules
  BY <1>1, DomainIsLen
<1>3. \A i \in DOMAIN f.desc : f.desc[i] \in DescEntries
  BY <1>1, DomainIsLen
<1>4. QED BY <1>2, <1>3 DEF KeysOf, NatRules, DescEntries

-----------------------------------------------------------------------------
(* Searches *)

LEMMA NatIndexFacts ==
  ASSUME NEW f \in Firewalls, NEW key
  PROVE  /\ NatIndex(f, key) \in 0..Len(f.nat)
         /\ NatIndex(f, key) = 0 <=> key \notin KeysOf(f.nat)
         /\ NatIndex(f, key) # 0 => f.nat[NatIndex(f, key)].key = key
<1> DEFINE I == {i \in 1..Len(f.nat) : f.nat[i].key = key}
<1>1. DOMAIN f.nat = 1..Len(f.nat) /\ Len(f.nat) \in Nat
  BY DomainIsLen DEF Firewalls
<1>2. NatIndex(f, key) = IF I # {} THEN Min(I) ELSE 0
  BY DEF NatIndex, SelectInSeq
<1>3. I \in SUBSET Nat
  OBVIOUS
<1>4. I # {} => Min(I) \in I
  BY <1>3, MinIsLeast
<1>5. I # {} <=> key \in KeysOf(f.nat)
  BY <1>1 DEF KeysOf
<1> HIDE DEF I
<1>6. I # {} => Min(I) \in 1..Len(f.nat) /\ f.nat[Min(I)].key = key
  BY <1>4 DEF I
<1>7. QED BY <1>1, <1>2, <1>5, <1>6

(* del_redirect_desc() removes the description of the key, if there is one *)
LEMMA DelDescFacts ==
  ASSUME NEW desc \in Seq(DescEntries), NEW key
  PROVE  /\ del_redirect_desc(desc, key) \in Seq(DescEntries)
         /\ ToSet(del_redirect_desc(desc, key)) \subseteq ToSet(desc)
         /\ UniqueKeys(desc)
              => /\ UniqueKeys(del_redirect_desc(desc, key))
                 /\ ToSet(del_redirect_desc(desc, key)) = {e \in ToSet(desc) : e.key # key}
                 /\ KeysOf(del_redirect_desc(desc, key)) = KeysOf(desc) \ {key}
<1> DEFINE I == {i \in 1..Len(desc) : desc[i].key = key}
<1>1. DOMAIN desc = 1..Len(desc) /\ Len(desc) \in Nat
  BY DomainIsLen
<1>2. del_redirect_desc(desc, key) =
        IF \E i \in 1..Len(desc) : desc[i].key = key
        THEN RemoveAt(desc, IF I # {} THEN Min(I) ELSE 0) ELSE desc
  BY DEF del_redirect_desc, RemoveFirstMatch, SelectInSeq
<1>3. I \in SUBSET Nat
  OBVIOUS
<1>4. I # {} => Min(I) \in I
  BY <1>3, MinIsLeast
<1>5. CASE I = {}
  <2>1. del_redirect_desc(desc, key) = desc
    BY <1>2, <1>5
  <2>2. key \notin KeysOf(desc) /\ \A e \in ToSet(desc) : e.key # key
    BY <1>1, <1>5 DEF KeysOf, ToSet
  <2>3. QED BY <2>1, <2>2
<1>6. CASE I # {}
  <2> DEFINE i == Min(I)
  <2>1. i \in 1..Len(desc) /\ desc[i].key = key
    BY <1>4, <1>6
  <2> HIDE DEF i, I
  <2>2. del_redirect_desc(desc, key) = RemoveAt(desc, i)
    BY <1>2, <1>6, <2>1 DEF i
  <2>3. QED BY <2>1, <2>2, RemoveKeyed
<1>7. QED BY <1>5, <1>6

(* The description found is one of the list *)
LEMMA GetDescFacts ==
  ASSUME NEW f \in Firewalls, NEW key
  PROVE  /\ key \notin KeysOf(f.desc)
              => get_redirect_desc(f, key) = [key |-> key, str |-> "miniupnpd", timestamp |-> 0]
         /\ key \in KeysOf(f.desc)
              => get_redirect_desc(f, key) \in ToSet(f.desc) /\ get_redirect_desc(f, key).key = key
         /\ get_redirect_desc(f, key).timestamp \in Nat
<1> DEFINE I == {i \in 1..Len(f.desc) : f.desc[i].key = key}
           n == IF I # {} THEN Min(I) ELSE 0
<1>1. /\ DOMAIN f.desc = 1..Len(f.desc) /\ Len(f.desc) \in Nat
      /\ \A i \in 1..Len(f.desc) : f.desc[i] \in DescEntries
  <2>1. f.desc \in Seq(DescEntries)
    BY DEF Firewalls
  <2>2. QED BY <2>1, DomainIsLen
<1>2. get_redirect_desc(f, key) =
        IF n = 0 THEN [key |-> key, str |-> "miniupnpd", timestamp |-> 0] ELSE f.desc[n]
  BY DEF get_redirect_desc, SelectInSeq
<1>3. I \in SUBSET Nat
  OBVIOUS
<1>4. I # {} => Min(I) \in I
  BY <1>3, MinIsLeast
<1>5. I # {} <=> key \in KeysOf(f.desc)
  BY <1>1 DEF KeysOf
<1>6. I # {} => Min(I) \in 1..Len(f.desc) /\ f.desc[Min(I)].key = key
  BY <1>4
<1> HIDE DEF I
<1>7. CASE I = {}
  BY <1>2, <1>5, <1>7
<1>8. CASE I # {}
  <2>1. n \in 1..Len(f.desc) /\ n # 0 /\ f.desc[n].key = key
    BY <1>6, <1>8
  <2>2. f.desc[n] \in ToSet(f.desc) /\ f.desc[n].timestamp \in Nat
    BY <1>1, <2>1 DEF ToSet, DescEntries
  <2>3. QED BY <1>2, <1>5, <1>8, <2>1, <2>2
<1>9. QED BY <1>7, <1>8

-----------------------------------------------------------------------------
(* Additions *)

(* What the firewall g has more than f, once m is added *)
RuleAdded(f, g, m, timestamp) ==
  /\ ToSet(g.nat) = ToSet(f.nat) \cup {NewRule(m)}
  /\ KeysOf(g.nat) = KeysOf(f.nat) \cup {m.key}
  /\ ToSet(g.desc) = ToSet(f.desc) \cup {NewDesc(m.key, m.str, timestamp)}
  /\ (Tidy(f) /\ m.key \notin KeysOf(f.nat)) => Tidy(g)
  /\ (Described(f) /\ m.key \notin KeysOf(f.desc)) => Described(g)

LEMMA AddRdrFacts ==
  ASSUME NEW f \in Firewalls, NEW m \in Mappings, NEW timestamp \in Nat, NEW fails
  PROVE  LET a == add_redirect_rule2(f, m, timestamp, fails)
         IN /\ a.fw \in Firewalls
            /\ a.r \in {0, -1}
            /\ "nat" \notin fails <=> a.r = 0
            /\ a.r = -1 => a.fw = f
            /\ a.fw.filter = f.filter
            /\ a.r = 0 => RuleAdded(f, a.fw, m, timestamp)
<1> DEFINE a == add_redirect_rule2(f, m, timestamp, fails)
           e == NewDesc(m.key, m.str, timestamp)
<1>1. CASE "nat" \in fails
  <2>1. a.fw = f /\ a.r = -1
    BY <1>1 DEF add_redirect_rule2, Answer
  <2>2. QED BY <1>1, <2>1
<1>2. CASE "nat" \notin fails
  <2>1. /\ f = [nat |-> f.nat, filter |-> f.filter, desc |-> f.desc, peer |-> f.peer,
                mangle |-> f.mangle]
        /\ f.nat \in Seq(NatRules) /\ f.desc \in Seq(DescEntries)
        /\ f.filter \in Seq(FilterRules) /\ f.peer \in Seq(PeerFlows)
        /\ f.mangle \in Seq(DscpRules)
    BY DEF Firewalls
  <2>2. a.fw = [nat |-> Append(f.nat, NewRule(m)), filter |-> f.filter,
                desc |-> Cons(e, f.desc), peer |-> f.peer, mangle |-> f.mangle]
        /\ a.r = 0
    BY <1>2, <2>1 DEF add_redirect_rule2, Answer, addnatrule, add_redirect_desc, NewRule, NewDesc
  <2>3. NewRule(m) \in NatRules /\ NewRule(m).key = m.key /\ e \in DescEntries /\ e.key = m.key
    BY DEF NewRule, NewDesc, NatRules, DescEntries, Descriptions, Mappings
  <2>4. /\ Append(f.nat, NewRule(m)) \in Seq(NatRules)
        /\ ToSet(a.fw.nat) = ToSet(f.nat) \cup {NewRule(m)}
        /\ KeysOf(a.fw.nat) = KeysOf(f.nat) \cup {m.key}
        /\ (UniqueKeys(f.nat) /\ m.key \notin KeysOf(f.nat)) => UniqueKeys(a.fw.nat)
    BY <2>1, <2>2, <2>3, AppendKeyed
  <2>5. /\ Cons(e, f.desc) \in Seq(DescEntries)
        /\ ToSet(a.fw.desc) = ToSet(f.desc) \cup {e}
        /\ KeysOf(a.fw.desc) = KeysOf(f.desc) \cup {m.key}
        /\ (UniqueKeys(f.desc) /\ m.key \notin KeysOf(f.desc)) => UniqueKeys(a.fw.desc)
    BY <2>1, <2>2, <2>3, ConsKeyed
  <2> HIDE DEF a, e
  <2>6. a.fw \in Firewalls /\ a.fw.filter = f.filter
    BY <2>1, <2>2, <2>4, <2>5 DEF Firewalls
  <2>7. (Tidy(f) /\ m.key \notin KeysOf(f.nat)) => Tidy(a.fw)
    BY <2>4, <2>5 DEF Tidy, Described
  <2>10. (Described(f) /\ m.key \notin KeysOf(f.desc)) => Described(a.fw)
    BY <2>4, <2>5 DEF Described
  <2>8. RuleAdded(f, a.fw, m, timestamp)
    BY <2>4, <2>5, <2>7, <2>10 DEF RuleAdded, e
  <2>9. QED BY <1>2, <2>2, <2>6, <2>8 DEF a
<1>3. QED BY <1>1, <1>2

LEMMA AddFilterFacts ==
  ASSUME NEW f \in Firewalls, NEW m \in Mappings, NEW fails
  PROVE  LET a == add_filter_rule2(f, m, fails)
         IN /\ a.fw \in Firewalls
            /\ a.r \in {0, -1}
            /\ {"filter", "open"} \cap fails = {} <=> a.r = 0
            /\ a.fw.nat = f.nat /\ a.fw.desc = f.desc
<1> DEFINE a == add_filter_rule2(f, m, fails)
           e == [proto |-> Proto(m.key), iaddr |-> m.iaddr, iport |-> m.iport,
                 rhost |-> m.rhost]
<1>1. CASE {"filter", "open"} \cap fails # {}
  <2>1. a.fw = f /\ a.r = -1
    BY <1>1 DEF add_filter_rule2, Answer
  <2>2. QED BY <1>1, <2>1
<1>2. CASE {"filter", "open"} \cap fails = {}
  <2>1. /\ f = [nat |-> f.nat, filter |-> f.filter, desc |-> f.desc, peer |-> f.peer,
                mangle |-> f.mangle]
        /\ f.nat \in Seq(NatRules) /\ f.desc \in Seq(DescEntries)
        /\ f.filter \in Seq(FilterRules) /\ f.peer \in Seq(PeerFlows)
        /\ f.mangle \in Seq(DscpRules)
    BY DEF Firewalls
  <2>2. a.fw = [nat |-> f.nat, filter |-> Append(f.filter, e),
                desc |-> f.desc, peer |-> f.peer, mangle |-> f.mangle]
        /\ a.r = 0
    BY <1>2, <2>1 DEF add_filter_rule2, Answer, add_filter_rule
  <2>3. m.key \in Protos \X (1..MaxPort)
    BY DEF Mappings, Keys
  <2>4. e \in FilterRules
    BY <2>3 DEF FilterRules, Mappings, Proto
  <2>5. Append(f.filter, e) \in Seq(FilterRules)
    BY <2>1, <2>4, AppendProperties
  <2> HIDE DEF a, e
  <2>6. QED BY <1>2, <2>1, <2>2, <2>5 DEF Firewalls, a
<1>3. QED BY <1>1, <1>2

-----------------------------------------------------------------------------
(* Deletion *)

LEMMA FilterIndexFacts ==
  ASSUME NEW f \in Firewalls, NEW proto, NEW iaddr, NEW iport
  PROVE  LET n == FilterIndex(f, proto, iaddr, iport)
         IN /\ n \in 0..Len(f.filter)
            /\ n = 0 => \A i \in 1..Len(f.filter) : ~(/\ f.filter[i].proto = proto
                                                     /\ f.filter[i].iaddr = iaddr
                                                     /\ f.filter[i].iport = iport)
            /\ n # 0 => /\ f.filter[n].proto = proto
                        /\ f.filter[n].iaddr = iaddr
                        /\ f.filter[n].iport = iport
<1> DEFINE I == {i \in 1..Len(f.filter) : /\ f.filter[i].proto = proto
                                          /\ f.filter[i].iaddr = iaddr
                                          /\ f.filter[i].iport = iport}
<1>1. Len(f.filter) \in Nat
  BY DomainIsLen DEF Firewalls
<1>2. FilterIndex(f, proto, iaddr, iport) = IF I # {} THEN Min(I) ELSE 0
  BY DEF FilterIndex, SelectInSeq
<1>3. I \in SUBSET Nat
  OBVIOUS
<1>4. I # {} => Min(I) \in I
  BY <1>3, MinIsLeast
<1>5. I # {} => /\ Min(I) \in 1..Len(f.filter)
                /\ f.filter[Min(I)].proto = proto
                /\ f.filter[Min(I)].iaddr = iaddr
                /\ f.filter[Min(I)].iport = iport
  BY <1>4
<1>6. I = {} => \A i \in 1..Len(f.filter) : ~(/\ f.filter[i].proto = proto
                                             /\ f.filter[i].iaddr = iaddr
                                             /\ f.filter[i].iport = iport)
  OBVIOUS
<1> HIDE DEF I
<1>7. QED BY <1>1, <1>2, <1>5, <1>6

(* The index of the ACCEPT rule that goes with the rule of key, or 0 *)
AcceptOf(f, key) == FilterIndex(f, Proto(key), RuleOf(f, key).iaddr, RuleOf(f, key).iport)

(* Deleting a PEER rule and its DSCP rule leaves the rest alone *)
LEMMA DeletePeerFacts ==
  ASSUME NEW f \in Firewalls, NEW key, NEW fails
  PROVE  LET p == DeletePeerRule(f, key, fails)
         IN /\ p.fw.peer \in Seq(PeerFlows) /\ p.fw.mangle = f.mangle
            /\ p.r \in {0, -1} /\ p.fw \in Firewalls
<1> DEFINE I == {i \in 1..Len(f.peer) : f.peer[i].key = key}
           n == IF I # {} THEN Min(I) ELSE 0
           p == DeletePeerRule(f, key, fails)
<1>1. /\ f = [nat |-> f.nat, filter |-> f.filter, desc |-> f.desc, peer |-> f.peer,
                mangle |-> f.mangle]
      /\ f.nat \in Seq(NatRules) /\ f.desc \in Seq(DescEntries)
      /\ f.filter \in Seq(FilterRules) /\ f.peer \in Seq(PeerFlows)
      /\ f.mangle \in Seq(DscpRules)
  BY DEF Firewalls
<1>2. p = IF n = 0 \/ "del_peer" \in fails THEN [fw |-> f, r |-> -1]
          ELSE [fw |-> [f EXCEPT !.peer = RemoveAt(f.peer, n)], r |-> 0]
  BY DEF DeletePeerRule, SelectInSeq, Answer
<1>3. I \in SUBSET Nat
  OBVIOUS
<1>4. I # {} => Min(I) \in 1..Len(f.peer)
  BY <1>3, MinIsLeast
<1>5. n # 0 => RemoveAt(f.peer, n) \in Seq(PeerFlows)
  <2> HIDE DEF I
  <2>1. n # 0 => n \in 1..Len(f.peer)
    BY <1>4
  <2>2. QED BY <1>1, <2>1, RemoveAtFacts
<1> HIDE DEF n, p
<1>6. CASE n = 0 \/ "del_peer" \in fails
  BY <1>1, <1>2, <1>6 DEF p
<1>7. CASE ~(n = 0 \/ "del_peer" \in fails)
  <2>1. p.fw = [nat |-> f.nat, filter |-> f.filter, desc |-> f.desc,
                peer |-> RemoveAt(f.peer, n), mangle |-> f.mangle] /\ p.r = 0
    BY <1>1, <1>2, <1>7
  <2>2. QED BY <1>1, <1>5, <1>7, <2>1 DEF Firewalls, p
<1>8. QED BY <1>6, <1>7

LEMMA DeleteDscpFacts ==
  ASSUME NEW f \in Firewalls, NEW flow, NEW fails
  PROVE  LET p == DeleteDscpRule(f, flow, fails)
         IN /\ p.fw.peer = f.peer /\ p.fw.mangle \in Seq(DscpRules)
            /\ p.r \in {0, -1}
<1> DEFINE I == {i \in 1..Len(f.mangle) : /\ f.mangle[i].proto = Proto(flow.key)
                                          /\ f.mangle[i].sport = flow.iport
                                          /\ f.mangle[i].src = flow.iaddr}
           n == IF I # {} THEN Min(I) ELSE 0
           p == DeleteDscpRule(f, flow, fails)
<1>1. /\ f = [nat |-> f.nat, filter |-> f.filter, desc |-> f.desc, peer |-> f.peer,
                mangle |-> f.mangle]
      /\ f.mangle \in Seq(DscpRules)
  BY DEF Firewalls
<1>2. p = IF n = 0 \/ "remark" \in fails THEN [fw |-> f, r |-> 0]
          ELSE IF "del_mangle" \in fails THEN [fw |-> f, r |-> -1]
          ELSE [fw |-> [f EXCEPT !.mangle = RemoveAt(f.mangle, n)], r |-> 0]
  BY DEF DeleteDscpRule, SelectInSeq, Answer
<1>3. I \in SUBSET Nat
  OBVIOUS
<1>4. I # {} => Min(I) \in 1..Len(f.mangle)
  BY <1>3, MinIsLeast
<1>5. n # 0 => RemoveAt(f.mangle, n) \in Seq(DscpRules)
  <2> HIDE DEF I
  <2>1. n # 0 => n \in 1..Len(f.mangle)
    BY <1>4
  <2>2. QED BY <1>1, <2>1, RemoveAtFacts
<1> HIDE DEF n, p
<1>6. CASE n = 0 \/ "remark" \in fails \/ "del_mangle" \in fails
  BY <1>1, <1>2, <1>6 DEF p
<1>7. CASE ~(n = 0 \/ "remark" \in fails \/ "del_mangle" \in fails)
  <2>1. p.fw = [nat |-> f.nat, filter |-> f.filter, desc |-> f.desc,
                peer |-> f.peer, mangle |-> RemoveAt(f.mangle, n)] /\ p.r = 0
    BY <1>1, <1>2, <1>7
  <2>2. QED BY <1>1, <1>5, <1>7, <2>1 DEF p
<1>8. QED BY <1>6, <1>7

(* The firewall g is f without the rule of key *)
RuleDeleted(f, g, key) ==
  /\ ToSet(g.nat) = {e \in ToSet(f.nat) : e.key # key}
  /\ KeysOf(g.nat) = KeysOf(f.nat) \ {key}

(* The nat rule goes, unless the nat table fails; the description goes,     *)
(* whatever happened before, unless the deletion does not even start.       *)
LEMMA DeleteFacts ==
  ASSUME NEW f \in Firewalls, NEW key, NEW fails
  PROVE  LET del == delete_redirect_and_filter_rules(f, key, fails)
         IN /\ del.fw \in Firewalls
            /\ del.r \in {-1, 0, 1}
            /\ "delete" \in fails => del.fw = f /\ del.r = -1
            /\ "delete" \notin fails
                 => /\ del.fw.desc = del_redirect_desc(f.desc, key)
                    /\ del.fw.nat = IF key \in KeysOf(f.nat) /\ Removes(fails)
                                    THEN RemoveAt(f.nat, NatIndex(f, key)) ELSE f.nat
            /\ (fails = {} /\ key \in KeysOf(f.nat)) => del.r = 0
            /\ fails = {}
                 => del.fw.filter = IF key \in KeysOf(f.nat) /\ AcceptOf(f, key) # 0
                                    THEN RemoveAt(f.filter, AcceptOf(f, key)) ELSE f.filter
<1> DEFINE del == delete_redirect_and_filter_rules(f, key, fails)
           n == NatIndex(f, key)
           nat_gone == n # 0 /\ fails \cap {"reopen", "del_nat"} = {}
           nat_ok == n # 0 /\ ("reopen" \in fails \/ "del_nat" \notin fails)
           i == IF nat_ok /\ "reach" \notin fails
                THEN FilterIndex(f, Proto(key), f.nat[n].iaddr, f.nat[n].iport)
                ELSE 0
           r == IF nat_ok /\ ~(i # 0 /\ "del_filter" \in fails) THEN 0 ELSE -1
           peer == DeletePeerRule(f, key, fails)
           flow == f.peer[SelectInSeq(f.peer, LAMBDA p : p.key = key)]
           dscp == IF peer.r = 0 THEN DeleteDscpRule(peer.fw, flow, fails) ELSE peer
           nat == IF nat_gone THEN RemoveAt(f.nat, n) ELSE f.nat
           filter == IF i # 0 /\ "del_filter" \notin fails
                     THEN RemoveAt(f.filter, i) ELSE f.filter
           desc == del_redirect_desc(f.desc, key)
<1>1. del = IF "delete" \in fails THEN [fw |-> f, r |-> -1]
            ELSE [fw |-> [nat |-> nat, filter |-> filter, desc |-> desc,
                          peer |-> dscp.fw.peer, mangle |-> dscp.fw.mangle],
                  r |-> r * dscp.r]
  BY DEF delete_redirect_and_filter_rules, Answer
<1>2. /\ f.nat \in Seq(NatRules) /\ f.desc \in Seq(DescEntries)
      /\ f.filter \in Seq(FilterRules) /\ f.mangle \in Seq(DscpRules)
  BY DEF Firewalls
<1>3. n \in 0..Len(f.nat) /\ (n = 0 <=> key \notin KeysOf(f.nat))
  BY NatIndexFacts
<1>4. nat \in Seq(NatRules)
  <2> HIDE DEF n
  <2>1. n # 0 => n \in 1..Len(f.nat)
    BY <1>3
  <2>2. QED BY <1>2, <2>1, RemoveAtFacts
<1>5. i \in 0..Len(f.filter)
  <2>1. Len(f.filter) \in Nat
    BY <1>2, DomainIsLen
  <2>2. QED BY <2>1, FilterIndexFacts
<1>6. filter \in Seq(FilterRules)
  <2> HIDE DEF i
  <2>1. i # 0 => i \in 1..Len(f.filter)
    BY <1>5
  <2>2. QED BY <1>2, <2>1, RemoveAtFacts
<1>7. desc \in Seq(DescEntries)
  BY <1>2, DelDescFacts
<1>8. /\ peer.fw.peer \in Seq(PeerFlows) /\ peer.fw.mangle \in Seq(DscpRules)
      /\ peer.r \in {0, -1} /\ peer.fw \in Firewalls
  BY <1>2, DeletePeerFacts
<1>9. /\ dscp.fw.peer \in Seq(PeerFlows) /\ dscp.fw.mangle \in Seq(DscpRules)
      /\ dscp.r \in {0, -1}
  <2> HIDE DEF peer, flow
  <2>1. CASE peer.r = 0
    BY <1>8, <2>1, DeleteDscpFacts
  <2>2. CASE peer.r # 0
    BY <1>8, <2>2
  <2>3. QED BY <2>1, <2>2
<1>10. r \in {0, -1} /\ ((fails = {} /\ n # 0) => r = 0)
  OBVIOUS
<1>11. r * dscp.r \in {-1, 0, 1} /\ (r = 0 => r * dscp.r = 0)
  <2> HIDE DEF r, dscp
  <2>1. QED BY <1>9, <1>10
<1>12. fails = {} => filter = IF key \in KeysOf(f.nat) /\ AcceptOf(f, key) # 0
                              THEN RemoveAt(f.filter, AcceptOf(f, key)) ELSE f.filter
  <2> SUFFICES ASSUME fails = {}
               PROVE  filter = IF key \in KeysOf(f.nat) /\ AcceptOf(f, key) # 0
                               THEN RemoveAt(f.filter, AcceptOf(f, key)) ELSE f.filter
    OBVIOUS
  <2>1. i = IF n # 0 THEN AcceptOf(f, key) ELSE 0
    BY DEF AcceptOf, RuleOf
  <2> HIDE DEF i, n
  <2>2. QED BY <1>3, <2>1
<1> HIDE DEF n, i, r, peer, flow, dscp, filter, desc
<1>13. CASE "delete" \in fails
  <2> HIDE DEF del
  <2>1. del.fw = f /\ del.r = -1
    BY <1>1, <1>13
  <2>2. QED BY <1>13, <2>1 DEF del
<1>14. CASE "delete" \notin fails
  <2>1. /\ del.fw = [nat |-> nat, filter |-> filter, desc |-> desc,
                     peer |-> dscp.fw.peer, mangle |-> dscp.fw.mangle]
        /\ del.r = r * dscp.r
    <3> HIDE DEF del
    <3>1. QED BY <1>1, <1>14
  <2>2. del.fw \in Firewalls
    <3> HIDE DEF del, nat
    <3>1. QED BY <1>4, <1>6, <1>7, <1>9, <2>1 DEF Firewalls
  <2>3. /\ del.fw.desc = desc
        /\ del.fw.nat = IF key \in KeysOf(f.nat) /\ Removes(fails)
                        THEN RemoveAt(f.nat, NatIndex(f, key)) ELSE f.nat
    <3> HIDE DEF del
    <3>1. QED BY <1>3, <2>1 DEF n, Removes
  <2>4. (fails = {} /\ key \in KeysOf(f.nat)) => del.r = 0
    BY <1>3, <1>10, <1>11, <2>1
  <2> HIDE DEF del
  <2>5. fails = {} => del.fw.filter = filter
    BY <2>1
  <2>6. QED BY <1>11, <1>14, <1>12, <2>1, <2>2, <2>3, <2>4, <2>5 DEF del, desc
<1>15. QED BY <1>13, <1>14

(* Whatever fails, no other rule is touched *)
LEMMA DeleteOthers ==
  ASSUME NEW f \in Firewalls, NEW key, NEW fails
  PROVE  LET del == delete_redirect_and_filter_rules(f, key, fails)
         IN /\ ToSet(del.fw.nat) \subseteq ToSet(f.nat)
            /\ {e \in ToSet(f.nat) : e.key # key} \subseteq ToSet(del.fw.nat)
            /\ KeysOf(del.fw.nat) \subseteq KeysOf(f.nat)
            /\ KeysOf(f.nat) \ {key} \subseteq KeysOf(del.fw.nat)
<1> DEFINE del == delete_redirect_and_filter_rules(f, key, fails)
           n == NatIndex(f, key)
<1>1. f.nat \in Seq(NatRules)
  BY DEF Firewalls
<1>2. /\ n \in 0..Len(f.nat) /\ (n = 0 <=> key \notin KeysOf(f.nat))
      /\ n # 0 => f.nat[n].key = key
  BY NatIndexFacts
<1>3. n # 0 => /\ ToSet(RemoveAt(f.nat, n)) \subseteq ToSet(f.nat)
               /\ {e \in ToSet(f.nat) : e.key # key} \subseteq ToSet(RemoveAt(f.nat, n))
  <2> HIDE DEF n
  <2>1. n # 0 => n \in 1..Len(f.nat)
    BY <1>2
  <2>2. QED BY <1>1, <1>2, <2>1, RemoveKeyed
<1>4. del.fw.nat = f.nat \/ (n # 0 /\ del.fw.nat = RemoveAt(f.nat, n))
  BY <1>2, DeleteFacts
<1> HIDE DEF del, n
<1>5. /\ ToSet(del.fw.nat) \subseteq ToSet(f.nat)
      /\ {e \in ToSet(f.nat) : e.key # key} \subseteq ToSet(del.fw.nat)
  BY <1>3, <1>4
<1>6. QED BY <1>5, KeysOfSet DEF del

LEMMA DeleteTidy ==
  ASSUME NEW f \in Firewalls, NEW key, NEW fails, UniqueKeys(f.nat)
  PROVE  LET del == delete_redirect_and_filter_rules(f, key, fails)
         IN /\ UniqueKeys(del.fw.nat)
            /\ ToSet(del.fw.nat) \subseteq ToSet(f.nat)
            /\ ("delete" \notin fails /\ Removes(fails)) => RuleDeleted(f, del.fw, key)
            /\ ~("delete" \notin fails /\ Removes(fails)) => del.fw.nat = f.nat
            /\ Tidy(f) => Tidy(del.fw)
<1> DEFINE del == delete_redirect_and_filter_rules(f, key, fails)
           n == NatIndex(f, key)
<1>1. f.nat \in Seq(NatRules) /\ f.desc \in Seq(DescEntries)
  BY DEF Firewalls
<1>2. /\ n \in 0..Len(f.nat) /\ (n = 0 <=> key \notin KeysOf(f.nat))
      /\ n # 0 => f.nat[n].key = key
  BY NatIndexFacts
<1>3. n # 0 => /\ UniqueKeys(RemoveAt(f.nat, n))
               /\ ToSet(RemoveAt(f.nat, n)) = {e \in ToSet(f.nat) : e.key # key}
               /\ KeysOf(RemoveAt(f.nat, n)) = KeysOf(f.nat) \ {key}
  <2> HIDE DEF n
  <2>1. n # 0 => n \in 1..Len(f.nat)
    BY <1>2
  <2>2. QED BY <1>1, <1>2, <2>1, RemoveKeyed
<1>4. key \notin KeysOf(f.nat) => ToSet(f.nat) = {e \in ToSet(f.nat) : e.key # key}
  BY KeysOfSet
<1>5. UniqueKeys(f.desc) => /\ UniqueKeys(del_redirect_desc(f.desc, key))
                            /\ KeysOf(del_redirect_desc(f.desc, key)) = KeysOf(f.desc) \ {key}
  BY <1>1, DelDescFacts
<1>6. /\ "delete" \in fails => del.fw = f
      /\ "delete" \notin fails
            => /\ del.fw.desc = del_redirect_desc(f.desc, key)
               /\ del.fw.nat = IF key \in KeysOf(f.nat) /\ Removes(fails)
                               THEN RemoveAt(f.nat, n) ELSE f.nat
  BY DeleteFacts
<1> HIDE DEF del, n
<1>7. CASE "delete" \in fails
  BY <1>6, <1>7 DEF del
<1>8. CASE "delete" \notin fails /\ ~Removes(fails)
  <2>1. del.fw.nat = f.nat /\ (Tidy(f) => Tidy(del.fw))
    BY <1>5, <1>6, <1>8 DEF Tidy, Described
  <2>2. QED BY <1>8, <2>1 DEF del
<1>9. CASE "delete" \notin fails /\ Removes(fails)
  <2>1. /\ ToSet(del.fw.nat) = {e \in ToSet(f.nat) : e.key # key}
        /\ KeysOf(del.fw.nat) = KeysOf(f.nat) \ {key}
        /\ UniqueKeys(del.fw.nat)
    <3>1. CASE key \in KeysOf(f.nat)
      BY <1>2, <1>3, <1>6, <1>9, <3>1
    <3>2. CASE key \notin KeysOf(f.nat)
      BY <1>4, <1>6, <1>9, <3>2
    <3>3. QED BY <3>1, <3>2
  <2>2. Tidy(f) => Tidy(del.fw)
    BY <1>5, <1>6, <1>9, <2>1 DEF Tidy, Described
  <2>3. QED BY <1>9, <2>1, <2>2 DEF del, RuleDeleted
<1>10. QED BY <1>7, <1>8, <1>9

(* However many rules the port has, and whether or not the one found goes:  *)
(* its description does                                                     *)
LEMMA DeleteDescribed ==
  ASSUME NEW f \in Firewalls, NEW key, NEW fails, Described(f)
  PROVE  LET del == delete_redirect_and_filter_rules(f, key, fails)
         IN /\ Described(del.fw)
            /\ "delete" \notin fails => key \notin KeysOf(del.fw.desc)
<1> DEFINE del == delete_redirect_and_filter_rules(f, key, fails)
<1>1. f.desc \in Seq(DescEntries)
  BY DEF Firewalls
<1>2. /\ UniqueKeys(del_redirect_desc(f.desc, key))
      /\ KeysOf(del_redirect_desc(f.desc, key)) = KeysOf(f.desc) \ {key}
  BY <1>1, DelDescFacts DEF Described
<1>3. /\ "delete" \in fails => del.fw = f
      /\ "delete" \notin fails => del.fw.desc = del_redirect_desc(f.desc, key)
  BY DeleteFacts
<1>4. KeysOf(f.nat) \ {key} \subseteq KeysOf(del.fw.nat)
  BY DeleteOthers
<1> HIDE DEF del
<1>5. Described(del.fw) /\ ("delete" \notin fails => key \notin KeysOf(del.fw.desc))
  BY <1>2, <1>3, <1>4 DEF Described
<1>6. QED BY <1>5 DEF del

-----------------------------------------------------------------------------
(* Updates *)

(* The firewall g has this description for key in place of the one in f *)
DescReplaced(f, g, key, str, timestamp) ==
  /\ UniqueKeys(g.desc)
  /\ KeysOf(g.desc) = KeysOf(f.desc) \cup {key}
  /\ ToSet(g.desc) = {e \in ToSet(f.desc) : e.key # key} \cup {NewDesc(key, str, timestamp)}

LEMMA UpdateDescFacts ==
  ASSUME NEW f \in Firewalls, NEW key \in Keys, NEW str \in Descriptions, NEW timestamp \in Nat
  PROVE  LET u == update_portmapping_desc_timestamp(f, key, str, timestamp)
         IN /\ u.fw \in Firewalls
            /\ u.r = 0
            /\ u.fw.nat = f.nat /\ u.fw.filter = f.filter
            /\ UniqueKeys(f.desc) => DescReplaced(f, u.fw, key, str, timestamp)
<1> DEFINE u == update_portmapping_desc_timestamp(f, key, str, timestamp)
           e == NewDesc(key, str, timestamp)
           rest == del_redirect_desc(f.desc, key)
<1>1. /\ f = [nat |-> f.nat, filter |-> f.filter, desc |-> f.desc, peer |-> f.peer,
                mangle |-> f.mangle]
      /\ f.nat \in Seq(NatRules) /\ f.desc \in Seq(DescEntries)
      /\ f.filter \in Seq(FilterRules) /\ f.peer \in Seq(PeerFlows)
      /\ f.mangle \in Seq(DscpRules)
  BY DEF Firewalls
<1>2. /\ rest \in Seq(DescEntries)
      /\ UniqueKeys(f.desc) => /\ UniqueKeys(rest)
                               /\ KeysOf(rest) = KeysOf(f.desc) \ {key}
                               /\ ToSet(rest) = {d \in ToSet(f.desc) : d.key # key}
  BY <1>1, DelDescFacts
<1>3. u.fw = [nat |-> f.nat, filter |-> f.filter, desc |-> Cons(e, rest), peer |-> f.peer,
              mangle |-> f.mangle] /\ u.r = 0
  BY <1>1 DEF update_portmapping_desc_timestamp, Answer, add_redirect_desc, NewDesc
<1>4. e \in DescEntries /\ e.key = key
  BY DEF DescEntries, NewDesc
<1> HIDE DEF rest, e
<1>5. /\ Cons(e, rest) \in Seq(DescEntries)
      /\ ToSet(Cons(e, rest)) = ToSet(rest) \cup {e}
      /\ KeysOf(Cons(e, rest)) = KeysOf(rest) \cup {key}
      /\ (UniqueKeys(rest) /\ key \notin KeysOf(rest)) => UniqueKeys(Cons(e, rest))
  BY <1>2, <1>4, ConsKeyed
<1> HIDE DEF u
<1>6. u.fw \in Firewalls
  BY <1>1, <1>3, <1>5 DEF Firewalls
<1>7. UniqueKeys(f.desc)
        => /\ UniqueKeys(u.fw.desc)
           /\ KeysOf(u.fw.desc) = KeysOf(f.desc) \cup {key}
           /\ ToSet(u.fw.desc) = {d \in ToSet(f.desc) : d.key # key} \cup {e}
  BY <1>2, <1>3, <1>5
<1>8. UniqueKeys(f.desc) => DescReplaced(f, u.fw, key, str, timestamp)
  BY <1>7 DEF DescReplaced, e
<1>9. QED BY <1>3, <1>6, <1>8 DEF u

(* Rule n of a chain gets another internal port *)
MovedTo(s, n, iport) == [s EXCEPT ![n].iport = iport]

LEMMA MovedFacts ==
  ASSUME NEW s \in Seq(NatRules), NEW n \in 1..Len(s), NEW iport \in Iports
  PROVE  LET t == MovedTo(s, n, iport)
         IN /\ t \in Seq(NatRules)
            /\ DOMAIN t = DOMAIN s
            /\ \A i \in 1..Len(s) : i # n => t[i] = s[i]
            /\ /\ t[n].key = s[n].key /\ t[n].iaddr = s[n].iaddr /\ t[n].iport = iport
               /\ t[n].rhost = s[n].rhost /\ t[n].pcnt = s[n].pcnt
            /\ KeysOf(t) = KeysOf(s)
            /\ UniqueKeys(s) => UniqueKeys(t)
<1> DEFINE t == MovedTo(s, n, iport)
           e == [s[n] EXCEPT !.iport = iport]
<1>1. DOMAIN s = 1..Len(s) /\ \A i \in 1..Len(s) : s[i] \in NatRules
  BY DomainIsLen
<1>2. t = [s EXCEPT ![n] = e]
  BY <1>1 DEF MovedTo
<1>3. /\ e \in NatRules /\ e.key = s[n].key /\ e.iaddr = s[n].iaddr /\ e.iport = iport
      /\ e.rhost = s[n].rhost /\ e.pcnt = s[n].pcnt
  BY <1>1 DEF NatRules
<1> HIDE DEF e
<1>4. /\ t \in Seq(NatRules) /\ Len(t) = Len(s)
      /\ \A i \in 1..Len(s) : t[i] = IF i = n THEN e ELSE s[i]
  BY <1>2, <1>3, ExceptSeq
<1> HIDE DEF t
<1>5. DOMAIN t = 1..Len(s)
  BY <1>4, DomainIsLen
<1>6. \A i \in 1..Len(s) : t[i].key = s[i].key
  BY <1>3, <1>4
<1>7. KeysOf(t) = KeysOf(s)
  BY <1>1, <1>5, <1>6 DEF KeysOf
<1>8. UniqueKeys(s) => UniqueKeys(t)
  BY <1>1, <1>5, <1>6 DEF UniqueKeys
<1>9. QED BY <1>1, <1>3, <1>4, <1>5, <1>7, <1>8 DEF t

(* u is what update_portmapping() leaves and returns *)
Updated(f, u, key, iport, str, timestamp, fails) ==
  /\ u.fw \in Firewalls
  /\ u.r \in {0, -1}
  /\ KeysOf(u.fw.nat) = KeysOf(f.nat)
  /\ UniqueKeys(f.nat) => UniqueKeys(u.fw.nat)
  /\ u.fw.nat = f.nat \/ (/\ key \in KeysOf(f.nat)
                          /\ u.fw.nat = MovedTo(f.nat, NatIndex(f, key), iport))
  /\ u.r = 0 => /\ key \in KeysOf(f.nat)
                /\ u.fw.nat = MovedTo(f.nat, NatIndex(f, key), iport)
                /\ u.fw.filter = MovedTo(f.filter, AcceptOf(f, key), iport)
                /\ UniqueKeys(f.desc) => DescReplaced(f, u.fw, key, str, timestamp)
  /\ u.r = -1 => u.fw.desc = f.desc
  /\ (fails = {} /\ key \in KeysOf(f.nat) /\ AcceptOf(f, key) # 0) => u.r = 0

(* The internal port of the rule of key is changed, or nothing is; every   *)
(* other rule stays.                                                        *)
LEMMA UpdateFacts ==
  ASSUME NEW f \in Firewalls, NEW key \in Keys, NEW iport \in Iports,
         NEW str \in Descriptions, NEW timestamp \in Nat, NEW fails
  PROVE  Updated(f, update_portmapping(f, key, iport, str, timestamp, fails),
                 key, iport, str, timestamp, fails)
<1> DEFINE u == update_portmapping(f, key, iport, str, timestamp, fails)
           n == NatIndex(f, key)
           i == IF "open" \in fails THEN 0
                ELSE FilterIndex(f, Proto(key), f.nat[n].iaddr, f.nat[n].iport)
           nat == MovedTo(f.nat, n, iport)
           filter == [f.filter EXCEPT ![i].iport = iport]
           moved == [nat |-> nat, filter |-> f.filter, desc |-> f.desc, peer |-> f.peer,
                     mangle |-> f.mangle]
           both == [nat |-> nat, filter |-> filter, desc |-> f.desc, peer |-> f.peer,
                    mangle |-> f.mangle]
           last == update_portmapping_desc_timestamp(both, key, str, timestamp)
<1>1. /\ f = [nat |-> f.nat, filter |-> f.filter, desc |-> f.desc, peer |-> f.peer,
                mangle |-> f.mangle]
      /\ f.nat \in Seq(NatRules) /\ f.desc \in Seq(DescEntries)
      /\ f.filter \in Seq(FilterRules) /\ f.peer \in Seq(PeerFlows)
      /\ f.mangle \in Seq(DscpRules)
  BY DEF Firewalls
<1>2. [f EXCEPT !.nat[n].iport = iport] = moved
  <2>1. [f EXCEPT !.nat[n].iport = iport] = [f EXCEPT !.nat = nat]
    BY DEF MovedTo
  <2> HIDE DEF nat
  <2>2. QED BY <1>1, <2>1
<1>3. [moved EXCEPT !.filter[i].iport = iport] = both
  <2>1. [moved EXCEPT !.filter[i].iport = iport] = [moved EXCEPT !.filter = filter]
    <3> HIDE DEF nat, i
    <3>1. moved.filter = f.filter
      OBVIOUS
    <3> HIDE DEF moved
    <3>2. QED BY <3>1
  <2> HIDE DEF nat, filter
  <2>2. QED BY <1>1, <2>1
<1>4. u = IF n = 0 \/ "nat" \in fails THEN [fw |-> f, r |-> -1]
          ELSE IF i = 0 \/ "filter" \in fails THEN [fw |-> moved, r |-> -1]
          ELSE last
  <2> HIDE DEF n, i, moved, both
  <2>1. u = IF n = 0 \/ "nat" \in fails THEN [fw |-> f, r |-> -1]
            ELSE IF i = 0 \/ "filter" \in fails
            THEN [fw |-> [f EXCEPT !.nat[n].iport = iport], r |-> -1]
            ELSE update_portmapping_desc_timestamp(
                   [[f EXCEPT !.nat[n].iport = iport] EXCEPT !.filter[i].iport = iport],
                   key, str, timestamp)
    BY DEF update_portmapping, Answer, n, i
  <2>2. QED BY <1>2, <1>3, <2>1
<1>5. n \in 0..Len(f.nat) /\ (n = 0 <=> key \notin KeysOf(f.nat))
  BY NatIndexFacts
<1>6. i \in 0..Len(f.filter)
  <2>1. Len(f.filter) \in Nat
    BY <1>1, DomainIsLen
  <2>2. QED BY <2>1, FilterIndexFacts
<1>7. /\ i # 0 => i = AcceptOf(f, key)
      /\ "open" \notin fails => i = AcceptOf(f, key)
  BY DEF AcceptOf, RuleOf
<1> HIDE DEF n, i
<1>8. n # 0 => /\ nat \in Seq(NatRules) /\ KeysOf(nat) = KeysOf(f.nat)
               /\ UniqueKeys(f.nat) => UniqueKeys(nat)
  <2>1. n # 0 => n \in 1..Len(f.nat)
    BY <1>5
  <2>2. QED BY <1>1, <2>1, MovedFacts
<1>9. i # 0 => filter \in Seq(FilterRules)
  <2> SUFFICES ASSUME i # 0 PROVE filter \in Seq(FilterRules)
    OBVIOUS
  <2> DEFINE e == [f.filter[i] EXCEPT !.iport = iport]
  <2>1. i \in 1..Len(f.filter)
    BY <1>6
  <2>2. DOMAIN f.filter = 1..Len(f.filter) /\ f.filter[i] \in FilterRules
    BY <1>1, <2>1, DomainIsLen
  <2>3. e \in FilterRules
    BY <2>2 DEF FilterRules
  <2>4. filter = [f.filter EXCEPT ![i] = e]
    BY <2>1, <2>2
  <2> HIDE DEF e
  <2>5. QED BY <1>1, <2>1, <2>3, <2>4, ExceptSeq
<1>10. filter = MovedTo(f.filter, i, iport)
  BY DEF MovedTo
<1> HIDE DEF nat, filter
<1>11. n # 0 => moved \in Firewalls
  BY <1>1, <1>8 DEF Firewalls
<1>12. (n # 0 /\ i # 0) => both \in Firewalls
  BY <1>1, <1>8, <1>9 DEF Firewalls
<1>13. (n # 0 /\ i # 0)
         => /\ last.fw \in Firewalls /\ last.r = 0
            /\ last.fw.nat = nat /\ last.fw.filter = filter
            /\ UniqueKeys(f.desc) => DescReplaced(f, last.fw, key, str, timestamp)
  <2>1. both.nat = nat /\ both.desc = f.desc /\ both.filter = filter
    OBVIOUS
  <2> HIDE DEF both
  <2>2. (n # 0 /\ i # 0)
          => /\ last.fw \in Firewalls /\ last.r = 0 /\ last.fw.nat = both.nat
             /\ last.fw.filter = both.filter
             /\ UniqueKeys(both.desc) => DescReplaced(both, last.fw, key, str, timestamp)
    BY <1>12, UpdateDescFacts
  <2> HIDE DEF last
  <2>3. QED BY <2>1, <2>2 DEF DescReplaced
<1> HIDE DEF last
<1>14. CASE n = 0 \/ "nat" \in fails
  <2>1. u.fw = f /\ u.r = -1
    BY <1>4, <1>14
  <2>2. QED BY <1>5, <1>14, <2>1 DEF Updated, n
<1>15. CASE ~(n = 0 \/ "nat" \in fails) /\ (i = 0 \/ "filter" \in fails)
  <2>1. u.fw = moved /\ u.r = -1 /\ n # 0
    BY <1>4, <1>15
  <2>2. moved.nat = nat /\ moved.desc = f.desc
    OBVIOUS
  <2> HIDE DEF u, moved
  <2>3. QED BY <1>5, <1>8, <1>11, <1>15, <1>7, <2>1, <2>2 DEF Updated, u, nat, n
<1>16. CASE ~(n = 0 \/ "nat" \in fails) /\ ~(i = 0 \/ "filter" \in fails)
  <2>1. u = last /\ n # 0 /\ i # 0
    BY <1>4, <1>16
  <2> HIDE DEF u
  <2>2. QED BY <1>5, <1>8, <1>13, <1>7, <1>10, <2>1 DEF Updated, u, nat, n
<1>17. QED BY <1>14, <1>15, <1>16

-----------------------------------------------------------------------------
(* The port mappings: state, steps and theorems *)

Lines == [map : Mappings, timestamp : Nat]

Daemons == [fw : Firewalls, lease : Seq(Lines), next : Nat, announced : Nat]

Entry == [key : Keys, pcnt : Nat]

LineKeys(file) == {file[i].map.key : i \in DOMAIN file}

-----------------------------------------------------------------------------
(* The lease file *)

LEMMA LineKeysOfSet ==
  ASSUME NEW file
  PROVE  LineKeys(file) = {l.map.key : l \in ToSet(file)}
<1>1. ASSUME NEW k \in LineKeys(file) PROVE k \in {l.map.key : l \in ToSet(file)}
  BY DEF LineKeys, ToSet
<1>2. ASSUME NEW l \in ToSet(file) PROVE l.map.key \in LineKeys(file)
  BY DEF LineKeys, ToSet
<1>3. QED BY <1>1, <1>2

LEMMA ToUnixType ==
  ASSUME NEW timestamp \in Nat
  PROVE  ToUnix(timestamp) \in Nat
BY RedirectAssumption DEF ToUnix

LEMMA TimestampType ==
  ASSUME now \in Nat, NEW leaseduration \in Nat
  PROVE  Timestamp(leaseduration) \in Nat
BY RedirectAssumption DEF Timestamp

LEMMA LeaseAddFacts ==
  ASSUME NEW file \in Seq(Lines), NEW m \in Mappings, NEW timestamp \in Nat, NEW fails
  PROVE  /\ lease_file_add(file, m, timestamp, fails) \in Seq(Lines)
         /\ "lease" \notin fails
              => ToSet(lease_file_add(file, m, timestamp, fails))
                   = ToSet(file) \cup {[map |-> m, timestamp |-> ToUnix(timestamp)]}
         /\ LineKeys(lease_file_add(file, m, timestamp, fails)) \subseteq LineKeys(file) \cup {m.key}
<1> DEFINE l == [map |-> m, timestamp |-> ToUnix(timestamp)]
           added == lease_file_add(file, m, timestamp, fails)
<1>1. l \in Lines /\ l.map = m
  BY ToUnixType DEF Lines
<1>2. added = IF "lease" \in fails THEN file ELSE Append(file, l)
  BY DEF lease_file_add
<1> HIDE DEF l
<1>3. Append(file, l) \in Seq(Lines) /\ ToSet(Append(file, l)) = ToSet(file) \cup {l}
  BY <1>1, AppendKeyed
<1> HIDE DEF added
<1>4. added \in Seq(Lines) /\ ("lease" \notin fails => ToSet(added) = ToSet(file) \cup {l})
  BY <1>2, <1>3
<1>5. ToSet(added) \subseteq ToSet(file) \cup {l}
  BY <1>2, <1>3
<1>6. LineKeys(added) \subseteq LineKeys(file) \cup {m.key}
  BY <1>1, <1>5, LineKeysOfSet
<1>7. QED BY <1>4, <1>6 DEF added, l

LEMMA SublistSet ==
  ASSUME NEW S, NEW list \in Seq(S), NEW kept
  PROVE  /\ Sublist(list, kept) \in Seq(S)
         /\ ToSet(Sublist(list, kept)) = ToSet(list) \cap kept
<1> DEFINE sub == Sublist(list, kept)
<1>1. /\ sub \in Seq(S)
      /\ \E h \in [1..Len(sub) -> 1..Len(list)] :
           \A j \in 1..Len(sub) : sub[j] = list[h[j]] /\ list[h[j]] \in kept
      /\ \A i \in 1..Len(list) : list[i] \in kept
           => \E j \in 1..Len(sub) : sub[j] = list[i]
  BY SublistFacts
<1> HIDE DEF sub
<1>2. DOMAIN sub = 1..Len(sub) /\ DOMAIN list = 1..Len(list)
  BY <1>1, DomainIsLen
<1>3. ASSUME NEW e \in ToSet(sub) PROVE e \in ToSet(list) /\ e \in kept
  BY <1>1, <1>2 DEF ToSet
<1>4. ASSUME NEW e \in ToSet(list), e \in kept PROVE e \in ToSet(sub)
  BY <1>1, <1>2, <1>4, SMTT(30) DEF ToSet
<1>5. QED BY <1>1, <1>3, <1>4 DEF sub

LEMMA LeaseRemoveFacts ==
  ASSUME NEW file \in Seq(Lines), NEW key, NEW fails
  PROVE  /\ lease_file_remove(file, key, fails) \in Seq(Lines)
         /\ ToSet(lease_file_remove(file, key, fails)) \subseteq ToSet(file)
         /\ "lease" \notin fails
              => /\ ToSet(lease_file_remove(file, key, fails))
                      = {l \in ToSet(file) : l.map.key # key}
                 /\ LineKeys(lease_file_remove(file, key, fails)) = LineKeys(file) \ {key}
<1> DEFINE kept == {l \in ToSet(file) : l.map.key # key}
           rest == lease_file_remove(file, key, fails)
<1>1. rest = IF "lease" \in fails THEN file ELSE Sublist(file, kept)
  BY DEF lease_file_remove
<1>2. Sublist(file, kept) \in Seq(Lines) /\ ToSet(Sublist(file, kept)) = ToSet(file) \cap kept
  <2> HIDE DEF kept
  <2>1. QED BY SublistSet
<1>3. ToSet(file) \cap kept = kept
  OBVIOUS
<1> HIDE DEF rest
<1>4. rest \in Seq(Lines) /\ ToSet(rest) \subseteq ToSet(file)
  BY <1>1, <1>2
<1>5. "lease" \notin fails => ToSet(rest) = kept
  BY <1>1, <1>2, <1>3
<1>6. "lease" \notin fails => LineKeys(rest) = LineKeys(file) \ {key}
  BY <1>5, LineKeysOfSet
<1>7. QED BY <1>4, <1>5, <1>6 DEF rest

-----------------------------------------------------------------------------
(* upnpredirect.c *)

(* A new mapping: nothing happens, or the rule is there *)
LEMMA InternalFacts ==
  ASSUME NEW d \in Daemons, NEW m \in Mappings, NEW timestamp \in Nat, NEW fails
  PROVE  LET res == upnp_redirect_internal(d, m, timestamp, fails)
         IN /\ res.d \in Daemons
            /\ res.r \in {0, -1}
            /\ \/ res.d = d /\ res.r = -1 /\ (disabled \/ "nat" \in fails)
               \/ /\ ~disabled /\ "nat" \notin fails
                  /\ RuleAdded(d.fw, res.d.fw, m, timestamp)
                  /\ LineKeys(res.d.lease) \subseteq LineKeys(d.lease) \cup {m.key}
                  /\ res.d.lease = lease_file_add(d.lease, m, timestamp, fails)
                  /\ (fails = {} => res.r = 0)
<1> DEFINE res == upnp_redirect_internal(d, m, timestamp, fails)
           rdr == add_redirect_rule2(d.fw, m, timestamp, fails)
           acc == add_filter_rule2(rdr.fw, m, fails)
           file == lease_file_add(d.lease, m, timestamp, fails)
           half == [fw |-> rdr.fw, lease |-> file, next |-> d.next, announced |-> d.announced]
           later == IF timestamp > 0 /\ (d.next = 0 \/ timestamp < d.next)
                    THEN timestamp ELSE d.next
           whole == [fw |-> acc.fw, lease |-> file, next |-> later,
                     announced |-> Len(acc.fw.nat)]
<1>1. /\ d.fw \in Firewalls /\ d.lease \in Seq(Lines) /\ d.next \in Nat /\ d.announced \in Nat
  BY DEF Daemons
<1>2. res = IF disabled \/ rdr.r < 0 THEN [d |-> d, r |-> -1]
            ELSE IF acc.r < 0 THEN [d |-> half, r |-> -1] ELSE [d |-> whole, r |-> 0]
  BY DEF upnp_redirect_internal, Result
<1>3. /\ rdr.fw \in Firewalls /\ rdr.r \in {0, -1} /\ ("nat" \notin fails <=> rdr.r = 0)
      /\ rdr.r = 0 => RuleAdded(d.fw, rdr.fw, m, timestamp)
  BY <1>1, AddRdrFacts
<1> HIDE DEF rdr
<1>4. /\ acc.fw \in Firewalls /\ acc.r \in {0, -1}
      /\ {"filter", "open"} \cap fails = {} <=> acc.r = 0
      /\ acc.fw.nat = rdr.fw.nat /\ acc.fw.desc = rdr.fw.desc
  BY <1>3, AddFilterFacts
<1>5. file \in Seq(Lines) /\ LineKeys(file) \subseteq LineKeys(d.lease) \cup {m.key}
  BY <1>1, LeaseAddFacts
<1> HIDE DEF acc, file
<1>6. later \in Nat
  BY <1>1
<1>7. Len(acc.fw.nat) \in Nat
  <2>1. acc.fw.nat \in Seq(NatRules)
    BY <1>4 DEF Firewalls
  <2>2. QED BY <2>1, DomainIsLen
<1> HIDE DEF later
<1>8. half \in Daemons /\ whole \in Daemons
  BY <1>1, <1>3, <1>4, <1>5, <1>6, <1>7 DEF Daemons
<1>9. RuleAdded(d.fw, rdr.fw, m, timestamp) => RuleAdded(d.fw, acc.fw, m, timestamp)
  BY <1>4 DEF RuleAdded, Tidy, Described
<1>10. CASE disabled \/ rdr.r < 0
  <2>1. res.d = d /\ res.r = -1
    BY <1>2, <1>10
  <2>2. disabled \/ "nat" \in fails
    BY <1>3, <1>10
  <2> HIDE DEF res
  <2>3. QED BY <2>1, <2>2 DEF res
<1>11. CASE ~(disabled \/ rdr.r < 0) /\ acc.r < 0
  <2>1. res.d = half /\ res.r = -1
    BY <1>2, <1>11
  <2>2. rdr.r = 0 /\ fails # {} /\ ~disabled
    BY <1>3, <1>4, <1>11
  <2>3. half.fw = rdr.fw /\ half.lease = file
    OBVIOUS
  <2> HIDE DEF res, half
  <2>4. QED BY <1>3, <1>5, <1>8, <2>1, <2>2, <2>3 DEF res, file
<1>12. CASE ~(disabled \/ rdr.r < 0) /\ ~(acc.r < 0)
  <2>1. res.d = whole /\ res.r = 0
    BY <1>2, <1>12
  <2>2. rdr.r = 0 /\ ~disabled
    BY <1>3, <1>12
  <2>3. whole.fw = acc.fw /\ whole.lease = file
    OBVIOUS
  <2> HIDE DEF res, whole
  <2>4. QED BY <1>3, <1>4, <1>5, <1>8, <1>9, <2>1, <2>2, <2>3 DEF res, file
<1>13. QED BY <1>10, <1>11, <1>12

(* The rule r forwards what the mapping m asks for *)
Serves(r, m) ==
  r.key = m.key /\ r.iaddr = m.iaddr /\ r.iport = m.iport /\ r.rhost = m.rhost

(* The rules of g are those of f, except that m may be served *)
RulesFrom(f, g, m) ==
  /\ \A r \in ToSet(g.nat) : r \in ToSet(f.nat) \/ Serves(r, m)
  /\ \A r \in ToSet(f.nat) : r.key # m.key => r \in ToSet(g.nat)

LEMMA RuleOfFacts ==
  ASSUME NEW f \in Firewalls, NEW key, key \in KeysOf(f.nat)
  PROVE  /\ RuleOf(f, key) \in ToSet(f.nat) /\ RuleOf(f, key).key = key
         /\ UniqueKeys(f.nat) => \A r \in ToSet(f.nat) : r.key = key => r = RuleOf(f, key)
<1> DEFINE n == NatIndex(f, key)
<1>1. f.nat \in Seq(NatRules)
  BY DEF Firewalls
<1>2. DOMAIN f.nat = 1..Len(f.nat)
  BY <1>1, DomainIsLen
<1>3. n \in 0..Len(f.nat) /\ n # 0 /\ f.nat[n].key = key
  BY NatIndexFacts
<1>4. RuleOf(f, key) = f.nat[n]
  BY DEF RuleOf
<1> HIDE DEF n
<1>5. n \in DOMAIN f.nat
  BY <1>2, <1>3
<1>6. QED BY <1>3, <1>4, <1>5 DEF ToSet, UniqueKeys

(* Moving the rule of a mapping to another internal port of the client *)
LEMMA MovedServes ==
  ASSUME NEW f \in Firewalls, NEW m \in Mappings, m.key \in KeysOf(f.nat),
         RuleOf(f, m.key).iaddr = m.iaddr, RuleOf(f, m.key).rhost = m.rhost,
         NEW g, g.nat = MovedTo(f.nat, NatIndex(f, m.key), m.iport)
  PROVE  /\ RulesFrom(f, g, m)
         /\ UniqueKeys(f.nat) => \A r \in ToSet(g.nat) : r.key = m.key => Serves(r, m)
<1> DEFINE n == NatIndex(f, m.key)
<1>1. f.nat \in Seq(NatRules) /\ m.iport \in Iports
  BY DEF Firewalls, Mappings
<1>2. n \in 0..Len(f.nat) /\ n # 0 /\ f.nat[n].key = m.key
  BY NatIndexFacts
<1>3. f.nat[n].iaddr = m.iaddr /\ f.nat[n].rhost = m.rhost
  BY DEF RuleOf
<1> HIDE DEF n
<1>4. n \in 1..Len(f.nat)
  BY <1>2
<1>5. /\ DOMAIN g.nat = DOMAIN f.nat
      /\ \A i \in 1..Len(f.nat) : i # n => g.nat[i] = f.nat[i]
      /\ g.nat[n].key = f.nat[n].key /\ g.nat[n].iaddr = f.nat[n].iaddr
      /\ g.nat[n].iport = m.iport /\ g.nat[n].rhost = f.nat[n].rhost
      /\ UniqueKeys(f.nat) => UniqueKeys(g.nat)
  BY <1>1, <1>4, MovedFacts DEF n
<1>6. DOMAIN f.nat = 1..Len(f.nat)
  BY <1>1, DomainIsLen
<1>7. Serves(g.nat[n], m)
  BY <1>2, <1>3, <1>5 DEF Serves
<1>8. ASSUME NEW r \in ToSet(g.nat) PROVE r \in ToSet(f.nat) \/ Serves(r, m)
  <2>1. PICK i \in 1..Len(f.nat) : r = g.nat[i]
    BY <1>5, <1>6 DEF ToSet
  <2>2. QED BY <1>5, <1>6, <1>7, <2>1 DEF ToSet
<1>9. ASSUME NEW r \in ToSet(f.nat), r.key # m.key PROVE r \in ToSet(g.nat)
  <2>1. PICK i \in 1..Len(f.nat) : r = f.nat[i]
    BY <1>6 DEF ToSet
  <2>2. i # n
    BY <1>2, <1>9, <2>1
  <2>3. QED BY <1>5, <1>6, <2>1, <2>2 DEF ToSet
<1>10. ASSUME UniqueKeys(f.nat), NEW r \in ToSet(g.nat), r.key = m.key PROVE Serves(r, m)
  <2>1. PICK i \in DOMAIN g.nat : r = g.nat[i]
    BY DEF ToSet
  <2>2. i = n
    BY <1>2, <1>4, <1>5, <1>6, <1>10, <2>1 DEF UniqueKeys
  <2>3. QED BY <1>7, <2>1, <2>2
<1>11. QED BY <1>8, <1>9, <1>10 DEF RulesFrom

(* The client's own mapping is overwritten *)
LEMMA UpdateExistingFacts ==
  ASSUME NEW d \in Daemons, NEW m \in Mappings, NEW timestamp \in Nat, NEW fails,
         m.key \in KeysOf(d.fw.nat),
         RuleOf(d.fw, m.key).iaddr = m.iaddr, RuleOf(d.fw, m.key).rhost = m.rhost
  PROVE  LET res == UpdateExisting(d, m, timestamp, fails)
         IN /\ res.d \in Daemons
            /\ res.r \in {0, -1}
            /\ KeysOf(res.d.fw.nat) = KeysOf(d.fw.nat)
            /\ RulesFrom(d.fw, res.d.fw, m)
            /\ Tidy(d.fw) => Tidy(res.d.fw)
            /\ Described(d.fw) => Described(res.d.fw)
            /\ LineKeys(res.d.lease) \subseteq LineKeys(d.lease) \cup {m.key}
            /\ (res.r = 0 /\ Tidy(d.fw))
                 => /\ \A r \in ToSet(res.d.fw.nat) : r.key = m.key => Serves(r, m)
                    /\ DescReplaced(d.fw, res.d.fw, m.key, m.str, timestamp)
                    /\ res.d.lease = lease_file_add(lease_file_remove(d.lease, m.key, fails),
                                                    m, timestamp, fails)
<1> DEFINE res == UpdateExisting(d, m, timestamp, fails)
           port == update_portmapping(d.fw, m.key, m.iport, m.str, timestamp, fails)
           desc == update_portmapping_desc_timestamp(d.fw, m.key, m.str, timestamp)
           u == IF m.iport # RuleOf(d.fw, m.key).iport THEN port ELSE desc
           removed == lease_file_remove(d.lease, m.key, fails)
           file == IF u.r = 0 THEN lease_file_add(removed, m, timestamp, fails) ELSE d.lease
<1>1. /\ d.fw \in Firewalls /\ d.lease \in Seq(Lines) /\ d.next \in Nat /\ d.announced \in Nat
  BY DEF Daemons
<1>2. m.key \in Keys /\ m.iport \in Iports /\ m.str \in Descriptions
  BY DEF Mappings, Descriptions
<1>3. /\ res.d = [fw |-> u.fw, next |-> d.next, announced |-> d.announced, lease |-> file]
      /\ res.r = u.r
  BY DEF UpdateExisting, Result
<1>4. /\ u.fw \in Firewalls /\ u.r \in {0, -1}
      /\ KeysOf(u.fw.nat) = KeysOf(d.fw.nat)
      /\ RulesFrom(d.fw, u.fw, m)
      /\ Tidy(d.fw) => Tidy(u.fw)
      /\ Described(d.fw) => Described(u.fw)
      /\ (u.r = 0 /\ Tidy(d.fw))
            => /\ \A r \in ToSet(u.fw.nat) : r.key = m.key => Serves(r, m)
               /\ DescReplaced(d.fw, u.fw, m.key, m.str, timestamp)
  <2>1. CASE m.iport # RuleOf(d.fw, m.key).iport
    <3>1. u = port
      BY <2>1
    <3>0. Updated(d.fw, port, m.key, m.iport, m.str, timestamp, fails)
      <4>1. d.fw \in Firewalls /\ m.key \in Keys /\ m.iport \in Iports /\ m.str \in Descriptions
            /\ timestamp \in Nat
        BY <1>1, <1>2
      <4>2. QED BY ONLY <4>1, UpdateFacts
    <3>2. /\ port.fw \in Firewalls /\ port.r \in {0, -1}
          /\ KeysOf(port.fw.nat) = KeysOf(d.fw.nat)
          /\ UniqueKeys(d.fw.nat) => UniqueKeys(port.fw.nat)
          /\ \/ port.fw.nat = d.fw.nat
             \/ port.fw.nat = MovedTo(d.fw.nat, NatIndex(d.fw, m.key), m.iport)
          /\ port.r = 0 => /\ port.fw.nat = MovedTo(d.fw.nat, NatIndex(d.fw, m.key), m.iport)
                           /\ UniqueKeys(d.fw.desc)
                                => DescReplaced(d.fw, port.fw, m.key, m.str, timestamp)
          /\ port.r = -1 => port.fw.desc = d.fw.desc
      BY <3>0 DEF Updated
    <3> HIDE DEF u, port
    <3>3. port.fw.nat = d.fw.nat => RulesFrom(d.fw, port.fw, m)
      BY DEF RulesFrom
    <3>4. port.fw.nat = MovedTo(d.fw.nat, NatIndex(d.fw, m.key), m.iport)
            => /\ RulesFrom(d.fw, port.fw, m)
               /\ UniqueKeys(d.fw.nat)
                    => \A r \in ToSet(port.fw.nat) : r.key = m.key => Serves(r, m)
      BY <1>1, MovedServes
    <3>5. Described(d.fw) => Described(port.fw)
      BY <3>2 DEF Described, DescReplaced
    <3>6. Tidy(d.fw) => Tidy(port.fw)
      BY <3>2, <3>5 DEF Tidy
    <3>7. QED BY <3>1, <3>2, <3>3, <3>4, <3>5, <3>6 DEF Tidy, Described
  <2>2. CASE m.iport = RuleOf(d.fw, m.key).iport
    <3>1. u = desc
      BY <2>2
    <3>2. /\ desc.fw \in Firewalls /\ desc.r = 0 /\ desc.fw.nat = d.fw.nat
          /\ UniqueKeys(d.fw.desc) => DescReplaced(d.fw, desc.fw, m.key, m.str, timestamp)
      BY <1>1, <1>2, UpdateDescFacts
    <3>3. UniqueKeys(d.fw.nat)
            => \A r \in ToSet(d.fw.nat) : r.key = m.key => Serves(r, m)
      <4>1. UniqueKeys(d.fw.nat)
              => \A r \in ToSet(d.fw.nat) : r.key = m.key => r = RuleOf(d.fw, m.key)
        BY <1>1, RuleOfFacts
      <4>2. QED BY <2>2, <4>1 DEF Serves
    <3> HIDE DEF u, desc
    <3>4. RulesFrom(d.fw, desc.fw, m)
      BY <3>2 DEF RulesFrom
    <3>5. Described(d.fw) => Described(desc.fw)
      BY <3>2 DEF Described, DescReplaced
    <3>6. Tidy(d.fw) => Tidy(desc.fw)
      BY <3>2, <3>5 DEF Tidy
    <3>7. QED BY <3>1, <3>2, <3>3, <3>4, <3>5, <3>6 DEF Tidy, Described
  <2>3. QED BY <2>1, <2>2
<1> HIDE DEF u
<1>5. file \in Seq(Lines) /\ LineKeys(file) \subseteq LineKeys(d.lease) \cup {m.key}
  <2>1. removed \in Seq(Lines) /\ ToSet(removed) \subseteq ToSet(d.lease)
    BY <1>1, LeaseRemoveFacts
  <2> HIDE DEF removed
  <2>2. LineKeys(removed) \subseteq LineKeys(d.lease)
    BY <2>1, LineKeysOfSet
  <2>3. /\ lease_file_add(removed, m, timestamp, fails) \in Seq(Lines)
        /\ LineKeys(lease_file_add(removed, m, timestamp, fails)) \subseteq LineKeys(removed) \cup {m.key}
    BY <2>1, LeaseAddFacts
  <2>4. QED BY <1>1, <2>2, <2>3
<1>6. u.r = 0 => file = lease_file_add(removed, m, timestamp, fails)
  OBVIOUS
<1> HIDE DEF file, res
<1>7. res.d \in Daemons
  BY <1>1, <1>3, <1>4, <1>5 DEF Daemons
<1>8. res.d.fw = u.fw /\ res.d.lease = file
  BY <1>3
<1>9. QED BY <1>3, <1>4, <1>5, <1>6, <1>7, <1>8 DEF res

(* How e, the daemon after a request for m, relates to d, the daemon before *)
Redirected(d, e, m) ==
  /\ RulesFrom(d.fw, e.fw, m)
  /\ KeysOf(d.fw.nat) \subseteq KeysOf(e.fw.nat)
  /\ KeysOf(e.fw.nat) \subseteq KeysOf(d.fw.nat) \cup {m.key}
  /\ LineKeys(e.lease) \subseteq LineKeys(d.lease) \cup (KeysOf(e.fw.nat) \cap {m.key})

LEMMA InternalRedirected ==
  ASSUME NEW d \in Daemons, NEW m \in Mappings, NEW timestamp \in Nat, NEW fails
  PROVE  Redirected(d, upnp_redirect_internal(d, m, timestamp, fails).d, m)
<1> DEFINE res == upnp_redirect_internal(d, m, timestamp, fails)
<1>1. \/ res.d = d
      \/ /\ RuleAdded(d.fw, res.d.fw, m, timestamp)
         /\ LineKeys(res.d.lease) \subseteq LineKeys(d.lease) \cup {m.key}
  BY InternalFacts
<1>2. Serves(NewRule(m), m)
  BY DEF Serves, NewRule
<1> HIDE DEF res
<1>3. CASE res.d = d
  BY <1>3 DEF Redirected, RulesFrom, res
<1>4. CASE /\ RuleAdded(d.fw, res.d.fw, m, timestamp)
           /\ LineKeys(res.d.lease) \subseteq LineKeys(d.lease) \cup {m.key}
  <2>1. RulesFrom(d.fw, res.d.fw, m)
    BY <1>2, <1>4 DEF RulesFrom, RuleAdded
  <2>2. QED BY <1>4, <2>1 DEF Redirected, RuleAdded, res
<1>5. QED BY <1>1, <1>3, <1>4

LEMMA RedirectFacts ==
  ASSUME NEW d \in Daemons, NEW m \in Mappings, NEW leaseduration \in Nat, NEW fails,
         now \in Nat
  PROVE  LET res == upnp_redirect(d, m, leaseduration, fails)
         IN /\ res.d \in Daemons
            /\ res.r \in {0, -1, -2, -3, -4}
            /\ Redirected(d, res.d, m)
            /\ ("lookup" \notin fails /\ Tidy(d.fw)) => Tidy(res.d.fw)
            /\ ("lookup" \notin fails /\ Described(d.fw)) => Described(res.d.fw)
            /\ res.r = -2 => res.d = d /\ m.key \in KeysOf(d.fw.nat)
            /\ Permitted(m) \/ res.d = d
            /\ (fails = {} /\ m.key \in KeysOf(res.d.fw.nat))
                 => m.key \in KeysOf(d.fw.nat) \/ res.r = 0
<1> DEFINE res == upnp_redirect(d, m, leaseduration, fails)
           old == RuleOf(d.fw, m.key)
           upd == UpdateExisting(d, m, Timestamp(leaseduration), fails)
           new == upnp_redirect_internal(d, m, Timestamp(leaseduration), fails)
<1>1. Timestamp(leaseduration) \in Nat
  BY TimestampType
<1>2. res = IF ~Permitted(m) THEN [d |-> d, r |-> -3]
            ELSE IF get_redirect_rule(d.fw, m.key, fails) = 0
            THEN IF old.iaddr = m.iaddr /\ old.rhost = m.rhost THEN upd ELSE [d |-> d, r |-> -2]
            ELSE IF m.key \in InUse THEN [d |-> d, r |-> -4]
            ELSE new
  BY DEF upnp_redirect, Result
<1>3. d.fw \in Firewalls
  BY DEF Daemons
<1>4. /\ get_redirect_rule(d.fw, m.key, fails) = 0 => m.key \in KeysOf(d.fw.nat)
      /\ (get_redirect_rule(d.fw, m.key, fails) # 0 /\ "lookup" \notin fails)
           => m.key \notin KeysOf(d.fw.nat)
  BY <1>3, NatIndexFacts DEF get_redirect_rule
<1>5. Redirected(d, d, m)
  BY DEF Redirected, RulesFrom
<1> HIDE DEF res
<1>6. CASE res = [d |-> d, r |-> -3] \/ res = [d |-> d, r |-> -4]
  <2>1. res.d = d /\ res.r \in {-3, -4}
    BY <1>6
  <2>2. QED BY <1>5, <2>1 DEF res
<1>7. CASE res = [d |-> d, r |-> -2] /\ get_redirect_rule(d.fw, m.key, fails) = 0
  <2>1. res.d = d /\ res.r = -2
    BY <1>7
  <2>2. QED BY <1>4, <1>5, <1>7, <2>1 DEF res
<1>8. CASE /\ res = upd /\ Permitted(m) /\ get_redirect_rule(d.fw, m.key, fails) = 0
           /\ old.iaddr = m.iaddr /\ old.rhost = m.rhost
  <2>1. m.key \in KeysOf(d.fw.nat)
    BY <1>4, <1>8
  <2>2. /\ upd.d \in Daemons /\ upd.r \in {0, -1}
        /\ KeysOf(upd.d.fw.nat) = KeysOf(d.fw.nat)
        /\ RulesFrom(d.fw, upd.d.fw, m)
        /\ Tidy(d.fw) => Tidy(upd.d.fw)
        /\ Described(d.fw) => Described(upd.d.fw)
        /\ LineKeys(upd.d.lease) \subseteq LineKeys(d.lease) \cup {m.key}
    BY <1>1, <1>8, <2>1, UpdateExistingFacts
  <2> HIDE DEF upd, old
  <2>3. Redirected(d, upd.d, m)
    BY <2>1, <2>2 DEF Redirected
  <2>4. QED BY <1>8, <2>1, <2>2, <2>3 DEF res
<1>9. CASE res = new /\ Permitted(m) /\ get_redirect_rule(d.fw, m.key, fails) # 0
  <2>1. /\ new.d \in Daemons /\ new.r \in {0, -1}
        /\ \/ new.d = d
           \/ RuleAdded(d.fw, new.d.fw, m, Timestamp(leaseduration)) /\ (fails = {} => new.r = 0)
    BY <1>1, InternalFacts
  <2>2. Redirected(d, new.d, m)
    BY <1>1, InternalRedirected
  <2> HIDE DEF new
  <2>3. ("lookup" \notin fails /\ Tidy(d.fw)) => Tidy(new.d.fw)
    BY <1>4, <1>9, <2>1 DEF RuleAdded
  <2>6. ("lookup" \notin fails /\ Described(d.fw)) => Described(new.d.fw)
    BY <1>4, <1>9, <2>1 DEF RuleAdded, Described
  <2>4. (fails = {} /\ m.key \in KeysOf(new.d.fw.nat)) => m.key \in KeysOf(d.fw.nat) \/ new.r = 0
    BY <2>1
  <2>5. QED BY <1>9, <2>1, <2>2, <2>3, <2>4, <2>6 DEF res
<1> HIDE DEF old, upd, new
<1>10. QED BY <1>2, <1>6, <1>7, <1>8, <1>9

(* Deletion: the line of the lease file goes as well *)
LEMMA DeleteRedirFacts ==
  ASSUME NEW d \in Daemons, NEW key, NEW fails
  PROVE  LET res == _upnp_delete_redir(d, key, fails)
         IN /\ res.d \in Daemons
            /\ res.r \in {-1, 0, 1}
            /\ ToSet(res.d.fw.nat) \subseteq ToSet(d.fw.nat)
            /\ KeysOf(res.d.fw.nat) \subseteq KeysOf(d.fw.nat)
            /\ KeysOf(d.fw.nat) \ {key} \subseteq KeysOf(res.d.fw.nat)
            /\ "lease" \notin fails => LineKeys(res.d.lease) = LineKeys(d.lease) \ {key}
            /\ Tidy(d.fw) => Tidy(res.d.fw)
            /\ (Tidy(d.fw) /\ "delete" \notin fails /\ Removes(fails))
                 => RuleDeleted(d.fw, res.d.fw, key)
            /\ Described(d.fw) => /\ Described(res.d.fw)
                                  /\ "delete" \notin fails => key \notin KeysOf(res.d.fw.desc)
            /\ "delete" \in fails => res.r = -1
            /\ (fails = {} /\ key \in KeysOf(d.fw.nat)) => res.r = 0
<1> DEFINE res == _upnp_delete_redir(d, key, fails)
           del == delete_redirect_and_filter_rules(d.fw, key, fails)
           file == lease_file_remove(d.lease, key, fails)
<1>1. d.fw \in Firewalls /\ d.lease \in Seq(Lines) /\ d.next \in Nat
  BY DEF Daemons
<1>2. /\ res.d = [fw |-> del.fw, lease |-> file, next |-> d.next, announced |-> Len(del.fw.nat)]
      /\ res.r = del.r
  BY DEF _upnp_delete_redir, Result
<1>3. /\ del.fw \in Firewalls /\ del.r \in {-1, 0, 1}
      /\ "delete" \in fails => del.r = -1
      /\ (fails = {} /\ key \in KeysOf(d.fw.nat)) => del.r = 0
  BY <1>1, DeleteFacts
<1>4. /\ ToSet(del.fw.nat) \subseteq ToSet(d.fw.nat)
      /\ KeysOf(del.fw.nat) \subseteq KeysOf(d.fw.nat)
      /\ KeysOf(d.fw.nat) \ {key} \subseteq KeysOf(del.fw.nat)
  BY <1>1, DeleteOthers
<1>5. UniqueKeys(d.fw.nat)
        => /\ Tidy(d.fw) => Tidy(del.fw)
           /\ ("delete" \notin fails /\ Removes(fails)) => RuleDeleted(d.fw, del.fw, key)
  BY <1>1, DeleteTidy
<1>11. Described(d.fw) => /\ Described(del.fw)
                          /\ "delete" \notin fails => key \notin KeysOf(del.fw.desc)
  BY <1>1, DeleteDescribed
<1>6. file \in Seq(Lines) /\ ("lease" \notin fails => LineKeys(file) = LineKeys(d.lease) \ {key})
  BY <1>1, LeaseRemoveFacts
<1> HIDE DEF del, file, res
<1>7. Len(del.fw.nat) \in Nat
  <2>1. del.fw.nat \in Seq(NatRules)
    BY <1>3 DEF Firewalls
  <2>2. QED BY <2>1, DomainIsLen
<1>8. res.d \in Daemons /\ res.d.fw = del.fw /\ res.d.lease = file
  BY <1>1, <1>2, <1>3, <1>6, <1>7 DEF Daemons
<1>9. Tidy(d.fw) => UniqueKeys(d.fw.nat)
  BY DEF Tidy
<1>10. QED BY <1>2, <1>3, <1>4, <1>5, <1>6, <1>8, <1>9, <1>11 DEF res

-----------------------------------------------------------------------------
(* Type correctness *)

Grants == [iaddr : Clients, iport : Iports, until : Nat] \cup {NULL}

DaemonOK ==
  /\ fw \in Firewalls
  /\ lease \in Seq(Lines)
  /\ next \in Nat
  /\ announced \in Nat

RestOK ==
  /\ reload \in Seq(Lines)
  /\ rule_list \in Seq(Entry)
  /\ todo \in [why : {"idle", "expired", "unused", "range", "natpmp"}, entries : Seq(Entry)]
  /\ disabled \in BOOLEAN
  /\ now \in Nat
  /\ granted \in [Keys -> Grants]
  /\ used \subseteq Keys
  /\ faulty \in Nat

LEMMA TypeParts == TypeOK <=> DaemonOK /\ RestOK
BY DEF TypeOK, DaemonOK, RestOK, Firewalls, NatRules, FilterRules, DescEntries, Descriptions,
       PeerFlows, DscpRules, Lines, Entry, Grants

LEMMA TypePartsNext == TypeOK' <=> DaemonOK' /\ RestOK'
BY DEF TypeOK, DaemonOK, RestOK, Firewalls, NatRules, FilterRules, DescEntries, Descriptions,
       PeerFlows, DscpRules, Lines, Entry, Grants

LEMMA DaemonType ==
  ASSUME DaemonOK
  PROVE  /\ Daemon \in Daemons
         /\ Daemon.fw = fw /\ Daemon.lease = lease /\ Daemon.next = next
         /\ Daemon.announced = announced
BY DEF Daemon, Daemons, DaemonOK

LEMMA BecomesType ==
  ASSUME NEW d \in Daemons, Becomes(d)
  PROVE  DaemonOK'
BY DEF Becomes, DaemonOK, Daemons

LEMMA RepliedType ==
  ASSUME RestOK, NEW res, NEW m \in Mappings, NEW t \in Nat, Replied(res, m, t), res.d \in Daemons
  PROVE  DaemonOK' /\ granted' \in [Keys -> Grants]
<1>1. Becomes(res.d) /\ DaemonOK'
  BY BecomesType DEF Replied
<1>2. Granted(m, t) \in Grants /\ m.key \in Keys
  BY DEF Granted, Grants, RestOK, Mappings
<1>3. granted' = [granted EXCEPT ![m.key] = Granted(m, t)] \/ granted' = granted
  BY DEF Replied
<1>4. QED BY <1>1, <1>2, <1>3 DEF RestOK

(* Requests are mappings *)
LEMMA RequestFacts ==
  ASSUME NEW m \in Requests
  PROVE  m \in Mappings /\ \A e \in 1..MaxPort : [m EXCEPT !.key = <<Proto(m.key), e>>] \in Requests
<1>1. m \in Mappings
  BY DEF Requests, Mappings
<1>2. ASSUME NEW e \in 1..MaxPort PROVE [m EXCEPT !.key = <<Proto(m.key), e>>] \in Requests
  <2>1. m.key \in Protos \X (1..MaxPort)
    BY DEF Requests, Keys
  <2>2. <<Proto(m.key), e>> \in Keys
    BY <2>1 DEF Keys, Proto
  <2>3. QED BY <2>2 DEF Requests
<1>3. QED BY <1>1, <1>2

(* AddAnyPortMapping does what AddPortMapping does, for the port it finds *)
LEMMA AnyIsAdd ==
  ASSUME NEW m \in Requests, NEW t, NEW fails, AddAnyPortMapping(m, t, fails)
  PROVE  \E n \in Requests : AddPortMapping(n, AnyLease(t), fails)
<1> DEFINE asked(e) == [m EXCEPT !.key = <<Proto(m.key), e>>]
           try(e) == upnp_redirect(Daemon, asked(e), AnyLease(t), fails)
           stops == {e \in 1..MaxPort : /\ e = Eport(m.key) \/ e \in allowed_eports[m.iaddr, m.iport]
                                        /\ try(e).r \in {0, -1}}
           rank(e) == SearchRank(Eport(m.key), e)
           Best(e) == e \in stops /\ \A o \in stops : rank(e) <= rank(o)
           e1 == CHOOSE e : Best(e)
<1>1. /\ EnableUpnp /\ Serving /\ stops # {}
      /\ Replied(try(CHOOSE e \in stops : \A o \in stops : rank(e) <= rank(o)),
                 asked(CHOOSE e \in stops : \A o \in stops : rank(e) <= rank(o)), AnyLease(t))
      /\ UNCHANGED <<rule_list, todo, reload, disabled, now, used>>
  BY DEF AddAnyPortMapping
<1>2. stops \subseteq 1..MaxPort
  OBVIOUS
<1>3. Eport(m.key) \in 1..MaxPort
  <2>1. m.key \in Protos \X (1..MaxPort)
    BY DEF Requests, Keys
  <2>2. QED BY <2>1 DEF Eport
<1> HIDE DEF try, stops
<1>4. \A e \in stops : rank(e) \in Nat
  BY <1>2, <1>3, RedirectAssumption DEF SearchRank
<1>5. \E e : Best(e)
  <2> DEFINE I == {rank(e) : e \in stops}
  <2> HIDE DEF rank
  <2>1. I \in SUBSET Nat /\ I # {}
    BY <1>1, <1>4
  <2>2. PICK x \in I : \A y \in I : x <= y
    BY <2>1, LeastElement
  <2>3. QED BY <2>2
<1>6. e1 = CHOOSE e \in stops : \A o \in stops : rank(e) <= rank(o)
  OBVIOUS
<1>7. Best(e1)
  <2> HIDE DEF Best
  <2>1. QED BY <1>5
<1>8. e1 \in 1..MaxPort
  BY <1>2, <1>7
<1> HIDE DEF e1
<1>9. Replied(try(e1), asked(e1), AnyLease(t))
  <2> HIDE DEF asked
  <2>1. QED BY <1>1, <1>6
<1>10. asked(e1) \in Requests
  BY <1>8, RequestFacts
<1>11. AddPortMapping(asked(e1), AnyLease(t), fails)
  BY <1>1, <1>9 DEF AddPortMapping, try
<1>12. QED BY <1>10, <1>11

-----------------------------------------------------------------------------
(* What the three requests for a mapping have in common *)

(* NAT-PMP asks with one description and stores another *)
NatpmpPermits(m) ==
  EnableNatpmp /\ m.str = NatpmpDesc /\ Permitted([m EXCEPT !.str = NatpmpName])

Passed(m) == Permitted(m) \/ NatpmpPermits(m)

Answered(res, m, fails) ==
  /\ res.d \in Daemons
  /\ \A r \in ToSet(res.d.fw.nat) : r \in ToSet(fw.nat) \/ (Passed(m) /\ Serves(r, m))
  /\ ("lookup" \notin fails /\ (EnableNatpmp => Removes(fails)) /\ Tidy(fw)) => Tidy(res.d.fw)
  /\ ("lookup" \notin fails /\ Described(fw)) => Described(res.d.fw)
  /\ ("lease" \notin fails /\ LineKeys(lease) \subseteq KeysOf(fw.nat))
       => LineKeys(res.d.lease) \subseteq KeysOf(res.d.fw.nat)
  /\ fails = {} => KeysOf(res.d.fw.nat)
                     \subseteq KeysOf(fw.nat) \cup (IF res.r = 0 THEN {m.key} ELSE {})

LEMMA RedirectAnswered ==
  ASSUME DaemonOK, now \in Nat, NEW m \in Mappings, NEW t \in Nat, NEW fails
  PROVE  Answered(upnp_redirect(Daemon, m, t, fails), m, fails)
<1> DEFINE res == upnp_redirect(Daemon, m, t, fails)
<1>1. Daemon \in Daemons /\ Daemon.fw = fw /\ Daemon.lease = lease
  BY DaemonType
<1>2. /\ res.d \in Daemons
      /\ Redirected(Daemon, res.d, m)
      /\ ("lookup" \notin fails /\ Tidy(Daemon.fw)) => Tidy(res.d.fw)
      /\ ("lookup" \notin fails /\ Described(Daemon.fw)) => Described(res.d.fw)
      /\ Permitted(m) \/ res.d = Daemon
      /\ (fails = {} /\ m.key \in KeysOf(res.d.fw.nat))
           => m.key \in KeysOf(Daemon.fw.nat) \/ res.r = 0
  BY <1>1, RedirectFacts
<1> HIDE DEF res
<1>3. \A r \in ToSet(res.d.fw.nat) : r \in ToSet(fw.nat) \/ (Passed(m) /\ Serves(r, m))
  BY <1>1, <1>2 DEF Redirected, RulesFrom, Passed
<1>4. LineKeys(lease) \subseteq KeysOf(fw.nat) => LineKeys(res.d.lease) \subseteq KeysOf(res.d.fw.nat)
  BY <1>1, <1>2 DEF Redirected
<1>5. fails = {} => KeysOf(res.d.fw.nat)
                      \subseteq KeysOf(fw.nat) \cup (IF res.r = 0 THEN {m.key} ELSE {})
  BY <1>1, <1>2 DEF Redirected
<1>6. QED BY <1>1, <1>2, <1>3, <1>4, <1>5 DEF Answered, res

(* The outcomes of a NAT-PMP request *)
NatpmpOutcome(res, m, timestamp, fails) ==
  LET del == _upnp_delete_redir(Daemon, m.key, fails)
  IN \/ /\ get_redirect_rule(fw, m.key, fails) # 0
        /\ res = upnp_redirect_internal(Daemon, m, timestamp, fails)
     \/ /\ get_redirect_rule(fw, m.key, fails) = 0
        /\ \/ res = Result(Daemon, -1)
           \/ del.r < 0 /\ res = Result(del.d, 0)
           \/ ~(del.r < 0) /\ res = upnp_redirect_internal(del.d, m, timestamp, fails)

LEMMA NatpmpAnswered ==
  ASSUME DaemonOK, NEW m \in Mappings, NEW timestamp \in Nat, NEW fails, NatpmpPermits(m),
         NEW res, NatpmpOutcome(res, m, timestamp, fails)
  PROVE  Answered(res, m, fails)
<1> DEFINE del == _upnp_delete_redir(Daemon, m.key, fails)
           new == upnp_redirect_internal(Daemon, m, timestamp, fails)
           again == upnp_redirect_internal(del.d, m, timestamp, fails)
<1>1. Daemon \in Daemons /\ Daemon.fw = fw /\ Daemon.lease = lease /\ fw \in Firewalls
  BY DaemonType DEF DaemonOK
<1>2. /\ del.d \in Daemons
      /\ ToSet(del.d.fw.nat) \subseteq ToSet(fw.nat)
      /\ KeysOf(del.d.fw.nat) \subseteq KeysOf(fw.nat)
      /\ KeysOf(fw.nat) \ {m.key} \subseteq KeysOf(del.d.fw.nat)
      /\ "lease" \notin fails => LineKeys(del.d.lease) = LineKeys(lease) \ {m.key}
      /\ Tidy(fw) => Tidy(del.d.fw)
      /\ (Tidy(fw) /\ "delete" \notin fails /\ Removes(fails)) => RuleDeleted(fw, del.d.fw, m.key)
      /\ Described(fw) => /\ Described(del.d.fw)
                          /\ "delete" \notin fails => m.key \notin KeysOf(del.d.fw.desc)
      /\ "delete" \in fails => del.r = -1
  <2>1. PICK d : d = Daemon
    OBVIOUS
  <2>2. PICK e : e = _upnp_delete_redir(d, m.key, fails)
    OBVIOUS
  <2>3. /\ e.d \in Daemons
        /\ ToSet(e.d.fw.nat) \subseteq ToSet(d.fw.nat)
        /\ KeysOf(e.d.fw.nat) \subseteq KeysOf(d.fw.nat)
        /\ KeysOf(d.fw.nat) \ {m.key} \subseteq KeysOf(e.d.fw.nat)
        /\ "lease" \notin fails => LineKeys(e.d.lease) = LineKeys(d.lease) \ {m.key}
        /\ Tidy(d.fw) => Tidy(e.d.fw)
        /\ (Tidy(d.fw) /\ "delete" \notin fails /\ Removes(fails)) => RuleDeleted(d.fw, e.d.fw, m.key)
        /\ Described(d.fw) => /\ Described(e.d.fw)
                              /\ "delete" \notin fails => m.key \notin KeysOf(e.d.fw.desc)
        /\ "delete" \in fails => e.r = -1
    BY <1>1, <2>1, <2>2, DeleteRedirFacts
  <2>4. QED BY <1>1, <2>1, <2>2, <2>3
<1>0. EnableNatpmp /\ Passed(m)
  BY DEF NatpmpPermits, Passed
<1>3. CASE /\ get_redirect_rule(fw, m.key, fails) # 0
           /\ res = new
  <2>1. "lookup" \notin fails => m.key \notin KeysOf(fw.nat)
    BY <1>1, <1>3, NatIndexFacts DEF get_redirect_rule
  <2>2. /\ new.d \in Daemons
        /\ \/ new.d = Daemon
           \/ RuleAdded(fw, new.d.fw, m, timestamp) /\ (fails = {} => new.r = 0)
    BY <1>1, InternalFacts
  <2>3. Redirected(Daemon, new.d, m)
    BY <1>1, InternalRedirected
  <2> HIDE DEF new
  <2>4. \A r \in ToSet(new.d.fw.nat) : r \in ToSet(fw.nat) \/ Serves(r, m)
    BY <1>1, <2>3 DEF Redirected, RulesFrom
  <2>5. ("lookup" \notin fails /\ Tidy(fw)) => Tidy(new.d.fw)
    BY <1>1, <2>1, <2>2 DEF RuleAdded
  <2>9. ("lookup" \notin fails /\ Described(fw)) => Described(new.d.fw)
    BY <1>1, <2>1, <2>2 DEF RuleAdded, Described
  <2>6. LineKeys(lease) \subseteq KeysOf(fw.nat) => LineKeys(new.d.lease) \subseteq KeysOf(new.d.fw.nat)
    BY <1>1, <2>3 DEF Redirected
  <2>7. fails = {} => KeysOf(new.d.fw.nat)
                        \subseteq KeysOf(fw.nat) \cup (IF new.r = 0 THEN {m.key} ELSE {})
    BY <1>1, <2>2 DEF RuleAdded
  <2>8. QED BY <1>0, <1>3, <2>2, <2>4, <2>5, <2>6, <2>7, <2>9 DEF Answered
<1>4. CASE res = Result(Daemon, -1)
  <2>1. res.d = Daemon
    BY <1>4 DEF Result
  <2>2. QED BY <1>0, <1>1, <2>1 DEF Answered
<1>5. CASE res = Result(del.d, 0)
  <2>1. res.d = del.d /\ res.r = 0
    BY <1>5 DEF Result
  <2> HIDE DEF del
  <2>2. QED BY <1>0, <1>2, <2>1 DEF Answered
<1>6. CASE ~(del.r < 0) /\ res = again
  <2>1. /\ again.d \in Daemons
        /\ \/ again.d = del.d
           \/ /\ "nat" \notin fails /\ RuleAdded(del.d.fw, again.d.fw, m, timestamp)
              /\ (fails = {} => again.r = 0)
    BY <1>2, InternalFacts
  <2>2. Redirected(del.d, again.d, m)
    BY <1>2, InternalRedirected
  <2> HIDE DEF again, del
  <2>3. \A r \in ToSet(again.d.fw.nat) : r \in ToSet(fw.nat) \/ Serves(r, m)
    BY <1>2, <2>2 DEF Redirected, RulesFrom
  <2>8. "delete" \notin fails
    BY <1>2, <1>6
  <2>4. (Removes(fails) /\ Tidy(fw)) => Tidy(again.d.fw)
    <3>1. (Tidy(fw) /\ Removes(fails)) => m.key \notin KeysOf(del.d.fw.nat)
      BY <1>2, <2>8 DEF RuleDeleted
    <3>2. QED BY <1>2, <2>1, <3>1 DEF RuleAdded
  <2>9. Described(fw) => Described(again.d.fw)
    BY <1>2, <2>1, <2>8 DEF RuleAdded
  <2>5. ("lease" \notin fails /\ LineKeys(lease) \subseteq KeysOf(fw.nat))
          => LineKeys(again.d.lease) \subseteq KeysOf(again.d.fw.nat)
    BY <1>2, <2>2 DEF Redirected
  <2>6. fails = {} => KeysOf(again.d.fw.nat)
                        \subseteq KeysOf(fw.nat) \cup (IF again.r = 0 THEN {m.key} ELSE {})
    BY <1>2, <2>1 DEF RuleAdded
  <2>7. QED BY <1>0, <1>6, <2>1, <2>3, <2>4, <2>5, <2>6, <2>9 DEF Answered
<1>7. QED BY <1>3, <1>4, <1>5, <1>6 DEF NatpmpOutcome

(* The port found is usable, and the outcome is one of those above *)
LEMMA NatpmpMapFacts ==
  ASSUME NEW client \in Clients, NEW proto \in Protos, NEW iport \in Iports,
         NEW suggested \in 1..MaxPort, NEW t \in Nat, NEW fails,
         NatpmpMap(client, proto, iport, suggested, t, fails)
  PROVE  \E m \in Mappings : \E res :
           /\ NatpmpPermits(m) /\ m.key \notin InUse
           /\ NatpmpOutcome(res, m, Timestamp(t), fails)
           /\ Replied(res, m, t)
<1> DEFINE m(e) == [key |-> <<proto, e>>, iaddr |-> client, iport |-> iport,
                    rhost |-> AnyHost, str |-> NatpmpDesc]
           taken(e) == get_redirect_rule(fw, <<proto, e>>, fails) = 0
           mine(e) == /\ RuleOf(fw, <<proto, e>>).iaddr = client
                      /\ RuleOf(fw, <<proto, e>>).iport = iport
           ok(e) == /\ Permitted([m(e) EXCEPT !.str = NatpmpName]) /\ <<proto, e>> \notin InUse
                    /\ taken(e) => mine(e)
           usable == {n \in 0..(MaxPort - 1) : ok(PortAfter(suggested, n))}
           replace(del, e) ==
             IF del.r < 0 THEN Result(del.d, 0)
             ELSE upnp_redirect_internal(del.d, m(e), Timestamp(t), fails)
           map(e) ==
             IF ~taken(e)
             THEN upnp_redirect_internal(Daemon, m(e), Timestamp(t), fails)
             ELSE IF get_redirect_desc(fw, <<proto, e>>).str \in PcpDescs
             THEN Result(Daemon, -1)
             ELSE replace(_upnp_delete_redir(Daemon, <<proto, e>>, fails), e)
           Best(n) == n \in usable /\ \A o \in usable : n <= o
           n1 == CHOOSE n : Best(n)
           e1 == PortAfter(suggested, n1)
<1>1. /\ EnableNatpmp /\ usable # {}
      /\ \E e \in {PortAfter(suggested, CHOOSE n \in usable : \A o \in usable : n <= o)} :
           Replied(map(e), m(e), t)
  BY DEF NatpmpMap
<1>2. usable \in SUBSET Nat
  BY RedirectAssumption
<1>3. \E n : Best(n)
  <2> HIDE DEF usable
  <2>1. QED BY <1>1, <1>2, LeastElement
<1>4. Best(n1)
  <2> HIDE DEF Best
  <2>1. QED BY <1>3
<1>5. n1 = CHOOSE n \in usable : \A o \in usable : n <= o
  OBVIOUS
<1> HIDE DEF n1, map
<1>6. Replied(map(e1), m(e1), t)
  <2> HIDE DEF usable, m
  <2>1. QED BY <1>1, <1>5
<1>7. ok(e1) /\ n1 \in 0..(MaxPort - 1)
  <2> HIDE DEF ok
  <2>1. QED BY <1>4
<1>8. e1 \in 1..MaxPort
  BY <1>7, RedirectAssumption DEF PortAfter
<1> HIDE DEF e1
<1>9. m(e1) \in Mappings /\ m(e1).key = <<proto, e1>>
  <2>1. <<proto, e1>> \in Keys
    BY <1>8 DEF Keys
  <2>2. QED BY <2>1, RedirectAssumption DEF Mappings
<1>10. NatpmpOutcome(map(e1), m(e1), Timestamp(t), fails)
  <2> HIDE DEF m
  <2>1. CASE ~taken(e1)
    BY <1>9, <2>1 DEF NatpmpOutcome, map
  <2>2. CASE taken(e1)
    BY <1>9, <2>2 DEF NatpmpOutcome, map
  <2>3. QED BY <2>1, <2>2
<1>11. NatpmpPermits(m(e1)) /\ m(e1).key \notin InUse
  BY <1>1, <1>7, <1>9 DEF NatpmpPermits
<1> HIDE DEF m
<1>12. QED BY <1>6, <1>9, <1>10, <1>11

(* What a request for m, for t seconds, may come to *)
RedirectOutcome(res, m, t, fails) ==
  /\ now + t <= MaxLease
  /\ \/ res = upnp_redirect(Daemon, m, t, fails)
     \/ NatpmpPermits(m) /\ m.key \notin InUse /\ NatpmpOutcome(res, m, Timestamp(t), fails)

(* Every request for a mapping, over SOAP or NAT-PMP, is such a step *)
RequestStep(fails) ==
  /\ Serving
  /\ \E m \in Mappings, t \in Nat : \E res :
       RedirectOutcome(res, m, t, fails) /\ Answered(res, m, fails) /\ Replied(res, m, t)
  /\ UNCHANGED <<rule_list, todo, reload, disabled, now, used>>

LEMMA AddIsRequest ==
  ASSUME TypeOK, NEW m \in Requests, NEW t \in Nat, now + t <= MaxLease, NEW fails,
         AddPortMapping(m, t, fails)
  PROVE  RequestStep(fails)
<1>1. DaemonOK /\ now \in Nat
  BY TypeParts DEF RestOK
<1>2. m \in Mappings
  BY RequestFacts
<1>3. Answered(upnp_redirect(Daemon, m, t, fails), m, fails)
  BY <1>1, <1>2, RedirectAnswered
<1>4. Replied(upnp_redirect(Daemon, m, t, fails), m, t)
  BY DEF AddPortMapping
<1>5. RedirectOutcome(upnp_redirect(Daemon, m, t, fails), m, t, fails)
  BY DEF RedirectOutcome
<1>6. QED BY <1>2, <1>3, <1>4, <1>5 DEF RequestStep, AddPortMapping

LEMMA AddAnyIsRequest ==
  ASSUME TypeOK, NEW m \in Requests, NEW t \in Nat, now + AnyLease(t) <= MaxLease, NEW fails,
         AddAnyPortMapping(m, t, fails)
  PROVE  RequestStep(fails)
<1>1. AnyLease(t) \in Nat
  BY RedirectAssumption DEF AnyLease
<1>2. QED BY <1>1, AnyIsAdd, AddIsRequest

LEMMA NatpmpMapIsRequest ==
  ASSUME TypeOK, NEW c \in Clients, NEW p \in Protos, NEW i \in Iports,
         NEW e \in 1..MaxPort, NEW t \in Leases, NEW fails, NatpmpMap(c, p, i, e, t, fails)
  PROVE  RequestStep(fails)
<1>1. DaemonOK /\ now \in Nat
  BY TypeParts DEF RestOK
<1>2. t \in Nat
  BY RedirectAssumption DEF Leases
<1>3. PICK m \in Mappings : \E res :
        /\ NatpmpPermits(m) /\ m.key \notin InUse
        /\ NatpmpOutcome(res, m, Timestamp(t), fails)
        /\ Replied(res, m, t)
  BY <1>2, NatpmpMapFacts
<1>4. PICK res : /\ NatpmpPermits(m) /\ m.key \notin InUse
                 /\ NatpmpOutcome(res, m, Timestamp(t), fails)
                 /\ Replied(res, m, t)
  BY <1>3
<1>5. Timestamp(t) \in Nat
  BY <1>1, <1>2, TimestampType
<1>6. Answered(res, m, fails)
  BY <1>1, <1>4, <1>5, NatpmpAnswered
<1>7. Serving /\ UNCHANGED <<rule_list, todo, reload, disabled, now, used>>
  BY Zenon DEF NatpmpMap
<1>8. RedirectOutcome(res, m, t, fails)
  BY <1>4 DEF RedirectOutcome, Leases
<1>9. QED BY <1>2, <1>4, <1>6, <1>7, <1>8 DEF RequestStep

-----------------------------------------------------------------------------
(* The lists of rules to delete *)

LEMMA EntriesType ==
  ASSUME NEW nat \in Seq(NatRules)
  PROVE  Entries(nat) \in Seq(Entry)
<1>1. DOMAIN nat = 1..Len(nat) /\ Len(nat) \in Nat /\ \A i \in 1..Len(nat) : nat[i] \in NatRules
  BY DomainIsLen
<1>2. \A i \in 1..Len(nat) : [key |-> nat[i].key, pcnt |-> nat[i].pcnt] \in Entry
  BY <1>1 DEF Entry, NatRules
<1>3. Entries(nat) = [i \in 1..Len(nat) |-> [key |-> nat[i].key, pcnt |-> nat[i].pcnt]]
  BY <1>1 DEF Entries
<1> DEFINE e(i) == [key |-> nat[i].key, pcnt |-> nat[i].pcnt]
<1> HIDE DEF e
<1>4. Entries(nat) \in [1..Len(nat) -> Entry]
  BY <1>2, <1>3
<1>5. QED BY <1>1, <1>4, SeqDef

LEMMA EntriesOfType ==
  ASSUME NEW entries \in Seq(Entry), NEW keys
  PROVE  /\ EntriesOf(entries, keys) \in Seq(Entry)
         /\ ToSet(EntriesOf(entries, keys)) = {e \in ToSet(entries) : e.key \in keys}
<1> DEFINE kept == {e \in ToSet(entries) : e.key \in keys}
<1>1. ToSet(entries) \cap kept = kept
  OBVIOUS
<1> HIDE DEF kept
<1>2. Sublist(entries, kept) \in Seq(Entry) /\ ToSet(Sublist(entries, kept)) = ToSet(entries) \cap kept
  BY SublistSet
<1>3. QED BY <1>1, <1>2 DEF EntriesOf, kept

LEMMA RulesStateType ==
  ASSUME fw \in Firewalls, NEW fails
  PROVE  RulesState(fails) \in Seq(Entry)
<1>1. fw.nat \in Seq(NatRules)
  BY DEF Firewalls
<1>2. Entries(fw.nat) \in Seq(Entry)
  BY <1>1, EntriesType
<1> DEFINE es == Entries(fw.nat)
<1> HIDE DEF es
<1>3. Reverse(es) \in Seq(Entry)
  <2>1. es \in Seq(Entry) /\ Len(es) \in Nat /\ \A i \in 1..Len(es) : es[i] \in Entry
    BY <1>2, DomainIsLen DEF es
  <2>2. \A i \in 1..Len(es) : (Len(es) - i) + 1 \in 1..Len(es)
    BY <2>1
  <2>3. [i \in 1..Len(es) |-> es[(Len(es) - i) + 1]] \in [1..Len(es) -> Entry]
    BY <2>1, <2>2
  <2>4. QED BY <2>1, <2>3, SeqDef DEF Reverse
<1>4. <<>> \in Seq(Entry)
  OBVIOUS
<1>5. QED BY <1>3, <1>4 DEF RulesState, es

LEMMA DeletingType ==
  ASSUME NEW why \in {"idle", "expired", "unused", "range", "natpmp"}, NEW entries \in Seq(Entry),
         Deleting(why, entries)
  PROVE  todo' \in [why : {"idle", "expired", "unused", "range", "natpmp"}, entries : Seq(Entry)]
<1>1. <<>> \in Seq(Entry)
  OBVIOUS
<1>2. QED BY <1>1 DEF Deleting, Idle

LEMMA StateListType ==
  ASSUME fw \in Firewalls, now \in Nat, NEW fails, get_upnp_rules_state_list(fails)
  PROVE  /\ next' \in Nat
         /\ todo' \in [why : {"idle", "expired", "unused", "range", "natpmp"}, entries : Seq(Entry)]
         /\ todo'.why = "expired" => KeysOf(todo'.entries) \subseteq ExpiredKeys
<1> DEFINE rules == RulesState(fails)
           later == {TimestampOf(rules[i].key) : i \in DOMAIN rules} \ 0..now
           Best(t) == t \in later /\ \A u \in later : t <= u
<1>1. /\ next' = IF later = {} THEN 0 ELSE CHOOSE t \in later : \A u \in later : t <= u
      /\ Deleting("expired", EntriesOf(rules, ExpiredKeys))
  BY DEF get_upnp_rules_state_list
<1>2. later \in SUBSET Nat
  BY GetDescFacts DEF TimestampOf
<1>3. rules \in Seq(Entry)
  BY RulesStateType
<1> HIDE DEF rules, later
<1>4. later # {} => (CHOOSE t \in later : \A u \in later : t <= u) \in Nat
  <2>1. later # {} => \E t : Best(t)
    BY <1>2, LeastElement
  <2>2. (CHOOSE t \in later : \A u \in later : t <= u) = CHOOSE t : Best(t)
    OBVIOUS
  <2>3. later # {} => Best(CHOOSE t : Best(t))
    <3> HIDE DEF Best
    <3>1. QED BY <2>1
  <2>4. QED BY <1>2, <2>2, <2>3
<1>5. next' \in Nat
  BY <1>1, <1>4
<1> DEFINE es == EntriesOf(rules, ExpiredKeys)
<1>6. es \in Seq(Entry) /\ ToSet(es) = {e \in ToSet(rules) : e.key \in ExpiredKeys}
  BY <1>3, EntriesOfType
<1>7. KeysOf(es) \subseteq ExpiredKeys
  BY <1>6, KeysOfSet
<1> HIDE DEF es
<1>8. todo'.why = "expired" => todo'.entries = es
  BY <1>1 DEF Deleting, Idle, es
<1>9. QED BY <1>1, <1>5, <1>6, <1>7, <1>8, DeletingType DEF es

-----------------------------------------------------------------------------
(* The remaining steps *)

(* The rule of key is deleted, and the client is told so unless there was   *)
(* none, or its lease has ended                                             *)
DeleteStep(key, fails) ==
  LET res == _upnp_delete_redir(Daemon, key, fails)
  IN /\ Becomes(res.d)
     /\ \/ granted' = [granted EXCEPT ![key] = NULL]
        \/ granted' = granted /\ (res.r < 0 \/ todo.why = "expired")

LEMMA DeleteNextFacts ==
  ASSUME TypeOK, NEW fails, DeleteNext(fails)
  PROVE  /\ todo.entries # <<>> /\ Head(todo.entries) \in Entry
         /\ \/ UNCHANGED <<fw, lease, next, announced, granted>>
            \/ DeleteStep(Head(todo.entries).key, fails)
         /\ \/ Deleting(todo.why, <<>>)
            \/ Deleting(todo.why, Tail(todo.entries))
            \/ todo.why = "natpmp" /\ \E keys : Deleting(todo.why, EntriesOf(todo.entries, keys))
         /\ UNCHANGED <<rule_list, reload, disabled, now, used>>
<1> DEFINE entry == Head(todo.entries)
           skip == todo.why = "unused" /\ ~StillUnused(entry, fails)
           over(r) == /\ todo.why = "expired" => /\ granted[entry.key] # NULL
                                                 /\ granted[entry.key].until \in 1..now
                      /\ todo.why = "natpmp" => r >= 0
           left(d) == EntriesOf(todo.entries, {r.key : r \in NatpmpMade(d.fw)})
           del == _upnp_delete_redir(Daemon, entry.key, fails)
<1>1. todo.entries \in Seq(Entry)
  BY TypeParts DEF RestOK
<1>2. /\ todo.entries # <<>>
      /\ \E res \in {IF skip THEN Result(Daemon, 0) ELSE del} :
           /\ Becomes(res.d)
           /\ granted' = IF ~skip /\ over(res.r) THEN [granted EXCEPT ![entry.key] = NULL]
                                                 ELSE granted
           /\ Deleting(todo.why, IF todo.why # "natpmp" THEN Tail(todo.entries)
                                 ELSE IF res.r < 0 THEN <<>> ELSE left(res.d))
      /\ UNCHANGED <<rule_list, reload, disabled, now, used>>
  BY Zenon DEF DeleteNext
<1>3. entry \in Entry
  BY <1>1, <1>2, HeadTailProperties
<1> HIDE DEF entry, skip, over, left, del
<1>4. PICK res \in {IF skip THEN Result(Daemon, 0) ELSE del} :
           /\ Becomes(res.d)
           /\ granted' = IF ~skip /\ over(res.r) THEN [granted EXCEPT ![entry.key] = NULL]
                                                 ELSE granted
           /\ Deleting(todo.why, IF todo.why # "natpmp" THEN Tail(todo.entries)
                                 ELSE IF res.r < 0 THEN <<>> ELSE left(res.d))
  BY <1>2
<1>5. \/ Deleting(todo.why, <<>>)
      \/ Deleting(todo.why, Tail(todo.entries))
      \/ todo.why = "natpmp" /\ \E keys : Deleting(todo.why, EntriesOf(todo.entries, keys))
  BY <1>4 DEF left
<1>6. CASE skip
  <2>1. Becomes(Daemon) /\ granted' = granted
    BY <1>4, <1>6 DEF Result
  <2>2. UNCHANGED <<fw, lease, next, announced, granted>>
    BY <2>1 DEF Becomes, Daemon
  <2>3. QED BY <1>2, <1>3, <1>5, <2>2 DEF entry
<1>7. CASE ~skip
  <2>1. res = del
    BY <1>4, <1>7
  <2>2. del.r \in {-1, 0, 1}
    BY TypeParts, DaemonType, DeleteRedirFacts DEF del
  <2>3. ~over(del.r) => todo.why = "expired" \/ del.r < 0
    BY <2>2 DEF over
  <2>4. DeleteStep(entry.key, fails)
    BY <1>4, <1>7, <2>1, <2>3 DEF DeleteStep, del
  <2>5. QED BY <1>2, <1>3, <1>5, <2>4 DEF entry
<1>8. QED BY <1>6, <1>7

LEMMA DeletePortMappingFacts ==
  ASSUME NEW key, NEW fails, DeletePortMapping(key, fails)
  PROVE  DeleteStep(key, fails) /\ Serving
         /\ UNCHANGED <<rule_list, todo, reload, disabled, now, used>>
BY DEF DeletePortMapping, DeleteStep

LEMMA DeleteStepType ==
  ASSUME TypeOK, NEW key \in Keys, NEW fails, DeleteStep(key, fails)
  PROVE  DaemonOK' /\ granted' \in [Keys -> Grants]
<1>1. Daemon \in Daemons
  BY TypeParts, DaemonType
<1>2. _upnp_delete_redir(Daemon, key, fails).d \in Daemons
  BY <1>1, DeleteRedirFacts
<1>3. DaemonOK'
  BY <1>2, BecomesType DEF DeleteStep
<1>4. granted \in [Keys -> Grants] /\ NULL \in Grants
  BY TypeParts DEF RestOK, Grants
<1>5. QED BY <1>3, <1>4 DEF DeleteStep

(* A line read back is skipped, asked for again, or kept for a rule that    *)
(* another client has                                                       *)
LEMMA ReloadFacts ==
  ASSUME TypeOK, NEW fails, reload_from_lease_file(fails)
  PROVE  /\ reload # <<>> /\ Head(reload) \in Lines /\ reload' = Tail(reload)
         /\ \/ UNCHANGED <<fw, lease, next, announced>>
            \/ \E t \in Nat : Becomes(upnp_redirect(Daemon, Head(reload).map, t, fails).d)
            \/ /\ Head(reload).map.key \in KeysOf(fw.nat)
               /\ \E t \in Nat : lease' = lease_file_add(lease, Head(reload).map, t, fails)
               /\ UNCHANGED <<fw, next, announced>>
         /\ UNCHANGED <<rule_list, todo, disabled, now, granted, used>>
<1> DEFINE line == Head(reload)
           t == IF line.timestamp = 0 THEN 0 ELSE line.timestamp - UnixNow
           res == upnp_redirect(Daemon, line.map, t, fails)
           again == [res.d EXCEPT !.lease = lease_file_add(@, line.map, Timestamp(t), fails)]
<1>1. /\ reload # <<>> /\ reload' = Tail(reload)
      /\ IF line.timestamp > 0 /\ line.timestamp <= UnixNow
         THEN UNCHANGED <<fw, lease, next, announced>>
         ELSE Becomes(IF res.r = -2 THEN again ELSE res.d)
      /\ UNCHANGED <<rule_list, todo, disabled, now, granted, used>>
  BY Zenon DEF reload_from_lease_file
<1>2. reload \in Seq(Lines) /\ now \in Nat
  BY TypeParts DEF RestOK
<1>3. line \in Lines
  BY <1>1, <1>2, HeadTailProperties
<1>4. line.map \in Mappings /\ line.timestamp \in Nat
  BY <1>3 DEF Lines
<1> HIDE DEF line
<1>5. UnixNow \in Nat
  BY <1>2, RedirectAssumption DEF UnixNow
<1>6. CASE line.timestamp > 0 /\ line.timestamp <= UnixNow
  BY <1>1, <1>3, <1>6 DEF line
<1>7. CASE ~(line.timestamp > 0 /\ line.timestamp <= UnixNow)
  <2>1. t \in Nat
    BY <1>4, <1>5, <1>7
  <2>2. Timestamp(t) \in Nat
    BY <1>2, <2>1, TimestampType
  <2> HIDE DEF t
  <2>3. Daemon \in Daemons /\ Daemon.fw = fw
    BY TypeParts, DaemonType
  <2>4. res.r = -2 => res.d = Daemon /\ line.map.key \in KeysOf(fw.nat)
    BY <1>2, <1>4, <2>1, <2>3, RedirectFacts
  <2>5. CASE res.r # -2
    <3>1. Becomes(res.d)
      BY <1>1, <1>7, <2>5
    <3>2. QED BY <1>1, <1>3, <2>1, <3>1 DEF line
  <2>6. CASE res.r = -2
    <3>1. again = [Daemon EXCEPT !.lease = lease_file_add(lease, line.map, Timestamp(t), fails)]
      BY <2>4, <2>6 DEF Daemon
    <3>2. Becomes(again)
      BY <1>1, <1>7, <2>6
    <3>3. /\ lease' = lease_file_add(lease, line.map, Timestamp(t), fails)
          /\ UNCHANGED <<fw, next, announced>>
      <4> HIDE DEF res, again
      <4>1. QED BY <3>1, <3>2 DEF Becomes, Daemon
    <3>4. QED BY <1>1, <1>3, <2>2, <2>4, <2>6, <3>3 DEF line
  <2>7. QED BY <2>5, <2>6
<1>8. QED BY <1>6, <1>7

LEMMA TrafficFacts ==
  ASSUME TypeOK, NEW i \in DOMAIN fw.nat, Traffic(i)
  PROVE  /\ fw' \in Firewalls /\ fw'.desc = fw.desc /\ fw'.filter = fw.filter
         /\ DOMAIN fw'.nat = DOMAIN fw.nat
         /\ \A j \in DOMAIN fw.nat : /\ fw'.nat[j].key = fw.nat[j].key
                                      /\ fw'.nat[j].iaddr = fw.nat[j].iaddr
                                      /\ fw'.nat[j].iport = fw.nat[j].iport
                                      /\ fw'.nat[j].rhost = fw.nat[j].rhost
         /\ used' \subseteq Keys
         /\ UNCHANGED <<lease, next, announced, rule_list, todo, reload, disabled, now, granted>>
<1> DEFINE e == [fw.nat[i] EXCEPT !.pcnt = fw.nat[i].pcnt + 1]
           nat == [fw.nat EXCEPT ![i] = e]
<1>1. /\ fw = [nat |-> fw.nat, filter |-> fw.filter, desc |-> fw.desc, peer |-> fw.peer,
               mangle |-> fw.mangle]
      /\ fw.nat \in Seq(NatRules) /\ fw.desc \in Seq(DescEntries)
      /\ fw.filter \in Seq(FilterRules) /\ fw.peer \in Seq(PeerFlows)
      /\ fw.mangle \in Seq(DscpRules)
  BY TypeParts DEF DaemonOK, Firewalls
<1>2. DOMAIN fw.nat = 1..Len(fw.nat) /\ fw.nat[i] \in NatRules
  BY <1>1, DomainIsLen
<1>3. /\ e \in NatRules /\ e.key = fw.nat[i].key /\ e.iaddr = fw.nat[i].iaddr
      /\ e.iport = fw.nat[i].iport /\ e.rhost = fw.nat[i].rhost
  BY <1>2 DEF NatRules
<1>4. fw' = [fw EXCEPT !.nat = nat]
  BY DEF Traffic
<1> HIDE DEF e
<1>5. /\ nat \in Seq(NatRules) /\ Len(nat) = Len(fw.nat)
      /\ \A j \in 1..Len(fw.nat) : nat[j] = IF j = i THEN e ELSE fw.nat[j]
  BY <1>1, <1>2, <1>3, ExceptSeq
<1> HIDE DEF nat
<1>6. DOMAIN nat = DOMAIN fw.nat
  BY <1>2, <1>5, DomainIsLen
<1>7. fw' = [nat |-> nat, filter |-> fw.filter, desc |-> fw.desc, peer |-> fw.peer,
             mangle |-> fw.mangle]
  BY <1>1, <1>4
<1>8. fw' \in Firewalls
  BY <1>1, <1>5, <1>7 DEF Firewalls
<1>9. fw'.nat = nat /\ fw'.desc = fw.desc /\ fw'.filter = fw.filter
  BY <1>7
<1>10. used' \subseteq Keys
  BY <1>2, TypeParts DEF Traffic, RestOK, NatRules
<1>11. UNCHANGED <<lease, next, announced, rule_list, todo, reload, disabled, now, granted>>
  BY DEF Traffic
<1>12. QED BY <1>2, <1>3, <1>5, <1>6, <1>8, <1>9, <1>10, <1>11

LEMMA WithoutDesc ==
  ASSUME NEW f \in Firewalls, NEW none
  PROVE  [f EXCEPT !.desc = none] = [nat |-> f.nat, filter |-> f.filter, desc |-> none,
                                     peer |-> f.peer, mangle |-> f.mangle]
<1> DEFINE g == [f EXCEPT !.desc = none]
<1>1. /\ g \in [nat : Seq(NatRules), filter : Seq(FilterRules), desc : {none},
                peer : Seq(PeerFlows), mangle : Seq(DscpRules)]
      /\ g.nat = f.nat /\ g.filter = f.filter /\ g.desc = none /\ g.peer = f.peer
      /\ g.mangle = f.mangle
  BY DEF Firewalls
<1> HIDE DEF g
<1>2. g = [nat |-> g.nat, filter |-> g.filter, desc |-> g.desc, peer |-> g.peer,
           mangle |-> g.mangle]
  BY <1>1
<1>3. QED BY <1>1, <1>2 DEF g

LEMMA RestartFacts ==
  ASSUME TypeOK, NEW flushed, Restart(flushed)
  PROVE  /\ fw' \in Firewalls /\ fw'.desc = <<>>
         /\ \/ flushed /\ fw' = EmptyFirewall
            \/ ~flushed /\ fw'.nat = fw.nat /\ fw'.filter = fw.filter
         /\ reload' = lease /\ lease' = <<>> /\ todo' = Idle /\ next' = 0 /\ rule_list' = <<>>
         /\ disabled' = FALSE /\ announced' \in Nat
         /\ UNCHANGED <<now, granted, used>>
<1>1. /\ fw = [nat |-> fw.nat, filter |-> fw.filter, desc |-> fw.desc, peer |-> fw.peer,
               mangle |-> fw.mangle]
      /\ fw.nat \in Seq(NatRules) /\ fw.desc \in Seq(DescEntries)
      /\ fw.filter \in Seq(FilterRules) /\ fw.peer \in Seq(PeerFlows)
      /\ fw.mangle \in Seq(DscpRules)
  BY TypeParts DEF DaemonOK, Firewalls
<1>2. fw' = IF flushed THEN EmptyFirewall ELSE [fw EXCEPT !.desc = <<>>]
  BY DEF Restart
<1>3. EmptyFirewall \in Firewalls /\ EmptyFirewall.desc = <<>>
  BY DEF EmptyFirewall, Firewalls
<1>4. /\ [fw EXCEPT !.desc = <<>>] = [nat |-> fw.nat, filter |-> fw.filter, desc |-> <<>>,
                                      peer |-> fw.peer, mangle |-> fw.mangle]
      /\ <<>> \in Seq(DescEntries)
  <2> DEFINE none == <<>>
  <2>1. none \in Seq(DescEntries)
    OBVIOUS
  <2> HIDE DEF none
  <2>2. [fw EXCEPT !.desc = none] = [nat |-> fw.nat, filter |-> fw.filter, desc |-> none,
                                     peer |-> fw.peer, mangle |-> fw.mangle]
    BY TypeParts, WithoutDesc DEF DaemonOK
  <2>3. QED BY <2>1, <2>2 DEF none
<1>5. fw' \in Firewalls
  <2>1. CASE flushed
    BY <1>2, <1>3, <2>1
  <2>2. CASE ~flushed
    BY <1>1, <1>2, <1>4, <2>2 DEF Firewalls
  <2>3. QED BY <2>1, <2>2
<1>6. Len(fw'.nat) \in Nat
  <2>1. fw'.nat \in Seq(NatRules)
    BY <1>5 DEF Firewalls
  <2>2. QED BY <2>1, DomainIsLen
<1>7. announced' \in Nat
  BY <1>6 DEF Restart
<1>8. QED BY <1>2, <1>3, <1>4, <1>5, <1>7 DEF Restart

(* The steps that list the rules to delete, and leave the rest alone *)
ListStep ==
  /\ Serving
  /\ next' \in Nat
  /\ todo' \in [why : {"idle", "expired", "unused", "range", "natpmp"}, entries : Seq(Entry)]
  /\ todo'.why = "expired" => KeysOf(todo'.entries) \subseteq ExpiredKeys
  /\ rule_list' \in Seq(Entry) /\ used' \subseteq Keys
  /\ UNCHANGED <<fw, lease, announced, reload, disabled, now, granted>>

LEMMA RangeIsList ==
  ASSUME TypeOK, NEW p, NEW lo, NEW hi, DeletePortMappingRange(p, lo, hi)
  PROVE  ListStep
<1> DEFINE es == EntriesOf(Entries(fw.nat), {p} \X (lo..hi))
<1>1. fw.nat \in Seq(NatRules)
  BY TypeParts DEF DaemonOK, Firewalls
<1>2. es \in Seq(Entry)
  BY <1>1, EntriesType, EntriesOfType
<1>3. Serving /\ Deleting("range", es)
      /\ UNCHANGED <<fw, lease, next, announced, rule_list, reload, disabled, now, granted, used>>
  BY DEF DeletePortMappingRange
<1> HIDE DEF es
<1>4. todo'.why # "expired"
  BY <1>3 DEF Deleting, Idle
<1>5. QED BY <1>2, <1>3, <1>4, DeletingType, TypeParts DEF ListStep, DaemonOK, RestOK

LEMMA NatpmpDeleteIsList ==
  ASSUME TypeOK, NEW c, NEW p, NEW i, NatpmpDelete(c, p, i)
  PROVE  ListStep
<1> DEFINE mine == {r.key : r \in {r \in NatpmpMade(fw) :
                     Proto(r.key) = p /\ r.iaddr = c /\ i \in {0, r.iport}}}
           es == EntriesOf(Entries(fw.nat), mine)
<1>1. fw.nat \in Seq(NatRules)
  BY TypeParts DEF DaemonOK, Firewalls
<1>2. Serving /\ Deleting("natpmp", es)
      /\ UNCHANGED <<fw, lease, next, announced, rule_list, reload, disabled, now, granted, used>>
  BY DEF NatpmpDelete
<1> HIDE DEF mine
<1>3. es \in Seq(Entry)
  BY <1>1, EntriesType, EntriesOfType
<1> HIDE DEF es
<1>4. todo'.why # "expired"
  BY <1>2 DEF Deleting, Idle
<1>5. QED BY <1>2, <1>3, <1>4, DeletingType, TypeParts DEF ListStep, DaemonOK, RestOK

LEMMA CleanExpiredIsList ==
  ASSUME TypeOK, NEW fails, CleanExpiredRules(fails)
  PROVE  ListStep
<1>1. /\ Serving /\ get_upnp_rules_state_list(fails)
      /\ UNCHANGED <<fw, lease, announced, rule_list, reload, disabled, now, granted, used>>
  BY DEF CleanExpiredRules
<1>2. QED BY <1>1, StateListType, TypeParts DEF ListStep, DaemonOK, RestOK

LEMMA CleanUnusedIsList ==
  ASSUME TypeOK, NEW fails, CleanUnusedRules(fails)
  PROVE  ListStep
<1>1. /\ Serving
      /\ UNCHANGED <<fw, lease, announced, reload, disabled, now, granted>>
      /\ \/ Deleting("unused", rule_list) /\ rule_list' = <<>> /\ UNCHANGED <<next, used>>
         \/ /\ get_upnp_rules_state_list(fails)
            /\ rule_list' = KeptRules(Threshold, fails)
            /\ used' = {}
  BY Zenon DEF CleanUnusedRules
<1>2. <<>> \in Seq(Entry)
  OBVIOUS
<1>3. CASE Deleting("unused", rule_list) /\ rule_list' = <<>> /\ UNCHANGED <<next, used>>
  <2>1. todo'.why # "expired"
    BY <1>3 DEF Deleting, Idle
  <2>2. QED BY <1>1, <1>2, <1>3, <2>1, DeletingType, TypeParts DEF ListStep, DaemonOK, RestOK
<1>4. CASE /\ get_upnp_rules_state_list(fails)
           /\ rule_list' = KeptRules(Threshold, fails)
           /\ used' = {}
  <2> DEFINE kept == EntriesOf(RulesState(fails), Keys \ ExpiredKeys)
  <2>1. kept \in Seq(Entry)
    BY RulesStateType, EntriesOfType, TypeParts DEF DaemonOK
  <2>2. KeptRules(Threshold, fails) \in {<<>>, kept}
    BY DEF KeptRules
  <2> HIDE DEF kept
  <2>3. rule_list' \in Seq(Entry)
    BY <1>2, <1>4, <2>1, <2>2
  <2>4. QED BY <1>1, <1>4, <2>3, StateListType, TypeParts DEF ListStep, DaemonOK, RestOK
<1>5. QED BY <1>1, <1>3, <1>4

(* Every step of the specification is of one of these kinds *)
StepKind(fails) ==
  \/ RequestStep(fails)
  \/ \E k \in Keys : /\ DeleteStep(k, fails) /\ Serving
                      /\ UNCHANGED <<rule_list, todo, reload, disabled, now, used>>
  \/ ListStep
  \/ DeleteNext(fails)
  \/ reload_from_lease_file(fails)

LEMMA StepKinds ==
  ASSUME TypeOK, Next
  PROVE  \/ \E fails \in Faults : Counted(fails) /\ StepKind(fails)
         \/ Environment /\ UNCHANGED faulty
<1>1. CASE Environment /\ UNCHANGED faulty
  BY <1>1
<1>2. ASSUME NEW fails \in Faults, Counted(fails),
             Soap(fails) \/ Natpmp(fails) \/ Sweep(fails) \/ reload_from_lease_file(fails)
      PROVE  StepKind(fails)
  <2>1. CASE Soap(fails)
    <3>1. ASSUME NEW m \in Requests, NEW t \in Leases, AddPortMapping(m, t, fails)
          PROVE  StepKind(fails)
      BY <3>1, AddIsRequest, RedirectAssumption DEF StepKind, Leases
    <3>2. ASSUME NEW m \in Requests, NEW t \in Leases, now + AnyLease(t) <= MaxLease,
                 AddAnyPortMapping(m, t, fails)
          PROVE  StepKind(fails)
      BY <3>2, AddAnyIsRequest, RedirectAssumption DEF StepKind, Leases
    <3>3. ASSUME NEW k \in Keys, DeletePortMapping(k, fails)
          PROVE  StepKind(fails)
      BY <3>3, DeletePortMappingFacts DEF StepKind
    <3>4. ASSUME NEW p \in Protos, NEW lo \in 1..MaxPort, NEW hi \in 1..MaxPort,
                 DeletePortMappingRange(p, lo, hi)
          PROVE  StepKind(fails)
      BY <3>4, RangeIsList DEF StepKind
    <3>5. QED BY <2>1, <3>1, <3>2, <3>3, <3>4 DEF Soap
  <2>2. CASE Natpmp(fails)
    <3>1. ASSUME NEW c \in Clients, NEW p \in Protos, NEW i \in Iports \cup {0}, NatpmpDelete(c, p, i)
          PROVE  StepKind(fails)
      BY <3>1, NatpmpDeleteIsList DEF StepKind
    <3>2. ASSUME NEW c \in Clients, NEW p \in Protos, NEW i \in Iports, NEW e \in 1..MaxPort,
                 NEW t \in Leases \ {0}, NatpmpMap(c, p, i, e, t, fails)
          PROVE  StepKind(fails)
      BY <3>2, NatpmpMapIsRequest DEF StepKind
    <3>3. QED BY <2>2, <3>1, <3>2 DEF Natpmp
  <2>3. CASE Sweep(fails)
    BY <2>3, CleanExpiredIsList, CleanUnusedIsList DEF Sweep, StepKind
  <2>4. CASE reload_from_lease_file(fails)
    BY <2>4 DEF StepKind
  <2>5. QED BY <1>2, <2>1, <2>2, <2>3, <2>4
<1>3. QED BY <1>1, <1>2 DEF Next

LEMMA TypeStep == TypeOK /\ [Next]_vars => TypeOK'
<1> SUFFICES ASSUME TypeOK, [Next]_vars PROVE TypeOK'
  OBVIOUS
<1>0. DaemonOK /\ RestOK /\ Daemon \in Daemons
  BY TypeParts, DaemonType
<1>1. CASE UNCHANGED vars
  BY <1>0, <1>1, TypePartsNext DEF vars, DaemonOK, RestOK
<1>2. ASSUME NEW fails \in Faults, Counted(fails), StepKind(fails) PROVE TypeOK'
  <2>0. faulty' \in Nat
    BY <1>0, <1>2 DEF Counted, RestOK
  <2>1. CASE RequestStep(fails)
    <3>0. PICK m \in Mappings, t \in Nat : \E res : Answered(res, m, fails) /\ Replied(res, m, t)
      BY <2>1 DEF RequestStep
    <3>1. PICK res : Answered(res, m, fails) /\ Replied(res, m, t)
      BY <3>0
    <3>2. DaemonOK' /\ granted' \in [Keys -> Grants]
      BY <1>0, <3>1, RepliedType DEF Answered
    <3>3. UNCHANGED <<rule_list, todo, reload, disabled, now, used>>
      BY <2>1 DEF RequestStep
    <3>4. RestOK'
      BY <1>0, <2>0, <3>2, <3>3 DEF RestOK
    <3>5. QED BY <3>2, <3>4, TypePartsNext
  <2>2. ASSUME NEW k \in Keys, DeleteStep(k, fails),
               UNCHANGED <<rule_list, todo, reload, disabled, now, used>>
        PROVE  TypeOK'
    <3>1. DaemonOK' /\ granted' \in [Keys -> Grants]
      BY <2>2, DeleteStepType
    <3>2. RestOK'
      BY <1>0, <2>0, <2>2, <3>1 DEF RestOK
    <3>3. QED BY <3>1, <3>2, TypePartsNext
  <2>3. CASE ListStep
    BY <1>0, <2>0, <2>3, TypePartsNext DEF ListStep, DaemonOK, RestOK
  <2>4. CASE DeleteNext(fails)
    <3> DEFINE key == Head(todo.entries).key
    <3>1. /\ todo.entries # <<>> /\ Head(todo.entries) \in Entry
          /\ \/ UNCHANGED <<fw, lease, next, announced, granted>>
             \/ DeleteStep(key, fails)
          /\ \/ Deleting(todo.why, <<>>)
             \/ Deleting(todo.why, Tail(todo.entries))
             \/ \E keys : Deleting(todo.why, EntriesOf(todo.entries, keys))
          /\ UNCHANGED <<rule_list, reload, disabled, now, used>>
      BY <2>4, DeleteNextFacts
    <3>2. key \in Keys
      BY <3>1 DEF Entry
    <3> HIDE DEF key
    <3>3. DaemonOK' /\ granted' \in [Keys -> Grants]
      <4>1. CASE UNCHANGED <<fw, lease, next, announced, granted>>
        BY <1>0, <4>1 DEF DaemonOK, RestOK
      <4>2. CASE DeleteStep(key, fails)
        BY <3>2, <4>2, DeleteStepType
      <4>3. QED BY <3>1, <4>1, <4>2
    <3>4. Tail(todo.entries) \in Seq(Entry) /\ <<>> \in Seq(Entry)
      <4>1. todo.entries \in Seq(Entry)
        BY <1>0 DEF RestOK
      <4>2. QED BY <3>1, <4>1, HeadTailProperties
    <3>5. todo' \in [why : {"idle", "expired", "unused", "range", "natpmp"}, entries : Seq(Entry)]
      <4>1. todo.why \in {"idle", "expired", "unused", "range", "natpmp"}
        BY <1>0 DEF RestOK
      <4>2. todo.entries \in Seq(Entry)
        BY <1>0 DEF RestOK
      <4>3. \A keys : EntriesOf(todo.entries, keys) \in Seq(Entry)
        BY <4>2, EntriesOfType
      <4>4. QED BY <3>1, <3>4, <4>1, <4>3, DeletingType
    <3>6. RestOK'
      BY <1>0, <2>0, <3>1, <3>3, <3>5 DEF RestOK
    <3>7. QED BY <3>3, <3>6, TypePartsNext
  <2>5. CASE reload_from_lease_file(fails)
    <3> DEFINE line == Head(reload)
    <3>1. /\ reload # <<>> /\ line \in Lines /\ reload' = Tail(reload)
          /\ \/ UNCHANGED <<fw, lease, next, announced>>
             \/ \E t \in Nat : Becomes(upnp_redirect(Daemon, line.map, t, fails).d)
             \/ /\ \E t \in Nat : lease' = lease_file_add(lease, line.map, t, fails)
                /\ UNCHANGED <<fw, next, announced>>
          /\ UNCHANGED <<rule_list, todo, disabled, now, granted, used>>
      BY <2>5, ReloadFacts
    <3>2. line.map \in Mappings /\ reload' \in Seq(Lines)
      <4>1. line.map \in Mappings
        BY <3>1 DEF Lines
      <4>2. reload \in Seq(Lines)
        BY <1>0 DEF RestOK
      <4>3. QED BY <3>1, <4>1, <4>2, HeadTailProperties
    <3> HIDE DEF line
    <3>3. DaemonOK'
      <4>1. CASE UNCHANGED <<fw, lease, next, announced>>
        BY <1>0, <4>1 DEF DaemonOK
      <4>2. ASSUME NEW t \in Nat, Becomes(upnp_redirect(Daemon, line.map, t, fails).d) PROVE DaemonOK'
        <5>1. upnp_redirect(Daemon, line.map, t, fails).d \in Daemons
          BY <1>0, <3>2, RedirectFacts DEF RestOK
        <5>2. QED BY <4>2, <5>1, BecomesType
      <4>3. ASSUME NEW t \in Nat, lease' = lease_file_add(lease, line.map, t, fails),
                   UNCHANGED <<fw, next, announced>>
            PROVE  DaemonOK'
        <5>1. lease' \in Seq(Lines)
          BY <1>0, <3>2, <4>3, LeaseAddFacts DEF DaemonOK
        <5>2. QED BY <1>0, <4>3, <5>1 DEF DaemonOK
      <4>4. QED BY <3>1, <4>1, <4>2, <4>3
    <3>4. RestOK'
      BY <1>0, <2>0, <3>1, <3>2 DEF RestOK
    <3>5. QED BY <3>3, <3>4, TypePartsNext
  <2>6. QED BY <1>2, <2>1, <2>2, <2>3, <2>4, <2>5 DEF StepKind
<1>3. CASE Environment /\ UNCHANGED faulty
  <2>1. ASSUME NEW flushed \in BOOLEAN, Restart(flushed) PROVE TypeOK'
    <3>1. /\ fw' \in Firewalls /\ reload' = lease /\ lease' = <<>> /\ todo' = Idle /\ next' = 0
          /\ rule_list' = <<>> /\ disabled' = FALSE /\ announced' \in Nat
          /\ UNCHANGED <<now, granted, used>>
      BY <2>1, RestartFacts
    <3>2. <<>> \in Seq(Lines) /\ <<>> \in Seq(Entry)
      OBVIOUS
    <3>3. DaemonOK' /\ RestOK'
      BY <1>0, <1>3, <3>1, <3>2 DEF DaemonOK, RestOK, Idle
    <3>4. QED BY <3>3, TypePartsNext
  <2>2. CASE update_disable_port_forwarding
    BY <1>0, <1>3, <2>2, TypePartsNext DEF update_disable_port_forwarding, DaemonOK, RestOK
  <2>3. ASSUME NEW i \in DOMAIN fw.nat, Traffic(i) PROVE TypeOK'
    <3>1. /\ fw' \in Firewalls /\ used' \subseteq Keys
          /\ UNCHANGED <<lease, next, announced, rule_list, todo, reload, disabled, now, granted>>
      BY <2>3, TrafficFacts
    <3>2. QED BY <1>0, <1>3, <3>1, TypePartsNext DEF DaemonOK, RestOK
  <2>4. CASE Tick
    BY <1>0, <1>3, <2>4, TypePartsNext DEF Tick, DaemonOK, RestOK
  <2>5. QED BY <1>3, <2>1, <2>2, <2>3, <2>4 DEF Environment
<1>4. QED BY <1>1, <1>2, <1>3, StepKinds

LEMMA TypeInit == Init => TypeOK
<1> SUFFICES ASSUME Init PROVE TypeOK
  OBVIOUS
<1>1. EmptyFirewall \in Firewalls
  BY DEF EmptyFirewall, Firewalls
<1>2. <<>> \in Seq(Lines) /\ <<>> \in Seq(Entry)
  OBVIOUS
<1>3. [k \in Keys |-> NULL] \in [Keys -> Grants]
  BY DEF Grants
<1>4. QED BY <1>1, <1>2, <1>3, TypeParts DEF Init, DaemonOK, RestOK, Idle

(* Theorem: chains, descriptions, lease file, lists of deletions and clocks *)
(* keep their types over every request, sweep, failure and restart; the     *)
(* timestamps stay naturals, over the unsigned arithmetic of the lease file *)
(* and the difference that reload_from_lease_file() computes.               *)
THEOREM TypeCorrect == Spec => []TypeOK
<1>1. QED BY TypeInit, TypeStep, PTL DEF Spec

-----------------------------------------------------------------------------
(* One rule per port, one description per rule *)

(* No search for a rule fails to open the nat table *)
LookupsWork == \A fails \in Faults : "lookup" \notin fails

(* Where NAT-PMP replaces its mappings, the removals take the rule away *)
RemovalsWork == EnableNatpmp => \A fails \in Faults : Removes(fails)

DescribedInv == TypeOK /\ Described(fw)
TidyInv == TypeOK /\ Tidy(fw)

LEMMA DescribedStep ==
  ASSUME LookupsWork, DescribedInv, [Next]_vars
  PROVE  DescribedInv'
<1>0. TypeOK /\ Described(fw) /\ TypeOK'
  BY TypeStep DEF DescribedInv
<1>1. DaemonOK /\ Daemon \in Daemons /\ Daemon.fw = fw /\ fw \in Firewalls /\ now \in Nat
  BY <1>0, TypeParts, DaemonType DEF DaemonOK, RestOK
<1> SUFFICES Described(fw)'
  BY <1>0 DEF DescribedInv
<1>2. CASE UNCHANGED fw
  BY <1>0, <1>2 DEF Described
<1>3. ASSUME NEW fails \in Faults, StepKind(fails) PROVE Described(fw)'
  <2>0. "lookup" \notin fails
    BY DEF LookupsWork
  <2>1. CASE RequestStep(fails)
    <3>0. PICK m \in Mappings, t \in Nat : \E res : Answered(res, m, fails) /\ Replied(res, m, t)
      BY <2>1 DEF RequestStep
    <3>1. PICK res : Answered(res, m, fails) /\ Replied(res, m, t)
      BY <3>0
    <3>2. fw' = res.d.fw
      BY <3>1 DEF Replied, Becomes
    <3>3. Described(res.d.fw)
      BY <1>0, <2>0, <3>1 DEF Answered
    <3>4. QED BY <3>2, <3>3 DEF Described
  <2>2. ASSUME NEW k \in Keys, DeleteStep(k, fails) PROVE Described(fw)'
    <3> DEFINE res == _upnp_delete_redir(Daemon, k, fails)
    <3>1. Described(res.d.fw)
      BY <1>0, <1>1, DeleteRedirFacts
    <3>2. fw' = res.d.fw
      BY <2>2 DEF DeleteStep, Becomes
    <3> HIDE DEF res
    <3>3. QED BY <3>1, <3>2 DEF Described
  <2>3. CASE ListStep
    BY <1>2, <2>3 DEF ListStep
  <2>4. CASE DeleteNext(fails)
    <3>1. /\ Head(todo.entries).key \in Keys
          /\ \/ UNCHANGED fw
             \/ DeleteStep(Head(todo.entries).key, fails)
      BY <1>0, <2>4, DeleteNextFacts DEF Entry
    <3>2. QED BY <1>2, <2>2, <3>1
  <2>5. CASE reload_from_lease_file(fails)
    <3> DEFINE line == Head(reload)
    <3>1. /\ line \in Lines
          /\ \/ UNCHANGED fw
             \/ \E t \in Nat : Becomes(upnp_redirect(Daemon, line.map, t, fails).d)
      BY <1>0, <2>5, ReloadFacts
    <3> HIDE DEF line
    <3>2. ASSUME NEW t \in Nat, Becomes(upnp_redirect(Daemon, line.map, t, fails).d) PROVE Described(fw)'
      <4> DEFINE res == upnp_redirect(Daemon, line.map, t, fails)
      <4>1. line.map \in Mappings
        BY <3>1 DEF Lines
      <4>2. Described(res.d.fw)
        BY <1>0, <1>1, <2>0, <4>1, RedirectFacts
      <4>3. fw' = res.d.fw
        BY <3>2 DEF Becomes
      <4> HIDE DEF res
      <4>4. QED BY <4>2, <4>3 DEF Described
    <3>3. QED BY <1>2, <3>1, <3>2
  <2>6. QED BY <1>3, <2>1, <2>2, <2>3, <2>4, <2>5 DEF StepKind
<1>4. CASE Environment
  <2>1. ASSUME NEW flushed \in BOOLEAN, Restart(flushed) PROVE Described(fw)'
    <3>1. fw'.desc = <<>> /\ (fw' = EmptyFirewall \/ fw'.nat = fw.nat)
      BY <1>0, <2>1, RestartFacts
    <3>2. fw'.nat = <<>> \/ fw'.nat = fw.nat
      BY <3>1 DEF EmptyFirewall
    <3>3. UniqueKeys(<<>>) /\ KeysOf(<<>>) = {}
      BY DEF UniqueKeys, KeysOf
    <3>4. QED BY <1>0, <3>1, <3>2, <3>3 DEF Described
  <2>2. ASSUME NEW i \in DOMAIN fw.nat, Traffic(i) PROVE Described(fw)'
    <3>1. /\ fw'.desc = fw.desc /\ DOMAIN fw'.nat = DOMAIN fw.nat
          /\ \A j \in DOMAIN fw.nat : fw'.nat[j].key = fw.nat[j].key
      BY <1>0, <2>2, TrafficFacts
    <3>2. KeysOf(fw'.nat) = KeysOf(fw.nat)
      BY <3>1 DEF KeysOf
    <3>3. QED BY <1>0, <3>1, <3>2 DEF Described
  <2>3. QED BY <1>2, <1>4, <2>1, <2>2
        DEF Environment, update_disable_port_forwarding, Tick
<1>5. QED BY <1>0, <1>2, <1>3, <1>4, StepKinds DEF vars

LEMMA TidyStep ==
  ASSUME LookupsWork, RemovalsWork, TidyInv, [Next]_vars
  PROVE  TidyInv'
<1>0. TypeOK /\ Tidy(fw) /\ TypeOK'
  BY TypeStep DEF TidyInv
<1>1. DaemonOK /\ Daemon \in Daemons /\ Daemon.fw = fw /\ fw \in Firewalls /\ now \in Nat
  BY <1>0, TypeParts, DaemonType DEF DaemonOK, RestOK
<1> SUFFICES Tidy(fw)'
  BY <1>0 DEF TidyInv
<1>2. CASE UNCHANGED fw
  BY <1>0, <1>2 DEF Tidy, Described
<1>3. ASSUME NEW fails \in Faults, StepKind(fails) PROVE Tidy(fw)'
  <2>0. "lookup" \notin fails /\ (EnableNatpmp => Removes(fails))
    BY DEF LookupsWork, RemovalsWork
  <2>1. CASE RequestStep(fails)
    <3>0. PICK m \in Mappings, t \in Nat : \E res : Answered(res, m, fails) /\ Replied(res, m, t)
      BY <2>1 DEF RequestStep
    <3>1. PICK res : Answered(res, m, fails) /\ Replied(res, m, t)
      BY <3>0
    <3>2. fw' = res.d.fw
      BY <3>1 DEF Replied, Becomes
    <3>3. Tidy(res.d.fw)
      BY <1>0, <2>0, <3>1 DEF Answered
    <3>4. QED BY <3>2, <3>3 DEF Tidy, Described
  <2>2. ASSUME NEW k \in Keys, DeleteStep(k, fails) PROVE Tidy(fw)'
    <3> DEFINE res == _upnp_delete_redir(Daemon, k, fails)
    <3>1. Tidy(res.d.fw)
      BY <1>0, <1>1, DeleteRedirFacts
    <3>2. fw' = res.d.fw
      BY <2>2 DEF DeleteStep, Becomes
    <3> HIDE DEF res
    <3>3. QED BY <3>1, <3>2 DEF Tidy, Described
  <2>3. CASE ListStep
    BY <1>2, <2>3 DEF ListStep
  <2>4. CASE DeleteNext(fails)
    <3>1. /\ Head(todo.entries).key \in Keys
          /\ \/ UNCHANGED fw
             \/ DeleteStep(Head(todo.entries).key, fails)
      BY <1>0, <2>4, DeleteNextFacts DEF Entry
    <3>2. QED BY <1>2, <2>2, <3>1
  <2>5. CASE reload_from_lease_file(fails)
    <3> DEFINE line == Head(reload)
    <3>1. /\ line \in Lines
          /\ \/ UNCHANGED fw
             \/ \E t \in Nat : Becomes(upnp_redirect(Daemon, line.map, t, fails).d)
      BY <1>0, <2>5, ReloadFacts
    <3> HIDE DEF line
    <3>2. ASSUME NEW t \in Nat, Becomes(upnp_redirect(Daemon, line.map, t, fails).d) PROVE Tidy(fw)'
      <4> DEFINE res == upnp_redirect(Daemon, line.map, t, fails)
      <4>1. line.map \in Mappings
        BY <3>1 DEF Lines
      <4>2. Tidy(res.d.fw)
        BY <1>0, <1>1, <2>0, <4>1, RedirectFacts
      <4>3. fw' = res.d.fw
        BY <3>2 DEF Becomes
      <4> HIDE DEF res
      <4>4. QED BY <4>2, <4>3 DEF Tidy, Described
    <3>3. QED BY <1>2, <3>1, <3>2
  <2>6. QED BY <1>3, <2>1, <2>2, <2>3, <2>4, <2>5 DEF StepKind
<1>4. CASE Environment
  <2>1. ASSUME NEW flushed \in BOOLEAN, Restart(flushed) PROVE Tidy(fw)'
    <3>1. fw'.desc = <<>> /\ (fw' = EmptyFirewall \/ fw'.nat = fw.nat)
      BY <1>0, <2>1, RestartFacts
    <3>2. fw'.nat = <<>> \/ fw'.nat = fw.nat
      BY <3>1 DEF EmptyFirewall
    <3>3. UniqueKeys(<<>>) /\ KeysOf(<<>>) = {}
      BY DEF UniqueKeys, KeysOf
    <3>4. QED BY <1>0, <3>1, <3>2, <3>3 DEF Tidy, Described
  <2>2. ASSUME NEW i \in DOMAIN fw.nat, Traffic(i) PROVE Tidy(fw)'
    <3>1. /\ fw'.desc = fw.desc /\ DOMAIN fw'.nat = DOMAIN fw.nat
          /\ \A j \in DOMAIN fw.nat : fw'.nat[j].key = fw.nat[j].key
      BY <1>0, <2>2, TrafficFacts
    <3>2. UniqueKeys(fw'.nat) /\ KeysOf(fw'.nat) = KeysOf(fw.nat)
      BY <1>0, <3>1 DEF UniqueKeys, KeysOf, Tidy
    <3>3. QED BY <1>0, <3>1, <3>2 DEF Tidy, Described
  <2>3. QED BY <1>2, <1>4, <2>1, <2>2
        DEF Environment, update_disable_port_forwarding, Tick
<1>5. QED BY <1>0, <1>2, <1>3, <1>4, StepKinds DEF vars

LEMMA TidyInit == Init => TidyInv /\ DescribedInv
<1>1. Tidy(EmptyFirewall) /\ Described(EmptyFirewall)
  BY DEF Tidy, Described, EmptyFirewall, UniqueKeys, KeysOf
<1>2. QED BY <1>1, TypeInit DEF TidyInv, DescribedInv, Init

(* Theorem: as long as the searches can open the nat table, and a removal   *)
(* that NAT-PMP makes before it adds the mapping again does remove the      *)
(* rule, no sequence of requests, half-failed additions and deletions,      *)
(* sweeps and restarts ever gives a port two redirections.                  *)
THEOREM OneRuleAlways ==
  ASSUME LookupsWork, RemovalsWork
  PROVE  Spec => []OneRulePerPort
<1>1. TidyInv /\ [Next]_vars => TidyInv'
  BY TidyStep
<1>2. TidyInv => OneRulePerPort
  BY DEF TidyInv, Tidy, UniqueKeys, OneRulePerPort
<1>3. QED BY <1>1, <1>2, TidyInit, PTL DEF Spec

LEMMA DescribedMeans ==
  ASSUME DescribedInv
  PROVE  NoStaleDesc
<1>1. ASSUME NEW i \in DOMAIN fw.desc PROVE \E r \in Rules : r.key = fw.desc[i].key
  <2>1. fw.desc[i].key \in KeysOf(fw.nat)
    BY DEF DescribedInv, Described, KeysOf
  <2>2. QED BY <2>1 DEF KeysOf, Rules
<1>2. UniqueKeys(fw.desc)
  BY DEF DescribedInv, Described
<1>3. QED BY <1>1, <1>2 DEF NoStaleDesc, UniqueKeys

(* Theorem: whatever step of an addition, update or deletion fails, as long *)
(* as the searches can open the nat table, rdr_desc_list has no entry       *)
(* without a redirection and no two for one, so that no mapping inherits a  *)
(* description or an expiry.                                                *)
THEOREM DescsNeverStale ==
  ASSUME LookupsWork
  PROVE  Spec => []NoStaleDesc
<1>1. DescribedInv /\ [Next]_vars => DescribedInv'
  BY DescribedStep
<1>2. DescribedInv => NoStaleDesc
  BY DescribedMeans
<1>3. QED BY <1>1, <1>2, TidyInit, PTL DEF Spec

-----------------------------------------------------------------------------
(* The lease file *)

(* The lease file can be written *)
LeaseFileWorks == \A fails \in Faults : "lease" \notin fails

LineInv == TypeOK /\ LineKeys(lease) \subseteq KeysOf(fw.nat)

LEMMA LineStep ==
  ASSUME LeaseFileWorks, LineInv, [Next]_vars
  PROVE  LineInv'
<1> DEFINE OK == LineKeys(lease) \subseteq KeysOf(fw.nat)
<1>0. TypeOK /\ OK /\ TypeOK'
  BY TypeStep DEF LineInv
<1>1. /\ DaemonOK /\ Daemon \in Daemons /\ Daemon.fw = fw /\ Daemon.lease = lease
      /\ fw \in Firewalls /\ lease \in Seq(Lines) /\ now \in Nat
  BY <1>0, TypeParts, DaemonType DEF DaemonOK, RestOK
<1> SUFFICES OK'
  BY <1>0 DEF LineInv
<1>2. CASE UNCHANGED <<fw, lease>>
  BY <1>0, <1>2
<1>3. ASSUME NEW fails \in Faults, StepKind(fails) PROVE OK'
  <2>0. "lease" \notin fails
    BY DEF LeaseFileWorks
  <2>1. CASE RequestStep(fails)
    <3>0. PICK m \in Mappings, t \in Nat : \E res : Answered(res, m, fails) /\ Replied(res, m, t)
      BY <2>1 DEF RequestStep
    <3>1. PICK res : Answered(res, m, fails) /\ Replied(res, m, t)
      BY <3>0
    <3>2. fw' = res.d.fw /\ lease' = res.d.lease
      BY <3>1 DEF Replied, Becomes
    <3>3. LineKeys(res.d.lease) \subseteq KeysOf(res.d.fw.nat)
      BY <1>0, <2>0, <3>1 DEF Answered
    <3>4. QED BY <3>2, <3>3
  <2>2. ASSUME NEW k \in Keys, DeleteStep(k, fails) PROVE OK'
    <3> DEFINE res == _upnp_delete_redir(Daemon, k, fails)
    <3>1. /\ KeysOf(fw.nat) \ {k} \subseteq KeysOf(res.d.fw.nat)
          /\ LineKeys(res.d.lease) = LineKeys(lease) \ {k}
      BY <1>1, <2>0, DeleteRedirFacts
    <3>2. fw' = res.d.fw /\ lease' = res.d.lease
      BY <2>2 DEF DeleteStep, Becomes
    <3> HIDE DEF res
    <3>3. QED BY <1>0, <3>1, <3>2
  <2>3. CASE ListStep
    BY <1>2, <2>3 DEF ListStep
  <2>4. CASE DeleteNext(fails)
    <3>1. /\ Head(todo.entries).key \in Keys
          /\ \/ UNCHANGED <<fw, lease>>
             \/ DeleteStep(Head(todo.entries).key, fails)
      BY <1>0, <2>4, DeleteNextFacts DEF Entry
    <3>2. QED BY <1>2, <2>2, <3>1
  <2>5. CASE reload_from_lease_file(fails)
    <3> DEFINE line == Head(reload)
    <3>1. /\ line \in Lines
          /\ \/ UNCHANGED <<fw, lease>>
             \/ \E t \in Nat : Becomes(upnp_redirect(Daemon, line.map, t, fails).d)
             \/ /\ line.map.key \in KeysOf(fw.nat) /\ UNCHANGED fw
                /\ \E t \in Nat : lease' = lease_file_add(lease, line.map, t, fails)
      BY <1>0, <2>5, ReloadFacts
    <3> HIDE DEF line
    <3>2. line.map \in Mappings
      BY <3>1 DEF Lines
    <3>3. ASSUME NEW t \in Nat, Becomes(upnp_redirect(Daemon, line.map, t, fails).d) PROVE OK'
      <4> DEFINE res == upnp_redirect(Daemon, line.map, t, fails)
      <4>1. Redirected(Daemon, res.d, line.map)
        BY <1>1, <3>2, RedirectFacts
      <4>2. fw' = res.d.fw /\ lease' = res.d.lease
        BY <3>3 DEF Becomes
      <4> HIDE DEF res
      <4>3. QED BY <1>0, <1>1, <4>1, <4>2 DEF Redirected
    <3>4. ASSUME NEW t \in Nat, lease' = lease_file_add(lease, line.map, t, fails),
                 line.map.key \in KeysOf(fw.nat), UNCHANGED fw
          PROVE  OK'
      <4>1. LineKeys(lease') \subseteq LineKeys(lease) \cup {line.map.key}
        BY <1>1, <3>2, <3>4, LeaseAddFacts
      <4>2. QED BY <1>0, <3>4, <4>1
    <3>5. QED BY <1>2, <3>1, <3>3, <3>4
  <2>6. QED BY <1>3, <2>1, <2>2, <2>3, <2>4, <2>5 DEF StepKind
<1>4. CASE Environment
  <2>1. ASSUME NEW flushed \in BOOLEAN, Restart(flushed) PROVE OK'
    <3>1. lease' = <<>>
      BY <1>0, <2>1, RestartFacts
    <3>2. QED BY <3>1 DEF LineKeys
  <2>2. ASSUME NEW i \in DOMAIN fw.nat, Traffic(i) PROVE OK'
    <3>1. /\ lease' = lease /\ DOMAIN fw'.nat = DOMAIN fw.nat
          /\ \A j \in DOMAIN fw.nat : fw'.nat[j].key = fw.nat[j].key
      BY <1>0, <2>2, TrafficFacts
    <3>2. KeysOf(fw'.nat) = KeysOf(fw.nat)
      BY <3>1 DEF KeysOf
    <3>3. QED BY <1>0, <3>1, <3>2
  <2>3. QED BY <1>2, <1>4, <2>1, <2>2
        DEF Environment, update_disable_port_forwarding, Tick
<1>5. QED BY <1>0, <1>2, <1>3, <1>4, StepKinds DEF vars

LEMMA LineInit == Init => LineInv
BY TypeInit DEF LineInv, Init, LineKeys

(* Theorem: whatever change of a netfilter table fails, even so that a port *)
(* has two rules, and at whatever point the daemon restarts, each line of   *)
(* the lease file stands for a redirection of its port, as long as the file *)
(* itself can be written.                                                   *)
THEOREM LeaseLinesBacked ==
  ASSUME LeaseFileWorks
  PROVE  Spec => []LeaseLineHasRule
<1>1. LineInv /\ [Next]_vars => LineInv'
  BY LineStep
<1>2. LineInv => LeaseLineHasRule
  BY DEF LineInv, LineKeys, KeysOf, Rules, LeaseLineHasRule
<1>3. QED BY <1>1, <1>2, LineInit, PTL DEF Spec

-----------------------------------------------------------------------------
(* Nothing that no client was told of *)

(* No step of any call fails *)
NoFaults == Faults \subseteq {{}}

Known(keys) == \A k \in keys : granted[k] # NULL

KnownInv ==
  /\ TidyInv /\ LineInv
  /\ Known(KeysOf(fw.nat))
  /\ Known(LineKeys(reload))
  /\ reload # <<>> => todo = Idle

LEMMA TailLines ==
  ASSUME NEW file \in Seq(Lines), file # <<>>
  PROVE  /\ Tail(file) \in Seq(Lines) /\ Head(file) \in ToSet(file)
         /\ ToSet(file) = ToSet(Tail(file)) \cup {Head(file)}
         /\ LineKeys(Tail(file)) \subseteq LineKeys(file)
         /\ Head(file).map.key \in LineKeys(file)
<1> DEFINE t == Tail(file)
<1>1. /\ t \in Seq(Lines) /\ Len(t) = Len(file) - 1
      /\ \A i \in 1..Len(t) : t[i] = file[i + 1]
      /\ Head(file) = file[1]
  BY HeadTailProperties, DomainIsLen
<1>2. DOMAIN file = 1..Len(file) /\ Len(file) \in Nat \ {0}
  BY DomainIsLen, EmptySeq
<1> HIDE DEF t
<1>3. DOMAIN t = 1..Len(t)
  BY <1>1, DomainIsLen
<1>4. /\ 1 \in DOMAIN file /\ \A i \in DOMAIN t : i + 1 \in DOMAIN file
      /\ \A i \in DOMAIN file : i = 1 \/ (i - 1 \in DOMAIN t /\ (i - 1) + 1 = i)
  BY <1>1, <1>2, <1>3
<1>5. ToSet(file) = ToSet(t) \cup {Head(file)}
  <2>1. ASSUME NEW i \in DOMAIN file PROVE file[i] \in ToSet(t) \cup {Head(file)}
    BY <1>1, <1>3, <1>4 DEF ToSet
  <2>2. ASSUME NEW i \in DOMAIN t PROVE t[i] \in ToSet(file)
    BY <1>1, <1>3, <1>4 DEF ToSet
  <2>3. Head(file) \in ToSet(file)
    BY <1>1, <1>4 DEF ToSet
  <2>4. QED BY <2>1, <2>2, <2>3 DEF ToSet
<1>6. QED BY <1>1, <1>5, LineKeysOfSet DEF t

LEMMA KnownReplied ==
  ASSUME TypeOK, NEW res, NEW m \in Mappings, NEW t \in Nat, Replied(res, m, t), NEW k \in Keys
  PROVE  granted[k] # NULL \/ (res.r = 0 /\ k = m.key) => granted'[k] # NULL
<1>1. granted \in [Keys -> Grants] /\ now \in Nat /\ m.key \in Keys
  BY TypeParts DEF RestOK, Mappings
<1>2. Granted(m, t) \in [iaddr : Clients, iport : Iports, until : Nat]
  BY <1>1 DEF Granted, Mappings
<1>3. Granted(m, t) # NULL
  BY <1>2, RedirectAssumption
<1>4. QED BY <1>1, <1>3 DEF Replied

LEMMA KnownStep ==
  ASSUME NoFaults, KnownInv, [Next]_vars
  PROVE  KnownInv'
<1> DEFINE Pending == Known(LineKeys(reload)) /\ (reload # <<>> => todo = Idle)
           OK == Known(KeysOf(fw.nat)) /\ Pending
<1>0. /\ TypeOK /\ Tidy(fw) /\ LineKeys(lease) \subseteq KeysOf(fw.nat) /\ OK
      /\ TidyInv' /\ LineInv'
  BY TidyStep, LineStep DEF KnownInv, TidyInv, LineInv, NoFaults, LookupsWork, RemovalsWork, Removes,
                                LeaseFileWorks
<1>1. /\ DaemonOK /\ Daemon \in Daemons /\ Daemon.fw = fw /\ Daemon.lease = lease
      /\ fw \in Firewalls /\ lease \in Seq(Lines) /\ reload \in Seq(Lines)
      /\ now \in Nat /\ granted \in [Keys -> Grants]
  BY <1>0, TypeParts, DaemonType DEF DaemonOK, RestOK
<1> SUFFICES OK'
  BY <1>0 DEF KnownInv
<1>2. CASE UNCHANGED <<fw, granted, reload, todo>>
  BY <1>0, <1>2 DEF Known
<1>3. ASSUME NEW fails \in Faults, StepKind(fails) PROVE OK'
  <2>0. fails = {}
    BY DEF NoFaults
  <2>1. CASE RequestStep(fails)
    <3>0. PICK m \in Mappings, t \in Nat : \E res : Answered(res, m, fails) /\ Replied(res, m, t)
      BY <2>1 DEF RequestStep
    <3>1. PICK res : Answered(res, m, fails) /\ Replied(res, m, t)
      BY <3>0
    <3>2. KeysOf(res.d.fw.nat) \subseteq KeysOf(fw.nat) \cup (IF res.r = 0 THEN {m.key} ELSE {})
      BY <2>0, <3>1 DEF Answered
    <3>3. fw' = res.d.fw /\ UNCHANGED <<reload, todo>> /\ reload = <<>>
      BY <2>1, <3>1 DEF Replied, Becomes, RequestStep, Serving
    <3>4. KeysOf(fw.nat) \subseteq Keys
      BY <1>1, KeysOfType
    <3>5. Known(KeysOf(fw.nat))'
      BY <1>0, <1>1, <3>1, <3>2, <3>3, <3>4, KnownReplied DEF Known, Mappings
    <3>6. LineKeys(<<>>) = {}
      BY DEF LineKeys
    <3>7. QED BY <3>3, <3>5, <3>6 DEF Known
  <2>2. ASSUME NEW k \in Keys, DeleteStep(k, fails), UNCHANGED reload, reload = <<>> PROVE OK'
    <3> DEFINE res == _upnp_delete_redir(Daemon, k, fails)
    <3>1. RuleDeleted(fw, res.d.fw, k)
      BY <1>0, <1>1, <2>0, DeleteRedirFacts DEF Removes
    <3>2. fw' = res.d.fw /\ (granted' = granted \/ granted' = [granted EXCEPT ![k] = NULL])
      BY <2>2 DEF DeleteStep, Becomes
    <3> HIDE DEF res
    <3>3. KeysOf(fw'.nat) = KeysOf(fw.nat) \ {k} /\ KeysOf(fw.nat) \subseteq Keys
      BY <1>1, <3>1, <3>2, KeysOfType DEF RuleDeleted
    <3>4. Known(KeysOf(fw.nat))'
      BY <1>0, <1>1, <3>2, <3>3 DEF Known
    <3>5. LineKeys(<<>>) = {}
      BY DEF LineKeys
    <3>6. QED BY <2>2, <3>4, <3>5 DEF Known
  <2>3. CASE ListStep
    <3>1. UNCHANGED <<fw, granted, reload>> /\ reload = <<>>
      BY <2>3 DEF ListStep, Serving
    <3>2. QED BY <1>0, <3>1 DEF Known
  <2>4. CASE DeleteNext(fails)
    <3>1. /\ Head(todo.entries).key \in Keys /\ todo.entries # <<>>
          /\ \/ UNCHANGED <<fw, granted>>
             \/ DeleteStep(Head(todo.entries).key, fails)
          /\ UNCHANGED reload
      BY <1>0, <2>4, DeleteNextFacts DEF Entry
    <3>2. reload = <<>>
      BY <1>0, <3>1 DEF Idle
    <3>3. CASE UNCHANGED <<fw, granted>>
      BY <1>0, <3>1, <3>2, <3>3 DEF Known
    <3>4. QED BY <2>2, <3>1, <3>2, <3>3
  <2>5. CASE reload_from_lease_file(fails)
    <3> DEFINE line == Head(reload)
    <3>1. /\ line \in Lines /\ reload # <<>> /\ reload' = Tail(reload)
          /\ \/ UNCHANGED fw
             \/ \E t \in Nat : Becomes(upnp_redirect(Daemon, line.map, t, fails).d)
          /\ UNCHANGED <<todo, granted>>
      BY <1>0, <2>5, ReloadFacts
    <3>2. LineKeys(reload') \subseteq LineKeys(reload) /\ line.map.key \in LineKeys(reload)
      BY <1>1, <3>1, TailLines
    <3> HIDE DEF line
    <3>3. ASSUME NEW t \in Nat, Becomes(upnp_redirect(Daemon, line.map, t, fails).d)
          PROVE  KeysOf(fw'.nat) \subseteq KeysOf(fw.nat) \cup {line.map.key}
      <4> DEFINE res == upnp_redirect(Daemon, line.map, t, fails)
      <4>1. line.map \in Mappings
        BY <3>1 DEF Lines
      <4>2. Redirected(Daemon, res.d, line.map)
        BY <1>1, <4>1, RedirectFacts
      <4>3. fw' = res.d.fw
        BY <3>3 DEF Becomes
      <4> HIDE DEF res
      <4>4. QED BY <1>1, <4>2, <4>3 DEF Redirected
    <3>4. QED BY <1>0, <3>1, <3>2, <3>3 DEF Known
  <2>6. QED BY <1>3, <2>1, <2>2, <2>3, <2>4, <2>5 DEF StepKind, Serving
<1>4. CASE Environment
  <2>1. ASSUME NEW flushed \in BOOLEAN, Restart(flushed) PROVE OK'
    <3>1. /\ reload' = lease /\ todo' = Idle /\ UNCHANGED granted
          /\ fw' = EmptyFirewall \/ fw'.nat = fw.nat
      BY <1>0, <2>1, RestartFacts
    <3>2. KeysOf(EmptyFirewall.nat) = {}
      BY DEF KeysOf, EmptyFirewall
    <3>3. QED BY <1>0, <3>1, <3>2 DEF Known
  <2>2. ASSUME NEW i \in DOMAIN fw.nat, Traffic(i) PROVE OK'
    <3>1. /\ DOMAIN fw'.nat = DOMAIN fw.nat
          /\ \A j \in DOMAIN fw.nat : fw'.nat[j].key = fw.nat[j].key
          /\ UNCHANGED <<reload, todo, granted>>
      BY <1>0, <2>2, TrafficFacts
    <3>2. KeysOf(fw'.nat) = KeysOf(fw.nat)
      BY <3>1 DEF KeysOf
    <3>3. QED BY <1>0, <3>1, <3>2 DEF Known
  <2>3. QED BY <1>2, <1>4, <2>1, <2>2
        DEF Environment, update_disable_port_forwarding, Tick
<1>5. QED BY <1>0, <1>2, <1>3, <1>4, StepKinds DEF vars

LEMMA KnownInit == Init => KnownInv
<1>1. KeysOf(<<>>) = {} /\ LineKeys(<<>>) = {}
  BY DEF KeysOf, LineKeys
<1>2. QED BY <1>1, TidyInit, LineInit DEF KnownInv, Known, Init, EmptyFirewall

(* Theorem: when no step fails, every redirection in the chain, also one    *)
(* that a restart read back from the lease file, is one that some client    *)
(* was told it has and nobody was told is gone.                             *)
THEOREM RulesAreGranted ==
  ASSUME NoFaults
  PROVE  Spec => []OnlyGranted
<1>1. KnownInv /\ [Next]_vars => KnownInv'
  BY KnownStep
<1>2. KnownInv => OnlyGranted
  BY DEF KnownInv, Known, KeysOf, Rules, OnlyGranted
<1>3. QED BY <1>1, <1>2, KnownInit, PTL DEF Spec

-----------------------------------------------------------------------------
(* The permission lines *)

(* No line of the configuration looks at descriptions *)
NoRegex == \A i \in 1..Len(upnppermlist) : ~upnppermlist[i].regex

(* The lines accept the rule r with the description str *)
Allowed(r, str) == check_upnp_rule_against_permissions(Eport(r.key), r.iaddr, r.iport, str)

AllowedInv == TypeOK /\ \A r \in ToSet(fw.nat) : Allowed(r, NatpmpName)

LEMMA DescriptionIgnored ==
  ASSUME NoRegex, NEW r, NEW str1, NEW str2
  PROVE  Allowed(r, str1) = Allowed(r, str2)
<1> DEFINE I(str) == {i \in 1..Len(upnppermlist) :
                        match_permission(upnppermlist[i], Eport(r.key), r.iaddr, r.iport, str)}
           n(str) == IF I(str) # {} THEN Min(I(str)) ELSE 0
<1>1. I(str1) = I(str2)
  BY DEF match_permission, NoRegex
<1>2. \A str : Allowed(r, str) = (n(str) = 0 \/ upnppermlist[n(str)].allow)
  BY DEF Allowed, check_upnp_rule_against_permissions, SelectInSeq
<1>3. n(str1) = n(str2)
  <2> HIDE DEF I
  <2>1. QED BY <1>1
<1> HIDE DEF n
<1>4. QED BY <1>2, <1>3

LEMMA ServedAllowed ==
  ASSUME NoRegex, NEW m, NEW r, Passed(m), Serves(r, m), NEW str
  PROVE  Allowed(r, str)
<1>1. Allowed(r, m.str) \/ Allowed(r, NatpmpName)
  BY DEF Passed, NatpmpPermits, Permitted, Serves, Allowed
<1>2. QED BY <1>1, DescriptionIgnored

LEMMA AllowedStep ==
  ASSUME NoRegex, AllowedInv, [Next]_vars
  PROVE  AllowedInv'
<1> DEFINE OK(nat) == \A r \in ToSet(nat) : Allowed(r, NatpmpName)
<1>0. TypeOK /\ OK(fw.nat) /\ TypeOK'
  BY TypeStep DEF AllowedInv
<1>1. /\ DaemonOK /\ Daemon \in Daemons /\ Daemon.fw = fw /\ fw \in Firewalls /\ now \in Nat
  BY <1>0, TypeParts, DaemonType DEF DaemonOK, RestOK
<1> SUFFICES OK(fw'.nat)
  BY <1>0 DEF AllowedInv
<1>2. CASE UNCHANGED fw
  BY <1>0, <1>2
<1>3. ASSUME NEW fails \in Faults, StepKind(fails) PROVE OK(fw'.nat)
  <2>1. CASE RequestStep(fails)
    <3>0. PICK m \in Mappings, t \in Nat : \E res : Answered(res, m, fails) /\ Replied(res, m, t)
      BY <2>1 DEF RequestStep
    <3>1. PICK res : Answered(res, m, fails) /\ Replied(res, m, t)
      BY <3>0
    <3>2. fw' = res.d.fw
      BY <3>1 DEF Replied, Becomes
    <3>3. \A r \in ToSet(fw'.nat) : r \in ToSet(fw.nat) \/ (Passed(m) /\ Serves(r, m))
      BY <3>1, <3>2 DEF Answered
    <3>4. QED BY <1>0, <3>3, ServedAllowed
  <2>2. ASSUME NEW k \in Keys, DeleteStep(k, fails) PROVE OK(fw'.nat)
    <3> DEFINE res == _upnp_delete_redir(Daemon, k, fails)
    <3>1. ToSet(res.d.fw.nat) \subseteq ToSet(fw.nat)
      BY <1>1, DeleteRedirFacts
    <3>2. fw' = res.d.fw
      BY <2>2 DEF DeleteStep, Becomes
    <3> HIDE DEF res
    <3>3. QED BY <1>0, <3>1, <3>2
  <2>3. CASE ListStep
    BY <1>2, <2>3 DEF ListStep
  <2>4. CASE DeleteNext(fails)
    <3>1. /\ Head(todo.entries).key \in Keys
          /\ \/ UNCHANGED fw
             \/ DeleteStep(Head(todo.entries).key, fails)
      BY <1>0, <2>4, DeleteNextFacts DEF Entry
    <3>2. QED BY <1>2, <2>2, <3>1
  <2>5. CASE reload_from_lease_file(fails)
    <3> DEFINE line == Head(reload)
    <3>1. /\ line \in Lines
          /\ \/ UNCHANGED fw
             \/ \E t \in Nat : Becomes(upnp_redirect(Daemon, line.map, t, fails).d)
      BY <1>0, <2>5, ReloadFacts
    <3> HIDE DEF line
    <3>2. ASSUME NEW t \in Nat, Becomes(upnp_redirect(Daemon, line.map, t, fails).d)
          PROVE  OK(fw'.nat)
      <4> DEFINE res == upnp_redirect(Daemon, line.map, t, fails)
      <4>1. line.map \in Mappings
        BY <3>1 DEF Lines
      <4>2. Redirected(Daemon, res.d, line.map) /\ (Permitted(line.map) \/ res.d = Daemon)
        BY <1>1, <4>1, RedirectFacts
      <4>3. fw' = res.d.fw
        BY <3>2 DEF Becomes
      <4> HIDE DEF res
      <4>4. \A r \in ToSet(fw'.nat) :
              r \in ToSet(fw.nat) \/ (Passed(line.map) /\ Serves(r, line.map))
        BY <1>1, <4>2, <4>3 DEF Redirected, RulesFrom, Passed
      <4>5. QED BY <1>0, <4>4, ServedAllowed
    <3>3. QED BY <1>2, <3>1, <3>2
  <2>6. QED BY <1>3, <2>1, <2>2, <2>3, <2>4, <2>5 DEF StepKind
<1>4. CASE Environment
  <2>1. ASSUME NEW flushed \in BOOLEAN, Restart(flushed) PROVE OK(fw'.nat)
    <3>1. fw' = EmptyFirewall \/ fw'.nat = fw.nat
      BY <1>0, <2>1, RestartFacts
    <3>2. ToSet(EmptyFirewall.nat) = {}
      BY DEF ToSet, EmptyFirewall
    <3>3. QED BY <1>0, <3>1, <3>2
  <2>2. ASSUME NEW i \in DOMAIN fw.nat, Traffic(i) PROVE OK(fw'.nat)
    <3>1. /\ DOMAIN fw'.nat = DOMAIN fw.nat
          /\ \A j \in DOMAIN fw.nat : /\ fw'.nat[j].key = fw.nat[j].key
                                      /\ fw'.nat[j].iaddr = fw.nat[j].iaddr
                                      /\ fw'.nat[j].iport = fw.nat[j].iport
      BY <1>0, <2>2, TrafficFacts
    <3>2. QED BY <1>0, <3>1 DEF ToSet, Allowed
  <2>3. QED BY <1>2, <1>4, <2>1, <2>2
        DEF Environment, update_disable_port_forwarding, Tick
<1>5. QED BY <1>0, <1>2, <1>3, <1>4, StepKinds DEF vars

LEMMA AllowedInit == Init => AllowedInv
BY TypeInit DEF AllowedInv, Init, EmptyFirewall, ToSet

(* Theorem: with permission lines that do not look at descriptions, and     *)
(* whatever steps fail, no request, port search, renewal that moves the     *)
(* internal port, or line of the lease file ever leaves a redirection that  *)
(* the lines reject.                                                        *)
THEOREM RulesArePermitted ==
  ASSUME NoRegex
  PROVE  Spec => []PermittedOnly
<1>1. AllowedInv /\ [Next]_vars => AllowedInv'
  BY AllowedStep
<1>2. ASSUME AllowedInv PROVE PermittedOnly
  <2>1. \A r \in Rules : Allowed(r, NatpmpName)
    BY <1>2 DEF AllowedInv, Rules, ToSet
  <2>2. QED BY <2>1, DescriptionIgnored DEF PermittedOnly, Allowed
<1>3. QED BY <1>1, <1>2, AllowedInit, PTL DEF Spec

-----------------------------------------------------------------------------
(* What the clients were promised, when no step of a call fails: the ACCEPT *)
(* rules that go with the redirections, and the redirections that go with   *)
(* the answers                                                              *)

(* The rules of either chain for an internal endpoint *)
NatAt(p, a, q) == {r \in NatRules : Proto(r.key) = p /\ r.iaddr = a /\ r.iport = q}
AcceptAt(p, a, q) == {e \in FilterRules : e.proto = p /\ e.iaddr = a /\ e.iport = q}

(* The chains have the same number of rules for every endpoint *)
Balanced(f) ==
  \A p \in Protos, a \in Clients, q \in Iports :
    CountIn(f.nat, NatAt(p, a, q)) = CountIn(f.filter, AcceptAt(p, a, q))

SameEnd(r, e) ==
  /\ r \in NatRules /\ e \in FilterRules
  /\ Proto(r.key) = e.proto /\ r.iaddr = e.iaddr /\ r.iport = e.iport

LEMMA SameOne ==
  ASSUME NEW r, NEW e, SameEnd(r, e), NEW p, NEW a, NEW q
  PROVE  One(r, NatAt(p, a, q)) = One(e, AcceptAt(p, a, q))
BY DEF SameEnd, One, NatAt, AcceptAt

LEMMA BalancedMeans ==
  ASSUME fw \in Firewalls
  PROVE  Balanced(fw) <=> AcceptPerRule
<1>1. fw.nat \in Seq(NatRules) /\ fw.filter \in Seq(FilterRules)
  BY DEF Firewalls
<1>2. /\ \A i \in DOMAIN fw.nat : fw.nat[i] \in NatRules
      /\ \A i \in DOMAIN fw.filter : fw.filter[i] \in FilterRules
  BY <1>1, DomainIsLen
<1> DEFINE N(p, a, q) == {i \in DOMAIN fw.nat : Proto(fw.nat[i].key) = p /\ fw.nat[i].iaddr = a
                                                /\ fw.nat[i].iport = q}
           F(p, a, q) == {i \in DOMAIN fw.filter : fw.filter[i].proto = p /\ fw.filter[i].iaddr = a
                                                   /\ fw.filter[i].iport = q}
<1>3. \A p, a, q : /\ Positions(fw.nat, NatAt(p, a, q)) = N(p, a, q)
                   /\ Positions(fw.filter, AcceptAt(p, a, q)) = F(p, a, q)
  BY <1>2 DEF Positions, NatAt, AcceptAt
<1>4. AcceptPerRule <=> \A p \in Protos, a \in Clients, q \in Iports :
                          Cardinality(N(p, a, q)) = Cardinality(F(p, a, q))
  BY DEF AcceptPerRule
<1> HIDE DEF N, F
<1>5. QED BY <1>3, <1>4 DEF Balanced, CountIn

LEMMA EmptyBalanced == Balanced(EmptyFirewall)
<1>1. \A T : Positions(<<>>, T) = {}
  BY DEF Positions
<1>2. QED BY <1>1 DEF Balanced, CountIn, EmptyFirewall

LEMMA BalancedAdd ==
  ASSUME NEW f \in Firewalls, NEW g, NEW r, NEW e, SameEnd(r, e), Balanced(f),
         g.nat = Append(f.nat, r), g.filter = Append(f.filter, e)
  PROVE  Balanced(g)
<1>1. f.nat \in Seq(NatRules) /\ f.filter \in Seq(FilterRules)
  BY DEF Firewalls
<1>2. ASSUME NEW p \in Protos, NEW a \in Clients, NEW q \in Iports
      PROVE  CountIn(g.nat, NatAt(p, a, q)) = CountIn(g.filter, AcceptAt(p, a, q))
  <2>1. CountIn(g.nat, NatAt(p, a, q)) = CountIn(f.nat, NatAt(p, a, q)) + One(r, NatAt(p, a, q))
    BY <1>1, CountAppend DEF SameEnd
  <2>2. CountIn(g.filter, AcceptAt(p, a, q))
          = CountIn(f.filter, AcceptAt(p, a, q)) + One(e, AcceptAt(p, a, q))
    BY <1>1, CountAppend DEF SameEnd
  <2>3. QED BY <2>1, <2>2, SameOne DEF Balanced
<1>3. QED BY <1>2 DEF Balanced

LEMMA BalancedRemove ==
  ASSUME NEW f \in Firewalls, NEW g, NEW i \in 1..Len(f.nat), NEW j \in 1..Len(f.filter),
         SameEnd(f.nat[i], f.filter[j]), Balanced(f),
         g.nat = RemoveAt(f.nat, i), g.filter = RemoveAt(f.filter, j)
  PROVE  Balanced(g)
<1>1. f.nat \in Seq(NatRules) /\ f.filter \in Seq(FilterRules)
  BY DEF Firewalls
<1>2. ASSUME NEW p \in Protos, NEW a \in Clients, NEW q \in Iports
      PROVE  CountIn(g.nat, NatAt(p, a, q)) = CountIn(g.filter, AcceptAt(p, a, q))
  <2>1. CountIn(g.nat, NatAt(p, a, q))
          = CountIn(f.nat, NatAt(p, a, q)) - One(f.nat[i], NatAt(p, a, q))
    BY <1>1, CountRemove
  <2>2. CountIn(g.filter, AcceptAt(p, a, q))
          = CountIn(f.filter, AcceptAt(p, a, q)) - One(f.filter[j], AcceptAt(p, a, q))
    BY <1>1, CountRemove
  <2>3. QED BY <2>1, <2>2, SameOne DEF Balanced
<1>3. QED BY <1>2 DEF Balanced

LEMMA BalancedReplace ==
  ASSUME NEW f \in Firewalls, NEW g, NEW i \in 1..Len(f.nat), NEW j \in 1..Len(f.filter),
         NEW r, NEW e, SameEnd(f.nat[i], f.filter[j]), SameEnd(r, e), Balanced(f),
         g.nat = [f.nat EXCEPT ![i] = r], g.filter = [f.filter EXCEPT ![j] = e]
  PROVE  Balanced(g)
<1>1. f.nat \in Seq(NatRules) /\ f.filter \in Seq(FilterRules)
  BY DEF Firewalls
<1>2. ASSUME NEW p \in Protos, NEW a \in Clients, NEW q \in Iports
      PROVE  CountIn(g.nat, NatAt(p, a, q)) = CountIn(g.filter, AcceptAt(p, a, q))
  <2>1. CountIn(g.nat, NatAt(p, a, q))
          = (CountIn(f.nat, NatAt(p, a, q)) - One(f.nat[i], NatAt(p, a, q))) + One(r, NatAt(p, a, q))
    BY <1>1, CountReplace
  <2>2. CountIn(g.filter, AcceptAt(p, a, q))
          = (CountIn(f.filter, AcceptAt(p, a, q)) - One(f.filter[j], AcceptAt(p, a, q)))
              + One(e, AcceptAt(p, a, q))
    BY <1>1, CountReplace
  <2>3. QED BY <2>1, <2>2, SameOne DEF Balanced
<1>3. QED BY <1>2 DEF Balanced

(* The search for the ACCEPT rule of a redirection finds one *)
LEMMA AcceptFound ==
  ASSUME NEW f \in Firewalls, Balanced(f), NEW key, key \in KeysOf(f.nat)
  PROVE  /\ NatIndex(f, key) \in 1..Len(f.nat)
         /\ AcceptOf(f, key) \in 1..Len(f.filter)
         /\ SameEnd(f.nat[NatIndex(f, key)], f.filter[AcceptOf(f, key)])
<1> DEFINE n == NatIndex(f, key)
           r == f.nat[n]
           i == AcceptOf(f, key)
           p == Proto(key)
<1>1. f.nat \in Seq(NatRules) /\ f.filter \in Seq(FilterRules)
  BY DEF Firewalls
<1>2. n \in 0..Len(f.nat) /\ n # 0 /\ r.key = key
  BY NatIndexFacts
<1>3. i = FilterIndex(f, p, r.iaddr, r.iport)
  BY DEF AcceptOf, RuleOf
<1> HIDE DEF n, i
<1>4. n \in 1..Len(f.nat) /\ Len(f.filter) \in Nat
  BY <1>1, <1>2, DomainIsLen
<1>5. r \in NatRules /\ n \in DOMAIN f.nat
  BY <1>1, <1>4, DomainIsLen
<1>6. p \in Protos /\ r.iaddr \in Clients /\ r.iport \in Iports
  BY <1>2, <1>5 DEF NatRules, Keys, Proto
<1>7. r \in NatAt(p, r.iaddr, r.iport)
  BY <1>2, <1>5 DEF NatAt
<1> HIDE DEF r, p
<1>8. CountIn(f.nat, NatAt(p, r.iaddr, r.iport)) # 0
  BY <1>1, <1>5, <1>7, CountType DEF r
<1>9. CountIn(f.filter, AcceptAt(p, r.iaddr, r.iport)) # 0
  BY <1>6, <1>8 DEF Balanced
<1>10. PICK j \in DOMAIN f.filter : f.filter[j] \in AcceptAt(p, r.iaddr, r.iport)
  BY <1>1, <1>9, CountType
<1>11. j \in 1..Len(f.filter)
  BY <1>1, DomainIsLen
<1>12. /\ i \in 0..Len(f.filter) /\ i # 0
       /\ f.filter[i].proto = p /\ f.filter[i].iaddr = r.iaddr /\ f.filter[i].iport = r.iport
  BY <1>3, <1>10, <1>11, FilterIndexFacts DEF AcceptAt
<1>13. i \in 1..Len(f.filter)
  BY <1>4, <1>12
<1>14. f.filter[i] \in FilterRules
  BY <1>1, <1>13, DomainIsLen
<1>15. SameEnd(r, f.filter[i])
  BY <1>2, <1>5, <1>12, <1>14 DEF SameEnd, p
<1>16. QED BY <1>4, <1>13, <1>15 DEF n, i, r

-----------------------------------------------------------------------------
(* The operations, when nothing fails *)

LEMMA InternalChains ==
  ASSUME NEW d \in Daemons, NEW m \in Mappings, NEW timestamp
  PROVE  LET res == upnp_redirect_internal(d, m, timestamp, {})
         IN \/ disabled /\ res.d = d /\ res.r = -1
            \/ /\ ~disabled /\ res.r = 0
               /\ res.d.fw.nat = Append(d.fw.nat, NewRule(m))
               /\ res.d.fw.filter = Append(d.fw.filter,
                    [proto |-> Proto(m.key), iaddr |-> m.iaddr, iport |-> m.iport,
                     rhost |-> m.rhost])
<1> DEFINE res == upnp_redirect_internal(d, m, timestamp, {})
           rdr == add_redirect_rule2(d.fw, m, timestamp, {})
           acc == add_filter_rule2(rdr.fw, m, {})
           file == lease_file_add(d.lease, m, timestamp, {})
           later == IF timestamp > 0 /\ (d.next = 0 \/ timestamp < d.next)
                    THEN timestamp ELSE d.next
           e == [proto |-> Proto(m.key), iaddr |-> m.iaddr, iport |-> m.iport, rhost |-> m.rhost]
<1>1. d.fw = [nat |-> d.fw.nat, filter |-> d.fw.filter, desc |-> d.fw.desc,
              peer |-> d.fw.peer, mangle |-> d.fw.mangle]
  BY DEF Daemons, Firewalls
<1>2. rdr = [fw |-> [d.fw EXCEPT !.nat = addnatrule(@, m),
                                 !.desc = add_redirect_desc(@, m.key, m.str, timestamp)], r |-> 0]
  BY DEF add_redirect_rule2, Answer
<1>3. rdr.r = 0 /\ rdr.fw = [d.fw EXCEPT !.nat = addnatrule(@, m),
                                         !.desc = add_redirect_desc(@, m.key, m.str, timestamp)]
  BY <1>2
<1> HIDE DEF rdr
<1>4. /\ rdr.fw.nat = Append(d.fw.nat, NewRule(m)) /\ rdr.fw.filter = d.fw.filter
      /\ rdr.fw = [nat |-> rdr.fw.nat, filter |-> rdr.fw.filter, desc |-> rdr.fw.desc,
                   peer |-> rdr.fw.peer, mangle |-> rdr.fw.mangle]
  BY <1>1, <1>3 DEF addnatrule, NewRule
<1>5. acc = [fw |-> [rdr.fw EXCEPT !.filter = Append(@, e)], r |-> 0]
  BY DEF add_filter_rule2, Answer, add_filter_rule
<1>6. acc.r = 0 /\ acc.fw = [rdr.fw EXCEPT !.filter = Append(@, e)]
  BY <1>5
<1> HIDE DEF acc, e
<1>7. acc.fw.nat = rdr.fw.nat /\ acc.fw.filter = Append(rdr.fw.filter, e)
  BY <1>4, <1>6
<1>8. res = IF disabled \/ rdr.r < 0 THEN [d |-> d, r |-> -1]
            ELSE IF acc.r < 0
            THEN [d |-> [fw |-> rdr.fw, lease |-> file, next |-> d.next,
                         announced |-> d.announced], r |-> -1]
            ELSE [d |-> [fw |-> acc.fw, lease |-> file, next |-> later,
                         announced |-> Len(acc.fw.nat)], r |-> 0]
  BY DEF upnp_redirect_internal, Result, rdr, acc
<1> HIDE DEF res, later, file
<1>9. CASE disabled
  BY <1>8, <1>9 DEF res
<1>10. CASE ~disabled
  <2>1. res.r = 0 /\ res.d.fw = acc.fw
    BY <1>3, <1>6, <1>8, <1>10
  <2>2. QED BY <1>4, <1>7, <1>10, <2>1 DEF res, e
<1>11. QED BY <1>9, <1>10

LEMMA InternalBalanced ==
  ASSUME NEW d \in Daemons, NEW m \in Mappings, NEW timestamp \in Nat, Balanced(d.fw)
  PROVE  Balanced(upnp_redirect_internal(d, m, timestamp, {}).d.fw)
<1> DEFINE res == upnp_redirect_internal(d, m, timestamp, {})
           e == [proto |-> Proto(m.key), iaddr |-> m.iaddr, iport |-> m.iport, rhost |-> m.rhost]
<1>1. \/ res.d = d
      \/ /\ res.d.fw.nat = Append(d.fw.nat, NewRule(m))
         /\ res.d.fw.filter = Append(d.fw.filter, e)
  BY InternalChains
<1>2. SameEnd(NewRule(m), e)
  <2>1. m.key \in Keys
    BY DEF Mappings
  <2>2. Proto(m.key) \in Protos
    BY <2>1 DEF Keys, Proto
  <2>3. QED BY <2>2 DEF SameEnd, NewRule, NatRules, FilterRules, Mappings
<1>3. d.fw \in Firewalls
  BY DEF Daemons
<1> HIDE DEF res, e
<1>4. QED BY <1>1, <1>2, <1>3, BalancedAdd DEF res

LEMMA DeleteBalanced ==
  ASSUME NEW d \in Daemons, NEW key, Balanced(d.fw)
  PROVE  Balanced(_upnp_delete_redir(d, key, {}).d.fw)
<1> DEFINE f == d.fw
           g == _upnp_delete_redir(d, key, {}).d.fw
           n == NatIndex(f, key)
           i == AcceptOf(f, key)
           del == delete_redirect_and_filter_rules(f, key, {})
<1>1. f \in Firewalls
  BY DEF Daemons
<1>2. g = del.fw
  BY DEF _upnp_delete_redir, Result
<1>3. /\ del.fw.nat = IF key \in KeysOf(f.nat) THEN RemoveAt(f.nat, n) ELSE f.nat
      /\ del.fw.filter = IF key \in KeysOf(f.nat) /\ i # 0 THEN RemoveAt(f.filter, i) ELSE f.filter
  <2> DEFINE fails == {}
  <2>1. "delete" \notin fails /\ "nat" \notin fails /\ fails = {}
    OBVIOUS
  <2>2. LET out == delete_redirect_and_filter_rules(f, key, fails)
        IN /\ out.fw.nat = IF key \in KeysOf(f.nat) THEN RemoveAt(f.nat, n) ELSE f.nat
           /\ out.fw.filter = IF key \in KeysOf(f.nat) /\ i # 0
                              THEN RemoveAt(f.filter, i) ELSE f.filter
    <3> HIDE DEF fails
    <3>1. QED BY <1>1, <2>1, DeleteFacts DEF Removes
  <2>3. QED BY <2>2
<1> HIDE DEF g, del
<1>4. CASE key \notin KeysOf(f.nat)
  BY <1>2, <1>3, <1>4 DEF Balanced, g
<1>5. CASE key \in KeysOf(f.nat)
  <2>1. n \in 1..Len(f.nat) /\ i \in 1..Len(f.filter) /\ SameEnd(f.nat[n], f.filter[i])
    BY <1>1, <1>5, AcceptFound
  <2>2. i # 0
    BY <2>1
  <2>3. g.nat = RemoveAt(f.nat, n) /\ g.filter = RemoveAt(f.filter, i)
    BY <1>2, <1>3, <1>5, <2>2
  <2> HIDE DEF n, i, f
  <2>4. Balanced(g)
    BY <1>1, <2>1, <2>3, BalancedRemove DEF f
  <2>5. QED BY <2>4 DEF g
<1>6. QED BY <1>4, <1>5

LEMMA UpdateBalanced ==
  ASSUME NEW d \in Daemons, NEW m \in Mappings, NEW timestamp \in Nat, Balanced(d.fw),
         m.key \in KeysOf(d.fw.nat)
  PROVE  /\ Balanced(UpdateExisting(d, m, timestamp, {}).d.fw)
         /\ UpdateExisting(d, m, timestamp, {}).r = 0
<1> DEFINE f == d.fw
           fails == {}
           res == UpdateExisting(d, m, timestamp, fails)
           port == update_portmapping(f, m.key, m.iport, m.str, timestamp, fails)
           desc == update_portmapping_desc_timestamp(f, m.key, m.str, timestamp)
           n == NatIndex(f, m.key)
           i == AcceptOf(f, m.key)
           r == [f.nat[n] EXCEPT !.iport = m.iport]
           e == [f.filter[i] EXCEPT !.iport = m.iport]
<1>1. f \in Firewalls
  BY DEF Daemons
<1>2. m.key \in Keys /\ m.iport \in Iports /\ m.str \in Descriptions
  BY DEF Mappings, Descriptions
<1>3. res.d.fw = (IF m.iport # RuleOf(f, m.key).iport THEN port ELSE desc).fw
      /\ res.r = (IF m.iport # RuleOf(f, m.key).iport THEN port ELSE desc).r
  BY DEF UpdateExisting, Result
<1>4. n \in 1..Len(f.nat) /\ i \in 1..Len(f.filter) /\ SameEnd(f.nat[n], f.filter[i])
  BY <1>1, AcceptFound
<1>5. i # 0 /\ fails = {}
  BY <1>4
<1> HIDE DEF fails
<1>6. desc.fw.nat = f.nat /\ desc.fw.filter = f.filter /\ desc.r = 0
  BY <1>1, <1>2, UpdateDescFacts
<1>7. /\ port.r = 0
      /\ port.fw.nat = MovedTo(f.nat, n, m.iport)
      /\ port.fw.filter = MovedTo(f.filter, i, m.iport)
  <2>0. Updated(f, port, m.key, m.iport, m.str, timestamp, fails)
    <3>1. f \in Firewalls /\ m.key \in Keys /\ m.iport \in Iports /\ m.str \in Descriptions
          /\ timestamp \in Nat
      BY <1>1, <1>2
    <3>2. QED BY ONLY <3>1, UpdateFacts
  <2>1. /\ (fails = {} /\ m.key \in KeysOf(f.nat) /\ i # 0) => port.r = 0
        /\ port.r = 0 => /\ port.fw.nat = MovedTo(f.nat, n, m.iport)
                         /\ port.fw.filter = MovedTo(f.filter, i, m.iport)
    BY <2>0 DEF Updated
  <2>2. QED BY <1>5, <2>1
<1> HIDE DEF n, i, port, desc, f
<1>8. port.fw.nat = [f.nat EXCEPT ![n] = r] /\ port.fw.filter = [f.filter EXCEPT ![i] = e]
  BY <1>7 DEF MovedTo
<1>9. SameEnd(r, e)
  BY <1>2, <1>4 DEF SameEnd, NatRules, FilterRules
<1> HIDE DEF r, e
<1>10. Balanced(port.fw)
  BY <1>1, <1>4, <1>8, <1>9, BalancedReplace DEF f
<1>11. Balanced(desc.fw)
  BY <1>6 DEF Balanced, f
<1> HIDE DEF res
<1>12. Balanced(res.d.fw) /\ res.r = 0
  BY <1>3, <1>6, <1>7, <1>10, <1>11
<1>13. QED BY <1>12 DEF res, fails

LEMMA RedirectBalanced ==
  ASSUME NEW d \in Daemons, NEW m \in Mappings, NEW leaseduration \in Nat, now \in Nat,
         Balanced(d.fw)
  PROVE  Balanced(upnp_redirect(d, m, leaseduration, {}).d.fw)
<1> DEFINE res == upnp_redirect(d, m, leaseduration, {})
           upd == UpdateExisting(d, m, Timestamp(leaseduration), {})
           new == upnp_redirect_internal(d, m, Timestamp(leaseduration), {})
<1>1. Timestamp(leaseduration) \in Nat
  BY TimestampType
<1>2. \/ \E n \in {-2, -3, -4} : res = [d |-> d, r |-> n]
      \/ res = upd /\ get_redirect_rule(d.fw, m.key, {}) = 0
      \/ res = new
  BY DEF upnp_redirect, Result
<1>3. d.fw \in Firewalls
  BY DEF Daemons
<1> HIDE DEF res
<1>4. CASE \E n \in {-2, -3, -4} : res = [d |-> d, r |-> n]
  BY <1>4 DEF res
<1>5. CASE res = upd /\ get_redirect_rule(d.fw, m.key, {}) = 0
  <2>1. m.key \in KeysOf(d.fw.nat)
    BY <1>3, <1>5, NatIndexFacts DEF get_redirect_rule
  <2>2. QED BY <1>1, <1>5, <2>1, UpdateBalanced DEF res
<1>6. CASE res = new
  BY <1>1, <1>6, InternalBalanced DEF res
<1>7. QED BY <1>2, <1>4, <1>5, <1>6

LEMMA OutcomeBalanced ==
  ASSUME TypeOK, Balanced(fw), NEW m \in Mappings, NEW t \in Nat, NEW res, RedirectOutcome(res, m, t, {})
  PROVE  Balanced(res.d.fw)
<1> DEFINE del == _upnp_delete_redir(Daemon, m.key, {})
           ts == Timestamp(t)
<1>1. Daemon \in Daemons /\ Daemon.fw = fw /\ now \in Nat
  BY TypeParts, DaemonType DEF RestOK
<1>2. ts \in Nat
  BY <1>1, TimestampType
<1>3. del.d \in Daemons /\ Balanced(del.d.fw)
  BY <1>1, DeleteRedirFacts, DeleteBalanced
<1>4. \/ res = upnp_redirect(Daemon, m, t, {})
      \/ res = upnp_redirect_internal(Daemon, m, ts, {})
      \/ res = [d |-> Daemon, r |-> -1]
      \/ res = [d |-> del.d, r |-> 0]
      \/ res = upnp_redirect_internal(del.d, m, ts, {})
  BY DEF RedirectOutcome, NatpmpOutcome, Result
<1> HIDE DEF del, ts
<1>5. CASE res = upnp_redirect(Daemon, m, t, {})
  BY <1>1, <1>5, RedirectBalanced
<1>6. CASE res = upnp_redirect_internal(Daemon, m, ts, {})
  BY <1>1, <1>2, <1>6, InternalBalanced
<1>7. CASE res = [d |-> Daemon, r |-> -1] \/ res = [d |-> del.d, r |-> 0]
  BY <1>1, <1>3, <1>7
<1>8. CASE res = upnp_redirect_internal(del.d, m, ts, {})
  BY <1>2, <1>3, <1>8, InternalBalanced
<1>9. QED BY <1>4, <1>5, <1>6, <1>7, <1>8

-----------------------------------------------------------------------------
(* One ACCEPT rule for each redirection *)

BalanceInv == TypeOK /\ Balanced(fw)

LEMMA BalanceStep ==
  ASSUME NoFaults, BalanceInv, [Next]_vars
  PROVE  BalanceInv'
<1>0. TypeOK /\ Balanced(fw) /\ TypeOK'
  BY TypeStep DEF BalanceInv
<1>1. /\ Daemon \in Daemons /\ Daemon.fw = fw /\ fw \in Firewalls /\ now \in Nat
  BY <1>0, TypeParts, DaemonType DEF DaemonOK, RestOK
<1> SUFFICES Balanced(fw')
  BY <1>0 DEF BalanceInv, Balanced
<1>2. CASE UNCHANGED fw
  BY <1>0, <1>2
<1>3. ASSUME NEW fails \in Faults, StepKind(fails) PROVE Balanced(fw')
  <2>0. fails = {}
    BY DEF NoFaults
  <2>1. CASE RequestStep(fails)
    <3>0. PICK m \in Mappings, t \in Nat : \E res : RedirectOutcome(res, m, t, {}) /\ Replied(res, m, t)
      BY <2>0, <2>1 DEF RequestStep
    <3>1. PICK res : RedirectOutcome(res, m, t, {}) /\ Replied(res, m, t)
      BY <3>0
    <3>2. fw' = res.d.fw
      BY <3>1 DEF Replied, Becomes
    <3>3. QED BY <1>0, <3>1, <3>2, OutcomeBalanced
  <2>2. ASSUME NEW k \in Keys, DeleteStep(k, fails) PROVE Balanced(fw')
    <3>1. fw' = _upnp_delete_redir(Daemon, k, {}).d.fw
      BY <2>0, <2>2 DEF DeleteStep, Becomes
    <3>2. QED BY <1>0, <1>1, <3>1, DeleteBalanced
  <2>3. CASE ListStep
    BY <1>2, <2>3 DEF ListStep
  <2>4. CASE DeleteNext(fails)
    <3>1. /\ Head(todo.entries).key \in Keys
          /\ \/ UNCHANGED fw
             \/ DeleteStep(Head(todo.entries).key, fails)
      BY <1>0, <2>4, DeleteNextFacts DEF Entry
    <3>2. QED BY <1>2, <2>2, <3>1
  <2>5. CASE reload_from_lease_file(fails)
    <3> DEFINE line == Head(reload)
    <3>1. /\ line \in Lines
          /\ \/ UNCHANGED fw
             \/ \E t \in Nat : Becomes(upnp_redirect(Daemon, line.map, t, {}).d)
      BY <1>0, <2>0, <2>5, ReloadFacts
    <3>2. line.map \in Mappings
      BY <3>1 DEF Lines
    <3> HIDE DEF line
    <3>3. ASSUME NEW t \in Nat, Becomes(upnp_redirect(Daemon, line.map, t, {}).d)
          PROVE  Balanced(fw')
      <4>1. fw' = upnp_redirect(Daemon, line.map, t, {}).d.fw
        BY <3>3 DEF Becomes
      <4>2. QED BY <1>0, <1>1, <3>2, <4>1, RedirectBalanced
    <3>4. QED BY <1>2, <3>1, <3>3
  <2>6. QED BY <1>3, <2>1, <2>2, <2>3, <2>4, <2>5 DEF StepKind
<1>4. CASE Environment
  <2>1. ASSUME NEW flushed \in BOOLEAN, Restart(flushed) PROVE Balanced(fw')
    <3>1. fw' = EmptyFirewall \/ (fw'.nat = fw.nat /\ fw'.filter = fw.filter)
      BY <1>0, <2>1, RestartFacts
    <3>2. QED BY <1>0, <3>1, EmptyBalanced DEF Balanced
  <2>2. ASSUME NEW i \in DOMAIN fw.nat, Traffic(i) PROVE Balanced(fw')
    <3>1. /\ fw' \in Firewalls /\ fw'.filter = fw.filter /\ DOMAIN fw'.nat = DOMAIN fw.nat
          /\ \A j \in DOMAIN fw.nat : /\ fw'.nat[j].key = fw.nat[j].key
                                      /\ fw'.nat[j].iaddr = fw.nat[j].iaddr
                                      /\ fw'.nat[j].iport = fw.nat[j].iport
      BY <1>0, <2>2, TrafficFacts
    <3>2. \A j \in DOMAIN fw.nat : fw.nat[j] \in NatRules /\ fw'.nat[j] \in NatRules
      <4>1. fw.nat \in Seq(NatRules) /\ fw'.nat \in Seq(NatRules)
        BY <1>1, <3>1 DEF Firewalls
      <4>2. QED BY <3>1, <4>1, DomainIsLen
    <3>3. \A p, a, q : Positions(fw'.nat, NatAt(p, a, q)) = Positions(fw.nat, NatAt(p, a, q))
      BY <3>1, <3>2 DEF Positions, NatAt
    <3>4. QED BY <1>0, <3>1, <3>3 DEF Balanced, CountIn
  <2>3. QED BY <1>2, <1>4, <2>1, <2>2
        DEF Environment, update_disable_port_forwarding, Tick
<1>5. QED BY <1>0, <1>2, <1>3, <1>4, StepKinds DEF vars

LEMMA BalanceInit == Init => BalanceInv
BY TypeInit, EmptyBalanced DEF BalanceInv, Init

(* Theorem: when no step fails, the chain of ACCEPT rules has, for every    *)
(* internal endpoint, as many rules as the redirections to it: although an  *)
(* ACCEPT rule is found by protocol, address and port only, deletions and   *)
(* moves of the internal port never take or change the rule of another      *)
(* redirection without an equal one being left.                             *)
THEOREM AcceptRulesMatch ==
  ASSUME NoFaults
  PROVE  Spec => []AcceptPerRule
<1>1. BalanceInv /\ [Next]_vars => BalanceInv'
  BY BalanceStep
<1>2. BalanceInv => AcceptPerRule
  BY BalancedMeans, TypeParts DEF BalanceInv, DaemonOK
<1>3. QED BY <1>1, <1>2, BalanceInit, PTL DEF Spec

-----------------------------------------------------------------------------
(* What was granted is there *)

(* No unsigned timestamp wraps, in either clock *)
NoWrap == MaxLease + UnixOffset < Word

(* The client was told that it has k, and still has the right to it *)
Due(k) == granted[k] # NULL /\ (granted[k].until = 0 \/ now < granted[k].until)

(* The line l keeps the promise about k: over a restart it makes the rule   *)
(* again, and but for that time the rule is there.                          *)
Held(k, l) ==
  /\ l.map.key = k /\ l.map.iaddr = granted[k].iaddr /\ l.map.iport = granted[k].iport
  /\ l.timestamp = ToUnix(granted[k].until) /\ granted[k].until <= MaxLease
  /\ Permitted(l.map)
  /\ \A x \in ToSet(lease) \cup ToSet(reload) : x.map.key = k => x = l
  /\ l \in ToSet(reload) \/ (l \in ToSet(lease) /\ k \in KeysOf(fw.nat))
  /\ \A r \in ToSet(fw.nat) : r.key = k => Serves(r, l.map)
  /\ \A e \in ToSet(fw.desc) : e.key = k => e.timestamp = granted[k].until
  /\ todo.why = "expired" => k \notin KeysOf(todo.entries)

GrantInv ==
  /\ KnownInv /\ Balanced(fw) /\ disabled = FALSE
  /\ (KeysOf(fw.nat) \cup LineKeys(lease) \cup LineKeys(reload)) \cap InUse = {}
  /\ \A k \in Keys : Due(k) => \E l \in ToSet(lease) \cup ToSet(reload) : Held(k, l)

(* What an operation on the mapping of key leaves alone: all other rules,   *)
(* descriptions and lines                                                   *)
Without(list, key) == {x \in ToSet(list) : x.key # key}
LinesWithout(file, key) == {x \in ToSet(file) : x.map.key # key}

Apart(d, e, key) ==
  /\ Without(e.fw.nat, key) = Without(d.fw.nat, key)
  /\ Without(e.fw.desc, key) = Without(d.fw.desc, key)
  /\ LinesWithout(e.lease, key) = LinesWithout(d.lease, key)

(* The mapping m, ending at ts, is in the chain, in the list of             *)
(* descriptions and in the lease file, and nothing else is for its key      *)
LineOf(m, ts) == [map |-> m, timestamp |-> ToUnix(ts)]

Made(d, m, ts) ==
  /\ m.key \in KeysOf(d.fw.nat)
  /\ \A r \in ToSet(d.fw.nat) : r.key = m.key => Serves(r, m)
  /\ \A x \in ToSet(d.fw.desc) : x.key = m.key => x.timestamp = ts
  /\ LineOf(m, ts) \in ToSet(d.lease)
  /\ \A x \in ToSet(d.lease) : x.map.key = m.key => x = LineOf(m, ts)

(* The daemon's lists agree with each other *)
Sound(d) ==
  /\ d \in Daemons
  /\ Tidy(d.fw) /\ Balanced(d.fw)
  /\ LineKeys(d.lease) \subseteq KeysOf(d.fw.nat)

LEMMA LineAdded ==
  ASSUME NEW file \in Seq(Lines), NEW m \in Mappings, NEW timestamp \in Nat
  PROVE  LET added == lease_file_add(file, m, timestamp, {})
         IN \A x : x \in ToSet(added) <=> (x \in ToSet(file) \/ x = LineOf(m, timestamp))
<1> DEFINE added == lease_file_add(file, m, timestamp, {})
           l == [map |-> m, timestamp |-> ToUnix(timestamp)]
<1>1. ToSet(added) = ToSet(file) \cup {l}
  BY LeaseAddFacts, Zenon
<1>2. l = LineOf(m, timestamp)
  BY DEF LineOf
<1> HIDE DEF l, added
<1>3. \A x : x \in ToSet(added) <=> (x \in ToSet(file) \/ x = l)
  BY <1>1
<1>4. QED BY <1>2, <1>3, Zenon DEF added

LEMMA InternalMade ==
  ASSUME NEW d, Sound(d), NEW m \in Mappings, NEW timestamp \in Nat, ~disabled,
         m.key \notin KeysOf(d.fw.nat)
  PROVE  LET res == upnp_redirect_internal(d, m, timestamp, {})
         IN res.r = 0 /\ Apart(d, res.d, m.key) /\ Made(res.d, m, timestamp)
<1> DEFINE res == upnp_redirect_internal(d, m, timestamp, {})
           l == LineOf(m, timestamp)
           r1 == NewRule(m)
           e1 == NewDesc(m.key, m.str, timestamp)
<1>1. d \in Daemons /\ d.fw \in Firewalls /\ d.lease \in Seq(Lines)
  BY DEF Sound, Daemons
<1>2. /\ RuleAdded(d.fw, res.d.fw, m, timestamp) /\ res.r = 0
      /\ res.d.lease = lease_file_add(d.lease, m, timestamp, {})
  BY <1>1, InternalFacts
<1> HIDE DEF res
<1>3. ToSet(res.d.lease) = ToSet(d.lease) \cup {l}
  BY <1>1, <1>2, LineAdded
<1>4. Serves(r1, m) /\ r1.key = m.key /\ e1.key = m.key /\ e1.timestamp = timestamp /\ l.map = m
  BY DEF Serves, NewRule, NewDesc, LineOf
<1>5. /\ \A r \in ToSet(d.fw.nat) : r.key # m.key
      /\ \A e \in ToSet(d.fw.desc) : e.key # m.key
      /\ \A x \in ToSet(d.lease) : x.map.key # m.key
  BY KeysOfSet, LineKeysOfSet DEF Described, Sound, Tidy
<1> HIDE DEF l, r1, e1
<1>6. /\ ToSet(res.d.fw.nat) = ToSet(d.fw.nat) \cup {r1}
      /\ ToSet(res.d.fw.desc) = ToSet(d.fw.desc) \cup {e1}
      /\ m.key \in KeysOf(res.d.fw.nat)
  BY <1>2 DEF RuleAdded, r1, e1
<1>7. Made(res.d, m, timestamp)
  BY <1>3, <1>4, <1>5, <1>6 DEF Made, l
<1>8. Apart(d, res.d, m.key)
  BY <1>3, <1>4, <1>5, <1>6 DEF Apart, Without, LinesWithout
<1>9. QED BY <1>2, <1>7, <1>8 DEF res

LEMMA UpdateMade ==
  ASSUME NEW d, Sound(d), NEW m \in Mappings, NEW timestamp \in Nat,
         m.key \in KeysOf(d.fw.nat),
         RuleOf(d.fw, m.key).iaddr = m.iaddr, RuleOf(d.fw, m.key).rhost = m.rhost
  PROVE  LET res == UpdateExisting(d, m, timestamp, {})
         IN res.r = 0 /\ Apart(d, res.d, m.key) /\ Made(res.d, m, timestamp)
<1> DEFINE res == UpdateExisting(d, m, timestamp, {})
           l == LineOf(m, timestamp)
           e1 == NewDesc(m.key, m.str, timestamp)
           removed == lease_file_remove(d.lease, m.key, {})
<1>1. d \in Daemons /\ d.fw \in Firewalls /\ d.lease \in Seq(Lines) /\ Tidy(d.fw)
  BY DEF Sound, Daemons
<1>2. res.r = 0
  BY <1>1, UpdateBalanced DEF Sound
<1>3. /\ KeysOf(res.d.fw.nat) = KeysOf(d.fw.nat)
      /\ RulesFrom(d.fw, res.d.fw, m)
      /\ \A r \in ToSet(res.d.fw.nat) : r.key = m.key => Serves(r, m)
      /\ DescReplaced(d.fw, res.d.fw, m.key, m.str, timestamp)
      /\ res.d.lease = lease_file_add(removed, m, timestamp, {})
  BY <1>1, <1>2, UpdateExistingFacts
<1> HIDE DEF res
<1>4. removed \in Seq(Lines) /\ ToSet(removed) = LinesWithout(d.lease, m.key)
  BY <1>1, LeaseRemoveFacts DEF LinesWithout
<1> HIDE DEF removed
<1>5. ToSet(res.d.lease) = LinesWithout(d.lease, m.key) \cup {l}
  BY <1>3, <1>4, LineAdded
<1>6. e1.key = m.key /\ e1.timestamp = timestamp /\ l.map = m
  BY DEF NewDesc, LineOf
<1> HIDE DEF l, e1
<1>7. ToSet(res.d.fw.desc) = Without(d.fw.desc, m.key) \cup {e1}
  BY <1>3 DEF DescReplaced, Without, e1
<1>8. Without(res.d.fw.nat, m.key) = Without(d.fw.nat, m.key)
  BY <1>3 DEF RulesFrom, Without, Serves
<1>9. Made(res.d, m, timestamp)
  BY <1>3, <1>5, <1>6, <1>7 DEF Made, Without, LinesWithout, l
<1>10. Apart(d, res.d, m.key)
  BY <1>5, <1>6, <1>7, <1>8 DEF Apart, Without, LinesWithout
<1>11. QED BY <1>2, <1>9, <1>10 DEF res

LEMMA RedirectMade ==
  ASSUME NEW d, Sound(d), NEW m \in Mappings, NEW t \in Nat, now \in Nat, ~disabled
  PROVE  LET res == upnp_redirect(d, m, t, {})
         IN /\ Apart(d, res.d, m.key)
            /\ res.r = 0 => /\ Permitted(m) /\ Made(res.d, m, Timestamp(t))
                            /\ m.key \in KeysOf(d.fw.nat) \/ m.key \notin InUse
            /\ res.r # 0 => res.d = d
            /\ (/\ Permitted(m) /\ m.key \notin InUse
                /\ \A r \in ToSet(d.fw.nat) : r.key = m.key => Serves(r, m)) => res.r = 0
<1> DEFINE res == upnp_redirect(d, m, t, {})
           old == RuleOf(d.fw, m.key)
           same == old.iaddr = m.iaddr /\ old.rhost = m.rhost
           there == m.key \in KeysOf(d.fw.nat)
           upd == UpdateExisting(d, m, Timestamp(t), {})
           new == upnp_redirect_internal(d, m, Timestamp(t), {})
<1>1. Timestamp(t) \in Nat
  BY TimestampType
<1>2. d.fw \in Firewalls
  BY DEF Sound, Daemons
<1>3. get_redirect_rule(d.fw, m.key, {}) = 0 <=> there
  BY <1>2, NatIndexFacts DEF get_redirect_rule
<1>4. res = IF ~Permitted(m) THEN [d |-> d, r |-> -3]
            ELSE IF get_redirect_rule(d.fw, m.key, {}) = 0
            THEN IF same THEN upd ELSE [d |-> d, r |-> -2]
            ELSE IF m.key \in InUse THEN [d |-> d, r |-> -4]
            ELSE new
  BY DEF upnp_redirect, Result
<1>5. Apart(d, d, m.key)
  BY DEF Apart
<1>6. (there /\ same) => upd.r = 0 /\ Apart(d, upd.d, m.key) /\ Made(upd.d, m, Timestamp(t))
  BY <1>1, UpdateMade
<1>7. ~there => new.r = 0 /\ Apart(d, new.d, m.key) /\ Made(new.d, m, Timestamp(t))
  BY <1>1, InternalMade
<1>8. (there /\ \A r \in ToSet(d.fw.nat) : r.key = m.key => Serves(r, m)) => same
  BY <1>2, RuleOfFacts DEF Serves
<1> HIDE DEF res, upd, new, same, there
<1>9. CASE ~Permitted(m)
  BY <1>4, <1>5, <1>9 DEF res
<1>10. CASE Permitted(m) /\ there /\ same
  BY <1>3, <1>4, <1>6, <1>10 DEF res, there
<1>11. CASE Permitted(m) /\ there /\ ~same
  <2>1. res.d = d /\ res.r = -2
    BY <1>3, <1>4, <1>11
  <2>2. QED BY <1>5, <1>8, <1>11, <2>1 DEF res
<1>12. CASE Permitted(m) /\ ~there /\ m.key \in InUse
  <2>1. res.d = d /\ res.r = -4
    BY <1>3, <1>4, <1>12
  <2>2. QED BY <1>5, <1>12, <2>1 DEF res
<1>13. CASE Permitted(m) /\ ~there /\ m.key \notin InUse
  BY <1>3, <1>4, <1>7, <1>13 DEF res
<1>14. QED BY <1>9, <1>10, <1>11, <1>12, <1>13

LEMMA DeleteApart ==
  ASSUME NEW d, Sound(d), NEW key
  PROVE  LET del == _upnp_delete_redir(d, key, {})
         IN /\ Apart(d, del.d, key) /\ Sound(del.d)
            /\ key \notin KeysOf(del.d.fw.nat)
            /\ key \in KeysOf(d.fw.nat) => del.r = 0
<1> DEFINE del == _upnp_delete_redir(d, key, {})
           out == delete_redirect_and_filter_rules(d.fw, key, {})
<1>1. d \in Daemons /\ d.fw \in Firewalls /\ d.lease \in Seq(Lines) /\ Tidy(d.fw) /\ Balanced(d.fw)
      /\ d.fw.desc \in Seq(DescEntries)
  BY DEF Sound, Daemons, Firewalls
<1>2. /\ del.d \in Daemons /\ Tidy(del.d.fw) /\ RuleDeleted(d.fw, del.d.fw, key)
      /\ LineKeys(del.d.lease) = LineKeys(d.lease) \ {key}
      /\ key \in KeysOf(d.fw.nat) => del.r = 0
  BY <1>1, DeleteRedirFacts DEF Removes
<1>3. Balanced(del.d.fw)
  BY <1>1, DeleteBalanced
<1>4. del.d.fw = out.fw /\ del.d.lease = lease_file_remove(d.lease, key, {})
  BY DEF _upnp_delete_redir, Result
<1>5. out.fw.desc = del_redirect_desc(d.fw.desc, key)
  BY <1>1, DeleteFacts
<1>6. ToSet(del_redirect_desc(d.fw.desc, key)) = Without(d.fw.desc, key)
  BY <1>1, DelDescFacts DEF Described, Tidy, Without
<1>7. ToSet(lease_file_remove(d.lease, key, {})) = LinesWithout(d.lease, key)
  BY <1>1, LeaseRemoveFacts DEF LinesWithout
<1> HIDE DEF del, out
<1>8. Apart(d, del.d, key)
  BY <1>2, <1>4, <1>5, <1>6, <1>7 DEF Apart, RuleDeleted, Without, LinesWithout
<1>9. LineKeys(del.d.lease) \subseteq KeysOf(del.d.fw.nat) /\ key \notin KeysOf(del.d.fw.nat)
  BY <1>2 DEF RuleDeleted, Sound
<1>10. QED BY <1>2, <1>3, <1>8, <1>9 DEF Sound, del

LEMMA OutcomeMade ==
  ASSUME TypeOK, Sound(Daemon), ~disabled,
         NEW m \in Mappings, NEW t \in Nat, NEW res, RedirectOutcome(res, m, t, {})
  PROVE  /\ Apart(Daemon, res.d, m.key)
         /\ res.r = 0 => /\ Passed(m) /\ Made(res.d, m, Timestamp(t))
                         /\ m.key \in KeysOf(fw.nat) \/ m.key \notin InUse
         /\ res.r # 0 => res.d = Daemon
<1> DEFINE del == _upnp_delete_redir(Daemon, m.key, {})
           new == upnp_redirect_internal(Daemon, m, Timestamp(t), {})
           again == upnp_redirect_internal(del.d, m, Timestamp(t), {})
           there == m.key \in KeysOf(fw.nat)
<1>1. Daemon \in Daemons /\ Daemon.fw = fw /\ fw \in Firewalls /\ now \in Nat
  BY TypeParts, DaemonType DEF RestOK, DaemonOK
<1>2. Timestamp(t) \in Nat
  BY <1>1, TimestampType
<1>3. /\ Apart(Daemon, del.d, m.key) /\ Sound(del.d) /\ m.key \notin KeysOf(del.d.fw.nat)
      /\ there => del.r = 0
  BY <1>1, DeleteApart
<1>4. get_redirect_rule(fw, m.key, {}) = 0 <=> there
  BY <1>1, NatIndexFacts DEF get_redirect_rule
<1>5. CASE res = upnp_redirect(Daemon, m, t, {})
  BY <1>1, <1>5, RedirectMade DEF Passed
<1>6. CASE NatpmpPermits(m) /\ m.key \notin InUse /\ NatpmpOutcome(res, m, Timestamp(t), {})
  <2>1. \/ ~there /\ res = new
        \/ there /\ res = [d |-> Daemon, r |-> -1]
        \/ there /\ del.r < 0
        \/ there /\ res = again
    BY <1>4, <1>6 DEF NatpmpOutcome, Result
  <2>2. CASE ~there /\ res = new
    BY <1>1, <1>2, <1>6, <2>2, InternalMade DEF Passed
  <2>3. CASE there /\ res = [d |-> Daemon, r |-> -1]
    <3>1. res.d = Daemon /\ res.r = -1
      BY <2>3
    <3>2. QED BY <3>1 DEF Apart
  <2>4. CASE there /\ res = again
    <3> HIDE DEF del
    <3>1. again.r = 0 /\ Apart(del.d, again.d, m.key) /\ Made(again.d, m, Timestamp(t))
      BY <1>2, <1>3, InternalMade
    <3> HIDE DEF again
    <3>2. QED BY <1>3, <1>6, <2>4, <3>1 DEF Apart, Passed
  <2>5. QED BY <1>3, <2>1, <2>2, <2>3, <2>4
<1>7. QED BY <1>5, <1>6 DEF RedirectOutcome

(* A line read back makes its mapping again, unless it has ended or another *)
(* mapping stands in its place                                              *)
LEMMA ReloadMade ==
  ASSUME TypeOK, Sound(Daemon), ~disabled, reload_from_lease_file({})
  PROVE  LET line == Head(reload)
             t == IF line.timestamp = 0 THEN 0 ELSE line.timestamp - UnixNow
         IN \E e :
              /\ Becomes(e) /\ Apart(Daemon, e, line.map.key)
              /\ (/\ Permitted(line.map) /\ line.map.key \notin InUse
                  /\ line.timestamp = 0 \/ line.timestamp > UnixNow
                  /\ \A r \in ToSet(fw.nat) : r.key = line.map.key => Serves(r, line.map))
                 => Made(e, line.map, Timestamp(t))
<1> DEFINE line == Head(reload)
           t == IF line.timestamp = 0 THEN 0 ELSE line.timestamp - UnixNow
           res == upnp_redirect(Daemon, line.map, t, {})
           file == lease_file_add(res.d.lease, line.map, Timestamp(t), {})
           again == [res.d EXCEPT !.lease = file]
           fine == /\ Permitted(line.map) /\ line.map.key \notin InUse
                   /\ line.timestamp = 0 \/ line.timestamp > UnixNow
                   /\ \A r \in ToSet(fw.nat) : r.key = line.map.key => Serves(r, line.map)
           Wanted(e) == /\ Becomes(e) /\ Apart(Daemon, e, line.map.key)
                        /\ fine => Made(e, line.map, Timestamp(t))
<1>1. /\ reload # <<>>
      /\ IF line.timestamp > 0 /\ line.timestamp <= UnixNow
         THEN UNCHANGED <<fw, lease, next, announced>>
         ELSE Becomes(IF res.r = -2 THEN again ELSE res.d)
  BY Zenon DEF reload_from_lease_file
<1>2. reload \in Seq(Lines) /\ now \in Nat /\ Daemon \in Daemons /\ Daemon.fw = fw /\ Daemon.lease = lease
  BY TypeParts, DaemonType DEF RestOK
<1>3. line \in Lines
  BY <1>1, <1>2, HeadTailProperties
<1>4. line.map \in Mappings /\ line.timestamp \in Nat
  BY <1>3 DEF Lines
<1>5. UnixNow \in Nat
  BY <1>2, RedirectAssumption DEF UnixNow
<1> HIDE DEF line
<1>6. CASE line.timestamp > 0 /\ line.timestamp <= UnixNow
  <2>1. Becomes(Daemon)
    BY <1>1, <1>6 DEF Becomes, Daemon
  <2>2. Wanted(Daemon)
    BY <1>4, <1>5, <1>6, <2>1 DEF Apart
  <2> HIDE DEF Wanted, fine
  <2>3. \E e : Wanted(e)
    BY <2>2
  <2>4. QED BY <2>3 DEF Wanted, fine, line
<1>7. CASE ~(line.timestamp > 0 /\ line.timestamp <= UnixNow)
  <2>1. t \in Nat
    BY <1>4, <1>5, <1>7
  <2>2. Timestamp(t) \in Nat
    BY <1>2, <2>1, TimestampType
  <2> HIDE DEF t
  <2>3. /\ Apart(Daemon, res.d, line.map.key)
        /\ res.r = 0 => Made(res.d, line.map, Timestamp(t))
        /\ res.r # 0 => res.d = Daemon
        /\ fine => res.r = 0
    BY <1>2, <1>4, <2>1, RedirectMade
  <2> HIDE DEF fine
  <2>4. CASE res.r # -2
    <3>1. Becomes(res.d)
      BY <1>1, <1>7, <2>4
    <3>2. Wanted(res.d)
      BY <2>3, <3>1
    <3> HIDE DEF Wanted
    <3>3. \E e : Wanted(e)
      BY <3>2
    <3>4. QED BY <3>3 DEF Wanted, fine, t, line
  <2>5. CASE res.r = -2
    <3>1. res.d = Daemon /\ ~fine
      BY <2>3, <2>5
    <3>2. Becomes(again)
      BY <1>1, <1>7, <2>5
    <3>3. file = lease_file_add(lease, line.map, Timestamp(t), {})
      BY <1>2, <3>1
    <3>4. lease \in Seq(Lines) /\ line.map \in Mappings
      BY <1>4, TypeParts DEF DaemonOK
    <3>5. \A x : x \in ToSet(file) <=> (x \in ToSet(lease) \/ x = LineOf(line.map, Timestamp(t)))
      BY <2>2, <3>3, <3>4, LineAdded
    <3> HIDE DEF file
    <3>6. again.fw = fw /\ again.lease = file
      BY <1>2, <3>1 DEF Daemon
    <3>7. LineOf(line.map, Timestamp(t)).map = line.map
      BY DEF LineOf
    <3>8. Apart(Daemon, again, line.map.key)
      <4> HIDE DEF again
      <4>1. LinesWithout(again.lease, line.map.key) = LinesWithout(lease, line.map.key)
        BY <3>5, <3>6, <3>7 DEF LinesWithout
      <4>2. QED BY <1>2, <3>6, <4>1 DEF Apart
    <3>9. Wanted(again)
      BY <3>1, <3>2, <3>8
    <3> HIDE DEF Wanted, again
    <3>10. \E e : Wanted(e)
      BY <3>9
    <3>11. QED BY <3>10 DEF Wanted, fine, t, line
  <2>6. QED BY <2>4, <2>5
<1>8. QED BY <1>6, <1>7

(* Clocks that do not wrap *)
LEMMA SmallMod ==
  ASSUME NEW a \in Nat, NEW b \in Nat, a < b
  PROVE  a % b = a
OBVIOUS

LEMMA DueTime ==
  ASSUME NoWrap, now \in Nat, NEW until \in Nat, until <= MaxLease
  PROVE  /\ \A t \in Nat : (now + t <= MaxLease /\ t > 0) => Timestamp(t) = now + t
         /\ Timestamp(0) = 0
         /\ (until = 0 \/ now < until)
              => LET ts == ToUnix(until)
                     t == IF ts = 0 THEN 0 ELSE ts - UnixNow
                 IN (ts = 0 \/ ts > UnixNow) /\ Timestamp(t) = until
<1>1. MaxLease \in Nat /\ UnixOffset \in Nat /\ Word \in Nat /\ MaxLease + UnixOffset < Word
  BY RedirectAssumption DEF NoWrap
<1>2. ASSUME NEW t \in Nat, now + t <= MaxLease, t > 0 PROVE Timestamp(t) = now + t
  <2>1. now + t \in Nat /\ now + t < Word
    BY <1>1, <1>2
  <2>2. QED BY <1>1, <1>2, <2>1, SmallMod DEF Timestamp
<1>3. Timestamp(0) = 0
  BY DEF Timestamp
<1>4. CASE until = 0
  BY <1>2, <1>3, <1>4 DEF ToUnix
<1>5. CASE until # 0 /\ now < until
  <2>1. until + UnixOffset \in Nat /\ until + UnixOffset < Word /\ until + UnixOffset > 0
    BY <1>1, <1>5
  <2>2. now + UnixOffset \in Nat /\ now + UnixOffset < Word
    BY <1>1, <1>5
  <2>3. ToUnix(until) = until + UnixOffset
    BY <1>1, <1>5, <2>1, SmallMod DEF ToUnix
  <2>4. UnixNow = now + UnixOffset
    BY <1>1, <2>2, SmallMod DEF UnixNow
  <2>5. (until + UnixOffset) - (now + UnixOffset) = until - now
    BY <1>1
  <2>6. until - now \in Nat /\ until - now > 0 /\ now + (until - now) = until
    BY <1>5
  <2>7. Timestamp(until - now) = until
    BY <1>2, <2>6
  <2>8. QED BY <1>1, <1>5, <2>1, <2>3, <2>4, <2>5, <2>7, <1>2, <1>3
<1>6. QED BY <1>2, <1>3, <1>4, <1>5

-----------------------------------------------------------------------------
(* The promises over the steps *)

(* The other handlers' lists of expired rules do not grow *)
NoNewExpired == todo'.why = "expired" => /\ todo.why = "expired"
                                         /\ KeysOf(todo'.entries) \subseteq KeysOf(todo.entries)

(* A step about another key keeps the promise *)
LEMMA HeldApart ==
  ASSUME TypeOK, NEW k, NEW l, Held(k, l), NEW key, key # k,
         NEW e, Becomes(e), Apart(Daemon, e, key),
         granted'[k] = granted[k], NoNewExpired,
         ToSet(reload') \subseteq ToSet(reload), l \in ToSet(reload) => l \in ToSet(reload')
  PROVE  Held(k, l)'
<1>1. fw' = e.fw /\ lease' = e.lease /\ Daemon.fw = fw /\ Daemon.lease = lease
  BY TypeParts, DaemonType DEF Becomes
<1>2. /\ \A r : r.key = k => (r \in ToSet(fw'.nat) <=> r \in ToSet(fw.nat))
      /\ \A r : r.key = k => (r \in ToSet(fw'.desc) <=> r \in ToSet(fw.desc))
      /\ \A x : x.map.key = k => (x \in ToSet(lease') <=> x \in ToSet(lease))
  BY <1>1 DEF Apart, Without, LinesWithout
<1>3. k \in KeysOf(fw.nat) => k \in KeysOf(fw'.nat)
  BY <1>2, KeysOfSet
<1>4. QED BY <1>2, <1>3 DEF Held, NoNewExpired

(* A mapping just made is as promised *)
LEMMA HeldMade ==
  ASSUME NEW m, NEW ts, NEW e, Becomes(e), Made(e, m, ts), Permitted(m),
         granted'[m.key].iaddr = m.iaddr, granted'[m.key].iport = m.iport,
         granted'[m.key].until = ts, ts <= MaxLease,
         todo'.why # "expired",
         \A x \in ToSet(reload') : x.map.key = m.key => x = LineOf(m, ts)
  PROVE  Held(m.key, LineOf(m, ts))'
<1> DEFINE l == LineOf(m, ts)
<1>1. fw' = e.fw /\ lease' = e.lease
  BY DEF Becomes
<1>2. l.map = m /\ l.timestamp = ToUnix(ts)
  BY DEF LineOf
<1>3. QED BY <1>1, <1>2 DEF Held, Made

(* An expired rule is not a promised one *)
LEMMA DueNotExpired ==
  ASSUME TypeOK, NEW k \in Keys, NEW l, Held(k, l), Due(k)
  PROVE  k \notin ExpiredKeys
<1> DEFINE d == get_redirect_desc(fw, k)
<1>1. fw \in Firewalls /\ now \in Nat /\ granted[k].until \in Nat
  BY TypeParts DEF DaemonOK, RestOK, Grants, Due
<1>2. /\ k \notin KeysOf(fw.desc) => d.timestamp = 0
      /\ k \in KeysOf(fw.desc) => d \in ToSet(fw.desc) /\ d.key = k
  <2>1. k \notin KeysOf(fw.desc) => d = [key |-> k, str |-> "miniupnpd", timestamp |-> 0]
    BY <1>1, GetDescFacts
  <2>2. k \in KeysOf(fw.desc) => d \in ToSet(fw.desc) /\ d.key = k
    BY <1>1, GetDescFacts
  <2>3. QED BY <2>1, <2>2
<1> HIDE DEF d
<1>3. d.timestamp = 0 \/ d.timestamp = granted[k].until
  BY <1>2 DEF Held
<1>4. QED BY <1>1, <1>3 DEF ExpiredKeys, TimestampOf, Due, d

(* Still due after the step: due before it, if nothing new was answered *)
LEMMA DueBefore ==
  ASSUME TypeOK, NEW k \in Keys, Due(k)', granted'[k] = granted[k], now' = now \/ now' = now + 1
  PROVE  Due(k)
<1>1. now \in Nat /\ (granted[k] # NULL => granted[k].until \in Nat)
  BY TypeParts DEF RestOK, Grants
<1>2. QED BY <1>1 DEF Due

(* No line tells the name that NAT-PMP asks permission with from the        *)
(* description it stores, which the reload asks with                        *)
NatpmpAlike ==
  EnableNatpmp => \A i \in 1..Len(upnppermlist) :
    upnppermlist[i].regex => (NatpmpName \in upnppermlist[i].re <=> NatpmpDesc \in upnppermlist[i].re)

(* The hypotheses of the theorem: the calls succeed, forwarding is never    *)
(* disabled, no second crash during a reload, clocks below their width, and *)
(* a reload that permits what was permitted                                 *)
Benign == NoFaults /\ ~WanChanges /\ MayCrash # "always" /\ NoWrap /\ NatpmpAlike

LEMMA PassedPermitted ==
  ASSUME NatpmpAlike, NEW m \in Mappings, Passed(m)
  PROVE  Permitted(m)
<1> DEFINE I(str) == {i \in 1..Len(upnppermlist) :
                        match_permission(upnppermlist[i], Eport(m.key), m.iaddr, m.iport, str)}
           n(str) == IF I(str) # {} THEN Min(I(str)) ELSE 0
           ok(str) == n(str) = 0 \/ upnppermlist[n(str)].allow
<1>1. CASE Permitted(m)
  BY <1>1
<1>2. CASE NatpmpPermits(m)
  <2>1. I(NatpmpName) = I(NatpmpDesc)
    BY <1>2 DEF match_permission, NatpmpAlike, NatpmpPermits
  <2>2. Permitted(m) = ok(m.str)
    BY DEF Permitted, check_upnp_rule_against_permissions, SelectInSeq
  <2>3. Permitted([m EXCEPT !.str = NatpmpName]) = ok(NatpmpName)
    BY DEF Mappings, Permitted, check_upnp_rule_against_permissions, SelectInSeq
  <2>4. ok(NatpmpName) = ok(NatpmpDesc)
    <3> HIDE DEF I
    <3>1. QED BY <2>1
  <2> HIDE DEF ok
  <2>5. QED BY <1>2, <2>2, <2>3, <2>4 DEF NatpmpPermits
<1>3. QED BY <1>1, <1>2 DEF Passed

Promised == \A k \in Keys : Due(k) => \E l : Held(k, l)

LEMMA PromisedOver ==
  ASSUME GrantInv
  PROVE  Promised
BY DEF GrantInv, Promised

LEMMA PromisedBack ==
  ASSUME Promised'
  PROVE  (\A k \in Keys : Due(k) => \E l \in ToSet(lease) \cup ToSet(reload) : Held(k, l))'
BY DEF Promised, Held

LEMMA PromiseRequest ==
  ASSUME Benign, GrantInv, RequestStep({})
  PROVE  Promised'
<1>0. /\ TypeOK /\ Sound(Daemon) /\ disabled = FALSE /\ Promised
  BY PromisedOver, TypeParts, DaemonType
     DEF GrantInv, KnownInv, TidyInv, LineInv, Sound
<1>1. PICK m \in Mappings, t \in Nat : \E res : RedirectOutcome(res, m, t, {}) /\ Replied(res, m, t)
  BY DEF RequestStep
<1>2. PICK res : RedirectOutcome(res, m, t, {}) /\ Replied(res, m, t)
  BY <1>1
<1>3. /\ Apart(Daemon, res.d, m.key)
      /\ res.r = 0 => Permitted(m) /\ Made(res.d, m, Timestamp(t))
      /\ res.r # 0 => res.d = Daemon
  BY <1>0, <1>2, OutcomeMade, PassedPermitted DEF Benign
<1>4. Becomes(res.d) /\ UNCHANGED <<todo, reload, now>> /\ reload = <<>> /\ todo = Idle
  BY <1>2 DEF Replied, RequestStep, Serving
<1>5. /\ now \in Nat /\ granted \in [Keys -> Grants] /\ m.key \in Keys
      /\ now + t <= MaxLease
  BY <1>0, <1>2, TypeParts DEF RestOK, Mappings, RedirectOutcome
<1>6. NoNewExpired /\ todo'.why # "expired"
  BY <1>4 DEF NoNewExpired, Idle
<1> SUFFICES ASSUME NEW k \in Keys, Due(k)' PROVE \E l : Held(k, l)'
  BY DEF Promised
<1>7. CASE k # m.key
  <2>1. granted'[k] = granted[k]
    BY <1>2, <1>5, <1>7 DEF Replied
  <2>2. PICK l : Held(k, l)
    BY <1>0, <1>4, <2>1, DueBefore DEF Promised
  <2>3. Held(k, l)'
    BY <1>0, <1>3, <1>4, <1>6, <1>7, <2>1, <2>2, HeldApart
  <2>4. QED BY <2>3
<1>8. CASE res.r # 0
  <2>1. granted'[k] = granted[k] /\ UNCHANGED <<fw, lease>>
    BY <1>0, <1>2, <1>3, <1>4, <1>8, TypeParts, DaemonType DEF Replied, Becomes
  <2>2. PICK l : Held(k, l)
    BY <1>0, <1>4, <2>1, DueBefore DEF Promised
  <2>3. Held(k, l)'
    BY <1>4, <2>1, <2>2 DEF Held
  <2>4. QED BY <2>3
<1>9. CASE k = m.key /\ res.r = 0
  <2>0. PICK ts : ts = Timestamp(t)
    OBVIOUS
  <2>1. granted'[m.key] = Granted(m, t)
    BY <1>2, <1>5, <1>9 DEF Replied
  <2>2. t = 0 \/ t > 0
    OBVIOUS
  <2>3. ts = (IF t = 0 THEN 0 ELSE now + t) /\ ts <= MaxLease
    BY <1>5, <2>0, <2>2, DueTime, RedirectAssumption DEF Benign
  <2>4. /\ granted'[m.key].iaddr = m.iaddr /\ granted'[m.key].iport = m.iport
        /\ granted'[m.key].until = ts
    BY <2>1, <2>3 DEF Granted
  <2>5. \A x \in ToSet(reload') : x.map.key = m.key => x = LineOf(m, ts)
    BY <1>4 DEF ToSet
  <2>6. Made(res.d, m, ts) /\ Permitted(m)
    BY <1>3, <1>9, <2>0
  <2>7. Held(m.key, LineOf(m, ts))'
    BY <1>4, <1>6, <2>3, <2>4, <2>5, <2>6, HeldMade
  <2>8. QED BY <1>9, <2>7
<1>10. QED BY <1>7, <1>8, <1>9

LEMMA PromiseDelete ==
  ASSUME Benign, GrantInv, NEW key \in Keys, DeleteStep(key, {}), reload = <<>>,
         NoNewExpired, todo.why = "expired" => key \in KeysOf(todo.entries),
         UNCHANGED <<reload, now>>
  PROVE  Promised'
<1> DEFINE res == _upnp_delete_redir(Daemon, key, {})
<1>0. /\ TypeOK /\ Sound(Daemon) /\ Promised /\ Daemon.fw = fw
  BY PromisedOver, TypeParts, DaemonType
     DEF GrantInv, KnownInv, TidyInv, LineInv, Sound
<1>1. Apart(Daemon, res.d, key) /\ (key \in KeysOf(fw.nat) => res.r = 0)
  BY <1>0, DeleteApart
<1>2. /\ Becomes(res.d)
      /\ \/ granted' = [granted EXCEPT ![key] = NULL]
         \/ granted' = granted /\ (res.r < 0 \/ todo.why = "expired")
  BY DEF DeleteStep
<1>3. granted \in [Keys -> Grants]
  BY <1>0, TypeParts DEF RestOK
<1> HIDE DEF res
<1> SUFFICES ASSUME NEW k \in Keys, Due(k)' PROVE \E l : Held(k, l)'
  BY DEF Promised
<1>4. granted'[k] = granted[k] /\ (k = key => res.r < 0 \/ todo.why = "expired")
  <2>1. CASE granted' = [granted EXCEPT ![key] = NULL]
    <3>1. k # key
      BY <1>3, <2>1 DEF Due
    <3>2. QED BY <1>3, <2>1, <3>1
  <2>2. QED BY <1>2, <2>1
<1>5. PICK l : Held(k, l)
  BY <1>0, <1>4, DueBefore DEF Promised
<1>6. k \in KeysOf(fw.nat) /\ (todo.why = "expired" => k \notin KeysOf(todo.entries))
  BY <1>5 DEF Held, ToSet
<1>7. k # key
  BY <1>1, <1>4, <1>6
<1>8. Held(k, l)'
  BY <1>0, <1>1, <1>2, <1>4, <1>5, <1>7, HeldApart
<1>9. QED BY <1>8

LEMMA PromiseReload ==
  ASSUME Benign, GrantInv, reload_from_lease_file({})
  PROVE  Promised'
<1>0. /\ TypeOK /\ Sound(Daemon) /\ Promised /\ disabled = FALSE
      /\ LineKeys(reload) \cap InUse = {}
  BY PromisedOver, TypeParts, DaemonType
     DEF GrantInv, KnownInv, TidyInv, LineInv, Sound
<1>1. PICK line : line = Head(reload)
  OBVIOUS
<1>2. /\ reload # <<>> /\ line \in Lines /\ reload' = Tail(reload)
      /\ UNCHANGED <<todo, now, granted>>
  BY <1>0, <1>1, ReloadFacts
<1>3. /\ reload \in Seq(Lines) /\ now \in Nat /\ granted \in [Keys -> Grants]
  BY <1>0, TypeParts DEF RestOK
<1>4. PICK t : t = IF line.timestamp = 0 THEN 0 ELSE line.timestamp - UnixNow
  OBVIOUS
<1>5. PICK e : /\ Becomes(e) /\ Apart(Daemon, e, line.map.key)
               /\ (/\ Permitted(line.map) /\ line.map.key \notin InUse
                   /\ line.timestamp = 0 \/ line.timestamp > UnixNow
                   /\ \A r \in ToSet(fw.nat) : r.key = line.map.key => Serves(r, line.map))
                  => Made(e, line.map, Timestamp(t))
  BY <1>0, <1>1, <1>4, ReloadMade
<1>6. /\ ToSet(reload) = ToSet(reload') \cup {line}
      /\ line.map.key \in LineKeys(reload)
  BY <1>1, <1>2, <1>3, TailLines
<1>7. NoNewExpired
  BY <1>2 DEF NoNewExpired
<1>8. todo'.why # "expired"
  BY <1>2 DEF GrantInv, KnownInv, Idle
<1> SUFFICES ASSUME NEW k \in Keys, Due(k)' PROVE \E l : Held(k, l)'
  BY DEF Promised
<1>9. Due(k)
  BY <1>0, <1>2, DueBefore
<1>10. PICK l : Held(k, l)
  BY <1>0, <1>9 DEF Promised
<1>11. CASE k # line.map.key
  <2>1. l # line
    BY <1>10, <1>11 DEF Held
  <2>2. ToSet(reload') \subseteq ToSet(reload) /\ (l \in ToSet(reload) => l \in ToSet(reload'))
    BY <1>6, <2>1
  <2>3. Held(k, l)'
    BY <1>0, <1>2, <1>5, <1>7, <1>10, <1>11, <2>2, HeldApart
  <2>4. QED BY <2>3
<1>12. CASE k = line.map.key
  <2>1. l = line
    BY <1>6, <1>10, <1>12 DEF Held
  <2>2. PICK until : until = granted[k].until
    OBVIOUS
  <2>3. until \in Nat /\ until <= MaxLease /\ (until = 0 \/ now < until)
    BY <1>3, <1>9, <1>10, <2>2 DEF Held, Due, Grants
  <2>4. line.timestamp = ToUnix(until)
    BY <1>10, <2>1, <2>2 DEF Held
  <2>5. (line.timestamp = 0 \/ line.timestamp > UnixNow) /\ Timestamp(t) = until
    BY <1>3, <1>4, <2>3, <2>4, DueTime DEF Benign
  <2>6. /\ Permitted(line.map) /\ line.map.key \notin InUse
        /\ \A r \in ToSet(fw.nat) : r.key = line.map.key => Serves(r, line.map)
    BY <1>0, <1>6, <1>10, <1>12, <2>1 DEF Held
  <2>7. Made(e, line.map, until)
    BY <1>5, <2>5, <2>6
  <2>8. line = LineOf(line.map, until)
    BY <1>2, <2>4 DEF LineOf, Lines
  <2>9. PICK m : m = line.map
    OBVIOUS
  <2>10. /\ granted'[m.key].iaddr = m.iaddr /\ granted'[m.key].iport = m.iport
         /\ granted'[m.key].until = until
    BY <1>2, <1>10, <1>12, <2>1, <2>2, <2>9 DEF Held
  <2>11. \A x \in ToSet(reload') : x.map.key = m.key => x = LineOf(m, until)
    BY <1>6, <1>10, <1>12, <2>1, <2>8, <2>9 DEF Held
  <2>12. Held(m.key, LineOf(m, until))'
    BY <1>5, <1>8, <2>3, <2>6, <2>7, <2>9, <2>10, <2>11, HeldMade
  <2>13. QED BY <1>12, <2>9, <2>12
<1>13. QED BY <1>11, <1>12

LEMMA PromiseRestart ==
  ASSUME Benign, GrantInv, NEW flushed \in BOOLEAN, Restart(flushed)
  PROVE  Promised'
<1>0. TypeOK /\ Promised
  BY PromisedOver DEF GrantInv, KnownInv, TidyInv
<1>1. reload = <<>>
  BY DEF Restart, Benign
<1>2. /\ fw'.desc = <<>>
      /\ fw' = EmptyFirewall \/ fw'.nat = fw.nat
      /\ reload' = lease /\ lease' = <<>> /\ todo' = Idle
      /\ UNCHANGED <<now, granted>>
  BY <1>0, RestartFacts
<1>3. ToSet(fw'.nat) \subseteq ToSet(fw.nat)
  BY <1>2 DEF ToSet, EmptyFirewall
<1>4. ToSet(reload) = {} /\ ToSet(lease') = {} /\ ToSet(fw'.desc) = {} /\ todo'.why # "expired"
  BY <1>1, <1>2 DEF ToSet, Idle
<1> SUFFICES ASSUME NEW k \in Keys, Due(k)' PROVE \E l : Held(k, l)'
  BY DEF Promised
<1>5. PICK l : Held(k, l)
  BY <1>0, <1>2, DueBefore DEF Promised
<1>6. Held(k, l)'
  BY <1>2, <1>3, <1>4, <1>5 DEF Held
<1>7. QED BY <1>6

LEMMA PromiseTraffic ==
  ASSUME GrantInv, NEW i \in DOMAIN fw.nat, Traffic(i)
  PROVE  Promised'
<1>0. TypeOK /\ Promised
  BY PromisedOver DEF GrantInv, KnownInv, TidyInv
<1>1. /\ fw'.desc = fw.desc /\ DOMAIN fw'.nat = DOMAIN fw.nat
      /\ \A j \in DOMAIN fw.nat : /\ fw'.nat[j].key = fw.nat[j].key
                                  /\ fw'.nat[j].iaddr = fw.nat[j].iaddr
                                  /\ fw'.nat[j].iport = fw.nat[j].iport
                                  /\ fw'.nat[j].rhost = fw.nat[j].rhost
      /\ UNCHANGED <<lease, todo, reload, now, granted>>
  BY <1>0, TrafficFacts
<1>2. KeysOf(fw'.nat) = KeysOf(fw.nat)
  BY <1>1 DEF KeysOf
<1>3. \A r \in ToSet(fw'.nat) : \E s \in ToSet(fw.nat) :
        r.key = s.key /\ r.iaddr = s.iaddr /\ r.iport = s.iport /\ r.rhost = s.rhost
  BY <1>1 DEF ToSet
<1> SUFFICES ASSUME NEW k \in Keys, Due(k)' PROVE \E l : Held(k, l)'
  BY DEF Promised
<1>4. PICK l : Held(k, l)
  BY <1>0, <1>1, DueBefore DEF Promised
<1>5. \A r \in ToSet(fw'.nat) : r.key = k => Serves(r, l.map)
  BY <1>3, <1>4 DEF Held, Serves
<1>6. Held(k, l)'
  BY <1>1, <1>2, <1>4, <1>5 DEF Held
<1>7. QED BY <1>6

(* Time passes, or a handler lists what it will delete *)
LEMMA PromiseList ==
  ASSUME GrantInv, UNCHANGED <<fw, lease, reload, granted>>, now' = now \/ now' = now + 1,
         todo'.why = "expired" => \/ NoNewExpired
                                  \/ KeysOf(todo'.entries) \subseteq ExpiredKeys
  PROVE  Promised'
<1>0. TypeOK /\ Promised
  BY PromisedOver DEF GrantInv, KnownInv, TidyInv
<1> SUFFICES ASSUME NEW k \in Keys, Due(k)' PROVE \E l : Held(k, l)'
  BY DEF Promised
<1>1. Due(k)
  BY <1>0, DueBefore
<1>2. PICK l : Held(k, l)
  BY <1>0, <1>1 DEF Promised
<1>3. k \notin ExpiredKeys
  BY <1>0, <1>1, <1>2, DueNotExpired
<1>4. Held(k, l)'
  BY <1>2, <1>3 DEF Held, NoNewExpired
<1>5. QED BY <1>4

LEMMA TailEntries ==
  ASSUME NEW entries \in Seq(Entry), entries # <<>>
  PROVE  KeysOf(Tail(entries)) \subseteq KeysOf(entries) /\ Head(entries).key \in KeysOf(entries)
<1> DEFINE t == Tail(entries)
<1>1. /\ t \in Seq(Entry) /\ Len(t) = Len(entries) - 1
      /\ \A i \in 1..Len(t) : t[i] = entries[i + 1]
      /\ Head(entries) = entries[1]
  BY HeadTailProperties, DomainIsLen
<1>2. DOMAIN entries = 1..Len(entries) /\ Len(entries) \in Nat \ {0}
  BY DomainIsLen, EmptySeq
<1> HIDE DEF t
<1>3. DOMAIN t = 1..Len(t)
  BY <1>1, DomainIsLen
<1>4. 1 \in DOMAIN entries /\ \A i \in DOMAIN t : i + 1 \in DOMAIN entries
  BY <1>1, <1>2, <1>3
<1>5. QED BY <1>1, <1>3, <1>4 DEF KeysOf, t

LEMMA DeleteNextFewer ==
  ASSUME TypeOK, NEW fails, DeleteNext(fails)
  PROVE  NoNewExpired /\ Head(todo.entries).key \in KeysOf(todo.entries)
<1>1. /\ todo.entries # <<>> /\ todo.entries \in Seq(Entry)
      /\ \/ Deleting(todo.why, <<>>) \/ Deleting(todo.why, Tail(todo.entries))
         \/ todo.why = "natpmp" /\ \E keys : Deleting(todo.why, EntriesOf(todo.entries, keys))
  BY DeleteNextFacts, TypeParts DEF RestOK
<1>2. /\ KeysOf(Tail(todo.entries)) \subseteq KeysOf(todo.entries)
      /\ Head(todo.entries).key \in KeysOf(todo.entries)
  BY <1>1, TailEntries
<1>3. todo'.why = "expired" => todo'.why = todo.why /\ todo'.entries = Tail(todo.entries)
  <2> DEFINE rest == Tail(todo.entries)
  <2>1. \/ todo' = Idle
        \/ todo' = [why |-> todo.why, entries |-> rest]
        \/ todo.why = "natpmp" /\ \E es : todo' = [why |-> todo.why, entries |-> es]
    BY <1>1, Zenon DEF Deleting
  <2> HIDE DEF rest
  <2>2. todo'.why = "expired" => todo'.why = todo.why /\ todo'.entries = rest
    <3>1. CASE todo' = Idle
      BY <3>1 DEF Idle
    <3>2. CASE todo' = [why |-> todo.why, entries |-> rest]
      BY <3>2
    <3>3. CASE todo.why = "natpmp" /\ \E es : todo' = [why |-> todo.why, entries |-> es]
      BY <3>3
    <3>4. QED BY <2>1, <3>1, <3>2, <3>3
  <2>3. QED BY <2>2 DEF rest
<1>4. QED BY <1>2, <1>3 DEF NoNewExpired

(* No mapping is on a port of a local service *)
Clear == (KeysOf(fw.nat) \cup LineKeys(reload)) \cap InUse = {}

LEMMA ClearStep ==
  ASSUME Benign, GrantInv, Next
  PROVE  Clear' /\ disabled' = FALSE
<1>0. /\ TypeOK /\ Sound(Daemon) /\ disabled = FALSE /\ Clear /\ Tidy(fw)
      /\ LineKeys(lease) \subseteq KeysOf(fw.nat)
      /\ reload # <<>> => todo = Idle
  BY TypeParts, DaemonType DEF GrantInv, KnownInv, TidyInv, LineInv, Sound, Clear
<1>1. /\ Daemon \in Daemons /\ Daemon.fw = fw /\ reload \in Seq(Lines)
      /\ fw \in Firewalls
  BY <1>0, TypeParts, DaemonType DEF RestOK, DaemonOK
<1>2. CASE UNCHANGED <<fw, reload, disabled>>
  BY <1>0, <1>2 DEF Clear
<1>3. ASSUME NEW fails \in Faults, StepKind(fails) PROVE Clear' /\ disabled' = FALSE
  <2>0. fails = {}
    BY DEF Benign, NoFaults
  <2>1. CASE RequestStep(fails)
    <3>1. PICK m \in Mappings, t \in Nat : \E res :
            RedirectOutcome(res, m, t, {}) /\ Answered(res, m, {}) /\ Replied(res, m, t)
      BY <2>0, <2>1 DEF RequestStep
    <3>2. PICK res : RedirectOutcome(res, m, t, {}) /\ Answered(res, m, {}) /\ Replied(res, m, t)
      BY <3>1
    <3>3. KeysOf(res.d.fw.nat) \subseteq KeysOf(fw.nat) \cup (IF res.r = 0 THEN {m.key} ELSE {})
      BY <3>2 DEF Answered
    <3>4. res.r = 0 => m.key \in KeysOf(fw.nat) \/ m.key \notin InUse
      BY <1>0, <3>2, OutcomeMade
    <3>5. fw' = res.d.fw /\ UNCHANGED <<reload, disabled>>
      BY <2>1, <3>2 DEF Replied, Becomes, RequestStep
    <3>6. QED BY <1>0, <3>3, <3>4, <3>5 DEF Clear
  <2>2. ASSUME NEW k \in Keys, DeleteStep(k, fails), UNCHANGED <<reload, disabled>>
        PROVE  Clear' /\ disabled' = FALSE
    <3>1. RuleDeleted(fw, _upnp_delete_redir(Daemon, k, fails).d.fw, k)
      BY <1>0, <1>1, <2>0, DeleteRedirFacts DEF Removes
    <3>2. fw' = _upnp_delete_redir(Daemon, k, fails).d.fw
      BY <2>2 DEF DeleteStep, Becomes
    <3>3. KeysOf(fw'.nat) = KeysOf(fw.nat) \ {k}
      BY <3>1, <3>2 DEF RuleDeleted
    <3>4. QED BY <1>0, <2>2, <3>3 DEF Clear
  <2>3. CASE ListStep
    BY <1>2, <2>3 DEF ListStep
  <2>4. CASE DeleteNext(fails)
    <3>1. /\ Head(todo.entries).key \in Keys
          /\ UNCHANGED fw \/ DeleteStep(Head(todo.entries).key, fails)
          /\ UNCHANGED <<reload, disabled>>
      BY <1>0, <2>4, DeleteNextFacts DEF Entry
    <3>2. QED BY <1>2, <2>2, <3>1
  <2>5. CASE reload_from_lease_file(fails)
    <3> DEFINE line == Head(reload)
    <3>1. /\ line \in Lines /\ reload # <<>> /\ reload' = Tail(reload)
          /\ \/ UNCHANGED fw
             \/ \E t \in Nat : Becomes(upnp_redirect(Daemon, line.map, t, {}).d)
          /\ UNCHANGED disabled
      BY <1>0, <2>0, <2>5, ReloadFacts
    <3>2. LineKeys(reload') \subseteq LineKeys(reload) /\ line.map.key \in LineKeys(reload)
      BY <1>1, <3>1, TailLines
    <3> HIDE DEF line
    <3>3. ASSUME NEW t \in Nat, Becomes(upnp_redirect(Daemon, line.map, t, {}).d)
          PROVE  KeysOf(fw'.nat) \subseteq KeysOf(fw.nat) \cup {line.map.key}
      <4> DEFINE res == upnp_redirect(Daemon, line.map, t, {})
      <4>1. line.map \in Mappings /\ now \in Nat
        BY <1>0, <3>1, TypeParts DEF Lines, RestOK
      <4>2. Redirected(Daemon, res.d, line.map)
        BY <1>1, <4>1, RedirectFacts
      <4>3. fw' = res.d.fw
        BY <3>3 DEF Becomes
      <4> HIDE DEF res
      <4>4. QED BY <1>1, <4>2, <4>3 DEF Redirected
    <3>4. QED BY <1>0, <3>1, <3>2, <3>3 DEF Clear
  <2>6. QED BY <1>3, <2>1, <2>2, <2>3, <2>4, <2>5 DEF StepKind
<1>4. CASE Environment
  <2>1. ASSUME NEW flushed \in BOOLEAN, Restart(flushed) PROVE Clear' /\ disabled' = FALSE
    <3>1. /\ reload' = lease /\ disabled' = FALSE
          /\ fw' = EmptyFirewall \/ fw'.nat = fw.nat
      BY <1>0, <2>1, RestartFacts
    <3>2. KeysOf(EmptyFirewall.nat) = {}
      BY DEF KeysOf, EmptyFirewall
    <3>3. QED BY <1>0, <3>1, <3>2 DEF Clear
  <2>2. ASSUME NEW i \in DOMAIN fw.nat, Traffic(i) PROVE Clear' /\ disabled' = FALSE
    <3>1. /\ DOMAIN fw'.nat = DOMAIN fw.nat
          /\ \A j \in DOMAIN fw.nat : fw'.nat[j].key = fw.nat[j].key
          /\ UNCHANGED <<reload, disabled>>
      BY <1>0, <2>2, TrafficFacts
    <3>2. KeysOf(fw'.nat) = KeysOf(fw.nat)
      BY <3>1 DEF KeysOf
    <3>3. QED BY <1>0, <3>1, <3>2 DEF Clear
  <2>3. QED BY <1>2, <1>4, <2>1, <2>2
        DEF Environment, update_disable_port_forwarding, Tick, Benign
<1>5. QED BY <1>0, <1>3, <1>4, StepKinds

LEMMA PromiseStep ==
  ASSUME Benign, GrantInv, Next
  PROVE  Promised'
<1>0. TypeOK /\ (reload # <<>> => todo = Idle)
  BY DEF GrantInv, KnownInv, TidyInv
<1>1. ASSUME NEW fails \in Faults, StepKind(fails) PROVE Promised'
  <2>0. fails = {}
    BY DEF Benign, NoFaults
  <2>1. CASE RequestStep(fails)
    BY <2>0, <2>1, PromiseRequest
  <2>2. ASSUME NEW k \in Keys, DeleteStep(k, fails), Serving, UNCHANGED <<todo, reload, now>>
        PROVE  Promised'
    <3>1. reload = <<>> /\ NoNewExpired /\ todo.why # "expired"
      BY <2>2 DEF Serving, Idle, NoNewExpired
    <3>2. QED BY <2>0, <2>2, <3>1, PromiseDelete
  <2>3. CASE ListStep
    BY <2>3, PromiseList DEF ListStep
  <2>4. CASE DeleteNext(fails)
    <3> DEFINE key == Head(todo.entries).key
    <3>1. /\ key \in Keys /\ todo.entries # <<>>
          /\ \/ UNCHANGED <<fw, lease, next, announced, granted>>
             \/ DeleteStep(key, fails)
          /\ UNCHANGED <<reload, now>>
      BY <1>0, <2>4, DeleteNextFacts DEF Entry
    <3>2. NoNewExpired /\ key \in KeysOf(todo.entries)
      BY <1>0, <2>4, DeleteNextFewer
    <3>3. reload = <<>>
      BY <1>0, <3>1 DEF Idle
    <3> HIDE DEF key
    <3>4. CASE UNCHANGED <<fw, lease, next, announced, granted>>
      BY <3>1, <3>2, <3>4, PromiseList
    <3>5. CASE DeleteStep(key, fails)
      BY <2>0, <3>1, <3>2, <3>3, <3>5, PromiseDelete
    <3>6. QED BY <3>1, <3>4, <3>5
  <2>5. CASE reload_from_lease_file(fails)
    BY <2>0, <2>5, PromiseReload
  <2>6. QED BY <1>1, <2>1, <2>2, <2>3, <2>4, <2>5 DEF StepKind
<1>2. CASE Environment
  <2>1. CASE Tick
    BY <2>1, PromiseList DEF Tick, NoNewExpired
  <2>2. QED BY <1>2, <2>1, PromiseRestart, PromiseTraffic
        DEF Environment, update_disable_port_forwarding, Benign
<1>3. QED BY <1>0, <1>1, <1>2, StepKinds

LEMMA GrantStep ==
  ASSUME Benign, GrantInv, [Next]_vars
  PROVE  GrantInv'
<1>1. CASE Next
  <2>1. KnownInv'
    BY KnownStep DEF Benign, GrantInv
  <2>2. Balanced(fw)'
    BY BalanceStep DEF Benign, GrantInv, BalanceInv, KnownInv, TidyInv, NoFaults
  <2>3. Clear' /\ disabled' = FALSE
    BY <1>1, ClearStep
  <2>4. (LineKeys(lease) \subseteq KeysOf(fw.nat))'
    BY <2>1 DEF KnownInv, LineInv
  <2>5. ((KeysOf(fw.nat) \cup LineKeys(lease) \cup LineKeys(reload)) \cap InUse = {})'
    BY <2>3, <2>4 DEF Clear
  <2>6. (\A k \in Keys : Due(k) => \E l \in ToSet(lease) \cup ToSet(reload) : Held(k, l))'
    BY <1>1, PromiseStep, PromisedBack
  <2>7. QED BY <2>1, <2>2, <2>3, <2>5, <2>6 DEF GrantInv
<1>2. CASE UNCHANGED vars
  <2>1. KnownInv' /\ Balanced(fw)'
    BY <1>2, KnownStep DEF Benign, GrantInv, vars
  <2>2. Promised'
    BY <1>2, PromiseList DEF vars, NoNewExpired
  <2>3. QED BY <1>2, <2>1, <2>2, PromisedBack DEF GrantInv, vars
<1>3. QED BY <1>1, <1>2

LEMMA GrantInit == Init => GrantInv
<1>1. KeysOf(<<>>) = {} /\ LineKeys(<<>>) = {}
  BY DEF KeysOf, LineKeys
<1>2. ASSUME Init PROVE GrantInv
  <2>1. KnownInv /\ Balanced(fw) /\ disabled = FALSE
    BY <1>2, KnownInit, BalanceInit DEF BalanceInv, Init
  <2>2. (KeysOf(fw.nat) \cup LineKeys(lease) \cup LineKeys(reload)) \cap InUse = {}
    BY <1>1, <1>2 DEF Init, EmptyFirewall
  <2>3. \A k \in Keys : ~Due(k)
    BY <1>2 DEF Init, Due
  <2>4. QED BY <2>1, <2>2, <2>3 DEF GrantInv
<1>3. QED BY <1>2

(* Theorem: when the calls succeed, forwarding is never disabled, no crash  *)
(* meets an unfinished reload and no permission line tells the description  *)
(* NAT-PMP stores from its name, a client has the redirection it was        *)
(* told it has, to the address and port it was told, until the time it was  *)
(* told or until someone deletes it, over any requests of others, sweeps,   *)
(* restarts with or without the chains, and the reload of the lease file.   *)
THEOREM GrantsKept ==
  ASSUME Benign
  PROVE  Spec => []GrantHonoured
<1>1. GrantInv /\ [Next]_vars => GrantInv'
  BY GrantStep
<1>2. GrantInv => GrantHonoured
  <2>1. SUFFICES ASSUME GrantInv, reload = <<>>, NEW k \in Keys, Due(k)
                 PROVE  \E r \in Rules : r.key = k /\ r.iaddr = granted[k].iaddr
                                                   /\ r.iport = granted[k].iport
    BY DEF GrantHonoured, Due
  <2>2. PICK l : Held(k, l)
    BY <2>1, PromisedOver DEF Promised
  <2>3. k \in KeysOf(fw.nat)
    BY <2>1, <2>2 DEF Held, ToSet
  <2>4. PICK r \in ToSet(fw.nat) : r.key = k
    BY <2>3, KeysOfSet
  <2>5. r \in Rules
    BY <2>4 DEF ToSet, Rules
  <2>6. QED BY <2>2, <2>4, <2>5 DEF Held, Serves
<1>3. QED BY <1>1, <1>2, GrantInit, PTL DEF Spec


-----------------------------------------------------------------------------
(* The epoch of PCP, for any clients, packets, mappings, failures and number *)
(* of restarts and changes of address                                        *)

(* The origin that the next answer will carry is no earlier than the last  *)
(* start or change of address, whichever of startup_time and epoch_origin  *)
(* it comes from *)
EpochInv ==
  /\ now \in Nat /\ startup_time \in Nat /\ epoch_origin \in Nat
  /\ \A c \in Clients : resetAt[c] \in Nat /\ resetAt[c] <= Origin
  /\ EpochTells

(* The clock moves only forward *)
LEMMA ClockSteps ==
  ASSUME now \in Nat, PcpNext
  PROVE  now' = now \/ (now' = now + 1 /\ now' \in Nat)
<1>1. ASSUME NEW fails, Sweep(fails) \/ reload_from_lease_file(fails) PROVE now' = now
  BY <1>1 DEF Sweep, CleanUnusedRules, CleanExpiredRules, DeleteNext, reload_from_lease_file
<1>2. CASE PcpSweep
  BY <1>1, <1>2 DEF PcpSweep, Tick
<1>3. CASE NatpmpRequest
  <2>1. ASSUME NEW c, NEW p, NEW i, NatpmpDelete(c, p, i) PROVE now' = now
    BY <2>1 DEF NatpmpDelete
  <2>2. ASSUME NEW c, NEW p, NEW i, NEW e, NEW t, NatpmpMap(c, p, i, e, t, {})
        PROVE  now' = now
    BY <2>2, Zenon DEF NatpmpMap
  <2>3. QED BY <1>3, <2>1, <2>2 DEF NatpmpRequest
<1>4. ASSUME NEW flushed, PcpRestart(flushed) PROVE now' = now
  BY <1>4 DEF PcpRestart, Restart
<1>5. ASSUME NEW addr, AddressChanges(addr) PROVE now' = now
  BY <1>5 DEF AddressChanges, vars
<1>6. CASE PCPPublicAddressChanged
  BY <1>6 DEF PCPPublicAddressChanged
<1>7. ASSUME NEW pkt, NEW conn, NEW fails, ProcessIncomingPCPPacket(pkt, conn, fails)
      PROVE  now' = now
  BY <1>7 DEF ProcessIncomingPCPPacket
<1>8. QED
  BY <1>2, <1>3, <1>4, <1>5, <1>6, <1>7 DEF PcpNext

(* A client that is answered learns the present origin *)
LEMMA HeardKeeps ==
  ASSUME EpochInv, NEW clients, Heard(clients), now' \in Nat,
         startup_time' = startup_time, resetAt' = resetAt
  PROVE  EpochInv'
<1>1. Origin' = Origin /\ epoch_origin' \in Nat
  BY DEF EpochInv, Heard, Origin
<1>2. ASSUME NEW c \in Clients \ unaware', believed'[c] # NULL
      PROVE  believed'[c] >= resetAt'[c]
  <2>1. CASE c \in clients
    BY <2>1 DEF EpochInv, Heard, Origin
  <2>2. CASE c \notin clients
    BY <1>2, <2>2 DEF EpochInv, EpochTells, Heard
  <2>3. QED BY <2>1, <2>2
<1>3. QED BY <1>1, <1>2 DEF EpochInv, EpochTells

(* An announcement resets the origin to the present time *)
LEMMA AnnounceKeeps ==
  ASSUME EpochInv, PCPSendUnsolicitedAnnounce(now), now' = now,
         startup_time' \in Nat
  PROVE  EpochInv'
<1>1. PICK heard \in SUBSET Clients :
        /\ epoch_origin' = now
        /\ believed' = [c \in Clients |-> IF c \in heard THEN now ELSE believed[c]]
        /\ unaware' = Clients \ heard
        /\ resetAt' = [c \in Clients |-> IF believed[c] = NULL THEN 0 ELSE now]
  BY DEF PCPSendUnsolicitedAnnounce
<1>2. now \in Nat
  BY DEF EpochInv
<1>3. \A c \in Clients : resetAt'[c] \in Nat /\ resetAt'[c] <= now /\ resetAt'[c] <= Origin'
  BY <1>1, <1>2 DEF Origin
<1>4. \A c \in Clients \ unaware' : believed'[c] = now
  BY <1>1
<1>5. QED BY <1>1, <1>2, <1>3, <1>4 DEF EpochInv, EpochTells

(* Theorem: with startup_time counted from the start of the daemon          *)
(* (system_uptime=no), whoever has heard the daemon since it restarted or   *)
(* changed its address computes an epoch origin that is no earlier.         *)
THEOREM EpochCorrect ==
  ASSUME ~SysUptime
  PROVE  PcpSpec => []EpochTells
<1>1. PcpInit => EpochInv
  BY DEF PcpInit, Init, EpochInv, EpochTells, Origin
<1>2. EpochInv /\ [PcpNext]_allvars => EpochInv'
  <2> SUFFICES ASSUME EpochInv, [PcpNext]_allvars PROVE EpochInv'
    OBVIOUS
  <2>1. CASE PcpNext
    <3>a. now' \in Nat
      BY <2>1, ClockSteps DEF EpochInv
    <3>1. ASSUME NEW pkt, NEW conn, NEW fails, ProcessIncomingPCPPacket(pkt, conn, fails)
          PROVE  EpochInv'
      BY <3>1, <3>a, HeardKeeps DEF ProcessIncomingPCPPacket
    <3>2. CASE NatpmpRequest
      BY <3>2, <3>a, HeardKeeps DEF NatpmpRequest
    <3>3. CASE PcpSweep
      BY <3>3, <3>a DEF PcpSweep, EpochInv, EpochTells, Origin
    <3>4. ASSUME NEW flushed, PcpRestart(flushed) PROVE EpochInv'
      <4>1. PCPSendUnsolicitedAnnounce(now) /\ startup_time' = now /\ now' = now
        BY <3>4 DEF PcpRestart, Restart, set_startup_time
      <4>2. QED BY <4>1, AnnounceKeeps DEF EpochInv
    <3>5. ASSUME NEW addr, AddressChanges(addr) PROVE EpochInv'
      BY <3>5, <3>a DEF AddressChanges, vars, EpochInv, EpochTells, Origin
    <3>6. CASE PCPPublicAddressChanged
      BY <3>6, AnnounceKeeps DEF PCPPublicAddressChanged, EpochInv
    <3>7. QED
      BY <2>1, <3>1, <3>2, <3>3, <3>4, <3>5, <3>6 DEF PcpNext
  <2>2. CASE UNCHANGED allvars
    BY <2>2 DEF allvars, vars, pcpvars, EpochInv, EpochTells, Origin
  <2>3. QED BY <2>1, <2>2
<1>3. EpochInv => EpochTells
  BY DEF EpochInv
<1>4. QED
  BY <1>1, <1>2, <1>3, PTL DEF PcpSpec
=============================================================================
