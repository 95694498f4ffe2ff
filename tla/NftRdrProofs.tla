---------------------------- MODULE NftRdrProofs ----------------------------
(***************************************************************************)
(* Lemmas about the firewalls of Backends: the lists of rules, what        *)
(* nftables reads back of a rule it sent, its caches, and what each of its *)
(* requests leaves.  The theorems are in BackendsProofs.                   *)
(***************************************************************************)
EXTENDS Backends, ListLemmas, TLAPS

-----------------------------------------------------------------------------
(* The first and the last entry of a list for a key: a set of at most one *)

First(s, key) == IF KeyIndex(s, key) = 0 THEN {} ELSE {s[KeyIndex(s, key)]}

LEMMA KeyIndexFacts ==
  ASSUME NEW S, NEW s \in Seq(S), NEW key
  PROVE  /\ KeyIndex(s, key) \in 0 .. Len(s)
         /\ KeyIndex(s, key) = 0 <=> key \notin KeysOf(s)
         /\ KeyIndex(s, key) # 0 =>
              /\ s[KeyIndex(s, key)].key = key /\ KeyIndex(s, key) \in 1 .. Len(s)
              /\ \A j \in 1 .. Len(s) : s[j].key = key => KeyIndex(s, key) <= j
<1> DEFINE I == {i \in 1 .. Len(s) : s[i].key = key}
<1>1. DOMAIN s = 1 .. Len(s) /\ Len(s) \in Nat
  BY DomainIsLen
<1>2. KeyIndex(s, key) = IF I # {} THEN Min(I) ELSE 0
  BY DEF KeyIndex, SelectInSeq
<1>3. I \in SUBSET Nat
  OBVIOUS
<1>4. I # {} => Min(I) \in I /\ \A j \in I : Min(I) <= j
  BY <1>3, MinIsLeast
<1>5. I # {} <=> key \in KeysOf(s)
  BY <1>1 DEF KeysOf
<1>6. \A i : i \in I <=> i \in 1 .. Len(s) /\ s[i].key = key
  OBVIOUS
<1> HIDE DEF I
<1>7. I # {} => Min(I) \in 1 .. Len(s) /\ s[Min(I)].key = key
  BY <1>4, <1>6
<1>8. QED BY <1>1, <1>2, <1>4, <1>5, <1>6, <1>7

(* The index of the first entry is the one with no earlier entry of the key *)
LEMMA KeyIndexIs ==
  ASSUME NEW S, NEW s \in Seq(S), NEW key, NEW i \in 1 .. Len(s), s[i].key = key,
         \A j \in 1 .. Len(s) : j < i => s[j].key # key
  PROVE  KeyIndex(s, key) = i
<1>1. DOMAIN s = 1 .. Len(s) /\ Len(s) \in Nat
  BY DomainIsLen
<1>2. key \in KeysOf(s)
  BY <1>1 DEF KeysOf
<1>3. QED BY <1>1, <1>2, KeyIndexFacts

LEMMA FirstFacts ==
  ASSUME NEW S, NEW s \in Seq(S), NEW key
  PROVE  /\ First(s, key) = {} <=> key \notin KeysOf(s)
         /\ First(s, key) \subseteq {e \in S : e.key = key}
         /\ First(s, key) \subseteq ToSet(s)
         /\ UniqueKeys(s) => First(s, key) = {e \in ToSet(s) : e.key = key}
<1>1. DOMAIN s = 1 .. Len(s) /\ Len(s) \in Nat /\ \A i \in 1 .. Len(s) : s[i] \in S
  BY DomainIsLen
<1> DEFINE k == KeyIndex(s, key)
<1>2. /\ k \in 0 .. Len(s) /\ (k = 0 <=> key \notin KeysOf(s))
      /\ k # 0 => s[k].key = key /\ k \in 1 .. Len(s)
  BY KeyIndexFacts
<1>3. First(s, key) = IF k = 0 THEN {} ELSE {s[k]}
  BY DEF First
<1> HIDE DEF k
<1>4. First(s, key) \subseteq ToSet(s)
  BY <1>1, <1>2, <1>3 DEF ToSet
<1>5. ASSUME UniqueKeys(s), NEW e \in ToSet(s), e.key = key PROVE e \in First(s, key)
  <2>1. PICK i \in 1 .. Len(s) : e = s[i]
    BY <1>1, <1>5 DEF ToSet
  <2>2. k # 0
    BY <1>1, <1>2, <1>5, <2>1 DEF KeysOf
  <2>3. k = i
    BY <1>1, <1>2, <1>5, <2>1, <2>2 DEF UniqueKeys
  <2>4. QED BY <1>3, <2>1, <2>2, <2>3
<1>6. First(s, key) \subseteq {e \in S : e.key = key}
  BY <1>1, <1>2, <1>3
<1>7. UniqueKeys(s) => First(s, key) = {e \in ToSet(s) : e.key = key}
  BY <1>4, <1>5, <1>6
<1>8. QED BY <1>2, <1>3, <1>4, <1>6, <1>7

LEMMA FirstAppend ==
  ASSUME NEW S, NEW s \in Seq(S), NEW e \in S, NEW key
  PROVE  First(Append(s, e), key) =
           IF First(s, key) = {} /\ e.key = key THEN {e} ELSE First(s, key)
<1> DEFINE t == Append(s, e)
           n == Len(s)
<1>1. DOMAIN s = 1 .. n /\ n \in Nat
  BY DomainIsLen
<1>2. /\ t \in Seq(S) /\ Len(t) = n + 1 /\ t[n + 1] = e
      /\ \A i \in 1 .. n : t[i] = s[i]
  BY <1>1, AppendProperties, DomainIsLen
<1>3. KeysOf(t) = KeysOf(s) \cup {e.key}
  BY AppendKeyed
<1> HIDE DEF t, n
<1>4. CASE key \in KeysOf(s)
  <2> DEFINE k == KeyIndex(s, key)
  <2>1. k \in 1 .. n /\ s[k].key = key /\ \A j \in 1 .. n : s[j].key = key => k <= j
    BY <1>4, KeyIndexFacts DEF n
  <2> HIDE DEF k
  <2>2. k \in 1 .. (n + 1) /\ t[k].key = key /\ \A j \in 1 .. (n + 1) : j < k => t[j].key # key
    BY <1>1, <1>2, <2>1
  <2>3. KeyIndex(t, key) = k
    BY <1>2, <2>2, KeyIndexIs
  <2>4. First(t, key) = {t[k]} /\ First(s, key) = {s[k]}
    BY <2>1, <2>3, <1>1 DEF First, k
  <2>5. QED BY <1>2, <2>1, <2>4 DEF t
<1>5. CASE key \notin KeysOf(s) /\ e.key = key
  <2>1. \A j \in 1 .. n : s[j].key # key
    BY <1>1, <1>5 DEF KeysOf
  <2>2. n + 1 \in 1 .. (n + 1) /\ t[n + 1].key = key
        /\ \A j \in 1 .. (n + 1) : j < n + 1 => t[j].key # key
    BY <1>1, <1>2, <1>5, <2>1
  <2>3. KeyIndex(t, key) = n + 1
    BY <1>2, <2>2, KeyIndexIs
  <2>4. First(s, key) = {}
    BY <1>5, FirstFacts
  <2>6. First(t, key) = {e}
    BY <1>1, <1>2, <2>3 DEF First
  <2>5. QED BY <2>4, <2>6, <1>5 DEF t
<1>6. CASE key \notin KeysOf(s) /\ e.key # key
  <2>1. First(t, key) = {} /\ First(s, key) = {}
    BY <1>2, <1>3, <1>6, FirstFacts
  <2>2. QED BY <2>1, <1>6 DEF t
<1>7. QED BY <1>4, <1>5, <1>6

LEMMA FirstRemove ==
  ASSUME NEW S, NEW s \in Seq(S), NEW i \in 1 .. Len(s), NEW key
  PROVE  /\ s[i].key # key => First(RemoveAt(s, i), key) = First(s, key)
         /\ KeyIndex(s, key) # 0 /\ KeyIndex(s, key) < i
              => First(RemoveAt(s, i), key) = First(s, key)
<1> DEFINE t == RemoveAt(s, i)
           n == Len(s)
           k == KeyIndex(s, key)
<1>1. DOMAIN s = 1 .. n /\ n \in Nat
  BY DomainIsLen
<1>2. /\ t \in Seq(S) /\ Len(t) = n - 1
      /\ \A j \in 1 .. (n - 1) : t[j] = IF j < i THEN s[j] ELSE s[j + 1]
  BY RemoveAtFacts
<1>3. i \in 1 .. n
  OBVIOUS
<1>4. /\ k \in 0 .. n /\ (k = 0 <=> key \notin KeysOf(s))
      /\ k # 0 => /\ s[k].key = key /\ k \in 1 .. n
                  /\ \A j \in 1 .. n : s[j].key = key => k <= j
  BY KeyIndexFacts
<1>5. First(s, key) = IF k = 0 THEN {} ELSE {s[k]}
  BY DEF First
<1> HIDE DEF t, n, k
<1>6. CASE k # 0 /\ k < i
  <2>1. k \in 1 .. (n - 1) /\ t[k] = s[k]
    BY <1>1, <1>2, <1>3, <1>4, <1>6
  <2>2. \A j \in 1 .. (n - 1) : j < k => t[j].key # key
    BY <1>1, <1>2, <1>3, <1>4, <1>6
  <2>3. KeyIndex(t, key) = k
    BY <1>2, <1>4, <1>6, <2>1, <2>2, KeyIndexIs
  <2>4. First(t, key) = {s[k]}
    BY <1>6, <2>1, <2>3 DEF First
  <2>5. QED BY <1>5, <1>6, <2>4 DEF t, k
<1>7. CASE k # 0 /\ i < k /\ s[i].key # key
  <2>1. k - 1 \in 1 .. (n - 1) /\ t[k - 1] = s[k]
    BY <1>1, <1>2, <1>3, <1>4, <1>7
  <2>2. \A j \in 1 .. (n - 1) : j < k - 1 => t[j].key # key
    BY <1>1, <1>2, <1>3, <1>4, <1>7
  <2>6. k - 1 \in 1 .. Len(t) /\ t[k - 1].key = key
        /\ \A j \in 1 .. Len(t) : j < k - 1 => t[j].key # key
    BY <1>2, <1>4, <1>7, <2>1, <2>2
  <2> DEFINE p == k - 1
  <2> HIDE DEF p
  <2>7. KeyIndex(t, key) = p
    BY <1>2, <2>6, KeyIndexIs, SMTT(30) DEF p
  <2>3. KeyIndex(t, key) = k - 1
    BY <2>7 DEF p
  <2>4. First(t, key) = {s[k]}
    BY <2>1, <2>3, <1>1 DEF First
  <2>5. QED BY <1>1, <1>3, <1>4, <1>5, <1>7, <2>4 DEF t, k
<1>8. CASE k = 0
  <2>1. \A j \in 1 .. n : s[j].key # key
    BY <1>1, <1>4, <1>8 DEF KeysOf
  <2>2. \A j \in 1 .. (n - 1) : t[j].key # key
    BY <1>1, <1>2, <1>3, <2>1
  <2>3. key \notin KeysOf(t)
    BY <1>2, <2>2, DomainIsLen DEF KeysOf
  <2>4. First(t, key) = {}
    BY <1>2, <2>3, FirstFacts
  <2>5. QED BY <1>5, <1>8, <2>4 DEF t, k
<1>9. s[i].key # key => k # i
  BY <1>3, <1>4
<1>10. QED BY <1>1, <1>3, <1>4, <1>6, <1>7, <1>8, <1>9 DEF k, t

LEMMA FirstCons ==
  ASSUME NEW S, NEW s \in Seq(S), NEW e \in S, NEW key
  PROVE  First(Cons(e, s), key) = IF e.key = key THEN {e} ELSE First(s, key)
<1> DEFINE t == Cons(e, s)
           n == Len(s)
           k == KeyIndex(s, key)
<1>1. DOMAIN s = 1 .. n /\ n \in Nat
  BY DomainIsLen
<1>2. /\ t \in Seq(S) /\ Len(t) = n + 1 /\ t[1] = e
      /\ \A j \in 2 .. (n + 1) : t[j] = s[j - 1]
  BY ConsFacts
<1>3. KeysOf(t) = KeysOf(s) \cup {e.key}
  BY ConsKeyed
<1>4. /\ k \in 0 .. n /\ (k = 0 <=> key \notin KeysOf(s))
      /\ k # 0 => /\ s[k].key = key /\ k \in 1 .. n
                  /\ \A j \in 1 .. n : s[j].key = key => k <= j
  BY KeyIndexFacts
<1>5. First(s, key) = IF k = 0 THEN {} ELSE {s[k]}
  BY DEF First
<1> HIDE DEF t, n, k
<1>6. CASE e.key = key
  <2>1. 1 \in 1 .. (n + 1) /\ t[1].key = key /\ \A j \in 1 .. (n + 1) : j < 1 => t[j].key # key
    BY <1>1, <1>2, <1>6
  <2>2. KeyIndex(t, key) = 1
    BY <1>2, <2>1, KeyIndexIs
  <2>3. QED BY <1>2, <1>6, <2>2 DEF First, t
<1>7. CASE e.key # key /\ k # 0
  <2>1. k + 1 \in 1 .. (n + 1) /\ t[k + 1] = s[k]
    BY <1>1, <1>2, <1>4, <1>7
  <2>2. \A j \in 1 .. (n + 1) : j < k + 1 => t[j].key # key
    <3> SUFFICES ASSUME NEW j \in 1 .. (n + 1), j < k + 1 PROVE t[j].key # key
      OBVIOUS
    <3>1. CASE j = 1
      BY <1>2, <1>7, <3>1
    <3>2. CASE j # 1
      <4>1. j \in 2 .. (n + 1) /\ j - 1 \in 1 .. n /\ ~(k <= j - 1)
        BY <1>1, <1>4, <3>2
      <4>2. QED BY <1>2, <1>4, <1>7, <4>1
    <3>3. QED BY <3>1, <3>2
  <2>3. KeyIndex(t, key) = k + 1
    BY <1>2, <1>4, <1>7, <2>1, <2>2, KeyIndexIs
  <2>4. First(t, key) = {s[k]}
    BY <2>1, <2>3, <1>1, <1>4, <1>7 DEF First
  <2>5. QED BY <1>5, <1>7, <2>4 DEF t
<1>8. CASE e.key # key /\ k = 0
  <2>1. First(t, key) = {}
    BY <1>2, <1>3, <1>4, <1>8, FirstFacts
  <2>2. QED BY <1>5, <1>8, <2>1 DEF t
<1>9. QED BY <1>6, <1>7, <1>8

(* The daemon's list without the first entry of a key *)
LEMMA ListRemoveFacts ==
  ASSUME NEW S, NEW s \in Seq(S), NEW key
  PROVE  /\ ListRemove(s, key) \in Seq(S)
         /\ \A k : k # key => First(ListRemove(s, key), k) = First(s, k)
         /\ KeysOf(ListRemove(s, key)) \subseteq KeysOf(s)
         /\ UniqueKeys(s) => /\ UniqueKeys(ListRemove(s, key))
                             /\ KeysOf(ListRemove(s, key)) = KeysOf(s) \ {key}
<1>1. DOMAIN s = 1 .. Len(s) /\ Len(s) \in Nat
  BY DomainIsLen
<1> DEFINE i == KeyIndex(s, key)
<1>2. ListRemove(s, key) = IF \E j \in 1 .. Len(s) : s[j].key = key THEN RemoveAt(s, i) ELSE s
  BY DEF ListRemove, RemoveFirstMatch, KeyIndex
<1>3. (\E j \in 1 .. Len(s) : s[j].key = key) <=> key \in KeysOf(s)
  BY <1>1 DEF KeysOf
<1>4. key \in KeysOf(s) => i \in 1 .. Len(s) /\ s[i].key = key
  BY KeyIndexFacts
<1> HIDE DEF i
<1>5. CASE key \in KeysOf(s)
  <2>1. ListRemove(s, key) = RemoveAt(s, i) /\ i \in 1 .. Len(s) /\ s[i].key = key
    BY <1>2, <1>3, <1>4, <1>5
  <2>2. \A k : k # key => First(RemoveAt(s, i), k) = First(s, k)
    BY <2>1, FirstRemove
  <2>3. /\ RemoveAt(s, i) \in Seq(S) /\ ToSet(RemoveAt(s, i)) \subseteq ToSet(s)
        /\ UniqueKeys(s) => /\ UniqueKeys(RemoveAt(s, i))
                            /\ KeysOf(RemoveAt(s, i)) = KeysOf(s) \ {key}
    BY <2>1, RemoveKeyed
  <2>4. KeysOf(RemoveAt(s, i)) \subseteq KeysOf(s)
    BY <2>3, KeysOfSet
  <2>5. QED BY <2>1, <2>2, <2>3, <2>4
<1>6. CASE key \notin KeysOf(s)
  <2>1. ListRemove(s, key) = s
    BY <1>2, <1>3, <1>6
  <2>2. QED BY <2>1, <1>6
<1>7. QED BY <1>5, <1>6

-----------------------------------------------------------------------------
(* Reading a rule of nftables back *)

Protos == {"tcp", "udp"}
LEMMA PortsAre == \A c : c \in Ports <=> c \in Nat /\ c <= 65535
<1> DEFINE d == 65535
<1>1. d \in Nat /\ Ports = 0 .. d
  BY DEF Ports
<1> HIDE DEF d
<1>2. \A c : c \in Ports <=> c \in Nat /\ c <= d
  BY <1>1
<1>3. QED BY <1>2 DEF d

LEMMA PortIsNat ==
  ASSUME NEW c \in Ports
  PROVE  c \in Nat
BY PortsAre

LEMMA HtonsTwice ==
  ASSUME NEW p \in Ports
  PROVE  Nft!htons(p) \in Ports /\ Nft!htons(Nft!htons(p)) = p
<1> DEFINE a == p % 256
           b == p \div 256
<1>0. p \in Nat /\ p <= 65535
  BY PortsAre
<1>1. p = b * 256 + a /\ a \in 0 .. 255 /\ b \in 0 .. 255
  BY <1>0
<1> HIDE DEF a, b
<1>2. (a * 256 + b) % 256 = b /\ (a * 256 + b) \div 256 = a
  BY <1>1
<1>3. Nft!htons(p) = a * 256 + b
  BY DEF Nft!htons, a, b
<1>4. a * 256 + b \in Nat /\ a * 256 + b <= 65535
  BY <1>1
<1>6. a * 256 + b \in Ports
  BY <1>4, PortsAre
<1>5. QED BY <1>1, <1>2, <1>3, <1>6 DEF Nft!htons

RuleTypes == {"nat", "filter", "counter"}
Loads == {"none", "proto", "saddr", "daddr", "saddr6", "daddr6", "sport", "dport", "nfproto"}
RuleT ==
  [type : RuleTypes, proto : Protos \cup {"none"}, saddr : Nat, daddr : Nat, saddr6 : Nat,
   daddr6 : Nat, sport : Ports, dport : Ports, nat_type : {"none", "dnat"}, nat_addr : Nat,
   nat_port : Ports, reg_type : [1 .. 2 -> Loads], reg_val : [1 .. 2 -> Nat]]

LEMMA EmptyIsRule ==
  ASSUME NEW t \in RuleTypes
  PROVE  Nft!EmptyRule(t) \in RuleT
BY DEF RuleT, Nft!EmptyRule, Loads, Ports

LEMMA LoadFacts ==
  ASSUME NEW r \in RuleT, NEW kind \in Loads
  PROVE LET q == [r EXCEPT !.reg_type[1] = kind] IN
   /\ q \in RuleT /\ q.reg_type[1] = kind
   /\ q.type = r.type /\ q.proto = r.proto /\ q.saddr = r.saddr /\ q.daddr = r.daddr
   /\ q.saddr6 = r.saddr6 /\ q.daddr6 = r.daddr6 /\ q.sport = r.sport /\ q.dport = r.dport
   /\ q.nat_type = r.nat_type /\ q.nat_addr = r.nat_addr /\ q.nat_port = r.nat_port
   /\ q.reg_val = r.reg_val
BY DEF RuleT

Payloads == {Nft!IpSaddr, Nft!IpDaddr, Nft!IpProto, Nft!Ip6Saddr, Nft!Ip6Daddr, Nft!Ip6Next,
             Nft!SrcPort, Nft!DstPort}

(* What a payload is loaded as *)
LoadOf(what) ==
  CASE what = Nft!IpDaddr -> "daddr"   [] what = Nft!IpSaddr -> "saddr"
    [] what = Nft!IpProto -> "proto"   [] what = Nft!Ip6Next -> "proto"
    [] what = Nft!Ip6Daddr -> "daddr6" [] what = Nft!Ip6Saddr -> "saddr6"
    [] what = Nft!DstPort -> "dport"   [] what = Nft!SrcPort -> "sport"

LEMMA LoadOfFacts ==
  /\ LoadOf(Nft!IpDaddr) = "daddr" /\ LoadOf(Nft!IpSaddr) = "saddr"
  /\ LoadOf(Nft!IpProto) = "proto" /\ LoadOf(Nft!Ip6Next) = "proto"
  /\ LoadOf(Nft!Ip6Daddr) = "daddr6" /\ LoadOf(Nft!Ip6Saddr) = "saddr6"
  /\ LoadOf(Nft!DstPort) = "dport" /\ LoadOf(Nft!SrcPort) = "sport"
BY DEF LoadOf, Nft!IpDaddr, Nft!IpSaddr, Nft!IpProto, Nft!Ip6Next, Nft!Ip6Daddr,
       Nft!Ip6Saddr, Nft!DstPort, Nft!SrcPort

(* The comparison of register 1 *)
LEMMA CmpFacts ==
  ASSUME NEW r \in RuleT, NEW val,
         r.reg_type[1] \in {"daddr", "saddr", "daddr6", "saddr6"} => val \in Nat,
         r.reg_type[1] \in {"dport", "sport"} => val \in Ports,
         r.reg_type[1] = "proto" => val \in Protos
  PROVE  LET q == Nft!parse_rule_cmp(Nft!Expr("cmp", 1, val), r)
             f == r.reg_type[1] IN
         /\ q \in RuleT
         /\ q.type = r.type /\ q.nat_type = r.nat_type /\ q.nat_addr = r.nat_addr
         /\ q.nat_port = r.nat_port /\ q.reg_val = r.reg_val
         /\ q.proto = IF f = "proto" THEN val ELSE r.proto
         /\ q.saddr = IF f = "saddr" THEN val ELSE r.saddr
         /\ q.daddr = IF f = "daddr" THEN val ELSE r.daddr
         /\ q.saddr6 = IF f = "saddr6" THEN val ELSE r.saddr6
         /\ q.daddr6 = IF f = "daddr6" THEN val ELSE r.daddr6
         /\ q.sport = IF f = "sport" THEN Nft!htons(val) ELSE r.sport
         /\ q.dport = IF f = "dport" THEN Nft!htons(val) ELSE r.dport
<1> DEFINE f == r.reg_type[1]
           e == Nft!Expr("cmp", 1, val)
<1>0. f \in Loads /\ e.val = val
  BY DEF RuleT, Nft!Expr
<1>1. CASE f = "proto"
  BY <1>1, <1>0 DEF Nft!parse_rule_cmp, RuleT, Loads
<1>2. CASE f = "saddr"
  BY <1>2, <1>0 DEF Nft!parse_rule_cmp, RuleT, Loads
<1>3. CASE f = "daddr"
  BY <1>3, <1>0 DEF Nft!parse_rule_cmp, RuleT, Loads
<1>4. CASE f = "saddr6"
  BY <1>4, <1>0 DEF Nft!parse_rule_cmp, RuleT, Loads
<1>5. CASE f = "daddr6"
  BY <1>5, <1>0 DEF Nft!parse_rule_cmp, RuleT, Loads
<1>6. CASE f = "sport"
  BY <1>6, <1>0, HtonsTwice DEF Nft!parse_rule_cmp, RuleT, Loads
<1>7. CASE f = "dport"
  BY <1>7, <1>0, HtonsTwice DEF Nft!parse_rule_cmp, RuleT, Loads
<1>8. CASE f \in {"none", "nfproto"}
  BY <1>8, <1>0 DEF Nft!parse_rule_cmp, RuleT, Loads
<1>9. QED BY <1>0, <1>1, <1>2, <1>3, <1>4, <1>5, <1>6, <1>7, <1>8 DEF Loads

-----------------------------------------------------------------------------
(* Reading a list of expressions, one after the other *)

Parsing(r, exprs, f) ==
  f = [i \in 0 .. Len(exprs) |-> IF i = 0 THEN r ELSE Nft!rule_expr_cb(f[i - 1], exprs[i])]

LEMMA ParseExists ==
  ASSUME NEW r, NEW exprs, Len(exprs) \in Nat
  PROVE  \E f : Parsing(r, exprs, f)
<1> DEFINE n == Len(exprs)
           Step(f, i) == IF i = 0 THEN r ELSE Nft!rule_expr_cb(f[i - 1], exprs[i])
           P == {m \in 0 .. n : \E f : /\ DOMAIN f = 0 .. m /\ f = [i \in 0 .. m |-> f[i]]
                                       /\ \A i \in 0 .. m : f[i] = Step(f, i)}
<1>a. SUFFICES \E f : f = [i \in 0 .. n |-> Step(f, i)]
  BY DEF Parsing
<1>1. n \in Nat
  OBVIOUS
<1> HIDE DEF n
<1>2. 0 \in P
  <2> DEFINE f == [i \in 0 .. 0 |-> r]
  <2>1. DOMAIN f = 0 .. 0 /\ \A i \in 0 .. 0 : f[i] = Step(f, i)
    OBVIOUS
  <2>2. f = [i \in 0 .. 0 |-> f[i]]
    OBVIOUS
  <2> HIDE DEF f
  <2>3. 0 \in 0 .. n
    BY <1>1
  <2>4. QED BY <2>1, <2>2, <2>3
<1>3. ASSUME NEW m \in 0 .. n, m # 0, m - 1 \in P PROVE m \in P
  <2>1. PICK f : /\ DOMAIN f = 0 .. (m - 1)
                 /\ \A i \in 0 .. (m - 1) : f[i] = Step(f, i)
    BY <1>3
  <2> DEFINE g == [i \in 0 .. m |-> IF i = m THEN Step(f, m) ELSE f[i]]
  <2>2. ASSUME NEW i \in 0 .. m PROVE g[i] = Step(g, i)
    <3>1. i # 0 => i - 1 \in 0 .. (m - 1)
      BY <1>1
    <3>2. i # 0 => g[i - 1] = f[i - 1]
      BY <1>1, <3>1
    <3>3. CASE i = m
      BY <1>3, <3>2, <3>3
    <3>4. CASE i # m
      <4>1. i \in 0 .. (m - 1) /\ g[i] = f[i]
        BY <1>1, <3>4
      <4>2. QED BY <2>1, <3>2, <4>1
    <3>5. QED BY <3>3, <3>4
  <2>3. DOMAIN g = 0 .. m /\ g = [i \in 0 .. m |-> g[i]]
    OBVIOUS
  <2> HIDE DEF g
  <2>4. QED BY <2>2, <2>3
<1> HIDE DEF P
<1>4. n \in P
  <2>1. \A i \in 0 .. n : i \in P
    BY <1>1, <1>2, <1>3, UpTo
  <2>2. QED BY <1>1, <2>1
<1>5. PICK f : /\ f = [i \in 0 .. n |-> f[i]]
               /\ \A i \in 0 .. n : f[i] = Step(f, i)
  BY <1>4 DEF P
<1>6. f = [i \in 0 .. n |-> Step(f, i)]
  BY <1>5
<1>7. QED BY <1>6

LEMMA ParseSteps ==
  ASSUME NEW r, NEW exprs, Len(exprs) \in Nat
  PROVE  \E f : /\ f[0] = r /\ Nft!Parse(r, exprs) = f[Len(exprs)]
                /\ \A i \in 1 .. Len(exprs) : f[i] = Nft!rule_expr_cb(f[i - 1], exprs[i])
<1> DEFINE F == CHOOSE f : Parsing(r, exprs, f)
<1>1. Parsing(r, exprs, F)
  BY ParseExists
<1>2. Nft!Parse(r, exprs) = F[Len(exprs)]
  BY DEF Nft!Parse, Parsing
<1> HIDE DEF F
<1>3. F[0] = r
  BY <1>1 DEF Parsing
<1>4. \A i \in 1 .. Len(exprs) : F[i] = Nft!rule_expr_cb(F[i - 1], exprs[i])
  BY <1>1 DEF Parsing
<1>5. QED BY <1>2, <1>3, <1>4

LEMMA ParseConcat ==
  ASSUME NEW S, NEW s \in Seq(S), NEW t \in Seq(S), NEW r
  PROVE  Nft!Parse(r, s \o t) = Nft!Parse(Nft!Parse(r, s), t)
<1> DEFINE u == s \o t
           n == Len(s)
           m == Len(t)
           q == Nft!Parse(r, s)
<1>1. n \in Nat /\ m \in Nat
  BY LenProperties
<1>2. Len(u) = n + m /\ (\A i \in 1 .. n : u[i] = s[i]) /\ (\A i \in 1 .. m : u[n + i] = t[i])
  BY <1>1, ConcatProperties
<1>3. PICK f : /\ f[0] = r /\ Nft!Parse(r, u) = f[n + m]
               /\ \A i \in 1 .. (n + m) : f[i] = Nft!rule_expr_cb(f[i - 1], u[i])
  <2>1. Len(u) \in Nat
    BY <1>1, <1>2
  <2> HIDE DEF u
  <2>2. PICK f : /\ f[0] = r /\ Nft!Parse(r, u) = f[Len(u)]
                 /\ \A i \in 1 .. Len(u) : f[i] = Nft!rule_expr_cb(f[i - 1], u[i])
    BY <2>1, ParseSteps
  <2>3. QED BY <1>2, <2>2
<1>4. PICK g : /\ g[0] = r /\ q = g[n]
               /\ \A i \in 1 .. n : g[i] = Nft!rule_expr_cb(g[i - 1], s[i])
  BY <1>1, ParseSteps
<1>5. PICK h : /\ h[0] = q /\ Nft!Parse(q, t) = h[m]
               /\ \A i \in 1 .. m : h[i] = Nft!rule_expr_cb(h[i - 1], t[i])
  <2> HIDE DEF q
  <2>1. QED BY <1>1, ParseSteps
<1> HIDE DEF u, n, m, q
<1> DEFINE P == {i \in 0 .. n : f[i] = g[i]}
           Q == {i \in 0 .. m : f[n + i] = h[i]}
<1>6. \A i \in 0 .. n : i \in P
  <2>1. 0 \in P
    BY <1>1, <1>3, <1>4
  <2>2. ASSUME NEW i \in 0 .. n, i # 0, i - 1 \in P PROVE i \in P
    <3>1. i \in 1 .. n /\ i \in 1 .. (n + m)
      BY <1>1, <2>2
    <3>2. f[i - 1] = g[i - 1]
      BY <2>2
    <3>3. QED BY <1>2, <1>3, <1>4, <3>1, <3>2
  <2> HIDE DEF P
  <2>3. QED BY <1>1, <2>1, <2>2, UpTo
<1>7. \A i \in 0 .. m : i \in Q
  <2>1. 0 \in Q
    <3>1. n \in P
      BY <1>1, <1>6
    <3>2. n + 0 = n /\ 0 \in 0 .. m
      BY <1>1
    <3>3. QED BY <1>4, <1>5, <3>1, <3>2
  <2>2. ASSUME NEW i \in 0 .. m, i # 0, i - 1 \in Q PROVE i \in Q
    <3>1. i \in 1 .. m /\ n + i \in 1 .. (n + m) /\ (n + i) - 1 = n + (i - 1)
      BY <1>1, <2>2
    <3>2. f[n + (i - 1)] = h[i - 1]
      BY <2>2
    <3>3. QED BY <1>2, <1>3, <1>5, <3>1, <3>2
  <2> HIDE DEF Q
  <2>3. QED BY <1>1, <2>1, <2>2, UpTo
<1>8. m \in 0 .. m
  BY <1>1
<1>9. f[n + m] = h[m]
  BY <1>7, <1>8
<1>10. QED BY <1>3, <1>5, <1>9 DEF u, q

LEMMA ParseTwo ==
  ASSUME NEW r, NEW a, NEW b
  PROVE  Nft!Parse(r, <<a, b>>) = Nft!rule_expr_cb(Nft!rule_expr_cb(r, a), b)
<1>1. Len(<<a, b>>) = 2 /\ <<a, b>>[1] = a /\ <<a, b>>[2] = b
  OBVIOUS
<1> DEFINE u == <<a, b>>
<1> HIDE DEF u
<1>2. PICK f : /\ f[0] = r /\ Nft!Parse(r, u) = f[2]
               /\ \A i \in 1 .. 2 : f[i] = Nft!rule_expr_cb(f[i - 1], u[i])
  BY <1>1, ParseSteps DEF u
<1>3. f[1] = Nft!rule_expr_cb(f[0], u[1]) /\ f[2] = Nft!rule_expr_cb(f[1], u[2])
  <2>1. 1 \in 1 .. 2 /\ 2 \in 1 .. 2 /\ 1 - 1 = 0 /\ 2 - 1 = 1
    OBVIOUS
  <2>2. QED BY <1>2, <2>1
<1>4. QED BY <1>1, <1>2, <1>3 DEF u

LEMMA ParseOne ==
  ASSUME NEW r, NEW a
  PROVE  Nft!Parse(r, <<a>>) = Nft!rule_expr_cb(r, a)
<1>1. Len(<<a>>) = 1 /\ <<a>>[1] = a
  OBVIOUS
<1> DEFINE u == <<a>>
<1> HIDE DEF u
<1>2. PICK f : /\ f[0] = r /\ Nft!Parse(r, u) = f[1]
               /\ \A i \in 1 .. 1 : f[i] = Nft!rule_expr_cb(f[i - 1], u[i])
  BY <1>1, ParseSteps DEF u
<1>3. f[1] = Nft!rule_expr_cb(f[0], u[1])
  <2>1. 1 \in 1 .. 1 /\ 1 - 1 = 0
    OBVIOUS
  <2>2. QED BY <1>2, <2>1
<1>4. QED BY <1>1, <1>2, <1>3 DEF u

LEMMA ParseThree ==
  ASSUME NEW r, NEW a, NEW b, NEW c
  PROVE  Nft!Parse(r, <<a, b, c>>)
           = Nft!rule_expr_cb(Nft!rule_expr_cb(Nft!rule_expr_cb(r, a), b), c)
<1>1. Len(<<a, b, c>>) = 3 /\ <<a, b, c>>[1] = a /\ <<a, b, c>>[2] = b /\ <<a, b, c>>[3] = c
  OBVIOUS
<1> DEFINE u == <<a, b, c>>
<1> HIDE DEF u
<1>2. PICK f : /\ f[0] = r /\ Nft!Parse(r, u) = f[3]
               /\ \A i \in 1 .. 3 : f[i] = Nft!rule_expr_cb(f[i - 1], u[i])
  BY <1>1, ParseSteps DEF u
<1>3. /\ f[1] = Nft!rule_expr_cb(f[0], u[1]) /\ f[2] = Nft!rule_expr_cb(f[1], u[2])
      /\ f[3] = Nft!rule_expr_cb(f[2], u[3])
  <2>1. 1 \in 1 .. 3 /\ 2 \in 1 .. 3 /\ 3 \in 1 .. 3 /\ 1 - 1 = 0 /\ 2 - 1 = 1 /\ 3 - 1 = 2
    OBVIOUS
  <2>2. QED BY <1>2, <2>1
<1>4. QED BY <1>1, <1>2, <1>3 DEF u

LEMMA CallbackFacts ==
  ASSUME NEW r, NEW reg, NEW val
  PROVE  /\ Nft!rule_expr_cb(r, Nft!Expr("cmp", reg, val))
              = Nft!parse_rule_cmp(Nft!Expr("cmp", reg, val), r)
         /\ Nft!rule_expr_cb(r, Nft!Expr("nat", reg, val))
              = Nft!parse_rule_nat(Nft!Expr("nat", reg, val), r)
         /\ Nft!rule_expr_cb(r, Nft!Expr("meta", reg, val))
              = Nft!parse_rule_meta(Nft!Expr("meta", reg, val), r)
         /\ Nft!rule_expr_cb(r, Nft!Expr("counter", reg, val)) = Nft!parse_rule_counter(r)
         /\ Nft!rule_expr_cb(r, Nft!Expr("payload", reg, val))
              = Nft!parse_rule_payload(Nft!Expr("payload", reg, val), r)
         /\ Nft!rule_expr_cb(r, Nft!Expr("immediate", reg, val))
              = Nft!parse_rule_immediate(Nft!Expr("immediate", reg, val), r)
<1>1. \A name : Nft!Expr(name, reg, val).name = name
  BY DEF Nft!Expr
<1>2. QED BY <1>1 DEF Nft!rule_expr_cb

(* A payload and its comparison set one field of the rule *)
LEMMA CompareFacts ==
  ASSUME NEW r \in RuleT, NEW what \in Payloads, NEW val,
         LoadOf(what) \in {"daddr", "saddr", "daddr6", "saddr6"} => val \in Nat,
         LoadOf(what) \in {"dport", "sport"} => val \in Ports,
         LoadOf(what) = "proto" => val \in Protos
  PROVE  LET q == Nft!Parse(r, Nft!expr_add_cmp(what, val))
             f == LoadOf(what) IN
         /\ q \in RuleT
         /\ q.type = r.type /\ q.nat_type = r.nat_type /\ q.nat_addr = r.nat_addr
         /\ q.nat_port = r.nat_port /\ q.reg_val = r.reg_val
         /\ q.proto = IF f = "proto" THEN val ELSE r.proto
         /\ q.saddr = IF f = "saddr" THEN val ELSE r.saddr
         /\ q.daddr = IF f = "daddr" THEN val ELSE r.daddr
         /\ q.saddr6 = IF f = "saddr6" THEN val ELSE r.saddr6
         /\ q.daddr6 = IF f = "daddr6" THEN val ELSE r.daddr6
         /\ q.sport = IF f = "sport" THEN Nft!htons(val) ELSE r.sport
         /\ q.dport = IF f = "dport" THEN Nft!htons(val) ELSE r.dport
<1> DEFINE a == Nft!Expr("payload", 1, what)
           b == Nft!Expr("cmp", 1, val)
           f == LoadOf(what)
           m == [r EXCEPT !.reg_type[1] = f]
<1>1. f \in Loads
  BY LoadOfFacts DEF Payloads, Loads
<1>2. Nft!Parse(r, Nft!expr_add_cmp(what, val)) = Nft!rule_expr_cb(Nft!rule_expr_cb(r, a), b)
  BY ParseTwo DEF Nft!expr_add_cmp
<1>3. Nft!rule_expr_cb(r, a) = Nft!parse_rule_payload(a, r)
  BY CallbackFacts
<1>4. a.val = what /\ a.reg = 1
  BY DEF Nft!Expr
<1>5. Nft!parse_rule_payload(a, r) = m
  BY <1>4 DEF Nft!parse_rule_payload, LoadOf
<1>6. /\ m \in RuleT /\ m.reg_type[1] = f
      /\ m.type = r.type /\ m.proto = r.proto /\ m.saddr = r.saddr /\ m.daddr = r.daddr
      /\ m.saddr6 = r.saddr6 /\ m.daddr6 = r.daddr6 /\ m.sport = r.sport /\ m.dport = r.dport
      /\ m.nat_type = r.nat_type /\ m.nat_addr = r.nat_addr /\ m.nat_port = r.nat_port
      /\ m.reg_val = r.reg_val
  <2> HIDE DEF f
  <2>1. QED BY <1>1, LoadFacts
<1>7. Nft!Parse(r, Nft!expr_add_cmp(what, val)) = Nft!parse_rule_cmp(b, m)
  BY <1>2, <1>3, <1>5, CallbackFacts
<1> HIDE DEF m, f
<1>8. /\ m.reg_type[1] \in {"daddr", "saddr", "daddr6", "saddr6"} => val \in Nat
      /\ m.reg_type[1] \in {"dport", "sport"} => val \in Ports
      /\ m.reg_type[1] = "proto" => val \in Protos
  BY <1>6 DEF f
<1>9. QED BY <1>6, <1>7, <1>8, CmpFacts DEF f

(* The address family changes no field that is looked at *)
LEMMA FamilyFacts ==
  ASSUME NEW r \in RuleT, NEW family
  PROVE  LET q == Nft!Parse(r, Nft!expr_add_nfproto(family)) IN
         /\ q \in RuleT
         /\ q.type = r.type /\ q.proto = r.proto /\ q.saddr = r.saddr /\ q.daddr = r.daddr
         /\ q.saddr6 = r.saddr6 /\ q.daddr6 = r.daddr6 /\ q.sport = r.sport /\ q.dport = r.dport
         /\ q.nat_type = r.nat_type /\ q.nat_addr = r.nat_addr /\ q.nat_port = r.nat_port
         /\ q.reg_val = r.reg_val
<1> DEFINE a == Nft!Expr("meta", 1, "nfproto")
           b == Nft!Expr("cmp", 1, family)
           m == [r EXCEPT !.reg_type[1] = "nfproto"]
<1>1. Nft!Parse(r, Nft!expr_add_nfproto(family)) = Nft!rule_expr_cb(Nft!rule_expr_cb(r, a), b)
  BY ParseTwo DEF Nft!expr_add_nfproto
<1>2. Nft!rule_expr_cb(r, a) = Nft!parse_rule_meta(a, r)
  BY CallbackFacts
<1>3. a.val = "nfproto" /\ a.reg = 1
  BY DEF Nft!Expr
<1>4. Nft!parse_rule_meta(a, r) = m
  BY <1>3 DEF Nft!parse_rule_meta
<1>5. /\ m \in RuleT /\ m.reg_type[1] = "nfproto"
      /\ m.type = r.type /\ m.proto = r.proto /\ m.saddr = r.saddr /\ m.daddr = r.daddr
      /\ m.saddr6 = r.saddr6 /\ m.daddr6 = r.daddr6 /\ m.sport = r.sport /\ m.dport = r.dport
      /\ m.nat_type = r.nat_type /\ m.nat_addr = r.nat_addr /\ m.nat_port = r.nat_port
      /\ m.reg_val = r.reg_val
  <2>1. "nfproto" \in Loads
    BY DEF Loads
  <2>2. QED BY <2>1, LoadFacts
<1>6. Nft!Parse(r, Nft!expr_add_nfproto(family)) = Nft!parse_rule_cmp(b, m)
  BY <1>1, <1>2, <1>4, CallbackFacts
<1> HIDE DEF m
<1>7. QED BY <1>5, <1>6, CmpFacts

(* The address and the port of a translation *)
LEMMA NatFacts ==
  ASSUME NEW r \in RuleT, NEW addr \in Nat, NEW port \in Ports
  PROVE  LET q == Nft!Parse(r, Nft!expr_add_nat("dnat", addr, port)) IN
         /\ q \in RuleT
         /\ q.type = "nat" /\ q.nat_type = "dnat" /\ q.nat_addr = addr /\ q.nat_port = port
         /\ q.proto = r.proto /\ q.dport = r.dport /\ q.saddr = r.saddr
<1> DEFINE a == Nft!Expr("immediate", 1, addr)
           b == Nft!Expr("immediate", 2, Nft!htons(port))
           c == Nft!Expr("nat", 0, "dnat")
           m == [r EXCEPT !.reg_val[1] = addr]
           n == [m EXCEPT !.reg_val[2] = Nft!htons(port)]
<1>1. Nft!Parse(r, Nft!expr_add_nat("dnat", addr, port))
        = Nft!rule_expr_cb(Nft!rule_expr_cb(Nft!rule_expr_cb(r, a), b), c)
  BY ParseThree DEF Nft!expr_add_nat
<1>2. /\ a.val = addr /\ a.reg = 1 /\ b.val = Nft!htons(port) /\ b.reg = 2 /\ c.val = "dnat"
  BY DEF Nft!Expr
<1>3. Nft!rule_expr_cb(r, a) = m
  BY <1>2, CallbackFacts DEF Nft!parse_rule_immediate
<1>4. Nft!rule_expr_cb(m, b) = n
  <2> HIDE DEF m
  <2>1. QED BY <1>2, CallbackFacts DEF Nft!parse_rule_immediate
<1>5. Nft!htons(port) \in Ports /\ Nft!htons(port) \in Nat /\ Nft!htons(Nft!htons(port)) = port
  BY HtonsTwice, PortIsNat
<1>6. m \in RuleT /\ m.reg_val[1] = addr /\ m.proto = r.proto /\ m.dport = r.dport
      /\ m.saddr = r.saddr
  BY DEF RuleT
<1>7. /\ n \in RuleT /\ n.reg_val[1] = addr /\ n.reg_val[2] = Nft!htons(port)
      /\ n.proto = r.proto /\ n.dport = r.dport /\ n.saddr = r.saddr
  <2> HIDE DEF m
  <2>1. QED BY <1>5, <1>6 DEF RuleT
<1> HIDE DEF m, n
<1>8. Nft!rule_expr_cb(n, c) = Nft!parse_rule_nat(c, n)
  BY CallbackFacts
<1>9. Nft!Parse(r, Nft!expr_add_nat("dnat", addr, port)) = Nft!parse_rule_nat(c, n)
  BY <1>1, <1>3, <1>4, <1>8
<1> DEFINE none == [i \in 1 .. 2 |-> "none"]
<1>10. none \in [1 .. 2 -> Loads]
  BY DEF Loads
<1> HIDE DEF none
<1>11. Nft!parse_rule_nat(c, n)
         = [n EXCEPT !.type = "nat", !.nat_type = "dnat", !.nat_addr = addr,
                     !.nat_port = port, !.reg_type = none]
  BY <1>2, <1>5, <1>7 DEF Nft!parse_rule_nat, none
<1> HIDE DEF c
<1>12. PICK q : q = [n EXCEPT !.type = "nat", !.nat_type = "dnat", !.nat_addr = addr,
                              !.nat_port = port, !.reg_type = none]
  OBVIOUS
<1>13. q.type = "nat" /\ q.nat_type = "dnat" /\ q.nat_addr = addr /\ q.nat_port = port
       /\ q.proto = n.proto /\ q.dport = n.dport /\ q.saddr = n.saddr
  BY <1>7, <1>12 DEF RuleT
<1>14. q \in RuleT
  BY <1>7, <1>10, <1>12 DEF RuleT, RuleTypes
<1>15. QED BY <1>7, <1>9, <1>11, <1>12, <1>13, <1>14

Values == Nat \cup Payloads \cup Protos
            \cup {"nfproto", "ipv4", "ipv6", "dnat", "accept"}
Exprs == [name : {"cmp", "nat", "meta", "counter", "payload", "immediate"},
          reg : {0, 1, 2}, val : Values]

LEMMA ExprType ==
  ASSUME NEW name \in {"cmp", "nat", "meta", "counter", "payload", "immediate"},
         NEW reg \in {0, 1, 2}, NEW val \in Values
  PROVE  Nft!Expr(name, reg, val) \in Exprs
BY DEF Nft!Expr, Exprs

LEMMA PairType ==
  ASSUME NEW a \in Exprs, NEW b \in Exprs
  PROVE  <<a, b>> \in Seq(Exprs)
OBVIOUS

LEMMA TripleType ==
  ASSUME NEW a \in Exprs, NEW b \in Exprs, NEW c \in Exprs
  PROVE  <<a, b, c>> \in Seq(Exprs)
OBVIOUS

LEMMA CompareType ==
  ASSUME NEW what \in Payloads, NEW val \in Values
  PROVE  Nft!expr_add_cmp(what, val) \in Seq(Exprs)
<1>1. what \in Values
  BY DEF Values
<1>2. Nft!Expr("payload", 1, what) \in Exprs
  BY <1>1, ExprType
<1>3. Nft!Expr("cmp", 1, val) \in Exprs
  BY ExprType
<1>4. QED BY <1>2, <1>3, PairType DEF Nft!expr_add_cmp

LEMMA FamilyType ==
  ASSUME NEW family \in {"ipv4", "ipv6"}
  PROVE  Nft!expr_add_nfproto(family) \in Seq(Exprs)
<1>1. "nfproto" \in Values /\ family \in Values
  BY DEF Values
<1>2. Nft!Expr("meta", 1, "nfproto") \in Exprs
  BY <1>1, ExprType
<1>3. Nft!Expr("cmp", 1, family) \in Exprs
  BY <1>1, ExprType
<1>4. QED BY <1>2, <1>3, PairType DEF Nft!expr_add_nfproto

LEMMA NatType ==
  ASSUME NEW addr \in Nat, NEW port \in Ports
  PROVE  Nft!expr_add_nat("dnat", addr, port) \in Seq(Exprs)
<1>1. addr \in Values /\ Nft!htons(port) \in Values /\ "dnat" \in Values
  BY HtonsTwice, PortIsNat DEF Values
<1>2. Nft!Expr("immediate", 1, addr) \in Exprs
  BY <1>1, ExprType
<1>3. Nft!Expr("immediate", 2, Nft!htons(port)) \in Exprs
  BY <1>1, ExprType
<1>4. Nft!Expr("nat", 0, "dnat") \in Exprs
  BY <1>1, ExprType
<1> DEFINE a == Nft!Expr("immediate", 1, addr)
           b == Nft!Expr("immediate", 2, Nft!htons(port))
           c == Nft!Expr("nat", 0, "dnat")
<1>5. Nft!expr_add_nat("dnat", addr, port) = <<a, b, c>>
  BY DEF Nft!expr_add_nat
<1> HIDE DEF a, b, c
<1>6. a \in Exprs /\ b \in Exprs /\ c \in Exprs
  BY <1>2, <1>3, <1>4 DEF a, b, c
<1>7. QED BY <1>5, <1>6, TripleType

(* The concatenation of lists, read in their order *)
LEMMA ParseThen ==
  ASSUME NEW s \in Seq(Exprs), NEW t \in Seq(Exprs), NEW r
  PROVE  /\ s \o t \in Seq(Exprs)
         /\ Nft!Parse(r, s \o t) = Nft!Parse(Nft!Parse(r, s), t)
BY ParseConcat, ConcatProperties

LEMMA ParseNone ==
  ASSUME NEW r
  PROVE  <<>> \in Seq(Exprs) /\ Nft!Parse(r, <<>>) = r
<1>1. Len(<<>>) = 0
  OBVIOUS
<1> DEFINE u == <<>>
<1> HIDE DEF u
<1>2. PICK f : f[0] = r /\ Nft!Parse(r, u) = f[0]
  BY <1>1, ParseSteps DEF u
<1>3. QED BY <1>2 DEF u

(* An optional comparison *)
Optional(what, val) == IF val # 0 THEN Nft!expr_add_cmp(what, val) ELSE <<>>
OptionalPort(what, port) == IF port # 0 THEN Nft!expr_add_cmp(what, Nft!htons(port)) ELSE <<>>

LEMMA OptionalAddr ==
  ASSUME NEW r \in RuleT, NEW what \in {Nft!IpSaddr, Nft!Ip6Saddr}, NEW val \in Nat
  PROVE  LET q == Nft!Parse(r, Optional(what, val)) IN
         /\ Optional(what, val) \in Seq(Exprs)
         /\ q \in RuleT /\ q.type = r.type /\ q.daddr = r.daddr /\ q.daddr6 = r.daddr6
         /\ q.sport = r.sport /\ q.dport = r.dport
         /\ q.proto = r.proto
         /\ q.saddr6 = IF val # 0 /\ what = Nft!Ip6Saddr THEN val ELSE r.saddr6
         /\ q.saddr = IF val # 0 /\ what = Nft!IpSaddr THEN val ELSE r.saddr
<1>1. what \in Payloads /\ val \in Values
  BY DEF Payloads, Values
<1>2. CASE val = 0
  BY <1>2, ParseNone DEF Optional
<1>3. CASE val # 0
  <2>1. Optional(what, val) = Nft!expr_add_cmp(what, val)
    BY <1>3 DEF Optional
  <2>7. Nft!Ip6Saddr # Nft!IpSaddr
    BY DEF Nft!IpSaddr, Nft!Ip6Saddr
  <2>2. LoadOf(what) = (IF what = Nft!Ip6Saddr THEN "saddr6" ELSE "saddr")
    BY <2>7, LoadOfFacts
  <2>3. Nft!expr_add_cmp(what, val) \in Seq(Exprs)
    BY <1>1, CompareType
  <2>4. CASE what = Nft!Ip6Saddr
    BY ONLY r \in RuleT, val \in Nat, <1>1, <1>3, <2>1, <2>2, <2>3, <2>4, <2>7, CompareFacts
  <2>5. CASE what = Nft!IpSaddr
    BY ONLY r \in RuleT, val \in Nat, <1>1, <1>3, <2>1, <2>2, <2>3, <2>5, <2>7, CompareFacts
  <2>6. QED BY <2>4, <2>5
<1>4. QED BY <1>2, <1>3

(* Reading the expressions of a redirection back gives the mapping *)
LEMMA DnatReadBack ==
  ASSUME NEW m, m.key \in Protos \X Ports, m.rhost \in Nat, m.iaddr \in Nat, m.iport \in Ports
  PROVE  LET q == Nft!table_cb(Nft!rule_set_dnat(m), "nat") IN
         /\ q.type = "nat" /\ q.nat_type = "dnat"
         /\ q.proto = Proto(m.key) /\ q.dport = Eport(m.key)
         /\ q.nat_addr = m.iaddr /\ q.nat_port = m.iport /\ q.saddr = m.rhost
<1> DEFINE proto == Nft!Proto(m.key)
           eport == Nft!Eport(m.key)
<1>1. proto \in Protos /\ eport \in Ports /\ proto = Proto(m.key) /\ eport = Eport(m.key)
  BY DEF Nft!Proto, Nft!Eport, Proto, Eport
<1> HIDE DEF proto, eport
<1> DEFINE rhost == m.rhost
           s1 == Nft!expr_add_nfproto("ipv4")
           sh == Optional(Nft!IpSaddr, rhost)
           s2 == Nft!expr_add_cmp(Nft!IpProto, proto)
           s3 == Nft!expr_add_cmp(Nft!DstPort, Nft!htons(eport))
           s4 == <<Nft!Expr("counter", 0, 0)>>
           s5 == Nft!expr_add_nat("dnat", m.iaddr, m.iport)
<1>2. Nft!rule_set_dnat(m) = s1 \o sh \o s2 \o s3 \o s4 \o s5
  BY DEF Nft!rule_set_dnat, Optional, proto, eport
<1>17. rhost \in Nat
  OBVIOUS
<1> HIDE DEF rhost
<1>3. Nft!htons(eport) \in Ports /\ Nft!htons(eport) \in Nat
      /\ Nft!htons(Nft!htons(eport)) = eport
  BY <1>1, HtonsTwice, PortIsNat
<1>4. Nft!IpProto \in Payloads /\ Nft!DstPort \in Payloads
  BY DEF Payloads
<1>5. proto \in Values /\ Nft!htons(eport) \in Values /\ 0 \in Values
  BY <1>1, <1>3 DEF Values
<1>6. s1 \in Seq(Exprs) /\ s2 \in Seq(Exprs) /\ s3 \in Seq(Exprs) /\ s5 \in Seq(Exprs)
  BY <1>4, <1>5, FamilyType, CompareType, NatType
<1>7. s4 \in Seq(Exprs)
  <2> DEFINE c == Nft!Expr("counter", 0, 0)
  <2>1. c \in Exprs
    BY <1>5, ExprType
  <2> HIDE DEF c
  <2>2. <<c>> \in Seq(Exprs)
    BY <2>1
  <2>3. QED BY <2>2 DEF c
<1> DEFINE r0 == Nft!EmptyRule("nat")
           r1 == Nft!Parse(r0, s1)
           rh == Nft!Parse(r1, sh)
           r2 == Nft!Parse(rh, s2)
           r3 == Nft!Parse(r2, s3)
           r4 == Nft!Parse(r3, s4)
           r5 == Nft!Parse(r4, s5)
<1>8. r0 \in RuleT /\ r0.saddr = 0
  <2>1. r0 \in RuleT
    BY EmptyIsRule DEF RuleTypes
  <2>2. QED BY <2>1 DEF Nft!EmptyRule
<1>9. r1 \in RuleT /\ r1.saddr = 0
  <2> HIDE DEF r0
  <2>1. QED BY <1>8, FamilyFacts
<1>18. rh \in RuleT /\ rh.saddr = rhost /\ sh \in Seq(Exprs)
  <2> HIDE DEF r1
  <2>1. Nft!IpSaddr \in {Nft!IpSaddr, Nft!Ip6Saddr}
    OBVIOUS
  <2>2. /\ sh \in Seq(Exprs) /\ rh \in RuleT
        /\ rh.saddr = (IF rhost # 0 /\ Nft!IpSaddr = Nft!IpSaddr THEN rhost ELSE r1.saddr)
    BY ONLY <1>9, <1>17, <2>1, OptionalAddr
  <2> HIDE DEF rh, sh
  <2>3. QED BY <1>9, <2>2
<1>10. r2 \in RuleT /\ r2.proto = proto /\ r2.saddr = rhost
  <2> HIDE DEF rh
  <2>1. QED BY <1>1, <1>4, <1>18, CompareFacts, LoadOfFacts
<1>11. r3 \in RuleT /\ r3.proto = proto /\ r3.dport = eport /\ r3.saddr = rhost
  <2> HIDE DEF r2
  <2>1. QED BY <1>3, <1>4, <1>10, CompareFacts, LoadOfFacts
<1>12. r4 = Nft!parse_rule_counter(r3)
  BY ParseOne, CallbackFacts
<1>13. r4 \in RuleT /\ r4.proto = proto /\ r4.dport = eport /\ r4.saddr = rhost
  <2> HIDE DEF r3, r4
  <2>1. QED BY <1>11, <1>12 DEF Nft!parse_rule_counter, RuleT, RuleTypes
<1>14. /\ r5.type = "nat" /\ r5.nat_type = "dnat" /\ r5.nat_addr = m.iaddr
       /\ r5.nat_port = m.iport /\ r5.proto = proto /\ r5.dport = eport /\ r5.saddr = rhost
  <2>1. m.iaddr \in Nat /\ m.iport \in Ports
    OBVIOUS
  <2> DEFINE ia == m.iaddr
             ip == m.iport
  <2>2. r5 = Nft!Parse(r4, Nft!expr_add_nat("dnat", ia, ip)) /\ ia \in Nat /\ ip \in Ports
    BY <2>1
  <2> HIDE DEF r4, r5, ia, ip
  <2>3. /\ r5.type = "nat" /\ r5.nat_type = "dnat" /\ r5.nat_addr = ia /\ r5.nat_port = ip
        /\ r5.proto = r4.proto /\ r5.dport = r4.dport /\ r5.saddr = r4.saddr
    <3>1. r4 \in RuleT
      BY <1>13
    <3>2. ia \in Nat
      BY <2>2
    <3>3. ip \in Ports
      BY <2>2
    <3>4. LET q == Nft!Parse(r4, Nft!expr_add_nat("dnat", ia, ip)) IN
         /\ q \in RuleT
         /\ q.type = "nat" /\ q.nat_type = "dnat" /\ q.nat_addr = ia /\ q.nat_port = ip
         /\ q.proto = r4.proto /\ q.dport = r4.dport /\ q.saddr = r4.saddr
      BY ONLY <3>1, <3>2, <3>3, NatFacts
    <3>5. QED BY <2>2, <3>4
  <2>4. QED BY <1>13, <2>3 DEF ia, ip
<1>15. Nft!table_cb(Nft!rule_set_dnat(m), "nat") = r5
  <2>1. Nft!table_cb(Nft!rule_set_dnat(m), "nat") = Nft!Parse(r0, s1 \o sh \o s2 \o s3 \o s4 \o s5)
    BY <1>2 DEF Nft!table_cb
  <2> HIDE DEF s1, sh, s2, s3, s4, s5, r0
  <2>2. /\ r1 = Nft!Parse(r0, s1) /\ rh = Nft!Parse(r1, sh) /\ r2 = Nft!Parse(rh, s2)
        /\ r3 = Nft!Parse(r2, s3) /\ r4 = Nft!Parse(r3, s4) /\ r5 = Nft!Parse(r4, s5)
    OBVIOUS
  <2> HIDE DEF r1, rh, r2, r3, r4, r5
  <2> DEFINE th == s1 \o sh
             t2 == th \o s2
             t3 == t2 \o s3
             t4 == t3 \o s4
  <2>8. th \in Seq(Exprs) /\ Nft!Parse(r0, th) = rh
    BY <1>6, <1>18, <2>2, ParseThen
  <2>3. t2 \in Seq(Exprs) /\ Nft!Parse(r0, t2) = r2
    <3> HIDE DEF th
    <3>1. QED BY <1>6, <2>2, <2>8, ParseThen
  <2>4. t3 \in Seq(Exprs) /\ Nft!Parse(r0, t3) = r3
    <3> HIDE DEF t2
    <3>1. QED BY <1>6, <2>2, <2>3, ParseThen
  <2>5. t4 \in Seq(Exprs) /\ Nft!Parse(r0, t4) = r4
    <3> HIDE DEF t3
    <3>1. QED BY <1>7, <2>2, <2>4, ParseThen
  <2>6. Nft!Parse(r0, t4 \o s5) = r5
    <3> HIDE DEF t4
    <3>1. QED BY <1>6, <2>2, <2>5, ParseThen
  <2>7. QED BY <2>1, <2>6
<1>16. QED BY <1>1, <1>14, <1>15 DEF rhost

LEMMA OptionalSport ==
  ASSUME NEW r \in RuleT, NEW port \in Ports
  PROVE  LET q == Nft!Parse(r, OptionalPort(Nft!SrcPort, port)) IN
         /\ OptionalPort(Nft!SrcPort, port) \in Seq(Exprs)
         /\ q \in RuleT /\ q.type = r.type /\ q.daddr = r.daddr /\ q.daddr6 = r.daddr6
         /\ q.dport = r.dport /\ q.saddr6 = r.saddr6
         /\ q.sport = IF port # 0 THEN port ELSE r.sport
<1> DEFINE val == Nft!htons(port)
<1>1. val \in Ports /\ val \in Nat /\ Nft!htons(val) = port
  BY HtonsTwice, PortIsNat
<1>2. Nft!SrcPort \in Payloads /\ val \in Values
  BY <1>1 DEF Payloads, Values
<1>3. CASE port = 0
  BY <1>3, ParseNone DEF OptionalPort
<1>4. CASE port # 0
  <2>1. OptionalPort(Nft!SrcPort, port) = Nft!expr_add_cmp(Nft!SrcPort, val)
    BY <1>4 DEF OptionalPort
  <2> HIDE DEF val
  <2>2. Nft!expr_add_cmp(Nft!SrcPort, val) \in Seq(Exprs)
    BY <1>2, CompareType
  <2>3. QED BY ONLY r \in RuleT, <1>1, <1>2, <1>4, <2>1, <2>2, LoadOfFacts, CompareFacts
<1>5. QED BY <1>3, <1>4

(* Reading the expressions of a pass rule or of a pinhole back: the         *)
(* payloads are those of one address family                                *)
FilterExprs(dport, sport, family, D, iaddr, R, rhost, P, proto) ==
  (Nft!expr_add_cmp(Nft!DstPort, Nft!htons(dport)) \o OptionalPort(Nft!SrcPort, sport))
  \o Nft!expr_add_nfproto(family)
  \o Nft!expr_add_cmp(D, iaddr)
  \o Optional(R, rhost)
  \o Nft!expr_add_cmp(P, proto)
  \o << Nft!Expr("immediate", 0, "accept") >>

LEMMA FilterReads ==
  ASSUME NEW dport \in Ports, NEW sport \in Ports, NEW family \in {"ipv4", "ipv6"},
         NEW iaddr \in Nat, NEW rhost \in Nat, NEW proto \in Protos,
         NEW D \in {Nft!IpDaddr, Nft!Ip6Daddr}, NEW R \in {Nft!IpSaddr, Nft!Ip6Saddr},
         NEW P \in {Nft!IpProto, Nft!Ip6Next}
  PROVE  LET q == Nft!table_cb(FilterExprs(dport, sport, family, D, iaddr, R, rhost, P, proto),
                               "filter")
         IN /\ q.type = "filter" /\ q.proto = proto /\ q.dport = dport /\ q.sport = sport
            /\ q.daddr = IF D = Nft!IpDaddr THEN iaddr ELSE 0
            /\ q.daddr6 = IF D = Nft!IpDaddr THEN 0 ELSE iaddr
            /\ q.saddr6 = IF R = Nft!Ip6Saddr THEN rhost ELSE 0
<1> DEFINE val == Nft!htons(dport)
           s1 == Nft!expr_add_cmp(Nft!DstPort, val)
           s2 == OptionalPort(Nft!SrcPort, sport)
           s3 == Nft!expr_add_nfproto(family)
           s4 == Nft!expr_add_cmp(D, iaddr)
           s5 == Optional(R, rhost)
           s6 == Nft!expr_add_cmp(P, proto)
           c == Nft!Expr("immediate", 0, "accept")
           s7 == <<c>>
           r0 == Nft!EmptyRule("filter")
           r1 == Nft!Parse(r0, s1)
           r2 == Nft!Parse(r1, s2)
           r3 == Nft!Parse(r2, s3)
           r4 == Nft!Parse(r3, s4)
           r5 == Nft!Parse(r4, s5)
           r6 == Nft!Parse(r5, s6)
           r7 == Nft!Parse(r6, s7)
<1>1. val \in Ports /\ val \in Nat /\ Nft!htons(val) = dport
  BY HtonsTwice, PortIsNat
<1>2. Nft!DstPort \in Payloads /\ D \in Payloads /\ P \in Payloads
  BY DEF Payloads
<1>3. val \in Values /\ iaddr \in Values /\ proto \in Values /\ "accept" \in Values
  BY <1>1 DEF Values
<1>4. LoadOf(D) = (IF D = Nft!IpDaddr THEN "daddr" ELSE "daddr6") /\ LoadOf(P) = "proto"
  <2>1. Nft!IpDaddr # Nft!Ip6Daddr
    BY DEF Nft!IpDaddr, Nft!Ip6Daddr
  <2>2. QED BY <2>1, LoadOfFacts
<1>5. r0 \in RuleT /\ r0.type = "filter" /\ r0.daddr = 0 /\ r0.daddr6 = 0 /\ r0.saddr6 = 0
      /\ r0.sport = 0
  <2>1. r0 \in RuleT
    BY EmptyIsRule DEF RuleTypes
  <2>2. QED BY <2>1 DEF Nft!EmptyRule
<1>6. /\ r1 \in RuleT /\ r1.type = "filter" /\ r1.daddr = 0 /\ r1.daddr6 = 0 /\ r1.saddr6 = 0
      /\ r1.sport = 0 /\ r1.dport = dport
  <2> HIDE DEF r0, val
  <2>1. QED BY ONLY <1>1, <1>2, <1>5, LoadOfFacts, CompareFacts
<1>7. /\ r2 \in RuleT /\ r2.type = "filter" /\ r2.daddr = 0 /\ r2.daddr6 = 0 /\ r2.saddr6 = 0
      /\ r2.sport = sport /\ r2.dport = dport /\ s2 \in Seq(Exprs)
  <2> HIDE DEF r1
  <2>1. QED BY ONLY sport \in Ports, <1>6, OptionalSport
<1>8. /\ r3 \in RuleT /\ r3.type = "filter" /\ r3.daddr = 0 /\ r3.daddr6 = 0 /\ r3.saddr6 = 0
      /\ r3.sport = sport /\ r3.dport = dport
  <2> HIDE DEF r2
  <2>1. QED BY ONLY <1>7, FamilyFacts
<1>9. /\ r4 \in RuleT /\ r4.type = "filter" /\ r4.saddr6 = 0
      /\ r4.daddr = (IF D = Nft!IpDaddr THEN iaddr ELSE 0)
      /\ r4.daddr6 = (IF D = Nft!IpDaddr THEN 0 ELSE iaddr)
      /\ r4.sport = sport /\ r4.dport = dport
  <2> HIDE DEF r3
  <2>1. QED BY ONLY iaddr \in Nat, <1>2, <1>4, <1>8, CompareFacts
<1>10. /\ r5 \in RuleT /\ r5.type = "filter" /\ s5 \in Seq(Exprs)
       /\ r5.saddr6 = (IF R = Nft!Ip6Saddr THEN rhost ELSE 0)
       /\ r5.daddr = (IF D = Nft!IpDaddr THEN iaddr ELSE 0)
       /\ r5.daddr6 = (IF D = Nft!IpDaddr THEN 0 ELSE iaddr)
       /\ r5.sport = sport /\ r5.dport = dport
  <2> HIDE DEF r4
  <2>1. /\ s5 \in Seq(Exprs) /\ r5 \in RuleT /\ r5.type = r4.type
        /\ r5.daddr = r4.daddr /\ r5.daddr6 = r4.daddr6
        /\ r5.sport = r4.sport /\ r5.dport = r4.dport
        /\ r5.saddr6 = (IF rhost # 0 /\ R = Nft!Ip6Saddr THEN rhost ELSE r4.saddr6)
    BY ONLY rhost \in Nat, R \in {Nft!IpSaddr, Nft!Ip6Saddr}, <1>9, OptionalAddr
  <2> HIDE DEF r5, s5
  <2>2. QED BY <1>9, <2>1
<1>11. /\ r6 \in RuleT /\ r6.type = "filter" /\ r6.proto = proto
       /\ r6.saddr6 = (IF R = Nft!Ip6Saddr THEN rhost ELSE 0)
       /\ r6.daddr = (IF D = Nft!IpDaddr THEN iaddr ELSE 0)
       /\ r6.daddr6 = (IF D = Nft!IpDaddr THEN 0 ELSE iaddr)
       /\ r6.sport = sport /\ r6.dport = dport
  <2> HIDE DEF r5
  <2>1. QED BY ONLY proto \in Protos, <1>2, <1>4, <1>10, CompareFacts
<1>12. r7 = r6
  <2> HIDE DEF r6
  <2>1. c.reg = 0
    BY DEF Nft!Expr
  <2>2. QED BY <2>1, ParseOne, CallbackFacts DEF Nft!parse_rule_immediate
<1>13. s1 \in Seq(Exprs) /\ s3 \in Seq(Exprs) /\ s4 \in Seq(Exprs) /\ s6 \in Seq(Exprs)
  BY <1>2, <1>3, CompareType, FamilyType
<1>14. s7 \in Seq(Exprs)
  <2>1. c \in Exprs
    BY <1>3, ExprType
  <2> HIDE DEF c
  <2>2. QED BY <2>1
<1>15. Nft!Parse(r0, ((((((s1 \o s2) \o s3) \o s4) \o s5) \o s6) \o s7)) = r7
  <2> HIDE DEF s1, s2, s3, s4, s5, s6, s7, r0
  <2>1. /\ r1 = Nft!Parse(r0, s1) /\ r2 = Nft!Parse(r1, s2) /\ r3 = Nft!Parse(r2, s3)
        /\ r4 = Nft!Parse(r3, s4) /\ r5 = Nft!Parse(r4, s5) /\ r6 = Nft!Parse(r5, s6)
        /\ r7 = Nft!Parse(r6, s7)
    OBVIOUS
  <2> HIDE DEF r1, r2, r3, r4, r5, r6, r7
  <2> DEFINE t2 == s1 \o s2
             t3 == t2 \o s3
             t4 == t3 \o s4
             t5 == t4 \o s5
             t6 == t5 \o s6
  <2>2. t2 \in Seq(Exprs) /\ Nft!Parse(r0, t2) = r2
    BY <1>7, <1>13, <2>1, ParseThen
  <2>3. t3 \in Seq(Exprs) /\ Nft!Parse(r0, t3) = r3
    <3> HIDE DEF t2
    <3>1. QED BY <1>13, <2>1, <2>2, ParseThen
  <2>4. t4 \in Seq(Exprs) /\ Nft!Parse(r0, t4) = r4
    <3> HIDE DEF t3
    <3>1. QED BY <1>13, <2>1, <2>3, ParseThen
  <2>5. t5 \in Seq(Exprs) /\ Nft!Parse(r0, t5) = r5
    <3> HIDE DEF t4
    <3>1. QED BY <1>10, <2>1, <2>4, ParseThen
  <2>6. t6 \in Seq(Exprs) /\ Nft!Parse(r0, t6) = r6
    <3> HIDE DEF t5
    <3>1. QED BY <1>13, <2>1, <2>5, ParseThen
  <2>7. Nft!Parse(r0, t6 \o s7) = r7
    <3> HIDE DEF t6
    <3>1. QED BY <1>14, <2>1, <2>6, ParseThen
  <2>8. QED BY <2>7
<1>16. QED
  <2> DEFINE all == ((((((s1 \o s2) \o s3) \o s4) \o s5) \o s6) \o s7)
  <2>1. Nft!table_cb(all, "filter") = Nft!Parse(r0, all)
    BY DEF Nft!table_cb
  <2>2. Nft!table_cb(all, "filter") = r6
    BY <1>12, <1>15, <2>1
  <2> HIDE DEF r6
  <2>3. all = FilterExprs(dport, sport, family, D, iaddr, R, rhost, P, proto)
    BY DEF FilterExprs
  <2> HIDE DEF all
  <2>4. QED BY <1>11, <2>2, <2>3

-----------------------------------------------------------------------------
(* The rules of the kernel, and what nftables reads of them *)

V4 == {w.iaddr : w \in Wants}
V6 == {p.iaddr : p \in Pinholes}

(* the descriptions that do not read as the label of a pinhole, and the     *)
(* mappings that have one                                                   *)
Descs == ({w.desc : w \in Wants} \cup {"none"}) \ DOMAIN Labels
PlainWants == {w \in Wants : w.desc \notin DOMAIN Labels}

RdrRules == [key : Keys, rhost : Nat, iaddr : V4, iport : Ports, desc : Descs]
PassRules == [kind : {"pass"}, proto : Protos, rhost : Nat, rport : {0},
              iaddr : V4, port : Ports, uid : {0}, ts : {0}]
PinRules == [kind : {"pinhole"}, proto : Protos, rhost : Nat, rport : Ports,
             iaddr : V6, port : Ports, uid : 1 .. MaxUid - 1, ts : Nat]
FilterRules == PassRules \cup PinRules

CachedRdr(e) ==
  [key |-> e.key, rhost |-> e.rhost, iaddr |-> e.iaddr, iport |-> e.iport, desc |-> e.desc,
   dnat |-> TRUE]

CachedFilter(e) ==
  [proto |-> e.proto, daddr |-> IF e.kind = "pinhole" THEN 0 ELSE e.iaddr,
   saddr6 |-> IF e.kind = "pinhole" THEN e.rhost ELSE 0,
   daddr6 |-> IF e.kind = "pinhole" THEN e.iaddr ELSE 0,
   sport |-> e.rport, dport |-> e.port, pinhole |-> ReadsAsPinhole(e),
   uid |-> e.uid, ts |-> e.ts, filter |-> TRUE]

LEMMA KeyType ==
  ASSUME NEW key \in Keys
  PROVE  /\ key \in Protos \X Ports /\ Proto(key) \in Protos /\ Eport(key) \in Ports
         /\ key = <<Proto(key), Eport(key)>>
<1>1. key \in Protos \X Ports
  BY BackendsAssumption DEF Protos
<1>2. QED BY <1>1 DEF Proto, Eport

LEMMA AddrFacts ==
  V4 \subseteq Nat \ {0} /\ V6 \subseteq Nat \ {0} /\ V4 \cap V6 = {}
<1>1. \A w \in Wants : w.iaddr \in Nat \ {0}
  BY BackendsAssumption
<1>2. \A p \in Pinholes : p.iaddr \in Nat \ {0}
  BY BackendsAssumption
<1>3. \A w \in Wants, p \in Pinholes : w.iaddr # p.iaddr
  BY BackendsAssumption
<1>4. QED BY <1>1, <1>2, <1>3 DEF V4, V6

LEMMA PortZero == 0 \in Ports
BY PortsAre

LEMMA FilterRuleType ==
  ASSUME NEW e \in FilterRules
  PROVE  /\ e.port \in Ports /\ e.rport \in Ports /\ e.iaddr \in Nat \ {0} /\ e.rhost \in Nat
         /\ e.proto \in Protos /\ e.kind \in {"pass", "pinhole"}
         /\ e.kind = "pass" => e \in PassRules
         /\ e.kind = "pinhole" => e \in PinRules
<1>1. CASE e \in PassRules
  <2>1. /\ e.kind = "pass" /\ e.proto \in Protos /\ e.rhost \in Nat /\ e.rport = 0
        /\ e.iaddr \in V4 /\ e.port \in Ports
    BY <1>1 DEF PassRules
  <2>2. e.iaddr \in Nat \ {0} /\ e.rport \in Ports
    BY <2>1, AddrFacts, PortZero
  <2>3. QED BY <1>1, <2>1, <2>2
<1>2. CASE e \in PinRules
  BY <1>2, AddrFacts DEF PinRules
<1>3. QED BY <1>1, <1>2 DEF FilterRules

LEMMA RedirectionIs ==
  ASSUME NEW e \in RdrRules
  PROVE  Nft!Redirection(e, Nft!table_cb(Nft!rule_set_dnat(e), "nat")) = CachedRdr(e)
<1>1. e.key \in Protos \X Ports /\ e.rhost \in Nat /\ e.iaddr \in Nat /\ e.iport \in Ports
      /\ e.key = <<Proto(e.key), Eport(e.key)>>
  BY KeyType, AddrFacts DEF RdrRules
<1> DEFINE q == Nft!table_cb(Nft!rule_set_dnat(e), "nat")
<1>2. /\ q.type = "nat" /\ q.nat_type = "dnat"
      /\ q.proto = Proto(e.key) /\ q.dport = Eport(e.key)
      /\ q.nat_addr = e.iaddr /\ q.nat_port = e.iport /\ q.saddr = e.rhost
  BY ONLY <1>1, DnatReadBack
<1> HIDE DEF q
<1>3. (q.type = "nat" /\ q.nat_type = "dnat") = TRUE
  BY <1>2
<1>4. Nft!Redirection(e, q) = CachedRdr(e)
  BY <1>1, <1>2, <1>3 DEF Nft!Redirection, CachedRdr
<1>5. QED BY <1>4 DEF q

(* The same for the rule of a pinhole and for the pass rule of a mapping *)
LEMMA PinholeReads ==
  ASSUME NEW dport \in Ports, NEW sport \in Ports, NEW iaddr \in Nat, NEW rhost \in Nat,
         NEW proto \in Protos
  PROVE  LET q == Nft!table_cb(FilterExprs(dport, sport, "ipv6", Nft!Ip6Daddr, iaddr,
                                           Nft!Ip6Saddr, rhost, Nft!Ip6Next, proto), "filter")
         IN /\ q.type = "filter" /\ q.proto = proto /\ q.dport = dport /\ q.sport = sport
            /\ q.daddr = 0 /\ q.daddr6 = iaddr /\ q.saddr6 = rhost
<1> DEFINE q == Nft!table_cb(FilterExprs(dport, sport, "ipv6", Nft!Ip6Daddr, iaddr,
                                         Nft!Ip6Saddr, rhost, Nft!Ip6Next, proto), "filter")
<1>1. "ipv6" \in {"ipv4", "ipv6"}
  OBVIOUS
<1>2. Nft!Ip6Daddr \in {Nft!IpDaddr, Nft!Ip6Daddr}
  OBVIOUS
<1>3. Nft!Ip6Saddr \in {Nft!IpSaddr, Nft!Ip6Saddr}
  OBVIOUS
<1>4. Nft!Ip6Next \in {Nft!IpProto, Nft!Ip6Next}
  OBVIOUS
<1>5. /\ q.type = "filter" /\ q.proto = proto /\ q.dport = dport /\ q.sport = sport
      /\ q.daddr = IF Nft!Ip6Daddr = Nft!IpDaddr THEN iaddr ELSE 0
      /\ q.daddr6 = IF Nft!Ip6Daddr = Nft!IpDaddr THEN 0 ELSE iaddr
      /\ q.saddr6 = IF Nft!Ip6Saddr = Nft!Ip6Saddr THEN rhost ELSE 0
  BY ONLY dport \in Ports, sport \in Ports, iaddr \in Nat, rhost \in Nat, proto \in Protos,
     <1>1, <1>2, <1>3, <1>4, FilterReads
<1>6. Nft!Ip6Daddr # Nft!IpDaddr
  BY DEF Nft!Ip6Daddr, Nft!IpDaddr
<1> HIDE DEF q
<1>7. /\ q.type = "filter" /\ q.proto = proto /\ q.dport = dport /\ q.sport = sport
      /\ q.daddr = 0 /\ q.daddr6 = iaddr /\ q.saddr6 = rhost
  BY <1>5, <1>6
<1>8. QED BY <1>7 DEF q

LEMMA PassReads ==
  ASSUME NEW dport \in Ports, NEW sport \in Ports, NEW iaddr \in Nat, NEW rhost \in Nat,
         NEW proto \in Protos
  PROVE  LET q == Nft!table_cb(FilterExprs(dport, sport, "ipv4", Nft!IpDaddr, iaddr,
                                           Nft!IpSaddr, rhost, Nft!IpProto, proto), "filter")
         IN /\ q.type = "filter" /\ q.proto = proto /\ q.dport = dport /\ q.sport = sport
            /\ q.daddr = iaddr /\ q.daddr6 = 0 /\ q.saddr6 = 0
<1> DEFINE q == Nft!table_cb(FilterExprs(dport, sport, "ipv4", Nft!IpDaddr, iaddr,
                                         Nft!IpSaddr, rhost, Nft!IpProto, proto), "filter")
<1>1. "ipv4" \in {"ipv4", "ipv6"}
  OBVIOUS
<1>2. Nft!IpDaddr \in {Nft!IpDaddr, Nft!Ip6Daddr}
  OBVIOUS
<1>3. Nft!IpSaddr \in {Nft!IpSaddr, Nft!Ip6Saddr}
  OBVIOUS
<1>4. Nft!IpProto \in {Nft!IpProto, Nft!Ip6Next}
  OBVIOUS
<1>5. /\ q.type = "filter" /\ q.proto = proto /\ q.dport = dport /\ q.sport = sport
      /\ q.daddr = IF Nft!IpDaddr = Nft!IpDaddr THEN iaddr ELSE 0
      /\ q.daddr6 = IF Nft!IpDaddr = Nft!IpDaddr THEN 0 ELSE iaddr
      /\ q.saddr6 = IF Nft!IpSaddr = Nft!Ip6Saddr THEN rhost ELSE 0
  BY ONLY dport \in Ports, sport \in Ports, iaddr \in Nat, rhost \in Nat, proto \in Protos,
     <1>1, <1>2, <1>3, <1>4, FilterReads
<1>6. Nft!Ip6Saddr # Nft!IpSaddr
  BY DEF Nft!Ip6Saddr, Nft!IpSaddr
<1> HIDE DEF q
<1>7. /\ q.type = "filter" /\ q.proto = proto /\ q.dport = dport /\ q.sport = sport
      /\ q.daddr = iaddr /\ q.daddr6 = 0 /\ q.saddr6 = 0
  BY <1>5, <1>6
<1>8. QED BY <1>7 DEF q

LEMMA ForwardIs ==
  ASSUME NEW e \in FilterRules
  PROVE  Nft!Forward(e, Nft!table_cb(Nft!Expressions(e), "filter")) = CachedFilter(e)
<1>1. /\ e.port \in Ports /\ e.rport \in Ports /\ e.iaddr \in Nat /\ e.rhost \in Nat
      /\ e.proto \in Protos /\ e.kind \in {"pass", "pinhole"}
  BY FilterRuleType
<1> DEFINE q == Nft!table_cb(Nft!Expressions(e), "filter")
           port == e.port
           rport == e.rport
           iaddr == e.iaddr
           rhost == e.rhost
           proto == e.proto
<1>2. CASE e.kind = "pinhole"
  <2>1. q = Nft!table_cb(FilterExprs(port, rport, "ipv6", Nft!Ip6Daddr, iaddr, Nft!Ip6Saddr, rhost,
                                     Nft!Ip6Next, proto), "filter")
    BY <1>2 DEF Nft!Expressions, Nft!rule_set_filter6, Nft!rule_set_filter_common,
       Optional, OptionalPort, FilterExprs
  <2>2. port \in Ports /\ rport \in Ports /\ iaddr \in Nat /\ rhost \in Nat /\ proto \in Protos
    BY <1>1
  <2> HIDE DEF q, port, rport, iaddr, rhost, proto
  <2>4. /\ q.type = "filter" /\ q.proto = proto /\ q.dport = port /\ q.sport = rport
        /\ q.daddr = 0 /\ q.daddr6 = iaddr /\ q.saddr6 = rhost
    BY ONLY <2>1, <2>2, PinholeReads, SMTT(30)
  <2>5. (q.type = "filter") = TRUE
    BY <2>4
  <2>6. Nft!Forward(e, q) = CachedFilter(e)
    BY <1>2, <2>4, <2>5 DEF Nft!Forward, Nft!ReadsAsPinhole, ReadsAsPinhole, CachedFilter, port, rport, iaddr, rhost, proto
  <2>7. QED BY <2>6 DEF q
<1>3. CASE e.kind = "pass"
  <2>1. q = Nft!table_cb(FilterExprs(port, rport, "ipv4", Nft!IpDaddr, iaddr, Nft!IpSaddr, rhost,
                                     Nft!IpProto, proto), "filter")
    BY <1>3 DEF Nft!Expressions, Nft!rule_set_filter, Nft!rule_set_filter_common,
       Optional, OptionalPort, FilterExprs
  <2>2. port \in Ports /\ rport \in Ports /\ iaddr \in Nat /\ rhost \in Nat /\ proto \in Protos
    BY <1>1
  <2> HIDE DEF q, port, rport, iaddr, rhost, proto
  <2>4. /\ q.type = "filter" /\ q.proto = proto /\ q.dport = port /\ q.sport = rport
        /\ q.daddr = iaddr /\ q.daddr6 = 0 /\ q.saddr6 = 0
    BY ONLY <2>1, <2>2, PassReads
  <2>5. (q.type = "filter") = TRUE
    BY <2>4
  <2>6. Nft!Forward(e, q) = CachedFilter(e)
    BY <1>3, <2>4, <2>5 DEF Nft!Forward, Nft!ReadsAsPinhole, ReadsAsPinhole, CachedFilter, port, rport, iaddr, rhost, proto
  <2>7. QED BY <2>6 DEF q
<1>4. QED BY <1>1, <1>2, <1>3

-----------------------------------------------------------------------------
(* The cache of nftables after it was read, and the type of a firewall *)

FreshRdr(rdr) == [valid |-> TRUE, rules |-> Reverse([i \in DOMAIN rdr |-> CachedRdr(rdr[i])])]

FreshFilter(filter) ==
  [valid |-> TRUE, rules |-> Reverse([i \in DOMAIN filter |-> CachedFilter(filter[i])])]

RdrCaches == {Nft!Invalid} \cup {FreshRdr(s) : s \in Seq(RdrRules)}
FilterCaches == {Nft!Invalid} \cup {FreshFilter(s) : s \in Seq(FilterRules)}

NatRules == [key : Keys, rhost : Nat, iaddr : V4, iport : Ports]
Entries == [key : Keys, desc : Descs, ts : Nat]

FwT == [rdr : Seq(RdrRules), filter : Seq(FilterRules), nat : Seq(NatRules), list : Seq(Entries),
        cache : [rdr : RdrCaches, filter : FilterCaches], next_uid : 1 .. MaxUid - 1]

LEMMA ReverseFacts ==
  ASSUME NEW S, NEW s \in Seq(S)
  PROVE  /\ DOMAIN Reverse(s) = 1 .. Len(s) /\ Len(Reverse(s)) = Len(s)
         /\ \A i \in 1 .. Len(s) : Reverse(s)[i] = s[Len(s) + 1 - i]
<1>1. Len(s) \in Nat /\ DOMAIN s = 1 .. Len(s)
  BY DomainIsLen
<1>2. Reverse(s) = [i \in 1 .. Len(s) |-> s[(Len(s) - i) + 1]]
  BY DEF Reverse
<1>3. ASSUME NEW i \in 1 .. Len(s) PROVE (Len(s) - i) + 1 = Len(s) + 1 - i
  BY <1>1
<1>4. \A i \in 1 .. Len(s) : (Len(s) - i) + 1 \in 1 .. Len(s)
  BY <1>1
<1>5. Reverse(s) \in Seq(S)
  BY <1>1, <1>2, <1>4, DomainIsLen
<1>6. Len(Reverse(s)) = Len(s)
  BY <1>1, <1>2, <1>5, DomainIsLen
<1>7. QED BY <1>2, <1>3, <1>6

LEMMA FreshRdrFacts ==
  ASSUME NEW s \in Seq(RdrRules)
  PROVE  LET c == FreshRdr(s) IN
         /\ c.valid = TRUE /\ Len(c.rules) = Len(s) /\ DOMAIN c.rules = 1 .. Len(s)
         /\ \A i \in 1 .. Len(s) : c.rules[i] = CachedRdr(s[Len(s) + 1 - i])
<1> DEFINE t == [i \in DOMAIN s |-> CachedRdr(s[i])]
           T == {CachedRdr(e) : e \in RdrRules}
<1>1. Len(s) \in Nat /\ DOMAIN s = 1 .. Len(s) /\ \A i \in 1 .. Len(s) : s[i] \in RdrRules
  BY DomainIsLen
<1>2. \A i \in 1 .. Len(s) : CachedRdr(s[i]) \in T
  BY <1>1
<1>3. t \in Seq(T) /\ Len(t) = Len(s) /\ \A i \in 1 .. Len(s) : t[i] = CachedRdr(s[i])
  <2> HIDE DEF T
  <2>1. QED BY <1>1, <1>2
<1>4. FreshRdr(s).valid = TRUE /\ FreshRdr(s).rules = Reverse(t)
  BY DEF FreshRdr
<1> HIDE DEF t, T
<1>5. \A i \in 1 .. Len(s) : Len(s) + 1 - i \in 1 .. Len(s)
  BY <1>1
<1>6. QED BY <1>3, <1>4, <1>5, ReverseFacts

LEMMA FreshFilterFacts ==
  ASSUME NEW s \in Seq(FilterRules)
  PROVE  LET c == FreshFilter(s) IN
         /\ c.valid = TRUE /\ Len(c.rules) = Len(s) /\ DOMAIN c.rules = 1 .. Len(s)
         /\ \A i \in 1 .. Len(s) : c.rules[i] = CachedFilter(s[Len(s) + 1 - i])
<1> DEFINE t == [i \in DOMAIN s |-> CachedFilter(s[i])]
           T == {CachedFilter(e) : e \in FilterRules}
<1>1. Len(s) \in Nat /\ DOMAIN s = 1 .. Len(s) /\ \A i \in 1 .. Len(s) : s[i] \in FilterRules
  BY DomainIsLen
<1>2. \A i \in 1 .. Len(s) : CachedFilter(s[i]) \in T
  BY <1>1
<1>3. t \in Seq(T) /\ Len(t) = Len(s) /\ \A i \in 1 .. Len(s) : t[i] = CachedFilter(s[i])
  <2> HIDE DEF T
  <2>1. QED BY <1>1, <1>2
<1>4. FreshFilter(s).valid = TRUE /\ FreshFilter(s).rules = Reverse(t)
  BY DEF FreshFilter
<1> HIDE DEF t, T
<1>5. \A i \in 1 .. Len(s) : Len(s) + 1 - i \in 1 .. Len(s)
  BY <1>1
<1>6. QED BY <1>3, <1>4, <1>5, ReverseFacts

LEMMA InvalidFacts == Nft!Invalid.valid = FALSE /\ Nft!Invalid \in RdrCaches /\ Nft!Invalid \in FilterCaches
BY DEF Nft!Invalid, RdrCaches, FilterCaches

LEMMA FwFields ==
  ASSUME NEW f \in FwT
  PROVE  /\ f.rdr \in Seq(RdrRules) /\ f.filter \in Seq(FilterRules) /\ f.nat \in Seq(NatRules)
         /\ f.list \in Seq(Entries) /\ f.next_uid \in 1 .. MaxUid - 1
         /\ f.cache.rdr \in RdrCaches /\ f.cache.filter \in FilterCaches
         /\ f.cache \in [rdr : RdrCaches, filter : FilterCaches]
BY DEF FwT

(* The fields of a firewall that a step does not name stay as they were *)
LEMMA SetRdrCache ==
  ASSUME NEW f \in FwT, NEW x \in RdrCaches
  PROVE  LET g == [f EXCEPT !.cache.rdr = x] IN
         /\ g \in FwT
         /\ g.rdr = f.rdr /\ g.filter = f.filter /\ g.nat = f.nat /\ g.list = f.list
         /\ g.next_uid = f.next_uid /\ g.cache.rdr = x /\ g.cache.filter = f.cache.filter
BY DEF FwT

LEMMA SetFilterCache ==
  ASSUME NEW f \in FwT, NEW x \in FilterCaches
  PROVE  LET g == [f EXCEPT !.cache.filter = x] IN
         /\ g \in FwT
         /\ g.rdr = f.rdr /\ g.filter = f.filter /\ g.nat = f.nat /\ g.list = f.list
         /\ g.next_uid = f.next_uid /\ g.cache.rdr = f.cache.rdr /\ g.cache.filter = x
BY DEF FwT

LEMMA SendRdrFacts ==
  ASSUME NEW f \in FwT, NEW rules \in Seq(RdrRules), NEW failed \in BOOLEAN
  PROVE  LET g == Nft!SendRdr(f, rules, failed) IN
         /\ g \in FwT
         /\ g.rdr = (IF failed THEN f.rdr ELSE rules)
         /\ g.filter = f.filter /\ g.nat = f.nat /\ g.list = f.list
         /\ g.next_uid = f.next_uid /\ g.cache.rdr = Nft!Invalid /\ g.cache.filter = f.cache.filter
BY InvalidFacts DEF FwT, Nft!SendRdr

LEMMA SendFilterFacts ==
  ASSUME NEW f \in FwT, NEW rules \in Seq(FilterRules), NEW failed \in BOOLEAN
  PROVE  LET g == Nft!SendFilter(f, rules, failed) IN
         /\ g \in FwT
         /\ g.filter = (IF failed THEN f.filter ELSE rules)
         /\ g.rdr = f.rdr /\ g.nat = f.nat /\ g.list = f.list
         /\ g.next_uid = f.next_uid /\ g.cache.rdr = f.cache.rdr /\ g.cache.filter = Nft!Invalid
BY InvalidFacts DEF FwT, Nft!SendFilter

LEMMA RefreshRdrFacts ==
  ASSUME NEW f \in FwT, f.cache.rdr \in {Nft!Invalid, FreshRdr(f.rdr)}
  PROVE  \A search, fails :
         LET g == Nft!refresh_nft_cache_redirect(f, search, fails) IN
         /\ g \in FwT
         /\ g.rdr = f.rdr /\ g.filter = f.filter /\ g.nat = f.nat /\ g.list = f.list
         /\ g.next_uid = f.next_uid /\ g.cache.filter = f.cache.filter
         /\ g.cache.rdr \in {Nft!Invalid, FreshRdr(f.rdr)}
         /\ search \notin fails => g.cache.rdr = FreshRdr(f.rdr)
<1> TAKE search, fails
<1> DEFINE parsed == [i \in DOMAIN f.rdr |-> Nft!Redirection(f.rdr[i],
                        Nft!table_cb(Nft!rule_set_dnat(f.rdr[i]), "nat"))]
<1>1. f.rdr \in Seq(RdrRules)
  BY FwFields
<1>2. FreshRdr(f.rdr) \in RdrCaches
  BY <1>1 DEF RdrCaches
<1>3. CASE f.cache.rdr = FreshRdr(f.rdr)
  <2>1. f.cache.rdr.valid = TRUE
    BY <1>1, <1>3, FreshRdrFacts
  <2>2. Nft!refresh_nft_cache_redirect(f, search, fails) = f
    BY <2>1 DEF Nft!refresh_nft_cache_redirect
  <2>3. QED BY <1>3, <2>2
<1>6. CASE f.cache.rdr = Nft!Invalid /\ search \in fails
  <2>1. Nft!refresh_nft_cache_redirect(f, search, fails) = [f EXCEPT !.cache.rdr = Nft!Invalid]
    BY <1>6, InvalidFacts DEF Nft!refresh_nft_cache_redirect
  <2>2. QED BY <1>6, <2>1, InvalidFacts, SetRdrCache
<1>4. CASE f.cache.rdr = Nft!Invalid /\ search \notin fails
  <2>1. f.cache.rdr.valid = FALSE
    BY <1>4, InvalidFacts
  <2>2. \A i \in DOMAIN f.rdr : f.rdr[i] \in RdrRules
    BY <1>1, DomainIsLen
  <2>3. parsed = [i \in DOMAIN f.rdr |-> CachedRdr(f.rdr[i])]
    BY <2>2, RedirectionIs
  <2>4. Nft!ReadBack(parsed) = [valid |-> TRUE, rules |-> Reverse(parsed)]
    BY DEF Nft!ReadBack, Nft!Reverse, Reverse
  <2>5. Nft!ReadBack(parsed) = FreshRdr(f.rdr)
    BY <2>3, <2>4 DEF FreshRdr
  <2>6. Nft!refresh_nft_cache_redirect(f, search, fails) = [f EXCEPT !.cache.rdr = Nft!ReadBack(parsed)]
    BY <1>4, <2>1 DEF Nft!refresh_nft_cache_redirect
  <2> HIDE DEF parsed
  <2>7. Nft!refresh_nft_cache_redirect(f, search, fails) = [f EXCEPT !.cache.rdr = FreshRdr(f.rdr)]
    BY <2>5, <2>6
  <2>8. QED BY <1>2, <2>7, SetRdrCache
<1>5. QED BY <1>3, <1>4, <1>6

LEMMA RefreshFilterFacts ==
  ASSUME NEW f \in FwT, f.cache.filter \in {Nft!Invalid, FreshFilter(f.filter)}
  PROVE  \A fails :
         LET g == Nft!refresh_nft_cache_filter(f, fails) IN
         /\ g \in FwT
         /\ g.rdr = f.rdr /\ g.filter = f.filter /\ g.nat = f.nat /\ g.list = f.list
         /\ g.next_uid = f.next_uid /\ g.cache.rdr = f.cache.rdr
         /\ g.cache.filter \in {Nft!Invalid, FreshFilter(f.filter)}
         /\ "filter?" \notin fails => g.cache.filter = FreshFilter(f.filter)
<1> TAKE fails
<1> DEFINE parsed == [i \in DOMAIN f.filter |-> Nft!Forward(f.filter[i],
                        Nft!table_cb(Nft!Expressions(f.filter[i]), "filter"))]
<1>1. f.filter \in Seq(FilterRules)
  BY FwFields
<1>2. FreshFilter(f.filter) \in FilterCaches
  BY <1>1 DEF FilterCaches
<1>3. CASE f.cache.filter = FreshFilter(f.filter)
  <2>1. f.cache.filter.valid = TRUE
    BY <1>1, <1>3, FreshFilterFacts
  <2>2. Nft!refresh_nft_cache_filter(f, fails) = f
    BY <2>1 DEF Nft!refresh_nft_cache_filter
  <2>3. QED BY <1>3, <2>2
<1>6. CASE f.cache.filter = Nft!Invalid /\ "filter?" \in fails
  <2>1. Nft!refresh_nft_cache_filter(f, fails) = [f EXCEPT !.cache.filter = Nft!Invalid]
    BY <1>6, InvalidFacts DEF Nft!refresh_nft_cache_filter
  <2>2. QED BY <1>6, <2>1, InvalidFacts, SetFilterCache
<1>4. CASE f.cache.filter = Nft!Invalid /\ "filter?" \notin fails
  <2>1. f.cache.filter.valid = FALSE
    BY <1>4, InvalidFacts
  <2>2. \A i \in DOMAIN f.filter : f.filter[i] \in FilterRules
    BY <1>1, DomainIsLen
  <2>3. parsed = [i \in DOMAIN f.filter |-> CachedFilter(f.filter[i])]
    BY <2>2, ForwardIs
  <2>4. Nft!ReadBack(parsed) = [valid |-> TRUE, rules |-> Reverse(parsed)]
    BY DEF Nft!ReadBack, Nft!Reverse, Reverse
  <2>5. Nft!ReadBack(parsed) = FreshFilter(f.filter)
    BY <2>3, <2>4 DEF FreshFilter
  <2>6. Nft!refresh_nft_cache_filter(f, fails) = [f EXCEPT !.cache.filter = Nft!ReadBack(parsed)]
    BY <1>4, <2>1 DEF Nft!refresh_nft_cache_filter
  <2> HIDE DEF parsed
  <2>7. Nft!refresh_nft_cache_filter(f, fails) = [f EXCEPT !.cache.filter = FreshFilter(f.filter)]
    BY <2>5, <2>6
  <2>8. QED BY <1>2, <2>7, SetFilterCache
<1>5. QED BY <1>3, <1>4, <1>6

LEMMA SetList ==
  ASSUME NEW f \in FwT, NEW x \in Seq(Entries)
  PROVE  LET g == [f EXCEPT !.list = x] IN
         /\ g \in FwT /\ g.rdr = f.rdr /\ g.filter = f.filter /\ g.nat = f.nat /\ g.list = x
         /\ g.next_uid = f.next_uid /\ g.cache = f.cache
BY DEF FwT

LEMMA SetRdr ==
  ASSUME NEW f \in FwT, NEW x \in Seq(RdrRules)
  PROVE  LET g == [f EXCEPT !.rdr = x] IN
         /\ g \in FwT /\ g.rdr = x /\ g.filter = f.filter /\ g.nat = f.nat /\ g.list = f.list
         /\ g.next_uid = f.next_uid /\ g.cache = f.cache
BY DEF FwT

LEMMA SetNat ==
  ASSUME NEW f \in FwT, NEW x \in Seq(NatRules)
  PROVE  LET g == [f EXCEPT !.nat = x] IN
         /\ g \in FwT /\ g.rdr = f.rdr /\ g.filter = f.filter /\ g.nat = x /\ g.list = f.list
         /\ g.next_uid = f.next_uid /\ g.cache = f.cache
BY DEF FwT

LEMMA SetFilter ==
  ASSUME NEW f \in FwT, NEW x \in Seq(FilterRules)
  PROVE  LET g == [f EXCEPT !.filter = x] IN
         /\ g \in FwT /\ g.rdr = f.rdr /\ g.filter = x /\ g.nat = f.nat /\ g.list = f.list
         /\ g.next_uid = f.next_uid /\ g.cache = f.cache
BY DEF FwT

LEMMA SetUid ==
  ASSUME NEW f \in FwT, NEW x \in 1 .. MaxUid - 1
  PROVE  LET g == [f EXCEPT !.next_uid = x] IN
         /\ g \in FwT /\ g.rdr = f.rdr /\ g.filter = f.filter /\ g.nat = f.nat /\ g.list = f.list
         /\ g.next_uid = x /\ g.cache = f.cache
BY DEF FwT

-----------------------------------------------------------------------------
(* nftables: a search finds the newest rule, and a deletion takes away that *)
(* rule and one pass rule of its target                                     *)

CacheOk(f) ==
  /\ f.cache.rdr \in {Nft!Invalid, FreshRdr(f.rdr)}
  /\ f.cache.filter \in {Nft!Invalid, FreshFilter(f.filter)}

Newest(s, key, i) ==
  i \in 1 .. Len(s) /\ s[i].key = key /\ \A j \in 1 .. Len(s) : j > i => s[j].key # key

(* the pass rules to the internal endpoint of a redirection, from any      *)
(* remote host                                                             *)
PassesOf(e) ==
  {p \in PassRules : p.proto = Proto(e.key) /\ p.iaddr = e.iaddr /\ p.port = e.iport}

(* t is s without one rule of X, if there is one and nothing fails *)
Drops(s, t, X, fails) ==
  \/ t = s /\ (fails # {} \/ X \cap ToSet(s) = {})
  \/ \E j \in 1 .. Len(s) : s[j] \in X /\ t = RemoveAt(s, j)

LEMMA NftRdrIndex ==
  ASSUME NEW f \in FwT, f.cache.rdr = FreshRdr(f.rdr), NEW key
  PROVE  LET i == Nft!RdrIndex(f, key)
             n == Len(f.rdr)
         IN /\ Nft!KeyIndex(f.cache.rdr.rules, key) = i
            /\ i \in 0 .. n
            /\ i = 0 <=> key \notin KeysOf(f.rdr)
            /\ i # 0 => /\ Newest(f.rdr, key, n + 1 - i)
                        /\ f.cache.rdr.rules[i] = CachedRdr(f.rdr[n + 1 - i])
<1> DEFINE n == Len(f.rdr)
           rules == f.cache.rdr.rules
           I == {j \in 1 .. n : f.rdr[n + 1 - j].key = key}
           i == Nft!RdrIndex(f, key)
<1>1. f.rdr \in Seq(RdrRules)
  BY FwFields
<1>2. n \in Nat /\ DOMAIN f.rdr = 1 .. n
  BY <1>1, DomainIsLen
<1>3. Len(rules) = n /\ \A j \in 1 .. n : rules[j] = CachedRdr(f.rdr[n + 1 - j])
  BY <1>1, FreshRdrFacts, ZenonT(40)
<1>4. \A j \in 1 .. n : rules[j].key = f.rdr[n + 1 - j].key /\ rules[j].dnat = TRUE
  <2>1. \A e : CachedRdr(e).key = e.key /\ CachedRdr(e).dnat = TRUE
    BY DEF CachedRdr
  <2> HIDE DEF rules, n
  <2>2. QED BY <1>3, <2>1
<1>5. {j \in 1 .. Len(rules) : rules[j].key = key} = I
  BY <1>3, <1>4
<1>6. {j \in 1 .. Len(rules) : rules[j].key = key /\ rules[j].dnat} = I
  BY <1>3, <1>4
<1>7. Nft!KeyIndex(rules, key) = IF I # {} THEN Min(I) ELSE 0
  <2> DEFINE J == {j \in 1 .. Len(rules) : rules[j].key = key}
  <2>1. Nft!KeyIndex(rules, key) = IF J # {} THEN Min(J) ELSE 0
    BY DEF Nft!KeyIndex, Nft!SelectInSeq, Nft!Min, Min
  <2>2. J = I
    BY <1>5
  <2> HIDE DEF I, J
  <2>3. QED BY <2>1, <2>2
<1>8. i = IF I # {} THEN Min(I) ELSE 0
  <2> DEFINE J == {j \in 1 .. Len(rules) : rules[j].key = key /\ rules[j].dnat}
  <2>1. Nft!RdrIndex(f, key) = IF J # {} THEN Min(J) ELSE 0
    BY DEF Nft!RdrIndex, Nft!SelectInSeq, Nft!Min, Min
  <2>2. J = I
    BY <1>6
  <2> HIDE DEF I, J
  <2>3. QED BY <2>1, <2>2
<1>9. I \in SUBSET Nat
  BY <1>2
<1>10. I # {} => Min(I) \in I /\ \A j \in I : Min(I) <= j
  BY <1>9, MinIsLeast
<1>11. I # {} <=> key \in KeysOf(f.rdr)
  <2>1. ASSUME NEW k \in 1 .. n, f.rdr[k].key = key PROVE n + 1 - k \in I
    <3>1. n + 1 - k \in 1 .. n /\ n + 1 - (n + 1 - k) = k
      BY <1>2
    <3>2. QED BY <2>1, <3>1
  <2>2. ASSUME NEW j \in I PROVE key \in KeysOf(f.rdr)
    <3>1. n + 1 - j \in 1 .. n /\ f.rdr[n + 1 - j].key = key
      BY <1>2
    <3>2. QED BY <1>2, <3>1 DEF KeysOf
  <2> HIDE DEF I
  <2>3. QED BY <1>2, <2>1, <2>2 DEF KeysOf
<1>12. ASSUME i # 0 PROVE Newest(f.rdr, key, n + 1 - i) /\ i \in 1 .. n
  <2>1. i \in I /\ \A j \in I : i <= j
    BY <1>8, <1>10, <1>12
  <2> HIDE DEF i
  <2>2. i \in 1 .. n /\ f.rdr[n + 1 - i].key = key
    BY <2>1
  <2>3. ASSUME NEW j \in 1 .. n, j > n + 1 - i PROVE f.rdr[j].key # key
    <3>1. SUFFICES ASSUME f.rdr[j].key = key PROVE FALSE
      OBVIOUS
    <3>2. n + 1 - j \in 1 .. n /\ n + 1 - (n + 1 - j) = j
      BY <1>2
    <3>3. n + 1 - j \in I
      BY <3>1, <3>2
    <3>4. i <= n + 1 - j
      BY <2>1, <3>3
    <3>5. QED
      <4> HIDE DEF I
      <4>1. QED BY <1>2, <2>2, <2>3, <3>4
  <2>4. n + 1 - i \in 1 .. n
    BY <1>2, <2>2
  <2>5. QED
    <3> HIDE DEF I
    <3>1. QED BY <2>2, <2>3, <2>4 DEF Newest
<1> HIDE DEF I
<1>13. i = 0 <=> I = {}
  <2>1. \A j \in I : j # 0
    BY DEF I
  <2>2. QED BY <1>8, <1>10, <2>1
<1> HIDE DEF i
<1>14. QED BY <1>2, <1>3, <1>7, <1>8, <1>11, <1>12, <1>13 DEF i

LEMMA PassRuleType ==
  ASSUME NEW e \in RdrRules
  PROVE  /\ PassRule(e, e.iport) \in PassRules
         /\ PassRule(e, e.iport) \in FilterRules /\ PassRule(e, e.iport) \in PassesOf(e)
         /\ PassRule(e, e.iport).rhost = e.rhost
         /\ \A p \in FilterRules :
              (p.kind = "pass" /\ p.port = e.iport /\ p.iaddr = e.iaddr /\ p.proto = Proto(e.key))
                <=> p \in PassesOf(e)
         /\ \A p \in PassesOf(e) : p.rhost = e.rhost => p = PassRule(e, e.iport)
<1>1. e.iaddr \in V4 /\ e.iport \in Ports /\ Proto(e.key) \in Protos /\ e.rhost \in Nat
      /\ e.desc \notin DOMAIN Labels
  BY KeyType DEF RdrRules, Descs
<1> DEFINE x == PassRule(e, e.iport)
<1>2. /\ x.kind = "pass" /\ x.port = e.iport /\ x.iaddr = e.iaddr /\ x.proto = Proto(e.key)
      /\ x \in PassRules /\ x.rhost = e.rhost
  BY <1>1 DEF PassRule, PassRules
<1>3. ASSUME NEW p \in FilterRules, p.kind = "pass", p.port = e.iport, p.iaddr = e.iaddr,
             p.proto = Proto(e.key)
      PROVE  p \in PassesOf(e)
  <2>1. p \in PassRules
    BY <1>3, FilterRuleType
  <2>2. QED BY <1>3, <2>1 DEF PassesOf
<1>4. ASSUME NEW p \in PassesOf(e)
      PROVE  /\ p \in FilterRules /\ p.kind = "pass" /\ p.port = e.iport /\ p.iaddr = e.iaddr
             /\ p.proto = Proto(e.key)
  BY DEF PassesOf, PassRules, FilterRules
<1>5. ASSUME NEW p \in PassesOf(e), p.rhost = e.rhost PROVE p = x
  <2>1. /\ p \in PassRules /\ p.port = e.iport /\ p.iaddr = e.iaddr /\ p.proto = Proto(e.key)
    BY DEF PassesOf
  <2>2. QED BY <1>1, <1>5, <2>1 DEF PassRules, PassRule
<1> HIDE DEF x
<1>6. x \in PassesOf(e) /\ x \in FilterRules
  BY <1>2 DEF PassesOf, FilterRules
<1>7. QED BY <1>2, <1>3, <1>4, <1>5, <1>6 DEF x

LEMMA NftDeletePass ==
  ASSUME NEW f \in FwT, f.cache.filter = FreshFilter(f.filter), NEW e \in RdrRules, NEW fails
  PROVE  LET g == Nft!DeletePass(f, CachedRdr(e), fails) IN
         /\ g \in FwT
         /\ g.rdr = f.rdr /\ g.nat = f.nat /\ g.list = f.list /\ g.next_uid = f.next_uid
         /\ g.cache.rdr = f.cache.rdr
         /\ g.cache.filter \in {Nft!Invalid, FreshFilter(g.filter)}
         /\ Drops(f.filter, g.filter, PassesOf(e), fails)
<1> DEFINE n == Len(f.filter)
           rules == f.cache.filter.rules
           X == PassesOf(e)
           J == {j \in 1 .. Len(rules) : rules[j].dport = e.iport /\ rules[j].daddr = e.iaddr
                   /\ rules[j].proto = Proto(e.key) /\ rules[j].filter}
           j0 == IF J # {} THEN Min(J) ELSE 0
           g == Nft!DeletePass(f, CachedRdr(e), fails)
<1>1. f.filter \in Seq(FilterRules)
  BY FwFields
<1>2. n \in Nat /\ DOMAIN f.filter = 1 .. n /\ \A i \in 1 .. n : f.filter[i] \in FilterRules
  BY <1>1, DomainIsLen
<1>3. Len(rules) = n /\ \A j \in 1 .. n : rules[j] = CachedFilter(f.filter[n + 1 - j])
  BY <1>1, FreshFilterFacts, ZenonT(40)
<1>4. e.iaddr \in Nat \ {0} /\ e.iaddr \in V4
  BY AddrFacts DEF RdrRules
<1>5. ASSUME NEW p \in FilterRules
      PROVE  (CachedFilter(p).dport = e.iport /\ CachedFilter(p).daddr = e.iaddr
               /\ CachedFilter(p).proto = Proto(e.key) /\ CachedFilter(p).filter) <=> p \in X
  <2>1. p.kind \in {"pass", "pinhole"}
    BY FilterRuleType
  <2>2. CachedFilter(p).daddr = e.iaddr <=> p.kind = "pass" /\ p.iaddr = e.iaddr
    BY <1>4, <2>1 DEF CachedFilter
  <2>3. CachedFilter(p).dport = p.port /\ CachedFilter(p).proto = p.proto /\ CachedFilter(p).filter = TRUE
    BY DEF CachedFilter
  <2>4. QED BY <2>2, <2>3, PassRuleType
<1>6. \A j \in 1 .. n : j \in J <=> f.filter[n + 1 - j] \in X
  <2>1. \A j \in 1 .. n : f.filter[n + 1 - j] \in FilterRules
    BY <1>2
  <2> HIDE DEF X, rules, n
  <2>2. QED BY <1>3, <1>5, <2>1
<1>7. J \subseteq 1 .. n /\ J \in SUBSET Nat
  BY <1>2, <1>3
<1>8. g = IF j0 = 0 THEN f
          ELSE Nft!SendFilter(f, Nft!RemoveAt(f.filter, Nft!Handle(f.filter, j0)), "filter-" \in fails)
  <2>1. /\ CachedRdr(e).iport = e.iport /\ CachedRdr(e).iaddr = e.iaddr /\ CachedRdr(e).key = e.key
    BY DEF CachedRdr
  <2>2. Nft!Proto(e.key) = Proto(e.key)
    BY DEF Nft!Proto, Proto
  <2> HIDE DEF X
  <2>3. QED BY <2>1, <2>2 DEF Nft!DeletePass, Nft!SelectInSeq, Nft!Min, Min
<1> HIDE DEF g
<1>9. CASE J = {}
  <2>1. g = f
    BY <1>8, <1>9
  <2>2. ASSUME NEW i \in 1 .. n PROVE f.filter[i] \notin X
    <3>1. n + 1 - i \in 1 .. n /\ n + 1 - (n + 1 - i) = i
      BY <1>2
    <3>2. f.filter[n + 1 - (n + 1 - i)] \notin X
      BY <1>6, <1>9, <3>1
    <3>3. QED BY <3>1, <3>2
  <2>3. X \cap ToSet(f.filter) = {}
    <3> HIDE DEF X
    <3>1. QED BY <1>2, <2>2 DEF ToSet
  <2>4. Drops(f.filter, g.filter, X, fails)
    BY <2>1, <2>3 DEF Drops
  <2>5. QED BY <2>1, <2>4 DEF g
<1>10. CASE J # {}
  <2>1. Min(J) \in J
    BY <1>7, <1>10, MinIsLeast
  <2>2. j0 \in 1 .. n /\ j0 \in J
    BY <1>7, <1>10, <2>1
  <2> DEFINE k == n + 1 - j0
  <2> HIDE DEF j0, J
  <2>3. k \in 1 .. n /\ f.filter[k] \in X
    BY <1>2, <1>6, <2>2
  <2>4. Nft!Handle(f.filter, j0) = k
    BY DEF Nft!Handle
  <2>5. Nft!RemoveAt(f.filter, k) = RemoveAt(f.filter, k)
    BY DEF Nft!RemoveAt, RemoveAt
  <2> HIDE DEF k
  <2>6. RemoveAt(f.filter, k) \in Seq(FilterRules)
    BY <1>1, <2>3, RemoveKeyed
  <2>7. g = Nft!SendFilter(f, RemoveAt(f.filter, k), "filter-" \in fails)
    BY <1>8, <2>2, <2>4, <2>5
  <2>8. ("filter-" \in fails) \in BOOLEAN
    OBVIOUS
  <2>9. /\ g \in FwT
        /\ g.filter = (IF "filter-" \in fails THEN f.filter ELSE RemoveAt(f.filter, k))
        /\ g.rdr = f.rdr /\ g.nat = f.nat /\ g.list = f.list
        /\ g.next_uid = f.next_uid /\ g.cache.rdr = f.cache.rdr /\ g.cache.filter = Nft!Invalid
    BY <2>6, <2>7, <2>8, SendFilterFacts, ZenonT(40)
  <2>10. Drops(f.filter, g.filter, X, fails)
    <3> HIDE DEF X
    <3>1. QED BY <2>3, <2>9 DEF Drops
  <2>11. QED BY <2>9, <2>10 DEF g
<1>11. QED BY <1>9, <1>10

LEMMA GreatestElement ==
  ASSUME NEW n \in Nat, NEW I \in SUBSET (0 .. n), I # {}
  PROVE  \E u \in I : \A v \in I : v <= u
<1> DEFINE J == {n - u : u \in I}
<1>1. J \in SUBSET Nat /\ J # {}
  <2>1. \A u \in I : u \in 0 .. n /\ n - u \in Nat
    OBVIOUS
  <2>2. PICK u \in I : TRUE
    OBVIOUS
  <2>3. n - u \in J
    BY <2>2
  <2>4. \A j \in J : j \in Nat
    BY <2>1
  <2> HIDE DEF J
  <2>5. QED BY <2>3, <2>4
<1>2. PICK m \in J : \A j \in J : m <= j
  BY <1>1, LeastElement
<1>3. PICK u \in I : m = n - u
  BY <1>2
<1>4. ASSUME NEW v \in I PROVE v <= u
  <2>1. n - u <= n - v
    BY <1>2, <1>3
  <2>2. QED BY <2>1
<1>5. QED BY <1>4

(* nothing is found in a list that could not be read *)
LEMMA NoneFound == 1 .. Len(Nft!Invalid.rules) = {}
<1>1. Nft!Invalid.rules = <<>>
  BY DEF Nft!Invalid
<1>2. QED BY <1>1

LEMMA NewestExists ==
  ASSUME NEW S, NEW s \in Seq(S), NEW key \in KeysOf(s)
  PROVE  \E i \in 1 .. Len(s) : Newest(s, key, i)
<1> DEFINE I == {i \in 1 .. Len(s) : s[i].key = key}
<1>1. Len(s) \in Nat /\ DOMAIN s = 1 .. Len(s)
  BY DomainIsLen
<1>2. I # {} /\ I \in SUBSET (0 .. Len(s))
  BY <1>1 DEF KeysOf
<1>3. PICK u \in I : \A v \in I : v <= u
  <2> HIDE DEF I
  <2>1. QED BY <1>1, <1>2, GreatestElement
<1>4. QED BY <1>1, <1>3 DEF Newest

LEMMA NftDelete ==
  ASSUME NEW f \in FwT, CacheOk(f), NEW key, NEW fails
  PROVE  LET d == Nft!delete_redirect_and_filter_rules(f, key, fails)
             g == d.fw
         IN /\ d.r = 0 /\ g \in FwT /\ CacheOk(g)
            /\ g.nat = f.nat /\ g.list = f.list /\ g.next_uid = f.next_uid
            /\ key \notin KeysOf(f.rdr) => g.rdr = f.rdr /\ g.filter = f.filter
            /\ key \in KeysOf(f.rdr) =>
                 \E i \in 1 .. Len(f.rdr) :
                   /\ Newest(f.rdr, key, i)
                   /\ g.rdr = RemoveAt(f.rdr, i) \/ (fails # {} /\ g.rdr = f.rdr)
                   /\ Drops(f.filter, g.filter, PassesOf(f.rdr[i]), fails)
<1> DEFINE h == Nft!refresh_nft_cache_redirect(f, "rdr?", fails)
           d == Nft!delete_redirect_and_filter_rules(f, key, fails)
           i0 == Nft!RdrIndex(h, key)
           n == Len(f.rdr)
<1>1. /\ h \in FwT
      /\ h.rdr = f.rdr /\ h.filter = f.filter /\ h.nat = f.nat /\ h.list = f.list
      /\ h.next_uid = f.next_uid /\ h.cache.filter = f.cache.filter
      /\ h.cache.rdr \in {Nft!Invalid, FreshRdr(f.rdr)}
      /\ "rdr?" \notin fails => h.cache.rdr = FreshRdr(f.rdr)
  BY RefreshRdrFacts DEF CacheOk
<1>2. d = Nft!Answer(Nft!DeleteRdr(h, i0, fails), 0)
  BY DEF Nft!delete_redirect_and_filter_rules
<1>3. d.r = 0 /\ d.fw = Nft!DeleteRdr(h, i0, fails)
  BY <1>2 DEF Nft!Answer
<1> HIDE DEF h, d
<1>9. h.cache.rdr = Nft!Invalid => i0 = 0
  BY NoneFound DEF Nft!RdrIndex, Nft!SelectInSeq
<1>4. /\ i0 \in 0 .. n
      /\ key \notin KeysOf(f.rdr) => i0 = 0
      /\ i0 = 0 => key \notin KeysOf(f.rdr) \/ fails # {}
      /\ i0 # 0 => /\ key \in KeysOf(f.rdr)
                   /\ Newest(f.rdr, key, n + 1 - i0)
                   /\ h.cache.rdr.rules[i0] = CachedRdr(f.rdr[n + 1 - i0])
  <2>1. CASE h.cache.rdr = FreshRdr(f.rdr)
    <3>1. /\ i0 \in 0 .. n
          /\ i0 = 0 <=> key \notin KeysOf(f.rdr)
          /\ i0 # 0 => /\ Newest(f.rdr, key, n + 1 - i0)
                       /\ h.cache.rdr.rules[i0] = CachedRdr(f.rdr[n + 1 - i0])
      BY <1>1, <2>1, NftRdrIndex
    <3> HIDE DEF i0
    <3>2. QED BY <3>1
  <2>2. CASE h.cache.rdr # FreshRdr(f.rdr)
    <3>1. i0 = 0 /\ fails # {}
      BY <1>1, <1>9, <2>2
    <3>2. n \in Nat
      BY FwFields, DomainIsLen
    <3> HIDE DEF i0
    <3>3. QED BY <3>1, <3>2
  <2>3. QED BY <2>1, <2>2
<1> HIDE DEF i0
<1>5. f.rdr \in Seq(RdrRules) /\ n \in Nat /\ \A i \in 1 .. n : f.rdr[i] \in RdrRules
  BY FwFields, DomainIsLen
<1>6. CASE i0 = 0
  <2>1. d.fw = h
    BY <1>3, <1>6 DEF Nft!DeleteRdr
  <2>2. CacheOk(h)
    BY <1>1 DEF CacheOk
  <2>3. ASSUME key \in KeysOf(f.rdr)
        PROVE  \E i \in 1 .. Len(f.rdr) :
                 /\ Newest(f.rdr, key, i)
                 /\ h.rdr = RemoveAt(f.rdr, i) \/ (fails # {} /\ h.rdr = f.rdr)
                 /\ Drops(f.filter, h.filter, PassesOf(f.rdr[i]), fails)
    <3>1. PICK i \in 1 .. Len(f.rdr) : Newest(f.rdr, key, i)
      BY <1>5, <2>3, NewestExists
    <3>2. fails # {}
      BY <1>4, <1>6, <2>3
    <3>3. Drops(f.filter, h.filter, PassesOf(f.rdr[i]), fails)
      BY <1>1, <3>2 DEF Drops
    <3>4. QED BY <1>1, <3>1, <3>2, <3>3
  <2>4. QED BY <1>1, <1>3, <2>1, <2>2, <2>3 DEF d
<1>7. CASE i0 # 0
  <2> DEFINE k == n + 1 - i0
             rdr == RemoveAt(f.rdr, k)
             s == Nft!SendRdr(h, rdr, "rdr-" \in fails)
             t == Nft!refresh_nft_cache_filter(s, fails)
             e == f.rdr[k]
             g == Nft!DeletePass(t, CachedRdr(e), fails)
  <2>1. k \in 1 .. n /\ e \in RdrRules
    BY <1>4, <1>5, <1>7
  <2>2. Nft!Handle(h.rdr, i0) = k /\ Nft!RemoveAt(h.rdr, k) = rdr
    BY <1>1 DEF Nft!Handle, Nft!RemoveAt, RemoveAt
  <2>3. d.fw = g
    <3> HIDE DEF rdr, k
    <3>1. h.cache.rdr.rules[i0] = CachedRdr(e)
      BY <1>4, <1>7 DEF k
    <3>2. QED BY <1>3, <1>7, <2>2, <3>1 DEF Nft!DeleteRdr
  <2>4. rdr \in Seq(RdrRules)
    <3> HIDE DEF k
    <3>1. QED BY <1>5, <2>1, RemoveKeyed
  <2>5. ("rdr-" \in fails) \in BOOLEAN
    OBVIOUS
  <2> HIDE DEF k, rdr
  <2>6. /\ s \in FwT
        /\ s.rdr = (IF "rdr-" \in fails THEN h.rdr ELSE rdr)
        /\ s.filter = h.filter /\ s.nat = h.nat /\ s.list = h.list
        /\ s.next_uid = h.next_uid /\ s.cache.rdr = Nft!Invalid /\ s.cache.filter = h.cache.filter
    BY <1>1, <2>4, <2>5, SendRdrFacts
  <2> HIDE DEF s
  <2>7. s.cache.filter \in {Nft!Invalid, FreshFilter(s.filter)}
    BY <1>1, <2>6 DEF CacheOk
  <2>8. /\ t \in FwT
        /\ t.rdr = s.rdr /\ t.filter = s.filter /\ t.nat = s.nat /\ t.list = s.list
        /\ t.next_uid = s.next_uid /\ t.cache.rdr = s.cache.rdr
        /\ t.cache.filter \in {Nft!Invalid, FreshFilter(s.filter)}
        /\ "filter?" \notin fails => t.cache.filter = FreshFilter(s.filter)
    BY <2>6, <2>7, RefreshFilterFacts
  <2> HIDE DEF t, e
  <2>10. /\ g \in FwT
         /\ g.rdr = t.rdr /\ g.nat = t.nat /\ g.list = t.list /\ g.next_uid = t.next_uid
         /\ g.cache.rdr = t.cache.rdr
         /\ g.cache.filter \in {Nft!Invalid, FreshFilter(g.filter)}
         /\ Drops(t.filter, g.filter, PassesOf(e), fails)
    <3>1. CASE t.cache.filter = FreshFilter(s.filter)
      <4>1. t.cache.filter = FreshFilter(t.filter)
        BY <2>8, <3>1
      <4>2. QED BY <2>1, <2>8, <4>1, NftDeletePass
    <3>2. CASE t.cache.filter # FreshFilter(s.filter)
      <4>1. t.cache.filter = Nft!Invalid /\ fails # {}
        BY <2>8, <3>2
      <4>2. g = t
        BY <4>1, NoneFound DEF Nft!DeletePass, Nft!SelectInSeq
      <4>3. Drops(t.filter, t.filter, PassesOf(e), fails)
        BY <4>1 DEF Drops
      <4> HIDE DEF g
      <4>4. QED BY <2>8, <4>1, <4>2, <4>3
    <3>3. QED BY <3>1, <3>2
  <2> HIDE DEF g
  <2>11. CacheOk(g) /\ g.nat = f.nat /\ g.list = f.list /\ g.next_uid = f.next_uid
    BY <1>1, <2>6, <2>8, <2>10 DEF CacheOk
  <2>12. g.rdr = rdr \/ (fails # {} /\ g.rdr = f.rdr)
    BY <1>1, <2>6, <2>8, <2>10
  <2>13. Drops(f.filter, g.filter, PassesOf(e), fails)
    BY <1>1, <2>6, <2>8, <2>10
  <2>14. Newest(f.rdr, key, k)
    BY <1>4, <1>7 DEF k
  <2>15. key \in KeysOf(f.rdr)
    BY <1>4, <1>7
  <2>16. \E i \in 1 .. Len(f.rdr) :
           /\ Newest(f.rdr, key, i)
           /\ g.rdr = RemoveAt(f.rdr, i) \/ (fails # {} /\ g.rdr = f.rdr)
           /\ Drops(f.filter, g.filter, PassesOf(f.rdr[i]), fails)
    BY <2>1, <2>12, <2>13, <2>14 DEF e, rdr
  <2>17. QED BY <1>3, <2>3, <2>10, <2>11, <2>15, <2>16 DEF d
<1>8. QED BY <1>6, <1>7

-----------------------------------------------------------------------------
(* The row of a key is made of the first rule and the first entry for it *)

RowIn(b, R, L) ==
  LET e == CHOOSE e \in R : TRUE
      d == IF L = {} THEN [desc |-> "none", ts |-> 0] ELSE CHOOSE d \in L : TRUE
  IN IF R = {} THEN NoRow
     ELSE [rhost |-> e.rhost, iaddr |-> e.iaddr, iport |-> e.iport,
           desc |-> IF b \in {"pf", "nft"} THEN e.desc ELSE d.desc, ts |-> d.ts]

RowAt(b, f, key) == RowIn(b, First(f.rdr, key), First(f.list, key))

LEMMA RowIs == \A key : RowOf(key) = RowAt(backend, fw, key)
<1> SUFFICES ASSUME NEW key PROVE RowOf(key) = RowAt(backend, fw, key)
  OBVIOUS
<1> DEFINE i == KeyIndex(fw.rdr, key)
           j == KeyIndex(fw.list, key)
           R == First(fw.rdr, key)
           L == First(fw.list, key)
<1>1. R = (IF i = 0 THEN {} ELSE {fw.rdr[i]}) /\ L = (IF j = 0 THEN {} ELSE {fw.list[j]})
  BY DEF First
<1>2. /\ ListTs(fw.list, key) = (IF j = 0 THEN 0 ELSE fw.list[j].ts)
      /\ ListDesc(fw.list, key) = (IF j = 0 THEN "none" ELSE fw.list[j].desc)
  BY DEF ListTs, ListDesc
<1>3. RowOf(key) = IF i = 0 THEN NoRow
        ELSE [rhost |-> fw.rdr[i].rhost, iaddr |-> fw.rdr[i].iaddr, iport |-> fw.rdr[i].iport,
              desc |-> IF backend \in {"pf", "nft"} THEN fw.rdr[i].desc ELSE ListDesc(fw.list, key),
              ts |-> ListTs(fw.list, key)]
  BY DEF RowOf
<1> DEFINE d == IF L = {} THEN [desc |-> "none", ts |-> 0] ELSE CHOOSE d \in L : TRUE
           e == CHOOSE e \in R : TRUE
<1> HIDE DEF i, j, R, L
<1>4. d.desc = ListDesc(fw.list, key) /\ d.ts = ListTs(fw.list, key)
  BY <1>1, <1>2
<1>5. i # 0 => e = fw.rdr[i]
  BY <1>1
<1>6. RowIn(backend, R, L) = IF R = {} THEN NoRow
        ELSE [rhost |-> e.rhost, iaddr |-> e.iaddr, iport |-> e.iport,
              desc |-> IF backend \in {"pf", "nft"} THEN e.desc ELSE d.desc, ts |-> d.ts]
  BY DEF RowIn
<1> HIDE DEF d, e
<1>7. R = {} <=> i = 0
  BY <1>1
<1>8. RowIn(backend, R, L) = RowOf(key)
  BY <1>3, <1>4, <1>5, <1>6, <1>7
<1>9. QED BY <1>8 DEF RowAt, R, L

LEMMA RowNone == \A b, L : RowIn(b, {}, L) = NoRow
BY DEF RowIn

LEMMA RowBoth ==
  \A b, e, d : RowIn(b, {e}, {d}) =
    [rhost |-> e.rhost, iaddr |-> e.iaddr, iport |-> e.iport,
     desc |-> IF b \in {"pf", "nft"} THEN e.desc ELSE d.desc, ts |-> d.ts]
<1> TAKE b, e, d
<1>1. (CHOOSE x \in {e} : TRUE) = e /\ (CHOOSE x \in {d} : TRUE) = d
  OBVIOUS
<1>2. QED BY <1>1 DEF RowIn

LEMMA RowAlone ==
  \A b, e : RowIn(b, {e}, {}) =
    [rhost |-> e.rhost, iaddr |-> e.iaddr, iport |-> e.iport,
     desc |-> IF b \in {"pf", "nft"} THEN e.desc ELSE "none", ts |-> 0]
<1> TAKE b, e
<1>1. (CHOOSE x \in {e} : TRUE) = e
  OBVIOUS
<1>2. QED BY <1>1 DEF RowIn

LEMMA FirstCases ==
  ASSUME NEW S, NEW s \in Seq(S), NEW key
  PROVE  First(s, key) = {} \/ \E e \in S : First(s, key) = {e} /\ e.key = key /\ e \in ToSet(s)
<1>1. First(s, key) = {} \/ First(s, key) = {s[KeyIndex(s, key)]}
  BY DEF First
<1>2. QED BY <1>1, FirstFacts

LEMMA FirstRemoveNewest ==
  ASSUME NEW S, NEW s \in Seq(S), NEW key, NEW i \in 1 .. Len(s), Newest(s, key, i)
  PROVE  /\ First(RemoveAt(s, i), key) \in {First(s, key), {}}
         /\ \A k : k # key => First(RemoveAt(s, i), k) = First(s, k)
<1>1. s[i].key = key /\ \A j \in 1 .. Len(s) : j > i => s[j].key # key
  BY DEF Newest
<1>2. \A k : k # key => First(RemoveAt(s, i), k) = First(s, k)
  BY <1>1, FirstRemove
<1>3. DOMAIN s = 1 .. Len(s) /\ Len(s) \in Nat
  BY DomainIsLen
<1> DEFINE k0 == KeyIndex(s, key)
<1>4. k0 \in 1 .. Len(s) /\ s[k0].key = key /\ \A j \in 1 .. Len(s) : s[j].key = key => k0 <= j
  <2>1. key \in KeysOf(s)
    BY <1>1, <1>3 DEF KeysOf
  <2>2. QED BY <2>1, KeyIndexFacts
<1>5. k0 <= i
  BY <1>1, <1>4
<1>6. CASE k0 < i
  <2>1. First(RemoveAt(s, i), key) = First(s, key)
    BY <1>4, <1>6, FirstRemove
  <2>2. QED BY <1>2, <2>1
<1>7. CASE k0 = i
  <2> DEFINE t == RemoveAt(s, i)
  <2>1. \A j \in 1 .. Len(s) : s[j].key = key => j = i
    BY <1>1, <1>3, <1>4, <1>7
  <2>2. /\ t \in Seq(S) /\ Len(t) = Len(s) - 1
        /\ \A j \in 1 .. (Len(s) - 1) : t[j] = IF j < i THEN s[j] ELSE s[j + 1]
    BY RemoveAtFacts
  <2> HIDE DEF t
  <2>3. ASSUME NEW j \in 1 .. (Len(s) - 1) PROVE t[j].key # key
    <3>1. CASE j < i
      BY <1>3, <2>1, <2>2, <2>3, <3>1
    <3>2. CASE ~(j < i)
      <4>1. j + 1 \in 1 .. Len(s) /\ j + 1 # i /\ t[j] = s[j + 1]
        BY <1>3, <2>2, <2>3, <3>2
      <4>2. QED BY <2>1, <4>1
    <3>3. QED BY <3>1, <3>2
  <2>4. DOMAIN t = 1 .. (Len(s) - 1)
    BY <2>2, DomainIsLen
  <2>5. key \notin KeysOf(t)
    BY <2>3, <2>4 DEF KeysOf
  <2>6. First(t, key) = {}
    BY <2>2, <2>5, FirstFacts
  <2>7. QED BY <1>2, <2>6 DEF t
<1>8. QED BY <1>4, <1>5, <1>6, <1>7

-----------------------------------------------------------------------------
(* nftables: what a request on a mapping does to the rules *)

Mappings == [key : Keys, rhost : Nat, iaddr : V4, iport : Ports, desc : Descs, ts : Nat]
Mapping(key, w) ==
  [key |-> key, rhost |-> w.rhost, iaddr |-> w.iaddr, iport |-> w.iport, desc |-> w.desc, ts |-> w.ts]
Entry(key, desc, ts) == [key |-> key, desc |-> desc, ts |-> ts]

LEMMA NoneIsDesc == "none" \in Descs
BY BackendsAssumption DEF Descs

LEMMA WantType ==
  ASSUME NEW w \in PlainWants
  PROVE  /\ w \in [rhost : Nat, iaddr : V4, iport : Ports, desc : Descs, ts : Nat]
         /\ w.rhost \in Nat /\ w.iaddr \in V4 /\ w.iport \in Ports /\ w.desc \in Descs /\ w.ts \in Nat
         /\ w \in Wants
         /\ \A key \in Keys : Mapping(key, w) \in Mappings
<1>1. w \in [rhost : Nat, iaddr : Nat \ {0}, iport : Ports, desc : STRING, ts : Nat] /\ w \in Wants
  BY BackendsAssumption DEF PlainWants
<1>2. w.iaddr \in V4 /\ w.desc \in Descs
  BY <1>1 DEF V4, Descs, PlainWants
<1>3. w.iport \in Ports /\ w.ts \in Nat /\ w.rhost \in Nat
  BY <1>1
<1>4. w \in [rhost : Nat, iaddr : V4, iport : Ports, desc : Descs, ts : Nat]
  BY <1>1, <1>2
<1>5. QED BY <1>1, <1>2, <1>3, <1>4 DEF Mapping, Mappings

LEMMA MappingFacts ==
  ASSUME NEW m \in Mappings
  PROVE  /\ RdrRule(m, m.desc) \in RdrRules /\ RdrRule(m, "none") \in RdrRules
         /\ RdrRule(m, m.desc).key = m.key /\ RdrRule(m, "none").key = m.key
         /\ RdrRule(m, m.desc).rhost = m.rhost /\ RdrRule(m, "none").rhost = m.rhost
         /\ RdrRule(m, m.desc).iaddr = m.iaddr /\ RdrRule(m, "none").iaddr = m.iaddr
         /\ RdrRule(m, m.desc).iport = m.iport /\ RdrRule(m, "none").iport = m.iport
         /\ RdrRule(m, m.desc).desc = m.desc
         /\ PassRule(m, m.iport) \in PassRules
         /\ Entry(m.key, "none", m.ts) \in Entries /\ Entry(m.key, m.desc, m.ts) \in Entries
         /\ Entry(m.key, "none", m.ts).key = m.key /\ Entry(m.key, m.desc, m.ts).key = m.key
<1>1. /\ m.key \in Keys /\ m.rhost \in Nat /\ m.iaddr \in V4 /\ m.iport \in Ports /\ m.desc \in Descs
      /\ m.ts \in Nat /\ m.desc \notin DOMAIN Labels
  BY DEF Mappings, Descs
<1>2. "none" \in Descs
  BY NoneIsDesc
<1>3. Proto(m.key) \in Protos
  BY <1>1, KeyType
<1>4. PassRule(m, m.iport) \in PassRules
  BY <1>1, <1>3 DEF PassRule, PassRules
<1>5. QED BY <1>1, <1>2, <1>4 DEF RdrRule, RdrRules, Entry, Entries

LEMMA ListAddIs ==
  ASSUME NEW list \in Seq(Entries), NEW key, NEW desc, NEW ts, Entry(key, desc, ts) \in Entries
  PROVE  /\ ListAdd(list, key, desc, ts) = Cons(Entry(key, desc, ts), list)
         /\ ListAdd(list, key, desc, ts) \in Seq(Entries)
         /\ \A k : First(ListAdd(list, key, desc, ts), k) =
                     IF k = key THEN {Entry(key, desc, ts)} ELSE First(list, k)
<1>1. ListAdd(list, key, desc, ts) = Cons(Entry(key, desc, ts), list)
  BY DEF ListAdd, Entry
<1>2. Entry(key, desc, ts).key = key
  BY DEF Entry
<1>3. Cons(Entry(key, desc, ts), list) \in Seq(Entries)
  BY ConsKeyed
<1>4. \A k : First(Cons(Entry(key, desc, ts), list), k) =
               IF k = key THEN {Entry(key, desc, ts)} ELSE First(list, k)
  BY <1>2, FirstCons
<1>5. QED BY <1>1, <1>3, <1>4

(* the redirection and the pass rule of m are added, as far as possible *)
Added(f, g, m, r, fails) ==
  \/ /\ "rdr+" \in fails /\ r = -1
     /\ g.rdr = f.rdr /\ g.list = f.list /\ g.filter = f.filter
  \/ /\ "rdr+" \notin fails /\ g.rdr = Append(f.rdr, RdrRule(m, m.desc))
     /\ g.list = ListAdd(f.list, m.key, "none", m.ts)
     /\ r = IF "filter+" \in fails THEN -1 ELSE 0
     /\ g.filter = IF "filter+" \in fails THEN f.filter ELSE Append(f.filter, PassRule(m, m.iport))

LEMMA NftAdd ==
  ASSUME NEW f \in FwT, CacheOk(f), NEW m \in Mappings, NEW fails
  PROVE  LET a == Nft!add_redirect_rule2(f, m, fails)
             p == Nft!add_filter_rule2(a.fw, m, fails)
         IN /\ a.r = (IF "rdr+" \in fails THEN -1 ELSE 0)
            /\ p.r = (IF "filter+" \in fails THEN -1 ELSE 0)
            /\ a.fw \in FwT /\ CacheOk(a.fw) /\ p.fw \in FwT /\ CacheOk(p.fw)
            /\ a.fw.nat = f.nat /\ a.fw.next_uid = f.next_uid
            /\ p.fw.nat = f.nat /\ p.fw.next_uid = f.next_uid
            /\ "rdr+" \in fails => Added(f, a.fw, m, -1, fails)
            /\ "rdr+" \notin fails => Added(f, p.fw, m, p.r, fails)
<1> DEFINE rdr == Append(f.rdr, RdrRule(m, m.desc))
           s == Nft!SendRdr(f, rdr, "rdr+" \in fails)
           list == ListAdd(f.list, m.key, "none", m.ts)
           t == [s EXCEPT !.list = list]
           a == Nft!add_redirect_rule2(f, m, fails)
           p == Nft!add_filter_rule2(a.fw, m, fails)
<1>1. rdr \in Seq(RdrRules)
  <2>1. f.rdr \in Seq(RdrRules) /\ RdrRule(m, m.desc) \in RdrRules
    BY FwFields, MappingFacts
  <2>2. QED BY <2>1, AppendKeyed
<1>2. list \in Seq(Entries)
  BY FwFields, MappingFacts, ListAddIs
<1>3. Nft!RdrRule(m, m.desc) = RdrRule(m, m.desc) /\ Nft!PassRule(m, m.iport) = PassRule(m, m.iport)
  BY DEF Nft!RdrRule, RdrRule, Nft!PassRule, PassRule, Nft!Proto, Proto
<1>4. \A l : Nft!ListAdd(l, m.key, "none", m.ts) = ListAdd(l, m.key, "none", m.ts)
  BY DEF Nft!ListAdd, ListAdd, Nft!Cons, Cons
<1>5. ("rdr+" \in fails) \in BOOLEAN /\ ("filter+" \in fails) \in BOOLEAN
  OBVIOUS
<1> HIDE DEF rdr
<1>6. /\ s \in FwT
      /\ s.rdr = (IF "rdr+" \in fails THEN f.rdr ELSE rdr)
      /\ s.filter = f.filter /\ s.nat = f.nat /\ s.list = f.list
      /\ s.next_uid = f.next_uid /\ s.cache.rdr = Nft!Invalid /\ s.cache.filter = f.cache.filter
  BY <1>1, <1>5, SendRdrFacts
<1>7. a = IF "rdr+" \in fails THEN Nft!Answer(s, -1) ELSE Nft!Answer(t, 0)
  <2>1. Nft!ListAdd(s.list, m.key, "none", m.ts) = list
    BY <1>4, <1>6
  <2>2. s = Nft!SendRdr(f, Append(f.rdr, Nft!RdrRule(m, m.desc)), "rdr+" \in fails)
    BY <1>3 DEF rdr
  <2> HIDE DEF s, list
  <2>3. QED BY <2>1, <2>2 DEF Nft!add_redirect_rule2
<1> HIDE DEF s, list
<1>8. /\ t \in FwT /\ t.rdr = s.rdr /\ t.filter = s.filter /\ t.nat = s.nat /\ t.list = list
      /\ t.next_uid = s.next_uid /\ t.cache = s.cache
  BY <1>2, <1>6, SetList
<1> HIDE DEF t
<1>9. /\ a.r = (IF "rdr+" \in fails THEN -1 ELSE 0)
      /\ a.fw = (IF "rdr+" \in fails THEN s ELSE t)
  BY <1>7 DEF Nft!Answer
<1> HIDE DEF a
<1>10. /\ a.fw \in FwT /\ a.fw.filter = f.filter /\ a.fw.nat = f.nat /\ a.fw.next_uid = f.next_uid
       /\ a.fw.rdr = (IF "rdr+" \in fails THEN f.rdr ELSE rdr)
       /\ a.fw.list = (IF "rdr+" \in fails THEN f.list ELSE list)
       /\ a.fw.cache.rdr = Nft!Invalid /\ a.fw.cache.filter = f.cache.filter
  BY <1>6, <1>8, <1>9
<1> DEFINE u == a.fw
           filter == Append(f.filter, PassRule(m, m.iport))
           v == Nft!SendFilter(u, filter, "filter+" \in fails)
<1>11. filter \in Seq(FilterRules)
  <2>1. f.filter \in Seq(FilterRules) /\ PassRule(m, m.iport) \in FilterRules
    BY FwFields, MappingFacts DEF FilterRules
  <2>2. QED BY <2>1, AppendKeyed
<1>12. p.fw = v /\ p.r = (IF "filter+" \in fails THEN -1 ELSE 0)
  <2>1. filter = Append(u.filter, Nft!PassRule(m, m.iport))
    BY <1>3, <1>10
  <2> HIDE DEF filter, u
  <2>2. p = Nft!Answer(v, IF "filter+" \in fails THEN -1 ELSE 0)
    BY <2>1 DEF Nft!add_filter_rule2, u
  <2>3. QED BY <2>2 DEF Nft!Answer
<1> HIDE DEF p, filter, u
<1>13. /\ u \in FwT /\ u.filter = f.filter /\ u.nat = f.nat /\ u.next_uid = f.next_uid
       /\ u.rdr = (IF "rdr+" \in fails THEN f.rdr ELSE rdr)
       /\ u.list = (IF "rdr+" \in fails THEN f.list ELSE list)
       /\ u.cache.rdr = Nft!Invalid /\ u.cache.filter = f.cache.filter
  BY <1>10 DEF u
<1>14. /\ v \in FwT
       /\ v.filter = (IF "filter+" \in fails THEN u.filter ELSE filter)
       /\ v.rdr = u.rdr /\ v.nat = u.nat /\ v.list = u.list
       /\ v.next_uid = u.next_uid /\ v.cache.rdr = u.cache.rdr /\ v.cache.filter = Nft!Invalid
  BY <1>5, <1>11, <1>13, SendFilterFacts
<1> HIDE DEF v
<1>15. CacheOk(u) /\ CacheOk(v)
  BY <1>13, <1>14 DEF CacheOk
<1>16. "rdr+" \in fails => Added(f, u, m, -1, fails)
  BY <1>13 DEF Added
<1>17. "rdr+" \notin fails => Added(f, v, m, p.r, fails)
  <2> SUFFICES ASSUME "rdr+" \notin fails PROVE Added(f, v, m, p.r, fails)
    OBVIOUS
  <2>1. v.rdr = rdr /\ v.list = list
    BY <1>13, <1>14
  <2>2. v.filter = IF "filter+" \in fails THEN f.filter ELSE filter
    BY <1>13, <1>14
  <2>3. QED BY <1>12, <2>1, <2>2 DEF Added, rdr, list, filter
<1>18. QED BY <1>9, <1>12, <1>13, <1>14, <1>15, <1>16, <1>17 DEF a, p, u

LEMMA NftGet ==
  ASSUME NEW f \in FwT, CacheOk(f), NEW key, NEW fails, "find" \notin fails
  PROVE  LET row == Nft!get_redirect_rule(f, key, fails) IN
         /\ key \notin KeysOf(f.rdr) => row = NoRow
         /\ key \in KeysOf(f.rdr) =>
              /\ row # NoRow
              /\ \E i \in 1 .. Len(f.rdr) :
                   /\ Newest(f.rdr, key, i)
                   /\ row = [rhost |-> f.rdr[i].rhost, iaddr |-> f.rdr[i].iaddr, iport |-> f.rdr[i].iport,
                             desc |-> f.rdr[i].desc, ts |-> ListTs(f.list, key)]
<1> DEFINE h == Nft!refresh_nft_cache_redirect(f, "find", fails)
           row == Nft!get_redirect_rule(f, key, fails)
           i0 == Nft!RdrIndex(h, key)
           n == Len(f.rdr)
           c == h.cache.rdr.rules[i0]
<1>1. h \in FwT /\ h.rdr = f.rdr /\ h.list = f.list /\ h.cache.rdr = FreshRdr(f.rdr)
  BY RefreshRdrFacts DEF CacheOk
<1>2. row = Nft!get_nat_redirect_rule(h, key)
  BY DEF Nft!get_redirect_rule
<1> HIDE DEF h, row
<1>3. /\ Nft!KeyIndex(h.cache.rdr.rules, key) = i0
      /\ i0 \in 0 .. n
      /\ i0 = 0 <=> key \notin KeysOf(f.rdr)
      /\ i0 # 0 => Newest(f.rdr, key, n + 1 - i0) /\ c = CachedRdr(f.rdr[n + 1 - i0])
  BY <1>1, NftRdrIndex
<1> HIDE DEF i0
<1>4. Nft!NoRow = NoRow /\ Nft!ListTs(h.list, key) = ListTs(f.list, key)
  BY <1>1 DEF Nft!NoRow, NoRow, Nft!ListTs, ListTs, Nft!KeyIndex, KeyIndex, Nft!SelectInSeq,
     SelectInSeq, Nft!Min, Min
<1>5. row = IF i0 = 0 THEN NoRow
            ELSE [rhost |-> c.rhost, iaddr |-> c.iaddr, iport |-> c.iport, desc |-> c.desc, ts |-> ListTs(f.list, key)]
  BY <1>2, <1>3, <1>4 DEF Nft!get_nat_redirect_rule
<1>6. f.rdr \in Seq(RdrRules) /\ n \in Nat /\ \A i \in 1 .. n : f.rdr[i] \in RdrRules
  BY FwFields, DomainIsLen
<1>7. CASE i0 = 0
  BY <1>3, <1>5, <1>7 DEF row
<1>8. CASE i0 # 0
  <2> DEFINE k == n + 1 - i0
             e == f.rdr[k]
  <2>1. k \in 1 .. n
    BY <1>3, <1>6, <1>8
  <2>2. e \in RdrRules
    <3> HIDE DEF k
    <3>1. QED BY <1>6, <2>1
  <2>3. e.iaddr # 0
    BY <2>2, AddrFacts DEF RdrRules
  <2>4. Newest(f.rdr, key, k) /\ c = CachedRdr(e)
    BY <1>3, <1>8
  <2> HIDE DEF k, e, c
  <2>5. c.rhost = e.rhost /\ c.iaddr = e.iaddr /\ c.iport = e.iport /\ c.desc = e.desc
    BY <2>4 DEF CachedRdr
  <2>6. row = [rhost |-> e.rhost, iaddr |-> e.iaddr, iport |-> e.iport, desc |-> e.desc, ts |-> ListTs(f.list, key)]
    BY <1>5, <1>8, <2>5
  <2>7. row # NoRow
    BY <2>3, <2>6 DEF NoRow
  <2>8. key \in KeysOf(f.rdr)
    BY <1>3, <1>8
  <2>9. QED BY <2>1, <2>4, <2>6, <2>7, <2>8 DEF row, e
<1>9. QED BY <1>7, <1>8

LEMMA NewestOne ==
  ASSUME NEW s, Len(s) \in Nat, NEW key, NEW i, NEW j, Newest(s, key, i), Newest(s, key, j)
  PROVE  i = j
<1>1. i \in 1 .. Len(s) /\ j \in 1 .. Len(s) /\ s[i].key = key /\ s[j].key = key
      /\ (\A k \in 1 .. Len(s) : k > i => s[k].key # key)
      /\ (\A k \in 1 .. Len(s) : k > j => s[k].key # key)
  BY DEF Newest
<1>2. ~(j > i) /\ ~(i > j)
  BY <1>1
<1>3. QED BY <1>1, <1>2

(* h is f after the newest rule of the key and its pass rule went *)
Deleted(f, h, i, fails) ==
  /\ h.list = f.list
  /\ h.rdr = RemoveAt(f.rdr, i) \/ (fails # {} /\ h.rdr = f.rdr)
  /\ Drops(f.filter, h.filter, PassesOf(f.rdr[i]), fails)

LEMMA NftUpdate ==
  ASSUME NEW f \in FwT, CacheOk(f), NEW key \in Keys, NEW w \in PlainWants, NEW fails,
         "find" \notin fails,
         NEW i \in 1 .. Len(f.rdr), Newest(f.rdr, key, i), f.rdr[i].iaddr = w.iaddr,
         f.rdr[i].rhost = w.rhost
  PROVE  LET a == Nft!update_portmapping(f, key, w.iport, w.desc, w.ts, fails)
             g == a.fw
         IN /\ g \in FwT /\ CacheOk(g) /\ g.nat = f.nat /\ g.next_uid = f.next_uid
            /\ \E h \in FwT : Deleted(f, h, i, fails) /\ Added(h, g, Mapping(key, w), a.r, fails)
<1> DEFINE row == Nft!get_redirect_rule(f, key, fails)
           m == Mapping(key, w)
           d == Nft!delete_redirect_and_filter_rules(f, key, fails)
           a == Nft!add_redirect_rule2(d.fw, m, fails)
           p == Nft!add_filter_rule2(a.fw, m, fails)
           u == Nft!update_portmapping(f, key, w.iport, w.desc, w.ts, fails)
<1>1. f.rdr \in Seq(RdrRules) /\ Len(f.rdr) \in Nat /\ DOMAIN f.rdr = 1 .. Len(f.rdr)
  BY FwFields, DomainIsLen
<1>2. key \in KeysOf(f.rdr)
  BY <1>1 DEF Newest, KeysOf
<1>3. row # NoRow /\ row.iaddr = w.iaddr /\ row.rhost = w.rhost
  <2>1. PICK j \in 1 .. Len(f.rdr) :
          /\ Newest(f.rdr, key, j)
          /\ row = [rhost |-> f.rdr[j].rhost, iaddr |-> f.rdr[j].iaddr, iport |-> f.rdr[j].iport,
                    desc |-> f.rdr[j].desc, ts |-> ListTs(f.list, key)]
    BY <1>2, NftGet
  <2>2. j = i
    BY <1>1, <2>1, NewestOne
  <2>3. row # NoRow
    BY <1>2, NftGet
  <2> HIDE DEF row
  <2>4. QED BY <2>1, <2>2, <2>3
<1>4. m \in Mappings
  BY WantType
<1>5. /\ d.fw \in FwT /\ CacheOk(d.fw)
      /\ d.fw.nat = f.nat /\ d.fw.list = f.list /\ d.fw.next_uid = f.next_uid
  BY NftDelete
<1>6. Deleted(f, d.fw, i, fails)
  <2> DEFINE g == d.fw
  <2>1. PICK j \in 1 .. Len(f.rdr) :
          /\ Newest(f.rdr, key, j)
          /\ g.rdr = RemoveAt(f.rdr, j) \/ (fails # {} /\ g.rdr = f.rdr)
          /\ Drops(f.filter, g.filter, PassesOf(f.rdr[j]), fails)
    BY <1>2, NftDelete
  <2>2. j = i
    BY <1>1, <2>1, NewestOne
  <2> HIDE DEF d
  <2>3. QED BY <1>5, <2>1, <2>2 DEF Deleted
<1>7. u = Nft!AddBoth(a, m, fails)
  <2>1. [key |-> key, rhost |-> row.rhost, iaddr |-> row.iaddr, iport |-> w.iport, desc |-> w.desc, ts |-> w.ts] = m
    BY <1>3 DEF Mapping
  <2>2. row # Nft!NoRow
    BY <1>3 DEF Nft!NoRow, NoRow
  <2> HIDE DEF m
  <2>3. QED BY <2>1, <2>2 DEF Nft!update_portmapping
<1> HIDE DEF d, m, row
<1> DEFINE e == d.fw
<1> HIDE DEF e
<1>8. e \in FwT /\ CacheOk(e)
  BY <1>5 DEF e
<1>9. /\ a.r = (IF "rdr+" \in fails THEN -1 ELSE 0)
      /\ p.r = (IF "filter+" \in fails THEN -1 ELSE 0)
      /\ a.fw \in FwT /\ CacheOk(a.fw) /\ p.fw \in FwT /\ CacheOk(p.fw)
      /\ a.fw.nat = e.nat /\ a.fw.next_uid = e.next_uid
      /\ p.fw.nat = e.nat /\ p.fw.next_uid = e.next_uid
      /\ "rdr+" \in fails => Added(e, a.fw, m, -1, fails)
      /\ "rdr+" \notin fails => Added(e, p.fw, m, p.r, fails)
  BY <1>4, <1>8, NftAdd DEF e
<1>10. u = IF a.r < 0 THEN a ELSE p
  BY <1>7 DEF Nft!AddBoth
<1> HIDE DEF a, p
<1>11. u = IF "rdr+" \in fails THEN a ELSE p
  BY <1>9, <1>10
<1>12. Added(e, u.fw, m, u.r, fails)
  <2>1. CASE "rdr+" \in fails
    BY <1>9, <1>11, <2>1
  <2>2. CASE "rdr+" \notin fails
    BY <1>9, <1>11, <2>2
  <2>3. QED BY <2>1, <2>2
<1>13. u.fw \in FwT /\ CacheOk(u.fw) /\ u.fw.nat = f.nat /\ u.fw.next_uid = f.next_uid
  BY <1>5, <1>9, <1>11 DEF e
<1>14. QED BY <1>5, <1>6, <1>12, <1>13 DEF e, m

LEMMA SearchedFacts ==
  ASSUME backend = "nft", fw \in FwT, CacheOk(fw), NEW fails
  PROVE  LET s == Searched(fails) IN
         /\ s \in FwT /\ CacheOk(s)
         /\ s.rdr = fw.rdr /\ s.filter = fw.filter /\ s.nat = fw.nat
         /\ s.list = fw.list /\ s.next_uid = fw.next_uid
<1>1. Searched(fails) = Nft!refresh_nft_cache_redirect(fw, "find", fails)
  BY DEF Searched
<1> DEFINE g == Nft!refresh_nft_cache_redirect(fw, "find", fails)
<1>2. /\ g \in FwT
      /\ g.rdr = fw.rdr /\ g.filter = fw.filter /\ g.nat = fw.nat /\ g.list = fw.list
      /\ g.next_uid = fw.next_uid
      /\ g.cache.rdr \in {Nft!Invalid, FreshRdr(fw.rdr)} /\ g.cache.filter = fw.cache.filter
  BY RefreshRdrFacts DEF CacheOk
<1> HIDE DEF g
<1>3. CacheOk(g)
  BY <1>2 DEF CacheOk
<1>4. QED BY <1>1, <1>2, <1>3 DEF g

SameHosts(e, w) == e.iaddr = w.iaddr /\ e.rhost = w.rhost

(* the four ways through upnp_redirect() on nftables *)
LEMMA NftRedirect ==
  ASSUME backend = "nft", fw \in FwT, CacheOk(fw), NEW key \in Keys, NEW w \in PlainWants, NEW fails,
         "find" \notin fails
  PROVE  LET a == upnp_redirect(key, w, fails)
             g == a.fw
             m == Mapping(key, w)
         IN /\ g \in FwT /\ CacheOk(g) /\ g.nat = fw.nat /\ g.next_uid = fw.next_uid
            /\ \/ key \notin KeysOf(fw.rdr) /\ Added(fw, g, m, a.r, fails)
               \/ \E i \in 1 .. Len(fw.rdr) :
                    /\ Newest(fw.rdr, key, i)
                    /\ \/ /\ ~SameHosts(fw.rdr[i], w) /\ a.r = -2
                          /\ g.rdr = fw.rdr /\ g.list = fw.list /\ g.filter = fw.filter
                       \/ /\ SameHosts(fw.rdr[i], w) /\ fw.rdr[i].iport # w.iport
                          /\ \E h \in FwT : Deleted(fw, h, i, fails) /\ Added(h, g, m, a.r, fails)
                       \/ /\ SameHosts(fw.rdr[i], w) /\ fw.rdr[i].iport = w.iport /\ a.r = 0
                          /\ g.rdr = fw.rdr /\ g.filter = fw.filter
                          /\ g.list = ListAdd(ListRemove(fw.list, key), key, "none", w.ts)
<1> DEFINE old == Nft!get_redirect_rule(fw, key, fails)
           s == Searched(fails)
           m == Mapping(key, w)
           a == upnp_redirect(key, w, fails)
<1>1. get_redirect_rule(key, fails) = old
  BY DEF get_redirect_rule
<1>2. /\ s \in FwT /\ CacheOk(s)
      /\ s.rdr = fw.rdr /\ s.filter = fw.filter /\ s.nat = fw.nat
      /\ s.list = fw.list /\ s.next_uid = fw.next_uid
  BY SearchedFacts
<1>3. a = IF old = NoRow THEN upnp_redirect_internal(m, fails)
          ELSE IF ~SameHosts(old, w) THEN Answer(s, -2)
          ELSE IF old.iport # w.iport THEN update_portmapping(key, w, fails)
          ELSE update_portmapping_desc_timestamp(key, w, fails)
  BY <1>1 DEF upnp_redirect, Mapping, SameHosts
<1> HIDE DEF s, old, a
<1>4. m \in Mappings
  BY WantType
<1> HIDE DEF m
<1>5. CASE key \notin KeysOf(fw.rdr)
  <2> DEFINE b == Nft!add_redirect_rule2(s, m, fails)
             p == Nft!add_filter_rule2(b.fw, m, fails)
  <2>1. old = NoRow
    BY <1>5, NftGet DEF old
  <2>2. a = AfterRdr(b, m, fails)
    BY <1>3, <2>1 DEF upnp_redirect_internal, add_redirect_rule2, s
  <2>3. /\ b.r = (IF "rdr+" \in fails THEN -1 ELSE 0)
        /\ p.r = (IF "filter+" \in fails THEN -1 ELSE 0)
        /\ b.fw \in FwT /\ CacheOk(b.fw) /\ p.fw \in FwT /\ CacheOk(p.fw)
        /\ b.fw.nat = s.nat /\ b.fw.next_uid = s.next_uid
        /\ p.fw.nat = s.nat /\ p.fw.next_uid = s.next_uid
        /\ "rdr+" \in fails => Added(s, b.fw, m, -1, fails)
        /\ "rdr+" \notin fails => Added(s, p.fw, m, p.r, fails)
    BY <1>2, <1>4, NftAdd
  <2> HIDE DEF b
  <2>4. add_filter_rule2(b.fw, m, fails) = p
    BY DEF add_filter_rule2
  <2> HIDE DEF p
  <2>5. CASE "rdr+" \in fails
    <3>1. a = Answer(b.fw, -1)
      BY <2>2, <2>3, <2>5 DEF AfterRdr
    <3>2. a.fw = b.fw /\ a.r = -1
      BY <3>1 DEF Answer
    <3>3. Added(fw, a.fw, m, a.r, fails)
      BY <1>2, <2>3, <2>5, <3>2 DEF Added
    <3>4. QED BY <1>2, <1>5, <2>3, <3>2, <3>3 DEF a, m
  <2>6. CASE "rdr+" \notin fails
    <3>1. a = AddFilter(p, m, fails)
      BY <2>2, <2>3, <2>4, <2>6 DEF AfterRdr
    <3>2. a.fw = p.fw /\ a.r = p.r
      BY <2>3, <3>1 DEF AddFilter, CleanUp, Answer
    <3>3. Added(fw, a.fw, m, a.r, fails)
      BY <1>2, <2>3, <2>6, <3>2 DEF Added
    <3>4. QED BY <1>2, <1>5, <2>3, <3>2, <3>3 DEF a, m
  <2>7. QED BY <2>5, <2>6
<1>6. CASE key \in KeysOf(fw.rdr)
  <2>1. PICK i \in 1 .. Len(fw.rdr) :
          /\ Newest(fw.rdr, key, i)
          /\ old = [rhost |-> fw.rdr[i].rhost, iaddr |-> fw.rdr[i].iaddr, iport |-> fw.rdr[i].iport,
                    desc |-> fw.rdr[i].desc, ts |-> ListTs(fw.list, key)]
    BY <1>6, NftGet DEF old
  <2>2. old # NoRow /\ (SameHosts(old, w) <=> SameHosts(fw.rdr[i], w)) /\ old.iport = fw.rdr[i].iport
    BY <1>6, <2>1, NftGet DEF old, SameHosts
  <2>3. CASE ~SameHosts(fw.rdr[i], w)
    <3>1. a = Answer(s, -2)
      BY <1>3, <2>2, <2>3
    <3>2. a.fw = s /\ a.r = -2
      BY <3>1 DEF Answer
    <3>3. QED BY <1>2, <2>1, <2>3, <3>2 DEF a
  <2>4. CASE SameHosts(fw.rdr[i], w) /\ fw.rdr[i].iport # w.iport
    <3> DEFINE u == Nft!update_portmapping(s, key, w.iport, w.desc, w.ts, fails)
    <3>1. a = u
      BY <1>3, <2>2, <2>4 DEF update_portmapping, s
    <3>2. /\ i \in 1 .. Len(s.rdr) /\ Newest(s.rdr, key, i) /\ s.rdr[i].iaddr = w.iaddr
          /\ s.rdr[i].rhost = w.rhost
      BY <1>2, <2>1, <2>4 DEF SameHosts
    <3>3. /\ u.fw \in FwT /\ CacheOk(u.fw) /\ u.fw.nat = s.nat /\ u.fw.next_uid = s.next_uid
          /\ \E h \in FwT : Deleted(s, h, i, fails) /\ Added(h, u.fw, m, u.r, fails)
      BY <1>2, <3>2, NftUpdate DEF m
    <3> HIDE DEF u
    <3>4. \E h \in FwT : Deleted(fw, h, i, fails) /\ Added(h, a.fw, m, a.r, fails)
      BY <1>2, <3>1, <3>3 DEF Deleted
    <3>5. QED BY <1>2, <2>1, <2>4, <3>1, <3>3, <3>4 DEF a, m
  <2>5. CASE SameHosts(fw.rdr[i], w) /\ fw.rdr[i].iport = w.iport
    <3> DEFINE list == ListAdd(ListRemove(fw.list, key), key, "none", w.ts)
               g == [s EXCEPT !.list = list]
    <3>1. \A l : Nft!ListAdd(Nft!ListRemove(l, key), key, "none", w.ts) =
                   ListAdd(ListRemove(l, key), key, "none", w.ts)
      BY DEF Nft!ListAdd, ListAdd, Nft!Cons, Cons, Nft!ListRemove, ListRemove,
         Nft!RemoveFirstMatch, RemoveFirstMatch, Nft!RemoveAt, RemoveAt,
         Nft!SelectInSeq, SelectInSeq, Nft!Min, Min
    <3>2. Nft!update_portmapping_desc_timestamp(s, key, w.desc, w.ts, fails) = Nft!Answer(g, 0)
      BY <1>2, <3>1 DEF Nft!update_portmapping_desc_timestamp
    <3> HIDE DEF g
    <3>3. a = Nft!Answer(g, 0)
      BY <1>3, <2>2, <2>5, <3>2 DEF update_portmapping_desc_timestamp, s
    <3>4. a.fw = g /\ a.r = 0
      BY <3>3 DEF Nft!Answer
    <3>5. list \in Seq(Entries)
      <4>1. ListRemove(fw.list, key) \in Seq(Entries)
        BY FwFields, ListRemoveFacts
      <4>2. Entry(key, "none", w.ts) \in Entries
        BY WantType, NoneIsDesc DEF Entry, Entries
      <4>3. QED BY <4>1, <4>2, ListAddIs
    <3> HIDE DEF list
    <3>6. /\ g \in FwT /\ g.rdr = s.rdr /\ g.filter = s.filter /\ g.nat = s.nat /\ g.list = list
          /\ g.next_uid = s.next_uid /\ g.cache = s.cache
      BY <1>2, <3>5, SetList DEF g
    <3>7. CacheOk(g)
      BY <1>2, <3>6 DEF CacheOk
    <3>8. QED BY <1>2, <2>1, <2>5, <3>4, <3>6, <3>7 DEF a, list
  <2>6. QED BY <2>3, <2>4, <2>5
<1>7. QED BY <1>5, <1>6

-----------------------------------------------------------------------------
(* Pinholes: the pass rules, the redirections and the list stay *)

Passes(s) == Sublist(s, PassRules)
Pins(s) == Sublist(s, PinRules)

PinholeStepOk(f, g) ==
  /\ g \in FwT /\ g.rdr = f.rdr /\ g.list = f.list /\ g.nat = f.nat
  /\ Passes(g.filter) = Passes(f.filter)

LEMMA KindsApart ==
  ASSUME NEW e \in FilterRules
  PROVE  /\ e \in PassRules <=> e.kind = "pass"
         /\ e \in PinRules <=> e.kind = "pinhole"
         /\ e \in PassRules <=> e \notin PinRules
         /\ ReadsAsPinhole(e) <=> e.kind = "pinhole"
<1>1. e \in PassRules => e.kind = "pass"
  BY DEF PassRules
<1>2. e \in PinRules => e.kind = "pinhole"
  BY DEF PinRules
<1>3. QED BY <1>1, <1>2 DEF FilterRules, ReadsAsPinhole

LEMMA NoLabel ==
  ASSUME NEW e \in FilterRules
  PROVE  Unlabelled(e) = e
<1>1. e.kind # "labelled"
  BY KindsApart
<1>2. QED BY <1>1 DEF Unlabelled

LEMMA KindIs ==
  ASSUME NEW f \in FwT
  PROVE  IsKind("pass", f) = Passes(f.filter) /\ IsKind("pinhole", f) = Pins(f.filter)
<1>1. f.filter \in Seq(FilterRules)
  BY FwFields
<1>2. DOMAIN f.filter = 1 .. Len(f.filter) /\ \A i \in 1 .. Len(f.filter) : f.filter[i] \in FilterRules
  BY <1>1, DomainIsLen
<1>3. \A e \in ToSet(f.filter) : e \in FilterRules
  BY <1>2 DEF ToSet
<1>4. IsKind("pass", f) = Sublist(f.filter, {e \in ToSet(f.filter) : Unlabelled(e).kind = "pass"})
  BY DEF IsKind, Kept
<1>5. IsKind("pinhole", f) = Sublist(f.filter, {e \in ToSet(f.filter) : Unlabelled(e).kind = "pinhole"})
  BY DEF IsKind, Kept
<1>6. \A e \in ToSet(f.filter) : e \in {x \in ToSet(f.filter) : Unlabelled(x).kind = "pass"} <=> e \in PassRules
  BY <1>3, KindsApart, NoLabel
<1>7. \A e \in ToSet(f.filter) : e \in {x \in ToSet(f.filter) : Unlabelled(x).kind = "pinhole"} <=> e \in PinRules
  BY <1>3, KindsApart, NoLabel
<1>8. QED BY <1>1, <1>4, <1>5, <1>6, <1>7, SublistAgree DEF Passes, Pins

LEMMA PinAppend ==
  ASSUME NEW s \in Seq(FilterRules), NEW e \in PinRules
  PROVE  Append(s, e) \in Seq(FilterRules) /\ Passes(Append(s, e)) = Passes(s)
<1>1. e \in FilterRules /\ e \notin PassRules
  BY KindsApart DEF FilterRules
<1>2. QED BY <1>1, AppendKeyed, SublistAppend DEF Passes

LEMMA PassAppend ==
  ASSUME NEW s \in Seq(FilterRules), NEW e \in PassRules
  PROVE  Append(s, e) \in Seq(FilterRules) /\ Pins(Append(s, e)) = Pins(s)
<1>1. e \in FilterRules /\ e \notin PinRules
  BY KindsApart DEF FilterRules
<1>2. QED BY <1>1, AppendKeyed, SublistAppend DEF Pins

LEMMA RuleRemove ==
  ASSUME NEW s \in Seq(FilterRules), NEW i \in 1 .. Len(s)
  PROVE  /\ RemoveAt(s, i) \in Seq(FilterRules)
         /\ s[i] \in PinRules => Passes(RemoveAt(s, i)) = Passes(s)
         /\ s[i] \in PassRules => Pins(RemoveAt(s, i)) = Pins(s)
<1>1. s[i] \in FilterRules
  BY DomainIsLen
<1>2. s[i] \in PinRules <=> s[i] \notin PassRules
  BY <1>1, KindsApart
<1>3. QED BY <1>2, RemoveKeyed, SublistRemove DEF Pins, Passes

LEMMA NextUidType ==
  ASSUME NEW uid \in 1 .. MaxUid - 1
  PROVE  NextUid(uid, MaxUid) \in 1 .. MaxUid - 1
<1>1. MaxUid \in Nat \ {0, 1}
  BY BackendsAssumption
<1>2. QED BY <1>1 DEF NextUid

LEMMA UidAfterCleanType ==
  ASSUME NEW uids \in Seq(1 .. MaxUid - 1), NEW uid \in 1 .. MaxUid - 1
  PROVE  UidAfterClean(uids, uid, MaxUid) \in 1 .. MaxUid - 1
<1>1. MaxUid \in Nat \ {0, 1}
  BY BackendsAssumption
<1> DEFINE U == ToSet(uids)
           top == CHOOSE u \in U : \A v \in U : v <= u
           max == IF uids = <<>> THEN -1 ELSE top
           min_set == \E i, j \in 1 .. Len(uids) : i < j /\ uids[j] <= uids[i]
           next == IF min_set /\ uid <= max THEN max + 1 ELSE uid
<1>2. UidAfterClean(uids, uid, MaxUid) = IF max <= 0 THEN uid ELSE IF next >= MaxUid THEN 1 ELSE next
  BY DEF UidAfterClean
<1>3. max \in Int
  <2>1. CASE uids = <<>>
    BY <2>1
  <2>2. CASE uids # <<>>
    <3>1. DOMAIN uids = 1 .. Len(uids) /\ Len(uids) \in Nat /\ \A i \in 1 .. Len(uids) : uids[i] \in 1 .. MaxUid - 1
      BY DomainIsLen
    <3>2. Len(uids) # 0
      BY <2>2, EmptySeq
    <3>3. U # {} /\ U \in SUBSET (0 .. MaxUid)
      BY <1>1, <3>1, <3>2 DEF ToSet
    <3>4. \E u \in U : \A v \in U : v <= u
      <4> HIDE DEF U
      <4>1. QED BY <1>1, <3>3, GreatestElement
    <3>5. top \in U
      <4> HIDE DEF U
      <4>1. QED BY <3>4
    <3>6. QED BY <2>2, <3>3, <3>5
  <2>3. QED BY <2>1, <2>2
<1> HIDE DEF max
<1>4. next \in Int /\ (max > 0 => next >= 1)
  <2> HIDE DEF min_set
  <2>1. QED BY <1>3
<1> HIDE DEF next
<1>5. QED BY <1>1, <1>2, <1>3, <1>4

LEMMA PinholeRuleType ==
  ASSUME NEW p \in Pinholes, NEW uid \in 1 .. MaxUid - 1, NEW ts \in Nat
  PROVE  PinholeRule(p, uid, ts) \in PinRules
<1>1. p \in [proto : {"tcp", "udp"}, rhost : Nat, rport : Ports, iaddr : Nat \ {0}, port : Ports]
  BY BackendsAssumption
<1>2. p.proto \in Protos /\ p.rhost \in Nat /\ p.rport \in Ports /\ p.port \in Ports
  BY <1>1 DEF Protos
<1>3. p.iaddr \in V6
  BY DEF V6
<1>4. QED BY <1>2, <1>3 DEF PinholeRule, PinRules

LEMMA NftPinholeIndex ==
  ASSUME NEW f \in FwT, CacheOk(f), NEW uid
  PROVE  LET i == Nft!PinholeIndex(f, uid)
             k == Nft!Handle(f.filter, i)
         IN i = 0 \/ (k \in 1 .. Len(f.filter) /\ f.filter[k] \in PinRules /\ f.filter[k].uid = uid)
<1> DEFINE n == Len(f.filter)
           rules == f.cache.filter.rules
           J == {j \in 1 .. Len(rules) : rules[j].filter /\ rules[j].pinhole /\ rules[j].uid = uid}
           i == Nft!PinholeIndex(f, uid)
           k == n + 1 - i
<1>10. CASE f.cache.filter = Nft!Invalid
  BY <1>10, NoneFound DEF Nft!PinholeIndex, Nft!SelectInSeq
<1>11. SUFFICES ASSUME f.cache.filter = FreshFilter(f.filter) PROVE i = 0 \/
                  (LET l == Nft!Handle(f.filter, i) IN
                   l \in 1 .. Len(f.filter) /\ f.filter[l] \in PinRules /\ f.filter[l].uid = uid)
  BY <1>10 DEF CacheOk
<1>1. f.filter \in Seq(FilterRules)
  BY FwFields
<1>2. n \in Nat /\ DOMAIN f.filter = 1 .. n /\ \A j \in 1 .. n : f.filter[j] \in FilterRules
  BY <1>1, DomainIsLen
<1>3. Len(rules) = n /\ \A j \in 1 .. n : rules[j] = CachedFilter(f.filter[n + 1 - j])
  BY <1>1, <1>11, FreshFilterFacts, ZenonT(40)
<1>4. i = IF J # {} THEN Min(J) ELSE 0
  BY DEF Nft!PinholeIndex, Nft!SelectInSeq, Nft!Min, Min
<1>5. J \in SUBSET Nat /\ J \subseteq 1 .. n
  BY <1>2, <1>3
<1>6. Nft!Handle(f.filter, i) = k
  BY DEF Nft!Handle
<1>7. CASE J = {}
  BY <1>4, <1>7
<1>8. CASE J # {}
  <2>1. i \in J
    BY <1>4, <1>5, <1>8, MinIsLeast
  <2> HIDE DEF i
  <2>2. i \in 1 .. n /\ rules[i].pinhole /\ rules[i].uid = uid
    BY <1>3, <2>1
  <2>3. k \in 1 .. n
    BY <1>2, <2>2
  <2> DEFINE e == f.filter[k]
  <2>4. rules[i] = CachedFilter(e)
    BY <1>3, <2>2
  <2>5. e \in FilterRules
    BY <1>2, <2>3
  <2> HIDE DEF e, J, k
  <2>6. CachedFilter(e).uid = e.uid /\ CachedFilter(e).pinhole = ReadsAsPinhole(e)
    BY DEF CachedFilter
  <2>7. e.kind = "pinhole" /\ e.uid = uid
    BY <2>2, <2>4, <2>5, <2>6, KindsApart
  <2>8. e \in PinRules
    BY <2>5, <2>7, KindsApart
  <2>9. QED BY <1>6, <2>3, <2>7, <2>8 DEF e, i
<1>9. QED BY <1>7, <1>8

LEMMA NftUnlink ==
  ASSUME NEW f \in FwT, CacheOk(f), NEW i, NEW failed \in BOOLEAN,
         Nft!Handle(f.filter, i) \in 1 .. Len(f.filter),
         f.filter[Nft!Handle(f.filter, i)] \in PinRules
  PROVE  LET g == Nft!Unlink(f, i, failed) IN
         PinholeStepOk(f, g) /\ CacheOk(g) /\ g.next_uid = f.next_uid
<1> DEFINE k == Nft!Handle(f.filter, i)
           filter == RemoveAt(f.filter, k)
           g == Nft!Unlink(f, i, failed)
<1> HIDE DEF k
<1>1. f.filter \in Seq(FilterRules) /\ k \in 1 .. Len(f.filter) /\ f.filter[k] \in PinRules
  BY FwFields DEF k
<1>2. filter \in Seq(FilterRules) /\ Passes(filter) = Passes(f.filter)
  BY <1>1, RuleRemove
<1>3. g = Nft!SendFilter(f, filter, failed)
  BY DEF Nft!Unlink, Nft!RemoveAt, RemoveAt, k
<1> HIDE DEF filter, g
<1>4. /\ g \in FwT
      /\ g.filter = (IF failed THEN f.filter ELSE filter)
      /\ g.rdr = f.rdr /\ g.nat = f.nat /\ g.list = f.list
      /\ g.next_uid = f.next_uid /\ g.cache.rdr = f.cache.rdr /\ g.cache.filter = Nft!Invalid
  BY <1>2, <1>3, SendFilterFacts
<1>5. CacheOk(g)
  BY <1>4 DEF CacheOk
<1>6. Passes(g.filter) = Passes(f.filter)
  BY <1>2, <1>4
<1>7. QED BY <1>4, <1>5, <1>6 DEF PinholeStepOk, g

LEMMA RefreshedFilter ==
  ASSUME NEW f \in FwT, CacheOk(f)
  PROVE  \A fails :
         LET g == Nft!refresh_nft_cache_filter(f, fails) IN
         /\ g \in FwT /\ CacheOk(g)
         /\ g.rdr = f.rdr /\ g.filter = f.filter /\ g.nat = f.nat /\ g.list = f.list
         /\ g.next_uid = f.next_uid
<1> TAKE fails
<1> DEFINE g == Nft!refresh_nft_cache_filter(f, fails)
<1>1. /\ g \in FwT
      /\ g.rdr = f.rdr /\ g.filter = f.filter /\ g.nat = f.nat /\ g.list = f.list
      /\ g.next_uid = f.next_uid
      /\ g.cache.rdr = f.cache.rdr /\ g.cache.filter \in {Nft!Invalid, FreshFilter(f.filter)}
  BY RefreshFilterFacts DEF CacheOk
<1> HIDE DEF g
<1>2. CacheOk(g)
  BY <1>1 DEF CacheOk
<1>3. QED BY <1>1, <1>2 DEF g

LEMMA NftDeletePinhole ==
  ASSUME NEW f \in FwT, CacheOk(f), NEW uid, NEW fails
  PROVE  LET g == Nft!delete_pinhole(f, uid, fails).fw IN PinholeStepOk(f, g) /\ CacheOk(g)
<1> DEFINE h == Nft!refresh_nft_cache_filter(f, fails)
           i == Nft!PinholeIndex(h, uid)
           u == Nft!Unlink(h, i, "filter-" \in fails)
           g == Nft!delete_pinhole(f, uid, fails).fw
<1>1. /\ h \in FwT /\ CacheOk(h)
      /\ h.rdr = f.rdr /\ h.filter = f.filter /\ h.nat = f.nat /\ h.list = f.list
  BY RefreshedFilter
<1>2. g = IF i = 0 THEN h ELSE u
  BY DEF Nft!delete_pinhole, Nft!Answer
<1> HIDE DEF g, h
<1>3. CASE i = 0
  BY <1>1, <1>2, <1>3 DEF PinholeStepOk, g
<1>4. CASE i # 0
  <2>1. /\ Nft!Handle(h.filter, i) \in 1 .. Len(h.filter)
        /\ h.filter[Nft!Handle(h.filter, i)] \in PinRules
    BY <1>1, <1>4, NftPinholeIndex
  <2>2. ("filter-" \in fails) \in BOOLEAN
    OBVIOUS
  <2> HIDE DEF i
  <2>3. PinholeStepOk(h, u) /\ CacheOk(u)
    BY <1>1, <2>1, <2>2, NftUnlink
  <2> HIDE DEF u
  <2>4. QED BY <1>1, <1>2, <1>4, <2>3 DEF PinholeStepOk, g
<1>5. QED BY <1>3, <1>4

LEMMA NftUpdatePinhole ==
  ASSUME NEW f \in FwT, CacheOk(f), NEW uid, NEW ts \in Nat, NEW fails
  PROVE  LET g == Nft!update_pinhole(f, uid, ts, fails).fw IN PinholeStepOk(f, g) /\ CacheOk(g)
<1> DEFINE h == Nft!refresh_nft_cache_filter(f, fails)
           i == Nft!PinholeIndex(h, uid)
           rule == h.filter[Nft!Handle(h.filter, i)]
           u == Nft!Unlink(h, i, "filter-" \in fails)
           new == Nft!PinholeRule(Nft!ReadPinhole(rule), uid, ts)
           filter == Append(u.filter, new)
           v == Nft!SendFilter(u, filter, "filter+" \in fails)
           g == Nft!update_pinhole(f, uid, ts, fails).fw
<1>1. /\ h \in FwT /\ CacheOk(h)
      /\ h.rdr = f.rdr /\ h.filter = f.filter /\ h.nat = f.nat /\ h.list = f.list
  BY RefreshedFilter
<1>2. g = IF i = 0 THEN h ELSE IF "filter-" \in fails THEN u ELSE v
  BY DEF Nft!update_pinhole, Nft!Renew, Nft!Answer
<1> HIDE DEF g, h
<1>3. CASE i = 0
  BY <1>1, <1>2, <1>3 DEF PinholeStepOk, g
<1>4. CASE i # 0
  <2>1. Nft!Handle(h.filter, i) \in 1 .. Len(h.filter) /\ rule \in PinRules /\ rule.uid = uid
    BY <1>1, <1>4, NftPinholeIndex
  <2>2. ("filter-" \in fails) \in BOOLEAN /\ ("filter+" \in fails) \in BOOLEAN
    OBVIOUS
  <2> HIDE DEF i
  <2>3. PinholeStepOk(h, u) /\ CacheOk(u)
    BY <1>1, <2>1, <2>2, NftUnlink
  <2> HIDE DEF u, rule
  <2>4. new \in PinRules
    <3>1. /\ rule.proto \in Protos /\ rule.rhost \in Nat /\ rule.rport \in Ports
          /\ rule.iaddr \in V6 /\ rule.port \in Ports /\ uid \in 1 .. MaxUid - 1
      BY <2>1 DEF PinRules
    <3>2. new = [kind |-> "pinhole", proto |-> rule.proto, rhost |-> rule.rhost,
                 rport |-> rule.rport, iaddr |-> rule.iaddr, port |-> rule.port,
                 uid |-> uid, ts |-> ts]
      BY <2>1 DEF Nft!PinholeRule, Nft!PinholeOf, Nft!ReadPinhole, PinRules
    <3> HIDE DEF new
    <3>3. QED BY <3>1, <3>2 DEF PinRules
  <2> HIDE DEF new
  <2>5. u \in FwT /\ u.filter \in Seq(FilterRules)
    BY <2>3, FwFields DEF PinholeStepOk
  <2>6. filter \in Seq(FilterRules) /\ Passes(filter) = Passes(u.filter)
    BY <2>4, <2>5, PinAppend
  <2> HIDE DEF filter
  <2>7. /\ v \in FwT
        /\ v.filter = (IF "filter+" \in fails THEN u.filter ELSE filter)
        /\ v.rdr = u.rdr /\ v.nat = u.nat /\ v.list = u.list
        /\ v.next_uid = u.next_uid /\ v.cache.rdr = u.cache.rdr /\ v.cache.filter = Nft!Invalid
    BY <2>2, <2>5, <2>6, SendFilterFacts, ZenonT(40)
  <2> HIDE DEF v
  <2>8. CacheOk(v)
    BY <2>3, <2>7 DEF CacheOk
  <2>9. Passes(v.filter) = Passes(u.filter)
    BY <2>6, <2>7
  <2>10. PinholeStepOk(f, u) /\ PinholeStepOk(f, v)
    BY <1>1, <2>3, <2>7, <2>9 DEF PinholeStepOk
  <2>11. QED BY <1>2, <1>4, <2>3, <2>8, <2>10 DEF g
<1>5. QED BY <1>3, <1>4

LEMMA NftAddPinhole ==
  ASSUME NEW f \in FwT, CacheOk(f), NEW p \in Pinholes, NEW ts \in Nat, NEW fails
  PROVE  LET g == Nft!add_pinhole(f, p, ts, MaxUid, fails).fw IN PinholeStepOk(f, g) /\ CacheOk(g)
<1> DEFINE rule == PinholeRule(p, f.next_uid, ts)
           filter == Append(f.filter, rule)
           s == Nft!SendFilter(f, filter, "filter+" \in fails)
           next == NextUid(s.next_uid, MaxUid)
           t == [s EXCEPT !.next_uid = next]
           g == Nft!add_pinhole(f, p, ts, MaxUid, fails).fw
<1>1. g = IF "filter+" \in fails THEN s ELSE t
  BY DEF Nft!add_pinhole, Nft!Answer, Nft!PinholeRule, PinholeRule, Nft!NextUid, NextUid
<1>2. rule \in PinRules
  BY PinholeRuleType, FwFields
<1> HIDE DEF rule
<1>3. filter \in Seq(FilterRules) /\ Passes(filter) = Passes(f.filter)
  BY <1>2, PinAppend, FwFields
<1>4. ("filter+" \in fails) \in BOOLEAN
  OBVIOUS
<1> HIDE DEF filter
<1>5. /\ s \in FwT
      /\ s.filter = (IF "filter+" \in fails THEN f.filter ELSE filter)
      /\ s.rdr = f.rdr /\ s.nat = f.nat /\ s.list = f.list
      /\ s.next_uid = f.next_uid /\ s.cache.rdr = f.cache.rdr /\ s.cache.filter = Nft!Invalid
  BY <1>3, <1>4, SendFilterFacts
<1> HIDE DEF s
<1>6. next \in 1 .. MaxUid - 1
  BY <1>5, FwFields, NextUidType
<1> HIDE DEF next
<1>7. /\ t \in FwT /\ t.rdr = s.rdr /\ t.filter = s.filter /\ t.nat = s.nat /\ t.list = s.list
      /\ t.next_uid = next /\ t.cache = s.cache
  BY <1>5, <1>6, SetUid
<1> HIDE DEF t
<1>8. Passes(s.filter) = Passes(f.filter)
  BY <1>3, <1>5
<1>9. PinholeStepOk(f, s) /\ PinholeStepOk(f, t)
  BY <1>5, <1>7, <1>8 DEF PinholeStepOk
<1>10. CacheOk(s) /\ CacheOk(t)
  BY <1>5, <1>7 DEF CacheOk
<1>11. QED BY <1>1, <1>9, <1>10

(* what is left of a list of rules when expired pinholes go *)
LEMMA KeptRules ==
  ASSUME NEW s \in Seq(FilterRules), NEW K, \A e \in ToSet(s) : e \in PassRules => e \in K
  PROVE  Sublist(s, K) \in Seq(FilterRules) /\ Passes(Sublist(s, K)) = Passes(s)
<1>1. Sublist(s, K) \in Seq(FilterRules)
  BY SublistFacts
<1>2. QED BY <1>1, SublistTwice DEF Passes

LEMMA SublistElements ==
  ASSUME NEW S, NEW s \in Seq(S), NEW K
  PROVE  /\ Sublist(s, K) \in Seq(S) /\ DOMAIN Sublist(s, K) = 1 .. Len(Sublist(s, K))
         /\ \A j \in 1 .. Len(Sublist(s, K)) : Sublist(s, K)[j] \in S /\ Sublist(s, K)[j] \in K
<1> DEFINE t == Sublist(s, K)
<1>1. /\ t \in Seq(S)
      /\ \E h \in [1..Len(t) -> 1..Len(s)] :
           /\ \A j \in 1..Len(t) : t[j] = s[h[j]] /\ s[h[j]] \in K
           /\ \A j, k \in 1..Len(t) : j < k => h[j] < h[k]
  BY SublistFacts
<1> HIDE DEF t
<1>2. \A j \in 1 .. Len(t) : t[j] \in K
  BY <1>1
<1>3. DOMAIN t = 1 .. Len(t) /\ \A j \in 1 .. Len(t) : t[j] \in S
  BY <1>1, DomainIsLen
<1>4. QED BY <1>1, <1>2, <1>3 DEF t

LEMMA NftClean ==
  ASSUME NEW f \in FwT, CacheOk(f), NEW now, NEW fails
  PROVE  LET g == Nft!clean_pinhole_list(f, now, MaxUid, fails).fw IN PinholeStepOk(f, g) /\ CacheOk(g)
<1> DEFINE h == Nft!refresh_nft_cache_filter(f, fails)
           rules == h.cache.filter.rules
           T == {CachedFilter(e) : e \in FilterRules}
           old == {i \in DOMAIN rules : Nft!Expired(rules[i], now)}
           K == {e \in ToSet(h.filter) : ~(ReadsAsPinhole(e) /\ e.ts <= now)}
           A == {e \in ToSet(rules) : e.pinhole /\ ~Nft!Expired(e, now)}
           kept == Sublist(h.filter, K)
           alive == Sublist(rules, A)
           uids == [i \in DOMAIN alive |-> alive[i].uid]
           sent == IF old = {} THEN h ELSE Nft!SendFilter(h, kept, "filter-" \in fails)
           next == UidAfterClean(uids, sent.next_uid, MaxUid)
           g == Nft!clean_pinhole_list(f, now, MaxUid, fails).fw
<1>1. /\ h \in FwT /\ CacheOk(h)
      /\ h.rdr = f.rdr /\ h.filter = f.filter /\ h.nat = f.nat /\ h.list = f.list
  BY RefreshedFilter
<1>2. g = [sent EXCEPT !.next_uid = next]
  <2>1. /\ \A q, S : Nft!Sublist(q, S) = Sublist(q, S)
        /\ \A q : Nft!ToSet(q) = ToSet(q)
    BY DEF Nft!Sublist, Sublist, Nft!ToSet, ToSet
  <2>2. \A u : Nft!UidAfterClean(uids, u, MaxUid) = UidAfterClean(uids, u, MaxUid)
    BY DEF Nft!UidAfterClean, UidAfterClean, Nft!ToSet, ToSet
  <2>3. Nft!Clean(h, now, MaxUid, fails) =
          Nft!Answer([sent EXCEPT !.next_uid = Nft!UidAfterClean(uids, sent.next_uid, MaxUid)],
                     Nft!Cardinality(old))
    <3> DEFINE kept1 == Nft!Sublist(h.filter, {e \in Nft!ToSet(h.filter) :
                                                 ~(ReadsAsPinhole(e) /\ e.ts <= now)})
               alive1 == Nft!Sublist(rules, {e \in Nft!ToSet(rules) : e.pinhole /\ ~Nft!Expired(e, now)})
               sent1 == IF old = {} THEN h ELSE Nft!SendFilter(h, kept1, "filter-" \in fails)
    <3> HIDE DEF h
    <3>1. Nft!Clean(h, now, MaxUid, fails) =
            Nft!Answer([sent1 EXCEPT !.next_uid = Nft!UidAfterClean([i \in DOMAIN alive1 |-> alive1[i].uid],
                                                     sent1.next_uid, MaxUid)], Nft!Cardinality(old))
      BY DEF Nft!Clean, Nft!Kept, Nft!ReadsAsPinhole, ReadsAsPinhole
    <3>2. kept1 = kept /\ alive1 = alive
      BY <2>1
    <3> HIDE DEF kept, alive, kept1, alive1, rules
    <3>3. QED BY <3>1, <3>2
  <2>4. Nft!Clean(h, now, MaxUid, fails).fw = [sent EXCEPT !.next_uid = next]
    <3> HIDE DEF sent, uids, old
    <3>1. QED BY <2>2, <2>3 DEF Nft!Answer
  <2>5. QED BY <2>4 DEF Nft!clean_pinhole_list
<1> HIDE DEF g, h
<1>3. h.filter \in Seq(FilterRules) /\ DOMAIN h.filter = 1 .. Len(h.filter)
      /\ Len(h.filter) \in Nat /\ \A i \in 1 .. Len(h.filter) : h.filter[i] \in FilterRules
  BY <1>1, FwFields, DomainIsLen
<1>4. kept \in Seq(FilterRules) /\ Passes(kept) = Passes(h.filter)
  <2>1. \A e \in ToSet(h.filter) : e \in PassRules => e \in K
    <3>1. \A e \in ToSet(h.filter) : e \in PassRules => ~ReadsAsPinhole(e)
      BY DEF PassRules, ReadsAsPinhole
    <3>2. QED BY <3>1
  <2> HIDE DEF K
  <2>2. QED BY <1>3, <2>1, KeptRules
<1>5. rules \in Seq(T)
  <2>7. CASE h.cache.filter = Nft!Invalid
    <3>1. rules = <<>>
      BY <2>7 DEF Nft!Invalid
    <3>2. QED BY <3>1
  <2>8. SUFFICES ASSUME h.cache.filter = FreshFilter(h.filter) PROVE rules \in Seq(T)
    BY <1>1, <2>7 DEF CacheOk
  <2>1. /\ Len(rules) = Len(h.filter) /\ DOMAIN rules = 1 .. Len(h.filter)
        /\ \A i \in 1 .. Len(h.filter) : rules[i] = CachedFilter(h.filter[Len(h.filter) + 1 - i])
    BY <1>3, <2>8, FreshFilterFacts
  <2>2. \A i \in 1 .. Len(h.filter) : h.filter[Len(h.filter) + 1 - i] \in FilterRules
    BY <1>3
  <2>3. \A i \in 1 .. Len(h.filter) : rules[i] \in T
    BY <2>1, <2>2
  <2>4. rules = [i \in 1 .. Len(h.filter) |-> rules[i]]
    <3>1. PICK s : s = h.filter
      OBVIOUS
    <3>2. rules = Reverse([i \in DOMAIN s |-> CachedFilter(s[i])])
      BY <2>8, <3>1 DEF FreshFilter
    <3> HIDE DEF rules
    <3>3. QED BY <2>1, <3>2 DEF Reverse
  <2> DEFINE q == [i \in 1 .. Len(h.filter) |-> rules[i]]
  <2> HIDE DEF T, rules
  <2>5. q \in Seq(T)
    BY <1>3, <2>3
  <2>6. QED BY <2>4, <2>5
<1>6. uids \in Seq(1 .. MaxUid - 1)
  <2> HIDE DEF T, A, rules
  <2>1. /\ DOMAIN alive = 1 .. Len(alive) /\ alive \in Seq(T)
        /\ \A j \in 1 .. Len(alive) : alive[j] \in T /\ alive[j] \in A
    BY <1>5, SublistElements
  <2> HIDE DEF alive
  <2>2. Len(alive) \in Nat
    BY <2>1, DomainIsLen
  <2>3. ASSUME NEW j \in 1 .. Len(alive) PROVE alive[j].uid \in 1 .. MaxUid - 1
    <3>1. PICK e \in FilterRules : alive[j] = CachedFilter(e)
      BY <2>1 DEF T
    <3>2. alive[j].pinhole
      BY <2>1 DEF A
    <3>3. CachedFilter(e).uid = e.uid /\ CachedFilter(e).pinhole = ReadsAsPinhole(e)
      BY DEF CachedFilter
    <3>4. e \in PinRules
      BY <3>1, <3>2, <3>3, KindsApart
    <3>5. e.uid \in 1 .. MaxUid - 1
      BY <3>4 DEF PinRules
    <3>6. QED BY <3>1, <3>3, <3>5
  <2>4. QED BY <2>1, <2>2, <2>3
<1>7. ("filter-" \in fails) \in BOOLEAN
  OBVIOUS
<1> HIDE DEF kept, uids, old
<1>8. /\ sent \in FwT /\ sent.rdr = h.rdr /\ sent.nat = h.nat /\ sent.list = h.list
      /\ Passes(sent.filter) = Passes(h.filter) /\ CacheOk(sent)
  <2>1. CASE old = {}
    BY <1>1, <2>1
  <2>2. CASE old # {}
    <3> DEFINE v == Nft!SendFilter(h, kept, "filter-" \in fails)
    <3>1. /\ v \in FwT
          /\ v.filter = (IF "filter-" \in fails THEN h.filter ELSE kept)
          /\ v.rdr = h.rdr /\ v.nat = h.nat /\ v.list = h.list
          /\ v.next_uid = h.next_uid /\ v.cache.rdr = h.cache.rdr /\ v.cache.filter = Nft!Invalid
      BY <1>1, <1>4, <1>7, SendFilterFacts
    <3>2. sent = v
      BY <2>2
    <3> HIDE DEF v
    <3>3. CacheOk(v)
      BY <1>1, <3>1 DEF CacheOk
    <3>4. Passes(v.filter) = Passes(h.filter)
      BY <1>4, <3>1
    <3>5. QED BY <3>1, <3>2, <3>3, <3>4
  <2>3. QED BY <2>1, <2>2
<1> HIDE DEF sent
<1>9. next \in 1 .. MaxUid - 1
  BY <1>6, <1>8, FwFields, UidAfterCleanType
<1> HIDE DEF next
<1> DEFINE t == [sent EXCEPT !.next_uid = next]
<1>10. /\ t \in FwT /\ t.rdr = sent.rdr /\ t.filter = sent.filter /\ t.nat = sent.nat /\ t.list = sent.list
       /\ t.next_uid = next /\ t.cache = sent.cache
  BY <1>8, <1>9, SetUid
<1> HIDE DEF t
<1>11. CacheOk(t)
  BY <1>8, <1>10 DEF CacheOk
<1>12. PinholeStepOk(f, t)
  BY <1>1, <1>8, <1>10 DEF PinholeStepOk
<1>13. QED BY <1>2, <1>11, <1>12 DEF t, g
=============================================================================
