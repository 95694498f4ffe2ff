--------------------------- MODULE BackendsProofs ---------------------------
(***************************************************************************)
(* Theorems about the firewall backends of Backends, for every set of      *)
(* external endpoints, mappings, pinholes and failing requests, and any    *)
(* number of failures and restarts.                                        *)
(***************************************************************************)
EXTENDS NftRdrProofs

-----------------------------------------------------------------------------
(* pf: the requests it is made of *)

NatRule(m) == [key |-> m.key, rhost |-> m.rhost, iaddr |-> m.iaddr, iport |-> m.iport]

(* the redirection of a key and its entry are gone *)
PfGone(f, g, key) ==
  /\ g \in FwT /\ key \in KeysOf(f.rdr)
  /\ g.rdr = RemoveAt(f.rdr, KeyIndex(f.rdr, key)) /\ g.list = ListRemove(f.list, key)
  /\ g.filter = f.filter /\ g.nat = f.nat /\ g.next_uid = f.next_uid

(* a pass rule of X is gone *)
PfUnpass(f, g, X) ==
  /\ g \in FwT /\ g.rdr = f.rdr /\ g.list = f.list /\ g.nat = f.nat /\ g.next_uid = f.next_uid
  /\ \E j \in 1 .. Len(f.filter) : f.filter[j] \in X /\ g.filter = RemoveAt(f.filter, j)

(* the redirection of m is there, and its entry if it expires *)
PfPut(f, g, m, fails) ==
  /\ g \in FwT /\ g.filter = f.filter /\ g.next_uid = f.next_uid
  /\ g.rdr = Append(f.rdr, RdrRule(m, m.desc))
  /\ g.list = IF m.ts > 0 THEN ListAdd(f.list, m.key, "none", m.ts) ELSE f.list
  /\ g.nat = IF Proto(m.key) = "udp" /\ "nat+" \notin fails THEN Append(f.nat, NatRule(m)) ELSE f.nat

(* the pass rule of m is there *)
PfPass(f, g, m) ==
  /\ g \in FwT /\ g.rdr = f.rdr /\ g.list = f.list /\ g.nat = f.nat /\ g.next_uid = f.next_uid
  /\ g.filter = Append(f.filter, PassRule(m, m.iport))

LEMMA PfSame ==
  /\ \A s, key : Pf!KeyIndex(s, key) = KeyIndex(s, key)
  /\ \A s, key : Pf!ListRemove(s, key) = ListRemove(s, key)
  /\ \A s, key, desc, ts : Pf!ListAdd(s, key, desc, ts) = ListAdd(s, key, desc, ts)
  /\ \A s, i : Pf!RemoveAt(s, i) = RemoveAt(s, i)
  /\ \A s, key : Pf!ListTs(s, key) = ListTs(s, key)
  /\ \A g, r : Pf!Answer(g, r) = [fw |-> g, r |-> r]
  /\ Pf!NoRow = NoRow
<1>1. \A s, key : Pf!KeyIndex(s, key) = KeyIndex(s, key)
  BY DEF Pf!KeyIndex, KeyIndex, Pf!SelectInSeq, SelectInSeq, Pf!Min, Min
<1>2. \A s, key : Pf!ListRemove(s, key) = ListRemove(s, key)
  BY DEF Pf!ListRemove, ListRemove, Pf!RemoveFirstMatch, RemoveFirstMatch, Pf!RemoveAt, RemoveAt,
     Pf!SelectInSeq, SelectInSeq, Pf!Min, Min
<1>3. \A s, key, desc, ts : Pf!ListAdd(s, key, desc, ts) = ListAdd(s, key, desc, ts)
  BY DEF Pf!ListAdd, ListAdd, Pf!Cons, Cons
<1>4. \A s, i : Pf!RemoveAt(s, i) = RemoveAt(s, i)
  BY DEF Pf!RemoveAt, RemoveAt
<1>5. \A s, key : Pf!ListTs(s, key) = ListTs(s, key)
  BY <1>1 DEF Pf!ListTs, ListTs
<1>6. QED BY <1>1, <1>2, <1>3, <1>4, <1>5 DEF Pf!Answer, Pf!NoRow, NoRow

LEMMA PfDeleteRdr ==
  ASSUME NEW f \in FwT, NEW key \in Keys, NEW same, NEW fails
  PROVE  LET d == Pf!priv_delete_redirect_rule_check_desc(f, key, same, fails)
             e == f.rdr[KeyIndex(f.rdr, key)]
         IN \/ "rdr?" \in fails /\ d.r = -1 /\ d.fw = f
            \/ key \notin KeysOf(f.rdr) /\ d.r = -2 /\ d.fw = f
            \/ /\ key \in KeysOf(f.rdr)
               /\ \/ e.desc \in same /\ d.r = 1 /\ d.fw = f
                  \/ e.desc \notin same /\ "rdr-" \in fails /\ d.r = -1 /\ d.fw = f
                  \/ e.desc \notin same /\ "rdr-" \notin fails /\ d.r = 0 /\ PfGone(f, d.fw, key)
<1> DEFINE d == Pf!priv_delete_redirect_rule_check_desc(f, key, same, fails)
           i == KeyIndex(f.rdr, key)
           rdr == RemoveAt(f.rdr, i)
           list == ListRemove(f.list, key)
           g == [f EXCEPT !.rdr = rdr, !.list = list]
<1>1. f.rdr \in Seq(RdrRules) /\ f.list \in Seq(Entries)
  BY FwFields
<1>2. i = 0 <=> key \notin KeysOf(f.rdr)
  BY <1>1, KeyIndexFacts
<1>3. i # 0 => i \in 1 .. Len(f.rdr)
  BY <1>1, KeyIndexFacts
<1>4. d = IF "rdr?" \in fails THEN [fw |-> f, r |-> -1]
          ELSE IF i = 0 THEN [fw |-> f, r |-> -2]
          ELSE IF f.rdr[i].desc \in same THEN [fw |-> f, r |-> 1]
          ELSE IF "rdr-" \in fails THEN [fw |-> f, r |-> -1]
          ELSE [fw |-> g, r |-> 0]
  BY PfSame DEF Pf!priv_delete_redirect_rule_check_desc, Pf!remove_timestamp_entry
<1>5. i # 0 => rdr \in Seq(RdrRules)
  <2> HIDE DEF i
  <2>1. QED BY <1>1, <1>3, RemoveKeyed
<1>6. list \in Seq(Entries)
  BY <1>1, ListRemoveFacts
<1> HIDE DEF d, list, rdr
<1>7. ASSUME i # 0
      PROVE  /\ g \in FwT /\ g.rdr = rdr /\ g.filter = f.filter /\ g.nat = f.nat /\ g.list = list
             /\ g.next_uid = f.next_uid /\ g.cache = f.cache
  <2>1. rdr \in Seq(RdrRules)
    BY <1>5, <1>7
  <2> HIDE DEF i
  <2>2. QED BY <1>6, <2>1 DEF FwT
<1> HIDE DEF g
<1>8. i # 0 => PfGone(f, g, key)
  BY <1>2, <1>7 DEF PfGone, rdr, list
<1> HIDE DEF i
<1>9. CASE "rdr?" \in fails
  BY <1>4, <1>9 DEF d
<1>11. CASE "rdr?" \notin fails /\ i = 0
  BY <1>2, <1>4, <1>11 DEF d
<1>10. CASE "rdr?" \notin fails /\ i # 0
  <2>1. CASE f.rdr[i].desc \in same
    <3>1. d.r = 1 /\ d.fw = f
      BY <1>4, <1>10, <2>1
    <3>2. QED BY <1>2, <1>10, <2>1, <3>1 DEF d, i
  <2>2. CASE f.rdr[i].desc \notin same /\ "rdr-" \in fails
    <3>1. d.r = -1 /\ d.fw = f
      BY <1>4, <1>10, <2>2
    <3>2. QED BY <1>2, <1>10, <2>2, <3>1 DEF d, i
  <2>3. CASE f.rdr[i].desc \notin same /\ "rdr-" \notin fails
    <3>1. d.r = 0 /\ d.fw = g
      BY <1>4, <1>10, <2>3
    <3>2. QED BY <1>2, <1>8, <1>10, <2>3, <3>1 DEF d, i
  <2>4. QED BY <2>1, <2>2, <2>3
<1>12. QED BY <1>9, <1>10, <1>11

LEMMA PfDeleteFilter ==
  ASSUME NEW f \in FwT, NEW e \in RdrRules, NEW fails
  PROVE  LET d == Pf!priv_delete_filter_rule(f, Proto(e.key), e.iaddr, e.iport, fails)
             X == PassesOf(e)
         IN \/ X \cap ToSet(f.filter) = {} /\ d.r = -2 /\ d.fw = f
            \/ fails # {} /\ d.r = -1 /\ d.fw = f
            \/ d.r = 0 /\ PfUnpass(f, d.fw, X)
<1> DEFINE d == Pf!priv_delete_filter_rule(f, Proto(e.key), e.iaddr, e.iport, fails)
           X == PassesOf(e)
           n == Len(f.filter)
           J == {j \in 1 .. n : f.filter[j].proto = Proto(e.key) /\ f.filter[j].port = e.iport
                   /\ f.filter[j].iaddr = e.iaddr}
           i == IF J # {} THEN Min(J) ELSE 0
           filter == RemoveAt(f.filter, i)
           g == [f EXCEPT !.filter = filter]
<1>1. f.filter \in Seq(FilterRules)
  BY FwFields
<1>2. n \in Nat /\ DOMAIN f.filter = 1 .. n /\ \A j \in 1 .. n : f.filter[j] \in FilterRules
  BY <1>1, DomainIsLen
<1>3. ASSUME NEW p \in FilterRules
      PROVE  (p.proto = Proto(e.key) /\ p.port = e.iport /\ p.iaddr = e.iaddr) <=> p \in X
  <2>1. e.iaddr \in V4 /\ e.iaddr \notin V6
    BY AddrFacts DEF RdrRules
  <2>2. p.iaddr = e.iaddr => p.kind = "pass"
    <3>1. p \in PinRules => p.iaddr \in V6
      BY DEF PinRules
    <3>2. QED BY <2>1, <3>1, KindsApart
  <2>3. QED BY <2>2, PassRuleType
<1> HIDE DEF X
<1>4. \A j \in 1 .. n : j \in J <=> f.filter[j] \in X
  BY <1>2, <1>3
<1>5. d = IF "filter?" \in fails THEN [fw |-> f, r |-> -1]
          ELSE IF i = 0 THEN [fw |-> f, r |-> -2]
          ELSE IF "filter-" \in fails THEN [fw |-> f, r |-> -1]
          ELSE [fw |-> g, r |-> 0]
  <2>1. Pf!FilterIndex(f, Proto(e.key), e.iaddr, e.iport) = i
    BY DEF Pf!FilterIndex, Pf!SelectInSeq, Pf!Min, Min
  <2> HIDE DEF i
  <2>2. QED BY <2>1, PfSame DEF Pf!priv_delete_filter_rule
<1>6. J \in SUBSET Nat /\ J \subseteq 1 .. n
  BY <1>2
<1>10. CASE "filter?" \in fails
  <2>1. d.r = -1 /\ d.fw = f /\ fails # {}
    BY <1>5, <1>10
  <2>2. QED BY <2>1 DEF d, X
<1>7. CASE "filter?" \notin fails /\ J = {}
  <2>1. d.r = -2 /\ d.fw = f
    BY <1>5, <1>7
  <2>2. X \cap ToSet(f.filter) = {}
    <3> HIDE DEF J
    <3>1. QED BY <1>2, <1>4, <1>7 DEF ToSet
  <2>3. QED BY <2>1, <2>2 DEF d, X
<1>8. CASE "filter?" \notin fails /\ J # {}
  <2>1. i \in J /\ i # 0
    <3>1. Min(J) \in J
      BY <1>6, <1>8, MinIsLeast
    <3>2. i = Min(J)
      BY <1>8
    <3> HIDE DEF i, J
    <3>3. QED BY <1>6, <3>1, <3>2
  <2> HIDE DEF i, J
  <2>2. i \in 1 .. n /\ f.filter[i] \in X
    BY <1>2, <1>4, <1>6, <2>1 DEF ToSet
  <2>3. filter \in Seq(FilterRules)
    BY <1>1, <2>2, RemoveKeyed
  <2> HIDE DEF filter
  <2>4. /\ g \in FwT /\ g.rdr = f.rdr /\ g.filter = filter /\ g.nat = f.nat /\ g.list = f.list
        /\ g.next_uid = f.next_uid /\ g.cache = f.cache
    BY <2>3, SetFilter
  <2> HIDE DEF g, d
  <2>5. PfUnpass(f, g, X)
    BY <2>2, <2>4 DEF PfUnpass, filter
  <2>6. CASE "filter-" \in fails
    <3>1. d.r = -1 /\ d.fw = f /\ fails # {}
      BY <1>5, <1>8, <2>1, <2>6
    <3>2. QED BY <2>2, <2>6, <3>1 DEF d, X
  <2>7. CASE "filter-" \notin fails
    <3>1. d.r = 0 /\ d.fw = g
      BY <1>5, <1>8, <2>1, <2>7
    <3>2. QED BY <2>5, <2>7, <3>1 DEF d, X
  <2>8. QED BY <2>6, <2>7
<1>9. QED BY <1>7, <1>8, <1>10

LEMMA PfAdd ==
  ASSUME NEW f \in FwT, NEW m \in Mappings, NEW fails
  PROVE  LET a == Pf!add_redirect_rule2(f, m, fails)
             p == Pf!add_filter_rule2(f, m, fails)
         IN /\ \/ "rdr+" \in fails /\ a.r = -1 /\ a.fw = f
               \/ "rdr+" \notin fails /\ a.r = 0 /\ PfPut(f, a.fw, m, fails)
            /\ \/ "filter+" \in fails /\ p.r = -1 /\ p.fw = f
               \/ "filter+" \notin fails /\ p.r = 0 /\ PfPass(f, p.fw, m)
<1> DEFINE a == Pf!add_redirect_rule2(f, m, fails)
           p == Pf!add_filter_rule2(f, m, fails)
           rdr == Append(f.rdr, RdrRule(m, m.desc))
           list == IF m.ts > 0 THEN ListAdd(f.list, m.key, "none", m.ts) ELSE f.list
           g == [f EXCEPT !.rdr = rdr, !.list = list]
           nat == Append(f.nat, NatRule(m))
           h == [g EXCEPT !.nat = nat]
           put == IF Proto(m.key) = "udp" /\ "nat+" \notin fails THEN h ELSE g
           filter == Append(f.filter, PassRule(m, m.iport))
           q == [f EXCEPT !.filter = filter]
<1>1. /\ f.rdr \in Seq(RdrRules) /\ f.list \in Seq(Entries) /\ f.nat \in Seq(NatRules)
      /\ f.filter \in Seq(FilterRules)
  BY FwFields
<1>2. rdr \in Seq(RdrRules)
  <2>1. RdrRule(m, m.desc) \in RdrRules
    BY MappingFacts
  <2>2. QED BY <1>1, <2>1, AppendKeyed
<1>3. list \in Seq(Entries)
  BY <1>1, MappingFacts, ListAddIs
<1>4. nat \in Seq(NatRules)
  <2>1. NatRule(m) \in NatRules
    BY DEF NatRule, NatRules, Mappings
  <2>2. QED BY <1>1, <2>1, AppendKeyed
<1>5. filter \in Seq(FilterRules)
  <2>1. PassRule(m, m.iport) \in PassRules
    BY MappingFacts
  <2>2. QED BY <1>1, <2>1, PassAppend
<1>6. /\ Pf!RdrRule(m, m.desc) = RdrRule(m, m.desc) /\ Pf!PassRule(m, m.iport) = PassRule(m, m.iport)
      /\ Pf!Proto(m.key) = Proto(m.key)
  BY DEF Pf!RdrRule, RdrRule, Pf!PassRule, PassRule, Pf!Proto, Proto
<1>7. /\ g \in FwT /\ g.rdr = rdr /\ g.filter = f.filter /\ g.nat = f.nat /\ g.list = list
      /\ g.next_uid = f.next_uid /\ g.cache = f.cache
  <2> HIDE DEF rdr, list
  <2>1. QED BY <1>2, <1>3 DEF FwT
<1>8. a = IF "rdr+" \in fails THEN [fw |-> f, r |-> -1] ELSE [fw |-> put, r |-> 0]
  <2>1. g = [f EXCEPT !.rdr = Append(f.rdr, Pf!RdrRule(m, m.desc)),
                      !.list = IF m.ts > 0 THEN Pf!add_timestamp_entry(f.list, m.key, m.ts) ELSE f.list]
    BY <1>6, PfSame DEF Pf!add_timestamp_entry
  <2> DEFINE x == IF Pf!Proto(m.key) = "udp" THEN Pf!add_nat_rule(g, m, fails) ELSE g
  <2>2. x = put
    <3> HIDE DEF g
    <3>1. nat = Append(g.nat, Pf!NatRule(m))
      BY <1>7 DEF NatRule, Pf!NatRule
    <3> HIDE DEF nat
    <3>2. Pf!add_nat_rule(g, m, fails) = IF "nat+" \in fails THEN g ELSE h
      BY <3>1 DEF Pf!add_nat_rule
    <3>3. QED BY <1>6, <3>2
  <2> HIDE DEF g, put
  <2>3. a = IF "rdr+" \in fails THEN Pf!Answer(f, -1) ELSE Pf!Answer(x, 0)
    BY <2>1 DEF Pf!add_redirect_rule2
  <2>4. QED BY <2>2, <2>3, PfSame
<1> HIDE DEF g, rdr, list, nat
<1>9. /\ h \in FwT /\ h.rdr = g.rdr /\ h.filter = g.filter /\ h.nat = nat /\ h.list = g.list
      /\ h.next_uid = g.next_uid /\ h.cache = g.cache
  BY <1>4, <1>7, SetNat
<1> HIDE DEF h
<1>10. PfPut(f, put, m, fails)
  <2>1. CASE Proto(m.key) = "udp" /\ "nat+" \notin fails
    BY <1>7, <1>9, <2>1 DEF PfPut, rdr, list, nat
  <2>2. CASE ~(Proto(m.key) = "udp" /\ "nat+" \notin fails)
    BY <1>7, <2>2 DEF PfPut, rdr, list
  <2>3. QED BY <2>1, <2>2
<1> HIDE DEF put, a
<1>11. \/ "rdr+" \in fails /\ a.r = -1 /\ a.fw = f
       \/ "rdr+" \notin fails /\ a.r = 0 /\ PfPut(f, a.fw, m, fails)
  BY <1>8, <1>10
<1>12. p = IF "filter+" \in fails THEN [fw |-> f, r |-> -1] ELSE [fw |-> q, r |-> 0]
  BY <1>6, PfSame DEF Pf!add_filter_rule2
<1> HIDE DEF filter, p
<1>13. /\ q \in FwT /\ q.rdr = f.rdr /\ q.filter = filter /\ q.nat = f.nat /\ q.list = f.list
       /\ q.next_uid = f.next_uid /\ q.cache = f.cache
  BY <1>5, SetFilter
<1> HIDE DEF q
<1>14. PfPass(f, q, m)
  BY <1>13 DEF PfPass, filter
<1>15. \/ "filter+" \in fails /\ p.r = -1 /\ p.fw = f
       \/ "filter+" \notin fails /\ p.r = 0 /\ PfPass(f, p.fw, m)
  BY <1>12, <1>14
<1>16. QED BY <1>11, <1>15 DEF a, p

-----------------------------------------------------------------------------
(* What a request may do to the row of its key (RdrTable) *)

WithTs(row, ts) == [row EXCEPT !.ts = ts]

SameMapping(literal, old, want) ==
  /\ old.iaddr = want.iaddr /\ old.rhost = want.rhost
  /\ literal => want.rhost # 0

RedirectRow(quiet, literal, old, new, want, r) ==
  LET stayed == IF quiet THEN {WithTs(old, want.ts)} ELSE {} IN
  \/ r = 0 /\ (old = NoRow \/ SameMapping(literal, old, want)) /\ new \in {want} \cup stayed
  \/ r = -1 /\ new \in {old, NoRow, want} \cup stayed
  \/ r = -2 /\ old # NoRow /\ ~SameMapping(literal, old, want) /\ new = old

DeleteRow(quiet, old, new, r) ==
  new \in IF r # 0 THEN {old, NoRow} ELSE IF quiet THEN {old, NoRow} ELSE {NoRow}

(* the rules and entries of other keys stay *)
Keeps(f, g, key) ==
  \A k : k # key => First(g.rdr, k) = First(f.rdr, k) /\ First(g.list, k) = First(f.list, k)

(* pf and ipfw: one rule for a key, and no entry without a rule *)
ListGood(f) ==
  UniqueKeys(f.rdr) /\ UniqueKeys(f.list) /\ KeysOf(f.list) \subseteq KeysOf(f.rdr)

Rows == [rhost : Nat, iaddr : Nat, iport : Ports, desc : Descs, ts : Nat]

LEMMA RowFacts ==
  ASSUME NEW b, NEW f \in FwT, NEW key
  PROVE  LET row == RowAt(b, f, key)
             e == f.rdr[KeyIndex(f.rdr, key)]
         IN /\ key \notin KeysOf(f.rdr) => row = NoRow
            /\ key \in KeysOf(f.rdr) =>
                 /\ row # NoRow /\ row.rhost = e.rhost /\ row.iaddr = e.iaddr /\ row.iport = e.iport
                 /\ b \in {"pf", "nft"} => row.desc = e.desc
                 /\ e \in RdrRules /\ e \in ToSet(f.rdr) /\ e.key = key
            /\ row \in Rows
            /\ row.ts = ListTs(f.list, key)  \/ key \notin KeysOf(f.rdr)
<1> DEFINE R == First(f.rdr, key)
           L == First(f.list, key)
           i == KeyIndex(f.rdr, key)
           j == KeyIndex(f.list, key)
           row == RowAt(b, f, key)
<1>1. f.rdr \in Seq(RdrRules) /\ f.list \in Seq(Entries)
  BY FwFields
<1>2. /\ i \in 0 .. Len(f.rdr) /\ (i = 0 <=> key \notin KeysOf(f.rdr))
      /\ i # 0 => f.rdr[i].key = key /\ i \in 1 .. Len(f.rdr)
  BY <1>1, KeyIndexFacts
<1>3. j # 0 => j \in 1 .. Len(f.list)
  BY <1>1, KeyIndexFacts
<1>4. R = (IF i = 0 THEN {} ELSE {f.rdr[i]}) /\ L = (IF j = 0 THEN {} ELSE {f.list[j]})
  BY DEF First
<1>5. ListTs(f.list, key) = IF j = 0 THEN 0 ELSE f.list[j].ts
  BY DEF ListTs
<1>6. row = RowIn(b, R, L)
  BY DEF RowAt
<1>7. NoRow \in Rows /\ NoRow.iaddr = 0
  BY PortZero, NoneIsDesc DEF NoRow, Rows
<1> HIDE DEF R, L, i, j, row
<1>8. CASE i = 0
  <2>1. row = NoRow
    <3>1. R = {}
      BY <1>4, <1>8
    <3>2. QED BY ONLY <1>6, <3>1, RowNone
  <2>2. QED BY <1>2, <1>7, <1>8, <2>1 DEF row
<1>9. CASE i # 0
  <2> DEFINE e == f.rdr[i]
             ts == ListTs(f.list, key)
             desc == IF b \in {"pf", "nft"} THEN e.desc ELSE IF j = 0 THEN "none" ELSE f.list[j].desc
  <2>1. e \in RdrRules /\ e \in ToSet(f.rdr)
    BY <1>1, <1>2, <1>9, DomainIsLen DEF ToSet
  <2>2. row = [rhost |-> e.rhost, iaddr |-> e.iaddr, iport |-> e.iport, desc |-> desc, ts |-> ts]
    <3>1. CASE j = 0
      <4> HIDE DEF e
      <4>1. R = {e} /\ L = {}
        BY <1>4, <1>9, <3>1 DEF e
      <4>2. RowIn(b, {e}, {}) = [rhost |-> e.rhost, iaddr |-> e.iaddr, iport |-> e.iport,
              desc |-> IF b \in {"pf", "nft"} THEN e.desc ELSE "none", ts |-> 0]
        BY ONLY RowAlone
      <4>3. QED BY <1>5, <1>6, <3>1, <4>1, <4>2
    <3>2. CASE j # 0
      <4> DEFINE d == f.list[j]
      <4>1. R = {e} /\ L = {d}
        BY <1>4, <1>9, <3>2
      <4> HIDE DEF e, d
      <4>2. RowIn(b, {e}, {d}) = [rhost |-> e.rhost, iaddr |-> e.iaddr, iport |-> e.iport,
              desc |-> IF b \in {"pf", "nft"} THEN e.desc ELSE d.desc, ts |-> d.ts]
        BY ONLY RowBoth
      <4>3. QED BY <1>5, <1>6, <3>2, <4>1, <4>2 DEF d
    <3>3. QED BY <3>1, <3>2
  <2>3. j # 0 => f.list[j] \in Entries
    BY <1>1, <1>3, DomainIsLen
  <2>4. desc \in Descs /\ ts \in Nat
    <3>1. e.desc \in Descs /\ "none" \in Descs
      BY <2>1, NoneIsDesc DEF RdrRules
    <3>2. j # 0 => f.list[j].desc \in Descs /\ f.list[j].ts \in Nat
      BY <2>3 DEF Entries
    <3> HIDE DEF e
    <3>3. QED BY <1>5, <3>1, <3>2
  <2>5. e.rhost \in Nat /\ e.iaddr \in Nat /\ e.iaddr # 0 /\ e.iport \in Ports
    BY <2>1, AddrFacts DEF RdrRules
  <2>6. b \in {"pf", "nft"} => desc = e.desc
    OBVIOUS
  <2> HIDE DEF e, ts, desc
  <2>7. row \in Rows
    BY <2>2, <2>4, <2>5 DEF Rows
  <2>8. row.rhost = e.rhost /\ row.iaddr = e.iaddr /\ row.iport = e.iport /\ row.ts = ts /\ row.desc = desc
    BY <2>2
  <2>9. row # NoRow
    BY <1>7, <2>5, <2>8
  <2>10. QED BY <1>2, <1>9, <2>1, <2>6, <2>7, <2>8, <2>9 DEF row, e, i, ts
<1>10. QED BY <1>8, <1>9

(* the row of a rule that was just added, with its entry and without one *)
LEMMA WantFields ==
  ASSUME NEW w \in PlainWants
  PROVE  w = [rhost |-> w.rhost, iaddr |-> w.iaddr, iport |-> w.iport, desc |-> w.desc, ts |-> w.ts]
<1>1. w \in [rhost : Nat, iaddr : V4, iport : Ports, desc : Descs, ts : Nat]
  BY WantType
<1>2. QED BY <1>1

LEMMA RowAdded ==
  ASSUME NEW b, NEW f, NEW key, NEW w \in PlainWants, NEW e, NEW d,
         First(f.rdr, key) = {e}, First(f.list, key) = {d},
         e.rhost = w.rhost, e.iaddr = w.iaddr, e.iport = w.iport, d.ts = w.ts,
         (IF b \in {"pf", "nft"} THEN e.desc ELSE d.desc) = w.desc
  PROVE  RowAt(b, f, key) = w
<1>1. RowAt(b, f, key) = RowIn(b, {e}, {d})
  BY DEF RowAt
<1>2. RowIn(b, {e}, {d}) = [rhost |-> e.rhost, iaddr |-> e.iaddr, iport |-> e.iport,
        desc |-> IF b \in {"pf", "nft"} THEN e.desc ELSE d.desc, ts |-> d.ts]
  BY ONLY RowBoth
<1>3. QED BY <1>1, <1>2, WantFields

LEMMA RowForever ==
  ASSUME NEW b \in {"pf", "nft"}, NEW f, NEW key, NEW w \in PlainWants, NEW e,
         First(f.rdr, key) = {e}, First(f.list, key) = {},
         e.rhost = w.rhost, e.iaddr = w.iaddr, e.iport = w.iport, w.ts = 0, e.desc = w.desc
  PROVE  RowAt(b, f, key) = w
<1>1. RowAt(b, f, key) = RowIn(b, {e}, {})
  BY DEF RowAt
<1>2. RowIn(b, {e}, {}) = [rhost |-> e.rhost, iaddr |-> e.iaddr, iport |-> e.iport,
        desc |-> IF b \in {"pf", "nft"} THEN e.desc ELSE "none", ts |-> 0]
  BY ONLY RowAlone
<1>3. QED BY <1>1, <1>2, WantFields

LEMMA PfGoneEffect ==
  ASSUME NEW f \in FwT, ListGood(f), NEW g, NEW key, PfGone(f, g, key)
  PROVE  /\ ListGood(g) /\ Keeps(f, g, key)
         /\ First(g.rdr, key) = {} /\ First(g.list, key) = {}
         /\ key \notin KeysOf(g.rdr)
<1>1. f.rdr \in Seq(RdrRules) /\ f.list \in Seq(Entries)
  BY FwFields
<1> DEFINE i == KeyIndex(f.rdr, key)
<1>2. i \in 1 .. Len(f.rdr) /\ f.rdr[i].key = key
  BY <1>1, KeyIndexFacts DEF PfGone
<1>3. g.rdr = RemoveAt(f.rdr, i) /\ g.list = ListRemove(f.list, key) /\ g \in FwT
  BY DEF PfGone
<1> HIDE DEF i
<1>4. /\ UniqueKeys(g.rdr) /\ KeysOf(g.rdr) = KeysOf(f.rdr) \ {key}
  BY <1>1, <1>2, <1>3, RemoveKeyed DEF ListGood
<1>5. UniqueKeys(g.list) /\ KeysOf(g.list) = KeysOf(f.list) \ {key}
  BY <1>1, <1>3, ListRemoveFacts DEF ListGood
<1>6. \A k : k # key => First(g.rdr, k) = First(f.rdr, k)
  BY <1>1, <1>2, <1>3, FirstRemove
<1>7. \A k : k # key => First(g.list, k) = First(f.list, k)
  BY <1>1, <1>3, ListRemoveFacts
<1>8. First(g.rdr, key) = {} /\ First(g.list, key) = {}
  <2>1. g.rdr \in Seq(RdrRules) /\ g.list \in Seq(Entries)
    BY <1>3, FwFields
  <2>2. QED BY <1>4, <1>5, <2>1, FirstFacts
<1>9. QED BY <1>4, <1>5, <1>6, <1>7, <1>8 DEF ListGood, Keeps

LEMMA PfPutEffect ==
  ASSUME NEW f \in FwT, ListGood(f), NEW g, NEW key \in Keys, NEW w \in PlainWants, NEW fails,
         key \notin KeysOf(f.rdr), PfPut(f, g, Mapping(key, w), fails)
  PROVE  ListGood(g) /\ Keeps(f, g, key) /\ RowAt("pf", g, key) = w
<1> DEFINE m == Mapping(key, w)
           e == RdrRule(m, m.desc)
           d == Entry(key, "none", w.ts)
<1>1. f.rdr \in Seq(RdrRules) /\ f.list \in Seq(Entries)
  BY FwFields
<1>2. m \in Mappings /\ m.key = key /\ m.ts = w.ts /\ m.rhost = w.rhost
      /\ m.iaddr = w.iaddr /\ m.iport = w.iport /\ m.desc = w.desc
  BY WantType DEF Mapping
<1> HIDE DEF m
<1>3. e \in RdrRules /\ e.key = key /\ e.rhost = w.rhost /\ e.iaddr = w.iaddr /\ e.iport = w.iport /\ e.desc = w.desc
  BY <1>2, MappingFacts
<1>4. /\ g \in FwT /\ g.rdr = Append(f.rdr, e)
      /\ g.list = IF w.ts > 0 THEN ListAdd(f.list, key, "none", w.ts) ELSE f.list
  BY <1>2 DEF PfPut, m
<1> HIDE DEF e
<1>5. UniqueKeys(g.rdr) /\ KeysOf(g.rdr) = KeysOf(f.rdr) \cup {key}
  BY <1>1, <1>3, <1>4, AppendKeyed DEF ListGood
<1>6. \A k : k # key => First(g.rdr, k) = First(f.rdr, k)
  BY <1>1, <1>3, <1>4, FirstAppend
<1>7. First(f.rdr, key) = {} /\ First(f.list, key) = {} /\ key \notin KeysOf(f.list)
  BY <1>1, FirstFacts DEF ListGood
<1>8. First(g.rdr, key) = {e}
  BY <1>1, <1>3, <1>4, <1>7, FirstAppend
<1>9. d \in Entries /\ d.key = key /\ d.ts = w.ts
  BY <1>2, MappingFacts DEF Entry
<1>10. CASE w.ts > 0
  <2>1. g.list = Cons(d, f.list)
    BY <1>1, <1>4, <1>9, <1>10, ListAddIs
  <2> HIDE DEF d
  <2>2. UniqueKeys(g.list) /\ KeysOf(g.list) = KeysOf(f.list) \cup {key}
    BY <1>1, <1>7, <1>9, <2>1, ConsKeyed DEF ListGood
  <2>3. \A k : First(g.list, k) = IF k = key THEN {d} ELSE First(f.list, k)
    <3>1. g.list = ListAdd(f.list, key, "none", w.ts) /\ Entry(key, "none", w.ts) \in Entries
      BY <1>4, <1>9, <1>10 DEF d
    <3>2. \A k : First(ListAdd(f.list, key, "none", w.ts), k) =
                   IF k = key THEN {Entry(key, "none", w.ts)} ELSE First(f.list, k)
      <4>1. f.list \in Seq(Entries) /\ Entry(key, "none", w.ts) \in Entries
        BY <1>1, <3>1
      <4>2. ASSUME NEW list \in Seq(Entries), NEW x, NEW y \in Entries, y = Entry(key, "none", x)
            PROVE  \A k : First(ListAdd(list, key, "none", x), k) = IF k = key THEN {y} ELSE First(list, k)
        BY ONLY <4>2, ListAddIs
      <4>3. QED BY ONLY <4>1, <4>2
    <3>3. QED BY <3>1, <3>2 DEF d
  <2>4. RowAt("pf", g, key) = w
    <3>1. First(g.list, key) = {d}
      BY <2>3
    <3>2. (IF "pf" \in {"pf", "nft"} THEN e.desc ELSE d.desc) = w.desc
      BY <1>3
    <3>3. QED BY <1>3, <1>8, <1>9, <3>1, <3>2, RowAdded
  <2>5. KeysOf(g.list) \subseteq KeysOf(g.rdr)
    BY <1>5, <2>2 DEF ListGood
  <2>6. QED BY <1>5, <1>6, <2>2, <2>3, <2>4, <2>5 DEF ListGood, Keeps
<1>11. CASE w.ts = 0
  <2>1. g.list = f.list
    BY <1>4, <1>11
  <2>2. RowAt("pf", g, key) = w
    <3>1. First(g.list, key) = {} /\ "pf" \in {"pf", "nft"}
      BY <1>7, <2>1
    <3>2. QED BY <1>3, <1>8, <1>11, <3>1, RowForever
  <2>3. QED BY <1>5, <1>6, <2>1, <2>2 DEF ListGood, Keeps
<1>12. w.ts \in Nat
  BY WantType
<1>13. QED BY <1>10, <1>11, <1>12

(* What a request on a mapping of pf or ipfw leaves as it was *)
Held(f, g, key) ==
  g \in FwT /\ ListGood(g) /\ Keeps(f, g, key) /\ Pins(g.filter) = Pins(f.filter)

LEMMA HeldSame ==
  ASSUME NEW f \in FwT, ListGood(f), NEW key
  PROVE  Held(f, f, key)
BY DEF Held, Keeps

LEMMA HeldThen ==
  ASSUME NEW f, NEW g, NEW h, NEW key, Held(f, g, key), Held(g, h, key)
  PROVE  Held(f, h, key)
BY DEF Held, Keeps

LEMMA PfGoneHeld ==
  ASSUME NEW f \in FwT, ListGood(f), NEW g, NEW key, PfGone(f, g, key)
  PROVE  /\ Held(f, g, key) /\ key \notin KeysOf(g.rdr)
         /\ \A b : RowAt(b, g, key) = NoRow
<1>1. /\ ListGood(g) /\ Keeps(f, g, key) /\ First(g.rdr, key) = {} /\ key \notin KeysOf(g.rdr)
  BY PfGoneEffect
<1>2. g \in FwT /\ g.filter = f.filter
  BY DEF PfGone
<1>3. \A b : RowAt(b, g, key) = NoRow
  BY ONLY <1>1, RowNone DEF RowAt
<1>4. QED BY <1>1, <1>2, <1>3 DEF Held

LEMMA PfPutHeld ==
  ASSUME NEW f \in FwT, ListGood(f), NEW g, NEW key \in Keys, NEW w \in PlainWants, NEW fails,
         key \notin KeysOf(f.rdr), PfPut(f, g, Mapping(key, w), fails)
  PROVE  Held(f, g, key) /\ RowAt("pf", g, key) = w
<1>1. ListGood(g) /\ Keeps(f, g, key) /\ RowAt("pf", g, key) = w
  BY PfPutEffect
<1>2. g \in FwT /\ g.filter = f.filter
  BY DEF PfPut
<1>3. QED BY <1>1, <1>2 DEF Held

LEMMA PfPassHeld ==
  ASSUME NEW f \in FwT, ListGood(f), NEW g, NEW m \in Mappings, NEW key, PfPass(f, g, m)
  PROVE  Held(f, g, key) /\ RowAt("pf", g, key) = RowAt("pf", f, key)
<1>1. /\ g \in FwT /\ g.rdr = f.rdr /\ g.list = f.list
      /\ g.filter = Append(f.filter, PassRule(m, m.iport))
  BY DEF PfPass
<1>2. f.filter \in Seq(FilterRules) /\ PassRule(m, m.iport) \in PassRules
  BY FwFields, MappingFacts
<1>3. Pins(g.filter) = Pins(f.filter)
  BY <1>1, <1>2, PassAppend
<1>4. QED BY <1>1, <1>3 DEF Held, Keeps, ListGood, RowAt

LEMMA PfUnpassHeld ==
  ASSUME NEW f \in FwT, ListGood(f), NEW g, NEW X \in SUBSET PassRules, NEW key, PfUnpass(f, g, X)
  PROVE  Held(f, g, key) /\ RowAt("pf", g, key) = RowAt("pf", f, key) /\ g.rdr = f.rdr
<1>1. /\ g \in FwT /\ g.rdr = f.rdr /\ g.list = f.list
      /\ \E j \in 1 .. Len(f.filter) : f.filter[j] \in X /\ g.filter = RemoveAt(f.filter, j)
  BY DEF PfUnpass
<1>2. PICK j \in 1 .. Len(f.filter) : f.filter[j] \in X /\ g.filter = RemoveAt(f.filter, j)
  BY <1>1
<1>3. f.filter \in Seq(FilterRules)
  BY FwFields
<1>4. Pins(g.filter) = Pins(f.filter)
  BY <1>2, <1>3, RuleRemove
<1>5. QED BY <1>1, <1>4 DEF Held, Keeps, ListGood, RowAt

(* a deletion that may be refused, then the two rules again *)
LEMMA PfReaddIs ==
  ASSUME NEW d, NEW e, NEW w, e.iaddr = w.iaddr, e.rhost = w.rhost, NEW fails
  PROVE  LET m == Mapping(e.key, w)
             u == Pf!priv_delete_filter_rule(d.fw, Proto(e.key), e.iaddr, e.iport, fails)
             a == Pf!add_redirect_rule2(u.fw, m, fails)
             p == Pf!add_filter_rule2(a.fw, m, fails)
         IN Pf!Readd(d, e, w.iport, w.desc, w.ts, fails) =
              IF d.r < 0 THEN [fw |-> d.fw, r |-> -1]
              ELSE IF u.r < 0 THEN [fw |-> u.fw, r |-> -1]
              ELSE IF a.r < 0 THEN [fw |-> a.fw, r |-> -1] ELSE p
<1> DEFINE m == Mapping(e.key, w)
<1>1. m = [key |-> e.key, rhost |-> e.rhost, iaddr |-> e.iaddr, iport |-> w.iport, desc |-> w.desc, ts |-> w.ts]
  BY DEF Mapping
<1> HIDE DEF m
<1>2. Pf!Proto(e.key) = Proto(e.key)
  BY DEF Pf!Proto, Proto
<1>3. QED BY <1>1, <1>2, PfSame DEF Pf!Readd, m

LEMMA PfReadd ==
  ASSUME NEW f \in FwT, ListGood(f), NEW key \in Keys, key \in KeysOf(f.rdr), NEW w \in PlainWants,
         SameHosts(f.rdr[KeyIndex(f.rdr, key)], w), NEW d, NEW fails,
         \/ d.r = -1 /\ d.fw = f
         \/ d.r = 0 /\ PfGone(f, d.fw, key)
  PROVE  LET a == Pf!Readd(d, f.rdr[KeyIndex(f.rdr, key)], w.iport, w.desc, w.ts, fails)
         IN /\ Held(f, a.fw, key)
            /\ \/ a.r = 0 /\ RowAt("pf", a.fw, key) = w
               \/ a.r = -1 /\ RowAt("pf", a.fw, key) \in {RowAt("pf", f, key), NoRow, w}
<1> DEFINE e == f.rdr[KeyIndex(f.rdr, key)]
           m == Mapping(key, w)
           u == Pf!priv_delete_filter_rule(d.fw, Proto(e.key), e.iaddr, e.iport, fails)
           a == Pf!add_redirect_rule2(u.fw, m, fails)
           p == Pf!add_filter_rule2(a.fw, m, fails)
           z == Pf!Readd(d, e, w.iport, w.desc, w.ts, fails)
<1>1. e \in RdrRules /\ e.key = key
  BY RowFacts
<1>2. e.iaddr = w.iaddr /\ e.rhost = w.rhost
  BY DEF SameHosts
<1> HIDE DEF e
<1>4. m \in Mappings
  BY WantType
<1>6. z = IF d.r < 0 THEN [fw |-> d.fw, r |-> -1]
          ELSE IF u.r < 0 THEN [fw |-> u.fw, r |-> -1]
          ELSE IF a.r < 0 THEN [fw |-> a.fw, r |-> -1] ELSE p
  BY <1>1, <1>2, PfReaddIs
<1> HIDE DEF m, z, p, a, u
<1>7. CASE d.r = -1 /\ d.fw = f
  <2>1. z.fw = f /\ z.r = -1
    BY <1>6, <1>7
  <2>2. Held(f, f, key)
    BY HeldSame
  <2>3. QED BY <2>1, <2>2 DEF z, e
<1>8. CASE d.r = 0 /\ PfGone(f, d.fw, key)
  <2>1. Held(f, d.fw, key) /\ key \notin KeysOf(d.fw.rdr) /\ RowAt("pf", d.fw, key) = NoRow
    BY <1>8, PfGoneHeld
  <2>2. d.fw \in FwT /\ ListGood(d.fw)
    BY <2>1 DEF Held
  <2> DEFINE X == PassesOf(e)
  <2>3. \/ u.r = -2 /\ u.fw = d.fw
        \/ u.r = -1 /\ u.fw = d.fw
        \/ u.r = 0 /\ PfUnpass(d.fw, u.fw, X)
    BY <1>1, <2>2, PfDeleteFilter DEF u
  <2>4. X \in SUBSET PassRules
    BY DEF PassesOf
  <2> HIDE DEF X
  <2>5. Held(f, u.fw, key) /\ RowAt("pf", u.fw, key) = NoRow /\ key \notin KeysOf(u.fw.rdr)
    <3>1. CASE u.fw = d.fw
      BY <2>1, <3>1
    <3>2. CASE PfUnpass(d.fw, u.fw, X)
      <4>1. Held(d.fw, u.fw, key) /\ RowAt("pf", u.fw, key) = RowAt("pf", d.fw, key) /\ u.fw.rdr = d.fw.rdr
        BY <2>2, <2>4, <3>2, PfUnpassHeld
      <4>2. QED BY <2>1, <4>1, HeldThen
    <3>3. QED BY <2>3, <3>1, <3>2
  <2>6. u.fw \in FwT /\ ListGood(u.fw)
    BY <2>5 DEF Held
  <2>7. CASE u.r < 0
    <3>1. z.fw = u.fw /\ z.r = -1
      BY <1>6, <1>8, <2>7
    <3>2. QED BY <2>5, <3>1 DEF z, e
  <2>8. CASE ~(u.r < 0)
    <3>1. \/ a.r = -1 /\ a.fw = u.fw
          \/ a.r = 0 /\ PfPut(u.fw, a.fw, m, fails)
      BY <1>4, <2>6, PfAdd DEF a
    <3>2. CASE a.r = -1 /\ a.fw = u.fw
      <4>1. z.fw = u.fw /\ z.r = -1
        BY <1>6, <1>8, <2>8, <3>2
      <4>2. QED BY <2>5, <4>1 DEF z, e
    <3>3. CASE a.r = 0 /\ PfPut(u.fw, a.fw, m, fails)
      <4>1. Held(u.fw, a.fw, key) /\ RowAt("pf", a.fw, key) = w
        BY <2>5, <2>6, <3>3, PfPutHeld DEF m
      <4>2. Held(f, a.fw, key) /\ a.fw \in FwT /\ ListGood(a.fw)
        BY <2>5, <4>1, HeldThen DEF Held
      <4>3. \/ p.r = -1 /\ p.fw = a.fw
            \/ p.r = 0 /\ PfPass(a.fw, p.fw, m)
        BY <1>4, <4>2, PfAdd DEF p
      <4>4. z = p
        BY <1>6, <1>8, <2>8, <3>3
      <4>5. CASE p.r = -1 /\ p.fw = a.fw
        BY <4>1, <4>2, <4>4, <4>5 DEF z, e
      <4>6. CASE p.r = 0 /\ PfPass(a.fw, p.fw, m)
        <5>1. Held(a.fw, p.fw, key) /\ RowAt("pf", p.fw, key) = RowAt("pf", a.fw, key)
          BY <1>4, <4>2, <4>6, PfPassHeld
        <5>2. Held(f, p.fw, key)
          BY <4>2, <5>1, HeldThen
        <5>3. QED BY <4>1, <4>4, <4>6, <5>1, <5>2 DEF z, e
      <4>7. QED BY <4>3, <4>5, <4>6
    <3>4. QED BY <3>1, <3>2, <3>3
  <2>9. QED BY <2>7, <2>8
<1>9. QED BY <1>7, <1>8

(* a new mapping; the redirection goes again when the pass rule is refused *)
LEMMA PfNewIs ==
  ASSUME backend = "pf", NEW f, NEW m, NEW fails
  PROVE  LET x == Pf!add_redirect_rule2(f, m, fails)
             p == Pf!add_filter_rule2(x.fw, m, fails)
             c == Pf!priv_delete_redirect_rule_check_desc(p.fw, m.key, {}, fails)
         IN AfterRdr(x, m, fails) =
              IF x.r < 0 THEN [fw |-> x.fw, r |-> -1]
              ELSE IF p.r < 0 THEN [fw |-> c.fw, r |-> -1] ELSE [fw |-> p.fw, r |-> 0]
<1> DEFINE x == Pf!add_redirect_rule2(f, m, fails)
           p == Pf!add_filter_rule2(x.fw, m, fails)
           c == Pf!priv_delete_redirect_rule_check_desc(p.fw, m.key, {}, fails)
<1> HIDE DEF x
<1>1. CleanUp(p.fw, m.key, fails) = c.fw /\ add_filter_rule2(x.fw, m, fails) = p
  BY DEF CleanUp, add_filter_rule2, Pf!delete_redirect_rule
<1> HIDE DEF p, c
<1>2. QED BY <1>1 DEF AfterRdr, AddFilter, Answer, x, p, c

LEMMA PfNew ==
  ASSUME backend = "pf", NEW f \in FwT, ListGood(f), NEW key \in Keys, key \notin KeysOf(f.rdr),
         NEW w \in PlainWants, NEW fails
  PROVE  LET a == AfterRdr(Pf!add_redirect_rule2(f, Mapping(key, w), fails), Mapping(key, w), fails)
         IN /\ Held(f, a.fw, key)
            /\ \/ a.r = 0 /\ RowAt("pf", a.fw, key) = w
               \/ a.r = -1 /\ RowAt("pf", a.fw, key) \in {NoRow, w}
<1> DEFINE m == Mapping(key, w)
           x == Pf!add_redirect_rule2(f, m, fails)
           p == Pf!add_filter_rule2(x.fw, m, fails)
           c == Pf!priv_delete_redirect_rule_check_desc(p.fw, key, {}, fails)
           a == AfterRdr(x, m, fails)
<1>1. m \in Mappings /\ m.key = key
  BY WantType DEF Mapping
<1>2. a = IF x.r < 0 THEN [fw |-> x.fw, r |-> -1]
          ELSE IF p.r < 0 THEN [fw |-> c.fw, r |-> -1] ELSE [fw |-> p.fw, r |-> 0]
  <2> HIDE DEF m
  <2>1. QED BY <1>1, PfNewIs
<1> HIDE DEF a
<1>3. RowAt("pf", f, key) = NoRow
  BY RowFacts
<1>4. \/ x.r = -1 /\ x.fw = f
      \/ x.r = 0 /\ PfPut(f, x.fw, m, fails)
  BY <1>1, PfAdd
<1>5. CASE x.r = -1 /\ x.fw = f
  <2>1. a.fw = f /\ a.r = -1
    BY <1>2, <1>5
  <2>2. Held(f, f, key)
    BY HeldSame
  <2>3. QED BY <1>3, <2>1, <2>2 DEF a
<1>6. CASE x.r = 0 /\ PfPut(f, x.fw, m, fails)
  <2> HIDE DEF x
  <2>1. Held(f, x.fw, key) /\ RowAt("pf", x.fw, key) = w
    BY <1>6, PfPutHeld
  <2>2. x.fw \in FwT /\ ListGood(x.fw) /\ ~(x.r < 0)
    BY <1>6, <2>1 DEF Held
  <2>3. \/ p.r = -1 /\ p.fw = x.fw
        \/ p.r = 0 /\ PfPass(x.fw, p.fw, m)
    BY <1>1, <2>2, PfAdd
  <2> HIDE DEF p, m
  <2>4. CASE p.r = -1 /\ p.fw = x.fw
    <3>1. a.fw = c.fw /\ a.r = -1
      BY <1>2, <2>2, <2>4
    <3>2. c.fw = x.fw \/ PfGone(x.fw, c.fw, key)
      BY <2>2, <2>4, PfDeleteRdr
    <3> HIDE DEF c
    <3>3. CASE c.fw = x.fw
      BY <2>1, <3>1, <3>3 DEF a, x, m
    <3>4. CASE PfGone(x.fw, c.fw, key)
      <4>1. Held(x.fw, c.fw, key) /\ RowAt("pf", c.fw, key) = NoRow
        BY <2>2, <3>4, PfGoneHeld
      <4>2. Held(f, c.fw, key)
        BY <2>1, <4>1, HeldThen
      <4>3. QED BY <3>1, <4>1, <4>2 DEF a, x, m
    <3>5. QED BY <3>2, <3>3, <3>4
  <2>5. CASE p.r = 0 /\ PfPass(x.fw, p.fw, m)
    <3>1. a.fw = p.fw /\ a.r = 0
      BY <1>2, <2>2, <2>5
    <3>2. Held(x.fw, p.fw, key) /\ RowAt("pf", p.fw, key) = RowAt("pf", x.fw, key)
      BY <1>1, <2>2, <2>5, PfPassHeld
    <3>3. Held(f, p.fw, key)
      BY <2>1, <3>2, HeldThen
    <3>4. QED BY <2>1, <3>1, <3>2, <3>3 DEF a, x, m
  <2>6. QED BY <2>3, <2>4, <2>5
<1>7. QED BY <1>4, <1>5, <1>6

(* a mapping that is renewed with the same description *)
LEMMA PfRenewed ==
  ASSUME NEW f \in FwT, ListGood(f), NEW key \in Keys, key \in KeysOf(f.rdr), NEW w \in PlainWants,
         NEW e, e = f.rdr[KeyIndex(f.rdr, key)],
         SameHosts(e, w), e.iport = w.iport, NEW b, NEW desc \in Descs,
         (IF b \in {"pf", "nft"} THEN e.desc ELSE desc) = w.desc,
         NEW g, g = [f EXCEPT !.list = ListAdd(ListRemove(f.list, key), key, desc, w.ts)]
  PROVE  Held(f, g, key) /\ RowAt(b, g, key) = w
<1> DEFINE s == ListRemove(f.list, key)
           d == Entry(key, desc, w.ts)
           list == ListAdd(s, key, desc, w.ts)
<1>1. f.rdr \in Seq(RdrRules) /\ f.list \in Seq(Entries)
  BY FwFields
<1>2. d \in Entries /\ d.key = key /\ d.ts = w.ts /\ d.desc = desc
  BY WantType DEF Entry, Entries
<1>3. /\ s \in Seq(Entries) /\ UniqueKeys(s) /\ KeysOf(s) = KeysOf(f.list) \ {key}
      /\ \A k : k # key => First(s, k) = First(f.list, k)
  BY <1>1, ListRemoveFacts DEF ListGood
<1> HIDE DEF s
<1>4. /\ list = Cons(d, s) /\ list \in Seq(Entries)
      /\ \A k : First(list, k) = IF k = key THEN {d} ELSE First(s, k)
  <2>1. ASSUME NEW ts, Entry(key, desc, ts) \in Entries
        PROVE  /\ ListAdd(s, key, desc, ts) = Cons(Entry(key, desc, ts), s)
               /\ ListAdd(s, key, desc, ts) \in Seq(Entries)
               /\ \A k : First(ListAdd(s, key, desc, ts), k) =
                           IF k = key THEN {Entry(key, desc, ts)} ELSE First(s, k)
    BY ONLY <1>3, <2>1, ListAddIs
  <2>2. QED BY ONLY <1>2, <2>1
<1> HIDE DEF d, list
<1>5. UniqueKeys(list) /\ KeysOf(list) = KeysOf(s) \cup {key}
  BY <1>2, <1>3, <1>4, ConsKeyed
<1>6. g = [f EXCEPT !.list = list]
  BY DEF list, s
<1>7. /\ g \in FwT /\ g.rdr = f.rdr /\ g.filter = f.filter /\ g.list = list
  <2>1. list \in Seq(Entries)
    BY <1>4
  <2>2. QED BY ONLY f \in FwT, <1>6, <2>1, SetList
<1>8. ListGood(g)
  BY <1>3, <1>5, <1>7 DEF ListGood
<1>9. Keeps(f, g, key)
  BY <1>3, <1>4, <1>7 DEF Keeps
<1>10. First(g.rdr, key) = {e} /\ First(g.list, key) = {d}
  <2>1. First(f.rdr, key) = {e}
    <3>1. KeyIndex(f.rdr, key) # 0
      BY <1>1, KeyIndexFacts
    <3>2. QED BY <3>1 DEF First
  <2>2. QED BY <1>4, <1>7, <2>1
<1>11. RowAt(b, g, key) = w
  <2>1. (IF b \in {"pf", "nft"} THEN e.desc ELSE d.desc) = w.desc
    BY <1>2
  <2>2. d.ts = w.ts
    BY <1>2
  <2>3. e.rhost = w.rhost /\ e.iaddr = w.iaddr
    BY DEF SameHosts
  <2>4. QED BY ONLY w \in PlainWants, e.iport = w.iport, <1>10, <2>1, <2>2, <2>3, RowAdded
<1>12. QED BY <1>7, <1>8, <1>9, <1>11 DEF Held

(* a deletion of a nat rule takes away nothing of another key *)
LEMMA PfUnnat ==
  ASSUME NEW f \in FwT, NEW e \in RdrRules, NEW fails
  PROVE  LET g == Pf!delete_nat_rule(f, e, fails)
         IN /\ g \in FwT /\ g.rdr = f.rdr /\ g.list = f.list /\ g.filter = f.filter
            /\ g.next_uid = f.next_uid
            /\ {n \in ToSet(f.nat) : n.key # e.key} \subseteq ToSet(g.nat)
<1> DEFINE g == Pf!delete_nat_rule(f, e, fails)
           n == Len(f.nat)
           T(x) == x.key = e.key /\ x.iaddr = e.iaddr /\ x.iport = e.iport
           J == {j \in 1 .. n : T(f.nat[j])}
           i == IF J # {} THEN Min(J) ELSE 0
           nat == RemoveAt(f.nat, i)
           h == [f EXCEPT !.nat = nat]
<1>1. f.nat \in Seq(NatRules)
  BY FwFields
<1>2. n \in Nat /\ DOMAIN f.nat = 1 .. n
  BY <1>1, DomainIsLen
<1>3. g = IF "nat-" \in fails THEN f
          ELSE IF J # {} THEN h ELSE [f EXCEPT !.nat = f.nat]
  <2>1. (\E j \in 1 .. Len(f.nat) : T(f.nat[j])) <=> J # {}
    OBVIOUS
  <2>2. Pf!SelectInSeq(f.nat, LAMBDA x : x.key = e.key /\ x.iaddr = e.iaddr /\ x.iport = e.iport) = i
    BY DEF Pf!SelectInSeq, Pf!Min, Min
  <2> HIDE DEF i
  <2>3. Pf!RemoveFirstMatch(f.nat, LAMBDA x : x.key = e.key /\ x.iaddr = e.iaddr /\ x.iport = e.iport)
          = IF J # {} THEN nat ELSE f.nat
    BY <2>1, <2>2, PfSame DEF Pf!RemoveFirstMatch
  <2> HIDE DEF J, nat
  <2>4. QED BY <2>3 DEF Pf!delete_nat_rule
<1> HIDE DEF g
<1>4. CASE "nat-" \in fails \/ J = {}
  <2>1. g = f
    <3>1. f = [f EXCEPT !.nat = f.nat]
      BY DEF FwT
    <3> HIDE DEF J
    <3>2. QED BY <1>3, <1>4, <3>1
  <2>2. QED BY <2>1 DEF g
<1>5. CASE "nat-" \notin fails /\ J # {}
  <2>1. J \in SUBSET Nat
    BY <1>2
  <2>2. Min(J) \in J /\ i = Min(J)
    BY <1>5, <2>1, MinIsLeast
  <2>3. i \in 1 .. n /\ f.nat[i].key = e.key
    BY <2>2
  <2>4. g = h
    <3> HIDE DEF J, h
    <3>1. QED BY <1>3, <1>5
  <2> HIDE DEF i, J
  <2>5. nat \in Seq(NatRules) /\ {x \in ToSet(f.nat) : x.key # e.key} \subseteq ToSet(nat)
    BY <1>1, <2>3, RemoveKeyed
  <2> HIDE DEF nat
  <2>6. /\ h \in FwT /\ h.rdr = f.rdr /\ h.filter = f.filter /\ h.nat = nat /\ h.list = f.list
        /\ h.next_uid = f.next_uid
    BY <2>5, SetNat
  <2>7. QED BY <2>4, <2>5, <2>6 DEF g
<1>6. QED BY <1>4, <1>5

LEMMA PfDeleteIs ==
  ASSUME NEW f, NEW key, NEW fails
  PROVE  LET e == f.rdr[KeyIndex(f.rdr, key)]
             d == Pf!priv_delete_redirect_rule_check_desc(f, key, {}, fails)
             n == IF Proto(key) = "udp" THEN Pf!delete_nat_rule(d.fw, e, fails) ELSE d.fw
             u == Pf!priv_delete_filter_rule(n, Proto(key), e.iaddr, e.iport, fails)
         IN Pf!delete_redirect_and_filter_rules(f, key, fails) = IF d.r # 0 THEN d ELSE u
<1> DEFINE d == Pf!priv_delete_redirect_rule_check_desc(f, key, {}, fails)
<1>1. Pf!Proto(key) = Proto(key) /\ Pf!delete_redirect_rule(f, key, fails) = d
  BY DEF Pf!Proto, Proto, Pf!delete_redirect_rule
<1> HIDE DEF d
<1>2. QED BY <1>1, PfSame DEF Pf!delete_redirect_and_filter_rules, d

LEMMA PfDelete ==
  ASSUME NEW f \in FwT, ListGood(f), NEW key \in Keys, NEW fails
  PROVE  LET a == Pf!delete_redirect_and_filter_rules(f, key, fails)
         IN /\ Held(f, a.fw, key)
            /\ DeleteRow(FALSE, RowAt("pf", f, key), RowAt("pf", a.fw, key), a.r)
<1> DEFINE e == f.rdr[KeyIndex(f.rdr, key)]
           d == Pf!priv_delete_redirect_rule_check_desc(f, key, {}, fails)
           n == IF Proto(key) = "udp" THEN Pf!delete_nat_rule(d.fw, e, fails) ELSE d.fw
           u == Pf!priv_delete_filter_rule(n, Proto(key), e.iaddr, e.iport, fails)
           a == Pf!delete_redirect_and_filter_rules(f, key, fails)
<1>1. a = IF d.r # 0 THEN d ELSE u
  BY PfDeleteIs
<1>2. \/ d.r # 0 /\ d.fw = f
      \/ d.r = 0 /\ key \in KeysOf(f.rdr) /\ PfGone(f, d.fw, key)
  <2>1. \/ d.r = -2 /\ d.fw = f
        \/ d.r = -1 /\ d.fw = f
        \/ d.r = 0 /\ key \in KeysOf(f.rdr) /\ PfGone(f, d.fw, key)
    BY PfDeleteRdr
  <2> HIDE DEF d
  <2>2. QED BY <2>1
<1> HIDE DEF d, a
<1>3. CASE d.r # 0 /\ d.fw = f
  <2>1. a.r # 0 /\ a.fw = f
    BY <1>1, <1>3
  <2>2. Held(f, f, key)
    BY HeldSame
  <2>3. QED BY <2>1, <2>2 DEF a, DeleteRow
<1>4. CASE d.r = 0 /\ key \in KeysOf(f.rdr) /\ PfGone(f, d.fw, key)
  <2>1. Held(f, d.fw, key) /\ RowAt("pf", d.fw, key) = NoRow
    BY <1>4, PfGoneHeld
  <2>2. d.fw \in FwT
    BY <2>1 DEF Held
  <2>3. e \in RdrRules /\ e.key = key
    BY <1>4, RowFacts
  <2> HIDE DEF e
  <2>4. /\ n \in FwT /\ n.rdr = d.fw.rdr /\ n.list = d.fw.list /\ n.filter = d.fw.filter
    BY <2>2, <2>3, PfUnnat
  <2> HIDE DEF n
  <2>5. Held(f, n, key) /\ RowAt("pf", n, key) = NoRow
    BY <2>1, <2>4 DEF Held, ListGood, Keeps, RowAt
  <2>6. u.fw = n \/ PfUnpass(n, u.fw, PassesOf(e))
    BY <2>3, <2>4, PfDeleteFilter
  <2> HIDE DEF u
  <2>7. PassesOf(e) \in SUBSET PassRules /\ ListGood(n)
    BY <2>5 DEF Held, PassesOf
  <2>8. Held(f, u.fw, key) /\ RowAt("pf", u.fw, key) = NoRow
    <3>1. CASE u.fw = n
      BY <2>5, <3>1
    <3>2. CASE PfUnpass(n, u.fw, PassesOf(e))
      <4>1. Held(n, u.fw, key) /\ RowAt("pf", u.fw, key) = RowAt("pf", n, key)
        BY <2>4, <2>7, <3>2, PfUnpassHeld
      <4>2. QED BY <2>5, <4>1, HeldThen
    <3>3. QED BY <2>6, <3>1, <3>2
  <2>9. a = u
    BY <1>1, <1>4
  <2>10. QED BY <2>8, <2>9 DEF a, DeleteRow
<1>5. QED BY <1>2, <1>3, <1>4

LEMMA PfRedirectIs ==
  ASSUME backend = "pf", NEW key, NEW w, NEW fails, "find" \notin fails
  PROVE  LET old == RowAt("pf", fw, key)
             m == Mapping(key, w)
             x == AfterRdr(Pf!add_redirect_rule2(fw, m, fails), m, fails)
             y == Pf!update_portmapping(fw, key, w.iport, w.desc, w.ts, fails)
             z == Pf!update_portmapping_desc_timestamp(fw, key, w.desc, w.ts, fails)
         IN upnp_redirect(key, w, fails) =
              IF old = NoRow THEN x ELSE IF ~SameHosts(old, w) THEN [fw |-> fw, r |-> -2]
              ELSE IF old.iport # w.iport THEN y ELSE z
<1> DEFINE old == RowAt("pf", fw, key)
           m == Mapping(key, w)
           a == upnp_redirect(key, w, fails)
           x == AfterRdr(Pf!add_redirect_rule2(fw, m, fails), m, fails)
           y == Pf!update_portmapping(fw, key, w.iport, w.desc, w.ts, fails)
           z == Pf!update_portmapping_desc_timestamp(fw, key, w.desc, w.ts, fails)
<1>1. get_redirect_rule(key, fails) = old
  <2>1. RowOf(key) = RowAt("pf", fw, key)
    BY RowIs
  <2>2. RowOf(key) = Pf!get_redirect_rule(fw, key, fails)
    BY PfSame DEF RowOf, Pf!get_redirect_rule, Pf!get_timestamp
  <2>3. QED BY <2>1, <2>2 DEF get_redirect_rule
<1>2. a = IF old = NoRow THEN x ELSE IF ~SameHosts(old, w) THEN [fw |-> fw, r |-> -2]
          ELSE IF old.iport # w.iport THEN y ELSE z
  <2> HIDE DEF old
  <2>1. m = [key |-> key, rhost |-> w.rhost, iaddr |-> w.iaddr, iport |-> w.iport, desc |-> w.desc, ts |-> w.ts]
    BY DEF Mapping
  <2> HIDE DEF m
  <2>2. upnp_redirect_internal(m, fails) = x
    BY DEF upnp_redirect_internal, add_redirect_rule2
  <2>3. update_portmapping(key, w, fails) = y
    BY DEF update_portmapping
  <2>4. update_portmapping_desc_timestamp(key, w, fails) = z
    BY DEF update_portmapping_desc_timestamp
  <2> HIDE DEF x, y, z
  <2>5. Answer(Searched(fails), -2) = [fw |-> fw, r |-> -2]
    BY DEF Searched, Answer
  <2>6. QED BY <1>1, <2>1, <2>2, <2>3, <2>4, <2>5 DEF upnp_redirect, SameHosts
<1>3. QED BY <1>2

LEMMA PfRedirect ==
  ASSUME backend = "pf", fw \in FwT, ListGood(fw), NEW key \in Keys, NEW w \in PlainWants,
         NEW fails, "find" \notin fails
  PROVE  LET a == upnp_redirect(key, w, fails)
         IN /\ Held(fw, a.fw, key)
            /\ RedirectRow(FALSE, FALSE, RowAt("pf", fw, key), RowAt("pf", a.fw, key), w, a.r)
<1> DEFINE old == RowAt("pf", fw, key)
           e == fw.rdr[KeyIndex(fw.rdr, key)]
           m == Mapping(key, w)
           a == upnp_redirect(key, w, fails)
           x == AfterRdr(Pf!add_redirect_rule2(fw, m, fails), m, fails)
           y == Pf!update_portmapping(fw, key, w.iport, w.desc, w.ts, fails)
           z == Pf!update_portmapping_desc_timestamp(fw, key, w.desc, w.ts, fails)
<1>2. a = IF old = NoRow THEN x ELSE IF ~SameHosts(old, w) THEN [fw |-> fw, r |-> -2]
          ELSE IF old.iport # w.iport THEN y ELSE z
  BY PfRedirectIs
<1> HIDE DEF a, x, y, z
<1>3. /\ key \notin KeysOf(fw.rdr) => old = NoRow
      /\ key \in KeysOf(fw.rdr) => /\ old # NoRow /\ old.rhost = e.rhost /\ old.iaddr = e.iaddr /\ old.iport = e.iport
                                   /\ e \in RdrRules
  BY RowFacts
<1>4. CASE key \notin KeysOf(fw.rdr)
  <2>1. a = x /\ old = NoRow
    BY <1>2, <1>3, <1>4
  <2>2. /\ Held(fw, x.fw, key)
        /\ \/ x.r = 0 /\ RowAt("pf", x.fw, key) = w
           \/ x.r = -1 /\ RowAt("pf", x.fw, key) \in {NoRow, w}
    BY <1>4, PfNew DEF x
  <2>3. QED BY <2>1, <2>2 DEF a, RedirectRow
<1>5. CASE key \in KeysOf(fw.rdr)
  <2>1. old # NoRow /\ old.rhost = e.rhost /\ old.iaddr = e.iaddr /\ old.iport = e.iport /\ e \in RdrRules
    BY <1>3, <1>5
  <2> HIDE DEF old
  <2>2. CASE ~SameHosts(old, w)
    <3>1. a.fw = fw /\ a.r = -2
      BY <1>2, <2>1, <2>2
    <3>2. Held(fw, fw, key)
      BY HeldSame
    <3>3. QED BY <2>1, <2>2, <3>1, <3>2 DEF a, old, RedirectRow, SameMapping, SameHosts
  <2>3. ASSUME NEW v, SameHosts(old, w), a = v, Held(fw, v.fw, key),
               \/ v.r = 0 /\ RowAt("pf", v.fw, key) = w
               \/ v.r = -1 /\ RowAt("pf", v.fw, key) \in {RowAt("pf", fw, key), NoRow, w}
        PROVE  /\ Held(fw, a.fw, key)
               /\ RedirectRow(FALSE, FALSE, RowAt("pf", fw, key), RowAt("pf", a.fw, key), w, a.r)
    BY <2>3 DEF old, RedirectRow, SameMapping, SameHosts
  <2>7. SameHosts(old, w) => SameHosts(e, w)
    BY <2>1 DEF SameHosts
  <2>4. CASE SameHosts(old, w) /\ old.iport # w.iport
    <3> DEFINE d == Pf!priv_delete_redirect_rule_check_desc(fw, key, {}, fails)
    <3>1. y = Pf!Readd(d, e, w.iport, w.desc, w.ts, fails)
      BY PfSame DEF y, Pf!update_portmapping, Pf!delete_redirect_rule
    <3>2. \/ d.r = -1 /\ d.fw = fw
          \/ d.r = 0 /\ PfGone(fw, d.fw, key)
      BY <1>5, PfDeleteRdr
    <3> HIDE DEF d
    <3>3. /\ Held(fw, y.fw, key)
          /\ \/ y.r = 0 /\ RowAt("pf", y.fw, key) = w
             \/ y.r = -1 /\ RowAt("pf", y.fw, key) \in {RowAt("pf", fw, key), NoRow, w}
      BY <1>5, <2>1, <2>4, <2>7, <3>1, <3>2, PfReadd, ZenonT(40)
    <3>4. a = y
      BY <1>2, <2>1, <2>4
    <3>5. QED BY <2>3, <2>4, <3>3, <3>4 DEF a
  <2>5. CASE SameHosts(old, w) /\ old.iport = w.iport
    <3> DEFINE d == Pf!priv_delete_redirect_rule_check_desc(fw, key, {w.desc}, fails)
               list == ListAdd(ListRemove(fw.list, key), key, "none", w.ts)
               g == [fw EXCEPT !.list = list]
    <3>1. z = IF d.r = 1 THEN [fw |-> g, r |-> 0] ELSE Pf!Readd(d, e, e.iport, w.desc, w.ts, fails)
      BY PfSame DEF z, Pf!update_portmapping_desc_timestamp, Pf!add_timestamp_entry,
                    Pf!remove_timestamp_entry
    <3>2. \/ e.desc = w.desc /\ d.r = 1
          \/ d.r = -1 /\ d.fw = fw
          \/ d.r = 0 /\ PfGone(fw, d.fw, key)
      BY <1>5, PfDeleteRdr
    <3> HIDE DEF d, g
    <3>3. a = z
      BY <1>2, <2>1, <2>5
    <3>4. CASE d.r = 1
      <4>1. e.desc = w.desc /\ z.fw = g /\ z.r = 0
        BY <3>1, <3>2, <3>4
      <4>2. Held(fw, g, key) /\ RowAt("pf", g, key) = w
        <5>1. "none" \in Descs
          BY NoneIsDesc
        <5>2. (IF "pf" \in {"pf", "nft"} THEN e.desc ELSE "none") = w.desc
          BY <4>1
        <5>3. SameHosts(e, w) /\ e.iport = w.iport
          BY <2>1, <2>5, <2>7
        <5>4. QED BY <1>5, <5>1, <5>2, <5>3, PfRenewed DEF g
      <4>3. QED BY <2>3, <2>5, <3>3, <4>1, <4>2 DEF a
    <3>5. CASE d.r # 1
      <4>1. z = Pf!Readd(d, e, w.iport, w.desc, w.ts, fails)
        BY <2>1, <2>5, <3>1, <3>5
      <4>2. /\ Held(fw, z.fw, key)
            /\ \/ z.r = 0 /\ RowAt("pf", z.fw, key) = w
               \/ z.r = -1 /\ RowAt("pf", z.fw, key) \in {RowAt("pf", fw, key), NoRow, w}
        BY <1>5, <2>1, <2>5, <2>7, <3>2, <3>5, <4>1, PfReadd, ZenonT(40)
      <4>3. QED BY <2>3, <2>5, <3>3, <4>2 DEF a
    <3>6. QED BY <3>4, <3>5
  <2>6. QED BY <2>2, <2>4, <2>5
<1>6. QED BY <1>4, <1>5

-----------------------------------------------------------------------------
(* pf: the pinholes *)

LEMMA PfAddPinhole ==
  ASSUME NEW f \in FwT, NEW p \in Pinholes, NEW ts \in Nat, NEW fails
  PROVE  PinholeStepOk(f, Pf!add_pinhole(f, p, ts, MaxUid, fails).fw)
<1> DEFINE rule == PinholeRule(p, f.next_uid, ts)
           filter == Append(f.filter, rule)
           next == NextUid(f.next_uid, MaxUid)
           t == [f EXCEPT !.filter = filter, !.next_uid = next]
           g == Pf!add_pinhole(f, p, ts, MaxUid, fails).fw
<1>1. g = IF "filter+" \in fails THEN f ELSE t
  BY DEF Pf!add_pinhole, Pf!Answer, Pf!PinholeRule, PinholeRule, Pf!NextUid, NextUid
<1>2. rule \in PinRules
  BY PinholeRuleType, FwFields
<1> HIDE DEF rule
<1>3. filter \in Seq(FilterRules) /\ Passes(filter) = Passes(f.filter)
  BY <1>2, PinAppend, FwFields
<1>4. next \in 1 .. MaxUid - 1
  BY FwFields, NextUidType
<1> HIDE DEF filter, next
<1>5. /\ t \in FwT /\ t.rdr = f.rdr /\ t.filter = filter /\ t.nat = f.nat /\ t.list = f.list
  BY <1>3, <1>4 DEF FwT
<1> HIDE DEF t
<1>6. PinholeStepOk(f, f) /\ PinholeStepOk(f, t)
  BY <1>3, <1>5 DEF PinholeStepOk
<1>7. QED BY <1>1, <1>6

LEMMA PfDeletePinhole ==
  ASSUME NEW f \in FwT, NEW uid, NEW fails
  PROVE  PinholeStepOk(f, Pf!delete_pinhole(f, uid, fails).fw)
<1> DEFINE n == Len(f.filter)
           J == {j \in 1 .. n : ReadsAsPinhole(f.filter[j]) /\ f.filter[j].uid = uid}
           i == IF J # {} THEN Min(J) ELSE 0
           filter == RemoveAt(f.filter, i)
           t == [f EXCEPT !.filter = filter]
           g == Pf!delete_pinhole(f, uid, fails).fw
<1>1. f.filter \in Seq(FilterRules)
  BY FwFields
<1>2. n \in Nat /\ \A j \in 1 .. n : f.filter[j] \in FilterRules
  BY <1>1, DomainIsLen
<1>3. g = IF "filter?" \in fails THEN f ELSE IF i = 0 THEN f ELSE IF "filter-" \in fails THEN f ELSE t
  <2>1. Pf!UidIndex(f, uid) = i
    BY DEF Pf!UidIndex, Pf!SelectInSeq, Pf!Min, Min, Pf!ReadsAsPinhole, ReadsAsPinhole
  <2> HIDE DEF i
  <2>2. QED BY <2>1, PfSame DEF Pf!delete_pinhole
<1>4. PinholeStepOk(f, f)
  BY DEF PinholeStepOk
<1>5. ASSUME J # {} PROVE PinholeStepOk(f, t)
  <2>1. J \in SUBSET Nat
    BY <1>2
  <2>2. Min(J) \in J /\ i = Min(J)
    BY <1>5, <2>1, MinIsLeast
  <2>3. i \in 1 .. n /\ ReadsAsPinhole(f.filter[i])
    BY <2>2
  <2> HIDE DEF i, J
  <2>4. f.filter[i] \in PinRules
    BY <1>2, <2>3, KindsApart
  <2>5. filter \in Seq(FilterRules) /\ Passes(filter) = Passes(f.filter)
    BY <1>1, <2>3, <2>4, RuleRemove
  <2> HIDE DEF filter
  <2>6. /\ t \in FwT /\ t.rdr = f.rdr /\ t.filter = filter /\ t.nat = f.nat /\ t.list = f.list
    BY <2>5, SetFilter
  <2> HIDE DEF t
  <2>7. QED BY <2>5, <2>6 DEF PinholeStepOk
<1>6. J = {} => i = 0
  OBVIOUS
<1> HIDE DEF g, i, J, t
<1>7. QED BY <1>3, <1>4, <1>5, <1>6 DEF g

LEMMA PfClean ==
  ASSUME NEW f \in FwT, NEW now, NEW fails
  PROVE  PinholeStepOk(f, Pf!clean_pinhole_list(f, now, MaxUid, fails).fw)
<1> DEFINE K == {e \in ToSet(f.filter) : ~Pf!Expired(e, now)}
           kept == Sublist(f.filter, K)
           A == {e \in ToSet(kept) : ReadsAsPinhole(e)}
           alive == Sublist(kept, A)
           pinholes == Reverse(alive)
           uids == [i \in DOMAIN pinholes |-> pinholes[i].uid]
           next == UidAfterClean(uids, f.next_uid, MaxUid)
           t == [f EXCEPT !.filter = kept, !.next_uid = next]
           g == Pf!clean_pinhole_list(f, now, MaxUid, fails).fw
<1>1. g \in {f, t}
  <2>1. /\ \A q, S : Pf!Sublist(q, S) = Sublist(q, S)
        /\ \A q : Pf!ToSet(q) = ToSet(q)
        /\ \A q : Pf!Reverse(q) = Reverse(q)
    BY DEF Pf!Sublist, Sublist, Pf!ToSet, ToSet, Pf!Reverse, Reverse
  <2>2. \A v, u : Pf!UidAfterClean(v, u, MaxUid) = UidAfterClean(v, u, MaxUid)
    BY DEF Pf!UidAfterClean, UidAfterClean, Pf!ToSet, ToSet
  <2> DEFINE kept1 == Pf!Sublist(f.filter, {e \in Pf!ToSet(f.filter) : ~Pf!Expired(e, now)})
             alive1 == Pf!Sublist(kept1, {e \in Pf!ToSet(kept1) : Pf!ReadsAsPinhole(e)})
             pinholes1 == Pf!Reverse(alive1)
             uids1 == [i \in DOMAIN pinholes1 |-> pinholes1[i].uid]
             t1 == [f EXCEPT !.filter = kept1, !.next_uid = Pf!UidAfterClean(uids1, f.next_uid, MaxUid)]
  <2>3. g \in {f, t1}
    BY PfSame DEF Pf!clean_pinhole_list, Pf!Kept
  <2>4. kept1 = kept
    BY <2>1
  <2> HIDE DEF kept1, kept
  <2>5. alive1 = alive
    BY <2>1, <2>4 DEF Pf!ReadsAsPinhole, ReadsAsPinhole
  <2> HIDE DEF alive1, alive
  <2>6. pinholes1 = pinholes
    BY <2>1, <2>5
  <2> HIDE DEF pinholes1, pinholes
  <2>7. t1 = t
    BY <2>2, <2>4, <2>6
  <2>8. QED BY <2>3, <2>7
<1> HIDE DEF g
<1>2. f.filter \in Seq(FilterRules)
  BY FwFields
<1>3. kept \in Seq(FilterRules) /\ Passes(kept) = Passes(f.filter)
  <2>1. \A e \in ToSet(f.filter) : e \in PassRules => e \in K
    <3>1. \A e \in ToSet(f.filter) : e \in PassRules => e.kind = "pass"
      BY DEF PassRules
    <3>2. QED BY <3>1 DEF Pf!Expired, Pf!ReadsAsPinhole
  <2> HIDE DEF K
  <2>2. QED BY <1>2, <2>1, KeptRules
<1> HIDE DEF kept
<1>4. uids \in Seq(1 .. MaxUid - 1)
  <2>1. /\ alive \in Seq(FilterRules)
        /\ \A j \in 1 .. Len(alive) : alive[j] \in FilterRules /\ alive[j] \in A
    <3> HIDE DEF A
    <3>1. QED BY <1>3, SublistElements
  <2>2. \A j \in 1 .. Len(alive) : ReadsAsPinhole(alive[j])
    BY <2>1
  <2> HIDE DEF A, alive
  <2>3. Len(alive) \in Nat
    BY <2>1, DomainIsLen
  <2>4. \A j \in 1 .. Len(alive) : alive[j].uid \in 1 .. MaxUid - 1
    <3>1. \A j \in 1 .. Len(alive) : alive[j] \in PinRules
      BY <2>1, <2>2, KindsApart
    <3>2. QED BY <3>1 DEF PinRules
  <2>5. /\ DOMAIN pinholes = 1 .. Len(alive)
        /\ \A i \in 1 .. Len(alive) : pinholes[i] = alive[Len(alive) + 1 - i]
    BY <2>1, ReverseFacts
  <2> HIDE DEF pinholes
  <2>6. ASSUME NEW i \in 1 .. Len(alive) PROVE pinholes[i].uid \in 1 .. MaxUid - 1
    <3>1. Len(alive) + 1 - i \in 1 .. Len(alive)
      BY <2>3
    <3>2. QED BY <2>4, <2>5, <3>1
  <2>7. QED BY <2>3, <2>5, <2>6
<1> HIDE DEF uids
<1>5. next \in 1 .. MaxUid - 1
  BY <1>4, FwFields, UidAfterCleanType
<1> HIDE DEF next
<1>6. /\ t \in FwT /\ t.rdr = f.rdr /\ t.filter = kept /\ t.nat = f.nat /\ t.list = f.list
  BY <1>3, <1>5 DEF FwT
<1> HIDE DEF t
<1>7. PinholeStepOk(f, f) /\ PinholeStepOk(f, t)
  BY <1>3, <1>6 DEF PinholeStepOk
<1>8. QED BY <1>1, <1>7 DEF g

-----------------------------------------------------------------------------
(* nftables: the mapping in force after a request.  A deletion that failed *)
(* unnoticed can leave several rules for a key, all for the same hosts.     *)

SameAddr(s) == \A x, y \in ToSet(s) : x.key = y.key => SameHosts(x, y)

NftHeld(f, g, key) ==
  SameAddr(g.rdr) /\ Keeps(f, g, key) /\ Pins(g.filter) = Pins(f.filter)

LEMMA RowRenewed ==
  ASSUME NEW f, NEW g, NEW key, NEW d,
         First(f.rdr, key) # {}, First(g.rdr, key) = First(f.rdr, key), First(g.list, key) = {d}
  PROVE  RowAt("nft", g, key) = WithTs(RowAt("nft", f, key), d.ts)
<1> DEFINE i == KeyIndex(f.rdr, key)
           j == KeyIndex(f.list, key)
           e == f.rdr[i]
           c == f.list[j]
<1>1. First(f.rdr, key) = {e}
  BY DEF First
<1>2. First(f.list, key) \in {{}, {c}}
  BY DEF First
<1> HIDE DEF e, c
<1>3. RowAt("nft", g, key) = RowIn("nft", {e}, {d})
  BY <1>1 DEF RowAt
<1>4. RowIn("nft", {e}, {d}) = [rhost |-> e.rhost, iaddr |-> e.iaddr, iport |-> e.iport,
        desc |-> IF "nft" \in {"pf", "nft"} THEN e.desc ELSE d.desc, ts |-> d.ts]
  BY ONLY RowBoth
<1>5. RowAt("nft", g, key) = [rhost |-> e.rhost, iaddr |-> e.iaddr, iport |-> e.iport, desc |-> e.desc, ts |-> d.ts]
  BY <1>3, <1>4
<1>6. \E ts : RowAt("nft", f, key) = [rhost |-> e.rhost, iaddr |-> e.iaddr, iport |-> e.iport, desc |-> e.desc, ts |-> ts]
  <2>1. CASE First(f.list, key) = {}
    <3>1. RowAt("nft", f, key) = RowIn("nft", {e}, {})
      BY <1>1, <2>1 DEF RowAt
    <3>2. RowIn("nft", {e}, {}) = [rhost |-> e.rhost, iaddr |-> e.iaddr, iport |-> e.iport,
            desc |-> IF "nft" \in {"pf", "nft"} THEN e.desc ELSE "none", ts |-> 0]
      BY ONLY RowAlone
    <3>3. QED BY <3>1, <3>2
  <2>2. CASE First(f.list, key) = {c}
    <3>1. RowAt("nft", f, key) = RowIn("nft", {e}, {c})
      BY <1>1, <2>2 DEF RowAt
    <3>2. RowIn("nft", {e}, {c}) = [rhost |-> e.rhost, iaddr |-> e.iaddr, iport |-> e.iport,
            desc |-> IF "nft" \in {"pf", "nft"} THEN e.desc ELSE c.desc, ts |-> c.ts]
      BY ONLY RowBoth
    <3>3. QED BY <3>1, <3>2
  <2>3. QED BY <1>2, <2>1, <2>2
<1>7. PICK ts : RowAt("nft", f, key) = [rhost |-> e.rhost, iaddr |-> e.iaddr, iport |-> e.iport, desc |-> e.desc, ts |-> ts]
  BY <1>6
<1>8. QED BY <1>5, <1>7 DEF WithTs

(* the row is that of the oldest rule, and every rule of a key has its host *)
LEMMA RowHost ==
  ASSUME NEW f \in FwT, SameAddr(f.rdr), NEW b, NEW x \in ToSet(f.rdr)
  PROVE  RowAt(b, f, x.key) # NoRow /\ SameHosts(RowAt(b, f, x.key), x)
<1> DEFINE e == f.rdr[KeyIndex(f.rdr, x.key)]
<1>1. x.key \in KeysOf(f.rdr)
  BY KeysOfSet
<1>2. /\ RowAt(b, f, x.key) # NoRow /\ SameHosts(RowAt(b, f, x.key), e)
      /\ e \in ToSet(f.rdr) /\ e.key = x.key
  BY <1>1, RowFacts DEF SameHosts
<1> HIDE DEF e
<1>3. QED BY <1>2 DEF SameAddr, SameHosts

LEMMA AddedEffect ==
  ASSUME NEW f \in FwT, NEW g \in FwT, NEW key \in Keys, NEW w \in PlainWants, NEW r, NEW fails,
         Added(f, g, Mapping(key, w), r, fails), SameAddr(f.rdr),
         \A x \in ToSet(f.rdr) : x.key = key => SameHosts(x, w)
  PROVE  /\ NftHeld(f, g, key)
         /\ \/ r = -1 /\ RowAt("nft", g, key) = RowAt("nft", f, key)
            \/ /\ r \in {0, -1}
               /\ RowAt("nft", g, key) = IF First(f.rdr, key) = {} THEN w
                                         ELSE WithTs(RowAt("nft", f, key), w.ts)
         /\ UniqueKeys(f.rdr) /\ key \notin KeysOf(f.rdr) => UniqueKeys(g.rdr)
         /\ UniqueKeys(f.rdr) /\ "rdr+" \in fails => UniqueKeys(g.rdr)
<1> DEFINE m == Mapping(key, w)
           e == RdrRule(m, m.desc)
           ts == w.ts
           d == Entry(key, "none", ts)
           list == ListAdd(f.list, key, "none", ts)
<1>1. f.rdr \in Seq(RdrRules) /\ f.list \in Seq(Entries) /\ f.filter \in Seq(FilterRules)
  BY FwFields
<1>2. m \in Mappings /\ m.key = key /\ m.ts = w.ts /\ m.rhost = w.rhost
      /\ m.iaddr = w.iaddr /\ m.iport = w.iport /\ m.desc = w.desc
  BY WantType DEF Mapping
<1> HIDE DEF m
<1>3. /\ e \in RdrRules /\ e.key = key /\ e.rhost = w.rhost /\ e.iaddr = w.iaddr /\ e.iport = w.iport /\ e.desc = w.desc
      /\ PassRule(m, m.iport) \in PassRules
  BY <1>2, MappingFacts
<1> HIDE DEF e
<1>4. CASE /\ "rdr+" \in fails /\ r = -1
           /\ g.rdr = f.rdr /\ g.list = f.list /\ g.filter = f.filter
  BY <1>4 DEF NftHeld, Keeps, RowAt
<1>5. CASE /\ "rdr+" \notin fails /\ g.rdr = Append(f.rdr, e)
           /\ g.list = list
           /\ r = IF "filter+" \in fails THEN -1 ELSE 0
           /\ g.filter = IF "filter+" \in fails THEN f.filter ELSE Append(f.filter, PassRule(m, m.iport))
  <2>1. ToSet(g.rdr) = ToSet(f.rdr) \cup {e}
    BY <1>1, <1>3, <1>5, AppendKeyed
  <2>2. SameAddr(g.rdr)
    BY <1>3, <2>1 DEF SameAddr, SameHosts
  <2>3. UniqueKeys(f.rdr) /\ key \notin KeysOf(f.rdr) => UniqueKeys(g.rdr)
    BY <1>1, <1>3, <1>5, AppendKeyed
  <2>4. \A k : First(g.rdr, k) = IF First(f.rdr, k) = {} /\ k = key THEN {e} ELSE First(f.rdr, k)
    <3>1. ASSUME NEW s \in Seq(RdrRules), NEW k
          PROVE  First(Append(s, e), k) = IF First(s, k) = {} /\ k = key THEN {e} ELSE First(s, k)
      <4>1. First(Append(s, e), k) = IF First(s, k) = {} /\ e.key = k THEN {e} ELSE First(s, k)
        BY <1>3, FirstAppend
      <4>2. QED BY <1>3, <4>1
    <3>2. QED BY <1>1, <1>5, <3>1
  <2>5. \A k : First(g.list, k) = IF k = key THEN {d} ELSE First(f.list, k)
    <3>1. d \in Entries
      BY <1>2, MappingFacts
    <3> HIDE DEF ts
    <3>2. ASSUME NEW s \in Seq(Entries)
          PROVE  \A k : First(ListAdd(s, key, "none", ts), k) = IF k = key THEN {d} ELSE First(s, k)
      BY <3>1, ListAddIs
    <3> HIDE DEF d
    <3>3. QED BY <1>1, <1>5, <3>2
  <2>6. d.ts = w.ts
    BY DEF Entry
  <2> HIDE DEF d, ts, list
  <2>7. Keeps(f, g, key)
    BY <2>4, <2>5 DEF Keeps
  <2>8. Pins(g.filter) = Pins(f.filter)
    BY <1>1, <1>3, <1>5, PassAppend
  <2>9. First(g.list, key) = {d}
    BY <2>5
  <2>10. CASE First(f.rdr, key) = {}
    <3>1. First(g.rdr, key) = {e}
      BY <2>4, <2>10
    <3>2. (IF "nft" \in {"pf", "nft"} THEN e.desc ELSE d.desc) = w.desc
      BY <1>3
    <3>3. e.rhost = w.rhost /\ e.iaddr = w.iaddr /\ e.iport = w.iport
      BY <1>3
    <3>4. RowAt("nft", g, key) = w
      BY ONLY w \in PlainWants, <2>6, <2>9, <3>1, <3>2, <3>3, RowAdded
    <3>5. QED BY <1>5, <2>2, <2>3, <2>7, <2>8, <2>10, <3>4 DEF NftHeld
  <2>11. CASE First(f.rdr, key) # {}
    <3>1. First(g.rdr, key) = First(f.rdr, key)
      BY <2>4, <2>11
    <3>2. RowAt("nft", g, key) = WithTs(RowAt("nft", f, key), w.ts)
      BY <2>6, <2>9, <2>11, <3>1, RowRenewed
    <3>3. QED BY <1>5, <2>2, <2>3, <2>7, <2>8, <2>11, <3>2 DEF NftHeld
  <2>12. QED BY <2>10, <2>11
<1>6. QED BY <1>2, <1>4, <1>5 DEF Added, e, m

LEMMA DropsPins ==
  ASSUME NEW s \in Seq(FilterRules), NEW t, NEW X \in SUBSET PassRules, NEW fails, Drops(s, t, X, fails)
  PROVE  Pins(t) = Pins(s)
<1>1. CASE t = s
  BY <1>1
<1>2. CASE \E j \in 1 .. Len(s) : s[j] \in X /\ t = RemoveAt(s, j)
  <2>1. PICK j \in 1 .. Len(s) : s[j] \in X /\ t = RemoveAt(s, j)
    BY <1>2
  <2>2. Pins(RemoveAt(s, j)) = Pins(s)
    BY <2>1, RuleRemove
  <2>3. QED BY <2>1, <2>2
<1>3. QED BY <1>1, <1>2 DEF Drops

LEMMA DeletedEffect ==
  ASSUME NEW f \in FwT, NEW h \in FwT, NEW key, NEW i \in 1 .. Len(f.rdr), NEW fails,
         Newest(f.rdr, key, i), Deleted(f, h, i, fails), SameAddr(f.rdr)
  PROVE  /\ NftHeld(f, h, key) /\ ToSet(h.rdr) \subseteq ToSet(f.rdr)
         /\ \/ First(h.rdr, key) = First(f.rdr, key) /\ RowAt("nft", h, key) = RowAt("nft", f, key)
            \/ First(h.rdr, key) = {} /\ RowAt("nft", h, key) = NoRow
         /\ UniqueKeys(f.rdr) => UniqueKeys(h.rdr)
         /\ UniqueKeys(f.rdr) /\ fails = {} => key \notin KeysOf(h.rdr)
<1> DEFINE X == PassesOf(f.rdr[i])
           t == RemoveAt(f.rdr, i)
<1>1. f.rdr \in Seq(RdrRules) /\ f.filter \in Seq(FilterRules)
  BY FwFields
<1>2. f.rdr[i] \in RdrRules /\ f.rdr[i].key = key
  BY <1>1, DomainIsLen DEF Newest
<1>3. X \in SUBSET PassRules
  BY DEF PassesOf
<1> HIDE DEF X
<1>4. Pins(h.filter) = Pins(f.filter)
  <2>1. Drops(f.filter, h.filter, X, fails)
    BY DEF Deleted, X
  <2>2. QED BY <1>1, <1>3, <2>1, DropsPins
<1>5. /\ h.list = f.list
      /\ h.rdr = t \/ (fails # {} /\ h.rdr = f.rdr)
  BY DEF Deleted
<1>6. /\ First(t, key) \in {First(f.rdr, key), {}}
      /\ \A k : k # key => First(t, k) = First(f.rdr, k)
  BY <1>1, FirstRemoveNewest
<1>7. /\ ToSet(t) \subseteq ToSet(f.rdr)
      /\ UniqueKeys(f.rdr) => UniqueKeys(t) /\ key \notin KeysOf(t)
  BY <1>1, <1>2, RemoveKeyed
<1> HIDE DEF t
<1>8. First(h.rdr, key) = {} => RowAt("nft", h, key) = NoRow
  BY RowNone DEF RowAt
<1>9. First(h.rdr, key) = First(f.rdr, key) => RowAt("nft", h, key) = RowAt("nft", f, key)
  BY <1>5 DEF RowAt
<1>10. CASE fails # {} /\ h.rdr = f.rdr
  <2>1. h.rdr = f.rdr
    BY <1>10
  <2>2. QED BY <1>4, <1>5, <1>9, <1>10, <2>1 DEF NftHeld, Keeps
<1>11. CASE h.rdr = t
  <2>1. h.rdr = t
    BY <1>11
  <2>2. SameAddr(h.rdr)
    BY <1>7, <2>1 DEF SameAddr
  <2>3. Keeps(f, h, key)
    BY <1>5, <1>6, <2>1 DEF Keeps
  <2>4. QED BY <1>4, <1>6, <1>7, <1>8, <1>9, <2>1, <2>2, <2>3 DEF NftHeld
<1>12. QED BY <1>5, <1>10, <1>11

LEMMA NftHeldThen ==
  ASSUME NEW f, NEW g, NEW h, NEW key, NftHeld(f, g, key), NftHeld(g, h, key)
  PROVE  NftHeld(f, h, key)
BY DEF NftHeld, Keeps

LEMMA NftRedirectRow ==
  ASSUME backend = "nft", fw \in FwT, CacheOk(fw), SameAddr(fw.rdr),
         NEW key \in Keys, NEW w \in PlainWants, NEW fails, "find" \notin fails
  PROVE  LET a == upnp_redirect(key, w, fails)
         IN /\ a.fw \in FwT /\ CacheOk(a.fw) /\ NftHeld(fw, a.fw, key)
            /\ RedirectRow(TRUE, FALSE, RowAt("nft", fw, key), RowAt("nft", a.fw, key), w, a.r)
            /\ UniqueKeys(fw.rdr) /\ fails = {} => UniqueKeys(a.fw.rdr)
<1> DEFINE a == upnp_redirect(key, w, fails)
           g == a.fw
           m == Mapping(key, w)
           old == RowAt("nft", fw, key)
           new == RowAt("nft", g, key)
           stayed == WithTs(old, w.ts)
<1>1. /\ g \in FwT /\ CacheOk(g)
      /\ \/ key \notin KeysOf(fw.rdr) /\ Added(fw, g, m, a.r, fails)
         \/ \E i \in 1 .. Len(fw.rdr) :
              /\ Newest(fw.rdr, key, i)
              /\ \/ /\ ~SameHosts(fw.rdr[i], w) /\ a.r = -2
                    /\ g.rdr = fw.rdr /\ g.list = fw.list /\ g.filter = fw.filter
                 \/ /\ SameHosts(fw.rdr[i], w) /\ fw.rdr[i].iport # w.iport
                    /\ \E h \in FwT : Deleted(fw, h, i, fails) /\ Added(h, g, m, a.r, fails)
                 \/ /\ SameHosts(fw.rdr[i], w) /\ fw.rdr[i].iport = w.iport /\ a.r = 0
                    /\ g.rdr = fw.rdr /\ g.filter = fw.filter
                    /\ g.list = ListAdd(ListRemove(fw.list, key), key, "none", w.ts)
  BY NftRedirect
<1> HIDE DEF a
<1>2. fw.rdr \in Seq(RdrRules) /\ fw.list \in Seq(Entries)
  BY FwFields
<1>3. CASE key \notin KeysOf(fw.rdr) /\ Added(fw, g, m, a.r, fails)
  <2>1. \A x \in ToSet(fw.rdr) : x.key # key
    BY <1>3, KeysOfSet
  <2>2. /\ NftHeld(fw, g, key)
        /\ \/ a.r = -1 /\ new = old
           \/ a.r \in {0, -1} /\ new = IF First(fw.rdr, key) = {} THEN w ELSE stayed
        /\ UniqueKeys(fw.rdr) => UniqueKeys(g.rdr)
    BY <1>1, <1>3, <2>1, AddedEffect
  <2>3. First(fw.rdr, key) = {} /\ old = NoRow
    BY <1>2, <1>3, FirstFacts, RowFacts
  <2>4. \/ a.r = -1 /\ new \in {old, NoRow, w} \cup {stayed}
        \/ a.r = 0 /\ new \in {w} \cup {stayed}
    BY <2>2, <2>3
  <2>5. QED BY <1>1, <2>2, <2>3, <2>4 DEF RedirectRow, a
<1>4. ASSUME NEW i \in 1 .. Len(fw.rdr), Newest(fw.rdr, key, i)
      PROVE  old # NoRow /\ SameHosts(old, fw.rdr[i]) /\ fw.rdr[i].key = key /\ fw.rdr[i] \in ToSet(fw.rdr)
  <2>1. fw.rdr[i].key = key /\ fw.rdr[i] \in ToSet(fw.rdr)
    BY <1>2, <1>4, DomainIsLen DEF Newest, ToSet
  <2>2. QED BY <2>1, RowHost
<1>5. ASSUME NEW i \in 1 .. Len(fw.rdr), Newest(fw.rdr, key, i), ~SameHosts(fw.rdr[i], w), a.r = -2,
             g.rdr = fw.rdr, g.list = fw.list, g.filter = fw.filter
      PROVE  /\ NftHeld(fw, g, key)
             /\ RedirectRow(TRUE, FALSE, old, new, w, a.r)
             /\ UniqueKeys(fw.rdr) => UniqueKeys(g.rdr)
  <2>1. NftHeld(fw, g, key) /\ new = old
    BY <1>5 DEF NftHeld, Keeps, RowAt
  <2>2. ~SameMapping(FALSE, old, w)
    BY <1>4, <1>5 DEF SameHosts, SameMapping
  <2>3. QED BY <1>4, <1>5, <2>1, <2>2 DEF RedirectRow
<1>6. ASSUME NEW i \in 1 .. Len(fw.rdr), Newest(fw.rdr, key, i), SameHosts(fw.rdr[i], w),
             NEW h \in FwT, Deleted(fw, h, i, fails), Added(h, g, m, a.r, fails)
      PROVE  /\ NftHeld(fw, g, key)
             /\ RedirectRow(TRUE, FALSE, old, new, w, a.r)
             /\ UniqueKeys(fw.rdr) /\ fails = {} => UniqueKeys(g.rdr)
  <2> DEFINE mid == RowAt("nft", h, key)
  <2>1. /\ NftHeld(fw, h, key) /\ ToSet(h.rdr) \subseteq ToSet(fw.rdr)
        /\ \/ First(h.rdr, key) = First(fw.rdr, key) /\ mid = old
           \/ First(h.rdr, key) = {} /\ mid = NoRow
        /\ UniqueKeys(fw.rdr) => UniqueKeys(h.rdr)
        /\ UniqueKeys(fw.rdr) /\ fails = {} => key \notin KeysOf(h.rdr)
    BY <1>6, DeletedEffect
  <2>2. old # NoRow /\ SameMapping(FALSE, old, w)
    BY <1>4, <1>6 DEF SameHosts, SameMapping
  <2>3. \A x \in ToSet(h.rdr) : x.key = key => SameHosts(x, w)
    BY <1>4, <1>6, <2>1 DEF SameAddr, SameHosts
  <2>4. SameAddr(h.rdr)
    BY <2>1 DEF NftHeld
  <2>5. /\ NftHeld(h, g, key)
        /\ \/ a.r = -1 /\ new = mid
           \/ a.r \in {0, -1} /\ new = IF First(h.rdr, key) = {} THEN w ELSE WithTs(mid, w.ts)
        /\ UniqueKeys(h.rdr) /\ key \notin KeysOf(h.rdr) => UniqueKeys(g.rdr)
    BY <1>1, <1>6, <2>3, <2>4, AddedEffect
  <2>6. NftHeld(fw, g, key)
    BY <2>1, <2>5, NftHeldThen
  <2> HIDE DEF old, new, mid, g
  <2>7. First(fw.rdr, key) # {}
    BY <1>2, <1>4, <1>6, FirstFacts, KeysOfSet
  <2>8. \/ a.r = -1 /\ new \in {old, NoRow, w} \cup {stayed}
        \/ a.r = 0 /\ new \in {w} \cup {stayed}
    <3>1. CASE First(h.rdr, key) = First(fw.rdr, key) /\ mid = old
      BY <2>5, <2>7, <3>1
    <3>2. CASE First(h.rdr, key) = {} /\ mid = NoRow
      BY <2>5, <3>2
    <3>3. QED BY <2>1, <3>1, <3>2
  <2>9. RedirectRow(TRUE, FALSE, old, new, w, a.r)
    <3> HIDE DEF stayed
    <3>1. QED BY <2>2, <2>8 DEF RedirectRow, stayed
  <2>10. QED BY <2>1, <2>5, <2>6, <2>9
<1>7. ASSUME NEW i \in 1 .. Len(fw.rdr), Newest(fw.rdr, key, i), SameHosts(fw.rdr[i], w), a.r = 0,
             g.rdr = fw.rdr, g.filter = fw.filter,
             g.list = ListAdd(ListRemove(fw.list, key), key, "none", w.ts)
      PROVE  /\ NftHeld(fw, g, key)
             /\ RedirectRow(TRUE, FALSE, old, new, w, a.r)
             /\ UniqueKeys(fw.rdr) => UniqueKeys(g.rdr)
  <2> DEFINE s == ListRemove(fw.list, key)
             ts == w.ts
             d == Entry(key, "none", ts)
  <2>1. s \in Seq(Entries) /\ \A k : k # key => First(s, k) = First(fw.list, k)
    BY <1>2, ListRemoveFacts
  <2>2. d \in Entries /\ d.ts = w.ts
    BY WantType, NoneIsDesc DEF Entry, Entries
  <2> HIDE DEF s, ts
  <2>3. \A k : First(ListAdd(s, key, "none", ts), k) = IF k = key THEN {d} ELSE First(s, k)
    BY <2>1, <2>2, ListAddIs
  <2> HIDE DEF d
  <2>4. \A k : First(g.list, k) = IF k = key THEN {d} ELSE First(s, k)
    BY <1>7, <2>3 DEF s, ts
  <2>5. Keeps(fw, g, key)
    BY <1>7, <2>1, <2>4 DEF Keeps
  <2>6. NftHeld(fw, g, key)
    BY <1>7, <2>5 DEF NftHeld
  <2>7. First(fw.rdr, key) # {}
    BY <1>2, <1>4, <1>7, FirstFacts, KeysOfSet, SMTT(30)
  <2>8. new = stayed
    <3>1. First(g.rdr, key) = First(fw.rdr, key) /\ First(g.list, key) = {d}
      BY <1>7, <2>4
    <3>2. First(g.rdr, key) = First(fw.rdr, key)
      BY <3>1
    <3>3. First(g.list, key) = {d}
      BY <3>1
    <3> HIDE DEF g
    <3>4. RowAt("nft", g, key) = WithTs(RowAt("nft", fw, key), d.ts)
      BY ONLY <2>7, <3>2, <3>3, RowRenewed
    <3>5. QED BY <2>2, <3>4
  <2>9. old # NoRow /\ SameMapping(FALSE, old, w)
    BY <1>4, <1>7 DEF SameHosts, SameMapping
  <2>10. QED BY <1>7, <2>2, <2>6, <2>8, <2>9 DEF RedirectRow
<1>8. QED BY <1>1, <1>3, <1>5, <1>6, <1>7 DEF a

LEMMA NftDeleteRow ==
  ASSUME NEW f \in FwT, CacheOk(f), SameAddr(f.rdr), NEW key, NEW fails
  PROVE  LET a == Nft!delete_redirect_and_filter_rules(f, key, fails)
         IN /\ a.fw \in FwT /\ CacheOk(a.fw) /\ NftHeld(f, a.fw, key)
            /\ DeleteRow(TRUE, RowAt("nft", f, key), RowAt("nft", a.fw, key), a.r)
            /\ UniqueKeys(f.rdr) => UniqueKeys(a.fw.rdr)
<1> DEFINE a == Nft!delete_redirect_and_filter_rules(f, key, fails)
           g == a.fw
<1>1. /\ a.r = 0 /\ g \in FwT /\ CacheOk(g) /\ g.list = f.list
      /\ key \notin KeysOf(f.rdr) => g.rdr = f.rdr /\ g.filter = f.filter
      /\ key \in KeysOf(f.rdr) =>
           \E i \in 1 .. Len(f.rdr) :
             /\ Newest(f.rdr, key, i)
             /\ g.rdr = RemoveAt(f.rdr, i) \/ (fails # {} /\ g.rdr = f.rdr)
             /\ Drops(f.filter, g.filter, PassesOf(f.rdr[i]), fails)
  BY NftDelete
<1> HIDE DEF a
<1>2. CASE key \notin KeysOf(f.rdr)
  <2>1. NftHeld(f, g, key) /\ RowAt("nft", g, key) = RowAt("nft", f, key) /\ g.rdr = f.rdr
    BY <1>1, <1>2 DEF NftHeld, Keeps, RowAt
  <2>2. QED BY <1>1, <2>1 DEF DeleteRow, a
<1>3. CASE key \in KeysOf(f.rdr)
  <2>1. PICK i \in 1 .. Len(f.rdr) : Newest(f.rdr, key, i) /\ Deleted(f, g, i, fails)
    BY <1>1, <1>3 DEF Deleted
  <2>2. /\ NftHeld(f, g, key) /\ (UniqueKeys(f.rdr) => UniqueKeys(g.rdr))
        /\ RowAt("nft", g, key) \in {RowAt("nft", f, key), NoRow}
    BY <1>1, <2>1, DeletedEffect
  <2>3. QED BY <1>1, <2>2 DEF DeleteRow, a
<1>4. QED BY <1>2, <1>3

-----------------------------------------------------------------------------
(* ipfw: the default rule at the end of the ruleset is left out, no other  *)

LEMMA IpfwSame ==
  /\ \A s, key : Ipfw!KeyIndex(s, key) = KeyIndex(s, key)
  /\ \A s, key : Ipfw!ListRemove(s, key) = ListRemove(s, key)
  /\ \A s, key, desc, ts : Ipfw!ListAdd(s, key, desc, ts) = ListAdd(s, key, desc, ts)
  /\ \A s, i : Ipfw!RemoveAt(s, i) = RemoveAt(s, i)
  /\ \A s, key : Ipfw!ListTs(s, key) = ListTs(s, key)
  /\ \A s, key : Ipfw!ListDesc(s, key) = ListDesc(s, key)
  /\ \A g, r : Ipfw!Answer(g, r) = [fw |-> g, r |-> r]
  /\ Ipfw!NoRow = NoRow
<1>1. \A s, key : Ipfw!KeyIndex(s, key) = KeyIndex(s, key)
  BY DEF Ipfw!KeyIndex, KeyIndex, Ipfw!SelectInSeq, SelectInSeq, Ipfw!Min, Min
<1>2. \A s, key : Ipfw!ListRemove(s, key) = ListRemove(s, key)
  BY DEF Ipfw!ListRemove, ListRemove, Ipfw!RemoveFirstMatch, RemoveFirstMatch, Ipfw!RemoveAt, RemoveAt,
     Ipfw!SelectInSeq, SelectInSeq, Ipfw!Min, Min
<1>3. \A s, key, desc, ts : Ipfw!ListAdd(s, key, desc, ts) = ListAdd(s, key, desc, ts)
  BY DEF Ipfw!ListAdd, ListAdd, Ipfw!Cons, Cons
<1>4. \A s, i : Ipfw!RemoveAt(s, i) = RemoveAt(s, i)
  BY DEF Ipfw!RemoveAt, RemoveAt
<1>5. \A s, key : Ipfw!ListTs(s, key) = ListTs(s, key)
  BY <1>1 DEF Ipfw!ListTs, ListTs
<1>6. \A s, key : Ipfw!ListDesc(s, key) = ListDesc(s, key)
  BY <1>1 DEF Ipfw!ListDesc, ListDesc
<1>7. QED BY <1>1, <1>2, <1>3, <1>4, <1>5, <1>6 DEF Ipfw!Answer, Ipfw!NoRow, NoRow

LEMMA AllButLast ==
  ASSUME NEW S, NEW s \in Seq(S), NEW x
  PROVE  SubSeq(Append(s, x), 1, Len(Append(s, x)) - 1) = s
<1> DEFINE T == S \cup {x}
           t == Append(s, x)
           q == SubSeq(t, 1, Len(t) - 1)
<1>1. Len(s) \in Nat /\ DOMAIN s = 1 .. Len(s) /\ \A i \in 1 .. Len(s) : s[i] \in S
  BY DomainIsLen
<1>2. s \in Seq(T) /\ x \in T
  BY <1>1, SeqDef
<1>3. /\ t \in Seq(T) /\ Len(t) = Len(s) + 1
      /\ \A i \in 1 .. Len(s) : t[i] = s[i]
  BY <1>2, AppendProperties
<1> HIDE DEF t
<1>4. \A i \in 1 .. Len(s) : t[i] \in S
  BY <1>1, <1>3
<1>5. Len(t) - 1 = Len(s)
  BY <1>1, <1>3
<1>6. /\ SubSeq(t, 1, Len(s)) \in Seq(S)
      /\ Len(SubSeq(t, 1, Len(s))) = IF 1 <= Len(s) THEN Len(s) - 1 + 1 ELSE 0
      /\ \A i \in 1 .. Len(s) - 1 + 1 : SubSeq(t, 1, Len(s))[i] = t[1 + i - 1]
  BY <1>1, <1>4, SubSeqProperties
<1>7. q \in Seq(S) /\ Len(q) = Len(s)
  BY <1>1, <1>5, <1>6
<1>8. ASSUME NEW i \in 1 .. Len(s) PROVE q[i] = s[i]
  <2>1. i \in 1 .. Len(s) - 1 + 1 /\ 1 + i - 1 = i
    BY <1>1
  <2>2. q[i] = t[i]
    BY <1>5, <1>6, <2>1
  <2>3. QED BY <1>3, <2>2
<1> HIDE DEF q
<1>9. q = s
  BY <1>1, <1>7, <1>8, SeqEqual
<1>10. QED BY <1>9 DEF q, t

LEMMA IpfwSearched ==
  ASSUME NEW f \in FwT
  PROVE  Ipfw!Searched(f) = f.rdr
<1>1. f.rdr \in Seq(RdrRules)
  BY FwFields
<1>2. SubSeq(Append(f.rdr, Ipfw!DefaultRule), 1, Len(Append(f.rdr, Ipfw!DefaultRule)) - 1) = f.rdr
  BY <1>1, AllButLast
<1>3. QED BY <1>2 DEF Ipfw!Searched, Ipfw!ipfw_fetch_ruleset

LEMMA IpfwDeleteRdr ==
  ASSUME NEW f \in FwT, NEW key, NEW fails
  PROVE  LET d == Ipfw!delete_redirect_rule(f, key, fails)
         IN \/ d.r = -1 /\ d.fw = f
            \/ d.r = 0 /\ PfGone(f, d.fw, key)
<1> DEFINE d == Ipfw!delete_redirect_rule(f, key, fails)
           i == KeyIndex(f.rdr, key)
           rdr == RemoveAt(f.rdr, i)
           list == ListRemove(f.list, key)
           g == [f EXCEPT !.rdr = rdr, !.list = list]
<1>1. f.rdr \in Seq(RdrRules) /\ f.list \in Seq(Entries)
  BY FwFields
<1>2. d = IF i = 0 \/ "rdr?" \in fails \/ "rdr-" \in fails THEN [fw |-> f, r |-> -1] ELSE [fw |-> g, r |-> 0]
  BY IpfwSame, IpfwSearched DEF Ipfw!delete_redirect_rule, Ipfw!del_desc_time
<1>3. /\ i = 0 <=> key \notin KeysOf(f.rdr)
      /\ i # 0 => i \in 1 .. Len(f.rdr)
  BY <1>1, KeyIndexFacts
<1>4. list \in Seq(Entries)
  BY <1>1, ListRemoveFacts
<1> HIDE DEF d, i, list
<1>5. CASE i = 0 \/ "rdr?" \in fails \/ "rdr-" \in fails
  BY <1>2, <1>5 DEF d
<1>6. CASE i # 0 /\ "rdr?" \notin fails /\ "rdr-" \notin fails
  <2>1. rdr \in Seq(RdrRules)
    BY <1>1, <1>3, <1>6, RemoveKeyed
  <2> HIDE DEF rdr
  <2>2. /\ g \in FwT /\ g.rdr = rdr /\ g.filter = f.filter /\ g.nat = f.nat /\ g.list = list
        /\ g.next_uid = f.next_uid
    BY <1>4, <2>1 DEF FwT
  <2> HIDE DEF g
  <2>3. PfGone(f, g, key)
    BY <1>3, <1>6, <2>2 DEF PfGone, rdr, list, i
  <2>4. d.r = 0 /\ d.fw = g
    BY <1>2, <1>6
  <2>5. QED BY <2>3, <2>4 DEF d
<1>7. QED BY <1>5, <1>6

(* a rule and its entry are added *)
LEMMA IpfwAdd ==
  ASSUME NEW f \in FwT, ListGood(f), NEW key \in Keys, key \notin KeysOf(f.rdr), NEW w \in PlainWants, NEW fails
  PROVE  LET a == Ipfw!add_redirect_rule2(f, Mapping(key, w), fails)
         IN \/ a.r = -1 /\ a.fw = f
            \/ a.r = 0 /\ Held(f, a.fw, key) /\ RowAt("ipfw", a.fw, key) = w
<1> DEFINE m == Mapping(key, w)
           e == RdrRule(m, "none")
           ts == w.ts
           desc == w.desc
           d == Entry(key, desc, ts)
           rdr == Append(f.rdr, e)
           list == ListAdd(f.list, key, desc, ts)
           g == [f EXCEPT !.rdr = rdr, !.list = list]
           a == Ipfw!add_redirect_rule2(f, m, fails)
<1>1. f.rdr \in Seq(RdrRules) /\ f.list \in Seq(Entries)
  BY FwFields
<1>2. m \in Mappings /\ m.key = key /\ m.ts = w.ts /\ m.rhost = w.rhost
      /\ m.iaddr = w.iaddr /\ m.iport = w.iport /\ m.desc = w.desc
  BY WantType DEF Mapping
<1> HIDE DEF m
<1>3. e \in RdrRules /\ e.key = key /\ e.rhost = w.rhost /\ e.iaddr = w.iaddr /\ e.iport = w.iport
  BY <1>2, MappingFacts
<1>4. d \in Entries /\ d.key = key
  BY <1>2, MappingFacts
<1>5. d.ts = w.ts /\ d.desc = w.desc
  BY DEF Entry
<1>6. a = IF "rdr+" \in fails THEN [fw |-> f, r |-> -1] ELSE [fw |-> g, r |-> 0]
  <2>1. Ipfw!RdrRule(m, "none") = e
    BY DEF Ipfw!RdrRule, RdrRule
  <2> HIDE DEF e
  <2>2. QED BY <1>2, <2>1, IpfwSame DEF Ipfw!add_redirect_rule2, Ipfw!add_desc_time
<1> HIDE DEF e, a, ts, desc
<1>7. /\ rdr \in Seq(RdrRules) /\ KeysOf(rdr) = KeysOf(f.rdr) \cup {key} /\ UniqueKeys(rdr)
  BY <1>1, <1>3, AppendKeyed DEF ListGood
<1>8. \A k : First(rdr, k) = IF First(f.rdr, k) = {} /\ k = key THEN {e} ELSE First(f.rdr, k)
  <2>1. ASSUME NEW s \in Seq(RdrRules), NEW k
        PROVE  First(Append(s, e), k) = IF First(s, k) = {} /\ k = key THEN {e} ELSE First(s, k)
    <3>1. First(Append(s, e), k) = IF First(s, k) = {} /\ e.key = k THEN {e} ELSE First(s, k)
      BY <1>3, FirstAppend
    <3>2. QED BY <1>3, <3>1
  <2>2. QED BY <1>1, <2>1
<1>9. /\ list = Cons(d, f.list) /\ list \in Seq(Entries)
      /\ \A k : First(list, k) = IF k = key THEN {d} ELSE First(f.list, k)
  <2>1. ASSUME NEW s \in Seq(Entries)
        PROVE  /\ ListAdd(s, key, desc, ts) = Cons(d, s) /\ ListAdd(s, key, desc, ts) \in Seq(Entries)
               /\ \A k : First(ListAdd(s, key, desc, ts), k) = IF k = key THEN {d} ELSE First(s, k)
    BY <1>4, ListAddIs
  <2> HIDE DEF d
  <2>2. QED BY <1>1, <2>1
<1> HIDE DEF d, list, rdr
<1>10. key \notin KeysOf(f.list) /\ First(f.rdr, key) = {}
  BY <1>1, FirstFacts DEF ListGood
<1>11. UniqueKeys(list) /\ KeysOf(list) = KeysOf(f.list) \cup {key}
  BY <1>1, <1>4, <1>9, <1>10, ConsKeyed DEF ListGood
<1>12. /\ g \in FwT /\ g.rdr = rdr /\ g.list = list /\ g.filter = f.filter
  BY <1>7, <1>9 DEF FwT
<1> HIDE DEF g
<1>13. ListGood(g)
  BY <1>7, <1>11, <1>12 DEF ListGood
<1>14. Keeps(f, g, key)
  BY <1>8, <1>9, <1>12 DEF Keeps
<1>15. RowAt("ipfw", g, key) = w
  <2>1. First(g.rdr, key) = {e}
    BY <1>8, <1>10, <1>12
  <2>2. First(g.list, key) = {d}
    BY <1>9, <1>12
  <2>3. (IF "ipfw" \in {"pf", "nft"} THEN e.desc ELSE d.desc) = w.desc
    BY <1>5
  <2>4. e.rhost = w.rhost /\ e.iaddr = w.iaddr /\ e.iport = w.iport
    BY <1>3
  <2>5. d.ts = w.ts
    BY <1>5
  <2>6. QED BY ONLY w \in PlainWants, <2>1, <2>2, <2>3, <2>4, <2>5, RowAdded
<1>16. Held(f, g, key)
  BY <1>12, <1>13, <1>14 DEF Held
<1>17. \/ a.r = -1 /\ a.fw = f
       \/ a.r = 0 /\ a.fw = g
  BY <1>6
<1>18. QED BY <1>15, <1>16, <1>17 DEF a, m

LEMMA IpfwRedirect ==
  ASSUME backend = "ipfw", fw \in FwT, ListGood(fw), NEW key \in Keys, NEW w \in PlainWants, NEW fails,
         "find" \notin fails
  PROVE  LET a == upnp_redirect(key, w, fails)
         IN /\ Held(fw, a.fw, key)
            /\ RedirectRow(FALSE, FALSE, RowAt("ipfw", fw, key), RowAt("ipfw", a.fw, key), w, a.r)
<1> DEFINE old == RowAt("ipfw", fw, key)
           i == KeyIndex(fw.rdr, key)
           e == fw.rdr[i]
           m == Mapping(key, w)
           a == upnp_redirect(key, w, fails)
           x == Ipfw!add_redirect_rule2(fw, m, fails)
           y == Ipfw!update_portmapping(fw, key, w.iport, w.desc, w.ts, fails)
           list == ListAdd(ListRemove(fw.list, key), key, w.desc, w.ts)
           g == [fw EXCEPT !.list = list]
<1>1. get_redirect_rule(key, fails) = old
  <2>1. RowOf(key) = RowAt("ipfw", fw, key)
    BY RowIs
  <2>2. RowOf(key) = Ipfw!get_redirect_rule(fw, key, fails)
    BY IpfwSame, IpfwSearched DEF RowOf, Ipfw!get_redirect_rule, Ipfw!get_desc_time
  <2>3. QED BY <2>1, <2>2 DEF get_redirect_rule
<1>2. a = IF old = NoRow THEN [fw |-> x.fw, r |-> IF x.r < 0 THEN -1 ELSE 0]
          ELSE IF ~SameHosts(old, w) THEN [fw |-> fw, r |-> -2]
          ELSE IF old.iport # w.iport THEN y ELSE [fw |-> g, r |-> 0]
  <2> HIDE DEF old
  <2>1. m = [key |-> key, rhost |-> w.rhost, iaddr |-> w.iaddr, iport |-> w.iport, desc |-> w.desc, ts |-> w.ts]
    BY DEF Mapping
  <2> HIDE DEF m
  <2>2. upnp_redirect_internal(m, fails) = [fw |-> x.fw, r |-> IF x.r < 0 THEN -1 ELSE 0]
    <3>1. add_redirect_rule2(m, fails) = x
      BY DEF add_redirect_rule2
    <3> HIDE DEF x
    <3>2. add_filter_rule2(x.fw, m, fails) = [fw |-> x.fw, r |-> 0]
      BY IpfwSame DEF add_filter_rule2, Ipfw!add_filter_rule2
    <3>3. QED BY <3>1, <3>2 DEF upnp_redirect_internal, AfterRdr, AddFilter, Answer
  <2>3. update_portmapping(key, w, fails) = y
    BY DEF update_portmapping
  <2>4. update_portmapping_desc_timestamp(key, w, fails) = [fw |-> g, r |-> 0]
    BY IpfwSame DEF update_portmapping_desc_timestamp, Ipfw!update_portmapping_desc_timestamp,
                    Ipfw!add_desc_time, Ipfw!del_desc_time
  <2> HIDE DEF x, y, g
  <2>5. Answer(Searched(fails), -2) = [fw |-> fw, r |-> -2]
    BY DEF Searched, Answer
  <2>6. QED BY <1>1, <2>1, <2>2, <2>3, <2>4, <2>5 DEF upnp_redirect, SameHosts
<1> HIDE DEF a, x, y, g
<1>3. /\ key \notin KeysOf(fw.rdr) => old = NoRow
      /\ key \in KeysOf(fw.rdr) => /\ old # NoRow /\ old.rhost = e.rhost /\ old.iaddr = e.iaddr /\ old.iport = e.iport
                                   /\ e \in RdrRules
  BY RowFacts
<1>4. CASE key \notin KeysOf(fw.rdr)
  <2>1. \/ x.r = -1 /\ x.fw = fw
        \/ x.r = 0 /\ Held(fw, x.fw, key) /\ RowAt("ipfw", x.fw, key) = w
    BY <1>4, IpfwAdd DEF x
  <2>2. Held(fw, fw, key)
    BY HeldSame
  <2>3. a = [fw |-> x.fw, r |-> IF x.r < 0 THEN -1 ELSE 0] /\ old = NoRow
    BY <1>2, <1>3, <1>4
  <2>4. CASE x.r = -1 /\ x.fw = fw
    <3>1. a.r = -1 /\ a.fw = fw
      BY <2>3, <2>4
    <3>2. QED BY <2>2, <3>1 DEF a, RedirectRow
  <2>5. CASE x.r = 0 /\ Held(fw, x.fw, key) /\ RowAt("ipfw", x.fw, key) = w
    <3>1. a.r = 0 /\ a.fw = x.fw
      BY <2>3, <2>5
    <3>2. QED BY <2>3, <2>5, <3>1 DEF a, RedirectRow
  <2>6. QED BY <2>1, <2>4, <2>5
<1>5. CASE key \in KeysOf(fw.rdr)
  <2>1. old # NoRow /\ old.rhost = e.rhost /\ old.iaddr = e.iaddr /\ old.iport = e.iport /\ e \in RdrRules
    BY <1>3, <1>5
  <2> HIDE DEF old
  <2>2. CASE ~SameHosts(old, w)
    <3>1. a.fw = fw /\ a.r = -2
      BY <1>2, <2>1, <2>2
    <3>2. Held(fw, fw, key)
      BY HeldSame
    <3>3. QED BY <2>1, <2>2, <3>1, <3>2 DEF a, old, RedirectRow, SameMapping, SameHosts
  <2>3. CASE SameHosts(old, w) /\ old.iport # w.iport
    <3> DEFINE d == Ipfw!delete_redirect_rule(fw, key, fails)
               z == Ipfw!add_redirect_rule2(d.fw, m, fails)
    <3>1. y = IF d.r < 0 THEN d ELSE z
      <4>1. m = [key |-> key, rhost |-> fw.rdr[i].rhost, iaddr |-> fw.rdr[i].iaddr, iport |-> w.iport,
                desc |-> w.desc, ts |-> w.ts]
        BY <2>1, <2>3 DEF Mapping, SameHosts
      <4> HIDE DEF m, d
      <4>2. QED BY <4>1, IpfwSame, IpfwSearched DEF y, d, Ipfw!update_portmapping
    <3>2. \/ d.r = -1 /\ d.fw = fw
          \/ d.r = 0 /\ PfGone(fw, d.fw, key)
      BY IpfwDeleteRdr
    <3> HIDE DEF d
    <3>3. a = y
      BY <1>2, <2>1, <2>3
    <3>4. CASE d.r = -1 /\ d.fw = fw
      <4>1. a.r = -1 /\ a.fw = fw
        BY <3>1, <3>3, <3>4
      <4>2. Held(fw, fw, key)
        BY HeldSame
      <4>3. QED BY <4>1, <4>2 DEF a, RedirectRow
    <3>5. CASE d.r = 0 /\ PfGone(fw, d.fw, key)
      <4>1. Held(fw, d.fw, key) /\ key \notin KeysOf(d.fw.rdr) /\ RowAt("ipfw", d.fw, key) = NoRow
        BY <3>5, PfGoneHeld
      <4>2. d.fw \in FwT /\ ListGood(d.fw)
        BY <4>1 DEF Held
      <4>3. \/ z.r = -1 /\ z.fw = d.fw
            \/ z.r = 0 /\ Held(d.fw, z.fw, key) /\ RowAt("ipfw", z.fw, key) = w
        BY <4>1, <4>2, IpfwAdd
      <4> HIDE DEF z
      <4>4. a = z
        BY <3>1, <3>3, <3>5
      <4>5. CASE z.r = -1 /\ z.fw = d.fw
        BY <4>1, <4>4, <4>5 DEF a, RedirectRow
      <4>6. CASE z.r = 0 /\ Held(d.fw, z.fw, key) /\ RowAt("ipfw", z.fw, key) = w
        <5>1. Held(fw, z.fw, key)
          BY <4>1, <4>6, HeldThen
        <5>2. QED BY <2>3, <4>4, <4>6, <5>1 DEF a, old, RedirectRow, SameMapping, SameHosts
      <4>7. QED BY <4>3, <4>5, <4>6
    <3>6. QED BY <3>2, <3>4, <3>5
  <2>4. CASE SameHosts(old, w) /\ old.iport = w.iport
    <3>1. a.fw = g /\ a.r = 0
      BY <1>2, <2>1, <2>4
    <3>2. Held(fw, g, key) /\ RowAt("ipfw", g, key) = w
      <4>1. PICK desc \in Descs : desc = w.desc
        BY WantType
      <4>2. (IF "ipfw" \in {"pf", "nft"} THEN e.desc ELSE desc) = w.desc
        BY <4>1
      <4>3. SameHosts(e, w) /\ e.iport = w.iport
        BY <2>1, <2>4 DEF SameHosts
      <4>4. g = [fw EXCEPT !.list = ListAdd(ListRemove(fw.list, key), key, desc, w.ts)]
        BY <4>1 DEF g
      <4>5. QED BY <1>5, <4>2, <4>3, <4>4, PfRenewed
    <3>3. QED BY <2>4, <3>1, <3>2 DEF a, old, RedirectRow, SameMapping, SameHosts
  <2>5. QED BY <2>2, <2>3, <2>4
<1>6. QED BY <1>4, <1>5

LEMMA IpfwDelete ==
  ASSUME backend = "ipfw", fw \in FwT, ListGood(fw), NEW key \in Keys, NEW fails
  PROVE  LET a == upnp_delete_redir(key, fails)
         IN /\ Held(fw, a.fw, key)
            /\ DeleteRow(FALSE, RowAt("ipfw", fw, key), RowAt("ipfw", a.fw, key), a.r)
<1> DEFINE d == Ipfw!delete_redirect_rule(fw, key, fails)
           a == upnp_delete_redir(key, fails)
<1>1. a.fw = d.fw /\ a.r = d.r
  <2>1. a = ThenFilter(d, key, fails)
    BY DEF upnp_delete_redir
  <2> HIDE DEF d, a
  <2>2. QED BY <2>1, IpfwSame DEF ThenFilter, Answer, Ipfw!delete_filter_rule
<1>2. \/ d.r = -1 /\ d.fw = fw
      \/ d.r = 0 /\ PfGone(fw, d.fw, key)
  BY IpfwDeleteRdr
<1> HIDE DEF d, a
<1>3. CASE d.r = -1 /\ d.fw = fw
  <2>1. Held(fw, fw, key)
    BY HeldSame
  <2>2. QED BY <1>1, <1>3, <2>1 DEF DeleteRow, a
<1>4. CASE d.r = 0 /\ PfGone(fw, d.fw, key)
  <2>1. Held(fw, d.fw, key) /\ RowAt("ipfw", d.fw, key) = NoRow
    BY <1>4, PfGoneHeld
  <2>2. QED BY <1>1, <1>4, <2>1 DEF DeleteRow, a
<1>5. QED BY <1>2, <1>3, <1>4

-----------------------------------------------------------------------------
(* IPFilter: the rows without what the daemon remembers of them *)

Bare(f, key) == RowIn("ipf", First(f.rdr, key), {})
BareWant(w) == [rhost |-> w.rhost, iaddr |-> w.iaddr, iport |-> w.iport, desc |-> "none", ts |-> 0]

IpfOk(f) == UniqueKeys(f.rdr) /\ f.filter \in Seq(PassRules)

IpfHeld(f, g, key) ==
  g \in FwT /\ IpfOk(g) /\ \A k : k # key => First(g.rdr, k) = First(f.rdr, k)

LEMMA NoPins ==
  ASSUME NEW s \in Seq(PassRules)
  PROVE  Pins(s) = << >>
<1> DEFINE t == Sublist(s, PinRules)
<1>1. /\ t \in Seq(PassRules)
      /\ \A j \in 1 .. Len(t) : t[j] \in PassRules /\ t[j] \in PinRules
  BY SublistElements
<1> HIDE DEF t
<1>2. \A e : ~(e \in PassRules /\ e \in PinRules)
  BY DEF PassRules, PinRules
<1>3. Len(t) \in Nat
  BY <1>1, DomainIsLen
<1>4. Len(t) = 0
  BY <1>1, <1>2, <1>3
<1>5. QED BY <1>1, <1>4, EmptySeq DEF t, Pins

LEMMA IpfSame ==
  /\ \A s, key : Ipf!KeyIndex(s, key) = KeyIndex(s, key)
  /\ \A s, key, desc, ts : Ipf!ListAdd(s, key, desc, ts) = ListAdd(s, key, desc, ts)
  /\ \A s, i : Ipf!RemoveAt(s, i) = RemoveAt(s, i)
  /\ \A g, r : Ipf!Answer(g, r) = [fw |-> g, r |-> r]
  /\ Ipf!NoRow = NoRow
<1>1. \A s, key : Ipf!KeyIndex(s, key) = KeyIndex(s, key)
  BY DEF Ipf!KeyIndex, KeyIndex, Ipf!SelectInSeq, SelectInSeq, Ipf!Min, Min
<1>2. \A s, key, desc, ts : Ipf!ListAdd(s, key, desc, ts) = ListAdd(s, key, desc, ts)
  BY DEF Ipf!ListAdd, ListAdd, Ipf!Cons, Cons
<1>3. \A s, i : Ipf!RemoveAt(s, i) = RemoveAt(s, i)
  BY DEF Ipf!RemoveAt, RemoveAt
<1>4. QED BY <1>1, <1>2, <1>3 DEF Ipf!Answer, Ipf!NoRow, NoRow

LEMMA IpfForgets ==
  ASSUME NEW list \in Seq(Entries), NEW key
  PROVE  Ipf!del_redirect_desc(list, key) \in Seq(Entries)
<1> DEFINE i == KeyIndex(list, key)
<1>1. Len(list) \in Nat /\ \A j \in 1 .. Len(list) : list[j] \in Entries
  BY DomainIsLen
<1>2. i \in 0 .. Len(list)
  BY KeyIndexFacts
<1>3. Ipf!del_redirect_desc(list, key) = IF i = 0 THEN list ELSE SubSeq(list, i + 1, Len(list))
  BY IpfSame DEF Ipf!del_redirect_desc
<1> HIDE DEF i
<1>4. i + 1 \in Int /\ Len(list) \in Int /\ \A j \in i + 1 .. Len(list) : list[j] \in Entries
  BY <1>1, <1>2
<1>5. SubSeq(list, i + 1, Len(list)) \in Seq(Entries)
  BY <1>4, SubSeqProperties
<1>6. QED BY <1>3, <1>5

(* the redirection is still there, or it is gone *)
IpfStays(f, d) == d.r = -1 /\ d.fw \in FwT /\ d.fw.rdr = f.rdr /\ d.fw.filter = f.filter

IpfGone(f, d, key) ==
  /\ d.r = 0 /\ d.fw \in FwT /\ key \in KeysOf(f.rdr)
  /\ d.fw.rdr = RemoveAt(f.rdr, KeyIndex(f.rdr, key)) /\ d.fw.filter = f.filter

LEMMA IpfRealDelete ==
  ASSUME NEW f \in FwT, NEW key, NEW fails
  PROVE  LET d == Ipf!real_delete_redirect_rule(f, key, fails)
         IN \/ IpfStays(f, d) /\ (key \in KeysOf(f.rdr) => fails # {})
            \/ IpfGone(f, d, key)
<1> DEFINE d == Ipf!real_delete_redirect_rule(f, key, fails)
           i == KeyIndex(f.rdr, key)
           list == Ipf!del_redirect_desc(f.list, key)
           g == [f EXCEPT !.list = list]
           rdr == RemoveAt(f.rdr, i)
           h == [g EXCEPT !.rdr = rdr]
<1>1. f.rdr \in Seq(RdrRules) /\ f.list \in Seq(Entries)
  BY FwFields
<1>2. list \in Seq(Entries)
  BY <1>1, IpfForgets
<1>3. /\ i = 0 <=> key \notin KeysOf(f.rdr)
      /\ i # 0 => i \in 1 .. Len(f.rdr)
  BY <1>1, KeyIndexFacts
<1>4. /\ g \in FwT /\ g.rdr = f.rdr /\ g.filter = f.filter
  <2> HIDE DEF list
  <2>1. QED BY <1>2, SetList
<1>5. d = IF "rdr?" \in fails \/ i = 0 THEN [fw |-> f, r |-> -1]
          ELSE IF "rdr-" \in fails THEN [fw |-> g, r |-> -1]
          ELSE [fw |-> h, r |-> 0]
  <2>1. h = [g EXCEPT !.rdr = RemoveAt(g.rdr, i)]
    <3> HIDE DEF g
    <3>1. QED BY <1>4
  <2> HIDE DEF h
  <2>2. QED BY <2>1, IpfSame DEF Ipf!real_delete_redirect_rule
<1> HIDE DEF d, g, i
<1>6. CASE i = 0 \/ "rdr?" \in fails \/ "rdr-" \in fails
  <2>1. d.r = -1 /\ d.fw \in {f, g}
    BY <1>5, <1>6
  <2>2. QED BY <1>3, <1>4, <1>6, <2>1 DEF d, IpfStays
<1>7. CASE i # 0 /\ "rdr?" \notin fails /\ "rdr-" \notin fails
  <2>1. rdr \in Seq(RdrRules)
    BY <1>1, <1>3, <1>7, RemoveKeyed
  <2> HIDE DEF rdr
  <2>2. /\ h \in FwT /\ h.rdr = rdr /\ h.filter = g.filter
    BY <1>4, <2>1, SetRdr
  <2>3. d.r = 0 /\ d.fw = h
    BY <1>5, <1>7
  <2> HIDE DEF h
  <2>4. QED BY <1>3, <1>4, <1>7, <2>2, <2>3 DEF d, rdr, i, IpfGone
<1>8. QED BY <1>6, <1>7

LEMMA IpfDeleteRdr ==
  ASSUME NEW f \in FwT, NEW key, NEW fails
  PROVE  LET d == Ipf!delete_redirect_rule(f, key, fails)
         IN \/ IpfStays(f, d) /\ (key \in KeysOf(f.rdr) => fails # {})
            \/ IpfGone(f, d, key)
<1> DEFINE c == Ipf!real_delete_redirect_rule(f, key, fails)
           b == Ipf!real_delete_redirect_rule(c.fw, key, fails)
           d == Ipf!delete_redirect_rule(f, key, fails)
<1>1. d = IF c.r = -1 THEN b ELSE c
  BY DEF Ipf!delete_redirect_rule
<1>2. IpfStays(f, c) \/ IpfGone(f, c, key)
  BY IpfRealDelete
<1> HIDE DEF c, d
<1>3. CASE IpfStays(f, c)
  <2>1. c.fw \in FwT /\ c.fw.rdr = f.rdr /\ c.fw.filter = f.filter /\ c.r = -1
    BY <1>3 DEF IpfStays
  <2>2. \/ IpfStays(c.fw, b) /\ (key \in KeysOf(c.fw.rdr) => fails # {})
        \/ IpfGone(c.fw, b, key)
    BY <2>1, IpfRealDelete
  <2> HIDE DEF b
  <2>3. d = b
    BY <1>1, <2>1
  <2>4. QED BY <2>1, <2>2, <2>3 DEF d, IpfStays, IpfGone
<1>4. CASE IpfGone(f, c, key)
  <2>1. d = c
    BY <1>1, <1>4 DEF IpfGone
  <2>2. QED BY <1>4, <2>1 DEF d
<1>5. QED BY <1>2, <1>3, <1>4

LEMMA IpfGoneEffect ==
  ASSUME NEW f \in FwT, IpfOk(f), NEW d, NEW key, IpfGone(f, d, key)
  PROVE  IpfHeld(f, d.fw, key) /\ First(d.fw.rdr, key) = {} /\ Bare(d.fw, key) = NoRow
<1> DEFINE i == KeyIndex(f.rdr, key)
<1>1. f.rdr \in Seq(RdrRules)
  BY FwFields
<1>2. i \in 1 .. Len(f.rdr) /\ f.rdr[i].key = key
  BY <1>1, KeyIndexFacts DEF IpfGone
<1>3. d.fw \in FwT /\ d.fw.rdr = RemoveAt(f.rdr, i) /\ d.fw.filter = f.filter
  BY DEF IpfGone
<1> HIDE DEF i
<1>4. /\ d.fw.rdr \in Seq(RdrRules) /\ UniqueKeys(d.fw.rdr) /\ key \notin KeysOf(d.fw.rdr)
  BY <1>1, <1>2, <1>3, RemoveKeyed DEF IpfOk
<1>5. \A k : k # key => First(d.fw.rdr, k) = First(f.rdr, k)
  BY <1>1, <1>2, <1>3, FirstRemove
<1>6. First(d.fw.rdr, key) = {}
  BY <1>4, FirstFacts
<1>7. Bare(d.fw, key) = NoRow
  BY <1>6, RowNone DEF Bare
<1>8. QED BY <1>3, <1>4, <1>5, <1>6, <1>7 DEF IpfHeld, IpfOk

(* the last rule of a key is the only one *)
LEMMA IpfGet ==
  ASSUME NEW f \in FwT, UniqueKeys(f.rdr), NEW key, NEW fails, "find" \notin fails
  PROVE  LET row == Ipf!get_redirect_rule(f, key, fails)
             e == f.rdr[KeyIndex(f.rdr, key)]
         IN /\ key \notin KeysOf(f.rdr) => row = NoRow
            /\ key \in KeysOf(f.rdr) => /\ row # NoRow /\ row.rhost = Ipf!ShownHost(e.rhost)
                                        /\ row.iaddr = e.iaddr /\ row.iport = e.iport
            /\ key \in KeysOf(f.rdr) =>
                 row.desc = ListDesc(f.list, key) /\ row.ts = ListTs(f.list, key)
                   /\ row = [rhost |-> row.rhost, iaddr |-> row.iaddr, iport |-> row.iport, desc |-> row.desc, ts |-> row.ts]
<1> DEFINE row == Ipf!get_redirect_rule(f, key, fails)
           n == Len(f.rdr)
           I == {j \in 1 .. n : f.rdr[j].key = key}
           l == IF I # {} THEN Max(I) ELSE 0
           i == KeyIndex(f.rdr, key)
<1>1. f.rdr \in Seq(RdrRules)
  BY FwFields
<1>2. DOMAIN f.rdr = 1 .. n /\ n \in Nat /\ \A j \in 1 .. n : f.rdr[j] \in RdrRules
  BY <1>1, DomainIsLen
<1>3. /\ i \in 0 .. n /\ (i = 0 <=> key \notin KeysOf(f.rdr))
      /\ i # 0 => f.rdr[i].key = key /\ i \in 1 .. n
  BY <1>1, KeyIndexFacts
<1>4. l = i
  <2> HIDE DEF i
  <2>1. CASE i = 0
    <3>1. \A j \in 1 .. n : f.rdr[j].key # key
      BY <1>2, <1>3, <2>1 DEF KeysOf
    <3>2. I = {}
      BY <3>1
    <3>3. QED BY <2>1, <3>2
  <2>2. CASE i # 0
    <3>1. \A j \in 1 .. n : f.rdr[j].key = key <=> j = i
      BY <1>2, <1>3, <2>2 DEF UniqueKeys
    <3>2. I = {i}
      BY <1>3, <2>2, <3>1
    <3>3. Max({i}) = i
      <4>1. \E x \in {i} : \A y \in {i} : x >= y
        BY <1>3
      <4>2. (CHOOSE x \in {i} : \A y \in {i} : x >= y) \in {i}
        BY <4>1
      <4>3. QED BY <4>2 DEF Max
    <3> HIDE DEF I
    <3>4. QED BY <3>2, <3>3
  <2>3. QED BY <2>1, <2>2
<1>5. row = IF i = 0 THEN NoRow
            ELSE [rhost |-> Ipf!ShownHost(f.rdr[i].rhost), iaddr |-> f.rdr[i].iaddr, iport |-> f.rdr[i].iport,
                  desc |-> ListDesc(f.list, key), ts |-> ListTs(f.list, key)]
  <2>1. Ipf!SelectLastInSeq(f.rdr, LAMBDA e : e.key = key) = l
    BY DEF Ipf!SelectLastInSeq, Ipf!Max, Max
  <2>2. Ipf!ListDesc(f.list, key) = ListDesc(f.list, key) /\ Ipf!ListTs(f.list, key) = ListTs(f.list, key)
    BY IpfSame DEF Ipf!ListDesc, ListDesc, Ipf!ListTs, ListTs
  <2> HIDE DEF l, i
  <2>3. QED BY <1>4, <2>1, <2>2, IpfSame DEF Ipf!get_redirect_rule, Ipf!get_redirect_desc
<1> HIDE DEF row, i, l
<1>6. CASE i = 0
  BY <1>3, <1>5, <1>6 DEF row
<1>7. CASE i # 0
  <2>1. f.rdr[i].iaddr # 0
    <3>1. f.rdr[i] \in RdrRules
      BY <1>2, <1>3, <1>7
    <3>2. QED BY <3>1, AddrFacts DEF RdrRules
  <2>2. NoRow.iaddr = 0
    BY DEF NoRow
  <2>3. row.rhost = Ipf!ShownHost(f.rdr[i].rhost) /\ row.iaddr = f.rdr[i].iaddr /\ row.iport = f.rdr[i].iport
        /\ row.desc = ListDesc(f.list, key) /\ row.ts = ListTs(f.list, key)
        /\ row = [rhost |-> row.rhost, iaddr |-> row.iaddr, iport |-> row.iport, desc |-> row.desc, ts |-> row.ts]
    BY <1>5, <1>7
  <2>4. QED BY <1>3, <1>7, <2>1, <2>2, <2>3 DEF row, i
<1>8. QED BY <1>6, <1>7

(* the redirections of the kernel are the same *)
IpfAlike(f, g) == g \in FwT /\ IpfOk(g) /\ g.rdr = f.rdr

LEMMA IpfAlikeHeld ==
  ASSUME NEW f, NEW g, NEW key, IpfAlike(f, g)
  PROVE  IpfHeld(f, g, key) /\ Bare(g, key) = Bare(f, key)
BY DEF IpfAlike, IpfHeld, Bare

LEMMA IpfHeldThen ==
  ASSUME NEW f, NEW g, NEW h, NEW key, IpfHeld(f, g, key), IpfHeld(g, h, key)
  PROVE  IpfHeld(f, h, key)
BY DEF IpfHeld

LEMMA IpfAdd ==
  ASSUME NEW f \in FwT, IpfOk(f), NEW key \in Keys, key \notin KeysOf(f.rdr), NEW w \in PlainWants, NEW fails
  PROVE  LET a == Ipf!add_redirect_rule2(f, Mapping(key, w), fails)
         IN \/ a.r = -1 /\ a.fw = f /\ "rdr+" \in fails
            \/ /\ a.r = 0 /\ IpfHeld(f, a.fw, key) /\ Bare(a.fw, key) = BareWant(w)
               /\ a.fw.rdr = Append(f.rdr, RdrRule(Mapping(key, w), "none")) /\ a.fw.filter = f.filter
<1> DEFINE m == Mapping(key, w)
           e == RdrRule(m, "none")
           ts == w.ts
           desc == w.desc
           rdr == Append(f.rdr, e)
           list == ListAdd(f.list, key, desc, ts)
           g == [f EXCEPT !.rdr = rdr, !.list = list]
           a == Ipf!add_redirect_rule2(f, m, fails)
<1>1. f.rdr \in Seq(RdrRules) /\ f.list \in Seq(Entries)
  BY FwFields
<1>2. m \in Mappings /\ m.key = key /\ m.ts = w.ts /\ m.rhost = w.rhost
      /\ m.iaddr = w.iaddr /\ m.iport = w.iport /\ m.desc = w.desc
  BY WantType DEF Mapping
<1> HIDE DEF m
<1>3. e \in RdrRules /\ e.key = key /\ e.rhost = w.rhost /\ e.iaddr = w.iaddr /\ e.iport = w.iport
  BY <1>2, MappingFacts
<1>4. Entry(key, desc, ts) \in Entries
  BY <1>2, MappingFacts
<1>5. a = IF "rdr+" \in fails THEN [fw |-> f, r |-> -1] ELSE [fw |-> g, r |-> 0]
  <2>1. Ipf!RdrRule(m, "none") = e
    BY DEF Ipf!RdrRule, RdrRule
  <2> HIDE DEF e
  <2>2. QED BY <1>2, <2>1, IpfSame DEF Ipf!add_redirect_rule2, Ipf!add_redirect_desc
<1> HIDE DEF e, a, ts, desc
<1>6. rdr \in Seq(RdrRules) /\ UniqueKeys(rdr)
  BY <1>1, <1>3, AppendKeyed DEF IpfOk
<1>7. \A k : First(rdr, k) = IF First(f.rdr, k) = {} /\ k = key THEN {e} ELSE First(f.rdr, k)
  <2>1. ASSUME NEW s \in Seq(RdrRules), NEW k
        PROVE  First(Append(s, e), k) = IF First(s, k) = {} /\ k = key THEN {e} ELSE First(s, k)
    <3>1. First(Append(s, e), k) = IF First(s, k) = {} /\ e.key = k THEN {e} ELSE First(s, k)
      BY <1>3, FirstAppend
    <3>2. QED BY <1>3, <3>1
  <2>2. QED BY <1>1, <2>1
<1>8. list \in Seq(Entries)
  <2>1. ASSUME NEW s \in Seq(Entries)
        PROVE  ListAdd(s, key, desc, ts) \in Seq(Entries)
    BY <1>4, ListAddIs
  <2>2. QED BY <1>1, <2>1
<1> HIDE DEF list, rdr
<1>9. First(f.rdr, key) = {}
  BY <1>1, FirstFacts
<1>10. g \in FwT /\ g.rdr = rdr /\ g.filter = f.filter
  BY <1>6, <1>8 DEF FwT
<1> HIDE DEF g
<1>11. IpfHeld(f, g, key)
  BY <1>6, <1>7, <1>10 DEF IpfHeld, IpfOk
<1>12. Bare(g, key) = BareWant(w)
  <2>1. First(g.rdr, key) = {e}
    BY <1>7, <1>9, <1>10
  <2>2. RowIn("ipf", {e}, {}) = [rhost |-> e.rhost, iaddr |-> e.iaddr, iport |-> e.iport,
          desc |-> IF "ipf" \in {"pf", "nft"} THEN e.desc ELSE "none", ts |-> 0]
    BY ONLY RowAlone
  <2>3. QED BY <1>3, <2>1, <2>2 DEF Bare, BareWant
<1>13. \/ a.r = -1 /\ a.fw = f /\ "rdr+" \in fails
       \/ a.r = 0 /\ a.fw = g
  BY <1>5
<1>14. QED BY <1>10, <1>11, <1>12, <1>13 DEF a, m, rdr, e

LEMMA IpfPass ==
  ASSUME NEW f \in FwT, IpfOk(f), NEW m \in Mappings, NEW fails
  PROVE  LET a == Ipf!add_filter_rule2(f, m, fails)
         IN \/ a.r = -1 /\ a.fw = f /\ "filter+" \in fails
            \/ /\ a.r = 0 /\ IpfAlike(f, a.fw)
               /\ a.fw.filter = Append(f.filter, PassRule(m, Eport(m.key)))
<1> DEFINE e == PassRule(m, Eport(m.key))
           filter == Append(f.filter, e)
           g == [f EXCEPT !.filter = filter]
           a == Ipf!add_filter_rule2(f, m, fails)
<1>1. e \in PassRules
  <2>1. m.key \in Keys /\ m.iaddr \in V4 /\ m.rhost \in Nat /\ m.desc \notin DOMAIN Labels
    BY DEF Mappings, Descs
  <2>2. Proto(m.key) \in Protos /\ Eport(m.key) \in Ports
    BY <2>1, KeyType
  <2>3. QED BY <2>1, <2>2 DEF PassRule, PassRules
<1>2. a = IF "filter+" \in fails THEN [fw |-> f, r |-> -1] ELSE [fw |-> g, r |-> 0]
  <2>1. Ipf!PassRule(m, Ipf!Eport(m.key)) = e
    BY DEF Ipf!PassRule, PassRule, Ipf!Eport, Eport, Ipf!Proto, Proto
  <2> HIDE DEF e
  <2>2. QED BY <2>1, IpfSame DEF Ipf!add_filter_rule2
<1> HIDE DEF e, a
<1>3. filter \in Seq(PassRules) /\ filter \in Seq(FilterRules)
  <2>1. f.filter \in Seq(PassRules)
    BY DEF IpfOk
  <2>2. filter \in Seq(PassRules)
    BY <1>1, <2>1, AppendKeyed
  <2>3. PassRules \subseteq FilterRules
    BY DEF FilterRules
  <2> HIDE DEF filter
  <2>4. QED BY <2>2, <2>3, SeqDef
<1> HIDE DEF filter
<1>4. g \in FwT /\ g.rdr = f.rdr /\ g.filter = filter
  BY <1>3, SetFilter
<1> HIDE DEF g
<1>5. IpfAlike(f, g)
  BY <1>3, <1>4 DEF IpfAlike, IpfOk
<1>6. \/ a.r = -1 /\ a.fw = f /\ "filter+" \in fails
      \/ a.r = 0 /\ a.fw = g
  BY <1>2
<1>7. QED BY <1>4, <1>5, <1>6 DEF a, filter, e

LEMMA IpfUnpass ==
  ASSUME NEW f \in FwT, IpfOk(f), NEW key, NEW fails
  PROVE  LET g == Ipf!delete_filter_rule(f, key, fails).fw
         IN /\ IpfAlike(f, g)
            /\ \/ g.filter = f.filter
               \/ \E i \in 1 .. Len(f.filter) :
                    /\ f.filter[i].proto = Proto(key) /\ f.filter[i].port = Eport(key)
                    /\ g.filter = RemoveAt(f.filter, i)
<1> DEFINE n == Len(f.filter)
           J == {j \in 1 .. n : f.filter[j].proto = Proto(key) /\ f.filter[j].port = Eport(key)}
           i == IF J # {} THEN Min(J) ELSE 0
           filter == RemoveAt(f.filter, i)
           g == [f EXCEPT !.filter = filter]
           d == Ipf!delete_filter_rule(f, key, fails)
<1>1. f.filter \in Seq(PassRules)
  BY DEF IpfOk
<1>2. n \in Nat
  BY <1>1, DomainIsLen
<1>3. d = IF i = 0 \/ "filter?" \in fails \/ "filter-" \in fails THEN [fw |-> f, r |-> -1] ELSE [fw |-> g, r |-> 0]
  <2>1. Ipf!SelectInSeq(f.filter, LAMBDA e : e.proto = Ipf!Proto(key) /\ e.port = Ipf!Eport(key)) = i
    BY DEF Ipf!SelectInSeq, Ipf!Min, Min, Ipf!Eport, Eport, Ipf!Proto, Proto
  <2> HIDE DEF i
  <2>2. QED BY <2>1, IpfSame DEF Ipf!delete_filter_rule
<1>4. i # 0 => i \in 1 .. n /\ f.filter[i].proto = Proto(key) /\ f.filter[i].port = Eport(key)
  <2>1. J \in SUBSET Nat /\ J \subseteq 1 .. n
    BY <1>2
  <2>2. J # {} => Min(J) \in J
    BY <2>1, MinIsLeast
  <2>3. \A j \in J : f.filter[j].proto = Proto(key) /\ f.filter[j].port = Eport(key)
    OBVIOUS
  <2> HIDE DEF J
  <2>4. QED BY <2>1, <2>2, <2>3
<1> HIDE DEF i, d
<1>5. CASE i = 0 \/ "filter?" \in fails \/ "filter-" \in fails
  <2>1. d.fw = f
    BY <1>3, <1>5
  <2>2. QED BY <2>1 DEF d, IpfAlike
<1>6. CASE i # 0 /\ "filter?" \notin fails /\ "filter-" \notin fails
  <2>1. filter \in Seq(PassRules)
    BY <1>1, <1>4, <1>6, RemoveKeyed
  <2> HIDE DEF filter
  <2>2. filter \in Seq(FilterRules)
    <3>1. PassRules \subseteq FilterRules
      BY DEF FilterRules
    <3>2. QED BY <2>1, <3>1, SeqDef
  <2>3. g \in FwT /\ g.rdr = f.rdr /\ g.filter = filter
    BY <2>2, SetFilter
  <2> HIDE DEF g
  <2>4. d.fw = g
    BY <1>3, <1>6
  <2>5. IpfAlike(f, g)
    BY <2>1, <2>3 DEF IpfAlike, IpfOk
  <2>6. QED BY <1>4, <1>6, <2>3, <2>4, <2>5 DEF d, filter
<1>7. QED BY <1>5, <1>6

LEMMA IpfStaysAlike ==
  ASSUME NEW f \in FwT, IpfOk(f), NEW d, IpfStays(f, d)
  PROVE  IpfAlike(f, d.fw)
BY DEF IpfStays, IpfAlike, IpfOk

LEMMA BareFacts ==
  ASSUME NEW f \in FwT, NEW key
  PROVE  LET e == f.rdr[KeyIndex(f.rdr, key)]
         IN /\ key \notin KeysOf(f.rdr) => Bare(f, key) = NoRow
            /\ key \in KeysOf(f.rdr) =>
                 /\ Bare(f, key) = [rhost |-> e.rhost, iaddr |-> e.iaddr, iport |-> e.iport, desc |-> "none", ts |-> 0]
                 /\ Bare(f, key) # NoRow /\ SameHosts(Bare(f, key), e) /\ Bare(f, key).iport = e.iport
<1> DEFINE i == KeyIndex(f.rdr, key)
           e == f.rdr[i]
<1>1. f.rdr \in Seq(RdrRules)
  BY FwFields
<1>2. (i = 0 <=> key \notin KeysOf(f.rdr)) /\ (i # 0 => i \in 1 .. Len(f.rdr))
  BY <1>1, KeyIndexFacts
<1>3. CASE key \notin KeysOf(f.rdr)
  <2>1. First(f.rdr, key) = {}
    BY <1>2, <1>3 DEF First
  <2>2. QED BY <1>3, <2>1, RowNone DEF Bare
<1>4. CASE key \in KeysOf(f.rdr)
  <2>1. First(f.rdr, key) = {e}
    BY <1>2, <1>4 DEF First
  <2>2. e \in RdrRules
    BY <1>1, <1>2, <1>4, DomainIsLen
  <2>3. e.iaddr # 0
    BY <2>2, AddrFacts DEF RdrRules
  <2> HIDE DEF e
  <2>4. RowIn("ipf", {e}, {}) = [rhost |-> e.rhost, iaddr |-> e.iaddr, iport |-> e.iport,
          desc |-> IF "ipf" \in {"pf", "nft"} THEN e.desc ELSE "none", ts |-> 0]
    BY ONLY RowAlone
  <2>5. Bare(f, key) = [rhost |-> e.rhost, iaddr |-> e.iaddr, iport |-> e.iport, desc |-> "none", ts |-> 0]
    BY <2>1, <2>4 DEF Bare
  <2>6. SameHosts(Bare(f, key), e) /\ Bare(f, key).iport = e.iport
    BY <2>5 DEF SameHosts
  <2>7. NoRow.iaddr = 0
    BY DEF NoRow
  <2>8. Bare(f, key) # NoRow
    BY <2>3, <2>6, <2>7 DEF SameHosts
  <2>9. QED BY <1>4, <2>5, <2>6, <2>8 DEF e, i
<1>5. QED BY <1>3, <1>4

(* a new redirection and its pass rule, or neither *)
LEMMA IpfNewIs ==
  ASSUME backend = "ipf", NEW m, NEW fails
  PROVE  LET x == Ipf!add_redirect_rule2(fw, m, fails)
             p == Ipf!add_filter_rule2(x.fw, m, fails)
             d == Ipf!delete_redirect_rule(p.fw, m.key, fails)
         IN upnp_redirect_internal(m, fails) =
              IF x.r < 0 THEN [fw |-> x.fw, r |-> -1]
              ELSE IF p.r < 0 THEN [fw |-> d.fw, r |-> -1] ELSE [fw |-> p.fw, r |-> 0]
<1> DEFINE x == Ipf!add_redirect_rule2(fw, m, fails)
           p == Ipf!add_filter_rule2(x.fw, m, fails)
           d == Ipf!delete_redirect_rule(p.fw, m.key, fails)
<1>1. add_redirect_rule2(m, fails) = x
  BY DEF add_redirect_rule2
<1> HIDE DEF x
<1>2. add_filter_rule2(x.fw, m, fails) = p
  BY DEF add_filter_rule2
<1> HIDE DEF p
<1>3. CleanUp(p.fw, m.key, fails) = d.fw
  BY DEF CleanUp
<1> HIDE DEF d
<1>4. QED BY <1>1, <1>2, <1>3 DEF upnp_redirect_internal, AfterRdr, AddFilter, Answer, x, p, d

LEMMA IpfNew ==
  ASSUME backend = "ipf", fw \in FwT, IpfOk(fw), NEW key \in Keys, key \notin KeysOf(fw.rdr),
         NEW w \in PlainWants, NEW fails
  PROVE  LET a == upnp_redirect_internal(Mapping(key, w), fails)
         IN /\ IpfHeld(fw, a.fw, key)
            /\ RedirectRow(FALSE, TRUE, Bare(fw, key), Bare(a.fw, key), BareWant(w), a.r)
<1> DEFINE m == Mapping(key, w)
           a == upnp_redirect_internal(m, fails)
           x == Ipf!add_redirect_rule2(fw, m, fails)
           p == Ipf!add_filter_rule2(x.fw, m, fails)
           d == Ipf!delete_redirect_rule(p.fw, key, fails)
<1>1. m \in Mappings /\ m.key = key
  BY WantType DEF Mapping
<1>2. \/ x.r = -1 /\ x.fw = fw
      \/ x.r = 0 /\ IpfHeld(fw, x.fw, key) /\ Bare(x.fw, key) = BareWant(w)
  BY IpfAdd
<1> HIDE DEF m
<1>3. a = IF x.r < 0 THEN [fw |-> x.fw, r |-> -1]
          ELSE IF p.r < 0 THEN [fw |-> d.fw, r |-> -1] ELSE [fw |-> p.fw, r |-> 0]
  BY <1>1, IpfNewIs
<1>4. Bare(fw, key) = NoRow
  BY BareFacts
<1> HIDE DEF a, x
<1>5. CASE x.r = -1 /\ x.fw = fw
  <2>1. a.fw = fw /\ a.r = -1
    BY <1>3, <1>5
  <2>2. IpfHeld(fw, fw, key)
    BY DEF IpfHeld
  <2>3. QED BY <2>1, <2>2 DEF a, m, RedirectRow
<1>6. CASE x.r = 0 /\ IpfHeld(fw, x.fw, key) /\ Bare(x.fw, key) = BareWant(w)
  <2>1. x.fw \in FwT /\ IpfOk(x.fw)
    BY <1>6 DEF IpfHeld
  <2>2. \/ p.r = -1 /\ p.fw = x.fw
        \/ p.r = 0 /\ IpfAlike(x.fw, p.fw)
    BY <1>1, <2>1, IpfPass
  <2> HIDE DEF p
  <2>3. CASE p.r = 0 /\ IpfAlike(x.fw, p.fw)
    <3>1. a.fw = p.fw /\ a.r = 0
      BY <1>3, <1>6, <2>3
    <3>2. IpfHeld(x.fw, p.fw, key) /\ Bare(p.fw, key) = Bare(x.fw, key)
      BY <2>3, IpfAlikeHeld
    <3>3. IpfHeld(fw, p.fw, key)
      BY <1>6, <3>2, IpfHeldThen
    <3>4. QED BY <1>4, <1>6, <3>1, <3>2, <3>3 DEF a, m, RedirectRow
  <2>4. CASE p.r = -1 /\ p.fw = x.fw
    <3>1. IpfStays(x.fw, d) \/ IpfGone(x.fw, d, key)
      BY <2>1, <2>4, IpfDeleteRdr
    <3> HIDE DEF d
    <3>2. a.fw = d.fw /\ a.r = -1
      BY <1>3, <1>6, <2>4
    <3>3. CASE IpfStays(x.fw, d)
      <4>1. IpfAlike(x.fw, d.fw)
        BY <2>1, <3>3, IpfStaysAlike
      <4>2. IpfHeld(x.fw, d.fw, key) /\ Bare(d.fw, key) = Bare(x.fw, key)
        BY <4>1, IpfAlikeHeld
      <4>3. IpfHeld(fw, d.fw, key)
        BY <1>6, <4>2, IpfHeldThen
      <4>4. QED BY <1>6, <3>2, <4>2, <4>3 DEF a, m, RedirectRow
    <3>4. CASE IpfGone(x.fw, d, key)
      <4>1. IpfHeld(x.fw, d.fw, key) /\ Bare(d.fw, key) = NoRow
        BY <2>1, <3>4, IpfGoneEffect
      <4>2. IpfHeld(fw, d.fw, key)
        BY <1>6, <4>1, IpfHeldThen
      <4>3. QED BY <3>2, <4>1, <4>2 DEF a, m, RedirectRow
    <3>5. QED BY <3>1, <3>3, <3>4
  <2>5. QED BY <2>2, <2>3, <2>4
<1>7. QED BY <1>2, <1>5, <1>6

LEMMA IpfRedirectIs ==
  ASSUME backend = "ipf", NEW key, NEW w, NEW fails
  PROVE  LET old == Ipf!get_redirect_rule(fw, key, fails)
             list == ListAdd(Ipf!del_redirect_desc(fw.list, key), key, w.desc, w.ts)
         IN upnp_redirect(key, w, fails) =
              IF old = NoRow THEN upnp_redirect_internal(Mapping(key, w), fails)
              ELSE IF ~SameHosts(old, w) THEN [fw |-> fw, r |-> -2]
              ELSE IF old.iport # w.iport THEN [fw |-> fw, r |-> -1]
              ELSE [fw |-> [fw EXCEPT !.list = list], r |-> 0]
<1> DEFINE old == Ipf!get_redirect_rule(fw, key, fails)
           m == Mapping(key, w)
           a == upnp_redirect(key, w, fails)
           x == upnp_redirect_internal(m, fails)
           list == ListAdd(Ipf!del_redirect_desc(fw.list, key), key, w.desc, w.ts)
           g == [fw EXCEPT !.list = list]
<1>1. a = IF old = NoRow THEN x
          ELSE IF ~SameHosts(old, w) THEN [fw |-> fw, r |-> -2]
          ELSE IF old.iport # w.iport THEN [fw |-> fw, r |-> -1] ELSE [fw |-> g, r |-> 0]
  <2>1. m = [key |-> key, rhost |-> w.rhost, iaddr |-> w.iaddr, iport |-> w.iport, desc |-> w.desc, ts |-> w.ts]
    BY DEF Mapping
  <2>2. get_redirect_rule(key, fails) = old
    BY DEF get_redirect_rule
  <2> HIDE DEF m, old
  <2>3. update_portmapping(key, w, fails) = [fw |-> fw, r |-> -1]
    BY IpfSame DEF update_portmapping, Ipf!update_portmapping
  <2>4. update_portmapping_desc_timestamp(key, w, fails) = [fw |-> g, r |-> 0]
    BY IpfSame DEF update_portmapping_desc_timestamp, Ipf!update_portmapping_desc_timestamp,
                   Ipf!add_redirect_desc
  <2> HIDE DEF g
  <2>5. Answer(Searched(fails), -2) = [fw |-> fw, r |-> -2]
    BY DEF Searched, Answer
  <2>6. QED BY <2>1, <2>2, <2>3, <2>4, <2>5 DEF upnp_redirect, SameHosts
<1>2. QED BY <1>1

LEMMA IpfRedirect ==
  ASSUME backend = "ipf", fw \in FwT, IpfOk(fw), NEW key \in Keys, NEW w \in PlainWants,
         NEW fails, "find" \notin fails
  PROVE  LET a == upnp_redirect(key, w, fails)
         IN /\ IpfHeld(fw, a.fw, key)
            /\ RedirectRow(FALSE, TRUE, Bare(fw, key), Bare(a.fw, key), BareWant(w), a.r)
<1> DEFINE old == Ipf!get_redirect_rule(fw, key, fails)
           e == fw.rdr[KeyIndex(fw.rdr, key)]
           m == Mapping(key, w)
           a == upnp_redirect(key, w, fails)
           x == upnp_redirect_internal(m, fails)
           list == ListAdd(Ipf!del_redirect_desc(fw.list, key), key, w.desc, w.ts)
           g == [fw EXCEPT !.list = list]
<1>1. a = IF old = NoRow THEN x
          ELSE IF ~SameHosts(old, w) THEN [fw |-> fw, r |-> -2]
          ELSE IF old.iport # w.iport THEN [fw |-> fw, r |-> -1] ELSE [fw |-> g, r |-> 0]
  BY IpfRedirectIs
<1>2. UniqueKeys(fw.rdr)
  BY DEF IpfOk
<1>3. /\ key \notin KeysOf(fw.rdr) => old = NoRow
      /\ key \in KeysOf(fw.rdr) => /\ old # NoRow /\ old.rhost = Ipf!ShownHost(e.rhost)
                                   /\ old.iaddr = e.iaddr /\ old.iport = e.iport
  BY <1>2, IpfGet
<1>4. key \in KeysOf(fw.rdr) =>
        /\ Bare(fw, key) = [rhost |-> e.rhost, iaddr |-> e.iaddr, iport |-> e.iport, desc |-> "none", ts |-> 0]
        /\ Bare(fw, key) # NoRow /\ SameHosts(Bare(fw, key), e) /\ Bare(fw, key).iport = e.iport
  BY BareFacts
<1>9. key \in KeysOf(fw.rdr) => (SameHosts(old, w) <=> SameMapping(TRUE, Bare(fw, key), BareWant(w)))
  <2> SUFFICES ASSUME key \in KeysOf(fw.rdr)
               PROVE  SameHosts(old, w) <=> SameMapping(TRUE, Bare(fw, key), BareWant(w))
    OBVIOUS
  <2> HIDE DEF old, e
  <2>1. BareWant(w).iaddr = w.iaddr /\ BareWant(w).rhost = w.rhost
    BY DEF BareWant
  <2>2. w.rhost \in Nat /\ e.rhost \in Nat
    <3>1. w.rhost \in Nat
      BY WantType
    <3>2. e \in RdrRules
      BY RowFacts DEF e
    <3>3. QED BY <3>1, <3>2 DEF RdrRules
  <2>3. Ipf!ShownHost(e.rhost) = w.rhost <=> (e.rhost = w.rhost /\ w.rhost # 0)
    BY <2>2 DEF Ipf!ShownHost, Ipf!AnyHost
  <2>4. SameHosts(old, w) <=> (e.iaddr = w.iaddr /\ e.rhost = w.rhost /\ w.rhost # 0)
    BY <1>3, <2>3 DEF SameHosts
  <2>5. QED BY <1>4, <2>1, <2>4 DEF SameMapping, SameHosts
<1>5. IpfHeld(fw, fw, key)
  BY DEF IpfHeld
<1> HIDE DEF a, g, x, old, e
<1>6. CASE key \notin KeysOf(fw.rdr)
  <2>1. a = x
    BY <1>1, <1>3, <1>6
  <2>2. /\ IpfHeld(fw, x.fw, key)
        /\ RedirectRow(FALSE, TRUE, Bare(fw, key), Bare(x.fw, key), BareWant(w), x.r)
    BY <1>6, IpfNew DEF x
  <2>3. QED BY <2>1, <2>2 DEF a
<1>7. CASE key \in KeysOf(fw.rdr)
  <2>1. CASE ~SameHosts(old, w)
    <3>1. a.fw = fw /\ a.r = -2
      BY <1>1, <1>3, <1>7, <2>1
    <3>3. Bare(fw, key) # NoRow /\ ~SameMapping(TRUE, Bare(fw, key), BareWant(w))
      BY <1>4, <1>7, <1>9, <2>1
    <3>4. QED BY <1>5, <3>1, <3>3 DEF a, RedirectRow
  <2>2. CASE SameHosts(old, w) /\ old.iport # w.iport
    <3>1. a.fw = fw /\ a.r = -1
      BY <1>1, <1>3, <1>7, <2>2
    <3>2. QED BY <1>5, <3>1 DEF a, RedirectRow
  <2>3. CASE SameHosts(old, w) /\ old.iport = w.iport
    <3>1. a.fw = g /\ a.r = 0
      BY <1>1, <1>3, <1>7, <2>3
    <3>2. list \in Seq(Entries)
      <4>1. fw.list \in Seq(Entries)
        BY FwFields
      <4>2. Ipf!del_redirect_desc(fw.list, key) \in Seq(Entries)
        BY <4>1, IpfForgets
      <4>3. Entry(key, w.desc, w.ts) \in Entries
        BY WantType DEF Entry, Entries
      <4>4. ASSUME NEW s \in Seq(Entries), NEW desc, NEW ts, Entry(key, desc, ts) \in Entries
            PROVE  ListAdd(s, key, desc, ts) \in Seq(Entries)
        BY <4>4, ListAddIs
      <4>5. QED BY <4>2, <4>3, <4>4
    <3> HIDE DEF list
    <3>3. g \in FwT /\ g.rdr = fw.rdr /\ g.filter = fw.filter
      BY <3>2, SetList DEF g
    <3>4. IpfAlike(fw, g)
      BY <3>3 DEF IpfAlike, IpfOk
    <3>5. IpfHeld(fw, g, key) /\ Bare(g, key) = Bare(fw, key)
      BY <3>4, IpfAlikeHeld
    <3>7. SameMapping(TRUE, Bare(fw, key), BareWant(w))
      BY <1>7, <1>9, <2>3
    <3>6. Bare(fw, key) = BareWant(w)
      <4>1. Bare(fw, key).iaddr = w.iaddr /\ Bare(fw, key).rhost = w.rhost
        BY <3>7 DEF SameMapping, BareWant
      <4>2. e.iaddr = w.iaddr /\ e.rhost = w.rhost /\ e.iport = w.iport
        BY <1>3, <1>4, <1>7, <2>3, <4>1 DEF SameHosts
      <4>3. QED BY <1>4, <1>7, <4>2 DEF BareWant
    <3>8. QED BY <3>1, <3>5, <3>6, <3>7 DEF a, RedirectRow
  <2>4. QED BY <2>1, <2>2, <2>3
<1>8. QED BY <1>6, <1>7

LEMMA IpfDeleteIs ==
  ASSUME backend = "ipf", NEW key, NEW fails
  PROVE  LET d == Ipf!delete_redirect_rule(fw, key, fails)
             a == upnp_delete_redir(key, fails)
         IN a.fw = Ipf!delete_filter_rule(d.fw, key, fails).fw /\ a.r = d.r
<1> DEFINE d == Ipf!delete_redirect_rule(fw, key, fails)
           a == upnp_delete_redir(key, fails)
<1>1. a = ThenFilter(d, key, fails)
  BY DEF upnp_delete_redir
<1> HIDE DEF d, a
<1>2. QED BY <1>1 DEF ThenFilter, Answer, d, a

LEMMA IpfDelete ==
  ASSUME backend = "ipf", fw \in FwT, IpfOk(fw), NEW key \in Keys, NEW fails
  PROVE  LET a == upnp_delete_redir(key, fails)
         IN /\ IpfHeld(fw, a.fw, key)
            /\ DeleteRow(FALSE, Bare(fw, key), Bare(a.fw, key), a.r)
<1> DEFINE d == Ipf!delete_redirect_rule(fw, key, fails)
           u == Ipf!delete_filter_rule(d.fw, key, fails).fw
           a == upnp_delete_redir(key, fails)
<1>1. a.fw = u /\ a.r = d.r
  BY IpfDeleteIs
<1>2. IpfStays(fw, d) \/ IpfGone(fw, d, key)
  BY IpfDeleteRdr
<1> HIDE DEF d, a
<1>3. d.fw \in FwT /\ IpfOk(d.fw) => IpfHeld(d.fw, u, key) /\ Bare(u, key) = Bare(d.fw, key)
  BY IpfUnpass, IpfAlikeHeld
<1> HIDE DEF u
<1>4. CASE IpfStays(fw, d)
  <2>1. IpfAlike(fw, d.fw) /\ d.r = -1
    BY <1>4, IpfStaysAlike DEF IpfStays
  <2>2. IpfHeld(fw, d.fw, key) /\ Bare(d.fw, key) = Bare(fw, key)
    BY <2>1, IpfAlikeHeld
  <2>3. IpfHeld(d.fw, u, key) /\ Bare(u, key) = Bare(d.fw, key)
    BY <1>3, <2>2 DEF IpfHeld
  <2>4. IpfHeld(fw, u, key)
    BY <2>2, <2>3, IpfHeldThen
  <2>5. QED BY <1>1, <2>1, <2>2, <2>3, <2>4 DEF a, DeleteRow
<1>5. CASE IpfGone(fw, d, key)
  <2>1. IpfHeld(fw, d.fw, key) /\ Bare(d.fw, key) = NoRow
    BY <1>5, IpfGoneEffect
  <2>2. IpfHeld(d.fw, u, key) /\ Bare(u, key) = Bare(d.fw, key)
    BY <1>3, <2>1 DEF IpfHeld
  <2>3. IpfHeld(fw, u, key)
    BY <2>1, <2>2, IpfHeldThen
  <2>4. QED BY <1>1, <2>1, <2>2, <2>3 DEF a, DeleteRow
<1>6. QED BY <1>2, <1>4, <1>5

-----------------------------------------------------------------------------
(* The inductive invariant *)

(* What a backend keeps of its own rules and lists, whatever the kernel     *)
(* refuses: the copy nftables holds is that of the kernel's rules and the   *)
(* rules of a key go to one host; pf and ipfw have one rule for a key and   *)
(* remember nothing of a mapping that is gone; IPFilter has one rule for a  *)
(* key and pass rules only.                                                 *)
Good(b, f) ==
  /\ f \in FwT
  /\ b = "nft" => CacheOk(f) /\ SameAddr(f.rdr)
  /\ b \in {"pf", "ipfw"} => ListGood(f)
  /\ b = "ipf" => IpfOk(f)

IndInv == backend \in Compiled /\ Good(backend, fw)

(* upnp_redirect() can read the rules of the kernel: when it cannot, it     *)
(* takes a port in use for a free one                                       *)
FindsWork == "find" \notin Faults

(* no description reads as the label of a pinhole *)
PlainDescs == \A w \in Wants : w.desc \notin DOMAIN Labels

LEMMA Finds ==
  ASSUME FindsWork, NEW fails \in FailSets
  PROVE  "find" \notin fails
BY DEF FindsWork, FailSets

LEMMA PlainWant ==
  ASSUME PlainDescs, NEW w \in Wants
  PROVE  w \in PlainWants
BY DEF PlainDescs, PlainWants

LEMMA BackendNames == backend \in Compiled => backend \in {"pf", "nft", "ipf", "ipfw"}
BY BackendsAssumption

(* the rows and the request as the abstract table sees them *)
TableRow(b, f, key) == IF b = "ipf" THEN Bare(f, key) ELSE RowAt(b, f, key)
Asked(b, w) == IF b = "ipf" THEN BareWant(w) ELSE w

(* A request on a key: the rows of other keys and the pinholes are the same *)
Apart(b, f, g, key) ==
  /\ \A k : k # key => TableRow(b, g, k) = TableRow(b, f, k)
  /\ Pins(g.filter) = Pins(f.filter)

LEMMA KeepsRows ==
  ASSUME NEW b, b # "ipf", NEW f, NEW g, NEW key, Keeps(f, g, key)
  PROVE  \A k : k # key => TableRow(b, g, k) = TableRow(b, f, k)
BY DEF Keeps, TableRow, RowAt

LEMMA IpfApart ==
  ASSUME NEW f, NEW g, NEW key, IpfOk(f), IpfHeld(f, g, key)
  PROVE  Good("ipf", g) /\ Apart("ipf", f, g, key)
<1>1. g \in FwT /\ IpfOk(g) /\ \A k : k # key => First(g.rdr, k) = First(f.rdr, k)
  BY DEF IpfHeld
<1>2. Good("ipf", g)
  BY <1>1 DEF Good
<1>3. \A k : k # key => TableRow("ipf", g, k) = TableRow("ipf", f, k)
  BY <1>1 DEF TableRow, Bare
<1>4. Pins(f.filter) = << >> /\ Pins(g.filter) = << >>
  BY <1>1, NoPins DEF IpfOk
<1>5. QED BY <1>2, <1>3, <1>4 DEF Apart

LEMMA HeldApart ==
  ASSUME NEW b \in {"pf", "ipfw"}, NEW f, NEW g, NEW key, Held(f, g, key)
  PROVE  Good(b, g) /\ Apart(b, f, g, key)
<1>1. g \in FwT /\ ListGood(g) /\ Keeps(f, g, key) /\ Pins(g.filter) = Pins(f.filter)
  BY DEF Held
<1>2. b # "ipf" /\ b # "nft"
  OBVIOUS
<1>3. Good(b, g)
  BY <1>1, <1>2 DEF Good
<1>4. QED BY <1>1, <1>2, <1>3, KeepsRows DEF Apart

LEMMA NftApart ==
  ASSUME NEW f, NEW g, NEW key, g \in FwT, CacheOk(g), NftHeld(f, g, key)
  PROVE  Good("nft", g) /\ Apart("nft", f, g, key)
<1>1. SameAddr(g.rdr) /\ Keeps(f, g, key) /\ Pins(g.filter) = Pins(f.filter)
  BY DEF NftHeld
<1>2. Good("nft", g)
  BY <1>1 DEF Good
<1>3. QED BY <1>1, <1>2, KeepsRows DEF Apart

LEMMA RedirectEffect ==
  ASSUME IndInv, NEW key \in Keys, NEW w \in PlainWants, NEW fails, "find" \notin fails
  PROVE  LET a == upnp_redirect(key, w, fails)
         IN /\ Good(backend, a.fw) /\ Apart(backend, fw, a.fw, key)
            /\ RedirectRow(backend = "nft", backend = "ipf", TableRow(backend, fw, key), TableRow(backend, a.fw, key),
                           Asked(backend, w), a.r)
<1> DEFINE a == upnp_redirect(key, w, fails)
<1>1. fw \in FwT
  BY DEF IndInv, Good
<1>2. CASE backend = "pf"
  <2>1. ListGood(fw)
    BY <1>2 DEF IndInv, Good
  <2>2. Held(fw, a.fw, key) /\ RedirectRow(FALSE, FALSE, RowAt("pf", fw, key), RowAt("pf", a.fw, key), w, a.r)
    BY <1>1, <1>2, <2>1, PfRedirect
  <2> HIDE DEF a
  <2>3. Asked(backend, w) = w
        /\ \A g : TableRow(backend, g, key) = RowAt("pf", g, key)
    BY <1>2 DEF Asked, TableRow
  <2>4. Good(backend, a.fw) /\ Apart(backend, fw, a.fw, key)
    BY <1>2, <2>2, HeldApart
  <2>5. RedirectRow(backend = "nft", backend = "ipf", TableRow(backend, fw, key), TableRow(backend, a.fw, key),
                   Asked(backend, w), a.r)
    BY <1>2, <2>2, <2>3 DEF RedirectRow, SameMapping
  <2>6. QED BY <2>4, <2>5 DEF a
<1>3. CASE backend = "ipfw"
  <2>1. ListGood(fw)
    BY <1>3 DEF IndInv, Good
  <2>2. Held(fw, a.fw, key) /\ RedirectRow(FALSE, FALSE, RowAt("ipfw", fw, key), RowAt("ipfw", a.fw, key), w, a.r)
    BY <1>1, <1>3, <2>1, IpfwRedirect
  <2> HIDE DEF a
  <2>3. Asked(backend, w) = w
        /\ \A g : TableRow(backend, g, key) = RowAt("ipfw", g, key)
    BY <1>3 DEF Asked, TableRow
  <2>4. Good(backend, a.fw) /\ Apart(backend, fw, a.fw, key)
    BY <1>3, <2>2, HeldApart
  <2>5. RedirectRow(backend = "nft", backend = "ipf", TableRow(backend, fw, key), TableRow(backend, a.fw, key),
                   Asked(backend, w), a.r)
    BY <1>3, <2>2, <2>3 DEF RedirectRow, SameMapping
  <2>6. QED BY <2>4, <2>5 DEF a
<1>4. CASE backend = "nft"
  <2>1. CacheOk(fw) /\ SameAddr(fw.rdr)
    BY <1>4 DEF IndInv, Good
  <2>2. /\ a.fw \in FwT /\ CacheOk(a.fw) /\ NftHeld(fw, a.fw, key)
        /\ RedirectRow(TRUE, FALSE, RowAt("nft", fw, key), RowAt("nft", a.fw, key), w, a.r)
    BY <1>1, <1>4, <2>1, NftRedirectRow
  <2> HIDE DEF a
  <2>3. Asked(backend, w) = w
        /\ \A g : TableRow(backend, g, key) = RowAt("nft", g, key)
    BY <1>4 DEF Asked, TableRow
  <2>4. Good(backend, a.fw) /\ Apart(backend, fw, a.fw, key)
    BY <1>4, <2>2, NftApart
  <2>5. RedirectRow(backend = "nft", backend = "ipf", TableRow(backend, fw, key), TableRow(backend, a.fw, key),
                   Asked(backend, w), a.r)
    BY <1>4, <2>2, <2>3 DEF RedirectRow, SameMapping
  <2>6. QED BY <2>4, <2>5 DEF a
<1>5. CASE backend = "ipf"
  <2>1. IpfOk(fw)
    BY <1>5 DEF IndInv, Good
  <2>2. /\ IpfHeld(fw, a.fw, key)
        /\ RedirectRow(FALSE, TRUE, Bare(fw, key), Bare(a.fw, key), BareWant(w), a.r)
    BY <1>1, <1>5, <2>1, IpfRedirect
  <2> HIDE DEF a
  <2>3. Asked(backend, w) = BareWant(w)
        /\ \A g : TableRow(backend, g, key) = Bare(g, key)
    BY <1>5 DEF Asked, TableRow
  <2>4. Good(backend, a.fw) /\ Apart(backend, fw, a.fw, key)
    BY <1>5, <2>1, <2>2, IpfApart
  <2>5. RedirectRow(backend = "nft", backend = "ipf", TableRow(backend, fw, key), TableRow(backend, a.fw, key),
                   Asked(backend, w), a.r)
    BY <1>5, <2>2, <2>3 DEF RedirectRow, SameMapping
  <2>6. QED BY <2>4, <2>5 DEF a
<1>6. QED BY <1>2, <1>3, <1>4, <1>5, BackendNames DEF IndInv

LEMMA DeleteEffect ==
  ASSUME IndInv, NEW key \in Keys, NEW fails
  PROVE  LET a == upnp_delete_redir(key, fails)
         IN /\ Good(backend, a.fw) /\ Apart(backend, fw, a.fw, key)
            /\ DeleteRow(backend = "nft", TableRow(backend, fw, key), TableRow(backend, a.fw, key), a.r)
<1> DEFINE a == upnp_delete_redir(key, fails)
<1>1. fw \in FwT
  BY DEF IndInv, Good
<1>2. CASE backend = "pf"
  <2>1. ListGood(fw)
    BY <1>2 DEF IndInv, Good
  <2>2. a = Pf!delete_redirect_and_filter_rules(fw, key, fails)
    BY <1>2 DEF upnp_delete_redir
  <2> HIDE DEF a
  <2>3. Held(fw, a.fw, key) /\ DeleteRow(FALSE, RowAt("pf", fw, key), RowAt("pf", a.fw, key), a.r)
    BY <1>1, <2>1, <2>2, PfDelete
  <2>4. \A g : TableRow(backend, g, key) = RowAt("pf", g, key)
    BY <1>2 DEF TableRow
  <2>5. Good(backend, a.fw) /\ Apart(backend, fw, a.fw, key)
    BY <1>2, <2>3, HeldApart
  <2>6. DeleteRow(backend = "nft", TableRow(backend, fw, key), TableRow(backend, a.fw, key), a.r)
    BY <1>2, <2>3, <2>4 DEF DeleteRow
  <2>7. QED BY <2>5, <2>6 DEF a
<1>3. CASE backend = "ipfw"
  <2>1. ListGood(fw)
    BY <1>3 DEF IndInv, Good
  <2>2. Held(fw, a.fw, key) /\ DeleteRow(FALSE, RowAt("ipfw", fw, key), RowAt("ipfw", a.fw, key), a.r)
    BY <1>1, <1>3, <2>1, IpfwDelete
  <2> HIDE DEF a
  <2>3. \A g : TableRow(backend, g, key) = RowAt("ipfw", g, key)
    BY <1>3 DEF TableRow
  <2>4. Good(backend, a.fw) /\ Apart(backend, fw, a.fw, key)
    BY <1>3, <2>2, HeldApart
  <2>5. DeleteRow(backend = "nft", TableRow(backend, fw, key), TableRow(backend, a.fw, key), a.r)
    BY <1>3, <2>2, <2>3 DEF DeleteRow
  <2>6. QED BY <2>4, <2>5 DEF a
<1>4. CASE backend = "nft"
  <2>1. CacheOk(fw) /\ SameAddr(fw.rdr)
    BY <1>4 DEF IndInv, Good
  <2>2. a = Nft!delete_redirect_and_filter_rules(fw, key, fails)
    BY <1>4 DEF upnp_delete_redir
  <2> HIDE DEF a
  <2>3. /\ a.fw \in FwT /\ CacheOk(a.fw) /\ NftHeld(fw, a.fw, key)
        /\ DeleteRow(TRUE, RowAt("nft", fw, key), RowAt("nft", a.fw, key), a.r)
    BY <1>1, <2>1, <2>2, NftDeleteRow
  <2>4. \A g : TableRow(backend, g, key) = RowAt("nft", g, key)
    BY <1>4 DEF TableRow
  <2>5. Good(backend, a.fw) /\ Apart(backend, fw, a.fw, key)
    BY <1>4, <2>3, NftApart
  <2>6. DeleteRow(backend = "nft", TableRow(backend, fw, key), TableRow(backend, a.fw, key), a.r)
    BY <1>4, <2>3, <2>4 DEF DeleteRow
  <2>7. QED BY <2>5, <2>6 DEF a
<1>5. CASE backend = "ipf"
  <2>1. IpfOk(fw)
    BY <1>5 DEF IndInv, Good
  <2>2. IpfHeld(fw, a.fw, key) /\ DeleteRow(FALSE, Bare(fw, key), Bare(a.fw, key), a.r)
    BY <1>1, <1>5, <2>1, IpfDelete
  <2> HIDE DEF a
  <2>3. \A g : TableRow(backend, g, key) = Bare(g, key)
    BY <1>5 DEF TableRow
  <2>4. Good(backend, a.fw) /\ Apart(backend, fw, a.fw, key)
    BY <1>5, <2>1, <2>2, IpfApart
  <2>5. DeleteRow(backend = "nft", TableRow(backend, fw, key), TableRow(backend, a.fw, key), a.r)
    BY <1>5, <2>2, <2>3 DEF DeleteRow
  <2>6. QED BY <2>4, <2>5 DEF a
<1>6. QED BY <1>2, <1>3, <1>4, <1>5, BackendNames DEF IndInv

(* A step on a pinhole: the mappings and their pass rules are the same *)
PinholeEffect(b, f, g) ==
  /\ Good(b, g) /\ \A k : TableRow(b, g, k) = TableRow(b, f, k) /\ RowAt(b, g, k) = RowAt(b, f, k)
  /\ g.rdr = f.rdr /\ g.nat = f.nat /\ Passes(g.filter) = Passes(f.filter)

LEMMA PinholeOnly ==
  ASSUME IndInv, HasPinholes, NEW g, PinholeStepOk(fw, g), backend = "nft" => CacheOk(g)
  PROVE  PinholeEffect(backend, fw, g)
<1>1. backend \in {"pf", "nft"}
  BY DEF HasPinholes
<1>2. /\ g \in FwT /\ g.rdr = fw.rdr /\ g.list = fw.list /\ g.nat = fw.nat
      /\ Passes(g.filter) = Passes(fw.filter)
  BY DEF PinholeStepOk
<1>3. backend # "ipf" /\ backend # "ipfw"
  BY <1>1
<1>4. Good(backend, g)
  BY <1>2, <1>3 DEF IndInv, Good, ListGood
<1>5. \A k : RowAt(backend, g, k) = RowAt(backend, fw, k)
  BY <1>2 DEF RowAt
<1>6. QED BY <1>2, <1>3, <1>4, <1>5 DEF PinholeEffect, TableRow

LEMMA AddPinholeEffect ==
  ASSUME IndInv, HasPinholes, NEW p \in Pinholes, NEW ts \in PinholeTs, NEW fails
  PROVE  PinholeEffect(backend, fw, upnp_add_inboundpinhole(p, ts, fails).fw)
<1> DEFINE uid == find_pinhole(p, fails)
           f == Nft!refresh_nft_cache_filter(fw, fails)
           a == upnp_add_inboundpinhole(p, ts, fails)
<1>1. fw \in FwT /\ ts \in Nat
  BY BackendsAssumption DEF IndInv, Good
<1>2. CASE backend = "pf"
  <2>1. a = IF uid >= 0 THEN Pf!update_pinhole(fw, uid, ts, fails)
            ELSE Pf!add_pinhole(fw, p, ts, MaxUid, fails)
    BY <1>2 DEF upnp_add_inboundpinhole
  <2>2. Pf!update_pinhole(fw, uid, ts, fails).fw = fw
    BY DEF Pf!update_pinhole, Pf!Answer
  <2>3. PinholeStepOk(fw, fw)
    BY <1>1 DEF PinholeStepOk
  <2>4. PinholeStepOk(fw, Pf!add_pinhole(fw, p, ts, MaxUid, fails).fw)
    BY <1>1, PfAddPinhole
  <2> HIDE DEF a, uid
  <2>5. PinholeStepOk(fw, a.fw)
    BY <2>1, <2>2, <2>3, <2>4
  <2>6. QED BY <1>2, <2>5, PinholeOnly DEF a
<1>3. CASE backend = "nft"
  <2>1. a = IF uid >= 0 THEN Nft!update_pinhole(f, uid, ts, fails)
            ELSE Nft!add_pinhole(f, p, ts, MaxUid, fails)
    BY <1>3 DEF upnp_add_inboundpinhole
  <2>2. CacheOk(fw)
    BY <1>3 DEF IndInv, Good
  <2>3. f \in FwT /\ CacheOk(f) /\ f.rdr = fw.rdr /\ f.filter = fw.filter /\ f.nat = fw.nat /\ f.list = fw.list
    BY <1>1, <2>2, RefreshedFilter
  <2> HIDE DEF a, f, uid
  <2>4. PinholeStepOk(f, Nft!update_pinhole(f, uid, ts, fails).fw) /\ CacheOk(Nft!update_pinhole(f, uid, ts, fails).fw)
    BY <1>1, <2>3, NftUpdatePinhole
  <2>5. PinholeStepOk(f, Nft!add_pinhole(f, p, ts, MaxUid, fails).fw)
        /\ CacheOk(Nft!add_pinhole(f, p, ts, MaxUid, fails).fw)
    BY <1>1, <2>3, NftAddPinhole
  <2>6. PinholeStepOk(f, a.fw) /\ CacheOk(a.fw)
    BY <2>1, <2>4, <2>5
  <2>7. PinholeStepOk(fw, a.fw)
    BY <2>3, <2>6 DEF PinholeStepOk
  <2>8. QED BY <2>6, <2>7, PinholeOnly DEF a
<1>4. QED BY <1>2, <1>3 DEF HasPinholes

LEMMA OldPinholeEffect ==
  ASSUME IndInv, HasPinholes, NEW uid, NEW now, NEW fails
  PROVE  /\ PinholeEffect(backend, fw, (IF backend = "pf" THEN Pf!delete_pinhole(fw, uid, fails)
                                        ELSE Nft!delete_pinhole(fw, uid, fails)).fw)
         /\ PinholeEffect(backend, fw, (IF backend = "pf" THEN Pf!clean_pinhole_list(fw, now, MaxUid, fails)
                                        ELSE Nft!clean_pinhole_list(fw, now, MaxUid, fails)).fw)
<1>1. fw \in FwT
  BY DEF IndInv, Good
<1>2. CASE backend = "pf"
  <2>1. PinholeStepOk(fw, Pf!delete_pinhole(fw, uid, fails).fw)
    BY <1>1, PfDeletePinhole
  <2>2. PinholeStepOk(fw, Pf!clean_pinhole_list(fw, now, MaxUid, fails).fw)
    BY <1>1, PfClean
  <2>3. backend # "nft"
    BY <1>2
  <2>4. PinholeEffect(backend, fw, Pf!delete_pinhole(fw, uid, fails).fw)
    BY <2>1, <2>3, PinholeOnly
  <2>5. PinholeEffect(backend, fw, Pf!clean_pinhole_list(fw, now, MaxUid, fails).fw)
    BY <2>2, <2>3, PinholeOnly
  <2>6. QED BY <1>2, <2>4, <2>5
<1>3. CASE backend = "nft"
  <2>1. CacheOk(fw)
    BY <1>3 DEF IndInv, Good
  <2>2. PinholeStepOk(fw, Nft!delete_pinhole(fw, uid, fails).fw) /\ CacheOk(Nft!delete_pinhole(fw, uid, fails).fw)
    BY <1>1, <2>1, NftDeletePinhole
  <2>3. PinholeStepOk(fw, Nft!clean_pinhole_list(fw, now, MaxUid, fails).fw)
        /\ CacheOk(Nft!clean_pinhole_list(fw, now, MaxUid, fails).fw)
    BY <1>1, <2>1, NftClean
  <2>4. PinholeEffect(backend, fw, Nft!delete_pinhole(fw, uid, fails).fw)
    BY <2>2, PinholeOnly
  <2>5. PinholeEffect(backend, fw, Nft!clean_pinhole_list(fw, now, MaxUid, fails).fw)
    BY <2>3, PinholeOnly
  <2>6. backend # "pf"
    BY <1>3
  <2>7. QED BY <2>4, <2>5, <2>6
<1>4. QED BY <1>2, <1>3 DEF HasPinholes

(* the lists of the daemon, when it starts *)
LEMMA NothingKept ==
  /\ << >> \in Seq(Entries) /\ \A k : First(<< >>, k) = {}
  /\ UniqueKeys(<< >>) /\ KeysOf(<< >>) = {}
  /\ EmptyCache \in [rdr : RdrCaches, filter : FilterCaches] /\ 1 \in 1 .. MaxUid - 1
<1>1. ASSUME NEW S PROVE << >> \in Seq(S) /\ Len(<< >>) = 0 /\ DOMAIN << >> = {}
  <2>1. << >> \in Seq(S) /\ Len(<< >>) = 0
    BY EmptySeq
  <2>2. DOMAIN << >> = 1 .. Len(<< >>)
    BY <2>1, DomainIsLen
  <2>3. QED BY <2>1, <2>2
<1>2. UniqueKeys(<< >>) /\ KeysOf(<< >>) = {}
  BY <1>1 DEF UniqueKeys, KeysOf
<1>3. ASSUME NEW k PROVE First(<< >>, k) = {}
  BY <1>1, <1>2, FirstFacts
<1>4. EmptyCache \in [rdr : RdrCaches, filter : FilterCaches]
  BY DEF EmptyCache, RdrCaches, FilterCaches
<1>5. 1 \in 1 .. MaxUid - 1
  BY BackendsAssumption
<1>6. QED BY <1>1, <1>2, <1>3, <1>4, <1>5

Restarted(f) == [f EXCEPT !.list = << >>, !.cache = EmptyCache, !.next_uid = 1]

LEMMA RestartEffect ==
  ASSUME IndInv
  PROVE  LET g == Restarted(fw)
         IN /\ Good(backend, g) /\ g.rdr = fw.rdr /\ g.filter = fw.filter /\ g.nat = fw.nat
            /\ \A k : First(g.list, k) = {}
<1> DEFINE g == Restarted(fw)
<1>1. fw \in FwT
  BY DEF IndInv, Good
<1>2. /\ g \in FwT /\ g.rdr = fw.rdr /\ g.filter = fw.filter /\ g.nat = fw.nat
      /\ g.list = << >> /\ g.cache = EmptyCache
  <2> HIDE DEF EmptyCache
  <2>1. QED BY <1>1, NothingKept DEF FwT, Restarted
<1> HIDE DEF g
<1>3. CacheOk(g)
  BY <1>2 DEF CacheOk, EmptyCache
<1>4. backend = "nft" => SameAddr(g.rdr)
  BY <1>2 DEF IndInv, Good
<1>5. backend \in {"pf", "ipfw"} => ListGood(g)
  BY <1>2, NothingKept DEF IndInv, Good, ListGood
<1>6. backend = "ipf" => IpfOk(g)
  BY <1>2 DEF IndInv, Good, IpfOk
<1>7. Good(backend, g)
  BY <1>2, <1>3, <1>4, <1>5, <1>6 DEF Good
<1>8. QED BY <1>2, <1>7, NothingKept DEF g

(* What a step does, as the properties see it *)
DidRedirect(key, w, r) ==
  /\ reply' = [op |-> "redirect", key |-> key, want |-> w, r |-> r]
  /\ Apart(backend, fw, fw', key)
  /\ RedirectRow(backend = "nft", backend = "ipf", TableRow(backend, fw, key), TableRow(backend, fw', key),
                 Asked(backend, w), r)

DidDelete(key, r) ==
  /\ reply' = [op |-> "delete", key |-> key, want |-> NoRow, r |-> r]
  /\ Apart(backend, fw, fw', key)
  /\ DeleteRow(backend = "nft", TableRow(backend, fw, key), TableRow(backend, fw', key), r)

DidPinhole == reply' = reply /\ PinholeEffect(backend, fw, fw')

DidRestart ==
  /\ reply' = NoReply /\ fw'.rdr = fw.rdr /\ fw'.filter = fw.filter /\ fw'.nat = fw.nat
  /\ \A k : First(fw'.list, k) = {}

LEMMA Steps ==
  ASSUME FindsWork, PlainDescs, IndInv, [Next]_vars
  PROVE  /\ IndInv' /\ backend' = backend
         /\ \/ UNCHANGED vars
            \/ \E key \in Keys, w \in Wants : \E r : DidRedirect(key, w, r)
            \/ \E key \in Keys : \E r : DidDelete(key, r)
            \/ DidPinhole
            \/ DidRestart
<1>0. backend \in Compiled
  BY DEF IndInv
<1>1. ASSUME NEW key \in Keys, NEW w \in Wants, NEW fails \in FailSets, Redirect(key, w, fails)
      PROVE  IndInv' /\ backend' = backend /\ \E r : DidRedirect(key, w, r)
  <2> DEFINE a == upnp_redirect(key, w, fails)
  <2>1. /\ fw' = a.fw /\ reply' = [op |-> "redirect", key |-> key, want |-> w, r |-> a.r]
        /\ backend' = backend
    BY <1>1 DEF Redirect
  <2>2. /\ Good(backend, a.fw) /\ Apart(backend, fw, a.fw, key)
        /\ RedirectRow(backend = "nft", backend = "ipf", TableRow(backend, fw, key), TableRow(backend, a.fw, key),
                       Asked(backend, w), a.r)
    <3>1. w \in PlainWants /\ "find" \notin fails
      BY Finds, PlainWant
    <3>2. QED BY <3>1, RedirectEffect
  <2> HIDE DEF a
  <2>3. IndInv'
    BY <1>0, <2>1, <2>2 DEF IndInv
  <2>4. DidRedirect(key, w, a.r)
    BY <2>1, <2>2 DEF DidRedirect
  <2>5. QED BY <2>1, <2>3, <2>4
<1>2. ASSUME NEW key \in Keys, NEW fails, Delete(key, fails)
      PROVE  IndInv' /\ backend' = backend /\ \E r : DidDelete(key, r)
  <2> DEFINE a == upnp_delete_redir(key, fails)
  <2>1. /\ fw' = a.fw /\ reply' = [op |-> "delete", key |-> key, want |-> NoRow, r |-> a.r]
        /\ backend' = backend
    BY <1>2 DEF Delete
  <2>2. /\ Good(backend, a.fw) /\ Apart(backend, fw, a.fw, key)
        /\ DeleteRow(backend = "nft", TableRow(backend, fw, key), TableRow(backend, a.fw, key), a.r)
    BY DeleteEffect
  <2> HIDE DEF a
  <2>3. IndInv'
    BY <1>0, <2>1, <2>2 DEF IndInv
  <2>4. DidDelete(key, a.r)
    BY <2>1, <2>2 DEF DidDelete
  <2>5. QED BY <2>1, <2>3, <2>4
<1>3. ASSUME NEW a, NEW fails, PinholeStep(a, fails), HasPinholes => PinholeEffect(backend, fw, a.fw)
      PROVE  IndInv' /\ backend' = backend /\ DidPinhole
  <2>1. HasPinholes /\ fw' = a.fw /\ backend' = backend /\ reply' = reply
    BY <1>3 DEF PinholeStep
  <2>2. PinholeEffect(backend, fw, a.fw)
    BY <1>3, <2>1
  <2>3. Good(backend, a.fw)
    BY <2>2 DEF PinholeEffect
  <2>4. QED BY <1>0, <2>1, <2>2, <2>3 DEF IndInv, DidPinhole
<1>4. ASSUME NEW p \in Pinholes, NEW ts \in PinholeTs, NEW fails, AddPinhole(p, ts, fails)
      PROVE  IndInv' /\ backend' = backend /\ DidPinhole
  <2> DEFINE a == upnp_add_inboundpinhole(p, ts, fails)
  <2>1. PinholeStep(a, fails)
    BY <1>4 DEF AddPinhole
  <2>2. HasPinholes => PinholeEffect(backend, fw, a.fw)
    BY AddPinholeEffect
  <2> HIDE DEF a
  <2>3. QED BY <1>3, <2>1, <2>2
<1>5. ASSUME NEW uid, NEW fails, DeletePinhole(uid, fails)
      PROVE  IndInv' /\ backend' = backend /\ DidPinhole
  <2> DEFINE a == IF backend = "pf" THEN Pf!delete_pinhole(fw, uid, fails)
                  ELSE Nft!delete_pinhole(fw, uid, fails)
  <2>1. PinholeStep(a, fails)
    BY <1>5 DEF DeletePinhole
  <2>2. HasPinholes => PinholeEffect(backend, fw, a.fw)
    BY OldPinholeEffect
  <2> HIDE DEF a
  <2>3. QED BY <1>3, <2>1, <2>2
<1>6. ASSUME NEW now, NEW fails, CleanPinholes(now, fails)
      PROVE  IndInv' /\ backend' = backend /\ DidPinhole
  <2> DEFINE a == IF backend = "pf" THEN Pf!clean_pinhole_list(fw, now, MaxUid, fails)
                  ELSE Nft!clean_pinhole_list(fw, now, MaxUid, fails)
  <2>1. PinholeStep(a, fails)
    BY <1>6 DEF CleanPinholes
  <2>2. HasPinholes => PinholeEffect(backend, fw, a.fw)
    BY OldPinholeEffect
  <2> HIDE DEF a
  <2>3. QED BY <1>3, <2>1, <2>2
<1>7. ASSUME Restart
      PROVE  IndInv' /\ backend' = backend /\ DidRestart
  <2> DEFINE g == Restarted(fw)
  <2>1. fw' = g /\ reply' = NoReply /\ backend' = backend
    BY <1>7 DEF Restart, Restarted
  <2>2. /\ Good(backend, g) /\ g.rdr = fw.rdr /\ g.filter = fw.filter /\ g.nat = fw.nat
        /\ \A k : First(g.list, k) = {}
    BY RestartEffect
  <2> HIDE DEF g
  <2>3. QED BY <1>0, <2>1, <2>2 DEF IndInv, DidRestart
<1>8. ASSUME UNCHANGED vars
      PROVE  IndInv' /\ backend' = backend
  BY <1>8 DEF IndInv, vars
<1>9. QED BY <1>1, <1>2, <1>4, <1>5, <1>6, <1>7, <1>8 DEF Next

LEMMA InitGood ==
  ASSUME Init
  PROVE  IndInv
<1> DEFINE f == init_redirect
<1>1. fw = f /\ backend \in Compiled
  BY DEF Init
<1>2. ASSUME NEW S PROVE << >> \in Seq(S)
  BY EmptySeq
<1>3. /\ f \in FwT /\ f.rdr = << >> /\ f.filter = << >> /\ f.list = << >> /\ f.cache = EmptyCache
  <2> HIDE DEF EmptyCache
  <2>1. << >> \in Seq(RdrRules) /\ << >> \in Seq(FilterRules) /\ << >> \in Seq(NatRules) /\ << >> \in Seq(Entries)
    BY <1>2
  <2>2. QED BY <2>1, NothingKept DEF FwT, init_redirect
<1> HIDE DEF f
<1>4. CacheOk(f)
  BY <1>3 DEF CacheOk, EmptyCache
<1>5. SameAddr(f.rdr)
  <2>1. DOMAIN << >> = {}
    OBVIOUS
  <2>2. QED BY <1>3, <2>1 DEF SameAddr, ToSet
<1>6. ListGood(f) /\ IpfOk(f)
  BY <1>2, <1>3, NothingKept DEF ListGood, IpfOk
<1>7. QED BY <1>1, <1>3, <1>4, <1>5, <1>6 DEF IndInv, Good

(* Whatever changes the kernel refuses and whenever the daemon restarts,    *)
(* every backend keeps its rules, its copies of them and its own lists in   *)
(* step (see Good), when upnp_redirect() can read the rules and no          *)
(* description reads as the label of a pinhole.                             *)
THEOREM Inductive ==
  ASSUME FindsWork, PlainDescs
  PROVE  Spec => []IndInv
<1>1. Init => IndInv
  BY InitGood
<1>2. IndInv /\ [Next]_vars => IndInv'
  BY Steps
<1>3. QED BY <1>1, <1>2, PTL DEF Spec

-----------------------------------------------------------------------------
(* nftables answers from a copy of the kernel's rules *)

LEMMA FreshCaches ==
  ASSUME IndInv
  PROVE  CacheFresh
<1> SUFFICES ASSUME backend = "nft" PROVE CacheFresh
  BY DEF CacheFresh
<1>1. fw \in FwT /\ CacheOk(fw)
  BY DEF IndInv, Good
<1>2. fw.rdr \in Seq(RdrRules) /\ fw.filter \in Seq(FilterRules)
  BY <1>1, FwFields
<1>3. Nft!Invalid.valid = FALSE
  BY DEF Nft!Invalid
<1>4. ASSUME fw.cache.rdr.valid
      PROVE  /\ Len(fw.cache.rdr.rules) = Len(fw.rdr)
             /\ \A i \in DOMAIN fw.rdr :
                  fw.cache.rdr.rules[Nft!Handle(fw.rdr, i)] = CachedRdr(fw.rdr[i])
  <2>1. fw.cache.rdr = FreshRdr(fw.rdr)
    BY <1>1, <1>3, <1>4 DEF CacheOk
  <2>2. ASSUME NEW s \in Seq(RdrRules)
        PROVE  /\ Len(FreshRdr(s).rules) = Len(s)
               /\ \A i \in DOMAIN s : FreshRdr(s).rules[Nft!Handle(s, i)] = CachedRdr(s[i])
    <3>1. /\ Len(FreshRdr(s).rules) = Len(s)
          /\ \A i \in 1 .. Len(s) : FreshRdr(s).rules[i] = CachedRdr(s[Len(s) + 1 - i])
      BY FreshRdrFacts
    <3>2. Len(s) \in Nat /\ DOMAIN s = 1 .. Len(s)
      BY DomainIsLen
    <3>3. ASSUME NEW i \in 1 .. Len(s)
          PROVE  Len(s) + 1 - i \in 1 .. Len(s) /\ Len(s) + 1 - (Len(s) + 1 - i) = i
      BY <3>2
    <3>4. QED BY <3>1, <3>2, <3>3 DEF Nft!Handle
  <2>3. QED BY <1>2, <2>1, <2>2
<1>5. ASSUME fw.cache.filter.valid
      PROVE  /\ Len(fw.cache.filter.rules) = Len(fw.filter)
             /\ \A i \in DOMAIN fw.filter :
                  fw.cache.filter.rules[Nft!Handle(fw.filter, i)] = CachedFilter(fw.filter[i])
  <2>1. fw.cache.filter = FreshFilter(fw.filter)
    BY <1>1, <1>3, <1>5 DEF CacheOk
  <2>2. ASSUME NEW s \in Seq(FilterRules)
        PROVE  /\ Len(FreshFilter(s).rules) = Len(s)
               /\ \A i \in DOMAIN s : FreshFilter(s).rules[Nft!Handle(s, i)] = CachedFilter(s[i])
    <3>1. /\ Len(FreshFilter(s).rules) = Len(s)
          /\ \A i \in 1 .. Len(s) : FreshFilter(s).rules[i] = CachedFilter(s[Len(s) + 1 - i])
      BY FreshFilterFacts
    <3>2. Len(s) \in Nat /\ DOMAIN s = 1 .. Len(s)
      BY DomainIsLen
    <3>3. ASSUME NEW i \in 1 .. Len(s)
          PROVE  Len(s) + 1 - i \in 1 .. Len(s) /\ Len(s) + 1 - (Len(s) + 1 - i) = i
      BY <3>2
    <3>4. QED BY <3>1, <3>2, <3>3 DEF Nft!Handle
  <2>3. QED BY <1>2, <2>1, <2>2
<1>6. ASSUME NEW c, NEW e, c = CachedFilter(e)
      PROVE  /\ c.filter
             /\ <<c.proto, c.dport, c.sport, c.uid, c.ts>> = <<e.proto, e.port, e.rport, e.uid, e.ts>>
             /\ IF e.kind = "pinhole" THEN <<c.daddr6, c.saddr6, c.daddr>> = <<e.iaddr, e.rhost, 0>>
                ELSE <<c.daddr, c.daddr6>> = <<e.iaddr, 0>>
             /\ c.pinhole = ReadsAsPinhole(e)
  BY <1>6 DEF CachedFilter
<1> DEFINE Read(c, e) ==
             /\ c.filter
             /\ <<c.proto, c.dport, c.sport, c.uid, c.ts>> = <<e.proto, e.port, e.rport, e.uid, e.ts>>
             /\ IF e.kind = "pinhole" THEN <<c.daddr6, c.saddr6, c.daddr>> = <<e.iaddr, e.rhost, 0>>
                ELSE <<c.daddr, c.daddr6>> = <<e.iaddr, 0>>
             /\ c.pinhole = ReadsAsPinhole(e)
<1>7. \A c, e : c = CachedFilter(e) => Read(c, e)
  BY <1>6
<1>8. fw.cache.rdr.valid =>
        /\ Len(fw.cache.rdr.rules) = Len(fw.rdr)
        /\ \A i \in DOMAIN fw.rdr :
             fw.cache.rdr.rules[Nft!Handle(fw.rdr, i)]
               = [key |-> fw.rdr[i].key, rhost |-> fw.rdr[i].rhost, iaddr |-> fw.rdr[i].iaddr, iport |-> fw.rdr[i].iport,
                  desc |-> fw.rdr[i].desc, dnat |-> TRUE]
  BY <1>4 DEF CachedRdr
<1> HIDE DEF Read
<1>9. fw.cache.filter.valid =>
        /\ Len(fw.cache.filter.rules) = Len(fw.filter)
        /\ \A i \in DOMAIN fw.filter :
             Read(fw.cache.filter.rules[Nft!Handle(fw.filter, i)], fw.filter[i])
  BY <1>5, <1>7
<1>10. QED BY ONLY <1>8, <1>9 DEF CacheFresh, Read

(* The rules nftables answers from are those of the kernel: a valid cache   *)
(* is what reading the rules back now would give (refresh_nft_cache() and   *)
(* table_cb() of nftnlrdr_misc.c), and reading back the expressions of a    *)
(* rule gives the mapping or the pinhole it was built from.                 *)
THEOREM CacheIsFresh ==
  ASSUME FindsWork, PlainDescs
  PROVE  Spec => []CacheFresh
<1>1. IndInv => CacheFresh
  BY FreshCaches
<1>2. Spec => []IndInv
  BY Inductive
<1>3. QED BY <1>1, <1>2, PTL

-----------------------------------------------------------------------------
(* Mappings and pinholes *)

LEMMA StepsApart ==
  ASSUME FindsWork, PlainDescs, IndInv, [Next]_vars,
         \A k : RowOf(k) = RowAt(backend, fw, k), \A k : RowOf(k)' = RowAt(backend', fw', k)
  PROVE  IsKind("pinhole", fw') # IsKind("pinhole", fw)
           => /\ IsKind("pass", fw') = IsKind("pass", fw)
              /\ \A k \in Keys : RowOf(k)' = RowOf(k)
<1>1. fw \in FwT /\ fw' \in FwT /\ backend' = backend
  <2>1. IndInv' /\ backend' = backend
    BY Steps
  <2>2. QED BY <2>1 DEF IndInv, Good
<1>2. /\ IsKind("pass", fw) = Passes(fw.filter) /\ IsKind("pinhole", fw) = Pins(fw.filter)
      /\ IsKind("pass", fw') = Passes(fw'.filter) /\ IsKind("pinhole", fw') = Pins(fw'.filter)
  BY <1>1, KindIs
<1>3. \/ UNCHANGED vars
      \/ \E key \in Keys, w \in Wants : \E r : DidRedirect(key, w, r)
      \/ \E key \in Keys : \E r : DidDelete(key, r)
      \/ DidPinhole
      \/ DidRestart
  BY Steps
<1>4. CASE UNCHANGED vars
  BY <1>4 DEF vars
<1>5. CASE \E key \in Keys, w \in Wants : \E r : DidRedirect(key, w, r)
  <2>1. Pins(fw'.filter) = Pins(fw.filter)
    BY <1>5 DEF DidRedirect, Apart
  <2>2. QED BY <1>2, <2>1
<1>6. CASE \E key \in Keys : \E r : DidDelete(key, r)
  <2>1. Pins(fw'.filter) = Pins(fw.filter)
    BY <1>6 DEF DidDelete, Apart
  <2>2. QED BY <1>2, <2>1
<1>7. CASE DidPinhole
  <2>1. Passes(fw'.filter) = Passes(fw.filter) /\ \A k : RowAt(backend, fw', k) = RowAt(backend, fw, k)
    BY <1>7 DEF DidPinhole, PinholeEffect
  <2>2. \A k : RowOf(k)' = RowOf(k)
    BY <1>1, <2>1
  <2>3. QED BY <1>2, <2>1, <2>2
<1>8. CASE DidRestart
  BY <1>2, <1>8 DEF DidRestart
<1>9. QED BY <1>3, <1>4, <1>5, <1>6, <1>7, <1>8

(* On the chain, the search by port and the cache that mappings and IPv6    *)
(* pinholes share, a step that changes one of the two kinds leaves the      *)
(* other alone: delete_filter_rule() of pf and nftables never takes the     *)
(* rule of a pinhole, and no pinhole function takes a pass rule.  No        *)
(* description of a mapping may read as the label of a pinhole.             *)
THEOREM PinholesAreApart ==
  ASSUME FindsWork, PlainDescs
  PROVE  Spec => PinholesApart
<1>1. IndInv /\ (\A k : RowOf(k) = RowAt(backend, fw, k)) /\ (\A k : RowOf(k) = RowAt(backend, fw, k))'
      /\ [Next]_vars
      => [IsKind("pinhole", fw') # IsKind("pinhole", fw)
            => /\ IsKind("pass", fw') = IsKind("pass", fw)
               /\ \A k \in Keys : RowOf(k)' = RowOf(k)]_vars
  BY StepsApart
<1>2. \A k : RowOf(k) = RowAt(backend, fw, k)
  BY RowIs
<1>3. Spec => []IndInv
  BY Inductive
<1>4. QED BY <1>1, <1>2, <1>3, PTL DEF Spec, PinholesApart

-----------------------------------------------------------------------------
(* The backends implement the table of commonrdr.h *)

(* a row without what the daemon remembers of it *)
Stripped(row) == [row EXCEPT !.desc = "none", !.ts = 0]

LEMMA RowStripped ==
  ASSUME NEW rhost, NEW iaddr, NEW iport, NEW desc, NEW ts
  PROVE  Stripped([rhost |-> rhost, iaddr |-> iaddr, iport |-> iport, desc |-> desc, ts |-> ts])
           = [rhost |-> rhost, iaddr |-> iaddr, iport |-> iport, desc |-> "none", ts |-> 0]
<1> DEFINE r == [rhost |-> rhost, iaddr |-> iaddr, iport |-> iport, desc |-> desc, ts |-> ts]
           q == [rhost |-> rhost, iaddr |-> iaddr, iport |-> iport, desc |-> "none", ts |-> ts]
<1>1. [r EXCEPT !.desc = "none"] = q
  OBVIOUS
<1>2. [q EXCEPT !.ts = 0] = [rhost |-> rhost, iaddr |-> iaddr, iport |-> iport, desc |-> "none", ts |-> 0]
  OBVIOUS
<1> HIDE DEF r, q
<1>3. [r EXCEPT !.desc = "none", !.ts = 0] = [[r EXCEPT !.desc = "none"] EXCEPT !.ts = 0]
  OBVIOUS
<1>4. [r EXCEPT !.desc = "none", !.ts = 0] = [rhost |-> rhost, iaddr |-> iaddr, iport |-> iport, desc |-> "none", ts |-> 0]
  BY <1>1, <1>2, <1>3
<1>5. QED BY <1>4 DEF r, Stripped

LEMMA TableRowIs ==
  ASSUME NEW k
  PROVE  Untracked(RowOf(k)) = TableRow(backend, fw, k)
<1>1. RowOf(k) = RowAt(backend, fw, k)
  BY RowIs
<1>2. CASE backend # "ipf"
  BY <1>1, <1>2 DEF Untracked, TableRow
<1>3. CASE backend = "ipf"
  <2> DEFINE R == First(fw.rdr, k)
             L == First(fw.list, k)
  <2>1. RowOf(k) = RowIn("ipf", R, L) /\ Bare(fw, k) = RowIn("ipf", R, {})
    BY <1>1, <1>3 DEF RowAt, Bare
  <2>2. (R = {} \/ \E e : R = {e}) /\ (L = {} \/ \E d : L = {d})
    BY DEF First
  <2> HIDE DEF R, L
  <2>3. CASE R = {}
    <3>1. RowOf(k) = NoRow /\ Bare(fw, k) = NoRow
      BY <2>1, <2>3, RowNone
    <3>2. Untracked(NoRow) = NoRow
      BY DEF Untracked, NoRow
    <3>3. QED BY <1>3, <3>1, <3>2 DEF TableRow
  <2>4. ASSUME NEW e, R = {e}
        PROVE  Untracked(RowOf(k)) = TableRow(backend, fw, k)
    <3>1. RowIn("ipf", {e}, {}) = [rhost |-> e.rhost, iaddr |-> e.iaddr, iport |-> e.iport,
            desc |-> IF "ipf" \in {"pf", "nft"} THEN e.desc ELSE "none", ts |-> 0]
      BY ONLY RowAlone
    <3>2. Bare(fw, k) = [rhost |-> e.rhost, iaddr |-> e.iaddr, iport |-> e.iport, desc |-> "none", ts |-> 0]
      BY <2>1, <2>4, <3>1
    <3>3. \E desc, ts : RowOf(k) = [rhost |-> e.rhost, iaddr |-> e.iaddr, iport |-> e.iport, desc |-> desc, ts |-> ts]
      <4>1. CASE L = {}
        BY <2>1, <2>4, <3>2, <4>1
      <4>2. ASSUME NEW d, L = {d}
            PROVE  \E desc, ts : RowOf(k) = [rhost |-> e.rhost, iaddr |-> e.iaddr, iport |-> e.iport, desc |-> desc, ts |-> ts]
        <5>1. RowIn("ipf", {e}, {d}) = [rhost |-> e.rhost, iaddr |-> e.iaddr, iport |-> e.iport,
                desc |-> IF "ipf" \in {"pf", "nft"} THEN e.desc ELSE d.desc, ts |-> d.ts]
          BY ONLY RowBoth
        <5>2. QED BY <2>1, <2>4, <4>2, <5>1
      <4>3. QED BY <2>2, <4>1, <4>2
    <3>4. PICK desc, ts : RowOf(k) = [rhost |-> e.rhost, iaddr |-> e.iaddr, iport |-> e.iport, desc |-> desc, ts |-> ts]
      BY <3>3
    <3>5. Untracked(RowOf(k)) = [rhost |-> e.rhost, iaddr |-> e.iaddr, iport |-> e.iport, desc |-> "none", ts |-> 0]
      <4>1. PICK rhost, iaddr, iport : rhost = e.rhost /\ iaddr = e.iaddr /\ iport = e.iport
        OBVIOUS
      <4>2. Stripped([rhost |-> rhost, iaddr |-> iaddr, iport |-> iport, desc |-> desc, ts |-> ts])
              = [rhost |-> rhost, iaddr |-> iaddr, iport |-> iport, desc |-> "none", ts |-> 0]
        BY ONLY RowStripped
      <4>3. \A row : Untracked(row) = Stripped(row)
        BY <1>3 DEF Untracked, Stripped
      <4>4. QED BY <3>4, <4>1, <4>2, <4>3
    <3>6. QED BY <1>3, <3>2, <3>5 DEF TableRow
  <2>5. QED BY <2>2, <2>3, <2>4
<1>4. QED BY <1>2, <1>3

TableNow == [k \in Keys |-> Untracked(RowOf(k))]

LEMMA TableNowIs == TableNow = [k \in Keys |-> TableRow(backend, fw, k)]
BY TableRowIs DEF TableNow

(* the rows of other keys are the same: the table changes at one key *)
LEMMA OneRow ==
  ASSUME NEW b, NEW f, NEW g, NEW key \in Keys, Apart(b, f, g, key)
  PROVE  [k \in Keys |-> TableRow(b, g, k)]
           = [[k \in Keys |-> TableRow(b, f, k)] EXCEPT ![key] = TableRow(b, g, key)]
BY DEF Apart

LEMMA ReplyFields ==
  \A op, key, want, r : reply = [op |-> op, key |-> key, want |-> want, r |-> r] =>
    /\ ReplyOf.op = op /\ ReplyOf.key = key /\ ReplyOf.r = r
    /\ backend # "ipf" => ReplyOf.want = want
    /\ backend = "ipf" => ReplyOf.want = Stripped(want)
<1> TAKE op, key, want, r
<1> HAVE reply = [op |-> op, key |-> key, want |-> want, r |-> r]
<1>1. CASE backend # "ipf"
  BY <1>1 DEF ReplyOf
<1>2. CASE backend = "ipf"
  <2>1. ReplyOf = [reply EXCEPT !.want.desc = "none", !.want.ts = 0]
    BY <1>2 DEF ReplyOf
  <2>2. QED BY <1>2, <2>1 DEF Stripped
<1>3. QED BY <1>1, <1>2

LEMMA AskedIs ==
  ASSUME NEW w \in PlainWants
  PROVE  backend = "ipf" => Stripped(w) = BareWant(w)
<1>1. PICK rhost, iaddr, iport, desc, ts :
                                    /\ w = [rhost |-> rhost, iaddr |-> iaddr, iport |-> iport, desc |-> desc, ts |-> ts]
                                    /\ rhost = w.rhost /\ iaddr = w.iaddr /\ iport = w.iport
  BY WantFields
<1>2. Stripped([rhost |-> rhost, iaddr |-> iaddr, iport |-> iport, desc |-> desc, ts |-> ts])
        = [rhost |-> rhost, iaddr |-> iaddr, iport |-> iport, desc |-> "none", ts |-> 0]
  BY ONLY RowStripped
<1>3. QED BY <1>1, <1>2 DEF BareWant

(* The row of a mapping after a restart *)
LEMMA RestartRow ==
  ASSUME NEW b, NEW f \in FwT, NEW g \in FwT, g.rdr = f.rdr, NEW k, First(g.list, k) = {}
  PROVE  LET old == TableRow(b, f, k)
             new == TableRow(b, g, k)
         IN \/ old = NoRow /\ new = NoRow
            \/ /\ old # NoRow /\ new.rhost = old.rhost /\ new.iaddr = old.iaddr /\ new.iport = old.iport
               /\ new.desc \in {old.desc, "none"} /\ new.ts = 0
<1> DEFINE old == TableRow(b, f, k)
           new == TableRow(b, g, k)
           e == f.rdr[KeyIndex(f.rdr, k)]
<1>1. CASE k \notin KeysOf(f.rdr)
  <2>1. RowAt(b, f, k) = NoRow /\ RowAt(b, g, k) = NoRow
    BY <1>1, RowFacts
  <2>2. Bare(f, k) = NoRow /\ Bare(g, k) = NoRow
    BY <1>1, BareFacts
  <2>3. QED BY <2>1, <2>2 DEF TableRow
<1>2. CASE k \in KeysOf(f.rdr) /\ b = "ipf"
  <2>1. Bare(f, k) = [rhost |-> e.rhost, iaddr |-> e.iaddr, iport |-> e.iport, desc |-> "none", ts |-> 0] /\ Bare(f, k) # NoRow
    BY <1>2, BareFacts
  <2>2. old = Bare(f, k) /\ new = Bare(f, k)
    BY <1>2 DEF TableRow, Bare
  <2> HIDE DEF e, old, new
  <2>3. old.desc = "none" /\ old.ts = 0
    BY <2>1, <2>2
  <2>4. QED BY <2>1, <2>2, <2>3 DEF old, new
<1>3. CASE k \in KeysOf(f.rdr) /\ b # "ipf"
  <2>1. /\ RowAt(b, f, k) # NoRow /\ RowAt(b, f, k).rhost = e.rhost /\ RowAt(b, f, k).iaddr = e.iaddr /\ RowAt(b, f, k).iport = e.iport
        /\ b \in {"pf", "nft"} => RowAt(b, f, k).desc = e.desc
    BY <1>3, RowFacts
  <2>2. old = RowAt(b, f, k) /\ new = RowAt(b, g, k)
    BY <1>3 DEF TableRow
  <2>3. First(g.rdr, k) = {e}
    <3>1. f.rdr \in Seq(RdrRules)
      BY FwFields
    <3>2. KeyIndex(f.rdr, k) # 0
      BY <1>3, <3>1, KeyIndexFacts
    <3>3. QED BY <3>2 DEF First
  <2> HIDE DEF e, old, new
  <2>4. RowIn(b, {e}, {}) = [rhost |-> e.rhost, iaddr |-> e.iaddr, iport |-> e.iport,
          desc |-> IF b \in {"pf", "nft"} THEN e.desc ELSE "none", ts |-> 0]
    BY ONLY RowAlone
  <2>5. new = [rhost |-> e.rhost, iaddr |-> e.iaddr, iport |-> e.iport,
          desc |-> IF b \in {"pf", "nft"} THEN e.desc ELSE "none", ts |-> 0]
    BY <2>2, <2>3, <2>4 DEF RowAt
  <2>6. /\ new.rhost = e.rhost /\ new.iaddr = e.iaddr /\ new.iport = e.iport /\ new.ts = 0
        /\ new.desc = IF b \in {"pf", "nft"} THEN e.desc ELSE "none"
    BY <2>5
  <2>7. new.desc \in {old.desc, "none"}
    BY <2>1, <2>2, <2>6
  <2>8. QED BY <2>1, <2>2, <2>6, <2>7 DEF old, new
<1>4. QED BY <1>1, <1>2, <1>3

LEMMA TableStep ==
  ASSUME FindsWork, PlainDescs, IndInv, [Next]_vars,
         TableNow = [k \in Keys |-> TableRow(backend, fw, k)],
         TableNow' = [k \in Keys |-> TableRow(backend', fw', k)],
         \A op, key, want, r : reply' = [op |-> op, key |-> key, want |-> want, r |-> r] =>
           /\ ReplyOf'.op = op /\ ReplyOf'.key = key /\ ReplyOf'.r = r
           /\ backend' # "ipf" => ReplyOf'.want = want
           /\ backend' = "ipf" => ReplyOf'.want = Stripped(want)
  PROVE  [Table!Next]_(Table!vars)
<1>1. IndInv' /\ backend' = backend
  BY Steps
<1>2. \/ UNCHANGED vars
      \/ \E key \in Keys, w \in Wants : \E r : DidRedirect(key, w, r)
      \/ \E key \in Keys : \E r : DidDelete(key, r)
      \/ DidPinhole
      \/ DidRestart
  BY Steps
<1> DEFINE T(f) == [k \in Keys |-> TableRow(backend, f, k)]
<1>3. TableNow = T(fw) /\ TableNow' = T(fw')
  BY <1>1
<1>4. CASE UNCHANGED vars
  BY <1>4 DEF vars, Table!vars, Untracked, RowOf, ReplyOf
<1>5. ASSUME NEW key \in Keys, NEW w \in Wants, NEW r, DidRedirect(key, w, r)
      PROVE  Table!Redirect(key)
  <2> DEFINE old == TableRow(backend, fw, key)
             new == TableRow(backend, fw', key)
             want == Asked(backend, w)
  <2>1. reply' = [op |-> "redirect", key |-> key, want |-> w, r |-> r]
    BY <1>5 DEF DidRedirect
  <2>0. w \in PlainWants
    BY PlainWant
  <2>2. /\ ReplyOf'.op = "redirect" /\ ReplyOf'.key = key /\ ReplyOf'.r = r
        /\ ReplyOf'.want = want
    BY <1>1, <2>0, <2>1, AskedIs DEF Asked
  <2>3. T(fw') = [T(fw) EXCEPT ![key] = new]
    BY <1>5, OneRow DEF DidRedirect
  <2>4. TableNow' = [TableNow EXCEPT ![key] = new] /\ TableNow[key] = old
    BY <1>3, <2>3
  <2>5. RedirectRow(backend = "nft", backend = "ipf", old, new, want, r)
    BY <1>5 DEF DidRedirect
  <2> HIDE DEF old, new, want, T
  <2>6. QED BY <2>2, <2>4, <2>5 DEF Table!Redirect, Table!Leaves, Table!Stayed, Table!Same,
               RedirectRow, SameMapping, WithTs, TableNow
<1>6. ASSUME NEW key \in Keys, NEW r, DidDelete(key, r)
      PROVE  Table!Delete(key)
  <2> DEFINE old == TableRow(backend, fw, key)
             new == TableRow(backend, fw', key)
  <2>1. reply' = [op |-> "delete", key |-> key, want |-> NoRow, r |-> r]
    BY <1>6 DEF DidDelete
  <2>2. ReplyOf'.op = "delete" /\ ReplyOf'.key = key /\ ReplyOf'.r = r
    BY <2>1
  <2>3. T(fw') = [T(fw) EXCEPT ![key] = new]
    BY <1>6, OneRow DEF DidDelete
  <2>4. TableNow' = [TableNow EXCEPT ![key] = new] /\ TableNow[key] = old
    BY <1>3, <2>3
  <2>5. DeleteRow(backend = "nft", old, new, r)
    BY <1>6 DEF DidDelete
  <2> HIDE DEF old, new, T
  <2>6. QED BY <2>2, <2>4, <2>5 DEF Table!Delete, Table!Leaves, DeleteRow, TableNow
<1>7. CASE DidPinhole
  <2>1. reply' = reply /\ \A k : TableRow(backend, fw', k) = TableRow(backend, fw, k)
    BY <1>7 DEF DidPinhole, PinholeEffect
  <2>2. TableNow' = TableNow
    BY <1>3, <2>1
  <2>3. ReplyOf' = ReplyOf
    BY <1>1, <2>1 DEF ReplyOf
  <2>4. (backend = "nft")' = (backend = "nft") /\ (backend = "ipf")' = (backend = "ipf")
    BY <1>1
  <2>5. QED BY <2>2, <2>3, <2>4 DEF Table!vars, TableNow
<1>8. CASE DidRestart
  <2>1. /\ reply' = NoReply /\ fw'.rdr = fw.rdr /\ \A k : First(fw'.list, k) = {}
    BY <1>8 DEF DidRestart
  <2>2. fw \in FwT /\ fw' \in FwT
    BY <1>1 DEF IndInv, Good
  <2>3. ReplyOf'.op = "none"
    BY <2>1 DEF NoReply
  <2>4. ASSUME NEW k \in Keys
        PROVE  \/ TableNow[k] = NoRow /\ TableNow'[k] = NoRow
               \/ /\ TableNow[k] # NoRow
                  /\ TableNow'[k].rhost = TableNow[k].rhost
                  /\ TableNow'[k].iaddr = TableNow[k].iaddr /\ TableNow'[k].iport = TableNow[k].iport
                  /\ TableNow'[k].desc \in {TableNow[k].desc, "none"} /\ TableNow'[k].ts = 0
    <3>1. TableNow[k] = TableRow(backend, fw, k) /\ TableNow'[k] = TableRow(backend, fw', k)
      BY <1>3
    <3>2. QED BY <2>1, <2>2, <3>1, RestartRow
  <2>5. DOMAIN TableNow' = Keys
    BY <1>3
  <2> HIDE DEF T
  <2>6. Table!Restart
    BY <2>3, <2>4, <2>5 DEF Table!Restart, TableNow
  <2>7. (backend = "nft")' = (backend = "nft") /\ (backend = "ipf")' = (backend = "ipf")
    BY <1>1
  <2>8. QED BY <2>6, <2>7 DEF Table!Next
<1>9. (backend = "nft")' = (backend = "nft") /\ (backend = "ipf")' = (backend = "ipf")
  BY <1>1
<1>10. QED BY <1>2, <1>4, <1>5, <1>6, <1>7, <1>8, <1>9 DEF Table!Next

LEMMA TableInit ==
  ASSUME Init
  PROVE  Table!Init
<1>1. fw.rdr = << >> /\ reply = NoReply
  BY DEF Init, init_redirect
<1>2. ASSUME NEW k PROVE TableRow(backend, fw, k) = NoRow
  <2>1. First(fw.rdr, k) = {}
    BY <1>1, NothingKept
  <2>2. QED BY <2>1, RowNone DEF TableRow, Bare, RowAt
<1>3. TableNow = [k \in Keys |-> NoRow]
  BY <1>2, TableNowIs
<1>4. ReplyOf.op = "none"
  BY <1>1, ReplyFields DEF NoReply
<1>5. QED BY <1>3, <1>4 DEF Table!Init, TableNow

(* Whatever changes the kernel refuses and whenever the daemon restarts,    *)
(* every backend is the table commonrdr.h describes: a request of           *)
(* upnpredirect.c changes the mapping it names and no other, and its answer *)
(* is true (on nftables as far as RdrTable says of a quiet backend, on      *)
(* IPFilter as it says of a literal one).  upnp_redirect() must be able to  *)
(* read the rules.                                                          *)
THEOREM BackendsImplementTable ==
  ASSUME FindsWork, PlainDescs
  PROVE  Spec => ImplementsTable
<1> DEFINE Rows0 == TableNow = [k \in Keys |-> TableRow(backend, fw, k)]
           Reply0 == \A op, key, want, r : reply = [op |-> op, key |-> key, want |-> want, r |-> r] =>
                       /\ ReplyOf.op = op /\ ReplyOf.key = key /\ ReplyOf.r = r
                       /\ backend # "ipf" => ReplyOf.want = want
                       /\ backend = "ipf" => ReplyOf.want = Stripped(want)
<1>1. Init => Table!Init
  BY TableInit
<1>2. IndInv /\ [Next]_vars /\ Rows0 /\ Rows0' /\ Reply0' => [Table!Next]_(Table!vars)
  BY TableStep
<1>3. Rows0
  BY TableNowIs
<1>4. Reply0
  BY ReplyFields
<1> HIDE DEF Rows0, Reply0
<1>5. Spec => []IndInv
  BY Inductive
<1>6. QED BY <1>1, <1>2, <1>3, <1>4, <1>5, PTL DEF Spec, ImplementsTable, Table!Spec

-----------------------------------------------------------------------------
(* The ways to list mappings *)

(* a list with one entry for a key is as long as it has keys *)
LEMMA KeyNumber ==
  ASSUME NEW S, NEW s \in Seq(S), UniqueKeys(s)
  PROVE  Cardinality(KeysOf(s)) = Len(s)
<1> DEFINE n == Len(s)
           A == 1 .. n
           B == KeysOf(s)
           h == [i \in A |-> s[i].key]
<1>1. DOMAIN s = A /\ n \in Nat
  BY DomainIsLen
<1>2. B = {s[i].key : i \in A}
  BY <1>1 DEF KeysOf
<1>3. \A i, j \in A : s[i].key = s[j].key => i = j
  BY <1>1 DEF UniqueKeys
<1>4. IsFiniteSet(A) /\ Cardinality(A) = n
  BY <1>1, FS_Interval
<1> HIDE DEF A, B
<1>5. h \in [A -> B] /\ \A i \in A : h[i] = s[i].key
  BY <1>2
<1> HIDE DEF h
<1>6. h \in Bijection(A, B)
  <2>1. h \in Injection(A, B)
    BY <1>3, <1>5, Fun_IsInj
  <2>2. h \in Surjection(A, B)
    BY <1>2, <1>5, Fun_IsSurj
  <2>3. QED BY <2>1, <2>2 DEF Bijection
<1>7. ExistsBijection(A, B)
  BY <1>6 DEF ExistsBijection
<1>8. QED BY <1>4, <1>7, FS_Bijection DEF B

(* The ports listed of a range that starts at 0 *)
PortsIn(s, end, proto) ==
  LET in == Sublist(s, {e \in ToSet(s) : Proto(e.key) = proto /\ 0 <= Eport(e.key)
                                            /\ Eport(e.key) <= end})
  IN [i \in DOMAIN in |-> Eport(in[i].key)]

LEMMA PortListed ==
  ASSUME NEW S, NEW s \in Seq(S), NEW k \in Keys, KeysOf(s) \subseteq Keys
  PROVE  Eport(k) \in ToSet(PortsIn(s, Eport(k), Proto(k))) <=> k \in KeysOf(s)
<1> DEFINE K == {e \in ToSet(s) : Proto(e.key) = Proto(k) /\ 0 <= Eport(e.key)
                                    /\ Eport(e.key) <= Eport(k)}
           in == Sublist(s, K)
           ports == [i \in DOMAIN in |-> Eport(in[i].key)]
<1>1. PortsIn(s, Eport(k), Proto(k)) = ports
  BY DEF PortsIn
<1>2. DOMAIN s = 1 .. Len(s) /\ \A i \in 1 .. Len(s) : s[i] \in S
  BY DomainIsLen
<1>3. Eport(k) \in Nat
  BY KeyType, PortIsNat
<1>4. ASSUME NEW e \in K PROVE e \in ToSet(s) /\ e.key \in Keys /\ Proto(e.key) = Proto(k)
  <2>1. e.key \in KeysOf(s)
    BY <1>4, KeysOfSet
  <2>2. QED BY <1>4, <2>1
<1>5. ASSUME NEW e \in ToSet(s), e.key = k PROVE e \in K
  BY <1>3, <1>5
<1> HIDE DEF K
<1>6. /\ in \in Seq(S) /\ DOMAIN in = 1 .. Len(in)
      /\ \A j \in 1 .. Len(in) : in[j] \in K
  BY SublistElements
<1>7. \A i \in 1 .. Len(s) : s[i] \in K => \E j \in 1 .. Len(in) : in[j] = s[i]
  BY SublistFacts
<1> HIDE DEF in
<1>8. ToSet(ports) = {Eport(in[j].key) : j \in 1 .. Len(in)}
  BY <1>6 DEF ToSet
<1>9. ASSUME Eport(k) \in ToSet(ports) PROVE k \in KeysOf(s)
  <2>1. PICK j \in 1 .. Len(in) : Eport(in[j].key) = Eport(k)
    BY <1>8, <1>9
  <2>2. in[j] \in ToSet(s) /\ in[j].key \in Keys /\ Proto(in[j].key) = Proto(k)
    BY <1>4, <1>6
  <2>3. in[j].key = k
    <3>1. in[j].key = <<Proto(in[j].key), Eport(in[j].key)>> /\ k = <<Proto(k), Eport(k)>>
      BY <2>2, KeyType
    <3>2. QED BY <2>1, <2>2, <3>1
  <2>4. QED BY <2>2, <2>3, KeysOfSet
<1>10. ASSUME k \in KeysOf(s) PROVE Eport(k) \in ToSet(ports)
  <2>1. PICK i \in 1 .. Len(s) : s[i].key = k
    BY <1>2, <1>10 DEF KeysOf
  <2>2. s[i] \in ToSet(s)
    BY <1>2 DEF ToSet
  <2>3. s[i] \in K
    BY <1>5, <2>1, <2>2
  <2>4. PICK j \in 1 .. Len(in) : in[j] = s[i]
    BY <1>7, <2>3
  <2>5. QED BY <1>8, <2>1, <2>4
<1>11. QED BY <1>1, <1>9, <1>10

(* what the listings of a backend go through: a list with the keys of the  *)
(* redirections, each once                                                  *)
Listing(s) ==
  /\ UniqueKeys(s) /\ KeysOf(s) = KeysOf(fw.rdr) /\ Len(s) = Len(fw.rdr) /\ Count = Len(s)
  /\ \A i \in 0 .. Len(s) - 1 : ByIndex(i) = s[i + 1].key
  /\ \A end, proto : InRange(0, end, proto) = PortsIn(s, end, proto)

LEMMA PfLists ==
  ASSUME backend = "pf", fw \in FwT, UniqueKeys(fw.rdr)
  PROVE  Listing(fw.rdr)
<1>1. Count = Len(fw.rdr)
  BY DEF Count, Pf!get_redirect_rule_count
<1>2. \A i \in 0 .. Len(fw.rdr) - 1 : ByIndex(i) = fw.rdr[i + 1].key
  BY DEF ByIndex, Pf!get_redirect_rule_by_index
<1>3. ASSUME NEW end, NEW proto PROVE InRange(0, end, proto) = PortsIn(fw.rdr, end, proto)
  <2>1. \A s, K : Pf!Sublist(s, K) = Sublist(s, K)
    BY DEF Pf!Sublist, Sublist
  <2>2. \A s : Pf!ToSet(s) = ToSet(s)
    BY DEF Pf!ToSet, ToSet
  <2>3. \A k : Pf!Proto(k) = Proto(k) /\ Pf!Eport(k) = Eport(k)
    BY DEF Pf!Proto, Proto, Pf!Eport, Eport
  <2>4. InRange(0, end, proto) = Pf!get_portmappings_in_range(fw, 0, end, proto)
    BY DEF InRange
  <2>5. QED BY <2>1, <2>2, <2>3, <2>4 DEF Pf!get_portmappings_in_range, Pf!Kept, PortsIn
<1>4. QED BY <1>1, <1>2, <1>3 DEF Listing

LEMMA IpfLists ==
  ASSUME backend = "ipf", fw \in FwT, UniqueKeys(fw.rdr)
  PROVE  Listing(fw.rdr)
<1>1. Count = Len(fw.rdr)
  BY DEF Count
<1>2. \A i \in 0 .. Len(fw.rdr) - 1 : ByIndex(i) = fw.rdr[i + 1].key
  BY DEF ByIndex, Ipf!get_redirect_rule_by_index
<1>3. ASSUME NEW end, NEW proto PROVE InRange(0, end, proto) = PortsIn(fw.rdr, end, proto)
  <2>1. \A s, K : Ipf!Sublist(s, K) = Sublist(s, K)
    BY DEF Ipf!Sublist, Sublist
  <2>2. \A s : Ipf!ToSet(s) = ToSet(s)
    BY DEF Ipf!ToSet, ToSet
  <2>3. \A k : Ipf!Proto(k) = Proto(k) /\ Ipf!Eport(k) = Eport(k)
    BY DEF Ipf!Proto, Proto, Ipf!Eport, Eport
  <2>4. InRange(0, end, proto) = Ipf!get_portmappings_in_range(fw, 0, end, proto)
    BY DEF InRange
  <2>5. QED BY <2>1, <2>2, <2>3, <2>4 DEF Ipf!get_portmappings_in_range, Ipf!Kept, PortsIn
<1>4. QED BY <1>1, <1>2, <1>3 DEF Listing

LEMMA IpfwLists ==
  ASSUME backend = "ipfw", fw \in FwT, UniqueKeys(fw.rdr)
  PROVE  Listing(fw.rdr)
<1>1. Count = Len(fw.rdr)
  BY DEF Count
<1>2. ASSUME NEW i \in 0 .. Len(fw.rdr) - 1 PROVE ByIndex(i) = fw.rdr[i + 1].key
  <2>1. fw.rdr \in Seq(RdrRules)
    BY FwFields
  <2>2. ASSUME NEW S, NEW s \in Seq(S), NEW x, NEW j \in 0 .. Len(s) - 1
        PROVE  Append(s, x)[j + 1] = s[j + 1]
    <3>1. s \in Seq(S \cup {x}) /\ x \in S \cup {x} /\ Len(s) \in Nat
      BY DomainIsLen, SeqDef
    <3>2. j + 1 \in 1 .. Len(s)
      BY <3>1
    <3>3. QED BY <3>1, <3>2, AppendProperties
  <2>3. Append(fw.rdr, Ipfw!DefaultRule)[i + 1] = fw.rdr[i + 1]
    BY <2>1, <2>2
  <2>4. QED BY <2>3 DEF ByIndex, Ipfw!get_redirect_rule_by_index, Ipfw!ipfw_fetch_ruleset
<1>3. ASSUME NEW end, NEW proto PROVE InRange(0, end, proto) = PortsIn(fw.rdr, end, proto)
  <2>1. \A s, K : Ipfw!Sublist(s, K) = Sublist(s, K)
    BY DEF Ipfw!Sublist, Sublist
  <2>2. \A s : Ipfw!ToSet(s) = ToSet(s)
    BY DEF Ipfw!ToSet, ToSet
  <2>3. \A k : Ipfw!Proto(k) = Proto(k) /\ Ipfw!Eport(k) = Eport(k)
    BY DEF Ipfw!Proto, Proto, Ipfw!Eport, Eport
  <2>4. InRange(0, end, proto) = Ipfw!get_portmappings_in_range(fw, 0, end, proto)
    BY DEF InRange
  <2>5. Ipfw!Searched(fw) = fw.rdr
    BY IpfwSearched
  <2>6. QED BY <2>1, <2>2, <2>3, <2>4, <2>5 DEF Ipfw!get_portmappings_in_range, Ipfw!Kept, PortsIn
<1>4. QED BY <1>1, <1>2, <1>3 DEF Listing

LEMMA NftLists ==
  ASSUME backend = "nft", fw \in FwT, CacheOk(fw), UniqueKeys(fw.rdr)
  PROVE  \E s \in Seq({CachedRdr(e) : e \in RdrRules}) : Listing(s)
<1> DEFINE h == Nft!refresh_nft_cache_redirect(fw, "find", {})
           s == h.cache.rdr.rules
           n == Len(fw.rdr)
           T == {CachedRdr(e) : e \in RdrRules}
<1>1. fw.rdr \in Seq(RdrRules) /\ n \in Nat /\ DOMAIN fw.rdr = 1 .. n
      /\ \A i \in 1 .. n : fw.rdr[i] \in RdrRules
  BY FwFields, DomainIsLen
<1>2. h.cache.rdr = FreshRdr(fw.rdr)
  BY RefreshRdrFacts DEF CacheOk
<1>3. /\ Count = Len(s) /\ \A i : ByIndex(i) = s[i + 1].key
  BY DEF Count, ByIndex, Nft!get_redirect_rule_count, Nft!get_redirect_rule_by_index
<1>4. ASSUME NEW end, NEW proto PROVE InRange(0, end, proto) = PortsIn(s, end, proto)
  <2> HIDE DEF h
  <2>1. \A q, K : Nft!Sublist(q, K) = Sublist(q, K)
    BY DEF Nft!Sublist, Sublist
  <2>2. \A q : Nft!ToSet(q) = ToSet(q)
    BY DEF Nft!ToSet, ToSet
  <2>3. \A k : Nft!Proto(k) = Proto(k) /\ Nft!Eport(k) = Eport(k)
    BY DEF Nft!Proto, Proto, Nft!Eport, Eport
  <2>4. InRange(0, end, proto) = Nft!get_portmappings_in_range(fw, 0, end, proto)
    BY DEF InRange
  <2>5. QED BY <2>1, <2>2, <2>3, <2>4 DEF Nft!get_portmappings_in_range, Nft!Kept, PortsIn, h
<1> HIDE DEF h
<1>5. Len(s) = n /\ DOMAIN s = 1 .. n /\ \A i \in 1 .. n : s[i] = CachedRdr(fw.rdr[n + 1 - i])
  <2>1. ASSUME NEW q \in Seq(RdrRules), NEW c, c = FreshRdr(q)
        PROVE  /\ Len(c.rules) = Len(q) /\ DOMAIN c.rules = 1 .. Len(q)
               /\ \A i \in 1 .. Len(q) : c.rules[i] = CachedRdr(q[Len(q) + 1 - i])
    BY <2>1, FreshRdrFacts
  <2>2. QED BY <1>1, <1>2, <2>1
<1>6. \A i \in 1 .. n : n + 1 - i \in 1 .. n /\ n + 1 - (n + 1 - i) = i
  BY <1>1
<1> HIDE DEF s, n
<1>7. \A i \in 1 .. n : s[i] \in T /\ s[i].key = fw.rdr[n + 1 - i].key
  BY <1>1, <1>5, <1>6 DEF CachedRdr
<1>8. s \in Seq(T)
  <2>1. ASSUME NEW q \in Seq(RdrRules) PROVE FreshRdr(q).rules \in Seq(T)
    <3> DEFINE t == [i \in DOMAIN q |-> CachedRdr(q[i])]
    <3>1. Len(q) \in Nat /\ DOMAIN q = 1 .. Len(q) /\ \A i \in 1 .. Len(q) : q[i] \in RdrRules
      BY DomainIsLen
    <3>2. t \in [1 .. Len(q) -> T]
      BY <3>1
    <3>3. t \in Seq(T) /\ Len(t) = Len(q)
      BY <3>1, <3>2, SeqDef, LenProperties
    <3> HIDE DEF t, T
    <3>4. Reverse(t) = [i \in 1 .. Len(t) |-> t[(Len(t) - i) + 1]]
      BY DEF Reverse
    <3>5. \A i \in 1 .. Len(t) : t[(Len(t) - i) + 1] \in T
      BY <3>1, <3>2, <3>3
    <3>6. Reverse(t) \in [1 .. Len(t) -> T]
      BY <3>4, <3>5
    <3>7. Reverse(t) \in Seq(T)
      BY <3>1, <3>3, <3>6, SeqDef
    <3>8. QED BY <3>7 DEF FreshRdr, t
  <2>2. QED BY <1>1, <1>2, <2>1 DEF s
<1>9. UniqueKeys(s)
  <2> SUFFICES ASSUME NEW i \in 1 .. n, NEW j \in 1 .. n, s[i].key = s[j].key PROVE i = j
    BY <1>5 DEF UniqueKeys
  <2> DEFINE a == n + 1 - i
             b == n + 1 - j
  <2>1. a \in DOMAIN fw.rdr /\ b \in DOMAIN fw.rdr
    BY <1>1, <1>6
  <2>2. fw.rdr[a].key = fw.rdr[b].key
    BY <1>7
  <2> HIDE DEF a, b
  <2>3. a = b
    BY <2>1, <2>2 DEF UniqueKeys
  <2>4. QED BY <1>1, <2>3 DEF a, b
<1>10. KeysOf(s) = KeysOf(fw.rdr)
  <2>1. KeysOf(s) = {s[i].key : i \in 1 .. n} /\ KeysOf(fw.rdr) = {fw.rdr[i].key : i \in 1 .. n}
    BY <1>1, <1>5 DEF KeysOf
  <2>2. QED BY <1>6, <1>7, <2>1
<1>11. Listing(s)
  BY <1>3, <1>4, <1>5, <1>9, <1>10 DEF Listing, s, n
<1>12. QED BY <1>8, <1>11

(* the search of a port shows the mapping in force *)
LEMMA SearchShows ==
  ASSUME IndInv, backend = "nft" => UniqueKeys(fw.rdr), NEW key
  PROVE  get_redirect_rule(key, {}) = Shown(RowOf(key))
<1> DEFINE i == KeyIndex(fw.rdr, key)
<1>1. fw \in FwT /\ fw.rdr \in Seq(RdrRules) /\ DOMAIN fw.rdr = 1 .. Len(fw.rdr) /\ Len(fw.rdr) \in Nat
  BY FwFields, DomainIsLen DEF IndInv, Good
<1>2. RowOf(key) = IF i = 0 THEN NoRow
        ELSE [rhost |-> fw.rdr[i].rhost, iaddr |-> fw.rdr[i].iaddr, iport |-> fw.rdr[i].iport,
              desc |-> IF backend \in {"pf", "nft"} THEN fw.rdr[i].desc ELSE ListDesc(fw.list, key),
              ts |-> ListTs(fw.list, key)]
  BY DEF RowOf
<1>0. backend # "ipf" => Shown(RowOf(key)) = RowOf(key)
  BY DEF Shown
<1>3. CASE backend = "pf"
  <2>1. get_redirect_rule(key, {}) = Pf!get_redirect_rule(fw, key, {})
    BY <1>3 DEF get_redirect_rule
  <2> HIDE DEF i
  <2>2. QED BY <1>0, <1>2, <1>3, <2>1, PfSame DEF Pf!get_redirect_rule, Pf!get_timestamp, i
<1>4. CASE backend = "ipfw"
  <2>1. get_redirect_rule(key, {}) = Ipfw!get_redirect_rule(fw, key, {})
    BY <1>4 DEF get_redirect_rule
  <2>2. Ipfw!KeyIndex(Ipfw!Searched(fw), key) = i
    BY <1>1, IpfwSearched, IpfwSame
  <2>3. Ipfw!get_desc_time(fw.list, key) = [desc |-> ListDesc(fw.list, key), ts |-> ListTs(fw.list, key)]
    BY IpfwSame DEF Ipfw!get_desc_time
  <2> HIDE DEF i
  <2>4. Ipfw!get_redirect_rule(fw, key, {}) = IF i = 0 THEN NoRow
          ELSE [rhost |-> fw.rdr[i].rhost, iaddr |-> fw.rdr[i].iaddr, iport |-> fw.rdr[i].iport,
                desc |-> ListDesc(fw.list, key), ts |-> ListTs(fw.list, key)]
    BY <2>2, <2>3, IpfwSame DEF Ipfw!get_redirect_rule
  <2>5. backend \notin {"pf", "nft"} /\ backend # "ipf"
    BY <1>4
  <2>6. QED BY <1>0, <1>2, <2>1, <2>4, <2>5
<1>5. CASE backend = "ipf"
  <2> DEFINE row == Ipf!get_redirect_rule(fw, key, {})
  <2>1. get_redirect_rule(key, {}) = row
    BY <1>5 DEF get_redirect_rule
  <2>2. UniqueKeys(fw.rdr)
    BY <1>5 DEF IndInv, Good, IpfOk
  <2>3. /\ key \notin KeysOf(fw.rdr) => row = NoRow
        /\ key \in KeysOf(fw.rdr) => row # NoRow /\ row.rhost = Ipf!ShownHost(fw.rdr[i].rhost) /\ row.iaddr = fw.rdr[i].iaddr /\ row.iport = fw.rdr[i].iport
        /\ key \in KeysOf(fw.rdr) =>
             row.desc = ListDesc(fw.list, key) /\ row.ts = ListTs(fw.list, key)
               /\ row = [rhost |-> row.rhost, iaddr |-> row.iaddr, iport |-> row.iport, desc |-> row.desc, ts |-> row.ts]
    BY <1>1, <2>2, IpfGet
  <2>4. i = 0 <=> key \notin KeysOf(fw.rdr)
    BY <1>1, KeyIndexFacts
  <2>5. backend \notin {"pf", "nft"}
    BY <1>5
  <2>6. i # 0 => /\ RowOf(key) # NoRow
                 /\ RowOf(key) = [rhost |-> fw.rdr[i].rhost, iaddr |-> row.iaddr, iport |-> row.iport,
                                  desc |-> row.desc, ts |-> row.ts]
    <3>1. RowOf(key) = RowAt(backend, fw, key)
      BY RowIs
    <3>2. key \in KeysOf(fw.rdr) => RowOf(key) # NoRow
      BY <1>1, <3>1, RowFacts
    <3> HIDE DEF i, row
    <3>3. QED BY <1>2, <2>3, <2>4, <2>5, <3>2
  <2> HIDE DEF i, row
  <2>7. CASE i = 0
    BY <1>2, <2>1, <2>3, <2>4, <2>7 DEF Shown
  <2>8. CASE i # 0
    <3>1. PICK rhost, iaddr, iport, desc, ts :
            /\ rhost = fw.rdr[i].rhost /\ iaddr = row.iaddr /\ iport = row.iport
            /\ desc = row.desc /\ ts = row.ts
      OBVIOUS
    <3>2. /\ RowOf(key) # NoRow
          /\ RowOf(key) = [rhost |-> rhost, iaddr |-> iaddr, iport |-> iport, desc |-> desc, ts |-> ts]
      BY <2>6, <2>8, <3>1
    <3>3. row = [rhost |-> Ipf!ShownHost(rhost), iaddr |-> iaddr, iport |-> iport, desc |-> desc, ts |-> ts]
      BY <2>3, <2>4, <2>8, <3>1
    <3>4. Shown(RowOf(key)) = [RowOf(key) EXCEPT !.rhost = Ipf!ShownHost(RowOf(key).rhost)]
      BY <1>5, <3>2 DEF Shown
    <3>5. [RowOf(key) EXCEPT !.rhost = Ipf!ShownHost(RowOf(key).rhost)]
            = [rhost |-> Ipf!ShownHost(rhost), iaddr |-> iaddr, iport |-> iport, desc |-> desc, ts |-> ts]
      BY <3>2
    <3>6. QED BY <2>1, <3>3, <3>4, <3>5
  <2>9. QED BY <2>7, <2>8
<1>6. CASE backend = "nft"
  <2> DEFINE row == Nft!get_redirect_rule(fw, key, {})
  <2>1. get_redirect_rule(key, {}) = row
    BY <1>6 DEF get_redirect_rule
  <2>2. UniqueKeys(fw.rdr) /\ CacheOk(fw)
    BY <1>6 DEF IndInv, Good
  <2>3. /\ key \notin KeysOf(fw.rdr) => row = NoRow
        /\ key \in KeysOf(fw.rdr) =>
             \E j \in 1 .. Len(fw.rdr) :
               /\ Newest(fw.rdr, key, j)
               /\ row = [rhost |-> fw.rdr[j].rhost, iaddr |-> fw.rdr[j].iaddr, iport |-> fw.rdr[j].iport,
                         desc |-> fw.rdr[j].desc, ts |-> ListTs(fw.list, key)]
    BY <1>1, <2>2, NftGet
  <2> HIDE DEF row
  <2>4. i = 0 <=> key \notin KeysOf(fw.rdr)
    BY <1>1, KeyIndexFacts
  <2>5. i # 0 => i \in 1 .. Len(fw.rdr) /\ fw.rdr[i].key = key
    BY <1>1, KeyIndexFacts
  <2>6. CASE i = 0
    BY <1>0, <1>2, <1>6, <2>1, <2>3, <2>4, <2>6
  <2>7. CASE i # 0
    <3>1. PICK j \in 1 .. Len(fw.rdr) :
               /\ Newest(fw.rdr, key, j)
               /\ row = [rhost |-> fw.rdr[j].rhost, iaddr |-> fw.rdr[j].iaddr, iport |-> fw.rdr[j].iport,
                         desc |-> fw.rdr[j].desc, ts |-> ListTs(fw.list, key)]
      BY <2>3, <2>4, <2>7
    <3>2. j = i
      BY <1>1, <2>2, <2>5, <2>7, <3>1 DEF Newest, UniqueKeys
    <3> HIDE DEF i
    <3>3. QED BY <1>0, <1>2, <1>6, <2>1, <2>7, <3>1, <3>2
  <2>8. QED BY <2>6, <2>7
<1>7. QED BY <1>3, <1>4, <1>5, <1>6, BackendNames DEF IndInv

LEMMA ListedOnce ==
  ASSUME IndInv, backend = "nft" => UniqueKeys(fw.rdr)
  PROVE  UniqueKeys(fw.rdr) /\ \E S : \E s \in Seq(S) : Listing(s)
<1>1. fw \in FwT /\ fw.rdr \in Seq(RdrRules)
  BY FwFields DEF IndInv, Good
<1>2. UniqueKeys(fw.rdr)
  BY BackendNames DEF IndInv, Good, IpfOk, ListGood
<1>3. CASE backend = "pf"
  BY <1>1, <1>2, <1>3, PfLists
<1>4. CASE backend = "ipf"
  BY <1>1, <1>2, <1>4, IpfLists
<1>5. CASE backend = "ipfw"
  BY <1>1, <1>2, <1>5, IpfwLists
<1>6. CASE backend = "nft"
  <2>1. CacheOk(fw)
    BY <1>6 DEF IndInv, Good
  <2>2. QED BY <1>1, <1>2, <1>6, <2>1, NftLists
<1>7. QED BY <1>2, <1>3, <1>4, <1>5, <1>6, BackendNames DEF IndInv

LEMMA Listings ==
  ASSUME IndInv, faults = 0 => (backend = "nft" => UniqueKeys(fw.rdr))
  PROVE  ListingsAgree
<1> DEFINE found == {k \in Keys : get_redirect_rule(k, {}) # NoRow}
<1> SUFFICES ASSUME backend = "nft" => faults = 0
             PROVE  /\ \A k \in Keys : get_redirect_rule(k, {}) = Shown(RowOf(k))
                    /\ Count = Cardinality(found)
                    /\ {ByIndex(i) : i \in 0 .. Count - 1} = found
                    /\ \A k \in Keys : (k \in found) <=> (Eport(k) \in ToSet(InRange(0, Eport(k), Proto(k))))
  BY DEF ListingsAgree
<1>1. backend = "nft" => UniqueKeys(fw.rdr)
  OBVIOUS
<1>2. fw \in FwT /\ fw.rdr \in Seq(RdrRules) /\ DOMAIN fw.rdr = 1 .. Len(fw.rdr) /\ Len(fw.rdr) \in Nat
      /\ \A i \in 1 .. Len(fw.rdr) : fw.rdr[i] \in RdrRules
  BY FwFields, DomainIsLen DEF IndInv, Good
<1>3. \A k : get_redirect_rule(k, {}) = Shown(RowOf(k))
  BY <1>1, SearchShows
<1>4. KeysOf(fw.rdr) \subseteq Keys
  BY <1>2 DEF KeysOf, RdrRules
<1>5. found = KeysOf(fw.rdr)
  <2>1. ASSUME NEW k PROVE RowOf(k) # NoRow <=> k \in KeysOf(fw.rdr)
    <3>1. RowOf(k) = RowAt(backend, fw, k)
      BY RowIs
    <3>2. QED BY <1>2, <3>1, RowFacts
  <2>2. ASSUME NEW k PROVE Shown(RowOf(k)) # NoRow <=> RowOf(k) # NoRow
    <3>1. CASE backend # "ipf" \/ RowOf(k) = NoRow
      BY <3>1 DEF Shown
    <3>2. CASE backend = "ipf" /\ RowOf(k) # NoRow
      <4>1. RowOf(k) = RowAt(backend, fw, k)
        BY RowIs
      <4>2. RowOf(k) \in Rows
        BY <1>2, <4>1, RowFacts
      <4> DEFINE e == fw.rdr[KeyIndex(fw.rdr, k)]
      <4>3. RowOf(k).iaddr = e.iaddr /\ e \in RdrRules
        BY <1>2, <2>1, <3>2, <4>1, RowFacts
      <4> HIDE DEF e
      <4>4. RowOf(k).iaddr # 0
        BY <4>3, AddrFacts DEF RdrRules
      <4>5. Shown(RowOf(k)) = [RowOf(k) EXCEPT !.rhost = Ipf!ShownHost(RowOf(k).rhost)]
        BY <3>2 DEF Shown
      <4>6. [RowOf(k) EXCEPT !.rhost = Ipf!ShownHost(RowOf(k).rhost)].iaddr = RowOf(k).iaddr
        BY <4>2 DEF Rows
      <4>7. NoRow.iaddr = 0
        BY DEF NoRow
      <4>8. QED BY <3>2, <4>4, <4>5, <4>6, <4>7
    <3>3. QED BY <3>1, <3>2
  <2>3. \A k : get_redirect_rule(k, {}) # NoRow <=> k \in KeysOf(fw.rdr)
    BY <1>3, <2>1, <2>2
  <2>4. QED BY <1>4, <2>3
<1> HIDE DEF found
<1>6. PICK S : \E s \in Seq(S) : Listing(s)
  BY <1>1, ListedOnce
<1>7. PICK s \in Seq(S) : Listing(s)
  BY <1>6
<1>8. /\ UniqueKeys(s) /\ KeysOf(s) = KeysOf(fw.rdr) /\ Count = Len(s)
      /\ \A i \in 0 .. Len(s) - 1 : ByIndex(i) = s[i + 1].key
      /\ \A end, proto : InRange(0, end, proto) = PortsIn(s, end, proto)
  BY <1>7 DEF Listing
<1>9. Count = Cardinality(found)
  BY <1>5, <1>8, KeyNumber
<1>10. {ByIndex(i) : i \in 0 .. Count - 1} = found
  <2>1. DOMAIN s = 1 .. Len(s) /\ Len(s) \in Nat
    BY DomainIsLen
  <2>2. KeysOf(s) = {s[i].key : i \in 1 .. Len(s)}
    BY <2>1 DEF KeysOf
  <2>3. ASSUME NEW i \in 0 .. Len(s) - 1 PROVE ByIndex(i) \in KeysOf(s)
    <3>1. i + 1 \in 1 .. Len(s)
      BY <2>1
    <3>2. QED BY <1>8, <2>2, <3>1
  <2>4. ASSUME NEW k \in KeysOf(s) PROVE \E i \in 0 .. Len(s) - 1 : ByIndex(i) = k
    <3>1. PICK j \in 1 .. Len(s) : s[j].key = k
      BY <2>2
    <3>2. j - 1 \in 0 .. Len(s) - 1 /\ (j - 1) + 1 = j
      BY <2>1
    <3>3. QED BY <1>8, <3>1, <3>2
  <2>5. QED BY <1>5, <1>8, <2>3, <2>4
<1>11. ASSUME NEW k \in Keys
       PROVE  k \in found <=> Eport(k) \in ToSet(InRange(0, Eport(k), Proto(k)))
  BY <1>4, <1>5, <1>8, PortListed
<1>12. QED BY <1>3, <1>9, <1>10, <1>11

-----------------------------------------------------------------------------
(* The pass rules and the redirections *)

Pass(e) == PassRule(e, e.iport)

(* the redirections a pass rule is for *)
To(x) == {e \in RdrRules : Pass(e) = x}

(* the mappings to an endpoint have one remote host *)
OneRemote ==
  \A v, w \in Wants : v.iaddr = w.iaddr /\ v.iport = w.iport => v.rhost = w.rhost

Wanted(e) == \E w \in Wants : SameHosts(e, w) /\ e.iport = w.iport

(* as many redirections between two endpoints, all of them asked for, as    *)
(* there are pass rules                                                     *)
Balanced(s, t) ==
  /\ \A e \in ToSet(s) : Wanted(e)
  /\ \A x \in PassRules : CountIn(s, To(x)) = CountIn(t, {x})

LEMMA BalancedHas ==
  ASSUME NEW s \in Seq(RdrRules), NEW t \in Seq(FilterRules), Balanced(s, t), NEW i \in 1 .. Len(s)
  PROVE  Pass(s[i]) \in ToSet(t)
<1> DEFINE x == Pass(s[i])
<1>1. s[i] \in RdrRules /\ i \in DOMAIN s
  BY DomainIsLen
<1>2. x \in PassRules /\ s[i] \in To(x)
  BY <1>1, PassRuleType DEF Pass, To
<1> HIDE DEF x
<1>3. CountIn(s, To(x)) # 0
  BY <1>1, <1>2, CountType
<1>4. CountIn(t, {x}) # 0
  BY <1>2, <1>3 DEF Balanced
<1>5. \E j \in DOMAIN t : t[j] \in {x}
  BY <1>4, CountType
<1>6. QED BY <1>5 DEF ToSet, x

(* the pass rules to the endpoint of a redirection are its own *)
LEMMA BalancedOwn ==
  ASSUME OneRemote, NEW s \in Seq(RdrRules), NEW t \in Seq(FilterRules), Balanced(s, t),
         NEW i \in 1 .. Len(s), NEW p \in PassesOf(s[i]), p \in ToSet(t)
  PROVE  p = Pass(s[i])
<1>1. s[i] \in RdrRules /\ s[i] \in ToSet(s) /\ DOMAIN s = 1 .. Len(s)
  BY DomainIsLen DEF ToSet
<1>2. p \in PassRules /\ p.iaddr = s[i].iaddr /\ p.port = s[i].iport
  BY DEF PassesOf
<1>3. CountIn(t, {p}) # 0
  <2>1. \E j \in DOMAIN t : t[j] \in {p}
    BY DEF ToSet
  <2>2. QED BY <2>1, CountType
<1>4. CountIn(s, To(p)) # 0
  BY <1>2, <1>3 DEF Balanced
<1>5. PICK j \in DOMAIN s : s[j] \in To(p)
  BY <1>4, CountType
<1>6. s[j] \in RdrRules /\ s[j] \in ToSet(s) /\ Pass(s[j]) = p
  BY <1>5 DEF To, ToSet
<1>7. p.iaddr = s[j].iaddr /\ p.port = s[j].iport /\ p.rhost = s[j].rhost
  <2>1. Pass(s[j]).iaddr = s[j].iaddr /\ Pass(s[j]).port = s[j].iport /\ Pass(s[j]).rhost = s[j].rhost
    BY DEF Pass, PassRule
  <2>2. QED BY <1>6, <2>1
<1>8. Wanted(s[i]) /\ Wanted(s[j])
  BY <1>1, <1>6 DEF Balanced
<1>9. PICK v \in Wants : SameHosts(s[i], v) /\ s[i].iport = v.iport
  BY <1>8 DEF Wanted
<1>10. PICK w \in Wants : SameHosts(s[j], w) /\ s[j].iport = w.iport
  BY <1>8 DEF Wanted
<1>11. v.rhost = w.rhost
  BY <1>2, <1>7, <1>9, <1>10 DEF OneRemote, SameHosts
<1>12. p.rhost = s[i].rhost
  BY <1>7, <1>9, <1>10, <1>11 DEF SameHosts
<1>13. QED BY <1>1, <1>12, PassRuleType DEF Pass

LEMMA BalancedAppend ==
  ASSUME NEW s \in Seq(RdrRules), NEW t \in Seq(FilterRules), Balanced(s, t), NEW e \in RdrRules, Wanted(e)
  PROVE  Balanced(Append(s, e), Append(t, Pass(e)))
<1>1. Pass(e) \in FilterRules
  BY PassRuleType DEF Pass, FilterRules
<1>2. ASSUME NEW x \in PassRules
      PROVE  CountIn(Append(s, e), To(x)) = CountIn(Append(t, Pass(e)), {x})
  <2>1. CountIn(Append(s, e), To(x)) = CountIn(s, To(x)) + One(e, To(x))
    BY CountAppend
  <2>2. CountIn(Append(t, Pass(e)), {x}) = CountIn(t, {x}) + One(Pass(e), {x})
    BY <1>1, CountAppend
  <2>3. One(e, To(x)) = One(Pass(e), {x})
    BY DEF One, To
  <2>4. QED BY <2>1, <2>2, <2>3 DEF Balanced
<1>3. ToSet(Append(s, e)) = ToSet(s) \cup {e}
  BY AppendKeyed
<1>4. QED BY <1>2, <1>3 DEF Balanced

LEMMA BalancedRemove ==
  ASSUME OneRemote, NEW s \in Seq(RdrRules), NEW t \in Seq(FilterRules), Balanced(s, t),
         NEW i \in 1 .. Len(s), NEW j \in 1 .. Len(t), t[j] \in PassesOf(s[i])
  PROVE  Balanced(RemoveAt(s, i), RemoveAt(t, j))
<1>1. s[i] \in RdrRules
  BY DomainIsLen
<1>0. t[j] = Pass(s[i])
  <2>1. t[j] \in ToSet(t)
    BY DomainIsLen DEF ToSet
  <2>2. QED BY <2>1, BalancedOwn
<1>2. ASSUME NEW x \in PassRules
      PROVE  CountIn(RemoveAt(s, i), To(x)) = CountIn(RemoveAt(t, j), {x})
  <2>1. CountIn(RemoveAt(s, i), To(x)) = CountIn(s, To(x)) - One(s[i], To(x))
    BY CountRemove
  <2>2. CountIn(RemoveAt(t, j), {x}) = CountIn(t, {x}) - One(t[j], {x})
    BY CountRemove
  <2>3. One(s[i], To(x)) = One(t[j], {x})
    BY <1>0, <1>1 DEF One, To
  <2>4. QED BY <2>1, <2>2, <2>3 DEF Balanced
<1>3. ToSet(RemoveAt(s, i)) \subseteq ToSet(s)
  BY RemoveKeyed
<1>4. QED BY <1>2, <1>3 DEF Balanced

(* pinholes come and go *)
LEMMA BalancedPins ==
  ASSUME NEW s, NEW t \in Seq(FilterRules), NEW u \in Seq(FilterRules), Balanced(s, t),
         Passes(u) = Passes(t)
  PROVE  Balanced(s, u)
<1>1. ASSUME NEW x \in PassRules PROVE CountIn(u, {x}) = CountIn(t, {x})
  <2>1. {x} \in SUBSET PassRules
    OBVIOUS
  <2>2. CountIn(Passes(u), {x}) = CountIn(u, {x})
    BY <2>1, CountSublist DEF Passes
  <2>3. CountIn(Passes(t), {x}) = CountIn(t, {x})
    BY <2>1, CountSublist DEF Passes
  <2>4. QED BY <2>2, <2>3
<1>2. QED BY <1>1 DEF Balanced

(* the outbound nat rule of a UDP mapping *)
Natted(s, n) == \A e \in ToSet(s) : Proto(e.key) = "udp" => NatRule(e) \in ToSet(n)

LEMMA NattedAppend ==
  ASSUME NEW s \in Seq(RdrRules), NEW n \in Seq(NatRules), Natted(s, n), NEW e \in RdrRules
  PROVE  Natted(Append(s, e), IF Proto(e.key) = "udp" THEN Append(n, NatRule(e)) ELSE n)
<1>1. NatRule(e) \in NatRules
  BY DEF NatRule, NatRules, RdrRules
<1>2. ToSet(Append(s, e)) = ToSet(s) \cup {e} /\ ToSet(Append(n, NatRule(e))) = ToSet(n) \cup {NatRule(e)}
  BY <1>1, AppendKeyed
<1>3. QED BY <1>2 DEF Natted

(* a redirection goes, and no nat rule of another key *)
LEMMA NattedRemove ==
  ASSUME NEW s \in Seq(RdrRules), UniqueKeys(s), NEW n, Natted(s, n), NEW i \in 1 .. Len(s), NEW m,
         {x \in ToSet(n) : x.key # s[i].key} \subseteq ToSet(m)
  PROVE  Natted(RemoveAt(s, i), m)
<1>1. ToSet(RemoveAt(s, i)) \subseteq ToSet(s) /\ s[i].key \notin KeysOf(RemoveAt(s, i))
      /\ RemoveAt(s, i) \in Seq(RdrRules)
  BY RemoveKeyed
<1> DEFINE t == RemoveAt(s, i)
<1> HIDE DEF t
<1>2. \A e \in ToSet(t) : e.key \in KeysOf(t)
  BY <1>1, KeysOfSet DEF t
<1>3. \A e : NatRule(e).key = e.key
  BY DEF NatRule
<1>4. QED BY <1>1, <1>2, <1>3 DEF Natted, t

(* IPFilter: a pass rule is known by the key *)
PassAt(e) == PassRule(e, Eport(e.key))

(* The pass rule and the nat rule of each redirection *)
Paired(b, f) ==
  /\ b \in {"pf", "nft"} => Balanced(f.rdr, f.filter)
  /\ b = "pf" => Natted(f.rdr, f.nat)
  /\ b = "ipf" => \A e \in ToSet(f.rdr) : PassAt(e) \in ToSet(f.filter)

(* a redirection and its pass rule are there *)
LEMMA PutBoth ==
  ASSUME NEW s \in Seq(RdrRules), NEW t \in Seq(FilterRules), Balanced(s, t), NEW m \in Mappings, Wanted(m)
  PROVE  Balanced(Append(s, RdrRule(m, m.desc)), Append(t, PassRule(m, m.iport)))
<1>1. RdrRule(m, m.desc) \in RdrRules
  BY MappingFacts
<1>2. Pass(RdrRule(m, m.desc)) = PassRule(m, m.iport)
  BY DEF Pass, PassRule, RdrRule
<1>3. Wanted(RdrRule(m, m.desc))
  BY MappingFacts DEF Wanted, SameHosts
<1>4. QED BY <1>1, <1>2, <1>3, BalancedAppend

LEMMA MappingWanted ==
  ASSUME NEW key, NEW w \in PlainWants
  PROVE  Wanted(Mapping(key, w))
BY DEF Wanted, SameHosts, Mapping, PlainWants

LEMMA NftAddPaired ==
  ASSUME NEW f \in FwT, NEW g, NEW m \in Mappings, Wanted(m), NEW r, Added(f, g, m, r, {}), Paired("nft", f)
  PROVE  Paired("nft", g)
<1>1. f.rdr \in Seq(RdrRules) /\ f.filter \in Seq(FilterRules)
  BY FwFields
<1>2. g.rdr = Append(f.rdr, RdrRule(m, m.desc)) /\ g.filter = Append(f.filter, PassRule(m, m.iport))
  BY DEF Added
<1>3. Balanced(f.rdr, f.filter)
  BY DEF Paired
<1>4. Balanced(g.rdr, g.filter)
  BY <1>1, <1>2, <1>3, PutBoth
<1>5. QED BY <1>4 DEF Paired

LEMMA NftDeletePaired ==
  ASSUME OneRemote, NEW f \in FwT, NEW g, NEW i \in 1 .. Len(f.rdr), Deleted(f, g, i, {}), Paired("nft", f)
  PROVE  Paired("nft", g)
<1>1. f.rdr \in Seq(RdrRules) /\ f.filter \in Seq(FilterRules)
  BY FwFields
<1>2. Balanced(f.rdr, f.filter)
  BY DEF Paired
<1>3. Pass(f.rdr[i]) \in ToSet(f.filter)
  BY <1>1, <1>2, BalancedHas
<1>8. Pass(f.rdr[i]) \in PassesOf(f.rdr[i])
  BY <1>1, DomainIsLen, PassRuleType DEF Pass
<1>4. /\ g.rdr = RemoveAt(f.rdr, i)
      /\ \E j \in 1 .. Len(f.filter) : f.filter[j] \in PassesOf(f.rdr[i]) /\ g.filter = RemoveAt(f.filter, j)
  BY <1>3, <1>8 DEF Deleted, Drops
<1>5. PICK j \in 1 .. Len(f.filter) : f.filter[j] \in PassesOf(f.rdr[i]) /\ g.filter = RemoveAt(f.filter, j)
  BY <1>4
<1>6. Balanced(g.rdr, g.filter)
  BY <1>1, <1>2, <1>4, <1>5, BalancedRemove
<1>7. QED BY <1>6 DEF Paired

LEMMA NftRedirectPaired ==
  ASSUME OneRemote, backend = "nft", IndInv, Paired("nft", fw), NEW key \in Keys, NEW w \in PlainWants
  PROVE  Paired("nft", upnp_redirect(key, w, {}).fw)
<1> DEFINE a == upnp_redirect(key, w, {})
           g == a.fw
           m == Mapping(key, w)
<1>1. fw \in FwT /\ CacheOk(fw)
  BY DEF IndInv, Good
<1>2. \/ key \notin KeysOf(fw.rdr) /\ Added(fw, g, m, a.r, {})
      \/ \E i \in 1 .. Len(fw.rdr) :
           /\ Newest(fw.rdr, key, i)
           /\ \/ /\ ~SameHosts(fw.rdr[i], w) /\ a.r = -2
                 /\ g.rdr = fw.rdr /\ g.list = fw.list /\ g.filter = fw.filter
              \/ /\ SameHosts(fw.rdr[i], w) /\ fw.rdr[i].iport # w.iport
                 /\ \E h \in FwT : Deleted(fw, h, i, {}) /\ Added(h, g, m, a.r, {})
              \/ /\ SameHosts(fw.rdr[i], w) /\ fw.rdr[i].iport = w.iport /\ a.r = 0
                 /\ g.rdr = fw.rdr /\ g.filter = fw.filter
                 /\ g.list = ListAdd(ListRemove(fw.list, key), key, "none", w.ts)
  BY <1>1, NftRedirect
<1>3. m \in Mappings /\ Wanted(m)
  BY WantType, MappingWanted
<1> HIDE DEF a, m
<1>4. \/ Added(fw, g, m, a.r, {})
      \/ g.rdr = fw.rdr /\ g.filter = fw.filter
      \/ \E i \in 1 .. Len(fw.rdr) : \E h \in FwT : Deleted(fw, h, i, {}) /\ Added(h, g, m, a.r, {})
  BY <1>2
<1>5. ASSUME NEW i \in 1 .. Len(fw.rdr), NEW h \in FwT, Deleted(fw, h, i, {}), Added(h, g, m, a.r, {})
      PROVE  Paired("nft", g)
  BY <1>1, <1>3, <1>5, NftDeletePaired, NftAddPaired
<1>6. ASSUME Added(fw, g, m, a.r, {}) PROVE Paired("nft", g)
  BY <1>1, <1>3, <1>6, NftAddPaired
<1>7. ASSUME g.rdr = fw.rdr, g.filter = fw.filter PROVE Paired("nft", g)
  BY <1>7 DEF Paired
<1>8. QED BY <1>4, <1>5, <1>6, <1>7 DEF a

LEMMA NftRemovePaired ==
  ASSUME OneRemote, NEW f \in FwT, CacheOk(f), Paired("nft", f), NEW key
  PROVE  Paired("nft", Nft!delete_redirect_and_filter_rules(f, key, {}).fw)
<1> DEFINE g == Nft!delete_redirect_and_filter_rules(f, key, {}).fw
<1>1. /\ g.list = f.list
      /\ key \notin KeysOf(f.rdr) => g.rdr = f.rdr /\ g.filter = f.filter
      /\ key \in KeysOf(f.rdr) =>
           \E i \in 1 .. Len(f.rdr) :
             /\ Newest(f.rdr, key, i)
             /\ g.rdr = RemoveAt(f.rdr, i) \/ ({} # {} /\ g.rdr = f.rdr)
             /\ Drops(f.filter, g.filter, PassesOf(f.rdr[i]), {})
  BY NftDelete
<1> HIDE DEF g
<1>2. CASE key \notin KeysOf(f.rdr)
  BY <1>1, <1>2 DEF Paired, g
<1>3. CASE key \in KeysOf(f.rdr)
  <2>1. PICK i \in 1 .. Len(f.rdr) : Deleted(f, g, i, {})
    BY <1>1, <1>3 DEF Deleted
  <2>2. QED BY <2>1, NftDeletePaired DEF g
<1>4. QED BY <1>2, <1>3

LEMMA PfPutPaired ==
  ASSUME NEW f \in FwT, Paired("pf", f), NEW m \in Mappings, Wanted(m), NEW a, NEW g,
         PfPut(f, a, m, {}), PfPass(a, g, m)
  PROVE  Paired("pf", g)
<1> DEFINE e == RdrRule(m, m.desc)
<1>1. f.rdr \in Seq(RdrRules) /\ f.filter \in Seq(FilterRules) /\ f.nat \in Seq(NatRules)
  BY FwFields
<1>2. e \in RdrRules /\ e.key = m.key /\ NatRule(e) = NatRule(m)
  BY MappingFacts DEF NatRule, RdrRule
<1>3. /\ g.rdr = Append(f.rdr, e) /\ g.filter = Append(f.filter, PassRule(m, m.iport))
      /\ g.nat = IF Proto(e.key) = "udp" THEN Append(f.nat, NatRule(e)) ELSE f.nat
  <2> HIDE DEF e
  <2>1. QED BY <1>2 DEF PfPut, PfPass, e
<1>4. Balanced(f.rdr, f.filter) /\ Natted(f.rdr, f.nat)
  BY DEF Paired
<1>5. Balanced(g.rdr, g.filter)
  BY <1>1, <1>3, <1>4, PutBoth
<1> HIDE DEF e
<1>6. Natted(g.rdr, g.nat)
  BY <1>1, <1>2, <1>3, <1>4, NattedAppend
<1>7. QED BY <1>5, <1>6 DEF Paired

(* the redirection of a key goes, then its pass rule: there is one *)
LEMMA PfGonePaired ==
  ASSUME OneRemote, NEW f \in FwT, ListGood(f), Paired("pf", f), NEW key \in Keys, NEW d, PfGone(f, d, key),
         NEW n, n.rdr = d.rdr, n.filter = d.filter,
         {x \in ToSet(d.nat) : x.key # key} \subseteq ToSet(n.nat)
  PROVE  LET X == PassesOf(f.rdr[KeyIndex(f.rdr, key)])
         IN X \cap ToSet(n.filter) # {} /\ \A g : PfUnpass(n, g, X) => Paired("pf", g)
<1> DEFINE i == KeyIndex(f.rdr, key)
           X == PassesOf(f.rdr[i])
<1>1. f.rdr \in Seq(RdrRules) /\ f.filter \in Seq(FilterRules)
  BY FwFields
<1>2. i \in 1 .. Len(f.rdr) /\ f.rdr[i].key = key
  BY <1>1, KeyIndexFacts DEF PfGone
<1>3. n.rdr = RemoveAt(f.rdr, i) /\ n.filter = f.filter /\ d.nat = f.nat
  BY DEF PfGone
<1>4. Balanced(f.rdr, f.filter) /\ Natted(f.rdr, f.nat)
  BY DEF Paired
<1> HIDE DEF i
<1>5. X \cap ToSet(n.filter) # {}
  <2>1. Pass(f.rdr[i]) \in ToSet(n.filter)
    BY <1>1, <1>2, <1>3, <1>4, BalancedHas
  <2>2. Pass(f.rdr[i]) \in PassesOf(f.rdr[i])
    BY <1>1, <1>2, DomainIsLen, PassRuleType DEF Pass
  <2>3. QED BY <2>1, <2>2
<1>6. ASSUME NEW g, PfUnpass(n, g, X) PROVE Paired("pf", g)
  <2>1. PICK j \in 1 .. Len(n.filter) : n.filter[j] \in X /\ g.filter = RemoveAt(n.filter, j)
    BY <1>6 DEF PfUnpass
  <2>2. g.rdr = RemoveAt(f.rdr, i) /\ g.nat = n.nat
    BY <1>3, <1>6 DEF PfUnpass
  <2>3. Balanced(g.rdr, g.filter)
    BY <1>1, <1>2, <1>3, <1>4, <2>1, <2>2, BalancedRemove
  <2>4. {y \in ToSet(f.nat) : y.key # f.rdr[i].key} \subseteq ToSet(g.nat)
    BY <1>2, <1>3, <2>2
  <2>5. UniqueKeys(f.rdr)
    BY DEF ListGood
  <2>6. Natted(g.rdr, g.nat)
    BY <1>1, <1>2, <1>4, <2>2, <2>4, <2>5, NattedRemove
  <2>7. QED BY <2>3, <2>6 DEF Paired
<1>7. QED BY <1>5, <1>6 DEF i

LEMMA PfReaddPaired ==
  ASSUME OneRemote, NEW f \in FwT, ListGood(f), Paired("pf", f), NEW key \in Keys, key \in KeysOf(f.rdr),
         NEW w \in PlainWants, SameHosts(f.rdr[KeyIndex(f.rdr, key)], w), NEW d, d.r = 0, PfGone(f, d.fw, key)
  PROVE  Paired("pf", Pf!Readd(d, f.rdr[KeyIndex(f.rdr, key)], w.iport, w.desc, w.ts, {}).fw)
<1> DEFINE e == f.rdr[KeyIndex(f.rdr, key)]
           m == Mapping(e.key, w)
           u == Pf!priv_delete_filter_rule(d.fw, Proto(e.key), e.iaddr, e.iport, {})
           a == Pf!add_redirect_rule2(u.fw, m, {})
           p == Pf!add_filter_rule2(a.fw, m, {})
           z == Pf!Readd(d, e, w.iport, w.desc, w.ts, {})
<1>1. e \in RdrRules /\ e.key = key /\ e.iaddr = w.iaddr /\ e.rhost = w.rhost
  BY RowFacts DEF SameHosts
<1>2. d.fw \in FwT
  BY DEF PfGone
<1>3. {x \in ToSet(d.fw.nat) : x.key # key} \subseteq ToSet(d.fw.nat)
  OBVIOUS
<1>4. PassesOf(e) \cap ToSet(d.fw.filter) # {}
      /\ \A g : PfUnpass(d.fw, g, PassesOf(e)) => Paired("pf", g)
  BY <1>3, PfGonePaired
<1> HIDE DEF e
<1>5. z = IF d.r < 0 THEN [fw |-> d.fw, r |-> -1]
          ELSE IF u.r < 0 THEN [fw |-> u.fw, r |-> -1]
          ELSE IF a.r < 0 THEN [fw |-> a.fw, r |-> -1] ELSE p
  BY <1>1, PfReaddIs
<1>6. m \in Mappings /\ Wanted(m)
  BY <1>1, WantType, MappingWanted
<1> HIDE DEF m, z
<1>7. u.r = 0 /\ PfUnpass(d.fw, u.fw, PassesOf(e))
  <2>1. \/ PassesOf(e) \cap ToSet(d.fw.filter) = {} /\ u.r = -2 /\ u.fw = d.fw
        \/ {} # {} /\ u.r = -1 /\ u.fw = d.fw
        \/ u.r = 0 /\ PfUnpass(d.fw, u.fw, PassesOf(e))
    BY <1>1, <1>2, PfDeleteFilter
  <2> HIDE DEF u
  <2>2. QED BY <1>4, <2>1
<1> HIDE DEF u
<1>8. Paired("pf", u.fw) /\ u.fw \in FwT
  BY <1>4, <1>7 DEF PfUnpass
<1>9. a.r = 0 /\ PfPut(u.fw, a.fw, m, {})
  BY <1>6, <1>8, PfAdd
<1> HIDE DEF a
<1>10. a.fw \in FwT
  BY <1>9 DEF PfPut
<1>11. p.r = 0 /\ PfPass(a.fw, p.fw, m)
  BY <1>6, <1>10, PfAdd
<1> HIDE DEF p
<1>12. Paired("pf", p.fw)
  BY <1>6, <1>8, <1>9, <1>11, PfPutPaired
<1>13. z = p
  BY <1>5, <1>7, <1>9
<1>14. QED BY <1>12, <1>13 DEF z, e

LEMMA PfRedirectPaired ==
  ASSUME OneRemote, backend = "pf", IndInv, Paired("pf", fw), NEW key \in Keys, NEW w \in PlainWants
  PROVE  Paired("pf", upnp_redirect(key, w, {}).fw)
<1> DEFINE old == RowAt("pf", fw, key)
           e == fw.rdr[KeyIndex(fw.rdr, key)]
           m == Mapping(key, w)
           a == upnp_redirect(key, w, {})
           x == AfterRdr(Pf!add_redirect_rule2(fw, m, {}), m, {})
           y == Pf!update_portmapping(fw, key, w.iport, w.desc, w.ts, {})
           z == Pf!update_portmapping_desc_timestamp(fw, key, w.desc, w.ts, {})
<1>1. fw \in FwT /\ ListGood(fw)
  BY DEF IndInv, Good
<1>2. a = IF old = NoRow THEN x ELSE IF ~SameHosts(old, w) THEN [fw |-> fw, r |-> -2]
          ELSE IF old.iport # w.iport THEN y ELSE z
  BY PfRedirectIs
<1>3. m \in Mappings /\ Wanted(m)
  BY WantType, MappingWanted
<1>4. /\ key \notin KeysOf(fw.rdr) => old = NoRow
      /\ key \in KeysOf(fw.rdr) => /\ old # NoRow /\ old.rhost = e.rhost /\ old.iaddr = e.iaddr /\ old.iport = e.iport
                                   /\ e \in RdrRules
  BY <1>1, RowFacts
<1> HIDE DEF m, old
<1>5. Paired("pf", x.fw)
  <2> DEFINE b == Pf!add_redirect_rule2(fw, m, {})
             p == Pf!add_filter_rule2(b.fw, m, {})
             c == Pf!priv_delete_redirect_rule_check_desc(p.fw, m.key, {}, {})
  <2>1. x = IF b.r < 0 THEN [fw |-> b.fw, r |-> -1]
            ELSE IF p.r < 0 THEN [fw |-> c.fw, r |-> -1] ELSE [fw |-> p.fw, r |-> 0]
    BY PfNewIs
  <2> HIDE DEF x, c
  <2>2. b.r = 0 /\ PfPut(fw, b.fw, m, {})
    BY <1>1, <1>3, PfAdd
  <2> HIDE DEF b
  <2>3. b.fw \in FwT
    BY <2>2 DEF PfPut
  <2>4. p.r = 0 /\ PfPass(b.fw, p.fw, m)
    BY <1>3, <2>3, PfAdd
  <2> HIDE DEF p
  <2>5. x.fw = p.fw
    BY <2>1, <2>2, <2>4
  <2>6. QED BY <1>1, <1>3, <2>2, <2>4, <2>5, PfPutPaired
<1> HIDE DEF x
<1>6. ASSUME NEW d, key \in KeysOf(fw.rdr), SameHosts(e, w), d.r = 0, PfGone(fw, d.fw, key)
      PROVE  Paired("pf", Pf!Readd(d, e, w.iport, w.desc, w.ts, {}).fw)
  BY <1>1, <1>6, PfReaddPaired
<1>7. ASSUME key \in KeysOf(fw.rdr), SameHosts(e, w)
      PROVE  Paired("pf", y.fw)
  <2> DEFINE d == Pf!priv_delete_redirect_rule_check_desc(fw, key, {}, {})
  <2>1. y = Pf!Readd(d, e, w.iport, w.desc, w.ts, {})
    BY PfSame DEF Pf!update_portmapping, Pf!delete_redirect_rule
  <2>2. d.r = 0 /\ PfGone(fw, d.fw, key)
    BY <1>1, <1>7, PfDeleteRdr
  <2> HIDE DEF d, y
  <2>3. QED BY <1>6, <1>7, <2>1, <2>2
<1>8. ASSUME key \in KeysOf(fw.rdr), SameHosts(e, w), e.iport = w.iport
      PROVE  Paired("pf", z.fw)
  <2> DEFINE d == Pf!priv_delete_redirect_rule_check_desc(fw, key, {w.desc}, {})
             list == ListAdd(ListRemove(fw.list, key), key, "none", w.ts)
             g == [fw EXCEPT !.list = list]
  <2>1. z = IF d.r = 1 THEN [fw |-> g, r |-> 0] ELSE Pf!Readd(d, e, e.iport, w.desc, w.ts, {})
    BY PfSame DEF Pf!update_portmapping_desc_timestamp, Pf!add_timestamp_entry,
                  Pf!remove_timestamp_entry
  <2>2. d.r = 1 \/ (d.r = 0 /\ PfGone(fw, d.fw, key))
    BY <1>1, <1>8, PfDeleteRdr
  <2>3. g.rdr = fw.rdr /\ g.filter = fw.filter /\ g.nat = fw.nat
    <3> HIDE DEF list
    <3>1. QED BY <1>1 DEF FwT
  <2> HIDE DEF d, z, g
  <2>4. CASE d.r = 1
    BY <2>1, <2>3, <2>4 DEF Paired
  <2>5. CASE d.r = 0 /\ PfGone(fw, d.fw, key)
    <3>1. z = Pf!Readd(d, e, w.iport, w.desc, w.ts, {})
      BY <1>8, <2>1, <2>5
    <3>2. QED BY <1>6, <1>8, <2>5, <3>1
  <2>6. QED BY <2>2, <2>4, <2>5
<1> HIDE DEF a, e, y, z
<1>9. Paired("pf", a.fw)
  <2>1. key \in KeysOf(fw.rdr) => (SameHosts(old, w) <=> SameHosts(e, w))
    BY <1>4 DEF SameHosts
  <2>2. QED BY <1>2, <1>4, <1>5, <1>7, <1>8, <2>1
<1>10. QED BY <1>9 DEF a

LEMMA PfDeletePaired ==
  ASSUME OneRemote, NEW f \in FwT, ListGood(f), Paired("pf", f), NEW key \in Keys
  PROVE  Paired("pf", Pf!delete_redirect_and_filter_rules(f, key, {}).fw)
<1> DEFINE e == f.rdr[KeyIndex(f.rdr, key)]
           d == Pf!priv_delete_redirect_rule_check_desc(f, key, {}, {})
           n == IF Proto(key) = "udp" THEN Pf!delete_nat_rule(d.fw, e, {}) ELSE d.fw
           u == Pf!priv_delete_filter_rule(n, Proto(key), e.iaddr, e.iport, {})
           a == Pf!delete_redirect_and_filter_rules(f, key, {})
<1>1. a = IF d.r # 0 THEN d ELSE u
  BY PfDeleteIs
<1>2. \/ d.r = -2 /\ d.fw = f
      \/ d.r = 0 /\ key \in KeysOf(f.rdr) /\ PfGone(f, d.fw, key)
  BY PfDeleteRdr
<1> HIDE DEF d, a
<1>3. CASE d.r = -2 /\ d.fw = f
  BY <1>1, <1>3 DEF a
<1>4. CASE d.r = 0 /\ key \in KeysOf(f.rdr) /\ PfGone(f, d.fw, key)
  <2>1. e \in RdrRules /\ e.key = key
    BY <1>4, RowFacts
  <2>2. d.fw \in FwT
    BY <1>4 DEF PfGone
  <2> DEFINE D == Pf!delete_nat_rule(d.fw, e, {})
  <2>3. /\ D \in FwT /\ D.rdr = d.fw.rdr /\ D.filter = d.fw.filter
        /\ {x \in ToSet(d.fw.nat) : x.key # key} \subseteq ToSet(D.nat)
    <3> HIDE DEF e
    <3>1. QED BY <2>1, <2>2, PfUnnat
  <2>4. n \in {D, d.fw}
    OBVIOUS
  <2> HIDE DEF D, n
  <2>5. /\ n \in FwT /\ n.rdr = d.fw.rdr /\ n.filter = d.fw.filter
        /\ {x \in ToSet(d.fw.nat) : x.key # key} \subseteq ToSet(n.nat)
    BY <2>2, <2>3, <2>4
  <2>6. PassesOf(e) \cap ToSet(n.filter) # {}
        /\ \A g : PfUnpass(n, g, PassesOf(e)) => Paired("pf", g)
    BY <1>4, <2>5, PfGonePaired
  <2> HIDE DEF e
  <2>7. \/ PassesOf(e) \cap ToSet(n.filter) = {} /\ u.r = -2 /\ u.fw = n
        \/ {} # {} /\ u.r = -1 /\ u.fw = n
        \/ u.r = 0 /\ PfUnpass(n, u.fw, PassesOf(e))
    <3> DEFINE v == Pf!priv_delete_filter_rule(n, Proto(e.key), e.iaddr, e.iport, {})
    <3>1. u = v
      BY <2>1
    <3>2. \/ PassesOf(e) \cap ToSet(n.filter) = {} /\ v.r = -2 /\ v.fw = n
          \/ {} # {} /\ v.r = -1 /\ v.fw = n
          \/ v.r = 0 /\ PfUnpass(n, v.fw, PassesOf(e))
      BY <2>1, <2>5, PfDeleteFilter
    <3> HIDE DEF u, v
    <3>3. QED BY <3>1, <3>2
  <2> HIDE DEF u
  <2>8. Paired("pf", u.fw)
    BY <2>6, <2>7
  <2>9. a = u
    BY <1>1, <1>4
  <2>10. QED BY <2>8, <2>9 DEF a
<1>5. QED BY <1>2, <1>3, <1>4

LEMMA IpfPutPaired ==
  ASSUME NEW s \in Seq(RdrRules), NEW t \in Seq(FilterRules), NEW m \in Mappings,
         \A e \in ToSet(s) : PassAt(e) \in ToSet(t)
  PROVE  \A e \in ToSet(Append(s, RdrRule(m, "none"))) :
           PassAt(e) \in ToSet(Append(t, PassRule(m, Eport(m.key))))
<1> DEFINE d == RdrRule(m, "none")
           x == PassRule(m, Eport(m.key))
<1>1. d \in RdrRules
  BY MappingFacts
<1>2. PassAt(d) = x
  <2>1. m.desc \notin DOMAIN Labels /\ "none" \notin DOMAIN Labels
    BY BackendsAssumption DEF Mappings, Descs
  <2>2. QED BY <2>1 DEF PassAt, PassRule, RdrRule
<1>3. x \in FilterRules
  <2>1. m.key \in Keys /\ m.iaddr \in V4 /\ m.rhost \in Nat /\ m.desc \notin DOMAIN Labels
    BY DEF Mappings, Descs
  <2>2. Proto(m.key) \in Protos /\ Eport(m.key) \in Ports
    BY <2>1, KeyType
  <2>3. QED BY <2>1, <2>2 DEF PassRule, PassRules, FilterRules
<1> HIDE DEF d, x
<1>4. ToSet(Append(s, d)) = ToSet(s) \cup {d} /\ ToSet(Append(t, x)) = ToSet(t) \cup {x}
  BY <1>1, <1>3, AppendKeyed
<1>5. QED BY <1>2, <1>4 DEF d, x

(* a pass rule of a key goes: it is not that of another one *)
LEMMA IpfUnpassPaired ==
  ASSUME NEW s \in Seq(RdrRules), NEW t \in Seq(PassRules), NEW key \in Keys, key \notin KeysOf(s),
         \A e \in ToSet(s) : PassAt(e) \in ToSet(t),
         NEW j \in 1 .. Len(t), t[j].proto = Proto(key), t[j].port = Eport(key)
  PROVE  \A e \in ToSet(s) : PassAt(e) \in ToSet(RemoveAt(t, j))
<1> DEFINE u == RemoveAt(t, j)
<1>1. ASSUME NEW e \in ToSet(s) PROVE PassAt(e) # t[j]
  <2>1. e.key # key /\ e \in RdrRules
    <3>1. e.key \in KeysOf(s)
      BY KeysOfSet
    <3>2. e \in RdrRules
      BY DomainIsLen DEF ToSet
    <3>3. QED BY <3>1, <3>2
  <2>2. e.key \in Protos \X Ports /\ key \in Protos \X Ports
    BY <2>1, BackendsAssumption DEF RdrRules, Protos
  <2>3. Proto(e.key) # Proto(key) \/ Eport(e.key) # Eport(key)
    BY <2>1, <2>2 DEF Proto, Eport
  <2>4. PassAt(e).proto = Proto(e.key) /\ PassAt(e).port = Eport(e.key)
    BY DEF PassAt, PassRule
  <2>5. QED BY <2>3, <2>4
<1>2. ASSUME NEW x \in ToSet(t), x # t[j] PROVE x \in ToSet(u)
  <2>1. PICK k \in 1 .. Len(t) : t[k] = x
    BY DomainIsLen DEF ToSet
  <2>2. k # j /\ Len(t) \in Nat
    BY <1>2, <2>1, DomainIsLen
  <2>3. /\ u \in Seq(PassRules) /\ Len(u) = Len(t) - 1
        /\ \A i \in 1 .. Len(t) - 1 : u[i] = IF i < j THEN t[i] ELSE t[i + 1]
    BY RemoveAtFacts
  <2> HIDE DEF u
  <2>4. DOMAIN u = 1 .. Len(t) - 1
    BY <2>3, DomainIsLen
  <2>5. CASE k < j
    <3>1. k \in 1 .. Len(t) - 1 /\ u[k] = x
      BY <2>1, <2>2, <2>3, <2>5
    <3>2. QED BY <2>4, <3>1 DEF ToSet
  <2>6. CASE k > j
    <3>1. k - 1 \in 1 .. Len(t) - 1 /\ ~(k - 1 < j) /\ (k - 1) + 1 = k
      BY <2>2, <2>6
    <3>2. u[k - 1] = x
      BY <2>1, <2>3, <3>1
    <3>3. QED BY <2>4, <3>1, <3>2 DEF ToSet
  <2>7. QED BY <2>2, <2>5, <2>6
<1>3. QED BY <1>1, <1>2

LEMMA IpfRedirectPaired ==
  ASSUME backend = "ipf", IndInv, Paired("ipf", fw), NEW key \in Keys, NEW w \in PlainWants
  PROVE  Paired("ipf", upnp_redirect(key, w, {}).fw)
<1> DEFINE old == Ipf!get_redirect_rule(fw, key, {})
           m == Mapping(key, w)
           list == ListAdd(Ipf!del_redirect_desc(fw.list, key), key, w.desc, w.ts)
           g == [fw EXCEPT !.list = list]
           x == upnp_redirect_internal(m, {})
           a == upnp_redirect(key, w, {})
<1>1. fw \in FwT /\ IpfOk(fw)
  BY DEF IndInv, Good
<1>2. a = IF old = NoRow THEN x
          ELSE IF ~SameHosts(old, w) THEN [fw |-> fw, r |-> -2]
          ELSE IF old.iport # w.iport THEN [fw |-> fw, r |-> -1] ELSE [fw |-> g, r |-> 0]
  BY IpfRedirectIs
<1>3. old = NoRow => key \notin KeysOf(fw.rdr)
  BY <1>1, IpfGet DEF IpfOk
<1>4. g.rdr = fw.rdr /\ g.filter = fw.filter
  <2> HIDE DEF list
  <2>1. QED BY <1>1 DEF FwT
<1>5. Paired("ipf", g)
  BY <1>4 DEF Paired
<1> HIDE DEF old, g
<1>6. ASSUME key \notin KeysOf(fw.rdr) PROVE Paired("ipf", x.fw)
  <2> DEFINE b == Ipf!add_redirect_rule2(fw, m, {})
             p == Ipf!add_filter_rule2(b.fw, m, {})
             d == Ipf!delete_redirect_rule(p.fw, m.key, {})
  <2>1. x = IF b.r < 0 THEN [fw |-> b.fw, r |-> -1]
            ELSE IF p.r < 0 THEN [fw |-> d.fw, r |-> -1] ELSE [fw |-> p.fw, r |-> 0]
    BY IpfNewIs
  <2>2. m \in Mappings
    BY WantType
  <2>3. /\ b.r = 0 /\ b.fw.rdr = Append(fw.rdr, RdrRule(m, "none")) /\ b.fw.filter = fw.filter
        /\ IpfHeld(fw, b.fw, key)
    BY <1>1, <1>6, IpfAdd
  <2> HIDE DEF b, d, x, m
  <2>4. b.fw \in FwT /\ IpfOk(b.fw)
    BY <2>3 DEF IpfHeld
  <2>5. p.r = 0 /\ p.fw.rdr = b.fw.rdr /\ p.fw.filter = Append(b.fw.filter, PassRule(m, Eport(m.key)))
    BY <2>2, <2>4, IpfPass DEF IpfAlike
  <2> HIDE DEF p
  <2>6. x.fw = p.fw
    BY <2>1, <2>3, <2>5
  <2>7. fw.rdr \in Seq(RdrRules) /\ fw.filter \in Seq(FilterRules)
    BY <1>1, FwFields
  <2>8. \A e \in ToSet(fw.rdr) : PassAt(e) \in ToSet(fw.filter)
    BY DEF Paired
  <2>9. \A e \in ToSet(p.fw.rdr) : PassAt(e) \in ToSet(p.fw.filter)
    BY <2>2, <2>3, <2>5, <2>7, <2>8, IpfPutPaired
  <2>10. QED BY <2>6, <2>9 DEF Paired
<1> HIDE DEF x, a
<1>7. Paired("ipf", a.fw)
  BY <1>2, <1>3, <1>5, <1>6
<1>8. QED BY <1>7 DEF a

LEMMA IpfDeletePaired ==
  ASSUME backend = "ipf", IndInv, Paired("ipf", fw), NEW key \in Keys
  PROVE  Paired("ipf", upnp_delete_redir(key, {}).fw)
<1> DEFINE d == Ipf!delete_redirect_rule(fw, key, {})
           u == Ipf!delete_filter_rule(d.fw, key, {}).fw
           a == upnp_delete_redir(key, {})
<1>1. fw \in FwT /\ IpfOk(fw)
  BY DEF IndInv, Good
<1>2. a.fw = u
  BY IpfDeleteIs
<1>3. \/ IpfStays(fw, d) /\ key \notin KeysOf(fw.rdr)
      \/ IpfGone(fw, d, key)
  BY <1>1, IpfDeleteRdr
<1> HIDE DEF d, a
<1>4. fw.rdr \in Seq(RdrRules) /\ fw.filter \in Seq(PassRules) /\ UniqueKeys(fw.rdr)
  BY <1>1, FwFields DEF IpfOk
<1>5. /\ d.fw \in FwT /\ d.fw.filter = fw.filter
      /\ d.fw.rdr \in Seq(RdrRules) /\ key \notin KeysOf(d.fw.rdr) /\ UniqueKeys(d.fw.rdr)
      /\ ToSet(d.fw.rdr) \subseteq ToSet(fw.rdr)
  <2>1. CASE IpfStays(fw, d) /\ key \notin KeysOf(fw.rdr)
    BY <1>4, <2>1 DEF IpfStays
  <2>2. CASE IpfGone(fw, d, key)
    <3> DEFINE i == KeyIndex(fw.rdr, key)
    <3>1. i \in 1 .. Len(fw.rdr) /\ fw.rdr[i].key = key
      BY <1>4, <2>2, KeyIndexFacts DEF IpfGone
    <3>2. d.fw \in FwT /\ d.fw.filter = fw.filter /\ d.fw.rdr = RemoveAt(fw.rdr, i)
      BY <2>2 DEF IpfGone
    <3> HIDE DEF i
    <3>3. QED BY <1>4, <3>1, <3>2, RemoveKeyed
  <2>3. QED BY <1>3, <2>1, <2>2
<1>6. IpfOk(d.fw)
  BY <1>4, <1>5 DEF IpfOk
<1>7. \A e \in ToSet(d.fw.rdr) : PassAt(e) \in ToSet(fw.filter)
  BY <1>5 DEF Paired
<1>8. /\ u.rdr = d.fw.rdr
      /\ \/ u.filter = fw.filter
         \/ \E j \in 1 .. Len(fw.filter) :
              /\ fw.filter[j].proto = Proto(key) /\ fw.filter[j].port = Eport(key)
              /\ u.filter = RemoveAt(fw.filter, j)
  BY <1>5, <1>6, IpfUnpass DEF IpfAlike
<1> HIDE DEF u
<1>9. \A e \in ToSet(u.rdr) : PassAt(e) \in ToSet(u.filter)
  <2>1. CASE u.filter = fw.filter
    BY <1>7, <1>8, <2>1
  <2>2. ASSUME NEW j \in 1 .. Len(fw.filter), fw.filter[j].proto = Proto(key),
               fw.filter[j].port = Eport(key), u.filter = RemoveAt(fw.filter, j)
        PROVE  \A e \in ToSet(u.rdr) : PassAt(e) \in ToSet(u.filter)
    BY <1>4, <1>5, <1>7, <1>8, <2>2, IpfUnpassPaired
  <2>3. QED BY <1>8, <2>1, <2>2
<1>10. QED BY <1>2, <1>9 DEF a, Paired

-----------------------------------------------------------------------------
(* While the kernel refuses nothing *)

(* While the kernel refuses nothing, nftables too has one rule for a key,  *)
(* and every redirection has its pass rule and its nat rule (when the      *)
(* mappings to an endpoint have one remote host).                          *)
Unrefused(b, f) == (b = "nft" => UniqueKeys(f.rdr)) /\ (OneRemote => Paired(b, f))

Quiet == faults \in Nat /\ (faults = 0 => Unrefused(backend, fw))

LEMMA NoFault ==
  ASSUME NEW fails \in FailSets, faults \in Nat
  PROVE  /\ faults + Cardinality(fails) \in Nat
         /\ faults + Cardinality(fails) = 0 => faults = 0 /\ fails = {}
<1>1. CASE fails = {}
  BY <1>1, FS_EmptySet
<1>2. ASSUME NEW f \in Faults, fails = {f}
      PROVE  Cardinality(fails) = 1
  BY <1>2, FS_Singleton
<1>3. QED BY <1>1, <1>2 DEF FailSets

LEMMA RedirectUnrefused ==
  ASSUME IndInv, Unrefused(backend, fw), NEW key \in Keys, NEW w \in PlainWants
  PROVE  Unrefused(backend, upnp_redirect(key, w, {}).fw)
<1> DEFINE a == upnp_redirect(key, w, {})
<1>1. (OneRemote => Paired(backend, fw)) /\ fw \in FwT
  BY DEF Unrefused, IndInv, Good
<1>2. CASE backend = "pf"
  <2>1. OneRemote => Paired("pf", a.fw)
    BY <1>1, <1>2, PfRedirectPaired
  <2> HIDE DEF a
  <2>2. QED BY <1>2, <2>1 DEF Unrefused, a
<1>3. CASE backend = "nft"
  <2>1. OneRemote => Paired("nft", a.fw)
    BY <1>1, <1>3, NftRedirectPaired
  <2>2. CacheOk(fw) /\ SameAddr(fw.rdr) /\ UniqueKeys(fw.rdr)
    BY <1>3 DEF IndInv, Good, Unrefused
  <2>3. UniqueKeys(a.fw.rdr)
    BY <1>1, <1>3, <2>2, NftRedirectRow
  <2> HIDE DEF a
  <2>4. QED BY <1>3, <2>1, <2>3 DEF Unrefused, a
<1>4. CASE backend = "ipf"
  <2>1. OneRemote => Paired("ipf", a.fw)
    BY <1>1, <1>4, IpfRedirectPaired
  <2> HIDE DEF a
  <2>2. QED BY <1>4, <2>1 DEF Unrefused, a
<1>5. CASE backend = "ipfw"
  <2> HIDE DEF a
  <2>1. QED BY <1>5 DEF Unrefused, Paired, a
<1>6. QED BY <1>2, <1>3, <1>4, <1>5, BackendNames DEF IndInv

LEMMA DeleteUnrefused ==
  ASSUME IndInv, Unrefused(backend, fw), NEW key \in Keys
  PROVE  Unrefused(backend, upnp_delete_redir(key, {}).fw)
<1> DEFINE a == upnp_delete_redir(key, {})
<1>1. (OneRemote => Paired(backend, fw)) /\ fw \in FwT
  BY DEF Unrefused, IndInv, Good
<1>2. CASE backend = "pf"
  <2>1. a = Pf!delete_redirect_and_filter_rules(fw, key, {})
    BY <1>2 DEF upnp_delete_redir
  <2>2. ListGood(fw)
    BY <1>2 DEF IndInv, Good
  <2> HIDE DEF a
  <2>3. OneRemote => Paired("pf", a.fw)
    BY <1>1, <1>2, <2>1, <2>2, PfDeletePaired
  <2>4. QED BY <1>2, <2>3 DEF Unrefused, a
<1>3. CASE backend = "nft"
  <2>1. a = Nft!delete_redirect_and_filter_rules(fw, key, {})
    BY <1>3 DEF upnp_delete_redir
  <2>2. CacheOk(fw) /\ SameAddr(fw.rdr) /\ UniqueKeys(fw.rdr)
    BY <1>3 DEF IndInv, Good, Unrefused
  <2> HIDE DEF a
  <2>3. OneRemote => Paired("nft", a.fw)
    BY <1>1, <1>3, <2>1, <2>2, NftRemovePaired
  <2>4. UniqueKeys(a.fw.rdr)
    BY <1>1, <2>1, <2>2, NftDeleteRow
  <2>5. QED BY <1>3, <2>3, <2>4 DEF Unrefused, a
<1>4. CASE backend = "ipf"
  <2>1. OneRemote => Paired("ipf", a.fw)
    BY <1>1, <1>4, IpfDeletePaired
  <2> HIDE DEF a
  <2>2. QED BY <1>4, <2>1 DEF Unrefused, a
<1>5. CASE backend = "ipfw"
  <2> HIDE DEF a
  <2>1. QED BY <1>5 DEF Unrefused, Paired, a
<1>6. QED BY <1>2, <1>3, <1>4, <1>5, BackendNames DEF IndInv

(* what a pinhole or a restart leaves alone is enough *)
LEMMA AloneUnrefused ==
  ASSUME NEW b, NEW f, NEW g, f.filter \in Seq(FilterRules), g.filter \in Seq(FilterRules),
         Unrefused(b, f), g.rdr = f.rdr, g.nat = f.nat,
         Passes(g.filter) = Passes(f.filter), b = "ipf" => g.filter = f.filter
  PROVE  Unrefused(b, g)
<1>1. (OneRemote => Paired(b, f)) /\ (b = "nft" => UniqueKeys(f.rdr))
  BY DEF Unrefused
<1>2. OneRemote /\ b \in {"pf", "nft"} => Balanced(g.rdr, g.filter)
  BY <1>1, BalancedPins DEF Paired
<1>3. QED BY <1>1, <1>2 DEF Unrefused, Paired

LEMMA PinholeUnrefused ==
  ASSUME IndInv, HasPinholes, Unrefused(backend, fw), NEW g, PinholeEffect(backend, fw, g)
  PROVE  Unrefused(backend, g)
<1>1. g.rdr = fw.rdr /\ g.nat = fw.nat /\ Passes(g.filter) = Passes(fw.filter)
  BY DEF PinholeEffect
<1>2. fw \in FwT /\ g \in FwT
  BY DEF IndInv, PinholeEffect, Good
<1>3. fw.filter \in Seq(FilterRules) /\ g.filter \in Seq(FilterRules)
  BY <1>2, FwFields
<1>4. backend # "ipf"
  BY DEF HasPinholes
<1>5. QED BY <1>1, <1>3, <1>4, AloneUnrefused

LEMMA QuietSteps ==
  ASSUME PlainDescs, IndInv, Quiet, [Next]_vars
  PROVE  Quiet'
<1>0. faults \in Nat /\ (faults = 0 => Unrefused(backend, fw))
  BY DEF Quiet
<1>1. ASSUME NEW fails \in FailSets, faults' = faults + Cardinality(fails), backend' = backend,
             faults = 0 /\ fails = {} => Unrefused(backend, fw')
      PROVE  Quiet'
  <2>1. /\ faults' \in Nat
        /\ faults' = 0 => faults = 0 /\ fails = {}
    BY <1>0, <1>1, NoFault
  <2>2. QED BY <1>1, <2>1 DEF Quiet
<1>2. ASSUME NEW key \in Keys, NEW w \in Wants, NEW fails \in FailSets, Redirect(key, w, fails)
      PROVE  Quiet'
  <2>1. /\ fw' = upnp_redirect(key, w, fails).fw /\ faults' = faults + Cardinality(fails)
        /\ backend' = backend
    BY <1>2 DEF Redirect
  <2>2. ASSUME faults = 0, fails = {} PROVE Unrefused(backend, fw')
    BY <1>0, <2>1, <2>2, PlainWant, RedirectUnrefused
  <2>3. QED BY <1>1, <2>1, <2>2
<1>3. ASSUME NEW key \in Keys, NEW fails \in FailSets, Delete(key, fails)
      PROVE  Quiet'
  <2>1. /\ fw' = upnp_delete_redir(key, fails).fw /\ faults' = faults + Cardinality(fails)
        /\ backend' = backend
    BY <1>3 DEF Delete
  <2>2. ASSUME faults = 0, fails = {} PROVE Unrefused(backend, fw')
    BY <1>0, <2>1, <2>2, DeleteUnrefused
  <2>3. QED BY <1>1, <2>1, <2>2
<1>4. ASSUME NEW a, NEW fails \in FailSets, PinholeStep(a, fails), HasPinholes => PinholeEffect(backend, fw, a.fw)
      PROVE  Quiet'
  <2>1. HasPinholes /\ fw' = a.fw /\ faults' = faults + Cardinality(fails) /\ backend' = backend
    BY <1>4 DEF PinholeStep
  <2>2. ASSUME faults = 0 PROVE Unrefused(backend, fw')
    BY <1>0, <1>4, <2>1, <2>2, PinholeUnrefused
  <2>3. QED BY <1>1, <2>1, <2>2
<1>5. ASSUME NEW p \in Pinholes, NEW ts \in PinholeTs, NEW fails \in FailSets, AddPinhole(p, ts, fails)
      PROVE  Quiet'
  <2> DEFINE a == upnp_add_inboundpinhole(p, ts, fails)
  <2>1. PinholeStep(a, fails)
    BY <1>5 DEF AddPinhole
  <2>2. HasPinholes => PinholeEffect(backend, fw, a.fw)
    BY AddPinholeEffect
  <2> HIDE DEF a
  <2>3. QED BY <1>4, <2>1, <2>2
<1>6. ASSUME NEW uid, NEW fails \in FailSets, DeletePinhole(uid, fails)
      PROVE  Quiet'
  <2> DEFINE a == IF backend = "pf" THEN Pf!delete_pinhole(fw, uid, fails)
                  ELSE Nft!delete_pinhole(fw, uid, fails)
  <2>1. PinholeStep(a, fails)
    BY <1>6 DEF DeletePinhole
  <2>2. HasPinholes => PinholeEffect(backend, fw, a.fw)
    BY OldPinholeEffect
  <2> HIDE DEF a
  <2>3. QED BY <1>4, <2>1, <2>2
<1>7. ASSUME NEW now, NEW fails \in FailSets, CleanPinholes(now, fails)
      PROVE  Quiet'
  <2> DEFINE a == IF backend = "pf" THEN Pf!clean_pinhole_list(fw, now, MaxUid, fails)
                  ELSE Nft!clean_pinhole_list(fw, now, MaxUid, fails)
  <2>1. PinholeStep(a, fails)
    BY <1>7 DEF CleanPinholes
  <2>2. HasPinholes => PinholeEffect(backend, fw, a.fw)
    BY OldPinholeEffect
  <2> HIDE DEF a
  <2>3. QED BY <1>4, <2>1, <2>2
<1>8. ASSUME Restart
      PROVE  Quiet'
  <2> DEFINE g == Restarted(fw)
  <2>1. fw' = g /\ faults' = faults /\ backend' = backend
    BY <1>8 DEF Restart, Restarted
  <2>2. Good(backend, g) /\ g.rdr = fw.rdr /\ g.filter = fw.filter /\ g.nat = fw.nat
    BY RestartEffect
  <2> HIDE DEF g
  <2>3. fw.filter \in Seq(FilterRules)
    BY FwFields DEF IndInv, Good
  <2>4. faults = 0 => Unrefused(backend, g)
    BY <1>0, <2>2, <2>3, AloneUnrefused
  <2>5. QED BY <1>0, <2>1, <2>4 DEF Quiet
<1>9. ASSUME UNCHANGED vars
      PROVE  Quiet'
  BY <1>0, <1>9 DEF Quiet, vars
<1>10. QED BY <1>2, <1>3, <1>5, <1>6, <1>7, <1>8, <1>9 DEF Next

LEMMA InitQuiet ==
  ASSUME Init
  PROVE  Quiet
<1>1. fw.rdr = << >> /\ fw.filter = << >> /\ fw.nat = << >> /\ faults = 0
  BY DEF Init, init_redirect
<1>2. DOMAIN << >> = {}
  OBVIOUS
<1>3. UniqueKeys(fw.rdr) /\ ToSet(fw.rdr) = {}
  BY <1>1, <1>2, NothingKept DEF ToSet
<1>4. Balanced(fw.rdr, fw.filter)
  <2>1. \A T : Positions(<< >>, T) = {}
    BY <1>2 DEF Positions
  <2>2. QED BY <1>1, <1>3, <2>1 DEF Balanced, CountIn
<1>5. QED BY <1>1, <1>3, <1>4 DEF Quiet, Unrefused, Paired, Natted

(* While the kernel refuses nothing, nftables has one rule for a key and    *)
(* every redirection its pass rule and, on pf, its nat rule: see Unrefused. *)
THEOREM QuietInductive ==
  ASSUME FindsWork, PlainDescs
  PROVE  Spec => []Quiet
<1>1. Init => Quiet
  BY InitQuiet
<1>2. IndInv /\ Quiet /\ [Next]_vars => Quiet'
  BY QuietSteps
<1>3. Spec => []IndInv
  BY Inductive
<1>4. QED BY <1>1, <1>2, <1>3, PTL DEF Spec

LEMMA Pairs ==
  ASSUME PlainDescs, OneRemote, IndInv, Quiet
  PROVE  RulesPaired
<1> SUFFICES ASSUME faults = 0 PROVE RulesPaired
  BY DEF RulesPaired
<1>1. Paired(backend, fw) /\ fw.rdr \in Seq(RdrRules)
  BY FwFields DEF Quiet, Unrefused, IndInv, Good
<1>2. \A i \in DOMAIN fw.rdr : fw.rdr[i] \in RdrRules /\ fw.rdr[i] \in ToSet(fw.rdr)
  BY <1>1, DomainIsLen DEF ToSet
<1>3. \A i \in DOMAIN fw.filter : Unlabelled(fw.filter[i]) = fw.filter[i]
  <2>1. fw.filter \in Seq(FilterRules)
    BY FwFields DEF IndInv, Good
  <2>2. \A i \in DOMAIN fw.filter : fw.filter[i] \in FilterRules
    BY <2>1, DomainIsLen
  <2>3. QED BY <2>2, NoLabel
<1>4. ASSUME backend \in {"pf", "nft"}, NEW key \in Keys, NEW w \in Wants
      PROVE  Cardinality(RulesTo(Proto(key), w))
               = Cardinality({i \in DOMAIN fw.filter :
                                Unlabelled(fw.filter[i]) = Plain(key, w.rhost, w.iaddr, w.iport)})
  <2> DEFINE x == Plain(key, w.rhost, w.iaddr, w.iport)
  <2>0. w \in PlainWants
    BY PlainWant
  <2>1. x \in PassRules
    <3>1. Mapping(key, w) \in Mappings
      BY <2>0, WantType
    <3>2. PassRule(Mapping(key, w), Mapping(key, w).iport) \in PassRules
      BY <3>1, MappingFacts
    <3>3. PassRule(Mapping(key, w), Mapping(key, w).iport) = x
      BY <2>0 DEF Mapping, PassRule, Plain, PlainWants
    <3>4. QED BY <3>2, <3>3
  <2>2. ASSUME NEW e \in RdrRules
        PROVE  e \in To(x) <=> /\ Proto(e.key) = Proto(key) /\ e.rhost = w.rhost
                               /\ e.iaddr = w.iaddr /\ e.iport = w.iport
    <3>1. e.desc \notin DOMAIN Labels
      BY DEF RdrRules, Descs
    <3>2. QED BY <3>1 DEF To, Pass, PassRule, Plain
  <2> HIDE DEF x
  <2>3. RulesTo(Proto(key), w) = Positions(fw.rdr, To(x))
    BY <1>2, <2>2 DEF RulesTo, Positions
  <2>4. {i \in DOMAIN fw.filter : Unlabelled(fw.filter[i]) = x} = Positions(fw.filter, {x})
    BY <1>3 DEF Positions
  <2>5. CountIn(fw.rdr, To(x)) = CountIn(fw.filter, {x})
    BY <1>1, <1>4, <2>1 DEF Paired, Balanced
  <2>6. QED BY <2>3, <2>4, <2>5 DEF CountIn, x
<1>5. ASSUME backend = "ipf", NEW key \in Keys, NEW i \in DOMAIN fw.rdr, fw.rdr[i].key = key
      PROVE  \E j \in DOMAIN fw.filter :
               Unlabelled(fw.filter[j]) = Plain(key, fw.rdr[i].rhost, fw.rdr[i].iaddr, Eport(key))
  <2>1. PassAt(fw.rdr[i]) \in ToSet(fw.filter)
    BY <1>1, <1>2, <1>5 DEF Paired
  <2>2. PassAt(fw.rdr[i]) = Plain(key, fw.rdr[i].rhost, fw.rdr[i].iaddr, Eport(key))
    <3>1. fw.rdr[i].desc \notin DOMAIN Labels
      BY <1>2, <1>5 DEF RdrRules, Descs
    <3>2. QED BY <1>5, <3>1 DEF PassAt, PassRule, Plain
  <2>3. QED BY <1>3, <2>1, <2>2 DEF ToSet
<1>6. ASSUME backend = "pf", NEW i \in DOMAIN fw.rdr, Proto(fw.rdr[i].key) = "udp"
      PROVE  Pf!NatRule(fw.rdr[i]) \in ToSet(fw.nat)
  BY <1>1, <1>2, <1>6 DEF Paired, Natted, NatRule, Pf!NatRule
<1>7. QED BY <1>4, <1>5, <1>6 DEF RulesPaired

(* While the kernel refuses nothing, the pass rules are those of the        *)
(* redirections, and pf has the nat rule of every UDP mapping: for every    *)
(* set of mappings that share internal hosts and ports, with pinholes in    *)
(* the same chain, when the mappings to one endpoint are for one remote     *)
(* host: the deletion of a pass rule looks at the endpoint only.            *)
THEOREM RulesArePaired ==
  ASSUME FindsWork, PlainDescs, OneRemote
  PROVE  Spec => []RulesPaired
<1>1. IndInv /\ Quiet => RulesPaired
  BY Pairs
<1>2. (Spec => []IndInv) /\ (Spec => []Quiet)
  BY Inductive, QuietInductive
<1>3. QED BY <1>1, <1>2, PTL

(* The search of a port and the ways to list mappings name the same         *)
(* mappings, each once, on every backend, whatever changes the kernel       *)
(* refuses and when upnp_redirect() can read the rules; on nftables while   *)
(* the kernel refuses nothing.                                              *)
THEOREM ListingsTrue ==
  ASSUME FindsWork, PlainDescs
  PROVE  Spec => []ListingsAgree
<1>1. IndInv /\ Quiet => ListingsAgree
  BY Listings DEF Quiet, Unrefused
<1>2. (Spec => []IndInv) /\ (Spec => []Quiet)
  BY Inductive, QuietInductive
<1>3. QED BY <1>1, <1>2, PTL
=============================================================================
