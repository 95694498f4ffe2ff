--------------------------- MODULE PinholesProofs ---------------------------
(***************************************************************************)
(* Proofs about Pinholes: the list of pinholes and the ip6tables rules     *)
(* agree, and what a client was granted stays open.                        *)
(***************************************************************************)
EXTENDS Pinholes, ListLemmas, TLAPS

FileLines == Pinhole \cup {Blank}

Daemons == [list : Seq(Pinhole), next_uid : Uids, chain : [Flows -> Nat], file : Seq(FileLines)]

(* Two pinholes of the list differ in their unique ids and in their flows *)
Distinct(list) ==
  \A i, j \in DOMAIN list : i # j => list[i].uid # list[j].uid /\ list[i].flow # list[j].flow

FlowsIn(list) == {p.flow : p \in ToSet(list)}

(* Every pinhole of the list has a rule *)
Sound(e) == e \in Daemons /\ Distinct(e.list) /\ \A f \in FlowsIn(e.list) : e.chain[f] >= 1

(* Every rule is that of a pinhole of the list *)
Exact(e) == \A f \in Flows : e.chain[f] = IF f \in FlowsIn(e.list) THEN 1 ELSE 0

(* What an operation on flow leaves alone *)
Others(e, g, flow) ==
  /\ \A p : p.flow # flow => (p \in ToSet(g.list) <=> p \in ToSet(e.list))
  /\ \A f \in Flows : f # flow => g.chain[f] = e.chain[f]

(* The flow is let in, until timestamp *)
Open(e, flow, timestamp) == \E p \in ToSet(e.list) : p.flow = flow /\ p.timestamp = timestamp

-----------------------------------------------------------------------------
(* Lists *)

LEMMA SeqFacts ==
  ASSUME NEW S, NEW s \in Seq(S)
  PROVE  /\ DOMAIN s = 1..Len(s) /\ Len(s) \in Nat
         /\ \A i \in DOMAIN s : s[i] \in S
         /\ \A x \in ToSet(s) : x \in S
<1>1. DOMAIN s = 1..Len(s) /\ Len(s) \in Nat /\ \A i \in 1..Len(s) : s[i] \in S
  BY LenProperties, ElementOfSeq
<1>2. QED BY <1>1 DEF ToSet

LEMMA DaemonFields ==
  ASSUME NEW e \in Daemons
  PROVE  /\ e.list \in Seq(Pinhole) /\ e.next_uid \in Uids /\ e.chain \in [Flows -> Nat]
         /\ e.file \in Seq(FileLines)
         /\ \A p \in ToSet(e.list) : p \in Pinhole /\ p.flow \in Flows /\ p.uid \in Uids
         /\ FlowsIn(e.list) \subseteq Flows
<1>1. /\ e.list \in Seq(Pinhole) /\ e.next_uid \in Uids /\ e.chain \in [Flows -> Nat]
      /\ e.file \in Seq(FileLines)
  BY DEF Daemons
<1>2. \A p \in ToSet(e.list) : p \in Pinhole
  BY <1>1, SeqFacts
<1>3. QED BY <1>1, <1>2 DEF Pinhole, FlowsIn

(* In a list of distinct pinholes, flow and unique id tell which one it is *)
LEMMA DistinctFacts ==
  ASSUME NEW list, Distinct(list), NEW p \in ToSet(list), NEW q \in ToSet(list)
  PROVE  (p.flow = q.flow \/ p.uid = q.uid) => p = q
BY DEF Distinct, ToSet

LEMMA GetFacts ==
  ASSUME NEW e \in Daemons, NEW uid
  PROVE  /\ get_pinhole(e, uid) \in 0..Len(e.list)
         /\ get_pinhole(e, uid) = 0 <=> uid \notin UsedUids(e)
         /\ get_pinhole(e, uid) # 0 => /\ get_pinhole(e, uid) \in DOMAIN e.list
                                       /\ e.list[get_pinhole(e, uid)].uid = uid
<1> DEFINE I == {i \in 1..Len(e.list) : e.list[i].uid = uid}
<1>1. DOMAIN e.list = 1..Len(e.list) /\ Len(e.list) \in Nat
  BY DaemonFields, SeqFacts
<1>2. get_pinhole(e, uid) = IF I # {} THEN Min(I) ELSE 0
  BY DEF get_pinhole, SelectInSeq
<1>3. I \in SUBSET Nat
  OBVIOUS
<1>4. I # {} => Min(I) \in I
  BY <1>3, MinIsLeast
<1>5. I # {} <=> uid \in UsedUids(e)
  BY <1>1 DEF UsedUids, ToSet
<1> HIDE DEF I
<1>6. I # {} => Min(I) \in 1..Len(e.list) /\ e.list[Min(I)].uid = uid
  BY <1>4 DEF I
<1>7. QED BY <1>1, <1>2, <1>5, <1>6

LEMMA FindFacts ==
  ASSUME NEW e \in Daemons, NEW flow
  PROVE  /\ flow \notin FlowsIn(e.list) => find_pinhole(e, flow) = -2
         /\ flow \in FlowsIn(e.list)
              => \E p \in ToSet(e.list) : p.flow = flow /\ find_pinhole(e, flow) = p.uid
<1> DEFINE I == {i \in 1..Len(e.list) : e.list[i].flow = flow}
<1>1. DOMAIN e.list = 1..Len(e.list) /\ Len(e.list) \in Nat
  BY DaemonFields, SeqFacts
<1>2. find_pinhole(e, flow) = IF I = {} \/ Min(I) = 0 THEN -2 ELSE e.list[Min(I)].uid
  BY DEF find_pinhole, SelectInSeq
<1>3. I \in SUBSET Nat
  OBVIOUS
<1>4. I # {} => Min(I) \in I
  BY <1>3, MinIsLeast
<1>5. I # {} <=> flow \in FlowsIn(e.list)
  BY <1>1 DEF FlowsIn, ToSet
<1> HIDE DEF I
<1>6. I # {} => Min(I) \in 1..Len(e.list) /\ e.list[Min(I)].flow = flow
  BY <1>4 DEF I
<1>7. I # {} => e.list[Min(I)] \in ToSet(e.list) /\ Min(I) # 0
  BY <1>1, <1>6 DEF ToSet
<1>8. QED BY <1>2, <1>5, <1>6, <1>7

LEMMA SublistSet ==
  ASSUME NEW S, NEW list \in Seq(S), NEW kept
  PROVE  /\ Sublist(list, kept) \in Seq(S)
         /\ \A x : x \in ToSet(Sublist(list, kept)) <=> (x \in ToSet(list) /\ x \in kept)
         /\ Distinct(list) => Distinct(Sublist(list, kept))
<1> DEFINE sub == Sublist(list, kept)
<1>1. /\ sub \in Seq(S)
      /\ \E h \in [1..Len(sub) -> 1..Len(list)] :
           /\ \A j \in 1..Len(sub) : sub[j] = list[h[j]] /\ list[h[j]] \in kept
           /\ \A j, k \in 1..Len(sub) : j < k => h[j] < h[k]
      /\ \A i \in 1..Len(list) : list[i] \in kept
           => \E j \in 1..Len(sub) : sub[j] = list[i]
  BY SublistFacts
<1> HIDE DEF sub
<1>2. DOMAIN sub = 1..Len(sub) /\ DOMAIN list = 1..Len(list) /\ Len(sub) \in Nat /\ Len(list) \in Nat
  BY <1>1, SeqFacts
<1>3. ASSUME NEW x \in ToSet(sub) PROVE x \in ToSet(list) /\ x \in kept
  BY <1>1, <1>2 DEF ToSet
<1>4. ASSUME NEW x \in ToSet(list), x \in kept PROVE x \in ToSet(sub)
  BY <1>1, <1>2, <1>4 DEF ToSet
<1>5. Distinct(list) => Distinct(sub)
  <2>1. PICK h \in [1..Len(sub) -> 1..Len(list)] :
           /\ \A j \in 1..Len(sub) : sub[j] = list[h[j]]
           /\ \A j, k \in 1..Len(sub) : j < k => h[j] < h[k]
    BY <1>1
  <2>2. \A j, k \in 1..Len(sub) : j # k => h[j] # h[k]
    <3> SUFFICES ASSUME NEW j \in 1..Len(sub), NEW k \in 1..Len(sub), j # k PROVE h[j] # h[k]
      OBVIOUS
    <3>1. h[j] \in Nat /\ h[k] \in Nat
      BY <1>2, <2>1
    <3>2. j < k \/ k < j
      BY <1>2
    <3>3. QED BY <2>1, <3>1, <3>2
  <2>3. QED BY <1>2, <2>1, <2>2 DEF Distinct
<1>6. QED BY <1>1, <1>3, <1>4, <1>5 DEF sub

LEMMA ConsList ==
  ASSUME NEW list \in Seq(Pinhole), NEW p \in Pinhole
  PROVE  LET t == <<p>> \o list
         IN /\ t \in Seq(Pinhole)
            /\ \A x : x \in ToSet(t) <=> (x = p \/ x \in ToSet(list))
            /\ (Distinct(list) /\ \A q \in ToSet(list) : q.uid # p.uid /\ q.flow # p.flow)
                 => Distinct(t)
<1> DEFINE t == Cons(p, list)
           n == Len(list)
<1>1. /\ t \in Seq(Pinhole) /\ Len(t) = n + 1 /\ t[1] = p
      /\ \A j \in 2..(n + 1) : t[j] = list[j - 1]
  BY ConsFacts
<1>2. t = <<p>> \o list
  BY DEF Cons
<1>3. DOMAIN list = 1..n /\ n \in Nat
  BY SeqFacts
<1> HIDE DEF t
<1>4. DOMAIN t = 1..(n + 1)
  BY <1>1, SeqFacts
<1> HIDE DEF n
<1>5. \A i \in DOMAIN list : i + 1 \in DOMAIN t /\ t[i + 1] = list[i]
  BY <1>1, <1>3, <1>4
<1>6. \A j \in DOMAIN t : j = 1 \/ (j - 1 \in DOMAIN list /\ t[j] = list[j - 1])
  BY <1>1, <1>3, <1>4
<1>7. \A x : x \in ToSet(t) <=> (x = p \/ x \in ToSet(list))
  <2>1. ASSUME NEW x \in ToSet(t) PROVE x = p \/ x \in ToSet(list)
    BY <1>1, <1>6 DEF ToSet
  <2>2. p \in ToSet(t)
    BY <1>1, <1>3, <1>4 DEF ToSet
  <2>3. ASSUME NEW x \in ToSet(list) PROVE x \in ToSet(t)
    BY <1>5 DEF ToSet
  <2>4. QED BY <2>1, <2>2, <2>3
<1>8. ASSUME Distinct(list), \A q \in ToSet(list) : q.uid # p.uid /\ q.flow # p.flow
      PROVE  Distinct(t)
  <2>1. \A i \in DOMAIN list : list[i].uid # p.uid /\ list[i].flow # p.flow
    BY <1>8 DEF ToSet
  <2> SUFFICES ASSUME NEW i \in DOMAIN t, NEW j \in DOMAIN t, i # j
               PROVE  t[i].uid # t[j].uid /\ t[i].flow # t[j].flow
    BY DEF Distinct
  <2>2. CASE i = 1
    BY <1>1, <1>6, <2>1, <2>2
  <2>3. CASE j = 1
    BY <1>1, <1>6, <2>1, <2>3
  <2>4. CASE i # 1 /\ j # 1
    <3>1. i - 1 # j - 1
      BY <1>3, <1>4
    <3>2. QED BY <1>6, <1>8, <2>4, <3>1 DEF Distinct
  <2>5. QED BY <2>2, <2>3, <2>4
<1>9. QED BY <1>1, <1>2, <1>7, <1>8

LEMMA RemoveList ==
  ASSUME NEW list \in Seq(Pinhole), NEW i \in DOMAIN list, Distinct(list)
  PROVE  LET t == RemoveAt(list, i)
         IN /\ t \in Seq(Pinhole) /\ Distinct(t)
            /\ \A x : x \in ToSet(t) <=> (x \in ToSet(list) /\ x.flow # list[i].flow)
<1> DEFINE t == RemoveAt(list, i)
           n == Len(list)
           at(j) == IF j < i THEN j ELSE j + 1
<1>1. DOMAIN list = 1..n /\ n \in Nat /\ i \in 1..Len(list)
  BY SeqFacts
<1>2. /\ t \in Seq(Pinhole) /\ Len(t) = n - 1
      /\ \A j \in 1..(n - 1) : t[j] = IF j < i THEN list[j] ELSE list[j + 1]
  BY <1>1, RemoveAtFacts
<1> HIDE DEF t
<1>3. DOMAIN t = 1..(n - 1)
  BY <1>2, SeqFacts
<1> HIDE DEF n
<1>4. \A j \in DOMAIN t : at(j) \in DOMAIN list /\ at(j) # i /\ t[j] = list[at(j)]
  BY <1>1, <1>2, <1>3
<1>5. \A j, k \in DOMAIN t : at(j) = at(k) => j = k
  BY <1>1, <1>3
<1>6. \A j \in DOMAIN list : j # i => \E k \in DOMAIN t : at(k) = j
  <2> SUFFICES ASSUME NEW j \in DOMAIN list, j # i PROVE \E k \in DOMAIN t : at(k) = j
    OBVIOUS
  <2>1. CASE j < i
    BY <1>1, <1>3, <2>1
  <2>2. CASE j > i
    <3>1. j - 1 \in DOMAIN t /\ at(j - 1) = j
      BY <1>1, <1>3, <2>2
    <3>2. QED BY <3>1
  <2>3. QED BY <1>1, <2>1, <2>2
<1> HIDE DEF at
<1>7. Distinct(t)
  BY <1>4, <1>5 DEF Distinct
<1>8. ASSUME NEW x \in ToSet(t) PROVE x \in ToSet(list) /\ x.flow # list[i].flow
  BY <1>4 DEF ToSet, Distinct
<1>9. ASSUME NEW x \in ToSet(list), x.flow # list[i].flow PROVE x \in ToSet(t)
  <2>1. PICK j \in DOMAIN list : x = list[j]
    BY DEF ToSet
  <2>2. PICK k \in DOMAIN t : at(k) = j
    BY <1>6, <1>9, <2>1
  <2>3. QED BY <1>4, <2>1, <2>2 DEF ToSet
<1>10. QED BY <1>2, <1>7, <1>8, <1>9 DEF t

LEMMA RenewList ==
  ASSUME NEW list \in Seq(Pinhole), NEW i \in DOMAIN list, NEW timestamp \in Nat
  PROVE  LET t == [list EXCEPT ![i].timestamp = timestamp]
         IN /\ t \in Seq(Pinhole) /\ DOMAIN t = DOMAIN list
            /\ Distinct(list) => Distinct(t)
            /\ \A x : x.flow # list[i].flow => (x \in ToSet(t) <=> x \in ToSet(list))
            /\ \E p \in ToSet(t) : p.flow = list[i].flow /\ p.timestamp = timestamp
            /\ FlowsIn(t) = FlowsIn(list)
<1> DEFINE q == [list[i] EXCEPT !.timestamp = timestamp]
           t == [list EXCEPT ![i] = q]
<1>1. DOMAIN list = 1..Len(list) /\ i \in 1..Len(list) /\ list[i] \in Pinhole
  BY SeqFacts
<1>2. q \in Pinhole /\ q.flow = list[i].flow /\ q.uid = list[i].uid /\ q.timestamp = timestamp
  BY <1>1 DEF Pinhole
<1>3. t = [list EXCEPT ![i].timestamp = timestamp]
  OBVIOUS
<1> HIDE DEF q
<1>4. /\ t \in Seq(Pinhole) /\ Len(t) = Len(list)
      /\ \A j \in 1..Len(list) : t[j] = IF j = i THEN q ELSE list[j]
  BY <1>1, <1>2, ExceptSeq
<1> HIDE DEF t
<1>5. DOMAIN t = DOMAIN list
  BY <1>1, <1>4, SeqFacts
<1>6. \A j \in DOMAIN list : /\ t[j].flow = list[j].flow /\ t[j].uid = list[j].uid
                             /\ j # i => t[j] = list[j]
  BY <1>1, <1>2, <1>4
<1>7. t[i] = q
  BY <1>1, <1>4
<1>8. Distinct(list) => Distinct(t)
  BY <1>5, <1>6 DEF Distinct
<1>9. ASSUME NEW x, x.flow # list[i].flow PROVE x \in ToSet(t) <=> x \in ToSet(list)
  <2>1. \A j \in DOMAIN list : (t[j] = x \/ list[j] = x) => j # i
    BY <1>6, <1>9
  <2>2. QED BY <1>5, <1>6, <2>1 DEF ToSet
<1>10. q \in ToSet(t)
  BY <1>5, <1>7 DEF ToSet
<1>11. FlowsIn(t) = FlowsIn(list)
  <2>1. \A s : FlowsIn(s) = {s[j].flow : j \in DOMAIN s}
    BY DEF FlowsIn, ToSet
  <2>2. {t[j].flow : j \in DOMAIN t} = {list[j].flow : j \in DOMAIN list}
    BY <1>5, <1>6
  <2>3. QED BY <2>1, <2>2
<1>12. QED BY <1>2, <1>3, <1>4, <1>5, <1>8, <1>9, <1>10, <1>11

-----------------------------------------------------------------------------
(* The lease file *)

LEMMA FileLineFields ==
  ASSUME NEW l \in Pinhole
  PROVE  /\ l.flow \in Flows /\ l.uid \in Uids /\ l.timestamp \in Nat /\ l.desc \in Descs
BY DEF Pinhole

LEMMA ConstantFacts == MaxUid \in Nat \ {0} /\ UnixOffset \in Nat /\ LeaseTimes \subseteq Nat \ {0}
BY PinholesAssumption

LEMMA FileAdd ==
  ASSUME NEW file \in Seq(FileLines), NEW flow \in Flows, NEW uid \in Uids,
         NEW desc \in Descs, NEW timestamp \in Nat
  PROVE  lease_file6_add(file, flow, uid, desc, timestamp) \in Seq(FileLines)
<1>1. ToUnix(timestamp) \in Nat
  BY ConstantFacts DEF ToUnix
<1>2. PICK ts : ts = ToUnix(timestamp) /\ ts \in Nat
  BY <1>1
<1>3. [flow |-> flow, uid |-> uid, timestamp |-> ts, desc |-> desc] \in FileLines
  BY <1>2 DEF FileLines, Pinhole
<1>4. QED BY <1>2, <1>3, AppendProperties DEF lease_file6_add

LEMMA FileFiltered ==
  ASSUME NEW file \in Seq(FileLines), NEW flow, NEW uid
  PROVE  /\ lease_file6_remove(file, flow) \in Seq(FileLines)
         /\ lease_file6_remove_uid(file, uid) \in Seq(FileLines)
         /\ lease_file6_expire(file) \in Seq(FileLines)
BY SublistSet DEF lease_file6_remove, lease_file6_remove_uid, lease_file6_expire

LEMMA FileUpdate ==
  ASSUME NEW file \in Seq(FileLines), NEW uid \in Uids, NEW timestamp \in Nat
  PROVE  lease_file6_update(file, uid, timestamp) \in Seq(FileLines)
<1> DEFINE lines == Sublist(file, ToSet(file) \ {Blank})
           Updated(l) == [l EXCEPT !.uid = uid,
                                   !.timestamp = IF l.uid = uid THEN ToUnix(timestamp) ELSE @]
           At(i) == IF i % 2 = 1 THEN Updated(lines[(i + 1) \div 2]) ELSE Blank
<1>1. lines \in Seq(FileLines) /\ \A x \in ToSet(lines) : x # Blank
  <2>1. PICK kept : kept = ToSet(file) \ {Blank}
    OBVIOUS
  <2>2. QED BY <2>1, SublistSet
<1>2. lease_file6_update(file, uid, timestamp) = [i \in 1..(2 * Len(lines)) |-> At(i)]
  BY DEF lease_file6_update
<1> HIDE DEF lines
<1>3. DOMAIN lines = 1..Len(lines) /\ Len(lines) \in Nat /\ \A j \in DOMAIN lines : lines[j] \in FileLines
  BY <1>1, SeqFacts
<1>4. ASSUME NEW i \in 1..(2 * Len(lines)) PROVE At(i) \in FileLines
  <2>1. CASE i % 2 = 1
    <3>1. (i + 1) \div 2 \in 1..Len(lines)
      BY <1>3, <2>1
    <3>2. PICK l : l = lines[(i + 1) \div 2]
      OBVIOUS
    <3>3. l \in FileLines /\ l \in ToSet(lines)
      BY <1>3, <3>1, <3>2 DEF ToSet
    <3>4. l \in Pinhole
      BY <1>1, <3>3 DEF FileLines
    <3>5. ToUnix(timestamp) \in Nat
      BY ConstantFacts DEF ToUnix
    <3>6. Updated(l) \in Pinhole
      BY <3>4, <3>5 DEF Pinhole
    <3>7. QED BY <2>1, <3>2, <3>6 DEF FileLines
  <2>2. CASE i % 2 # 1
    BY <2>2 DEF FileLines
  <2>3. QED BY <2>1, <2>2
<1> HIDE DEF At
<1>5. [i \in 1..(2 * Len(lines)) |-> At(i)] \in Seq(FileLines)
  <2>1. 2 * Len(lines) \in Nat
    BY <1>3
  <2>2. QED BY <1>4, <2>1, IsASeq
<1>6. QED BY <1>2, <1>5

(* The lines of a flow *)
Lines(file, f) == {l \in ToSet(file) : l # Blank /\ l.flow = f}

(* The flow has one line, or copies of one, with this unique id and end *)
OneLine(file, flow, uid, timestamp) ==
  /\ Lines(file, flow) # {}
  /\ \A l \in Lines(file, flow) : l.uid = uid /\ l.timestamp = ToUnix(timestamp)

LEMMA LinesFiltered ==
  ASSUME NEW file \in Seq(FileLines), NEW uid, NEW f
  PROVE  /\ Lines(lease_file6_remove_uid(file, uid), f) = {l \in Lines(file, f) : l.uid # uid}
         /\ Lines(lease_file6_expire(file), f)
              = {l \in Lines(file, f) : l.timestamp > ToUnix(now)}
<1>1. \A kept : \A x : x \in ToSet(Sublist(file, kept)) <=> (x \in ToSet(file) /\ x \in kept)
  BY SublistSet
<1>2. \A x : x \in ToSet(lease_file6_remove_uid(file, uid))
              <=> (x \in ToSet(file) /\ (x = Blank \/ x.uid # uid))
  BY <1>1 DEF lease_file6_remove_uid
<1>3. \A x : x \in ToSet(lease_file6_expire(file))
              <=> (x \in ToSet(file) /\ x # Blank /\ x.timestamp > ToUnix(now))
  BY <1>1 DEF lease_file6_expire
<1>4. Lines(lease_file6_remove_uid(file, uid), f) = {l \in Lines(file, f) : l.uid # uid}
  BY <1>2 DEF Lines
<1>5. QED BY <1>3, <1>4 DEF Lines

(* What Recorded writes *)
LEMMA LinesRecorded ==
  ASSUME NEW file \in Seq(FileLines), NEW flow \in Flows, NEW uid \in Uids, NEW desc \in Descs,
         NEW timestamp \in Nat
  PROVE  LET new == lease_file6_add(lease_file6_remove(file, flow), flow, uid, desc, timestamp)
         IN /\ OneLine(new, flow, uid, timestamp)
            /\ \A f : ~SamePrefix(f, flow) => Lines(new, f) = Lines(file, f)
<1>1. PICK rest : rest = lease_file6_remove(file, flow)
  OBVIOUS
<1>2. rest \in Seq(FileLines)
  BY <1>1, FileFiltered
<1>3. \A x : x \in ToSet(rest) <=> (x \in ToSet(file) /\ (x = Blank \/ ~SamePrefix(x.flow, flow)))
  <2>1. \A kept : \A x : x \in ToSet(Sublist(file, kept)) <=> (x \in ToSet(file) /\ x \in kept)
    BY SublistSet
  <2>2. QED BY <1>1, <2>1 DEF lease_file6_remove
<1>4. PICK l : l = [flow |-> flow, uid |-> uid, timestamp |-> ToUnix(timestamp), desc |-> desc]
  OBVIOUS
<1>5. l.flow = flow /\ l.uid = uid /\ l.timestamp = ToUnix(timestamp)
  BY <1>4
<1>6. l \in Pinhole
  <2>1. ToUnix(timestamp) \in Nat
    BY ConstantFacts DEF ToUnix
  <2>2. QED BY <1>4, <2>1 DEF Pinhole
<1>7. l # Blank
  BY <1>4 DEF Blank
<1>8. PICK new : new = Append(rest, l)
  OBVIOUS
<1>9. \A x : x \in ToSet(new) <=> (x \in ToSet(rest) \/ x = l)
  <2>1. /\ Len(new) = Len(rest) + 1 /\ new[Len(rest) + 1] = l
        /\ \A i \in 1..Len(rest) : new[i] = rest[i]
        /\ new \in Seq(FileLines)
    BY <1>2, <1>6, <1>8, AppendProperties DEF FileLines
  <2>2. /\ DOMAIN new = 1..Len(new) /\ DOMAIN rest = 1..Len(rest) /\ Len(rest) \in Nat
    BY <1>2, <2>1, SeqFacts
  <2>3. QED BY <2>1, <2>2 DEF ToSet
<1>10. SamePrefix(flow, flow)
  BY DEF SamePrefix
<1>11. OneLine(new, flow, uid, timestamp)
  <2>1. l \in Lines(new, flow)
    BY <1>5, <1>7, <1>9 DEF Lines
  <2>2. \A x \in Lines(new, flow) : x = l
    BY <1>3, <1>9, <1>10 DEF Lines
  <2>3. QED BY <1>5, <2>1, <2>2 DEF OneLine
<1>12. ASSUME NEW f, ~SamePrefix(f, flow) PROVE Lines(new, f) = Lines(file, f)
  <2>1. \A x : x \in Lines(new, f) <=> x \in Lines(file, f)
    BY <1>3, <1>5, <1>9, <1>10, <1>12 DEF Lines
  <2>2. QED BY <2>1
<1>13. new = lease_file6_add(lease_file6_remove(file, flow), flow, uid, desc, timestamp)
  BY <1>1, <1>4, <1>8 DEF lease_file6_add
<1>14. QED BY <1>11, <1>12, <1>13

-----------------------------------------------------------------------------
(* netfilter/iptpinhole.c *)

(* The loop over get_pinhole ends with a unique id that no pinhole has *)
LEMMA FreeUid ==
  ASSUME NEW e \in Daemons, ~(Uids \subseteq UsedUids(e))
  PROVE  /\ NextFreeUid(e) \in Uids /\ NextFreeUid(e) \notin UsedUids(e)
         /\ Increment(NextFreeUid(e)) \in Uids
<1> DEFINE free == Uids \ UsedUids(e)
           Steps(uid) == (uid - e.next_uid) % MaxUid
           Best(uid) == \A u \in free : Steps(uid) <= Steps(u)
           I == {Steps(u) : u \in free}
<1>1. MaxUid \in Nat \ {0} /\ e.next_uid \in Uids
  BY ConstantFacts, DaemonFields
<1>2. \A u \in free : Steps(u) \in Nat
  BY <1>1 DEF Uids
<1> HIDE DEF Steps
<1>3. I \in SUBSET Nat /\ I # {}
  BY <1>2
<1>4. PICK m \in I : \A j \in I : m <= j
  BY <1>3, LeastElement
<1>5. PICK u \in free : m = Steps(u)
  BY <1>4
<1>6. Best(u)
  BY <1>4, <1>5
<1>7. NextFreeUid(e) = CHOOSE uid \in free : Best(uid)
  BY DEF NextFreeUid, Steps
<1> HIDE DEF Best
<1>8. NextFreeUid(e) \in free
  BY <1>5, <1>6, <1>7
<1>9. QED BY <1>1, <1>8 DEF Increment, Uids

LEMMA AddToList ==
  ASSUME NEW e \in Daemons, NEW flow \in Flows, NEW desc \in Descs, NEW timestamp \in Nat,
         NEW add, add = add_to_pinhole_list(e, flow, desc, timestamp)
  PROVE     \/ add.r = Hang /\ add.d = e
            \/ /\ add.r \in Uids
               /\ add.d \in Daemons /\ add.d.chain = e.chain /\ add.d.file = e.file
               /\ \E p \in Pinhole :
                    /\ p.flow = flow /\ p.timestamp = timestamp /\ p.uid = add.r
                    /\ \A x : x \in ToSet(add.d.list) <=> (x = p \/ x \in ToSet(e.list))
               /\ (Distinct(e.list) /\ flow \notin FlowsIn(e.list)) => Distinct(add.d.list)
<1>1. CASE Uids \subseteq UsedUids(e)
  BY <1>1 DEF add_to_pinhole_list, Result
<1>2. CASE ~(Uids \subseteq UsedUids(e))
  <2> DEFINE uid == NextFreeUid(e)
             p == [flow |-> flow, uid |-> uid, timestamp |-> timestamp, desc |-> desc]
             g == [e EXCEPT !.list = <<p>> \o @, !.next_uid = Increment(uid)]
  <2>1. uid \in Uids /\ uid \notin UsedUids(e) /\ Increment(uid) \in Uids
    BY <1>2, FreeUid
  <2>2. add_to_pinhole_list(e, flow, desc, timestamp) = Result(g, uid)
    BY <1>2 DEF add_to_pinhole_list
  <2> HIDE DEF uid
  <2>3. p \in Pinhole /\ p.flow = flow /\ p.timestamp = timestamp /\ p.uid = uid
    BY <2>1 DEF Pinhole
  <2> HIDE DEF p
  <2>4. e.list \in Seq(Pinhole)
    BY DaemonFields
  <2>5. PICK t : t = <<p>> \o e.list
    OBVIOUS
  <2>6. /\ t \in Seq(Pinhole)
        /\ \A x : x \in ToSet(t) <=> (x = p \/ x \in ToSet(e.list))
        /\ (Distinct(e.list) /\ \A q \in ToSet(e.list) : q.uid # p.uid /\ q.flow # p.flow) => Distinct(t)
    BY <2>3, <2>4, <2>5, ConsList
  <2>7. g \in Daemons /\ g.chain = e.chain /\ g.list = t /\ g.file = e.file
    BY <2>1, <2>5, <2>6 DEF Daemons
  <2>8. flow \notin FlowsIn(e.list) => \A q \in ToSet(e.list) : q.uid # p.uid /\ q.flow # p.flow
    BY <2>1, <2>3 DEF FlowsIn, UsedUids
  <2> HIDE DEF g
  <2>9. QED BY <2>1, <2>2, <2>3, <2>6, <2>7, <2>8 DEF Result
<1>3. QED BY <1>1, <1>2

(* The pinhole of flow is open until timestamp, and no other has changed *)
Opened(e, g, flow, timestamp) ==
  /\ Sound(g) /\ Others(e, g, flow) /\ Open(g, flow, timestamp)
  /\ Exact(e) => Exact(g)

(* The pinhole of flow has this unique id *)
Numbered(e, flow, uid) == \E p \in ToSet(e.list) : p.flow = flow /\ p.uid = uid

(* What an addition that returns r leaves: without a unique id, the list as *)
(* it was, and an extra rule only if calloc has failed or the daemon hangs  *)
AddResult(e, add, flow, timestamp, fails) ==
  \/ /\ add.r \in Uids /\ Opened(e, add.d, flow, timestamp)
     /\ Numbered(add.d, flow, add.r)
  \/ /\ add.r \notin Uids
     /\ Sound(add.d) /\ add.d.list = e.list /\ add.d.file = e.file
     /\ Exact(e) => (Exact(add.d) \/ "calloc" \in fails \/ add.r = Hang)

(* Exact depends on the flows of the list and on the chain only *)
LEMMA ExactOthers ==
  ASSUME NEW e \in Daemons, NEW g \in Daemons, NEW flow \in Flows, Others(e, g, flow), Exact(e),
         g.chain[flow] = IF flow \in FlowsIn(g.list) THEN 1 ELSE 0
  PROVE  Exact(g)
<1>1. ASSUME NEW f \in Flows, f # flow
      PROVE  f \in FlowsIn(g.list) <=> f \in FlowsIn(e.list)
  BY <1>1 DEF Others, FlowsIn
<1>2. QED BY <1>1 DEF Others, Exact

LEMMA AddPinholeFacts ==
  ASSUME NEW e, Sound(e), NEW flow \in Flows, flow \notin FlowsIn(e.list),
         NEW desc \in Descs, NEW timestamp \in Nat, NEW fails
  PROVE  /\ AddResult(e, add_pinhole(e, flow, desc, timestamp, fails), flow, timestamp, fails)
         /\ add_pinhole(e, flow, desc, timestamp, fails).d.file = e.file
<1> DEFINE ruled == [e EXCEPT !.chain[flow] = @ + 1]
           add == add_pinhole(e, flow, desc, timestamp, fails)
<1>0. -1 \notin Uids /\ Hang \notin Uids
  BY ConstantFacts DEF Uids, Hang
<1>1. e \in Daemons /\ Distinct(e.list) /\ \A f \in FlowsIn(e.list) : e.chain[f] >= 1
  BY DEF Sound
<1>2. e.chain \in [Flows -> Nat] /\ FlowsIn(e.list) \subseteq Flows
  BY <1>1, DaemonFields
<1>3. /\ ruled \in Daemons /\ ruled.list = e.list /\ ruled.file = e.file
      /\ ruled.chain = [e.chain EXCEPT ![flow] = @ + 1]
  <2>1. PICK c : c = [e.chain EXCEPT ![flow] = @ + 1]
    OBVIOUS
  <2>2. c \in [Flows -> Nat]
    BY <1>2, <2>1
  <2>3. ruled = [e EXCEPT !.chain = c]
    BY <2>1
  <2>4. QED BY <1>1, <2>1, <2>2, <2>3 DEF Daemons
<1>4. /\ ruled.chain[flow] = e.chain[flow] + 1
      /\ \A f \in Flows : f # flow => ruled.chain[f] = e.chain[f]
  BY <1>2, <1>3
<1>5. CASE "append" \in fails
  <2>1. add = Result(e, -1)
    BY <1>5 DEF add_pinhole
  <2>2. add.d = e /\ add.r = -1
    BY <2>1 DEF Result
  <2> HIDE DEF add
  <2>3. QED BY <1>0, <2>2 DEF AddResult, add
<1>6. CASE "append" \notin fails /\ "calloc" \in fails
  <2>1. add = Result(ruled, -1)
    BY <1>6 DEF add_pinhole
  <2> HIDE DEF ruled
  <2>2. add.d = ruled /\ add.r = -1
    BY <2>1 DEF Result
  <2>3. Sound(ruled)
    BY <1>1, <1>2, <1>3, <1>4 DEF Sound
  <2> HIDE DEF add
  <2>4. QED BY <1>0, <1>3, <1>6, <2>2, <2>3 DEF AddResult, add
<1>7. CASE "append" \notin fails /\ "calloc" \notin fails
  <2>1. add = add_to_pinhole_list(ruled, flow, desc, timestamp)
    BY <1>7 DEF add_pinhole
  <2> HIDE DEF ruled, add
  <2>2. Sound(ruled)
    BY <1>1, <1>2, <1>3, <1>4 DEF Sound
  <2>3. \/ add.r = Hang /\ add.d = ruled
        \/ /\ add.r \in Uids
           /\ add.d \in Daemons /\ add.d.chain = ruled.chain /\ add.d.file = ruled.file
           /\ \E p \in Pinhole :
                /\ p.flow = flow /\ p.timestamp = timestamp /\ p.uid = add.r
                /\ \A x : x \in ToSet(add.d.list) <=> (x = p \/ x \in ToSet(ruled.list))
           /\ (Distinct(ruled.list) /\ flow \notin FlowsIn(ruled.list)) => Distinct(add.d.list)
    BY <1>3, <2>1, AddToList
  <2>4. CASE add.r = Hang /\ add.d = ruled
    BY <1>0, <1>3, <2>2, <2>4 DEF AddResult, add
  <2>5. CASE /\ add.r \in Uids
             /\ add.d \in Daemons /\ add.d.chain = ruled.chain /\ add.d.file = ruled.file
             /\ \E p \in Pinhole :
                  /\ p.flow = flow /\ p.timestamp = timestamp /\ p.uid = add.r
                  /\ \A x : x \in ToSet(add.d.list) <=> (x = p \/ x \in ToSet(ruled.list))
             /\ (Distinct(ruled.list) /\ flow \notin FlowsIn(ruled.list)) => Distinct(add.d.list)
    <3>1. PICK g : g = add.d
      OBVIOUS
    <3>2. PICK p \in Pinhole : /\ p.flow = flow /\ p.timestamp = timestamp /\ p.uid = add.r
                               /\ \A x : x \in ToSet(g.list) <=> (x = p \/ x \in ToSet(e.list))
      BY <1>3, <2>5, <3>1
    <3>3. g \in Daemons /\ Distinct(g.list) /\ g.chain = ruled.chain
      BY <1>1, <1>3, <2>5, <3>1
    <3>4. flow \in FlowsIn(g.list) /\ \A f \in FlowsIn(g.list) : f = flow \/ f \in FlowsIn(e.list)
      BY <3>2 DEF FlowsIn
    <3>5. Sound(g)
      BY <1>1, <1>2, <1>4, <3>3, <3>4 DEF Sound
    <3>6. Others(e, g, flow)
      BY <1>4, <3>2, <3>3 DEF Others
    <3>7. Open(g, flow, timestamp)
      BY <3>2 DEF Open
    <3>8. Exact(e) => g.chain[flow] = 1
      BY <1>4, <3>3 DEF Exact
    <3>9. Exact(e) => Exact(g)
      BY <1>1, <3>3, <3>4, <3>6, <3>8, ExactOthers
    <3>10. Opened(e, g, flow, timestamp)
      BY <3>5, <3>6, <3>7, <3>9 DEF Opened
    <3>11. Numbered(g, flow, add.r)
      BY <3>2 DEF Numbered
    <3>12. QED BY <1>3, <2>5, <3>1, <3>10, <3>11 DEF AddResult, add
  <2>6. QED BY <2>3, <2>4, <2>5
<1>8. QED BY <1>5, <1>6, <1>7

LEMMA UpdatePinholeFacts ==
  ASSUME NEW e, Sound(e), NEW p \in ToSet(e.list), NEW timestamp \in Nat
  PROVE  LET up == update_pinhole(e, p.uid, timestamp)
         IN up.r = 0 /\ Opened(e, up.d, p.flow, timestamp) /\ Numbered(up.d, p.flow, p.uid)
<1>1. e \in Daemons /\ Distinct(e.list) /\ \A f \in FlowsIn(e.list) : e.chain[f] >= 1
  BY DEF Sound
<1>2. PICK i : i = get_pinhole(e, p.uid)
  OBVIOUS
<1>3. i # 0 /\ i \in DOMAIN e.list /\ e.list[i].uid = p.uid
  BY <1>1, <1>2, GetFacts DEF UsedUids
<1>4. e.list[i] = p
  BY <1>1, <1>3, DistinctFacts DEF ToSet
<1>5. e.list \in Seq(Pinhole) /\ p.flow \in Flows
  BY <1>1, DaemonFields
<1>6. PICK t : t = [e.list EXCEPT ![i].timestamp = timestamp]
  OBVIOUS
<1>7. /\ t \in Seq(Pinhole) /\ Distinct(t)
      /\ \A x : x.flow # p.flow => (x \in ToSet(t) <=> x \in ToSet(e.list))
      /\ \E q \in ToSet(t) : q.flow = p.flow /\ q.timestamp = timestamp
      /\ \E q \in ToSet(t) : q.flow = p.flow /\ q.uid = p.uid
      /\ FlowsIn(t) = FlowsIn(e.list)
  <2>1. PICK list : list = e.list
    OBVIOUS
  <2>2. list \in Seq(Pinhole) /\ i \in DOMAIN list /\ list[i] = p /\ Distinct(list)
    BY <1>1, <1>3, <1>4, <1>5, <2>1
  <2>3. t = [list EXCEPT ![i].timestamp = timestamp]
    BY <1>6, <2>1
  <2>4. /\ t \in Seq(Pinhole) /\ Distinct(t)
        /\ \A x : x.flow # list[i].flow => (x \in ToSet(t) <=> x \in ToSet(list))
        /\ \E q \in ToSet(t) : q.flow = list[i].flow /\ q.timestamp = timestamp
        /\ FlowsIn(t) = FlowsIn(list)
    BY <2>2, <2>3, RenewList
  <2>5. t[i] \in ToSet(t) /\ t[i].flow = p.flow /\ t[i].uid = p.uid
    <3>1. DOMAIN t = DOMAIN list /\ t[i] = [list[i] EXCEPT !.timestamp = timestamp]
      BY <2>2, <2>3
    <3>2. p \in Pinhole
      BY <1>1, DaemonFields
    <3>3. QED BY <2>2, <3>1, <3>2 DEF ToSet, Pinhole
  <2>6. QED BY <2>1, <2>2, <2>4, <2>5
<1>8. PICK g : g = [e EXCEPT !.list[i].timestamp = timestamp]
  OBVIOUS
<1>9. g = [e EXCEPT !.list = t]
  BY <1>6, <1>8
<1>10. g \in Daemons /\ g.list = t /\ g.chain = e.chain
  BY <1>1, <1>7, <1>9 DEF Daemons
<1>11. update_pinhole(e, p.uid, timestamp) = Result(g, 0)
  BY <1>2, <1>3, <1>8 DEF update_pinhole
<1>12. Sound(g)
  BY <1>1, <1>7, <1>10 DEF Sound
<1>13. Others(e, g, p.flow) /\ Open(g, p.flow, timestamp)
  BY <1>7, <1>10 DEF Others, Open
<1>14. Exact(e) => Exact(g)
  BY <1>7, <1>10 DEF Exact
<1>15. Opened(e, g, p.flow, timestamp)
  BY <1>12, <1>13, <1>14 DEF Opened
<1>16. Numbered(g, p.flow, p.uid)
  BY <1>7, <1>10 DEF Numbered
<1>17. QED BY <1>11, <1>15, <1>16 DEF Result

LEMMA DeletePinholeFacts ==
  ASSUME NEW e, Sound(e), NEW p \in ToSet(e.list), NEW fails
  PROVE  LET del == delete_pinhole(e, p.uid, fails)
         IN \/ del.r = -1 /\ del.d = e
            \/ /\ del.r = 0 /\ Sound(del.d) /\ Others(e, del.d, p.flow)
               /\ Exact(e) => Exact(del.d)
               /\ \A x \in ToSet(del.d.list) : x \in ToSet(e.list)
               /\ del.d.file = e.file
<1>1. e \in Daemons /\ Distinct(e.list) /\ \A f \in FlowsIn(e.list) : e.chain[f] >= 1
  BY DEF Sound
<1>2. PICK i : i = get_pinhole(e, p.uid)
  OBVIOUS
<1>3. i # 0 /\ i \in DOMAIN e.list /\ e.list[i].uid = p.uid
  BY <1>1, <1>2, GetFacts DEF UsedUids
<1>4. e.list[i] = p
  BY <1>1, <1>3, DistinctFacts DEF ToSet
<1>5. e.list \in Seq(Pinhole) /\ p.flow \in Flows /\ e.chain \in [Flows -> Nat]
  BY <1>1, DaemonFields
<1>6. e.chain[p.flow] >= 1
  BY <1>1 DEF FlowsIn
<1>7. CASE "delete" \in fails
  <2>1. delete_pinhole(e, p.uid, fails) = Result(e, -1)
    BY <1>2, <1>3, <1>7 DEF delete_pinhole
  <2>2. QED BY <2>1 DEF Result
<1>8. CASE "delete" \notin fails
  <2>1. PICK list : list = e.list
    OBVIOUS
  <2>2. PICK t : t = RemoveAt(list, i)
    OBVIOUS
  <2>3. list \in Seq(Pinhole) /\ i \in DOMAIN list /\ Distinct(list) /\ list[i] = p
    BY <1>1, <1>3, <1>4, <1>5, <2>1
  <2>4. /\ t \in Seq(Pinhole) /\ Distinct(t)
        /\ \A x : x \in ToSet(t) <=> (x \in ToSet(list) /\ x.flow # list[i].flow)
    BY <2>2, <2>3, RemoveList
  <2>5. \A x : x \in ToSet(t) <=> (x \in ToSet(list) /\ x.flow # p.flow)
    BY <2>3, <2>4
  <2>6. PICK c : c = [e.chain EXCEPT ![p.flow] = @ - 1]
    OBVIOUS
  <2>7. /\ c \in [Flows -> Nat] /\ c[p.flow] = e.chain[p.flow] - 1
        /\ \A f \in Flows : f # p.flow => c[f] = e.chain[f]
    BY <1>5, <1>6, <2>6
  <2>8. PICK g : g = [e EXCEPT !.list = t, !.chain = c]
    OBVIOUS
  <2>9. g \in Daemons /\ g.list = t /\ g.chain = c /\ g.file = e.file
    BY <1>1, <2>4, <2>7, <2>8 DEF Daemons
  <2>10. g = [[e EXCEPT !.list = RemoveAt(@, i)] EXCEPT !.chain[p.flow] = @ - 1]
    <3>1. PICK h : h = [e EXCEPT !.list = t]
      OBVIOUS
    <3>2. h \in Daemons /\ h.list = t /\ h.chain = e.chain /\ h.next_uid = e.next_uid /\ h.file = e.file
      BY <1>1, <2>4, <3>1 DEF Daemons
    <3>3. h = [e EXCEPT !.list = RemoveAt(@, i)]
      BY <2>1, <2>2, <3>1
    <3>4. [h EXCEPT !.chain[p.flow] = @ - 1] = [h EXCEPT !.chain = c]
      BY <2>6, <3>2
    <3>5. [h EXCEPT !.chain = c] = g
      BY <1>1, <2>7, <2>8, <3>1, <3>2 DEF Daemons
    <3>6. QED BY <3>3, <3>4, <3>5
  <2>11. delete_pinhole(e, p.uid, fails) = Result(g, 0)
    <3>1. e.chain[p.flow] # 0
      BY <1>5, <1>6
    <3>2. QED BY <1>2, <1>3, <1>4, <1>8, <2>10, <3>1 DEF delete_pinhole
  <2>12. \A f : f \in FlowsIn(t) <=> f \in FlowsIn(list) /\ f # p.flow
    <3>1. \A s : FlowsIn(s) = {x.flow : x \in ToSet(s)}
      BY DEF FlowsIn
    <3>2. QED BY <2>5, <3>1
  <2>13. Sound(g)
    <3>1. \A f \in FlowsIn(t) : c[f] >= 1
      BY <1>1, <1>5, <2>1, <2>7, <2>12, DaemonFields
    <3>2. QED BY <2>4, <2>9, <3>1 DEF Sound
  <2>14. Others(e, g, p.flow)
    BY <2>1, <2>5, <2>7, <2>9 DEF Others
  <2>15. ASSUME Exact(e) PROVE Exact(g)
    <3>1. e.chain[p.flow] = 1
      BY <1>5, <2>15 DEF Exact, FlowsIn
    <3>2. g.chain[p.flow] = 0 /\ p.flow \notin FlowsIn(g.list)
      BY <2>7, <2>9, <2>12, <3>1
    <3>3. QED BY <1>1, <1>5, <2>9, <2>14, <2>15, <3>2, ExactOthers
  <2>16. \A x \in ToSet(g.list) : x \in ToSet(e.list)
    BY <2>1, <2>5, <2>9
  <2>17. QED BY <2>9, <2>11, <2>13, <2>14, <2>15, <2>16 DEF Result
<1>9. QED BY <1>7, <1>8

-----------------------------------------------------------------------------
(* upnppinhole.c *)

(* Writing the lease file changes nothing else *)
LEMMA FileWritten ==
  ASSUME NEW e, Sound(e), NEW file \in Seq(FileLines)
  PROVE  LET g == [e EXCEPT !.file = file]
         IN Sound(g) /\ g.list = e.list /\ g.chain = e.chain /\ g.file = file
<1>1. e \in Daemons /\ Distinct(e.list) /\ \A f \in FlowsIn(e.list) : e.chain[f] >= 1
  BY DEF Sound
<1>2. PICK g : g = [e EXCEPT !.file = file]
  OBVIOUS
<1>3. g \in Daemons /\ g.list = e.list /\ g.chain = e.chain /\ g.file = file
  BY <1>1, <1>2 DEF Daemons
<1>4. QED BY <1>1, <1>2, <1>3 DEF Sound

LEMMA OpenedFile ==
  ASSUME NEW e, NEW g, NEW flow, NEW timestamp, Opened(e, g, flow, timestamp),
         NEW file \in Seq(FileLines)
  PROVE  Opened(e, [g EXCEPT !.file = file], flow, timestamp)
<1>1. Sound(g)
  BY DEF Opened
<1>2. PICK h : h = [g EXCEPT !.file = file]
  OBVIOUS
<1>3. Sound(h) /\ h.list = g.list /\ h.chain = g.chain
  BY <1>1, <1>2, FileWritten
<1>4. Opened(e, h, flow, timestamp)
  BY <1>3 DEF Opened, Others, Open, Exact
<1>5. QED BY <1>2, <1>4

LEMMA UpdateFacts ==
  ASSUME NEW e, Sound(e), NEW p \in ToSet(e.list), now \in Nat, NEW leasetime \in Nat
  PROVE  LET up == upnp_update_inboundpinhole(e, p.uid, leasetime)
         IN up.r = 0 /\ Opened(e, up.d, p.flow, now + leasetime) /\ Numbered(up.d, p.flow, p.uid)
<1>1. PICK ts \in Nat : ts = now + leasetime
  OBVIOUS
<1>2. p.uid \in Uids /\ p.flow \in Flows
  BY DaemonFields DEF Sound
<1>3. PICK up : up = update_pinhole(e, p.uid, ts)
  OBVIOUS
<1>4. up.r = 0 /\ Opened(e, up.d, p.flow, ts) /\ Numbered(up.d, p.flow, p.uid)
  BY <1>3, UpdatePinholeFacts
<1>5. PICK file : file = lease_file6_update(up.d.file, p.uid, ts)
  OBVIOUS
<1>6. file \in Seq(FileLines)
  <2>1. up.d.file \in Seq(FileLines)
    BY <1>4, DaemonFields DEF Opened, Sound
  <2>2. QED BY <1>2, <1>5, <2>1, FileUpdate
<1>7. upnp_update_inboundpinhole(e, p.uid, leasetime) = Result([up.d EXCEPT !.file = file], 0)
  BY <1>1, <1>3, <1>4, <1>5 DEF upnp_update_inboundpinhole
<1>8. Opened(e, [up.d EXCEPT !.file = file], p.flow, ts)
  BY <1>4, <1>6, OpenedFile
<1>9. PICK g : g = [up.d EXCEPT !.file = file]
  OBVIOUS
<1>10. Numbered(g, p.flow, p.uid)
  BY <1>4, <1>6, <1>9, FileWritten DEF Opened, Numbered
<1>11. QED BY <1>1, <1>7, <1>8, <1>9, <1>10 DEF Result

LEMMA RecordedFacts ==
  ASSUME NEW e, NEW g, NEW flow \in Flows, NEW uid \in Uids, NEW desc \in Descs,
         NEW timestamp \in Nat, Opened(e, g, flow, timestamp)
  PROVE  LET rec == Recorded(g, flow, uid, desc, timestamp)
         IN /\ rec.r = uid /\ Opened(e, rec.d, flow, timestamp)
            /\ Numbered(g, flow, uid) => Numbered(rec.d, flow, uid)
            /\ OneLine(rec.d.file, flow, uid, timestamp)
            /\ \A f : ~SamePrefix(f, flow) => Lines(rec.d.file, f) = Lines(g.file, f)
<1>1. g.file \in Seq(FileLines)
  BY DaemonFields DEF Opened, Sound
<1>2. PICK file : file = lease_file6_add(lease_file6_remove(g.file, flow), flow, uid, desc, timestamp)
  OBVIOUS
<1>3. file \in Seq(FileLines)
  <2>1. lease_file6_remove(g.file, flow) \in Seq(FileLines)
    BY <1>1, FileFiltered
  <2>2. QED BY <1>2, <2>1, FileAdd
<1>4. Recorded(g, flow, uid, desc, timestamp) = Result([g EXCEPT !.file = file], uid)
  BY <1>2 DEF Recorded
<1>5. Opened(e, [g EXCEPT !.file = file], flow, timestamp)
  BY <1>3, OpenedFile
<1>6. PICK h : h = [g EXCEPT !.file = file]
  OBVIOUS
<1>7. h.list = g.list /\ h.file = file
  BY <1>3, <1>6, FileWritten DEF Opened
<1>8. Numbered(g, flow, uid) => Numbered(h, flow, uid)
  BY <1>7 DEF Numbered
<1>9. /\ OneLine(file, flow, uid, timestamp)
      /\ \A f : ~SamePrefix(f, flow) => Lines(file, f) = Lines(g.file, f)
  BY <1>1, <1>2, LinesRecorded
<1>10. PICK rec : rec = Recorded(g, flow, uid, desc, timestamp)
  OBVIOUS
<1>11. rec.d = h /\ rec.r = uid
  BY <1>4, <1>6, <1>10 DEF Result
<1>12. rec.d.file = file /\ Opened(e, rec.d, flow, timestamp)
  BY <1>5, <1>6, <1>7, <1>11
<1>13. QED BY <1>8, <1>9, <1>10, <1>11, <1>12

LEMMA AddFacts ==
  ASSUME NEW e, Sound(e), NEW flow \in Flows, NEW desc \in Descs,
         now \in Nat, NEW leasetime \in Nat, NEW fails
  PROVE  LET add == upnp_add_inboundpinhole(e, flow, desc, leasetime, fails)
         IN /\ AddResult(e, add, flow, now + leasetime, fails)
            /\ add.r \in Uids => OneLine(add.d.file, flow, add.r, now + leasetime)
            /\ add.r \in Uids /\ flow \notin FlowsIn(e.list)
                 => \A f : ~SamePrefix(f, flow) => Lines(add.d.file, f) = Lines(e.file, f)
<1>1. PICK ts \in Nat : ts = now + leasetime
  OBVIOUS
<1>2. e \in Daemons
  BY DEF Sound
<1>3. PICK add : add = upnp_add_inboundpinhole(e, flow, desc, leasetime, fails)
  OBVIOUS
<1>4. CASE flow \in FlowsIn(e.list)
  <2>1. PICK p \in ToSet(e.list) : p.flow = flow /\ find_pinhole(e, flow) = p.uid
    BY <1>2, <1>4, FindFacts
  <2>2. p.uid \in Uids /\ p.uid >= 0
    BY <1>2, ConstantFacts, DaemonFields DEF Uids
  <2>3. PICK up : up = upnp_update_inboundpinhole(e, p.uid, leasetime)
    OBVIOUS
  <2>4. Opened(e, up.d, flow, ts) /\ Numbered(up.d, flow, p.uid)
    BY <1>1, <2>1, <2>3, UpdateFacts
  <2>5. add = Recorded(up.d, flow, p.uid, desc, ts)
    <3>1. PICK uid : uid = p.uid
      OBVIOUS
    <3>2. uid >= 0 /\ ~(uid < 0) /\ find_pinhole(e, flow) = uid
      BY <1>2, <2>1, <2>2, <3>1 DEF Uids
    <3>3. add = Recorded(upnp_update_inboundpinhole(e, uid, leasetime).d, flow, uid, desc,
                         now + leasetime)
      BY <1>3, <3>2, Zenon DEF upnp_add_inboundpinhole, upnp_find_inboundpinhole
    <3>4. QED BY <1>1, <2>3, <3>1, <3>3
  <2>6. /\ add.r = p.uid /\ Opened(e, add.d, flow, ts) /\ Numbered(add.d, flow, p.uid)
        /\ OneLine(add.d.file, flow, p.uid, ts)
    BY <2>2, <2>4, <2>5, RecordedFacts
  <2>7. QED BY <1>1, <1>3, <1>4, <2>2, <2>6 DEF AddResult
<1>5. CASE flow \notin FlowsIn(e.list)
  <2>1. find_pinhole(e, flow) = -2
    BY <1>2, <1>5, FindFacts
  <2>2. PICK new : new = add_pinhole(e, flow, desc, ts, fails)
    OBVIOUS
  <2>3. AddResult(e, new, flow, ts, fails) /\ new.d.file = e.file
    BY <1>5, <2>2, AddPinholeFacts
  <2>4. CASE new.r \in Uids
    <3>1. add = Recorded(new.d, flow, new.r, desc, ts)
      BY <1>1, <1>3, <2>1, <2>2, <2>4 DEF upnp_add_inboundpinhole, upnp_find_inboundpinhole
    <3>2. Opened(e, new.d, flow, ts) /\ Numbered(new.d, flow, new.r)
      BY <2>3, <2>4 DEF AddResult
    <3>3. /\ add.r = new.r /\ Opened(e, add.d, flow, ts) /\ Numbered(add.d, flow, new.r)
          /\ OneLine(add.d.file, flow, new.r, ts)
          /\ \A f : ~SamePrefix(f, flow) => Lines(add.d.file, f) = Lines(new.d.file, f)
      BY <2>4, <3>1, <3>2, RecordedFacts
    <3>4. QED BY <1>1, <1>3, <2>3, <2>4, <3>3 DEF AddResult
  <2>5. CASE new.r \notin Uids
    <3>1. add = new
      BY <1>1, <1>3, <2>1, <2>2, <2>5 DEF upnp_add_inboundpinhole, upnp_find_inboundpinhole
    <3>2. QED BY <1>1, <1>3, <2>3, <2>5, <3>1
  <2>6. QED BY <2>4, <2>5
<1>6. QED BY <1>4, <1>5

LEMMA DeleteFacts ==
  ASSUME NEW e, Sound(e), NEW p \in ToSet(e.list), NEW fails,
         NEW del \in upnp_delete_inboundpinhole(e, p.uid, fails)
  PROVE  \/ del.r = -1 /\ del.d = e
         \/ /\ del.r \in {0, Crash} /\ Sound(del.d) /\ Others(e, del.d, p.flow)
            /\ Exact(e) => Exact(del.d)
            /\ \A x \in ToSet(del.d.list) : x \in ToSet(e.list)
            /\ del.r = Crash => del.d.file = e.file
            /\ del.r = 0 => \A f : Lines(del.d.file, f) = {l \in Lines(e.file, f) : l.uid # p.uid}
<1>1. PICK rm : rm = delete_pinhole(e, p.uid, fails)
  OBVIOUS
<1>2. \/ rm.r = -1 /\ rm.d = e
      \/ /\ rm.r = 0 /\ Sound(rm.d) /\ Others(e, rm.d, p.flow)
         /\ Exact(e) => Exact(rm.d)
         /\ \A x \in ToSet(rm.d.list) : x \in ToSet(e.list)
         /\ rm.d.file = e.file
  BY <1>1, DeletePinholeFacts
<1>3. PICK h : h = [rm.d EXCEPT !.file = lease_file6_remove_uid(@, p.uid)]
  OBVIOUS
<1>4. \/ rm.r # 0 /\ del = rm
      \/ rm.r = 0 /\ del = Result(rm.d, Crash)
      \/ rm.r = 0 /\ del = Result(h, 0)
  BY <1>1, <1>3 DEF upnp_delete_inboundpinhole
<1>5. CASE rm.r # 0
  BY <1>2, <1>4, <1>5
<1>6. CASE rm.r = 0
  <2>1. /\ Sound(rm.d) /\ Others(e, rm.d, p.flow) /\ (Exact(e) => Exact(rm.d))
        /\ \A x \in ToSet(rm.d.list) : x \in ToSet(e.list)
        /\ rm.d.file = e.file
    BY <1>2, <1>6
  <2>2. PICK file : file = lease_file6_remove_uid(rm.d.file, p.uid)
    OBVIOUS
  <2>3. file \in Seq(FileLines)
    BY <2>1, <2>2, DaemonFields, FileFiltered DEF Sound
  <2>4. Sound(h) /\ h.list = rm.d.list /\ h.chain = rm.d.chain /\ h.file = file
    BY <1>3, <2>1, <2>2, <2>3, FileWritten
  <2>5. Others(e, h, p.flow) /\ (Exact(e) => Exact(h))
    BY <2>1, <2>4 DEF Others, Exact
  <2>6. \A f : Lines(file, f) = {l \in Lines(e.file, f) : l.uid # p.uid}
    BY <2>1, <2>2, DaemonFields, LinesFiltered DEF Sound
  <2>7. \/ del.d = rm.d /\ del.r = Crash
        \/ del.d = h /\ del.r = 0
    BY <1>4, <1>6 DEF Result
  <2>8. CASE del.d = rm.d /\ del.r = Crash
    BY <2>1, <2>8 DEF Crash
  <2>9. CASE del.d = h /\ del.r = 0
    BY <2>1, <2>4, <2>5, <2>6, <2>9 DEF Crash
  <2>10. QED BY <2>7, <2>8, <2>9
<1>7. QED BY <1>5, <1>6

(* The sweep takes expired pinholes only, each with its rule *)
LEMMA CleanFacts ==
  ASSUME NEW e, Sound(e), NEW failing
  PROVE  LET g == upnp_clean_expired_pinholes(e, failing)
         IN /\ Sound(g)
            /\ Exact(e) => Exact(g)
            /\ \A p \in ToSet(e.list) : ~Expired(p) => p \in ToSet(g.list)
            /\ \A p \in ToSet(g.list) : p \in ToSet(e.list)
            /\ \A f : Lines(g.file, f) = {l \in Lines(e.file, f) : l.timestamp > ToUnix(now)}
<1> DEFINE expired == {i \in DOMAIN e.list : Expired(e.list[i])}
           stops == {i \in expired : i = failing \/ e.chain[e.list[i].flow] = 0}
           deleted == {i \in expired : \A j \in stops : i < j}
           ruleless == {i \in stops \ {failing} : \A j \in stops : i <= j}
           gone == {e.list[i] : i \in deleted \cup ruleless}
           c == [f \in Flows |-> IF \E i \in deleted : e.list[i].flow = f
                                 THEN e.chain[f] - 1 ELSE e.chain[f]]
<1>1. /\ e \in Daemons /\ Distinct(e.list) /\ \A f \in FlowsIn(e.list) : e.chain[f] >= 1
  BY DEF Sound
<1>2. /\ e.list \in Seq(Pinhole) /\ e.chain \in [Flows -> Nat] /\ e.file \in Seq(FileLines)
      /\ FlowsIn(e.list) \subseteq Flows
  BY <1>1, DaemonFields
<1>3. \A i \in DOMAIN e.list : /\ e.list[i] \in ToSet(e.list) /\ e.list[i].flow \in FlowsIn(e.list)
                               /\ e.list[i].flow \in Flows /\ e.chain[e.list[i].flow] # 0
  BY <1>1, <1>2 DEF ToSet, FlowsIn
<1>4. ruleless = {} /\ deleted \subseteq expired /\ expired \subseteq DOMAIN e.list
  BY <1>3
<1>5. \A x : x \in gone <=> \E i \in deleted : x = e.list[i]
  BY <1>4
<1>6. PICK kept : kept = ToSet(e.list) \ gone
  OBVIOUS
<1>7. PICK t : t = Sublist(e.list, kept)
  OBVIOUS
<1>8. upnp_clean_expired_pinholes(e, failing)
        = [[e EXCEPT !.list = t, !.chain = c] EXCEPT !.file = lease_file6_expire(@)]
  BY <1>6, <1>7 DEF upnp_clean_expired_pinholes, clean_pinhole_list
<1> HIDE DEF ruleless, stops, gone
<1>9. \A i \in deleted : Expired(e.list[i])
  OBVIOUS
<1> HIDE DEF deleted, expired
<1>10. c \in [Flows -> Nat] /\ \A f \in Flows : c[f] = IF \E i \in deleted : e.list[i].flow = f
                                                   THEN e.chain[f] - 1 ELSE e.chain[f]
  <2>1. ASSUME NEW f \in Flows
        PROVE  (IF \E i \in deleted : e.list[i].flow = f THEN e.chain[f] - 1 ELSE e.chain[f]) \in Nat
    <3>1. e.chain[f] \in Nat
      BY <1>2
    <3>2. (\E i \in deleted : e.list[i].flow = f) => e.chain[f] # 0
      BY <1>3, <1>4
    <3>3. QED BY <3>1, <3>2
  <2>2. QED BY <2>1
<1> HIDE DEF c
<1>11. /\ t \in Seq(Pinhole) /\ Distinct(t)
       /\ \A x : x \in ToSet(t) <=> (x \in ToSet(e.list) /\ x \in kept)
  BY <1>1, <1>2, <1>7, SublistSet
<1>12. \A x : x \in ToSet(t) <=> (x \in ToSet(e.list) /\ ~\E i \in deleted : x = e.list[i])
  BY <1>5, <1>6, <1>11
<1>13. \A x \in ToSet(e.list) : \A i \in deleted : x.flow = e.list[i].flow => x = e.list[i]
  BY <1>1, <1>3, <1>4, DistinctFacts
<1>14. \A f : f \in FlowsIn(t) <=> (f \in FlowsIn(e.list) /\ ~\E i \in deleted : e.list[i].flow = f)
  <2>1. \A s : FlowsIn(s) = {x.flow : x \in ToSet(s)}
    BY DEF FlowsIn
  <2>2. QED BY <1>12, <1>13, <2>1
<1>15. PICK h : h = [e EXCEPT !.list = t, !.chain = c]
  OBVIOUS
<1>16. h \in Daemons /\ h.list = t /\ h.chain = c /\ h.file = e.file
  BY <1>1, <1>10, <1>11, <1>15 DEF Daemons
<1>17. Sound(h)
  <2>1. \A f \in FlowsIn(t) : c[f] >= 1
    BY <1>1, <1>2, <1>10, <1>14
  <2>2. QED BY <1>11, <1>16, <2>1 DEF Sound
<1>18. ASSUME Exact(e) PROVE Exact(h)
  <2>1. \A f \in Flows : (\E i \in deleted : e.list[i].flow = f) => f \in FlowsIn(e.list)
    BY <1>3, <1>4
  <2>2. ASSUME NEW f \in Flows PROVE c[f] = IF f \in FlowsIn(t) THEN 1 ELSE 0
    BY <1>10, <1>14, <1>18, <2>1 DEF Exact
  <2>3. QED BY <1>16, <2>2 DEF Exact
<1>19. PICK file : file = lease_file6_expire(e.file)
  OBVIOUS
<1>20. file \in Seq(FileLines)
  BY <1>2, <1>19, FileFiltered
<1>21. PICK g : g = [h EXCEPT !.file = file]
  OBVIOUS
<1>22. Sound(g) /\ g.list = t /\ g.chain = c /\ g.file = file
  BY <1>16, <1>17, <1>20, <1>21, FileWritten
<1>23. Exact(e) => Exact(g)
  BY <1>16, <1>18, <1>22 DEF Exact
<1>24. \A p \in ToSet(e.list) : ~Expired(p) => p \in ToSet(t)
  BY <1>9, <1>12
<1>25. upnp_clean_expired_pinholes(e, failing) = g
  BY <1>8, <1>15, <1>16, <1>19, <1>21
<1>26. \A p \in ToSet(t) : p \in ToSet(e.list)
  BY <1>12
<1>27. \A f : Lines(file, f) = {l \in Lines(e.file, f) : l.timestamp > ToUnix(now)}
  BY <1>2, <1>19, LinesFiltered
<1>28. QED BY <1>22, <1>23, <1>24, <1>25, <1>26, <1>27

-----------------------------------------------------------------------------
(* The inductive invariant of the list, the chain and the lease file *)

PinholesInv ==
  /\ Sound(d)
  /\ pc \in {"reload", "sweep", "loop", "hung", "dead"}
  /\ reload \in Seq(FileLines)
  /\ granted \in [Flows -> Nat] /\ now \in Nat
  /\ saved \subseteq Flows /\ owed \subseteq Flows
  /\ "calloc" \notin Failures /\ pc # "hung" => Exact(d)

LEMMA EmptyDaemon ==
  ASSUME NEW e, e = [list |-> <<>>, next_uid |-> 1, chain |-> [f \in Flows |-> 0], file |-> <<>>]
  PROVE  Sound(e) /\ Exact(e)
<1>1. e.list = <<>> /\ e.chain = [f \in Flows |-> 0]
  OBVIOUS
<1>2. 1 \in Uids
  BY ConstantFacts DEF Uids
<1>3. e \in Daemons
  BY <1>2 DEF Daemons
<1>4. ToSet(<<>>) = {} /\ DOMAIN <<>> = {}
  BY DEF ToSet
<1>5. FlowsIn(e.list) = {}
  BY <1>1, <1>4 DEF FlowsIn
<1>6. QED BY <1>1, <1>3, <1>4, <1>5 DEF Sound, Exact, Distinct

LEMMA InitInv == Init => PinholesInv
<1> SUFFICES ASSUME Init PROVE PinholesInv
  OBVIOUS
<1>1. Sound(d) /\ Exact(d)
  BY EmptyDaemon DEF Init
<1>2. reload \in Seq(FileLines)
  BY DEF Init
<1>3. QED BY <1>1, <1>2 DEF Init, PinholesInv

LEMMA SavedByType ==
  ASSUME NEW flow \in Flows, NEW r, saved \subseteq Flows
  PROVE  SavedBy(flow, r) \subseteq Flows
BY DEF SavedBy

(* The end of a request that opens or renews a pinhole *)
LEMMA AddStep ==
  ASSUME PinholesInv, pc = "loop",
         NEW flow \in Flows, NEW desc \in Descs, NEW leasetime \in LeaseTimes,
         NEW fails \in SUBSET Failures,
         NEW add, add = upnp_add_inboundpinhole(d, flow, desc, leasetime, fails),
         d' = add.d, Ended(add.r),
         IF add.r \in Uids THEN Grant(flow, leasetime) ELSE UNCHANGED <<granted, owed>>,
         saved' = SavedBy(flow, add.r),
         UNCHANGED <<reload, now>>
  PROVE  PinholesInv'
<1>1. /\ Sound(d) /\ reload \in Seq(FileLines) /\ granted \in [Flows -> Nat] /\ now \in Nat
      /\ saved \subseteq Flows /\ owed \subseteq Flows
      /\ "calloc" \notin Failures => Exact(d)
  BY DEF PinholesInv
<1>2. leasetime \in Nat
  BY ConstantFacts
<1>3. PICK ts \in Nat : ts = now + leasetime
  BY <1>1, <1>2
<1>4. AddResult(d, add, flow, ts, fails)
  BY <1>1, <1>2, <1>3, AddFacts
<1>5. pc' \in {"loop", "hung", "dead"} /\ (add.r = Hang <=> pc' = "hung")
  BY DEF Ended, Hang, Crash
<1>6. granted' \in [Flows -> Nat] /\ owed' \subseteq Flows /\ saved' \subseteq Flows
  BY <1>1, <1>3, SavedByType DEF Grant
<1>7. Sound(add.d) /\ ("calloc" \notin Failures => (Exact(add.d) \/ add.r = Hang))
  BY <1>1, <1>4 DEF AddResult, Opened
<1>8. QED BY <1>1, <1>5, <1>6, <1>7 DEF PinholesInv

LEMMA RenewStep ==
  ASSUME PinholesInv, pc = "loop",
         NEW p \in ToSet(d.list), NEW leasetime \in LeaseTimes,
         d' = upnp_update_inboundpinhole(d, p.uid, leasetime).d,
         Grant(p.flow, leasetime), saved' = {}, UNCHANGED <<pc, reload, now>>
  PROVE  PinholesInv'
<1>1. /\ Sound(d) /\ reload \in Seq(FileLines) /\ granted \in [Flows -> Nat] /\ now \in Nat
      /\ owed \subseteq Flows
      /\ "calloc" \notin Failures => Exact(d)
  BY DEF PinholesInv
<1>2. leasetime \in Nat /\ p.flow \in Flows
  BY <1>1, ConstantFacts, DaemonFields DEF Sound
<1>3. PICK g : g = d'
  OBVIOUS
<1>4. Opened(d, g, p.flow, now + leasetime)
  BY <1>1, <1>2, <1>3, UpdateFacts
<1>5. granted' \in [Flows -> Nat] /\ owed' \subseteq Flows
  BY <1>1, <1>2 DEF Grant
<1>6. Sound(d') /\ ("calloc" \notin Failures => Exact(d'))
  BY <1>1, <1>3, <1>4 DEF Opened
<1>7. QED BY <1>1, <1>5, <1>6 DEF PinholesInv

(* A deletion of the pinhole p *)
LEMMA DeleteCase ==
  ASSUME Sound(d), NEW p \in ToSet(d.list), NEW fails, Delete(p.uid, fails)
  PROVE  \E del \in upnp_delete_inboundpinhole(d, p.uid, fails) :
           /\ d' = del.d /\ Ended(del.r)
           /\ granted' = IF del.r = 0 THEN [granted EXCEPT ![p.flow] = 0] ELSE granted
<1>1. d.list[get_pinhole(d, p.uid)] = p
  <2>1. /\ get_pinhole(d, p.uid) \in DOMAIN d.list /\ d.list[get_pinhole(d, p.uid)].uid = p.uid
    BY GetFacts DEF UsedUids, Sound
  <2>2. QED BY <2>1, DistinctFacts DEF Sound, ToSet
<1>2. QED BY <1>1 DEF Delete

LEMMA DeleteStep ==
  ASSUME PinholesInv, pc = "loop", NEW p \in ToSet(d.list), NEW fails, Delete(p.uid, fails)
  PROVE  PinholesInv'
<1>1. /\ Sound(d) /\ reload \in Seq(FileLines) /\ granted \in [Flows -> Nat] /\ now \in Nat
      /\ saved \subseteq Flows /\ owed \subseteq Flows
      /\ "calloc" \notin Failures => Exact(d)
  BY DEF PinholesInv
<1>2. p.flow \in Flows
  BY <1>1, DaemonFields DEF Sound
<1>3. PICK del \in upnp_delete_inboundpinhole(d, p.uid, fails) :
        /\ d' = del.d /\ Ended(del.r)
        /\ granted' = IF del.r = 0 THEN [granted EXCEPT ![p.flow] = 0] ELSE granted
  BY <1>1, DeleteCase
<1>4. UNCHANGED <<reload, now, saved, owed>>
  BY DEF Delete
<1>5. PICK g : g = d'
  OBVIOUS
<1>6. \/ del.r = -1 /\ g = d
      \/ /\ del.r \in {0, Crash} /\ Sound(g)
         /\ Exact(d) => Exact(g)
  BY <1>1, <1>3, <1>5, DeleteFacts
<1>7. /\ Sound(g) /\ ("calloc" \notin Failures => Exact(g))
  BY <1>1, <1>6
<1>8. granted' \in [Flows -> Nat]
  BY <1>1, <1>2, <1>3
<1>9. pc' \in {"loop", "dead"}
  BY <1>3, <1>6 DEF Ended, Hang, Crash
<1>10. Sound(d') /\ ("calloc" \notin Failures => Exact(d'))
  BY <1>5, <1>7
<1>11. QED BY <1>1, <1>4, <1>8, <1>9, <1>10 DEF PinholesInv

(* What reload_from_lease_file6 does with a line it does not skip *)
Reopens(l, add, fails) ==
  /\ l # Blank /\ l.flow.iport >= 1024 /\ l.timestamp > ToUnix(now)
  /\ add = upnp_add_inboundpinhole(d, l.flow, l.desc, l.timestamp - ToUnix(now), fails)
  /\ d' = add.d /\ pc' = IF add.r = Hang THEN "hung" ELSE pc
  /\ saved' = SavedBy(l.flow, add.r)
  /\ owed' = IF add.r \in Uids THEN owed ELSE owed \ {l.flow}

(* What it does not reopen: a blank line, a privileged port, an ended lease *)
Skips(l) ==
  /\ \/ l = Blank
     \/ l # Blank /\ (l.flow.iport < 1024 \/ l.timestamp <= ToUnix(now))
  /\ UNCHANGED <<d, pc, saved, owed>>

(* Ports are numbers *)
LEMMA PortNat == \A f \in Flows : f.iport \in Nat
BY PortsAssumption DEF Flows

LEMMA LineCases ==
  ASSUME PinholesInv, NEW fails, ReloadLine(fails)
  PROVE  /\ Head(reload) \in FileLines /\ reload' = Tail(reload) /\ reload' \in Seq(FileLines)
         /\ pc = "reload" /\ reload # <<>> /\ UNCHANGED <<now, granted>>
         /\ Skips(Head(reload)) \/ \E add : Reopens(Head(reload), add, fails)
<1>1. reload \in Seq(FileLines) /\ reload # <<>> /\ now \in Nat
  BY DEF PinholesInv, ReloadLine
<1>2. PICK l : l = Head(reload)
  OBVIOUS
<1>3. l \in FileLines /\ Tail(reload) \in Seq(FileLines)
  BY <1>1, <1>2, HeadTailProperties
<1>4. CASE l = Blank \/ (l # Blank /\ (l.flow.iport < 1024 \/ l.timestamp <= ToUnix(now)))
  <2>1. Skips(l)
    BY <1>2, <1>4 DEF ReloadLine, Skips
  <2>2. QED BY <1>2, <1>3, <2>1 DEF ReloadLine
<1>5. CASE ~(l = Blank \/ (l # Blank /\ (l.flow.iport < 1024 \/ l.timestamp <= ToUnix(now))))
  <2>1. l \in Pinhole /\ l # Blank
    BY <1>3, <1>5 DEF FileLines
  <2>2. l.flow.iport \in Nat /\ l.timestamp \in Nat /\ ToUnix(now) \in Nat
    BY <1>1, <2>1, ConstantFacts, PortNat DEF Pinhole, ToUnix
  <2>3. l.flow.iport >= 1024 /\ l.timestamp > ToUnix(now)
    BY <1>5, <2>1, <2>2
  <2>4. PICK add : add = upnp_add_inboundpinhole(d, l.flow, l.desc, l.timestamp - ToUnix(now), fails)
    OBVIOUS
  <2>5. Reopens(l, add, fails)
    BY <1>2, <1>5, <2>1, <2>3, <2>4 DEF ReloadLine, Reopens
  <2>6. QED BY <1>2, <1>3, <2>5 DEF ReloadLine
<1>6. QED BY <1>4, <1>5

(* The lease of a line, counted from now *)
LEMMA LineFacts ==
  ASSUME NEW l \in FileLines, l # Blank, l.timestamp > ToUnix(now), now \in Nat
  PROVE  /\ l \in Pinhole /\ l.flow \in Flows /\ l.timestamp \in Nat /\ l.desc \in Descs
         /\ l.timestamp - ToUnix(now) \in Nat
         /\ now + (l.timestamp - ToUnix(now)) = l.timestamp - UnixOffset
         /\ l.timestamp - UnixOffset \in Nat
<1>1. l \in Pinhole /\ l.flow \in Flows /\ l.timestamp \in Nat /\ l.desc \in Descs
  BY FileLineFields DEF FileLines
<1>2. QED BY <1>1, ConstantFacts DEF ToUnix

LEMMA ReloadStep ==
  ASSUME PinholesInv, NEW fails \in SUBSET Failures, ReloadLine(fails)
  PROVE  PinholesInv'
<1>1. /\ Sound(d) /\ granted \in [Flows -> Nat] /\ now \in Nat
      /\ saved \subseteq Flows /\ owed \subseteq Flows
      /\ "calloc" \notin Failures /\ pc # "hung" => Exact(d)
  BY DEF PinholesInv
<1>2. PICK l \in FileLines : /\ reload' \in Seq(FileLines) /\ pc = "reload" /\ UNCHANGED <<now, granted>>
                             /\ Skips(l) \/ \E add : Reopens(l, add, fails)
  BY LineCases
<1>3. CASE Skips(l)
  BY <1>1, <1>2, <1>3 DEF Skips, PinholesInv
<1>4. ASSUME NEW add, Reopens(l, add, fails) PROVE PinholesInv'
  <2>1. /\ l.flow \in Flows /\ l.desc \in Descs /\ l.timestamp - ToUnix(now) \in Nat
    BY <1>1, <1>4, LineFacts DEF Reopens
  <2>2. PICK leaseduration \in Nat : leaseduration = l.timestamp - ToUnix(now)
    BY <2>1
  <2>3. add = upnp_add_inboundpinhole(d, l.flow, l.desc, leaseduration, fails)
    BY <1>4, <2>2 DEF Reopens
  <2>4. AddResult(d, add, l.flow, now + leaseduration, fails)
    BY <1>1, <2>1, <2>3, AddFacts
  <2>5. /\ Sound(add.d)
        /\ "calloc" \notin Failures => (Exact(add.d) \/ add.r = Hang)
    BY <1>1, <1>2, <2>4 DEF AddResult, Opened
  <2>6. d' = add.d /\ pc' = IF add.r = Hang THEN "hung" ELSE pc
    BY <1>4 DEF Reopens
  <2>7. saved' \subseteq Flows /\ owed' \subseteq Flows
    BY <1>1, <1>4, <2>1, SavedByType DEF Reopens
  <2>8. QED BY <1>1, <1>2, <2>5, <2>6, <2>7 DEF PinholesInv
<1>5. QED BY <1>2, <1>3, <1>4

LEMMA ReloadedStep ==
  ASSUME PinholesInv, Reloaded
  PROVE  PinholesInv'
BY DEF PinholesInv, Reloaded

LEMMA SweepStep ==
  ASSUME PinholesInv, NEW failing, CleanExpiredPinholes(failing)
  PROVE  PinholesInv'
<1>1. /\ Sound(d) /\ reload \in Seq(FileLines) /\ granted \in [Flows -> Nat] /\ now \in Nat
      /\ saved \subseteq Flows /\ owed \subseteq Flows
      /\ "calloc" \notin Failures => Exact(d)
  BY DEF PinholesInv, CleanExpiredPinholes
<1>2. UNCHANGED <<reload, now, granted, saved, owed>> /\ pc' = "loop"
  BY DEF CleanExpiredPinholes
<1>3. PICK g : g = d' /\ g = upnp_clean_expired_pinholes(d, failing)
  BY DEF CleanExpiredPinholes
<1>4. Sound(g) /\ (Exact(d) => Exact(g))
  BY <1>1, <1>3, CleanFacts
<1>5. Sound(d') /\ ("calloc" \notin Failures => Exact(d'))
  BY <1>1, <1>3, <1>4
<1>6. QED BY <1>1, <1>2, <1>5 DEF PinholesInv

-----------------------------------------------------------------------------
(* The inductive invariant of the leases *)

(* What is owed and has not ended at time t is open until its end *)
Kept(e, fs, gr, t) == \A f \in fs : gr[f] > t => Open(e, f, gr[f])

(* The line of a flow that is saved says when its lease ends *)
Written(e, fs, gr, t) ==
  \A f \in fs : gr[f] > t => /\ Lines(e.file, f) # {}
                             /\ \A l \in Lines(e.file, f) : l.timestamp = ToUnix(gr[f])

(* ... and has the unique id of its pinhole *)
OwnUids(e, ss) ==
  \A f \in ss : \A l \in Lines(e.file, f) : \A p \in ToSet(e.list) : p.flow = f => l.uid = p.uid

(* While the lease file is read, what is owed is open or still to be read *)
Due(e, file, fs, gr, t) ==
  \A f \in fs : gr[f] > t => /\ Open(e, f, gr[f]) \/ Lines(file, f) # {}
                             /\ \A l \in Lines(file, f) : l.timestamp = ToUnix(gr[f])
                             /\ f.iport >= 1024

LeaseInv ==
  /\ Written(d, owed \cap saved, granted, now)
  /\ OwnUids(d, saved)
  /\ pc \in {"sweep", "loop"} => Kept(d, owed, granted, now)
  /\ pc = "reload" => Due(d, reload, owed, granted, now)

Inv == PinholesInv /\ LeaseInv

LEMMA KeptOpened ==
  ASSUME NEW e, NEW g, NEW flow \in Flows, NEW ts, NEW gr \in [Flows -> Nat], NEW t,
         NEW fs \in SUBSET Flows, Kept(e, fs, gr, t), Opened(e, g, flow, ts)
  PROVE  Kept(g, fs \cup {flow}, [gr EXCEPT ![flow] = ts], t)
<1>1. Others(e, g, flow) /\ Open(g, flow, ts)
  BY DEF Opened
<1>2. PICK hr : hr = [gr EXCEPT ![flow] = ts]
  OBVIOUS
<1>3. hr[flow] = ts /\ \A f \in Flows : f # flow => hr[f] = gr[f]
  BY <1>2
<1>4. ASSUME NEW f \in fs \cup {flow}, hr[f] > t PROVE Open(g, f, hr[f])
  <2>1. CASE f = flow
    BY <1>1, <1>3, <2>1
  <2>2. CASE f # flow
    <3>1. Open(e, f, gr[f])
      BY <1>3, <1>4, <2>2 DEF Kept
    <3>2. QED BY <1>1, <1>3, <2>2, <3>1 DEF Open, Others
  <2>3. QED BY <2>1, <2>2
<1>5. QED BY <1>2, <1>4 DEF Kept

(* The lines and unique ids after the line of flow was written anew, with   *)
(* the end ts, and those of the other flows of us were left alone           *)
Rewritten(e, g, flow, uid, ts, t, ss, us, fs, hs, gr, hr) ==
  /\ Opened(e, g, flow, ts) /\ Numbered(g, flow, uid) /\ OneLine(g.file, flow, uid, ts)
  /\ \A f \in us : f # flow => f \in ss /\ Lines(g.file, f) = Lines(e.file, f)
  /\ \A f \in hs : f # flow => f \in fs /\ hr[f] = gr[f]
  /\ flow \in hs /\ hr[flow] > t => hr[flow] = ts
  /\ Written(e, fs \cap ss, gr, t) /\ OwnUids(e, ss)

LEMMA WrittenAnew ==
  ASSUME NEW e, NEW g, NEW flow, NEW uid, NEW ts, NEW t, NEW ss, NEW us, NEW fs, NEW hs, NEW gr, NEW hr,
         Rewritten(e, g, flow, uid, ts, t, ss, us, fs, hs, gr, hr)
  PROVE  Written(g, hs \cap us, hr, t) /\ OwnUids(g, us)
<1>0. /\ Opened(e, g, flow, ts) /\ Numbered(g, flow, uid) /\ OneLine(g.file, flow, uid, ts)
      /\ \A f \in us : f # flow => f \in ss /\ Lines(g.file, f) = Lines(e.file, f)
      /\ \A f \in hs : f # flow => f \in fs /\ hr[f] = gr[f]
      /\ flow \in hs /\ hr[flow] > t => hr[flow] = ts
      /\ Written(e, fs \cap ss, gr, t) /\ OwnUids(e, ss)
  BY DEF Rewritten
<1>1. Sound(g) /\ Others(e, g, flow)
  BY <1>0 DEF Opened
<1>2. ASSUME NEW f \in hs \cap us, hr[f] > t
      PROVE  Lines(g.file, f) # {} /\ \A l \in Lines(g.file, f) : l.timestamp = ToUnix(hr[f])
  <2>1. CASE f = flow
    BY <1>0, <1>2, <2>1 DEF OneLine
  <2>2. CASE f # flow
    BY <1>0, <1>2, <2>2 DEF Written
  <2>3. QED BY <2>1, <2>2
<1>3. ASSUME NEW f \in us, NEW l \in Lines(g.file, f), NEW p \in ToSet(g.list), p.flow = f
      PROVE  l.uid = p.uid
  <2>1. CASE f = flow
    <3>1. PICK q \in ToSet(g.list) : q.flow = flow /\ q.uid = uid
      BY <1>0 DEF Numbered
    <3>2. p = q
      BY <1>1, <1>3, <2>1, <3>1, DistinctFacts DEF Sound
    <3>3. QED BY <1>0, <1>3, <2>1, <3>1, <3>2 DEF OneLine
  <2>2. CASE f # flow
    BY <1>0, <1>1, <1>3, <2>2 DEF Others, OwnUids
  <2>3. QED BY <2>1, <2>2
<1>4. QED BY <1>2, <1>3 DEF Written, OwnUids

LEMMA InitLease == Init => LeaseInv
<1> SUFFICES ASSUME Init PROVE LeaseInv
  OBVIOUS
<1>1. owed = {} /\ saved = {} /\ pc = "sweep"
  BY DEF Init
<1>2. QED BY <1>1 DEF LeaseInv, Written, OwnUids, Kept

(* SavedBy after an addition that answered a unique id *)
LEMMA SavedByLines ==
  ASSUME Sound(d), NEW flow \in Flows, NEW r \in Uids, NEW g, NEW f \in SavedBy(flow, r), f # flow,
         flow \notin FlowsIn(d.list)
           => \A x : ~SamePrefix(x, flow) => Lines(g.file, x) = Lines(d.file, x)
  PROVE  f \in saved /\ Lines(g.file, f) = Lines(d.file, f)
<1>1. CASE flow \in FlowsIn(d.list)
  <2>1. PICK p \in ToSet(d.list) : p.flow = flow /\ find_pinhole(d, flow) = p.uid
    BY <1>1, FindFacts DEF Sound
  <2>2. p.uid \in Uids
    BY DaemonFields DEF Sound
  <2>3. upnp_find_inboundpinhole(d, flow) >= 0
    BY <2>1, <2>2, ConstantFacts DEF Uids, upnp_find_inboundpinhole
  <2>4. QED BY <2>3 DEF SavedBy
<1>2. CASE flow \notin FlowsIn(d.list)
  <2>1. upnp_find_inboundpinhole(d, flow) = -2
    BY <1>2, FindFacts DEF Sound, upnp_find_inboundpinhole
  <2>2. f \in saved /\ ~SamePrefix(f, flow)
    BY <2>1 DEF SavedBy
  <2>3. QED BY <1>2, <2>2
<1>3. QED BY <1>1, <1>2

LEMMA AddLease ==
  ASSUME Inv, pc = "loop",
         NEW flow \in Flows, NEW desc \in Descs, NEW leasetime \in LeaseTimes,
         NEW fails \in SUBSET Failures,
         NEW add, add = upnp_add_inboundpinhole(d, flow, desc, leasetime, fails),
         d' = add.d, Ended(add.r),
         IF add.r \in Uids THEN Grant(flow, leasetime) ELSE UNCHANGED <<granted, owed>>,
         saved' = SavedBy(flow, add.r),
         UNCHANGED <<reload, now>>
  PROVE  LeaseInv'
<1>1. /\ Sound(d) /\ granted \in [Flows -> Nat] /\ now \in Nat
      /\ saved \subseteq Flows /\ owed \subseteq Flows
      /\ Written(d, owed \cap saved, granted, now) /\ OwnUids(d, saved)
      /\ Kept(d, owed, granted, now)
  BY DEF Inv, PinholesInv, LeaseInv
<1>2. leasetime \in Nat
  BY ConstantFacts
<1>3. PICK ts \in Nat : ts = now + leasetime
  BY <1>1, <1>2
<1>4. /\ AddResult(d, add, flow, ts, fails)
      /\ add.r \in Uids => OneLine(add.d.file, flow, add.r, ts)
      /\ add.r \in Uids /\ flow \notin FlowsIn(d.list)
           => \A f : ~SamePrefix(f, flow) => Lines(add.d.file, f) = Lines(d.file, f)
  BY <1>1, <1>2, <1>3, AddFacts
<1>5. pc' # "reload"
  BY DEF Ended
<1>6. PICK e, fs, ss, gr, t : e = d /\ fs = owed /\ ss = saved /\ gr = granted /\ t = now
  OBVIOUS
<1>7. /\ Written(e, fs \cap ss, gr, t) /\ OwnUids(e, ss) /\ Kept(e, fs, gr, t)
      /\ fs \in SUBSET Flows /\ gr \in [Flows -> Nat]
  BY <1>1, <1>6
<1>8. CASE add.r \in Uids
  <2>1. Opened(e, add.d, flow, ts) /\ Numbered(add.d, flow, add.r) /\ OneLine(add.d.file, flow, add.r, ts)
    BY <1>4, <1>6, <1>8 DEF AddResult
  <2>2. PICK hs, us, hr : hs = owed' /\ us = saved' /\ hr = granted'
    OBVIOUS
  <2>3. hs = fs \cup {flow} /\ hr = [gr EXCEPT ![flow] = ts]
    BY <1>3, <1>6, <1>8, <2>2 DEF Grant
  <2>4. \A f \in us : f # flow => f \in ss /\ Lines(add.d.file, f) = Lines(e.file, f)
    <3>1. \A f \in SavedBy(flow, add.r) : f # flow => f \in saved /\ Lines(add.d.file, f) = Lines(d.file, f)
      BY <1>1, <1>4, <1>8, SavedByLines
    <3>2. QED BY <1>6, <2>2, <3>1
  <2>5. /\ \A f \in hs : f # flow => f \in fs /\ hr[f] = gr[f]
        /\ flow \in hs /\ hr[flow] > t => hr[flow] = ts
    BY <1>7, <2>3
  <2>6. Written(add.d, hs \cap us, hr, t) /\ OwnUids(add.d, us)
    <3>1. Rewritten(e, add.d, flow, add.r, ts, t, ss, us, fs, hs, gr, hr)
      BY <1>7, <2>1, <2>4, <2>5 DEF Rewritten
    <3>2. QED BY ONLY <3>1, WrittenAnew
  <2>7. Kept(add.d, hs, hr, t)
    BY <1>7, <2>1, <2>3, KeptOpened
  <2>8. QED BY <1>5, <1>6, <2>2, <2>6, <2>7 DEF LeaseInv
<1>9. CASE add.r \notin Uids
  <2>1. add.d.list = e.list /\ add.d.file = e.file
    BY <1>4, <1>6, <1>9 DEF AddResult
  <2>2. owed' = fs /\ granted' = gr /\ now' = t /\ saved' = ss
    BY <1>6, <1>9 DEF SavedBy
  <2>3. Written(add.d, fs \cap ss, gr, t) /\ OwnUids(add.d, ss) /\ Kept(add.d, fs, gr, t)
    BY <1>7, <2>1 DEF Written, OwnUids, Kept, Open
  <2>4. QED BY <1>5, <2>2, <2>3 DEF LeaseInv
<1>10. QED BY <1>8, <1>9

LEMMA RenewLease ==
  ASSUME Inv, pc = "loop",
         NEW p \in ToSet(d.list), NEW leasetime \in LeaseTimes,
         d' = upnp_update_inboundpinhole(d, p.uid, leasetime).d,
         Grant(p.flow, leasetime), saved' = {}, UNCHANGED <<pc, reload, now>>
  PROVE  LeaseInv'
<1>1. /\ Sound(d) /\ granted \in [Flows -> Nat] /\ now \in Nat /\ owed \subseteq Flows
      /\ Kept(d, owed, granted, now)
  BY DEF Inv, PinholesInv, LeaseInv
<1>2. leasetime \in Nat /\ p.flow \in Flows
  BY <1>1, ConstantFacts, DaemonFields DEF Sound
<1>3. PICK e, fs, gr, t : e = d /\ fs = owed /\ gr = granted /\ t = now
  OBVIOUS
<1>4. PICK ts : ts = now + leasetime
  OBVIOUS
<1>5. PICK g : g = d'
  OBVIOUS
<1>6. Opened(e, g, p.flow, ts)
  BY <1>1, <1>2, <1>3, <1>4, <1>5, UpdateFacts
<1>7. Kept(g, fs \cup {p.flow}, [gr EXCEPT ![p.flow] = ts], t)
  BY <1>1, <1>2, <1>3, <1>6, KeptOpened
<1>8. /\ owed' = fs \cup {p.flow} /\ granted' = [gr EXCEPT ![p.flow] = ts] /\ now' = t
  BY <1>3, <1>4 DEF Grant
<1>9. Kept(d', owed', granted', now')
  BY <1>5, <1>7, <1>8
<1>10. QED BY <1>9 DEF LeaseInv, Written, OwnUids

LEMMA DeleteLease ==
  ASSUME Inv, pc = "loop", NEW p \in ToSet(d.list), NEW fails, Delete(p.uid, fails)
  PROVE  LeaseInv'
<1>1. /\ Sound(d) /\ granted \in [Flows -> Nat] /\ now \in Nat
      /\ saved \subseteq Flows /\ owed \subseteq Flows
      /\ Written(d, owed \cap saved, granted, now) /\ OwnUids(d, saved)
      /\ Kept(d, owed, granted, now)
  BY DEF Inv, PinholesInv, LeaseInv
<1>2. p.flow \in Flows
  BY <1>1, DaemonFields DEF Sound
<1>3. PICK del \in upnp_delete_inboundpinhole(d, p.uid, fails) :
        /\ d' = del.d /\ Ended(del.r)
        /\ granted' = IF del.r = 0 THEN [granted EXCEPT ![p.flow] = 0] ELSE granted
  BY <1>1, DeleteCase
<1>4. PICK e, fs, ss, gr, t : e = d /\ fs = owed /\ ss = saved /\ gr = granted /\ t = now
  OBVIOUS
<1>5. PICK g, hr : g = d' /\ hr = granted'
  OBVIOUS
<1>6. owed' = fs /\ saved' = ss /\ now' = t
  BY <1>4 DEF Delete
<1>7. /\ Written(e, fs \cap ss, gr, t) /\ OwnUids(e, ss) /\ Kept(e, fs, gr, t)
      /\ fs \subseteq Flows /\ gr \in [Flows -> Nat] /\ t \in Nat /\ Sound(e)
  BY <1>1, <1>4
<1>8. \/ del.r = -1 /\ g = e
      \/ /\ del.r \in {0, Crash} /\ Others(e, g, p.flow)
         /\ \A x \in ToSet(g.list) : x \in ToSet(e.list)
         /\ del.r = Crash => g.file = e.file
         /\ del.r = 0 => \A f : Lines(g.file, f) = {l \in Lines(e.file, f) : l.uid # p.uid}
  BY <1>1, <1>3, <1>4, <1>5, DeleteFacts
<1>9. pc' \in {"loop", "dead"} /\ (del.r = Crash => pc' = "dead")
  BY <1>3, <1>8 DEF Ended, Hang, Crash
<1>10. /\ Written(g, fs \cap ss, hr, t) /\ OwnUids(g, ss)
       /\ pc' # "dead" => Kept(g, fs, hr, t)
  <2>1. CASE del.r = -1
    <3>1. hr = gr /\ g = e
      BY <1>3, <1>4, <1>5, <1>8, <2>1 DEF Crash
    <3>2. QED BY <1>7, <3>1
  <2>2. CASE del.r = 0
    <3>1. /\ Others(e, g, p.flow) /\ \A x \in ToSet(g.list) : x \in ToSet(e.list)
          /\ \A f : Lines(g.file, f) = {l \in Lines(e.file, f) : l.uid # p.uid}
      BY <1>8, <2>2
    <3>2. hr = [gr EXCEPT ![p.flow] = 0]
      BY <1>3, <1>4, <1>5, <2>2
    <3>3. \A f \in fs : hr[f] > t => f # p.flow /\ hr[f] = gr[f] /\ gr[f] > t
      BY <1>2, <1>7, <3>2
    <3>4. Kept(g, fs, hr, t)
      <4> SUFFICES ASSUME NEW f \in fs, hr[f] > t PROVE Open(g, f, hr[f])
        BY DEF Kept
      <4>1. f # p.flow /\ hr[f] = gr[f] /\ Open(e, f, gr[f])
        BY <1>7, <3>3 DEF Kept
      <4>2. QED BY <3>1, <4>1 DEF Open, Others
    <3>5. OwnUids(g, ss)
      BY <1>7, <3>1 DEF OwnUids
    <3>6. Written(g, fs \cap ss, hr, t)
      <4> SUFFICES ASSUME NEW f \in fs \cap ss, hr[f] > t
                   PROVE  /\ Lines(g.file, f) # {}
                          /\ \A l \in Lines(g.file, f) : l.timestamp = ToUnix(hr[f])
        BY DEF Written
      <4>1. f # p.flow /\ hr[f] = gr[f] /\ gr[f] > t
        BY <3>3
      <4>2. PICK q \in ToSet(e.list) : q.flow = f
        BY <1>7, <4>1 DEF Kept, Open
      <4>3. q.uid # p.uid
        BY <1>4, <1>7, <4>1, <4>2, DistinctFacts DEF Sound
      <4>4. \A l \in Lines(e.file, f) : l.uid # p.uid
        BY <1>7, <4>2, <4>3 DEF OwnUids
      <4>5. Lines(g.file, f) = Lines(e.file, f)
        BY <3>1, <4>4
      <4>6. QED BY <1>7, <4>1, <4>5 DEF Written
    <3>7. QED BY <3>4, <3>5, <3>6
  <2>3. CASE del.r = Crash
    <3>1. hr = gr /\ g.file = e.file /\ \A x \in ToSet(g.list) : x \in ToSet(e.list)
      BY <1>3, <1>4, <1>5, <1>8, <2>3 DEF Crash
    <3>2. Written(g, fs \cap ss, hr, t) /\ OwnUids(g, ss)
      BY <1>7, <3>1 DEF Written, OwnUids
    <3>3. QED BY <1>9, <2>3, <3>2
  <2>4. QED BY <1>8, <2>1, <2>2, <2>3
<1>11. /\ Written(d', owed' \cap saved', granted', now') /\ OwnUids(d', saved')
       /\ pc' # "dead" => Kept(d', owed', granted', now')
  BY <1>5, <1>6, <1>10
<1>12. QED BY <1>9, <1>11 DEF LeaseInv

LEMMA HeadLine ==
  ASSUME NEW file \in Seq(FileLines), file # <<>>, NEW f
  PROVE  /\ \A l \in Lines(Tail(file), f) : l \in Lines(file, f)
         /\ \A l \in Lines(file, f) : l = Head(file) \/ l \in Lines(Tail(file), f)
         /\ Head(file) # Blank /\ Head(file).flow = f => Head(file) \in Lines(file, f)
<1>1. /\ Tail(file) \in Seq(FileLines) /\ Head(file) = file[1] /\ Len(file) \in Nat \ {0}
      /\ Len(Tail(file)) = Len(file) - 1 /\ \A i \in 1..Len(Tail(file)) : Tail(file)[i] = file[i + 1]
  BY HeadTailProperties, EmptySeq, LenProperties
<1>2. DOMAIN file = 1..Len(file) /\ DOMAIN Tail(file) = 1..Len(Tail(file))
  BY <1>1, SeqFacts
<1>3. \A x \in ToSet(Tail(file)) : x \in ToSet(file)
  BY <1>1, <1>2 DEF ToSet
<1>4. Head(file) \in ToSet(file)
  BY <1>1, <1>2 DEF ToSet
<1>5. ASSUME NEW x \in ToSet(file), x # Head(file) PROVE x \in ToSet(Tail(file))
  <2>1. PICK i \in 1..Len(file) : x = file[i]
    BY <1>2, <1>5 DEF ToSet
  <2>2. i # 1
    BY <1>1, <1>5, <2>1
  <2>3. i - 1 \in 1..Len(Tail(file)) /\ Tail(file)[i - 1] = x
    BY <1>1, <2>1, <2>2
  <2>4. QED BY <1>2, <2>3 DEF ToSet
<1>6. QED BY <1>3, <1>4, <1>5 DEF Lines

LEMMA ReloadLease ==
  ASSUME Inv, NEW fails \in SUBSET Failures, ReloadLine(fails)
  PROVE  LeaseInv'
<1>1. /\ Sound(d) /\ granted \in [Flows -> Nat] /\ now \in Nat /\ reload \in Seq(FileLines)
      /\ saved \subseteq Flows /\ owed \subseteq Flows
      /\ Written(d, owed \cap saved, granted, now) /\ OwnUids(d, saved)
      /\ pc = "reload" => Due(d, reload, owed, granted, now)
  BY DEF Inv, PinholesInv, LeaseInv
<1>2. PICK l : l = Head(reload)
  OBVIOUS
<1>3. /\ l \in FileLines /\ reload' = Tail(reload) /\ pc = "reload" /\ reload # <<>>
      /\ UNCHANGED <<now, granted>>
      /\ Skips(l) \/ \E add : Reopens(l, add, fails)
  BY <1>2, LineCases DEF Inv
<1>4. PICK e, fs, ss, gr, t : e = d /\ fs = owed /\ ss = saved /\ gr = granted /\ t = now
  OBVIOUS
<1>5. PICK file, rest : file = reload /\ rest = reload'
  OBVIOUS
<1>6. /\ Written(e, fs \cap ss, gr, t) /\ OwnUids(e, ss) /\ Due(e, file, fs, gr, t)
      /\ fs \subseteq Flows /\ gr \in [Flows -> Nat] /\ t \in Nat
  BY <1>1, <1>3, <1>4, <1>5
<1>7. /\ granted' = gr /\ now' = t
  BY <1>3, <1>4
<1>8. /\ \A f : \A x \in Lines(rest, f) : x \in Lines(file, f)
      /\ \A f : \A x \in Lines(file, f) : x = l \/ x \in Lines(rest, f)
      /\ l # Blank => l \in Lines(file, l.flow)
  BY <1>1, <1>2, <1>3, <1>5, HeadLine
<1>9. CASE Skips(l)
  <2>1. d' = e /\ pc' = pc /\ saved' = ss /\ owed' = fs
    BY <1>4, <1>9 DEF Skips
  <2>2. Due(e, rest, fs, gr, t)
    <3> SUFFICES ASSUME NEW f \in fs, gr[f] > t
                 PROVE  /\ Open(e, f, gr[f]) \/ Lines(rest, f) # {}
                        /\ \A x \in Lines(rest, f) : x.timestamp = ToUnix(gr[f])
                        /\ f.iport >= 1024
      BY DEF Due
    <3>1. /\ Open(e, f, gr[f]) \/ Lines(file, f) # {}
          /\ \A x \in Lines(file, f) : x.timestamp = ToUnix(gr[f])
          /\ f.iport >= 1024
      BY <1>6 DEF Due
    <3>2. f.iport \in Nat /\ gr[f] \in Nat
      BY <1>6, PortNat
    <3>3. l \notin Lines(file, f)
      <4> SUFFICES ASSUME l \in Lines(file, f) PROVE FALSE
        OBVIOUS
      <4>1. l # Blank /\ l.flow = f /\ l.timestamp = ToUnix(gr[f])
        BY <3>1 DEF Lines
      <4>2. f.iport < 1024 \/ ToUnix(gr[f]) <= ToUnix(t)
        BY <1>4, <1>9, <4>1 DEF Skips
      <4>3. QED BY <1>6, <3>1, <3>2, <4>2, ConstantFacts DEF ToUnix
    <3>4. QED BY <1>8, <3>1, <3>3
  <2>3. Due(d', reload', owed', granted', now')
    BY <1>5, <1>7, <2>1, <2>2
  <2>4. Written(d', owed' \cap saved', granted', now') /\ OwnUids(d', saved')
    BY <1>6, <1>7, <2>1
  <2>5. QED BY <1>3, <2>1, <2>3, <2>4 DEF LeaseInv
<1>10. ASSUME NEW add, Reopens(l, add, fails) PROVE LeaseInv'
  <2>1. /\ l \in Pinhole /\ l.flow \in Flows /\ l.desc \in Descs /\ l # Blank
        /\ l.timestamp - ToUnix(now) \in Nat /\ l.timestamp \in Nat
        /\ now + (l.timestamp - ToUnix(now)) = l.timestamp - UnixOffset
    BY <1>1, <1>3, <1>10, LineFacts DEF Reopens
  <2>2. PICK leaseduration \in Nat : leaseduration = l.timestamp - ToUnix(now)
    BY <2>1
  <2>3. PICK ts : ts = now + leaseduration
    OBVIOUS
  <2>4. ts = l.timestamp - UnixOffset
    BY <2>1, <2>2, <2>3
  <2>5. PICK flow \in Flows : flow = l.flow
    BY <2>1
  <2>6. add = upnp_add_inboundpinhole(d, flow, l.desc, leaseduration, fails)
    BY <1>10, <2>2, <2>5 DEF Reopens
  <2>7. /\ AddResult(d, add, flow, ts, fails)
        /\ add.r \in Uids => OneLine(add.d.file, flow, add.r, ts)
        /\ add.r \in Uids /\ flow \notin FlowsIn(d.list)
             => \A f : ~SamePrefix(f, flow) => Lines(add.d.file, f) = Lines(d.file, f)
    BY <1>1, <2>1, <2>3, <2>6, AddFacts
  <2>8. /\ d' = add.d /\ pc' \in {"reload", "hung"} /\ saved' = SavedBy(flow, add.r)
        /\ owed' = IF add.r \in Uids THEN owed ELSE owed \ {flow}
    BY <1>3, <1>10, <2>5 DEF Reopens
  <2>9. \A f \in fs : gr[f] > t /\ f = flow => gr[f] = ts
    <3> SUFFICES ASSUME flow \in fs, gr[flow] > t PROVE gr[flow] = ts
      OBVIOUS
    <3>1. l.timestamp = ToUnix(gr[flow])
      BY <1>6, <1>8, <2>1, <2>5 DEF Due
    <3>2. gr[flow] \in Nat
      BY <1>6
    <3>3. QED BY <2>1, <2>4, <3>1, <3>2, ConstantFacts DEF ToUnix
  <2>10. ASSUME NEW f \in fs, gr[f] > t, f # flow
         PROVE  /\ Open(e, f, gr[f]) \/ Lines(rest, f) # {}
                /\ \A x \in Lines(rest, f) : x.timestamp = ToUnix(gr[f])
                /\ f.iport >= 1024
    <3>1. /\ Open(e, f, gr[f]) \/ Lines(file, f) # {}
          /\ \A x \in Lines(file, f) : x.timestamp = ToUnix(gr[f])
          /\ f.iport >= 1024
      BY <1>6, <2>10 DEF Due
    <3>2. l \notin Lines(file, f)
      BY <2>5, <2>10 DEF Lines
    <3>3. QED BY <1>8, <3>1, <3>2
  <2>11. CASE add.r \in Uids
    <3>1. Opened(e, add.d, flow, ts) /\ Numbered(add.d, flow, add.r) /\ OneLine(add.d.file, flow, add.r, ts)
      BY <1>4, <2>7, <2>11 DEF AddResult
    <3>2. PICK us : us = saved'
      OBVIOUS
    <3>3. owed' = fs
      BY <1>4, <2>8, <2>11
    <3>4. \A f \in us : f # flow => f \in ss /\ Lines(add.d.file, f) = Lines(e.file, f)
      <4>1. \A f \in SavedBy(flow, add.r) : f # flow => f \in saved /\ Lines(add.d.file, f) = Lines(d.file, f)
        BY <1>1, <2>7, <2>11, SavedByLines
      <4>2. QED BY <1>4, <2>8, <3>2, <4>1
    <3>5. flow \in fs /\ gr[flow] > t => gr[flow] = ts
      BY <2>9
    <3>6. Written(add.d, fs \cap us, gr, t) /\ OwnUids(add.d, us)
      <4>1. Rewritten(e, add.d, flow, add.r, ts, t, ss, us, fs, fs, gr, gr)
        BY <1>6, <3>1, <3>4, <3>5 DEF Rewritten
      <4>2. QED BY ONLY <4>1, WrittenAnew
    <3>7. Due(add.d, rest, fs, gr, t)
      <4> SUFFICES ASSUME NEW f \in fs, gr[f] > t
                   PROVE  /\ Open(add.d, f, gr[f]) \/ Lines(rest, f) # {}
                          /\ \A x \in Lines(rest, f) : x.timestamp = ToUnix(gr[f])
                          /\ f.iport >= 1024
        BY DEF Due
      <4>1. CASE f = flow
        <5>1. Open(add.d, f, gr[f])
          BY <2>9, <3>1, <4>1 DEF Opened
        <5>2. QED BY <1>6, <1>8, <5>1 DEF Due
      <4>2. CASE f # flow
        <5>1. Open(e, f, gr[f]) => Open(add.d, f, gr[f])
          BY <3>1, <4>2 DEF Opened, Others, Open
        <5>2. QED BY <2>10, <4>2, <5>1
      <4>3. QED BY <4>1, <4>2
    <3>8. /\ Due(d', reload', owed', granted', now')
          /\ Written(d', owed' \cap saved', granted', now') /\ OwnUids(d', saved')
      BY <1>5, <1>7, <2>8, <3>2, <3>3, <3>6, <3>7
    <3>9. QED BY <2>8, <3>8 DEF LeaseInv
  <2>12. CASE add.r \notin Uids
    <3>1. add.d.list = e.list /\ add.d.file = e.file
      BY <1>4, <2>7, <2>12 DEF AddResult
    <3>2. owed' = fs \ {flow} /\ saved' = ss
      BY <1>4, <2>8, <2>12 DEF SavedBy
    <3>3. Written(add.d, (fs \ {flow}) \cap ss, gr, t) /\ OwnUids(add.d, ss)
      BY <1>6, <3>1 DEF Written, OwnUids
    <3>4. Due(add.d, rest, fs \ {flow}, gr, t)
      BY <2>10, <3>1 DEF Due, Open
    <3>5. /\ Due(d', reload', owed', granted', now')
          /\ Written(d', owed' \cap saved', granted', now') /\ OwnUids(d', saved')
      BY <1>5, <1>7, <2>8, <3>2, <3>3, <3>4
    <3>6. QED BY <2>8, <3>5 DEF LeaseInv
  <2>13. QED BY <2>11, <2>12
<1>11. QED BY <1>3, <1>9, <1>10

LEMMA ReloadedLease ==
  ASSUME Inv, Reloaded
  PROVE  LeaseInv'
<1>1. Lines(<<>>, 0) = {} /\ \A f : Lines(<<>>, f) = {}
  BY DEF Lines, ToSet
<1>2. /\ reload = <<>> /\ pc' = "sweep" /\ UNCHANGED <<d, now, granted, saved, owed>>
      /\ Due(d, reload, owed, granted, now)
      /\ Written(d, owed \cap saved, granted, now) /\ OwnUids(d, saved)
  BY DEF Inv, LeaseInv, Reloaded
<1>3. Kept(d, owed, granted, now)
  BY <1>1, <1>2 DEF Due, Kept
<1>4. QED BY <1>2, <1>3 DEF LeaseInv

LEMMA SweepLease ==
  ASSUME Inv, NEW failing, CleanExpiredPinholes(failing)
  PROVE  LeaseInv'
<1>1. /\ Sound(d) /\ granted \in [Flows -> Nat] /\ now \in Nat /\ owed \subseteq Flows
      /\ Written(d, owed \cap saved, granted, now) /\ OwnUids(d, saved)
      /\ Kept(d, owed, granted, now)
  BY DEF Inv, PinholesInv, LeaseInv, CleanExpiredPinholes
<1>2. UNCHANGED <<now, granted, saved, owed>> /\ pc' = "loop"
  BY DEF CleanExpiredPinholes
<1>3. PICK g : g = d' /\ g = upnp_clean_expired_pinholes(d, failing)
  BY DEF CleanExpiredPinholes
<1>4. /\ \A p \in ToSet(d.list) : ~Expired(p) => p \in ToSet(g.list)
      /\ \A p \in ToSet(g.list) : p \in ToSet(d.list)
      /\ \A f : Lines(g.file, f) = {l \in Lines(d.file, f) : l.timestamp > ToUnix(now)}
  BY <1>1, <1>3, CleanFacts
<1>5. Kept(g, owed, granted, now)
  <2> SUFFICES ASSUME NEW f \in owed, granted[f] > now PROVE Open(g, f, granted[f])
    BY DEF Kept
  <2>1. PICK p \in ToSet(d.list) : p.flow = f /\ p.timestamp = granted[f]
    BY <1>1 DEF Kept, Open
  <2>2. ~Expired(p)
    BY <1>1, <2>1 DEF Expired
  <2>3. QED BY <1>4, <2>1, <2>2 DEF Open
<1>6. Written(g, owed \cap saved, granted, now)
  <2> SUFFICES ASSUME NEW f \in owed \cap saved, granted[f] > now
               PROVE  /\ Lines(g.file, f) # {}
                      /\ \A l \in Lines(g.file, f) : l.timestamp = ToUnix(granted[f])
    BY DEF Written
  <2>1. /\ Lines(d.file, f) # {} /\ \A l \in Lines(d.file, f) : l.timestamp = ToUnix(granted[f])
    BY <1>1 DEF Written
  <2>2. ToUnix(granted[f]) > ToUnix(now)
    BY <1>1, ConstantFacts DEF ToUnix
  <2>3. Lines(g.file, f) = Lines(d.file, f)
    BY <1>4, <2>1, <2>2
  <2>4. QED BY <2>1, <2>3
<1>7. OwnUids(g, saved)
  BY <1>1, <1>4 DEF OwnUids
<1>8. PICK fs, ss, gr, t : fs = owed /\ ss = saved /\ gr = granted /\ t = now
  OBVIOUS
<1>9. Kept(g, fs, gr, t) /\ Written(g, fs \cap ss, gr, t) /\ OwnUids(g, ss)
  BY <1>5, <1>6, <1>7, <1>8
<1>10. /\ Kept(d', owed', granted', now') /\ Written(d', owed' \cap saved', granted', now')
       /\ OwnUids(d', saved')
  BY <1>2, <1>3, <1>8, <1>9
<1>11. QED BY <1>2, <1>10 DEF LeaseInv

LEMMA RestartLease ==
  ASSUME Inv, Restart
  PROVE  LeaseInv'
<1>1. PICK e, fs, ss, gr, t : e = d /\ fs = owed /\ ss = saved /\ gr = granted /\ t = now
  OBVIOUS
<1>2. Written(e, fs \cap ss, gr, t)
  BY <1>1 DEF Inv, LeaseInv
<1>3. PICK g, hs : g = d' /\ hs = owed'
  OBVIOUS
<1>4. /\ reload' = e.file /\ pc' = "reload" /\ saved' = {} /\ granted' = gr /\ now' = t
      /\ hs = {f \in fs \cap ss : f.iport >= 1024}
  BY <1>1, <1>3 DEF Restart
<1>5. Due(g, e.file, hs, gr, t)
  BY <1>2, <1>4 DEF Written, Due
<1>6. Due(d', reload', owed', granted', now')
  BY <1>3, <1>4, <1>5
<1>7. QED BY <1>4, <1>6 DEF LeaseInv, Written, OwnUids

LEMMA TickLease ==
  ASSUME Inv, Tick
  PROVE  LeaseInv'
<1>1. UNCHANGED <<d, pc, reload, granted, saved, owed>> /\ now' = now + 1
  BY DEF Tick
<1>2. /\ granted \in [Flows -> Nat] /\ now \in Nat /\ owed \subseteq Flows
  BY DEF Inv, PinholesInv
<1>3. PICK t : t = now + 1
  OBVIOUS
<1>4. \A f \in owed : granted[f] > t => granted[f] > now
  BY <1>2, <1>3
<1>5. /\ Written(d, owed \cap saved, granted, t) /\ OwnUids(d, saved)
      /\ pc \in {"sweep", "loop"} => Kept(d, owed, granted, t)
      /\ pc = "reload" => Due(d, reload, owed, granted, t)
  BY <1>4 DEF Inv, LeaseInv, Written, Kept, Due
<1>6. PICK e, fs, ss, gr, file : e = d /\ fs = owed /\ ss = saved /\ gr = granted /\ file = reload
  OBVIOUS
<1>7. /\ Written(e, fs \cap ss, gr, t) /\ OwnUids(e, ss)
      /\ pc \in {"sweep", "loop"} => Kept(e, fs, gr, t)
      /\ pc = "reload" => Due(e, file, fs, gr, t)
  BY <1>5, <1>6
<1>8. QED BY <1>1, <1>3, <1>6, <1>7 DEF LeaseInv

LEMMA NextInv == Inv /\ [Next]_vars => Inv'
<1> SUFFICES ASSUME Inv, [Next]_vars PROVE Inv'
  OBVIOUS
<1>1. /\ Sound(d) /\ granted \in [Flows -> Nat] /\ now \in Nat
      /\ saved \subseteq Flows /\ owed \subseteq Flows
  BY DEF Inv, PinholesInv
<1>2. \A kinds : \A fails \in MayFail(kinds) : fails \in SUBSET Failures
  BY DEF MayFail
<1>3. ASSUME NEW uid \in UsedUids(d)
      PROVE  /\ d.list[get_pinhole(d, uid)] \in ToSet(d.list)
             /\ d.list[get_pinhole(d, uid)].uid = uid
  BY <1>1, GetFacts DEF Sound, ToSet
<1>4. ASSUME NEW flow \in Flows, NEW uid, uid = upnp_find_inboundpinhole(d, flow), uid >= 0
      PROVE  \E p \in ToSet(d.list) : p.flow = flow /\ p.uid = uid
  <2>1. find_pinhole(d, flow) # -2
    BY <1>4 DEF upnp_find_inboundpinhole
  <2>2. QED BY <1>1, <1>4, <2>1, FindFacts DEF Sound, upnp_find_inboundpinhole
<1>5. ASSUME NEW client \in Clients, NEW flow \in Flows, NEW leasetime \in LeaseTimes,
             NEW fails \in MayFail({"append", "calloc"}), AddPinhole(client, flow, leasetime, fails)
      PROVE  Inv'
  <2>1. PICK add : add = upnp_add_inboundpinhole(d, flow, IGD2, leasetime, fails)
    OBVIOUS
  <2>2. /\ pc = "loop" /\ d' = add.d /\ Ended(add.r)
        /\ IF add.r \in Uids THEN Grant(flow, leasetime) ELSE UNCHANGED <<granted, owed>>
        /\ saved' = SavedBy(flow, add.r)
        /\ UNCHANGED <<reload, now>>
    BY <1>5, <2>1 DEF AddPinhole
  <2>3. IGD2 \in Descs
    BY DEF Descs
  <2>4. QED BY <1>2, <2>1, <2>2, <2>3, AddStep, AddLease DEF Inv
<1>6. ASSUME NEW client \in Clients, NEW uid \in Uids, NEW leasetime \in LeaseTimes,
             UpdatePinhole(client, uid, leasetime)
      PROVE  Inv'
  <2>1. PICK p : p = d.list[get_pinhole(d, uid)]
    OBVIOUS
  <2>2. PICK up : up = upnp_update_inboundpinhole(d, uid, leasetime)
    OBVIOUS
  <2>3. p \in ToSet(d.list) /\ p.uid = uid
    BY <1>3, <1>6, <2>1 DEF UpdatePinhole
  <2>4. up.r = 0
    BY <1>1, <2>2, <2>3, ConstantFacts, UpdateFacts
  <2>5. /\ pc = "loop" /\ d' = up.d /\ Grant(p.flow, leasetime) /\ saved' = {}
        /\ UNCHANGED <<pc, reload, now>>
    BY <1>6, <2>1, <2>2, <2>4 DEF UpdatePinhole
  <2>6. QED BY <2>2, <2>3, <2>5, RenewStep, RenewLease DEF Inv
<1>7. ASSUME NEW client \in Clients, NEW uid \in Uids, NEW fails \in MayFail({"delete"}),
             DeletePinhole(client, uid, fails)
      PROVE  Inv'
  <2>1. pc = "loop" /\ uid \in UsedUids(d) /\ Delete(uid, fails)
    BY <1>7 DEF DeletePinhole
  <2>2. PICK p \in ToSet(d.list) : p.uid = uid
    BY <2>1 DEF UsedUids
  <2>3. QED BY <2>1, <2>2, DeleteStep, DeleteLease DEF Inv
<1>8. ASSUME NEW flow \in Flows, NEW nonce \in Nonces, NEW lifetime \in LeaseTimes,
             NEW fails \in MayFail({"append", "calloc"}), CreatePCPMap_FW(flow, nonce, lifetime, fails)
      PROVE  Inv'
  <2>1. PICK uid : uid = upnp_find_inboundpinhole(d, flow)
    OBVIOUS
  <2>2. pc = "loop" /\ UNCHANGED <<reload, now>>
    BY <1>8 DEF CreatePCPMap_FW
  <2>3. CASE /\ uid >= 0 /\ d' = upnp_update_inboundpinhole(d, uid, lifetime).d
             /\ Grant(flow, lifetime) /\ saved' = {} /\ UNCHANGED pc
    <3>1. PICK p \in ToSet(d.list) : p.flow = flow /\ p.uid = uid
      BY <1>4, <2>1, <2>3
    <3>2. QED BY <2>2, <2>3, <3>1, RenewStep, RenewLease DEF Inv
  <2>4. CASE LET add == upnp_add_inboundpinhole(d, flow, nonce, lifetime, fails)
             IN /\ d' = add.d /\ Ended(add.r)
                /\ IF add.r \in Uids THEN Grant(flow, lifetime) ELSE UNCHANGED <<granted, owed>>
                /\ saved' = SavedBy(flow, add.r)
    <3>1. PICK add : add = upnp_add_inboundpinhole(d, flow, nonce, lifetime, fails)
      OBVIOUS
    <3>2. /\ d' = add.d /\ Ended(add.r)
          /\ IF add.r \in Uids THEN Grant(flow, lifetime) ELSE UNCHANGED <<granted, owed>>
          /\ saved' = SavedBy(flow, add.r)
      BY <2>4, <3>1
    <3>3. nonce \in Descs
      BY DEF Descs
    <3>4. QED BY <1>2, <2>2, <3>1, <3>2, <3>3, AddStep, AddLease DEF Inv
  <2>5. QED BY <1>8, <2>1, <2>3, <2>4, Zenon DEF CreatePCPMap_FW
<1>9. ASSUME NEW flow \in Flows, NEW nonce \in Nonces, NEW fails \in MayFail({"delete"}),
             DeletePCPMap(flow, nonce, fails)
      PROVE  Inv'
  <2>1. PICK uid : uid = upnp_find_inboundpinhole(d, flow)
    OBVIOUS
  <2>2. pc = "loop" /\ uid >= 0 /\ Delete(uid, fails)
    BY <1>9, <2>1 DEF DeletePCPMap
  <2>3. PICK p \in ToSet(d.list) : p.uid = uid
    BY <1>4, <2>1, <2>2
  <2>4. QED BY <2>2, <2>3, DeleteStep, DeleteLease DEF Inv
<1>10. CASE Turn
  BY <1>2, <1>10, ReloadStep, ReloadedStep, SweepStep, ReloadLease, ReloadedLease, SweepLease
     DEF Turn, Inv
<1>11. CASE Restart
  <2>1. Sound(d') /\ Exact(d')
    BY <1>11, EmptyDaemon DEF Restart
  <2>2. reload' \in Seq(FileLines)
    BY <1>1, <1>11, DaemonFields DEF Restart, Sound
  <2>3. saved' \subseteq Flows /\ owed' \subseteq Flows
    BY <1>1, <1>11 DEF Restart
  <2>4. PinholesInv'
    BY <1>1, <1>11, <2>1, <2>2, <2>3 DEF Restart, PinholesInv
  <2>5. QED BY <1>11, <2>4, RestartLease DEF Inv
<1>12. CASE Tick
  <2>1. PinholesInv'
    BY <1>12 DEF Tick, Inv, PinholesInv
  <2>2. QED BY <1>12, <2>1, TickLease DEF Inv
<1>13. CASE UNCHANGED vars
  BY <1>13 DEF vars, Inv, PinholesInv, LeaseInv
<1>14. QED BY <1>5, <1>6, <1>7, <1>8, <1>9, <1>10, <1>11, <1>12, <1>13 DEF Next

LEMMA AlwaysInv == Spec => []Inv
<1>1. Init => Inv
  BY InitInv, InitLease DEF Inv
<1>2. QED BY <1>1, NextInv, PTL DEF Spec

(* A list of distinct flows has at most one position for each of them *)
LEMMA PositionsOfFlow ==
  ASSUME NEW list \in Seq(Pinhole), Distinct(list), NEW f
  PROVE  Cardinality({i \in DOMAIN list : list[i].flow = f}) = IF f \in FlowsIn(list) THEN 1 ELSE 0
<1> DEFINE I == {i \in DOMAIN list : list[i].flow = f}
<1>1. I # {} <=> f \in FlowsIn(list)
  BY DEF FlowsIn, ToSet
<1>2. \A i, j \in I : i = j
  BY DEF Distinct
<1> HIDE DEF I
<1>3. CASE I = {}
  BY <1>1, <1>3, FS_EmptySet DEF I
<1>4. CASE I # {}
  <2>0. PICK i : i \in I
    BY <1>4
  <2>1. I = {i}
    BY <1>2, <2>0
  <2>2. Cardinality(I) = 1
    BY <2>1, FS_Singleton
  <2>3. QED BY <1>1, <1>4, <2>2 DEF I
<1>5. QED BY <1>3, <1>4

-----------------------------------------------------------------------------
(* The theorems *)

(* Unless calloc fails after the rule was committed (add_pinhole then        *)
(* returns without the list entry), the list and the chain agree: one rule   *)
(* for each pinhole and no other, whatever the number of clients, unique     *)
(* ids, restarts and ip6tables calls refused.                                *)
THEOREM ListAndChainAgree ==
  ASSUME "calloc" \notin Failures
  PROVE  Spec => []ListMatchesChain
<1>1. Inv => ListMatchesChain
  <2> SUFFICES ASSUME PinholesInv PROVE ListMatchesChain
    BY DEF Inv
  <2>1. d.list \in Seq(Pinhole) /\ Distinct(d.list)
    BY DaemonFields DEF PinholesInv, Sound
  <2>2. ASSUME NEW f \in Flows, pc # "hung"
        PROVE  d.chain[f] = Cardinality({i \in DOMAIN d.list : d.list[i].flow = f})
    <3>1. d.chain[f] = IF f \in FlowsIn(d.list) THEN 1 ELSE 0
      BY <2>2 DEF PinholesInv, Exact
    <3>2. QED BY <2>1, <3>1, PositionsOfFlow
  <2>3. QED BY <2>1, <2>2 DEF ListMatchesChain, Distinct
<1>2. QED BY <1>1, AlwaysInv, PTL

(* A pinhole stays open, in the list and in the chain, until the end of the  *)
(* lease its client was last told of, whatever fails: the sweep of           *)
(* clean_pinhole_list and the requests for other flows leave it alone, and   *)
(* the lease file brings it back after a restart unless its line was         *)
(* rewritten by a renewal or by an addition with the same prefix, was not    *)
(* read to the end, was refused by ip6tables or is that of a privileged port *)
(* (saved, owed).                                                            *)
THEOREM GrantsAlwaysHonoured == Spec => []GrantsHonoured
<1>1. Inv => GrantsHonoured
  <2> SUFFICES ASSUME Inv, pc \in {"sweep", "loop"}, NEW f \in owed, granted[f] > now
               PROVE  /\ d.chain[f] > 0
                      /\ \E p \in ToSet(d.list) : p.flow = f /\ p.timestamp = granted[f]
    BY DEF GrantsHonoured
  <2>1. PICK p \in ToSet(d.list) : p.flow = f /\ p.timestamp = granted[f]
    BY DEF Inv, LeaseInv, Kept, Open
  <2>2. f \in Flows
    BY DEF Inv, PinholesInv
  <2>3. d.chain[f] >= 1 /\ d.chain[f] \in Nat
    BY <2>1, <2>2, DaemonFields DEF Inv, PinholesInv, Sound, FlowsIn
  <2>4. QED BY <2>1, <2>3
<1>2. QED BY <1>1, AlwaysInv, PTL

=============================================================================
