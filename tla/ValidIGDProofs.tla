--------------------------- MODULE ValidIGDProofs ---------------------------
(***************************************************************************)
(* Proofs about ValidIGD, for lists of any length: the best gateway is     *)
(* chosen, an answer speaks of one service only, and no URL is leaked.     *)
(***************************************************************************)
EXTENDS ValidIGD, ListLemmas, TLAPS

Addrs == {"none", "private", "public"}
DescRecords == [xml : BOOLEAN, is_igd : BOOLEAN, wanaddr : Addrs]
DataRecords == [first : Nat, second : Nat]
Answers == [connected : BOOLEAN, addr : Addrs]
Searching == {"status", "address", "second", "next"}
Calls ==
  [pc : Searching \cup {"idle", "download", "done"}, devlist : Seq(Devices),
   desc : Seq(DescRecords), state : 0..4, i : Nat, result : -1..4, wanaddr : Addrs,
   quiet : BOOLEAN]

(* The devices *)
WorldOK == description \in [Devices -> Descriptions] /\ line \in [Services -> Lines]

(* The parts of the invariant are about a call c, URLs u, data dt, a number *)
(* lv of live URLs and answers tl, so that they can be stated of what a     *)
(* step leaves before it is taken.                                          *)
Typed(c, dt, tl) == c \in Calls /\ dt \in DataRecords /\ tl \in [Services -> Answers]

At(c) == c.devlist[c.i]

Placed(c) ==
  /\ c.pc \in Searching \cup {"download"} =>
       Len(c.desc) = Len(c.devlist) /\ c.i \in 1..Len(c.devlist)
  /\ c.pc \in Searching => c.state \in 1..2

(* data is that of the device, swapped for its second service *)
OnService(c, dt) ==
  /\ c.pc \in {"status", "address", "second"} =>
       \/ dt = parserootdesc(At(c))
       \/ dt = Swapped(parserootdesc(At(c))) /\ dt.first > 1
  /\ c.pc = "second" => dt.first > 1

(* The URLs that are allocated *)
Held(c, u, dt, lv) ==
  /\ lv \in {0, 1}
  /\ lv = 1 <=> u # NoUrls
  /\ c.pc \in {"idle", "download", "second", "next"} => lv = 0
  /\ c.pc \in {"status", "address"} => lv = 1 /\ u = [dev |-> At(c), service |-> dt.first]
  /\ c.pc = "done" => (lv = 1 <=> c.result > 0)

(* A value of 1 comes from one service *)
OneService(c, u, dt, tl) ==
  /\ c.pc = "address" => c.state = 1 /\ dt.first # NoService /\ tl[<<At(c), dt.first>>].connected
  /\ (c.pc = "done" /\ c.devlist # <<>> /\ c.result = 1) =>
       /\ u.service = dt.first
       /\ tl[<<u.dev, dt.first>>] = [connected |-> TRUE, addr |-> "public"]
       /\ c.wanaddr = "public"

(* The description of device k of the list has arrived *)
Known(c, k) == c.desc[k].xml /\ c.desc[k].is_igd = description[c.devlist[k]].cif

(* The loops have seen, and refused, everything before device i of round s *)
Passed(c, s, i) ==
  \A t \in 1..4, k \in 1..Len(c.devlist) :
    Before(<<t, k>>, <<s, i>>) => Rank(c.devlist[k]) > t

(* A service that does not do in round s *)
Unfit(s, d, service) == IF s = 1 THEN line[<<d, service>>] # "public" ELSE line[<<d, service>>] = "down"

(* What the loops know as long as nothing fails or changes *)
Progress(c, dt) == c.quiet =>
  /\ c.pc = "download" => \A k \in 1..(c.i - 1) : Known(c, k)
  /\ c.pc \in Searching => /\ \A k \in 1..Len(c.devlist) : Known(c, k)
                           /\ Passed(c, c.state, c.i)
                           /\ description[At(c)].cif
  /\ c.pc \in {"status", "address", "second"} /\ dt.first > 1 => Unfit(c.state, At(c), 1)
  /\ c.pc = "address" => line[<<At(c), dt.first>>] # "down"
  /\ c.pc = "next" => Rank(At(c)) > c.state

(* The result is the first device, in the order of the loops, that does *)
Chosen(c, u, dt) ==
  (c.pc = "done" /\ c.devlist # <<>> /\ c.quiet) =>
    /\ c.i \in 1..Len(c.devlist) /\ c.state \in 1..4 /\ c.result = c.state
    /\ Passed(c, c.state, c.i) /\ Rank(At(c)) <= c.state
    /\ u = [dev |-> At(c), service |-> BestService(At(c))]
    /\ dt.first = BestService(At(c))

Good(c, u, dt, lv, tl) ==
  /\ Typed(c, dt, tl) /\ Placed(c) /\ OnService(c, dt)
  /\ Held(c, u, dt, lv) /\ OneService(c, u, dt, tl)
  /\ Progress(c, dt) /\ Chosen(c, u, dt)

ValidIGDInv == WorldOK /\ Good(call, urls, data, live, told)

-----------------------------------------------------------------------------
(* Descriptions and ranks *)

LEMMA DescriptionFacts ==
  ASSUME WorldOK, NEW x \in Devices
  PROVE  description[x].cif \in BOOLEAN /\ description[x].services \in 0..MaxServices /\ MaxServices \in Nat
BY ValidIGDAssumption DEF WorldOK

(* Of the connection services of the document the first is kept, and the    *)
(* last of the others                                                       *)
LEMMA ParsedFacts ==
  ASSUME WorldOK, NEW x \in Devices
  PROVE  LET n == description[x].services
         IN /\ n = 0 => parserootdesc(x) = NoData
            /\ n = 1 => parserootdesc(x) = [first |-> 1, second |-> NoService]
            /\ n > 1 => parserootdesc(x) = [first |-> 1, second |-> n]
<1> DEFINE n == description[x].services
           Q(f) == f = [s \in 0..n |-> IF s = 0 THEN NoData ELSE IGDendelt(f[s - 1], s)]
           F == CHOOSE f : Q(f)
           At2(s) == [first |-> 1, second |-> s]
           G(s) == IF s = 0 THEN NoData ELSE IF s = 1 THEN At2(NoService) ELSE At2(s)
           g == [s \in 0..n |-> G(s)]
<1>1. n \in Nat
  BY DescriptionFacts
<1>2. parserootdesc(x) = F[n]
  BY DEF parserootdesc
<1>3. IGDendelt(NoData, 1) = At2(NoService)
  BY DEF IGDendelt, NoData, NoService
<1>3a. ASSUME NEW t, NEW s PROVE IGDendelt(At2(t), s) = At2(s)
  BY DEF IGDendelt, NoService
<1> HIDE DEF n, At2
<1>4. ASSUME NEW s \in 0..n
      PROVE  G(s) = IF s = 0 THEN NoData ELSE IGDendelt(G(s - 1), s)
  <2>1. CASE s = 0
    BY <2>1
  <2>2. CASE s = 1
    BY <1>3, <2>2
  <2>3. CASE s = 2
    BY <1>3a, <2>3
  <2>4. CASE s > 2
    <3>1. s # 0 /\ s # 1 /\ s - 1 # 0 /\ s - 1 # 1
      BY <1>1, <2>4
    <3>2. QED BY <1>3a, <3>1
  <2>5. QED BY <1>1, <2>1, <2>2, <2>3, <2>4
<1>4a. ASSUME NEW s \in 0..n PROVE g[s] = G(s)
  OBVIOUS
<1> HIDE DEF G
<1>4b. ASSUME NEW s \in 0..n
       PROVE  g[s] = IF s = 0 THEN NoData ELSE IGDendelt(g[s - 1], s)
  <2>1. s # 0 => s - 1 \in 0..n
    BY <1>1
  <2>2. s # 0 => g[s - 1] = G(s - 1)
    BY <2>1, <1>4a
  <2> HIDE DEF g
  <2>3. QED BY <1>4, <1>4a, <2>2
<1>5. Q(g)
  <2>1. g = [s \in 0..n |-> g[s]]
    OBVIOUS
  <2> HIDE DEF g
  <2>2. QED BY <1>4b, <2>1
<1>6. Q(F)
  <2> HIDE DEF Q, g
  <2>1. QED BY <1>5
<1>7. \A s \in 0..n : F[s] = IF s = 0 THEN NoData ELSE IGDendelt(F[s - 1], s)
  BY <1>6
<1> HIDE DEF F
<1>8. ASSUME NEW s \in 0..n PROVE F[s] = G(s)
  <2> DEFINE Bad == {t \in 0..n : F[t] # G(t)}
  <2>1. ASSUME Bad # {} PROVE FALSE
    <3>0. Bad \in SUBSET Nat
      BY <1>1
    <3>1. PICK t \in Bad : \A u \in Bad : t <= u
      BY <3>0, <2>1, LeastElement
    <3>2. t # 0 => t - 1 \in 0..n /\ t - 1 \notin Bad
      BY <1>1, <3>1
    <3>3. t # 0 => F[t - 1] = G(t - 1)
      BY <3>2
    <3>4. t \in 0..n /\ F[t] # G(t)
      BY <3>1
    <3>5. F[t] = IF t = 0 THEN NoData ELSE IGDendelt(F[t - 1], t)
      BY <3>4, <1>7
    <3>6. G(t) = IF t = 0 THEN NoData ELSE IGDendelt(G(t - 1), t)
      BY <3>4, <1>4
    <3>7. QED BY <3>3, <3>4, <3>5, <3>6
  <2>2. QED BY <2>1
<1>9. parserootdesc(x) = G(n)
  BY <1>1, <1>2, <1>8
<1>10. QED BY <1>1, <1>9 DEF n, G, At2

LEMMA ParsedType ==
  ASSUME WorldOK, NEW x \in Devices
  PROVE  LET dt == parserootdesc(x)
         IN /\ dt \in DataRecords /\ Swapped(dt) \in DataRecords
            /\ dt.first \in {0, 1} /\ dt.first \in 0..MaxServices
            /\ dt.second = NoService \/ (dt.first = 1 /\ dt.second > 1 /\ dt.second \in 1..MaxServices)
<1>1. PICK n : n = description[x].services /\ n \in 0..MaxServices /\ MaxServices \in Nat
  BY DescriptionFacts
<1>2. CASE n = 0
  <2>1. parserootdesc(x) = NoData
    BY <1>1, <1>2, ParsedFacts
  <2>2. QED BY <1>1, <1>2, <2>1 DEF NoData, NoService, DataRecords, Swapped
<1>3. CASE n = 1
  <2>1. parserootdesc(x) = [first |-> 1, second |-> NoService]
    BY <1>1, <1>3, ParsedFacts
  <2>2. QED BY <1>1, <1>3, <2>1 DEF NoService, DataRecords, Swapped
<1>4. CASE n > 1
  <2>1. parserootdesc(x) = [first |-> 1, second |-> n]
    BY <1>1, <1>4, ParsedFacts
  <2>2. QED BY <1>1, <1>4, <2>1 DEF NoService, DataRecords, Swapped
<1>5. QED BY <1>1, <1>2, <1>3, <1>4

LEMMA KeptType ==
  ASSUME WorldOK, NEW x \in Devices
  PROVE  Kept(x) \subseteq 1..MaxServices /\ Kept(x) \subseteq Nat
BY ParsedType DEF Kept, NoService

(* First is the least element *)
LEMMA FirstIs ==
  ASSUME NEW S \in SUBSET Int, NEW m \in S, \A t \in S : m <= t
  PROVE  First(S) = m
<1> DEFINE Least(s) == \A t \in S : s <= t
<1>1. First(S) = CHOOSE s \in S : Least(s)
  BY DEF First
<1>2. \A s \in S : Least(s) => s = m
  OBVIOUS
<1>3. Least(m)
  OBVIOUS
<1> HIDE DEF Least
<1>4. QED BY <1>1, <1>2, <1>3

LEMMA RankFacts ==
  ASSUME WorldOK, NEW x \in Devices
  PROVE  /\ Rank(x) \in 1..4
         /\ Rank(x) = 4 <=> ~description[x].cif
         /\ description[x].cif =>
              /\ Rank(x) = 1 <=> \E s \in Kept(x) : line[<<x, s>>] = "public"
              /\ Rank(x) <= 2 <=> \E s \in Kept(x) : line[<<x, s>>] # "down"
<1>1. PICK K : K = Kept(x) /\ K \subseteq 1..MaxServices
  BY KeptType
<1>3. \A s \in K : line[<<x, s>>] \in Lines
  BY <1>1 DEF WorldOK, Services
<1>4. Having(x, {"public"}) # {} <=> \E s \in K : line[<<x, s>>] = "public"
  BY <1>1 DEF Having
<1>5. Having(x, Lines \ {"down"}) # {} <=> \E s \in K : line[<<x, s>>] # "down"
  BY <1>1, <1>3 DEF Having
<1>6. ~description[x].cif => Rank(x) = 4
  BY DEF Rank
<1>7. (description[x].cif /\ \E s \in K : line[<<x, s>>] = "public") => Rank(x) = 1
  BY <1>4 DEF Rank
<1>8. (/\ description[x].cif /\ ~\E s \in K : line[<<x, s>>] = "public"
       /\ \E s \in K : line[<<x, s>>] # "down") => Rank(x) = 2
  BY <1>4, <1>5 DEF Rank
<1>9. (description[x].cif /\ ~\E s \in K : line[<<x, s>>] # "down") => Rank(x) = 3
  <2>1. (~\E s \in K : line[<<x, s>>] # "down") => ~\E s \in K : line[<<x, s>>] = "public"
    OBVIOUS
  <2>2. QED BY <1>4, <1>5, <2>1 DEF Rank
<1>10. CASE ~description[x].cif
  BY <1>6, <1>10
<1>11. CASE description[x].cif
  <2>1. CASE \E s \in K : line[<<x, s>>] = "public"
    <3>1. \E s \in K : line[<<x, s>>] # "down"
      BY <2>1
    <3>2. QED BY <1>1, <1>7, <1>11, <2>1, <3>1
  <2>2. CASE ~\E s \in K : line[<<x, s>>] = "public"
    <3>1. CASE \E s \in K : line[<<x, s>>] # "down"
      BY <1>1, <1>8, <1>11, <2>2, <3>1
    <3>2. CASE ~\E s \in K : line[<<x, s>>] # "down"
      BY <1>1, <1>9, <1>11, <2>2, <3>2
    <3>3. QED BY <3>1, <3>2
  <2>3. QED BY <2>1, <2>2
<1>12. QED BY <1>10, <1>11

(* A device with no service that does is passed over *)
LEMMA AllUnfit ==
  ASSUME WorldOK, NEW x \in Devices, description[x].cif, NEW s \in 1..2,
         \A k \in Kept(x) : Unfit(s, x, k)
  PROVE  Rank(x) > s
<1>0. Rank(x) \in 1..4
  BY RankFacts
<1>1. CASE s = 1
  <2>1. ~\E k \in Kept(x) : line[<<x, k>>] = "public"
    BY <1>1 DEF Unfit
  <2>2. Rank(x) # 1
    BY <2>1, RankFacts
  <2>3. QED BY <1>0, <1>1, <2>2
<1>2. CASE s = 2
  <2>0. \A k \in Kept(x) : line[<<x, k>>] = "down"
    BY <1>2 DEF Unfit
  <2>1. ~\E k \in Kept(x) : line[<<x, k>>] # "down"
    BY <2>0
  <2>2. ~(Rank(x) <= 2)
    BY <2>1, RankFacts
  <2>3. QED BY <1>0, <1>2, <2>2
<1>3. QED BY <1>1, <1>2

(* The first service that does is the best one *)
LEMMA BestFits ==
  ASSUME WorldOK, NEW x \in Devices, description[x].cif, NEW s \in 1..2, NEW k \in Kept(x),
         ~Unfit(s, x, k), k > 1 => Unfit(s, x, 1), Rank(x) >= s
  PROVE  Rank(x) = s /\ BestService(x) = k
<1>1. Kept(x) \subseteq Nat /\ Rank(x) \in 1..4
  BY KeptType, RankFacts
<1>2. k \in Kept(x) /\ \A j \in Kept(x) : j = 1 \/ (j > 1 /\ (k > 1 => j = k))
  BY ParsedType DEF Kept, NoService
<1>3. \A j \in Kept(x) : line[<<x, j>>] \in Lines
  BY KeptType DEF WorldOK, Services
<1>4. CASE s = 1
  <2>1. Rank(x) = 1
    BY <1>2, <1>4, RankFacts DEF Unfit
  <2>2. BestService(x) = First(Having(x, {"public"}))
    BY <2>1 DEF BestService
  <2>3. /\ Having(x, {"public"}) \in SUBSET Int /\ k \in Having(x, {"public"})
        /\ \A t \in Having(x, {"public"}) : k <= t
    BY <1>1, <1>2, <1>4 DEF Having, Unfit
  <2>4. PICK S : S = Having(x, {"public"})
    OBVIOUS
  <2>5. S \in SUBSET Int /\ k \in S /\ \A t \in S : k <= t
    BY <2>3, <2>4
  <2>6. First(S) = k
    BY <2>5, FirstIs
  <2>7. QED BY <1>4, <2>1, <2>2, <2>4, <2>6
<1>5. CASE s = 2
  <2>1. Rank(x) = 2
    BY <1>1, <1>2, <1>5, RankFacts DEF Unfit
  <2>2. BestService(x) = First(Having(x, Lines \ {"down"}))
    BY <2>1 DEF BestService
  <2>3. /\ Having(x, Lines \ {"down"}) \in SUBSET Int /\ k \in Having(x, Lines \ {"down"})
        /\ \A t \in Having(x, Lines \ {"down"}) : k <= t
    BY <1>1, <1>2, <1>3, <1>5 DEF Having, Unfit
  <2>4. QED BY <1>5, <2>1, <2>2, <2>3, FirstIs
<1>6. QED BY <1>4, <1>5

-----------------------------------------------------------------------------
(* The order of the loops *)

LEMMA NextStopFacts ==
  ASSUME NEW c \in Calls, NEW s \in 1..2, NEW i \in Nat
  PROVE  LET S == Stops(c, s, i)
             p == NextStop(c, s, i)
         IN \/ S = {} /\ p = <<0, 0>>
            \/ p \in S /\ \A q \in S : q = p \/ Before(p, q)
<1> DEFINE S == Stops(c, s, i)
           n == Len(c.devlist)
           Best(p) == \A q \in S \ {p} : Before(p, q)
<1>1. n \in Nat
  BY LenProperties DEF Calls
<1>2. S \subseteq (s..4) \X (1..n)
  BY DEF Stops
<1>3. NextStop(c, s, i) = IF S = {} THEN <<0, 0>> ELSE CHOOSE p \in S : Best(p)
  BY DEF NextStop
<1> HIDE DEF S, n
<1>4. ASSUME S # {} PROVE \E p \in S : Best(p)
  <2> DEFINE T == {q[1] : q \in S}
  <2>1. T \in SUBSET Nat /\ T # {}
    BY <1>1, <1>2, <1>4
  <2>2. PICK t \in T : \A u \in T : t <= u
    BY <2>1, LeastElement
  <2> DEFINE K == {q[2] : q \in {r \in S : r[1] = t}}
  <2>3. K \in SUBSET Nat /\ K # {}
    BY <1>1, <1>2, <2>2
  <2>4. PICK k \in K : \A u \in K : k <= u
    BY <2>3, LeastElement
  <2>5. PICK p \in S : p[1] = t /\ p[2] = k
    BY <2>4
  <2>6. ASSUME NEW q \in S, q # p PROVE Before(p, q)
    <3>1. /\ p \in Int \X Int /\ q \in Int \X Int
          /\ p = <<p[1], p[2]>> /\ q = <<q[1], q[2]>>
      BY <1>1, <1>2
    <3>2. t <= q[1] /\ (q[1] = t => k <= q[2])
      BY <2>2, <2>4
    <3>3. QED BY <2>5, <2>6, <3>1, <3>2 DEF Before
  <2>7. QED BY <2>5, <2>6
<1> HIDE DEF Best
<1>5. CASE S = {}
  BY <1>3, <1>5 DEF S
<1>6. CASE S # {}
  <2>1. PICK p : p = NextStop(c, s, i) /\ p \in S /\ Best(p)
    BY <1>3, <1>4, <1>6
  <2>2. QED BY <2>1 DEF Best, S
<1>7. QED BY <1>5, <1>6

(* When nothing has failed, the loops go on to the next device that is      *)
(* worth a look: everything before it has been refused, and there is one.   *)
LEMMA Advance ==
  ASSUME WorldOK, NEW c \in Calls, NEW s \in 1..2, NEW i \in Nat, c.devlist # <<>>,
         \A k \in 1..Len(c.devlist) : Known(c, k), Passed(c, s, i)
  PROVE  LET p == NextStop(c, s, i)
         IN /\ p[1] \in 1..4 /\ p[2] \in 1..Len(c.devlist)
            /\ Passed(c, p[1], p[2])
            /\ p[1] <= 3 => description[c.devlist[p[2]]].cif
<1> DEFINE n == Len(c.devlist)
<1>1. c.devlist \in Seq(Devices) /\ n \in Nat /\ n >= 1
  <2>1. c.devlist \in Seq(Devices)
    BY DEF Calls
  <2>2. QED BY <2>1, LenProperties, EmptySeq
<1>2. \A k \in 1..n : c.devlist[k] \in Devices
  BY <1>1, ElementOfSeq
<1> HIDE DEF n
<1>3. \A t \in s..4, k \in 1..n :
        <<t, k>> \in Stops(c, s, i) <=> ((t = s => k >= i) /\ Candidate(c.desc, t, k))
  BY DEF Stops, n
<1>4. \A t \in 1..4, k \in 1..n : Candidate(c.desc, t, k) <=> (description[c.devlist[k]].cif \/ t >= 4)
  BY DEF Candidate, Known, n
<1>5. <<4, 1>> \in Stops(c, s, i)
  BY <1>1, <1>3, <1>4
<1>6. PICK p : p = NextStop(c, s, i)
  OBVIOUS
<1>7. p \in Stops(c, s, i) /\ \A q \in Stops(c, s, i) : q = p \/ Before(p, q)
  BY <1>5, <1>6, NextStopFacts
<1>8. p \in (s..4) \X (1..n)
  BY <1>7 DEF Stops, n
<1>9. p[1] \in s..4 /\ p[2] \in 1..n /\ p = <<p[1], p[2]>>
  BY <1>8
<1>10. p[1] <= 3 => description[c.devlist[p[2]]].cif
  BY <1>3, <1>4, <1>7, <1>9
<1>11. ASSUME NEW t \in 1..4, NEW k \in 1..n, Before(<<t, k>>, <<p[1], p[2]>>)
       PROVE  Rank(c.devlist[k]) > t
  <2>1. CASE Before(<<t, k>>, <<s, i>>)
    BY <2>1 DEF Passed, n
  <2>2. CASE ~Before(<<t, k>>, <<s, i>>)
    <3>1. t \in s..4 /\ (t = s => k >= i)
      BY <1>1, <2>2 DEF Before
    <3>2. <<t, k>> \notin Stops(c, s, i)
      <4>1. <<t, k>> # p /\ ~Before(p, <<t, k>>)
        BY <1>1, <1>9, <1>11 DEF Before
      <4>2. QED BY <1>7, <4>1
    <3>3. ~description[c.devlist[k]].cif /\ t < 4
      BY <1>3, <1>4, <3>1, <3>2
    <3>4. QED BY <1>2, <3>3, RankFacts
  <2>3. QED BY <2>1, <2>2
<1>12. Passed(c, p[1], p[2])
  BY <1>11 DEF Passed, n
<1>13. QED BY <1>6, <1>9, <1>10, <1>12 DEF n

-----------------------------------------------------------------------------
(* Calls *)

LEMMA CallFacts ==
  ASSUME NEW c \in Calls
  PROVE  /\ c.devlist \in Seq(Devices) /\ c.desc \in Seq(DescRecords) /\ Len(c.devlist) \in Nat
         /\ c.i \in Nat /\ c.wanaddr \in Addrs /\ c.quiet \in BOOLEAN /\ c.state \in 0..4
         /\ \A k \in 1..Len(c.devlist) : c.devlist[k] \in Devices
         /\ \A k \in 1..Len(c.desc) : c.desc[k] \in DescRecords
<1>1. /\ c.devlist \in Seq(Devices) /\ c.desc \in Seq(DescRecords)
      /\ c.i \in Nat /\ c.wanaddr \in Addrs /\ c.quiet \in BOOLEAN /\ c.state \in 0..4
  BY DEF Calls
<1>2. QED BY <1>1, LenProperties, ElementOfSeq

Pcs == Searching \cup {"idle", "download", "done"}

(* What a change of the call leaves alone *)
SameSearch(m, c) == m.devlist = c.devlist /\ m.desc = c.desc /\ m.quiet = c.quiet

(* The loops stop at a device *)
Moved(c, at, s, i) == [c EXCEPT !.pc = at, !.state = s, !.i = i]

IsMoved(m, c, at, s, i) ==
  m \in Calls /\ m.pc = at /\ m.state = s /\ m.i = i /\ SameSearch(m, c)

LEMMA MovedCall ==
  ASSUME NEW c \in Calls, NEW at \in Pcs, NEW s \in 0..4, NEW i \in Nat
  PROVE  IsMoved(Moved(c, at, s, i), c, at, s, i)
<1>1. PICK a : a = [c EXCEPT !.pc = at]
  OBVIOUS
<1>2. a \in Calls /\ a.devlist = c.devlist /\ a.desc = c.desc /\ a.quiet = c.quiet /\ a.pc = at
  BY <1>1 DEF Calls, Pcs
<1>3. PICK m : m = [a EXCEPT !.state = s, !.i = i]
  OBVIOUS
<1>4. IsMoved(m, c, at, s, i)
  BY <1>2, <1>3 DEF Calls, IsMoved, SameSearch
<1>5. m = Moved(c, at, s, i)
  BY <1>1, <1>3 DEF Moved
<1>6. QED BY <1>4, <1>5

(* A result *)
IsReturned(m, c, s, i) ==
  /\ IsMoved(m, c, "done", s, i) /\ m.result = s
  /\ s > 0 => m.wanaddr = c.desc[i].wanaddr

LEMMA ReturnedCall ==
  ASSUME NEW c \in Calls, NEW s \in 0..4, NEW i \in Nat, s > 0 => i \in 1..Len(c.desc)
  PROVE  IsReturned(Returned(c, s, i), c, s, i)
<1>0. s \in -1..4 /\ "done" \in Pcs
  BY DEF Pcs
<1>1. PICK w : w = IF s > 0 THEN c.desc[i].wanaddr ELSE c.wanaddr
  OBVIOUS
<1>2. w \in Addrs
  BY <1>1, CallFacts DEF DescRecords
<1>3. PICK a : a = Moved(c, "done", s, i)
  OBVIOUS
<1>4. IsMoved(a, c, "done", s, i)
  BY <1>0, <1>3, MovedCall
<1>5. PICK m : m = [a EXCEPT !.result = s, !.wanaddr = w]
  OBVIOUS
<1>6. m = Returned(c, s, i)
  <2>1. m = [c EXCEPT !.pc = "done", !.state = s, !.i = i, !.result = s, !.wanaddr = w]
    BY <1>3, <1>5 DEF Moved
  <2>2. QED BY <1>1, <2>1 DEF Returned
<1>7. m \in Calls
  BY <1>0, <1>2, <1>4, <1>5 DEF Calls, IsMoved
<1>8. IsMoved(m, c, "done", s, i) /\ m.result = s /\ m.wanaddr = w
  BY <1>4, <1>5, <1>7 DEF Calls, IsMoved, SameSearch
<1>9. IsReturned(m, c, s, i)
  BY <1>1, <1>8 DEF IsReturned
<1>10. QED BY <1>6, <1>9

(* Everything before device i of round s was refused: no device has a       *)
(* better rank than s, and those before i not even s.                       *)
LEMMA PassedRank ==
  ASSUME WorldOK, NEW c \in Calls, NEW s \in 1..4, NEW i \in 1..Len(c.devlist), Passed(c, s, i)
  PROVE  /\ \A k \in 1..Len(c.devlist) : Rank(c.devlist[k]) \in 1..4 /\ Rank(c.devlist[k]) >= s
         /\ \A k \in 1..Len(c.devlist) : k < i => Rank(c.devlist[k]) > s
<1>1. \A k \in 1..Len(c.devlist) : Rank(c.devlist[k]) \in 1..4
  BY CallFacts, RankFacts
<1>2. ASSUME NEW k \in 1..Len(c.devlist) PROVE Rank(c.devlist[k]) >= s
  <2>1. CASE s = 1
    BY <1>1, <2>1
  <2>2. CASE s # 1
    <3>1. s - 1 \in 1..4 /\ Before(<<s - 1, k>>, <<s, i>>)
      BY <2>2 DEF Before
    <3>2. Rank(c.devlist[k]) > s - 1
      BY <3>1 DEF Passed
    <3>3. QED BY <1>1, <3>2
  <2>3. QED BY <2>1, <2>2
<1>3. ASSUME NEW k \in 1..Len(c.devlist), k < i PROVE Rank(c.devlist[k]) > s
  <2>1. Before(<<s, k>>, <<s, i>>)
    BY <1>3 DEF Before
  <2>2. QED BY <2>1 DEF Passed
<1>4. QED BY <1>1, <1>2, <1>3

(* The invariant depends on description and line only through their values *)
LEMMA FrameKeeps ==
  ASSUME UNCHANGED <<description, line>>,
         NEW c, NEW u, NEW dt, NEW lv, NEW tl, WorldOK, Good(c, u, dt, lv, tl)
  PROVE  WorldOK' /\ Good(c, u, dt, lv, tl)'
<1>1. \A x : parserootdesc(x)' = parserootdesc(x)
  BY DEF parserootdesc
<1>11. \A x : Kept(x)' = Kept(x)
  BY <1>1 DEF Kept
<1>12. \A x, ls : Having(x, ls)' = Having(x, ls)
  BY <1>11 DEF Having
<1>2. \A x : Rank(x)' = Rank(x)
  BY <1>12 DEF Rank
<1>3. \A x : BestService(x)' = BestService(x)
  BY <1>1, <1>2, <1>12 DEF BestService
<1>4. OnService(c, dt)'
  BY <1>1 DEF Good, OnService
<1>5. \A s, i : Passed(c, s, i) => Passed(c, s, i)'
  BY <1>2 DEF Passed
<1>6. \A k : Known(c, k) => Known(c, k)'
  BY DEF Known
<1>7. \A s, x, k : Unfit(s, x, k) => Unfit(s, x, k)'
  BY DEF Unfit
<1>8. Progress(c, dt)'
  BY <1>2, <1>5, <1>6, <1>7 DEF Good, Progress
<1>9. Chosen(c, u, dt)'
  BY <1>2, <1>3, <1>5 DEF Good, Chosen
<1>10. WorldOK'
  BY DEF WorldOK
<1>13. QED BY <1>4, <1>8, <1>9, <1>10 DEF Good

LEMMA UrlsSet ==
  ASSUME NEW x \in Devices, NEW s
  PROVE  [dev |-> x, service |-> s] # NoUrls
<1>1. x # "none"
  BY ValidIGDAssumption
<1>2. QED BY <1>1 DEF NoUrls

(* The loops go on *)
LEMMA ContinueGood ==
  ASSUME WorldOK, NEW c \in Calls, NEW s \in 1..2, NEW i \in Nat, c.devlist # <<>>,
         Len(c.desc) = Len(c.devlist),
         c.quiet => (\A k \in 1..Len(c.devlist) : Known(c, k)) /\ Passed(c, s, i),
         NEW tl \in [Services -> Answers], data \in DataRecords, live = 0, urls = NoUrls,
         Continue(c, s, i),
         NEW c2, c2 = call', NEW u2, u2 = urls', NEW dt2, dt2 = data', NEW lv2, lv2 = live'
  PROVE  Good(c2, u2, dt2, lv2, tl)
<1>1. PICK p : p = NextStop(c, s, i)
  OBVIOUS
<1>2. PICK n \in Nat : n = Len(c.devlist)
  BY CallFacts
<1>3. PICK x : x = c.devlist[p[2]]
  OBVIOUS
<1>4. p = <<0, 0>> \/ (p[1] \in 1..4 /\ p[2] \in 1..n)
  <2>1. p = <<0, 0>> \/ p \in Stops(c, s, i)
    BY <1>1, NextStopFacts
  <2>2. p \in Stops(c, s, i) => p \in (s..4) \X (1..n)
    BY <1>2 DEF Stops
  <2>3. QED BY <2>1, <2>2
<1>5. c.quiet => /\ p[1] \in 1..4 /\ p[2] \in 1..n
                 /\ Passed(c, p[1], p[2])
                 /\ p[1] <= 3 => description[x].cif
  BY <1>1, <1>2, <1>3, Advance
<1>6. CASE /\ p[1] = 0 /\ c2 = Returned(c, 0, 0) /\ u2 = urls /\ dt2 = data /\ lv2 = live
  <2>2. c2 \in Calls /\ c2.pc = "done" /\ c2.result = 0 /\ c2.quiet = c.quiet
    <3>1. 0 \in 0..4 /\ 0 \in Nat /\ ~(0 > 0)
      OBVIOUS
    <3>2. IsReturned(c2, c, 0, 0)
      BY <1>6, <3>1, ReturnedCall
    <3>3. QED BY <3>2 DEF IsReturned, IsMoved, SameSearch
  <2>3. ~c.quiet
    BY <1>5, <1>6
  <2>4. QED
    BY <1>6, <2>2, <2>3
    DEF Good, Typed, Placed, OnService, Held, OneService, Progress, Chosen, Searching
<1>7. CASE /\ p[1] \in 1..2 /\ c2 = [c EXCEPT !.pc = "status", !.state = p[1], !.i = p[2]]
           /\ u2 = [dev |-> x, service |-> parserootdesc(x).first] /\ dt2 = parserootdesc(x)
           /\ lv2 = live + 1
  <2>1. p[2] \in 1..n
    BY <1>4, <1>7
  <2>2. /\ c2 \in Calls /\ c2.pc = "status" /\ c2.state = p[1] /\ c2.i = p[2]
        /\ c2.devlist = c.devlist /\ c2.desc = c.desc /\ c2.quiet = c.quiet
    <3>1. "status" \in Pcs /\ p[1] \in 0..4 /\ p[2] \in Nat
      BY <1>2, <1>7, <2>1 DEF Pcs, Searching
    <3>2. c2 = Moved(c, "status", p[1], p[2])
      BY <1>7 DEF Moved
    <3>3. IsMoved(c2, c, "status", p[1], p[2])
      BY <3>1, <3>2, MovedCall
    <3>4. QED BY <3>3 DEF IsMoved, SameSearch
  <2>3. x \in Devices /\ At(c2) = x
    BY <1>2, <1>3, <2>1, <2>2, CallFacts DEF At
  <2>4. dt2 \in DataRecords /\ ~(dt2.first > 1)
    <3>1. dt2 \in DataRecords /\ dt2.first \in {0, 1}
      BY <1>7, <2>3, ParsedType
    <3>2. QED BY <3>1
  <2>5. u2 # NoUrls
    BY <1>7, <2>3, UrlsSet
  <2>6. Progress(c2, dt2)
    <3>1. c.quiet => \A k \in 1..Len(c2.devlist) : Known(c2, k)
      BY <2>2 DEF Known
    <3>2. c.quiet => Passed(c2, c2.state, c2.i) /\ description[At(c2)].cif
      BY <1>5, <1>7, <2>2, <2>3, SMTT(30) DEF Passed
    <3>3. QED BY <2>2, <2>4, <3>1, <3>2 DEF Progress
  <2>7. QED
    BY <1>2, <1>7, <2>1, <2>2, <2>3, <2>4, <2>5, <2>6
    DEF Good, Typed, Placed, OnService, Held, OneService, Chosen
<1>8. CASE /\ p[1] \in 3..4 /\ c2 = Returned(c, p[1], p[2])
           /\ u2 = [dev |-> x, service |-> parserootdesc(x).first] /\ dt2 = parserootdesc(x)
           /\ lv2 = live + 1
  <2>1. p[2] \in 1..n
    BY <1>4, <1>8
  <2>5. /\ c2 \in Calls /\ c2.pc = "done" /\ c2.state = p[1] /\ c2.i = p[2] /\ c2.result = p[1]
        /\ c2.devlist = c.devlist /\ c2.quiet = c.quiet
    <3>1. p[1] \in 0..4 /\ p[2] \in Nat /\ p[2] \in 1..Len(c.desc)
      BY <1>2, <1>8, <2>1
    <3>2. IsReturned(c2, c, p[1], p[2])
      BY <1>8, <3>1, ReturnedCall
    <3>3. QED BY <3>2 DEF IsReturned, IsMoved, SameSearch
  <2>6. x \in Devices /\ At(c2) = x
    BY <1>2, <1>3, <2>1, <2>5, CallFacts DEF At
  <2>7. dt2 \in DataRecords
    BY <1>8, <2>6, ParsedType
  <2>8. u2 # NoUrls
    BY <1>8, <2>6, UrlsSet
  <2>9. ASSUME c.quiet
        PROVE  Passed(c2, p[1], p[2]) /\ Rank(x) = p[1] /\ BestService(x) = parserootdesc(x).first
    <3>1. Passed(c, p[1], p[2]) /\ (p[1] <= 3 => description[x].cif)
      BY <1>5, <2>9
    <3>2. Rank(x) \in 1..4 /\ Rank(x) >= p[1]
      BY <1>2, <1>3, <1>8, <2>1, <3>1, PassedRank
    <3>3. p[1] = 3 => Rank(x) # 4
      BY <2>6, <3>1, RankFacts
    <3>4. Rank(x) = p[1]
      BY <1>8, <3>2, <3>3
    <3>5. BestService(x) = parserootdesc(x).first
      BY <1>8, <3>4 DEF BestService
    <3>6. QED BY <2>5, <3>1, <3>4, <3>5 DEF Passed
  <2>10. Chosen(c2, u2, dt2)
    BY <1>2, <1>8, <2>1, <2>5, <2>6, <2>9 DEF Chosen
  <2>11. QED
    BY <1>8, <2>5, <2>7, <2>8, <2>10
    DEF Good, Typed, Placed, OnService, Held, OneService, Progress, Searching
<1>9. QED BY <1>1, <1>3, <1>6, <1>7, <1>8 DEF Continue, GetUPNPUrls

(* A question to the device goes wrong, or is answered in a way that does   *)
(* not do: the second service, or the next device.                          *)
LEMMA TryNextGood ==
  ASSUME WorldOK, NEW c \in Calls, NEW tl \in [Services -> Answers], NEW dt \in DataRecords,
         c.i \in 1..Len(c.devlist), c.state \in 1..2, Len(c.desc) = Len(c.devlist),
         dt = parserootdesc(At(c)) \/ (dt = Swapped(parserootdesc(At(c))) /\ dt.first > 1),
         c.quiet => /\ \A k \in 1..Len(c.devlist) : Known(c, k)
                    /\ Passed(c, c.state, c.i) /\ description[At(c)].cif
                    /\ dt.first > 1 => Unfit(c.state, At(c), 1)
                    /\ dt.first # NoService => Unfit(c.state, At(c), dt.first),
         data = dt, live = 1, TryNext(c),
         NEW c2, c2 = call', NEW u2, u2 = urls', NEW dt2, dt2 = data', NEW lv2, lv2 = live'
  PROVE  Good(c2, u2, dt2, lv2, tl)
<1>1. PICK x : x = At(c)
  OBVIOUS
<1>2. x \in Devices
  BY <1>1, CallFacts DEF At
<1>3. PICK pd : pd = parserootdesc(x)
  OBVIOUS
<1>4. Kept(x) = {pd.first, pd.second} \ {NoService}
  BY <1>3 DEF Kept
<1>5. /\ pd \in DataRecords /\ Swapped(pd) \in DataRecords /\ pd.first \in {0, 1}
      /\ pd.second = NoService \/ (pd.first = 1 /\ pd.second > 1)
  BY <1>2, <1>3, ParsedType
<1>6. \A k \in Kept(x) : k = pd.first \/ k = pd.second
  BY <1>4
<1>7. dt = pd \/ (dt = Swapped(pd) /\ dt.first > 1)
  BY <1>1, <1>3
<1>8. Swapped(pd).first = pd.second /\ Swapped(pd).second = pd.first
  BY DEF Swapped
<1>9. u2 = NoUrls /\ lv2 = 0
  BY DEF TryNext, FreeUPNPUrls
<1>10. CASE dt.first = 1 /\ dt.second # NoService
  <2>1. c2 = [c EXCEPT !.pc = "second"] /\ dt2 = Swapped(dt)
    BY <1>10 DEF TryNext, FreeUPNPUrls
  <2>2. /\ c2 \in Calls /\ c2.pc = "second" /\ c2.i = c.i /\ c2.state = c.state
        /\ c2.devlist = c.devlist /\ c2.desc = c.desc /\ c2.quiet = c.quiet
    BY <2>1 DEF Calls, Searching
  <2>3. dt = pd
    BY <1>7, <1>10
  <2>4. dt2 = Swapped(pd) /\ dt2.first > 1 /\ dt2 \in DataRecords
    BY <1>5, <1>8, <1>10, <2>1, <2>3 DEF NoService
  <2>5. At(c2) = x
    BY <1>1, <2>2 DEF At
  <2>6. Progress(c2, dt2)
    <3>1. c.quiet => \A k \in 1..Len(c2.devlist) : Known(c2, k)
      BY <2>2 DEF Known
    <3>2. c.quiet => Passed(c2, c2.state, c2.i) /\ description[At(c2)].cif
      BY <1>1, <2>2, <2>5 DEF Passed
    <3>3. c.quiet => Unfit(c2.state, At(c2), 1)
      BY <1>1, <1>10, <2>2, <2>5 DEF NoService
    <3>4. QED BY <2>2, <3>1, <3>2, <3>3 DEF Progress
  <2>7. QED
    BY <1>3, <1>9, <2>2, <2>4, <2>5, <2>6
    DEF Good, Typed, Placed, OnService, Held, OneService, Chosen, Searching
<1>11. CASE ~(dt.first = 1 /\ dt.second # NoService)
  <2>1. c2 = [c EXCEPT !.pc = "next"] /\ dt2 = NoData
    BY <1>11 DEF TryNext, FreeUPNPUrls
  <2>2. /\ c2 \in Calls /\ c2.pc = "next" /\ c2.i = c.i /\ c2.state = c.state
        /\ c2.devlist = c.devlist /\ c2.desc = c.desc /\ c2.quiet = c.quiet
    BY <2>1 DEF Calls, Searching
  <2>3. At(c2) = x
    BY <1>1, <2>2 DEF At
  <2>4. dt2 \in DataRecords
    BY <2>1 DEF NoData, NoService, DataRecords
  <2>5. ASSUME c.quiet, NEW k \in Kept(x) PROVE Unfit(c.state, x, k)
    <3>1. CASE dt = pd
      <4>1. k = dt.first /\ dt.first # NoService
        BY <1>4, <1>5, <1>6, <1>11, <2>5, <3>1 DEF NoService
      <4>2. QED BY <1>1, <2>5, <4>1
    <3>2. CASE dt = Swapped(pd) /\ dt.first > 1
      <4>1. dt.first # NoService /\ (k = 1 \/ k = dt.first)
        BY <1>4, <1>5, <1>6, <1>8, <3>2 DEF NoService
      <4>2. QED BY <1>1, <2>5, <3>2, <4>1
    <3>3. QED BY <1>7, <3>1, <3>2
  <2>6. c.quiet => Rank(x) > c.state
    BY <1>1, <1>2, <2>5, AllUnfit
  <2>7. Progress(c2, dt2)
    <3>1. c.quiet => \A k \in 1..Len(c2.devlist) : Known(c2, k)
      BY <2>2 DEF Known
    <3>2. c.quiet => Passed(c2, c2.state, c2.i) /\ description[At(c2)].cif
      BY <1>1, <2>2, <2>3 DEF Passed
    <3>3. QED BY <2>2, <2>3, <2>6, <3>1, <3>2 DEF Progress
  <2>8. QED
    BY <1>9, <2>2, <2>4, <2>7
    DEF Good, Typed, Placed, OnService, Held, OneService, Chosen, Searching
<1>12. QED BY <1>10, <1>11

-----------------------------------------------------------------------------
(* The steps.  Each shows that what the step leaves is good, for the devices *)
(* as they are.                                                              *)

(* The state of a call during the two questions *)
LEMMA AskingFacts ==
  ASSUME ValidIGDInv, call.pc \in {"status", "address"}
  PROVE  /\ call \in Calls /\ data \in DataRecords /\ told \in [Services -> Answers]
         /\ Len(call.desc) = Len(call.devlist) /\ call.i \in 1..Len(call.devlist)
         /\ call.state \in 1..2 /\ Dev \in Devices /\ Dev = At(call)
         /\ \/ data = parserootdesc(Dev)
            \/ data = Swapped(parserootdesc(Dev)) /\ data.first > 1
         /\ data.first \in Nat /\ (data.first # NoService => data.first \in Kept(Dev))
         /\ live = 1 /\ urls = [dev |-> Dev, service |-> data.first]
         /\ data.first # NoService => Asked \in Services /\ line[Asked] \in Lines
<1>1. /\ call \in Calls /\ data \in DataRecords /\ told \in [Services -> Answers]
      /\ Len(call.desc) = Len(call.devlist) /\ call.i \in 1..Len(call.devlist)
      /\ call.state \in 1..2
  BY DEF ValidIGDInv, Good, Typed, Placed, Searching
<1>2. Dev \in Devices /\ Dev = At(call)
  BY <1>1, CallFacts DEF Dev, At
<1>3. PICK pd : pd = parserootdesc(Dev)
  OBVIOUS
<1>4. data = pd \/ (data = Swapped(pd) /\ data.first > 1)
  BY <1>2, <1>3 DEF ValidIGDInv, Good, OnService
<1>5. live = 1 /\ urls = [dev |-> Dev, service |-> data.first]
  BY <1>2 DEF ValidIGDInv, Good, Held
<1>6. Kept(Dev) = {pd.first, pd.second} \ {NoService} /\ Kept(Dev) \subseteq 1..MaxServices
  BY <1>2, <1>3, KeptType DEF ValidIGDInv, Kept
<1>7. pd \in DataRecords
  BY <1>2, <1>3, ParsedType DEF ValidIGDInv
<1>8. Swapped(pd).first = pd.second
  BY DEF Swapped
<1>9. data.first \in Nat /\ (data.first # NoService => data.first \in Kept(Dev))
  BY <1>4, <1>6, <1>7, <1>8 DEF DataRecords, NoService
<1>10. data.first # NoService => Asked \in Services /\ line[Asked] \in Lines
  BY <1>2, <1>6, <1>9 DEF NoService, Asked, Services, ValidIGDInv, WorldOK
<1>11. QED BY <1>1, <1>2, <1>3, <1>4, <1>5, <1>6, <1>9, <1>10

(* A call that differs in quiet only *)
SameExceptQuiet(m, c) ==
  /\ m.pc = c.pc /\ m.devlist = c.devlist /\ m.desc = c.desc /\ m.state = c.state
  /\ m.i = c.i /\ m.result = c.result /\ m.wanaddr = c.wanaddr

(* What a step leaves is good: the invariant holds after it *)
LEMMA Settles ==
  ASSUME WorldOK, UNCHANGED <<description, line>>,
         NEW c, c = call', NEW u, u = urls', NEW dt, dt = data', NEW lv, lv = live',
         NEW tl, tl = told', Good(c, u, dt, lv, tl)
  PROVE  ValidIGDInv'
<1>1. WorldOK' /\ Good(c, u, dt, lv, tl)'
  BY FrameKeeps
<1>2. /\ Typed(call, data, told)' /\ Placed(call)' /\ OnService(call, data)'
      /\ Held(call, urls, data, live)' /\ OneService(call, urls, data, told)'
  BY <1>1 DEF Good, Typed, Placed, OnService, Held, OneService, At
<1>3. Progress(call, data)'
  BY <1>1 DEF Good, Progress, At, Known, Passed, Unfit
<1>4. Chosen(call, urls, data)'
  BY <1>1 DEF Good, Chosen, At, Passed
<1>5. QED BY <1>1, <1>2, <1>3, <1>4 DEF ValidIGDInv, Good

(* UPNPIGD_IsConnected() *)
LEMMA StatusStep ==
  ASSUME ValidIGDInv, NEW answered \in BOOLEAN, UPNPIGD_IsConnected(answered)
  PROVE  ValidIGDInv'
<1> DEFINE x == Dev
           up == answered /\ data.first # NoService /\ line[Asked] # "down"
           c == [call EXCEPT !.quiet = @ /\ answered]
<1>0. WorldOK /\ Good(call, urls, data, live, told)
  BY DEF ValidIGDInv
<1>1. call.pc = "status" /\ UNCHANGED <<description, line>>
  BY DEF UPNPIGD_IsConnected, Frame
<1>2. /\ call \in Calls /\ data \in DataRecords /\ told \in [Services -> Answers]
      /\ Len(call.desc) = Len(call.devlist) /\ call.i \in 1..Len(call.devlist)
      /\ call.state \in 1..2 /\ Dev \in Devices /\ Dev = At(call)
      /\ \/ data = parserootdesc(Dev)
         \/ data = Swapped(parserootdesc(Dev)) /\ data.first > 1
      /\ data.first \in Nat /\ (data.first # NoService => data.first \in Kept(Dev))
      /\ live = 1 /\ urls = [dev |-> Dev, service |-> data.first]
      /\ data.first # NoService => Asked \in Services /\ line[Asked] \in Lines
  BY <1>1, AskingFacts
<1>3. PICK tl : tl = told'
  OBVIOUS
<1>4. /\ tl \in [Services -> Answers]
      /\ data.first # NoService => tl[Asked].connected = up
  <2>1. tl = IF data.first = NoService THEN told ELSE [told EXCEPT ![Asked].connected = up]
    BY <1>3 DEF UPNPIGD_IsConnected
  <2>2. up \in BOOLEAN
    OBVIOUS
  <2> HIDE DEF up
  <2>3. CASE data.first = NoService
    BY <1>2, <2>1, <2>3
  <2>4. CASE data.first # NoService
    BY <1>2, <2>1, <2>2, <2>4 DEF Answers
  <2>5. QED BY <2>3, <2>4
<1>5. PICK b : b = c
  OBVIOUS
<1>6. /\ b \in Calls /\ b.pc = "status" /\ SameExceptQuiet(b, call)
      /\ b.quiet = (call.quiet /\ answered)
  BY <1>1, <1>2, <1>5 DEF Calls, SameExceptQuiet
<1>7. At(b) = Dev
  BY <1>2, <1>6 DEF At, SameExceptQuiet
<1>8. b.quiet => /\ \A k \in 1..Len(b.devlist) : Known(b, k)
                 /\ Passed(b, b.state, b.i) /\ description[Dev].cif
                 /\ data.first > 1 => Unfit(b.state, Dev, 1)
  <2>1. ASSUME b.quiet
        PROVE  /\ \A k \in 1..Len(call.devlist) : Known(call, k)
               /\ Passed(call, call.state, call.i) /\ description[Dev].cif
               /\ data.first > 1 => Unfit(call.state, Dev, 1)
    BY <1>0, <1>1, <1>2, <1>6, <2>1 DEF Good, Progress, Searching
  <2>2. QED BY <1>6, <2>1 DEF SameExceptQuiet, Known, Passed
<1>9. PICK c2, u2, dt2, lv2 : c2 = call' /\ u2 = urls' /\ dt2 = data' /\ lv2 = live'
  OBVIOUS
<1>10. CASE up
  <2>1. u2 = urls /\ dt2 = data /\ lv2 = live
    BY <1>9, <1>10 DEF UPNPIGD_IsConnected
  <2>2. data.first \in Kept(Dev) /\ line[<<Dev, data.first>>] # "down" /\ answered
    BY <1>2, <1>10 DEF NoService, Asked
  <2>3. CASE call.state = 2
    <3>1. c2 = Returned(b, 2, call.i)
      BY <1>5, <1>9, <1>10, <2>3 DEF UPNPIGD_IsConnected
    <3>2. IsReturned(c2, b, 2, call.i)
      <4>1. 2 \in 0..4 /\ call.i \in Nat /\ call.i \in 1..Len(b.desc)
        BY <1>2, <1>6 DEF SameExceptQuiet
      <4>2. QED BY <1>6, <3>1, <4>1, ReturnedCall
    <3>3. /\ c2 \in Calls /\ c2.pc = "done" /\ c2.state = 2 /\ c2.i = call.i /\ c2.result = 2
          /\ c2.devlist = call.devlist /\ c2.quiet = b.quiet
      BY <1>6, <3>2 DEF IsReturned, IsMoved, SameSearch, SameExceptQuiet
    <3>4. At(c2) = Dev
      BY <1>2, <3>3 DEF At
    <3>5. ASSUME b.quiet
          PROVE  Passed(c2, 2, c2.i) /\ Rank(Dev) = 2 /\ BestService(Dev) = data.first
      <4>1. Passed(call, 2, call.i) /\ Passed(c2, 2, c2.i) /\ description[Dev].cif
        BY <1>6, <1>8, <2>3, <3>3, <3>5 DEF Passed, SameExceptQuiet
      <4>2. Rank(Dev) >= 2
        <5>1. \A k \in 1..Len(call.devlist) : Rank(call.devlist[k]) >= 2
          BY <1>0, <1>2, <4>1, PassedRank
        <5>2. QED BY <1>2, <5>1 DEF At
      <4>3. ~Unfit(2, Dev, data.first) /\ (data.first > 1 => Unfit(2, Dev, 1))
        BY <1>6, <1>8, <2>2, <2>3, <3>5 DEF Unfit, SameExceptQuiet
      <4>4. PICK k \in Kept(Dev) : k = data.first
        BY <2>2
      <4>5. Rank(Dev) = 2 /\ BestService(Dev) = k
        BY <1>0, <1>2, <4>1, <4>2, <4>3, <4>4, BestFits
      <4>6. QED BY <4>1, <4>4, <4>5
    <3>6. Chosen(c2, u2, dt2)
      BY <1>2, <2>1, <3>3, <3>4, <3>5 DEF Chosen
    <3>7. u2 # NoUrls
      BY <1>2, <2>1, UrlsSet
    <3>8. Good(c2, u2, dt2, lv2, tl)
      BY <1>2, <1>4, <2>1, <3>3, <3>6, <3>7
      DEF Good, Typed, Placed, OnService, Held, OneService, Progress, Searching
    <3>9. QED BY <1>0, <1>1, <1>3, <1>9, <3>8, Settles
  <2>4. CASE call.state = 1
    <3>1. c2 = [b EXCEPT !.pc = "address"]
      BY <1>5, <1>9, <1>10, <2>4 DEF UPNPIGD_IsConnected
    <3>2. /\ c2 \in Calls /\ c2.pc = "address" /\ c2.state = 1 /\ c2.i = call.i
          /\ c2.devlist = call.devlist /\ c2.desc = call.desc /\ c2.quiet = b.quiet
      BY <1>6, <2>4, <3>1 DEF Calls, Searching, SameExceptQuiet
    <3>3. At(c2) = Dev
      BY <1>2, <3>2 DEF At
    <3>4. Progress(c2, dt2)
      <4>1. b.quiet => \A k \in 1..Len(c2.devlist) : Known(c2, k)
        BY <1>6, <1>8, <3>2 DEF Known, SameExceptQuiet
      <4>2. b.quiet => Passed(c2, c2.state, c2.i) /\ description[At(c2)].cif
        BY <1>6, <1>8, <2>4, <3>2, <3>3 DEF Passed, SameExceptQuiet
      <4>3. b.quiet => (dt2.first > 1 => Unfit(c2.state, At(c2), 1))
        BY <1>6, <1>8, <2>1, <2>4, <3>2, <3>3 DEF SameExceptQuiet
      <4>4. QED BY <2>1, <2>2, <3>2, <3>3, <4>1, <4>2, <4>3 DEF Progress
    <3>5. tl[<<At(c2), dt2.first>>].connected /\ dt2.first # NoService
      BY <1>4, <1>10, <2>1, <2>2, <3>3 DEF Asked, NoService
    <3>6. u2 # NoUrls
      BY <1>2, <2>1, UrlsSet
    <3>7. OnService(c2, dt2)
      BY <1>2, <2>1, <3>2, <3>3 DEF OnService
    <3>8. Good(c2, u2, dt2, lv2, tl)
      BY <1>2, <1>4, <2>1, <3>2, <3>3, <3>4, <3>5, <3>6, <3>7
      DEF Good, Typed, Placed, Held, OneService, Chosen
    <3>9. QED BY <1>0, <1>1, <1>3, <1>9, <3>8, Settles
  <2>5. QED BY <1>2, <2>3, <2>4
<1>11. CASE ~up
  <2>1. TryNext(b)
    BY <1>5, <1>11 DEF UPNPIGD_IsConnected
  <2>2. b.quiet /\ data.first # NoService => Unfit(b.state, Dev, data.first)
    BY <1>2, <1>6, <1>11 DEF Unfit, Asked
  <2>3. /\ b.i \in 1..Len(b.devlist) /\ b.state \in 1..2 /\ Len(b.desc) = Len(b.devlist)
    BY <1>2, <1>6 DEF SameExceptQuiet
  <2>4. PICK dt : dt = data
    OBVIOUS
  <2>5. Good(c2, u2, dt2, lv2, tl)
    BY <1>0, <1>2, <1>4, <1>6, <1>7, <1>8, <1>9, <2>1, <2>2, <2>3, <2>4, TryNextGood
  <2>6. QED BY <1>0, <1>1, <1>3, <1>9, <2>5, Settles
<1>12. QED BY <1>10, <1>11

(* What the loops look at in a description *)
SameDescription(r, t) == r.xml = t.xml /\ r.is_igd = t.is_igd

(* UPNP_GetExternalIPAddress() *)
LEMMA AddressStep ==
  ASSUME ValidIGDInv, NEW answered \in BOOLEAN, GetExternalIPAddress(answered)
  PROVE  ValidIGDInv'
<1> DEFINE addr == IF line[Asked] \in {"private", "public"} THEN line[Asked] ELSE "none"
           c == IF answered THEN [call EXCEPT !.desc[call.i].wanaddr = addr]
                ELSE [call EXCEPT !.quiet = FALSE]
<1>0. WorldOK /\ Good(call, urls, data, live, told)
  BY DEF ValidIGDInv
<1>1. call.pc = "address" /\ UNCHANGED <<description, line>>
  BY DEF GetExternalIPAddress, Frame
<1>2. /\ call \in Calls /\ data \in DataRecords /\ told \in [Services -> Answers]
      /\ Len(call.desc) = Len(call.devlist) /\ call.i \in 1..Len(call.devlist)
      /\ call.state \in 1..2 /\ Dev \in Devices /\ Dev = At(call)
      /\ \/ data = parserootdesc(Dev)
         \/ data = Swapped(parserootdesc(Dev)) /\ data.first > 1
      /\ data.first \in Nat /\ (data.first # NoService => data.first \in Kept(Dev))
      /\ live = 1 /\ urls = [dev |-> Dev, service |-> data.first]
      /\ data.first # NoService => Asked \in Services /\ line[Asked] \in Lines
  BY <1>1, AskingFacts
<1>3. call.state = 1 /\ data.first \in Kept(Dev) /\ told[Asked].connected /\ Asked \in Services
  BY <1>0, <1>1, <1>2 DEF Good, OneService, Asked, NoService
<1>4. PICK a \in Addrs : a = addr
  BY DEF Addrs
<1>5. a = "public" <=> line[<<Dev, data.first>>] = "public"
  BY <1>4 DEF Asked
<1>6. PICK tl : tl = told'
  OBVIOUS
<1>7. /\ tl \in [Services -> Answers]
      /\ answered => tl[Asked] = [connected |-> TRUE, addr |-> a]
  <2>1. tl = IF answered THEN [told EXCEPT ![Asked].addr = a] ELSE told
    BY <1>4, <1>6 DEF GetExternalIPAddress
  <2>2. QED BY <1>2, <1>3, <2>1 DEF Answers
<1>8. PICK b : b = c
  OBVIOUS
<1>9. /\ b \in Calls /\ b.pc = "address" /\ b.devlist = call.devlist /\ b.state = 1
      /\ b.i = call.i /\ b.quiet = (call.quiet /\ answered) /\ Len(b.desc) = Len(call.desc)
      /\ \A k \in 1..Len(call.desc) : SameDescription(b.desc[k], call.desc[k])
      /\ answered => b.desc[call.i].wanaddr = a
  <2>1. CASE answered
    <3>1. PICK e : e = [call.desc EXCEPT ![call.i].wanaddr = a]
      OBVIOUS
    <3>2. call.desc \in Seq(DescRecords) /\ call.i \in 1..Len(call.desc)
          /\ call.desc[call.i] \in DescRecords
      BY <1>2, CallFacts
    <3>3. PICK r : r = [call.desc[call.i] EXCEPT !.wanaddr = a]
      OBVIOUS
    <3>4. r \in DescRecords /\ SameDescription(r, call.desc[call.i]) /\ r.wanaddr = a
      BY <3>2, <3>3 DEF DescRecords, SameDescription
    <3>5. e = [call.desc EXCEPT ![call.i] = r]
      BY <3>1, <3>3
    <3>6. /\ e \in Seq(DescRecords) /\ Len(e) = Len(call.desc) /\ e[call.i] = r
          /\ \A k \in 1..Len(call.desc) : k # call.i => e[k] = call.desc[k]
      BY <3>2, <3>4, <3>5, ExceptSeq
    <3>7. b = [call EXCEPT !.desc = e]
      BY <1>4, <1>8, <2>1, <3>1
    <3>8. /\ b \in Calls /\ b.pc = "address" /\ b.devlist = call.devlist /\ b.state = 1
          /\ b.i = call.i /\ b.quiet = call.quiet /\ b.desc = e
      BY <1>1, <1>2, <1>3, <3>6, <3>7 DEF Calls
    <3>9. ASSUME NEW k \in 1..Len(call.desc) PROVE SameDescription(e[k], call.desc[k])
      BY <3>4, <3>6 DEF SameDescription
    <3>10. call.quiet \in BOOLEAN
      BY <1>2, CallFacts
    <3>11. QED BY <2>1, <3>4, <3>6, <3>8, <3>9, <3>10
  <2>2. CASE ~answered
    <3>1. b = [call EXCEPT !.quiet = FALSE]
      BY <1>8, <2>2
    <3>2. QED BY <1>1, <1>2, <1>3, <2>2, <3>1 DEF Calls, SameDescription
  <2>3. QED BY <2>1, <2>2
<1>10. At(b) = Dev
  BY <1>2, <1>9 DEF At
<1>11. b.quiet => /\ \A k \in 1..Len(b.devlist) : Known(b, k)
                  /\ Passed(b, b.state, b.i) /\ description[Dev].cif
                  /\ data.first > 1 => Unfit(b.state, Dev, 1)
  <2>1. ASSUME b.quiet
        PROVE  /\ \A k \in 1..Len(call.devlist) : Known(call, k)
               /\ Passed(call, 1, call.i) /\ description[Dev].cif
               /\ data.first > 1 => Unfit(1, Dev, 1)
    BY <1>0, <1>1, <1>2, <1>3, <1>9, <2>1 DEF Good, Progress, Searching
  <2>2. b.quiet => \A k \in 1..Len(b.devlist) : Known(b, k)
    BY <1>2, <1>9, <2>1 DEF Known, SameDescription
  <2>3. b.quiet => Passed(b, b.state, b.i)
    BY <1>9, <2>1 DEF Passed
  <2>4. QED BY <1>9, <2>1, <2>2, <2>3
<1>12. PICK c2, u2, dt2, lv2 : c2 = call' /\ u2 = urls' /\ dt2 = data' /\ lv2 = live'
  OBVIOUS
<1>13. CASE answered /\ a = "public"
  <2>1. c2 = Returned(b, 1, call.i) /\ u2 = urls /\ dt2 = data /\ lv2 = live
    BY <1>3, <1>4, <1>8, <1>12, <1>13 DEF GetExternalIPAddress, addr_is_reserved
  <2>2. IsReturned(c2, b, 1, call.i)
    <3>1. 1 \in 0..4 /\ call.i \in Nat /\ call.i \in 1..Len(b.desc)
      BY <1>2, <1>9
    <3>2. QED BY <1>9, <2>1, <3>1, ReturnedCall
  <2>3. /\ c2 \in Calls /\ c2.pc = "done" /\ c2.state = 1 /\ c2.i = call.i /\ c2.result = 1
        /\ c2.devlist = call.devlist /\ c2.quiet = b.quiet /\ c2.wanaddr = "public"
    BY <1>9, <1>13, <2>2 DEF IsReturned, IsMoved, SameSearch
  <2>4. At(c2) = Dev
    BY <1>2, <2>3 DEF At
  <2>5. ASSUME b.quiet
        PROVE  Passed(c2, 1, c2.i) /\ Rank(Dev) = 1 /\ BestService(Dev) = data.first
    <3>1. Passed(c2, 1, c2.i) /\ description[Dev].cif
      BY <1>9, <1>11, <2>3, <2>5 DEF Passed
    <3>2. Rank(Dev) >= 1
      BY <1>0, <1>2, RankFacts
    <3>3. ~Unfit(1, Dev, data.first) /\ (data.first > 1 => Unfit(1, Dev, 1))
      BY <1>5, <1>9, <1>11, <1>13, <2>5 DEF Unfit
    <3>4. PICK k \in Kept(Dev) : k = data.first
      BY <1>3
    <3>5. Rank(Dev) = 1 /\ BestService(Dev) = k
      BY <1>0, <1>2, <3>1, <3>2, <3>3, <3>4, BestFits
    <3>6. QED BY <3>1, <3>4, <3>5
  <2>6. Chosen(c2, u2, dt2)
    BY <1>2, <2>1, <2>3, <2>4, <2>5 DEF Chosen
  <2>7. u2 # NoUrls
    BY <1>2, <2>1, UrlsSet
  <2>8. /\ u2.service = dt2.first
        /\ tl[<<u2.dev, dt2.first>>] = [connected |-> TRUE, addr |-> "public"]
    BY <1>2, <1>7, <1>13, <2>1 DEF Asked
  <2>9. Good(c2, u2, dt2, lv2, tl)
    BY <1>2, <1>7, <2>1, <2>3, <2>6, <2>7, <2>8
    DEF Good, Typed, Placed, OnService, Held, OneService, Progress, Searching
  <2>10. QED BY <1>0, <1>1, <1>6, <1>12, <2>9, Settles
<1>14. CASE ~(answered /\ a = "public")
  <2>1. TryNext(b)
    BY <1>4, <1>8, <1>14 DEF GetExternalIPAddress, addr_is_reserved
  <2>2. b.quiet => Unfit(b.state, Dev, data.first)
    BY <1>5, <1>9, <1>14 DEF Unfit
  <2>3. b.i \in 1..Len(b.devlist) /\ b.state \in 1..2 /\ Len(b.desc) = Len(b.devlist)
    BY <1>2, <1>9
  <2>4. PICK dt : dt = data
    OBVIOUS
  <2>5. Good(c2, u2, dt2, lv2, tl)
    BY <1>0, <1>2, <1>7, <1>9, <1>10, <1>11, <1>12, <2>1, <2>2, <2>3, <2>4, TryNextGood
  <2>6. QED BY <1>0, <1>1, <1>6, <1>12, <2>5, Settles
<1>15. QED BY <1>13, <1>14

(* The description of a device arrives, or not *)
LEMMA DownloadStep ==
  ASSUME ValidIGDInv, NEW ok \in BOOLEAN, Download(ok)
  PROVE  ValidIGDInv'
<1> DEFINE n == Len(call.devlist)
           v == ok /\ description[Dev].cif
           c == [call EXCEPT !.desc[call.i] = [@ EXCEPT !.xml = ok,
                                                        !.is_igd = ok /\ description[Dev].cif],
                             !.i = @ + 1,
                             !.quiet = @ /\ ok]
<1>0. WorldOK /\ Good(call, urls, data, live, told)
  BY DEF ValidIGDInv
<1>1. call.pc = "download" /\ UNCHANGED <<description, line>> /\ told' = told
  BY DEF Download, Frame
<1>2. /\ call \in Calls /\ data \in DataRecords /\ told \in [Services -> Answers]
      /\ Len(call.desc) = n /\ call.i \in 1..n /\ n \in Nat
      /\ live = 0 /\ urls = NoUrls
  BY <1>0, <1>1, CallFacts DEF Good, Typed, Placed, Held, Searching
<1>3. Dev \in Devices /\ Dev = call.devlist[call.i]
  BY <1>2, CallFacts DEF Dev
<1>4. v \in BOOLEAN /\ (ok => v = description[Dev].cif)
  BY <1>0, <1>3, DescriptionFacts
<1>5. PICK b : b = c
  OBVIOUS
<1> HIDE DEF v
<1>6. /\ b \in Calls /\ b.pc = "download" /\ b.devlist = call.devlist /\ b.i = call.i + 1
      /\ b.quiet = (call.quiet /\ ok) /\ Len(b.desc) = n
      /\ \A k \in 1..n : k # call.i => b.desc[k] = call.desc[k]
      /\ b.desc[call.i].xml = ok /\ b.desc[call.i].is_igd = v
  <2>1. PICK i : i = call.i
    OBVIOUS
  <2>2. PICK q : q = call.desc
    OBVIOUS
  <2>3. q \in Seq(DescRecords) /\ i \in 1..Len(q) /\ q[i] \in DescRecords /\ i \in Nat
    BY <1>2, <2>1, <2>2, CallFacts
  <2>4. PICK r : r = [q[i] EXCEPT !.xml = ok, !.is_igd = v]
    OBVIOUS
  <2>5. r \in DescRecords /\ r.xml = ok /\ r.is_igd = v
    BY <1>4, <2>3, <2>4 DEF DescRecords
  <2>6. PICK e : e = [q EXCEPT ![i] = r]
    OBVIOUS
  <2>7. /\ e \in Seq(DescRecords) /\ Len(e) = Len(q) /\ e[i] = r
        /\ \A k \in 1..Len(q) : k # i => e[k] = q[k]
    BY <2>3, <2>5, <2>6, ExceptSeq
  <2>8. PICK j \in Nat, z \in BOOLEAN : j = call.i + 1 /\ z = (call.quiet /\ ok)
    <3>1. call.i + 1 \in Nat
      BY <2>1, <2>3
    <3>2. (call.quiet /\ ok) \in BOOLEAN
      OBVIOUS
    <3>3. QED BY <3>1, <3>2
  <2>9. PICK a : a = [call EXCEPT !.desc = e]
    OBVIOUS
  <2>10. a \in Calls /\ a.pc = "download" /\ a.devlist = call.devlist /\ a.desc = e
    BY <1>1, <1>2, <2>7, <2>9 DEF Calls
  <2>11. b = [a EXCEPT !.i = j, !.quiet = z]
    BY <1>5, <2>1, <2>2, <2>4, <2>6, <2>8, <2>9 DEF v
  <2>12. /\ b \in Calls /\ b.pc = "download" /\ b.devlist = call.devlist /\ b.desc = e
         /\ b.i = j /\ b.quiet = z
    BY <2>10, <2>11 DEF Calls
  <2>13. QED BY <1>2, <2>1, <2>2, <2>5, <2>7, <2>8, <2>12
<1>7. b.quiet => \A k \in 1..call.i : Known(b, k)
  <2>1. ASSUME b.quiet, NEW k \in 1..call.i PROVE Known(b, k)
    <3>1. ok /\ call.quiet
      BY <1>6, <2>1
    <3>2. CASE k = call.i
      BY <1>3, <1>4, <1>6, <3>1, <3>2 DEF Known
    <3>3. CASE k # call.i
      <4>1. k \in 1..(call.i - 1) /\ k \in 1..n
        BY <1>2, <3>3
      <4>2. Known(call, k)
        BY <1>0, <1>1, <3>1, <4>1 DEF Good, Progress
      <4>3. QED BY <1>6, <3>3, <4>1, <4>2 DEF Known
    <3>4. QED BY <3>2, <3>3
  <2>2. QED BY <2>1
<1>8. PICK c2, u2, dt2, lv2, tl : c2 = call' /\ u2 = urls' /\ dt2 = data' /\ lv2 = live' /\ tl = told'
  OBVIOUS
<1>9. tl \in [Services -> Answers]
  BY <1>1, <1>2, <1>8
<1>10. CASE call.i < n
  <2>1. /\ c2 = b /\ u2 = urls /\ lv2 = live
        /\ dt2 = IF ok THEN parserootdesc(Dev) ELSE data
    BY <1>5, <1>8, <1>10 DEF Download
  <2>2. dt2 \in DataRecords
    BY <1>0, <1>2, <1>3, <2>1, ParsedType
  <2>3. b.i \in 1..Len(b.devlist) /\ Len(b.desc) = Len(b.devlist)
    BY <1>2, <1>6, <1>10
  <2>4. Progress(b, dt2)
    <3>1. b.i - 1 = call.i
      BY <1>2, <1>6
    <3>2. QED BY <1>6, <1>7, <3>1 DEF Progress, Searching
  <2>5. Good(b, u2, dt2, lv2, tl)
    BY <1>2, <1>6, <1>9, <2>1, <2>2, <2>3, <2>4
    DEF Good, Typed, Placed, OnService, Held, OneService, Chosen, Searching
  <2>6. QED BY <1>0, <1>1, <1>8, <2>1, <2>5, Settles
<1>11. CASE ~(call.i < n)
  <2>1. Continue(b, 1, 1)
    BY <1>5, <1>11 DEF Download
  <2>2. call.i = n
    BY <1>2, <1>11
  <2>3. b.devlist # <<>>
    BY <1>2, <1>6, EmptySeq
  <2>4. b.quiet => (\A k \in 1..Len(b.devlist) : Known(b, k)) /\ Passed(b, 1, 1)
    <3>1. b.quiet => \A k \in 1..Len(b.devlist) : Known(b, k)
      BY <1>6, <1>7, <2>2
    <3>2. Passed(b, 1, 1)
      BY <1>2, <1>6 DEF Passed, Before
    <3>3. QED BY <3>1, <3>2
  <2>5. 1 \in 1..2 /\ 1 \in Nat /\ Len(b.desc) = Len(b.devlist)
    BY <1>6
  <2>6. Good(c2, u2, dt2, lv2, tl)
    BY <1>0, <1>2, <1>6, <1>8, <1>9, <2>1, <2>3, <2>4, <2>5, ContinueGood
  <2>7. QED BY <1>0, <1>1, <1>8, <2>6, Settles
<1>12. QED BY <1>10, <1>11

(* The next device, or the next round *)
LEMMA NextDeviceStep ==
  ASSUME ValidIGDInv, NextDevice
  PROVE  ValidIGDInv'
<1>0. WorldOK /\ Good(call, urls, data, live, told)
  BY DEF ValidIGDInv
<1>1. call.pc = "next" /\ UNCHANGED <<description, line>> /\ told' = told
  BY DEF NextDevice, Frame
<1>2. /\ call \in Calls /\ data \in DataRecords /\ told \in [Services -> Answers]
      /\ Len(call.desc) = Len(call.devlist) /\ call.i \in 1..Len(call.devlist)
      /\ Len(call.devlist) \in Nat /\ call.state \in 1..2 /\ live = 0 /\ urls = NoUrls
  BY <1>0, <1>1, CallFacts DEF Good, Typed, Placed, Held, Searching
<1>3. PICK b, s, i : b = call /\ s = call.state /\ i = call.i + 1
  OBVIOUS
<1>4. b \in Calls /\ s \in 1..2 /\ i \in Nat /\ b.devlist # <<>> /\ Len(b.desc) = Len(b.devlist)
  BY <1>2, <1>3, EmptySeq
<1>5. ASSUME b.quiet
      PROVE  (\A k \in 1..Len(b.devlist) : Known(b, k)) /\ Passed(b, s, i)
  <2>1. /\ \A k \in 1..Len(call.devlist) : Known(call, k)
        /\ Passed(call, call.state, call.i) /\ Rank(call.devlist[call.i]) > call.state
    BY <1>0, <1>1, <1>3, <1>5 DEF Good, Progress, Searching, At
  <2>2. ASSUME NEW t \in 1..4, NEW k \in 1..Len(b.devlist), Before(<<t, k>>, <<s, i>>)
        PROVE  Rank(b.devlist[k]) > t
    <3>1. Before(<<t, k>>, <<call.state, call.i>>) \/ (t = call.state /\ k = call.i)
      BY <1>2, <1>3, <2>2 DEF Before
    <3>2. QED BY <1>3, <2>1, <3>1 DEF Passed
  <2>3. QED BY <1>3, <2>1, <2>2 DEF Passed
<1>6. PICK c2, u2, dt2, lv2, tl : c2 = call' /\ u2 = urls' /\ dt2 = data' /\ lv2 = live' /\ tl = told'
  OBVIOUS
<1>7. Continue(b, s, i)
  BY <1>3 DEF NextDevice
<1>8. tl \in [Services -> Answers]
  BY <1>1, <1>2, <1>6
<1>9. Good(c2, u2, dt2, lv2, tl)
  BY <1>0, <1>2, <1>4, <1>5, <1>6, <1>7, <1>8, ContinueGood
<1>10. QED BY <1>0, <1>1, <1>6, <1>9, Settles

(* The URLs of the other service of the device *)
LEMMA SecondServiceStep ==
  ASSUME ValidIGDInv, SecondService
  PROVE  ValidIGDInv'
<1>0. WorldOK /\ Good(call, urls, data, live, told)
  BY DEF ValidIGDInv
<1>1. /\ call.pc = "second" /\ UNCHANGED <<description, line>> /\ told' = told
      /\ call' = [call EXCEPT !.pc = "status"] /\ urls' = [dev |-> Dev, service |-> data.first]
      /\ data' = data /\ live' = live + 1
  BY DEF SecondService, Frame, GetUPNPUrls
<1>2. /\ call \in Calls /\ data \in DataRecords /\ told \in [Services -> Answers]
      /\ Len(call.desc) = Len(call.devlist) /\ call.i \in 1..Len(call.devlist)
      /\ call.state \in 1..2 /\ live = 0 /\ data.first > 1
      /\ \/ data = parserootdesc(At(call))
         \/ data = Swapped(parserootdesc(At(call))) /\ data.first > 1
  BY <1>0, <1>1 DEF Good, Typed, Placed, OnService, Held, Searching
<1>3. PICK c2, u2, dt2, lv2, tl : c2 = call' /\ u2 = urls' /\ dt2 = data' /\ lv2 = live' /\ tl = told'
  OBVIOUS
<1>4. /\ c2 \in Calls /\ c2.pc = "status" /\ c2.state = call.state /\ c2.i = call.i
      /\ c2.devlist = call.devlist /\ c2.desc = call.desc /\ c2.quiet = call.quiet
  BY <1>1, <1>2, <1>3 DEF Calls, Searching
<1>5. At(c2) = Dev /\ Dev = At(call) /\ Dev \in Devices
  BY <1>2, <1>4, CallFacts DEF At, Dev
<1>6. u2 # NoUrls
  BY <1>1, <1>3, <1>5, UrlsSet
<1>7. Progress(c2, dt2)
  <2>1. ASSUME call.quiet
        PROVE  /\ \A k \in 1..Len(call.devlist) : Known(call, k)
               /\ Passed(call, call.state, call.i) /\ description[Dev].cif
               /\ data.first > 1 => Unfit(call.state, Dev, 1)
    BY <1>0, <1>1, <1>5, <2>1 DEF Good, Progress, Searching
  <2>2. call.quiet => \A k \in 1..Len(c2.devlist) : Known(c2, k)
    BY <1>4, <2>1 DEF Known
  <2>3. call.quiet => Passed(c2, c2.state, c2.i)
    BY <1>4, <2>1 DEF Passed
  <2>4. QED BY <1>1, <1>3, <1>4, <1>5, <2>1, <2>2, <2>3 DEF Progress
<1>8. OnService(c2, dt2)
  BY <1>1, <1>2, <1>3, <1>4, <1>5 DEF OnService
<1>9. Good(c2, u2, dt2, lv2, tl)
  BY <1>1, <1>2, <1>3, <1>4, <1>5, <1>6, <1>7, <1>8
  DEF Good, Typed, Placed, Held, OneService, Chosen
<1>10. QED BY <1>0, <1>1, <1>3, <1>9, Settles

(* Between two calls *)
LEMMA IdleCall ==
  Idle \in Calls /\ Idle.pc = "idle" /\ Idle.devlist = <<>> /\ Idle.result = 0
<1>1. <<>> \in Seq(Devices) /\ <<>> \in Seq(DescRecords)
  OBVIOUS
<1>2. QED BY <1>1 DEF Idle, Calls, Addrs

(* A call that is answered without a look at a list *)
AtOnce(m, r) == m \in Calls /\ m.pc = "done" /\ m.devlist = <<>> /\ m.result = r

LEMMA AtOnceGood ==
  ASSUME NEW m, NEW r \in -1..4, AtOnce(m, r), NEW u, NEW dt \in DataRecords, NEW lv \in {0, 1},
         NEW tl \in [Services -> Answers], lv = 1 <=> u # NoUrls, lv = 1 <=> r > 0
  PROVE  Good(m, u, dt, lv, tl)
BY DEF Good, AtOnce, Typed, Placed, OnService, Held, OneService, Progress, Chosen, Searching

LEMMA IdleGood ==
  ASSUME NEW dt \in DataRecords, NEW tl \in [Services -> Answers]
  PROVE  Good(Idle, NoUrls, dt, 0, tl)
<1>1. PICK m : m = Idle
  OBVIOUS
<1>2. m \in Calls /\ m.pc = "idle"
  BY <1>1, IdleCall
<1>3. PICK u : u = NoUrls
  OBVIOUS
<1>4. Good(m, u, dt, 0, tl)
  BY <1>2, <1>3
  DEF Good, Typed, Placed, OnService, Held, OneService, Progress, Chosen, Searching
<1>5. QED BY <1>1, <1>3, <1>4

LEMMA IdleFacts ==
  ASSUME ValidIGDInv, call.pc = "idle"
  PROVE  data \in DataRecords /\ told \in [Services -> Answers] /\ live = 0 /\ urls = NoUrls
BY DEF ValidIGDInv, Good, Typed, Held

(* The program calls *)
LEMMA GetValidIGDStep ==
  ASSUME ValidIGDInv, NEW l \in DevLists, UPNP_GetValidIGD(l)
  PROVE  ValidIGDInv'
<1>0. WorldOK
  BY DEF ValidIGDInv
<1>1. /\ call.pc = "idle" /\ UNCHANGED <<description, line>>
      /\ UNCHANGED <<urls, data, live, told>>
  BY DEF UPNP_GetValidIGD, Frame
<1>2. data \in DataRecords /\ told \in [Services -> Answers] /\ live = 0 /\ urls = NoUrls
  BY <1>1, IdleFacts
<1>3. PICK c2, u2, dt2, lv2, tl : c2 = call' /\ u2 = urls' /\ dt2 = data' /\ lv2 = live' /\ tl = told'
  OBVIOUS
<1>4. /\ u2 = NoUrls /\ lv2 = 0 /\ dt2 \in DataRecords /\ tl \in [Services -> Answers]
  BY <1>1, <1>2, <1>3
<1>5. l \in Seq(Devices)
  BY ValidIGDAssumption
<1>6. PICK e : e = [k \in 1..Len(l) |-> NoDesc]
  OBVIOUS
<1>7. CASE l # <<>> /\ call' = [Idle EXCEPT !.pc = "download", !.devlist = l, !.i = 1, !.desc = e]
  <2>1. Len(l) \in Nat /\ 1 \in 1..Len(l)
    BY <1>5, <1>7, LenProperties, EmptySeq
  <2>2. NoDesc \in DescRecords
    BY DEF NoDesc, DescRecords, Addrs
  <2>3. e \in Seq(DescRecords) /\ Len(e) = Len(l)
    BY <1>6, <2>1, <2>2
  <2>4. PICK a : a = [Idle EXCEPT !.pc = "download", !.devlist = l]
    OBVIOUS
  <2>5. a \in Calls /\ a.pc = "download" /\ a.devlist = l
    BY <1>5, <2>4, IdleCall DEF Calls
  <2>6. c2 = [a EXCEPT !.i = 1, !.desc = e]
    BY <1>3, <1>7, <2>4
  <2>7. c2 \in Calls /\ c2.pc = "download" /\ c2.devlist = l /\ c2.i = 1 /\ c2.desc = e
    BY <2>3, <2>5, <2>6 DEF Calls
  <2>8. Progress(c2, dt2)
    BY <2>7 DEF Progress, Searching
  <2>9. Good(c2, u2, dt2, lv2, tl)
    BY <1>4, <2>1, <2>3, <2>7, <2>8
    DEF Good, Typed, Placed, OnService, Held, OneService, Chosen, Searching
  <2>10. QED BY <1>0, <1>1, <1>3, <2>9, Settles
<1>8. CASE call' = [Idle EXCEPT !.pc = "done"]
  <2>1. AtOnce(c2, 0)
    BY <1>3, <1>8, IdleCall DEF Calls, AtOnce
  <2>2. Good(c2, u2, dt2, lv2, tl)
    BY <1>4, <2>1, AtOnceGood
  <2>3. QED BY <1>0, <1>1, <1>3, <2>2, Settles
<1>9. CASE call' = [Idle EXCEPT !.pc = "done", !.result = -1]
  <2>1. AtOnce(c2, -1)
    <3>1. PICK a : a = [Idle EXCEPT !.pc = "done"]
      OBVIOUS
    <3>2. a \in Calls /\ a.pc = "done" /\ a.devlist = <<>>
      BY <3>1, IdleCall DEF Calls
    <3>3. PICK r \in -1..4 : r = -1
      OBVIOUS
    <3>4. c2 = [a EXCEPT !.result = r]
      BY <1>3, <1>9, <3>1, <3>3
    <3>5. AtOnce(c2, r)
      BY <3>2, <3>4 DEF Calls, AtOnce
    <3>6. QED BY <3>3, <3>5
  <2>2. Good(c2, u2, dt2, lv2, tl)
    BY <1>4, <2>1, AtOnceGood
  <2>3. QED BY <1>0, <1>1, <1>3, <2>2, Settles
<1>10. QED BY <1>6, <1>7, <1>8, <1>9 DEF UPNP_GetValidIGD

(* The program has a URL *)
LEMMA FromUrlStep ==
  ASSUME ValidIGDInv, NEW x \in Devices, NEW ok \in BOOLEAN, UPNP_GetIGDFromUrl(x, ok)
  PROVE  ValidIGDInv'
<1>0. WorldOK
  BY DEF ValidIGDInv
<1>1. call.pc = "idle" /\ UNCHANGED <<description, line>> /\ told' = told
  BY DEF UPNP_GetIGDFromUrl, Frame
<1>2. data \in DataRecords /\ told \in [Services -> Answers] /\ live = 0 /\ urls = NoUrls
  BY <1>1, IdleFacts
<1>3. PICK c2, u2, dt2, lv2, tl : c2 = call' /\ u2 = urls' /\ dt2 = data' /\ lv2 = live' /\ tl = told'
  OBVIOUS
<1>4. PICK r \in 0..1 : r = IF ok THEN 1 ELSE 0
  OBVIOUS
<1>5. c2 = [Idle EXCEPT !.pc = "done", !.result = r, !.quiet = FALSE]
  BY <1>3, <1>4 DEF UPNP_GetIGDFromUrl
<1>6. AtOnce(c2, r)
  <2>1. PICK a : a = [Idle EXCEPT !.pc = "done"]
    OBVIOUS
  <2>2. a \in Calls /\ a.pc = "done" /\ a.devlist = <<>>
    BY <2>1, IdleCall DEF Calls
  <2>3. c2 = [a EXCEPT !.result = r, !.quiet = FALSE]
    BY <1>5, <2>1
  <2>4. r \in -1..4
    OBVIOUS
  <2>5. QED BY <2>2, <2>3, <2>4 DEF Calls, AtOnce
<1>7. CASE ok
  <2>1. /\ u2 = [dev |-> x, service |-> parserootdesc(x).first] /\ dt2 = parserootdesc(x)
        /\ lv2 = 1
    BY <1>2, <1>3, <1>7 DEF UPNP_GetIGDFromUrl, GetUPNPUrls
  <2>2. u2 # NoUrls
    BY <2>1, UrlsSet
  <2>3. dt2 \in DataRecords
    BY <1>0, <2>1, ParsedType
  <2>4. Good(c2, u2, dt2, lv2, tl)
    BY <1>1, <1>2, <1>3, <1>4, <1>6, <1>7, <2>1, <2>2, <2>3, AtOnceGood
  <2>5. QED BY <1>0, <1>1, <1>3, <2>4, Settles
<1>8. CASE ~ok
  <2>1. u2 = NoUrls /\ dt2 = data /\ lv2 = 0
    BY <1>2, <1>3, <1>8 DEF UPNP_GetIGDFromUrl
  <2>2. Good(c2, u2, dt2, lv2, tl)
    BY <1>1, <1>2, <1>3, <1>4, <1>6, <1>8, <2>1, AtOnceGood
  <2>3. QED BY <1>0, <1>1, <1>3, <2>2, Settles
<1>9. QED BY <1>7, <1>8

(* The program frees the URLs of a result *)
LEMMA ProgramDoneStep ==
  ASSUME ValidIGDInv, ProgramDone
  PROVE  ValidIGDInv'
<1>0. WorldOK
  BY DEF ValidIGDInv
<1>1. /\ call.pc = "done" /\ UNCHANGED <<description, line>>
      /\ told' = [s \in Services |-> Silent] /\ call' = Idle
  BY DEF ProgramDone, Frame
<1>2. /\ data \in DataRecords /\ live \in {0, 1} /\ (live = 1 <=> urls # NoUrls)
      /\ (live = 1 <=> call.result > 0)
  BY <1>1 DEF ValidIGDInv, Good, Typed, Held
<1>3. PICK c2, u2, dt2, lv2, tl : c2 = call' /\ u2 = urls' /\ dt2 = data' /\ lv2 = live' /\ tl = told'
  OBVIOUS
<1>4. u2 = NoUrls /\ dt2 = data /\ lv2 = 0
  BY <1>2, <1>3 DEF ProgramDone, FreeUPNPUrls
<1>5. tl \in [Services -> Answers]
  <2>1. Silent \in Answers
    BY DEF Silent, Answers, Addrs
  <2>2. QED BY <1>1, <1>3, <2>1
<1>6. Good(c2, u2, dt2, lv2, tl)
  BY <1>1, <1>2, <1>3, <1>4, <1>5, IdleGood
<1>7. QED BY <1>0, <1>1, <1>3, <1>6, Settles

(* A line changes: nothing is known of the services any more *)
LEMMA LineStep ==
  ASSUME ValidIGDInv, NEW x \in Devices, NEW s \in 1..MaxServices, NEW l \in Lines, LineChanges(x, s, l)
  PROVE  ValidIGDInv'
<1>1. /\ line' = [line EXCEPT ![<<x, s>>] = l] /\ call' = [call EXCEPT !.quiet = FALSE]
      /\ UNCHANGED <<description, urls, data, live, told>>
  BY DEF LineChanges
<1>2. WorldOK'
  BY <1>1 DEF ValidIGDInv, WorldOK, Services
<1>3. PICK c2 : c2 = call'
  OBVIOUS
<1>4. call \in Calls
  BY DEF ValidIGDInv, Good, Typed
<1>5. c2 \in Calls /\ SameExceptQuiet(c2, call) /\ ~c2.quiet
  BY <1>1, <1>3, <1>4 DEF Calls, SameExceptQuiet
<1>6. At(c2) = At(call)
  BY <1>5 DEF At, SameExceptQuiet
<1>7. /\ Typed(c2, data, told) /\ Placed(c2) /\ OnService(c2, data)
      /\ Held(c2, urls, data, live) /\ OneService(c2, urls, data, told)
  BY <1>5, <1>6
  DEF ValidIGDInv, Good, Typed, Placed, OnService, Held, OneService, SameExceptQuiet
<1>8. \A y : parserootdesc(y)' = parserootdesc(y)
  BY <1>1 DEF parserootdesc
<1>9. OnService(call, data)'
  BY <1>1, <1>3, <1>7, <1>8 DEF OnService, At
<1>10. /\ Typed(call, data, told)' /\ Placed(call)'
       /\ Held(call, urls, data, live)' /\ OneService(call, urls, data, told)'
  BY <1>1, <1>3, <1>7 DEF Typed, Placed, Held, OneService, At
<1>11. Progress(call, data)' /\ Chosen(call, urls, data)'
  BY <1>3, <1>5 DEF Progress, Chosen
<1>12. QED BY <1>2, <1>9, <1>10, <1>11 DEF ValidIGDInv, Good

-----------------------------------------------------------------------------
(* The theorems *)

LEMMA InitInv == Init => ValidIGDInv
<1> SUFFICES ASSUME Init PROVE ValidIGDInv
  OBVIOUS
<1>1. WorldOK
  BY DEF Init, WorldOK
<1>2. told \in [Services -> Answers]
  <2>1. Silent \in Answers
    BY DEF Silent, Answers, Addrs
  <2>2. QED BY <2>1 DEF Init
<1>3. data \in DataRecords
  BY DEF Init, NoData, NoService, DataRecords
<1>4. PICK dt, tl : dt = data /\ tl = told
  OBVIOUS
<1>5. Good(Idle, NoUrls, dt, 0, tl)
  BY <1>2, <1>3, <1>4, IdleGood
<1>6. QED BY <1>1, <1>4, <1>5 DEF Init, ValidIGDInv

LEMMA NextInv == ValidIGDInv /\ [Next]_vars => ValidIGDInv'
<1> SUFFICES ASSUME ValidIGDInv, [Next]_vars PROVE ValidIGDInv'
  OBVIOUS
<1>1. ASSUME NEW l \in DevLists, UPNP_GetValidIGD(l) PROVE ValidIGDInv'
  BY <1>1, GetValidIGDStep
<1>2. ASSUME NEW ok \in BOOLEAN, Download(ok) PROVE ValidIGDInv'
  BY <1>2, DownloadStep
<1>3. ASSUME NEW ok \in BOOLEAN, UPNPIGD_IsConnected(ok) PROVE ValidIGDInv'
  BY <1>3, StatusStep
<1>4. ASSUME NEW ok \in BOOLEAN, GetExternalIPAddress(ok) PROVE ValidIGDInv'
  BY <1>4, AddressStep
<1>5. ASSUME SecondService PROVE ValidIGDInv'
  BY <1>5, SecondServiceStep
<1>6. ASSUME NextDevice PROVE ValidIGDInv'
  BY <1>6, NextDeviceStep
<1>7. ASSUME NEW x \in Devices, NEW ok \in BOOLEAN, UPNP_GetIGDFromUrl(x, ok) PROVE ValidIGDInv'
  BY <1>7, FromUrlStep
<1>8. ASSUME ProgramDone PROVE ValidIGDInv'
  BY <1>8, ProgramDoneStep
<1>9. ASSUME NEW x \in Devices, NEW s \in 1..MaxServices, NEW l \in Lines, LineChanges(x, s, l)
      PROVE  ValidIGDInv'
  BY <1>9, LineStep
<1>10. ASSUME UNCHANGED vars PROVE ValidIGDInv'
  <2>1. PICK c2, u2, dt2, lv2, tl : c2 = call' /\ u2 = urls' /\ dt2 = data' /\ lv2 = live' /\ tl = told'
    OBVIOUS
  <2>2. WorldOK /\ Good(c2, u2, dt2, lv2, tl)
    BY <1>10, <2>1 DEF vars, ValidIGDInv
  <2>3. UNCHANGED <<description, line>>
    BY <1>10 DEF vars
  <2>4. QED BY <2>1, <2>2, <2>3, Settles
<1>11. QED
  BY <1>1, <1>2, <1>3, <1>4, <1>5, <1>6, <1>7, <1>8, <1>9, <1>10 DEF Next

LEMMA AlwaysInv == Spec => []ValidIGDInv
<1>1. QED BY InitInv, NextInv, PTL DEF Spec

LEMMA ChosenGateway == ValidIGDInv => GatewayChosen
<1> SUFFICES ASSUME ValidIGDInv, call.pc = "done", call.devlist # <<>>
             PROVE  /\ call.quiet =>
                         LET ranks == {Rank(call.devlist[i]) : i \in 1..Len(call.devlist)}
                             best == First(ranks)
                             d == call.devlist[First({i \in 1..Len(call.devlist) : Rank(call.devlist[i]) = best})]
                         IN  /\ call.result = best
                             /\ urls = [dev |-> d, service |-> BestService(d)]
                             /\ data.first = BestService(d)
                    /\ call.result = 1 =>
                         /\ urls.service = data.first
                         /\ told[<<urls.dev, data.first>>] = [connected |-> TRUE, addr |-> "public"]
                         /\ call.wanaddr = "public"
  BY DEF GatewayChosen
<1>1. call.result = 1 =>
        /\ urls.service = data.first
        /\ told[<<urls.dev, data.first>>] = [connected |-> TRUE, addr |-> "public"]
        /\ call.wanaddr = "public"
  BY DEF ValidIGDInv, Good, OneService
<1>2. ASSUME call.quiet
      PROVE  LET ranks == {Rank(call.devlist[i]) : i \in 1..Len(call.devlist)}
                 best == First(ranks)
                 d == call.devlist[First({i \in 1..Len(call.devlist) : Rank(call.devlist[i]) = best})]
             IN  /\ call.result = best
                 /\ urls = [dev |-> d, service |-> BestService(d)]
                 /\ data.first = BestService(d)
  <2> DEFINE n == Len(call.devlist)
             R(k) == Rank(call.devlist[k])
  <2>1. /\ call.i \in 1..n /\ call.state \in 1..4 /\ call.result = call.state
        /\ Passed(call, call.state, call.i) /\ R(call.i) <= call.state
        /\ urls = [dev |-> At(call), service |-> BestService(At(call))]
        /\ data.first = BestService(At(call))
    BY <1>2 DEF ValidIGDInv, Good, Chosen, At
  <2>2. WorldOK /\ call \in Calls
    BY DEF ValidIGDInv, Good, Typed
  <2>3. /\ \A k \in 1..n : R(k) \in 1..4 /\ R(k) >= call.state
        /\ \A k \in 1..n : k < call.i => R(k) > call.state
    BY <2>1, <2>2, PassedRank
  <2>4. R(call.i) = call.state /\ n \in Nat
    <3>1. n \in Nat
      BY <2>2, CallFacts
    <3> HIDE DEF n, R
    <3>2. QED BY <2>1, <2>3, <3>1
  <2> HIDE DEF n, R
  <2>5. PICK ranks : ranks = {R(k) : k \in 1..n}
    OBVIOUS
  <2>6. First(ranks) = call.state
    <3>1. ranks \in SUBSET Int /\ call.state \in ranks /\ \A t \in ranks : call.state <= t
      BY <2>1, <2>3, <2>4, <2>5
    <3>2. QED BY <3>1, FirstIs
  <2>7. PICK S : S = {k \in 1..n : R(k) = First(ranks)}
    OBVIOUS
  <2>8. First(S) = call.i
    <3>1. S \in SUBSET Int /\ call.i \in S
      BY <2>1, <2>4, <2>6, <2>7
    <3>2. ASSUME NEW t \in S PROVE call.i <= t
      BY <2>1, <2>3, <2>4, <2>6, <2>7
    <3>3. QED BY <3>1, <3>2, FirstIs
  <2>9. /\ call.result = First(ranks)
        /\ urls = [dev |-> call.devlist[First(S)], service |-> BestService(call.devlist[First(S)])]
        /\ data.first = BestService(call.devlist[First(S)])
    BY <2>1, <2>6, <2>8 DEF At
  <2>10. QED BY <2>5, <2>7, <2>9 DEF n, R
<1>3. QED BY <1>1, <1>2

(***************************************************************************)
(* UPNP_GetValidIGD(), for every list of devices, every description and    *)
(* every course of the answers: as long as nothing fails or changes during *)
(* the call, the value is the best rank of a device of the list, and urls  *)
(* and data lead to the first service of the first device that has it.     *)
(* Whatever fails, a value of 1 is what one service answered.              *)
(***************************************************************************)
THEOREM BestGatewayChosen == Spec => []GatewayChosen
<1>1. QED BY AlwaysInv, ChosenGateway, PTL

(***************************************************************************)
(* GetUPNPUrls() and FreeUPNPUrls() are balanced on every path through     *)
(* UPNP_GetValidIGD() and UPNP_GetIGDFromUrl(): the caller holds exactly   *)
(* one structure after a value above 0, and none after any other.          *)
(***************************************************************************)
THEOREM UrlsNeverLeak == Spec => []UrlsFreed
<1>1. ValidIGDInv => UrlsFreed
  BY DEF ValidIGDInv, Good, Held, UrlsFreed
<1>2. QED BY AlwaysInv, <1>1, PTL

=============================================================================
