----------------------------- MODULE ListLemmas -----------------------------
(***************************************************************************)
(* Facts about the list operators of the models.  Induction is done by the *)
(* least counterexample: the set of the naturals for which a statement     *)
(* fails has a least element if it is not empty.                           *)
(***************************************************************************)
EXTENDS Lists, Integers, Sequences, SequencesExt, SequenceTheorems,
        FiniteSets, FiniteSetTheorems, FunctionTheorems, WellFoundedInduction, TLAPS

(* A set of naturals that is not empty has a least element *)
LEMMA LeastElement ==
  ASSUME NEW I \in SUBSET Nat, I # {}
  PROVE  \E m \in I : \A j \in I : m <= j
<1> DEFINE R == OpToRel(<, Nat)
<1>1. IsWellFoundedOn(R, Nat)
  BY NatLessThanWellFounded
<1>2. R = {ss \in Nat \X Nat : ss[1] < ss[2]}
  BY Zenon DEF OpToRel
<1>3. PICK x \in I : \A y \in I : ~(<<y, x>> \in R)
  BY <1>1, WFMin
<1> HIDE DEF R
<1>4. \A a, b \in Nat : a < b => <<a, b>> \in R
  BY <1>2
<1>5. ASSUME NEW y \in I PROVE x <= y
  <2>1. ~(<<y, x>> \in R) /\ x \in Nat /\ y \in Nat
    BY <1>3
  <2>2. ~(y < x)
    BY <1>4, <2>1
  <2>3. QED BY <2>1, <2>2
<1>6. QED BY <1>5

(* Min of the community modules, which is a CHOOSE *)
LEMMA MinIsLeast ==
  ASSUME NEW I \in SUBSET Nat, I # {}
  PROVE  Min(I) \in I /\ \A j \in I : Min(I) <= j
BY LeastElement DEF Min

(* Induction: a set of naturals that is closed under successor up to n *)
LEMMA UpTo ==
  ASSUME NEW n \in Nat, NEW P, 0 \in P,
         \A i \in 0..n : (i # 0 /\ i - 1 \in P) => i \in P
  PROVE  \A i \in 0..n : i \in P
<1> DEFINE bad == {i \in 0..n : i \notin P}
<1>1. SUFFICES ASSUME bad # {} PROVE FALSE
  OBVIOUS
<1>2. bad \in SUBSET Nat
  OBVIOUS
<1>3. PICK m \in bad : \A j \in bad : m <= j
  BY <1>1, <1>2, LeastElement
<1>4. m \in 0..n /\ m # 0
  BY <1>3
<1>5. m - 1 \in 0..n /\ m - 1 \notin bad
  BY <1>3, <1>4
<1>6. QED BY <1>3, <1>4, <1>5

-----------------------------------------------------------------------------
(* Removing and inserting *)

LEMMA RemoveAtFacts ==
  ASSUME NEW S, NEW s \in Seq(S), NEW i \in 1..Len(s)
  PROVE  /\ RemoveAt(s, i) \in Seq(S)
         /\ Len(RemoveAt(s, i)) = Len(s) - 1
         /\ \A j \in 1..(Len(s) - 1) :
              RemoveAt(s, i)[j] = IF j < i THEN s[j] ELSE s[j + 1]
<1>0. Len(s) \in Nat /\ \A j \in 1..Len(s) : s[j] \in S
  BY LenProperties, ElementOfSeq
<1> DEFINE a == SubSeq(s, 1, i - 1)
           b == SubSeq(s, i + 1, Len(s))
<1>1. /\ a \in Seq(S) /\ Len(a) = i - 1
      /\ \A j \in 1..(i - 1) : a[j] = s[j]
  <2>1. \A j \in 1..(i - 1) : s[j] \in S
    BY <1>0
  <2>2. i - 1 \in Int /\ 1 \in Int
    OBVIOUS
  <2>3. /\ SubSeq(s, 1, i - 1) \in Seq(S)
        /\ Len(SubSeq(s, 1, i - 1)) = IF 1 <= i - 1 THEN (i - 1) - 1 + 1 ELSE 0
        /\ \A j \in 1..((i - 1) - 1 + 1) : SubSeq(s, 1, i - 1)[j] = s[1 + j - 1]
    BY <2>1, <2>2, SubSeqProperties
  <2>4. QED BY <2>3, <1>0
<1>2. /\ b \in Seq(S) /\ Len(b) = Len(s) - i
      /\ \A j \in 1..(Len(s) - i) : b[j] = s[i + j]
  <2>1. \A j \in (i + 1)..Len(s) : s[j] \in S
    BY <1>0
  <2>2. i + 1 \in Int /\ Len(s) \in Int
    BY <1>0
  <2>3. /\ SubSeq(s, i + 1, Len(s)) \in Seq(S)
        /\ Len(SubSeq(s, i + 1, Len(s))) = IF i + 1 <= Len(s) THEN Len(s) - (i + 1) + 1 ELSE 0
        /\ \A j \in 1..(Len(s) - (i + 1) + 1) :
             SubSeq(s, i + 1, Len(s))[j] = s[(i + 1) + j - 1]
    BY <2>1, <2>2, SubSeqProperties
  <2>4. QED BY <2>3, <1>0
<1> HIDE DEF a, b
<1>3. RemoveAt(s, i) = a \o b
  BY DEF RemoveAt, a, b
<1>4. /\ a \o b \in Seq(S) /\ Len(a \o b) = Len(a) + Len(b)
      /\ \A j \in 1..(Len(a) + Len(b)) :
           (a \o b)[j] = IF j <= Len(a) THEN a[j] ELSE b[j - Len(a)]
  BY <1>1, <1>2, ConcatProperties
<1>5. ASSUME NEW j \in 1..(Len(s) - 1)
      PROVE  (a \o b)[j] = IF j < i THEN s[j] ELSE s[j + 1]
  <2>1. CASE j < i
    BY <1>0, <1>1, <1>2, <1>4, <2>1
  <2>2. CASE ~(j < i)
    <3>1. j - (i - 1) \in 1..(Len(s) - i) /\ i + (j - (i - 1)) = j + 1
      BY <1>0, <2>2
    <3>2. b[j - (i - 1)] = s[j + 1]
      BY <1>2, <3>1
    <3>3. QED BY <1>0, <1>1, <1>2, <1>4, <2>2, <3>2
  <2>3. QED BY <2>1, <2>2
<1>6. QED BY <1>0, <1>1, <1>2, <1>3, <1>4, <1>5

LEMMA ConsFacts ==
  ASSUME NEW S, NEW s \in Seq(S), NEW e \in S
  PROVE  /\ Cons(e, s) \in Seq(S)
         /\ Len(Cons(e, s)) = Len(s) + 1
         /\ Cons(e, s)[1] = e
         /\ \A j \in 2..(Len(s) + 1) : Cons(e, s)[j] = s[j - 1]
<1>1. <<e>> \in Seq(S) /\ Len(<<e>>) = 1 /\ <<e>>[1] = e
  OBVIOUS
<1>2. /\ <<e>> \o s \in Seq(S) /\ Len(<<e>> \o s) = Len(<<e>>) + Len(s)
      /\ \A j \in 1..(Len(<<e>>) + Len(s)) :
           (<<e>> \o s)[j] = IF j <= Len(<<e>>) THEN <<e>>[j] ELSE s[j - Len(<<e>>)]
  BY <1>1, ConcatProperties
<1>3. Len(s) \in Nat
  BY LenProperties
<1>4. QED BY <1>1, <1>2, <1>3 DEF Cons

-----------------------------------------------------------------------------
(* Sublist *)

(* The recursion that Sublist is defined by *)
Copied(list, kept, f) ==
  \A i \in 0..Len(list) :
    f[i] = IF i = 0 THEN <<>>
           ELSE IF list[i] \in kept THEN Append(f[i - 1], list[i]) ELSE f[i - 1]

LEMMA CopyExists ==
  ASSUME NEW S, NEW list \in Seq(S), NEW kept
  PROVE  \E f : f = [i \in 0..Len(list) |->
                       IF i = 0 THEN <<>>
                       ELSE IF list[i] \in kept THEN Append(f[i - 1], list[i]) ELSE f[i - 1]]
<1> DEFINE n == Len(list)
           Step(f, i) == IF i = 0 THEN <<>>
                         ELSE IF list[i] \in kept THEN Append(f[i - 1], list[i]) ELSE f[i - 1]
           P == {m \in 0..n : \E f : /\ DOMAIN f = 0..m /\ f = [i \in 0..m |-> f[i]]
                                     /\ \A i \in 0..m : f[i] = Step(f, i)}
<1>1. n \in Nat
  BY LenProperties
<1>2. 0 \in P
  <2> DEFINE f == [i \in 0..0 |-> <<>>]
  <2>1. DOMAIN f = 0..0 /\ \A i \in 0..0 : f[i] = Step(f, i)
    OBVIOUS
  <2>2. f = [i \in 0..0 |-> f[i]]
    OBVIOUS
  <2> HIDE DEF f
  <2>3. 0 \in 0..n
    BY <1>1
  <2>4. QED BY <2>1, <2>2, <2>3
<1>3. ASSUME NEW m \in 0..n, m # 0, m - 1 \in P PROVE m \in P
  <2>1. PICK f : /\ DOMAIN f = 0..(m - 1)
                 /\ \A i \in 0..(m - 1) : f[i] = Step(f, i)
    BY <1>3
  <2> DEFINE g == [i \in 0..m |-> IF i = m THEN Step(f, m) ELSE f[i]]
  <2>2. ASSUME NEW i \in 0..m PROVE g[i] = Step(g, i)
    <3>1. i # 0 => i - 1 \in 0..(m - 1)
      BY <1>1
    <3>2. i # 0 => g[i - 1] = f[i - 1]
      BY <1>1, <3>1
    <3>3. CASE i = m
      BY <1>3, <3>2, <3>3
    <3>4. CASE i # m
      <4>1. i \in 0..(m - 1) /\ g[i] = f[i]
        BY <1>1, <3>4
      <4>2. QED BY <2>1, <3>2, <4>1
    <3>5. QED BY <3>3, <3>4
  <2>3. DOMAIN g = 0..m /\ g = [i \in 0..m |-> g[i]]
    OBVIOUS
  <2> HIDE DEF g
  <2>4. QED BY <2>2, <2>3
<1> HIDE DEF P
<1>4. n \in P
  <2>1. \A i \in 0..n : i \in P
    BY <1>1, <1>2, <1>3, UpTo
  <2>2. QED BY <1>1, <2>1
<1>5. PICK f : /\ f = [i \in 0..n |-> f[i]]
               /\ \A i \in 0..n : f[i] = Step(f, i)
  BY <1>4 DEF P
<1>6. f = [i \in 0..n |-> Step(f, i)]
  BY <1>5
<1>7. QED BY <1>6

LEMMA SublistIsCopy ==
  ASSUME NEW S, NEW list \in Seq(S), NEW kept
  PROVE  \E f : Copied(list, kept, f) /\ Sublist(list, kept) = f[Len(list)]
<1> DEFINE Q(f) == f = [i \in 0..Len(list) |->
                       IF i = 0 THEN <<>>
                       ELSE IF list[i] \in kept THEN Append(f[i - 1], list[i]) ELSE f[i - 1]]
           F == CHOOSE f : Q(f)
<1>0. \E f : Q(f)
  BY CopyExists, ZenonT(40)
<1>2. Sublist(list, kept) = F[Len(list)]
  BY DEF Sublist
<1>1. Q(F)
  <2> HIDE DEF Q
  <2>1. QED BY <1>0
<1> HIDE DEF F
<1>3. QED BY <1>1, <1>2 DEF Copied

(* A sublist has its elements from the list, in the same order: h gives     *)
(* the place each one had.  And it has all those that are kept.             *)
LEMMA SublistFacts ==
  ASSUME NEW S, NEW list \in Seq(S), NEW kept
  PROVE  LET sub == Sublist(list, kept)
         IN /\ sub \in Seq(S)
            /\ Len(sub) <= Len(list)
            /\ \E h \in [1..Len(sub) -> 1..Len(list)] :
                 /\ \A j \in 1..Len(sub) : sub[j] = list[h[j]] /\ list[h[j]] \in kept
                 /\ \A j, k \in 1..Len(sub) : j < k => h[j] < h[k]
            /\ \A i \in 1..Len(list) : list[i] \in kept
                 => \E j \in 1..Len(sub) : sub[j] = list[i]
<1>0. Len(list) \in Nat /\ \A i \in 1..Len(list) : list[i] \in S
  BY LenProperties, ElementOfSeq
<1>1. PICK f : Copied(list, kept, f) /\ Sublist(list, kept) = f[Len(list)]
  BY SublistIsCopy
<1> DEFINE Good(i) ==
             /\ f[i] \in Seq(S) /\ Len(f[i]) <= i
             /\ \E h \in [1..Len(f[i]) -> 1..i] :
                  /\ \A j \in 1..Len(f[i]) : f[i][j] = list[h[j]] /\ list[h[j]] \in kept
                  /\ \A j, k \in 1..Len(f[i]) : j < k => h[j] < h[k]
             /\ \A m \in 1..i : list[m] \in kept => \E j \in 1..Len(f[i]) : f[i][j] = list[m]
           P == {i \in 0..Len(list) : Good(i)}
<1>2. 0 \in P
  <2>1. f[0] = <<>>
    BY <1>0, <1>1 DEF Copied
  <2>2. f[0] \in Seq(S) /\ Len(f[0]) = 0
    BY <2>1
  <2>3. [j \in 1..0 |-> 1] \in [1..Len(f[0]) -> 1..0]
    BY <2>2
  <2>4. QED BY <1>0, <2>2, <2>3
<1>3. ASSUME NEW i \in 0..Len(list), i # 0, i - 1 \in P PROVE i \in P
  <2>0. i \in 1..Len(list) /\ i - 1 \in Nat /\ list[i] \in S
    BY <1>0, <1>3
  <2>1. Good(i - 1)
    BY <1>3
  <2>2. PICK h \in [1..Len(f[i - 1]) -> 1..(i - 1)] :
          /\ \A j \in 1..Len(f[i - 1]) : f[i - 1][j] = list[h[j]] /\ list[h[j]] \in kept
          /\ \A j, k \in 1..Len(f[i - 1]) : j < k => h[j] < h[k]
    BY <2>1
  <2>3. CASE list[i] \notin kept
    <3>1. f[i] = f[i - 1]
      BY <1>1, <1>3, <2>3 DEF Copied
    <3>2. h \in [1..Len(f[i]) -> 1..i]
      BY <2>0, <2>2, <3>1
    <3>3. f[i] \in Seq(S) /\ Len(f[i]) <= i
      BY <2>0, <2>1, <3>1
    <3>4. \A m \in 1..i : list[m] \in kept => \E j \in 1..Len(f[i]) : f[i][j] = list[m]
      BY <2>0, <2>1, <2>3, <3>1
    <3>5. Good(i)
      BY <2>2, <3>1, <3>2, <3>3, <3>4
    <3>6. QED BY <3>5
  <2>4. CASE list[i] \in kept
    <3> DEFINE l == Len(f[i - 1])
               g == [j \in 1..(l + 1) |-> IF j = l + 1 THEN i ELSE h[j]]
    <3>1. f[i] = Append(f[i - 1], list[i])
      BY <1>1, <1>3, <2>4 DEF Copied
    <3>2. l \in Nat /\ f[i - 1] \in Seq(S) /\ l <= i - 1
      BY <2>1, LenProperties
    <3>3. /\ f[i] \in Seq(S) /\ Len(f[i]) = l + 1
          /\ f[i][l + 1] = list[i]
          /\ \A j \in 1..l : f[i][j] = f[i - 1][j]
      BY <2>0, <3>1, <3>2, AppendProperties
    <3>4. g \in [1..Len(f[i]) -> 1..i]
      BY <2>0, <2>2, <3>2, <3>3
    <3>5. ASSUME NEW j \in 1..Len(f[i])
          PROVE  f[i][j] = list[g[j]] /\ list[g[j]] \in kept
      BY <2>2, <2>4, <3>2, <3>3
    <3>6. ASSUME NEW j \in 1..Len(f[i]), NEW k \in 1..Len(f[i]), j < k
          PROVE  g[j] < g[k]
      <4>1. j \in 1..l /\ k \in 1..(l + 1) /\ g[j] = h[j] /\ h[j] \in 1..(i - 1)
        <5>1. j \in 1..l /\ k \in 1..(l + 1)
          BY <3>2, <3>3, <3>6
        <5>2. g[j] = h[j]
          BY <3>2, <5>1
        <5>3. QED BY <2>2, <5>1, <5>2
      <4>2. CASE k = l + 1
        <5>1. g[k] = i
          BY <3>2, <4>2
        <5>2. QED BY <2>0, <4>1, <5>1
      <4>3. CASE k # l + 1
        <5>1. k \in 1..l /\ g[k] = h[k]
          BY <3>2, <4>1, <4>3
        <5>2. QED BY <2>2, <3>6, <4>1, <5>1
      <4>4. QED BY <4>2, <4>3
    <3>7. ASSUME NEW m \in 1..i, list[m] \in kept
          PROVE  \E j \in 1..Len(f[i]) : f[i][j] = list[m]
      <4>1. CASE m = i
        BY <3>2, <3>3, <4>1
      <4>2. CASE m # i
        <5>1. m \in 1..(i - 1)
          BY <2>0, <4>2
        <5>2. PICK j \in 1..l : f[i - 1][j] = list[m]
          BY <2>1, <3>7, <5>1
        <5>3. QED BY <3>2, <3>3, <5>2
      <4>3. QED BY <4>1, <4>2
    <3>8. Len(f[i]) <= i
      BY <2>0, <3>2, <3>3
    <3> HIDE DEF g, l
    <3>9. Good(i)
      BY <3>3, <3>4, <3>5, <3>6, <3>7, <3>8
    <3>10. QED BY <3>9
  <2>5. QED BY <2>3, <2>4
<1> HIDE DEF P
<1>4. Len(list) \in P
  <2>1. \A i \in 0..Len(list) : i \in P
    BY <1>0, <1>2, <1>3, UpTo
  <2>2. QED BY <1>0, <2>1
<1>5. QED BY <1>1, <1>4 DEF P

(* What is copied of a list up to a place depends on the list up to there *)
LEMMA CopiesAgree ==
  ASSUME NEW s, NEW K, NEW f, NEW t, NEW L, NEW g, NEW n \in Nat,
         Len(s) \in Nat, Len(t) \in Nat, n <= Len(s), n <= Len(t),
         Copied(s, K, f), Copied(t, L, g),
         \A i \in 1..n : s[i] = t[i] /\ (s[i] \in K <=> t[i] \in L)
  PROVE  \A i \in 0..n : f[i] = g[i]
<1> DEFINE P == {i \in 0..n : f[i] = g[i]}
<1>1. 0 \in P
  BY DEF Copied
<1>2. ASSUME NEW i \in 0..n, i # 0, i - 1 \in P PROVE i \in P
  <2>1. i \in 1..n /\ i \in 0..Len(s) /\ i \in 0..Len(t) /\ f[i - 1] = g[i - 1]
    BY <1>2
  <2>2. f[i] = IF s[i] \in K THEN Append(f[i - 1], s[i]) ELSE f[i - 1]
    BY <1>2, <2>1 DEF Copied
  <2>3. g[i] = IF t[i] \in L THEN Append(g[i - 1], t[i]) ELSE g[i - 1]
    BY <1>2, <2>1 DEF Copied
  <2>4. QED BY <2>1, <2>2, <2>3
<1> HIDE DEF P
<1>3. \A i \in 0..n : i \in P
  BY <1>1, <1>2, UpTo
<1>4. QED BY <1>3 DEF P

LEMMA SublistAgree ==
  ASSUME NEW S, NEW s \in Seq(S), NEW K, NEW L, \A e \in ToSet(s) : e \in K <=> e \in L
  PROVE  Sublist(s, K) = Sublist(s, L)
<1>1. Len(s) \in Nat /\ DOMAIN s = 1..Len(s)
  BY LenProperties
<1>2. PICK f : Copied(s, K, f) /\ Sublist(s, K) = f[Len(s)]
  BY SublistIsCopy
<1>3. PICK g : Copied(s, L, g) /\ Sublist(s, L) = g[Len(s)]
  BY SublistIsCopy
<1>4. \A i \in 1..Len(s) : s[i] = s[i] /\ (s[i] \in K <=> s[i] \in L)
  BY <1>1 DEF ToSet
<1>5. Len(s) <= Len(s)
  BY <1>1
<1>6. \A i \in 0..Len(s) : f[i] = g[i]
  BY <1>1, <1>2, <1>3, <1>4, <1>5, CopiesAgree
<1>7. QED BY <1>1, <1>2, <1>3, <1>6

LEMMA SublistAppend ==
  ASSUME NEW S, NEW s \in Seq(S), NEW e \in S, NEW K
  PROVE  Sublist(Append(s, e), K) =
           IF e \in K THEN Append(Sublist(s, K), e) ELSE Sublist(s, K)
<1> DEFINE n == Len(s)
           t == Append(s, e)
<1>1. n \in Nat
  BY LenProperties
<1>2. t \in Seq(S) /\ Len(t) = n + 1 /\ t[n + 1] = e /\ \A i \in 1..n : t[i] = s[i]
  BY <1>1, AppendProperties, LenProperties
<1> HIDE DEF t
<1>3. PICK f : Copied(s, K, f) /\ Sublist(s, K) = f[n]
  BY SublistIsCopy
<1>4. PICK g : Copied(t, K, g) /\ Sublist(t, K) = g[n + 1]
  BY <1>2, SublistIsCopy
<1>5. \A i \in 1..n : s[i] = t[i] /\ (s[i] \in K <=> t[i] \in K)
  BY <1>2
<1>6. n <= Len(s) /\ n <= Len(t) /\ Len(t) \in Nat
  BY <1>1, <1>2
<1>7. \A i \in 0..n : f[i] = g[i]
  BY <1>1, <1>3, <1>4, <1>5, <1>6, CopiesAgree
<1>8. n + 1 \in 0..Len(t) /\ n + 1 # 0 /\ (n + 1) - 1 = n
  BY <1>1, <1>2
<1>9. g[n + 1] = IF e \in K THEN Append(g[n], e) ELSE g[n]
  BY <1>2, <1>4, <1>8 DEF Copied
<1>10. g[n] = f[n]
  BY <1>1, <1>7
<1>11. QED BY <1>3, <1>4, <1>9, <1>10 DEF t

LEMMA SublistRemove ==
  ASSUME NEW S, NEW s \in Seq(S), NEW i \in 1..Len(s), NEW K, s[i] \notin K
  PROVE  Sublist(RemoveAt(s, i), K) = Sublist(s, K)
<1> DEFINE n == Len(s)
           t == RemoveAt(s, i)
<1>1. n \in Nat /\ i \in 1..n
  BY LenProperties
<1>2. /\ t \in Seq(S) /\ Len(t) = n - 1
      /\ \A j \in 1..(n - 1) : t[j] = IF j < i THEN s[j] ELSE s[j + 1]
  BY RemoveAtFacts
<1> HIDE DEF t
<1>3. PICK f : Copied(s, K, f) /\ Sublist(s, K) = f[n]
  BY SublistIsCopy
<1>4. PICK g : Copied(t, K, g) /\ Sublist(t, K) = g[n - 1]
  BY <1>2, SublistIsCopy
<1> HIDE DEF n
<1>5. /\ f[0] = <<>> /\ g[0] = <<>>
      /\ \A j \in 1..n : f[j] = IF s[j] \in K THEN Append(f[j - 1], s[j]) ELSE f[j - 1]
      /\ \A j \in 1..(n - 1) : g[j] = IF t[j] \in K THEN Append(g[j - 1], t[j]) ELSE g[j - 1]
  <2>1. 0 \in 0..Len(s) /\ 0 \in 0..Len(t)
    BY <1>1, <1>2 DEF n
  <2>2. \A j \in 1..n : j \in 0..Len(s) /\ j # 0
    BY DEF n
  <2>3. \A j \in 1..(n - 1) : j \in 0..Len(t) /\ j # 0
    BY <1>1, <1>2
  <2>4. QED BY <1>3, <1>4, <2>1, <2>2, <2>3 DEF Copied
<1> DEFINE P == {j \in 0..n : IF j < i THEN f[j] = g[j] ELSE f[j] = g[j - 1]}
<1>6. 0 \in P
  BY <1>1, <1>5
<1>7. ASSUME NEW j \in 0..n, j # 0, j - 1 \in P PROVE j \in P
  <2>1. j \in 1..n
    BY <1>1, <1>7
  <2>2. CASE j < i
    <3>1. j \in 1..(n - 1) /\ f[j - 1] = g[j - 1] /\ t[j] = s[j]
      BY <1>1, <1>2, <1>7, <2>1, <2>2
    <3>2. QED BY <1>5, <2>1, <2>2, <3>1
  <2>3. CASE j = i
    <3>1. f[j - 1] = g[j - 1]
      BY <1>1, <1>7, <2>1, <2>3
    <3>2. QED BY <1>5, <2>1, <2>3, <3>1
  <2>4. CASE j > i
    <3>1. j - 1 \in 1..(n - 1) /\ ~(j - 1 < i) /\ (j - 1) + 1 = j
      BY <1>1, <2>1, <2>4
    <3>2. t[j - 1] = s[j] /\ f[j - 1] = g[(j - 1) - 1]
      BY <1>2, <1>7, <3>1
    <3>3. g[j - 1] = IF t[j - 1] \in K THEN Append(g[(j - 1) - 1], t[j - 1]) ELSE g[(j - 1) - 1]
      BY <1>5, <3>1
    <3>4. f[j] = IF s[j] \in K THEN Append(f[j - 1], s[j]) ELSE f[j - 1]
      BY <1>5, <2>1
    <3>5. f[j] = g[j - 1]
      BY <3>2, <3>3, <3>4
    <3>6. ~(j < i)
      BY <1>1, <2>1, <2>4
    <3>7. QED BY <3>5, <3>6
  <2>5. QED BY <1>1, <2>1, <2>2, <2>3, <2>4
<1> HIDE DEF P
<1>8. \A j \in 0..n : j \in P
  BY <1>1, <1>6, <1>7, UpTo
<1>9. f[n] = g[n - 1]
  <2>1. n \in P /\ ~(n < i)
    BY <1>1, <1>8
  <2>2. QED BY <2>1 DEF P
<1>10. QED BY <1>3, <1>4, <1>9 DEF t

LEMMA SublistTwice ==
  ASSUME NEW S, NEW s \in Seq(S), NEW K, NEW L, \A e \in ToSet(s) : e \in L => e \in K
  PROVE  Sublist(Sublist(s, K), L) = Sublist(s, L)
<1> DEFINE n == Len(s)
<1>1. n \in Nat /\ DOMAIN s = 1..n /\ \A j \in 1..n : s[j] \in S
  BY LenProperties, ElementOfSeq
<1>2. PICK f : Copied(s, K, f) /\ Sublist(s, K) = f[n]
  BY SublistIsCopy
<1>3. PICK h : Copied(s, L, h) /\ Sublist(s, L) = h[n]
  BY SublistIsCopy
<1>4. /\ f[0] = <<>> /\ h[0] = <<>>
      /\ \A j \in 1..n : f[j] = IF s[j] \in K THEN Append(f[j - 1], s[j]) ELSE f[j - 1]
      /\ \A j \in 1..n : h[j] = IF s[j] \in L THEN Append(h[j - 1], s[j]) ELSE h[j - 1]
  <2>1. 0 \in 0..n /\ \A j \in 1..n : j \in 0..n /\ j # 0
    BY <1>1
  <2>2. QED BY <1>2, <1>3, <2>1 DEF Copied
<1> HIDE DEF n
<1> DEFINE P == {j \in 0..n : f[j] \in Seq(S) /\ Sublist(f[j], L) = h[j]}
<1>5. 0 \in P
  <2>1. <<>> \in Seq(S) /\ Len(<<>>) = 0
    OBVIOUS
  <2>2. PICK g : Copied(<<>>, L, g) /\ Sublist(<<>>, L) = g[Len(<<>>)]
    BY <2>1, SublistIsCopy
  <2>3. g[0] = <<>>
    BY <2>1, <2>2 DEF Copied
  <2>4. f[0] \in Seq(S) /\ Sublist(f[0], L) = h[0]
    BY <1>4, <2>1, <2>2, <2>3
  <2>5. QED BY <1>1, <2>4
<1>6. ASSUME NEW j \in 0..n, j # 0, j - 1 \in P PROVE j \in P
  <2>1. j \in 1..n /\ s[j] \in S /\ s[j] \in ToSet(s)
    BY <1>1, <1>6 DEF ToSet
  <2>2. f[j - 1] \in Seq(S) /\ Sublist(f[j - 1], L) = h[j - 1]
    BY <1>6
  <2>3. CASE s[j] \in K
    <3>1. f[j] = Append(f[j - 1], s[j])
      BY <1>4, <2>1, <2>3
    <3>2. f[j] \in Seq(S)
      BY <2>1, <2>2, <3>1, AppendProperties
    <3>3. Sublist(f[j], L) = IF s[j] \in L THEN Append(h[j - 1], s[j]) ELSE h[j - 1]
      <4> DEFINE p == f[j - 1]
                 e == s[j]
      <4>1. p \in Seq(S) /\ e \in S
        BY <2>1, <2>2
      <4>2. Sublist(Append(p, e), L) = IF e \in L THEN Append(Sublist(p, L), e) ELSE Sublist(p, L)
        <5> HIDE DEF p, e
        <5>1. QED BY <4>1, SublistAppend
      <4>3. QED BY <2>2, <3>1, <4>2
    <3>4. QED BY <1>4, <2>1, <3>2, <3>3
  <2>4. CASE s[j] \notin K
    <3>1. f[j] = f[j - 1] /\ s[j] \notin L
      BY <1>4, <2>1, <2>4
    <3>2. QED BY <1>4, <2>1, <2>2, <3>1
  <2>5. QED BY <2>3, <2>4
<1> HIDE DEF P
<1>7. \A j \in 0..n : j \in P
  BY <1>1, <1>5, <1>6, UpTo
<1>8. n \in P
  BY <1>1, <1>7
<1>9. QED BY <1>2, <1>3, <1>8 DEF P

-----------------------------------------------------------------------------
(* How many elements of a list are in a set *)

Positions(s, T) == {i \in DOMAIN s : s[i] \in T}

CountIn(s, T) == Cardinality(Positions(s, T))

(* 1 for an element of the set, 0 for another one *)
One(e, T) == IF e \in T THEN 1 ELSE 0

LEMMA CountType ==
  ASSUME NEW S, NEW s \in Seq(S), NEW T
  PROVE  /\ IsFiniteSet(Positions(s, T)) /\ CountIn(s, T) \in Nat
         /\ CountIn(s, T) = 0 <=> \A i \in DOMAIN s : s[i] \notin T
<1>1. DOMAIN s = 1..Len(s) /\ Len(s) \in Nat
  BY LenProperties
<1>2. IsFiniteSet(1..Len(s))
  BY <1>1, FS_Interval
<1>3. Positions(s, T) \in SUBSET (1..Len(s))
  BY <1>1 DEF Positions
<1>4. IsFiniteSet(Positions(s, T))
  BY <1>2, <1>3, FS_Subset
<1>5. Cardinality(Positions(s, T)) \in Nat
      /\ (Cardinality(Positions(s, T)) = 0 <=> Positions(s, T) = {})
  BY <1>4, FS_CardinalityType, FS_EmptySet
<1>6. QED BY <1>4, <1>5 DEF CountIn, Positions

LEMMA CountAppend ==
  ASSUME NEW S, NEW s \in Seq(S), NEW e \in S, NEW T
  PROVE  CountIn(Append(s, e), T) = CountIn(s, T) + One(e, T)
<1> DEFINE t == Append(s, e)
           n == Len(s)
<1>1. DOMAIN s = 1..n /\ n \in Nat
  BY LenProperties
<1>2. DOMAIN t = 1..(n + 1) /\ t[n + 1] = e /\ \A i \in 1..n : t[i] = s[i]
  BY <1>1, AppendProperties, LenProperties
<1> HIDE DEF t, n
<1>3. n + 1 \notin Positions(s, T)
  BY <1>1 DEF Positions
<1>4. \A i : i \in 1..(n + 1) <=> i \in 1..n \/ i = n + 1
  BY <1>1
<1>5. Positions(t, T) = IF e \in T THEN Positions(s, T) \cup {n + 1} ELSE Positions(s, T)
  BY <1>1, <1>2, <1>4 DEF Positions
<1>6. IsFiniteSet(Positions(s, T)) /\ Cardinality(Positions(s, T)) \in Nat
  BY CountType DEF CountIn
<1>7. Cardinality(Positions(s, T) \cup {n + 1}) = Cardinality(Positions(s, T)) + 1
  BY <1>3, <1>6, FS_AddElement
<1>8. QED BY <1>5, <1>6, <1>7 DEF CountIn, One, t

LEMMA CountReplace ==
  ASSUME NEW S, NEW s \in Seq(S), NEW i \in 1..Len(s), NEW e, NEW T
  PROVE  CountIn([s EXCEPT ![i] = e], T) = (CountIn(s, T) - One(s[i], T)) + One(e, T)
<1> DEFINE t == [s EXCEPT ![i] = e]
           A == Positions(s, T)
<1>1. DOMAIN s = 1..Len(s)
  BY LenProperties
<1>2. DOMAIN t = DOMAIN s /\ t[i] = e /\ \A j \in DOMAIN s : j # i => t[j] = s[j]
  BY <1>1
<1> HIDE DEF t
<1>3. Positions(t, T) = IF e \in T THEN (A \ {i}) \cup {i} ELSE A \ {i}
  BY <1>1, <1>2 DEF Positions
<1>4. i \in A <=> s[i] \in T
  BY <1>1 DEF Positions
<1>5. IsFiniteSet(A) /\ Cardinality(A) \in Nat
  BY CountType DEF CountIn
<1> HIDE DEF A
<1>6. IsFiniteSet(A \ {i}) /\ Cardinality(A \ {i}) = Cardinality(A) - One(s[i], T)
  BY <1>4, <1>5, FS_RemoveElement DEF One
<1>7. Cardinality((A \ {i}) \cup {i}) = Cardinality(A \ {i}) + 1
  BY <1>6, FS_AddElement
<1>8. Cardinality(A) - One(s[i], T) \in Int
  BY <1>5 DEF One
<1>9. QED BY <1>3, <1>6, <1>7, <1>8 DEF CountIn, One, t, A

LEMMA CountRemove ==
  ASSUME NEW S, NEW s \in Seq(S), NEW i \in 1..Len(s), NEW T
  PROVE  CountIn(RemoveAt(s, i), T) = CountIn(s, T) - One(s[i], T)
<1> DEFINE t == RemoveAt(s, i)
           n == Len(s)
           A == Positions(s, T) \ {i}
           B == Positions(t, T)
           up(j) == IF j < i THEN j ELSE j + 1
           f == [j \in B |-> up(j)]
<1>1. DOMAIN s = 1..n /\ n \in Nat /\ i \in 1..n
  BY LenProperties
<1>2. /\ t \in Seq(S) /\ Len(t) = n - 1
      /\ \A j \in 1..(n - 1) : t[j] = IF j < i THEN s[j] ELSE s[j + 1]
  BY RemoveAtFacts
<1>3. DOMAIN t = 1..(n - 1)
  BY <1>2, LenProperties
<1> HIDE DEF t, n
<1>4. \A j \in 1..(n - 1) : up(j) \in 1..n /\ up(j) # i /\ t[j] = s[up(j)]
  BY <1>1, <1>2
<1>5. \A j \in 1..n : j # i => \E k \in 1..(n - 1) : up(k) = j
  <2> SUFFICES ASSUME NEW j \in 1..n, j # i PROVE \E k \in 1..(n - 1) : up(k) = j
    OBVIOUS
  <2>1. CASE j < i
    <3>1. j \in 1..(n - 1) /\ up(j) = j
      BY <1>1, <2>1
    <3>2. QED BY <3>1
  <2>2. CASE j > i
    <3>1. j - 1 \in 1..(n - 1) /\ up(j - 1) = j
      BY <1>1, <2>2
    <3>2. QED BY <3>1
  <2>3. QED BY <1>1, <2>1, <2>2
<1>6. \A j, k \in 1..(n - 1) : up(j) = up(k) => j = k
  BY <1>1
<1> HIDE DEF up
<1>7. B \subseteq 1..(n - 1)
  BY <1>3 DEF Positions
<1>8. \A j \in B : up(j) \in A
  BY <1>1, <1>3, <1>4, <1>7 DEF Positions
<1>9. \A a \in A : \E j \in B : up(j) = a
  <2> SUFFICES ASSUME NEW a \in A PROVE \E j \in B : up(j) = a
    OBVIOUS
  <2>1. a \in 1..n /\ a # i /\ s[a] \in T
    BY <1>1 DEF Positions
  <2>2. PICK k \in 1..(n - 1) : up(k) = a
    BY <1>5, <2>1
  <2>3. k \in B
    BY <1>3, <1>4, <2>1, <2>2 DEF Positions
  <2>4. QED BY <2>2, <2>3
<1>10. IsFiniteSet(Positions(s, T)) /\ IsFiniteSet(B)
  BY <1>2, CountType
<1>11. /\ IsFiniteSet(A)
       /\ Cardinality(A) = Cardinality(Positions(s, T)) - One(s[i], T)
  <2>1. i \in Positions(s, T) <=> s[i] \in T
    BY <1>1 DEF Positions
  <2>2. Cardinality(Positions(s, T)) \in Nat
    BY <1>10, FS_CardinalityType
  <2>3. QED BY <1>10, <2>1, <2>2, FS_RemoveElement DEF One
<1> HIDE DEF A, B
<1>12. f \in [B -> A] /\ \A j \in B : f[j] = up(j)
  BY <1>8
<1> HIDE DEF f
<1>13. f \in Bijection(B, A)
  <2>1. f \in Injection(B, A)
    BY <1>6, <1>7, <1>12, Fun_IsInj
  <2>2. f \in Surjection(B, A)
    BY <1>9, <1>12, Fun_IsSurj
  <2>3. QED BY <2>1, <2>2 DEF Bijection
<1>14. Cardinality(A) = Cardinality(B)
  <2>1. ExistsBijection(B, A)
    BY <1>13 DEF ExistsBijection
  <2>2. QED BY <1>10, <2>1, FS_Bijection
<1>15. QED BY <1>11, <1>14 DEF CountIn, B, t


(* A sublist that keeps all of T has as many of them *)
LEMMA CountSublist ==
  ASSUME NEW S, NEW s \in Seq(S), NEW K, NEW T \in SUBSET K
  PROVE  CountIn(Sublist(s, K), T) = CountIn(s, T)
<1> DEFINE n == Len(s)
           C(i) == {j \in 1..i : s[j] \in T}
<1>1. n \in Nat /\ DOMAIN s = 1..n /\ \A j \in 1..n : s[j] \in S
  BY LenProperties, ElementOfSeq
<1>2. PICK f : Copied(s, K, f) /\ Sublist(s, K) = f[n]
  BY SublistIsCopy
<1> DEFINE P == {i \in 0..n : f[i] \in Seq(S) /\ CountIn(f[i], T) = Cardinality(C(i))}
<1>3. 0 \in P
  <2>1. f[0] = << >>
    BY <1>1, <1>2 DEF Copied
  <2>2. << >> \in Seq(S) /\ DOMAIN << >> = {}
    OBVIOUS
  <2>3. Positions(<< >>, T) = {}
    BY <2>2 DEF Positions
  <2>4. C(0) = {}
    OBVIOUS
  <2>5. 0 \in 0..n
    BY <1>1
  <2>6. QED BY <2>1, <2>2, <2>3, <2>4, <2>5 DEF CountIn
<1>4. ASSUME NEW i \in 0..n, i # 0, i - 1 \in P PROVE i \in P
  <2> DEFINE t == f[i - 1]
             c == Cardinality(C(i - 1))
  <2>1. t \in Seq(S) /\ CountIn(t, T) = c
    BY <1>4
  <2>2. i \in 1..n /\ s[i] \in S
    BY <1>1, <1>4
  <2>3. f[i] = IF s[i] \in K THEN Append(t, s[i]) ELSE t
    BY <1>2, <1>4 DEF Copied
  <2>4. c \in Nat
    BY <2>1, CountType
  <2>5. Cardinality(C(i)) = IF s[i] \in T THEN c + 1 ELSE c
    <3>1. C(i) = IF s[i] \in T THEN C(i - 1) \cup {i} ELSE C(i - 1)
      BY <1>1, <2>2
    <3>2. i \notin C(i - 1)
      BY <1>1, <2>2
    <3>3. IsFiniteSet(C(i - 1))
      <4>1. IsFiniteSet(1..(i - 1))
        BY <1>1, <2>2, FS_Interval
      <4>2. C(i - 1) \in SUBSET (1..(i - 1))
        OBVIOUS
      <4> HIDE DEF C
      <4>3. QED BY <4>1, <4>2, FS_Subset
    <3> HIDE DEF C
    <3>4. Cardinality(C(i - 1) \cup {i}) = c + 1
      BY <3>2, <3>3, FS_AddElement
    <3>5. QED BY <3>1, <3>4
  <2> HIDE DEF t, c, C
  <2>6. CASE s[i] \in K
    <3>1. f[i] = Append(t, s[i])
      BY <2>3, <2>6
    <3>2. Append(t, s[i]) \in Seq(S)
      BY <2>1, <2>2
    <3>3. CountIn(Append(t, s[i]), T) = c + One(s[i], T)
      BY <2>1, <2>2, CountAppend
    <3>4. c + One(s[i], T) = IF s[i] \in T THEN c + 1 ELSE c
      BY <2>4 DEF One
    <3>5. QED BY <1>4, <2>5, <3>1, <3>2, <3>3, <3>4
  <2>7. CASE s[i] \notin K
    BY <1>4, <2>1, <2>3, <2>5, <2>7
  <2>8. QED BY <2>6, <2>7
<1> HIDE DEF P
<1>5. n \in P
  <2>1. \A i \in 0..n : i \in P
    BY <1>1, <1>3, <1>4, UpTo
  <2>2. QED BY <1>1, <2>1
<1>6. C(n) = Positions(s, T)
  BY <1>1 DEF Positions
<1>7. QED BY <1>2, <1>5, <1>6 DEF P, CountIn

-----------------------------------------------------------------------------
(* Lists of keyed records, in the order of the operations on them *)

(* No two entries of a list of keyed records have the same key *)
UniqueKeys(list) == \A i, j \in DOMAIN list : list[i].key = list[j].key => i = j

KeysOf(list) == {list[i].key : i \in DOMAIN list}

LEMMA DomainIsLen ==
  ASSUME NEW S, NEW s \in Seq(S)
  PROVE  DOMAIN s = 1..Len(s) /\ Len(s) \in Nat /\ \A i \in 1..Len(s) : s[i] \in S
BY LenProperties, ElementOfSeq

LEMMA KeysOfSet ==
  ASSUME NEW s
  PROVE  KeysOf(s) = {e.key : e \in ToSet(s)}
<1>1. ASSUME NEW k \in KeysOf(s) PROVE k \in {e.key : e \in ToSet(s)}
  BY DEF KeysOf, ToSet
<1>2. ASSUME NEW e \in ToSet(s) PROVE e.key \in KeysOf(s)
  BY DEF KeysOf, ToSet
<1>3. QED BY <1>1, <1>2

LEMMA AppendKeyed ==
  ASSUME NEW S, NEW s \in Seq(S), NEW e \in S
  PROVE  /\ Append(s, e) \in Seq(S)
         /\ ToSet(Append(s, e)) = ToSet(s) \cup {e}
         /\ KeysOf(Append(s, e)) = KeysOf(s) \cup {e.key}
         /\ (UniqueKeys(s) /\ e.key \notin KeysOf(s)) => UniqueKeys(Append(s, e))
<1> DEFINE t == Append(s, e)
           n == Len(s)
<1>1. DOMAIN s = 1..n /\ n \in Nat
  BY DomainIsLen
<1>2. /\ t \in Seq(S) /\ DOMAIN t = 1..(n + 1) /\ t[n + 1] = e
      /\ \A i \in 1..n : t[i] = s[i]
  BY <1>1, AppendProperties, DomainIsLen
<1> HIDE DEF t, n
<1>3. \A i \in 1..(n + 1) : i \in 1..n \/ i = n + 1
  BY <1>1
<1>4. 1..n \subseteq 1..(n + 1) /\ n + 1 \in 1..(n + 1)
  BY <1>1
<1>5. ToSet(t) = ToSet(s) \cup {e}
  BY <1>1, <1>2, <1>3, <1>4 DEF ToSet
<1>6. KeysOf(t) = KeysOf(s) \cup {e.key}
  BY <1>1, <1>2, <1>3, <1>4 DEF KeysOf
<1>7. (UniqueKeys(s) /\ e.key \notin KeysOf(s)) => UniqueKeys(t)
  BY <1>1, <1>2, <1>3, <1>4 DEF KeysOf, UniqueKeys
<1>8. QED BY <1>2, <1>5, <1>6, <1>7 DEF t

LEMMA ConsKeyed ==
  ASSUME NEW S, NEW s \in Seq(S), NEW e \in S
  PROVE  /\ Cons(e, s) \in Seq(S)
         /\ ToSet(Cons(e, s)) = ToSet(s) \cup {e}
         /\ KeysOf(Cons(e, s)) = KeysOf(s) \cup {e.key}
         /\ (UniqueKeys(s) /\ e.key \notin KeysOf(s)) => UniqueKeys(Cons(e, s))
<1> DEFINE t == Cons(e, s)
           n == Len(s)
<1>1. DOMAIN s = 1..n /\ n \in Nat
  BY DomainIsLen
<1>2. /\ t \in Seq(S) /\ DOMAIN t = 1..(n + 1) /\ t[1] = e
      /\ \A i \in 2..(n + 1) : t[i] = s[i - 1]
  BY <1>1, ConsFacts, DomainIsLen
<1> HIDE DEF t, n
<1>3. \A i \in 1..(n + 1) : i = 1 \/ (i \in 2..(n + 1) /\ i - 1 \in 1..n)
  BY <1>1
<1>4. 1 \in 1..(n + 1) /\ \A i \in 1..n : /\ i + 1 \in 2..(n + 1) /\ i + 1 \in 1..(n + 1)
                                         /\ (i + 1) - 1 = i
  BY <1>1
<1>5. \A i \in 1..n : t[i + 1] = s[i]
  BY <1>2, <1>4
<1>6. ToSet(t) = ToSet(s) \cup {e}
  <2>1. ASSUME NEW i \in 1..(n + 1) PROVE t[i] \in ToSet(s) \cup {e}
    BY <1>1, <1>2, <1>3 DEF ToSet
  <2>2. ASSUME NEW i \in 1..n PROVE s[i] \in ToSet(t)
    BY <1>2, <1>4, <1>5 DEF ToSet
  <2>3. e \in ToSet(t)
    BY <1>2, <1>4 DEF ToSet
  <2>4. QED BY <1>1, <1>2, <2>1, <2>2, <2>3 DEF ToSet
<1>7. KeysOf(t) = KeysOf(s) \cup {e.key}
  BY <1>6, KeysOfSet
<1>8. ASSUME UniqueKeys(s), e.key \notin KeysOf(s) PROVE UniqueKeys(t)
  <2> SUFFICES ASSUME NEW i \in 1..(n + 1), NEW j \in 1..(n + 1), t[i].key = t[j].key
               PROVE  i = j
    BY <1>2 DEF UniqueKeys
  <2>1. CASE i = 1 \/ j = 1
    BY <1>1, <1>2, <1>3, <1>8, <2>1 DEF KeysOf
  <2>2. CASE i # 1 /\ j # 1
    <3>1. i - 1 \in DOMAIN s /\ j - 1 \in DOMAIN s /\ s[i - 1].key = s[j - 1].key
      BY <1>1, <1>2, <1>3, <2>2
    <3>2. i - 1 = j - 1
      BY <1>8, <3>1 DEF UniqueKeys
    <3>3. QED BY <3>2, <1>1
  <2>3. QED BY <2>1, <2>2
<1>9. QED BY <1>2, <1>6, <1>7, <1>8 DEF t

LEMMA RemoveKeyed ==
  ASSUME NEW S, NEW s \in Seq(S), NEW i \in 1..Len(s)
  PROVE  /\ RemoveAt(s, i) \in Seq(S)
         /\ ToSet(RemoveAt(s, i)) \subseteq ToSet(s)
         /\ {e \in ToSet(s) : e.key # s[i].key} \subseteq ToSet(RemoveAt(s, i))
         /\ UniqueKeys(s) => /\ UniqueKeys(RemoveAt(s, i))
                             /\ ToSet(RemoveAt(s, i)) = {e \in ToSet(s) : e.key # s[i].key}
                             /\ KeysOf(RemoveAt(s, i)) = KeysOf(s) \ {s[i].key}
<1> DEFINE t == RemoveAt(s, i)
           n == Len(s)
<1>1. DOMAIN s = 1..n /\ n \in Nat
  BY DomainIsLen
<1>2. /\ t \in Seq(S) /\ DOMAIN t = 1..(n - 1)
      /\ \A j \in 1..(n - 1) : t[j] = IF j < i THEN s[j] ELSE s[j + 1]
  <2>1. /\ t \in Seq(S) /\ Len(t) = n - 1
        /\ \A j \in 1..(n - 1) : t[j] = IF j < i THEN s[j] ELSE s[j + 1]
    BY RemoveAtFacts
  <2> HIDE DEF t, n
  <2>2. QED BY <2>1, DomainIsLen
<1> HIDE DEF t
<1> DEFINE at(j) == IF j < i THEN j ELSE j + 1
<1>3. \A j \in 1..(n - 1) : at(j) \in 1..n /\ at(j) # i /\ t[j] = s[at(j)]
  BY <1>1, <1>2
<1>4. \A j, k \in 1..(n - 1) : at(j) = at(k) => j = k
  BY <1>1
<1>5. \A j \in 1..n : j # i => \E k \in 1..(n - 1) : at(k) = j
  <2> SUFFICES ASSUME NEW j \in 1..n, j # i PROVE \E k \in 1..(n - 1) : at(k) = j
    OBVIOUS
  <2>1. CASE j < i
    BY <1>1, <2>1
  <2>2. CASE j > i
    <3>1. j - 1 \in 1..(n - 1) /\ at(j - 1) = j
      BY <1>1, <2>2
    <3>2. QED BY <3>1
  <2>3. QED BY <1>1, <2>1, <2>2
<1> HIDE DEF at, n
<1>6. ToSet(t) \subseteq ToSet(s)
  BY <1>1, <1>2, <1>3 DEF ToSet
<1>7. i \in 1..n
  BY DEF n
<1>8. ASSUME NEW e \in ToSet(s), e.key # s[i].key PROVE e \in ToSet(t)
  <2>1. PICK j \in 1..n : e = s[j]
    BY <1>1 DEF ToSet
  <2>2. PICK k \in 1..(n - 1) : t[k] = s[j]
    BY <1>3, <1>5, <1>8, <2>1
  <2>3. QED BY <1>2, <2>1, <2>2 DEF ToSet
<1>9. ASSUME UniqueKeys(s)
      PROVE  /\ UniqueKeys(t) /\ ToSet(t) = {e \in ToSet(s) : e.key # s[i].key}
             /\ KeysOf(t) = KeysOf(s) \ {s[i].key}
  <2>1. \A j \in 1..n : s[j].key = s[i].key <=> j = i
    BY <1>1, <1>7, <1>9 DEF UniqueKeys
  <2>2. UniqueKeys(t)
    BY <1>1, <1>2, <1>3, <1>4, <1>9 DEF UniqueKeys
  <2>3. ToSet(t) = {e \in ToSet(s) : e.key # s[i].key}
    <3>1. ASSUME NEW j \in 1..(n - 1) PROVE t[j] \in ToSet(s) /\ t[j].key # s[i].key
      BY <1>1, <1>3, <2>1 DEF ToSet
    <3>3. ASSUME NEW e \in ToSet(t) PROVE e \in ToSet(s) /\ e.key # s[i].key
      <4>1. PICK j \in 1..(n - 1) : e = t[j]
        BY <1>2 DEF ToSet
      <4>2. QED BY <3>1, <4>1
    <3>4. QED BY <1>8, <3>3
  <2>4. KeysOf(t) = KeysOf(s) \ {s[i].key}
    BY <2>3, KeysOfSet
  <2>5. QED BY <2>2, <2>3, <2>4
<1>10. QED BY <1>2, <1>6, <1>9, <1>8 DEF t
=============================================================================
