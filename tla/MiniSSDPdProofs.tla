-------------------------- MODULE MiniSSDPdProofs --------------------------
(***************************************************************************)
(* Proofs about MiniSSDPd: what a client reads are whole messages, and a   *)
(* client that follows the lists knows what they hold.                     *)
(***************************************************************************)
EXTENDS MiniSSDPd, ListLemmas

DeviceEntries == [id : Devices, loc : Seq(STRING), t : Nat]
ServiceEntries == [id : Services, loc : Seq(STRING)]

(* What travels to a client *)
Units == Entries \cup [n : Nat] \cup {Zero, Version} \cup [notif : {"NEW", "REMOVE"}]

(* What travels from a client *)
Requests == {Request(type, NoArg) : type \in {"all", "version", "notif"}}
            \cup {Request("type", t) : t \in Types}
            \cup {Request("usn", [id |-> id]) : id \in Devices}
            \cup {Request("submit", Known[i]) : i \in DOMAIN Known}
Inputs == [r : Requests, part : {1, 2}]

(* The fields of a connection, of which step and left are not typed *)
IsConn(q) ==
  q \in [open : BOOLEAN, peer : BOOLEAN, step : {q.step}, in : Seq(Inputs),
         notify : BOOLEAN, out : Seq(Units), sock : Seq(Units), wanted : Seq(Units),
         known : SUBSET (Devices \cup Services), left : {q.left}, todo : Nat \ {0},
         sigpipe : BOOLEAN]

(* The socket and then the buffer of the daemon have what the client       *)
(* should still read; what was buffered is lost when the daemon closes     *)
Frames(q) ==
  q.peer => /\ q.open => q.wanted = q.sock \o q.out
            /\ \E rest \in Seq(Units) : q.wanted = q.sock \o rest

ConnOK(q) ==
  /\ IsConn(q)
  /\ Len(q.sock) <= SockBuf
  /\ q.notify => q.open
  /\ ~q.open => q.out = <<>>
  /\ q.step = "idle" => q = Free
  /\ Frames(q)

(* Two connections that differ in their output only *)
SameInput(p, q) ==
  /\ p.open = q.open /\ p.peer = q.peer /\ p.step = q.step /\ p.in = q.in
  /\ p.notify = q.notify /\ p.known = q.known /\ p.left = q.left /\ p.todo = q.todo

-----------------------------------------------------------------------------
(* Output *)

LEMMA SplitAt ==
  ASSUME NEW S, NEW s \in Seq(S), NEW n \in 0..Len(s)
  PROVE  /\ SubSeq(s, 1, n) \in Seq(S) /\ Len(SubSeq(s, 1, n)) = n
         /\ SubSeq(s, n + 1, Len(s)) \in Seq(S)
         /\ SubSeq(s, 1, n) \o SubSeq(s, n + 1, Len(s)) = s
<1>1. Len(s) \in Nat /\ \A i \in 1..Len(s) : s[i] \in S
  BY LenProperties, ElementOfSeq
<1>2. SubSeq(s, 1, n) \in Seq(S) /\ Len(SubSeq(s, 1, n)) = IF 1 <= n THEN n - 1 + 1 ELSE 0
  <2>1. \A i \in 1..n : s[i] \in S
    BY <1>1
  <2>2. 1 \in Int /\ n \in Int
    BY <1>1
  <2>3. QED BY <2>1, <2>2, SubSeqProperties
<1>3. SubSeq(s, n + 1, Len(s)) \in Seq(S)
  <2>1. \A i \in (n + 1)..Len(s) : s[i] \in S
    BY <1>1
  <2>2. n + 1 \in Int /\ Len(s) \in Int
    BY <1>1
  <2>3. QED BY <2>1, <2>2, SubSeqProperties
<1>4. SubSeq(s, 1, n) \o SubSeq(s, n + 1, Len(s)) = SubSeq(s, 1, Len(s))
  <2>1. 1 \in 1..Len(s) + 1 /\ n \in 1 - 1..Len(s) /\ Len(s) \in n..Len(s)
    BY <1>1
  <2>2. QED BY <2>1, ConcatAdjacentSubSeq
<1>5. SubSeq(s, 1, Len(s)) = s
  BY SubSeqFull
<1>6. Len(SubSeq(s, 1, n)) = n
  BY <1>1, <1>2
<1>7. SubSeq(s, 1, n) \o SubSeq(s, n + 1, Len(s)) = s
  BY <1>4, <1>5
<1>8. QED BY <1>2, <1>3, <1>6, <1>7

LEMMA ConcatUnits ==
  ASSUME NEW s \in Seq(Units), NEW t \in Seq(Units), NEW u \in Seq(Units)
  PROVE  (s \o t) \o u = s \o (t \o u)
BY ConcatAssociative

LEMMA RoomBound ==
  ASSUME NEW q, q.sock \in Seq(Units), Len(q.sock) <= SockBuf,
         NEW data \in Seq(Units)
  PROVE  Room(q, data) \in 0..Len(data) /\ Len(q.sock) + Room(q, data) <= SockBuf
<1>1. SockBuf \in Nat /\ Len(q.sock) \in Nat /\ Len(data) \in Nat
  BY MiniSSDPdAssumption, LenProperties
<1> DEFINE I == {Len(data), SockBuf - Len(q.sock)}
<1>2. I \in SUBSET Nat /\ I # {}
  BY <1>1
<1>3. Min(I) \in I /\ \A j \in I : Min(I) <= j
  BY <1>2, MinIsLeast
<1>4. QED BY <1>1, <1>3 DEF Room

(* The output of a connection replaced *)
Put(q, u, v, w) == [q EXCEPT !.sock = u, !.out = v, !.wanted = w]

LEMMA PutFacts ==
  ASSUME NEW q, IsConn(q),
         NEW u \in Seq(Units), NEW v \in Seq(Units), NEW w \in Seq(Units)
  PROVE  /\ IsConn(Put(q, u, v, w)) /\ SameInput(Put(q, u, v, w), q)
         /\ Put(q, u, v, w).sock = u /\ Put(q, u, v, w).out = v /\ Put(q, u, v, w).wanted = w
BY DEF IsConn, SameInput, Put

(* A connection that a write() found broken *)
LEMMA BrokenOK ==
  ASSUME NEW q, ConnOK(q), q.open
  PROVE  ConnOK(Broken(q)) /\ SameInput(Broken(q), q) /\ Broken(q).wanted = q.wanted
<1> DEFINE p == Broken(q)
<1>1. /\ IsConn(p) /\ SameInput(p, q)
      /\ p.sock = q.sock /\ p.out = q.out /\ p.wanted = q.wanted
  BY DEF ConnOK, IsConn, SameInput, Broken
<1>2. q.step # "idle"
  BY DEF ConnOK, Free
<1> HIDE DEF p
<1>3. Frames(p)
  BY <1>1 DEF Frames, SameInput, ConnOK
<1>4. ConnOK(p)
  BY <1>1, <1>2, <1>3 DEF ConnOK, SameInput
<1>5. QED BY <1>1, <1>4 DEF p

(* It is a good connection if the output is what the client should read *)
LEMMA PutOK ==
  ASSUME NEW q, ConnOK(q), q.open,
         NEW u \in Seq(Units), NEW v \in Seq(Units), NEW w \in Seq(Units),
         Len(u) <= SockBuf, q.peer => w = u \o v
  PROVE  ConnOK(Put(q, u, v, w))
<1> DEFINE p == Put(q, u, v, w)
<1>1. /\ IsConn(p) /\ SameInput(p, q)
      /\ p.sock = u /\ p.out = v /\ p.wanted = w
  BY PutFacts DEF ConnOK
<1>2. q.step # "idle"
  BY DEF ConnOK, Free
<1> HIDE DEF p
<1>3. Frames(p)
  BY <1>1 DEF Frames, SameInput
<1>4. ConnOK(p)
  BY <1>1, <1>2, <1>3 DEF ConnOK, SameInput
<1>5. QED BY <1>4 DEF p

LEMMA WriteBufferOK ==
  ASSUME NEW q, ConnOK(q), q.open
  PROVE  /\ ConnOK(write_buffer(q)) /\ SameInput(write_buffer(q), q)
         /\ write_buffer(q).wanted = q.wanted
<1>1. CASE q.out = <<>> \/ ~q.peer
  <2>1. CASE q.out = <<>>
    BY <2>1 DEF write_buffer, SameInput
  <2>2. CASE q.out # <<>>
    BY <1>1, <2>2, BrokenOK DEF write_buffer
  <2>3. QED BY <2>1, <2>2
<1>2. CASE ~(q.out = <<>> \/ ~q.peer)
  <2> DEFINE n == Room(q, q.out)
             a == SubSeq(q.out, 1, n)
             b == SubSeq(q.out, n + 1, Len(q.out))
  <2>1. q.sock \in Seq(Units) /\ q.out \in Seq(Units) /\ q.wanted \in Seq(Units) /\ IsConn(q)
    BY DEF ConnOK, IsConn
  <2>2. n \in 0..Len(q.out) /\ Len(q.sock) + n <= SockBuf
    BY <2>1, RoomBound DEF ConnOK
  <2>3. a \in Seq(Units) /\ Len(a) = n /\ b \in Seq(Units) /\ a \o b = q.out
    BY <2>1, <2>2, SplitAt
  <2>4. write_buffer(q) = Put(q, q.sock \o a, b, q.wanted)
    BY <1>2, <2>1 DEF write_buffer, Written, IsConn, Put
  <2> HIDE DEF a, b, n
  <2>5. q.sock \o a \in Seq(Units) /\ Len(q.sock \o a) <= SockBuf
    BY <2>1, <2>2, <2>3, ConcatProperties, ZenonT(40)
  <2>6. (q.sock \o a) \o b = q.sock \o q.out
    <3>1. q.sock \in Seq(Units) /\ a \in Seq(Units) /\ b \in Seq(Units)
      BY <2>1, <2>3
    <3>2. (q.sock \o a) \o b = q.sock \o (a \o b)
      BY <3>1, ConcatUnits
    <3>3. QED BY <2>3, <3>2
  <2>7. q.wanted = (q.sock \o a) \o b
    BY <1>2, <2>6 DEF ConnOK, Frames
  <2>8. ConnOK(Put(q, q.sock \o a, b, q.wanted))
    BY <2>1, <2>3, <2>5, <2>7, PutOK
  <2>9. /\ SameInput(Put(q, q.sock \o a, b, q.wanted), q)
        /\ Put(q, q.sock \o a, b, q.wanted).wanted = q.wanted
    <3> DEFINE u == q.sock \o a
    <3>1. IsConn(q) /\ u \in Seq(Units) /\ b \in Seq(Units) /\ q.wanted \in Seq(Units)
      BY <2>1, <2>3, <2>5
    <3> HIDE DEF u
    <3>2. /\ SameInput(Put(q, u, b, q.wanted), q)
          /\ Put(q, u, b, q.wanted).wanted = q.wanted
      BY <3>1 DEF IsConn, Put, SameInput
    <3>3. QED BY <3>2 DEF u
  <2>10. QED BY <2>4, <2>8, <2>9
<1>3. QED BY <1>1, <1>2

LEMMA WriteOrBufferOK ==
  ASSUME NEW q, ConnOK(q), q.open, NEW data \in Seq(Units),
         NEW fails, "buffer" \notin fails
  PROVE  LET w == write_or_buffer(q, data, fails)
         IN  /\ w.ok = q.peer
             /\ ConnOK(w.q) /\ SameInput(w.q, q)
<1> DEFINE p == write_buffer(q)
           n == IF p.out = <<>> THEN Room(p, data) ELSE 0
           a == SubSeq(data, 1, n)
           b == SubSeq(data, n + 1, Len(data))
           r == Put(p, p.sock \o a, p.out \o b, p.wanted \o data)
<1>1. CASE ~q.peer
  <2>1. write_or_buffer(q, data, fails) = [q |-> Broken(q), ok |-> FALSE]
    BY <1>1 DEF write_or_buffer
  <2>2. q.peer = FALSE
    BY <1>1 DEF ConnOK, IsConn
  <2>3. ConnOK(Broken(q)) /\ SameInput(Broken(q), q)
    BY BrokenOK
  <2>4. /\ write_or_buffer(q, data, fails).q = Broken(q)
        /\ write_or_buffer(q, data, fails).ok = FALSE
    BY <2>1
  <2>5. QED BY <2>2, <2>3, <2>4, Zenon
<1>2. CASE q.peer
  <2>1. ConnOK(p) /\ SameInput(p, q) /\ p.wanted = q.wanted /\ p.open /\ p.peer
    BY <1>2, WriteBufferOK DEF SameInput
  <2>2. IsConn(p) /\ p.sock \in Seq(Units) /\ p.out \in Seq(Units) /\ p.wanted \in Seq(Units)
    BY <2>1 DEF ConnOK, IsConn
  <2> HIDE DEF p
  <2>3. /\ write_or_buffer(q, data, fails) = [q |-> r, ok |-> TRUE]
    BY <1>2, <2>2 DEF write_or_buffer, Written, IsConn, Put, p
  <2>4. Len(data) \in Nat /\ Len(p.sock) \in Nat
    BY <2>2, LenProperties
  <2>5. n \in 0..Len(data) /\ Len(p.sock) + n <= SockBuf /\ (p.out # <<>> => n = 0)
    BY <2>1, <2>2, <2>4, RoomBound DEF ConnOK
  <2> HIDE DEF n
  <2>6. a \in Seq(Units) /\ Len(a) = n /\ b \in Seq(Units) /\ a \o b = data
    BY <2>5, SplitAt
  <2> HIDE DEF a, b
  <2>7. /\ p.sock \o a \in Seq(Units) /\ Len(p.sock \o a) <= SockBuf
        /\ p.out \o b \in Seq(Units) /\ p.wanted \o data \in Seq(Units)
    BY <2>2, <2>5, <2>6, ConcatProperties, ZenonT(40)
  <2>8. p.wanted \o data = (p.sock \o a) \o (p.out \o b)
    <3>1. p.wanted = p.sock \o p.out
      BY <2>1 DEF ConnOK, Frames
    <3>2. CASE p.out = <<>>
      <4>1. p.wanted = p.sock /\ p.out \o b = b
        BY <3>1, <3>2, <2>2, <2>6, ConcatEmptySeq
      <4>2. (p.sock \o a) \o b = p.sock \o (a \o b)
        <5>1. p.sock \in Seq(Units) /\ a \in Seq(Units) /\ b \in Seq(Units)
          BY <2>2, <2>6
        <5>2. QED BY <5>1, ConcatUnits
      <4>3. QED BY <4>1, <4>2, <2>6
    <3>3. CASE p.out # <<>>
      <4>1. a = <<>>
        BY <2>5, <2>6, <3>3, EmptySeq
      <4>2. p.sock \o a = p.sock /\ b = data
        BY <4>1, <2>2, <2>6, ConcatEmptySeq
      <4>3. (p.sock \o p.out) \o data = p.sock \o (p.out \o data)
        BY <2>2, ConcatUnits
      <4>4. QED BY <3>1, <4>2, <4>3
    <3>4. QED BY <3>2, <3>3
  <2>9. ConnOK(r)
    BY <2>1, <2>6, <2>7, <2>8, PutOK
  <2>10. SameInput(r, p)
    BY <2>2, <2>7, PutFacts
  <2> HIDE DEF r
  <2>11. SameInput(r, q)
    BY <2>1, <2>10 DEF SameInput
  <2>12. QED BY <1>2, <2>3, <2>9, <2>11
<1>3. QED BY <1>1, <1>2 DEF ConnOK, IsConn

(* The notifications a connection asked for, and what it knows, replaced *)
Told(q, b, k) == [q EXCEPT !.notify = b, !.known = k]

LEMMA ToldOK ==
  ASSUME NEW q, ConnOK(q), q.open, NEW b \in BOOLEAN,
         NEW k \in SUBSET (Devices \cup Services)
  PROVE  /\ ConnOK(Told(q, b, k))
         /\ Told(q, b, k).notify = b /\ Told(q, b, k).known = k
         /\ Told(q, b, k).open = q.open /\ Told(q, b, k).peer = q.peer
<1> DEFINE p == Told(q, b, k)
<1>1. /\ IsConn(p) /\ p.notify = b /\ p.known = k /\ p.open = q.open /\ p.peer = q.peer
      /\ p.out = q.out /\ p.sock = q.sock /\ p.wanted = q.wanted /\ p.step = q.step
  BY DEF Told, ConnOK, IsConn
<1>2. q.step # "idle"
  BY DEF ConnOK, Free
<1> HIDE DEF p
<1>3. Frames(p)
  BY <1>1 DEF Frames, ConnOK
<1>4. ConnOK(p)
  BY <1>1, <1>2, <1>3 DEF ConnOK
<1>5. QED BY <1>1, <1>4 DEF p

-----------------------------------------------------------------------------
(* The lists and the connections *)

IdSet(list) == {list[i].id : i \in DOMAIN list}
UniqueIds(list) == \A i, j \in DOMAIN list : list[i].id = list[j].id => i = j
Ids(s) == IdSet(s.dev) \cup IdSet(s.serv)

(* A follower knows the ids of the lists, exactly when nothing failed *)
Follows(q, ids, clean) ==
  q.notify /\ q.peer => ids \subseteq q.known /\ (clean => q.known = ids)

StateOK(s, clean) ==
  /\ s \in [dev : Seq(DeviceEntries), serv : Seq(ServiceEntries), conn : {s.conn}]
  /\ UniqueIds(s.dev) /\ UniqueIds(s.serv)
  /\ s.conn = [c \in Clients |-> s.conn[c]]
  /\ \A c \in Clients : ConnOK(s.conn[c]) /\ Follows(s.conn[c], Ids(s), clean)

LEMMA IdsOfLists ==
  ASSUME NEW dev \in Seq(DeviceEntries), NEW serv \in Seq(ServiceEntries)
  PROVE  /\ {x.id : x \in Range(dev \o serv)} = IdSet(dev) \cup IdSet(serv)
         /\ IdSet(dev) \subseteq Devices /\ IdSet(serv) \subseteq Services
<1> DEFINE S == DeviceEntries \cup ServiceEntries
<1>1. dev \in Seq(S) /\ serv \in Seq(S)
  <2>1. DeviceEntries \subseteq S /\ ServiceEntries \subseteq S
    OBVIOUS
  <2> HIDE DEF S
  <2>2. QED BY <2>1, SeqMonotonic
<1> HIDE DEF S
<1>2. Range(dev \o serv) = Range(dev) \cup Range(serv)
  BY <1>1, RangeConcatenation
<1>3. \A i \in DOMAIN dev : dev[i] \in DeviceEntries
  BY LenProperties, ElementOfSeq
<1>4. \A i \in DOMAIN serv : serv[i] \in ServiceEntries
  BY LenProperties, ElementOfSeq
<1>5. {x.id : x \in Range(dev \o serv)} = IdSet(dev) \cup IdSet(serv)
  BY <1>2, ZenonT(40) DEF Range, IdSet
<1>6. QED BY <1>3, <1>4, <1>5 DEF IdSet, DeviceEntries, ServiceEntries

LEMMA NotificationType ==
  ASSUME NEW x, NEW type \in {"NEW", "REMOVE"},
         x.id \in Devices \cup Services, x.loc \in Seq(STRING)
  PROVE  Notification(type, x) \in Seq(Units)
<1>1. [notif |-> type] \in Units
  BY DEF Units
<1>2. Entry(x) \in Units
  BY DEF Units, Entries, Entry
<1> HIDE DEF Units
<1>3. QED BY <1>1, <1>2 DEF Notification

(* One event: the lists change by one id, and the followers are told *)
LEMMA NotificationsOK ==
  ASSUME NEW s, NEW clean \in BOOLEAN, StateOK(s, clean),
         NEW x, NEW type \in {"NEW", "REMOVE"},
         x.id \in Devices \cup Services, x.loc \in Seq(STRING),
         NEW fails, "buffer" \notin fails
  PROVE  LET conn == sendNotifications(s.conn, type, x, fails)
         IN  /\ conn = [c \in Clients |-> conn[c]]
             /\ \A c \in Clients :
                  ConnOK(conn[c]) /\ Follows(conn[c], Learn(Ids(s), type, x), clean)
<1> DEFINE conn == sendNotifications(s.conn, type, x, fails)
           data == Notification(type, x)
<1>1. conn = [c \in Clients |-> conn[c]]
  BY DEF sendNotifications
<1>2. ASSUME NEW c \in Clients
      PROVE  ConnOK(conn[c]) /\ Follows(conn[c], Learn(Ids(s), type, x), clean)
  <2> DEFINE q == s.conn[c]
             w == write_or_buffer(q, data, fails)
  <2>1. ConnOK(q) /\ Follows(q, Ids(s), clean)
    BY DEF StateOK
  <2>2. data \in Seq(Units)
    BY NotificationType
  <2>3. conn[c] = CASE ~(q.open /\ q.notify) -> q
                    [] q.open /\ q.notify /\ w.ok -> [w.q EXCEPT !.known = Learn(@, type, x)]
                    [] OTHER -> w.q
    BY DEF sendNotifications
  <2> HIDE DEF conn, data, q
  <2>4. CASE ~(q.open /\ q.notify)
    <3>1. conn[c] = q
      BY <2>3, <2>4
    <3>2. ~q.notify
      BY <2>1, <2>4 DEF ConnOK
    <3>3. QED BY <2>1, <3>1, <3>2 DEF Follows
  <2>5. CASE q.open /\ q.notify
    <3>1. w.ok = q.peer /\ ConnOK(w.q) /\ SameInput(w.q, q)
      BY <2>1, <2>2, <2>5, WriteOrBufferOK
    <3>2. CASE ~q.peer
      <4>1. conn[c] = w.q
        BY <2>3, <2>5, <3>1, <3>2
      <4>2. ~w.q.peer
        BY <3>1, <3>2 DEF SameInput
      <4>3. QED BY <3>1, <4>1, <4>2 DEF Follows
    <3>3. CASE q.peer
      <4> DEFINE p == w.q
                 k == Learn(p.known, type, x)
      <4>1. IsConn(p) /\ ConnOK(p) /\ p.open /\ p.notify /\ p.peer /\ p.known = q.known
        BY <3>1, <3>3, <2>5 DEF SameInput, ConnOK
      <4>2. conn[c] = [p EXCEPT !.known = k]
        BY <2>3, <2>5, <3>1, <3>3
      <4> HIDE DEF p, w
      <4>3. [p EXCEPT !.known = k] = Told(p, TRUE, k)
        BY <4>1 DEF Told, IsConn
      <4>4. k \in SUBSET (Devices \cup Services)
        BY <4>1 DEF IsConn, Learn
      <4>5. ConnOK(Told(p, TRUE, k)) /\ Told(p, TRUE, k).known = k
        BY <4>1, <4>4, ToldOK
      <4>6. /\ Learn(Ids(s), type, x) \subseteq k
            /\ clean => k = Learn(Ids(s), type, x)
        BY <2>1, <2>5, <3>3, <4>1 DEF Learn, Follows
      <4>7. QED BY <4>2, <4>3, <4>5, <4>6 DEF Follows
    <3>4. QED BY <3>2, <3>3
  <2>6. QED BY <2>4, <2>5
<1>3. QED BY <1>1, <1>2

-----------------------------------------------------------------------------
(* Changes of a list of devices or of services, whose entries have an id *)

LEMMA IdsRemoved ==
  ASSUME NEW E, NEW list \in Seq(E), UniqueIds(list), NEW i \in 1..Len(list)
  PROVE  /\ RemoveAt(list, i) \in Seq(E) /\ UniqueIds(RemoveAt(list, i))
         /\ IdSet(RemoveAt(list, i)) = IdSet(list) \ {list[i].id}
<1> DEFINE r == RemoveAt(list, i)
           n == Len(list)
<1>1. DOMAIN list = 1..n /\ n \in Nat
  BY LenProperties
<1>2. /\ r \in Seq(E) /\ Len(r) = n - 1
      /\ \A j \in 1..(n - 1) : r[j] = IF j < i THEN list[j] ELSE list[j + 1]
  BY RemoveAtFacts
<1>3. DOMAIN r = 1..(n - 1)
  BY <1>2, LenProperties
<1> HIDE DEF r, n
<1>4. UniqueIds(r)
  <2> SUFFICES ASSUME NEW j \in 1..(n - 1), NEW k \in 1..(n - 1), r[j].id = r[k].id
               PROVE  j = k
    BY <1>3 DEF UniqueIds
  <2> DEFINE J == IF j < i THEN j ELSE j + 1
             K == IF k < i THEN k ELSE k + 1
  <2>1. r[j] = list[J] /\ r[k] = list[K] /\ J \in 1..n /\ K \in 1..n
    BY <1>1, <1>2
  <2>2. J = K
    BY <1>1, <2>1 DEF UniqueIds
  <2>3. i \in Nat
    BY <1>1
  <2>4. QED BY <2>2, <2>3
<1>5. IdSet(r) = IdSet(list) \ {list[i].id}
  <2>1. ASSUME NEW j \in 1..(n - 1)
        PROVE  r[j].id \in IdSet(list) \ {list[i].id}
    <3> DEFINE J == IF j < i THEN j ELSE j + 1
    <3>1. r[j] = list[J] /\ J \in 1..n /\ J # i /\ i \in 1..n
      BY <1>1, <1>2 DEF n
    <3>2. QED BY <1>1, <3>1 DEF UniqueIds, IdSet
  <2>2. ASSUME NEW j \in 1..n, list[j].id # list[i].id
        PROVE  list[j].id \in IdSet(r)
    <3> DEFINE J == IF j < i THEN j ELSE j - 1
    <3>0. j # i /\ i \in 1..n
      BY <2>2 DEF n
    <3>1. J \in 1..(n - 1)
      BY <1>1, <3>0
    <3>2. r[J] = list[j]
      BY <1>1, <1>2, <3>0, <3>1
    <3>3. QED BY <1>3, <3>1, <3>2 DEF IdSet
  <2>3. QED BY <1>1, <1>3, <2>1, <2>2 DEF IdSet
<1>6. QED BY <1>2, <1>4, <1>5 DEF r

LEMMA IdsAdded ==
  ASSUME NEW E, NEW list \in Seq(E), UniqueIds(list), NEW e \in E, e.id \notin IdSet(list)
  PROVE  /\ <<e>> \o list \in Seq(E) /\ UniqueIds(<<e>> \o list)
         /\ IdSet(<<e>> \o list) = IdSet(list) \cup {e.id}
<1> DEFINE r == <<e>> \o list
           n == Len(list)
<1>1. DOMAIN list = 1..n /\ n \in Nat
  BY LenProperties
<1>2. /\ r \in Seq(E) /\ Len(r) = n + 1 /\ r[1] = e
      /\ \A j \in 2..(n + 1) : r[j] = list[j - 1]
  BY ConsFacts DEF Cons
<1>3. DOMAIN r = 1..(n + 1)
  BY <1>2, LenProperties
<1> HIDE DEF r, n
<1>4. \A j \in 1..(n + 1) : j = 1 \/ (j \in 2..(n + 1) /\ j - 1 \in 1..n)
  BY <1>1
<1>5. ASSUME NEW j \in 2..(n + 1) PROVE r[j].id \in IdSet(list)
  <2>1. j - 1 \in 1..n
    BY <1>1
  <2>2. list[j - 1].id \in IdSet(list)
    BY <1>1, <2>1 DEF IdSet
  <2>3. QED BY <1>2, <2>2
<1>6. UniqueIds(r)
  <2> SUFFICES ASSUME NEW j \in 1..(n + 1), NEW k \in 1..(n + 1), r[j].id = r[k].id
               PROVE  j = k
    BY <1>3 DEF UniqueIds
  <2>1. CASE j = 1
    BY <1>2, <1>4, <1>5, <2>1
  <2>2. CASE k = 1
    BY <1>2, <1>4, <1>5, <2>2
  <2>3. CASE j # 1 /\ k # 1
    <3>1. j - 1 \in 1..n /\ k - 1 \in 1..n /\ r[j] = list[j - 1] /\ r[k] = list[k - 1]
      BY <1>2, <1>4, <2>3
    <3>2. j - 1 = k - 1
      BY <1>1, <3>1 DEF UniqueIds
    <3>3. QED BY <1>1, <3>2
  <2>4. QED BY <2>1, <2>2, <2>3
<1>7. IdSet(r) = IdSet(list) \cup {e.id}
  <2>1. ASSUME NEW j \in 1..n PROVE list[j].id \in IdSet(r)
    <3>1. j + 1 \in 2..(n + 1) /\ j + 1 \in 1..(n + 1) /\ (j + 1) - 1 = j
      BY <1>1
    <3>2. QED BY <1>2, <1>3, <3>1 DEF IdSet
  <2>2. e.id \in IdSet(r)
    BY <1>1, <1>2, <1>3 DEF IdSet
  <2>3. \A j \in 1..(n + 1) : r[j].id \in IdSet(list) \cup {e.id}
    BY <1>2, <1>4, <1>5
  <2>4. IdSet(r) = {r[j].id : j \in 1..(n + 1)} /\ IdSet(list) = {list[j].id : j \in 1..n}
    BY <1>1, <1>3 DEF IdSet
  <2>5. QED BY <2>1, <2>2, <2>3, <2>4
<1>8. QED BY <1>2, <1>6, <1>7 DEF r

LEMMA IdsKept ==
  ASSUME NEW E, NEW list \in Seq(E), UniqueIds(list), NEW i \in 1..Len(list),
         NEW e \in E, e.id = list[i].id
  PROVE  /\ [list EXCEPT ![i] = e] \in Seq(E) /\ UniqueIds([list EXCEPT ![i] = e])
         /\ IdSet([list EXCEPT ![i] = e]) = IdSet(list)
<1> DEFINE r == [list EXCEPT ![i] = e]
<1>1. DOMAIN list = 1..Len(list) /\ Len(list) \in Nat
  BY LenProperties
<1>2. /\ r \in Seq(E)
      /\ DOMAIN r = DOMAIN list
      /\ \A j \in DOMAIN list : r[j].id = list[j].id
  BY <1>1, ExceptSeq
<1> HIDE DEF r
<1>3. QED BY <1>2 DEF r, IdSet, UniqueIds

LEMMA FindFacts ==
  ASSUME NEW E, NEW list \in Seq(E), NEW id
  PROVE  /\ Find(list, id) = {} <=> id \notin IdSet(list)
         /\ Find(list, id) # {} =>
              LET i == CHOOSE j \in Find(list, id) : TRUE
              IN  i \in 1..Len(list) /\ list[i].id = id
BY LenProperties DEF Find, IdSet

LEMMA OverwriteType ==
  ASSUME NEW old \in Seq(STRING), NEW new \in Seq(STRING)
  PROVE  Overwrite(old, new) \in Seq(STRING)
<1>1. /\ Len(old) \in Nat /\ Len(new) \in Nat
      /\ \A i \in 1..Len(old) : old[i] \in STRING
      /\ \A i \in 1..Len(new) : new[i] \in STRING
  BY LenProperties, ElementOfSeq
<1> DEFINE I == {Len(old), Len(new)}
           n == Max(I)
<1>2. n \in I /\ \A j \in I : n >= j
  <2>1. \E m \in I : \A j \in I : m >= j
    BY <1>1
  <2>2. QED BY <2>1 DEF Max
<1>3. n \in Nat /\ (n = Len(old) \/ n = Len(new))
  BY <1>1, <1>2
<1> HIDE DEF n
<1>4. Overwrite(old, new) = [i \in 1..n |-> IF i <= Len(new) THEN new[i] ELSE old[i]]
  BY DEF Overwrite, n
<1>5. [i \in 1..n |-> IF i <= Len(new) THEN new[i] ELSE old[i]] \in [1..n -> STRING]
  BY <1>1, <1>3
<1>6. QED BY <1>3, <1>4, <1>5, SeqDef

-----------------------------------------------------------------------------
(* The operations of the daemon keep the lists and the connections good *)

State(dev, serv, conn) == [dev |-> dev, serv |-> serv, conn |-> conn]

LEMMA MakeState ==
  ASSUME NEW clean, NEW dev \in Seq(DeviceEntries), NEW serv \in Seq(ServiceEntries), NEW conn,
         UniqueIds(dev), UniqueIds(serv), conn = [c \in Clients |-> conn[c]],
         \A c \in Clients : /\ ConnOK(conn[c])
                            /\ Follows(conn[c], IdSet(dev) \cup IdSet(serv), clean)
  PROVE  StateOK(State(dev, serv, conn), clean)
<1> DEFINE s == State(dev, serv, conn)
<1>1. /\ s.dev = dev /\ s.serv = serv /\ s.conn = conn
      /\ s \in [dev : Seq(DeviceEntries), serv : Seq(ServiceEntries), conn : {conn}]
  BY DEF State
<1> HIDE DEF s
<1>2. QED BY <1>1 DEF StateOK, Ids, s

(* The services and the connections replaced *)
NewService(s, serv, conn) == [s EXCEPT !.serv = serv, !.conn = conn]

LEMMA NewServiceIs ==
  ASSUME NEW D, NEW E, NEW s, s \in [dev : D, serv : E, conn : {s.conn}],
         NEW serv, NEW conn
  PROVE  NewService(s, serv, conn) = State(s.dev, serv, conn)
<1> DEFINE t == NewService(s, serv, conn)
<1>1. t \in [dev : {s.dev}, serv : {serv}, conn : {conn}]
  BY DEF NewService
<1> HIDE DEF t
<1>2. t = State(s.dev, serv, conn)
  BY <1>1 DEF State
<1>3. QED BY <1>2 DEF t

LEMMA SetConn ==
  ASSUME NEW s, NEW clean, StateOK(s, clean), NEW c \in Clients,
         NEW q, ConnOK(q), Follows(q, Ids(s), clean)
  PROVE  /\ StateOK([s EXCEPT !.conn[c] = q], clean)
         /\ [s EXCEPT !.conn[c] = q].conn[c] = q
<1> DEFINE conn == [s.conn EXCEPT ![c] = q]
<1>1. [s EXCEPT !.conn[c] = q] = State(s.dev, s.serv, conn)
  BY DEF StateOK, State
<1>2. /\ conn = [e \in Clients |-> conn[e]]
      /\ \A e \in Clients : conn[e] = IF e = c THEN q ELSE s.conn[e]
  BY DEF StateOK
<1>3. /\ s.dev \in Seq(DeviceEntries) /\ s.serv \in Seq(ServiceEntries)
      /\ UniqueIds(s.dev) /\ UniqueIds(s.serv)
  BY DEF StateOK
<1> HIDE DEF conn
<1>4. \A e \in Clients : ConnOK(conn[e]) /\ Follows(conn[e], IdSet(s.dev) \cup IdSet(s.serv), clean)
  BY <1>2 DEF StateOK, Ids
<1>5. StateOK(State(s.dev, s.serv, conn), clean)
  BY <1>2, <1>3, <1>4, MakeState
<1>6. State(s.dev, s.serv, conn).conn[c] = q
  BY <1>2 DEF State
<1>7. QED BY <1>1, <1>5, <1>6

LEMMA ClosedConnOK ==
  ASSUME NEW q, ConnOK(q)
  PROVE  ConnOK(ClosedConn(q)) /\ ~ClosedConn(q).notify
<1> DEFINE p == ClosedConn(q)
<1>1. /\ IsConn(p) /\ p.open = FALSE /\ p.notify = FALSE /\ p.out = <<>>
      /\ p.peer = q.peer /\ p.sock = q.sock /\ p.wanted = q.wanted /\ p.step = q.step
  BY EmptySeq DEF ConnOK, IsConn, ClosedConn
<1>2. p.step = "idle" => p = Free
  <2> SUFFICES ASSUME q.step = "idle" PROVE p = Free
    BY <1>1
  <2>1. q = Free
    BY DEF ConnOK
  <2>2. ClosedConn(Free) = Free
    <3> DEFINE f == Free
    <3>1. f = [f EXCEPT !.open = f.open, !.notify = f.notify, !.in = f.in,
                        !.out = f.out, !.known = f.known, !.sigpipe = f.sigpipe]
      BY DEF Free
    <3>2. f.open = FALSE /\ f.notify = FALSE /\ f.in = <<>> /\ f.out = <<>> /\ f.known = {}
          /\ f.sigpipe = FALSE
      BY DEF Free
    <3> HIDE DEF f
    <3>3. ClosedConn(f) = f
      BY <3>1, <3>2 DEF ClosedConn
    <3>4. QED BY <3>3 DEF f
  <2>3. QED BY <2>1, <2>2
<1> HIDE DEF p
<1>3. Frames(p)
  BY <1>1 DEF Frames, ConnOK
<1>4. ConnOK(p)
  BY <1>1, <1>2, <1>3 DEF ConnOK
<1>5. QED BY <1>1, <1>4 DEF p

LEMMA ClosedOK ==
  ASSUME NEW s, NEW clean, StateOK(s, clean), NEW c \in Clients
  PROVE  StateOK(Closed(s, c), clean) /\ Closed(s, c).conn[c] = ClosedConn(s.conn[c])
<1>1. Closed(s, c) = [s EXCEPT !.conn[c] = ClosedConn(s.conn[c])]
  BY DEF StateOK, Closed, ClosedConn
<1>2. ConnOK(ClosedConn(s.conn[c])) /\ ~ClosedConn(s.conn[c]).notify
  BY ClosedConnOK DEF StateOK
<1>3. Follows(ClosedConn(s.conn[c]), Ids(s), clean)
  BY <1>2 DEF Follows
<1>4. QED BY <1>1, <1>2, <1>3, SetConn

LEMMA CleanupOK ==
  ASSUME NEW conn, \A c \in Clients : ConnOK(conn[c]), NEW clean
  PROVE  StateOK(Cleanup(conn), clean)
<1> DEFINE ended == [c \in Clients |-> ClosedConn(conn[c])]
<1>1. \A c \in Clients : ended[c] = ClosedConn(conn[c])
  OBVIOUS
<1>2. ended = [c \in Clients |-> ended[c]]
  OBVIOUS
<1>3. Cleanup(conn) = State(<<>>, <<>>, ended)
  BY DEF Cleanup, State
<1> HIDE DEF ended
<1>4. \A c \in Clients : ConnOK(ended[c]) /\ Follows(ended[c], IdSet(<<>>) \cup IdSet(<<>>), clean)
  BY <1>1, ClosedConnOK DEF Follows
<1>5. UniqueIds(<<>>)
  BY DEF UniqueIds
<1>6. <<>> \in Seq(DeviceEntries) /\ <<>> \in Seq(ServiceEntries)
  BY EmptySeq
<1>7. QED BY <1>2, <1>3, <1>4, <1>5, <1>6, MakeState

LEMMA RemoveDeviceOK ==
  ASSUME NEW s, NEW clean \in BOOLEAN, StateOK(s, clean), NEW id \in Devices,
         NEW fails, "buffer" \notin fails
  PROVE  StateOK(removeDevice(s, id, fails), clean)
<1> DEFINE found == Find(s.dev, id)
           i == CHOOSE j \in found : TRUE
           conn == sendNotifications(s.conn, "REMOVE", s.dev[i], fails)
           dev == RemoveAt(s.dev, i)
<1>1. CASE found = {}
  BY <1>1 DEF removeDevice
<1>2. CASE found # {}
  <2>1. s.dev \in Seq(DeviceEntries) /\ s.serv \in Seq(ServiceEntries)
        /\ UniqueIds(s.dev) /\ UniqueIds(s.serv)
    BY DEF StateOK
  <2>2. i \in 1..Len(s.dev) /\ s.dev[i].id = id
    BY <1>2, <2>1, FindFacts
  <2>3. removeDevice(s, id, fails) = State(dev, s.serv, conn)
    BY <1>2 DEF removeDevice, State, StateOK
  <2> HIDE DEF i
  <2>4. s.dev[i] \in DeviceEntries
    BY <2>1, <2>2, ElementOfSeq
  <2>5. /\ conn = [c \in Clients |-> conn[c]]
        /\ \A c \in Clients :
             ConnOK(conn[c]) /\ Follows(conn[c], Learn(Ids(s), "REMOVE", s.dev[i]), clean)
    <3>1. s.dev[i].id \in Devices \cup Services /\ s.dev[i].loc \in Seq(STRING)
      BY <2>4 DEF DeviceEntries
    <3>2. QED BY <3>1, NotificationsOK
  <2>6. dev \in Seq(DeviceEntries) /\ UniqueIds(dev) /\ IdSet(dev) = IdSet(s.dev) \ {id}
    BY <2>1, <2>2, IdsRemoved
  <2> HIDE DEF conn, dev
  <2>7. id \notin IdSet(s.serv)
    BY <2>1, IdsOfLists, MiniSSDPdAssumption
  <2>8. Learn(Ids(s), "REMOVE", s.dev[i]) = IdSet(dev) \cup IdSet(s.serv)
    BY <2>2, <2>6, <2>7 DEF Learn, Ids
  <2>9. StateOK(State(dev, s.serv, conn), clean)
    <3>1. \A c \in Clients :
            ConnOK(conn[c]) /\ Follows(conn[c], IdSet(dev) \cup IdSet(s.serv), clean)
      BY <2>5, <2>8
    <3>2. QED BY <2>1, <2>5, <2>6, <3>1, MakeState
  <2>10. QED BY <2>3, <2>9
<1>3. QED BY <1>1, <1>2

LEMMA UpdateDeviceOK ==
  ASSUME NEW s, NEW clean \in BOOLEAN, StateOK(s, clean), NEW id \in Devices,
         NEW loc \in Seq(STRING), NEW t \in Nat,
         NEW fails, "buffer" \notin fails, clean => fails = {}
  PROVE  StateOK(updateDevice(s, id, loc, t, fails), clean)
<1> DEFINE found == Find(s.dev, id)
           i == CHOOSE j \in found : TRUE
           x == [id |-> id, loc |-> loc, t |-> t]
           y == [s.dev[i] EXCEPT !.t = t, !.loc = Overwrite(@, loc)]
           lost == Len(loc) > Len(s.dev[i].loc) /\ "device" \in fails
           conn == sendNotifications(s.conn, "NEW", x, fails)
<1>1. /\ s.dev \in Seq(DeviceEntries) /\ s.serv \in Seq(ServiceEntries)
      /\ UniqueIds(s.dev) /\ UniqueIds(s.serv)
      /\ s.conn = [c \in Clients |-> s.conn[c]]
      /\ \A c \in Clients : /\ ConnOK(s.conn[c])
                            /\ Follows(s.conn[c], IdSet(s.dev) \cup IdSet(s.serv), clean)
  BY DEF StateOK, Ids
<1>2. found # {} => i \in 1..Len(s.dev) /\ s.dev[i].id = id /\ s.dev[i] \in DeviceEntries
  BY <1>1, FindFacts, ElementOfSeq
<1>3. CASE found # {} /\ lost
  <2> DEFINE dev == RemoveAt(s.dev, i)
  <2>1. updateDevice(s, id, loc, t, fails) = State(dev, s.serv, s.conn)
    BY <1>3 DEF updateDevice, State, StateOK
  <2>2. ~clean
    BY <1>3
  <2> HIDE DEF i, found
  <2>3. dev \in Seq(DeviceEntries) /\ UniqueIds(dev) /\ IdSet(dev) \subseteq IdSet(s.dev)
    <3>1. IdSet(dev) = IdSet(s.dev) \ {s.dev[i].id} /\ dev \in Seq(DeviceEntries) /\ UniqueIds(dev)
      BY <1>1, <1>2, <1>3, IdsRemoved
    <3>2. QED BY <3>1
  <2> HIDE DEF dev
  <2>4. \A c \in Clients :
          ConnOK(s.conn[c]) /\ Follows(s.conn[c], IdSet(dev) \cup IdSet(s.serv), clean)
    BY <1>1, <2>2, <2>3 DEF Follows
  <2>5. StateOK(State(dev, s.serv, s.conn), clean)
    BY <1>1, <2>3, <2>4, MakeState
  <2>6. QED BY <2>1, <2>5
<1>4. CASE found # {} /\ ~lost
  <2> DEFINE dev == [s.dev EXCEPT ![i] = y]
  <2>1. updateDevice(s, id, loc, t, fails) = State(dev, s.serv, s.conn)
    <3>1. updateDevice(s, id, loc, t, fails) = [s EXCEPT !.dev = dev]
      BY <1>4 DEF updateDevice
    <3> HIDE DEF dev
    <3>2. [s EXCEPT !.dev = dev] = State(dev, s.serv, s.conn)
      BY DEF State, StateOK
    <3>3. QED BY <3>1, <3>2
  <2> HIDE DEF i, found
  <2>2. y \in DeviceEntries /\ y.id = s.dev[i].id
    <3>1. Overwrite(s.dev[i].loc, loc) \in Seq(STRING)
      BY <1>2, <1>4, OverwriteType DEF DeviceEntries
    <3>2. QED BY <1>2, <1>4, <3>1 DEF DeviceEntries
  <2> HIDE DEF y
  <2>3. dev \in Seq(DeviceEntries) /\ UniqueIds(dev) /\ IdSet(dev) = IdSet(s.dev)
    BY <1>1, <1>2, <1>4, <2>2, IdsKept
  <2> HIDE DEF dev
  <2>4. StateOK(State(dev, s.serv, s.conn), clean)
    BY <1>1, <2>3, MakeState
  <2>5. QED BY <2>1, <2>4
<1>5. CASE found = {} /\ "device" \in fails
  BY <1>5 DEF updateDevice
<1>6. CASE found = {} /\ "device" \notin fails
  <2> DEFINE dev == <<x>> \o s.dev
  <2>1. updateDevice(s, id, loc, t, fails) = State(dev, s.serv, conn)
    BY <1>6 DEF updateDevice, State, StateOK
  <2>2. id \notin IdSet(s.dev)
    BY <1>1, <1>6, FindFacts
  <2>3. x \in DeviceEntries /\ x.id = id /\ x.loc = loc
    BY DEF DeviceEntries
  <2> HIDE DEF x
  <2>4. dev \in Seq(DeviceEntries) /\ UniqueIds(dev) /\ IdSet(dev) = IdSet(s.dev) \cup {id}
    BY <1>1, <2>2, <2>3, IdsAdded
  <2>5. /\ conn = [c \in Clients |-> conn[c]]
        /\ \A c \in Clients :
             ConnOK(conn[c]) /\ Follows(conn[c], Learn(Ids(s), "NEW", x), clean)
    <3>1. x.id \in Devices \cup Services /\ x.loc \in Seq(STRING)
      BY <2>3
    <3>2. QED BY <3>1, NotificationsOK
  <2> HIDE DEF dev, conn
  <2>6. Learn(Ids(s), "NEW", x) = IdSet(dev) \cup IdSet(s.serv)
    BY <2>3, <2>4 DEF Learn, Ids
  <2>7. \A c \in Clients :
          ConnOK(conn[c]) /\ Follows(conn[c], IdSet(dev) \cup IdSet(s.serv), clean)
    BY <2>5, <2>6
  <2>8. StateOK(State(dev, s.serv, conn), clean)
    BY <1>1, <2>4, <2>5, <2>7, MakeState
  <2>9. QED BY <2>1, <2>8
<1>7. QED BY <1>3, <1>4, <1>5, <1>6

(* An answer is made of units *)
LEMMA SearchType ==
  ASSUME NEW s, s.dev \in Seq(DeviceEntries), s.serv \in Seq(ServiceEntries), NEW r
  PROVE  Search(s, r) \in Seq(Units)
<1> DEFINE S == DeviceEntries \cup ServiceEntries
           devs == Sublist(s.dev, {x \in Range(s.dev) : x.t >= now /\ SearchMatches(x, r, TRUE)})
           servs == Sublist(s.serv, {x \in Range(s.serv) : SearchMatches(x, r, FALSE)})
           both == devs \o servs
           all == [i \in DOMAIN both |-> Entry(both[i])]
           m == Min({Len(all), RespMax})
           reply == SubSeq(all, 1, m)
<1>1. devs \in Seq(DeviceEntries) /\ servs \in Seq(ServiceEntries)
  BY SublistFacts
<1> HIDE DEF devs, servs
<1>2. devs \in Seq(S) /\ servs \in Seq(S)
  <2>1. DeviceEntries \subseteq S /\ ServiceEntries \subseteq S
    OBVIOUS
  <2> HIDE DEF S
  <2>2. QED BY <1>1, <2>1, SeqMonotonic
<1>3. both \in Seq(S)
  <2> HIDE DEF S
  <2>1. QED BY <1>2, ConcatProperties
<1> HIDE DEF both
<1>4. DOMAIN both = 1..Len(both) /\ Len(both) \in Nat /\ \A i \in 1..Len(both) : both[i] \in S
  <2> HIDE DEF S
  <2>1. QED BY <1>3, LenProperties, ElementOfSeq
<1>5. \A y \in S : Entry(y) \in Units
  BY DEF Entry, Units, Entries, DeviceEntries, ServiceEntries
<1> HIDE DEF S
<1>6. all \in [1..Len(both) -> Units]
  BY <1>4, <1>5
<1>7. all \in Seq(Units)
  BY <1>4, <1>6, SeqDef
<1> HIDE DEF all
<1>8. Len(all) \in Nat /\ \A i \in 1..Len(all) : all[i] \in Units
  BY <1>7, LenProperties, ElementOfSeq
<1>9. m \in 0..Len(all)
  <2> DEFINE I == {Len(all), RespMax}
  <2>1. RespMax \in Nat
    BY MiniSSDPdAssumption
  <2>2. I \in SUBSET Nat /\ I # {}
    BY <1>8, <2>1
  <2>3. Min(I) \in I /\ \A j \in I : Min(I) <= j
    BY <2>2, MinIsLeast
  <2>4. QED BY <1>8, <2>1, <2>3
<1> HIDE DEF m
<1>10. reply \in Seq(Units)
  BY <1>7, <1>9, SplitAt
<1> HIDE DEF reply
<1>11. Len(reply) \in Nat
  BY <1>10, LenProperties
<1>12. [n |-> Len(reply)] \in Units
  BY <1>11 DEF Units
<1>13. << [n |-> Len(reply)] >> \in Seq(Units)
  BY <1>12
<1>14. << [n |-> Len(reply)] >> \o reply \in Seq(Units)
  BY <1>10, <1>13, ConcatProperties
<1>15. Search(s, r) = << [n |-> Len(reply)] >> \o reply
  BY DEF Search, reply, m, all, both, devs, servs
<1>16. QED BY <1>14, <1>15

(* An answer on a connection *)
LEMMA ReplyOK ==
  ASSUME NEW s, NEW clean \in BOOLEAN, StateOK(s, clean), NEW c \in Clients, s.conn[c].open,
         NEW data \in Seq(Units), NEW fails, "buffer" \notin fails
  PROVE  LET w == write_or_buffer(s.conn[c], data, fails)
         IN  /\ w.ok \in BOOLEAN /\ ConnOK(w.q) /\ w.q.open
             /\ Follows(w.q, Ids(s), clean)
             /\ StateOK([s EXCEPT !.conn[c] = w.q], clean)
             /\ [s EXCEPT !.conn[c] = w.q].conn[c] = w.q
<1> DEFINE q == s.conn[c]
           w == write_or_buffer(q, data, fails)
<1>1. ConnOK(q) /\ Follows(q, Ids(s), clean) /\ q.peer \in BOOLEAN
  BY DEF StateOK, ConnOK, IsConn
<1>2. w.ok = q.peer /\ ConnOK(w.q) /\ SameInput(w.q, q)
  BY <1>1, WriteOrBufferOK
<1> HIDE DEF w
<1>3. Follows(w.q, Ids(s), clean) /\ w.q.open
  BY <1>1, <1>2 DEF SameInput, Follows
<1>4. /\ StateOK([s EXCEPT !.conn[c] = w.q], clean)
      /\ [s EXCEPT !.conn[c] = w.q].conn[c] = w.q
  <2> DEFINE p == w.q
  <2>1. ConnOK(p) /\ Follows(p, Ids(s), clean)
    BY <1>2, <1>3
  <2> HIDE DEF p
  <2>2. StateOK([s EXCEPT !.conn[c] = p], clean) /\ [s EXCEPT !.conn[c] = p].conn[c] = p
    BY <2>1, SetConn
  <2>3. QED BY <2>2 DEF p
<1>5. QED BY <1>1, <1>2, <1>3, <1>4 DEF w

(* What is left of the daemon after one request, or after several *)
Served(p, c, clean) == p.ok \in BOOLEAN /\ StateOK(p.s, clean) /\ p.s.conn[c].open

LEMMA FollowOK ==
  ASSUME NEW s, NEW clean \in BOOLEAN, StateOK(s, clean), NEW c \in Clients, s.conn[c].open,
         NEW r, r.type = "notif", NEW fails, "buffer" \notin fails
  PROVE  Served(processRequestSub(s, c, r, fails), c, clean)
<1> DEFINE w == write_or_buffer(s.conn[c], <<Zero>>, fails)
           ids == {x.id : x \in Range(s.dev \o s.serv)}
           q == IF w.ok /\ ~w.q.notify
                THEN [w.q EXCEPT !.notify = TRUE, !.known = ids]
                ELSE w.q
<1>1. processRequestSub(s, c, r, fails) = [s |-> [s EXCEPT !.conn[c] = q], ok |-> w.ok]
  BY DEF processRequestSub
<1>2. <<Zero>> \in Seq(Units)
  BY DEF Units
<1>3. w.ok \in BOOLEAN /\ ConnOK(w.q) /\ w.q.open /\ Follows(w.q, Ids(s), clean)
  BY <1>2, ReplyOK
<1>4. ids = Ids(s) /\ ids \in SUBSET (Devices \cup Services)
  BY IdsOfLists DEF StateOK, Ids
<1> HIDE DEF w, ids
<1>5. ConnOK(q) /\ q.open /\ Follows(q, Ids(s), clean)
  <2>1. CASE w.ok /\ ~w.q.notify
    <3>1. q = Told(w.q, TRUE, ids)
      BY <2>1 DEF Told
    <3>2. ConnOK(Told(w.q, TRUE, ids)) /\ Told(w.q, TRUE, ids).known = ids
          /\ Told(w.q, TRUE, ids).open = w.q.open
      BY <1>3, <1>4, ToldOK
    <3> HIDE DEF q
    <3>3. QED BY <1>3, <1>4, <3>1, <3>2 DEF Follows
  <2>2. CASE ~(w.ok /\ ~w.q.notify)
    BY <1>3, <2>2
  <2>3. QED BY <2>1, <2>2
<1> HIDE DEF q
<1>6. StateOK([s EXCEPT !.conn[c] = q], clean) /\ [s EXCEPT !.conn[c] = q].conn[c] = q
  BY <1>5, SetConn
<1> DEFINE t == [s EXCEPT !.conn[c] = q]
<1> HIDE DEF t
<1>7. StateOK(t, clean) /\ t.conn[c].open
  BY <1>5, <1>6 DEF t
<1>8. processRequestSub(s, c, r, fails) = [s |-> t, ok |-> w.ok]
  BY <1>1 DEF t
<1>9. QED BY <1>3, <1>7, <1>8 DEF Served

LEMMA SubmitOK ==
  ASSUME NEW s, NEW clean \in BOOLEAN, StateOK(s, clean), NEW c \in Clients, s.conn[c].open,
         NEW r, r.type = "submit", r.arg \in ServiceEntries, NEW fails, "buffer" \notin fails
  PROVE  Served(processRequestSub(s, c, r, fails), c, clean)
<1> DEFINE x == r.arg
           found == Find(s.serv, x.id)
           i == CHOOSE j \in found : TRUE
           conn == sendNotifications(s.conn, "NEW", x, fails)
<1>1. /\ s.dev \in Seq(DeviceEntries) /\ s.serv \in Seq(ServiceEntries)
      /\ UniqueIds(s.dev) /\ UniqueIds(s.serv)
      /\ s.conn = [e \in Clients |-> s.conn[e]]
      /\ \A e \in Clients : /\ ConnOK(s.conn[e])
                            /\ Follows(s.conn[e], IdSet(s.dev) \cup IdSet(s.serv), clean)
  BY DEF StateOK, Ids
<1>2. x.id \in Devices \cup Services /\ x.loc \in Seq(STRING)
  BY DEF ServiceEntries
<1>3. CASE "service" \in fails
  <2>1. processRequestSub(s, c, r, fails) = [s |-> s, ok |-> FALSE]
    BY <1>3 DEF processRequestSub
  <2>2. QED BY <2>1 DEF Served
<1>4. CASE "service" \notin fails /\ found # {}
  <2> DEFINE serv == [s.serv EXCEPT ![i] = x]
  <2>1. processRequestSub(s, c, r, fails) = [s |-> [s EXCEPT !.serv = serv], ok |-> TRUE]
    BY <1>4 DEF processRequestSub
  <2>2. i \in 1..Len(s.serv) /\ s.serv[i].id = x.id
    BY <1>1, <1>4, FindFacts
  <2> HIDE DEF i, found
  <2>3. serv \in Seq(ServiceEntries) /\ UniqueIds(serv) /\ IdSet(serv) = IdSet(s.serv)
    BY <1>1, <2>2, IdsKept
  <2> HIDE DEF serv
  <2>4. [s EXCEPT !.serv = serv] = State(s.dev, serv, s.conn)
    BY DEF State, StateOK
  <2>5. StateOK(State(s.dev, serv, s.conn), clean)
    BY <1>1, <2>3, MakeState
  <2>6. State(s.dev, serv, s.conn).conn[c].open
    BY DEF State
  <2>7. QED BY <2>1, <2>4, <2>5, <2>6 DEF Served
<1>5. CASE "service" \notin fails /\ found = {}
  <2> DEFINE serv == <<x>> \o s.serv
  <2>1. processRequestSub(s, c, r, fails)
          = [s |-> NewService(s, serv, conn), ok |-> TRUE]
    BY <1>5 DEF processRequestSub, NewService
  <2>2. x.id \notin IdSet(s.serv)
    BY <1>1, <1>5, FindFacts
  <2>3. serv \in Seq(ServiceEntries) /\ UniqueIds(serv) /\ IdSet(serv) = IdSet(s.serv) \cup {x.id}
    BY <1>1, <2>2, IdsAdded
  <2>4. /\ conn = [e \in Clients |-> conn[e]]
        /\ \A e \in Clients :
             ConnOK(conn[e]) /\ Follows(conn[e], Learn(Ids(s), "NEW", x), clean)
    BY <1>2, NotificationsOK
  <2>5. conn[c].open
    <3> DEFINE q == s.conn[c]
               w == write_or_buffer(q, Notification("NEW", x), fails)
    <3>1. ConnOK(q) /\ q.open
      BY <1>1
    <3>2. Notification("NEW", x) \in Seq(Units)
      BY <1>2, NotificationType
    <3>3. IsConn(w.q) /\ w.q.open
      BY <3>1, <3>2, WriteOrBufferOK DEF SameInput, ConnOK
    <3>4. \/ conn[c] = q
          \/ conn[c] = [w.q EXCEPT !.known = Learn(@, "NEW", x)]
          \/ conn[c] = w.q
      BY DEF sendNotifications
    <3> HIDE DEF w, q, conn
    <3>5. QED BY <3>1, <3>3, <3>4 DEF IsConn
  <2> HIDE DEF serv, conn
  <2>6. NewService(s, serv, conn) = State(s.dev, serv, conn)
    BY NewServiceIs DEF StateOK
  <2>7. Learn(Ids(s), "NEW", x) = IdSet(s.dev) \cup IdSet(serv)
    BY <2>3 DEF Learn, Ids
  <2>8. \A e \in Clients :
          ConnOK(conn[e]) /\ Follows(conn[e], IdSet(s.dev) \cup IdSet(serv), clean)
    BY <2>4, <2>7
  <2>9. StateOK(State(s.dev, serv, conn), clean)
    BY <1>1, <2>3, <2>4, <2>8, MakeState
  <2>10. State(s.dev, serv, conn).conn[c].open
    BY <2>5 DEF State
  <2> DEFINE t == State(s.dev, serv, conn)
  <2> HIDE DEF t
  <2>11. StateOK(t, clean) /\ t.conn[c].open
    BY <2>9, <2>10 DEF t
  <2>12. processRequestSub(s, c, r, fails) = [s |-> t, ok |-> TRUE]
    BY <2>1, <2>6 DEF t
  <2>13. QED BY <2>11, <2>12 DEF Served
<1>6. QED BY <1>3, <1>4, <1>5

LEMMA RequestOK ==
  ASSUME NEW s, NEW clean \in BOOLEAN, StateOK(s, clean), NEW c \in Clients, s.conn[c].open,
         NEW r \in Requests, NEW fails, "buffer" \notin fails
  PROVE  Served(processRequestSub(s, c, r, fails), c, clean)
<1>1. ASSUME NEW data \in Seq(Units),
             processRequestSub(s, c, r, fails)
               = LET w == write_or_buffer(s.conn[c], data, fails)
                 IN  [s |-> [s EXCEPT !.conn[c] = w.q], ok |-> w.ok]
      PROVE  Served(processRequestSub(s, c, r, fails), c, clean)
  <2> DEFINE w == write_or_buffer(s.conn[c], data, fails)
             t == [s EXCEPT !.conn[c] = w.q]
  <2>1. w.ok \in BOOLEAN /\ w.q.open /\ StateOK(t, clean) /\ t.conn[c] = w.q
    BY ReplyOK
  <2>2. processRequestSub(s, c, r, fails) = [s |-> t, ok |-> w.ok]
    BY <1>1
  <2> HIDE DEF w, t
  <2>3. QED BY <2>1, <2>2 DEF Served
<1>2. CASE r.type = "version"
  <2>1. <<Version>> \in Seq(Units)
    BY DEF Units
  <2>2. QED BY <1>1, <1>2, <2>1 DEF processRequestSub
<1>3. CASE r.type \in {"type", "usn", "all"}
  <2>1. Search(s, r) \in Seq(Units)
    BY SearchType DEF StateOK
  <2>2. QED BY <1>1, <1>3, <2>1 DEF processRequestSub
<1>4. CASE r.type = "notif"
  BY <1>4, FollowOK
<1>5. CASE r.type = "submit"
  <2>1. PICK i \in DOMAIN Known : r = Request("submit", Known[i])
    BY <1>5 DEF Requests, Request
  <2>2. Known[i] \in ServiceEntries
    <3>1. Known \in Seq(ServiceEntries)
      BY MiniSSDPdAssumption DEF ServiceEntries
    <3>2. QED BY <2>1, <3>1, LenProperties, ElementOfSeq
  <2>3. r.arg \in ServiceEntries
    BY <2>1, <2>2 DEF Request
  <2>4. QED BY <1>5, <2>3, SubmitOK
<1>6. r.type \in {"version", "type", "usn", "all", "notif", "submit"}
  BY DEF Requests, Request
<1>7. QED BY <1>2, <1>3, <1>4, <1>5, <1>6

(* The recursion that Serve is defined by *)
Serving(s, c, reqs, fails, f) ==
  f = [i \in 0..Len(reqs) |->
         IF i = 0 THEN [s |-> s, ok |-> TRUE]
         ELSE IF f[i - 1].ok /\ ~SigPipe(f[i - 1].s)
         THEN processRequestSub(f[i - 1].s, c, reqs[i], fails)
         ELSE f[i - 1]]

LEMMA ServeExists ==
  ASSUME NEW s, NEW c, NEW reqs, NEW fails, Len(reqs) \in Nat
  PROVE  \E f : Serving(s, c, reqs, fails, f)
<1> DEFINE n == Len(reqs)
           First == [s |-> s, ok |-> TRUE]
           After(p, i) == IF p.ok /\ ~SigPipe(p.s)
                          THEN processRequestSub(p.s, c, reqs[i], fails) ELSE p
           Step(f, i) == IF i = 0 THEN First ELSE After(f[i - 1], i)
           P == {m \in 0..n : \E f : /\ DOMAIN f = 0..m /\ f = [i \in 0..m |-> f[i]]
                                     /\ \A i \in 0..m : f[i] = Step(f, i)}
<1>a. SUFFICES \E f : f = [i \in 0..n |-> Step(f, i)]
  BY DEF Serving
<1> HIDE DEF First, After
<1>1. n \in Nat
  OBVIOUS
<1> HIDE DEF n
<1>2. 0 \in P
  <2> DEFINE f == [i \in 0..0 |-> First]
  <2>1. DOMAIN f = 0..0 /\ \A i \in 0..0 : f[i] = Step(f, i)
    OBVIOUS
  <2>2. f = [i \in 0..0 |-> f[i]]
    OBVIOUS
  <2> HIDE DEF f
  <2>3. 0 \in 0..n
    BY <1>1
  <2>4. QED BY <2>1, <2>2, <2>3
<1>3. ASSUME NEW m \in 0..n, m # 0, m - 1 \in P PROVE m \in P
  <2>1. PICK f : /\ DOMAIN f = 0..(m - 1)
                 /\ \A i \in 0..(m - 1) : f[i] = Step(f, i)
    BY <1>3
  <2> DEFINE g == [i \in 0..m |-> IF i = m THEN Step(f, m) ELSE f[i]]
  <2>2. ASSUME NEW i \in 0..m PROVE g[i] = Step(g, i)
    <3>1. i # 0 => i - 1 \in 0..(m - 1)
      BY <1>1
    <3>2. i # 0 => g[i - 1] = f[i - 1]
      BY <1>1, <3>1
    <3>3. CASE i = m
      BY <1>3, <3>2, <3>3
    <3>4. CASE i # m
      <4>1. i \in 0..(m - 1) /\ g[i] = f[i]
        BY <1>1, <3>4
      <4>2. QED BY <2>1, <3>2, <4>1
    <3>5. QED BY <3>3, <3>4
  <2>3. DOMAIN g = 0..m /\ g = [i \in 0..m |-> g[i]]
    OBVIOUS
  <2> HIDE DEF g
  <2>4. QED BY <2>2, <2>3
<1> HIDE DEF P
<1>4. n \in P
  <2>1. \A i \in 0..n : i \in P
    BY <1>1, <1>2, <1>3, UpTo
  <2>2. QED BY <1>1, <2>1
<1>5. PICK f : /\ f = [i \in 0..n |-> f[i]]
               /\ \A i \in 0..n : f[i] = Step(f, i)
  BY <1>4 DEF P
<1>6. f = [i \in 0..n |-> Step(f, i)]
  BY <1>5
<1>7. QED BY <1>6

LEMMA ServeOK ==
  ASSUME NEW s, NEW clean \in BOOLEAN, StateOK(s, clean), NEW c \in Clients, s.conn[c].open,
         NEW reqs \in Seq(Requests), NEW fails, "buffer" \notin fails
  PROVE  Served(Serve(s, c, reqs, fails), c, clean)
<1> DEFINE n == Len(reqs)
           F == CHOOSE f : Serving(s, c, reqs, fails, f)
<1>1. n \in Nat /\ \A i \in 1..n : reqs[i] \in Requests
  BY LenProperties, ElementOfSeq
<1>2. \E f : Serving(s, c, reqs, fails, f)
  BY <1>1, ServeExists
<1>3. Serve(s, c, reqs, fails) = F[n]
  BY DEF Serve, Serving
<1>4. Serving(s, c, reqs, fails, F)
  BY <1>2
<1> HIDE DEF F
<1>5. F[0] = [s |-> s, ok |-> TRUE]
  BY <1>1, <1>4 DEF Serving
<1>6. ASSUME NEW i \in 0..n, i # 0
      PROVE  F[i] = IF F[i - 1].ok /\ ~SigPipe(F[i - 1].s)
                    THEN processRequestSub(F[i - 1].s, c, reqs[i], fails)
                    ELSE F[i - 1]
  BY <1>4, <1>6 DEF Serving
<1> HIDE DEF n
<1> DEFINE P == {i \in 0..n : Served(F[i], c, clean)}
<1>7. 0 \in P
  <2>1. F[0].s = s /\ F[0].ok = TRUE
    BY <1>5
  <2>2. Served(F[0], c, clean)
    BY <2>1 DEF Served
  <2>3. QED BY <1>1, <2>2
<1>8. ASSUME NEW i \in 0..n, i # 0, i - 1 \in P PROVE i \in P
  <2> DEFINE p == F[i - 1]
  <2>1. p.ok \in BOOLEAN /\ StateOK(p.s, clean) /\ p.s.conn[c].open
    BY <1>8 DEF Served
  <2>2. F[i] = IF p.ok /\ ~SigPipe(p.s) THEN processRequestSub(p.s, c, reqs[i], fails) ELSE p
    BY <1>6, <1>8
  <2>3. Served(p, c, clean)
    BY <2>1 DEF Served
  <2>4. reqs[i] \in Requests
    BY <1>1, <1>8
  <2> HIDE DEF p
  <2>5. Served(processRequestSub(p.s, c, reqs[i], fails), c, clean)
    BY <2>1, <2>4, RequestOK
  <2>6. QED BY <2>2, <2>3, <2>5
<1> HIDE DEF P
<1>9. \A i \in 0..n : i \in P
  BY <1>1, <1>7, <1>8, UpTo
<1>10. n \in 0..n
  BY <1>1
<1>11. QED BY <1>3, <1>9, <1>10 DEF P

(* The requests read at once *)
LEMMA WholeRequestsType ==
  ASSUME NEW chunk \in Seq(Inputs)
  PROVE  WholeRequests(chunk) \in Seq(Requests)
<1> DEFINE N == DOMAIN chunk
           first == {i \in N : /\ chunk[i].part = 1
                               /\ i < Len(chunk) \/ chunk[i].r.type \in ZeroLengthOK}
           ok == Sublist([i \in N |-> i], first)
<1>1. N = 1..Len(chunk) /\ Len(chunk) \in Nat /\ \A i \in N : chunk[i].r \in Requests
  <2>1. N = 1..Len(chunk) /\ Len(chunk) \in Nat
    BY LenProperties
  <2>2. \A i \in 1..Len(chunk) : chunk[i] \in Inputs
    BY ElementOfSeq
  <2>3. QED BY <2>1, <2>2 DEF Inputs
<1>2. [i \in N |-> i] \in Seq(N)
  <2>1. [i \in N |-> i] \in [1..Len(chunk) -> N]
    BY <1>1
  <2>2. QED BY <1>1, <2>1, SeqDef
<1>3. ok \in Seq(N)
  <2> HIDE DEF N, first
  <2>1. QED BY <1>2, SublistFacts
<1>4. WholeRequests(chunk) = IF chunk[1].part = 2 THEN <<>> ELSE [i \in DOMAIN ok |-> chunk[ok[i]].r]
  BY DEF WholeRequests
<1> HIDE DEF N, ok
<1>5. Len(ok) \in Nat /\ DOMAIN ok = 1..Len(ok) /\ \A i \in 1..Len(ok) : ok[i] \in N
  BY <1>3, LenProperties, ElementOfSeq
<1>6. [i \in DOMAIN ok |-> chunk[ok[i]].r] \in [1..Len(ok) -> Requests]
  BY <1>1, <1>5
<1>7. [i \in DOMAIN ok |-> chunk[ok[i]].r] \in Seq(Requests)
  BY <1>5, <1>6, SeqDef
<1>8. <<>> \in Seq(Requests)
  BY EmptySeq
<1>9. QED BY <1>4, <1>7, <1>8

-----------------------------------------------------------------------------
(* The steps of a client on its connection *)

(* Where a client is once it has connected *)
Steps == {"connected", "written", "submitting", "following", "submitted", "answered", "failed"}

SentConn(q, r, step) == [q EXCEPT !.in = @ \o Parts(r), !.step = step, !.todo = @ + 1]
LeftConn(q, step) == [q EXCEPT !.step = step, !.peer = FALSE, !.sock = <<>>, !.wanted = <<>>]
RestConn(q, in) == [q EXCEPT !.in = in]

(* The fields that the daemon's own steps depend on *)
SameOutput(p, q) ==
  /\ p.open = q.open /\ p.peer = q.peer /\ p.notify = q.notify /\ p.known = q.known
  /\ p.out = q.out /\ p.sock = q.sock /\ p.wanted = q.wanted

LEMMA SameOutputOK ==
  ASSUME NEW p, NEW q, ConnOK(q), IsConn(p), SameOutput(p, q), p.step # "idle",
         NEW ids, NEW clean, Follows(q, ids, clean)
  PROVE  ConnOK(p) /\ Follows(p, ids, clean)
<1>1. Frames(p)
  BY DEF Frames, ConnOK, SameOutput
<1>2. ConnOK(p)
  BY <1>1 DEF ConnOK, SameOutput
<1>3. Follows(p, ids, clean)
  BY DEF Follows, SameOutput
<1>4. QED BY <1>2, <1>3

LEMMA SentConnOK ==
  ASSUME NEW q, ConnOK(q), NEW r \in Requests, NEW step \in Steps,
         NEW ids, NEW clean, Follows(q, ids, clean)
  PROVE  ConnOK(SentConn(q, r, step)) /\ Follows(SentConn(q, r, step), ids, clean)
<1> DEFINE p == SentConn(q, r, step)
           in == q.in \o Parts(r)
<1>0. step # "idle"
  BY DEF Steps
<1>1. IsConn(q)
  BY DEF ConnOK
<1>2. in \in Seq(Inputs)
  <2>1. [r |-> r, part |-> 1] \in Inputs /\ [r |-> r, part |-> 2] \in Inputs
    BY DEF Inputs
  <2>2. Parts(r) \in Seq(Inputs)
    BY <2>1 DEF Parts
  <2>3. q.in \in Seq(Inputs)
    BY <1>1 DEF IsConn
  <2>4. QED BY <2>2, <2>3, ConcatProperties
<1> DEFINE todo == q.todo + 1
<1>3. p = [q EXCEPT !.in = in, !.step = step, !.todo = todo]
  BY DEF SentConn
<1>a. todo \in Nat \ {0}
  BY <1>1 DEF IsConn
<1> HIDE DEF p, in, todo
<1>4. IsConn(p) /\ SameOutput(p, q) /\ p.step = step
  BY <1>0, <1>1, <1>2, <1>3, <1>a DEF IsConn, SameOutput
<1>5. ConnOK(p) /\ Follows(p, ids, clean)
  BY <1>0, <1>4, SameOutputOK
<1>6. QED BY <1>5 DEF p

LEMMA RestConnOK ==
  ASSUME NEW q, ConnOK(q), q.open, NEW in \in Seq(Inputs),
         NEW ids, NEW clean, Follows(q, ids, clean)
  PROVE  ConnOK(RestConn(q, in)) /\ Follows(RestConn(q, in), ids, clean) /\ RestConn(q, in).open
<1> DEFINE p == RestConn(q, in)
<1>1. IsConn(p) /\ SameOutput(p, q) /\ p.step = q.step
  BY DEF RestConn, IsConn, SameOutput, ConnOK
<1>2. q.step # "idle"
  BY DEF ConnOK, Free
<1> HIDE DEF p
<1>3. ConnOK(p) /\ Follows(p, ids, clean) /\ p.open
  BY <1>1, <1>2, SameOutputOK DEF SameOutput
<1>4. QED BY <1>3 DEF p

LEMMA LeftConnOK ==
  ASSUME NEW q, ConnOK(q), NEW step \in Steps, NEW ids, NEW clean
  PROVE  ConnOK(LeftConn(q, step)) /\ Follows(LeftConn(q, step), ids, clean)
<1> DEFINE p == LeftConn(q, step)
<1>0. step # "idle"
  BY DEF Steps
<1>1. /\ IsConn(p) /\ p.step = step /\ p.peer = FALSE /\ p.sock = <<>>
      /\ p.open = q.open /\ p.notify = q.notify /\ p.out = q.out
  BY <1>0, EmptySeq DEF LeftConn, IsConn, ConnOK
<1>2. Len(<<>>) <= SockBuf
  BY MiniSSDPdAssumption
<1> HIDE DEF p
<1>3. Frames(p)
  BY <1>1 DEF Frames
<1>4. ConnOK(p)
  BY <1>0, <1>1, <1>2, <1>3 DEF ConnOK
<1>5. Follows(p, ids, clean)
  BY <1>1 DEF Follows
<1>6. QED BY <1>4, <1>5 DEF p

(* read(): the first unit leaves both what travels and what is awaited *)
LEMMA TailOfConcat ==
  ASSUME NEW s \in Seq(Units), s # <<>>, NEW t \in Seq(Units)
  PROVE  s \o t # <<>> /\ Tail(s \o t) = Tail(s) \o t
<1>1. Len(s) \in Nat \ {0} /\ Len(t) \in Nat
  BY EmptySeq, LenProperties
<1>2. /\ s \o t \in Seq(Units) /\ Len(s \o t) = Len(s) + Len(t)
      /\ \A i \in 1..Len(s) + Len(t) : (s \o t)[i] = IF i <= Len(s) THEN s[i] ELSE t[i - Len(s)]
  BY ConcatProperties
<1>3. s \o t # <<>>
  BY <1>1, <1>2
<1>4. /\ Tail(s) \in Seq(Units) /\ Len(Tail(s)) = Len(s) - 1
      /\ \A i \in 1..Len(Tail(s)) : Tail(s)[i] = s[i + 1]
  BY HeadTailProperties
<1>5. /\ Tail(s \o t) \in Seq(Units) /\ Len(Tail(s \o t)) = Len(s \o t) - 1
      /\ \A i \in 1..Len(Tail(s \o t)) : Tail(s \o t)[i] = (s \o t)[i + 1]
  BY <1>2, <1>3, HeadTailProperties
<1>6. /\ Tail(s) \o t \in Seq(Units) /\ Len(Tail(s) \o t) = Len(Tail(s)) + Len(t)
      /\ \A i \in 1..Len(Tail(s)) + Len(t) :
           (Tail(s) \o t)[i] = IF i <= Len(Tail(s)) THEN Tail(s)[i] ELSE t[i - Len(Tail(s))]
  BY <1>4, ConcatProperties
<1>7. Len(Tail(s \o t)) = Len(Tail(s) \o t)
  BY <1>1, <1>2, <1>4, <1>5, <1>6
<1>8. ASSUME NEW i \in 1..Len(Tail(s \o t)) PROVE Tail(s \o t)[i] = (Tail(s) \o t)[i]
  <2>1. i + 1 \in 1..Len(s) + Len(t) /\ i \in 1..Len(Tail(s)) + Len(t)
    BY <1>1, <1>2, <1>4, <1>5
  <2>2. CASE i <= Len(s) - 1
    <3>1. i + 1 <= Len(s) /\ i \in 1..Len(Tail(s))
      BY <1>1, <1>4, <2>1, <2>2
    <3>2. QED BY <1>2, <1>4, <1>5, <1>6, <2>1, <3>1
  <2>3. CASE ~(i <= Len(s) - 1)
    <3>1. ~(i + 1 <= Len(s)) /\ ~(i <= Len(Tail(s))) /\ (i + 1) - Len(s) = i - Len(Tail(s))
      BY <1>1, <1>4, <2>1, <2>3
    <3>2. QED BY <1>2, <1>5, <1>6, <2>1, <3>1
  <2>4. QED BY <2>2, <2>3
<1>9. QED BY <1>3, <1>5, <1>6, <1>7, <1>8, SeqEqual

ReadConn(q, left) == [q EXCEPT !.sock = Tail(@), !.wanted = Tail(@), !.left = left]

LEMMA ReadConnOK ==
  ASSUME NEW q, ConnOK(q), q.peer, q.sock # <<>>, NEW left,
         NEW ids, NEW clean, Follows(q, ids, clean)
  PROVE  ConnOK(ReadConn(q, left)) /\ Follows(ReadConn(q, left), ids, clean)
<1> DEFINE p == ReadConn(q, left)
<1>1. IsConn(q) /\ q.sock \in Seq(Units) /\ q.wanted \in Seq(Units) /\ q.out \in Seq(Units)
  BY DEF ConnOK, IsConn
<1>2. PICK rest \in Seq(Units) : q.wanted = q.sock \o rest
  BY DEF ConnOK, Frames
<1>3. q.wanted # <<>> /\ Tail(q.wanted) = Tail(q.sock) \o rest
  <2>1. q.sock \o rest # <<>> /\ Tail(q.sock \o rest) = Tail(q.sock) \o rest
    BY <1>1, TailOfConcat
  <2>2. QED BY <1>2, <2>1
<1>4. q.open => Tail(q.wanted) = Tail(q.sock) \o q.out
  <2>1. Tail(q.sock \o q.out) = Tail(q.sock) \o q.out
    BY <1>1, TailOfConcat
  <2>2. QED BY <2>1 DEF ConnOK, Frames
<1>5. /\ Tail(q.sock) \in Seq(Units) /\ Len(Tail(q.sock)) = Len(q.sock) - 1
      /\ Tail(q.wanted) \in Seq(Units) /\ Len(q.sock) \in Nat
  BY <1>1, <1>3, HeadTailProperties, LenProperties
<1>6. Len(Tail(q.sock)) <= SockBuf
  BY <1>5, MiniSSDPdAssumption DEF ConnOK
<1> DEFINE u == Tail(q.sock)
           v == Tail(q.wanted)
<1>7. p = [q EXCEPT !.sock = u, !.wanted = v, !.left = left]
  BY DEF ReadConn
<1>8. u \in Seq(Units) /\ v \in Seq(Units)
  BY <1>5
<1> HIDE DEF p, u, v
<1>9. /\ IsConn(p) /\ p.open = q.open /\ p.peer = q.peer /\ p.step = q.step
      /\ p.notify = q.notify /\ p.known = q.known /\ p.out = q.out
      /\ p.sock = u /\ p.wanted = v
  BY <1>1, <1>7, <1>8 DEF IsConn
<1>10. q.step # "idle"
  BY DEF ConnOK, Free
<1>11. Frames(p)
  BY <1>3, <1>4, <1>9 DEF Frames, u, v
<1>12. ConnOK(p)
  BY <1>6, <1>9, <1>10, <1>11 DEF ConnOK, u
<1>13. Follows(p, ids, clean)
  BY <1>9 DEF Follows
<1>14. QED BY <1>12, <1>13 DEF p

-----------------------------------------------------------------------------
(* The inductive invariant *)

MiniSSDPdInv ==
  /\ StateOK(d, faults = 0)
  /\ now \in Nat /\ faults \in Nat

LEMMA InitOK == Init => MiniSSDPdInv
<1> SUFFICES ASSUME Init PROVE MiniSSDPdInv
  OBVIOUS
<1> DEFINE conn == [c \in Clients |-> Free]
<1>1. d = State(<<>>, <<>>, conn) /\ now = 0 /\ faults = 0
  BY DEF Init, State
<1>2. ConnOK(Free)
  <2>1. <<>> \in Seq(Units) /\ <<>> \in Seq(Inputs) /\ Len(<<>>) <= SockBuf
    BY EmptySeq, MiniSSDPdAssumption
  <2>2. IsConn(Free)
    <3>1. Free \in [open : BOOLEAN, peer : BOOLEAN, step : {"idle"}, in : Seq(Inputs),
                    notify : BOOLEAN, out : Seq(Units), sock : Seq(Units), wanted : Seq(Units),
                    known : SUBSET (Devices \cup Services), left : {-1}, todo : Nat \ {0},
                    sigpipe : BOOLEAN]
      BY <2>1 DEF Free
    <3>2. Free.left = -1 /\ Free.step = "idle"
      BY DEF Free
    <3>3. QED BY <3>1, <3>2 DEF IsConn
  <2>3. Frames(Free)
    BY DEF Frames, Free
  <2>4. /\ Free.sock = <<>> /\ Free.out = <<>> /\ Free.notify = FALSE /\ Free.step = "idle"
    BY DEF Free
  <2>5. QED BY <2>1, <2>2, <2>3, <2>4 DEF ConnOK
<1>3. \A ids, clean : Follows(Free, ids, clean)
  BY DEF Follows, Free
<1>4. /\ conn = [c \in Clients |-> conn[c]]
      /\ \A c \in Clients : ConnOK(conn[c]) /\ Follows(conn[c], IdSet(<<>>) \cup IdSet(<<>>), TRUE)
  BY <1>2, <1>3
<1>5. <<>> \in Seq(DeviceEntries) /\ <<>> \in Seq(ServiceEntries) /\ UniqueIds(<<>>)
  BY EmptySeq DEF UniqueIds
<1> HIDE DEF conn
<1>6. StateOK(State(<<>>, <<>>, conn), TRUE)
  BY <1>4, <1>5, MakeState
<1>7. (faults = 0) = TRUE
  BY <1>1
<1>8. QED BY <1>1, <1>6, <1>7 DEF MiniSSDPdInv

LEMMA FailsFacts ==
  ASSUME NEW F, Fails(F), faults \in Nat, "buffer" \notin Failing
  PROVE  /\ "buffer" \notin F
         /\ faults' \in Nat
         /\ (faults' = 0) => F = {} /\ (faults = 0)
<1>1. F = {} \/ \E f \in Failing : F = {f}
  BY DEF Fails
<1>2. "buffer" \notin F
  BY <1>1
<1>3. F = {} => Cardinality(F) = 0
  BY FS_EmptySet
<1>4. F # {} => Cardinality(F) = 1
  BY <1>1, FS_Singleton
<1>5. faults' = faults + Cardinality(F)
  BY DEF Fails
<1>6. QED BY <1>2, <1>3, <1>4, <1>5, SMTT(30)

(* More may have failed *)
LEMMA Weaken ==
  ASSUME NEW s, NEW before, NEW after, StateOK(s, before), after => before
  PROVE  StateOK(s, after)
BY DEF StateOK, Follows

(* What a handler made of the lists and connections is kept, or a client   *)
(* that is gone has ended the process                                      *)
LEMMA SurvivesStep ==
  ASSUME MiniSSDPdInv, NEW s, StateOK(s, faults' = 0), Survives(s),
         now' = now, faults' \in Nat
  PROVE  MiniSSDPdInv'
<1> DEFINE clean == faults' = 0
<1>1. CASE d' = s
  BY <1>1 DEF MiniSSDPdInv
<1>2. CASE \E told \in SUBSET Clients :
             d' = Cleanup([c \in Clients |-> IF c \in told THEN s.conn[c] ELSE d.conn[c]])
  <2>1. PICK told \in SUBSET Clients :
          d' = Cleanup([c \in Clients |-> IF c \in told THEN s.conn[c] ELSE d.conn[c]])
    BY <1>2
  <2> DEFINE conn == [c \in Clients |-> IF c \in told THEN s.conn[c] ELSE d.conn[c]]
  <2>2. \A c \in Clients : ConnOK(s.conn[c]) /\ ConnOK(d.conn[c])
    BY DEF StateOK, MiniSSDPdInv
  <2>3. \A c \in Clients : ConnOK(conn[c])
    BY <2>2
  <2> HIDE DEF conn
  <2>4. StateOK(Cleanup(conn), clean)
    BY <2>3, CleanupOK
  <2>5. d' = Cleanup(conn)
    BY <2>1 DEF conn
  <2>6. StateOK(d', clean)
    BY <2>4, <2>5
  <2>7. QED BY <2>6 DEF MiniSSDPdInv
<1>3. QED BY <1>1, <1>2 DEF Survives

(* A step on one connection *)
LEMMA ConnStep ==
  ASSUME MiniSSDPdInv, NEW c \in Clients, NEW q, d' = [d EXCEPT !.conn[c] = q],
         ConnOK(q), Follows(q, Ids(d), faults' = 0),
         now' = now, faults' \in Nat, faults' = 0 => faults = 0
  PROVE  MiniSSDPdInv'
<1> DEFINE clean == faults' = 0
<1>1. StateOK(d, clean)
  BY Weaken DEF MiniSSDPdInv
<1>2. StateOK([d EXCEPT !.conn[c] = q], clean)
  BY <1>1, SetConn
<1>3. StateOK(d', clean)
  BY <1>2
<1>4. QED BY <1>3 DEF MiniSSDPdInv

LEMMA ConnInv ==
  ASSUME MiniSSDPdInv, NEW c \in Clients
  PROVE  /\ ConnOK(d.conn[c]) /\ Follows(d.conn[c], Ids(d), faults = 0)
         /\ d = [d EXCEPT !.conn[c] = d.conn[c]]
BY DEF MiniSSDPdInv, StateOK

LEMMA LeaveStep ==
  ASSUME MiniSSDPdInv, NEW c \in Clients, NEW step \in Steps, Leave(c, step)
  PROVE  MiniSSDPdInv'
<1> DEFINE q == LeftConn(d.conn[c], step)
<1>1. d' = [d EXCEPT !.conn[c] = q] /\ now' = now /\ faults' = faults /\ faults \in Nat
  BY DEF Leave, LeftConn, OnlyClients, MiniSSDPdInv, StateOK
<1>2. ConnOK(q) /\ Follows(q, Ids(d), faults' = 0)
  BY ConnInv, LeftConnOK
<1> HIDE DEF q
<1>3. QED BY <1>1, <1>2, ConnStep

LEMMA SendStep ==
  ASSUME MiniSSDPdInv, NEW c \in Clients, NEW r \in Requests,
         NEW step \in Steps, Send(c, r, step)
  PROVE  MiniSSDPdInv'
<1>1. CASE Leave(c, "failed")
  BY <1>1, LeaveStep DEF Steps
<1>2. CASE ~Leave(c, "failed")
  <2> DEFINE q == SentConn(d.conn[c], r, step)
  <2>1. d' = [d EXCEPT !.conn[c] = q] /\ now' = now /\ faults' = faults /\ faults \in Nat
    <3>1. d' = [d EXCEPT !.conn[c] = q]
      BY <1>2, Zenon DEF Send, SentConn
    <3>2. now' = now /\ faults' = faults /\ faults \in Nat
      BY <1>2 DEF Send, OnlyClients, MiniSSDPdInv
    <3>3. QED BY <3>1, <3>2
  <2>2. ConnOK(q) /\ Follows(q, Ids(d), faults = 0)
    BY ConnInv, SentConnOK
  <2>3. Follows(q, Ids(d), faults' = 0)
    BY <2>1, <2>2
  <2> HIDE DEF q
  <2>4. QED BY <2>1, <2>2, <2>3, ConnStep
<1>3. QED BY <1>1, <1>2

LEMMA ConnectStep ==
  ASSUME MiniSSDPdInv, "buffer" \notin Failing, NEW c \in Clients, connectToMiniSSDPD(c)
  PROVE  MiniSSDPdInv'
<1>1. PICK F : /\ Fails(F)
               /\ d' = [d EXCEPT !.conn[c] = [@ EXCEPT !.open = (F = {}), !.peer = TRUE,
                                                       !.step = "connected"]]
  BY DEF connectToMiniSSDPD
<1> DEFINE b == F = {}
           q == [Free EXCEPT !.open = b, !.peer = TRUE, !.step = "connected"]
<1>2. d.conn[c] = Free
  BY ConnInv DEF connectToMiniSSDPD, ConnOK
<1>3. d' = [d EXCEPT !.conn[c] = q]
  BY <1>1, <1>2 DEF MiniSSDPdInv, StateOK
<1>4. faults' \in Nat /\ (faults' = 0 => faults = 0) /\ now' = now
  BY <1>1, FailsFacts DEF MiniSSDPdInv, connectToMiniSSDPD, OnlyClients
<1> HIDE DEF b
<1>5. b \in BOOLEAN
  BY DEF b
<1>6. <<>> \in Seq(Units) /\ <<>> \in Seq(Inputs) /\ Len(<<>>) <= SockBuf /\ <<>> \o <<>> = <<>>
  BY EmptySeq, MiniSSDPdAssumption, ConcatEmptySeq
<1>7. /\ IsConn(q) /\ q.notify = FALSE /\ q.step = "connected"
      /\ q.sock = <<>> /\ q.out = <<>> /\ q.wanted = <<>>
  <2>1. q \in [open : BOOLEAN, peer : BOOLEAN, step : {"connected"}, in : Seq(Inputs),
               notify : BOOLEAN, out : Seq(Units), sock : Seq(Units), wanted : Seq(Units),
               known : SUBSET (Devices \cup Services), left : {-1}, todo : Nat \ {0}, sigpipe : BOOLEAN]
    <3> DEFINE f == Free
    <3>1. f \in [open : BOOLEAN, peer : BOOLEAN, step : {"idle"}, in : Seq(Inputs),
                 notify : BOOLEAN, out : Seq(Units), sock : Seq(Units), wanted : Seq(Units),
                 known : SUBSET (Devices \cup Services), left : {-1}, todo : Nat \ {0}, sigpipe : BOOLEAN]
      BY <1>6 DEF Free
    <3> HIDE DEF f
    <3>2. QED BY <1>5, <3>1 DEF f
  <2>2. /\ q.notify = FALSE /\ q.step = "connected" /\ q.left = -1
        /\ q.sock = <<>> /\ q.out = <<>> /\ q.wanted = <<>>
    BY DEF Free
  <2> HIDE DEF q
  <2>3. QED BY <2>1, <2>2 DEF IsConn
<1> HIDE DEF q
<1>8. Frames(q)
  BY <1>6, <1>7 DEF Frames
<1>9. ConnOK(q)
  BY <1>6, <1>7, <1>8 DEF ConnOK
<1>10. Follows(q, Ids(d), faults' = 0)
  BY <1>7 DEF Follows
<1>11. QED BY <1>3, <1>4, <1>9, <1>10, ConnStep

LEMMA ReadStep ==
  ASSUME MiniSSDPdInv, NEW c \in Clients, Read(c)
  PROVE  MiniSSDPdInv'
<1> DEFINE o == d.conn[c]
           left == CASE o.step # "written" -> o.left
                     [] o.step = "written" /\ o.left < 0 -> Head(o.sock).n
                     [] OTHER -> o.left - 1
           q == ReadConn(o, left)
<1>1. d' = [d EXCEPT !.conn[c] = q] /\ now' = now /\ faults' = faults /\ faults \in Nat
  <2>1. d' = [d EXCEPT !.conn[c] = q]
    BY Zenon DEF Read, ReadConn
  <2>2. now' = now /\ faults' = faults /\ faults \in Nat
    BY DEF Read, OnlyClients, MiniSSDPdInv
  <2>3. QED BY <2>1, <2>2
<1>2. ConnOK(o) /\ Follows(o, Ids(d), faults = 0) /\ o.peer /\ o.sock # <<>>
  BY ConnInv DEF Read
<1> HIDE DEF o, left
<1>3. ConnOK(q) /\ Follows(q, Ids(d), faults = 0)
  BY <1>2, ReadConnOK
<1>4. Follows(q, Ids(d), faults' = 0)
  BY <1>1, <1>3
<1> HIDE DEF q
<1>5. QED BY <1>1, <1>3, <1>4, ConnStep

LEMMA ClientStepOK ==
  ASSUME MiniSSDPdInv, "buffer" \notin Failing, NEW c \in Clients, ClientStep(c)
  PROVE  MiniSSDPdInv'
<1>1. CASE connectToMiniSSDPD(c)
  BY <1>1, ConnectStep
<1>2. CASE requestDevicesFromMiniSSDPD(c)
  <2>1. PICK r \in {Request("all", NoArg)} \cup {Request("type", t) : t \in Types} :
          Send(c, r, "written")
    BY <1>2 DEF requestDevicesFromMiniSSDPD
  <2>2. r \in Requests
    BY <2>1 DEF Requests
  <2>3. QED BY <2>1, <2>2, SendStep DEF Steps
<1>3. CASE SubmitServicesToMiniSSDPD(c)
  <2> DEFINE i == d.conn[c].todo
  <2>1. CASE i <= Len(Known) /\ Send(c, Request("submit", Known[i]), "submitting")
    <3>1. i \in Nat \ {0}
      BY ConnInv DEF ConnOK, IsConn
    <3>2. Len(Known) \in Nat /\ DOMAIN Known = 1..Len(Known)
      BY MiniSSDPdAssumption, LenProperties
    <3>3. i \in DOMAIN Known
      BY <2>1, <3>1, <3>2
    <3>4. Request("submit", Known[i]) \in Requests
      BY <3>3 DEF Requests
    <3>5. QED BY <2>1, <3>4, SendStep DEF Steps
  <2>2. CASE Leave(c, "submitted")
    BY <2>2, LeaveStep DEF Steps
  <2>3. QED BY <1>3, <2>1, <2>2 DEF SubmitServicesToMiniSSDPD
<1>4. CASE Follow(c)
  <2>1. PICK r \in {Request("notif", NoArg), Request("version", NoArg)}
                   \cup {Request("usn", [id |-> id]) : id \in Devices} :
          Send(c, r, "following")
    BY <1>4 DEF Follow
  <2>2. r \in Requests
    BY <2>1 DEF Requests
  <2>3. QED BY <2>1, <2>2, SendStep DEF Steps
<1>5. CASE Read(c)
  BY <1>5, ReadStep
<1>6. CASE receiveDevicesFromMiniSSDPD(c)
  BY <1>6, LeaveStep DEF Steps, receiveDevicesFromMiniSSDPD
<1>7. CASE GiveUp(c)
  BY <1>7, LeaveStep DEF Steps, GiveUp
<1>8. QED BY <1>1, <1>2, <1>3, <1>4, <1>5, <1>6, <1>7 DEF ClientStep

LEMMA ParseStep ==
  ASSUME MiniSSDPdInv, "buffer" \notin Failing, ParseSSDPPacket
  PROVE  MiniSSDPdInv'
<1>1. PICK id \in Devices, F \in {{}} \cup {{f} : f \in Failing} :
        /\ Fails(F)
        /\ \/ \E loc \in Locations, life \in Lifetimes :
                Survives(updateDevice(d, id, loc, now + life, F))
           \/ Survives(removeDevice(d, id, F))
  BY DEF ParseSSDPPacket
<1> DEFINE clean == faults' = 0
<1>2. /\ "buffer" \notin F /\ faults' \in Nat /\ (clean => F = {} /\ (faults = 0))
  BY <1>1, FailsFacts DEF MiniSSDPdInv
<1>3. clean \in BOOLEAN /\ now' = now /\ now \in Nat
  BY DEF ParseSSDPPacket, MiniSSDPdInv
<1>4. StateOK(d, clean)
  BY <1>2, Weaken DEF MiniSSDPdInv
<1> HIDE DEF clean
<1>5. ASSUME NEW s, StateOK(s, clean), Survives(s) PROVE MiniSSDPdInv'
  BY <1>2, <1>3, <1>5, SurvivesStep DEF clean
<1>6. CASE Survives(removeDevice(d, id, F))
  <2>1. StateOK(removeDevice(d, id, F), clean)
    BY <1>2, <1>3, <1>4, RemoveDeviceOK
  <2>2. QED BY ONLY <1>5, <1>6, <2>1
<1>7. CASE \E loc \in Locations, life \in Lifetimes :
             Survives(updateDevice(d, id, loc, now + life, F))
  <2>1. PICK loc \in Locations, life \in Lifetimes :
          Survives(updateDevice(d, id, loc, now + life, F))
    BY <1>7
  <2> DEFINE t == now + life
  <2>2. loc \in Seq(STRING) /\ t \in Nat
    BY <1>3, MiniSSDPdAssumption
  <2> HIDE DEF t
  <2>3. StateOK(updateDevice(d, id, loc, t, F), clean)
    BY <1>2, <1>3, <1>4, <2>2, UpdateDeviceOK
  <2>4. Survives(updateDevice(d, id, loc, t, F))
    BY <2>1 DEF t
  <2>5. QED BY ONLY <1>5, <2>3, <2>4
<1>8. QED BY <1>1, <1>6, <1>7

LEMMA ProcessRequestStep ==
  ASSUME MiniSSDPdInv, "buffer" \notin Failing, NEW c \in Clients, processRequest(c)
  PROVE  MiniSSDPdInv'
<1> DEFINE q == d.conn[c]
           n == Min({Len(q.in), ReadMax})
           chunk == SubSeq(q.in, 1, n)
           rest == SubSeq(q.in, n + 1, Len(q.in))
           read == [d EXCEPT !.conn[c] = RestConn(q, rest)]
           clean == faults' = 0
<1>1. ConnOK(q) /\ Follows(q, Ids(d), faults = 0) /\ q.open /\ q.in \in Seq(Inputs) /\ now' = now
  BY ConnInv DEF ConnOK, IsConn, processRequest
<1>2. CASE q.in = <<>> /\ d' = Closed(d, c) /\ UNCHANGED faults
  <2>1. StateOK(Closed(d, c), faults = 0)
    BY ClosedOK DEF MiniSSDPdInv
  <2>2. QED BY <1>1, <1>2, <2>1 DEF MiniSSDPdInv
<1>3. CASE \E F \in {{}} \cup {{f} : f \in Failing} :
             /\ Fails(F)
             /\ LET r == Serve(read, c, WholeRequests(chunk), F)
                IN  Survives(IF (r.ok /\ ~BadRequest(chunk)) \/ SigPipe(r.s)
                             THEN r.s ELSE Closed(r.s, c))
  <2>1. PICK F : /\ Fails(F)
                 /\ LET r == Serve(read, c, WholeRequests(chunk), F)
                    IN  Survives(IF (r.ok /\ ~BadRequest(chunk)) \/ SigPipe(r.s)
                                 THEN r.s ELSE Closed(r.s, c))
    BY <1>3
  <2>2. "buffer" \notin F /\ faults' \in Nat /\ (clean => (faults = 0))
    BY <2>1, FailsFacts DEF MiniSSDPdInv
  <2>3. n \in 0..Len(q.in)
    <3> DEFINE I == {Len(q.in), ReadMax}
    <3>1. Len(q.in) \in Nat /\ ReadMax \in Nat
      BY <1>1, LenProperties, MiniSSDPdAssumption
    <3>2. I \in SUBSET Nat /\ I # {}
      BY <3>1
    <3>3. Min(I) \in I /\ \A j \in I : Min(I) <= j
      BY <3>2, MinIsLeast
    <3>4. QED BY <3>1, <3>3
  <2> HIDE DEF n
  <2>4. chunk \in Seq(Inputs) /\ rest \in Seq(Inputs)
    BY <1>1, <2>3, SplitAt
  <2> HIDE DEF q, chunk, rest, clean
  <2>5. clean \in BOOLEAN /\ StateOK(d, clean)
    BY <2>2, Weaken DEF clean, MiniSSDPdInv
  <2>6. StateOK(read, clean) /\ read.conn[c].open
    <3> DEFINE p == RestConn(q, rest)
    <3>1. Follows(q, Ids(d), clean)
      BY <2>5 DEF StateOK, q
    <3>2. ConnOK(p) /\ Follows(p, Ids(d), clean) /\ p.open
      BY <1>1, <2>4, <3>1, RestConnOK
    <3> HIDE DEF p
    <3>3. StateOK([d EXCEPT !.conn[c] = p], clean) /\ [d EXCEPT !.conn[c] = p].conn[c] = p
      BY <2>5, <3>2, SetConn
    <3>4. QED BY <3>2, <3>3 DEF p
  <2> HIDE DEF read
  <2> DEFINE r == Serve(read, c, WholeRequests(chunk), F)
  <2>7. WholeRequests(chunk) \in Seq(Requests)
    BY <2>4, WholeRequestsType
  <2>8. Served(r, c, clean)
    BY <2>2, <2>5, <2>6, <2>7, ServeOK
  <2>9. Survives(r.s) \/ Survives(Closed(r.s, c))
    BY <2>1
  <2> HIDE DEF r
  <2>10. StateOK(r.s, clean)
    BY <2>8 DEF Served
  <2>11. StateOK(Closed(r.s, c), clean)
    BY <2>10, ClosedOK
  <2>12. ASSUME NEW s, StateOK(s, clean), Survives(s) PROVE MiniSSDPdInv'
    BY <1>1, <2>2, <2>12, SurvivesStep DEF clean
  <2>13. QED BY ONLY <2>9, <2>10, <2>11, <2>12
<1>4. QED BY <1>2, <1>3 DEF processRequest, RestConn

LEMMA WriteBufferStep ==
  ASSUME MiniSSDPdInv, NEW c \in Clients, WriteBuffer(c)
  PROVE  MiniSSDPdInv'
<1> DEFINE q == write_buffer(d.conn[c])
<1>1. /\ Survives([d EXCEPT !.conn[c] = q]) /\ d.conn[c].open
      /\ now' = now /\ faults' = faults /\ faults \in Nat
  BY DEF WriteBuffer, MiniSSDPdInv
<1>2. ConnOK(d.conn[c]) /\ Follows(d.conn[c], Ids(d), faults = 0)
  BY ConnInv
<1>3. ConnOK(q) /\ SameInput(q, d.conn[c])
  BY <1>1, <1>2, WriteBufferOK
<1> HIDE DEF q
<1>4. Follows(q, Ids(d), faults = 0)
  BY <1>2, <1>3 DEF SameInput, Follows
<1>5. StateOK([d EXCEPT !.conn[c] = q], faults = 0)
  BY <1>3, <1>4, SetConn DEF MiniSSDPdInv
<1>6. StateOK([d EXCEPT !.conn[c] = q], faults' = 0)
  BY <1>1, <1>5
<1>7. QED BY <1>1, <1>6, SurvivesStep

(* Every step keeps the invariant *)
LEMMA NextOK ==
  ASSUME MiniSSDPdInv, "buffer" \notin Failing, [Next]_vars
  PROVE  MiniSSDPdInv'
<1>1. CASE UNCHANGED vars
  BY <1>1 DEF vars, MiniSSDPdInv
<1>2. CASE ParseSSDPPacket
  BY <1>2, ParseStep
<1>3. CASE processMSEARCH
  BY <1>3 DEF processMSEARCH, MiniSSDPdInv
<1>4. ASSUME d' = Cleanup(d.conn), UNCHANGED <<now, faults, packets>>
      PROVE  MiniSSDPdInv'
  <2>1. StateOK(Cleanup(d.conn), faults = 0)
    BY CleanupOK DEF MiniSSDPdInv, StateOK
  <2>2. QED BY <1>4, <2>1 DEF MiniSSDPdInv
<1>5. CASE Quit
  BY <1>4, <1>5 DEF Quit
<1>6. CASE Tick
  BY <1>6 DEF Tick, MiniSSDPdInv
<1>7. ASSUME NEW res, TrySendto(res)
      PROVE  MiniSSDPdInv'
  <2>1. (UNCHANGED d \/ d' = Cleanup(d.conn)) /\ UNCHANGED <<now, faults, packets>>
    BY <1>7 DEF TrySendto
  <2>2. CASE UNCHANGED d
    BY <2>1, <2>2 DEF MiniSSDPdInv
  <2>3. CASE d' = Cleanup(d.conn)
    BY <1>4, <2>1, <2>3
  <2>4. QED BY <2>1, <2>2, <2>3
<1>8. ASSUME NEW c \in Clients, processRequest(c) \/ WriteBuffer(c) \/ ClientStep(c)
      PROVE  MiniSSDPdInv'
  BY <1>8, ProcessRequestStep, WriteBufferStep, ClientStepOK
<1>9. QED BY <1>1, <1>2, <1>3, <1>5, <1>6, <1>7, <1>8 DEF Next

LEMMA SelfPrefix ==
  ASSUME NEW s \in Seq(Units), NEW t \in Seq(Units)
  PROVE  IsPrefix(s, s) /\ IsPrefix(s, s \o t)
<1>1. Len(s) \in Nat /\ Len(t) \in Nat
  BY LenProperties
<1>2. s \o t \in Seq(Units) /\ Len(s \o t) = Len(s) + Len(t)
      /\ \A i \in 1..Len(s) + Len(t) : (s \o t)[i] = IF i <= Len(s) THEN s[i] ELSE t[i - Len(s)]
  BY ConcatProperties
<1>3. \A i \in 1..Len(s) : s[i] \in Units /\ (s \o t)[i] = s[i]
  BY <1>1, <1>2, ElementOfSeq
<1>4. SubSeq(s, 1, Len(s)) = s
  BY SubSeqFull
<1>5. /\ SubSeq(s \o t, 1, Len(s)) \in Seq(Units)
      /\ Len(SubSeq(s \o t, 1, Len(s))) = Len(s)
      /\ \A i \in 1..Len(s) : SubSeq(s \o t, 1, Len(s))[i] = s[i]
  <2>1. 1 \in Int /\ Len(s) \in Int
    BY <1>1
  <2>2. /\ SubSeq(s \o t, 1, Len(s)) \in Seq(Units)
        /\ Len(SubSeq(s \o t, 1, Len(s))) = IF 1 <= Len(s) THEN Len(s) - 1 + 1 ELSE 0
        /\ \A i \in 1..Len(s) - 1 + 1 : SubSeq(s \o t, 1, Len(s))[i] = (s \o t)[1 + i - 1]
    BY <1>3, <2>1, SubSeqProperties
  <2>3. \A i \in 1..Len(s) : i \in 1..Len(s) - 1 + 1 /\ 1 + i - 1 = i
    BY <1>1
  <2>4. QED BY <1>1, <1>3, <2>2, <2>3
<1>6. SubSeq(s \o t, 1, Len(s)) = s
  BY <1>5, SeqEqual
<1>7. QED BY <1>1, <1>2, <1>4, <1>6 DEF IsPrefix

(* The invariant gives both properties *)
LEMMA FramesFollow == MiniSSDPdInv => FramesIntact
<1> SUFFICES ASSUME MiniSSDPdInv, NEW c \in Clients, d.conn[c].peer
             PROVE  LET q == d.conn[c]
                    IN  /\ IsPrefix(q.sock \o q.out, q.wanted)
                        /\ q.open => q.sock \o q.out = q.wanted
  BY DEF FramesIntact
<1> DEFINE q == d.conn[c]
<1>1. ConnOK(q) /\ q.peer /\ q.sock \in Seq(Units) /\ q.out \in Seq(Units)
  BY ConnInv DEF ConnOK, IsConn
<1> HIDE DEF q
<1>2. CASE q.open
  <2>1. q.wanted = q.sock \o q.out /\ q.wanted \in Seq(Units)
    BY <1>1, <1>2 DEF ConnOK, Frames, IsConn
  <2>2. IsPrefix(q.wanted, q.wanted)
    BY <2>1, SelfPrefix
  <2>3. QED BY <2>1, <2>2 DEF q
<1>3. CASE ~q.open
  <2>1. q.out = <<>> /\ q.sock \o <<>> = q.sock
    BY <1>1, <1>3, ConcatEmptySeq DEF ConnOK
  <2>2. PICK rest \in Seq(Units) : q.wanted = q.sock \o rest
    BY <1>1 DEF ConnOK, Frames
  <2>3. IsPrefix(q.sock, q.sock \o rest)
    BY <1>1, SelfPrefix
  <2>4. QED BY <1>3, <2>1, <2>2, <2>3 DEF q
<1>4. QED BY <1>2, <1>3

LEMMA ListedKnown == MiniSSDPdInv => FollowersKnow
<1> SUFFICES ASSUME MiniSSDPdInv, NEW c \in Clients, d.conn[c].notify, d.conn[c].peer
             PROVE  /\ Listed \subseteq d.conn[c].known
                    /\ faults = 0 => Listed = d.conn[c].known
  BY DEF FollowersKnow
<1>1. Listed = Ids(d)
  BY IdsOfLists DEF MiniSSDPdInv, StateOK, Listed, Ids
<1>2. Follows(d.conn[c], Ids(d), faults = 0)
  BY ConnInv
<1>3. QED BY <1>1, <1>2 DEF Follows

-----------------------------------------------------------------------------
(* Whatever write() takes and however many messages wait, what a client    *)
(* reads are whole messages in their order, if the buffer of a connection  *)
(* can be allocated: write_or_buffer() never overtakes what it buffered.   *)
THEOREM FramesNeverTorn ==
  ASSUME "buffer" \notin Failing
  PROVE  Spec => []FramesIntact
<1>1. Init => MiniSSDPdInv
  BY InitOK
<1>2. MiniSSDPdInv /\ [Next]_vars => MiniSSDPdInv'
  BY NextOK
<1>3. MiniSSDPdInv => FramesIntact
  BY FramesFollow
<1>4. QED BY <1>1, <1>2, <1>3, PTL DEF Spec

(* A client that asked for the notifications knows every device and        *)
(* service that minissdpd lists, and no other while no allocation failed:  *)
(* updateDevice(), removeDevice() and the submission of a service tell     *)
(* every follower, in whatever order the requests and datagrams come.      *)
THEOREM FollowersAlwaysKnow ==
  ASSUME "buffer" \notin Failing
  PROVE  Spec => []FollowersKnow
<1>1. Init => MiniSSDPdInv
  BY InitOK
<1>2. MiniSSDPdInv /\ [Next]_vars => MiniSSDPdInv'
  BY NextOK
<1>3. MiniSSDPdInv => FollowersKnow
  BY ListedKnown
<1>4. QED BY <1>1, <1>2, <1>3, PTL DEF Spec
=============================================================================
