----------------------------- MODULE MiniSSDPd -----------------------------
(***************************************************************************)
(* minissdpd: the list of the devices heard on the network, the list of    *)
(* the services submitted through the unix socket, and the connections of  *)
(* the clients, among which miniupnpd submitting its services              *)
(* (SubmitServicesToMiniSSDPD) and the lookups of libminiupnpc             *)
(* (getDevicesFromMiniSSDPD).                                              *)
(*                                                                         *)
(* The process has one thread: each handler of its main loop is an action. *)
(* A message on the unix socket is a sequence of units, so that write()    *)
(* and read() may move a part of it.                                       *)
(***************************************************************************)
EXTENDS AsyncSendto, Lists

CONSTANTS
  Devices,      \* the (NT, USN) pairs heard on the network
  Services,     \* the (ST, USN) pairs that may be submitted
  TypeOf,       \* the type of each: [base, ver]
  Locations,    \* URLs, as sequences of characters
  Lifetimes,    \* values of max-age
  Clients,      \* connections to the unix socket
  Roles,        \* what each client may do: "lookup", "follow", "submit"
  Known,        \* the services miniupnpd submits, in their order
  RespMax,      \* entries in an answer: 255, or RESPONSE_BUFFER_SIZE is full
  ReadMax,      \* units in the buffer of processRequest()
  SockBuf,      \* units a socket holds before write() gets EAGAIN
  SendFailures, \* what may go wrong with a datagram
  Failing,      \* allocations that may fail
  MaxFaults, MaxPackets, MaxTime   \* bounds on the runs

Types == {TypeOf[x] : x \in Devices \cup Services}
Entries == [id : Devices \cup Services, loc : Seq(STRING)]

ASSUME MiniSSDPdAssumption ==
  /\ Devices \cap Services = {}
  /\ Roles \in [Clients -> SUBSET {"lookup", "follow", "submit"}]
  /\ Locations \subseteq Seq(STRING) /\ Lifetimes \subseteq Nat
  /\ Known \in Seq([id : Services, loc : Seq(STRING)])
  /\ RespMax \in 1..255 /\ ReadMax \in Nat \ {0} /\ SockBuf \in Nat \ {0}
  /\ SendFailures \subseteq {"again", "intr", "error", "nomem"}
  /\ Failing \subseteq {"device", "service", "buffer", "client"}
  /\ MaxFaults \in Nat /\ MaxPackets \in Nat /\ MaxTime \in Nat

VARIABLES
  d,          \* the lists of the daemon and its connections: [dev, serv, conn]
  send_list,  \* asyncsendto.c
  up,         \* the main loop runs
  now,        \* time(NULL)
  faults, packets   \* what the bounds count

vars == <<d, send_list, up, now, faults, packets>>

-----------------------------------------------------------------------------
(* Requests and answers on the unix socket *)

Request(type, arg) == [type |-> type, arg |-> arg]
NoArg == [id |-> ""]
Zero == [code |-> 0]
Version == [version |-> 1]

(* The two parts of a request: the byte with its type, and the strings *)
Parts(r) == << [r |-> r, part |-> 1], [r |-> r, part |-> 2] >>

(* Requests accepted without a string, hence also when only their first    *)
(* byte was read                                                           *)
ZeroLengthOK == {"all", "version", "notif"}

(* What one read() holds: whole requests, then possibly a part of one.     *)
(* The rest of a request that was cut is not recognised.                   *)
WholeRequests(chunk) ==
  LET first == {i \in DOMAIN chunk : /\ chunk[i].part = 1
                                     /\ i < Len(chunk) \/ chunk[i].r.type \in ZeroLengthOK}
      ok == Sublist([i \in DOMAIN chunk |-> i], first)
  IN  IF chunk[1].part = 2 THEN <<>> ELSE [i \in DOMAIN ok |-> chunk[ok[i]].r]

BadRequest(chunk) ==
  \/ chunk[1].part = 2
  \/ LET last == Last(chunk)
     IN  last.part = 1 /\ last.r.type \notin ZeroLengthOK

(* The entries of an answer: what the lists hold at that time *)
Entry(x) == [id |-> x.id, loc |-> x.loc]
SearchMatches(x, r, isDevice) ==
  CASE r.type = "all"  -> TRUE
    [] r.type = "usn"  -> x.id = r.arg.id
    [] r.type = "type" -> /\ TypeOf[x.id].base = r.arg.base
                          /\ isDevice \/ TypeOf[x.id].ver = r.arg.ver

Search(s, r) ==
  LET devs == Sublist(s.dev, {x \in Range(s.dev) : x.t >= now /\ SearchMatches(x, r, TRUE)})
      servs == Sublist(s.serv, {x \in Range(s.serv) : SearchMatches(x, r, FALSE)})
      all == [i \in DOMAIN (devs \o servs) |-> Entry((devs \o servs)[i])]
      reply == SubSeq(all, 1, Min({Len(all), RespMax}))
  IN  << [n |-> Len(reply)] >> \o reply

Notification(type, x) == << [notif |-> type], Entry(x) >>

-----------------------------------------------------------------------------
(* Output: write() takes what the socket has room for and nothing (EAGAIN) *)
(* when it is full; the rest waits in the output buffer of the connection. *)
(* When the client is gone it raises SIGPIPE, which ends the process: the  *)
(* connection is marked, and the handler that wrote ends in Survives.      *)

Room(q, data) == Min({Len(data), SockBuf - Len(q.sock)})
Written(q, data, n) == [q EXCEPT !.sock = @ \o SubSeq(data, 1, n)]
Broken(q) == [q EXCEPT !.sigpipe = TRUE]

(* Mutant: waits until the whole buffer fits *)
write_buffer_AllOrNothing(q) ==
  IF q.out = <<>> \/ Room(q, q.out) < Len(q.out) THEN q
  ELSE IF ~q.peer THEN Broken(q)
  ELSE [Written(q, q.out, Len(q.out)) EXCEPT !.out = <<>>]

write_buffer(q) ==
  LET n == Room(q, q.out)
  IN  IF q.out = <<>> THEN q
      ELSE IF ~q.peer THEN Broken(q)
      ELSE [Written(q, q.out, n) EXCEPT !.out = SubSeq(@, n + 1, Len(@))]

(* Mutant: writes although older units still wait *)
write_or_buffer_Direct(q, data, fails) ==
  LET n == Room(q, data)
  IN  IF ~q.peer THEN [q |-> Broken(q), ok |-> FALSE]
      ELSE [q |-> [Written(q, data, n) EXCEPT !.wanted = @ \o data,
                                              !.out = @ \o SubSeq(data, n + 1, Len(data))],
            ok |-> TRUE]

(* The connection afterwards and whether the call succeeded; history:      *)
(* wanted has the units the client should still read                       *)
write_or_buffer(q, data, fails) ==
  LET p == write_buffer(q)
      n == IF p.out = <<>> THEN Room(p, data) ELSE 0
      rest == SubSeq(data, n + 1, Len(data))
      logged == [Written(p, data, n) EXCEPT !.wanted = @ \o data]
  IN  CASE ~q.peer -> [q |-> Broken(q), ok |-> FALSE]
        [] q.peer /\ (rest = <<>> \/ "buffer" \notin fails) ->
             [q |-> [logged EXCEPT !.out = @ \o rest], ok |-> TRUE]
        [] OTHER -> [q |-> logged, ok |-> FALSE]

(* An error is logged and the connection kept; history: known is what the  *)
(* client makes of the notifications sent to it                            *)
Learn(known, type, x) == IF type = "NEW" THEN known \cup {x.id} ELSE known \ {x.id}
sendNotifications(conn, type, x, fails) ==
  [c \in Clients |->
     LET w == write_or_buffer(conn[c], Notification(type, x), fails)
     IN  CASE ~(conn[c].open /\ conn[c].notify) -> conn[c]
           [] conn[c].open /\ conn[c].notify /\ w.ok ->
                [w.q EXCEPT !.known = Learn(@, type, x)]
           [] OTHER -> w.q]

-----------------------------------------------------------------------------
(* The devices heard on the network *)

Find(list, id) == {i \in DOMAIN list : list[i].id = id}

(* memcpy() over the old location: a shorter one does not shorten it *)
Overwrite(old, new) ==
  [i \in 1..Max({Len(old), Len(new)}) |-> IF i <= Len(new) THEN new[i] ELSE old[i]]

updateDevice(s, id, loc, t, fails) ==
  LET found == Find(s.dev, id)
      i == CHOOSE j \in found : TRUE
      x == [id |-> id, loc |-> loc, t |-> t]
      y == [s.dev[i] EXCEPT !.t = t, !.loc = Overwrite(@, loc)]
  IN  CASE found # {} /\ Len(loc) > Len(s.dev[i].loc) /\ "device" \in fails ->
             [s EXCEPT !.dev = RemoveAt(@, i)]
        [] found # {} /\ ~(Len(loc) > Len(s.dev[i].loc) /\ "device" \in fails) ->
             [s EXCEPT !.dev = [@ EXCEPT ![i] = y]]
        [] found = {} /\ "device" \in fails -> s
        [] OTHER -> [s EXCEPT !.dev = <<x>> \o @,
                              !.conn = sendNotifications(@, "NEW", x, fails)]

(* Mutant: the followers are not told *)
removeDevice_Silent(s, id, fails) ==
  [s EXCEPT !.dev = SelectSeq(@, LAMBDA x : x.id # id)]

removeDevice(s, id, fails) ==
  LET found == Find(s.dev, id)
      i == CHOOSE j \in found : TRUE
  IN  IF found = {} THEN s
      ELSE [s EXCEPT !.conn = sendNotifications(@, "REMOVE", s.dev[i], fails),
                     !.dev = RemoveAt(@, i)]

-----------------------------------------------------------------------------
(* The requests of the clients *)

processRequestSub(s, c, r, fails) ==
  LET reply(data) == LET w == write_or_buffer(s.conn[c], data, fails)
                     IN  [s |-> [s EXCEPT !.conn[c] = w.q], ok |-> w.ok]
      follow == LET w == write_or_buffer(s.conn[c], <<Zero>>, fails)
                    q == IF w.ok /\ ~w.q.notify
                         THEN [w.q EXCEPT !.notify = TRUE,
                                          !.known = {x.id : x \in Range(s.dev \o s.serv)}]
                         ELSE w.q
                IN  [s |-> [s EXCEPT !.conn[c] = q], ok |-> w.ok]
      submit == LET found == Find(s.serv, r.arg.id)
                    i == CHOOSE j \in found : TRUE
                IN  IF "service" \in fails THEN [s |-> s, ok |-> FALSE]
                    ELSE IF found # {}
                    THEN [s |-> [s EXCEPT !.serv = [@ EXCEPT ![i] = r.arg]], ok |-> TRUE]
                    ELSE [s |-> [s EXCEPT !.serv = <<r.arg>> \o @,
                                          !.conn = sendNotifications(@, "NEW", r.arg, fails)],
                          ok |-> TRUE]
  IN  CASE r.type = "version" -> reply(<<Version>>)
        [] r.type \in {"type", "usn", "all"} -> reply(Search(s, r))
        [] r.type = "submit" -> submit
        [] r.type = "notif" -> follow
        [] OTHER -> reply(<<Zero>>)

ClosedConn(q) ==
  [q EXCEPT !.open = FALSE, !.notify = FALSE, !.in = <<>>, !.out = <<>>, !.known = {},
            !.sigpipe = FALSE]
Closed(s, c) == [s EXCEPT !.conn[c] = ClosedConn(@)]

(* A write() of this turn of the loop met a client that is gone *)
SigPipe(s) == \E c \in Clients : s.conn[c].sigpipe

(* All the requests of one read(), until one fails *)
Serve(s, c, reqs, fails) ==
  LET after[i \in 0..Len(reqs)] ==
        IF i = 0 THEN [s |-> s, ok |-> TRUE]
        ELSE IF after[i - 1].ok /\ ~SigPipe(after[i - 1].s)
        THEN processRequestSub(after[i - 1].s, c, reqs[i], fails)
        ELSE after[i - 1]
  IN  after[Len(reqs)]

-----------------------------------------------------------------------------
Free == [open |-> FALSE, peer |-> FALSE, step |-> "idle", in |-> <<>>,
         notify |-> FALSE, out |-> <<>>, sock |-> <<>>, wanted |-> <<>>,
         known |-> {}, left |-> -1, todo |-> 1, sigpipe |-> FALSE]

Init ==
  /\ d = [dev |-> <<>>, serv |-> <<>>, conn |-> [c \in Clients |-> Free]]
  /\ send_list = <<>>
  /\ up = TRUE
  /\ now = 0
  /\ faults = 0 /\ packets = 0

(* Which allocations fail in this turn of the loop *)
Fails(F) == /\ F \in {{}} \cup {{f} : f \in Failing}
            /\ F # {} => faults < MaxFaults
            /\ faults' = faults + Cardinality(F)

(* The process ends: the lists are gone and its sockets closed *)
Cleanup(conn) == [dev |-> <<>>, serv |-> <<>>,
                  conn |-> [c \in Clients |-> ClosedConn(conn[c])]]

(* The daemon after a handler: minissdpd neither ignores SIGPIPE nor uses  *)
(* MSG_NOSIGNAL.  Of the other clients some had got their notification.    *)
Survives(s) ==
  \/ /\ ~SigPipe(s)
     /\ d' = s
     /\ UNCHANGED <<up, send_list>>
  \/ /\ SigPipe(s)
     /\ \E told \in SUBSET Clients :
          d' = Cleanup([c \in Clients |-> IF c \in told THEN s.conn[c] ELSE d.conn[c]])
     /\ up' = FALSE
     /\ send_list' = <<>>

(* The handlers of the main loop *)

ParseSSDPPacket ==
  /\ up /\ packets < MaxPackets
  /\ packets' = packets + 1
  /\ \E id \in Devices, F \in {{}} \cup {{f} : f \in Failing} :
       /\ Fails(F)
       /\ \/ \E loc \in Locations, life \in Lifetimes :   \* alive, update, or an answer
               Survives(updateDevice(d, id, loc, now + life, F))
          \/ Survives(removeDevice(d, id, F))             \* byebye
  /\ UNCHANGED now

(* The services that answer a search: all of them, by uuid or by type *)
MSearchMatches(x, st) ==
  CASE st.kind = "all"  -> TRUE
    [] st.kind = "uuid" -> x.id = st.arg.id
    [] st.kind = "type" -> TypeOf[x.id].base = st.arg.base
MSearches == {[kind |-> "all", arg |-> NoArg]}
             \cup {[kind |-> "uuid", arg |-> [id |-> id]] : id \in Services}
             \cup {[kind |-> "type", arg |-> t] : t \in Types}

SendSSDPMSEARCHResponse(list, st, x, res) ==
  LET m == [st |-> IF st.kind = "type" THEN st.arg ELSE TypeOf[x.id], id |-> x.id, loc |-> x.loc]
  IN  sendto_schedule2(list, m, 0, now, res).list

(* res is what sendto() makes of the answer for each service *)
MSEARCHAnswers(st, res) ==
  FoldLeft(LAMBDA list, x : SendSSDPMSEARCHResponse(list, st, x, res[x.id]),
           send_list, Sublist(d.serv, {x \in Range(d.serv) : MSearchMatches(x, st)}))

processMSEARCH ==
  /\ up /\ packets < MaxPackets
  /\ packets' = packets + 1
  /\ \E st \in MSearches, res \in [Services -> {"sent"} \cup SendFailures] :
       send_list' = MSEARCHAnswers(st, res)
  /\ UNCHANGED <<d, up, now, faults>>

(* A turn of the loop for the datagrams that wait: an error ends the loop *)
TrySendto(res) ==
  LET list == get_sendto_fds(send_list, now)
      r == try_sendto(list, res)
  IN  /\ up /\ send_list # <<>>
      /\ res \in TryResults(list, {"sent"} \cup SendFailures)
      /\ \/ /\ r.ret = 0
            /\ send_list' = r.list
            /\ UNCHANGED <<d, up>>
         \/ /\ r.ret < 0
            /\ send_list' = <<>>
            /\ up' = FALSE
            /\ d' = Cleanup(d.conn)
      /\ UNCHANGED <<now, faults, packets>>

processRequest(c) ==
  LET q == d.conn[c]
      n == Min({Len(q.in), ReadMax})
      chunk == SubSeq(q.in, 1, n)
      read == [d EXCEPT !.conn[c] = [q EXCEPT !.in = SubSeq(@, n + 1, Len(@))]]
  IN  /\ up /\ q.open
      /\ \/ /\ q.in # <<>>
            /\ \E F \in {{}} \cup {{f} : f \in Failing} :
                 /\ Fails(F)
                 /\ LET r == Serve(read, c, WholeRequests(chunk), F)
                    IN  Survives(IF (r.ok /\ ~BadRequest(chunk)) \/ SigPipe(r.s)
                                 THEN r.s ELSE Closed(r.s, c))
         \/ /\ q.in = <<>> /\ ~q.peer                     \* read() returns 0
            /\ d' = Closed(d, c)
            /\ UNCHANGED <<faults, send_list, up>>
      /\ UNCHANGED <<now, packets>>

WriteBuffer(c) ==
  /\ up /\ d.conn[c].open /\ d.conn[c].out # <<>>
  /\ Survives([d EXCEPT !.conn[c] = write_buffer(@)])
  /\ d' # d
  /\ UNCHANGED <<now, faults, packets>>

(* SIGTERM *)
Quit ==
  /\ up
  /\ send_list' = <<>>
  /\ up' = FALSE
  /\ d' = Cleanup(d.conn)
  /\ UNCHANGED <<now, faults, packets>>

Tick ==
  /\ now < MaxTime
  /\ now' = now + 1
  /\ UNCHANGED <<d, send_list, up, faults, packets>>

-----------------------------------------------------------------------------
(* The clients *)

OnlyClients == UNCHANGED <<send_list, up, now, packets>>

(* connect() and the accept() of the loop, which may lack memory *)
connectToMiniSSDPD(c) ==
  /\ up /\ d.conn[c].step = "idle"
  /\ \E F \in {{}} \cup ({{"client"}} \cap {{f} : f \in Failing}) :
       /\ Fails(F)
       /\ d' = [d EXCEPT !.conn[c] = [@ EXCEPT !.open = (F = {}), !.peer = TRUE,
                                                !.step = "connected"]]
  /\ OnlyClients

(* close(): what was not read is lost *)
Leave(c, step) ==
  /\ d' = [d EXCEPT !.conn[c] = [@ EXCEPT !.step = step, !.peer = FALSE,
                                         !.sock = <<>>, !.wanted = <<>>]]
  /\ UNCHANGED faults /\ OnlyClients

(* write() of one request: it fails when minissdpd closed the connection,  *)
(* and the client gives up                                                 *)
Send(c, r, step) ==
  \/ /\ d.conn[c].open
     /\ d' = [d EXCEPT !.conn[c] = [d.conn[c] EXCEPT !.in = @ \o Parts(r), !.step = step,
                                                    !.todo = @ + 1]]
     /\ UNCHANGED faults /\ OnlyClients
  \/ ~d.conn[c].open /\ Leave(c, "failed")

requestDevicesFromMiniSSDPD(c) ==
  /\ "lookup" \in Roles[c] /\ d.conn[c].step = "connected"
  /\ \E r \in {Request("all", NoArg)} \cup {Request("type", t) : t \in Types} :
       Send(c, r, "written")

(* miniupnpd: one write() for each of its services, then close() *)
SubmitServicesToMiniSSDPD(c) ==
  /\ "submit" \in Roles[c]
  /\ d.conn[c].step = IF d.conn[c].todo = 1 THEN "connected" ELSE "submitting"
  /\ \/ /\ d.conn[c].todo <= Len(Known)
        /\ Send(c, Request("submit", Known[d.conn[c].todo]), "submitting")
     \/ /\ d.conn[c].todo > Len(Known)
        /\ Leave(c, "submitted")

(* A client that follows the lists: it asks for the notifications, then    *)
(* for something else on the same connection                               *)
Follow(c) ==
  /\ "follow" \in Roles[c]
  /\ \/ /\ d.conn[c].step = "connected"
        /\ Send(c, Request("notif", NoArg), "following")
     \/ /\ d.conn[c].step = "following" /\ d.conn[c].todo = 2
        /\ \E r \in {Request("version", NoArg)}
                   \cup {Request("usn", [id |-> id]) : id \in Devices} :
             Send(c, r, "following")

(* read(): one unit.  A lookup counts the entries left of those announced. *)
Read(c) ==
  LET q == d.conn[c]
      unit == Head(q.sock)
  IN  /\ q.peer /\ q.sock # <<>>
      /\ d' = [d EXCEPT !.conn[c] = [q EXCEPT !.sock = Tail(@), !.wanted = Tail(@),
                           !.left = CASE q.step # "written" -> @
                                      [] q.step = "written" /\ @ < 0 -> unit.n
                                      [] OTHER -> @ - 1]]
      /\ UNCHANGED faults /\ OnlyClients

receiveDevicesFromMiniSSDPD(c) ==
  /\ d.conn[c].step = "written"
  /\ \/ d.conn[c].left = 0 /\ Leave(c, "answered")
     \/ /\ ~d.conn[c].open /\ d.conn[c].sock = <<>> /\ d.conn[c].left # 0   \* end of file
        /\ Leave(c, "failed")

(* SO_RCVTIMEO of a lookup, or a follower that leaves *)
GiveUp(c) == d.conn[c].step \in {"written", "following"} /\ Leave(c, "failed")

ClientStep(c) ==
  \/ connectToMiniSSDPD(c) \/ requestDevicesFromMiniSSDPD(c)
  \/ SubmitServicesToMiniSSDPD(c) \/ Follow(c) \/ Read(c)
  \/ receiveDevicesFromMiniSSDPD(c) \/ GiveUp(c)

Next ==
  \/ ParseSSDPPacket \/ processMSEARCH \/ Quit \/ Tick
  \/ \E res \in TryResults(get_sendto_fds(send_list, now), {"sent"} \cup SendFailures) : TrySendto(res)
  \/ \E c \in Clients : processRequest(c) \/ WriteBuffer(c) \/ ClientStep(c)

Spec == Init /\ [][Next]_vars

(* select() reports a socket that can be written until the loop has used   *)
(* it, and clients read what they are sent                                 *)
FairSpec ==
  /\ Spec
  /\ \A c \in Clients : WF_vars(d.conn[c].peer /\ WriteBuffer(c)) /\ WF_vars(Read(c))
  /\ WF_vars(TrySendto([i \in DOMAIN send_list |-> "sent"]))

-----------------------------------------------------------------------------
Listed == {x.id : x \in Range(d.dev \o d.serv)}

(* Whatever write() takes at a time, and however many messages wait, the   *)
(* units a client reads are whole messages in the order of the requests    *)
(* and of the events: write_or_buffer() never overtakes its own buffer.    *)
FramesIntact ==
  \A c \in Clients :
    LET q == d.conn[c]
    IN  q.peer => /\ IsPrefix(q.sock \o q.out, q.wanted)
                  /\ q.open => q.sock \o q.out = q.wanted

(* A client that subscribed and applies the notifications it was sent to   *)
(* what was listed when it subscribed knows every device and service on    *)
(* the lists; and nothing else, unless memory ran out.                     *)
FollowersKnow ==
  \A c \in Clients :
    d.conn[c].notify /\ d.conn[c].peer =>
      /\ Listed \subseteq d.conn[c].known
      /\ faults = 0 => Listed = d.conn[c].known

(* What waits for a client that stays is written once the client reads.    *)
OutputDrains ==
  \A c \in Clients : d.conn[c].out # <<>> ~> d.conn[c].out = <<>> \/ ~d.conn[c].peer

(* An answer to M-SEARCH that met a full socket leaves.                    *)
DatagramsLeave == send_list # <<>> ~> send_list = <<>>
=============================================================================
