---------------------------- MODULE HttpExchange ----------------------------
(***************************************************************************)
(* One HTTP exchange over TCP: a client (a SOAP command or a download of   *)
(* libminiupnpc, or a control point of another make) and a server          *)
(* (miniupnpd, or a gateway of another make that answers in its own way).  *)
(* TCP keeps the order and may cut the stream anywhere; either side may    *)
(* be slow, go away or run out of memory.                                  *)
(***************************************************************************)
EXTENDS MiniWget, UpnpHttp, UpnpCommands

CONSTANTS
  Scenarios,   \* who talks to whom: [client, server, req, stream]
  Addresses,   \* addresses getaddrinfo() returns for the host name
  SndBuf       \* bytes the kernel keeps for a receiver that does not read

ASSUME HttpExchangeAssumption ==
  /\ Addresses \in Nat \ {0}
  /\ SndBuf \in Nat /\ SndBuf >= Len(BuildHeader_upnphttp)

VARIABLES
  sc,       \* the scenario
  cl,       \* the client: where it is, its sockets, its request, its reader
  h,        \* struct upnphttp in the daemon's list, or NoConn
  backlog,  \* a connection waits for accept()
  up,       \* request bytes sent and not yet read by the server
  dn,       \* response bytes sent and not yet read by the client
  srv,      \* the server's end of the connection: "open", "fin", "rst"
  said,     \* the response being sent: its bytes, its body, its header lines
  done      \* history: the outcomes of the SOAP actions executed

vars == <<sc, cl, h, backlog, up, dn, srv, said, done>>

ReqLen == sc.req.hdrlen + sc.req.bodylen
Nothing == [stream |-> <<>>, body |-> <<>>, chunked |-> FALSE, content_length |-> -1]

Init ==
  /\ sc \in Scenarios
  /\ cl = [pc |-> "connect", addrs |-> Addresses, open |-> 0, sent |-> 0, got |-> 0,
           r |-> ResponseInit]
  /\ h = NoConn
  /\ backlog = FALSE
  /\ up = 0
  /\ dn = <<>>
  /\ srv = "open"
  /\ said = IF sc.server = "daemon" THEN Nothing ELSE sc.stream
  /\ done = <<>>

Gone == cl.pc = "done"
Daemon == sc.server = "daemon"
Ours == sc.client # "other"

-----------------------------------------------------------------------------
(* The client *)

ServerSame == UNCHANGED <<sc, h, srv, said, done>>

\* closesocket() and the return of the call: what is in flight is lost.
Close(c) ==
  /\ cl' = [c EXCEPT !.pc = "done", !.open = 0]
  /\ dn' = <<>>

\* connecthostport(): the addresses in turn; the socket of a failed attempt
\* is closed before the next one, or on the way out.
ConnectAttempt(connected) ==
  /\ cl.pc = "connect"
  /\ LET c == [cl EXCEPT !.addrs = @ - 1, !.open = 1] IN
       IF connected
       THEN /\ cl' = [c EXCEPT !.pc = "send"]
            /\ backlog' = Daemon
            /\ UNCHANGED dn
       ELSE /\ IF c.addrs = 0 THEN Close(c) ELSE cl' = c /\ UNCHANGED dn
            /\ UNCHANGED backlog
  /\ ServerSame /\ UNCHANGED up

\* socket() fails for an address: the previous socket is closed all the same.
SocketFails ==
  /\ cl.pc = "connect"
  /\ LET c == [cl EXCEPT !.addrs = @ - 1, !.open = 0] IN
       IF c.addrs = 0 THEN Close(c) ELSE cl' = c /\ UNCHANGED dn
  /\ ServerSame /\ UNCHANGED <<backlog, up>>

connecthostport == SocketFails \/ \E connected \in BOOLEAN : ConnectAttempt(connected)

\* soapPostSubmit(): one send(); n bytes leave, fewer than all when the send
\* timeout expires, which the caller does not notice.
soapPostSubmit(n) ==
  /\ cl.pc = "send" /\ sc.client = "soap"
  /\ cl' = [cl EXCEPT !.sent = n, !.pc = "read"]
  /\ up' = n
  /\ ServerSame /\ UNCHANGED <<backlog, dn>>

\* miniwget3(): send() until all has left.
miniwget3 ==
  /\ cl.pc = "send" /\ sc.client = "wget"
  /\ cl' = [cl EXCEPT !.sent = ReqLen, !.pc = "read"]
  /\ up' = ReqLen
  /\ ServerSame /\ UNCHANGED <<backlog, dn>>

\* send() fails, after n bytes: the socket is closed and the call fails.
SendFails(n) ==
  /\ cl.pc = "send" /\ Ours /\ (n = 0 \/ sc.client = "wget")
  /\ Close([cl EXCEPT !.sent = n])
  /\ up' = n
  /\ ServerSame /\ UNCHANGED backlog

\* receivedata() returned n bytes to getHTTPResponse().
Receive(n) ==
  /\ cl.pc = "read" /\ n <= Len(dn)
  /\ LET r == Received(cl.r, SubSeq(dn, 1, n), said)
         c == [cl EXCEPT !.r = r, !.got = @ + n]
     IN  IF r.end THEN Close(c)
         ELSE /\ cl' = c
              /\ dn' = SubSeq(dn, n + 1, Len(dn))
  /\ ServerSame /\ UNCHANGED <<backlog, up>>

\* It returned 0 or less: 5 seconds of silence, the end of the stream, or a
\* connection reset, which may destroy what was not read.
receivedata ==
  /\ cl.pc = "read" /\ (dn = <<>> \/ srv = "rst")
  /\ Close(cl)
  /\ ServerSame /\ UNCHANGED <<backlog, up>>

\* A control point of another make: sends its request in any pieces, reads
\* what comes, and leaves when it likes.
OtherSends(n) ==
  /\ cl.pc = "send" /\ ~ Ours /\ cl.sent + n <= ReqLen
  /\ cl' = [cl EXCEPT !.sent = @ + n]
  /\ up' = up + n
  /\ ServerSame /\ UNCHANGED <<backlog, dn>>

OtherReads ==
  /\ cl.pc = "send" /\ ~ Ours /\ dn # <<>>
  /\ dn' = <<>>
  /\ cl' = [cl EXCEPT !.got = @ + Len(dn)]
  /\ ServerSame /\ UNCHANGED <<backlog, up>>

OtherLeaves ==
  /\ cl.pc = "send" /\ ~ Ours
  /\ Close(cl)
  /\ ServerSame /\ UNCHANGED <<backlog, up>>

Client ==
  \/ connecthostport
  \/ \E n \in 1 .. ReqLen : soapPostSubmit(n) \/ OtherSends(n)
  \/ \E n \in 0 .. ReqLen - 1 : SendFails(n)
  \/ miniwget3
  \/ \E n \in 1 .. Len(dn) : Receive(n)
  \/ receivedata \/ OtherReads \/ OtherLeaves

-----------------------------------------------------------------------------
(* miniupnpd: one connection in the select() loop *)

ClientSame == UNCHANGED <<sc, cl>>

\* What send() finds: a gone peer may or may not have been noticed.
SendRoom == IF Gone THEN SndBuf ELSE SndBuf - Len(dn)
Broken == IF Gone THEN BOOLEAN ELSE {FALSE}

\* The effects of a call on the connection: the bytes it sent, the response
\* it started, the action it executed, the socket it closed.  Closing with
\* bytes unread resets the connection.
Becomes(g, left) ==
  /\ h' = IF g = NoConn THEN g ELSE [g EXCEPT !.out = <<>>]
  /\ up' = left
  /\ dn' = IF Gone \/ g = NoConn THEN dn ELSE dn \o g.out
  /\ srv' = IF srv # "open" \/ (g # NoConn /\ g.socket) THEN srv
            ELSE IF left > 0 THEN "rst" ELSE "fin"
  /\ said' = IF g # NoConn /\ g.res # <<>>
             THEN [stream |-> g.res, chunked |-> FALSE,
                   body |-> SubSeq(g.res, 1 + Len(BuildHeader_upnphttp), Len(g.res)),
                   content_length |-> g.length]
             ELSE said
  /\ done' = IF g = NoConn THEN done ELSE g.executed

\* ProcessIncomingHTTP(): the connection is refused when its peer is not on
\* a LAN or there is no memory.
ProcessIncomingHTTP(accepted) ==
  /\ backlog
  /\ backlog' = FALSE
  /\ IF accepted THEN h' = New_upnphttp /\ UNCHANGED srv
     ELSE srv' = "rst" /\ UNCHANGED h
  /\ ClientSame /\ UNCHANGED <<up, dn, said, done>>

\* Process_upnphttp() on a readable socket: n bytes are read.
ProcessReadable(n, broken, fails) ==
  LET g == upnphttp_adjust_buffer(h) IN
    /\ WantsRead(h) /\ n <= up /\ n <= RecvMax(g)
    /\ Becomes(IF h.state = "EWaitingForHttpRequest"
               THEN RequestReceived(g, n, sc.req, SendRoom, broken, fails)
               ELSE ContentReceived(g, n, sc.req, SendRoom, broken, fails),
               up - n)
    /\ ClientSame /\ UNCHANGED backlog

\* The buffer cannot grow.
ProcessNoMemory(broken, fails) ==
  /\ WantsRead(h) /\ up > 0 /\ Growing(h)
  /\ Becomes(AdjustFailed(h, SendRoom, broken, fails), up)
  /\ ClientSame /\ UNCHANGED backlog

\* The client closed its end; with bytes of the answer unread it resets the
\* connection and the request bytes still queued are lost.
ProcessClosed ==
  /\ WantsRead(h) /\ Gone /\ (up = 0 \/ cl.got < Len(said.stream))
  /\ Becomes(PeerClosed(upnphttp_adjust_buffer(h)), 0)
  /\ ClientSame /\ UNCHANGED backlog

\* A writable socket: the rest of the answer.
ProcessWritable(broken) ==
  /\ WantsWrite(h) /\ (SendRoom > 0 \/ Gone)
  /\ Becomes(SendRespAndClose_upnphttp(h, SendRoom, broken), up)
  /\ ClientSame /\ UNCHANGED backlog

\* The end of the loop: finished connections are deleted.
DeleteFinished ==
  /\ h.state = "EToDelete"
  /\ Becomes(Delete_upnphttp, up)
  /\ ClientSame /\ UNCHANGED backlog

MainLoop ==
  \/ \E accepted \in BOOLEAN : ProcessIncomingHTTP(accepted)
  \/ /\ h # NoConn
     /\ \/ \E broken \in Broken, fails \in SUBSET Failures :
             ProcessNoMemory(broken, fails) \/ \E n \in 1 .. up : ProcessReadable(n, broken, fails)
        \/ \E broken \in Broken : ProcessWritable(broken)
        \/ ProcessClosed
        \/ DeleteFinished

-----------------------------------------------------------------------------
(* A gateway of another make: sends its answer in pieces, may break off, and *)
(* may keep the connection open after it.                                    *)

SentByGateway == cl.got + Len(dn)

GatewaySends(n) ==
  /\ ~ Daemon /\ cl.pc = "read" /\ srv = "open"
  /\ SentByGateway + n <= Len(said.stream) /\ Len(dn) + n <= SndBuf
  /\ dn' = dn \o SubSeq(said.stream, SentByGateway + 1, SentByGateway + n)
  /\ UNCHANGED <<sc, cl, h, backlog, up, srv, said, done>>

GatewayCloses ==
  /\ ~ Daemon /\ cl.pc = "read" /\ srv = "open"
  /\ srv' = "fin"
  /\ UNCHANGED <<sc, cl, h, backlog, up, dn, said, done>>

-----------------------------------------------------------------------------
Terminated == Gone /\ h = NoConn /\ ~ backlog /\ UNCHANGED vars

Next ==
  \/ Client
  \/ MainLoop
  \/ \E n \in 1 .. SndBuf : GatewaySends(n)
  \/ GatewayCloses
  \/ Terminated

\* The library's calls run to their end and the daemon's loop serves every
\* descriptor select() reports; a control point of another make is only
\* assumed to leave some day.
Fairness == WF_vars(Client /\ Ours) /\ WF_vars(MainLoop) /\ WF_vars(OtherLeaves)
            /\ WF_vars(connecthostport)

Spec == Init /\ [][Next]_vars /\ Fairness

-----------------------------------------------------------------------------
\* A connection object is well formed: recv() never stored more than the
\* request buffer holds (upnphttp_adjust_buffer()), and what was sent is part
\* of the answer.
TypeOK ==
  /\ cl.open \in {0, 1} /\ cl.sent \in 0 .. ReqLen
  /\ up \in 0 .. ReqLen /\ Len(dn) <= SndBuf
  /\ h # NoConn => /\ h.buflen <= h.bufalloc /\ h.sent <= Len(h.res)
                   /\ h.contentoff \in {0, sc.req.hdrlen}
                   /\ Len(h.executed) <= 1

\* However the stream was cut, what getHTTPResponse() has put together is the
\* beginning of the body the server sent; and when the reader saw the end of
\* the response, or all of its bytes, it is the whole body.
ContentIntact ==
  Ours => /\ IsPrefix(cl.r.content, said.body)
          /\ Gone /\ said.stream # <<>> /\ (cl.r.end \/ cl.got = Len(said.stream))
               => cl.r.content = said.body

\* A SOAP action is executed once at the most, and not before the client has
\* sent its whole body; and a command that reports success to its caller was
\* executed with success, whatever was lost on the way.
SuccessMeansDone ==
  /\ Len(done) <= 1
  /\ done # <<>> => cl.sent >= sc.req.hdrlen + sc.req.contentlen
  /\ Gone /\ Daemon /\ sc.client = "soap"
       /\ Returned(sc.req.command, cl.r.content) = "UPNPCOMMAND_SUCCESS" => done = <<"ok">>

\* Every call of the library returns without a socket left open, and the
\* daemon gives every connection back once the client is done.
Released == <>[](Gone /\ cl.open = 0 /\ h = NoConn /\ ~ backlog)
=============================================================================
