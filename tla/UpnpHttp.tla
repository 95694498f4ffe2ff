------------------------------ MODULE UpnpHttp ------------------------------
(***************************************************************************)
(* One HTTP connection of miniupnpd (upnphttp.c): struct upnphttp as a     *)
(* record h and the functions of the file as operators on it.  Requests    *)
(* are known by their shape, the lengths of their header and body and what *)
(* their header lines say; h counts the bytes received.  The bytes to send *)
(* are real: the client's reader works on them.                            *)
(***************************************************************************)
EXTENDS Integers, Sequences, SequencesExt

CONSTANTS
  HEADERS_LENGTH_LIMIT,   \* bytes of headers accepted
  CONTENT_LENGTH_LIMIT,   \* bytes of body accepted
  FirstAlloc,             \* bytes of the first request buffer (4096)
  Room,                   \* bytes upnphttp_adjust_buffer() keeps free (2048)
  DoubleLimit             \* bytes up to which the buffer is doubled (256 kB)

ASSUME UpnpHttpAssumption ==
  /\ HEADERS_LENGTH_LIMIT \in Nat /\ CONTENT_LENGTH_LIMIT \in Nat
  /\ Room \in Nat \ {0, 1}
  /\ FirstAlloc \in Nat /\ FirstAlloc >= Room
  /\ DoubleLimit \in Nat /\ DoubleLimit >= Room

NoConn == [state |-> "none"]

New_upnphttp ==
  [state |-> "EWaitingForHttpRequest", socket |-> TRUE, buflen |-> 0, bufalloc |-> 0,
   contentoff |-> 0, contentlen |-> 0, cont |-> FALSE, res |-> <<>>, sent |-> 0,
   length |-> 0, out |-> <<>>, executed |-> <<>>]

CloseSocket_upnphttp(h) == [h EXCEPT !.socket = FALSE, !.state = "EToDelete"]

\* struct upnphttp is unlinked from the list and released.
Delete_upnphttp == NoConn

-----------------------------------------------------------------------------
(* Responses *)

Eol == <<"CR", "LF">>

\* The bytes of a response: a status line with the Content-Length line, the
\* empty line, the body, whose bytes are its elements.
BuildHeader_upnphttp == <<"x">> \o Eol \o Eol

\* fails: what goes wrong in a call.
\*   "action"    the SOAP action fails, or there is no memory for a description
\*   "continue"  no memory for the 100 Continue
\*   "answer"    malloc() fails: res keeps what was sent before
\*   "body"      realloc() fails: the header lines leave without the body
Failures == {"action", "continue", "answer", "body"}

BuildResp2_upnphttp(h, body, fails) ==
  IF "answer" \in fails THEN h
  ELSE [h EXCEPT !.res = BuildHeader_upnphttp \o (IF "body" \in fails THEN <<>> ELSE body),
                 !.sent = 0, !.length = Len(body)]

ErrorPage == <<"b">>
Empty == <<>>
Fault == <<"b", "errorCode">>

\* send() in a loop until all is sent (1), the socket is full (0) or fails
\* (1).  room: the bytes the socket takes now; broken: the peer is gone;
\* out: what the socket took.
SendResp_upnphttp(h, room, broken) ==
  LET left == Len(h.res) - h.sent
      n    == IF room < left THEN room ELSE left
  IN  IF broken THEN [h |-> h, fin |-> TRUE]
      ELSE [h |-> [h EXCEPT !.sent = @ + n, !.out = SubSeq(h.res, h.sent + 1, h.sent + n)],
            fin |-> n = left]

SendRespAndClose_upnphttp(h, room, broken) ==
  LET s == SendResp_upnphttp(h, room, broken)
  IN  IF s.fin THEN CloseSocket_upnphttp(s.h)
      ELSE [s.h EXCEPT !.state = "ESendingAndClosing"]

\* Send400() to Send501(), the 413 and the answers of SUBSCRIBE.
Answer(h, body, room, broken, fails) ==
  SendRespAndClose_upnphttp(BuildResp2_upnphttp(h, body, fails), room, broken)

-----------------------------------------------------------------------------
(* Requests *)

ParseHttpHeaders(h, req) ==
  [h EXCEPT !.contentlen = IF req.contentlen = -1 THEN 0 ELSE req.contentlen,
            !.cont = req.expect]

\* ExecuteSoapAction(): the action itself belongs to other modules, here it
\* is noted and answered, with a fault if it fails.
ExecuteSoapAction(h, req, room, broken, fails) ==
  LET ok == "action" \notin fails
  IN  Answer([h EXCEPT !.executed = Append(@, IF ok THEN "ok" ELSE "fault")],
             IF ok THEN req.answer ELSE Fault, room, broken, fails)

\* Mutant: the last byte of the body not waited for.
BodyReceived_LastByte(h) == h.buflen - h.contentoff >= h.contentlen - 1

BodyReceived(h) == h.buflen - h.contentoff >= h.contentlen

ProcessHTTPPOST_upnphttp(h, req, room, broken, fails) ==
  IF BodyReceived(h)
  THEN IF req.soapAction THEN ExecuteSoapAction(h, req, room, broken, fails)
       ELSE Answer(h, ErrorPage, room, broken, fails)
  ELSE IF h.cont /\ "continue" \in fails THEN Answer(h, ErrorPage, room, broken, fails)
  ELSE IF h.cont
  THEN LET s == SendResp_upnphttp([h EXCEPT !.res = BuildHeader_upnphttp, !.sent = 0],
                                  room, broken)
       IN  [s.h EXCEPT !.state = IF s.fin THEN "EWaitingForHttpContent"
                                 ELSE "ESendingContinue"]
  ELSE [h EXCEPT !.state = "EWaitingForHttpContent"]

\* Called once the headers are there.
ProcessHttpQuery_upnphttp(h0, req, room, broken, fails) ==
  LET h == ParseHttpHeaders(h0, req) IN
    IF h.contentlen > CONTENT_LENGTH_LIMIT THEN Answer(h, Empty, room, broken, fails)
    ELSE IF req.host = "name" THEN Answer(h, ErrorPage, room, broken, fails)
    ELSE CASE req.method = "POST" -> ProcessHTTPPOST_upnphttp(h, req, room, broken, fails)
           [] req.method = "GET" /\ req.url = "desc" ->
                Answer(h, IF "action" \in fails THEN ErrorPage ELSE req.answer, room, broken, fails)
           [] req.method = "SUBSCRIBE" -> Answer(h, Empty, room, broken, fails)
           [] OTHER -> Answer(h, ErrorPage, room, broken, fails)

\* When less than Room bytes are free: twice the buffer, from DoubleLimit on
\* DoubleLimit more.
upnphttp_adjust_buffer(h) ==
  [h EXCEPT !.bufalloc = IF h.bufalloc >= h.buflen + Room THEN @
                         ELSE IF @ = 0 THEN FirstAlloc
                         ELSE IF @ < DoubleLimit THEN 2 * @ ELSE @ + DoubleLimit]

\* No memory for it: the answer is built, what the socket takes of it is
\* sent, and the connection is deleted whatever is left.
AdjustFailed(h, room, broken, fails) ==
  [Answer(h, ErrorPage, room, broken, fails) EXCEPT !.state = "EToDelete"]

Growing(h) == h.bufalloc < h.buflen + Room

\* recv() returned n > 0 bytes in the state that waits for the headers.
RequestReceived(h0, n, req, room, broken, fails) ==
  LET h == [h0 EXCEPT !.buflen = @ + n,
                      !.contentoff = IF h0.buflen + n >= req.hdrlen THEN req.hdrlen ELSE 0]
  IN  IF \/ h.contentoff >= HEADERS_LENGTH_LIMIT
         \/ h.contentoff = 0 /\ h.buflen >= HEADERS_LENGTH_LIMIT
      THEN Answer(h, ErrorPage, room, broken, fails)
      ELSE IF h.contentoff > 0 THEN ProcessHttpQuery_upnphttp(h, req, room, broken, fails)
      ELSE h

\* recv() returned n > 0 bytes in the state that waits for the body.
ContentReceived(h0, n, req, room, broken, fails) ==
  LET h == [h0 EXCEPT !.buflen = @ + n]
  IN  IF BodyReceived(h)
      THEN ProcessHTTPPOST_upnphttp(h, req, room, broken, fails)
      ELSE h

\* Mutant: the bytes already in the buffer forgotten.
RecvMax_Whole(h) == h.bufalloc

\* The bytes recv() may store: one is kept for a terminator while the
\* headers are read.
RecvMax(h) ==
  h.bufalloc - h.buflen - (IF h.state = "EWaitingForHttpRequest" THEN 1 ELSE 0)

\* Mutant: the end of the connection not noticed.
PeerClosed_Ignored(h) == h

\* recv() answered 0 or failed for good.
PeerClosed(h) == [h EXCEPT !.state = "EToDelete"]

\* The file descriptor sets of the main loop: who is waited for.
WantsRead(h) == h.state \in {"EWaitingForHttpRequest", "EWaitingForHttpContent"} /\ h.socket
WantsWrite(h) == h.state = "ESendingAndClosing" /\ h.socket
=============================================================================
