--------------------------- MODULE MCHttpExchange ---------------------------
(***************************************************************************)
(* HttpExchange for TLC: headers of 3 bytes (limit 6), bodies of 2 (limit  *)
(* 3), a request buffer of 4 bytes that grows, answers longer than what    *)
(* the kernel keeps, so that the daemon has to come back for the rest.     *)
(***************************************************************************)
EXTENDS HttpExchange

Post == [method |-> "POST", url |-> "ctl", host |-> "address", soapAction |-> TRUE,
         expect |-> FALSE, hdrlen |-> 3, contentlen |-> 2, bodylen |-> 2,
         command |-> "none", answer |-> <<"b", "v1", "v2">>]
Get == [Post EXCEPT !.method = "GET", !.url = "desc", !.host = "address",
                    !.contentlen = -1, !.bodylen = 0]

ToDaemon(client, req) == [client |-> client, server |-> "daemon", req |-> req, stream |-> Nothing]
FromGateway(s) == [client |-> "wget", server |-> "gateway", req |-> Get, stream |-> s]

Others ==
  {[Post EXCEPT !.expect = TRUE],                       \* waits, or not, for 100 Continue
   [Post EXCEPT !.expect = TRUE, !.contentlen = 4],     \* over the limit
   [Post EXCEPT !.soapAction = FALSE],
   [Post EXCEPT !.host = "name"],
   [Post EXCEPT !.contentlen = -1],                     \* no Content-Length
   [Post EXCEPT !.hdrlen = 7],                          \* headers over the limit
   [Get EXCEPT !.url = "ctl"],
   [Get EXCEPT !.method = "SUBSCRIBE", !.url = "evt"]}

Headers == <<"x", "CR", "LF", "CR", "LF">>
Body == <<"1", "CR", "b">>

\* Chunks of 2 and 1 bytes, the sizes written with leading zeros or not, the
\* end of the last chunk present or missing.
Chunked(last) ==
  [stream |-> Headers \o <<"2", "CR", "LF", "1", "CR", "CR", "LF", "0", "1", "CR", "LF", "b", "CR", "LF">>
                   \o last,
   body |-> Body, chunked |-> TRUE, content_length |-> -1]
Gateways ==
  {[stream |-> Headers \o Body, body |-> Body, chunked |-> FALSE, content_length |-> 3],
   [stream |-> <<"x", "LF", "LF">> \o Body, body |-> Body, chunked |-> FALSE, content_length |-> -1],
   Chunked(<<"0", "CR", "LF", "CR", "LF">>), Chunked(<<>>)}

\* A chunk size followed by an extension.
Extended ==
  {[stream |-> Headers \o <<"2", ";", "a", "CR", "LF", "1", "b", "CR", "LF", "0", "CR", "LF">>,
    body |-> <<"1", "b">>, chunked |-> TRUE, content_length |-> -1]}

\* The answer of a command of each kind; the one of an update has no value.
Command(c) == [Post EXCEPT !.command = c,
                           !.answer = IF c \in Updates THEN <<"b">> ELSE <<"b", "v1", "v2">>]
QueryCommands == {ToDaemon("soap", Command(c)) : c \in Queries \cup {"GetTotalBytesSent"}}
UpdateCommands == {ToDaemon("soap", Command(c)) : c \in Updates}

AllExchanges ==
  {ToDaemon("wget", Get)} \cup QueryCommands \cup {ToDaemon("other", r) : r \in Others}
    \cup {FromGateway(s) : s \in Gateways}
ChunkExtensions == {FromGateway(s) : s \in Extended}
=============================================================================
