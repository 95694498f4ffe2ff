------------------------------ MODULE MiniWget ------------------------------
(***************************************************************************)
(* The HTTP response reader of the client library, getHTTPResponse() of   *)
(* miniwget.c, as a function of the segments recv() returns.  A character *)
(* of the stream is a header character "x", an end-of-line character "CR" *)
(* or "LF", a hexadecimal digit, ";" for the start of a chunk extension,  *)
(* or a byte of the body.  What the header lines say (Content-Length,     *)
(* Transfer-Encoding) is an argument, used once the end of the headers is *)
(* found: the wording of the lines is left out.                           *)
(***************************************************************************)
EXTENDS Integers, Sequences, SequencesExt

\* What isxdigit() accepts: the value of each digit used.
Digit == [c \in {"0", "1", "2", "3", "a"} |->
            CASE c = "0" -> 0 [] c = "1" -> 1 [] c = "2" -> 2 [] c = "3" -> 3 [] c = "a" -> 10]

\* The local variables of getHTTPResponse() that live from one recv() to
\* the next; end: the loop was left by a break or the goto.
ResponseInit ==
  [header_buf |-> <<>>, endofheaders |-> 0, chunksize |-> 0,
   chunksize_buf |-> <<>>, content |-> <<>>, end |-> FALSE]

\* The scan for CR LF CR LF or LF LF over all the header bytes received so
\* far, with the index arithmetic of the code (counted from 1): the
\* character after a line end is skipped unless it continues the pattern.
RECURSIVE EndOfHeaders(_, _)
EndOfHeaders(buf, i) ==
  LET At(k) == IF k <= Len(buf) THEN buf[k] ELSE "" IN
    IF i >= Len(buf) THEN 0
    ELSE IF buf[i] = "CR"
         THEN IF At(i + 1) # "LF" THEN EndOfHeaders(buf, i + 2)
              ELSE IF At(i + 2) # "CR" THEN EndOfHeaders(buf, i + 3)
              ELSE IF At(i + 3) # "LF" THEN EndOfHeaders(buf, i + 4)
              ELSE i + 3
    ELSE IF buf[i] = "LF"
         THEN IF At(i + 1) = "LF" THEN i + 1 ELSE EndOfHeaders(buf, i + 2)
    ELSE EndOfHeaders(buf, i + 1)

\* The index at which a loop over buf stops, of those it may stop at.
StopAt(buf, stops) ==
  IF stops = {} THEN Len(buf) + 1 ELSE CHOOSE j \in stops : \A k \in stops : j <= k

SkipOne(buf, i, c) == IF i <= Len(buf) /\ buf[i] = c THEN i + 1 ELSE i

ChunkSizeDigits == 31   \* sizeof(chunksize_buf) - 1
UnsignedDigits == 8     \* hexadecimal digits of an unsigned int

RECURSIVE HexNumber(_)
HexNumber(s) == IF s = <<>> THEN 0 ELSE 16 * HexNumber(Front(s)) + Digit[Last(s)]

\* The shifts drop all but the last digits.
HexValue(s) ==
  HexNumber(IF Len(s) <= UnsignedDigits THEN s
            ELSE SubSeq(s, Len(s) - UnsignedDigits + 1, Len(s)))

\* Mutant: the digits of a chunk size forgotten at the end of a segment.
KeepDigits_Lost(r, digits) == [r EXCEPT !.chunksize_buf = <<>>]

\* chunksize_buf lives from one segment to the next.
KeepDigits(r, digits) == [r EXCEPT !.chunksize_buf = digits]

\* Reading a chunk size from position i on: the leading line end of the
\* previous chunk (only before the first digit), the digits, the extension
\* that is thrown away, the line end.  at: the next position to read;
\* without the LF the digits are kept for the next segment.
ChunkSize(r, buf, i) ==
  LET start  == IF r.chunksize_buf = <<>> THEN SkipOne(buf, SkipOne(buf, i, "CR"), "LF") ELSE i
      after  == StopAt(buf, {j \in start .. Len(buf) :
                            \/ buf[j] \notin DOMAIN Digit
                            \/ Len(r.chunksize_buf) + j - start >= ChunkSizeDigits})
      digits == r.chunksize_buf \o SubSeq(buf, start, after - 1)
      eol    == StopAt(buf, {j \in after .. Len(buf) : buf[j] \in {"CR", "LF"}})
      lf     == SkipOne(buf, eol, "CR")
  IN  IF lf <= Len(buf) /\ buf[lf] = "LF"
      THEN [r |-> [r EXCEPT !.chunksize = HexValue(digits), !.chunksize_buf = <<>>,
                            !.end = HexValue(digits) = 0],
            at |-> lf + 1]
      ELSE [r |-> KeepDigits(r, digits), at |-> lf]

\* The chunk loop over one received segment.
RECURSIVE Chunks(_, _, _)
Chunks(r, buf, i) ==
  IF i > Len(buf) \/ r.end THEN r
  ELSE IF r.chunksize = 0
       THEN LET s == ChunkSize(r, buf, i)
            IN  Chunks(s.r, buf, s.at)
       ELSE LET bytestocopy == IF r.chunksize < Len(buf) - i + 1 THEN r.chunksize
                               ELSE Len(buf) - i + 1
            IN  Chunks([r EXCEPT !.content = @ \o SubSeq(buf, i, i + bytestocopy - 1),
                                 !.chunksize = @ - bytestocopy],
                       buf, i + bytestocopy)

\* Content without chunks: never more than the announced length, when one
\* was announced and is not zero.
Plain(r, buf, content_length) ==
  LET room == content_length - Len(r.content)
      n    == IF content_length > 0 /\ Len(buf) > room THEN room ELSE Len(buf)
  IN  [r EXCEPT !.content = @ \o SubSeq(buf, 1, n)]

\* The bytes of header_buf once the segment is appended.
HeaderBytes(r, seg) == r.header_buf \o seg

\* One iteration of the receive loop, for the segment seg.  m: what the
\* header lines say, [chunked, content_length] (-1: no such line).
Received(r, seg, m) ==
  LET inHeaders == r.endofheaders = 0
      h    == IF inHeaders
              THEN [r EXCEPT !.header_buf = HeaderBytes(r, seg),
                             !.endofheaders = EndOfHeaders(HeaderBytes(r, seg), 1)]
              ELSE r
      buf  == IF inHeaders THEN SubSeq(h.header_buf, h.endofheaders + 1, Len(h.header_buf))
              ELSE seg
      c    == IF m.chunked THEN Chunks(h, buf, 1) ELSE Plain(h, buf, m.content_length)
  IN  IF h.endofheaders = 0 THEN h
      ELSE [c EXCEPT !.header_buf = <<>>,
              !.end = @ \/ (m.content_length > 0 /\ Len(c.content) >= m.content_length)]
=============================================================================
