----------------------------- MODULE HttpParser -----------------------------
(***************************************************************************)
(* The parser of message heads (pico_http/parser_impl.hpp), fed with a     *)
(* head that arrives bit by bit.                                           *)
(*                                                                         *)
(* A character is one of: "V", which stands for the eight of HTTP/1.x;     *)
(* "D", for the three digits of a status code; "t", any other character of *)
(* a token; ":"; " ", for a tab too; CR and LF.  What a function of the    *)
(* parser returns is the position after what it has read, or one of the    *)
(* two failures.                                                           *)
(***************************************************************************)
EXTENDS Integers, Sequences

CONSTANT MaxHead        \* bound on the length of a head

VARIABLES
  kind,                 \* "request", "response", or "headers" on their own
  head                  \* the characters that have arrived

headVars == <<kind, head>>

kParseFailed == -1
kParseIncomplete == -2

Chars == {"V", "D", "t", ":", " ", "CR", "LF"}
TokenChars == {"D", "t"}

AtEnd(s, i) == i > Len(s)
Ok(i) == i >= 0

\* Where a line ends that should end at i.
EndOfLine(s, i) ==
  IF AtEnd(s, i) THEN kParseIncomplete
  ELSE IF s[i] = "LF" THEN i + 1
  ELSE IF s[i] = "CR" /\ AtEnd(s, i + 1) THEN kParseIncomplete
  ELSE IF s[i] = "CR" /\ s[i + 1] = "LF" THEN i + 2
  ELSE kParseFailed

\* The first position from i on that holds one of stop, or is after the end.
RECURSIVE Find(_, _, _)
Find(s, i, stop) == IF AtEnd(s, i) \/ s[i] \in stop THEN i ELSE Find(s, i + 1, stop)
Skip(s, i) == Find(s, i, Chars \ {" "})

\* get_token_to_eol and parse_token: where the token ends.
get_token_to_eol(s, i) == EndOfLine(s, Find(s, i, {"CR", "LF"}))
parse_token(s, i, next) ==
  LET j == Find(s, i, Chars \ (TokenChars \ {next})) IN
  IF AtEnd(s, j) THEN kParseIncomplete
  ELSE IF s[j] = next THEN j
  ELSE kParseFailed

\* It asks for one character more than it reads.
parse_http_version(s, i) ==
  IF i + 1 > Len(s) THEN kParseIncomplete
  ELSE IF s[i] = "V" THEN i + 1
  ELSE kParseFailed

-----------------------------------------------------------------------------
(* parse_headers: where they end, and what they are.                       *)

RECURSIVE Trim(_)
Trim(v) == IF v # <<>> /\ v[Len(v)] = " " THEN Trim(SubSeq(v, 1, Len(v) - 1)) ELSE v
Value(s, i) == Trim(SubSeq(s, i, Find(s, i, {"CR", "LF"}) - 1))

Parsed(at, headers) == [at |-> at, headers |-> headers]

RECURSIVE parse_headers(_, _, _)
parse_headers(s, i, headers) ==
  LET last == EndOfLine(s, i)
      more == headers # <<>> /\ s[i] = " "       \* a line that goes on
      colon == parse_token(s, i, ":")
      v == IF more THEN i ELSE Skip(s, colon + 1)
      after == get_token_to_eol(s, v)
      name == IF more THEN <<>> ELSE SubSeq(s, i, colon - 1) IN
  IF AtEnd(s, i) THEN Parsed(kParseIncomplete, headers)
  ELSE IF s[i] \in {"CR", "LF"} THEN Parsed(last, headers)
  ELSE IF ~ more /\ ~ Ok(colon) THEN Parsed(colon, headers)
  ELSE IF ~ more /\ colon = i THEN Parsed(kParseFailed, headers)
  ELSE IF AtEnd(s, v) THEN Parsed(kParseIncomplete, headers)
  ELSE IF ~ Ok(after) THEN Parsed(after, headers)
  ELSE parse_headers(s, after, Append(headers, [name |-> name, value |-> Value(s, v)]))

-----------------------------------------------------------------------------
(* Request::parse and Response::parse; first is the first line.            *)

Head_(at, first, headers) == [at |-> at, first |-> first, headers |-> headers]
Bad(at) == Head_(at, <<>>, <<>>)
Complete(first, parsed) == Head_(parsed.at, first, parsed.headers)

FirstLine(s) == IF s # <<>> /\ s[1] \in {"CR", "LF"} THEN EndOfLine(s, 1) ELSE 1

\* A token, after spaces, and then at least one.
ParseRequest(s) ==
  LET b == FirstLine(s)
      m == parse_token(s, b, " ")
      p == Skip(s, m + 1)
      q == Find(s, p, {" ", "CR", "LF"})
      w == Skip(s, q + 1)
      v == parse_http_version(s, w)
      h == EndOfLine(s, v) IN
  IF s = <<>> THEN Bad(kParseIncomplete)
  ELSE IF ~ Ok(b) THEN Bad(b)
  ELSE IF ~ Ok(m) THEN Bad(m)
  ELSE IF AtEnd(s, p) \/ AtEnd(s, q) THEN Bad(kParseIncomplete)
  ELSE IF s[q] # " " THEN Bad(kParseFailed)
  ELSE IF AtEnd(s, w) THEN Bad(kParseIncomplete)
  ELSE IF m = b \/ p = q THEN Bad(kParseFailed)
  ELSE IF ~ Ok(v) THEN Bad(v)
  ELSE IF ~ Ok(h) THEN Bad(h)
  ELSE Complete(<<SubSeq(s, b, m - 1), SubSeq(s, p, q - 1)>>, parse_headers(s, h, <<>>))

ParseResponse(s) ==
  LET v == parse_http_version(s, 1)
      d == Skip(s, v + 1)
      h == get_token_to_eol(s, d + 1)
      e == Find(s, d + 1, {"CR", "LF"})
      msg == SubSeq(s, Skip(s, d + 1), e - 1) IN
  IF ~ Ok(v) THEN Bad(v)
  ELSE IF s[v] # " " THEN Bad(kParseFailed)
  ELSE IF d + 1 > Len(s) THEN Bad(kParseIncomplete)
  ELSE IF s[d] # "D" THEN Bad(kParseFailed)
  ELSE IF ~ Ok(h) THEN Bad(h)
  ELSE IF e > d + 1 /\ s[d + 1] # " " THEN Bad(kParseFailed)
  ELSE Complete(<<msg>>, parse_headers(s, h, <<>>))

ParseAll(s) ==
  CASE kind = "request" -> ParseRequest(s)
    [] kind = "response" -> ParseResponse(s)
    [] OTHER -> Complete(<<>>, parse_headers(s, 1, <<>>))

\* is_complete: are there two ends of lines, one after the other?
RECURSIVE TwoEnds(_, _, _)
TwoEnds(s, i, count) ==
  LET e == EndOfLine(s, i) IN
  IF count = 2 THEN i
  ELSE IF AtEnd(s, i) THEN kParseIncomplete
  ELSE IF s[i] \in {"CR", "LF"} THEN IF Ok(e) THEN TwoEnds(s, e, count + 1) ELSE e
  ELSE TwoEnds(s, i + 1, 0)
StartAt_Late(lastLen) == lastLen + 1
StartAt(lastLen) == IF lastLen < 3 THEN 1 ELSE lastLen - 2
is_complete(s, lastLen) == TwoEnds(s, StartAt(lastLen), 0)

\* With lastLen > 0 the caller says that so many characters were not enough.
Parse(s, lastLen) ==
  LET c == is_complete(s, lastLen) IN
  IF lastLen # 0 /\ ~ Ok(c) THEN Bad(c) ELSE ParseAll(s)

-----------------------------------------------------------------------------
(* operator<< of a request and of a response.                              *)

RECURSIVE PrintHeaders(_)
PrintHeaders(hs) ==
  IF hs = <<>> THEN <<"CR", "LF">>
  ELSE hs[1].name \o <<":", " ">> \o hs[1].value \o <<"CR", "LF">> \o PrintHeaders(Tail(hs))
PrintHead(m) ==
  (CASE kind = "request" -> m.first[1] \o <<" ">> \o m.first[2] \o <<" ", "V", "CR", "LF">>
     [] kind = "response" -> <<"V", " ", "D", " ">> \o m.first[1] \o <<"CR", "LF">>
     [] OTHER -> <<>>)
  \o PrintHeaders(m.headers)

-----------------------------------------------------------------------------
HeadInit == kind \in {"request", "response", "headers"} /\ head = <<>>

\* A reader waits for more as long as the parser asks for more.
Arrive ==
  /\ Len(head) < MaxHead
  /\ Parse(head, 0).at = kParseIncomplete
  /\ \E c \in Chars : head' = Append(head, c)
  /\ UNCHANGED kind

HeadSpec == HeadInit /\ [][Arrive]_headVars

\* No line goes on in the next: the library prints such a header in a form it
\* does not read.
Plain(m) == \A i \in DOMAIN m.headers : m.headers[i].name # <<>>

\* However a head arrives, it parses as it does in one piece: what was read
\* before (lastLen) never hides a head that is there, nor what follows it, and
\* never makes a head of what is none (for headers on their own, if there are
\* any: is_complete looks for two ends of lines); and a message that is parsed, printed
\* and parsed again is the same message.
ParsesTheSame ==
  LET m == Parse(head, 0) IN
  /\ \A l \in 1 .. Len(head) - 1 :
       LET at == Parse(head, l).at IN
       \/ at = m.at
       \/ kind = "headers" /\ m.headers = <<>>
       \/ m.at = kParseFailed /\ at = kParseIncomplete
  /\ Ok(m.at) =>
       /\ m.at = Len(head) + 1
       /\ \A c \in Chars : Parse(Append(head, c), 0) = m
       /\ Plain(m) => LET again == Parse(PrintHead(m), 0) IN
                      again.first = m.first /\ again.headers = m.headers

-----------------------------------------------------------------------------
(***************************************************************************)
(* The chunked transfer coding: http_encode_chunked, which writes a body   *)
(* to a stream; HttpChunkDecoder, a buffer source that reads it from one;  *)
(* and pico_http::decode_chunked, one step per character.                  *)
(*                                                                         *)
(* The bodies may hold characters that mean something to the decoder.  The *)
(* stream between the two delivers as much of what has been written as has *)
(* arrived, be it a part of a chunk, in one or two buffers, as a           *)
(* StreamBuffer does.                                                      *)
(***************************************************************************)

CONSTANTS
  Bodies,            \* the bodies to send
  Base,              \* of the sizes of chunks; sixteen in the code
  MaxFetch           \* bound on the min_count of a fetch

VARIABLES
  body,              \* what is to be sent
  trailer,           \* include_trailer and consume_trailer
  encoder,           \* what it has sent of the body, and where it is
  wire,              \* what it has written and the decoder has not consumed
  decoder,           \* the HttpChunkDecoder
  reader             \* the reader: what it has consumed, and what it was told

chunkedVars == <<body, trailer, encoder, wire, decoder, reader>>

\* ChunkedDecoder, zero-filled.
IN_CHUNK_SIZE == "size"
NewState == [at |-> IN_CHUNK_SIZE, left |-> 0, hex |-> 0]

ChunkedInit ==
  /\ body \in Bodies
  /\ trailer \in BOOLEAN
  /\ encoder = [sent |-> 0, at |-> "run"]
  /\ wire = <<>>
  /\ decoder = [checkpoint |-> NewState, latest |-> NewState, done |-> FALSE,
                srcSize |-> 0, available |-> 0, consumed |-> 0, chunks |-> <<>>]
  /\ reader = [out |-> <<>>, told |-> "none", held |-> 0]

-----------------------------------------------------------------------------
(* http_encode_chunked: the line before a chunk, which also ends the chunk *)
(* before; the last chunk.                                                 *)

HexDigits == SubSeq(<<"0", "1", "2", "3", "4", "5", "6", "7", "8", "9", "A", "B", "C", "D", "E", "F">>, 1, Base)
RECURSIVE encode_hex(_)
encode_hex(n) ==
  (IF n < Base THEN <<>> ELSE encode_hex(n \div Base)) \o <<HexDigits[(n % Base) + 1]>>
ChunkHeader(size) ==
  (IF encoder.sent = 0 THEN <<>> ELSE <<"CR", "LF">>) \o encode_hex(size) \o <<"CR", "LF">>
LastChunk == <<"CR", "LF", "0", "CR", "LF">> \o (IF trailer THEN <<"CR", "LF">> ELSE <<>>)

EncodeChunk(size) ==
  /\ encoder.at = "run" /\ encoder.sent + size <= Len(body)
  /\ wire' = wire \o ChunkHeader(size) \o SubSeq(body, encoder.sent + 1, encoder.sent + size)
  /\ encoder' = [encoder EXCEPT !.sent = @ + size]
  /\ UNCHANGED <<body, trailer, decoder, reader>>
EncodeEnd ==
  /\ encoder.at = "run" /\ encoder.sent = Len(body)
  /\ wire' = wire \o LastChunk
  /\ encoder' = [encoder EXCEPT !.at = "done"]
  /\ UNCHANGED <<body, trailer, decoder, reader>>
\* A write fails: nothing more comes, and of what was written only n bytes.
EncodeFails(n) ==
  /\ encoder.at = "run" /\ n >= decoder.srcSize
  /\ encoder' = [encoder EXCEPT !.at = "failed"]
  /\ wire' = SubSeq(wire, 1, n)
  /\ UNCHANGED <<body, trailer, decoder, reader>>

-----------------------------------------------------------------------------
(* decode_chunked: what a character does to the state, whether it is data, *)
(* and whether it ends all.                                                *)

IsHex(c) == \E i \in 1 .. Base : HexDigits[i] = c
decode_hex(c) == (CHOOSE i \in 1 .. Base : HexDigits[i] = c) - 1
MaxHex == 16

Goes(d, at) == [state |-> [d EXCEPT !.at = at], data |-> FALSE, done |-> FALSE, ok |-> TRUE]
Invalid(d) == [Goes(d, d.at) EXCEPT !.ok = FALSE]
\* The line feed after the size.
SizeRead(d) ==
  CASE d.left > 0 -> Goes([d EXCEPT !.hex = 0], "data")
    [] trailer -> Goes([d EXCEPT !.hex = 0], "trailer")
    [] OTHER -> [Goes([d EXCEPT !.hex = 0], "ext") EXCEPT !.done = TRUE]
Extension(d, c) == IF c = "LF" THEN SizeRead(d) ELSE Goes([d EXCEPT !.hex = 0], "ext")
DecodeChar(d, c) ==
  CASE d.at = "size" ->
         IF d.hex = (IF IsHex(c) THEN MaxHex ELSE 0) THEN Invalid(d)
         ELSE IF IsHex(c) THEN Goes([d EXCEPT !.left = @ * Base + decode_hex(c), !.hex = @ + 1], "size")
         ELSE Extension(d, c)
    [] d.at = "ext" -> Extension(d, c)
    [] d.at = "data" ->
         [Goes([d EXCEPT !.left = @ - 1], IF d.left = 1 THEN "crlf" ELSE "data") EXCEPT !.data = TRUE]
    [] d.at = "crlf" ->
         CASE c = "CR" -> Goes(d, "crlf") [] c = "LF" -> Goes(d, "size") [] OTHER -> Invalid(d)
    [] d.at = "trailer" ->
         CASE c = "CR" -> Goes(d, "trailer")
           [] c = "LF" -> [Goes(d, "trailer") EXCEPT !.done = TRUE]
           [] OTHER -> Goes(d, "line")
    [] d.at = "line" -> Goes(d, IF c = "LF" THEN "trailer" ELSE "line")

\* A buffer: the state after it, the data in it, how much of it was used.
RECURSIVE DecodeFrom(_, _, _, _)
DecodeFrom(d, buf, i, out) ==
  LET r == DecodeChar(d, buf[i])
      out1 == IF r.data THEN Append(out, buf[i]) ELSE out IN
  IF i > Len(buf) THEN [state |-> d, out |-> out, used |-> Len(buf), done |-> FALSE, ok |-> TRUE]
  ELSE IF ~ r.ok THEN [state |-> d, out |-> out, used |-> i - 1, done |-> FALSE, ok |-> FALSE]
  ELSE IF r.done THEN [state |-> r.state, out |-> out1, used |-> i, done |-> TRUE, ok |-> TRUE]
  ELSE DecodeFrom(r.state, buf, i + 1, out1)
decode_chunked(d, buf) == DecodeFrom(d, buf, 1, <<>>)

-----------------------------------------------------------------------------
(* HttpChunkDecoder.                                                       *)

Size(dec) == dec.available - dec.consumed

\* release_decoded_chunks: the decoder after it; it consumes srcSize.
Released(dec) ==
  [dec EXCEPT !.available = 0, !.consumed = 0, !.chunks = <<>>, !.checkpoint = dec.latest, !.srcSize = 0]

\* The loop over the buffers fetched; eaten is n_to_consume_from_src.
Reset(dec) == [dec EXCEPT !.srcSize = 0, !.chunks = <<>>, !.latest = dec.checkpoint]
\* What was consumed before and is decoded again is dropped.
Again_KeepsState(dec, used) ==
  IF dec.consumed # 0 /\ dec.consumed >= Len(dec.chunks)
  THEN [dec |-> [dec EXCEPT !.consumed = @ - Len(dec.chunks), !.chunks = <<>>], eaten |-> used]
  ELSE [dec |-> dec, eaten |-> 0]
Again(dec, used) ==
  IF dec.consumed # 0 /\ dec.consumed >= Len(dec.chunks)
  THEN [dec |-> [dec EXCEPT !.consumed = @ - Len(dec.chunks), !.chunks = <<>>, !.checkpoint = dec.latest],
        eaten |-> used]
  ELSE [dec |-> dec, eaten |-> 0]
RECURSIVE DecodeAll(_, _, _)
DecodeAll(dec, bufs, eaten) ==
  LET r == decode_chunked(dec.latest, Head(bufs))
      seen == [dec EXCEPT !.latest = r.state, !.chunks = @ \o r.out, !.srcSize = @ + r.used]
      a == Again(seen, r.used) IN
  IF bufs = <<>> THEN [dec |-> dec, eaten |-> eaten, ok |-> TRUE]
  ELSE IF ~ r.ok THEN [dec |-> dec, eaten |-> eaten, ok |-> FALSE]
  ELSE IF r.done THEN [dec |-> [a.dec EXCEPT !.done = TRUE], eaten |-> eaten + a.eaten, ok |-> TRUE]
  ELSE DecodeAll(a.dec, Tail(bufs), eaten + a.eaten)

Buffers(arrived, split) ==
  SelectSeq(<<SubSeq(wire, 1, split), SubSeq(wire, split + 1, arrived)>>, LAMBDA b : b # <<>>)

\* A turn of the loop of fetch_at_least: its source has enough.
Enough(arrived, n) == arrived >= decoder.srcSize + (n - Size(decoder))
FetchMore(n, arrived, split) ==
  LET r == DecodeAll(Reset(decoder), Buffers(arrived, split), 0) IN
  /\ reader.told = "none" /\ reader.held = 0
  /\ Size(decoder) < n /\ ~ decoder.done /\ Enough(arrived, n)
  /\ decoder' = [r.dec EXCEPT !.srcSize = @ - r.eaten, !.available = Len(r.dec.chunks)]
  /\ wire' = SubSeq(wire, r.eaten + 1, Len(wire))
  /\ reader' = [reader EXCEPT !.told = IF r.ok THEN "none" ELSE "invalid"]
  /\ UNCHANGED <<body, trailer, encoder>>

\* It fails: the body is over, or its source is.
FetchEnds(n) ==
  /\ reader.told = "none" /\ reader.held = 0
  /\ Size(decoder) < n
  /\ decoder.done \/ (encoder.at # "run" /\ ~ Enough(Len(wire), n))
  /\ IF Size(decoder) = 0
     THEN decoder' = Released(decoder) /\ wire' = SubSeq(wire, decoder.srcSize + 1, Len(wire))
     ELSE UNCHANGED <<decoder, wire>>
  /\ reader' = [reader EXCEPT !.told = IF n > 1 THEN "none" ELSE
                                       IF decoder.done THEN "end" ELSE "closed before end"]
  /\ UNCHANGED <<body, trailer, encoder>>

\* It succeeds, and the reader consumes some of what it got.
Fetched == SubSeq(decoder.chunks, decoder.consumed + 1, Len(decoder.chunks))
FetchAtLeast(n) ==
  /\ reader.told = "none" /\ reader.held = 0 /\ Size(decoder) >= n
  /\ reader' = [reader EXCEPT !.held = Len(Fetched)]
  /\ UNCHANGED <<body, trailer, encoder, wire, decoder>>
Consume(n) ==
  LET dec == [decoder EXCEPT !.consumed = @ + n] IN
  /\ reader.held >= n
  /\ reader' = [reader EXCEPT !.out = @ \o SubSeq(Fetched, 1, n), !.held = 0]
  /\ IF dec.consumed = dec.available
     THEN decoder' = Released(dec) /\ wire' = SubSeq(wire, dec.srcSize + 1, Len(wire))
     ELSE decoder' = dec /\ UNCHANGED wire
  /\ UNCHANGED <<body, trailer, encoder>>

-----------------------------------------------------------------------------
\* Bound: all that was written arrives in two buffers, or a part of it in one.
ChunkedStep ==
  \/ \E n \in 1 .. 3 : EncodeChunk(n)
  \/ EncodeEnd \/ \E n \in 0 .. Len(wire) : EncodeFails(n)
  \/ \E n \in 1 .. MaxFetch :
       \/ \E split \in 0 .. Len(wire) : FetchMore(n, Len(wire), split)
       \/ \E arrived \in 1 .. Len(wire) - 1 : FetchMore(n, arrived, arrived)
       \/ FetchEnds(n) \/ FetchAtLeast(n)
  \/ \E n \in 1 .. 3 : Consume(n)

ChunkedSpec == ChunkedInit /\ [][ChunkedStep]_chunkedVars

\* The reader gets the body, however it was cut into chunks, the chunks into
\* buffers, and the reads into consumes: never anything else; all of it when
\* it is told that the body is over, with nothing left of the message for the
\* next one on the connection; and it is not told so if the sender broke off.
DecodesTheBody ==
  /\ Len(reader.out) <= Len(body) /\ reader.out = SubSeq(body, 1, Len(reader.out))
  /\ reader.told # "invalid"
  /\ reader.told = "end" =>
       /\ encoder.at = "done" /\ reader.out = body
       /\ wire = <<>>
  /\ reader.told = "closed before end" => encoder.at = "failed"
=============================================================================
