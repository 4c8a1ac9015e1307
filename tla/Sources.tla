------------------------------ MODULE Sources ------------------------------
(***************************************************************************)
(* Byte streams read without copying: BufferSource and its combinators     *)
(* (async/buffer_source.hpp, buffer_source_impl.hpp), the buffer helpers   *)
(* they use (buffer.hpp), HttpData (http/http_data.hpp), and fetch_chunk   *)
(* with transfer_chunked_data (async/fetch.hpp).                           *)
(*                                                                         *)
(* A byte is a number, a buffer a sequence of bytes.  A source is a record *)
(* with its kind: the base is a stream that is being written to, whose     *)
(* bytes after the place wrap lie in a second buffer, as in a ring;        *)
(* "take" is TakeNSource, "prepend" PrependBufferSource and "none" an      *)
(* HttpData without a source.                                              *)
(***************************************************************************)
EXTENDS Integers, Sequences

LOCAL INSTANCE SequencesExt

CONSTANTS
  Cases,        \* the pairs of a consumer and a source to run it on
  MaxBytes      \* bound on the bytes written to the base

VARIABLES
  mode,         \* the consumer: "for_each", "write_to", "transfer"
  source,       \* the source it reads from
  whole,        \* every byte that the source delivers, in order
  sink,         \* the bytes the consumer has handed on
  reader        \* where the consumer is, and the chunk in its hands

sourceVars == <<mode, source, whole, sink, reader>>

Least(a, b) == IF a < b THEN a ELSE b
Base(bytes, wrap, ended) == [kind |-> "base", bytes |-> bytes, wrap |-> wrap, ended |-> ended]
Take(q, n) == [kind |-> "take", src |-> q, limit |-> n]
Prepend(first, q) ==
  [kind |-> "prepend", src |-> q, first |-> first, index |-> 0, offset |-> 0,
   remaining |-> Len(FlattenSeq(first))]
NoData == [kind |-> "none"]

Answer(status, bufs) == [status |-> status, bufs |-> bufs]
NonEmpty(bufs) == SelectSeq(bufs, LAMBDA b : b # <<>>)
DropBytes(b, n) == SubSeq(b, n + 1, Len(b))

-----------------------------------------------------------------------------
(* buffer.hpp.                                                             *)

\* consume_buffers, on a vector of buffers.
RECURSIVE ConsumeBuffers(_, _)
ConsumeBuffers(bufs, count) ==
  IF count = 0 THEN bufs
  ELSE IF Len(Head(bufs)) > count THEN <<DropBytes(Head(bufs), count)>> \o Tail(bufs)
  ELSE ConsumeBuffers(Tail(bufs), count - Len(Head(bufs)))

\* consume_buffers_iter, from a position: the number of buffers passed and
\* the offset in the next one.
RECURSIVE ConsumeIter(_, _, _, _)
ConsumeIter(bufs, index, offset, count) ==
  IF count = 0 \/ index = Len(bufs) THEN [index |-> index, offset |-> 0]
  ELSE LET left == Len(bufs[index + 1]) - offset IN
       IF left > count THEN [index |-> index, offset |-> count]
       ELSE ConsumeIter(bufs, index + 1, 0, count - left)

-----------------------------------------------------------------------------
(* fetch_at_least and consume.                                             *)

\* TakeNSource: trim from the end what exceeds the limit.
RECURSIVE Trimmed(_, _)
Trimmed(bufs, limit) ==
  LET n == Len(FlattenSeq(bufs)) IN
  IF n <= limit \/ bufs = <<>> THEN bufs
  ELSE IF Len(Last(bufs)) <= n - limit THEN Trimmed(Front(bufs), limit)
  ELSE Front(bufs) \o <<SubSeq(Last(bufs), 1, Len(Last(bufs)) - (n - limit))>>

\* What PrependBufferSource has left of its own.
Unread(q) ==
  IF q.remaining = 0 THEN <<>>
  ELSE [i \in 1..(Len(q.first) - q.index) |->
          IF i = 1 THEN DropBytes(q.first[q.index + 1], q.offset) ELSE q.first[q.index + i]]

RECURSIVE FetchAtLeast(_, _)
FetchAtLeast(q, min) ==
  CASE q.kind = "none" -> Answer("end_of_stream", <<>>)
    [] q.kind = "base" ->
         IF Len(q.bytes) >= min
         THEN Answer("ok", NonEmpty(<<SelectSeq(q.bytes, LAMBDA b : b <= q.wrap),
                                      SelectSeq(q.bytes, LAMBDA b : b > q.wrap)>>))
         ELSE Answer(IF q.ended THEN "end_of_stream" ELSE "blocked", <<>>)
    [] q.kind = "take" ->
         LET r == FetchAtLeast(q.src, min) IN
         IF r.status = "ok" THEN Answer("ok", Trimmed(r.bufs, q.limit)) ELSE r
    [] q.kind = "prepend" ->
         LET r == FetchAtLeast(q.src, min - Least(q.remaining, min)) IN
         IF r.status # "ok" /\ (Unread(q) = <<>> \/ r.status # "end_of_stream") THEN r
         ELSE Answer("ok", Unread(q) \o r.bufs)

RECURSIVE Consume(_, _)
Consume(q, count) ==
  CASE q.kind = "none" -> q
    [] q.kind = "base" -> [q EXCEPT !.bytes = DropBytes(@, count)]
    [] q.kind = "take" ->
         LET n == Least(count, q.limit) IN
         [q EXCEPT !.src = Consume(@, n), !.limit = @ - n]
    [] q.kind = "prepend" ->
         LET n == Least(q.remaining, count)
             p == ConsumeIter(q.first, q.index, q.offset, n) IN
         [q EXCEPT !.index = p.index, !.offset = p.offset, !.remaining = @ - n,
                   !.src = IF count > n THEN Consume(@, count - n) ELSE @]

\* close_for_read: TakeNSource closes itself only.
RECURSIVE ClosedForRead(_)
ClosedForRead(q) ==
  CASE q.kind = "none" -> q
    [] q.kind = "base" -> [q EXCEPT !.bytes = <<>>, !.ended = TRUE]
    [] q.kind = "take" -> [q EXCEPT !.limit = 0]
    [] q.kind = "prepend" ->
         [q EXCEPT !.index = Len(q.first), !.offset = 0, !.remaining = 0,
                   !.src = ClosedForRead(@)]

\* size(): a hint.
RECURSIVE SizeHint(_)
SizeHint(q) ==
  CASE q.kind = "none" -> 0
    [] q.kind = "base" -> Len(q.bytes)
    [] q.kind = "take" -> Least(q.limit, SizeHint(q.src))
    [] q.kind = "prepend" -> q.remaining + SizeHint(q.src)

\* The writer of the base: one more byte, or the end.
RECURSIVE Written(_, _)
Written(q, b) ==
  IF q.kind = "none" THEN q
  ELSE IF q.kind = "base" THEN [q EXCEPT !.bytes = Append(@, b)]
  ELSE [q EXCEPT !.src = Written(@, b)]
RECURSIVE Ended(_)
Ended(q) ==
  IF q.kind = "none" THEN q
  ELSE IF q.kind = "base" THEN [q EXCEPT !.ended = TRUE] ELSE [q EXCEPT !.src = Ended(@)]
RECURSIVE BaseOf(_)
BaseOf(q) ==
  IF q.kind = "none" THEN Base(<<>>, 0, TRUE)
  ELSE IF q.kind = "base" THEN q ELSE BaseOf(q.src)

\* The bytes a source stands for.
RECURSIVE Bytes(_)
Bytes(q) ==
  CASE q.kind = "none" -> <<>>
    [] q.kind = "base" -> q.bytes
    [] q.kind = "take" -> SubSeq(Bytes(q.src), 1, Least(q.limit, Len(Bytes(q.src))))
    [] q.kind = "prepend" -> FlattenSeq(Unread(q)) \o Bytes(q.src)

-----------------------------------------------------------------------------
\* A BasicScopedChunk: local_storage_ and buffer_.
Chunk(storage, buffer) == [storage |-> storage, buffer |-> buffer]
NoChunk == Chunk(<<>>, <<>>)

SourceInit ==
  /\ \E c \in Cases : mode = c[1] /\ source = c[2]
  /\ whole = Bytes(source)
  /\ sink = <<>>
  /\ reader = [pc |-> "fetch", chunk |-> NoChunk]

ReaderAt(pc) == reader.pc = pc
Fetched(min) == FetchAtLeast(source, min)
Finish(pc) ==
  reader' = [pc |-> pc, chunk |-> NoChunk] /\ UNCHANGED <<mode, source, whole, sink>>

\* The producer of the base stream.
ProduceByte ==
  LET b == BaseOf(source)
      n == Len(whole) + 100 IN
  /\ ~ b.ended
  /\ Len(whole) < MaxBytes
  /\ source' = Written(source, n)
  /\ whole' = (IF Bytes(source') = Bytes(source) THEN whole ELSE Append(whole, n))
  /\ Len(BaseOf(source').bytes) <= MaxBytes
  /\ UNCHANGED <<mode, sink, reader>>

ProduceEnd ==
  /\ ~ BaseOf(source).ended
  /\ source' = Ended(source)
  /\ UNCHANGED <<mode, whole, sink, reader>>

\* for_each, and with it collect_vec, print_out and consume: one iteration.
\* The function may break off after any buffer; nothing is consumed then.
Over_AtEndOnly(r) == r.status = "end_of_stream"
Over(r) == r.status = "end_of_stream" \/ FlattenSeq(r.bufs) = <<>>
ForEachRound ==
  LET r == Fetched(1)
      n == Len(FlattenSeq(r.bufs)) IN
  /\ mode = "for_each" /\ ReaderAt("fetch")
  /\ r.status # "blocked"
  /\ IF Over(r)
       THEN Finish("done")
       ELSE /\ source' = Consume(source, n)
            /\ sink' = sink \o FlattenSeq(r.bufs)
            /\ UNCHANGED <<mode, whole, reader>>

ForEachBreak ==
  /\ mode = "for_each" /\ ReaderAt("fetch")
  /\ Fetched(1).status = "ok" /\ Fetched(1).bufs # <<>>
  /\ Finish("broke")

\* write_to: the stream accepts some of what it is offered.
Accepted(n) == IF n = 0 THEN {0} ELSE 1..n
WriteRound ==
  LET r == Fetched(1)
      bytes == FlattenSeq(r.bufs) IN
  /\ mode = "write_to" /\ ReaderAt("fetch")
  /\ r.status # "blocked"
  /\ IF r.status = "end_of_stream"
       THEN Finish("done")
       ELSE \E k \in Accepted(Len(bytes)) :
              /\ source' = Consume(source, k)
              /\ sink' = sink \o SubSeq(bytes, 1, k)
              /\ UNCHANGED <<mode, whole, reader>>

WriteFails ==
  /\ mode = "write_to" /\ ReaderAt("fetch")
  /\ Fetched(1).status = "ok"
  /\ Finish("failed")

-----------------------------------------------------------------------------
(* transfer_chunked_data: fetch_chunk, write, and the chunk's destructor,  *)
(* which consumes what back_up has left in it.                             *)

\* fetch_chunk: the first buffer if it is large enough, else a gathered copy.
ChunkOf(bufs, min) ==
  LET gathered == SubSeq(FlattenSeq(bufs), 1, min) IN
  IF Len(Head(bufs)) >= min THEN Chunk(<<>>, Head(bufs)) ELSE Chunk(gathered, gathered)

\* The move constructor and assignment: a gathered copy moves with its chunk,
\* and buffer_ is pointed at all of it.
Moved(chunk) == IF chunk.storage = <<>> THEN chunk ELSE Chunk(chunk.storage, chunk.storage)

ChunkFetch(min) ==
  LET r == Fetched(min) IN
  /\ mode = "transfer" /\ ReaderAt("fetch")
  /\ r.status # "blocked"
  /\ IF r.status # "ok" THEN Finish("done")
     ELSE /\ reader' = [pc |-> "write", chunk |-> Moved(ChunkOf(r.bufs, min))]
          /\ UNCHANGED <<mode, source, whole, sink>>

BackUp_None(chunk, n) == chunk
BackUp(chunk, n) == [chunk EXCEPT !.buffer = SubSeq(@, 1, Len(@) - n)]
\* BasicScopedChunk::consume, in the destructor.
ChunkConsumed(chunk) == Consume(source, Len(chunk.buffer))

ChunkWrite ==
  /\ mode = "transfer" /\ ReaderAt("write")
  /\ LET n == Len(reader.chunk.buffer) IN
     \E k \in 1..n :
       /\ sink' = sink \o SubSeq(reader.chunk.buffer, 1, k)
       /\ source' = ChunkConsumed(BackUp(reader.chunk, n - k))
  /\ reader' = [pc |-> "fetch", chunk |-> NoChunk]
  /\ UNCHANGED <<mode, whole>>

\* A write that fails or takes nothing: the destructor consumes the chunk.
ChunkFails ==
  /\ mode = "transfer" /\ ReaderAt("write")
  /\ source' = ChunkConsumed(reader.chunk)
  /\ reader' = [pc |-> "failed", chunk |-> NoChunk]
  /\ UNCHANGED <<mode, whole, sink>>

\* Closing the source between two rounds: what is left is not delivered.
CloseSource ==
  /\ ReaderAt("fetch")
  /\ source' = ClosedForRead(source)
  /\ source' # source
  /\ whole' = sink
  /\ UNCHANGED <<mode, sink, reader>>

ReaderStep ==
  \/ CloseSource \/ ForEachRound \/ ForEachBreak \/ WriteRound \/ WriteFails
  \/ (\E min \in 1..2 : ChunkFetch(min)) \/ ChunkWrite \/ ChunkFails

SourceStep == ReaderStep \/ ProduceByte \/ ProduceEnd

\* The consumer's loop runs on, does not break off or fail forever, and the
\* writer ends.
ConsumerRound == ForEachRound \/ WriteRound \/ (\E min \in 1..2 : ChunkFetch(min)) \/ ChunkWrite
SourceFairness == WF_sourceVars(ConsumerRound) /\ WF_sourceVars(ProduceEnd)

-----------------------------------------------------------------------------
\* What has been handed on is what the stream holds, in order, each byte
\* once, through trimming, prepended buffers, short writes and gathered
\* chunks; a consumer that ends normally has handed on everything; and what
\* it will be offered next is what follows.
DeliversOnce ==
  /\ IsPrefix(sink, whole)
  /\ reader.pc = "done" /\ mode # "transfer" => sink = whole
  /\ reader.pc \in {"fetch", "write"} => sink \o Bytes(source) = whole
  /\ SizeHint(source) = Len(Bytes(source))

\* A consumer comes to an end once the stream it reads has ended.
ReaderEnded == reader.pc \notin {"fetch", "write"}
ConsumersEnd == <>ReaderEnded
=============================================================================
