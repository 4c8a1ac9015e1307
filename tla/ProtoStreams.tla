--------------------------- MODULE ProtoStreams ---------------------------
(***************************************************************************)
(* StreamBufferInputStream and StreamBufferOutputStream (protobuf/): the   *)
(* zero-copy streams of the protobuf library over the two ends of one      *)
(* StreamBuffer.  A chunk handed out by Next stays where it is until the   *)
(* next call: what was not backed up is consumed, or committed, then.      *)
(* StreamBuffer is represented by what its own module shows of it.         *)
(***************************************************************************)
EXTENDS Naturals, Sequences

CONSTANTS
  Capacity,        \* of the StreamBuffer
  MaxBytes,        \* bound on the bytes written
  MaxSkips         \* bound on the calls of Skip

VARIABLES
  ring,            \* [mem, consumed, committed, closed] of the StreamBuffer
  input,           \* the input stream and its user
  output           \* the output stream and its user

protoVars == <<ring, input, output>>

-----------------------------------------------------------------------------
Least(a, b) == IF a < b THEN a ELSE b
ProtoInit ==
  /\ ring = [mem |-> [i \in 0 .. Capacity - 1 |-> 0], consumed |-> 0, committed |-> 0, closed |-> FALSE]
  /\ input = [pc |-> "idle", n |-> 0, byteCount |-> 0, taken |-> <<>>, skip |-> 0, skips |-> MaxSkips, fresh |-> FALSE]
  /\ output = [pc |-> "idle", n |-> 0, byteCount |-> 0, written |-> 0]

\* fetch_at_least(1) and prepare_at_least(1): the length of the first buffer.
FrontLength(from, available) == Least(available, Capacity - (from % Capacity))
Fetched(r) == FrontLength(r.consumed, r.committed - r.consumed)
Prepared(r) == FrontLength(r.committed, Capacity - (r.committed - r.consumed))
BytesAt(r, from, n) == [i \in 1 .. n |-> r.mem[(from + i - 1) % Capacity]]

-----------------------------------------------------------------------------
\* consume_data, the first half of fetch_next.
\* Mutant: what is counted as handed out is not given back.
consume_data_Not == ring
consume_data == [ring EXCEPT !.consumed = @ + input.n]

\* Next, up to the wait: of the user, or of Skip.
InputConsumes ==
  /\ input.pc = "idle"
  /\ ring' = consume_data
  /\ input' = [input EXCEPT !.pc = "fetch", !.n = 0, !.fresh = FALSE]
  /\ UNCHANGED output
\* fetch_next with a chunk, or Next's false at the end of the stream.
InputNext ==
  /\ input.pc = "fetch" /\ ring.committed > ring.consumed
  /\ LET n == Fetched(ring) IN
     input' = [input EXCEPT !.pc = IF input.skip > 0 THEN "skip" ELSE "idle", !.n = n, !.byteCount = @ + n,
                            !.taken = @ \o BytesAt(ring, ring.consumed, n), !.fresh = TRUE]
  /\ UNCHANGED <<ring, output>>
InputEnds ==
  /\ input.pc = "fetch" /\ ring.committed = ring.consumed /\ ring.closed
  /\ input' = [input EXCEPT !.pc = "ended", !.skip = 0]
  /\ UNCHANGED <<ring, output>>
\* The destructor.
InputDestroyed ==
  /\ input.pc \in {"idle", "ended"}
  /\ ring' = consume_data
  /\ input' = [input EXCEPT !.pc = "gone", !.n = 0]
  /\ UNCHANGED output
\* BackUp, once, after Next; taken forgets what will be handed out again.
\* Mutant: only the count of bytes is taken back.
BackedUp_CountOnly(in, count) ==
  [in EXCEPT !.byteCount = @ - count, !.taken = SubSeq(@, 1, Len(@) - count), !.fresh = FALSE]
BackedUp(in, count) ==
  [in EXCEPT !.n = @ - count, !.byteCount = @ - count, !.taken = SubSeq(@, 1, Len(@) - count), !.fresh = FALSE]
InputBackUp ==
  /\ input.pc = "idle" /\ input.fresh
  /\ \E count \in 1 .. input.n : input' = BackedUp(input, count)
  /\ UNCHANGED <<ring, output>>
\* Skip: Next until enough was handed out; the surplus is backed up.
Skip ==
  /\ input.pc = "idle" /\ input.skips > 0
  /\ \E count \in 1 .. MaxBytes :
       /\ ring' = consume_data
       /\ input' = [input EXCEPT !.pc = "fetch", !.n = 0, !.skip = count, !.skips = @ - 1, !.fresh = FALSE]
  /\ UNCHANGED output
SkipRound ==
  /\ input.pc = "skip"
  /\ IF input.n > input.skip
     THEN /\ input' = [BackedUp(input, input.n - input.skip) EXCEPT !.pc = "idle", !.skip = 0]
          /\ UNCHANGED ring
     ELSE IF input.n = input.skip
     THEN /\ input' = [input EXCEPT !.pc = "idle", !.skip = 0, !.fresh = FALSE]
          /\ UNCHANGED ring
     ELSE /\ ring' = consume_data
          /\ input' = [input EXCEPT !.pc = "fetch", !.n = 0, !.skip = @ - input.n]
  /\ UNCHANGED output

-----------------------------------------------------------------------------
\* commit_data, the first half of prepare_next.
commit_data == [ring EXCEPT !.committed = @ + output.n]
OutputCommits ==
  /\ output.pc = "idle" /\ output.written < MaxBytes
  /\ ring' = commit_data
  /\ output' = [output EXCEPT !.pc = "prepare", !.n = 0]
  /\ UNCHANGED input
\* The memory when the n bytes from a position on are filled with the next numbers.
Filled(mem, from, n) ==
  [i \in DOMAIN mem |-> LET k == (i + Capacity - (from % Capacity)) % Capacity
                       IN IF k < n THEN output.written + k + 1 ELSE mem[i]]
\* prepare_next with a chunk, which the user fills with the next numbers and, in
\* the same step, backs up over what is more than they have to write.
OutputNext ==
  /\ output.pc = "prepare" /\ ring.committed - ring.consumed < Capacity
  /\ \E n \in 1 .. Least(Prepared(ring), MaxBytes - output.written) :
       /\ ring' = [ring EXCEPT !.mem = Filled(@, ring.committed, n)]
       /\ output' = [output EXCEPT !.pc = "idle", !.n = n, !.byteCount = @ + n, !.written = @ + n]
  /\ UNCHANGED input
\* The destructor commits; then the StreamBuffer is closed for writing.
OutputDestroyed ==
  /\ output.pc = "idle"
  /\ ring' = [commit_data EXCEPT !.closed = TRUE]
  /\ output' = [output EXCEPT !.pc = "gone", !.n = 0]
  /\ UNCHANGED input

-----------------------------------------------------------------------------
InputGoesOn == InputNext \/ InputEnds \/ SkipRound
OutputCall == OutputCommits \/ OutputNext \/ OutputDestroyed
ProtoStep == InputConsumes \/ InputDestroyed \/ InputGoesOn \/ InputBackUp \/ Skip \/ OutputCall
\* A call of the input stream goes on; the user of the output stream writes on and
\* comes to an end.
ProtoSpec == ProtoInit /\ [][ProtoStep]_protoVars /\ WF_protoVars(InputGoesOn) /\ WF_protoVars(OutputCall)

-----------------------------------------------------------------------------
\* What the input stream handed out and kept is what was written to the output
\* stream, from the first byte on, each byte once, and is gone from the StreamBuffer
\* or will be by the next call; each ByteCount is the number of bytes it stands at.
StreamsAgree ==
  /\ input.taken = [i \in 1 .. Len(input.taken) |-> i] /\ Len(input.taken) <= output.written
  /\ ring.consumed + input.n = Len(input.taken) /\ ring.committed + output.n = output.written
  /\ input.byteCount = Len(input.taken) /\ output.byteCount = output.written
InputWaits == input.pc \in {"fetch", "skip"}
InputReturned == input.pc \in {"idle", "ended"}
\* Next and Skip of the input stream return: it keeps nothing that the output
\* stream needs while it waits for it.
InputCallsReturn == InputWaits ~> InputReturned
=============================================================================
