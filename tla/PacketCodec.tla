----------------------------- MODULE PacketCodec -----------------------------
(***************************************************************************)
(* What the functions of packet.c compute: a writer appends encoded fields *)
(* to a buffer that grows up to a limit, a reader is a bounded cursor over *)
(* bytes it does not trust, and both remember their first failure.  The    *)
(* codecs of the protocol are built from these operators.                  *)
(*                                                                         *)
(* A byte has `Radix' values, 256 in the code; fields keep their width in  *)
(* bytes, so that all sizes and positions are those of the code.  Memory   *)
(* does not run out (xmalloc() and xrealloc() end the program), and        *)
(* SIZE_MAX is never reached.                                              *)
(***************************************************************************)
EXTENDS Integers, Sequences, SequencesExt

CONSTANTS Radix,
          PayloadMax    \* PACKET_PAYLOAD_MAX

ASSUME CodecAssumption == Radix \in Nat \ {0, 1} /\ PayloadMax \in Nat

NONE == "NONE"

-----------------------------------------------------------------------------
(* Conversions                                                              *)

\* The fixed-width types: their width in bytes, and whether they are signed.
\* float and double travel as the bits of uint32 and uint64.
Width == [uint8 |-> 1, int8 |-> 1, uint16 |-> 2, int16 |-> 2, uint32 |-> 4,
          int32 |-> 4, uint64 |-> 8, int64 |-> 8]
IsSigned(t) == t \in {"int8", "int16", "int32", "int64"}

\* Network order: most significant byte first; a negative number as its
\* two's complement.
EncodeInt(w, v) == [i \in 1..w |-> (v \div Radix^(w - i)) % Radix]

DecodeUnsigned(bytes) ==
  FoldLeft(LAMBDA acc, b : acc * Radix + b, 0, bytes)

\* The unsigned value copied into a signed object of the same size.
AsSigned(w, v) == IF 2 * v >= Radix^w THEN v - Radix^w ELSE v

\* A string ends with a zero byte, a block of bytes with nothing.
Encode(f) ==
  CASE f.type \in DOMAIN Width -> EncodeInt(Width[f.type], f.value)
    [] f.type = "cstring" -> Append(f.value, 0)
    [] OTHER -> f.value

-----------------------------------------------------------------------------
(* The writer: a packet_struct [data, size, expand, limit, error]           *)

packet_new(size, expand) ==
  [data |-> <<>>, size |-> size, expand |-> expand, limit |-> PayloadMax,
   error |-> NONE]

Greater(a, b) == IF a > b THEN a ELSE b
Lesser(a, b) == IF a < b THEN a ELSE b

Length(p) == Len(p.data)

\* By how much the buffer grows for n more bytes.
Growth(p, n) ==
  LET wanted == Greater(p.expand, n)
  IN  IF p.size > p.limit \/ wanted > p.limit - p.size
      THEN p.limit - Lesser(p.size, p.limit) ELSE wanted

\* Mutant: the bytes that are already used are forgotten.
FitsEmpty(p, n) == n <= p.size

Fits(p, n) == Length(p) <= p.size /\ n <= p.size - Length(p)

packet_ensure(p, n) ==
  IF p.error # NONE THEN p
  ELSE IF Length(p) > p.limit \/ n > p.limit - Length(p)
       THEN [p EXCEPT !.error = "LIMIT_EXCEEDED"]
  ELSE IF Fits(p, n) THEN p
  ELSE IF Growth(p, n) < n THEN [p EXCEPT !.error = "SIZE_OVERFLOW"]
  ELSE [p EXCEPT !.size = @ + Growth(p, n)]

\* All functions that write do so: everything or nothing.  Zero bytes are
\* written without a look at the limit.
packet_write(p, bytes) ==
  LET q == packet_ensure(p, Len(bytes))
  IN  IF bytes = <<>> THEN p
      ELSE IF q.error # NONE THEN q ELSE [q EXCEPT !.data = @ \o bytes]

packet_writer_set_limit(p, limit) ==
  IF Length(p) > limit THEN [p EXCEPT !.error = "LIMIT_EXCEEDED"]
  ELSE [p EXCEPT !.limit = limit]

\* pos is an offset: bytes pos + 1 to pos + len go.
packet_delete(p, pos, len) ==
  IF pos > Length(p) \/ len > Length(p) - pos THEN p
  ELSE [p EXCEPT !.data = SubSeq(p.data, 1, pos)
                            \o SubSeq(p.data, pos + len + 1, Len(p.data))]

\* The copy has the error of the original before its bytes are written.
packet_dup(p) ==
  packet_write([packet_new(p.size, p.expand)
                  EXCEPT !.limit = p.limit, !.error = p.error], p.data)

-----------------------------------------------------------------------------
(* The reader: a packet_reader_t [data, pos, error]                         *)

packet_reader_fail(r, e) == IF r.error = NONE THEN [r EXCEPT !.error = e] ELSE r

packet_reader_init_at(data, pos) ==
  IF pos > Len(data) THEN [data |-> data, pos |-> 0, error |-> "INVALID_ENCODING"]
  ELSE [data |-> data, pos |-> pos, error |-> NONE]

packet_reader_remaining(r) == Len(r.data) - r.pos

\* The reader after n bytes, and those bytes, which are empty on failure.
packet_reader_take(r, n) ==
  IF r.error = NONE /\ n > packet_reader_remaining(r)
  THEN packet_reader_fail(r, "TRUNCATED")
  ELSE IF r.error # NONE THEN r ELSE [r EXCEPT !.pos = @ + n]
Taken(r, n) ==
  IF r.error # NONE \/ n > packet_reader_remaining(r) THEN <<>>
  ELSE SubSeq(r.data, r.pos + 1, r.pos + n)

\* A number is 0 if it cannot be read.
ReadInt(r, t) ==
  LET v == DecodeUnsigned(Taken(r, Width[t]))
  IN  IF IsSigned(t) THEN AsSigned(Width[t], v) ELSE v

\* packet_reader_read_string_view(): the zero byte must be among the next
\* maxlen + 1 bytes; it is read but does not belong to the string.
StringEnds(r, maxlen) ==
  {n \in 0..Lesser(packet_reader_remaining(r) - 1, maxlen) :
     r.data[r.pos + 1 + n] = 0}
StringLen(r, maxlen) ==
  LET ends == StringEnds(r, maxlen) IN CHOOSE n \in ends : \A m \in ends : n <= m
SkipString(r, maxlen) ==
  IF r.error # NONE THEN r
  ELSE IF packet_reader_remaining(r) = 0 THEN packet_reader_fail(r, "TRUNCATED")
  ELSE IF StringEnds(r, maxlen) = {}
       THEN packet_reader_fail(r, IF packet_reader_remaining(r) > maxlen
                                  THEN "LIMIT_EXCEEDED" ELSE "TRUNCATED")
  ELSE [r EXCEPT !.pos = @ + StringLen(r, maxlen) + 1]
ReadString(r, maxlen) ==
  IF r.error # NONE \/ packet_reader_remaining(r) = 0 \/ StringEnds(r, maxlen) = {}
  THEN <<>> ELSE SubSeq(r.data, r.pos + 1, r.pos + StringLen(r, maxlen))

\* packet_reader_read_string_bounded() reads the string before it finds that
\* the caller's buffer is too small for it.
SkipStringBounded(r, destsize, maxlen) ==
  LET q == SkipString(r, maxlen)
  IN  IF q.error = NONE /\ Len(ReadString(r, maxlen)) >= destsize
      THEN packet_reader_fail(q, "LIMIT_EXCEEDED") ELSE q

\* packet_reader_read_count8() and its siblings.
packet_reader_check_count(r, t, maximum) ==
  LET q == packet_reader_take(r, Width[t])
  IN  IF q.error = NONE /\ ReadInt(r, t) > maximum
      THEN packet_reader_fail(q, "LIMIT_EXCEEDED") ELSE q

packet_reader_finish(r) ==
  IF r.error = NONE /\ r.pos # Len(r.data)
  THEN packet_reader_fail(r, "TRAILING_DATA") ELSE r
=============================================================================
