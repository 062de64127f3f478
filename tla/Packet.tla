------------------------------- MODULE Packet -------------------------------
(***************************************************************************)
(* A program that fills a packet through the functions of packet.c: it     *)
(* writes fields, marks a place and rolls back to it, deletes, copies and  *)
(* limits, in any order, also after a function has failed.                 *)
(***************************************************************************)
EXTENDS PacketCodec

CONSTANTS Sizes,        \* sizes and steps that packets are created with
          Limits,       \* arguments of packet_writer_set_limit()
          Fields,       \* fields that the program writes: [type, value]
          MaxFields     \* bound on the fields of a packet

ASSUME PacketAssumption ==
  /\ Sizes \subseteq Nat /\ Limits \subseteq Nat /\ MaxFields \in Nat
  /\ \A f \in Fields : IF f.type \in DOMAIN Width THEN f.value \in Int
                       ELSE f.value \in Seq(0..(Radix - 1))

VARIABLES
  packet,
  mark,      \* the offset of a packet_writer_mark_t, or -1
  \* history: the fields that the packet should hold, and how many of them
  \* there were at the mark
  fields, marked

packetVars == <<packet, mark, fields, marked>>

PacketInit ==
  /\ \E size, expand \in Sizes : packet = packet_new(size, expand)
  /\ mark = -1 /\ fields = <<>> /\ marked = 0

Write(f) ==
  /\ Len(fields) < MaxFields
  /\ packet' = packet_write(packet, Encode(f))
  /\ fields' = IF packet'.error = NONE THEN Append(fields, f) ELSE fields
  /\ UNCHANGED <<mark, marked>>

\* A copy of the packet is appended to it.
packet_writer_write_packet ==
  /\ 2 * Len(fields) <= MaxFields
  /\ packet' = packet_write(packet, packet_dup(packet).data)
  /\ fields' = IF packet'.error = NONE THEN fields \o fields ELSE fields
  /\ UNCHANGED <<mark, marked>>

packet_writer_mark ==
  /\ mark' = Length(packet) /\ marked' = Len(fields)
  /\ UNCHANGED <<packet, fields>>

\* Mutant: the failure is rolled back with the bytes.
RollbackClears ==
  /\ mark # -1 /\ mark <= Length(packet)
  /\ packet' = [packet EXCEPT !.data = SubSeq(@, 1, mark), !.error = NONE]
  /\ fields' = SubSeq(fields, 1, marked)
  /\ UNCHANGED <<mark, marked>>

\* An error that happened since the mark stays.
packet_writer_rollback ==
  /\ mark # -1 /\ mark <= Length(packet)
  /\ packet' = [packet EXCEPT !.data = SubSeq(@, 1, mark)]
  /\ fields' = SubSeq(fields, 1, marked)
  /\ UNCHANGED <<mark, marked>>

SetLimit ==
  /\ \E limit \in Limits : packet' = packet_writer_set_limit(packet, limit)
  /\ UNCHANGED <<mark, fields, marked>>

\* The first field is deleted; a mark that is kept would be a mistake.
DeleteFirst ==
  /\ fields # <<>>
  /\ packet' = packet_delete(packet, 0, Len(Encode(Head(fields))))
  /\ fields' = Tail(fields) /\ mark' = -1 /\ marked' = 0

\* The program goes on with a copy.
Duplicate ==
  /\ packet' = packet_dup(packet)
  /\ fields' = IF packet.error = NONE THEN fields ELSE <<>>
  /\ mark' = -1 /\ marked' = 0

PacketNext ==
  \/ \E f \in Fields : Write(f)
  \/ packet_writer_write_packet \/ packet_writer_mark \/ packet_writer_rollback
  \/ SetLimit \/ DeleteFirst \/ Duplicate

PacketSpec == PacketInit /\ [][PacketNext]_packetVars

-----------------------------------------------------------------------------
(* Properties                                                               *)

\* Through growth, limits that change, marks, deletions and copies the bytes
\* stay within the buffer and within the limit: no function of packet.c
\* writes past the memory that packet_ensure() obtained.
WriterInBounds ==
  /\ Length(packet) <= packet.size
  /\ Length(packet) <= packet.limit

\* Whatever was refused, rolled back or deleted in between: a reader that
\* asks for the fields in order gets the values that were written, signs,
\* strings and all, and then finds that there is nothing more; and a reader
\* of the packet without its last byte fails, as does one that accepts only
\* smaller counts (the writing functions against the packet_reader_read
\* functions of packet.c).
ReadsBackWhatWasWritten ==
  LET Counts == {"uint8", "uint16", "uint32"}
      Got(r, f) == CASE f.type \in DOMAIN Width -> ReadInt(r, f.type)
                     [] f.type = "cstring" -> ReadString(r, PayloadMax)
                     [] OTHER -> Taken(r, Len(f.value))
      Past(r, f) == CASE f.type \in Counts -> packet_reader_check_count(r, f.type, f.value)
                      [] f.type \in DOMAIN Width \ Counts ->
                           packet_reader_take(r, Width[f.type])
                      [] f.type = "cstring" -> SkipString(r, PayloadMax)
                      [] OTHER -> packet_reader_take(r, Len(f.value))
      Scan(data) == FoldLeft(LAMBDA acc, f : [r |-> Past(acc.r, f),
                                              got |-> Append(acc.got, Got(acc.r, f))],
                             [r |-> packet_reader_init_at(data, 0), got |-> <<>>],
                             fields)
      Tight(r, f) == packet_reader_check_count(r, f.type, f.value - 1)
      whole == Scan(packet.data)
      cut == Scan(Front(packet.data))
  IN  /\ packet_reader_finish(whole.r).error = NONE
      /\ whole.got = [k \in DOMAIN fields |-> fields[k].value]
      /\ fields # <<>> /\ Head(fields).type \in Counts =>
           Tight(packet_reader_init_at(packet.data, 0), Head(fields)).error = "LIMIT_EXCEEDED"
      /\ packet.data # <<>> => cut.r.error = "TRUNCATED"

\* A failure is final, as "Sticky writer failure" in packet.h says: nothing
\* is appended to a packet that has failed, not even to what a rollback
\* leaves, so that packet_writer_finish() cannot approve of a gap.
FailureSticks ==
  [][packet.error # NONE =>
       packet'.error # NONE /\ Length(packet') <= Length(packet)]_packetVars

\* A field that fits in the limit is accepted, as packet.h says of the limit:
\* "Maximum payload size accepted by writer operations."  packet_ensure()
\* reports a size overflow only after it found that the field fits.
FittingFieldIsAccepted == packet.error # "SIZE_OVERFLOW"

\* A packet holds, within its memory and its limit, what was written to it and
\* what readers get out of it (the writers and readers of packet.c).
PacketIsSound == WriterInBounds /\ ReadsBackWhatWasWritten
=============================================================================
