---------------------------- MODULE StringBuffer ----------------------------
(***************************************************************************)
(* String buffers (stringbuffer.c): `buf' is the allocated array, whose    *)
(* first `pos' characters are the text.  Characters of new memory are GAP. *)
(* `meant' is the text that the calls so far should have built.            *)
(***************************************************************************)
EXTENDS Naturals, Sequences, SequencesExt

CONSTANTS MaxBuf,     \* MAX_BUF: room of a new buffer, and what growth adds
          Texts,      \* texts to append
          MaxText     \* bound: length of the text

Characters == UNION {Range(t) : t \in Texts}

ASSUME BufferAssumption ==
  MaxBuf \in Nat \ {0} /\ MaxText \in Nat /\ Texts \subseteq Seq(Characters)

VARIABLES buf, pos, meant

bufVars == <<buf, pos, meant>>
GAP == "?"
Fresh(n) == [i \in 1..n |-> GAP]

\* stringbuffer_new()
BufInit == buf = Fresh(MaxBuf) /\ pos = 0 /\ meant = <<>>

\* stringbuffer_ensure(): the array with room for len more characters.
stringbuffer_ensure(array, len) ==
  IF pos + len <= Len(array) THEN array
  ELSE array \o Fresh(pos + len + MaxBuf - Len(array))

\* memcpy() to the position; a copy past the end of the array is lost.
Copy(array, t) ==
  [i \in 1..Len(array) |-> IF i \in (pos + 1)..(pos + Len(t)) THEN t[i - pos] ELSE array[i]]

\* Mutant: no room is made for the terminator.
AppendWithoutEnd(t) ==
  /\ buf' = Copy(stringbuffer_ensure(buf, Len(t)), t)
  /\ pos' = pos + Len(t) /\ meant' = meant \o t

\* stringbuffer_append_string_len() and, with the text of another buffer,
\* stringbuffer_append_stringbuffer(); a character is a text of one.
stringbuffer_append_string_len(t) ==
  /\ buf' = Copy(stringbuffer_ensure(buf, Len(t) + 1), t)
  /\ pos' = pos + Len(t) /\ meant' = meant \o t

\* stringbuffer_append_printf(): a first attempt with MAX_BUF characters, and a
\* second with what vsnprintf() asked for.  vsnprintf() also writes the part that
\* fits, and the terminator.
stringbuffer_append_printf(t) ==
  LET attempt == stringbuffer_ensure(buf, MaxBuf)
  IN  /\ buf' = Copy(IF Len(t) < MaxBuf THEN attempt
                     ELSE stringbuffer_ensure(attempt, Len(t) + 1), t)
      /\ pos' = pos + Len(t) /\ meant' = meant \o t

\* stringbuffer_seek() as path_normalize() uses it: back to a slash of the text
\* that stringbuffer_rindex() found.
stringbuffer_rindex(c) ==
  LET hits == {i \in 1..pos : buf[i] = c}
  IN  IF hits = {} THEN 0 ELSE CHOOSE i \in hits : \A j \in hits : j <= i

SeekBack(c) ==
  /\ stringbuffer_rindex(c) # 0 /\ pos' = stringbuffer_rindex(c) - 1
  /\ meant' = SubSeq(meant, 1, pos') /\ UNCHANGED buf

\* stringbuffer_finish(): what the caller gets, up to the terminator at `pos',
\* which must be inside the array.
stringbuffer_finish == SubSeq([buf EXCEPT ![pos + 1] = "0"], 1, pos)

BufNext ==
  \/ \E t \in Texts : /\ Len(meant) + Len(t) <= MaxText
                      /\ stringbuffer_append_string_len(t) \/ stringbuffer_append_printf(t)
  \/ \E c \in Characters : SeekBack(c)

BufSpec == BufInit /\ [][BufNext]_bufVars

\* "The invariant pos < size always holds; this means there is always enough room
\* to attach a trailing NUL character." (stringbuffer.c:61), and what is finished is
\* the text that was appended, through growth, formatting in two attempts and
\* seeking back over a text that is then overwritten.
BufferHoldsText == pos < Len(buf) /\ stringbuffer_finish = meant
=============================================================================
