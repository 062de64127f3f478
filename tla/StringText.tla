----------------------------- MODULE StringText -----------------------------
(***************************************************************************)
(* The text helpers of string.c on which paths, options, headers and the   *)
(* console rest, as operators on sequences of characters.  Positions count *)
(* from 1; where a C function returns a pointer into its argument, the     *)
(* operator returns the position, and 0 for NULL.                          *)
(***************************************************************************)
EXTENDS Integers, Sequences, SequencesExt

SPACE == " "
Smaller(a, b) == IF a < b THEN a ELSE b
From(s, i) == SubSeq(s, i, Len(s))

\* First position from i on whose character satisfies the test, or the end.
First(s, i, Test(_)) ==
  LET hits == {j \in i..Len(s) : Test(s[j])}
  IN  IF hits = {} THEN Len(s) + 1 ELSE CHOOSE j \in hits : \A k \in hits : j <= k

\* string_get_word() without a surrounding character: delimiters are skipped, the
\* word is cut to the room there is, delimiters are skipped again.
string_get_word(s, pos, delim, wordsize) ==
  LET begin == First(s, pos, LAMBDA c : c # delim)
      stop == First(s, begin, LAMBDA c : c = delim)
  IN  [word |-> SubSeq(s, begin, Smaller(stop - 1, begin + wordsize - 2)),
       pos |-> First(s, stop, LAMBDA c : c # delim)]

RECURSIVE WordsFrom(_, _, _, _)
WordsFrom(s, pos, delim, wordsize) ==
  LET r == string_get_word(s, pos, delim, wordsize)
  IN  IF r.word = <<>> THEN <<>> ELSE <<r.word>> \o WordsFrom(s, r.pos, delim, wordsize)

\* string_split(): at most n fields, the last of which takes the rest.
RECURSIVE SplitFrom(_, _, _)
SplitFrom(s, n, sep) ==
  LET stop == First(s, 1, LAMBDA c : c = sep)
  IN  IF n = 1 \/ stop > Len(s) THEN <<s>>
      ELSE <<SubSeq(s, 1, stop - 1)>> \o SplitFrom(From(s, stop + 1), n - 1, sep)

string_split(s, n, sep) == IF s = <<>> \/ n = 0 THEN <<>> ELSE SplitFrom(s, n, sep)

\* string_whitespace_trim(): first the end, then the beginning.
RECURSIVE TrimEnd(_), TrimBegin(_)
TrimEnd(s) == IF s # <<>> /\ Last(s) = SPACE THEN TrimEnd(Front(s)) ELSE s
TrimBegin(s) == IF s # <<>> /\ Head(s) = SPACE THEN TrimBegin(Tail(s)) ELSE s
string_whitespace_trim(s) == TrimBegin(TrimEnd(s))

string_whitespace_squeeze(s) ==
  FoldLeft(LAMBDA w, c : IF c = SPACE /\ w # <<>> /\ Last(w) = SPACE THEN w ELSE Append(w, c),
           <<>>, s)

\* string_sub(): start and end count from 0.
string_sub(s, start, end) ==
  LET e1 == IF end <= 0 THEN Len(s) + end ELSE end
      e == IF end <= 0 /\ e1 < 0 THEN 0 ELSE e1
      b1 == IF start < 0 THEN e + start ELSE start
      b == IF b1 < 0 THEN 0 ELSE b1
  IN  IF b > e \/ b >= Len(s) THEN <<>>
      ELSE SubSeq(s, b + 1, b + Smaller(Len(s) - b, e - b))

string_startswith(s, t) == s # <<>> /\ t # <<>> /\ SubSeq(s, 1, Smaller(Len(s), Len(t))) = t

string_endswith(s, t) ==
  s # <<>> /\ t # <<>>
  /\ From(s, IF Len(s) > Len(t) THEN Len(s) - Len(t) + 1 ELSE 1) = t

\* string_last(): tries from the right; 0 if there is no occurrence.
RECURSIVE LastFrom(_, _, _)
LastFrom(s, t, i) ==
  IF i = 0 \/ SubSeq(s, i, i + Len(t) - 1) = t THEN i ELSE LastFrom(s, t, i - 1)
string_last(s, t) == IF t = <<>> \/ Len(t) > Len(s) THEN 0 ELSE LastFrom(s, t, Len(s) - Len(t) + 1)

\* string_replace() into a buffer of `size' characters, terminator included.
RECURSIVE ReplaceFrom(_, _, _, _, _)
ReplaceFrom(s, key, replacement, result, size) ==
  IF s = <<>> \/ Len(result) + 1 >= size THEN result
  ELSE IF SubSeq(s, 1, Smaller(Len(s), Len(key))) = key
  THEN ReplaceFrom(From(s, Len(key) + 1), key, replacement,
                   result \o SubSeq(replacement, 1,
                              Smaller(Len(replacement), size - Len(result) - 1)), size)
  ELSE ReplaceFrom(Tail(s), key, replacement, Append(result, Head(s)), size)

string_replace(s, key, replacement, size) ==
  IF key = replacement THEN SubSeq(s, 1, Smaller(Len(s), size - 1))
  ELSE ReplaceFrom(s, key, replacement, <<>>, size)

string_replace_char(s, key, replacement) ==
  [i \in 1..Len(s) |-> IF s[i] \in key THEN replacement ELSE s[i]]

string_contains(s, key) == \E i \in 1..Len(s) : s[i] \in key
string_contains_other(s, key) == \E i \in 1..Len(s) : s[i] \notin key

\* string_join_array(): a delimiter goes before a text if something is there yet.
string_join_array(delim, array) ==
  FoldLeft(LAMBDA sb, t : IF sb = <<>> THEN t ELSE sb \o delim \o t, <<>>, array)

string_repeat(s, num) == FoldLeft(LAMBDA r, i : r \o s, <<>>, [i \in 1..num |-> i])

\* string_tohex(): digits are numbers, COLON the separator, which the last byte
\* does without; it stops where the next byte does not fit.
COLON == 16
RECURSIVE HexFrom(_, _, _, _, _)
HexFrom(bytes, i, result, size, sep) ==
  LET with == sep /\ i < Len(bytes)
      need == IF with THEN 3 ELSE 2
  IN  IF i > Len(bytes) \/ Len(result) + need > size - 1 THEN result
      ELSE HexFrom(bytes, i + 1,
                   result \o <<bytes[i] \div 16, bytes[i] % 16>>
                          \o (IF with THEN <<COLON>> ELSE <<>>), size, sep)
string_tohex(bytes, size, sep) == HexFrom(bytes, 1, <<>>, size, sep)

\* string_fromhex(): pairs of digits, anything else is passed over.
string_fromhex(s, size) ==
  LET step(a, c) ==
        IF c = COLON \/ Len(a.out) = size THEN a
        ELSE IF a.half = -1 THEN [a EXCEPT !.half = c]
        ELSE [out |-> Append(a.out, 16 * a.half + c), half |-> -1]
  IN  FoldLeft(step, [out |-> <<>>, half |-> -1], s).out

-----------------------------------------------------------------------------
(* Tests and changes of case; a and A stand for the letters.                *)

UPPER == "A"
LOWER == "a"
toupper(c) == IF c = LOWER THEN UPPER ELSE c
tolower(c) == IF c = UPPER THEN LOWER ELSE c
string_toupper(s) == [i \in 1..Len(s) |-> toupper(s[i])]
string_tolower(s) == [i \in 1..Len(s) |-> tolower(s[i])]

string_capitalize(s) == IF s = <<>> THEN s ELSE <<toupper(Head(s))>> \o string_tolower(Tail(s))

\* string_title(): a letter after a letter becomes small, another one large.
string_title(s) ==
  FoldLeft(LAMBDA w, c : Append(w, IF w # <<>> /\ Last(w) \in {UPPER, LOWER}
                                   THEN tolower(c) ELSE toupper(c)), <<>>, s)

string_iswhite(s) == \A i \in 1..Len(s) : s[i] = SPACE

\* string_isdigit(): a sign may come first; neither it nor digits are required.
string_isdigit(s, digit, minus) ==
  \A i \in 1..Len(s) : s[i] = digit \/ (i = 1 /\ s[i] = minus)

\* string_skip_word() to the right (dir = 1) or to the left (dir = -1) of the
\* position, which counts from 0.
RECURSIVE SkipFrom(_, _, _, _)
SkipFrom(s, i, dir, whitespace) ==
  LET c == s[i + (IF dir = 1 THEN 1 ELSE 0)]
  IN  IF (dir = 1 /\ i = Len(s)) \/ (dir = -1 /\ i = 0) \/ (c = SPACE /\ ~whitespace) THEN i
      ELSE SkipFrom(s, i + dir, dir, whitespace /\ c = SPACE)
string_skip_word(s, i, dir) == SkipFrom(s, i, dir, TRUE)

\* string_newline_to_literal(): `mark' is the pair of characters.
RECURSIVE string_newline_to_literal(_, _, _)
string_newline_to_literal(s, mark, newline) ==
  LET at == {i \in 1..(Len(s) - 1) : SubSeq(s, i, i + 1) = mark}
      i == CHOOSE j \in at : \A k \in at : j <= k
  IN  IF at = {} THEN s
      ELSE string_newline_to_literal(Append(SubSeq(s, 1, i - 1), newline) \o From(s, i + 2),
                                     mark, newline)

\* string_is_hex_fixed() and string_decode_hex_fixed(): digits are numbers below 16,
\* the large letters follow.
string_is_hex_fixed(s, length, lowercase_only) ==
  Len(s) = length
  /\ \A i \in 1..length : s[i] < 16 \/ (~lowercase_only /\ s[i] \in 17..22)
HexDigit(c) == IF c < 16 THEN c ELSE c - 7
string_decode_hex_fixed(s, length, lowercase_only, size) ==
  IF length % 2 # 0 \/ 2 * size # length \/ ~string_is_hex_fixed(s, length, lowercase_only)
  THEN [ok |-> FALSE]
  ELSE [ok |-> TRUE,
        bytes |-> [i \in 1..size |-> 16 * HexDigit(s[2 * i - 1]) + HexDigit(s[2 * i])]]
=============================================================================
