------------------------------ MODULE PathText ------------------------------
(***************************************************************************)
(* The functions of path.c that work on the text of a path, and the        *)
(* parsing of a secret file.  A path is a sequence of characters.          *)
(***************************************************************************)
EXTENDS StringText

SLASH == "/"
DOT == "."
Dot == <<DOT>>
DotDot == <<DOT, DOT>>

\* strrchr(path, '/'), 0 if there is none.
LastSlash(p) == LastFrom(p, <<SLASH>>, Len(p))

path_join(p, q) ==
  p \o (IF p # <<>> /\ Last(p) # SLASH THEN <<SLASH>> ELSE <<>>) \o q

\* The last position at or before i that is no slash, but at least 1.
RECURSIVE BackOver(_, _)
BackOver(p, i) == IF i > 1 /\ p[i] = SLASH THEN BackOver(p, i - 1) ELSE i

path_dirname(p) ==
  IF LastSlash(p) = 0 THEN Dot ELSE SubSeq(p, 1, BackOver(p, LastSlash(p)))

\* path_basename() of a path that does not end in a slash; it loops for ever on
\* one that does.
path_basename(p) == From(p, LastSlash(p) + 1)

\* path_normalize(): the buffer after one more component.
NormalizeStep(start, sb, component) ==
  CASE component = Dot -> sb
    [] component = DotDot ->
         IF Len(sb) > start /\ LastSlash(sb) # 0 THEN SubSeq(sb, 1, LastSlash(sb) - 1)
         ELSE sb
    [] OTHER ->
         (IF sb = <<>> \/ Last(sb) # SLASH THEN Append(sb, SLASH) ELSE sb) \o component

path_normalize(p) ==
  LET prefix == IF string_startswith(p, <<SLASH>>) THEN <<SLASH>>
                ELSE IF string_startswith(p, <<DOT, SLASH>>) THEN <<DOT, SLASH>> ELSE <<>>
      sb == FoldLeft(LAMBDA b, c : NormalizeStep(Len(prefix), b, c), prefix,
                     WordsFrom(p, 1, SLASH, 256))
  IN  IF p = <<>> \/ sb = <<>> THEN Dot ELSE sb

\* path_is_safe_relative(): the scan of the components, each of which ends at a
\* slash or at the end of the path.
RECURSIVE SafeFrom(_, _, _)

\* Mutant: the last component is not looked at.
SafeTrailing(p, component, cp) ==
  LET name == SubSeq(p, component, cp - 1)
  IN  IF cp <= Len(p) /\ p[cp] \in {"\\", ":"} THEN FALSE
      ELSE IF cp <= Len(p) /\ p[cp] # SLASH THEN SafeFrom(p, component, cp + 1)
      ELSE cp > Len(p) \/ (name \notin {<<>>, Dot, DotDot} /\ SafeFrom(p, cp + 1, cp + 1))

SafeFrom(p, component, cp) ==
  LET name == SubSeq(p, component, cp - 1)
  IN  IF cp <= Len(p) /\ p[cp] \in {"\\", ":"} THEN FALSE
      ELSE IF cp <= Len(p) /\ p[cp] # SLASH THEN SafeFrom(p, component, cp + 1)
      ELSE /\ name \notin {<<>>, Dot, DotDot}
           /\ cp > Len(p) \/ SafeFrom(p, cp + 1, cp + 1)

path_is_safe_relative(p) ==
  /\ p # <<>> /\ p[1] \notin {SLASH, "\\"} /\ SafeFrom(p, 1, 1)

\* path_read_secret(): the outcome for a regular file with the given contents and
\* a buffer of `size' bytes.
LF == "n"
CR == "r"
path_read_secret(contents, size) ==
  LET read == SubSeq(contents, 1, Smaller(Len(contents), size))
      newline == First(read, 1, LAMBDA c : c = LF)
      used == IF newline > 1 /\ newline <= Len(read) /\ read[newline - 1] = CR
              THEN newline - 2 ELSE newline - 1
      Result(error, secret) ==
        [error |-> IF error = "OK" /\ secret = <<>> THEN "EMPTY" ELSE error,
         secret |-> IF error = "OK" THEN secret ELSE <<>>]
  IN  IF newline <= Len(read)
      THEN Result(IF \E i \in (newline + 1)..Len(contents) : contents[i] \notin {LF, CR}
                  THEN "TRAILING_DATA" ELSE "OK",
                  SubSeq(read, 1, used))
      ELSE Result(IF Len(read) = size THEN "TOO_LONG" ELSE "OK", read)
=============================================================================
