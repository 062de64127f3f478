-------------------------------- MODULE Text --------------------------------
(***************************************************************************)
(* The functions of PathText and StringText against what they promise, for *)
(* every text over a small alphabet: a text grows by one character at a    *)
(* time.  The characters are the ones the functions tell apart; `a' stands *)
(* for the rest.                                                           *)
(***************************************************************************)
EXTENDS PathText, FiniteSetsExt

CONSTANTS Alphabet, MaxLength   \* bound: length of a text

VARIABLE text

TextInit == text = <<>>
Grow == Len(text) < MaxLength /\ \E c \in Alphabet : text' = Append(text, c)

-----------------------------------------------------------------------------
(* What a path means                                                        *)

\* Its components, the empty ones included.
Components == LET ends == SetToSortSeq({i \in 1..Len(text) : text[i] = SLASH}, <)
                  cuts == <<0>> \o ends \o <<Len(text) + 1>>
              IN  [i \in 1..(Len(cuts) - 1) |-> SubSeq(text, cuts[i] + 1, cuts[i + 1] - 1)]

\* Where it leads from a directory: the names below that directory.  The parent of
\* the directory itself counts as the directory, as for the root.
Lead(path, c) ==
  CASE c \in {<<>>, Dot} -> path
    [] c = DotDot -> IF path = <<>> THEN <<>> ELSE Front(path)
    [] OTHER -> Append(path, c)
Destination(comps) == FoldLeft(Lead, <<>>, comps)

\* No prefix of it climbs above the directory.
StaysInside(comps) ==
  \A n \in 1..Len(comps) :
    LET part == SubSeq(comps, 1, n)
        ups == Cardinality({i \in 1..n : part[i] = DotDot})
        downs == Cardinality({i \in 1..n : part[i] \notin {<<>>, Dot, DotDot}})
    IN  ups <= downs

\* A path that passes path_is_safe_relative() cannot lead out of the directory it
\* is joined to, names something in it, and is its own normal form.
SafeMeansInside ==
  path_is_safe_relative(text) =>
    /\ text[1] # SLASH /\ StaysInside(Components) /\ ~string_contains(text, {":"})
    /\ Destination(Components) = Components

\* path_normalize() keeps the destination of paths that begin with / or ./ and
\* leaves no empty, . or .. component.  (A path that leads back to its beginning
\* becomes ".", and one that begins with a name gets a slash in front: see README.)
NormalizeKeepsDestination ==
  LET absolute == string_startswith(text, <<SLASH>>)
      dest == Destination(Components)
  IN  (absolute \/ string_startswith(text, <<DOT, SLASH>>)) /\ dest # <<>> =>
        path_normalize(text) = (IF absolute THEN <<SLASH>> ELSE <<DOT, SLASH>>)
                               \o string_join_array(<<SLASH>>, dest)

\* Directory and base name of a path, joined, lead where the path leads.
NamesJoin ==
  text # <<>> /\ Last(text) # SLASH /\ Components[1] # DotDot =>
    LET joined == path_join(path_dirname(text), path_basename(text))
    IN  Destination(string_split(joined, Len(joined), SLASH)) = Destination(Components)

\* A secret is accepted exactly if the file is one line that fits the buffer with
\* its terminator, whatever line ends follow, and is that line.
SecretIsFirstLine ==
  \A size \in 2..4 :
    LET file == [i \in 1..Len(text) |-> CASE text[i] = SLASH -> LF [] text[i] = DOT -> CR
                                          [] OTHER -> text[i]]
        r == path_read_secret(file, size)
        line == SubSeq(file, 1, First(file, 1, LAMBDA c : c = LF) - 1)
    IN  /\ r.error = "OK" => r.secret # <<>> /\ Len(r.secret) < size
                             /\ r.secret \in {line, Front(line)}
        /\ r.error = "TRAILING_DATA" => \E i \in 1..Len(file) : file[i] \notin {LF, CR}
        /\ r.error # "OK" => r.secret = <<>>
        /\ (line # <<>> /\ Last(line) # CR /\ Len(line) < size
              /\ \A i \in (Len(line) + 1)..Len(file) : file[i] \in {LF, CR})
             => r = [error |-> "OK", secret |-> line]

-----------------------------------------------------------------------------
(* What the helpers promise                                                 *)

FieldsJoin ==
  \A n \in 0..3 :
    LET f == string_split(text, n, SLASH)
        seps == Cardinality({i \in 1..Len(text) : text[i] = SLASH})
    IN  /\ Len(f) = IF text = <<>> THEN 0 ELSE Smaller(n, seps + 1)
        /\ f # <<>> => FoldLeft(LAMBDA x, y : x \o <<SLASH>> \o y, f[1], Tail(f)) = text

WordsAreComponents ==
  /\ WordsFrom(text, 1, SLASH, 256) = SelectSeq(Components, LAMBDA c : c # <<>>)
  /\ [i \in 1..Len(WordsFrom(text, 1, SLASH, 3)) |-> Len(WordsFrom(text, 1, SLASH, 3)[i])]
       = [i \in 1..Len(WordsFrom(text, 1, SLASH, 256)) |->
            Smaller(2, Len(WordsFrom(text, 1, SLASH, 256)[i]))]

TrimAndSqueeze ==
  LET t == string_whitespace_trim(text)
      q == string_whitespace_squeeze(text)
      NotSpace(c) == c # SPACE
  IN  /\ t # <<>> => Head(t) # SPACE /\ Last(t) # SPACE
      /\ \E i, j \in 0..Len(text) :
           text = [k \in 1..i |-> SPACE] \o t \o [k \in 1..j |-> SPACE]
      /\ SelectSeq(q, NotSpace) = SelectSeq(text, NotSpace)
      /\ \A i \in 1..(Len(q) - 1) : ~(q[i] = SPACE /\ q[i + 1] = SPACE)
      /\ WordsFrom(q, 1, SPACE, 256) = WordsFrom(text, 1, SPACE, 256)

\* "string_sub("hello world", 1, -1); --> "ello worl"" and so on: indices below
\* zero count from the end.  (With both below zero `start' counts from `end'.)
SubIsSlice ==
  \A start, end \in -3..3 :
    LET e == IF end <= 0 THEN Len(text) + end ELSE Smaller(end, Len(text))
        b == IF start < 0 THEN Max({0, Len(text) + start}) ELSE start
    IN  start >= 0 \/ end = 0 => string_sub(text, start, end) = SubSeq(text, b + 1, e)

SearchAgrees ==
  \A t \in {<<"a">>, <<SLASH, "a">>, <<"a", "a">>} :
    LET at == {i \in 1..Len(text) : i + Len(t) - 1 <= Len(text)
                                    /\ SubSeq(text, i, i + Len(t) - 1) = t}
    IN  /\ string_last(text, t) = IF at = {} THEN 0 ELSE Max(at)
        /\ string_startswith(text, t) <=> 1 \in at
        /\ string_replace_char(text, {t[1]}, DOT) = string_replace(text, <<t[1]>>, <<DOT>>, 100)
        /\ string_replace_char(text, Alphabet, t[1]) = string_repeat(<<t[1]>>, Len(text))
        /\ string_endswith(text, t) <=> (Len(text) - Len(t) + 1) \in at
        /\ \A size \in 1..4 :
             LET r == string_replace(text, t, <<DOT, "a">>, size)
             IN  /\ Len(r) < size
                 /\ IsPrefix(r, string_replace(text, t, <<DOT, "a">>, 100))

HexRoundTrip ==
  LET bytes == [i \in 1..Len(text) |-> CASE text[i] = SLASH -> 0 [] text[i] = DOT -> 10
                                         [] text[i] = "a" -> 255 [] OTHER -> 171]
  IN  \A sep \in BOOLEAN :
        /\ string_fromhex(string_tohex(bytes, 100, sep), 100) = bytes
        /\ \A size \in 1..8 :
             Len(string_tohex(bytes, size, sep)) < size

\* The strict decoder takes exactly what string_tohex() writes without separators.
StrictHex ==
  LET digits == [i \in 1..Len(text) |-> CASE text[i] = SLASH -> 0 [] text[i] = DOT -> 15
                                          [] text[i] = "a" -> 17 [] text[i] = SPACE -> 22
                                          [] OTHER -> COLON]
      pairs == Len(text) \div 2
      r == string_decode_hex_fixed(digits, Len(text), FALSE, pairs)
      small == [i \in 1..Len(text) |-> HexDigit(digits[i])]
  IN  /\ r.ok <=> Len(text) % 2 = 0 /\ \A i \in 1..Len(text) : digits[i] # COLON
      /\ r.ok => string_tohex(r.bytes, 100, FALSE) = small
      /\ string_is_hex_fixed(digits, Len(text), TRUE) <=> \A i \in 1..Len(text) : digits[i] < 16

\* Case changes letters only; a title has one large letter per run of letters.
CaseAgrees ==
  LET s == [i \in 1..Len(text) |-> IF text[i] = DOT THEN UPPER ELSE text[i]]
      t == string_title(s)
      Letter(x, i) == i \in 1..Len(x) /\ x[i] \in {UPPER, LOWER}
  IN  /\ \A r \in {t, string_capitalize(s), string_toupper(s)} :
           string_tolower(r) = string_tolower(s)
      /\ \A i \in 1..Len(s) : Letter(t, i) => (t[i] = UPPER <=> ~Letter(t, i - 1))
      /\ string_title(t) = t
      /\ \A i \in 1..Len(s) : string_capitalize(s)[i] = UPPER => i = 1

\* Words are skipped as they are read, to the left as to the right.
SkipAgrees ==
  LET n == Len(text)
      word == string_get_word(text, 1, SPACE, 256).word
  IN  /\ string_iswhite(text) <=> word = <<>>
      /\ string_whitespace_trim(SubSeq(text, 1, string_skip_word(text, 0, 1))) = word
      /\ n - string_skip_word(text, n, -1) = string_skip_word(Reverse(text), 0, 1)
      /\ text # <<>> =>
           (string_isdigit(text, "a", DOT)
              <=> ~string_contains_other(IF text[1] = DOT THEN Tail(text) ELSE text, {"a"}))

\* Every mark becomes one newline, and only marks do.
NewlinesAgree ==
  LET r == string_newline_to_literal(text, <<SLASH, "a">>, LF)
  IN  /\ r = string_replace(text, <<SLASH, "a">>, <<LF>>, 100)
      /\ FoldLeft(LAMBDA x, c : x \o (IF c = LF THEN <<SLASH, "a">> ELSE <<c>>), <<>>, r) = text

\* The text functions keep their promises: see the parts.
TextAgrees ==
  /\ SafeMeansInside /\ NormalizeKeepsDestination /\ NamesJoin /\ SecretIsFirstLine
  /\ FieldsJoin /\ WordsAreComponents /\ TrimAndSqueeze /\ SubIsSlice /\ SearchAgrees
  /\ HexRoundTrip /\ StrictHex /\ CaseAgrees /\ SkipAgrees /\ NewlinesAgree
=============================================================================
