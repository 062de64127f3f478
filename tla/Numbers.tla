------------------------------ MODULE Numbers ------------------------------
(***************************************************************************)
(* Algorithms of math.c, bresenham.h and socket.c as operators, against    *)
(* what they are to compute.  The list to sort grows by one key at a time; *)
(* the others are checked over small ranges.  Words are `Width' bits wide  *)
(* where the code's have 32 or 64.                                         *)
(***************************************************************************)
EXTENDS Integers, Sequences, SequencesExt, FiniteSetsExt, Functions

CONSTANTS Keys, MaxKeys,   \* bound: length of a list
          Width, MaxNumber \* bound: numbers to take roots of, lengths of lines

VARIABLE list   \* records, each a key and its place in the list given

NumbersInit == list = <<>>
GrowList ==
  Len(list) < MaxKeys /\ \E k \in Keys : list' = Append(list, <<k, Len(list)>>)

Abs(n) == IF n < 0 THEN -n ELSE n
Larger(a, b) == IF a > b THEN a ELSE b

-----------------------------------------------------------------------------
(* sort_linked_list(): a merge sort with four tapes                         *)

\* Records go to the front of tapes 0 and 1 in turn.
Distributed(s) ==
  [t \in 0..1 |-> Reverse(SelectSeq(s, LAMBDA r : r[2] % 2 = t))]

\* One block: n0 and n1 records may still come from the two input tapes.
RECURSIVE MergeBlock(_, _, _, _, _)
MergeBlock(in0, in1, n0, n1, out) ==
  LET from0 == n0 > 0 /\ in0 # <<>>
      from1 == n1 > 0 /\ in1 # <<>>
  IN  IF ~from0 /\ ~from1 THEN [in0 |-> in0, in1 |-> in1, out |-> out]
      ELSE IF ~from0 \/ (from1 /\ Head(in0)[1] > Head(in1)[1])
      THEN MergeBlock(in0, Tail(in1), n0, n1 - 1, Append(out, Head(in1)))
      ELSE MergeBlock(Tail(in0), in1, n0 - 1, n1, Append(out, Head(in0)))

\* One pass: blocks go to the two output tapes in turn, until tape 0 is empty.
RECURSIVE MergePass(_, _, _, _, _)
MergePass(in0, in1, size, out, dest) ==
  IF in0 = <<>> THEN out
  ELSE LET m == MergeBlock(in0, in1, size, size, out[dest])
       IN  MergePass(m.in0, m.in1, size, [out EXCEPT ![dest] = m.out], 1 - dest)

\* Passes with blocks of twice the size, until the second tape stays empty.
RECURSIVE Passes(_, _)
Passes(tape, size) ==
  IF tape[1] = <<>> THEN tape[0]
  ELSE Passes(MergePass(tape[0], tape[1], size, [t \in 0..1 |-> <<>>], 0), 2 * size)

sort_linked_list(s) == Passes(Distributed(s), 1)

ListIsSorted ==
  LET r == sort_linked_list(list)
  IN  /\ Len(r) = Len(list) /\ ToSet(r) = ToSet(list)
      /\ \A i \in 1..(Len(r) - 1) : r[i][1] <= r[i + 1][1]

-----------------------------------------------------------------------------
(* isqrt(), with `top' for 1 << 30                                          *)

RECURSIVE RootFrom(_, _, _)
RootFrom(op, res, one) ==
  IF one = 0 THEN res
  ELSE IF op >= res + one
  THEN RootFrom(op - res - one, (res + 2 * one) \div 2, one \div 4)
  ELSE RootFrom(op, res \div 2, one \div 4)

RECURSIVE FirstOne(_, _)
FirstOne(op, one) == IF one > op THEN FirstOne(op, one \div 4) ELSE one

isqrt(n, top) == RootFrom(n, 0, FirstOne(n, top))

\* Right as long as the root has no more bits than that of 4 * top.
RootsAreRight ==
  \A n \in 0..MaxNumber : 4 * 16 > n =>
    LET r == isqrt(n, 16) IN r * r <= n /\ n < (r + 1) * (r + 1)

-----------------------------------------------------------------------------
(* rng_range() and rng_chance(): rejection sampling                         *)

\* (-span) % span with unsigned words
Threshold(span) == ((2^Width - span) % 2^Width) % span

rng_range(min, max, value) == min + (value % (max - min + 1))
rng_chance(n, value) == value % n = 0

\* Every result comes from the same number of raw values that are not rejected.
RangesAreUniform ==
  \A min, span \in 1..(2^Width - 1) :
    LET raw == Threshold(span)..(2^Width - 1)
        max == min + span - 1
        Hits(x) == Cardinality({v \in raw : rng_range(min, max, v) = x})
    IN  /\ \A x \in min..max : Hits(x) * span = Cardinality(raw) /\ Hits(x) > 0
        /\ Cardinality({v \in raw : rng_chance(span, v)}) * span = Cardinality(raw)

-----------------------------------------------------------------------------
(* BRESENHAM_INIT and BRESENHAM_STEP                                        *)

Sign(n) == IF n < 0 THEN -1 ELSE 1

BresenhamInit(dx, dy) ==
  LET dx2 == 2 * Abs(dx)
      dy2 == 2 * Abs(dy)
  IN  [x |-> 0, y |-> 0, dx2 |-> dx2, dy2 |-> dy2, stepx |-> Sign(dx), stepy |-> Sign(dy),
       fraction |-> IF dx2 > dy2 THEN dy2 - Abs(dx) ELSE dx2 - Abs(dy)]

BresenhamStep(b) ==
  LET over == b.fraction >= 0
      less == IF over THEN 1 ELSE 0
  IN  IF b.dx2 > b.dy2
      THEN [b EXCEPT !.x = @ + b.stepx, !.y = @ + less * b.stepy,
                     !.fraction = @ - less * b.dx2 + b.dy2]
      ELSE [b EXCEPT !.x = @ + less * b.stepx, !.y = @ + b.stepy,
                     !.fraction = @ - less * b.dy2 + b.dx2]

RECURSIVE Line(_, _, _)
Line(dx, dy, n) == IF n = 0 THEN BresenhamInit(dx, dy) ELSE BresenhamStep(Line(dx, dy, n - 1))

\* A line ends at its end after as many steps as its longer side has, and no point
\* is more than half a step away from the true line.
LinesAreStraight ==
  \A dx, dy \in (-MaxNumber \div 10)..(MaxNumber \div 10) :
    LET steps == Larger(Abs(dx), Abs(dy))
    IN  /\ Line(dx, dy, steps).x = dx /\ Line(dx, dy, steps).y = dy
        /\ \A n \in 0..steps :
             2 * Abs(Line(dx, dy, n).y * dx - Line(dx, dy, n).x * dy) <= steps

-----------------------------------------------------------------------------
(* socket_addr_cmp(): addresses are words, masks are shifted words.         *)

\* Word i (from 0) of the mask for a prefix; a shift by a whole word, which C leaves
\* undefined, may give anything.
Ones == 2^Width - 1
Shifted(n) == (Ones * 2^n) % 2^Width
MaskWord(plen, i) ==
  IF plen <= i * Width /\ i > 0 THEN 0
  ELSE IF plen > (i + 1) * Width THEN Ones ELSE Shifted((i + 1) * Width - plen)

\* a & mask, for a mask of leading ones
Masked(a, mask) == a - (a % (2^Width - mask))
socket_addr_cmp(a, b, plen) ==
  \A i \in 0..(Len(a) - 1) : Masked(a[i + 1], MaskWord(plen, i)) = Masked(b[i + 1], MaskWord(plen, i))

\* socket_cmp_addr(): a peer with an IPv4-mapped address (`Prefix', then one word) is
\* compared with an IPv4 subnet as if that were mapped, too.
Prefix == <<0, 0, Ones>>
socket_cmp_addr(peer, addr, plen) ==
  IF Len(peer) = 4 /\ Len(addr) = 1
  THEN /\ Front(peer) = Prefix
       /\ socket_addr_cmp(peer, Front(peer) \o addr, 3 * Width + plen)
  ELSE Len(peer) = Len(addr) /\ socket_addr_cmp(peer, addr, plen)

\* Addresses match a subnet exactly if their first bits are the same (a prefix of
\* length 0 is left out, except for mapped addresses: see README).
Bit(a, k) == (a[(k \div Width) + 1] \div 2^(Width - 1 - (k % Width))) % 2
PrefixesMatch ==
  LET Same(a, b, plen) == \A k \in 0..(plen - 1) : Bit(a, k) = Bit(b, k)
  IN  /\ \A a, b \in [1..2 -> {0, 1, 5, 6, 7}], plen \in 1..(2 * Width) :
           socket_addr_cmp(a, b, plen) <=> Same(a, b, plen)
      /\ \A a, b \in 0..Ones, plen \in 0..Width :
           /\ socket_cmp_addr(Append(Prefix, a), <<b>>, plen) <=> Same(<<a>>, <<b>>, plen)
           /\ ~socket_cmp_addr(<<1, 0, Ones, a>>, <<b>>, plen)

-----------------------------------------------------------------------------
\* The algorithms compute what they promise: see the parts.
NumbersAgree ==
  /\ ListIsSorted
  /\ list = <<>> => RootsAreRight /\ RangesAreUniform /\ LinesAreStraight /\ PrefixesMatch
=============================================================================
