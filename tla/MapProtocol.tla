----------------------------- MODULE MapProtocol -----------------------------
(***************************************************************************)
(* map_protocol_validate() of map_protocol.c: a client looks at a whole    *)
(* MAP command, level by level and cell by cell, before it changes         *)
(* anything.  A sender composes a command step by step; Encode gives its   *)
(* bytes, as the server would send them, and map_protocol_validate judges  *)
(* bytes.                                                                  *)
(*                                                                         *)
(* The validator is a chain of readers, each of which is the one before it *)
(* after one more item; a condition that does not hold fails the reader,   *)
(* as the code returns false at once.  Numbers are those of socket.h.      *)
(***************************************************************************)
EXTENDS Integers, Sequences, SequencesExt

CONSTANTS WidthLimit, HeightLimit,   \* arguments of the validator
          Headers,                   \* headers a sender may write
          Depths, Cells,             \* of levels, and cells of a level
          MaxLevels, MaxCells        \* bounds on a command

P == INSTANCE PacketCodec WITH Radix <- 256, PayloadMax <- 65534

SubLayers == 7                       \* MAP2_PROTOCOL_SUB_LAYERS
RealLayers == 49                     \* MAP2_PROTOCOL_REAL_LAYERS
MaxDepth == 6                        \* MAP2_MAX_DEPTH
Has(flags, bit) == (flags \div bit) % 2 = 1

VARIABLE command   \* [header, levels]; a level is [depth, cells]

-----------------------------------------------------------------------------
(* The validator                                                            *)

Require(r, condition) ==
  IF condition THEN r ELSE P!packet_reader_fail(r, "INVALID_ENCODING")
Skip(r, n) == P!packet_reader_take(r, n)
SkipIf(r, condition, n) == IF condition THEN Skip(r, n) ELSE r
Uint8(r) == P!ReadInt(r, "uint8")
Int8(r) == P!ReadInt(r, "int8")
\* A byte that must satisfy a bound, and a string of any content.
Bounded(r, max) == Require(Skip(r, 1), Uint8(r) <= max)
Text(r) == P!SkipString(r, 65534)
Texts(r, n) == FoldLeft(LAMBDA acc, i : Text(acc), r, [i \in 1..n |-> i])

\* The same if a flag is set.
BoundedIf(r, condition, max) == IF condition THEN Bounded(r, max) ELSE r
TextsIf(r, condition, n) == IF condition THEN Texts(r, n) ELSE r

\* The second word of flags of an object; bits 5, 6, 8 and 9 have no data.
More(r, flags2) ==
  LET r0 == Require(Skip(r, 4), flags2 < 1024)
      r1 == SkipIf(r0, Has(flags2, 1), 1)
      r2 == SkipIf(r1, Has(flags2, 2), 2)
      r3 == SkipIf(r2, Has(flags2, 4), 4)
      r4 == BoundedIf(SkipIf(r3, Has(flags2, 8), 4), Has(flags2, 8), 1)
      r5 == BoundedIf(r4, Has(flags2, 16), 100)
  IN  SkipIf(TextsIf(r5, Has(flags2, 128), 1), Has(flags2, 128), 1)
MoreIf(r, condition) == IF condition THEN More(r, P!ReadInt(r, "uint32")) ELSE r

AnimationIf(r, condition) ==
  LET q == Skip(r, 2)
  IN  IF condition THEN SkipIf(Bounded(q, 15), Has(Uint8(q), 1), 1) ELSE r

\* The object of a layer, whose fourth byte is `flags'.
Object(r, flags) ==
  LET r1 == SkipIf(Skip(r, 4), Has(flags, 1), 1)
      r2 == TextsIf(r1, Has(flags, 2), 2)
      r3 == AnimationIf(r2, Has(flags, 4))
      r4 == SkipIf(r3, Has(flags, 8), 2)
      r5 == SkipIf(r4, Has(flags, 32), 2)
  IN  MoreIf(r5, Has(flags, 128))

\* One layer of a cell; `acc' is [r, seen], and no layer comes twice.
\* MAP2_LAYER_CLEAR is followed by the layer that it clears.
Layer(acc) ==
  LET clear == Uint8(acc.r) = 255
      at == SkipIf(acc.r, clear, 1)
      layer == Uint8(at)
      r == Require(Skip(at, 1), layer < RealLayers /\ layer \notin acc.seen)
  IN  [r |-> IF clear THEN r ELSE Object(r, Uint8(Skip(r, 3))), seen |-> acc.seen \cup {layer}]

\* Mutant: a sub-layer may come twice.
EffectRepeats(acc) ==
  LET r == Require(Skip(acc.r, 2), /\ Uint8(acc.r) < SubLayers
                                   /\ Uint8(Skip(acc.r, 1)) \in {1, 2})
  IN  [r |-> Skip(r, 2), seen |-> acc.seen]

Effect(acc) ==
  LET sub == Uint8(acc.r)
      type == Uint8(Skip(acc.r, 1))
      r == Require(Skip(acc.r, 2), /\ sub < SubLayers /\ sub \notin acc.seen
                                   /\ type \in {1, 2})
  IN  [r |-> Skip(r, 2), seen |-> acc.seen \cup {sub}]

\* A counted list; nothing is read any more once the reader has failed.
Repeat(Op(_), r, max) ==
  LET n == Uint8(r)
      r0 == Bounded(r, max)
  IN  IF r0.error # "NONE" THEN r0
      ELSE FoldLeft(LAMBDA acc, i : Op(acc), [r |-> r0, seen |-> {}],
                    [i \in 1..n |-> i]).r

Effects(r) ==
  IF Uint8(r) = 1 THEN Repeat(Effect, Bounded(r, 1), SubLayers) ELSE Bounded(r, 1)

\* A cell, which begins with its mask.
Cell(r, mask) ==
  LET values == mask % 64
      r0 == Require(Skip(r, 2), /\ mask \div 2048 < WidthLimit
                                /\ (mask \div 64) % 32 < HeightLimit)
      r1 == SkipIf(r0, Has(values, 1), 2)
      r2 == BoundedIf(r1, Has(values, 32), 1)
      r3 == SkipIf(r2, Has(values, 4), 1)
      r4 == SkipIf(r3, Has(values, 8), SubLayers - 1)
  IN  IF Has(values, 2) THEN Require(r0, values \in {2, 18})
      ELSE IF Has(values, 16) THEN Require(r0, FALSE)
      ELSE Effects(Repeat(Layer, r4, RealLayers))

RECURSIVE socket_command_map_validate_level(_)
socket_command_map_validate_level(r) ==
  IF r.error # "NONE" \/ r.pos >= Len(r.data) THEN r
  ELSE socket_command_map_validate_level(Cell(r, P!ReadInt(r, "uint16")))

\* One level, framed by its size; `acc' is [r, seen] as before.
Level(acc) ==
  LET depth == Int8(acc.r)
      size == P!ReadInt(Skip(acc.r, 1), "uint32")
      r == Require(Skip(acc.r, 5), /\ depth \in -MaxDepth..MaxDepth
                                   /\ depth \notin acc.seen)
      within == socket_command_map_validate_level(
                  P!packet_reader_init_at(P!Taken(r, size), 0))
  IN  [r |-> Require(Skip(r, size), within.error = "NONE"),
       seen |-> acc.seen \cup {depth}]

\* The map that is new, or next to the old one and in which direction.
Place(r, stat) ==
  LET width == Uint8(r)
      height == Uint8(Skip(r, 1))
      zoff == Int8(Skip(r, 3))
  IN  IF stat = 1
      THEN [r |-> Require(Skip(r, 2), width # 0 /\ height # 0),
            width |-> width, height |-> height]
      ELSE [r |-> Require(Skip(r, 4), /\ width \in 1..10
                                      /\ zoff = CASE width = 9 -> 1
                                                  [] width = 10 -> -1
                                                  [] OTHER -> 0),
            width |-> 0, height |-> 0]

\* The first byte, which tells whether there is a place.
Start(r) ==
  LET q == Bounded(r, 2)
  IN  IF Uint8(r) = 0 THEN [r |-> q, width |-> 0, height |-> 0]
      ELSE Place(Texts(Bounded(Bounded(Texts(q, 3), 1), 1), 3), Uint8(r))

\* The player's position and sub-layer.
Position(place) ==
  Require(Bounded(Skip(place.r, 2), SubLayers - 1),
          place.width # 0 => /\ Uint8(place.r) < place.width
                             /\ Uint8(Skip(place.r, 1)) < place.height)

Levels(r) ==
  LET n == Uint8(r)
      One(acc, i) == IF acc.r.error # "NONE" THEN acc ELSE Level(acc)
  IN  FoldLeft(One, [r |-> Require(Skip(r, 1), n \in 1..(2 * MaxDepth + 1)), seen |-> {}],
               [i \in 1..n |-> i])

IsComplete(acc) == P!packet_reader_finish(acc.r).error = "NONE" /\ 0 \in acc.seen

map_protocol_validate(data) ==
  IsComplete(Levels(Position(Start(P!packet_reader_init_at(data, 0)))))

-----------------------------------------------------------------------------
(* The sender.  A header is [stat, place (its bytes), x, y, sub, ok]; a     *)
(* cell is [x, y, values, body (its bytes), layers, effects], where layers  *)
(* and effects are what the body names, with repetition.                    *)

EncodeCell(c) == P!EncodeInt(2, c.x * 2048 + c.y * 64 + c.values) \o c.body

EncodeLevel(l) ==
  LET cells == FlattenSeq([i \in DOMAIN l.cells |-> EncodeCell(l.cells[i])])
  IN  P!EncodeInt(1, l.depth) \o P!EncodeInt(4, Len(cells)) \o cells

EncodeCommand(c) ==
  <<c.header.stat>> \o c.header.place
    \o <<c.header.x, c.header.y, c.header.sub, Len(c.levels)>>
    \o FlattenSeq([i \in DOMAIN c.levels |-> EncodeLevel(c.levels[i])])

MapInit == \E h \in Headers : command = [header |-> h, levels |-> <<>>]

MapNext ==
  \/ /\ Len(command.levels) < MaxLevels
     /\ \E d \in Depths : command' =
          [command EXCEPT !.levels = Append(@, [depth |-> d, cells |-> <<>>])]
  \/ /\ command.levels # <<>> /\ Len(Last(command.levels).cells) < MaxCells
     /\ \E c \in Cells : command' =
          [command EXCEPT !.levels[Len(command.levels)].cells = Append(@, c)]

-----------------------------------------------------------------------------
NoRepetition(s) == \A i, j \in DOMAIN s : s[i] = s[j] => i = j

\* The rules of the command, said about its parts.
IsSound(c) ==
  /\ c.header.ok /\ c.header.sub < SubLayers
  /\ \E i \in DOMAIN c.levels : c.levels[i].depth = 0
  /\ NoRepetition([i \in DOMAIN c.levels |-> c.levels[i].depth])
  /\ \A i \in DOMAIN c.levels :
       /\ c.levels[i].depth \in -MaxDepth..MaxDepth
       /\ \A j \in DOMAIN c.levels[i].cells :
            LET cell == c.levels[i].cells[j] IN
              /\ cell.ok /\ cell.x < WidthLimit /\ cell.y < HeightLimit
              /\ NoRepetition(cell.layers) /\ NoRepetition(cell.effects)

\* The validator accepts exactly the commands that keep the rules: each layer
\* once, each depth once, the ground level present, cells on the map; and it
\* accepts none that is cut, whose last level then claims bytes that are not
\* there, or that has bytes left.
OnlySoundCommandsPass ==
  LET bytes == EncodeCommand(command)
      cut == {SubSeq(bytes, 1, n) : n \in 0..(Len(bytes) - 1)}
  IN  \A b \in {bytes} \cup (IF IsSound(command) THEN cut \cup {Append(bytes, 0)} ELSE {}) :
        map_protocol_validate(b) <=> b = bytes /\ IsSound(command)
=============================================================================
