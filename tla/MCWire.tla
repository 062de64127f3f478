------------------------------- MODULE MCWire -------------------------------
(***************************************************************************)
(* What goes over the wire: writing and reading packets, scopes of         *)
(* readers, asset messages and MAP commands.  They share the functions of  *)
(* packet.c and no state, so a behaviour exercises one of them.            *)
(***************************************************************************)
EXTENDS Packet, PacketScope, TLC

CONSTANTS PathSize, DigestSize, MaxSize, AssetSizes, Flags,
          Statuses, WidthLimit, HeightLimit, MaxLevels, MaxCells

VARIABLES part, message, command

vars == <<part, packetVars, scopeVars, message, command>>

-----------------------------------------------------------------------------
(* Values of constants                                                      *)

Field(t, v) == [type |-> t, value |-> v]
MCFields ==
  {Field("uint8", 0), Field("int8", -2), Field("uint16", Radix),
   Field("int32", -2), Field("uint64", Radix^7), Field("cstring", <<>>),
   Field("cstring", <<1, 1>>), Field("bytes", <<0, 1, 0>>)}

MCBlockLen == [whole |-> 2, part |-> 1]

MCPaths == {<<>>, <<1>>, <<1, 2>>, <<1, 2, 3>>}
MCDigests == {[i \in 1..DigestSize |-> 0], [i \in 1..DigestSize |-> i - 1]}

Header(stat, place, x, y, sub, ok) ==
  [stat |-> stat, place |-> place, x |-> x, y |-> y, sub |-> sub, ok |-> ok]
\* Three strings, two flags and three more strings.
Names(diff, map) == <<0, 65, 0, 0, diff, map, 0, 0, 66, 0>>
MCHeaders ==
  {Header(0, <<>>, 200, 0, 6, TRUE), Header(0, <<>>, 0, 0, 7, FALSE),
   Header(3, <<>>, 0, 0, 0, FALSE),
   Header(1, Names(0, 1) \o <<2, 1>>, 1, 0, 0, TRUE),
   Header(1, Names(0, 1) \o <<2, 1>>, 1, 1, 0, FALSE),
   Header(1, Names(2, 0) \o <<2, 2>>, 1, 1, 0, FALSE),
   Header(2, Names(1, 0) \o <<9, 0, 0, 1>>, 0, 0, 0, TRUE),
   Header(2, Names(1, 0) \o <<10, 0, 0, 255>>, 0, 0, 0, TRUE),
   Header(2, Names(0, 0) \o <<9, 0, 0, 255>>, 0, 0, 0, FALSE),
   Header(2, Names(0, 0) \o <<11, 0, 0, 0>>, 0, 0, 0, FALSE)}

MapCell(x, values, body, layers, effects, ok) ==
  [x |-> x, y |-> 0, values |-> values, body |-> body, layers |-> layers,
   effects |-> effects, ok |-> ok]
\* An object with all parts that flags can announce, its probe being given.
FullObject(probe) ==
  <<0, 0, 0, 175>> \o <<1>> \o <<0, 67, 0>> \o <<0, 0, 1, 7>> \o <<0, 0>>
    \o <<0, 0>> \o <<0, 0, 0, 159>> \o <<9>> \o <<0, 0>> \o <<0, 0, 0, 0>>
    \o <<0, 0, 0, 0, 1>> \o <<probe>> \o <<68, 0, 3>>
MCCells ==
  {MapCell(0, 2, <<>>, <<>>, <<>>, TRUE),
   MapCell(1, 18, <<>>, <<>>, <<>>, TRUE),
   MapCell(WidthLimit, 2, <<>>, <<>>, <<>>, TRUE),
   MapCell(0, 16, <<>>, <<>>, <<>>, FALSE),
   MapCell(0, 45, <<0, 0, 1, 5, 1, 2, 3, 4, 5, 6, 0, 0>>, <<>>, <<>>, TRUE),
   MapCell(0, 32, <<2, 0, 0>>, <<>>, <<>>, FALSE),
   MapCell(0, 0, <<1, 48>> \o FullObject(100) \o <<0>>, <<48>>, <<>>, TRUE),
   MapCell(0, 0, <<1, 4>> \o FullObject(101) \o <<0>>, <<4>>, <<>>, FALSE),
   MapCell(0, 0, <<2, 3, 0, 0, 0, 0, 255, 3, 0>>, <<3, 3>>, <<>>, TRUE),
   MapCell(0, 0, <<2, 255, 4, 255, 3, 0>>, <<4, 3>>, <<>>, TRUE),
   MapCell(0, 0, <<0, 1, 2, 0, 1, 0, 0, 6, 2, 0, 0>>, <<>>, <<0, 6>>, TRUE),
   MapCell(0, 0, <<0, 1, 2, 5, 1, 0, 0, 5, 2, 0, 0>>, <<>>, <<5, 5>>, TRUE)}

-----------------------------------------------------------------------------
A == INSTANCE AssetProtocol WITH Paths <- MCPaths, Digests <- MCDigests
M == INSTANCE MapProtocol WITH Headers <- MCHeaders, Cells <- MCCells,
                              Depths <- {-6, 0, 7}

Init ==
  /\ part \in {"packet", "scope", "asset", "map"}
  /\ IF part = "packet" THEN PacketInit
     ELSE packet = packet_new(0, 0) /\ mark = -1 /\ fields = <<>> /\ marked = 0
  /\ ScopeInit /\ A!AssetInit
  /\ IF part = "map" THEN M!MapInit
     ELSE command = [header |-> Header(0, <<>>, 0, 0, 0, TRUE), levels |-> <<>>]

Next ==
  /\ UNCHANGED part
  /\ \/ /\ part = "packet" /\ PacketNext
        /\ UNCHANGED <<scopeVars, message, command>>
     \/ /\ part = "scope" /\ ScopeNext
        /\ UNCHANGED <<packetVars, message, command>>
     \/ /\ part = "asset" /\ A!AssetNext
        /\ UNCHANGED <<packetVars, scopeVars, command>>
     \/ /\ part = "map" /\ M!MapNext
        /\ UNCHANGED <<packetVars, scopeVars, message>>

Spec == Init /\ [][Next]_vars

\* Asset messages are parsed to what was appended, and no message is the
\* beginning of another (socket_asset.c); map_protocol_validate() accepts exactly
\* the commands that keep the rules, and none that is cut or continued.
CodecsAgree ==
  A!AssetsAgree /\ (part = "map" => M!OnlySoundCommandsPass)

ReaderSymmetry == Permutations(Reader)
=============================================================================
