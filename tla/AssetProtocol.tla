---------------------------- MODULE AssetProtocol ----------------------------
(***************************************************************************)
(* Requests and responses of the asset protocol (socket_asset.c): what the *)
(* append functions write into an empty packet and what the parse          *)
(* functions make of any bytes.  A step composes one message.              *)
(***************************************************************************)
EXTENDS Integers, Sequences, SequencesExt

CONSTANTS PathSize,     \* MAX_BUF, the size of socket_asset_request_t.path
          DigestSize,   \* ASSET_DIGEST_SIZE
          MaxSize,      \* ASSET_MAX_SIZE
          Paths, AssetSizes, Digests, Flags, Statuses

P == INSTANCE PacketCodec WITH Radix <- 256, PayloadMax <- 65534

EmptyDigest == [i \in 1..DigestSize |-> 0]

VARIABLE message   \* [type, and the fields of its kind]

-----------------------------------------------------------------------------
socket_asset_request_append(m) ==
  Append(m.path, 0) \o P!EncodeInt(4, m.size) \o m.digest \o P!EncodeInt(1, m.flags)

socket_asset_response_append_status(m) ==
  P!EncodeInt(1, m.status) \o P!EncodeInt(4, m.size) \o m.digest

AssetBytes(m) == IF m.type = "request" THEN socket_asset_request_append(m)
                 ELSE socket_asset_response_append_status(m)

\* Metadata requests have nothing in the cache, and there are no other flags.
RequestIsSound(m) ==
  /\ m.path # <<>> /\ m.flags \in {0, 1}
  /\ m.flags = 1 => m.size = 0 /\ m.digest = EmptyDigest

\* 0 OK, 1 NOT_FOUND, 2 NOT_MODIFIED, 3 METADATA, 4 METADATA_NOT_FOUND
ResponseIsSound(m) ==
  /\ m.status <= 4 /\ m.size <= MaxSize
  /\ m.status \in {1, 4} => m.size = 0 /\ m.digest = EmptyDigest

\* A parse function returns the set of messages that it accepts the bytes as:
\* one message or none.
socket_asset_request_parse(data) ==
  LET r0 == P!packet_reader_init_at(data, 0)
      r1 == P!SkipStringBounded(r0, PathSize, PathSize - 1)
      r2 == P!packet_reader_take(r1, 4)
      r3 == P!packet_reader_take(r2, DigestSize)
      r4 == P!packet_reader_finish(P!packet_reader_take(r3, 1))
      m == [type |-> "request", path |-> P!ReadString(r0, PathSize - 1),
            size |-> P!ReadInt(r1, "uint32"),
            digest |-> P!Taken(r2, DigestSize), flags |-> P!ReadInt(r3, "uint8")]
  IN  IF r4.error = "NONE" /\ RequestIsSound(m) THEN {m} ELSE {}

socket_asset_response_parse(data) ==
  LET r0 == P!packet_reader_init_at(data, 0)
      r1 == P!packet_reader_take(r0, 1)
      r2 == P!packet_reader_take(r1, 4)
      r3 == P!packet_reader_finish(P!packet_reader_take(r2, DigestSize))
      m == [type |-> "response", status |-> P!ReadInt(r0, "uint8"),
            size |-> P!ReadInt(r1, "uint32"), digest |-> P!Taken(r2, DigestSize)]
  IN  IF r3.error = "NONE" /\ ResponseIsSound(m) THEN {m} ELSE {}

AssetParse(m, data) == IF m.type = "request" THEN socket_asset_request_parse(data)
                       ELSE socket_asset_response_parse(data)

-----------------------------------------------------------------------------
AssetInit == message = [type |-> "none"]

AssetNext ==
  /\ message.type = "none"
  /\ \/ \E path \in Paths, size \in AssetSizes, digest \in Digests, flags \in Flags :
          message' = [type |-> "request", path |-> path, size |-> size,
                      digest |-> digest, flags |-> flags]
     \/ \E status \in Statuses, size \in AssetSizes, digest \in Digests :
          message' = [type |-> "response", status |-> status, size |-> size,
                      digest |-> digest]

\* What one side appends the other parses to the very same message, if its
\* parts agree with each other and its path fits, and refuses otherwise; and
\* no message is the beginning of another: cut anywhere, or with a further
\* byte, it is refused.
AssetsAgree ==
  message.type # "none" =>
    LET bytes == AssetBytes(message)
        sound == IF message.type = "request"
                 THEN RequestIsSound(message) /\ Len(message.path) < PathSize
                 ELSE ResponseIsSound(message)
    IN  /\ AssetParse(message, bytes) = IF sound THEN {message} ELSE {}
        /\ sound => /\ \A n \in 0..(Len(bytes) - 1) :
                         AssetParse(message, SubSeq(bytes, 1, n)) = {}
                    /\ AssetParse(message, Append(bytes, 0)) = {}
=============================================================================
