-------------------------- MODULE QuicStreamsProofs --------------------------
(***************************************************************************)
(* The server's streams for any number of streams, any size of the preface *)
(* and any limit on the pending ones.  A stream is handed out by its       *)
(* `kind', while StreamsAreTyped speaks of the kind that the peer opened   *)
(* it with, so the invariant relates the two (KindInv); and a pending      *)
(* stream is looked at through positions of a list that shrinks under the  *)
(* loop, so the list is unravelled once, in Unlinked.                      *)
(***************************************************************************)
EXTENDS QuicStreams, TLAPS

\* What was read of a preface agrees with what the client wrote, and a call that
\* takes a stream has an argument.
KindInv ==
  /\ broken \in SUBSET Stream /\ cgame \in Stream \cup {NONE}
  /\ \A s \in Stream : kind[s] \in {NONE, opened[s]}
  /\ pc # "idle" => want # NONE
  /\ at \in Nat \ {0}

IInv == TypeOK /\ KindInv /\ StreamsAreSound

\* A stream that is unlinked leaves a list of the others, each once.
LEMMA Unlinked ==
  ASSUME NEW q \in Seq(Stream), NEW i \in 1..Len(q), IsInjective(q)
  PROVE  /\ RemoveAt(q, i) \in Seq(Stream) /\ Len(RemoveAt(q, i)) = Len(q) - 1
         /\ IsInjective(RemoveAt(q, i))
         /\ Range(RemoveAt(q, i)) = Range(q) \ {q[i]}
  <1> DEFINE r == RemoveAt(q, i)
             x == SubSeq(q, 1, i - 1)
             y == SubSeq(q, i + 1, Len(q))
  <1>1. x \in Seq(Stream) /\ Len(x) = i - 1 /\ \A k \in 1..(i - 1) : x[k] = q[k]
    OBVIOUS
  <1>2. /\ y \in Seq(Stream) /\ Len(y) = Len(q) - i
        /\ \A k \in 1..(Len(q) - i) : y[k] = q[i + k]
    OBVIOUS
  <1>0. r = x \o y BY DEF RemoveAt
  <1> HIDE DEF r, x, y
  <1>3. r \in Seq(Stream) /\ Len(r) = Len(q) - 1
    BY <1>0, <1>1, <1>2
  <1>4. \A k \in 1..Len(r) : r[k] = IF k < i THEN q[k] ELSE q[k + 1]
    <2> TAKE k \in 1..Len(r)
    <2>1. CASE k < i BY <1>0, <1>1, <1>2, <2>1
    <2>2. CASE k >= i
      <3>1. r[k] = y[k - (i - 1)] /\ k - (i - 1) \in 1..(Len(q) - i)
        BY <1>0, <1>1, <1>2, <1>3, <2>2
      <3>2. i + (k - (i - 1)) = k + 1 BY <1>3
      <3> QED BY <1>2, <2>2, <3>1, <3>2
    <2> QED BY <1>3, <2>1, <2>2
  <1>5. DOMAIN r = 1..Len(r) /\ DOMAIN q = 1..Len(q) BY <1>3
  <1>6. \A a, b \in 1..Len(q) : q[a] = q[b] => a = b BY <1>5 DEF IsInjective
  <1>7. \A k \in 1..Len(r) : \E m \in 1..Len(q) :
          m # i /\ r[k] = q[m] /\ m = IF k < i THEN k ELSE k + 1
    BY <1>3, <1>4
  <1>8. \A m \in 1..Len(q) : m # i => \E k \in 1..Len(r) : r[k] = q[m]
    <2> SUFFICES ASSUME NEW m \in 1..Len(q), m # i
                 PROVE  \E k \in 1..Len(r) : r[k] = q[m]
      OBVIOUS
    <2>1. CASE m < i BY <1>3, <1>4, <2>1
    <2>2. CASE m > i
      <3>1. m - 1 \in 1..Len(r) /\ r[m - 1] = q[m] BY <1>3, <1>4, <2>2
      <3> QED BY <3>1
    <2> QED BY <2>1, <2>2
  <1>9. IsInjective(r)
    <2>1. \A a, b \in 1..Len(r) : r[a] = r[b] => a = b BY <1>3, <1>6, <1>7
    <2> QED BY <1>5, <2>1 DEF IsInjective
  <1>10. Range(r) = Range(q) \ {q[i]}
    <2>1. \A v : v \in Range(r) <=> \E k \in 1..Len(r) : r[k] = v BY <1>5 DEF Range
    <2>2. \A v : v \in Range(q) <=> \E k \in 1..Len(q) : q[k] = v BY <1>5 DEF Range
    <2>3. ASSUME NEW v \in Range(r) PROVE v \in Range(q) /\ v # q[i]
      BY <1>6, <1>7, <2>1, <2>2
    <2>4. ASSUME NEW v \in Range(q), v # q[i] PROVE v \in Range(r)
      BY <1>8, <2>1, <2>2, <2>4
    <2> QED BY <2>3, <2>4
  <1> QED BY <1>3, <1>9, <1>10 DEF r

\* A stream that comes in first leaves a list with the others behind it.
LEMMA Linked ==
  ASSUME NEW q \in Seq(Stream), NEW s \in Stream \ Range(q), IsInjective(q)
  PROVE  /\ <<s>> \o q \in Seq(Stream) /\ Len(<<s>> \o q) = Len(q) + 1
         /\ IsInjective(<<s>> \o q) /\ Range(<<s>> \o q) = Range(q) \cup {s}
  <1> DEFINE r == <<s>> \o q
  <1>1. /\ r \in Seq(Stream) /\ Len(r) = Len(q) + 1 /\ r[1] = s
        /\ \A k \in 1..Len(q) : r[k + 1] = q[k]
    OBVIOUS
  <1> HIDE DEF r
  <1>2. DOMAIN r = 1..Len(r) /\ DOMAIN q = 1..Len(q) BY <1>1
  <1>3. \A k \in 1..Len(r) : k = 1 \/ (k - 1 \in 1..Len(q) /\ r[k] = q[k - 1])
    BY <1>1
  <1>4. \A k \in 1..Len(q) : q[k] # s /\ k + 1 \in 1..Len(r)
    BY <1>1, <1>2 DEF Range
  <1>5. IsInjective(r)
    <2>1. \A a, b \in 1..Len(q) : q[a] = q[b] => a = b BY <1>2 DEF IsInjective
    <2>2. ASSUME NEW a \in 1..Len(r), NEW b \in 1..Len(r), r[a] = r[b]
          PROVE  a = b
      <3>1. CASE a = 1 \/ b = 1 BY <1>1, <1>3, <1>4, <2>2, <3>1
      <3>2. CASE a # 1 /\ b # 1
        <4>1. a - 1 = b - 1 BY <1>3, <2>1, <2>2, <3>2
        <4> QED BY <1>1, <4>1
      <3> QED BY <3>1, <3>2
    <2> QED BY <1>2, <2>2 DEF IsInjective
  <1>6. Range(r) = Range(q) \cup {s}
    <2>1. \A v : v \in Range(r) <=> \E k \in 1..Len(r) : r[k] = v BY <1>2 DEF Range
    <2>2. \A v : v \in Range(q) <=> \E k \in 1..Len(q) : q[k] = v BY <1>2 DEF Range
    <2>3. ASSUME NEW v \in Range(r) PROVE v \in Range(q) \cup {s}
      BY <1>1, <1>3, <2>1, <2>2
    <2>4. ASSUME NEW v \in Range(q) \cup {s} PROVE v \in Range(r)
      <3>1. 1 \in 1..Len(r) BY <1>1
      <3> QED BY <1>1, <1>4, <2>1, <2>2, <3>1
    <2> QED BY <2>3, <2>4
  <1> QED BY <1>1, <1>5, <1>6 DEF r

\* What socket_stream_preface_read() finds is a position in the preface, and a
\* kind only at its end.
LEMMA Reading ==
  ASSUME TypeOK, KindInv, NEW s \in Stream
  PROVE  /\ ReadPosition(s) \in 0..Size
         /\ ReadKind(s) \in {NONE, opened[s]}
         /\ ReadKind(s) \in {NONE, "GAME", "ASSET"}
         /\ ReadPosition(s) # Size => ReadKind(s) = NONE
  BY StreamsAssumption DEF TypeOK, KindInv, ReadPosition, ReadKind

\* The steps that change no stream of the server.
Aside ==
  /\ UNCHANGED <<pending, count, kind, preface_pos, game, assets, gone>>
  /\ \A s \in Stream : opened[s] # NONE => opened'[s] = opened[s]

\* What the client does changes no stream of the server: a stream is opened
\* once, so that the kind it was opened with stays.
LEMMA ClientSteps ==
  ASSUME IInv, NEW s \in Stream,
         \/ ClientPrepare(s) \/ socket_stream_preface_write(s) \/ ClientResets(s)
         \/ \E k \in {"GAME", "ASSET", "BAD"} : ClientOpens(s, k)
  PROVE  TypeOK' /\ KindInv' /\ Aside
  <1> USE StreamsAssumption DEF IInv, TypeOK, KindInv, Aside, clientVars, listVars,
          fieldVars
  <1>1. ASSUME NEW k \in {"GAME", "ASSET", "BAD"}, socket_stream_open(s, k)
        PROVE  /\ opened' \in [Stream -> {NONE, "GAME", "ASSET", "BAD"}]
               /\ \A t \in Stream : opened[t] # NONE => opened'[t] = opened[t]
               /\ \A t \in Stream : kind[t] \in {NONE, opened'[t]}
    BY <1>1 DEF socket_stream_open
  <1>2. CASE ClientPrepare(s)
    <2>1. socket_stream_open(s, "GAME") BY <1>2 DEF ClientPrepare
    <2> QED BY <1>1, <1>2, <2>1 DEF ClientPrepare
  <1>3. ASSUME NEW k \in {"GAME", "ASSET", "BAD"}, ClientOpens(s, k)
        PROVE  TypeOK' /\ KindInv' /\ Aside
    <2>1. socket_stream_open(s, k) BY <1>3 DEF ClientOpens
    <2> QED BY <1>1, <1>3, <2>1 DEF ClientOpens
  <1>4. CASE socket_stream_preface_write(s)
    <2>1. PICK n \in 1..(Size - written[s]) : written' = [written EXCEPT ![s] = @ + n]
      BY <1>4 DEF socket_stream_preface_write
    <2>2. written[s] + n \in 0..Size BY <2>1
    <2>3. written' \in [Stream -> 0..Size] BY <2>1, <2>2
    <2> QED BY <1>4, <2>3 DEF socket_stream_preface_write
  <1>5. CASE ClientResets(s) BY <1>5 DEF ClientResets
  <1> QED BY <1>2, <1>3, <1>4, <1>5

\* Steps of the server that look and change no stream.
LEMMA IdleSteps ==
  ASSUME IInv,
         \/ ServerPrepare \/ ServerAsks \/ PollEnds \/ AcceptEnds \/ NothingFits
         \/ (\E s \in Stream : Expire(s)) \/ Over \/ UNCHANGED vars
  PROVE  TypeOK' /\ KindInv' /\ Aside
  <1> USE StreamsAssumption DEF IInv, TypeOK, KindInv, Aside, clientVars, listVars,
          fieldVars
  <1>1. CASE ServerPrepare BY <1>1 DEF ServerPrepare
  <1>2. CASE ServerAsks BY <1>2 DEF ServerAsks
  <1>3. CASE PollEnds BY <1>3 DEF PollEnds
  <1>4. CASE AcceptEnds BY <1>4 DEF AcceptEnds
  <1>5. CASE NothingFits BY <1>5 DEF NothingFits
  <1>6. CASE \E s \in Stream : Expire(s) BY <1>6 DEF Expire
  <1>7. CASE Over \/ UNCHANGED vars BY <1>7 DEF Over, vars
  <1> QED BY <1>1, <1>2, <1>3, <1>4, <1>5, <1>6, <1>7

\* Such steps keep the streams in order.
LEMMA AsideStep ==
  ASSUME IInv, Aside
  PROVE  StreamsAreSound'
  <1>1. OneOwner' BY DEF IInv, StreamsAreSound, OneOwner, Aside
  <1>2. StreamsAreTyped'
    BY StreamsAssumption DEF IInv, StreamsAreSound, StreamsAreTyped, Aside, TypeOK
  <1>3. PendingIsKnown' BY DEF IInv, StreamsAreSound, PendingIsKnown, Aside
  <1> QED BY <1>1, <1>2, <1>3 DEF StreamsAreSound

\* A pending stream is read from, and rejected if it is of no use.
LEMMA PollStep ==
  ASSUME IInv, PollStream
  PROVE  IInv'
  <1> DEFINE s == pending[at]
  <1> USE StreamsAssumption DEF IInv, TypeOK, KindInv
  <1>1. at \in 1..Len(pending) /\ s \in Stream /\ s \in Range(pending)
    BY DEF PollStream, Range
  <1>2. /\ ReadPosition(s) \in 0..Size /\ ReadKind(s) \in {NONE, opened[s]}
        /\ ReadKind(s) \in {NONE, "GAME", "ASSET"}
        /\ ReadPosition(s) # Size => ReadKind(s) = NONE
    BY <1>1, Reading
  <1>3. /\ IF Unread(s)
           THEN /\ preface_pos' = [preface_pos EXCEPT ![s] = ReadPosition(s)]
                /\ kind' = [kind EXCEPT ![s] = ReadKind(s)]
           ELSE UNCHANGED <<preface_pos, kind>>
        /\ expired' \in SUBSET Stream
        /\ UNCHANGED <<clientVars, pc, want, game, assets, closed>>
    BY DEF PollStream, fieldVars
  <1>4. /\ Rejects(s) => /\ pending' = RemoveAt(pending, at) /\ count' = count - 1
                         /\ gone' = gone \cup {s} /\ at' = at
        /\ ~Rejects(s) => at' = at + 1 /\ UNCHANGED <<pending, count, gone>>
    BY DEF PollStream, listVars
  <1>5. IsInjective(pending) /\ count = Len(pending) BY DEF StreamsAreSound, OneOwner
  <1>6. /\ pending' \in Seq(Stream) /\ IsInjective(pending') /\ count' = Len(pending')
        /\ Len(pending') <= Len(pending)
        /\ Range(pending') = IF Rejects(s) THEN Range(pending) \ {s} ELSE Range(pending)
    <2>1. CASE Rejects(s)
      <3>1. pending \in Seq(Stream) OBVIOUS
      <3>2. /\ RemoveAt(pending, at) \in Seq(Stream)
            /\ Len(RemoveAt(pending, at)) = Len(pending) - 1
            /\ IsInjective(RemoveAt(pending, at))
            /\ Range(RemoveAt(pending, at)) = Range(pending) \ {s}
        BY ONLY <1>1, <1>5, <3>1, Unlinked, Zenon
      <3> QED BY <1>4, <1>5, <2>1, <3>1, <3>2
    <2>2. CASE ~Rejects(s) BY <1>4, <1>5, <2>2
    <2> QED BY <2>1, <2>2
  <1>7. \A t \in Stream : t # s => kind'[t] = kind[t] /\ preface_pos'[t] = preface_pos[t]
    BY <1>3
  <1>8. s \notin assets \cup gone \cup {game} BY <1>1 DEF StreamsAreSound, OneOwner
  <1>9. TypeOK' /\ KindInv'
    <2> HIDE DEF s
    <2>1. kind' \in [Stream -> {NONE, "GAME", "ASSET"}]
          /\ preface_pos' \in [Stream -> 0..Size]
      <3>1. CASE Unread(s)
        <4>1. /\ kind' = [kind EXCEPT ![s] = ReadKind(s)] /\ ReadKind(s) \in {NONE, "GAME", "ASSET"}
              /\ kind \in [Stream -> {NONE, "GAME", "ASSET"}]
          BY <1>2, <1>3, <3>1
        <4>2. /\ preface_pos' = [preface_pos EXCEPT ![s] = ReadPosition(s)]
              /\ ReadPosition(s) \in 0..Size /\ preface_pos \in [Stream -> 0..Size]
          BY <1>2, <1>3, <3>1
        <4> QED BY ONLY <4>1, <4>2
      <3>2. CASE ~Unread(s) BY <1>3, <3>2
      <3> QED BY <3>1, <3>2
    <2>2. \A t \in Stream : kind'[t] \in {NONE, opened'[t]}
      BY <1>1, <1>2, <1>3, <1>7 DEF clientVars
    <2>3. at' \in Nat \ {0} BY <1>4
    <2>4. count' \in 0..PendingMax /\ gone' \in SUBSET Stream BY <1>1, <1>4, <1>5, <1>6
    <2> QED BY <1>3, <1>6, <2>1, <2>2, <2>3, <2>4 DEF clientVars
  <1>10. OneOwner'
    BY <1>3, <1>4, <1>6, <1>8 DEF StreamsAreSound, OneOwner
  <1>11. StreamsAreTyped'
    BY <1>3, <1>7, <1>8 DEF StreamsAreSound, StreamsAreTyped, clientVars
  <1>12. PendingIsKnown'
    <2> SUFFICES ASSUME NEW t \in Range(pending')
                 PROVE  IF preface_pos'[t] = Size THEN kind'[t] # NONE ELSE kind'[t] = NONE
      BY DEF PendingIsKnown
    <2>1. t \in Range(pending) BY <1>6
    <2>4. t \in Stream
      <3>1. PICK k \in DOMAIN pending : t = pending[k] BY <2>1 DEF Range
      <3> QED BY <3>1
    <2>2. CASE t # s BY <1>7, <2>1, <2>2, <2>4 DEF StreamsAreSound, PendingIsKnown
    <2>3. CASE t = s
      <3>1. ~Rejects(s) BY <1>6, <2>3
      <3>2. CASE Unread(s) BY <1>1, <1>2, <1>3, <2>3, <3>1, <3>2 DEF Rejects
      <3>3. CASE ~Unread(s)
        BY <1>1, <1>3, <2>3, <3>3 DEF StreamsAreSound, PendingIsKnown
      <3> QED BY <3>2, <3>3
    <2> QED BY <2>2, <2>3
  <1> QED BY <1>9, <1>10, <1>11, <1>12 DEF StreamsAreSound

\* A stream comes in, below the limit, and is kept if it may be of use.
LEMMA AcceptStep ==
  ASSUME IInv, NEW s \in Stream, AcceptStream(s)
  PROVE  IInv'
  <1> USE StreamsAssumption DEF IInv, TypeOK, KindInv
  <1>1. /\ ReadPosition(s) \in 0..Size /\ ReadKind(s) \in {NONE, opened[s]}
        /\ ReadKind(s) \in {NONE, "GAME", "ASSET"}
        /\ ReadPosition(s) # Size => ReadKind(s) = NONE
    BY Reading
  <1>2. /\ preface_pos' = [preface_pos EXCEPT ![s] = ReadPosition(s)]
        /\ kind' = [kind EXCEPT ![s] = ReadKind(s)]
        /\ UNCHANGED <<clientVars, pc, want, at, expired, game, assets, closed>>
        /\ count < PendingMax
    BY DEF AcceptStream
  <1>3. s \notin Range(pending) \cup assets \cup gone \cup {game}
    BY DEF AcceptStream, Incoming
  <1> DEFINE useless == ReadPosition(s) = Size /\ ReadKind(s) = NONE
  <1>4. /\ useless => gone' = gone \cup {s} /\ UNCHANGED <<pending, count>>
        /\ ~useless => pending' = <<s>> \o pending /\ count' = count + 1 /\ gone' = gone
    BY DEF AcceptStream, listVars
  <1>5. IsInjective(pending) /\ count = Len(pending) BY DEF StreamsAreSound, OneOwner
  <1>6. /\ pending' \in Seq(Stream) /\ IsInjective(pending') /\ count' = Len(pending')
        /\ count' \in 0..PendingMax
        /\ Range(pending') = IF useless THEN Range(pending) ELSE Range(pending) \cup {s}
    <2>1. CASE useless BY <1>4, <1>5, <2>1
    <2>2. CASE ~useless
      <3>1. pending \in Seq(Stream) /\ s \in Stream \ Range(pending) BY <1>3
      <3>2. /\ <<s>> \o pending \in Seq(Stream)
            /\ Len(<<s>> \o pending) = Len(pending) + 1
            /\ IsInjective(<<s>> \o pending)
            /\ Range(<<s>> \o pending) = Range(pending) \cup {s}
        BY ONLY <1>5, <3>1, Linked, Zenon
      <3> DEFINE r == <<s>> \o pending
      <3>3. pending' = r /\ count' = count + 1 BY <1>4, <2>2
      <3>4. count' = Len(r) /\ count' \in 0..PendingMax BY <1>2, <1>5, <3>1, <3>2, <3>3
      <3> HIDE DEF r, useless
      <3>5. r \in Seq(Stream) /\ IsInjective(r) /\ Range(r) = Range(pending) \cup {s}
        BY <3>2 DEF r
      <3> QED BY ONLY <2>2, <3>3, <3>4, <3>5
    <2> QED BY <2>1, <2>2
  <1>7. \A t \in Stream : t # s => kind'[t] = kind[t] /\ preface_pos'[t] = preface_pos[t]
    BY <1>2
  <1>8. TypeOK' /\ KindInv'
    <2>1. kind' \in [Stream -> {NONE, "GAME", "ASSET"}]
          /\ preface_pos' \in [Stream -> 0..Size]
      BY <1>1, <1>2
    <2>2. \A t \in Stream : kind'[t] \in {NONE, opened'[t]}
      BY <1>1, <1>2, <1>7 DEF clientVars
    <2>3. gone' \in SUBSET Stream BY <1>4
    <2> QED BY <1>2, <1>6, <2>1, <2>2, <2>3 DEF clientVars
  <1>9. OneOwner' BY <1>2, <1>3, <1>4, <1>6 DEF StreamsAreSound, OneOwner
  <1>10. StreamsAreTyped'
    BY <1>2, <1>3, <1>7 DEF StreamsAreSound, StreamsAreTyped, clientVars
  <1>11. PendingIsKnown'
    <2> SUFFICES ASSUME NEW t \in Range(pending')
                 PROVE  IF preface_pos'[t] = Size THEN kind'[t] # NONE ELSE kind'[t] = NONE
      BY DEF PendingIsKnown
    <2>1. t \in Stream BY <1>6 DEF Range
    <2>2. CASE t # s
      BY <1>6, <1>7, <2>1, <2>2 DEF StreamsAreSound, PendingIsKnown
    <2>3. CASE t = s
      <3>1. ~useless BY <1>3, <1>6, <2>3
      <3> QED BY <1>1, <1>2, <2>3, <3>1
    <2> QED BY <2>2, <2>3
  <1> QED BY <1>8, <1>9, <1>10, <1>11 DEF StreamsAreSound

\* A complete stream goes from the list to the caller of socket_stream_accept().
LEMMA TakeStep ==
  ASSUME IInv, NEW i \in 1..Len(pending), TakeStream(i)
  PROVE  IInv'
  <1> DEFINE s == pending[i]
  <1> USE StreamsAssumption DEF IInv, TypeOK, KindInv
  <1>1. s \in Stream /\ s \in Range(pending) BY DEF Range
  <1>2. /\ pending' = RemoveAt(pending, i) /\ count' = count - 1
        /\ game' = IF want = "GAME" THEN s ELSE game
        /\ assets' = IF want = "GAME" THEN assets ELSE assets \cup {s}
        /\ UNCHANGED <<clientVars, at, fieldVars, gone, closed>>
        /\ pc' = "idle" /\ want' = NONE
    BY DEF TakeStream, TakeUnlinks
  <1>3. kind[s] = want /\ preface_pos[s] = Size /\ want \in {"GAME", "ASSET"}
    BY DEF TakeStream, Fits
  <1>4. opened[s] = want BY <1>1, <1>3
  <1>5. IsInjective(pending) /\ count = Len(pending) BY DEF StreamsAreSound, OneOwner
  <1>6. /\ pending' \in Seq(Stream) /\ IsInjective(pending') /\ count' = Len(pending')
        /\ Range(pending') = Range(pending) \ {s}
    BY <1>2, <1>5, Unlinked
  <1>7. s \notin assets \cup gone \cup {game} BY <1>1 DEF StreamsAreSound, OneOwner
  <1>8. TypeOK' /\ KindInv'
    <2>1. count' \in 0..PendingMax
      <3>1. count - 1 >= 0 /\ count <= PendingMax BY <1>5
      <3> QED BY <1>2, <1>5, <3>1
    <2>2. game' \in Stream \cup {NONE} /\ assets' \in SUBSET Stream BY <1>1, <1>2
    <2> HIDE DEF s
    <2> QED BY <1>2, <1>6, <2>1, <2>2 DEF clientVars, fieldVars
  <1>9. OneOwner' BY <1>1, <1>2, <1>6, <1>7 DEF StreamsAreSound, OneOwner
  <1>10. StreamsAreTyped'
    BY <1>1, <1>2, <1>3, <1>4 DEF StreamsAreSound, StreamsAreTyped, clientVars, fieldVars
  <1>11. PendingIsKnown'
    BY <1>2, <1>6 DEF StreamsAreSound, PendingIsKnown, fieldVars
  <1> QED BY <1>8, <1>9, <1>10, <1>11 DEF StreamsAreSound

\* The application or the connection gives streams up.
LEMMA EndSteps ==
  ASSUME IInv, socket_close \/ \E s \in Stream : socket_stream_destroy(s)
  PROVE  IInv'
  <1> USE StreamsAssumption DEF IInv, TypeOK, KindInv, clientVars, fieldVars, listVars
  <1>1. ASSUME NEW s \in Stream, socket_stream_destroy(s) PROVE IInv'
    <2>1. TypeOK' /\ KindInv' BY <1>1 DEF socket_stream_destroy
    <2>2. OneOwner' BY <1>1 DEF socket_stream_destroy, StreamsAreSound, OneOwner
    <2>3. StreamsAreTyped' /\ PendingIsKnown'
      BY <1>1 DEF socket_stream_destroy, StreamsAreSound, StreamsAreTyped, PendingIsKnown
    <2> QED BY <2>1, <2>2, <2>3 DEF StreamsAreSound
  <1>2. CASE socket_close
    <2>1. count = Len(pending) /\ Range(pending) \in SUBSET Stream
      BY DEF StreamsAreSound, OneOwner, Range
    <2>2. count' = 0 /\ pending' = <<>> /\ Range(pending') = {} /\ IsInjective(pending')
      BY <1>2, <2>1 DEF socket_close, Range, IsInjective
    <2>3. TypeOK' /\ KindInv' BY <1>2, <2>1, <2>2 DEF socket_close
    <2>4. OneOwner' BY <1>2, <2>1, <2>2 DEF socket_close, OneOwner
    <2>5. StreamsAreTyped' /\ PendingIsKnown'
      BY <1>2, <2>2 DEF socket_close, StreamsAreTyped, PendingIsKnown
    <2> QED BY <2>3, <2>4, <2>5 DEF StreamsAreSound
  <1> QED BY <1>1, <1>2

\* IInv is an invariant of the connection.
THEOREM Invariance == Spec => []IInv
  <1>1. Init => IInv
    <2> SUFFICES ASSUME Init PROVE IInv OBVIOUS
    <2> USE StreamsAssumption DEF Init
    <2>1. Range(pending) = {} /\ IsInjective(pending) BY DEF Range, IsInjective
    <2>2. TypeOK
      <3>1. closed \in BOOLEAN OBVIOUS
      <3>2. written \in [Stream -> 0..Size] /\ preface_pos \in [Stream -> 0..Size] OBVIOUS
      <3>3. count \in 0..PendingMax /\ pending \in Seq(Stream) OBVIOUS
      <3> QED BY <3>1, <3>2, <3>3 DEF TypeOK
    <2>5. KindInv BY DEF KindInv
    <2>3. OneOwner BY <2>1 DEF OneOwner
    <2>4. StreamsAreTyped /\ PendingIsKnown BY <2>1 DEF StreamsAreTyped, PendingIsKnown
    <2> QED BY <2>2, <2>3, <2>4, <2>5 DEF IInv, StreamsAreSound
  <1>2. ASSUME IInv, [Next]_vars PROVE IInv'
    <2>1. CASE TypeOK' /\ KindInv' /\ Aside BY <1>2, <2>1, AsideStep DEF IInv
    <2> QED BY <1>2, <2>1, ClientSteps, IdleSteps, PollStep, AcceptStep, TakeStep,
               EndSteps DEF Next, Step, ServerCall
  <1> QED BY <1>1, <1>2, PTL DEF Spec

\* Fields keep their types, and no more streams are pending than
\* SOCKET_QUIC_PENDING_STREAM_MAX, whatever the limit is.
THEOREM TypeCorrect == Spec => []TypeOK
  <1>1. IInv => TypeOK BY DEF IInv
  <1> QED BY <1>1, Invariance, PTL

\* Streams have one owner of the kind that the client opened them with, and none
\* whose preface is wrong stays pending: socket_stream_poll_incoming(),
\* socket_stream_accept(), socket_stream_destroy() and socket_close(), for every
\* number of streams.
THEOREM StreamsInOrder == Spec => []StreamsAreSound
  <1>1. IInv => StreamsAreSound BY DEF IInv
  <1> QED BY <1>1, Invariance, PTL

=============================================================================
