---------------------------- MODULE PacketProofs ----------------------------
(***************************************************************************)
(* Proofs about packets: what a writer leaves in the buffer, for all       *)
(* fields, sizes and limits, and what a scope says of its readers, for any *)
(* number of readers, nested scopes and blocks of bytes.                   *)
(***************************************************************************)
EXTENDS Packet, PacketScope, TLAPS

-----------------------------------------------------------------------------
(* The writer (Packet)                                                      *)

Byte == UNION {Range(Encode(f)) : f \in Fields}
Written == [data : Seq(Byte), size : Nat, expand : Nat, limit : Nat,
            error : {NONE, "LIMIT_EXCEEDED", "SIZE_OVERFLOW"}]

\* The bytes are the encodings of the fields, one after the other: field k
\* begins at the offset at[k - 1] and ends at at[k].
Spans(at, data, fs) ==
  /\ at \in [0..Len(fs) -> 0..Len(data)]
  /\ at[0] = 0 /\ at[Len(fs)] = Len(data)
  /\ \A j, k \in 0..Len(fs) : j <= k => at[j] <= at[k]
  /\ \A k \in 1..Len(fs) :
       /\ at[k] = at[k - 1] + Len(Encode(fs[k]))
       /\ \A i \in 1..Len(Encode(fs[k])) : data[at[k - 1] + i] = Encode(fs[k])[i]

\* What the buffer holds is what was written and not taken back, and a mark
\* stands between two fields (packet_writer_rollback() cuts no field in two).
HoldsFields ==
  \E at \in [0..Len(fields) -> 0..Length(packet)] :
    /\ Spans(at, packet.data, fields)
    /\ mark # -1 => marked \in 0..Len(fields) /\ at[marked] = mark

PacketInv ==
  /\ packet \in Written /\ fields \in Seq(Fields)
  /\ WriterInBounds /\ HoldsFields

-----------------------------------------------------------------------------
\* What is encoded is a sequence of bytes, whatever the type of the field.
LEMMA FieldBytes ==
  ASSUME NEW f \in Fields
  PROVE  Encode(f) \in Seq(Byte)
  <1>0. DOMAIN Width = {"uint8", "int8", "uint16", "int16", "uint32", "int32",
                        "uint64", "int64"}
    BY DEF Width
  <1>1. CASE f.type \in DOMAIN Width
    <2>1. Width[f.type] \in Nat BY <1>1 DEF Width
    <2>2. Encode(f) = EncodeInt(Width[f.type], f.value) BY <1>0, <1>1 DEF Encode
    <2> DEFINE w == Width[f.type]
               e(i) == (f.value \div Radix^(w - i)) % Radix
    <2>3. Encode(f) = [i \in 1..w |-> e(i)] BY <2>2 DEF EncodeInt
    <2> HIDE DEF w, e
    <2>4. ASSUME NEW i \in 1..w PROVE e(i) \in Byte
      <3>1. e(i) \in Range(Encode(f)) BY <2>3 DEF Range
      <3> QED BY <3>1 DEF Byte
    <2> QED BY <2>1, <2>3, <2>4 DEF w
  <1>2. CASE f.type \notin DOMAIN Width
    <2>1. f.value \in Seq(0..(Radix - 1)) BY <1>2, PacketAssumption
    <2>2. Encode(f) \in Seq(0..(Radix - 1))
      <3>1. 0 \in 0..(Radix - 1) BY CodecAssumption
      <3>2. Append(f.value, 0) \in Seq(0..(Radix - 1)) BY <2>1, <3>1
      <3>3. Encode(f) \in {f.value, Append(f.value, 0)} BY <1>2 DEF Encode
      <3> QED BY <2>1, <3>2, <3>3
    <2>3. ASSUME NEW i \in 1..Len(Encode(f)) PROVE Encode(f)[i] \in Byte
      <3>1. Encode(f)[i] \in Range(Encode(f)) BY <2>2 DEF Range
      <3> QED BY <3>1 DEF Byte
    <2> QED BY <2>2, <2>3
  <1> QED BY <1>1, <1>2

\* Everything or nothing is written, inside the buffer and the limit.
LEMMA WriteAll ==
  ASSUME NEW p \in Written, NEW bytes \in Seq(Byte),
         Length(p) <= p.size, Length(p) <= p.limit
  PROVE  LET q == packet_write(p, bytes) IN
           /\ q \in Written /\ Length(q) <= q.size /\ Length(q) <= q.limit
           /\ q.data = IF q.error = NONE THEN p.data \o bytes ELSE p.data
           /\ p.error # NONE => q.error # NONE
  <1> DEFINE q == packet_ensure(p, Len(bytes))
             n == Len(bytes)
  <1>0. /\ p.data \in Seq(Byte) /\ p.size \in Nat /\ p.limit \in Nat /\ p.expand \in Nat
        /\ n \in Nat /\ Length(p) \in Nat
    BY DEF Written, Length
  <1>1. Growth(p, n) \in Nat
    BY <1>0 DEF Growth, Greater, Lesser
  <1>2. /\ q \in Written /\ q.data = p.data
        /\ q.error = NONE => /\ p.error = NONE
                             /\ Length(p) + n <= q.size /\ Length(p) + n <= q.limit
        /\ q.size >= p.size /\ q.limit = p.limit
    <2> HIDE DEF n
    <2>1. CASE p.error # NONE
      BY <1>0, <2>1 DEF packet_ensure, n
    <2>2. CASE p.error = NONE /\ (Length(p) > p.limit \/ n > p.limit - Length(p))
      <3>1. q = [p EXCEPT !.error = "LIMIT_EXCEEDED"] BY <2>2 DEF packet_ensure, n
      <3> QED BY <1>0, <3>1 DEF Written, NONE
    <2>3. CASE p.error = NONE /\ n <= p.limit - Length(p)
      <3>1. CASE Fits(p, n)
        BY <1>0, <2>3, <3>1 DEF packet_ensure, Fits, n
      <3>2. CASE ~Fits(p, n) /\ Growth(p, n) < n
        <4>1. q = [p EXCEPT !.error = "SIZE_OVERFLOW"]
          BY <1>0, <2>3, <3>2 DEF packet_ensure, n
        <4> QED BY <1>0, <4>1 DEF Written, NONE
      <3>3. CASE ~Fits(p, n) /\ Growth(p, n) >= n
        <4>1. q = [p EXCEPT !.size = p.size + Growth(p, n)]
          BY <1>0, <1>1, <2>3, <3>3 DEF packet_ensure, n
        <4> HIDE DEF q
        <4>2. q \in Written /\ q.data = p.data /\ q.size = p.size + Growth(p, n)
              /\ q.limit = p.limit /\ q.error = p.error
          BY <1>0, <1>1, <4>1 DEF Written
        <4> QED BY <1>0, <1>1, <2>3, <3>3, <4>2
      <3> QED BY <1>0, <1>1, <3>1, <3>2, <3>3
    <2> QED BY <1>0, <2>1, <2>2, <2>3
  <1> DEFINE r == packet_write(p, bytes)
  <1> SUFFICES /\ r \in Written /\ Length(r) <= r.size /\ Length(r) <= r.limit
               /\ r.data = IF r.error = NONE THEN p.data \o bytes ELSE p.data
               /\ p.error # NONE => r.error # NONE
    OBVIOUS
  <1>3. CASE bytes = <<>>
    <2>1. r = p BY <1>3 DEF packet_write
    <2> QED BY <1>0, <1>3, <2>1
  <1>4. CASE bytes # <<>> /\ q.error # NONE
    <2>1. r = q BY <1>4 DEF packet_write
    <2> HIDE DEF q, r
    <2> QED BY <1>0, <1>2, <1>4, <2>1 DEF Length, Written
  <1>5. CASE bytes # <<>> /\ q.error = NONE
    <2>1. r = [q EXCEPT !.data = q.data \o bytes] BY <1>5 DEF packet_write
    <2> HIDE DEF q, r
    <2>2. q.data \o bytes \in Seq(Byte) /\ Len(q.data \o bytes) = Length(p) + n
      BY <1>0, <1>2 DEF Length
    <2>3. r \in Written /\ r.data = q.data \o bytes /\ r.size = q.size
          /\ r.limit = q.limit /\ r.error = q.error
      BY <1>2, <2>1, <2>2 DEF Written
    <2> QED BY <1>0, <1>2, <1>5, <2>2, <2>3 DEF Length
  <1> QED BY <1>3, <1>4, <1>5

\* Offsets of the bytes of a field that begins at a, has x bytes and ends before
\* t, when n bytes before it are dropped.
LEMMA Shifted ==
  ASSUME NEW n \in Nat, NEW a \in Nat, NEW x \in Nat, NEW t \in Nat, NEW i \in 1..x,
         n <= a, a + x <= t
  PROVE  (a - n) + i \in 1..(t - n) /\ n + ((a - n) + i) = a + i
  OBVIOUS

\* The bytes e and fields gs follow d and fs, whose offsets they leave alone.
Follows(at, d, fs, e, gs) ==
  \E ct \in [0..Len(fs \o gs) -> 0..Len(d \o e)] :
    /\ Spans(ct, d \o e, fs \o gs)
    /\ \A k \in 0..Len(fs) : ct[k] = at[k]

\* If two buffers hold fields, one after the other holds them all.
LEMMA Joined ==
  ASSUME NEW d \in Seq(Byte), NEW e \in Seq(Byte),
         NEW fs \in Seq(Fields), NEW gs \in Seq(Fields), NEW at, NEW bt,
         Spans(at, d, fs), Spans(bt, e, gs)
  PROVE  Follows(at, d, fs, e, gs)
  <1> DEFINE m == Len(fs)
             n == Len(gs)
             ct == [k \in 0..(m + n) |-> IF k <= m THEN at[k] ELSE Len(d) + bt[k - m]]
             hs == fs \o gs
             b == d \o e
  <1>1. /\ m \in Nat /\ n \in Nat /\ Len(d) \in Nat /\ Len(e) \in Nat
        /\ Len(hs) = m + n /\ Len(b) = Len(d) + Len(e)
        /\ \A k \in 1..m : hs[k] = fs[k]
        /\ \A k \in (m + 1)..(m + n) : hs[k] = gs[k - m]
        /\ \A i \in 1..Len(d) : b[i] = d[i]
        /\ \A i \in 1..Len(e) : b[Len(d) + i] = e[i]
    OBVIOUS
  <1>2. \A k \in 1..m : fs[k] \in Fields OBVIOUS
  <1>3. \A k \in 1..n : gs[k] \in Fields OBVIOUS
  <1>4. /\ at \in [0..m -> 0..Len(d)] /\ at[0] = 0 /\ at[m] = Len(d)
        /\ \A j, k \in 0..m : j <= k => at[j] <= at[k]
        /\ \A k \in 1..m :
             /\ at[k] = at[k - 1] + Len(Encode(fs[k]))
             /\ \A i \in 1..Len(Encode(fs[k])) : d[at[k - 1] + i] = Encode(fs[k])[i]
    BY DEF Spans
  <1>5. /\ bt \in [0..n -> 0..Len(e)] /\ bt[0] = 0 /\ bt[n] = Len(e)
        /\ \A j, k \in 0..n : j <= k => bt[j] <= bt[k]
        /\ \A k \in 1..n :
             /\ bt[k] = bt[k - 1] + Len(Encode(gs[k]))
             /\ \A i \in 1..Len(Encode(gs[k])) : e[bt[k - 1] + i] = Encode(gs[k])[i]
    BY DEF Spans
  <1>n. /\ m \in Nat /\ n \in Nat /\ Len(d) \in Nat /\ Len(e) \in Nat
        /\ Len(b) = Len(d) + Len(e)
    BY ONLY <1>1
  <1>p. at \in [0..m -> 0..Len(d)] /\ at[0] = 0 /\ at[m] = Len(d) BY ONLY <1>4
  <1>q. bt \in [0..n -> 0..Len(e)] /\ bt[0] = 0 /\ bt[n] = Len(e) BY ONLY <1>5
  <1> HIDE DEF m, n, hs, b
  <1>a. /\ \A k \in 0..(m + n) : ct[k] = IF k <= m THEN at[k] ELSE Len(d) + bt[k - m]
        /\ ct \in [0..(m + n) -> {ct[k] : k \in 0..(m + n)}]
    OBVIOUS
  <1> HIDE DEF ct
  <1>6. /\ \A k \in 0..m : ct[k] = at[k] /\ ct[k] \in 0..Len(d)
        /\ \A k \in m..(m + n) : ct[k] = Len(d) + bt[k - m] /\ ct[k] - Len(d) \in 0..Len(e)
    <2>1. ASSUME NEW k \in 0..m PROVE ct[k] = at[k] /\ ct[k] \in 0..Len(d)
      BY <1>n, <1>p, <1>a
    <2>2. ASSUME NEW k \in m..(m + n)
          PROVE  ct[k] = Len(d) + bt[k - m] /\ ct[k] - Len(d) \in 0..Len(e)
      <3>1. k - m \in 0..n /\ bt[k - m] \in 0..Len(e) BY <1>n, <1>q
      <3>2. CASE k = m BY <1>n, <1>p, <1>q, <1>a, <3>1, <3>2
      <3>3. CASE k > m
        <4>1. k \in 0..(m + n) /\ ~(k <= m) BY <1>n, <3>3
        <4>2. ct[k] = Len(d) + bt[k - m] BY ONLY <1>a, <4>1
        <4> QED BY <1>n, <3>1, <4>2
      <3> QED BY <1>n, <3>2, <3>3
    <2> QED BY <2>1, <2>2
  <1>7. ct \in [0..(m + n) -> 0..Len(b)]
    <2>1. ASSUME NEW k \in 0..(m + n) PROVE ct[k] \in 0..Len(b)
      <3>1. CASE k <= m BY <1>n, <1>6, <3>1
      <3>2. CASE k > m
        <4>1. k - m \in 0..n /\ bt[k - m] \in 0..Len(e) BY <1>n, <1>q, <3>2
        <4> QED BY <1>n, <1>6, <3>2, <4>1
      <3> QED BY <1>n, <3>1, <3>2
    <2> QED BY <1>a, <2>1
  <1>8. ct[0] = 0 /\ ct[m + n] = Len(b)
    <2>1. ct[0] = at[0] BY <1>n, <1>6
    <2>2. ct[m + n] = Len(d) + bt[(m + n) - m] /\ (m + n) - m = n BY <1>n, <1>6
    <2> QED BY <1>n, <1>4, <1>5, <2>1, <2>2
  <1>9. ASSUME NEW j \in 0..(m + n), NEW k \in 0..(m + n), j <= k
        PROVE  ct[j] <= ct[k]
    <2>1. CASE k <= m
      <3>1. j \in 0..m /\ k \in 0..m BY <1>n, <1>9, <2>1
      <3> QED BY <1>4, <1>6, <1>9, <3>1
    <2>2. CASE j >= m
      <3>0. j - m \in 0..n /\ k - m \in 0..n /\ j - m <= k - m
        BY <1>n, <1>9, <2>2
      <3>1. bt[j - m] <= bt[k - m] /\ bt[j - m] \in Nat /\ bt[k - m] \in Nat
        BY <1>n, <1>5, <1>q, <3>0
      <3>2. j \in m..(m + n) /\ k \in m..(m + n) BY <1>n, <1>9, <2>2
      <3>3. ct[j] = Len(d) + bt[j - m] /\ ct[k] = Len(d) + bt[k - m] BY ONLY <1>6, <3>2
      <3> QED BY ONLY <1>n, <3>1, <3>3
    <2>3. CASE j < m /\ m < k
      <3>1. ct[j] \in 0..Len(d) /\ ct[k] = Len(d) + bt[k - m] /\ bt[k - m] \in Nat
        BY <1>n, <1>q, <1>6, <2>3
      <3> QED BY <1>n, <3>1
    <2> QED BY <1>n, <2>1, <2>2, <2>3
  <1>10. ASSUME NEW k \in 1..(m + n)
         PROVE  /\ ct[k] = ct[k - 1] + Len(Encode(hs[k]))
                /\ \A i \in 1..Len(Encode(hs[k])) : b[ct[k - 1] + i] = Encode(hs[k])[i]
    <2>1. CASE k <= m
      <3>1. Len(Encode(fs[k])) \in Nat BY <1>1, <1>2, <2>1, FieldBytes
      <3>2. ct[k] = at[k] /\ ct[k - 1] = at[k - 1] /\ hs[k] = fs[k]
            /\ at[k] \in 0..Len(d) /\ at[k - 1] \in 0..Len(d)
        BY <1>n, <1>1, <1>p, <1>6, <2>1
      <3>3. at[k] = at[k - 1] + Len(Encode(fs[k]))
            /\ \A i \in 1..Len(Encode(fs[k])) : d[at[k - 1] + i] = Encode(fs[k])[i]
        <4>1. k \in 1..m BY <1>n, <2>1
        <4> QED BY ONLY <1>4, <4>1
      <3>4. \A i \in 1..Len(Encode(fs[k])) : at[k - 1] + i \in 1..Len(d)
        BY <1>n, <3>1, <3>2, <3>3
      <3>5. \A i \in 1..Len(Encode(fs[k])) : b[at[k - 1] + i] = d[at[k - 1] + i]
        BY <1>1, <3>4
      <3> QED BY <3>2, <3>3, <3>5
    <2>2. CASE k > m
      <3> DEFINE l == k - m
      <3>0. l \in 1..n /\ hs[k] = gs[l] /\ l - 1 \in 0..n
        <4>1. l \in 1..n /\ l - 1 \in 0..n /\ k \in (m + 1)..(m + n) BY <1>n, <2>2
        <4>2. hs[k] = gs[k - m] BY ONLY <1>1, <4>1
        <4> QED BY <4>1, <4>2
      <3>1. Len(Encode(gs[l])) \in Nat BY <1>3, <3>0, FieldBytes
      <3>2. ct[k] = Len(d) + bt[l] /\ ct[k - 1] = Len(d) + bt[l - 1]
            /\ bt[l] \in 0..Len(e) /\ bt[l - 1] \in 0..Len(e)
        <4>1. k - 1 \in m..(m + n) /\ (k - 1) - m = l - 1 BY <1>n, <2>2
        <4> QED BY <1>n, <1>q, <1>6, <2>2, <3>0, <4>1
      <3> HIDE DEF l
      <3>3. bt[l] = bt[l - 1] + Len(Encode(gs[l]))
            /\ \A i \in 1..Len(Encode(gs[l])) : e[bt[l - 1] + i] = Encode(gs[l])[i]
        BY <1>5, <3>0
      <3>4. ASSUME NEW i \in 1..Len(Encode(gs[l]))
            PROVE  b[ct[k - 1] + i] = Encode(gs[l])[i]
        <4>1. bt[l - 1] + i \in 1..Len(e)
          <5>1. bt[l - 1] \in Nat /\ Len(e) \in Nat /\ bt[l - 1] + Len(Encode(gs[l])) <= Len(e)
            BY ONLY <1>n, <3>2, <3>3
          <5> QED BY ONLY <3>1, <5>1, i \in 1..Len(Encode(gs[l]))
        <4>2. ct[k - 1] + i = Len(d) + (bt[l - 1] + i) BY <1>n, <3>1, <3>2
        <4>3. b[Len(d) + (bt[l - 1] + i)] = e[bt[l - 1] + i] BY ONLY <1>1, <4>1
        <4> QED BY <3>3, <4>2, <4>3
      <3> QED BY <1>n, <3>0, <3>1, <3>2, <3>3, <3>4
    <2> QED BY <1>n, <2>1, <2>2
  <1>11. Spans(ct, b, hs) BY <1>1, <1>7, <1>8, <1>9, <1>10 DEF Spans
  <1> QED BY <1>1, <1>6, <1>7, <1>11 DEF Follows, hs, b, m

\* The first m fields with their bytes.
Remains(at, d, fs, m) ==
  \E bt \in [0..Len(SubSeq(fs, 1, m)) -> 0..Len(SubSeq(d, 1, at[m]))] :
    /\ Spans(bt, SubSeq(d, 1, at[m]), SubSeq(fs, 1, m)) /\ bt[m] = at[m]
    /\ Len(SubSeq(fs, 1, m)) = m /\ Len(SubSeq(d, 1, at[m])) = at[m]

\* A buffer that ends where a field ends holds the fields up to that one.
LEMMA Cut ==
  ASSUME NEW d \in Seq(Byte), NEW fs \in Seq(Fields), NEW at, Spans(at, d, fs),
         NEW m \in 0..Len(fs)
  PROVE  /\ at[m] \in 0..Len(d)
         /\ Remains(at, d, fs, m)
  <1> DEFINE gs == SubSeq(fs, 1, m)
             e == SubSeq(d, 1, at[m])
             bt == [k \in 0..m |-> at[k]]
  <1>1. /\ at \in [0..Len(fs) -> 0..Len(d)] /\ at[0] = 0
        /\ \A j, k \in 0..Len(fs) : j <= k => at[j] <= at[k]
        /\ \A k \in 1..Len(fs) :
             /\ at[k] = at[k - 1] + Len(Encode(fs[k]))
             /\ \A i \in 1..Len(Encode(fs[k])) : d[at[k - 1] + i] = Encode(fs[k])[i]
    BY DEF Spans
  <1>2. Len(fs) \in Nat /\ Len(d) \in Nat /\ m \in Nat /\ at[m] \in 0..Len(d)
    BY <1>1
  <1>3. Len(gs) = m /\ \A k \in 1..m : gs[k] = fs[k] /\ gs[k] \in Fields BY <1>2
  <1>4. Len(e) = at[m] /\ \A i \in 1..at[m] : e[i] = d[i] BY <1>2
  <1>5. \A k \in 0..m : bt[k] = at[k] OBVIOUS
  <1> HIDE DEF gs, e
  <1>6. bt \in [0..m -> 0..at[m]]
    <2>1. ASSUME NEW k \in 0..m PROVE at[k] \in 0..at[m]
      <3>1. k \in 0..Len(fs) /\ k <= m BY <1>2
      <3>2. at[k] <= at[m] /\ at[k] \in 0..Len(d) BY <1>1, <3>1
      <3> QED BY <1>2, <3>2
    <2> QED BY <2>1
  <1> HIDE DEF bt
  <1>7. \A j, k \in 0..m : j <= k => bt[j] <= bt[k] BY <1>1, <1>2, <1>5
  <1>8. ASSUME NEW k \in 1..m
        PROVE  /\ bt[k] = bt[k - 1] + Len(Encode(gs[k]))
               /\ \A i \in 1..Len(Encode(gs[k])) : e[bt[k - 1] + i] = Encode(gs[k])[i]
    <2>1. k \in 1..Len(fs) /\ k - 1 \in 0..m /\ k \in 0..m BY <1>2
    <2>2. bt[k] = at[k] /\ bt[k - 1] = at[k - 1] /\ gs[k] = fs[k] /\ gs[k] \in Fields
      BY <1>3, <1>5, <2>1
    <2>3. Len(Encode(fs[k])) \in Nat BY <2>2, FieldBytes
    <2>4. at[k] = at[k - 1] + Len(Encode(fs[k]))
          /\ \A i \in 1..Len(Encode(fs[k])) : d[at[k - 1] + i] = Encode(fs[k])[i]
      BY ONLY <1>1, <2>1
    <2>5. at[k] \in 0..at[m] /\ at[k - 1] \in 0..at[m] BY <1>6, <2>1, <2>2
    <2>6. \A i \in 1..Len(Encode(fs[k])) : at[k - 1] + i \in 1..at[m]
      BY <1>2, <2>3, <2>4, <2>5
    <2> QED BY <1>4, <2>2, <2>4, <2>6
  <1>9. bt[0] = 0 /\ bt[m] = at[m] BY <1>1, <1>2, <1>5
  <1>10. Spans(bt, e, gs) BY <1>3, <1>4, <1>6, <1>7, <1>8, <1>9 DEF Spans
  <1> QED BY <1>2, <1>3, <1>4, <1>6, <1>9, <1>10 DEF Remains, gs, e

\* Without the first field and its bytes the buffer holds the others.
LEMMA Dropped ==
  ASSUME NEW d \in Seq(Byte), NEW fs \in Seq(Fields), NEW at, Spans(at, d, fs),
         fs # <<>>, NEW e \in Seq(Byte),
         NEW n \in Nat, n = Len(Encode(Head(fs))),
         Len(e) = Len(d) - n, \A i \in 1..Len(e) : e[i] = d[n + i]
  PROVE  /\ n <= Len(d)
         /\ \E bt \in [0..Len(Tail(fs)) -> 0..Len(e)] : Spans(bt, e, Tail(fs))
  <1> DEFINE gs == Tail(fs)
             m == Len(gs)
             bt == [k \in 0..m |-> at[k + 1] - n]
  <1>1. /\ at \in [0..Len(fs) -> 0..Len(d)] /\ at[0] = 0 /\ at[Len(fs)] = Len(d)
        /\ \A j, k \in 0..Len(fs) : j <= k => at[j] <= at[k]
        /\ \A k \in 1..Len(fs) :
             /\ at[k] = at[k - 1] + Len(Encode(fs[k]))
             /\ \A i \in 1..Len(Encode(fs[k])) : d[at[k - 1] + i] = Encode(fs[k])[i]
    BY DEF Spans
  <1>2. Len(fs) \in Nat /\ Len(d) \in Nat /\ m \in Nat /\ Len(fs) = m + 1
    OBVIOUS
  <1>3. fs[1] = Head(fs) /\ \A k \in 1..m : gs[k] = fs[k + 1] /\ gs[k] \in Fields
    OBVIOUS
  <1>4. at[1] = n
    <2>1. 1 \in 1..Len(fs) /\ 1 - 1 = 0 BY <1>2
    <2> QED BY <1>1, <1>3, <2>1
  <1>5. \A k \in 0..m : bt[k] = at[k + 1] - n OBVIOUS
  <1> HIDE DEF gs, m
  <1>6. \A k \in 0..m : at[k + 1] \in n..Len(d) BY <1>1, <1>2, <1>4
  <1>7. n <= Len(d) /\ bt \in [0..m -> 0..Len(e)]
    <2>1. n <= Len(d) BY <1>2, <1>6
    <2>2. \A k \in 0..m : at[k + 1] - n \in 0..Len(e) BY <1>2, <1>6
    <2> QED BY <2>1, <2>2
  <1> HIDE DEF bt
  <1>8. ASSUME NEW j \in 0..m, NEW k \in 0..m, j <= k PROVE bt[j] <= bt[k]
    <2>1. at[j + 1] <= at[k + 1] BY <1>1, <1>2, <1>8
    <2>2. bt[j] = at[j + 1] - n /\ bt[k] = at[k + 1] - n BY <1>5
    <2> QED BY <1>2, <1>6, <2>1, <2>2
  <1>9. ASSUME NEW k \in 1..m
        PROVE  /\ bt[k] = bt[k - 1] + Len(Encode(gs[k]))
               /\ \A i \in 1..Len(Encode(gs[k])) : e[bt[k - 1] + i] = Encode(gs[k])[i]
    <2> DEFINE l == k + 1
    <2>1. l \in 1..Len(fs) /\ l - 1 = k /\ (k - 1) + 1 = k /\ k - 1 \in 0..m /\ k \in 0..m
      BY <1>2
    <2>2. gs[k] = fs[l] /\ gs[k] \in Fields BY <1>3
    <2>3. Len(Encode(fs[l])) \in Nat BY <2>2, FieldBytes
    <2>4. bt[k] = at[l] - n /\ bt[k - 1] = at[k] - n
          /\ at[l] \in n..Len(d) /\ at[k] \in n..Len(d)
      BY <1>5, <1>6, <2>1
    <2> HIDE DEF l
    <2>5. at[l] = at[k] + Len(Encode(fs[l]))
          /\ \A i \in 1..Len(Encode(fs[l])) : d[at[k] + i] = Encode(fs[l])[i]
      BY <1>1, <2>1
    <2>6. ASSUME NEW i \in 1..Len(Encode(fs[l]))
          PROVE  e[bt[k - 1] + i] = d[at[k] + i]
      <3>1. /\ n \in Nat /\ at[k] \in Nat /\ Len(Encode(fs[l])) \in Nat /\ Len(d) \in Nat
            /\ i \in 1..Len(Encode(fs[l])) /\ n <= at[k]
            /\ at[k] + Len(Encode(fs[l])) <= Len(d)
        BY <1>2, <2>3, <2>4, <2>5
      <3>2. /\ (at[k] - n) + i \in 1..(Len(d) - n) /\ n + ((at[k] - n) + i) = at[k] + i
        BY ONLY <3>1, Shifted
      <3>3. bt[k - 1] + i \in 1..Len(e) /\ n + (bt[k - 1] + i) = at[k] + i
        BY <2>4, <3>2
      <3> QED BY <3>3
    <2>7. bt[k] = bt[k - 1] + Len(Encode(gs[k])) BY <2>2, <2>3, <2>4, <2>5
    <2> QED BY <2>2, <2>5, <2>6, <2>7
  <1>10. bt[0] = 0 /\ bt[m] = Len(e)
    <2>1. bt[0] = at[0 + 1] - n /\ bt[m] = at[m + 1] - n BY <1>2, <1>5
    <2>2. at[m + 1] = Len(d) BY <1>1, <1>2
    <2> QED BY <1>2, <1>4, <2>1, <2>2
  <1>11. Spans(bt, e, gs) BY <1>7, <1>8, <1>9, <1>10 DEF Spans, m
  <1> QED BY <1>7, <1>11 DEF gs, m

\* One field.
LEMMA Single ==
  ASSUME NEW f \in Fields
  PROVE  \E at : Spans(at, Encode(f), <<f>>)
  <1> DEFINE n == Len(Encode(f))
             at == [k \in 0..1 |-> IF k = 0 THEN 0 ELSE n]
  <1>1. n \in Nat BY FieldBytes
  <1>2. Len(<<f>>) = 1 /\ <<f>>[1] = f OBVIOUS
  <1> HIDE DEF n
  <1>3. at[0] = 0 /\ at[1] = n /\ at \in [0..1 -> 0..n] BY <1>1
  <1> HIDE DEF at
  <1>4. \A j, k \in 0..1 : j <= k => at[j] <= at[k] BY <1>1, <1>3
  <1>5. Spans(at, Encode(f), <<f>>) BY <1>1, <1>2, <1>3, <1>4 DEF Spans, n
  <1> QED BY <1>5

\* Bytes of some fields are appended with the fields, or neither is.
LEMMA Appended ==
  ASSUME PacketInv, NEW bytes \in Seq(Byte), NEW gs \in Seq(Fields), NEW bt,
         Spans(bt, bytes, gs), packet' = packet_write(packet, bytes),
         fields' = IF packet'.error = NONE THEN fields \o gs ELSE fields,
         mark' = mark, marked' = marked
  PROVE  PacketInv'
  <1>1. packet \in Written /\ fields \in Seq(Fields)
        /\ Length(packet) <= packet.size /\ Length(packet) <= packet.limit
    BY DEF PacketInv, WriterInBounds
  <1>2. PICK at : /\ Spans(at, packet.data, fields)
                  /\ mark # -1 => marked \in 0..Len(fields) /\ at[marked] = mark
    BY DEF PacketInv, HoldsFields
  <1>3. /\ packet' \in Written /\ (WriterInBounds)'
        /\ packet'.data = IF packet'.error = NONE THEN packet.data \o bytes ELSE packet.data
    BY <1>1, WriteAll DEF WriterInBounds
  <1>4. CASE packet'.error # NONE
    <2>1. packet'.data = packet.data /\ fields' = fields BY <1>3, <1>4
    <2>2. at \in [0..Len(fields) -> 0..Len(packet.data)] BY <1>2 DEF Spans
    <2> QED BY <1>1, <1>2, <1>3, <2>1, <2>2 DEF PacketInv, HoldsFields, Length
  <1>5. CASE packet'.error = NONE
    <2>1. packet'.data = packet.data \o bytes /\ fields' = fields \o gs BY <1>3, <1>5
    <2>2. packet.data \in Seq(Byte) BY <1>1 DEF Written
    <2>3. PICK ct \in [0..Len(fields \o gs) -> 0..Len(packet.data \o bytes)] :
            /\ Spans(ct, packet.data \o bytes, fields \o gs)
            /\ \A k \in 0..Len(fields) : ct[k] = at[k]
      <3>1. bytes \in Seq(Byte) /\ gs \in Seq(Fields) /\ Spans(bt, bytes, gs) OBVIOUS
      <3>2. Spans(at, packet.data, fields) /\ fields \in Seq(Fields) BY <1>1, <1>2
      <3>3. Follows(at, packet.data, fields, bytes, gs) BY <2>2, <3>1, <3>2, Joined
      <3> QED BY <3>3 DEF Follows
    <2>4. fields' \in Seq(Fields) /\ 0..Len(fields) \subseteq 0..Len(fields')
      BY <1>1, <2>1
    <2>5. mark' # -1 => marked' \in 0..Len(fields') /\ ct[marked'] = mark'
      BY <1>2, <2>3, <2>4
    <2> QED BY <1>3, <2>1, <2>3, <2>4, <2>5 DEF PacketInv, HoldsFields, Length
  <1> QED BY <1>4, <1>5

\* A copy of a sound packet is complete; a copy of one that failed is empty.
LEMMA Copied ==
  ASSUME NEW p \in Written, Length(p) <= p.size, Length(p) <= p.limit
  PROVE  LET q == packet_dup(p) IN
           /\ q \in Written /\ Length(q) <= q.size /\ Length(q) <= q.limit
           /\ p.error = NONE => q.error = NONE /\ q.data = p.data
           /\ p.error # NONE => q.error # NONE /\ q.data = <<>>
  <1> DEFINE b == [packet_new(p.size, p.expand) EXCEPT !.limit = p.limit, !.error = p.error]
             q == packet_write(b, p.data)
  <1>0. p.data \in Seq(Byte) /\ p.size \in Nat /\ p.limit \in Nat /\ p.expand \in Nat
        /\ Len(p.data) \in Nat /\ Length(p) = Len(p.data)
    BY DEF Written, Length
  <1>1. /\ b \in Written /\ b.data = <<>> /\ b.size = p.size /\ b.limit = p.limit
        /\ b.error = p.error
    <2> DEFINE new == packet_new(p.size, p.expand)
    <2>1. new \in Written /\ new.data = <<>> /\ new.size = p.size
      BY <1>0, CodecAssumption DEF packet_new, Written
    <2>2. b = [new EXCEPT !.limit = p.limit, !.error = p.error] OBVIOUS
    <2> HIDE DEF new, b
    <2> QED BY <1>0, <2>1, <2>2 DEF Written
  <1>2. packet_dup(p) = q BY DEF packet_dup
  <1> HIDE DEF b
  <1>3. Length(b) = 0 BY <1>1 DEF Length
  <1>4. /\ q \in Written /\ Length(q) <= q.size /\ Length(q) <= q.limit
        /\ q.data = IF q.error = NONE THEN <<>> \o p.data ELSE <<>>
        /\ b.error # NONE => q.error # NONE
    <2>1. Length(b) <= b.size /\ Length(b) <= b.limit BY <1>0, <1>1, <1>3
    <2> QED BY <1>0, <1>1, <2>1, WriteAll
  <1>5. p.error = NONE => q.error = NONE
    <2> SUFFICES ASSUME p.error = NONE PROVE q.error = NONE OBVIOUS
    <2>1. Fits(b, Len(p.data)) /\ ~(Length(b) > b.limit \/ Len(p.data) > b.limit - Length(b))
      BY <1>0, <1>1, <1>3 DEF Fits
    <2>2. packet_ensure(b, Len(p.data)) = b BY <1>1, <2>1 DEF packet_ensure
    <2>3. q \in {b, [b EXCEPT !.data = b.data \o p.data]}
      BY <1>1, <2>2 DEF packet_write
    <2> QED BY <1>1, <2>3 DEF Written
  <1>6. <<>> \o p.data = p.data BY <1>0
  <1> HIDE DEF q
  <1> QED BY <1>1, <1>2, <1>4, <1>5, <1>6

\* One step per function of packet.c.
LEMMA PacketStep == PacketInv /\ [PacketNext]_packetVars => PacketInv'
  <1> SUFFICES ASSUME PacketInv, [PacketNext]_packetVars PROVE PacketInv'
    OBVIOUS
  <1>1. packet \in Written /\ fields \in Seq(Fields) /\ packet.data \in Seq(Byte)
        /\ Length(packet) <= packet.size /\ Length(packet) <= packet.limit
        /\ Length(packet) = Len(packet.data)
    BY DEF PacketInv, WriterInBounds, Written, Length
  <1>2. PICK at \in [0..Len(fields) -> 0..Length(packet)] :
          /\ Spans(at, packet.data, fields)
          /\ mark # -1 => marked \in 0..Len(fields) /\ at[marked] = mark
    BY DEF PacketInv, HoldsFields
  <1>3. ASSUME NEW f \in Fields, Write(f) PROVE PacketInv'
    <2>1. PICK bt : Spans(bt, Encode(f), <<f>>) BY Single
    <2>2. fields' = IF packet'.error = NONE THEN fields \o <<f>> ELSE fields
      <3>1. Append(fields, f) = fields \o <<f>> BY <1>1
      <3> QED BY <1>3, <3>1 DEF Write
    <2>3. packet' = packet_write(packet, Encode(f)) /\ mark' = mark /\ marked' = marked
      BY <1>3 DEF Write
    <2>4. Encode(f) \in Seq(Byte) /\ <<f>> \in Seq(Fields) BY FieldBytes
    <2> HIDE DEF Encode
    <2> QED BY <2>1, <2>2, <2>3, <2>4, Appended
  <1>4. CASE packet_writer_write_packet
    <2>1. /\ packet.error = NONE => packet_dup(packet).data = packet.data
          /\ packet.error # NONE => packet_dup(packet).data = <<>>
      BY <1>1, Copied
    <2>2. /\ packet' = packet_write(packet, packet_dup(packet).data)
          /\ fields' = IF packet'.error = NONE THEN fields \o fields ELSE fields
          /\ mark' = mark /\ marked' = marked
      BY <1>4 DEF packet_writer_write_packet
    <2>3. CASE packet.error = NONE
      BY <1>1, <1>2, <2>1, <2>2, <2>3, Appended
    <2>4. CASE packet.error # NONE
      <3>1. packet' = packet BY <2>1, <2>2, <2>4 DEF packet_write
      <3>2. fields' = fields BY <2>2, <2>4, <3>1
      <3> QED BY <2>2, <3>1, <3>2 DEF PacketInv, WriterInBounds, HoldsFields
    <2> QED BY <2>3, <2>4
  <1>5. CASE packet_writer_mark
    <2>1. /\ packet' = packet /\ fields' = fields
          /\ mark' = Len(packet.data) /\ marked' = Len(fields)
      BY <1>5 DEF packet_writer_mark, Length
    <2>2. at[Len(fields)] = Len(packet.data) /\ Len(fields) \in 0..Len(fields)
      BY <1>1, <1>2 DEF Spans
    <2> QED BY <1>1, <1>2, <2>1, <2>2 DEF PacketInv, WriterInBounds, HoldsFields, Length
  <1>6. CASE packet_writer_rollback
    <2>1. /\ mark # -1 /\ packet' = [packet EXCEPT !.data = SubSeq(@, 1, mark)]
          /\ fields' = SubSeq(fields, 1, marked) /\ mark' = mark /\ marked' = marked
      BY <1>6 DEF packet_writer_rollback
    <2>2. marked \in 0..Len(fields) /\ at[marked] = mark BY <1>2, <2>1
    <2>3. PICK bt \in [0..Len(SubSeq(fields, 1, marked))
                        -> 0..Len(SubSeq(packet.data, 1, mark))] :
            /\ Spans(bt, SubSeq(packet.data, 1, mark), SubSeq(fields, 1, marked))
            /\ bt[marked] = mark
            /\ Len(SubSeq(fields, 1, marked)) = marked
            /\ Len(SubSeq(packet.data, 1, mark)) = mark
      <3>1. Spans(at, packet.data, fields) /\ fields \in Seq(Fields)
            /\ packet.data \in Seq(Byte)
        BY <1>1, <1>2
      <3>2. Remains(at, packet.data, fields, marked) BY <2>2, <3>1, Cut
      <3> QED BY <2>2, <3>2 DEF Remains
    <2>4. mark \in 0..Len(packet.data) BY <1>1, <1>2, <2>2
    <2>5. SubSeq(packet.data, 1, mark) \in Seq(Byte)
          /\ SubSeq(fields, 1, marked) \in Seq(Fields)
      BY <1>1, <2>2, <2>4
    <2>6. packet' \in Written /\ packet'.data = SubSeq(packet.data, 1, mark)
          /\ packet'.size = packet.size /\ packet'.limit = packet.limit
      BY <1>1, <2>1, <2>5 DEF Written
    <2>7. (WriterInBounds)'
      BY <1>1, <2>3, <2>4, <2>6 DEF WriterInBounds, Length, Written
    <2>8. marked \in 0..marked BY <1>1, <2>2
    <2> QED BY <2>1, <2>3, <2>5, <2>6, <2>7, <2>8 DEF PacketInv, HoldsFields, Length
  <1>7. CASE SetLimit
    <2>1. PICK limit \in Limits : packet' = packet_writer_set_limit(packet, limit)
      BY <1>7 DEF SetLimit
    <2>2. mark' = mark /\ fields' = fields /\ marked' = marked BY <1>7 DEF SetLimit
    <2>3. limit \in Nat BY PacketAssumption
    <2>4. packet' \in Written /\ packet'.data = packet.data /\ (WriterInBounds)'
      BY <1>1, <2>1, <2>3 DEF packet_writer_set_limit, Written, WriterInBounds, Length
    <2> QED BY <1>1, <1>2, <2>2, <2>4 DEF PacketInv, HoldsFields, Length
  <1>8. CASE DeleteFirst
    <2> DEFINE n == Len(Encode(Head(fields)))
               e == SubSeq(packet.data, 1, 0)
                      \o SubSeq(packet.data, (0 + n) + 1, Len(packet.data))
    <2>1. /\ fields # <<>> /\ packet' = packet_delete(packet, 0, n)
          /\ fields' = Tail(fields) /\ mark' = -1 /\ marked' = 0
      BY <1>8 DEF DeleteFirst
    <2>2. n \in Nat /\ Tail(fields) \in Seq(Fields)
      <3>1. Head(fields) \in Fields BY <1>1, <2>1
      <3> QED BY <1>1, <2>1, <3>1, FieldBytes
    <2>3. n <= Len(packet.data)
      <3>1. 1 \in 1..Len(fields) /\ 1 - 1 = 0 /\ Head(fields) = fields[1] BY <1>1, <2>1
      <3>2. at[1] = 0 + n BY <1>2, <3>1 DEF Spans
      <3> QED BY <1>1, <1>2, <2>2, <3>1, <3>2
    <2>4. e \in Seq(Byte) /\ Len(e) = Len(packet.data) - n
          /\ \A i \in 1..Len(e) : e[i] = packet.data[n + i]
      BY <1>1, <2>2, <2>3
    <2>5. packet' = [packet EXCEPT !.data = e]
      BY <1>1, <2>1, <2>2, <2>3 DEF packet_delete, Length
    <2> HIDE DEF e
    <2>6. packet' \in Written /\ packet'.data = e /\ packet'.size = packet.size
          /\ packet'.limit = packet.limit
      BY <1>1, <2>4, <2>5 DEF Written
    <2>7. (WriterInBounds)'
      BY <1>1, <2>2, <2>4, <2>6 DEF WriterInBounds, Length, Written
    <2>8. PICK bt \in [0..Len(Tail(fields)) -> 0..Len(e)] : Spans(bt, e, Tail(fields))
      BY <1>1, <1>2, <2>1, <2>2, <2>4, Dropped
    <2> QED BY <2>1, <2>2, <2>6, <2>7, <2>8 DEF PacketInv, HoldsFields, Length
  <1>9. CASE Duplicate
    <2>1. /\ packet' = packet_dup(packet) /\ mark' = -1
          /\ fields' = IF packet.error = NONE THEN fields ELSE <<>>
      BY <1>9 DEF Duplicate
    <2>2. /\ packet' \in Written /\ (WriterInBounds)'
          /\ packet.error = NONE => packet'.data = packet.data
          /\ packet.error # NONE => packet'.data = <<>>
      BY <1>1, <2>1, Copied DEF WriterInBounds
    <2>3. CASE packet.error = NONE
      BY <1>1, <1>2, <2>1, <2>2, <2>3 DEF PacketInv, HoldsFields, Length
    <2>4. CASE packet.error # NONE
      <3> DEFINE none == [k \in 0..0 |-> 0]
      <3>1. none \in [0..Len(<<>>) -> 0..Len(<<>>)] /\ Spans(none, <<>>, <<>>)
        BY DEF Spans
      <3>2. <<>> \in Seq(Fields) OBVIOUS
      <3> HIDE DEF none
      <3> QED BY <2>1, <2>2, <2>4, <3>1, <3>2 DEF PacketInv, HoldsFields, Length
    <2> QED BY <2>3, <2>4
  <1>10. CASE UNCHANGED packetVars
    BY <1>10 DEF packetVars, PacketInv, WriterInBounds, HoldsFields
  <1> QED
    BY <1>3, <1>4, <1>5, <1>6, <1>7, <1>8, <1>9, <1>10 DEF PacketNext

\* The invariant of the writer.
LEMMA PacketInvariance == PacketSpec => []PacketInv
  <1>1. PacketInit => PacketInv
    <2> SUFFICES ASSUME PacketInit PROVE PacketInv OBVIOUS
    <2>1. PICK size \in Sizes, expand \in Sizes : packet = packet_new(size, expand)
      BY DEF PacketInit
    <2>2. size \in Nat /\ expand \in Nat BY PacketAssumption
    <2>3. packet \in Written /\ packet.data = <<>> /\ WriterInBounds
      BY <2>1, <2>2, CodecAssumption DEF packet_new, Written, WriterInBounds, Length
    <2> DEFINE none == [k \in 0..0 |-> 0]
    <2>4. none \in [0..Len(<<>>) -> 0..Len(<<>>)] /\ Spans(none, <<>>, <<>>)
      BY DEF Spans
    <2>5. fields = <<>> /\ fields \in Seq(Fields) /\ mark = -1 BY DEF PacketInit
    <2> HIDE DEF none
    <2> QED BY <2>3, <2>4, <2>5 DEF PacketInv, HoldsFields, Length
  <1> QED BY <1>1, PacketStep, PTL DEF PacketSpec

\* The bytes stay within the buffer and the limit, through growth, limits that
\* change, marks, deletions and copies (packet_ensure() of packet.c).
THEOREM WithinBuffer == PacketSpec => []WriterInBounds
  BY PacketInvariance, PTL DEF PacketInv

\* The buffer holds the encodings of the fields that were written and not taken
\* back, one after the other and nothing else, whatever failed in between (the
\* writers, packet_writer_rollback(), packet_delete() and packet_dup()).
THEOREM FieldsInOrder == PacketSpec => []HoldsFields
  BY PacketInvariance, PTL DEF PacketInv

\* A packet that has failed stays failed and does not grow (the sticky error of
\* packet.c).
THEOREM Sticky == PacketSpec => FailureSticks
  <1> DEFINE A == packet.error # NONE =>
                    packet'.error # NONE /\ Length(packet') <= Length(packet)
  <1>1. PacketInv /\ PacketInv' /\ [PacketNext]_packetVars => [A]_packetVars
    <2> SUFFICES ASSUME PacketInv, PacketNext, packet.error # NONE
                 PROVE  packet'.error # NONE /\ Length(packet') <= Length(packet)
      OBVIOUS
    <2>1. packet \in Written /\ fields \in Seq(Fields) /\ packet.data \in Seq(Byte)
          /\ Length(packet) <= packet.size /\ Length(packet) <= packet.limit
          /\ Length(packet) = Len(packet.data) /\ Length(packet) \in Nat
      BY DEF PacketInv, WriterInBounds, Written, Length
    <2>2. \A bytes : packet_write(packet, bytes) = packet
      BY DEF packet_write, packet_ensure
    <2>3. ASSUME NEW f \in Fields, Write(f) PROVE packet' = packet
      BY <2>2, <2>3 DEF Write
    <2>4. CASE packet_writer_write_packet
      BY <2>1, <2>2, <2>4 DEF packet_writer_write_packet
    <2>5. CASE packet_writer_mark BY <2>1, <2>5 DEF packet_writer_mark
    <2>6. CASE packet_writer_rollback
      <3>1. packet' = [packet EXCEPT !.data = SubSeq(@, 1, mark)] /\ mark <= Length(packet)
            /\ mark # -1
        BY <2>6 DEF packet_writer_rollback
      <3>2. mark \in Nat
        <4>1. PICK at \in [0..Len(fields) -> 0..Length(packet)] :
                marked \in 0..Len(fields) /\ at[marked] = mark
          BY <3>1 DEF PacketInv, HoldsFields
        <4> QED BY <2>1, <4>1
      <3>3. packet'.data = SubSeq(packet.data, 1, mark) /\ packet'.error = packet.error
        BY <2>1, <3>1 DEF Written
      <3>4. Len(SubSeq(packet.data, 1, mark)) = mark BY <2>1, <3>1, <3>2
      <3> QED BY <3>1, <3>3, <3>4 DEF Length
    <2>7. CASE SetLimit
      BY <2>1, <2>7 DEF SetLimit, packet_writer_set_limit, Written, Length, NONE
    <2>8. CASE DeleteFirst
      <3> DEFINE n == Len(Encode(Head(fields)))
                 e == SubSeq(packet.data, 1, 0)
                        \o SubSeq(packet.data, (0 + n) + 1, Len(packet.data))
      <3>1. n \in Nat
        <4>1. Head(fields) \in Fields BY <2>1, <2>8 DEF DeleteFirst
        <4> QED BY <4>1, FieldBytes
      <3>2. \/ packet' = packet
            \/ n <= Len(packet.data) /\ packet' = [packet EXCEPT !.data = e]
        <4>1. packet' = packet_delete(packet, 0, n) BY <2>8 DEF DeleteFirst
        <4> HIDE DEF n
        <4>2. n > Len(packet.data) - 0 <=> ~(n <= Len(packet.data)) BY <2>1, <3>1
        <4> QED BY <2>1, <3>1, <4>1, <4>2 DEF packet_delete, Length
      <3>3. ASSUME n <= Len(packet.data) PROVE Len(e) <= Len(packet.data)
        <4> HIDE DEF n
        <4>1. SubSeq(packet.data, 1, 0) = <<>> BY <2>1
        <4>2. Len(SubSeq(packet.data, (0 + n) + 1, Len(packet.data))) = Len(packet.data) - n
          BY <2>1, <3>1, <3>3
        <4> QED BY <2>1, <3>1, <4>1, <4>2
      <3> HIDE DEF n, e
      <3> QED BY <2>1, <3>2, <3>3 DEF Written, Length
    <2>9. CASE Duplicate
      <3>1. packet'.error # NONE /\ packet'.data = <<>>
        BY <2>1, <2>9, Copied DEF Duplicate
      <3> QED BY <2>1, <3>1 DEF Length
    <2> QED
      BY <2>1, <2>3, <2>4, <2>5, <2>6, <2>7, <2>8, <2>9 DEF PacketNext
  <1> QED BY <1>1, PacketInvariance, PTL DEF PacketSpec, FailureSticks

-----------------------------------------------------------------------------
(* Reader scopes (PacketScope)                                              *)

Scope == [initialized : BOOLEAN, block : Blocks \cup {"none"}, pos : Nat,
          error : {OK, BAD}, start : Nat, read : SUBSET Nat, skipped : SUBSET Nat,
          failed : BOOLEAN]
InUse == [block : Blocks \cup {"none"}, pos : Nat, error : {OK, BAD}, scope : Nat]

\* As long as no reader of a scope has failed, its position splits the bytes:
\* those behind it, from the start on, have been read or passed over, and none
\* beyond.
Sound(s) ==
  /\ s.error = BAD <=> s.failed
  /\ ~s.initialized => s.pos = 0 /\ s.start = 0 /\ s.read = {} /\ s.skipped = {}
  /\ s.initialized => s.block \in Blocks
  /\ s.initialized /\ ~s.failed =>
       /\ s.start <= s.pos /\ s.pos <= BlockLen[s.block]
       /\ \A i \in Nat : i \in s.read \cup s.skipped => i < s.pos
       /\ \A i \in Nat : s.start <= i /\ i < s.pos => i \in s.read \cup s.skipped

\* A reader of a scope is on its bytes.
Inside(q, s) == s.initialized /\ q.block = s.block

ScopeInv ==
  /\ scopes \in Seq(Scope) /\ readers \in [Reader -> InUse]
  /\ \A i \in 1..Len(scopes) : Sound(scopes[i])
  /\ \A r \in Reader : readers[r].scope # 0 =>
       readers[r].scope \in 1..Len(scopes) /\ Inside(readers[r], scopes[readers[r].scope])

-----------------------------------------------------------------------------
\* What happens to one scope leaves the others alone.
LEMMA Elsewhere ==
  ASSUME NEW n \in 1..Len(scopes), NEW t \in Scope, ScopeInv, Sound(t),
         NEW q \in [Reader -> InUse],
         \A r \in Reader : q[r].scope # 0 =>
           /\ q[r].scope \in 1..Len(scopes)
           /\ Inside(q[r], IF q[r].scope = n THEN t ELSE scopes[q[r].scope]),
         scopes' = [scopes EXCEPT ![n] = t], readers' = q
  PROVE  ScopeInv'
  BY DEF ScopeInv

\* One step per function that readers and scopes have.
LEMMA ScopeStep == ScopeInv /\ [ScopeNext]_scopeVars => ScopeInv'
  <1> SUFFICES ASSUME ScopeInv, [ScopeNext]_scopeVars PROVE ScopeInv'
    OBVIOUS
  <1>0. scopes \in Seq(Scope) /\ readers \in [Reader -> InUse] BY DEF ScopeInv
  <1>1. CASE packet_reader_scope_begin
    <2>1. Fresh \in Scope /\ Sound(Fresh) BY DEF Fresh, Scope, Sound, OK, BAD
    <2>2. scopes' = Append(scopes, Fresh) /\ readers' = readers
      BY <1>1 DEF packet_reader_scope_begin
    <2> QED BY <1>0, <2>1, <2>2 DEF ScopeInv
  <1>2. ASSUME NEW r \in Reader, NEW b \in Blocks, NEW pos \in Starts(b),
               ReaderInitAt(r, b, pos)
        PROVE  ScopeInv'
    <2> DEFINE n == Len(scopes)
               last == scopes[n]
               s == IF last.initialized THEN last
                    ELSE [last EXCEPT !.initialized = TRUE, !.block = b,
                                      !.pos = pos, !.start = pos]
               bad == pos > BlockLen[b]
               t == IF bad THEN FailScope(s) ELSE s
               new == [block |-> b, pos |-> IF bad THEN 0 ELSE pos,
                       error |-> IF bad THEN BAD ELSE OK,
                       scope |-> IF JoinsScope(b) THEN n ELSE 0]
               q == [readers EXCEPT ![r] = new]
    <2>1. BlockLen[b] \in Nat /\ pos \in Nat
      <3>1. BlockLen[b] \in Nat BY ScopeAssumption
      <3> QED BY <3>1 DEF Starts
    <2>2. new \in InUse /\ q \in [Reader -> InUse]
      BY <1>0, <2>1 DEF InUse, OK, BAD
    <2>3. CASE ~JoinsScope(b)
      <3>1. scopes' = scopes /\ readers' = q
        BY <1>2, <2>3 DEF ReaderInitAt
      <3> QED BY <2>2, <2>3, <3>1 DEF ScopeInv
    <2>4. CASE JoinsScope(b)
      <3>1. n \in 1..Len(scopes) /\ last \in Scope /\ Sound(last)
        BY <1>0, <2>4 DEF JoinsScope, ScopeInv
      <3>2. scopes' = [scopes EXCEPT ![n] = t] /\ readers' = q
        BY <1>2, <2>4 DEF ReaderInitAt, Last
      <3>3. last.initialized => b = last.block BY <2>4 DEF JoinsScope, Last
      <3>4. s \in Scope /\ t \in Scope
        BY <2>1, <3>1 DEF Scope, FailScope, OK, BAD
      <3>6. Sound(t) /\ t.initialized /\ t.block = b
        <4>1. CASE last.initialized
          BY <3>1, <3>3, <4>1 DEF Sound, Scope, FailScope, OK, BAD
        <4>2. CASE ~last.initialized
          <5>1. last.failed <=> last.error = BAD BY <3>1 DEF Sound
          <5> QED BY <2>1, <3>1, <4>2, <5>1 DEF Sound, Scope, FailScope, OK, BAD
        <4> QED BY <4>1, <4>2
      <3>7. \A k \in Reader : q[k].scope # 0 =>
              /\ q[k].scope \in 1..Len(scopes)
              /\ Inside(q[k], IF q[k].scope = n THEN t ELSE scopes[q[k].scope])
        <4> SUFFICES ASSUME NEW k \in Reader, q[k].scope # 0
                     PROVE  /\ q[k].scope \in 1..Len(scopes)
                            /\ Inside(q[k], IF q[k].scope = n THEN t
                                           ELSE scopes[q[k].scope])
          OBVIOUS
        <4>1. CASE k = r
          <5>1. q[k] = new BY <1>0, <4>1
          <5>2. new.scope = n /\ new.block = b BY <2>4
          <5> QED BY <3>1, <3>6, <5>1, <5>2 DEF Inside
        <4>2. CASE k # r
          <5>1. q[k] = readers[k] /\ q[k] \in InUse BY <1>0, <4>2
          <5>2. /\ q[k].scope \in 1..Len(scopes)
                /\ Inside(q[k], scopes[q[k].scope])
            BY <5>1 DEF ScopeInv
          <5>3. q[k].scope = n => last.initialized /\ t.block = last.block
            BY <3>1, <3>6, <5>2 DEF Inside, FailScope, Scope
          <5> QED BY <3>6, <5>2, <5>3 DEF Inside
        <4> QED BY <4>1, <4>2
      <3> HIDE DEF n, s, t, q, new
      <3> QED BY <2>2, <3>1, <3>2, <3>4, <3>6, <3>7, Elsewhere
    <2> QED BY <2>3, <2>4
  <1>3. ASSUME NEW r \in Reader, ReaderFails(r)
        PROVE  ScopeInv'
    <2> DEFINE n == readers[r].scope
               q == [readers EXCEPT ![r].error = BAD]
               t == FailScope(scopes[n])
    <2>1. q \in [Reader -> InUse] BY <1>0 DEF InUse
    <2>2. \A k \in Reader : q[k].scope = readers[k].scope
                           /\ q[k].block = readers[k].block /\ q[k].pos = readers[k].pos
      BY <1>0 DEF InUse
    <2>3. readers' = q BY <1>3 DEF ReaderFails
    <2>4. CASE n = 0
      <3>1. scopes' = scopes BY <1>3, <2>4 DEF ReaderFails
      <3> QED BY <2>1, <2>2, <2>3, <3>1 DEF ScopeInv, Inside
    <2>5. CASE n # 0
      <3>1. n \in 1..Len(scopes) /\ scopes[n] \in Scope /\ Sound(scopes[n])
        BY <1>0, <2>5 DEF ScopeInv
      <3>2. scopes' = [scopes EXCEPT ![n] = t] BY <1>3, <2>5 DEF ReaderFails
      <3>3. t \in Scope /\ Sound(t) /\ t.failed /\ t.block = scopes[n].block
            /\ t.initialized = scopes[n].initialized
        BY <3>1 DEF FailScope, Scope, Sound
      <3>4. \A k \in Reader : q[k].scope # 0 =>
              /\ q[k].scope \in 1..Len(scopes)
              /\ Inside(q[k], IF q[k].scope = n THEN t ELSE scopes[q[k].scope])
        BY <2>2, <3>3 DEF ScopeInv, Inside
      <3> HIDE DEF n, t, q
      <3> QED BY <2>1, <2>3, <3>1, <3>2, <3>3, <3>4, Elsewhere
    <2> QED BY <2>4, <2>5
  <1>4. ASSUME NEW r \in Reader, NEW len \in 0..MaxTake, ReaderTakes(r, len)
        PROVE  ScopeInv'
    <2> DEFINE p == readers[r].pos
               n == readers[r].scope
               q == [readers EXCEPT ![r].pos = p + len]
               s == scopes[n]
               t == Advance(s, p, p + len)
    <2>0. len \in Nat /\ p \in Nat /\ p + len \in Nat
      <3>1. len \in Nat BY ScopeAssumption
      <3>2. p \in Nat BY <1>0 DEF InUse
      <3> QED BY <3>1, <3>2
    <2>1. CASE len > BlockLen[readers[r].block] - p
      BY <1>3, <1>4, <2>1 DEF ReaderTakes
    <2>2. CASE ~(len > BlockLen[readers[r].block] - p)
      <3>1. readers' = q /\ scopes' = IF n = 0 \/ len = 0 THEN scopes
                                      ELSE [scopes EXCEPT ![n] = t]
        BY <1>4, <2>2 DEF ReaderTakes
      <3>2. q \in [Reader -> InUse] BY <1>0, <2>0 DEF InUse
      <3>3. /\ \A k \in Reader : q[k].scope = readers[k].scope
                               /\ q[k].block = readers[k].block
            /\ \A k \in Reader : k # r => q[k] = readers[k]
            /\ q[r].pos = p + len
        BY <1>0 DEF InUse
      <3>4. CASE n = 0 \/ len = 0
        BY <3>1, <3>2, <3>3, <3>4 DEF ScopeInv, Inside
      <3>5. CASE n # 0 /\ len # 0
        <4>1. n \in 1..Len(scopes) /\ s \in Scope /\ Sound(s) /\ Inside(readers[r], s)
          BY <1>0, <3>5 DEF ScopeInv, InUse
        <4>2. t \in Scope /\ t.failed = s.failed /\ t.block = s.block
              /\ t.initialized = s.initialized /\ t.start = s.start /\ t.error = s.error
              /\ t.pos = (IF p + len > s.pos THEN p + len ELSE s.pos)
              /\ t.read = s.read \cup p..((p + len) - 1)
              /\ t.skipped = s.skipped \cup s.pos..(p - 1)
          <5> HIDE DEF s, p
          <5> DEFINE to == IF p + len > s.pos THEN p + len ELSE s.pos
                     all == s.read \cup p..((p + len) - 1)
                     gap == s.skipped \cup s.pos..(p - 1)
          <5>1. all \in SUBSET Nat /\ gap \in SUBSET Nat /\ to \in Nat BY <2>0, <4>1 DEF Scope
          <5>2. t = [s EXCEPT !.pos = to, !.read = all, !.skipped = gap] BY DEF Advance
          <5> HIDE DEF t, to, all, gap
          <5>3. t \in Scope /\ t.failed = s.failed /\ t.block = s.block
                /\ t.initialized = s.initialized /\ t.start = s.start
                /\ t.error = s.error /\ t.pos = to /\ t.read = all /\ t.skipped = gap
            BY <4>1, <5>1, <5>2 DEF Scope
          <5> QED BY <5>3 DEF to, all, gap
        <4>3. s.initialized /\ s.block \in Blocks /\ BlockLen[s.block] \in Nat
              /\ p + len <= BlockLen[s.block]
          BY <2>0, <2>2, <4>1, ScopeAssumption DEF Inside, Sound
        <4>4. Sound(t)
          <5> HIDE DEF s, p, t
          <5>1. p..((p + len) - 1) = {i \in Nat : p <= i /\ i < p + len} BY <2>0
          <5>2. s.pos \in Nat /\ s.start \in Nat BY <4>1 DEF Scope
          <5>5. s.pos..(p - 1) = {i \in Nat : s.pos <= i /\ i < p} BY <2>0, <5>2
          <5>3. CASE s.failed
            BY <4>1, <4>2, <4>3, <5>3 DEF Sound
          <5>4. CASE ~s.failed
            <6>1. /\ s.start <= s.pos /\ s.pos <= BlockLen[s.block]
                  /\ \A i \in Nat : i \in s.read \cup s.skipped => i < s.pos
                  /\ \A i \in Nat : s.start <= i /\ i < s.pos
                                     => i \in s.read \cup s.skipped
              BY <4>1, <4>3, <5>4 DEF Sound
            <6>2. s.error = BAD <=> s.failed BY <4>1 DEF Sound
            <6>3. t.start <= t.pos /\ t.pos <= BlockLen[t.block]
              BY <2>0, <4>2, <4>3, <5>2, <6>1
            <6>4. \A i \in Nat : i \in t.read \cup t.skipped => i < t.pos
              BY <2>0, <3>5, <4>2, <5>1, <5>2, <5>5, <6>1
            <6>5. \A i \in Nat : t.start <= i /\ i < t.pos => i \in t.read \cup t.skipped
              BY <2>0, <4>2, <5>1, <5>2, <5>5, <6>1
            <6> QED BY <4>2, <4>3, <6>2, <6>3, <6>4, <6>5 DEF Sound
          <5> QED BY <5>3, <5>4
        <4>5. \A k \in Reader : q[k].scope # 0 =>
                /\ q[k].scope \in 1..Len(scopes)
                /\ Inside(q[k], IF q[k].scope = n THEN t ELSE scopes[q[k].scope])
          <5> SUFFICES ASSUME NEW k \in Reader, q[k].scope # 0
                       PROVE  /\ q[k].scope \in 1..Len(scopes)
                              /\ Inside(q[k], IF q[k].scope = n THEN t
                                             ELSE scopes[q[k].scope])
            OBVIOUS
          <5> HIDE DEF t, q, s, n, p
          <5>1. /\ readers[k].scope \in 1..Len(scopes)
                /\ Inside(readers[k], scopes[readers[k].scope])
            BY <3>3 DEF ScopeInv
          <5>3. CASE readers[k].scope = n
            <6>1. s.initialized /\ readers[k].block = s.block
              BY <5>1, <5>3 DEF Inside, s
            <6>2. q[k].scope = n /\ q[k].block = t.block /\ t.initialized
              BY <3>3, <4>2, <5>3, <6>1
            <6> QED BY <4>1, <6>2 DEF Inside
          <5>4. CASE readers[k].scope # n
            <6>1. k # r BY <5>4 DEF n
            <6> QED BY <3>3, <5>1, <5>4, <6>1
          <5> QED BY <5>3, <5>4
        <4> HIDE DEF t, q, s, n
        <4> QED BY <3>1, <3>2, <3>5, <4>1, <4>2, <4>4, <4>5, Elsewhere
      <3> QED BY <3>4, <3>5
    <2> QED BY <2>1, <2>2
  <1>5. ASSUME NEW r \in Reader, Drop(r) PROVE ScopeInv'
    <2>1. Unused \in InUse /\ Unused.scope = 0 BY DEF Unused, InUse, OK
    <2>2. scopes' = scopes /\ readers' = [readers EXCEPT ![r] = Unused]
      BY <1>5 DEF Drop
    <2> QED BY <1>0, <2>1, <2>2 DEF ScopeInv
  <1>6. CASE packet_reader_scope_finish
    <2> DEFINE n == Len(scopes)
               e == IF scopes[n].pos # ScopeLen(scopes[n]) THEN BAD ELSE scopes[n].error
               Up(t) == IF e = OK THEN t ELSE FailScope(t)
               rest == [i \in 1..(n - 1) |->
                          IF i = n - 1 THEN Up(scopes[i]) ELSE scopes[i]]
    <2>1. n \in Nat \ {0} /\ scopes' = rest /\ readers' = readers
          /\ \A r \in Reader : readers[r].scope # n
      BY <1>0, <1>6 DEF packet_reader_scope_finish
    <2>2. ASSUME NEW t \in Scope, Sound(t)
          PROVE  /\ Up(t) \in Scope /\ Sound(Up(t))
                 /\ \A q \in InUse : Inside(q, t) => Inside(q, Up(t))
      <3>1. FailScope(t) \in Scope /\ FailScope(t).failed
            /\ FailScope(t).block = t.block /\ FailScope(t).initialized = t.initialized
            /\ Sound(FailScope(t))
        BY <2>2 DEF FailScope, Scope, Sound
      <3> QED BY <2>2, <3>1 DEF Inside
    <2> HIDE DEF Up, e
    <2>3. rest \in Seq(Scope) /\ Len(rest) = n - 1
      BY <1>0, <2>1, <2>2 DEF ScopeInv
    <2>4. \A i \in 1..(n - 1) : Sound(rest[i])
      BY <1>0, <2>1, <2>2 DEF ScopeInv
    <2>5. ASSUME NEW r \in Reader, readers[r].scope # 0
          PROVE  readers[r].scope \in 1..(n - 1) /\ Inside(readers[r], rest[readers[r].scope])
      <3>1. readers[r].scope \in 1..(n - 1) /\ readers[r] \in InUse
            /\ Inside(readers[r], scopes[readers[r].scope])
            /\ scopes[readers[r].scope] \in Scope /\ Sound(scopes[readers[r].scope])
        BY <1>0, <2>1, <2>5 DEF ScopeInv
      <3> QED BY <2>2, <3>1
    <2> QED BY <1>0, <2>1, <2>3, <2>4, <2>5 DEF ScopeInv
  <1>7. CASE UNCHANGED scopeVars
    BY <1>7 DEF scopeVars, ScopeInv
  <1> QED
    BY <1>1, <1>2, <1>3, <1>4, <1>5, <1>6, <1>7
    DEF ScopeNext, ReaderFinishes, packet_reader_set_error

\* The end of a scope approves of a packet exactly if no reader of it and no
\* scope within it failed and every byte from the first position on was taken, or
\* passed over by a reader that started beyond all others
\* (packet_reader_scope_finish()), for any number of readers.
THEOREM ScopeVerdict == ScopeSpec => []VerdictIsRight
  <1>1. ScopeInit => ScopeInv /\ VerdictIsRight
    BY DEF ScopeInit, ScopeInv, VerdictIsRight, Unused, InUse, OK
  <1>2. ScopeInv /\ VerdictIsRight /\ [ScopeNext]_scopeVars => VerdictIsRight'
    <2> SUFFICES ASSUME ScopeInv, VerdictIsRight, [ScopeNext]_scopeVars
                 PROVE  VerdictIsRight'
      OBVIOUS
    <2>1. CASE packet_reader_scope_finish
      <3> DEFINE s == scopes[Len(scopes)]
      <3>1. s \in Scope /\ Sound(s)
        BY <2>1 DEF packet_reader_scope_finish, ScopeInv
      <3>2. /\ verdict'.approved = ((IF s.pos # ScopeLen(s) THEN BAD ELSE s.error) = OK)
            /\ verdict'.deserved = (~s.failed /\ s.start..(ScopeLen(s) - 1) \subseteq s.read \cup s.skipped)
        BY <2>1 DEF packet_reader_scope_finish
      <3>3. verdict'.approved <=> s.pos = ScopeLen(s) /\ ~s.failed
        BY <3>1, <3>2 DEF Sound, Scope, OK, BAD
      <3>4. ASSUME ~s.failed
            PROVE  s.pos = ScopeLen(s)
                   <=> s.start..(ScopeLen(s) - 1) \subseteq s.read \cup s.skipped
        <4>1. CASE ~s.initialized
          BY <3>1, <4>1 DEF Sound, ScopeLen
        <4>2. CASE s.initialized
          <5>1. BlockLen[s.block] \in Nat /\ ScopeLen(s) = BlockLen[s.block]
            BY <3>1, <4>2, ScopeAssumption DEF Sound, ScopeLen
          <5> QED BY <3>1, <3>4, <4>2, <5>1 DEF Sound, Scope
        <4> QED BY <4>1, <4>2
      <3> QED BY <3>2, <3>3, <3>4 DEF VerdictIsRight
    <2>2. CASE UNCHANGED verdict
      BY <2>2 DEF VerdictIsRight
    <2> QED
      BY <2>1, <2>2
      DEF ScopeNext, scopeVars, packet_reader_scope_begin, ReaderInitAt, ReaderTakes,
          ReaderFinishes, packet_reader_set_error, ReaderFails, Drop
  <1> QED BY <1>1, <1>2, ScopeStep, PTL DEF ScopeSpec
=============================================================================
