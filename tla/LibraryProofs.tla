---------------------------- MODULE LibraryProofs ----------------------------
(***************************************************************************)
(* Proofs about the parts of the library that keep state of their own: the *)
(* cache of HTTP requests, the console, string buffers, the registry of    *)
(* APIs, the flood search, shared strings, options and memory pools.  They *)
(* share no state, so each has an inductive invariant of its own.  Nothing *)
(* is assumed but what the modules assume of their constants and, of the   *)
(* pools, that arrays fit into blocks (ExponentsFit).                      *)
(***************************************************************************)
EXTENDS CurlCache, Console, StringBuffer, Toolkit, Reachable, SharedStrings,
        CliOptions, Mempool, FiniteSetTheorems, FunctionTheorems, SequenceTheorems,
        WellFoundedInduction, TLAPS

-----------------------------------------------------------------------------
(* The cache (CurlCache)                                                    *)

\* A file is renamed after it was synchronised only, so that nothing visible
\* lacks its data on the disk.
SyncInv ==
  /\ version \in 1..MaxVersion
  /\ view \in [File -> 0..MaxVersion] /\ disk \in [File -> 0..MaxVersion]
  /\ unsynced = {}
  /\ pc \in [Worker -> {"idle", "transfer", "load", "served", "create", "sync", "rename"}]
  /\ file \in [Worker -> File]
  /\ sent \in [Worker -> 0..MaxVersion] /\ body \in [Worker -> 0..MaxVersion]
  /\ temp \in [Worker -> {"none", "written", "synced"}]
  /\ split \in BOOLEAN
  /\ \A w \in Worker : pc[w] = "rename" => temp[w] = "synced"

WritesTag(w) == pc[w] \in {"create", "sync", "rename"} /\ file[w] = "etag"

\* As long as nothing has parted them, one request runs at a time, and body and
\* ETag are of one answer except while that request writes the ETag of the body
\* it has just stored.
PairInv ==
  ~split =>
    /\ \A w, u \in Worker : w = u \/ pc[w] = "idle" \/ pc[u] = "idle"
    /\ (\A w \in Worker : ~WritesTag(w)) => view["etag"] \in {0, view["body"]}
    /\ \A w \in Worker :
         /\ WritesTag(w) => view["body"] = body[w]
         /\ pc[w] \in {"transfer", "load"} => sent[w] = view["etag"]
         /\ pc[w] = "load" => sent[w] # 0
         /\ pc[w] = "served" => body[w] = sent[w]

CacheInv == SyncInv /\ PairInv

\* An empty cache and no requests.
LEMMA CacheInitInv == CacheInit => CacheInv
  <1> SUFFICES ASSUME CacheInit PROVE CacheInv OBVIOUS
  <1>1. split \in BOOLEAN BY DEF CacheInit
  <1>2. SyncInv BY <1>1, CacheAssumption DEF CacheInit, SyncInv, File
  <1>3. PairInv BY DEF CacheInit, PairInv, WritesTag, File
  <1> QED BY <1>2, <1>3 DEF CacheInv

\* Files are replaced by synchronised ones, by threads and through crashes.
LEMMA SyncStep ==
  ASSUME SyncInv, [CacheNext]_cacheVars
  PROVE  SyncInv'
  <1> USE CacheAssumption DEF SyncInv, File, Goto, serverVars
  <1>1. ASSUME NEW w \in Worker, curl_load_etag(w) PROVE SyncInv'
    BY <1>1 DEF curl_load_etag
  <1>2. ASSUME NEW w \in Worker,
               NotModified(w) \/ Answered(w) \/ TransferFails(w) \/ Finish(w)
        PROVE  SyncInv'
    BY <1>2 DEF NotModified, Answered, TransferFails, Finish
  <1>3. ASSUME NEW w \in Worker, curl_load_cache(w) PROVE SyncInv'
    BY <1>3 DEF curl_load_cache
  <1>4. ASSUME NEW w \in Worker, WriteTemporary(w) \/ Sync(w) PROVE SyncInv'
    BY <1>4 DEF WriteTemporary, Sync
  <1>5. ASSUME NEW w \in Worker, path_rename(w) PROVE SyncInv'
    BY <1>5 DEF path_rename, Continue, Split
  <1>6. ASSUME NEW w \in Worker, WriteFails(w) PROVE SyncInv'
    BY <1>6 DEF WriteFails, Continue, Split
  <1>7. CASE Publish BY <1>7 DEF Publish
  <1>8. CASE Crash
    <2>1. \A f \in File : Recovered(f) \subseteq 0..MaxVersion BY DEF Recovered
    <2>2. view' \in [File -> 0..MaxVersion] /\ disk' \in [File -> 0..MaxVersion]
      BY <1>8, <2>1 DEF Crash
    <2>3. split' \in BOOLEAN BY <1>8 DEF Crash
    <2> QED BY <1>8, <2>2, <2>3 DEF Crash
  <1>9. ASSUME NEW f \in File, Settle(f) PROVE SyncInv'
    BY <1>9 DEF Settle
  <1>10. CASE UNCHANGED cacheVars BY <1>10 DEF cacheVars
  <1> QED BY <1>1, <1>2, <1>3, <1>4, <1>5, <1>6, <1>7, <1>8, <1>9, <1>10 DEF CacheNext

\* Every step keeps body and ETag of one answer, or says that it parts them.
LEMMA PairStep ==
  ASSUME SyncInv, PairInv, [CacheNext]_cacheVars
  PROVE  PairInv'
  <1> SUFFICES ASSUME ~split' PROVE PairInv' BY DEF PairInv
  <1> USE CacheAssumption DEF SyncInv, PairInv, WritesTag, Goto, serverVars
  <1>1. ASSUME NEW w \in Worker, curl_load_etag(w) PROVE PairInv'
    BY <1>1 DEF curl_load_etag, Others
  <1>2. ASSUME NEW w \in Worker, NotModified(w) PROVE PairInv'
    BY <1>2 DEF NotModified
  <1>3. ASSUME NEW w \in Worker, Answered(w) PROVE PairInv'
    BY <1>3 DEF Answered
  <1>4. ASSUME NEW w \in Worker, TransferFails(w) \/ Finish(w) PROVE PairInv'
    BY <1>4, SMTT(20) DEF TransferFails, Finish
  <1>5. ASSUME NEW w \in Worker, curl_load_cache(w) PROVE PairInv'
    BY <1>5 DEF curl_load_cache
  <1>6. ASSUME NEW w \in Worker, WriteTemporary(w) \/ Sync(w) PROVE PairInv'
    BY <1>6 DEF WriteTemporary, Sync
  <1>7. ASSUME NEW w \in Worker, path_rename(w) PROVE PairInv'
    BY <1>7 DEF path_rename, Continue, Split, File
  <1>8. ASSUME NEW w \in Worker, WriteFails(w) PROVE PairInv'
    BY <1>8 DEF WriteFails, Continue, Split, File
  <1>9. CASE Publish BY <1>9 DEF Publish
  <1>10. CASE Crash BY <1>10 DEF Crash
  <1>11. ASSUME NEW f \in File, Settle(f) PROVE PairInv'
    BY <1>11 DEF Settle
  <1>12. CASE UNCHANGED cacheVars BY <1>12 DEF cacheVars
  <1> QED BY <1>1, <1>2, <1>3, <1>4, <1>5, <1>6, <1>7, <1>8, <1>9, <1>10, <1>11,
            <1>12 DEF CacheNext

\* Files of the cache are whole, crashes included, and a 304 answer is served with
\* the body of its ETag unless a named event parted the two (curl_write_cache(),
\* curl_load_cache(), path_write_atomic()), for any number of threads.
THEOREM CacheSound == CacheSpec => []CacheIsSound
  <1>1. CacheInv /\ [CacheNext]_cacheVars => CacheInv' BY SyncStep, PairStep DEF CacheInv
  <1>2. CacheInv => CacheIsSound
    BY CacheAssumption DEF CacheInv, SyncInv, PairInv, CacheIsSound, NothingTorn,
       ServedMatchesETag, TORN
  <1> QED BY CacheInitInv, <1>1, <1>2, PTL DEF CacheSpec

-----------------------------------------------------------------------------
(* The console (Console)                                                    *)

\* The line that the thread has read and not yet pushed.
Pending == IF reader \in {"lock", "push"} THEN 1 ELSE 0

\* Lines that left the queue: all that were handled, but for the one at its head
\* while the handler has returned and the line is not erased.
Gone == IF main = "erase" THEN Len(handled) - 1 ELSE Len(handled)

\* Until deinitialisation, the queue holds the lines behind those that are gone,
\* in the order of typing; whoever takes a step between the two locked sections
\* of console_command_handle() leaves its head alone.
QueueInv ==
  /\ main \in {"idle", "parse", "call", "erase", "leave", "gone"}
  /\ reader \in {"none", "wait", "lock", "push", "unlock", "release", "dead"}
  /\ typed \in Nat /\ queue \in Seq(Nat) /\ handled \in Seq(Nat)
  /\ \A i \in 1..Len(handled) : handled[i] \in {i, 0}
  /\ main = "call" => current \in {queue[1], 0}
  /\ main \in {"parse", "call", "erase"} => queue # <<>>
  /\ main \in {"leave", "gone"} => reader \in {"none", "dead"}
  /\ main \notin {"leave", "gone"} =>
       /\ reader # "dead"
       /\ Gone + Len(queue) + Pending = typed
       /\ \A i \in 1..Len(queue) : queue[i] = Gone + i

\* Reading, pushing, handling and erasing keep the queue in order.
LEMMA QueueStep ==
  ASSUME QueueInv, [ConNext]_conVars
  PROVE  QueueInv'
  <1> USE DEF QueueInv, Pending, Gone, queueVars
  <1>1. CASE console_start_thread BY <1>1 DEF console_start_thread
  <1>2. CASE ReadLine
    <2>1. reader = "wait" /\ reader' = "lock" /\ typed' = typed + 1
          /\ UNCHANGED <<main, queue, current, handled>>
      BY <1>2 DEF ReadLine
    <2>2. Gone' = Gone /\ Pending = 0 /\ Pending' = 1 BY <2>1
    <2>3. main \notin {"leave", "gone"} BY <2>1
    <2>4. Gone' + Len(queue') + Pending' = typed' BY <2>1, <2>2, <2>3
    <2>5. \A i \in 1..Len(queue') : queue'[i] = Gone' + i BY <2>1, <2>2, <2>3
    <2> HIDE DEF Gone, Pending
    <2> QED BY <2>1, <2>3, <2>4, <2>5
  <1>3. CASE LockQueue BY <1>3 DEF LockQueue
  <1>4. CASE PushLine
    <2>1. queue' = Append(queue, typed) /\ reader = "push" /\ reader' = "unlock"
          /\ UNCHANGED <<main, handled, typed, current>>
      BY <1>4 DEF PushLine
    <2>2. main \notin {"leave", "gone"} BY <2>1
    <2>3. typed = Gone + Len(queue) + 1 BY <2>1, <2>2
    <2>4. queue' \in Seq(Nat) /\ Len(queue') = Len(queue) + 1 BY <2>1
    <2>5. \A i \in 1..Len(queue) : queue'[i] = queue[i] BY <2>1
    <2>6. queue'[Len(queue) + 1] = typed BY <2>1
    <2>7. Gone \in Int /\ Gone' = Gone /\ Pending' = 0 BY <2>1
    <2>8. \A i \in 1..Len(queue) : queue[i] = Gone + i BY <2>2
    <2>9. main = "call" => queue'[1] = queue[1] BY <2>5
    <2> HIDE DEF Gone, Pending
    <2>10. \A i \in 1..Len(queue') : queue'[i] = Gone' + i
      <3> TAKE i \in 1..Len(queue')
      <3>1. CASE i \in 1..Len(queue) BY <2>5, <2>7, <2>8, <3>1
      <3>2. CASE i = Len(queue) + 1 BY <2>3, <2>6, <2>7, <3>2
      <3> QED BY <2>4, <3>1, <3>2
    <2>11. Gone' + Len(queue') + Pending' = typed' BY <2>1, <2>3, <2>4, <2>7
    <2>12. queue' # <<>> BY <2>4
    <2> QED BY <2>1, <2>2, <2>4, <2>9, <2>10, <2>11, <2>12
  <1>5. CASE UnlockQueue BY <1>5 DEF UnlockQueue
  <1>6. CASE PeekLine BY <1>6 DEF PeekLine
  <1>7. CASE LookUp BY <1>7 DEF LookUp
  <1>8. CASE Handle
    <2>1. handled' = Append(handled, current) /\ main = "call" /\ main' = "erase"
          /\ UNCHANGED <<reader, queue, typed>>
      BY <1>8 DEF Handle
    <2>2. queue[1] = Len(handled) + 1 BY <2>1
    <2>3. current \in {Len(handled) + 1, 0} BY <2>1, <2>2
    <2>4. handled' \in Seq(Nat) /\ Len(handled') = Len(handled) + 1 BY <2>1, <2>3
    <2>5. \A i \in 1..Len(handled') : handled'[i] \in {i, 0} BY <2>1, <2>3
    <2> QED BY <2>1, <2>4, <2>5
  <1>9. CASE EraseLine
    <2>1. queue' = Tail(queue) /\ main = "erase" /\ main' = "idle" /\ queue # <<>>
          /\ UNCHANGED <<reader, handled, typed>>
      BY <1>9 DEF EraseLine
    <2>2. queue' \in Seq(Nat) /\ Len(queue') = Len(queue) - 1 BY <2>1
    <2>3. \A i \in 1..Len(queue') : queue'[i] = queue[i + 1] BY <2>1
    <2> QED BY <2>1, <2>2, <2>3
  <1>10. CASE Cancel BY <1>10 DEF Cancel
  <1>11. CASE Leave BY <1>11 DEF Leave
  <1>12. CASE ReleaseReadline BY <1>12 DEF ReleaseReadline
  <1>13. CASE UNCHANGED conVars BY <1>13 DEF conVars
  <1> QED BY <1>1, <1>2, <1>3, <1>4, <1>5, <1>6, <1>7, <1>8, <1>9, <1>10,
            <1>11, <1>12, <1>13 DEF ConNext

\* The lines of the console are handled in the order of typing, once each,
\* although the queue is unlocked while a line is handled (console.c:406 to 428).
THEOREM ConsoleInOrder == ConSpec => []LinesHandledInOrder
  <1>1. ConInit => QueueInv BY DEF ConInit, QueueInv, Pending, Gone
  <1>2. QueueInv /\ [ConNext]_conVars => QueueInv' BY QueueStep
  <1>3. QueueInv => LinesHandledInOrder
    <2> SUFFICES ASSUME QueueInv PROVE LinesHandledInOrder OBVIOUS
    <2>1. main \in {"parse", "call"} => queue # <<>> /\ queue[1] = Len(handled) + 1
      BY DEF QueueInv, Gone
    <2>2. main = "erase" => queue # <<>> /\ queue[1] = Len(handled)
      BY DEF QueueInv, Gone
    <2> QED BY <2>1, <2>2 DEF QueueInv, LinesHandledInOrder
  <1> QED BY <1>1, <1>2, <1>3, PTL DEF ConSpec

-----------------------------------------------------------------------------
(* String buffers (StringBuffer)                                            *)

\* A set of natural numbers that is not empty has a least element.
LEMMA Least ==
  ASSUME NEW T, T \subseteq Nat, T # {}
  PROVE  \E x \in T : \A y \in T : x <= y
  <1> DEFINE Rel == OpToRel(<, Nat)
  <1>1. IsWellFoundedOn(Rel, Nat) BY NatLessThanWellFounded
  <1> HIDE DEF Rel
  <1>2. PICK x \in T : \A y \in T : <<y, x>> \notin Rel BY <1>1, WFMin
  <1>3. \A y \in T : ~(y < x) BY <1>2 DEF Rel, OpToRel
  <1> QED BY <1>3

\* stringbuffer_rindex() finds the last of the places it looks for.
LEMMA RindexInText ==
  ASSUME NEW c, pos \in Nat, stringbuffer_rindex(c) # 0
  PROVE  stringbuffer_rindex(c) \in 1..pos
  <1> DEFINE hits == {i \in 1..pos : buf[i] = c}
  <1>1. hits # {} BY DEF stringbuffer_rindex
  <1>2. \E i \in hits : \A j \in hits : j <= i
    <2> DEFINE T == {pos - i : i \in hits}
    <2>1. T \subseteq Nat /\ T # {} BY <1>1
    <2> HIDE DEF T
    <2>2. PICK x \in T : \A y \in T : x <= y BY <2>1, Least
    <2>3. PICK i \in hits : x = pos - i BY <2>2 DEF T
    <2>4. \A j \in hits : pos - i <= pos - j BY <2>2, <2>3 DEF T
    <2> QED BY <2>3, <2>4
  <1>3. stringbuffer_rindex(c) = CHOOSE i \in hits : \A j \in hits : j <= i
    BY <1>1 DEF stringbuffer_rindex
  <1> QED BY <1>2, <1>3

\* The text is in the array, with room behind it.
TextInv ==
  /\ buf \in Seq(Characters \cup {GAP}) /\ pos \in Nat /\ meant \in Seq(Characters)
  /\ pos = Len(meant) /\ pos < Len(buf)
  /\ \A i \in 1..pos : buf[i] = meant[i]

\* stringbuffer_ensure() keeps the text and makes the room that it was asked for.
LEMMA EnsureGrows ==
  ASSUME NEW array0 \in Seq(Characters \cup {GAP}), pos \in Nat, pos < Len(array0),
         NEW n \in Nat
  PROVE  /\ stringbuffer_ensure(array0, n) \in Seq(Characters \cup {GAP})
         /\ Len(stringbuffer_ensure(array0, n)) >= pos + n
         /\ Len(stringbuffer_ensure(array0, n)) >= Len(array0)
         /\ \A i \in 1..pos : stringbuffer_ensure(array0, n)[i] = array0[i]
  <1>1. CASE pos + n <= Len(array0) BY <1>1 DEF stringbuffer_ensure
  <1>2. CASE ~(pos + n <= Len(array0))
    <2> DEFINE m == pos + n + MaxBuf - Len(array0)
    <2>1. m \in Nat BY <1>2, BufferAssumption
    <2> HIDE DEF m
    <2>2. Fresh(m) \in [1..m -> {GAP}] BY DEF Fresh
    <2>3. Fresh(m) \in Seq(Characters \cup {GAP}) /\ Len(Fresh(m)) = m BY <2>1, <2>2
    <2>4. stringbuffer_ensure(array0, n) = array0 \o Fresh(m)
      BY <1>2 DEF stringbuffer_ensure, m
    <2>5. Len(array0 \o Fresh(m)) = pos + n + MaxBuf
      BY <2>3, BufferAssumption DEF m
    <2>6. \A i \in 1..Len(array0) : (array0 \o Fresh(m))[i] = array0[i] BY <2>3
    <2> QED BY <1>2, <2>3, <2>4, <2>5, <2>6, BufferAssumption
  <1> QED BY <1>1, <1>2

\* A copy into an array that is large enough extends the text.
LEMMA CopyExtends ==
  ASSUME TextInv, NEW t \in Seq(Characters), NEW room0 \in Seq(Characters \cup {GAP}),
         Len(room0) > pos + Len(t), \A i \in 1..pos : room0[i] = buf[i],
         buf' = Copy(room0, t), pos' = pos + Len(t), meant' = meant \o t
  PROVE  TextInv'
  <1> USE DEF TextInv
  <1>1. meant' \in Seq(Characters) /\ Len(meant') = pos' OBVIOUS
  <1>2. \A i \in 1..Len(room0) : Copy(room0, t)[i] \in Characters \cup {GAP}
    BY DEF Copy
  <1>3. buf' \in Seq(Characters \cup {GAP}) /\ Len(buf') = Len(room0)
    BY <1>2 DEF Copy
  <1>4. \A i \in 1..pos : buf'[i] = meant'[i] BY DEF Copy
  <1>5. \A i \in (pos + 1)..pos' : buf'[i] = t[i - pos] /\ meant'[i] = t[i - pos]
    BY DEF Copy
  <1>6. \A i \in 1..pos' : buf'[i] = meant'[i] BY <1>4, <1>5
  <1> QED BY <1>1, <1>3, <1>6

\* "The invariant pos < size always holds" (stringbuffer.c:61), and the text that is
\* finished is the text that was appended, for every length, every growth and
\* every seek back to a character of the text.
THEOREM BufferExact == BufSpec => []BufferHoldsText
  <1>1. BufInit => TextInv
    <2> SUFFICES ASSUME BufInit PROVE TextInv OBVIOUS
    <2>1. buf \in [1..MaxBuf -> {GAP}] BY DEF BufInit, Fresh
    <2>2. buf \in Seq(Characters \cup {GAP}) /\ Len(buf) = MaxBuf
      BY <2>1, BufferAssumption
    <2> QED BY <2>2, BufferAssumption DEF BufInit, TextInv
  <1>2. ASSUME TextInv, [BufNext]_bufVars PROVE TextInv'
    <2>1. ASSUME NEW t \in Texts, stringbuffer_append_string_len(t) PROVE TextInv'
      <3> DEFINE room0 == stringbuffer_ensure(buf, Len(t) + 1)
      <3>1. t \in Seq(Characters) BY BufferAssumption
      <3>2. /\ room0 \in Seq(Characters \cup {GAP}) /\ Len(room0) >= pos + (Len(t) + 1)
            /\ \A i \in 1..pos : room0[i] = buf[i]
        BY <1>2, <3>1, EnsureGrows DEF TextInv
      <3>3. buf' = Copy(room0, t) /\ pos' = pos + Len(t) /\ meant' = meant \o t
        BY <2>1 DEF stringbuffer_append_string_len
      <3> HIDE DEF room0
      <3>4. Len(room0) > pos + Len(t) BY <1>2, <3>1, <3>2 DEF TextInv
      <3> QED BY <1>2, <3>1, <3>2, <3>3, <3>4, CopyExtends
    <2>2. ASSUME NEW t \in Texts, stringbuffer_append_printf(t) PROVE TextInv'
      <3> DEFINE attempt == stringbuffer_ensure(buf, MaxBuf)
                 room0 == IF Len(t) < MaxBuf THEN attempt
                          ELSE stringbuffer_ensure(attempt, Len(t) + 1)
      <3>1. t \in Seq(Characters) BY BufferAssumption
      <3>2. /\ attempt \in Seq(Characters \cup {GAP}) /\ Len(attempt) >= pos + MaxBuf
            /\ Len(attempt) >= Len(buf) /\ \A i \in 1..pos : attempt[i] = buf[i]
        BY <1>2, BufferAssumption, EnsureGrows DEF TextInv
      <3>3. buf' = Copy(room0, t) /\ pos' = pos + Len(t) /\ meant' = meant \o t
        BY <2>2 DEF stringbuffer_append_printf
      <3> HIDE DEF attempt
      <3>4. /\ room0 \in Seq(Characters \cup {GAP}) /\ Len(room0) > pos + Len(t)
            /\ \A i \in 1..pos : room0[i] = buf[i]
        <4>1. CASE Len(t) < MaxBuf
          BY <1>2, <3>1, <3>2, <4>1, BufferAssumption DEF TextInv
        <4>2. CASE ~(Len(t) < MaxBuf)
          <5> DEFINE second == stringbuffer_ensure(attempt, Len(t) + 1)
          <5>1. /\ second \in Seq(Characters \cup {GAP})
                /\ Len(second) >= pos + (Len(t) + 1)
                /\ \A i \in 1..pos : second[i] = attempt[i]
            BY <1>2, <3>1, <3>2, EnsureGrows DEF TextInv
          <5>2. room0 = second BY <4>2
          <5> HIDE DEF second, room0
          <5> QED BY <1>2, <3>1, <3>2, <5>1, <5>2 DEF TextInv
        <4> QED BY <4>1, <4>2
      <3> HIDE DEF room0
      <3> QED BY <1>2, <3>1, <3>3, <3>4, CopyExtends
    <2>3. ASSUME NEW c \in Characters, SeekBack(c) PROVE TextInv'
      <3>1. PICK n \in 0..(pos - 1) :
              pos' = n /\ buf' = buf /\ meant' = SubSeq(meant, 1, n)
        BY <1>2, <2>3, RindexInText DEF SeekBack, TextInv
      <3>2. pos \in Nat /\ n \in Nat /\ n < pos BY <1>2 DEF TextInv
      <3>3. \A i \in 1..n : meant[i] \in Characters BY <1>2, <3>2 DEF TextInv
      <3>4. /\ SubSeq(meant, 1, n) \in Seq(Characters)
            /\ Len(SubSeq(meant, 1, n)) = IF 1 <= n THEN n - 1 + 1 ELSE 0
            /\ \A i \in 1..(n - 1 + 1) : SubSeq(meant, 1, n)[i] = meant[1 + i - 1]
        BY <3>2, <3>3, SubSeqProperties
      <3>5. Len(meant') = n BY <3>1, <3>2, <3>4
      <3>6. \A i \in 1..n : meant'[i] = meant[i]
        <4> TAKE i \in 1..n
        <4>1. i \in 1..(n - 1 + 1) /\ 1 + i - 1 = i BY <3>2
        <4> QED BY <3>1, <3>4, <4>1
      <3>7. n < Len(buf') /\ \A i \in 1..n : buf'[i] = meant'[i]
        BY <1>2, <3>1, <3>2, <3>6 DEF TextInv
      <3> QED BY <1>2, <3>1, <3>2, <3>4, <3>5, <3>7 DEF TextInv
    <2>4. CASE UNCHANGED bufVars BY <1>2, <2>4 DEF bufVars, TextInv
    <2> QED BY <1>2, <2>1, <2>2, <2>3, <2>4 DEF BufNext
  <1>3. TextInv => BufferHoldsText
    <2> SUFFICES ASSUME TextInv PROVE BufferHoldsText OBVIOUS
    <2> DEFINE closed == [buf EXCEPT ![pos + 1] = "0"]
    <2>1. closed \in Seq(Characters \cup {GAP, "0"}) /\ Len(closed) = Len(buf)
      BY DEF TextInv
    <2>2. \A i \in 1..pos : closed[i] = buf[i] BY DEF TextInv
    <2> HIDE DEF closed
    <2>3. SubSeq(closed, 1, pos) \in Seq(Characters \cup {GAP, "0"})
          /\ Len(SubSeq(closed, 1, pos)) = pos
          /\ \A i \in 1..pos : SubSeq(closed, 1, pos)[i] = closed[i]
      BY <2>1, SubSeqProperties DEF TextInv
    <2>4. SubSeq(closed, 1, pos) = meant
      BY <2>2, <2>3, SeqEqual DEF TextInv
    <2> QED BY <2>4 DEF BufferHoldsText, stringbuffer_finish, TextInv, closed
  <1> QED BY <1>1, <1>2, <1>3, PTL DEF BufSpec

-----------------------------------------------------------------------------
(* The flood search (Reachable)                                             *)

\* The successors of an expanded state are found, and so are those that the state
\* which is being expanded has emitted; whatever is found is reachable.
FloodInv ==
  /\ succ \in Successors /\ budget \in Budgets
  /\ found \in Seq(Place) /\ found # <<>> /\ found[1] = StartPlace
  /\ \A i, j \in 1..Len(found) : found[i] = found[j] => i = j
  /\ cursor \in 1..(Len(found) + 1) /\ emitting \in Nat
  /\ \A i \in 1..(cursor - 1) : Range(succ[found[i]]) \subseteq Range(found)
  /\ emitting # 0 =>
       /\ cursor <= Len(found)
       /\ \A k \in 1..(emitting - 1) :
            k \in DOMAIN succ[found[cursor]] => succ[found[cursor]][k] \in Range(found)
  /\ Range(found) \subseteq Closure
  /\ outcome = "COMPLETE" => cursor > Len(found)
  /\ budget.generated # 0 => Len(found) <= budget.generated
  /\ budget.frontier # 0 => Len(found) - cursor <= budget.frontier

\* What a reachable state emits is reachable.
LEMMA ClosureIsClosed ==
  ASSUME succ \in [Place -> Seq(Place)], NEW p \in Closure, NEW q \in Range(succ[p])
  PROVE  q \in Closure
  <1>1. p \in Place /\ succ[p] \in Seq(Place) BY DEF Closure
  <1>2. q \in Place BY <1>1 DEF Range
  <1> SUFFICES ASSUME NEW X \in SUBSET Place, StartPlace \in X, Next1(X) = X
               PROVE  q \in X
    BY <1>2 DEF Closure
  <1>3. p \in X BY DEF Closure
  <1>4. q \in Next1(X) BY <1>3 DEF Next1
  <1> QED BY <1>4

\* A set that is closed and has the start is all that is reachable.
LEMMA ClosureIsLeast ==
  ASSUME NEW X \in SUBSET Place, StartPlace \in X,
         \A p \in X : Range(succ[p]) \subseteq X
  PROVE  Closure \subseteq X
  <1>1. Next1(X) = X BY DEF Next1
  <1> QED BY <1>1 DEF Closure

\* The steps of the flood keep its invariant.
LEMMA FloodStep ==
  ASSUME FloodInv, [ReachNext]_reachVars
  PROVE  FloodInv'
  <1>1. /\ succ \in [Place -> Seq(Place)] /\ StartPlace \in Place
        /\ budget \in [expanded : Nat, generated : Nat, transitions : Nat, frontier : Nat]
    BY ReachAssumption DEF FloodInv
  <1>2. CASE UNCHANGED <<argVars, found, cursor, emitting>> /\ outcome' # "COMPLETE"
    BY <1>2 DEF FloodInv, argVars, Closure, Next1
  <1>3. CASE Complete
    BY <1>3 DEF Complete, Stop, FloodInv, argVars, Closure, Next1
  <1>4. CASE ExpandNode
    BY <1>4 DEF ExpandNode, FloodInv, argVars, Closure, Next1
  <1>5. CASE EmissionDone
    <2>1. /\ outcome = "none" /\ emitting # 0 /\ emitting > Len(succ[found[cursor]])
          /\ emitting' = 0 /\ cursor' = cursor + 1
          /\ UNCHANGED <<succ, budget, found, outcome>>
      BY <1>5 DEF EmissionDone, argVars
    <2>2. cursor \in 1..Len(found) /\ found[cursor] \in Place
          /\ succ[found[cursor]] \in Seq(Place)
      BY <1>1, <2>1 DEF FloodInv
    <2>3. DOMAIN succ[found[cursor]] \subseteq 1..(emitting - 1)
      BY <2>1, <2>2 DEF FloodInv
    <2>4. Range(succ[found[cursor]]) \subseteq Range(found)
      BY <2>1, <2>3 DEF FloodInv, Range
    <2>5. \A i \in 1..(cursor' - 1) : Range(succ[found[i]]) \subseteq Range(found)
      BY <2>1, <2>2, <2>4 DEF FloodInv
    <2>6. cursor' \in 1..(Len(found) + 1) BY <2>1, <2>2 DEF FloodInv
    <2>7. budget.frontier # 0 => Len(found) - cursor' <= budget.frontier
      BY <1>1, <2>1, <2>2 DEF FloodInv
    <2>8. Closure' = Closure BY <2>1 DEF Closure, Next1
    <2> QED BY <2>1, <2>5, <2>6, <2>7, <2>8 DEF FloodInv
  <1>6. CASE EmitKnown
    <2>1. /\ Emits /\ Emitted \in Range(found) /\ emitting' = emitting + 1
          /\ UNCHANGED <<succ, budget, found, cursor, outcome>>
      BY <1>6 DEF EmitKnown, argVars
    <2>2. \A k \in 1..(emitting' - 1) :
            k \in DOMAIN succ[found[cursor]] => succ[found[cursor]][k] \in Range(found)
      BY <2>1, SMTT(30) DEF FloodInv, Emits, Emitted
    <2>3. Closure' = Closure BY <2>1 DEF Closure, Next1
    <2>4. emitting # 0 BY <2>1 DEF Emits
    <2> QED BY <2>1, <2>2, <2>3, <2>4 DEF FloodInv
  <1>7. CASE EmitNew
    <2>1. /\ Emits /\ Emitted \notin Range(found) /\ emitting' = emitting + 1
          /\ ~Exceeds(Len(found), budget.generated) /\ ~Exceeds(Waiting, budget.frontier)
          /\ found' = Append(found, Emitted)
          /\ UNCHANGED <<succ, budget, cursor, outcome>>
      BY <1>7 DEF EmitNew, argVars
    <2>2. /\ emitting \in Nat \ {0} /\ cursor \in 1..Len(found)
          /\ found[cursor] \in Place /\ succ[found[cursor]] \in Seq(Place)
      BY <1>1, <2>1 DEF FloodInv, Emits
    <2>3. emitting \in DOMAIN succ[found[cursor]] BY <2>1, <2>2 DEF Emits
    <2>4. Emitted \in Range(succ[found[cursor]]) /\ Emitted \in Place
      BY <2>2, <2>3 DEF Emitted, Range
    <2>5. found[cursor] \in Closure BY <2>2 DEF FloodInv, Range
    <2>6. Emitted \in Closure BY <1>1, <2>4, <2>5, ClosureIsClosed
    <2>7. /\ found' \in Seq(Place) /\ Len(found') = Len(found) + 1
          /\ \A i \in 1..Len(found) : found'[i] = found[i]
          /\ found'[Len(found) + 1] = Emitted
      BY <2>1, <2>4 DEF FloodInv
    <2>8. \A i \in 1..Len(found) : found[i] # Emitted BY <2>1 DEF FloodInv, Range
    <2>9. \A i, j \in 1..Len(found') : found'[i] = found'[j] => i = j
      <3> TAKE i, j \in 1..Len(found')
      <3>1. \A k \in 1..Len(found') : k \in 1..Len(found) \/ k = Len(found) + 1
        BY <2>7 DEF FloodInv
      <3> QED BY <2>7, <2>8, <3>1 DEF FloodInv
    <2>10. Range(found') = Range(found) \cup {Emitted}
      <3>1. DOMAIN found' = DOMAIN found \cup {Len(found) + 1}
        BY <2>7 DEF FloodInv
      <3>2. DOMAIN found = 1..Len(found) BY DEF FloodInv
      <3> QED BY <2>7, <3>1, <3>2 DEF Range
    <2>11. \A i \in 1..(cursor - 1) : Range(succ[found'[i]]) \subseteq Range(found')
      BY <2>2, <2>7, <2>10 DEF FloodInv
    <2>12. \A k \in 1..(emitting' - 1) :
             k \in DOMAIN succ[found[cursor]] => succ[found[cursor]][k] \in Range(found')
      <3> TAKE k \in 1..(emitting' - 1)
      <3>1. k \in 1..(emitting - 1) \/ k = emitting BY <2>1, <2>2
      <3>2. CASE k \in 1..(emitting - 1) BY <2>2, <2>10, <3>2 DEF FloodInv
      <3>3. CASE k = emitting BY <2>10, <3>3 DEF Emitted
      <3> QED BY <3>1, <3>2, <3>3
    <2>13. Closure' = Closure BY <2>1 DEF Closure, Next1
    <2>14. budget.generated # 0 => Len(found') <= budget.generated
      BY <1>1, <2>1, <2>7 DEF Exceeds, FloodInv
    <2>15. budget.frontier # 0 => Len(found') - cursor <= budget.frontier
      BY <1>1, <2>1, <2>2, <2>7 DEF Exceeds, Waiting, FloodInv
    <2>16. cursor \in 1..(Len(found') + 1) /\ cursor <= Len(found')
           /\ emitting' \in Nat /\ found' # <<>>
           /\ found'[1] = StartPlace /\ found'[cursor] = found[cursor]
           /\ outcome' # "COMPLETE"
      BY <2>1, <2>2, <2>7 DEF FloodInv, Emits
    <2>17. Range(found') \subseteq Closure BY <2>6, <2>10 DEF FloodInv
    <2> QED BY <2>1, <2>7, <2>9, <2>11, <2>12, <2>13, <2>14, <2>15, <2>16, <2>17
          DEF FloodInv
  <1>8. CASE ExpansionLimit \/ Cancelled \/ AdapterFails \/ NoResultArray
    BY <1>2, <1>8 DEF ExpansionLimit, Cancelled, AdapterFails, NoResultArray, Stop
  <1>9. CASE EmitLimit \/ OutOfMemory BY <1>2, <1>9 DEF EmitLimit, OutOfMemory
  <1>10. CASE UNCHANGED reachVars
    BY <1>10 DEF reachVars, FloodInv, Closure, Next1
  <1> QED BY <1>3, <1>4, <1>5, <1>6, <1>7, <1>8, <1>9, <1>10 DEF ReachNext

\* atrinik_pf_reachable() reports COMPLETE with exactly the states that can be
\* reached, each once, and anything else with some of them, within the budgets,
\* for every graph and every set of states, finite or not.
THEOREM FloodExact == ReachSpec => []ReachableIsExact
  <1>1. ReachInit => FloodInv
    <2> SUFFICES ASSUME ReachInit PROVE FloodInv OBVIOUS
    <2>1. found = <<StartPlace>> /\ StartPlace \in Place /\ cursor = 1 /\ emitting = 0
      BY ReachAssumption DEF ReachInit
    <2>2. StartPlace \in Closure BY <2>1 DEF Closure
    <2>3. Range(found) = {StartPlace} BY <2>1 DEF Range
    <2>4. budget \in [expanded : Nat, generated : Nat, transitions : Nat, frontier : Nat]
      BY ReachAssumption DEF ReachInit
    <2> QED BY <2>1, <2>2, <2>3, <2>4 DEF ReachInit, FloodInv
  <1>2. FloodInv /\ [ReachNext]_reachVars => FloodInv' BY FloodStep
  <1>3. FloodInv => ReachableIsExact
    <2> SUFFICES ASSUME FloodInv PROVE ReachableIsExact OBVIOUS
    <2>1. ASSUME outcome = "COMPLETE" PROVE Closure \subseteq Range(found)
      <3>1. Range(found) \in SUBSET Place BY DEF FloodInv, Range
      <3>2. StartPlace \in Range(found) BY DEF FloodInv, Range
      <3>3. \A i \in 1..Len(found) : Range(succ[found[i]]) \subseteq Range(found)
        BY <2>1 DEF FloodInv
      <3>4. \A p \in Range(found) : Range(succ[p]) \subseteq Range(found)
        <4>1. DOMAIN found = 1..Len(found) BY DEF FloodInv
        <4> QED BY <3>3, <4>1 DEF Range
      <3> QED BY <3>1, <3>2, <3>4, ClosureIsLeast
    <2> QED BY <2>1 DEF FloodInv, ReachableIsExact
  <1> QED BY <1>1, <1>2, <1>3, PTL DEF ReachSpec

-----------------------------------------------------------------------------
(* The registry of APIs (Toolkit)                                           *)

InitFrame == [api : Api, before : Seq(Api), after : Seq(Api), registered : BOOLEAN]

\* Frame k has registered its API, or each dependency is yet to be called, is
\* registered, or is what the frame above k initialises.
Waits(calls, k) ==
  IF calls[k].registered THEN calls[k].api \in Range(apis)
  ELSE \A d \in Range(DependsOn[calls[k].api]) :
         \/ d \in Range(calls[k].before) \/ d \in Range(apis)
         \/ k > 1 /\ calls[k - 1].api = d

\* APIs are registered once, behind all that they depend on; toolkit_deinit()
\* visits them from the last to the first.
RegistryInv ==
  /\ apis \in Seq(Api) /\ left \in Int /\ left <= Len(apis)
  /\ \A i, j \in 1..Len(apis) : apis[i] = apis[j] => i = j
  /\ \A i \in 1..Len(apis) : \A d \in Range(DependsOn[apis[i]]) :
       \E j \in 1..(i - 1) : apis[j] = d
  /\ \/ left = -1 /\ ready = Range(apis)
     \/ left >= 0 /\ stack = <<>> /\ ready = {apis[i] : i \in 1..left}

\* The functions in progress, and that only they are marked without being ready.
StackInv ==
  /\ stack \in Seq(InitFrame)
  /\ \A k \in 1..Len(stack) : Waits(stack, k)
  /\ did_init \subseteq ready \cup {stack[k].api : k \in 1..Len(stack)}

KitInv == RegistryInv /\ StackInv

\* The elements of a sequence are its head and those of its tail.
LEMMA RangeTail ==
  ASSUME NEW A, NEW s \in Seq(A), s # <<>>
  PROVE  Range(s) = {s[1]} \cup Range(Tail(s)) /\ s[1] \in A /\ Tail(s) \in Seq(A)
  <1>1. Tail(s) \in Seq(A) /\ Len(Tail(s)) = Len(s) - 1 /\ Len(s) \in Nat \ {0}
    OBVIOUS
  <1>2. \A i \in 1..(Len(s) - 1) : Tail(s)[i] = s[i + 1] OBVIOUS
  <1>3. DOMAIN s = 1..Len(s) /\ DOMAIN Tail(s) = 1..(Len(s) - 1) BY <1>1
  <1>4. \A i \in 2..Len(s) : i - 1 \in 1..(Len(s) - 1) /\ s[i] = Tail(s)[i - 1]
    BY <1>1, <1>2
  <1>5. \A i \in 1..Len(s) : i = 1 \/ i \in 2..Len(s) BY <1>1
  <1>6. \A i \in 1..(Len(s) - 1) : i + 1 \in 1..Len(s) BY <1>1
  <1>7. Range(s) \subseteq {s[1]} \cup Range(Tail(s))
    <2> SUFFICES ASSUME NEW i \in 1..Len(s), i # 1 PROVE s[i] \in Range(Tail(s))
      BY <1>3 DEF Range
    <2>1. i - 1 \in DOMAIN Tail(s) /\ s[i] = Tail(s)[i - 1] BY <1>3, <1>4, <1>5
    <2> QED BY <2>1 DEF Range
  <1>8. {s[1]} \cup Range(Tail(s)) \subseteq Range(s)
    BY <1>1, <1>2, <1>3, <1>6 DEF Range
  <1> QED BY <1>1, <1>7, <1>8

\* A frame in front of others.
LEMMA PushFrame ==
  ASSUME NEW f \in InitFrame, NEW s \in Seq(InitFrame)
  PROVE  /\ <<f>> \o s \in Seq(InitFrame) /\ Len(<<f>> \o s) = Len(s) + 1
         /\ (<<f>> \o s)[1] = f
         /\ \A k \in 2..(Len(s) + 1) : (<<f>> \o s)[k] = s[k - 1]
  <1>1. <<f>> \in Seq(InitFrame) /\ Len(<<f>>) = 1 OBVIOUS
  <1>2. <<f>> \o s \in Seq(InitFrame) /\ Len(<<f>> \o s) = Len(s) + 1 BY <1>1
  <1> QED BY <1>1, <1>2

\* The frame on top is replaced by one of the same API.
LEMMA ReplaceTop ==
  ASSUME stack \in Seq(InitFrame), stack # <<>>, NEW f \in InitFrame
  PROVE  /\ <<f>> \o Callers \in Seq(InitFrame)
         /\ Len(<<f>> \o Callers) = Len(stack)
         /\ (<<f>> \o Callers)[1] = f
         /\ \A k \in 2..Len(stack) : (<<f>> \o Callers)[k] = stack[k]
  <1>1. Callers \in Seq(InitFrame) /\ Len(Callers) = Len(stack) - 1
        /\ \A k \in 1..(Len(stack) - 1) : Callers[k] = stack[k + 1]
    BY DEF Callers
  <1>2. Len(stack) \in Nat \ {0} OBVIOUS
  <1> QED BY <1>1, <1>2, PushFrame

\* Calling an initialisation function: the frames below the call are as before,
\* but for a caller that may count the API that is called as served.
LEMMA EnterStep ==
  ASSUME RegistryInv, NEW a \in Api, NEW s \in Seq(InitFrame), Enter(a, s),
         UNCHANGED <<apis, ready>>,
         \A k \in 2..Len(s) : Waits(s, k),
         1 <= Len(s) =>
           IF s[1].registered THEN s[1].api \in Range(apis)
           ELSE \A d \in Range(DependsOn[s[1].api]) :
                  d \in Range(s[1].before) \/ d \in Range(apis) \/ d = a,
         did_init \subseteq ready \cup {s[k].api : k \in 1..Len(s)}
  PROVE  StackInv'
  <1>1. CASE a \in Range(apis)
    <2>1. stack' = s /\ did_init' = did_init
      BY <1>1 DEF Enter, toolkit_check_imported
    <2>2. \A k \in 1..Len(s) : Waits(s, k)
      <3> TAKE k \in 1..Len(s)
      <3>1. CASE k = 1 BY <1>1, <3>1 DEF Waits
      <3>2. CASE k # 1 BY <3>2
      <3> QED BY <3>1, <3>2
    <2> QED BY <2>1, <2>2 DEF StackInv, Waits
  <1>2. CASE a \notin Range(apis)
    <2> DEFINE f == [api |-> a, before |-> DependsOn[a], after |-> Imports[a],
                     registered |-> FALSE]
    <2>1. stack' = <<f>> \o s /\ did_init' = did_init \cup {a}
      BY <1>2 DEF Enter, toolkit_check_imported
    <2>2. f \in InitFrame BY KitAssumption DEF InitFrame
    <2>3. f.api = a /\ f.before = DependsOn[a] /\ ~f.registered OBVIOUS
    <2> HIDE DEF f
    <2>4. /\ stack' \in Seq(InitFrame) /\ Len(stack') = Len(s) + 1 /\ stack'[1] = f
          /\ \A k \in 2..(Len(s) + 1) : stack'[k] = s[k - 1]
      BY <2>1, <2>2, PushFrame
    <2>5. \A k \in 1..Len(stack') : Waits(stack', k)
      <3> TAKE k \in 1..Len(stack')
      <3>1. CASE k = 1 BY <2>3, <2>4, <3>1 DEF Waits
      <3>2. CASE k = 2
        <4>1. 1 <= Len(s) /\ stack'[k] = s[1] /\ stack'[k - 1] = f BY <2>4, <3>2
        <4> QED BY <2>3, <3>2, <4>1 DEF Waits
      <3>3. CASE k > 2
        <4>1. k - 1 \in 2..Len(s) /\ stack'[k] = s[k - 1]
              /\ stack'[k - 1] = s[(k - 1) - 1]
          BY <2>4, <3>3
        <4>2. Waits(s, k - 1) BY <4>1
        <4> QED BY <3>3, <4>1, <4>2 DEF Waits
      <3> QED BY <2>4, <3>1, <3>2, <3>3
    <2>6. \A k \in 1..Len(s) : k + 1 \in 1..Len(stack') /\ stack'[k + 1] = s[k]
      BY <2>4
    <2>7. a \in {stack'[k].api : k \in 1..Len(stack')} BY <2>3, <2>4
    <2>8. {s[k].api : k \in 1..Len(s)} \subseteq {stack'[k].api : k \in 1..Len(stack')}
      BY <2>6
    <2> QED BY <2>1, <2>4, <2>5, <2>7, <2>8 DEF StackInv, Waits
  <1> QED BY <1>1, <1>2

\* The initialisation functions keep the invariant.
LEMMA CallStep ==
  ASSUME KitInv, CallDependency \/ CallImport \/ InitReturns
         \/ \E a \in Api : toolkit_import(a)
  PROVE  KitInv'
  <1> USE DEF KitInv
  <1>1. UNCHANGED <<apis, ready, left>>
    BY DEF CallDependency, CallImport, InitReturns, toolkit_import
  <1>2. RegistryInv'
    <2>1. left = -1
      BY DEF RegistryInv, CallDependency, CallImport, InitReturns, toolkit_import
    <2> QED BY <1>1, <2>1 DEF RegistryInv
  <1>3. ASSUME NEW a \in Api, toolkit_import(a) PROVE StackInv'
    <2>1. stack = <<>> /\ Enter(a, <<>>) BY <1>3 DEF toolkit_import
    <2>2. did_init \subseteq ready BY <2>1 DEF StackInv
    <2>3. <<>> \in Seq(InitFrame) /\ Len(<<>>) = 0 OBVIOUS
    <2>4. \A k \in 2..Len(<<>>) : Waits(<<>>, k) BY <2>3
    <2>5. did_init \subseteq ready \cup {<<>>[k].api : k \in 1..Len(<<>>)} BY <2>2
    <2>6. ~(1 <= Len(<<>>)) BY <2>3
    <2>7. RegistryInv OBVIOUS
    <2> QED BY ONLY <1>1, <1>3, <2>1, <2>3, <2>4, <2>5, <2>6, <2>7, EnterStep, Zenon
  <1>4. ASSUME stack # <<>>, NEW f \in InitFrame, f.api = Top.api
        PROVE  LET s == <<f>> \o Callers
               IN  did_init \subseteq ready \cup {s[k].api : k \in 1..Len(s)}
    <2> DEFINE s == <<f>> \o Callers
    <2>1. Len(s) = Len(stack) /\ s[1] = f /\ \A k \in 2..Len(stack) : s[k] = stack[k]
      BY <1>4, ReplaceTop DEF StackInv
    <2> HIDE DEF s
    <2>2. \A k \in 1..Len(stack) : s[k].api = stack[k].api
      BY <1>4, <2>1 DEF Top, StackInv
    <2> QED BY <2>1, <2>2 DEF StackInv, s
  <1>5. ASSUME stack # <<>>, CallDependency \/ CallImport PROVE StackInv'
    <2> DEFINE f == IF Top.registered THEN [Top EXCEPT !.after = Tail(@)]
                    ELSE [Top EXCEPT !.before = Tail(@)]
               a == IF Top.registered THEN Top.after[1] ELSE Top.before[1]
               s == <<f>> \o Callers
    <2>1. Top \in InitFrame /\ 1 \in 1..Len(stack) BY <1>5 DEF Top, StackInv
    <2>2. Enter(a, s) BY <1>5, <2>1 DEF CallDependency, CallImport
    <2>3. /\ Top.registered => Top.after # <<>>
          /\ ~Top.registered => Top.before # <<>>
      BY <1>5 DEF CallDependency, CallImport
    <2>4. /\ Top.registered => Top.after[1] \in Api /\ Tail(Top.after) \in Seq(Api)
          /\ ~Top.registered => Top.before[1] \in Api /\ Tail(Top.before) \in Seq(Api)
      BY <2>1, <2>3 DEF InitFrame
    <2>5. a \in Api BY <2>4
    <2>6. f \in InitFrame /\ f.api = Top.api /\ f.registered = Top.registered
          /\ (~Top.registered => f.before = Tail(Top.before))
      <3>1. CASE Top.registered BY <2>1, <2>4, <3>1 DEF InitFrame
      <3>2. CASE ~Top.registered BY <2>1, <2>4, <3>2 DEF InitFrame
      <3> QED BY <3>1, <3>2
    <2>7. ~Top.registered => Range(Top.before) = {a} \cup Range(f.before)
      BY <2>1, <2>3, <2>6, RangeTail DEF InitFrame
    <2> HIDE DEF f, a
    <2>8. /\ s \in Seq(InitFrame) /\ Len(s) = Len(stack) /\ s[1] = f
          /\ \A k \in 2..Len(stack) : s[k] = stack[k]
      BY <1>5, <2>6, ReplaceTop DEF StackInv
    <2>9. did_init \subseteq ready \cup {s[k].api : k \in 1..Len(s)}
      BY <1>4, <1>5, <2>6
    <2> HIDE DEF s
    <2>10. Waits(stack, 1) BY <2>1 DEF StackInv
    <2>11. IF s[1].registered THEN s[1].api \in Range(apis)
           ELSE \A d \in Range(DependsOn[s[1].api]) :
                  d \in Range(s[1].before) \/ d \in Range(apis) \/ d = a
      BY <2>6, <2>7, <2>8, <2>10 DEF Waits, Top
    <2>12. \A k \in 2..Len(s) : Waits(s, k)
      <3> TAKE k \in 2..Len(s)
      <3>1. Waits(stack, k) BY <2>8 DEF StackInv
      <3>2. s[k] = stack[k] BY <2>8
      <3>3. s[k - 1].api = stack[k - 1].api
        <4>1. CASE k = 2 BY <2>6, <2>8, <4>1 DEF Top
        <4>2. CASE k > 2
          <5>1. k - 1 \in 2..Len(stack) BY <2>8, <4>2
          <5> QED BY <2>8, <5>1
        <4> QED BY <4>1, <4>2
      <3> QED BY <3>1, <3>2, <3>3 DEF Waits
    <2>13. 1 <= Len(s) =>
             IF s[1].registered THEN s[1].api \in Range(apis)
             ELSE \A d \in Range(DependsOn[s[1].api]) :
                    d \in Range(s[1].before) \/ d \in Range(apis) \/ d = a
      BY ONLY <2>11
    <2>14. RegistryInv OBVIOUS
    <2>15. s \in Seq(InitFrame) BY <2>8
    <2>16. UNCHANGED <<apis, ready>> BY <1>1
    <2> QED BY ONLY <2>2, <2>5, <2>9, <2>12, <2>13, <2>14, <2>15, <2>16, EnterStep,
                    Zenon
  <1>6. ASSUME stack # <<>>, InitReturns PROVE StackInv'
    <2>1. stack' = Callers /\ did_init' = did_init /\ Top.registered
      BY <1>6 DEF InitReturns
    <2>2. /\ Callers \in Seq(InitFrame) /\ Len(Callers) = Len(stack) - 1
          /\ \A k \in 1..(Len(stack) - 1) : Callers[k] = stack[k + 1]
          /\ Len(stack) \in Nat \ {0}
      BY <1>6 DEF Callers, StackInv
    <2>3. Waits(stack, 1) BY <2>2 DEF StackInv
    <2>4. stack[1].api \in Range(apis) BY <2>1, <2>3 DEF Waits, Top
    <2>5. left = -1 /\ ready = Range(apis) BY <1>6 DEF RegistryInv
    <2>6. \A k \in 1..Len(stack') : Waits(stack', k)
      <3> TAKE k \in 1..Len(stack')
      <3>1. Waits(stack, k + 1) /\ stack'[k] = stack[k + 1] BY <2>1, <2>2 DEF StackInv
      <3>2. CASE k = 1 BY <2>4, <3>1, <3>2 DEF Waits
      <3>3. CASE k > 1
        <4>1. stack'[k - 1] = stack[(k + 1) - 1] BY <2>1, <2>2, <3>3
        <4> QED BY <3>1, <3>3, <4>1 DEF Waits
      <3> QED BY <2>1, <2>2, <3>2, <3>3
    <2>7. \A k \in 1..Len(stack) : k = 1 \/ (k - 1 \in 1..Len(stack')
                                             /\ stack'[k - 1] = stack[k])
      BY <2>1, <2>2
    <2>8. {stack[k].api : k \in 1..Len(stack)}
            \subseteq {stack[1].api} \cup {stack'[k].api : k \in 1..Len(stack')}
      BY <2>7
    <2>9. did_init' \subseteq ready' \cup {stack'[k].api : k \in 1..Len(stack')}
      BY <1>1, <2>1, <2>4, <2>5, <2>8 DEF StackInv
    <2>10. stack' \in Seq(InitFrame) BY <2>1, <2>2
    <2>11. \A k \in 1..Len(stack') :
             IF stack'[k].registered THEN stack'[k].api \in Range(apis')
             ELSE \A d \in Range(DependsOn[stack'[k].api]) :
                    \/ d \in Range(stack'[k].before) \/ d \in Range(apis')
                    \/ k > 1 /\ stack'[k - 1].api = d
      BY ONLY <1>1, <2>6 DEF Waits
    <2> QED BY ONLY <2>9, <2>10, <2>11 DEF StackInv, Waits
  <1>7. StackInv'
    BY <1>3, <1>5, <1>6 DEF CallDependency, CallImport, InitReturns
  <1> QED BY <1>2, <1>7

\* An API is registered behind everything that it depends on.
LEMMA RegisterStep ==
  ASSUME KitInv, RegisterAndRun
  PROVE  KitInv'
  <1> DEFINE f == [Top EXCEPT !.registered = TRUE]
             a == Top.api
  <1>1. /\ stack # <<>> /\ ~Top.registered /\ Top.before = <<>>
        /\ apis' = IF a \in Range(apis) THEN apis ELSE Append(apis, a)
        /\ ready' = ready \cup {a} /\ stack' = <<f>> \o Callers
        /\ UNCHANGED <<did_init, left>>
    BY DEF RegisterAndRun, toolkit_check_imported
  <1>2. Top \in InitFrame /\ 1 \in 1..Len(stack) BY <1>1 DEF Top, KitInv, StackInv
  <1>3. a \in Api /\ f \in InitFrame /\ f.api = a /\ f.registered
    BY <1>2 DEF InitFrame
  <1>4. \A d \in Range(DependsOn[a]) : d \in Range(apis)
    <2>1. Waits(stack, 1) BY <1>2 DEF KitInv, StackInv
    <2>2. Range(Top.before) = {} BY <1>1 DEF Range
    <2> QED BY <1>1, <2>1, <2>2 DEF Waits, Top
  <1> HIDE DEF f, a
  <1>5. left = -1 /\ ready = Range(apis) BY <1>1 DEF KitInv, RegistryInv
  <1>6. RegistryInv' /\ Range(apis') = Range(apis) \cup {a}
    <2>1. CASE a \in Range(apis) BY <1>1, <1>5, <2>1 DEF KitInv, RegistryInv
    <2>2. CASE a \notin Range(apis)
      <3>1. /\ apis' \in Seq(Api) /\ Len(apis') = Len(apis) + 1
            /\ apis'[Len(apis) + 1] = a
            /\ \A i \in 1..Len(apis) : apis'[i] = apis[i]
            /\ apis \in Seq(Api)
        BY <1>1, <1>3, <2>2 DEF KitInv, RegistryInv
      <3>2. DOMAIN apis = 1..Len(apis) /\ Len(apis) \in Nat
            /\ DOMAIN apis' = (1..Len(apis)) \cup {Len(apis) + 1}
        BY <3>1
      <3>3. Range(apis') = Range(apis) \cup {a} BY <3>1, <3>2 DEF Range
      <3>4. \A i \in 1..Len(apis) : apis[i] # a BY <2>2, <3>2 DEF Range
      <3>5. \A i \in 1..Len(apis') : i \in 1..Len(apis) \/ i = Len(apis) + 1
        BY <3>1, <3>2
      <3>6. \A i, j \in 1..Len(apis') : apis'[i] = apis'[j] => i = j
        BY <3>1, <3>4, <3>5 DEF KitInv, RegistryInv
      <3>7. \A i \in 1..Len(apis') : \A d \in Range(DependsOn[apis'[i]]) :
              \E j \in 1..(i - 1) : apis'[j] = d
        <4> TAKE i \in 1..Len(apis')
        <4> TAKE d \in Range(DependsOn[apis'[i]])
        <4>1. CASE i \in 1..Len(apis)
          <5>1. PICK j \in 1..(i - 1) : apis[j] = d
            BY <3>1, <4>1 DEF KitInv, RegistryInv
          <5>2. j \in 1..Len(apis) BY <3>2, <4>1
          <5> QED BY <3>1, <5>1, <5>2
        <4>2. CASE i = Len(apis) + 1
          <5>1. d \in Range(apis) BY <1>4, <3>1, <4>2
          <5>2. PICK j \in 1..Len(apis) : apis[j] = d BY <3>2, <5>1 DEF Range
          <5>3. j \in 1..(i - 1) BY <3>2, <4>2
          <5> QED BY <3>1, <5>2, <5>3
        <4> QED BY <3>5, <4>1, <4>2
      <3>8. left' = -1 /\ ready' = Range(apis') /\ left' \in Int /\ left' <= Len(apis')
        BY <1>1, <1>5, <3>1, <3>2, <3>3
      <3> QED BY ONLY <3>1, <3>3, <3>6, <3>7, <3>8 DEF RegistryInv
    <2> QED BY <2>1, <2>2
  <1>7. /\ stack' \in Seq(InitFrame) /\ Len(stack') = Len(stack) /\ stack'[1] = f
        /\ \A k \in 2..Len(stack) : stack'[k] = stack[k]
    BY <1>1, <1>3, ReplaceTop DEF KitInv, StackInv
  <1>8. \A k \in 1..Len(stack) : stack'[k].api = stack[k].api
    BY <1>3, <1>7 DEF Top, a
  <1>9. \A k \in 1..Len(stack') :
          IF stack'[k].registered THEN stack'[k].api \in Range(apis')
          ELSE \A d \in Range(DependsOn[stack'[k].api]) :
                 \/ d \in Range(stack'[k].before) \/ d \in Range(apis')
                 \/ k > 1 /\ stack'[k - 1].api = d
    <2> TAKE k \in 1..Len(stack')
    <2>1. CASE k = 1 BY <1>3, <1>6, <1>7, <2>1
    <2>2. CASE k > 1
      <3>1. stack'[k] = stack[k] /\ k - 1 \in 1..Len(stack) /\ k \in 1..Len(stack)
        BY <1>7, <2>2
      <3>2. Waits(stack, k) BY <3>1 DEF KitInv, StackInv
      <3>3. stack'[k - 1].api = stack[k - 1].api BY <1>8, <3>1
      <3> QED BY <1>6, <2>2, <3>1, <3>2, <3>3 DEF Waits
    <2> QED BY <1>7, <2>1, <2>2
  <1>10. {stack'[k].api : k \in 1..Len(stack')} = {stack[k].api : k \in 1..Len(stack)}
    BY <1>7, <1>8
  <1>11. StackInv' BY <1>1, <1>7, <1>9, <1>10 DEF KitInv, StackInv, Waits
  <1> QED BY <1>6, <1>11 DEF KitInv

\* toolkit_deinit() undoes the registrations from the last one on.
LEMMA DeinitStep ==
  ASSUME KitInv, toolkit_deinit \/ DeinitNext \/ DeinitReturns
  PROVE  KitInv'
  <1> USE DEF KitInv
  <1>1. CASE toolkit_deinit
    <2>1. left' = Len(apis) /\ stack = <<>> /\ left = -1
          /\ UNCHANGED <<apis, stack, did_init, ready>>
      BY <1>1 DEF toolkit_deinit
    <2>2. Len(apis) \in Nat /\ DOMAIN apis = 1..Len(apis) BY DEF RegistryInv
    <2>3. ready = {apis[i] : i \in 1..Len(apis)} BY <2>1, <2>2 DEF RegistryInv, Range
    <2>4. RegistryInv' BY <2>1, <2>2, <2>3 DEF RegistryInv
    <2> QED BY <2>1, <2>4 DEF StackInv
  <1>2. CASE DeinitNext
    <2>1. left > 0 /\ left' = left - 1 /\ ready' = ready \ {apis[left]}
          /\ did_init' = did_init \ {apis[left]} /\ UNCHANGED <<apis, stack>>
      BY <1>2 DEF DeinitNext, Visited
    <2>2. stack = <<>> /\ left \in 1..Len(apis) /\ Len(apis) \in Nat
          /\ ready = {apis[i] : i \in 1..left}
      BY <2>1 DEF RegistryInv
    <2>3. \A i \in 1..left : i \in 1..(left - 1) \/ i = left BY <2>2
    <2>4. \A i \in 1..(left - 1) : i \in 1..left /\ apis[i] # apis[left]
      BY <2>2 DEF RegistryInv
    <2>5. ready' = {apis[i] : i \in 1..(left - 1)} BY <2>1, <2>2, <2>3, <2>4
    <2>6. RegistryInv'
      <3>1. left' \in Int /\ left' <= Len(apis') /\ left' >= 0 /\ stack' = <<>>
        BY <2>1, <2>2
      <3>2. apis' = apis /\ ready' = {apis'[i] : i \in 1..left'} BY <2>1, <2>5
      <3>3. /\ apis' \in Seq(Api) /\ \A i, j \in 1..Len(apis') : apis'[i] = apis'[j] => i = j
            /\ \A i \in 1..Len(apis') : \A d \in Range(DependsOn[apis'[i]]) :
                 \E j \in 1..(i - 1) : apis'[j] = d
        BY <3>2, Zenon DEF RegistryInv
      <3> QED BY <3>1, <3>2, <3>3, Zenon DEF RegistryInv
    <2>7. did_init' \subseteq ready' BY <2>1, <2>2 DEF StackInv
    <2> QED BY <2>1, <2>2, <2>6, <2>7 DEF StackInv
  <1>3. CASE DeinitReturns
    <2>1. left = 0 /\ left' = -1 /\ apis' = <<>> /\ UNCHANGED <<stack, did_init, ready>>
      BY <1>3 DEF DeinitReturns
    <2>2. stack = <<>> /\ ready = {} BY <2>1 DEF RegistryInv
    <2>3. Range(<<>>) = {} BY DEF Range
    <2>4. RegistryInv' BY <2>1, <2>2, <2>3 DEF RegistryInv
    <2> QED BY <2>1, <2>2, <2>4 DEF StackInv
  <1> QED BY <1>1, <1>2, <1>3

\* While an API is in use so is everything that it depends on, from its
\* initialisation to its deinitialisation, for every graph of APIs, with any
\* cycles and any order of imports (toolkit.c, and the macros of toolkit.h).
THEOREM RegistryOrder == KitSpec => []DependenciesOutlive
  <1>1. KitInit => KitInv
    <2> SUFFICES ASSUME KitInit PROVE KitInv OBVIOUS
    <2>1. Range(<<>>) = {} BY DEF Range
    <2> QED BY <2>1 DEF KitInit, KitInv, RegistryInv, StackInv
  <1>2. KitInv /\ [KitNext]_kitVars => KitInv'
    <2> SUFFICES ASSUME KitInv, [KitNext]_kitVars PROVE KitInv' OBVIOUS
    <2>1. CASE UNCHANGED kitVars
      <3>1. UNCHANGED <<apis, left, ready, stack, did_init>> BY <2>1 DEF kitVars
      <3>2. RegistryInv'
        <4>1. /\ apis' \in Seq(Api) /\ left' \in Int /\ left' <= Len(apis')
              /\ \A i, j \in 1..Len(apis') : apis'[i] = apis'[j] => i = j
              /\ \A i \in 1..Len(apis') : \A d \in Range(DependsOn[apis'[i]]) :
                   \E j \in 1..(i - 1) : apis'[j] = d
          BY <3>1, Zenon DEF KitInv, RegistryInv
        <4>2. Range(apis') = Range(apis)
              /\ {apis'[i] : i \in 1..left'} = {apis[i] : i \in 1..left}
          BY <3>1
        <4>3. \/ left' = -1 /\ ready' = Range(apis')
              \/ left' >= 0 /\ stack' = <<>> /\ ready' = {apis'[i] : i \in 1..left'}
          BY <3>1, <4>2 DEF KitInv, RegistryInv
        <4> QED BY <4>1, <4>3, Zenon DEF RegistryInv
      <3>3. StackInv' BY <3>1 DEF KitInv, StackInv, Waits
      <3> QED BY <3>2, <3>3 DEF KitInv
    <2> QED BY <2>1, CallStep, RegisterStep, DeinitStep DEF KitNext
  <1>3. KitInv => DependenciesOutlive
    <2> SUFFICES ASSUME KitInv PROVE DependenciesOutlive OBVIOUS
    <2>1. PICK n \in 0..Len(apis) : ready = {apis[i] : i \in 1..n}
      <3>1. Len(apis) \in Nat /\ DOMAIN apis = 1..Len(apis) BY DEF KitInv, RegistryInv
      <3>2. CASE left = -1 /\ ready = Range(apis)
        <4>1. ready = {apis[i] : i \in 1..Len(apis)} BY <3>1, <3>2 DEF Range
        <4> QED BY <3>1, <4>1
      <3>3. CASE left >= 0 /\ ready = {apis[i] : i \in 1..left}
        BY <3>1, <3>3 DEF KitInv, RegistryInv
      <3> QED BY <3>2, <3>3 DEF KitInv, RegistryInv
    <2>2. \A a \in ready : Range(DependsOn[a]) \subseteq ready
      <3> SUFFICES ASSUME NEW i \in 1..n, NEW d \in Range(DependsOn[apis[i]])
                   PROVE  d \in ready
        BY <2>1
      <3>1. Len(apis) \in Nat BY DEF KitInv, RegistryInv
      <3>2. i \in 1..Len(apis) BY <3>1
      <3>3. PICK j \in 1..(i - 1) : apis[j] = d BY <3>2 DEF KitInv, RegistryInv
      <3>4. j \in 1..n BY <3>1
      <3> QED BY <2>1, <3>3, <3>4
    <2>3. left = 0 => ready = {} /\ did_init = {}
      BY DEF KitInv, RegistryInv, StackInv
    <2> QED BY <2>2, <2>3 DEF KitInv, RegistryInv, DependenciesOutlive
  <1> QED BY <1>1, <1>2, <1>3, PTL DEF KitSpec

-----------------------------------------------------------------------------
(* Shared strings (SharedStrings)                                           *)

Link == [Entry -> Entry \cup {NULL}]

\* The entries that can be reached from f over the links nx: the smallest closed set.
Follows(nx, C) == \A d \in C : nx[d] # NULL => nx[d] \in C
Chain(nx, f) == {e \in Entry : \A C \in SUBSET Entry : f \in C /\ Follows(nx, C) => e \in C}

\* A chain is closed under the links.
LEMMA ChainIsClosed ==
  ASSUME NEW nx \in Link, NEW f \in Entry
  PROVE  f \in Chain(nx, f) /\ Follows(nx, Chain(nx, f))
  <1>1. f \in Chain(nx, f) BY DEF Chain
  <1>2. ASSUME NEW d \in Chain(nx, f), nx[d] # NULL PROVE nx[d] \in Chain(nx, f)
    <2>1. nx[d] \in Entry BY <1>2 DEF Link, Chain
    <2>2. ASSUME NEW C \in SUBSET Entry, f \in C, Follows(nx, C) PROVE nx[d] \in C
      BY <1>2, <2>2 DEF Chain, Follows
    <2> QED BY <2>1, <2>2 DEF Chain
  <1> QED BY <1>1, <1>2 DEF Follows

\* ... and no closed set is smaller.
LEMMA ChainIsLeast ==
  ASSUME NEW nx, NEW f, NEW C \in SUBSET Entry, f \in C, Follows(nx, C)
  PROVE  Chain(nx, f) \subseteq C
  BY DEF Chain

\* A chain is its first entry and the chain of the next one.
LEMMA ChainSplits ==
  ASSUME NEW nx \in Link, NEW f \in Entry
  PROVE  /\ nx[f] = NULL => Chain(nx, f) = {f}
         /\ nx[f] # NULL => Chain(nx, f) \subseteq {f} \cup Chain(nx, nx[f])
  <1>1. ASSUME nx[f] = NULL PROVE Chain(nx, f) = {f}
    <2>1. Follows(nx, {f}) BY <1>1 DEF Follows
    <2> QED BY <2>1, ChainIsLeast, ChainIsClosed
  <1>2. ASSUME nx[f] # NULL PROVE Chain(nx, f) \subseteq {f} \cup Chain(nx, nx[f])
    <2>1. nx[f] \in Entry BY <1>2 DEF Link
    <2>2. nx[f] \in Chain(nx, nx[f]) /\ Follows(nx, Chain(nx, nx[f]))
      BY <2>1, ChainIsClosed
    <2>3. Follows(nx, {f} \cup Chain(nx, nx[f])) BY <2>2 DEF Follows
    <2>4. {f} \cup Chain(nx, nx[f]) \in SUBSET Entry BY DEF Chain
    <2> QED BY <2>3, <2>4, ChainIsLeast
  <1> QED BY <1>1, <1>2

\* From every entry of a chain one gets to its end.
LEMMA ChainEnds ==
  ASSUME NEW nx \in Link, NEW f \in Entry, NEW z \in Chain(nx, f), nx[z] = NULL,
         NEW d \in Chain(nx, f)
  PROVE  z \in Chain(nx, d)
  <1> DEFINE D == {c \in Entry : z \in Chain(nx, c)}
  <1>1. ASSUME NEW c \in D, nx[c] # NULL PROVE nx[c] \in D
    <2>1. nx[c] \in Entry /\ c # z BY <1>1 DEF Link
    <2> QED BY <1>1, <2>1, ChainSplits
  <1>2. Follows(nx, D) BY <1>1 DEF Follows
  <1>3. Chain(nx, f) \subseteq D BY <1>2, ChainIsLeast
  <1> QED BY <1>3

-----------------------------------------------------------------------------
\* Types, and counts that are the references held.
TableInv ==
  /\ hash_table \in [Index -> Entry \cup {NULL}] /\ text \in [Entry -> String \cup {NULL}]
  /\ held \in [Entry -> Nat] /\ refcount = held
  /\ next \in Link /\ DOMAIN up = Entry /\ topbit \in SUBSET Allocated
  /\ \A e \in Entry : e \in Allocated <=> held[e] > 0

\* Links lead to entries of the same slot and back, and no text is there twice.
LinkInv ==
  /\ \A k \in Index : hash_table[k] # NULL =>
       hash_table[k] \in Allocated /\ Slot[text[hash_table[k]]] = k
  /\ \A e \in Entry : next[e] # NULL =>
       /\ e \in Allocated /\ next[e] \in Allocated \ topbit
       /\ Slot[text[next[e]]] = Slot[text[e]] /\ up[next[e]] = e
  /\ \A e \in Allocated :
       /\ e \in topbit <=> hash_table[Slot[text[e]]] = e
       /\ IF e \in topbit THEN up[e] = Slot[text[e]]
                          ELSE up[e] \in Entry /\ next[up[e]] = e
  /\ \A d, e \in Allocated : text[d] = text[e] => d = e

\* Every entry is in the chain of its slot, and the chain has an end.
ChainInv ==
  /\ \A e \in Allocated : LET f == hash_table[Slot[text[e]]]
                          IN  f # NULL /\ e \in Chain(next, f)
  /\ \A k \in Index : hash_table[k] # NULL =>
       \E z \in Chain(next, hash_table[k]) : next[z] = NULL

StringsInv == TableInv /\ LinkInv /\ ChainInv

\* The chain of a slot has entries of this slot only.
LEMMA ChainOfSlot ==
  ASSUME TableInv, LinkInv, NEW k \in Index, hash_table[k] # NULL
  PROVE  Chain(next, hash_table[k]) \subseteq {e \in Allocated : Slot[text[e]] = k}
  <1> DEFINE C == {e \in Allocated : Slot[text[e]] = k}
  <1>1. hash_table[k] \in C BY DEF LinkInv
  <1>3. C \in SUBSET Entry BY DEF Allocated
  <1>2. Follows(next, C) BY <1>3 DEF Follows, LinkInv
  <1> QED BY <1>1, <1>2, <1>3, ChainIsLeast

\* An entry in use has a text, whose slot is one of the table's.
LEMMA SlotOfEntry ==
  ASSUME TableInv, NEW e \in Allocated
  PROVE  e \in Entry /\ text[e] \in String /\ Slot[text[e]] \in Index
  BY DEF TableInv, Allocated, Index

\* The loop visits no entry that is not in the chain.
LEMMA ReachedInChain ==
  ASSUME TableInv, NEW s, NEW f \in Entry
  PROVE  /\ Reached(f, s) \subseteq Chain(next, f) /\ f \in Reached(f, s)
         /\ \A d \in Reached(f, s) : Stops(d, s) \/ next[d] \in Reached(f, s)
  <1>1. next \in Link BY DEF TableInv
  <1>2. \A d \in Chain(next, f) : Stops(d, s) \/ next[d] \in Chain(next, f)
    BY <1>1, ChainIsClosed DEF Follows, Stops
  <1>3. Reached(f, s) \subseteq Chain(next, f)
    <2>1. Chain(next, f) \in SUBSET Entry BY DEF Chain
    <2>2. f \in Chain(next, f) BY <1>1, ChainIsClosed
    <2> QED BY <1>2, <2>1, <2>2 DEF Reached
  <1>4. ASSUME NEW d \in Reached(f, s), ~Stops(d, s) PROVE next[d] \in Reached(f, s)
    <2>1. d \in Entry BY DEF Reached
    <2>2. next[d] \in Entry BY <1>1, <1>4, <2>1 DEF Stops, Link
    <2>3. ASSUME NEW C \in SUBSET Entry, f \in C,
                 \A c \in C : Stops(c, s) \/ next[c] \in C
          PROVE  next[d] \in C
      <3>1. d \in C BY <2>3 DEF Reached
      <3> QED BY <1>4, <2>3, <3>1
    <2> QED BY <2>2, <2>3 DEF Reached
  <1>5. f \in Reached(f, s) BY DEF Reached
  <1> QED BY <1>3, <1>4, <1>5

\* Where the loop ends if the text is in the table: at its entry.
LEMMA WalkFinds ==
  ASSUME StringsInv, NEW e \in Allocated
  PROVE  Walk(hash_table[Slot[text[e]]], text[e]) = e /\ find_string(text[e]) = e
  <1> DEFINE s == text[e]
             f == hash_table[Slot[s]]
             R == Reached(f, s)
  <1>0. next \in Link /\ e \in Entry /\ s \in String /\ Slot[s] \in Index
    BY SlotOfEntry DEF StringsInv, TableInv
  <1>1. f \in Entry /\ f # NULL /\ e \in Chain(next, f)
    BY <1>0, StringsAssumption DEF StringsInv, ChainInv, TableInv
  <1>2. R \subseteq Chain(next, f) /\ f \in R /\ \A d \in R : Stops(d, s) \/ next[d] \in R
    BY <1>1, ReachedInChain DEF StringsInv
  <1>3. Chain(next, f) \subseteq {d \in Allocated : Slot[text[d]] = Slot[s]}
    BY <1>0, <1>1, ChainOfSlot DEF StringsInv
  <1>4. \A d \in R : text[d] = s => d = e
    BY <1>2, <1>3 DEF StringsInv, LinkInv
  <1> HIDE DEF s, f, R
  <1>5. e \in R
    <2> SUFFICES ASSUME e \notin R PROVE FALSE OBVIOUS
    <2>1. Follows(next, R) BY <1>2, <1>4 DEF Follows, Stops
    <2>2. R \in SUBSET Entry BY <1>2 DEF Chain
    <2>3. Chain(next, f) \subseteq R BY <1>2, <2>1, <2>2, ChainIsLeast
    <2> QED BY <1>1, <2>3
  <1>6. ASSUME NEW x \in R, Stops(x, s) PROVE x = e
    <2> DEFINE D == {c \in Entry : e \in Chain(next, c)}
    <2>1. ASSUME NEW c \in D, ~Stops(c, s) PROVE next[c] \in D
      <3>1. c # e /\ next[c] # NULL BY <2>1 DEF Stops, s
      <3>2. next[c] \in Entry BY <1>0, <3>1 DEF Link
      <3> QED BY <1>0, <2>1, <3>1, <3>2, ChainSplits
    <2>2. f \in D BY <1>1
    <2>3. D \in SUBSET Entry OBVIOUS
    <2> HIDE DEF D
    <2>4. x \in D BY <1>6, <2>1, <2>2, <2>3 DEF Reached, R
    <2>5. x \in Entry /\ e \in Chain(next, x) BY <2>4 DEF D
    <2>6. CASE text[x] = s BY <1>4, <2>6
    <2>7. CASE next[x] = NULL BY <1>0, <2>5, <2>7, ChainSplits
    <2> QED BY <1>6, <2>6, <2>7 DEF Stops
  <1>7. Walk(f, s) = e
    <2>1. Stops(e, s) BY DEF Stops, s
    <2> QED BY <1>5, <1>6, <2>1 DEF Walk, R
  <1>8. find_string(s) = e BY <1>1, <1>7 DEF find_string, f, s
  <1> QED BY <1>7, <1>8 DEF f, s

\* ... and if it is not there: at the last entry of the chain.
LEMMA WalkEnds ==
  ASSUME StringsInv, NEW s \in String, \A e \in Allocated : text[e] # s,
         hash_table[Slot[s]] # NULL
  PROVE  LET w == Walk(hash_table[Slot[s]], s)
         IN  w \in Chain(next, hash_table[Slot[s]]) /\ next[w] = NULL
  <1> DEFINE f == hash_table[Slot[s]]
             R == Reached(f, s)
  <1>0. next \in Link /\ Slot[s] \in Index BY DEF StringsInv, TableInv, Index
  <1>1. f \in Entry BY <1>0 DEF StringsInv, TableInv
  <1>2. R \subseteq Chain(next, f) /\ f \in R /\ \A d \in R : Stops(d, s) \/ next[d] \in R
    BY <1>1, ReachedInChain DEF StringsInv
  <1>3. Chain(next, f) \subseteq Allocated
    BY <1>0, ChainOfSlot DEF StringsInv
  <1>4. PICK z \in Chain(next, f) : next[z] = NULL
    BY <1>0 DEF StringsInv, ChainInv
  <1> HIDE DEF f, R
  <1>5. Follows(next, R) BY <1>2, <1>3 DEF Follows, Stops
  <1>6. R \in SUBSET Entry BY <1>2 DEF Chain
  <1>7. z \in R BY <1>2, <1>4, <1>5, <1>6, ChainIsLeast
  <1>8. Walk(f, s) \in R /\ Stops(Walk(f, s), s) BY <1>4, <1>7 DEF Walk, Stops, R
  <1>9. text[Walk(f, s)] # s BY <1>2, <1>3, <1>8
  <1> QED BY <1>2, <1>8, <1>9 DEF Stops, f

\* The counts and links are what InternedOnce says.
LEMMA StringsAreInterned == StringsInv => InternedOnce
  <1> SUFFICES ASSUME StringsInv PROVE InternedOnce OBVIOUS
  <1>1. \A e \in Allocated : find_string(text[e]) = e BY WalkFinds
  <1> QED BY <1>1 DEF StringsInv, TableInv, LinkInv, InternedOnce

-----------------------------------------------------------------------------
\* An end that gets a successor loses nothing of any chain.
LEMMA ChainGrows ==
  ASSUME NEW nx, NEW ny, NEW z, nx[z] = NULL,
         \A d \in Entry : d # z => ny[d] = nx[d] \/ nx[d] = NULL, NEW f
  PROVE  Chain(nx, f) \subseteq Chain(ny, f)
  <1>1. ASSUME NEW C \in SUBSET Entry, Follows(ny, C) PROVE Follows(nx, C)
    BY <1>1 DEF Follows
  <1> QED BY <1>1 DEF Chain

\* A chain of entries whose links stay loses nothing.
LEMMA ChainStays ==
  ASSUME NEW nx, NEW ny, NEW f, NEW B \in SUBSET Entry, f \in B, Follows(nx, B),
         \A d \in B : ny[d] = nx[d]
  PROVE  Chain(nx, f) \subseteq Chain(ny, f)
  <1>1. ASSUME NEW C \in SUBSET Entry, f \in C, Follows(ny, C)
        PROVE  Chain(nx, f) \subseteq C
    <2>1. Follows(nx, B \cap C) BY <1>1 DEF Follows
    <2>2. B \cap C \in SUBSET Entry /\ f \in B \cap C BY <1>1
    <2>3. Chain(nx, f) \subseteq B \cap C BY <2>1, <2>2, ChainIsLeast
    <2> QED BY <2>3
  <1> QED BY <1>1 DEF Chain

\* What was reachable from an entry that goes is reachable from the next.
LEMMA ChainLosesFirst ==
  ASSUME NEW nx \in Link, NEW e \in Entry, nx[e] # NULL, NEW ny,
         \A d \in Entry \ {e} : ny[d] = nx[d]
  PROVE  Chain(nx, e) \ {e} \subseteq Chain(ny, nx[e])
  <1>1. ASSUME NEW C \in SUBSET Entry, nx[e] \in C, Follows(ny, C)
        PROVE  Chain(nx, e) \subseteq C \cup {e}
    <2>1. Follows(nx, C \cup {e}) BY <1>1 DEF Follows
    <2> QED BY <2>1, ChainIsLeast
  <1> QED BY <1>1 DEF Chain

\* An entry that is cut out from behind p, its only predecessor, leaves the rest.
LEMMA ChainLosesOne ==
  ASSUME NEW nx \in Link, NEW e \in Entry, NEW p \in Entry, p # e, nx[p] = e,
         \A d \in Entry : nx[d] = e => d = p,
         NEW f \in Entry, f # e,
         NEW ny \in Link, ny[p] = nx[e], \A d \in Entry \ {e, p} : ny[d] = nx[d]
  PROVE  Chain(nx, f) \ {e} \subseteq Chain(ny, f)
  <1>1. ASSUME NEW C \in SUBSET Entry, f \in C, Follows(ny, C)
        PROVE  Chain(nx, f) \ {e} \subseteq C
    <2>1. CASE p \in C
      <3>1. Follows(nx, C \cup {e}) BY <1>1, <2>1 DEF Follows
      <3>2. Chain(nx, f) \subseteq C \cup {e} BY <1>1, <3>1, ChainIsLeast
      <3> QED BY <3>2
    <2>2. CASE p \notin C
      <3>1. Follows(nx, C \ {e}) BY <1>1, <2>2 DEF Follows
      <3>2. Chain(nx, f) \subseteq C \ {e} BY <1>1, <3>1, ChainIsLeast
      <3> QED BY <3>2
    <2> QED BY <2>1, <2>2
  <1> QED BY <1>1 DEF Chain

\* No entry follows itself.
LEMMA NoLoop ==
  ASSUME StringsInv, NEW e \in Allocated
  PROVE  next[e] # e
  <1> SUFFICES ASSUME next[e] = e PROVE FALSE OBVIOUS
  <1>0. next \in Link /\ e \in Entry /\ Slot[text[e]] \in Index
    BY SlotOfEntry DEF StringsInv, TableInv
  <1> DEFINE f == hash_table[Slot[text[e]]]
  <1>1. f \in Entry /\ f # NULL /\ e \in Chain(next, f)
    BY <1>0, StringsAssumption DEF StringsInv, ChainInv, TableInv
  <1>2. PICK z \in Chain(next, f) : next[z] = NULL
    BY <1>0, <1>1 DEF StringsInv, ChainInv
  <1> HIDE DEF f
  <1>3. z \in Chain(next, e) BY <1>0, <1>1, <1>2, ChainEnds
  <1>4. Follows(next, {e}) BY DEF Follows
  <1>5. z = e BY <1>0, <1>3, <1>4, ChainIsLeast
  <1> QED BY <1>0, <1>2, <1>5, StringsAssumption

\* Only counts change.
LEMMA CountsStep ==
  ASSUME StringsInv, TableInv', UNCHANGED <<hash_table, text, topbit, next, up>>
  PROVE  StringsInv'
  <1>1. Allocated' = Allocated BY DEF Allocated
  <1>2. LinkInv' BY <1>1 DEF StringsInv, LinkInv
  <1>3. ChainInv' BY <1>1 DEF StringsInv, ChainInv
  <1> QED BY <1>2, <1>3 DEF StringsInv

\* One more reference to an entry in use.
LEMMA KnownStep ==
  ASSUME StringsInv, NEW e \in Entry, held[e] > 0, Count(e),
         UNCHANGED <<hash_table, text, topbit, next, up>>
  PROVE  StringsInv'
  <1>1. Allocated' = Allocated BY DEF Allocated
  <1>2. TableInv' BY <1>1 DEF StringsInv, TableInv, Count
  <1> QED BY <1>2, CountsStep

\* A text that is not found is not in the table.
LEMMA NotFound ==
  ASSUME StringsInv, NEW s \in String, find_string(s) = NULL
  PROVE  \A e \in Allocated : text[e] # s
  <1> SUFFICES ASSUME NEW e \in Allocated, text[e] = s PROVE FALSE OBVIOUS
  <1>1. find_string(s) = e BY WalkFinds
  <1> QED BY <1>1, StringsAssumption DEF Allocated

\* add_string() of a new text: it is the first of its chain, or follows the last.
LEMMA NewStep ==
  ASSUME StringsInv, NEW s \in String, NEW e \in Entry, AddNew(s, e)
  PROVE  StringsInv'
  <1> DEFINE k == Slot[s]
             first == hash_table[k]
  <1>0. /\ k \in Index /\ e \notin Allocated /\ e # NULL /\ s # NULL
        /\ next \in Link /\ next[e] = NULL
        /\ text' = [text EXCEPT ![e] = s]
        /\ \A d \in Allocated : text[d] # s
    BY NotFound, StringsAssumption DEF AddNew, Index, StringsInv, TableInv, LinkInv
  <1>1. Allocated' = Allocated \cup {e} /\ e \in Allocated'
    BY <1>0 DEF StringsInv, TableInv, Allocated
  <1>2. /\ \A d \in Allocated : text'[d] = text[d] /\ d # e /\ d \in Entry
        /\ text'[e] = s
    BY <1>0 DEF StringsInv, TableInv, Allocated
  <1>3. \A c, d \in Allocated' : text'[c] = text'[d] => c = d
    BY <1>0, <1>1, <1>2 DEF StringsInv, LinkInv
  <1>4. CASE first = NULL
    <2>1. /\ hash_table' = [hash_table EXCEPT ![k] = e] /\ topbit' = topbit \cup {e}
          /\ up' = [up EXCEPT ![e] = k] /\ next' = next
      <3>1. next' = [next EXCEPT ![e] = NULL] BY <1>4 DEF AddNew
      <3>2. next' = next BY <1>0, <3>1 DEF Link
      <3> QED BY <1>4, <3>2 DEF AddNew
    <2>2. TableInv'
      BY <1>0, <1>1, <2>1 DEF StringsInv, TableInv, AddNew, Count, Allocated
    <2>3. \A d \in Allocated : Slot[text[d]] # k
      BY <1>4 DEF StringsInv, ChainInv
    <2>4. hash_table'[k] = e /\ \A j \in Index : j # k => hash_table'[j] = hash_table[j]
      BY <1>0, <2>1 DEF StringsInv, TableInv
    <2>5. \A d \in Allocated : Slot[text[d]] \in Index BY SlotOfEntry DEF StringsInv
    <2>6. LinkInv'
      <3>1. (\A j \in Index : hash_table[j] # NULL =>
               hash_table[j] \in Allocated /\ Slot[text[hash_table[j]]] = j)'
        BY <1>0, <1>1, <1>2, <2>4 DEF StringsInv, LinkInv, Index
      <3>2. (\A d \in Entry : next[d] # NULL =>
               /\ d \in Allocated /\ next[d] \in Allocated \ topbit
               /\ Slot[text[next[d]]] = Slot[text[d]] /\ up[next[d]] = d)'
        BY <1>0, <1>1, <1>2, <2>1 DEF StringsInv, LinkInv, TableInv
      <3>3. ASSUME NEW d \in Allocated'
            PROVE  (/\ d \in topbit <=> hash_table[Slot[text[d]]] = d
                    /\ IF d \in topbit THEN up[d] = Slot[text[d]]
                       ELSE up[d] \in Entry /\ next[up[d]] = d)'
        <4>1. CASE d = e BY <1>2, <2>1, <2>4, <4>1 DEF StringsInv, TableInv
        <4>2. CASE d \in Allocated
          BY <1>2, <2>1, <2>3, <2>4, <2>5, <4>2 DEF StringsInv, LinkInv, TableInv
        <4> QED BY <1>1, <4>1, <4>2
      <3> QED BY <1>3, <3>1, <3>2, <3>3 DEF LinkInv
    <2>7. Chain(next, e) = {e} BY <1>0, ChainSplits
    <2>8. ChainInv'
      <3>1. ASSUME NEW d \in Allocated'
            PROVE  (hash_table[Slot[text[d]]] # NULL /\ d \in Chain(next, hash_table[Slot[text[d]]]))'
        <4>1. CASE d = e BY <1>0, <1>2, <2>1, <2>4, <2>7, <4>1
        <4>2. CASE d \in Allocated
          BY <1>2, <2>1, <2>3, <2>4, <2>5, <4>2 DEF StringsInv, ChainInv
        <4> QED BY <1>1, <4>1, <4>2
      <3>2. ASSUME NEW j \in Index, hash_table'[j] # NULL
            PROVE  \E z \in Chain(next', hash_table'[j]) : next'[z] = NULL
        <4>1. CASE j = k BY <1>0, <2>1, <2>4, <2>7, <4>1
        <4>2. CASE j # k BY <2>1, <2>4, <3>2, <4>2 DEF StringsInv, ChainInv
        <4> QED BY <4>1, <4>2
      <3> QED BY <3>1, <3>2 DEF ChainInv, Index
    <2> QED BY <2>2, <2>6, <2>8 DEF StringsInv
  <1>5. CASE first # NULL
    <2> DEFINE w == Walk(first, s)
    <2>1. w \in Chain(next, first) /\ next[w] = NULL BY <1>0, <1>5, WalkEnds
    <2>2. w \in Allocated /\ Slot[text[w]] = k /\ w # e /\ w \in Entry
      BY <1>0, <1>2, <1>5, <2>1, ChainOfSlot DEF StringsInv
    <2> HIDE DEF w
    <2>3. /\ hash_table' = hash_table /\ topbit' = topbit /\ up' = [up EXCEPT ![e] = w]
          /\ next' = [next EXCEPT ![w] = e, ![e] = NULL]
      BY <1>5 DEF AddNew, w
    <2>4. /\ next' \in Link /\ next'[w] = e /\ next'[e] = NULL
          /\ \A d \in Entry : d # w => next'[d] = next[d]
      BY <1>0, <2>2, <2>3 DEF Link
    <2>5. TableInv'
      BY <1>0, <1>1, <2>3, <2>4 DEF StringsInv, TableInv, AddNew, Count, Allocated
    <2>6. LinkInv'
      <3>1. (\A j \in Index : hash_table[j] # NULL =>
               hash_table[j] \in Allocated /\ Slot[text[hash_table[j]]] = j)'
        BY <1>1, <1>2, <2>3 DEF StringsInv, LinkInv, Index
      <3>2. ASSUME NEW d \in Entry, next'[d] # NULL
            PROVE  (/\ d \in Allocated /\ next[d] \in Allocated \ topbit
                    /\ Slot[text[next[d]]] = Slot[text[d]] /\ up[next[d]] = d)'
        <4>0. e \notin topbit /\ DOMAIN up = Entry BY <1>0 DEF StringsInv, TableInv
        <4>1. CASE d = w
          <5>1. next'[d] = e /\ up'[e] = w BY <2>3, <2>4, <4>0, <4>1
          <5>2. text'[d] = text[w] /\ text'[e] = s BY <1>2, <2>2, <4>1
          <5> QED BY <1>1, <2>2, <2>3, <4>0, <4>1, <5>1, <5>2
        <4>2. CASE d # w
          <5>1. next'[d] = next[d] BY <2>4, <4>2
          <5>2. /\ d \in Allocated /\ next[d] \in Allocated \ topbit
                /\ Slot[text[next[d]]] = Slot[text[d]] /\ up[next[d]] = d
            BY <3>2, <5>1 DEF StringsInv, LinkInv
          <5>3. up'[next[d]] = up[next[d]] BY <1>2, <2>3, <4>0, <5>2
          <5> QED BY <1>1, <1>2, <2>3, <5>1, <5>2, <5>3
        <4> QED BY <4>1, <4>2
      <3>3. ASSUME NEW d \in Allocated'
            PROVE  (/\ d \in topbit <=> hash_table[Slot[text[d]]] = d
                    /\ IF d \in topbit THEN up[d] = Slot[text[d]]
                       ELSE up[d] \in Entry /\ next[up[d]] = d)'
        <4>1. CASE d = e
          <5>1. e \notin topbit BY <1>0 DEF StringsInv, TableInv
          <5>2. hash_table[k] # e BY <1>0, <1>5 DEF StringsInv, LinkInv
          <5> QED BY <1>2, <2>2, <2>3, <2>4, <4>1, <5>1, <5>2 DEF StringsInv, TableInv
        <4>2. CASE d \in Allocated
          <5>1. d # e /\ d # NULL BY <1>2, <4>2, StringsAssumption
          <5>2. d \notin topbit => up[d] \in Entry /\ next[up[d]] = d /\ up[d] # w
            BY <2>1, <4>2, <5>1 DEF StringsInv, LinkInv
          <5>3. up'[d] = up[d] /\ text'[d] = text[d]
            BY <1>2, <2>3, <4>2, <5>1 DEF StringsInv, TableInv
          <5>4. /\ d \in topbit <=> hash_table[Slot[text[d]]] = d
                /\ d \in topbit => up[d] = Slot[text[d]]
            BY <4>2 DEF StringsInv, LinkInv
          <5> QED BY <2>3, <2>4, <5>2, <5>3, <5>4
        <4> QED BY <1>1, <4>1, <4>2
      <3> QED BY <1>3, <3>1, <3>2, <3>3 DEF LinkInv
    <2>7. \A f : Chain(next, f) \subseteq Chain(next', f)
      BY <2>1, <2>4, ChainGrows
    <2>8. ChainInv'
      <3>1. e \in Chain(next', first)
        <4>1. first \in Entry BY <1>0, <1>5 DEF StringsInv, TableInv
        <4> QED BY <1>0, <2>1, <2>4, <2>7, <4>1, ChainIsClosed DEF Follows
      <3>2. ASSUME NEW d \in Allocated'
            PROVE  (hash_table[Slot[text[d]]] # NULL /\ d \in Chain(next, hash_table[Slot[text[d]]]))'
        <4>1. CASE d = e BY <1>2, <1>5, <2>3, <3>1, <4>1
        <4>2. CASE d \in Allocated BY <1>2, <2>3, <2>7, <4>2 DEF StringsInv, ChainInv
        <4> QED BY <1>1, <4>1, <4>2
      <3>3. ASSUME NEW j \in Index, hash_table'[j] # NULL
            PROVE  \E z \in Chain(next', hash_table'[j]) : next'[z] = NULL
        <4>1. CASE j = k BY <2>3, <2>4, <3>1, <4>1
        <4>2. CASE j # k
          <5>1. PICK z \in Chain(next, hash_table[j]) : next[z] = NULL
            BY <2>3, <3>3 DEF StringsInv, ChainInv
          <5>2. z \in Entry /\ Slot[text[z]] = j
            BY <2>3, <3>3, ChainOfSlot DEF StringsInv, Allocated
          <5> QED BY <2>2, <2>3, <2>4, <2>7, <4>2, <5>1, <5>2
        <4> QED BY <4>1, <4>2
      <3> QED BY <3>2, <3>3 DEF ChainInv, Index
    <2> QED BY <2>5, <2>6, <2>8 DEF StringsInv
  <1> QED BY <1>4, <1>5

\* The last reference to the first entry of a chain goes: the next one is told.
LEMMA FirstStep ==
  ASSUME StringsInv, NEW e \in Allocated, TableInv', e \in topbit,
         Allocated' = Allocated \ {e}, \A d \in Entry : d # e => text'[d] = text[d],
         hash_table' = [hash_table EXCEPT ![up[e]] = next[e]],
         topbit' = (topbit \ {e}) \cup ({next[e]} \ {NULL}),
         up' = IF next[e] = NULL THEN up ELSE [up EXCEPT ![next[e]] = up[e]],
         next' = [next EXCEPT ![e] = NULL]
  PROVE  LinkInv' /\ ChainInv'
  <1> DEFINE k == Slot[text[e]]
             n == next[e]
  <1>0. /\ next \in Link /\ next' \in Link /\ DOMAIN up = Entry
        /\ e \in Entry /\ e # NULL /\ k \in Index /\ up[e] = k /\ hash_table[k] = e
    BY SlotOfEntry, StringsAssumption DEF StringsInv, TableInv, LinkInv
  <1>1. next'[e] = NULL /\ \A d \in Entry : d # e => next'[d] = next[d]
    BY <1>0 DEF Link
  <1>2. hash_table'[k] = n /\ \A j \in Index : j # k => hash_table'[j] = hash_table[j]
    BY <1>0 DEF StringsInv, TableInv
  <1>3. n # e BY NoLoop
  <1>4. \A d \in Allocated : d \in Entry /\ Slot[text[d]] \in Index
    BY SlotOfEntry DEF StringsInv
  <1>5. n # NULL => /\ n \in Allocated' /\ n \in Entry /\ up[n] = e
                    /\ Slot[text'[n]] = k /\ Slot[text[n]] = k
                    /\ n \notin topbit /\ up'[n] = k /\ n \in topbit'
    BY <1>0, <1>3, <1>4 DEF StringsInv, LinkInv
  <1>6. \A d \in Entry : d # n => up'[d] = up[d] BY <1>0
  <1>7. \A d \in Allocated' : d \in Allocated /\ d # e /\ text'[d] = text[d] /\ d \in Entry
    BY <1>4
  <1> HIDE DEF n, k
  <1>8. LinkInv'
    <2>1. ASSUME NEW j \in Index, hash_table'[j] # NULL
          PROVE  hash_table'[j] \in Allocated' /\ Slot[text'[hash_table'[j]]] = j
      <3>1. CASE j = k BY <1>2, <1>5, <2>1, <3>1
      <3>2. CASE j # k
        <4>1. hash_table[j] \in Allocated /\ Slot[text[hash_table[j]]] = j
          BY <1>2, <2>1, <3>2 DEF StringsInv, LinkInv
        <4>2. hash_table[j] # e BY <3>2, <4>1 DEF k
        <4> QED BY <1>2, <1>7, <3>2, <4>1, <4>2
      <3> QED BY <3>1, <3>2
    <2>2. ASSUME NEW d \in Entry, next'[d] # NULL
          PROVE  /\ d \in Allocated' /\ next'[d] \in Allocated' \ topbit'
                 /\ Slot[text'[next'[d]]] = Slot[text'[d]] /\ up'[next'[d]] = d
      <3>1. d # e /\ next'[d] = next[d] BY <1>1, <2>2
      <3>2. /\ d \in Allocated /\ next[d] \in Allocated \ topbit
            /\ Slot[text[next[d]]] = Slot[text[d]] /\ up[next[d]] = d
        BY <2>2, <3>1 DEF StringsInv, LinkInv
      <3>3. next[d] # e BY <3>2
      <3>4. next[d] # n BY <1>5, <2>2, <3>1, <3>2
      <3>5. next[d] \notin topbit' BY <3>2, <3>4 DEF n
      <3> QED BY <1>4, <1>6, <1>7, <3>1, <3>2, <3>3, <3>4, <3>5
    <2>3. ASSUME NEW d \in Allocated'
          PROVE  /\ d \in topbit' <=> hash_table'[Slot[text'[d]]] = d
                 /\ IF d \in topbit' THEN up'[d] = Slot[text'[d]]
                    ELSE up'[d] \in Entry /\ next'[up'[d]] = d
      <3>1. CASE d = n
        <4>1. n # NULL BY <1>7, <3>1, StringsAssumption
        <4> QED BY <1>2, <1>5, <3>1, <4>1
      <3>2. CASE d # n
        <4>1. d \in topbit' <=> d \in topbit BY <1>7, <3>2 DEF n
        <4>2. /\ d \in topbit <=> hash_table[Slot[text[d]]] = d
              /\ IF d \in topbit THEN up[d] = Slot[text[d]]
                 ELSE up[d] \in Entry /\ next[up[d]] = d
          BY <1>7 DEF StringsInv, LinkInv
        <4>3. hash_table'[Slot[text[d]]] = d <=> hash_table[Slot[text[d]]] = d
          BY <1>0, <1>2, <1>4, <1>7, <3>2
        <4>4. d \notin topbit => up[d] # e BY <3>2, <4>2 DEF n
        <4> QED BY <1>1, <1>6, <1>7, <3>2, <4>1, <4>2, <4>3, <4>4
      <3> QED BY <3>1, <3>2
    <2>4. \A c, d \in Allocated' : text'[c] = text'[d] => c = d
      BY <1>7 DEF StringsInv, LinkInv
    <2> QED BY <2>1, <2>2, <2>3, <2>4 DEF LinkInv, Index
  <1>9. ASSUME NEW j \in Index, j # k, hash_table[j] # NULL
        PROVE  Chain(next, hash_table[j]) \subseteq Chain(next', hash_table[j])
    <2> DEFINE B == Chain(next, hash_table[j])
    <2>1. B \subseteq {d \in Allocated : Slot[text[d]] = j}
      BY <1>9, ChainOfSlot DEF StringsInv
    <2>2. hash_table[j] \in Entry BY <1>4, <1>9 DEF StringsInv, LinkInv
    <2>3. hash_table[j] \in B /\ Follows(next, B) /\ B \in SUBSET Entry
      BY <1>0, <2>2, ChainIsClosed DEF Chain
    <2>4. \A d \in B : next'[d] = next[d] BY <1>1, <1>4, <1>9, <2>1 DEF k
    <2> QED BY <2>3, <2>4, ChainStays
  <1>10. ASSUME NEW d \in Allocated', Slot[text[d]] = k
         PROVE  n # NULL /\ d \in Chain(next', n)
    <2>1. d \in Chain(next, e) /\ d # e
      BY <1>0, <1>7, <1>10 DEF StringsInv, ChainInv
    <2>2. n # NULL BY <1>0, <2>1, ChainSplits DEF n
    <2> QED BY <1>0, <1>1, <2>1, <2>2, ChainLosesFirst DEF n
  <1>11. ASSUME NEW d \in Allocated'
         PROVE  /\ hash_table'[Slot[text'[d]]] # NULL
                /\ d \in Chain(next', hash_table'[Slot[text'[d]]])
    <2>1. CASE Slot[text[d]] = k BY <1>2, <1>7, <1>10, <2>1
    <2>2. CASE Slot[text[d]] # k
      <3>1. hash_table[Slot[text[d]]] # NULL /\ d \in Chain(next, hash_table[Slot[text[d]]])
        BY <1>7 DEF StringsInv, ChainInv
      <3> QED BY <1>2, <1>4, <1>7, <1>9, <2>2, <3>1
    <2> QED BY <2>1, <2>2
  <1>12. ASSUME NEW j \in Index, hash_table'[j] # NULL
         PROVE  \E z \in Chain(next', hash_table'[j]) : next'[z] = NULL
    <2>1. CASE j = k
      <3>1. PICK z \in Chain(next, e) : next[z] = NULL
        BY <1>0 DEF StringsInv, ChainInv
      <3>2. z # e /\ n # NULL BY <1>2, <1>12, <2>1, <3>1 DEF n
      <3>3. z \in Entry BY <3>1 DEF Chain
      <3>4. z \in Chain(next', n)
        BY <1>0, <1>1, <3>1, <3>2, ChainLosesFirst DEF n
      <3> QED BY <1>1, <1>2, <2>1, <3>1, <3>2, <3>3, <3>4
    <2>2. CASE j # k
      <3>1. hash_table'[j] = hash_table[j] BY <1>2, <2>2
      <3>2. PICK z \in Chain(next, hash_table[j]) : next[z] = NULL
        BY <1>12, <3>1 DEF StringsInv, ChainInv
      <3>3. z \in Entry BY <3>2 DEF Chain
      <3> QED BY <1>1, <1>9, <1>12, <2>2, <3>1, <3>2, <3>3
    <2> QED BY <2>1, <2>2
  <1> QED BY <1>8, <1>11, <1>12 DEF ChainInv, Index

\* The last reference to another entry goes: its neighbours are linked.
LEMMA OtherStep ==
  ASSUME StringsInv, NEW e \in Allocated, TableInv', e \notin topbit,
         Allocated' = Allocated \ {e}, \A d \in Entry : d # e => text'[d] = text[d],
         hash_table' = hash_table, topbit' = topbit,
         up' = IF next[e] = NULL THEN up ELSE [up EXCEPT ![next[e]] = up[e]],
         next' = [next EXCEPT ![up[e]] = next[e], ![e] = NULL]
  PROVE  LinkInv' /\ ChainInv'
  <1> DEFINE k == Slot[text[e]]
             n == next[e]
             p == up[e]
  <1>0. /\ next \in Link /\ next' \in Link /\ DOMAIN up = Entry
        /\ e \in Entry /\ e # NULL /\ k \in Index /\ p \in Entry /\ next[p] = e
    BY SlotOfEntry, StringsAssumption DEF StringsInv, TableInv, LinkInv
  <1>1. n # e /\ p # e /\ p # NULL
    BY <1>0, NoLoop, StringsAssumption
  <1>2. p \in Allocated /\ Slot[text[p]] = k
    BY <1>0 DEF StringsInv, LinkInv
  <1>3. next'[e] = NULL /\ next'[p] = n /\ \A d \in Entry : d # e /\ d # p => next'[d] = next[d]
    BY <1>0, <1>1 DEF Link
  <1>4. \A d \in Allocated : d \in Entry /\ Slot[text[d]] \in Index
    BY SlotOfEntry DEF StringsInv
  <1>5. n # NULL => /\ n \in Allocated' /\ n \in Entry /\ up[n] = e
                    /\ Slot[text'[n]] = k /\ Slot[text[n]] = k
                    /\ n \notin topbit /\ up'[n] = p
    BY <1>0, <1>1, <1>4 DEF StringsInv, LinkInv
  <1>6. \A d \in Entry : d # n => up'[d] = up[d] BY <1>0
  <1>7. \A d \in Allocated' : d \in Allocated /\ d # e /\ text'[d] = text[d] /\ d \in Entry
    BY <1>4
  <1>8. \A d \in Entry : next[d] = e => d = p
    BY <1>0 DEF StringsInv, LinkInv
  <1> HIDE DEF n, k, p
  <1>9. LinkInv'
    <2>1. ASSUME NEW j \in Index, hash_table'[j] # NULL
          PROVE  hash_table'[j] \in Allocated' /\ Slot[text'[hash_table'[j]]] = j
      <3>1. hash_table[j] \in Allocated /\ Slot[text[hash_table[j]]] = j
        BY <2>1 DEF StringsInv, LinkInv
      <3>2. hash_table[j] # e BY <3>1 DEF StringsInv, LinkInv
      <3> QED BY <1>7, <3>1, <3>2
    <2>2. ASSUME NEW d \in Entry, next'[d] # NULL
          PROVE  /\ d \in Allocated' /\ next'[d] \in Allocated' \ topbit'
                 /\ Slot[text'[next'[d]]] = Slot[text'[d]] /\ up'[next'[d]] = d
      <3>1. CASE d = p BY <1>1, <1>2, <1>3, <1>5, <1>7, <2>2, <3>1
      <3>2. CASE d # p
        <4>1. d # e /\ next'[d] = next[d] BY <1>3, <2>2, <3>2
        <4>2. /\ d \in Allocated /\ next[d] \in Allocated \ topbit
              /\ Slot[text[next[d]]] = Slot[text[d]] /\ up[next[d]] = d
          BY <2>2, <4>1 DEF StringsInv, LinkInv
        <4>3. next[d] # e /\ next[d] # n BY <1>5, <1>8, <2>2, <3>2, <4>1, <4>2
        <4> QED BY <1>4, <1>6, <1>7, <4>1, <4>2, <4>3
      <3> QED BY <3>1, <3>2
    <2>3. ASSUME NEW d \in Allocated'
          PROVE  /\ d \in topbit' <=> hash_table'[Slot[text'[d]]] = d
                 /\ IF d \in topbit' THEN up'[d] = Slot[text'[d]]
                    ELSE up'[d] \in Entry /\ next'[up'[d]] = d
      <3>1. /\ d \in topbit <=> hash_table[Slot[text[d]]] = d
            /\ IF d \in topbit THEN up[d] = Slot[text[d]]
               ELSE up[d] \in Entry /\ next[up[d]] = d
        BY <1>7 DEF StringsInv, LinkInv
      <3>2. CASE d = n
        <4>1. n # NULL BY <1>7, <3>2, StringsAssumption
        <4> QED BY <1>0, <1>3, <1>5, <1>7, <3>1, <3>2, <4>1
      <3>3. CASE d # n
        <4>1. d \notin topbit => up[d] # e /\ up[d] # p
          BY <1>0, <1>7, <3>1, <3>3 DEF n
        <4>2. up'[d] = up[d] /\ text'[d] = text[d] BY <1>6, <1>7, <3>3
        <4>3. d \notin topbit => next'[up[d]] = d BY <1>3, <3>1, <4>1
        <4> QED BY <3>1, <4>2, <4>3
      <3> QED BY <3>2, <3>3
    <2>4. \A c, d \in Allocated' : text'[c] = text'[d] => c = d
      BY <1>7 DEF StringsInv, LinkInv
    <2> QED BY <2>1, <2>2, <2>3, <2>4 DEF LinkInv, Index
  <1>10. ASSUME NEW j \in Index, hash_table[j] # NULL
         PROVE  Chain(next, hash_table[j]) \ {e} \subseteq Chain(next', hash_table[j])
    <2>1. hash_table[j] \in Entry /\ hash_table[j] # e
      BY <1>4, <1>10 DEF StringsInv, LinkInv
    <2>2. next'[p] = next[e] /\ \A d \in Entry \ {e, p} : next'[d] = next[d]
      BY <1>3 DEF n
    <2>3. /\ next \in Link /\ next' \in Link
          /\ e \in Entry /\ p \in Entry /\ p # e /\ next[p] = e
      BY <1>0, <1>1
    <2> DEFINE ny == next'
               f == hash_table[j]
    <2>4. /\ ny \in Link /\ ny[p] = next[e] /\ (\A d \in Entry \ {e, p} : ny[d] = next[d])
          /\ f \in Entry /\ f # e
      BY <2>1, <2>2, <2>3
    <2> HIDE DEF ny, f
    <2>5. Chain(next, f) \ {e} \subseteq Chain(ny, f)
      BY ONLY <1>8, <2>3, <2>4, ChainLosesOne
    <2> QED BY <2>5 DEF ny, f
  <1>11. ASSUME NEW d \in Allocated'
         PROVE  /\ hash_table'[Slot[text'[d]]] # NULL
                /\ d \in Chain(next', hash_table'[Slot[text'[d]]])
    <2>1. hash_table[Slot[text[d]]] # NULL /\ d \in Chain(next, hash_table[Slot[text[d]]])
      BY <1>7 DEF StringsInv, ChainInv
    <2> QED BY <1>4, <1>7, <1>10, <2>1
  <1>12. ASSUME NEW j \in Index, hash_table'[j] # NULL
         PROVE  \E z \in Chain(next', hash_table'[j]) : next'[z] = NULL
    <2>1. PICK z \in Chain(next, hash_table[j]) : next[z] = NULL
      BY <1>12 DEF StringsInv, ChainInv
    <2>2. z \in Entry /\ Slot[text[z]] = j
      BY <1>12, <2>1, ChainOfSlot DEF StringsInv, Chain
    <2>3. CASE z # e
      BY <1>0, <1>3, <1>10, <1>12, <2>1, <2>2, <2>3
    <2>4. CASE z = e
      <3>1. j = k /\ n = NULL BY <2>1, <2>2, <2>4 DEF k, n
      <3>2. p \in Chain(next, hash_table[k])
        BY <1>2 DEF StringsInv, ChainInv
      <3> QED BY <1>1, <1>3, <1>10, <1>12, <3>1, <3>2
    <2> QED BY <2>3, <2>4
  <1> QED BY <1>9, <1>11, <1>12 DEF ChainInv, Index

\* free_string_shared(), with references left or not.
LEMMA FreeStep ==
  ASSUME StringsInv, NEW e \in Entry, free_string_shared(e)
  PROVE  StringsInv'
  <1>0. /\ held[e] > 0 /\ refcount[e] = held[e] /\ held[e] \in Nat /\ e \in Allocated
        /\ held' = [held EXCEPT ![e] = held[e] - 1]
        /\ refcount' = [refcount EXCEPT ![e] = held[e] - 1]
    BY DEF free_string_shared, StringsInv, TableInv
  <1>1. CASE refcount[e] # 1
    <2>1. UNCHANGED <<hash_table, text, topbit, next, up>>
      BY <1>1 DEF free_string_shared
    <2>2. Allocated' = Allocated BY <2>1 DEF Allocated
    <2>3. TableInv' BY <1>0, <1>1, <2>1, <2>2 DEF StringsInv, TableInv
    <2> QED BY <2>1, <2>3, CountsStep
  <1>2. CASE refcount[e] = 1
    <2>1. Unlink(e) /\ text' = [text EXCEPT ![e] = NULL]
      BY <1>2 DEF free_string_shared
    <2>2. /\ Allocated' = Allocated \ {e} /\ \A d \in Entry : d # e => text'[d] = text[d]
          /\ text' \in [Entry -> String \cup {NULL}]
      BY <2>1 DEF StringsInv, TableInv, Allocated
    <2>3. /\ held' \in [Entry -> Nat] /\ refcount' = held'
          /\ \A d \in Entry : d \in Allocated' <=> held'[d] > 0
      BY <1>0, <1>2, <2>2 DEF StringsInv, TableInv
    <2>4. next[e] # NULL => next[e] \in Allocated \ {e}
      <3>1. next[e] # e BY <1>0, NoLoop
      <3> QED BY <3>1 DEF StringsInv, LinkInv
    <2>5. next[e] \in Entry \cup {NULL} BY DEF StringsInv, TableInv, Link
    <2>6. CASE e \in topbit
      <3>1. /\ hash_table' = [hash_table EXCEPT ![up[e]] = next[e]]
            /\ topbit' = (topbit \ {e}) \cup ({next[e]} \ {NULL})
            /\ up' = IF next[e] = NULL THEN up ELSE [up EXCEPT ![next[e]] = up[e]]
            /\ next' = [next EXCEPT ![e] = NULL]
        BY <2>1, <2>6 DEF Unlink
      <3>2. TableInv'
        <4>1. hash_table' \in [Index -> Entry \cup {NULL}]
          BY <2>5, <3>1 DEF StringsInv, TableInv
        <4>2. next' \in Link BY <3>1 DEF StringsInv, TableInv, Link
        <4>3. topbit' \in SUBSET Allocated' BY <2>2, <2>4, <3>1 DEF StringsInv, TableInv
        <4>4. DOMAIN up' = Entry BY <3>1 DEF StringsInv, TableInv
        <4> QED BY <2>2, <2>3, <4>1, <4>2, <4>3, <4>4 DEF TableInv
      <3>3. LinkInv' /\ ChainInv' BY <1>0, <2>2, <2>6, <3>1, <3>2, FirstStep
      <3> QED BY <3>2, <3>3 DEF StringsInv
    <2>7. CASE e \notin topbit
      <3>1. /\ hash_table' = hash_table /\ topbit' = topbit
            /\ up' = IF next[e] = NULL THEN up ELSE [up EXCEPT ![next[e]] = up[e]]
            /\ next' = [next EXCEPT ![up[e]] = next[e], ![e] = NULL]
        BY <2>1, <2>7 DEF Unlink
      <3>2. TableInv'
        <4>1. next' \in Link BY <2>5, <3>1 DEF StringsInv, TableInv, Link
        <4>2. topbit' \in SUBSET Allocated' BY <2>2, <2>7, <3>1 DEF StringsInv, TableInv
        <4>3. DOMAIN up' = Entry BY <3>1 DEF StringsInv, TableInv
        <4> QED BY <2>2, <2>3, <3>1, <4>1, <4>2, <4>3 DEF StringsInv, TableInv
      <3>3. LinkInv' /\ ChainInv' BY <1>0, <2>2, <2>7, <3>1, <3>2, OtherStep
      <3> QED BY <3>2, <3>3 DEF StringsInv
    <2> QED BY <2>6, <2>7
  <1> QED BY <1>1, <1>2

\* The steps of the table keep its invariant.
LEMMA StringsStep ==
  ASSUME StringsInv, [ShNext]_shVars
  PROVE  StringsInv'
  <1>1. ASSUME NEW s \in String, AddKnown(s) PROVE StringsInv'
    <2> DEFINE e == find_string(s)
    <2>1. \E d \in Allocated : text[d] = s
      <3> SUFFICES ASSUME \A d \in Allocated : text[d] # s PROVE FALSE OBVIOUS
      <3>0. Slot[s] \in Index BY DEF Index
      <3>1. hash_table[Slot[s]] # NULL BY <1>1 DEF AddKnown, find_string
      <3>2. Walk(hash_table[Slot[s]], s) \in Allocated
        BY <3>0, <3>1, WalkEnds, ChainOfSlot DEF StringsInv
      <3>3. text[Walk(hash_table[Slot[s]], s)] = s
        BY <1>1 DEF AddKnown, find_string
      <3> QED BY <3>2, <3>3
    <2>2. e \in Allocated BY <2>1, WalkFinds
    <2>3. e \in Entry /\ held[e] > 0 BY <2>2 DEF StringsInv, TableInv, Allocated
    <2> QED BY <1>1, <2>3, KnownStep DEF AddKnown
  <1>2. ASSUME NEW s \in String, NEW e \in Entry, AddNew(s, e) PROVE StringsInv'
    BY <1>2, NewStep
  <1>3. ASSUME NEW e \in Entry, add_refcount(e) PROVE StringsInv'
    <2>1. held[e] > 0 BY <1>3, StringsAssumption DEF add_refcount
    <2> QED BY <1>3, <2>1, KnownStep DEF add_refcount
  <1>4. ASSUME NEW e \in Entry, free_string_shared(e) PROVE StringsInv'
    BY <1>4, FreeStep
  <1>5. CASE UNCHANGED shVars
    <2>1. UNCHANGED <<hash_table, text, topbit, next, up>> /\ held' = held /\ refcount' = refcount
      BY <1>5 DEF shVars
    <2>2. Allocated' = Allocated BY <2>1 DEF Allocated
    <2>3. TableInv' BY <2>1, <2>2 DEF StringsInv, TableInv
    <2> QED BY <2>1, <2>3, CountsStep
  <1> QED BY <1>1, <1>2, <1>3, <1>4, <1>5 DEF ShNext

\* Equal texts have one address, the lookup finds it as long as somebody holds it,
\* counts are the references held, and chains stay linked both ways, whatever the
\* hash function, the texts and the order in which they are added and freed
\* (add_string(), add_refcount(), find_string() and free_string_shared() of shstr.c).
THEOREM Interned == ShSpec => []InternedOnce
  <1>1. ShInit => StringsInv
    <2> SUFFICES ASSUME ShInit PROVE StringsInv OBVIOUS
    <2>1. Allocated = {} BY DEF ShInit, Allocated
    <2>2. TableInv BY <2>1 DEF ShInit, TableInv, Link
    <2>3. LinkInv BY <2>1 DEF ShInit, LinkInv
    <2>4. ChainInv BY <2>1 DEF ShInit, ChainInv
    <2> QED BY <2>2, <2>3, <2>4 DEF StringsInv
  <1>2. StringsInv /\ [ShNext]_shVars => StringsInv' BY StringsStep
  <1> QED BY <1>1, <1>2, StringsAreInterned, PTL DEF ShSpec

-----------------------------------------------------------------------------
(* Options (CliOptions)                                                     *)

\* The lines of files, what can be given as an argument, options with their values
\* and loads in progress.
Lines == UNION {Range(Files[path]) : path \in DOMAIN Files}
Given == {t.arg : t \in Tokens} \cup {l.arg : l \in Lines} \cup DOMAIN Files
         \cup {Contents[arg] : arg \in DOMAIN Contents}
Option == [name : {d.name : d \in Definitions}, short_name : {d.short_name : d \in Definitions},
           argument : BOOLEAN, changeable : BOOLEAN,
           handler : {d.handler : d \in Definitions}, value : Given \cup {"NONE", "FREED"}]
FrameType == [path : DOMAIN Files, at : Nat \ {0}, category : Categories \cup {"NONE"},
              current : Given \cup {"NONE"}, option : Nat]

\* A load in progress was begun by the program or for an option, and at run time
\* only for one that may be changed.
GoodStack(rest) ==
  /\ rest \in Seq(FrameType)
  /\ \A n \in 1..Len(rest) : rest[n].option # 0 =>
       /\ rest[n].option \in 1..Len(clioptions)
       /\ runtime => clioptions[rest[n].option].changeable

\* Options that are not changeable are those that were fixed, and have their values.
FixedInv ==
  /\ runtime \in BOOLEAN /\ fixed \in Seq(Option)
  /\ ~runtime => fixed = <<>>
  /\ runtime => /\ Len(fixed) = Len(clioptions)
                /\ \A i \in 1..Len(fixed) :
                     /\ fixed[i].changeable = clioptions[i].changeable
                     /\ ~fixed[i].changeable => clioptions[i] = fixed[i]

OptionsInv ==
  /\ clioptions \in Seq(Option) /\ GoodStack(frames) /\ FixedInv
  /\ \A i, j \in 1..Len(clioptions) : clioptions[i].name = clioptions[j].name => i = j
  /\ \A i \in 1..Len(clioptions) : clioptions[i].argument => clioptions[i].value # "FREED"

\* The first option that passes a test is found.
LEMMA FoundFirst ==
  ASSUME clioptions \in Seq(Option), NEW t
  PROVE  LET i == clioptions_parse_find(t)
             I == {j \in 1..Len(clioptions) : Matches(clioptions[j], t)}
         IN  IF I = {} THEN i = 0 ELSE i \in I /\ \A j \in I : i <= j
  <1> DEFINE I == {j \in 1..Len(clioptions) : Matches(clioptions[j], t)}
  <1>1. clioptions_parse_find(t) = IF I # {} THEN Min(I) ELSE 0
    BY DEF clioptions_parse_find, SelectInSeq
  <1>2. I \subseteq Nat OBVIOUS
  <1> HIDE DEF I
  <1>3. I # {} => Min(I) \in I /\ \A y \in I : Min(I) <= y
    BY <1>2, Least DEF Min
  <1> QED BY <1>1, <1>3 DEF I

\* Storing a value changes nothing else.
LEMMA StoreKeeps ==
  ASSUME clioptions \in Seq(Option), NEW i \in 1..Len(clioptions),
         NEW arg \in Given \cup {"NONE"}, arg # "FREED", clioptions[i].argument => arg # "NONE"
  PROVE  LET new == Store(clioptions, i, arg)
         IN  /\ new \in Seq(Option) /\ Len(new) = Len(clioptions)
             /\ \A j \in 1..Len(clioptions) :
                  /\ j # i => new[j] = clioptions[j]
                  /\ new[j].name = clioptions[j].name
                  /\ new[j].argument = clioptions[j].argument
                  /\ new[j].changeable = clioptions[j].changeable
             /\ new[i].argument => new[i].value # "FREED"
  <1> DEFINE old == clioptions[i]
             v == IF arg # "NONE" THEN arg ELSE IF old.value = "NONE" THEN "NONE" ELSE "FREED"
             o == [old EXCEPT !.value = v]
  <1>1. Store(clioptions, i, arg) = [clioptions EXCEPT ![i] = o] BY DEF Store
  <1>2. old \in Option /\ v \in Given \cup {"NONE", "FREED"} OBVIOUS
  <1>3. /\ o \in Option /\ o.name = old.name /\ o.argument = old.argument
        /\ o.changeable = old.changeable /\ o.value = v
    BY <1>2 DEF Option
  <1>4. o.argument => o.value # "FREED" BY <1>3
  <1> HIDE DEF o
  <1>5. [clioptions EXCEPT ![i] = o] \in Seq(Option) BY <1>3
  <1> QED BY <1>1, <1>3, <1>4, <1>5

\* Whatever is left of the loads in progress, options without a new value.
LEMMA RefuseStep ==
  ASSUME OptionsInv, NEW rest, GoodStack(rest), UNCHANGED <<runtime, fixed>>,
         clioptions' = clioptions, frames' \in {frames, rest}
  PROVE  OptionsInv'
  <1>1. GoodStack(frames)' BY DEF OptionsInv, GoodStack
  <1>2. FixedInv' BY DEF OptionsInv, FixedInv
  <1> QED BY <1>1, <1>2 DEF OptionsInv

\* An option that may be set gets a value.
LEMMA AcceptStep ==
  ASSUME OptionsInv, NEW i \in 1..Len(clioptions), NEW arg \in Given \cup {"NONE"}, arg # "FREED",
         clioptions[i].argument => arg # "NONE",
         runtime => clioptions[i].changeable,
         NEW rest, GoodStack(rest), UNCHANGED <<runtime, fixed>>,
         Accept(i, arg, rest)
  PROVE  OptionsInv'
  <1>1. CASE clioptions[i].value = "FREED"
    BY <1>1, RefuseStep DEF Accept, End
  <1>2. CASE clioptions[i].value # "FREED"
    <2>1. clioptions' = Store(clioptions, i, arg) /\ frames' = rest
      BY <1>2 DEF Accept
    <2>2. /\ clioptions' \in Seq(Option) /\ Len(clioptions') = Len(clioptions)
          /\ \A j \in 1..Len(clioptions) :
               /\ j # i => clioptions'[j] = clioptions[j]
               /\ clioptions'[j].name = clioptions[j].name
               /\ clioptions'[j].argument = clioptions[j].argument
               /\ clioptions'[j].changeable = clioptions[j].changeable
          /\ clioptions'[i].argument => clioptions'[i].value # "FREED"
      BY <2>1, StoreKeeps DEF OptionsInv
    <2>3. GoodStack(frames)'
      <3>1. rest \in Seq(FrameType) /\ Len(rest) \in Nat BY DEF GoodStack
      <3>2. ASSUME NEW n \in 1..Len(rest), rest[n].option # 0
            PROVE  /\ rest[n].option \in 1..Len(clioptions')
                   /\ runtime' => clioptions'[rest[n].option].changeable
        BY <2>2, <3>2 DEF GoodStack
      <3> QED BY <2>1, <3>1, <3>2 DEF GoodStack
    <2>4. FixedInv'
      <3>1. ASSUME runtime, NEW j \in 1..Len(fixed)
            PROVE  /\ fixed[j].changeable = clioptions'[j].changeable
                   /\ ~fixed[j].changeable => clioptions'[j] = fixed[j]
        <4>1. j \in 1..Len(clioptions) BY <3>1 DEF OptionsInv, FixedInv
        <4> QED BY <2>2, <3>1, <4>1 DEF OptionsInv, FixedInv
      <3> QED BY <2>2, <3>1 DEF OptionsInv, FixedInv
    <2>5. \A j, k \in 1..Len(clioptions') :
            clioptions'[j].name = clioptions'[k].name => j = k
      BY <2>2 DEF OptionsInv
    <2>6. \A j \in 1..Len(clioptions') :
            clioptions'[j].argument => clioptions'[j].value # "FREED"
      BY <2>2 DEF OptionsInv
    <2> QED BY <2>2, <2>3, <2>4, <2>5, <2>6 DEF OptionsInv
  <1> QED BY <1>1, <1>2

\* A new load on top of those in progress.
LEMMA PushStack ==
  ASSUME NEW rest, GoodStack(rest), NEW path \in DOMAIN Files,
         NEW c \in Categories \cup {"NONE"}, NEW i \in Nat,
         i # 0 => i \in 1..Len(clioptions) /\ (runtime => clioptions[i].changeable)
  PROVE  GoodStack(Append(rest, Frame(path, c, i)))
  <1>1. Frame(path, c, i) \in FrameType /\ Frame(path, c, i).option = i
    BY DEF Frame, FrameType
  <1>2. rest \in Seq(FrameType) BY DEF GoodStack
  <1> DEFINE new == Append(rest, Frame(path, c, i))
  <1>3. /\ new \in Seq(FrameType) /\ Len(new) = Len(rest) + 1
        /\ \A n \in 1..Len(rest) : new[n] = rest[n]
        /\ new[Len(rest) + 1] = Frame(path, c, i)
    BY <1>1, <1>2
  <1> HIDE DEF new
  <1>4. ASSUME NEW n \in 1..Len(new), new[n].option # 0
        PROVE  /\ new[n].option \in 1..Len(clioptions)
               /\ runtime => clioptions[new[n].option].changeable
    <2>1. CASE n \in 1..Len(rest) BY <1>3, <1>4, <2>1 DEF GoodStack
    <2>2. CASE n = Len(rest) + 1 BY <1>1, <1>3, <1>4, <2>2
    <2> QED BY <1>2, <1>3, <2>1, <2>2
  <1> QED BY <1>3, <1>4 DEF GoodStack, new

\* The handler of an option that may be set.
LEMMA HandlerStep ==
  ASSUME OptionsInv, NEW i \in 1..Len(clioptions), NEW arg \in Given \cup {"NONE"}, arg # "FREED",
         clioptions[i].argument => arg # "NONE",
         runtime => clioptions[i].changeable,
         NEW rest, GoodStack(rest), UNCHANGED <<runtime, fixed>>,
         clioptions_call_handler(i, arg, rest)
  PROVE  OptionsInv'
  <1> DEFINE value == IF arg \in DOMAIN Contents THEN Contents[arg] ELSE arg
  <1>1. /\ value \in Given \cup {"NONE"} /\ value # "FREED"
        /\ clioptions[i].argument => value # "NONE"
    BY OptionsAssumption DEF Given
  <1>2. \/ Refuse(rest) \/ Accept(i, value, rest) \/ clioptions_option_help
        \/ clioptions_option_config(value, i, rest)
    BY DEF clioptions_call_handler
  <1> HIDE DEF value
  <1>3. CASE Refuse(rest) BY <1>3, RefuseStep DEF Refuse
  <1>4. CASE Accept(i, value, rest) BY <1>1, <1>4, AcceptStep
  <1>5. CASE clioptions_option_help
    BY <1>5, RefuseStep DEF clioptions_option_help, End
  <1>6. CASE clioptions_option_config(value, i, rest)
    <2>1. CASE value \notin DOMAIN Files
      BY <1>6, <2>1, RefuseStep DEF clioptions_option_config, Refuse
    <2>2. CASE value \in DOMAIN Files
      <3> DEFINE new == Append(rest, Frame(value, "NONE", i))
      <3>1. frames' = new /\ clioptions' = clioptions
        BY <1>6, <2>2 DEF clioptions_option_config
      <3>2. i \in Nat /\ "NONE" \in Categories \cup {"NONE"} OBVIOUS
      <3>3. GoodStack(new) BY <2>2, <3>2, PushStack, SMTT(30)
      <3> HIDE DEF new
      <3> QED BY <3>1, <3>3, RefuseStep
    <2> QED BY <2>1, <2>2
  <1> QED BY <1>2, <1>3, <1>4, <1>5, <1>6

\* "name = value" sets an option only if it may be set.
LEMMA LineStep ==
  ASSUME OptionsInv, NEW item \in Lines, item.kind \in {"option", "bad"},
         item.kind = "option" => item.arg \notin {"NONE", "FREED"},
         NEW rest, GoodStack(rest), UNCHANGED <<runtime, fixed>>,
         clioptions_load_str(item, rest)
  PROVE  OptionsInv'
  <1> DEFINE t == [form |-> "long", name |-> item.name, arg |-> item.arg]
             i == clioptions_parse_find(t)
  <1>1. CASE item.kind = "bad" \/ i = 0
    BY <1>1, RefuseStep DEF clioptions_load_str, Refuse
  <1>2. CASE item.kind = "option" /\ i # 0
    <2>1. i \in 1..Len(clioptions)
      <3>1. clioptions \in Seq(Option) BY DEF OptionsInv
      <3> HIDE DEF t
      <3> QED BY <1>2, <3>1, FoundFirst
    <2>2. item.arg \in Given /\ item.arg # "FREED" /\ item.arg # "NONE"
      BY <1>2 DEF Given
    <2> HIDE DEF i
    <2>3. CASE LacksArgument(clioptions[i], t)
      BY <1>2, <2>3, RefuseStep DEF clioptions_load_str, End, i
    <2>4. CASE ~LacksArgument(clioptions[i], t) /\ ~Settable(i)
      BY <1>2, <2>4, RefuseStep DEF clioptions_load_str, Refuse, i
    <2>5. CASE ~LacksArgument(clioptions[i], t) /\ Settable(i)
      <3>1. clioptions_call_handler(i, item.arg, rest)
        BY <1>2, <2>5 DEF clioptions_load_str, i
      <3>2. runtime => clioptions[i].changeable BY <2>5 DEF Settable
      <3> QED BY <2>1, <2>2, <3>1, <3>2, HandlerStep
    <2> QED BY <2>3, <2>4, <2>5
  <1> QED BY <1>1, <1>2

\* The innermost load goes on to its next line, or comes to its end.
LEMMA InnermostStack ==
  ASSUME GoodStack(frames), frames # <<>>
  PROVE  /\ Innermost \in FrameType /\ GoodStack(Advanced) /\ GoodStack(Front(frames))
         /\ Innermost.option # 0 => /\ Innermost.option \in 1..Len(clioptions)
                                    /\ runtime => clioptions[Innermost.option].changeable
         /\ \A v \in Given : GoodStack([Advanced EXCEPT ![Len(frames)].current = v])
  <1> DEFINE k == Len(frames)
  <1>1. frames \in Seq(FrameType) /\ k \in Nat /\ k # 0 /\ k \in 1..k BY DEF GoodStack
  <1>2. Innermost = frames[k] /\ Innermost \in FrameType BY <1>1 DEF Innermost, Last
  <1>3. Innermost.option # 0 => /\ Innermost.option \in 1..Len(clioptions)
                                /\ runtime => clioptions[Innermost.option].changeable
    BY <1>1, <1>2 DEF GoodStack
  <1> DEFINE a == [frames[k] EXCEPT !.at = frames[k].at + 1]
  <1>4. a \in FrameType /\ a.option = frames[k].option
    <2> DEFINE f == frames[k]
    <2>1. f \in FrameType BY <1>1
    <2> HIDE DEF f
    <2>2. f.at + 1 \in Nat \ {0} BY <2>1 DEF FrameType
    <2>3. [f EXCEPT !.at = f.at + 1] \in FrameType BY <2>1, <2>2 DEF FrameType
    <2>4. [f EXCEPT !.at = f.at + 1].option = f.option BY <2>1 DEF FrameType
    <2> QED BY <2>3, <2>4 DEF f
  <1>5. Advanced = [frames EXCEPT ![k] = a] BY DEF Advanced
  <1> HIDE DEF k
  <1>6. ASSUME NEW f \in FrameType, f.option = frames[k].option
        PROVE  GoodStack([frames EXCEPT ![k] = f])
    <2> DEFINE new == [frames EXCEPT ![k] = f]
    <2>1. /\ new \in Seq(FrameType) /\ Len(new) = Len(frames)
          /\ \A n \in 1..Len(frames) : new[n].option = frames[n].option
      BY <1>1, <1>6 DEF k
    <2> HIDE DEF new
    <2>2. GoodStack(new) BY <2>1 DEF GoodStack
    <2> QED BY <2>2 DEF new
  <1>7. GoodStack(Advanced) BY <1>4, <1>5, <1>6
  <1>8. ASSUME NEW v \in Given PROVE GoodStack([Advanced EXCEPT ![Len(frames)].current = v])
    <2> DEFINE c == [a EXCEPT !.current = v]
    <2> HIDE DEF a
    <2>1. c \in FrameType /\ c.option = frames[k].option BY <1>4 DEF FrameType
    <2>2. [Advanced EXCEPT ![Len(frames)].current = v] = [frames EXCEPT ![k] = c]
      BY <1>1, <1>5 DEF k
    <2> QED BY <1>6, <2>1, <2>2
  <1>9. GoodStack(Front(frames))
    <2> DEFINE new == Front(frames)
    <2>1. new = [n \in 1..(k - 1) |-> frames[n]] BY <1>1 DEF Front, k
    <2>2. new \in Seq(FrameType) /\ Len(new) = k - 1 /\ \A n \in 1..(k - 1) : new[n] = frames[n]
      BY <1>1, <2>1 DEF k
    <2> HIDE DEF new
    <2>3. GoodStack(new) BY <1>1, <2>2 DEF GoodStack, k
    <2> QED BY <2>3 DEF new
  <1> QED BY <1>2, <1>3, <1>7, <1>8, <1>9

\* A line of a file, or its end.
LEMMA LoadStep ==
  ASSUME OptionsInv, LoadLine \/ LoadEnd
  PROVE  OptionsInv'
  <1>0. frames # <<>> /\ GoodStack(frames) /\ UNCHANGED <<runtime, fixed>>
    BY DEF LoadLine, LoadEnd, OptionsInv
  <1>1. /\ Innermost \in FrameType /\ GoodStack(Advanced) /\ GoodStack(Front(frames))
        /\ Innermost.option # 0 => /\ Innermost.option \in 1..Len(clioptions)
                                   /\ runtime => clioptions[Innermost.option].changeable
        /\ \A v \in Given : GoodStack([Advanced EXCEPT ![Len(frames)].current = v])
    BY <1>0, InnermostStack
  <1>2. Innermost.path \in DOMAIN Files /\ Innermost.at \in Nat \ {0} BY <1>1 DEF FrameType
  <1>3. CASE LoadLine
    <2> DEFINE content == Files[Innermost.path]
    <2>1. content \in Seq(Range(content)) /\ Innermost.at <= Len(content)
      BY <1>2, <1>3, OptionsAssumption DEF LoadLine
    <2>2. Innermost.at \in DOMAIN content BY <1>2, <2>1
    <2>3. Line \in Lines /\ (Line.kind = "option" => Line.arg \notin {"NONE", "FREED"})
      <3>1. Line = content[Innermost.at] BY DEF Line
      <3>2. Line \in Range(content) BY <2>2, <3>1 DEF Range
      <3> QED BY <1>2, <2>2, <3>1, <3>2, OptionsAssumption DEF Lines
    <2>4. Line.arg \in Given BY <2>3 DEF Given
    <2> HIDE DEF content
    <2>5. \/ Refuse([Advanced EXCEPT ![Len(frames)].current = Line.arg])
          \/ Line.kind \in {"option", "bad"} /\ clioptions_load_str(Line, Advanced)
          \/ Refuse(Advanced)
      BY <1>3 DEF LoadLine
    <2>6. CASE Refuse([Advanced EXCEPT ![Len(frames)].current = Line.arg])
      <3> DEFINE new == [Advanced EXCEPT ![Len(frames)].current = Line.arg]
      <3>1. GoodStack(new) BY <1>1, <2>4
      <3> HIDE DEF new
      <3>2. Refuse(new) BY <2>6 DEF new
      <3> QED BY <1>0, <3>1, <3>2, RefuseStep DEF Refuse
    <2>7. CASE Refuse(Advanced) BY <1>0, <1>1, <2>7, RefuseStep DEF Refuse
    <2>8. CASE Line.kind \in {"option", "bad"} /\ clioptions_load_str(Line, Advanced)
      BY <1>0, <1>1, <2>3, <2>8, LineStep
    <2> QED BY <2>5, <2>6, <2>7, <2>8
  <1>4. CASE LoadEnd
    <2>1. CASE Innermost.option = 0
      BY <1>0, <1>1, <1>4, <2>1, RefuseStep DEF LoadEnd, Refuse
    <2>2. CASE Innermost.option # 0
      <3>1. Innermost.path \in Given /\ Innermost.path \notin {"NONE", "FREED"}
        BY <1>2, OptionsAssumption DEF Given
      <3>2. Accept(Innermost.option, Innermost.path, Front(frames))
        BY <1>4, <2>2 DEF LoadEnd
      <3> QED BY <1>0, <1>1, <2>2, <3>1, <3>2, AcceptStep
    <2> QED BY <2>1, <2>2
  <1> QED BY <1>3, <1>4

\* An option is created, under a name of its own.
LEMMA CreateStep ==
  ASSUME OptionsInv, NEW d \in Definitions, clioptions_create(d)
  PROVE  OptionsInv'
  <1>0. ~runtime /\ UNCHANGED <<runtime, fixed>> /\ frames = <<>> BY DEF clioptions_create, Idle
  <1>1. CASE d.name \in Names
    BY <1>0, <1>1, RefuseStep DEF clioptions_create, End, OptionsInv
  <1>2. CASE d.name \notin Names
    <2> DEFINE o == Described(d)
    <2>1. clioptions' = Append(clioptions, o) /\ frames' = frames
      BY <1>2 DEF clioptions_create
    <2>2. o \in Option /\ o.name = d.name /\ o.value = "NONE"
      BY OptionsAssumption DEF Described, Option
    <2> HIDE DEF o
    <2>3. clioptions \in Seq(Option) BY DEF OptionsInv
    <2>4. /\ clioptions' \in Seq(Option) /\ Len(clioptions') = Len(clioptions) + 1
          /\ \A i \in 1..Len(clioptions) : clioptions'[i] = clioptions[i]
          /\ clioptions'[Len(clioptions) + 1] = o
      BY <2>1, <2>2, <2>3
    <2>5. GoodStack(frames)' BY <1>0, <2>1 DEF OptionsInv, GoodStack
    <2>6. FixedInv' BY <1>0 DEF OptionsInv, FixedInv
    <2>7. \A i \in 1..Len(clioptions) : clioptions[i].name # d.name
      BY <1>2, <2>3 DEF Names
    <2>8. \A i, j \in 1..Len(clioptions') : clioptions'[i].name = clioptions'[j].name => i = j
      BY <2>2, <2>3, <2>4, <2>7 DEF OptionsInv
    <2>9. \A i \in 1..Len(clioptions') :
            clioptions'[i].argument => clioptions'[i].value # "FREED"
      BY <2>2, <2>3, <2>4 DEF OptionsInv
    <2> QED BY <2>4, <2>5, <2>6, <2>8, <2>9 DEF OptionsInv
  <1> QED BY <1>1, <1>2

\* The steps of the options keep their invariant.
LEMMA OptionsStep ==
  ASSUME OptionsInv, [CliNext]_cliVars
  PROVE  OptionsInv'
  <1>0. GoodStack(frames) /\ clioptions \in Seq(Option) BY DEF OptionsInv
  <1>1. ASSUME NEW d \in Definitions, clioptions_create(d) PROVE OptionsInv'
    BY <1>1, CreateStep
  <1>2. ASSUME NEW t \in Tokens, ParseOne(t) PROVE OptionsInv'
    <2> DEFINE i == clioptions_parse_find(t)
    <2>0. ~runtime /\ UNCHANGED <<runtime, fixed>> BY <1>2 DEF ParseOne
    <2>1. i # 0 => i \in 1..Len(clioptions) BY <1>0, FoundFirst
    <2> DEFINE arg == ArgumentOf(clioptions[i], t)
    <2>2. \/ \E why : End(why)
          \/ i # 0 /\ ~LacksArgument(clioptions[i], t)
               /\ (Refuse(frames) \/ clioptions_call_handler(i, arg, frames))
      BY <1>2 DEF ParseOne
    <2> HIDE DEF i
    <2>3. CASE \E why : End(why) BY <1>0, <2>0, <2>3, RefuseStep DEF End
    <2>4. CASE i # 0 /\ ~LacksArgument(clioptions[i], t)
               /\ (Refuse(frames) \/ clioptions_call_handler(i, arg, frames))
      <3>1. arg \in Given \cup {"NONE"} /\ arg # "FREED"
        BY OptionsAssumption DEF ArgumentOf, Given
      <3>2. clioptions[i].argument => arg # "NONE" BY <2>4 DEF LacksArgument
      <3> HIDE DEF arg
      <3>3. CASE Refuse(frames) BY <1>0, <2>0, <3>3, RefuseStep DEF Refuse
      <3>4. CASE clioptions_call_handler(i, arg, frames)
        BY <1>0, <2>0, <2>1, <2>4, <3>1, <3>2, <3>4, HandlerStep
      <3> QED BY <2>4, <3>3, <3>4
    <2> QED BY <2>2, <2>3, <2>4
  <1>3. CASE ParseEnd
    <2>1. /\ frames = <<>> /\ frames' = frames /\ clioptions' = clioptions
          /\ runtime' = TRUE /\ fixed' = clioptions
      BY <1>3 DEF ParseEnd, Idle
    <2>2. GoodStack(frames)' BY <1>0, <2>1 DEF GoodStack
    <2>3. FixedInv' BY <1>0, <2>1 DEF FixedInv
    <2> QED BY <2>1, <2>2, <2>3 DEF OptionsInv
  <1>4. ASSUME NEW path \in DOMAIN Files, NEW c \in Categories, Load(path, c)
        PROVE  OptionsInv'
    <2> DEFINE new == Append(frames, Frame(path, c, 0))
    <2>1. GoodStack(new) BY <1>0, PushStack
    <2> HIDE DEF new
    <2>2. frames' = new /\ clioptions' = clioptions /\ UNCHANGED <<runtime, fixed>>
      BY <1>4 DEF Load, new
    <2> QED BY <2>1, <2>2, RefuseStep
  <1>5. ASSUME NEW path \in DOMAIN Files, NEW n \in DOMAIN Files[path],
               SetAtRuntime(Files[path][n])
        PROVE  OptionsInv'
    <2> DEFINE item == Files[path][n]
    <2>1. item \in Lines BY DEF Lines, Range
    <2>2. item.kind = "option" => item.arg \notin {"NONE", "FREED"} BY OptionsAssumption
    <2>3. item.kind \in {"option", "bad"} /\ clioptions_load_str(item, frames)
          /\ UNCHANGED <<runtime, fixed>>
      BY <1>5 DEF SetAtRuntime
    <2> HIDE DEF item
    <2> QED BY <1>0, <2>1, <2>2, <2>3, LineStep
  <1>6. CASE LoadLine \/ LoadEnd BY <1>6, LoadStep
  <1>7. CASE UNCHANGED cliVars BY <1>0, <1>7, RefuseStep DEF cliVars
  <1> QED BY <1>1, <1>2, <1>3, <1>4, <1>5, <1>6, <1>7 DEF CliNext

\* Names are found as NamesAreFound says.
LEMMA NamesFound == OptionsInv => NamesAreFound
  <1> SUFFICES ASSUME OptionsInv PROVE NamesAreFound OBVIOUS
  <1>0. clioptions \in Seq(Option) /\ DOMAIN clioptions = 1..Len(clioptions)
    BY DEF OptionsInv
  <1>1. SUFFICES ASSUME NEW i \in 1..Len(clioptions)
        PROVE  LET Long(n) == [form |-> "long", name |-> n, arg |-> "NONE"]
                   name == clioptions[i].name
               IN  /\ \A j \in DOMAIN clioptions : clioptions[j].name = name => j = i
                   /\ (\A n \in Names \ {name} : ~IsPrefix(name, n))
                        => clioptions_parse_find(Long(name)) = i
                   /\ \A k \in 0..Len(name) :
                        clioptions_parse_find(Long(SubSeq(name, 1, k))) \in 1..i
    BY <1>0 DEF NamesAreFound
  <1> DEFINE Long(n) == [form |-> "long", name |-> n, arg |-> "NONE"]
             name == clioptions[i].name
  <1>2. \A j \in 1..Len(clioptions) : clioptions[j].name = name => j = i
    BY DEF OptionsInv
  <1>3. \A n, j : Matches(clioptions[j], Long(n)) <=> IsPrefix(n, clioptions[j].name)
    BY DEF Matches
  <1>4. name \in Seq(Range(name)) /\ Len(name) \in Nat
    <2>1. clioptions[i] \in Option BY <1>0
    <2>2. PICK d \in Definitions : name = d.name BY <2>1 DEF Option
    <2> QED BY <2>2, OptionsAssumption
  <1> HIDE DEF name
  <1>5. IsPrefix(name, name) BY <1>4 DEF IsPrefix
  <1>6. ASSUME NEW k \in 0..Len(name) PROVE IsPrefix(SubSeq(name, 1, k), name)
    <2> DEFINE s == SubSeq(name, 1, k)
    <2>1. s \in Seq(Range(name)) /\ Len(s) = k /\ \A m \in 1..k : s[m] = name[m]
      BY <1>4
    <2> QED BY <1>4, <2>1 DEF IsPrefix
  <1>7. ASSUME \A n \in Names \ {name} : ~IsPrefix(name, n)
        PROVE  clioptions_parse_find(Long(name)) = i
    <2> DEFINE I == {j \in 1..Len(clioptions) : Matches(clioptions[j], Long(name))}
    <2>1. i \in I BY <1>3, <1>5 DEF name
    <2>2. ASSUME NEW j \in I PROVE j = i
      <3>1. IsPrefix(name, clioptions[j].name) BY <1>3
      <3>2. clioptions[j].name \in Names BY <1>0 DEF Names
      <3> QED BY <1>2, <1>7, <3>1, <3>2
    <2>3. clioptions_parse_find(Long(name)) \in I BY <1>0, <2>1, FoundFirst
    <2> QED BY <2>2, <2>3
  <1>8. ASSUME NEW k \in 0..Len(name)
        PROVE  clioptions_parse_find(Long(SubSeq(name, 1, k))) \in 1..i
    <2> DEFINE t == Long(SubSeq(name, 1, k))
               I == {j \in 1..Len(clioptions) : Matches(clioptions[j], t)}
    <2>1. i \in I BY <1>3, <1>6 DEF name
    <2> HIDE DEF t
    <2>2. clioptions_parse_find(t) \in I /\ clioptions_parse_find(t) <= i
      BY <1>0, <2>1, FoundFirst
    <2>3. clioptions_parse_find(t) \in 1..Len(clioptions) BY <2>2
    <2> QED BY <2>2, <2>3 DEF t
  <1> QED BY <1>0, <1>2, <1>7, <1>8 DEF name

\* Options keep what was fixed, are told apart by their names, and do not lose their
\* arguments, for every set of options, command line and files, through files that
\* load files (clioptions_parse(), clioptions_load() and clioptions_load_str()).
THEOREM OptionsSound == CliSpec => []OptionsAreSound
  <1>1. CliInit => OptionsInv
    <2> SUFFICES ASSUME CliInit PROVE OptionsInv OBVIOUS
    <2>0. clioptions = <<>> /\ frames = <<>> /\ fixed = <<>> /\ ~runtime /\ runtime \in BOOLEAN
      BY DEF CliInit
    <2>1. GoodStack(frames) BY <2>0 DEF GoodStack
    <2>2. FixedInv BY <2>0 DEF FixedInv
    <2> QED BY <2>0, <2>1, <2>2 DEF OptionsInv
  <1>2. OptionsInv /\ [CliNext]_cliVars => OptionsInv' BY OptionsStep
  <1>3. OptionsInv => OptionsAreSound
    <2> SUFFICES ASSUME OptionsInv PROVE OptionsAreSound OBVIOUS
    <2>0. /\ clioptions \in Seq(Option) /\ DOMAIN clioptions = 1..Len(clioptions)
          /\ fixed \in Seq(Option) /\ DOMAIN fixed = 1..Len(fixed)
      BY DEF OptionsInv, FixedInv
    <2>1. NamesAreFound BY NamesFound
    <2>2. \A i \in DOMAIN fixed : ~fixed[i].changeable => clioptions[i] = fixed[i]
      <3>1. CASE runtime BY <2>0, <3>1 DEF OptionsInv, FixedInv
      <3>2. CASE ~runtime
        <4>1. fixed = <<>> BY <3>2 DEF OptionsInv, FixedInv
        <4>2. DOMAIN fixed = {} BY <4>1
        <4> QED BY <4>2
      <3> QED BY <3>1, <3>2
    <2>3. ASSUME NEW i \in 1..Len(clioptions), clioptions[i].argument
          PROVE  clioptions_get(clioptions[i].name) # "FREED"
      <3> DEFINE name == clioptions[i].name
                 I == {j \in 1..Len(clioptions) : clioptions[j].name = name}
      <3>1. I = {i} BY DEF OptionsInv
      <3>2. SelectInSeq(clioptions, LAMBDA o : o.name = name) = IF I # {} THEN Min(I) ELSE 0
        BY DEF SelectInSeq
      <3>3. Min(I) = i BY <3>1 DEF Min
      <3>4. clioptions_get(name) = clioptions[i].value
        BY <3>1, <3>2, <3>3 DEF clioptions_get
      <3> QED BY <2>3, <3>4 DEF OptionsInv
    <2> QED BY <2>0, <2>1, <2>2, <2>3 DEF OptionsAreSound
  <1> QED BY <1>1, <1>2, <1>3, PTL DEF CliSpec

-----------------------------------------------------------------------------
(* Memory pools (Mempool)                                                   *)

\* expand_size >> exponent is not 0 for the exponents in use, as in the run of TLC.
ExponentsFit == \A s \in Slots : nrof_arrays(s) \in Nat \ {0}

Chunk == Block \X Nat
Descriptor == [at : Chunk, block : Block]
Memory ==
  [owner : [Block -> Slots \cup {NoOwner}], freelist : [Slots -> Seq(Chunk)],
   free : SUBSET Chunk, nrof_free : [Slots -> Int], nrof_allocated : [Slots -> Int],
   puddlelist : [Slots -> Seq(Descriptor)], count : 0..MaxBlocks, live : SUBSET Block]
Pass == [phase : {"none", "sift", "link"}, slot : Slots, left : SUBSET Exps,
         todo : Seq(Descriptor)]

\* Blocks that are allocated have an owner, and of the pool of puddles only the
\* freelist of single chunks has blocks.
MemInv(m) ==
  /\ m \in Memory
  /\ \A b \in m.live : /\ b <= m.count /\ m.owner[b] \in Slots
                       /\ m.owner[b][1] = "puddles" => m.owner[b] = PuddleSlot

\* Counters are right at any time, ...
FreeOf(m, s) == ChunksOf(m, s) \cap m.free
CountInv(m) ==
  \A s \in Slots : /\ m.nrof_free[s] = Cardinality(FreeOf(m, s))
                   /\ m.nrof_allocated[s] = Cardinality(ChunksOf(m, s))

\* ... freelists if they are not being rebuilt.
Once(list) == \A i, j \in 1..Len(list) : list[i] = list[j] => i = j
Exact(m, s) == Range(m.freelist[s]) = FreeOf(m, s) /\ Once(m.freelist[s])
Linked(m, q) ==
  /\ Range(m.freelist[q.slot]) =
       {c \in FreeOf(m, q.slot) : \A p \in Range(q.todo) : p.block # c[1]}
  /\ Once(m.freelist[q.slot])
ListInv(m, q) ==
  \A s \in Slots : IF q.phase = "none" \/ s # q.slot THEN Exact(m, s)
                   ELSE q.phase = "link" => Linked(m, q)

\* The descriptors of a freelist: on its list, or taken off it to be sifted.
Listed(m, q, s) ==
  Range(m.puddlelist[s]) \cup (IF q.phase = "sift" /\ q.slot = s THEN Range(q.todo) ELSE {})
Describes(m, s, p) ==
  /\ p.block \in m.live /\ m.owner[p.block] = s
  /\ p.at \in ChunksOf(m, PuddleSlot) /\ p.at \notin m.free
  /\ s = PuddleSlot => p.at[1] = p.block
DescInv(m, q) ==
  \A s \in Slots : \A p \in Listed(m, q, s) :
    /\ Describes(m, s, p)
    /\ \A z \in Slots : \A r \in Listed(m, q, z) : p.at = r.at => p = r
TrackInv(m, q) ==
  \A b \in m.live : \E p \in Listed(m, q, m.owner[b]) : p.block = b
Apart(list) == \A i, j \in 1..Len(list) : list[i].block = list[j].block => i = j
OnceInv(m, q) ==
  /\ \A s \in Slots : Apart(m.puddlelist[s])
  /\ q.phase # "none" => Apart(q.todo)
  /\ q.phase = "sift" => \A p \in Range(q.todo), r \in Range(m.puddlelist[q.slot]) :
                           p.block # r.block
  /\ q.phase = "link" => Range(q.todo) \subseteq Range(m.puddlelist[q.slot])

Books(m, q) ==
  /\ MemInv(m) /\ CountInv(m) /\ ListInv(m, q)
  /\ DescInv(m, q) /\ TrackInv(m, q) /\ OnceInv(m, q)

\* The user has the chunks of his blocks that are not free.
UserOf(m) == {c \in Chunk : /\ c[1] \in m.live /\ m.owner[c[1]][1] = "user"
                            /\ c[2] < BlockSize(m.owner[c[1]]) /\ c \notin m.free}

\* The passes of mempool_reclaim() and of the deinitialisation, after which a block of
\* the user is there for a chunk that is used.
PassInv ==
  /\ pass \in Pass /\ deiniting \in {"no", "user", "puddles", "done"}
  /\ pass.phase # "none" => pass.slot[2] \notin pass.left /\ deiniting \in {"no", "user"}
  /\ pass.phase # "none" /\ deiniting = "user" => pass.slot[1] = "user"
Sifted(b) ==
  \/ deiniting = "puddles"
  \/ /\ deiniting = "user" /\ pass.phase # "none" /\ mem.owner[b][2] \notin pass.left
     /\ pass.phase = "sift" /\ mem.owner[b] = pass.slot =>
          \A p \in Range(pass.todo) : p.block # b
LeakInv ==
  \A b \in mem.live : mem.owner[b][1] = "user" /\ Sifted(b) => \E c \in used : c[1] = b

PoolInv ==
  /\ PassInv
  /\ IF deiniting = "done" THEN UsedStaysAllocated /\ OnlyLeaksStay
     ELSE Books(mem, pass) /\ used = UserOf(mem) /\ LeakInv

\* A list without repetitions is as long as its set is large.
LEMMA OnceCounts ==
  ASSUME NEW S, NEW list \in Seq(S), Once(list)
  PROVE  IsFiniteSet(Range(list)) /\ Cardinality(Range(list)) = Len(list)
  <1>1. list \in [1..Len(list) -> Range(list)] /\ Len(list) \in Nat BY DEF Range
  <1>2. list \in Bijection(1..Len(list), Range(list))
    BY <1>1 DEF Bijection, Injection, Surjection, IsInjective, Range, Once
  <1>3. ExistsBijection(1..Len(list), Range(list)) BY <1>2 DEF ExistsBijection
  <1>4. IsFiniteSet(1..Len(list)) /\ Cardinality(1..Len(list)) = Len(list)
    <2> DEFINE n == Len(list)
    <2> HIDE DEF n
    <2>1. n \in Nat /\ 1 \in Int /\ n \in Int BY <1>1 DEF n
    <2>2. IsFiniteSet(1..n) /\ Cardinality(1..n) = IF 1 > n THEN 0 ELSE n - 1 + 1
      BY <2>1, FS_Interval
    <2>3. IsFiniteSet(1..n) /\ Cardinality(1..n) = n BY <2>1, <2>2
    <2> QED BY <2>3 DEF n
  <1> QED BY <1>3, <1>4, FS_Bijection

\* The chunks of one block.
LEMMA BlockCounts ==
  ASSUME NEW b, NEW n \in Nat
  PROVE  IsFiniteSet({b} \X (0..(n - 1))) /\ Cardinality({b} \X (0..(n - 1))) = n
  <1>1. IsFiniteSet({b}) /\ Cardinality({b}) = 1 BY FS_Singleton
  <1>2. IsFiniteSet(0..(n - 1)) /\ Cardinality(0..(n - 1)) = n
    <2>1. 0 \in Int /\ n - 1 \in Int OBVIOUS
    <2> QED BY <2>1, FS_Interval
  <1>3. /\ IsFiniteSet({b} \X (0..(n - 1)))
        /\ Cardinality({b} \X (0..(n - 1))) = Cardinality({b}) * Cardinality(0..(n - 1))
    BY <1>1, <1>2, FS_Product
  <1> QED BY <1>1, <1>2, <1>3

LEMMA SizeFits ==
  ASSUME ExponentsFit, NEW s \in Slots
  PROVE  BlockSize(s) = nrof_arrays(s) /\ BlockSize(s) \in Nat \ {0}
  BY DEF ExponentsFit, BlockSize

\* The chunks of a freelist are finitely many.
LEMMA ChunksAreFinite ==
  ASSUME ExponentsFit, NEW m, NEW s \in Slots
  PROVE  /\ IsFiniteSet(ChunksOf(m, s)) /\ IsFiniteSet(FreeOf(m, s))
         /\ Cardinality(ChunksOf(m, s)) \in Nat /\ Cardinality(FreeOf(m, s)) \in Nat
         /\ ChunksOf(m, s) \subseteq Chunk
  <1>1. IsFiniteSet(Block) BY FS_Interval, MempoolAssumption DEF Block
  <1>2. IsFiniteSet(0..(BlockSize(s) - 1))
    <2>1. 0 \in Int /\ BlockSize(s) - 1 \in Int BY SizeFits
    <2> QED BY <2>1, FS_Interval
  <1>3. IsFiniteSet(Block \X (0..(BlockSize(s) - 1))) BY <1>1, <1>2, FS_Product
  <1>4. ChunksOf(m, s) \in SUBSET (Block \X (0..(BlockSize(s) - 1))) BY DEF ChunksOf
  <1>5. FreeOf(m, s) \in SUBSET (Block \X (0..(BlockSize(s) - 1))) BY <1>4 DEF FreeOf
  <1>6. IsFiniteSet(ChunksOf(m, s)) /\ IsFiniteSet(FreeOf(m, s)) BY <1>3, <1>4, <1>5, FS_Subset
  <1>7. ChunksOf(m, s) \subseteq Chunk BY <1>4, SizeFits DEF Chunk
  <1> QED BY <1>6, <1>7, FS_CardinalityType

Falling(list) == \A i, j \in DOMAIN list : i < j => list[i][2] > list[j][2]

\* The chunks of a block can be listed with the last one first.
LEMMA FallingList ==
  ASSUME NEW b, NEW n \in Nat, NEW F \in SUBSET ({b} \X (0..(n - 1)))
  PROVE  \E list \in [1..Cardinality(F) -> F] : Falling(list)
  <1> DEFINE Part(k) == {c \in F : c[2] < k}
             Has(k) == \E list \in [1..Cardinality(Part(k)) -> Part(k)] : Falling(list)
             T == {k \in 0..n : ~Has(k)}
  <1>0. \A k : IsFiniteSet(Part(k)) /\ Cardinality(Part(k)) \in Nat
    <2>1. IsFiniteSet(F) BY BlockCounts, FS_Subset
    <2>2. \A k : Part(k) \in SUBSET F OBVIOUS
    <2> QED BY <2>1, <2>2, FS_Subset, FS_CardinalityType
  <1>1. Part(n) = F OBVIOUS
  <1>2. ASSUME T # {} PROVE FALSE
    <2>1. PICK k \in T : \A j \in T : k <= j
      <3>1. T \subseteq Nat OBVIOUS
      <3> HIDE DEF T
      <3> QED BY <1>2, <3>1, Least
    <2>2. k \in 0..n /\ ~Has(k) OBVIOUS
    <2>3. CASE k = 0
      <3>1. Part(0) = {} OBVIOUS
      <3>2. Cardinality(Part(0)) = 0 BY <3>1, FS_EmptySet
      <3> DEFINE list == [i \in 1..0 |-> i]
      <3>3. list \in [1..0 -> {}] /\ Falling(list) BY DEF Falling
      <3>4. Has(0) BY <3>1, <3>2, <3>3
      <3> QED BY <2>2, <2>3, <3>4
    <2>4. CASE k # 0
      <3>1. k - 1 \in 0..n /\ k - 1 \notin T
        <4> HIDE DEF T
        <4> QED BY <2>1, <2>2, <2>4
      <3>2. Has(k - 1) BY <3>1
      <3> DEFINE P == Part(k - 1)
                 x == <<b, k - 1>>
      <3>3. PICK l \in [1..Cardinality(P) -> P] : Falling(l) BY <3>2
      <3>4. CASE x \notin F
        <4>1. Part(k) = P BY <2>2, <2>4, <3>4
        <4> QED BY <2>2, <3>2, <4>1
      <3>5. CASE x \in F
        <4> DEFINE N == Cardinality(P)
        <4>1. Part(k) = P \cup {x} /\ x \notin P BY <2>2, <2>4, <3>5
        <4>2. Cardinality(Part(k)) = N + 1 /\ N \in Nat
          <5>1. IsFiniteSet(P) /\ N \in Nat BY <1>0
          <5> HIDE DEF P, x
          <5>2. Cardinality(P \cup {x}) = N + 1 BY <4>1, <5>1, FS_AddElement
          <5> QED BY <4>1, <5>1, <5>2
        <4> DEFINE list == [i \in 1..(N + 1) |-> IF i = 1 THEN x ELSE l[i - 1]]
        <4>3. \A i \in 1..N : l[i] \in P /\ l[i][2] < k - 1 BY <3>3
        <4>4. \A i \in 2..(N + 1) : i - 1 \in 1..N BY <4>2
        <4>5. list \in [1..(N + 1) -> P \cup {x}]
          <5> HIDE DEF P, N, x
          <5> QED BY <4>2, <4>3, <4>4
        <4>6. Falling(list)
          <5>1. SUFFICES ASSUME NEW i \in 1..(N + 1), NEW j \in 1..(N + 1), i < j
                PROVE  list[i][2] > list[j][2]
            BY DEF Falling
          <5>2. j - 1 \in 1..N /\ list[j] = l[j - 1] BY <4>2, <5>1
          <5>3. CASE i = 1
            <6>1. list[i][2] = k - 1 BY <5>3
            <6>2. l[j - 1][2] \in Nat /\ l[j - 1][2] < k - 1 BY <4>3, <5>2
            <6> QED BY <5>2, <6>1, <6>2, <2>2
          <5>4. CASE i # 1
            <6>1. i - 1 \in 1..N /\ list[i] = l[i - 1] /\ i - 1 < j - 1 BY <4>2, <5>1, <5>4
            <6>2. l[i - 1][2] > l[j - 1][2] BY <3>3, <5>2, <6>1 DEF Falling
            <6> QED BY <5>2, <6>1, <6>2
          <5> QED BY <5>3, <5>4
        <4> HIDE DEF list
        <4>7. Has(k) BY <4>1, <4>2, <4>5, <4>6
        <4> QED BY <2>2, <4>7
      <3> QED BY <3>4, <3>5
    <2> QED BY <2>3, <2>4
  <1>3. Has(n)
    <2> HIDE DEF Has
    <2> QED BY <1>2
  <1> QED BY <1>1, <1>3

\* The local freelist of a puddle has its free chunks once.
LEMMA LocalFreeIsExact ==
  ASSUME ExponentsFit, NEW m, NEW s \in Slots, NEW p
  PROVE  LET list == LocalFree(m, s, p)
         IN  list \in Seq(FreeIn(m, s, p)) /\ Range(list) = FreeIn(m, s, p) /\ Once(list)
  <1> DEFINE F == FreeIn(m, s, p)
             list == LocalFree(m, s, p)
             n == nrof_arrays(s)
  <1>0. n \in Nat /\ F \in SUBSET ({p.block} \X (0..(n - 1)))
    BY DEF FreeIn, ExponentsFit
  <1>1. list \in [1..Cardinality(F) -> F] /\ Falling(list)
    <2>1. list = CHOOSE l \in [1..Cardinality(F) -> F] : Falling(l) BY DEF LocalFree, Falling
    <2> HIDE DEF list, F, n
    <2> QED BY <1>0, <2>1, FallingList
  <1>2. IsFiniteSet(F) /\ Cardinality(F) \in Nat
    <2> HIDE DEF F, n
    <2> QED BY <1>0, BlockCounts, FS_Subset, FS_CardinalityType
  <1>3. \A c \in F : c[2] \in Nat BY <1>0
  <1> HIDE DEF F, list, n
  <1>4. list \in Seq(F) /\ Len(list) = Cardinality(F) /\ DOMAIN list = 1..Cardinality(F)
    BY <1>1, <1>2
  <1>5. ASSUME NEW i \in 1..Cardinality(F), NEW j \in 1..Cardinality(F), list[i] = list[j]
        PROVE  i = j
    <2>1. list[i][2] \in Nat BY <1>1, <1>3
    <2>2. ~(i < j) /\ ~(j < i) BY <1>1, <1>4, <1>5, <2>1 DEF Falling
    <2> QED BY <1>2, <2>2
  <1>6. list \in Injection(1..Cardinality(F), F)
    BY <1>1, <1>5 DEF Injection, IsInjective
  <1>7. list \in Surjection(1..Cardinality(F), F)
    <2>1. Cardinality(1..Cardinality(F)) = Cardinality(F) BY <1>2, FS_Interval
    <2> QED BY <1>2, <1>6, <2>1, FS_Injection
  <1>8. Range(list) = F BY <1>1, <1>4, <1>7 DEF Surjection, Range
  <1>9. Once(list) BY <1>4, <1>5 DEF Once
  <1> QED BY <1>4, <1>8, <1>9 DEF F, list

-----------------------------------------------------------------------------
(* Lists                                                                    *)

LEMMA TailOf ==
  ASSUME NEW S, NEW list \in Seq(S), list # <<>>
  PROVE  /\ Head(list) \in S /\ Head(list) \in Range(list) /\ Tail(list) \in Seq(S)
         /\ Range(list) = Range(Tail(list)) \cup {Head(list)}
         /\ Once(list) => Once(Tail(list)) /\ Head(list) \notin Range(Tail(list))
         /\ Apart(list) => /\ Apart(Tail(list))
                           /\ \A p \in Range(Tail(list)) : p.block # Head(list).block
  <1> DEFINE n == Len(list)
             t == Tail(list)
  <1>1. n \in Nat \ {0} /\ Head(list) = list[1] /\ list[1] \in S /\ DOMAIN list = 1..n
    OBVIOUS
  <1>2. t \in Seq(S) /\ Len(t) = n - 1 /\ DOMAIN t = 1..(n - 1)
        /\ \A i \in 1..(n - 1) : t[i] = list[i + 1]
    OBVIOUS
  <1> HIDE DEF t, n
  <1>3. Range(list) = Range(t) \cup {list[1]}
    <2>1. ASSUME NEW i \in 1..n PROVE list[i] \in Range(t) \cup {list[1]}
      <3>1. CASE i # 1
        <4>1. i - 1 \in 1..(n - 1) /\ t[i - 1] = list[i] BY <1>1, <1>2, <3>1
        <4> QED BY <1>2, <4>1 DEF Range
      <3> QED BY <3>1
    <2>2. ASSUME NEW i \in 1..(n - 1) PROVE t[i] \in Range(list)
      <3>1. i + 1 \in 1..n BY <1>1
      <3> QED BY <1>1, <1>2, <3>1 DEF Range
    <2>3. list[1] \in Range(list) BY <1>1 DEF Range
    <2> QED BY <1>1, <1>2, <2>1, <2>2, <2>3 DEF Range
  <1>4. ASSUME Once(list) PROVE Once(t) /\ list[1] \notin Range(t)
    <2>1. \A i \in 1..(n - 1) : i + 1 \in 1..n /\ i + 1 # 1 BY <1>1
    <2>2. Once(t)
      <3>1. SUFFICES ASSUME NEW i \in 1..(n - 1), NEW j \in 1..(n - 1), t[i] = t[j] PROVE i = j
        BY <1>2 DEF Once
      <3>2. i + 1 = j + 1 BY <1>2, <1>4, <2>1, <3>1 DEF Once, n
      <3> QED BY <1>1, <3>2
    <2>3. list[1] \notin Range(t)
      BY <1>1, <1>2, <1>4, <2>1 DEF Once, Range, n
    <2> QED BY <2>2, <2>3
  <1>5. ASSUME Apart(list) PROVE Apart(t) /\ \A p \in Range(t) : p.block # list[1].block
    <2>1. \A i \in 1..(n - 1) : i + 1 \in 1..n /\ i + 1 # 1 BY <1>1
    <2>2. Apart(t)
      <3>1. SUFFICES ASSUME NEW i \in 1..(n - 1), NEW j \in 1..(n - 1), t[i].block = t[j].block
            PROVE  i = j
        BY <1>2 DEF Apart
      <3>2. i + 1 = j + 1 BY <1>2, <1>5, <2>1, <3>1 DEF Apart, n
      <3> QED BY <1>1, <3>2
    <2>3. \A p \in Range(t) : p.block # list[1].block
      BY <1>1, <1>2, <1>5, <2>1 DEF Apart, Range, n
    <2> QED BY <2>2, <2>3
  <1> QED BY <1>1, <1>2, <1>3, <1>4, <1>5 DEF t, n

Put(x, list) == <<x>> \o list
LEMMA PutFirst ==
  ASSUME NEW S, NEW list \in Seq(S), NEW x \in S
  PROVE  /\ Put(x, list) \in Seq(S) /\ Range(Put(x, list)) = Range(list) \cup {x}
         /\ Once(list) /\ x \notin Range(list) => Once(Put(x, list))
         /\ Apart(list) /\ (\A p \in Range(list) : p.block # x.block) => Apart(Put(x, list))
  <1> DEFINE n == Len(list)
             new == Put(x, list)
  <1>1. n \in Nat /\ DOMAIN list = 1..n OBVIOUS
  <1>2. new \in Seq(S) /\ Len(new) = n + 1 /\ DOMAIN new = 1..(n + 1) /\ new[1] = x
        /\ \A i \in 2..(n + 1) : new[i] = list[i - 1]
    BY DEF Put
  <1>3. \A i \in 1..(n + 1) : i = 1 \/ (i \in 2..(n + 1) /\ i - 1 \in 1..n) BY <1>1
  <1>4. \A i \in 1..n : i + 1 \in 2..(n + 1) /\ i + 1 - 1 = i BY <1>1
  <1> HIDE DEF new, n
  <1>5. Range(new) = Range(list) \cup {x}
    <2>1. \A i \in 1..(n + 1) : new[i] \in Range(list) \cup {x} BY <1>1, <1>2, <1>3 DEF Range
    <2>2. \A i \in 1..n : list[i] \in Range(new)
      <3>1. \A i \in 1..n : list[i] = new[i + 1] /\ i + 1 \in 1..(n + 1) BY <1>1, <1>2, <1>4
      <3> QED BY <1>2, <3>1 DEF Range
    <2>3. x \in Range(new) BY <1>1, <1>2 DEF Range
    <2> QED BY <1>1, <1>2, <2>1, <2>2, <2>3 DEF Range
  <1>6. ASSUME Once(list), x \notin Range(list) PROVE Once(new)
    <2>1. SUFFICES ASSUME NEW i \in 1..(n + 1), NEW j \in 1..(n + 1), new[i] = new[j] PROVE i = j
      BY <1>2 DEF Once
    <2>2. \A k \in 2..(n + 1) : new[k] # x
      <3>1. \A k \in 1..n : list[k] \in Range(list) BY <1>1 DEF Range
      <3> QED BY <1>1, <1>2, <1>3, <1>6, <3>1
    <2>3. CASE i # 1 /\ j # 1
      <3>1. i - 1 \in 1..n /\ j - 1 \in 1..n /\ list[i - 1] = list[j - 1] BY <1>2, <1>3, <2>1, <2>3
      <3>2. i - 1 = j - 1 BY <1>6, <3>1 DEF Once, n
      <3> QED BY <3>2
    <2> QED BY <1>2, <1>3, <2>1, <2>2, <2>3
  <1>7. ASSUME Apart(list), \A p \in Range(list) : p.block # x.block PROVE Apart(new)
    <2>1. SUFFICES ASSUME NEW i \in 1..(n + 1), NEW j \in 1..(n + 1), new[i].block = new[j].block
          PROVE  i = j
      BY <1>2 DEF Apart
    <2>2. \A k \in 2..(n + 1) : new[k].block # x.block
      <3>1. \A k \in 1..n : list[k] \in Range(list) BY <1>1 DEF Range
      <3> QED BY <1>1, <1>2, <1>3, <1>7, <3>1
    <2>3. CASE i # 1 /\ j # 1
      <3>1. i - 1 \in 1..n /\ j - 1 \in 1..n /\ list[i - 1].block = list[j - 1].block
        BY <1>2, <1>3, <2>1, <2>3
      <3>2. i - 1 = j - 1 BY <1>7, <3>1 DEF Apart, n
      <3> QED BY <3>2
    <2> QED BY <1>2, <1>3, <2>1, <2>2, <2>3
  <1> QED BY <1>2, <1>5, <1>6, <1>7 DEF new

LEMMA PutLast ==
  ASSUME NEW S, NEW a \in Seq(S), NEW b \in Seq(S)
  PROVE  /\ a \o b \in Seq(S) /\ Range(a \o b) = Range(a) \cup Range(b)
         /\ Once(a) /\ Once(b) /\ Range(a) \cap Range(b) = {} => Once(a \o b)
  <1> DEFINE n == Len(a)
             k == Len(b)
             new == a \o b
  <1>1. n \in Nat /\ k \in Nat /\ DOMAIN a = 1..n /\ DOMAIN b = 1..k OBVIOUS
  <1>2. new \in Seq(S) /\ Len(new) = n + k /\ DOMAIN new = 1..(n + k)
        /\ (\A i \in 1..n : new[i] = a[i])
        /\ \A i \in (n + 1)..(n + k) : new[i] = b[i - n]
    OBVIOUS
  <1>3. \A i \in 1..(n + k) : i \in 1..n \/ (i \in (n + 1)..(n + k) /\ i - n \in 1..k) BY <1>1
  <1>4. \A i \in 1..k : i + n \in (n + 1)..(n + k) /\ (i + n) - n = i /\ i + n \in 1..(n + k)
    BY <1>1
  <1>0. \A i \in 1..n : i \in 1..(n + k) BY <1>1
  <1> HIDE DEF new, n, k
  <1>5. Range(new) = Range(a) \cup Range(b)
    <2>1. \A i \in 1..(n + k) : new[i] \in Range(a) \cup Range(b) BY <1>1, <1>2, <1>3 DEF Range
    <2>2. \A i \in 1..n : a[i] \in Range(new) BY <1>0, <1>2 DEF Range
    <2>3. \A i \in 1..k : b[i] \in Range(new)
      <3>1. \A i \in 1..k : new[i + n] = b[i] BY <1>2, <1>4
      <3> QED BY <1>2, <1>4, <3>1 DEF Range
    <2> QED BY <1>1, <1>2, <2>1, <2>2, <2>3 DEF Range
  <1>6. ASSUME Once(a), Once(b), Range(a) \cap Range(b) = {} PROVE Once(new)
    <2>1. SUFFICES ASSUME NEW i \in 1..(n + k), NEW j \in 1..(n + k), new[i] = new[j] PROVE i = j
      BY <1>2 DEF Once
    <2>2. CASE i \in 1..n /\ j \in 1..n BY <1>2, <1>6, <2>1, <2>2 DEF Once, n
    <2>3. CASE i \notin 1..n /\ j \notin 1..n
      <3>1. i - n \in 1..k /\ j - n \in 1..k /\ b[i - n] = b[j - n] BY <1>2, <1>3, <2>1, <2>3
      <3>2. i - n = j - n BY <1>6, <3>1 DEF Once, k
      <3> QED BY <1>1, <3>2
    <2>4. \A u \in 1..n, v \in (n + 1)..(n + k) : new[u] # new[v]
      <3>1. \A u \in 1..n : new[u] \in Range(a) BY <1>1, <1>2 DEF Range
      <3>2. \A v \in (n + 1)..(n + k) : v - n \in 1..k BY <1>1
      <3>3. \A v \in (n + 1)..(n + k) : new[v] \in Range(b) BY <1>1, <1>2, <3>2 DEF Range
      <3> QED BY <1>6, <3>1, <3>3
    <2> QED BY <1>3, <2>1, <2>2, <2>3, <2>4
  <1> QED BY <1>2, <1>5, <1>6 DEF new

-----------------------------------------------------------------------------
(* Taking and giving a chunk                                                *)

\* A pool between two functions, but for the blocks that have no descriptor yet.
Settled(m, new) ==
  /\ MemInv(m) /\ CountInv(m) /\ \A s \in Slots : Exact(m, s) /\ Apart(m.puddlelist[s])
  /\ \A s \in Slots : \A p \in Range(m.puddlelist[s]) :
       /\ p.block \in m.live \ new /\ m.owner[p.block] = s
       /\ p.at \in ChunksOf(m, PuddleSlot) /\ p.at \notin m.free
       /\ s = PuddleSlot => p.at[1] = p.block
       /\ \A z \in Slots : \A r \in Range(m.puddlelist[z]) : p.at = r.at => p = r
  /\ \A b \in m.live \ new : \E p \in Range(m.puddlelist[m.owner[b]]) : p.block = b

LEMMA SlotFacts == PuddleSlot \in Slots /\ NoOwner \notin Slots
  BY MempoolAssumption DEF Slots, Pool, PuddleSlot, NoOwner

LEMMA TakeFields ==
  ASSUME NEW m \in Memory, NEW s \in Slots, m.freelist[s] # <<>>
  PROVE  LET t == Take(m, s)
         IN  /\ t \in Memory /\ t.owner = m.owner /\ t.live = m.live /\ t.count = m.count
             /\ t.puddlelist = m.puddlelist /\ t.nrof_allocated = m.nrof_allocated
             /\ t.free = m.free \ {Taken(m, s)}
             /\ t.freelist = [m.freelist EXCEPT ![s] = Tail(m.freelist[s])]
             /\ t.nrof_free = [m.nrof_free EXCEPT ![s] = m.nrof_free[s] - 1]
             /\ Taken(m, s) \in Chunk
  <1> DEFINE t == Take(m, s)
  <1>1. m.freelist[s] \in Seq(Chunk) BY DEF Memory
  <1>2. Taken(m, s) \in Chunk /\ Tail(m.freelist[s]) \in Seq(Chunk) BY <1>1, TailOf DEF Taken
  <1>3. /\ t.owner = m.owner /\ t.live = m.live /\ t.count = m.count
        /\ t.puddlelist = m.puddlelist /\ t.nrof_allocated = m.nrof_allocated
        /\ t.free = m.free \ {Taken(m, s)}
        /\ t.freelist = [m.freelist EXCEPT ![s] = Tail(m.freelist[s])]
        /\ t.nrof_free = [m.nrof_free EXCEPT ![s] = m.nrof_free[s] - 1]
    BY DEF Take, Memory
  <1>4. /\ m.freelist \in [Slots -> Seq(Chunk)] /\ m.free \in SUBSET Chunk
        /\ m.nrof_free \in [Slots -> Int]
    BY DEF Memory
  <1> DEFINE lists == [m.freelist EXCEPT ![s] = Tail(m.freelist[s])]
             chunks == m.free \ {Taken(m, s)}
             counts == [m.nrof_free EXCEPT ![s] = m.nrof_free[s] - 1]
  <1>5. t = [m EXCEPT !.freelist = lists, !.free = chunks, !.nrof_free = counts]
    BY DEF Take
  <1>6. /\ lists \in [Slots -> Seq(Chunk)] /\ chunks \in SUBSET Chunk
        /\ counts \in [Slots -> Int]
    BY <1>2, <1>4
  <1> HIDE DEF t, lists, chunks, counts
  <1>7. t \in Memory BY <1>5, <1>6 DEF Memory
  <1> QED BY <1>2, <1>3, <1>7 DEF t

LEMMA GiveFields ==
  ASSUME NEW m \in Memory, NEW s \in Slots, NEW c \in Chunk, NEW t, t = Give(m, s, c)
  PROVE  /\ t \in Memory /\ t.owner = m.owner /\ t.live = m.live /\ t.count = m.count
         /\ t.puddlelist = m.puddlelist /\ t.nrof_allocated = m.nrof_allocated
         /\ t.free = m.free \cup {c}
         /\ t.freelist[s] = Put(c, m.freelist[s]) /\ t.nrof_free[s] = m.nrof_free[s] + 1
         /\ \A z \in Slots : z # s => /\ t.freelist[z] = m.freelist[z]
                                      /\ t.nrof_free[z] = m.nrof_free[z]
  <1>1. m.freelist[s] \in Seq(Chunk) BY DEF Memory
  <1>2. Put(c, m.freelist[s]) \in Seq(Chunk) BY <1>1, PutFirst
  <1>3. /\ t.owner = m.owner /\ t.live = m.live /\ t.count = m.count
        /\ t.puddlelist = m.puddlelist /\ t.nrof_allocated = m.nrof_allocated
        /\ t.free = m.free \cup {c}
        /\ t.freelist = [m.freelist EXCEPT ![s] = Put(c, m.freelist[s])]
        /\ t.nrof_free = [m.nrof_free EXCEPT ![s] = m.nrof_free[s] + 1]
    BY DEF Give, Memory, Put
  <1>4. /\ m.freelist \in [Slots -> Seq(Chunk)] /\ m.free \in SUBSET Chunk
        /\ m.nrof_free \in [Slots -> Int]
    BY DEF Memory
  <1> DEFINE lists == [m.freelist EXCEPT ![s] = Put(c, m.freelist[s])]
             chunks == m.free \cup {c}
             counts == [m.nrof_free EXCEPT ![s] = m.nrof_free[s] + 1]
  <1>5. t = [m EXCEPT !.freelist = lists, !.free = chunks, !.nrof_free = counts]
    BY DEF Give, Put
  <1>6. /\ lists \in [Slots -> Seq(Chunk)] /\ chunks \in SUBSET Chunk
        /\ counts \in [Slots -> Int]
    BY <1>2, <1>4
  <1> HIDE DEF lists, chunks, counts
  <1>7. t \in Memory BY <1>5, <1>6 DEF Memory
  <1>8. /\ t.freelist[s] = Put(c, m.freelist[s]) /\ t.nrof_free[s] = m.nrof_free[s] + 1
        /\ \A z \in Slots : z # s => /\ t.freelist[z] = m.freelist[z]
                                     /\ t.nrof_free[z] = m.nrof_free[z]
    BY <1>3, <1>4
  <1> QED BY <1>3, <1>7, <1>8

\* Chunks belong to one freelist.
LEMMA OneSlot ==
  ASSUME NEW m, NEW s, NEW z, NEW c \in ChunksOf(m, s), c \in ChunksOf(m, z)
  PROVE  s = z
  BY DEF ChunksOf

\* The first chunk of a freelist is taken: the books stay right.
LEMMA TakeBooks ==
  ASSUME ExponentsFit, NEW m, MemInv(m), CountInv(m), NEW s \in Slots, Exact(m, s),
         m.freelist[s] # <<>>
  PROVE  LET t == Take(m, s)
             c == Taken(m, s)
         IN  /\ MemInv(t) /\ CountInv(t) /\ c \in FreeOf(m, s)
             /\ \A z : ChunksOf(t, z) = ChunksOf(m, z)
             /\ \A z \in Slots : FreeOf(t, z) = FreeOf(m, z) \ {c}
             /\ \A z \in Slots : z # s => FreeOf(t, z) = FreeOf(m, z)
             /\ \A z \in Slots : Exact(m, z) => Exact(t, z)
  <1> DEFINE t == Take(m, s)
             c == Taken(m, s)
  <1>0. m \in Memory BY DEF MemInv
  <1>1. /\ t \in Memory /\ t.owner = m.owner /\ t.live = m.live /\ t.count = m.count
        /\ t.puddlelist = m.puddlelist /\ t.nrof_allocated = m.nrof_allocated
        /\ t.free = m.free \ {c}
        /\ t.freelist = [m.freelist EXCEPT ![s] = Tail(m.freelist[s])]
        /\ t.nrof_free = [m.nrof_free EXCEPT ![s] = m.nrof_free[s] - 1]
    BY <1>0, TakeFields
  <1>2. m.freelist \in [Slots -> Seq(Chunk)] /\ m.nrof_free \in [Slots -> Int] BY <1>0 DEF Memory
  <1>3. /\ c \in Range(m.freelist[s]) /\ Once(Tail(m.freelist[s]))
        /\ Range(Tail(m.freelist[s])) = Range(m.freelist[s]) \ {c}
    BY <1>2, TailOf DEF Taken, Exact
  <1> HIDE DEF t, c
  <1>4. \A z : ChunksOf(t, z) = ChunksOf(m, z) BY <1>1 DEF ChunksOf
  <1>5. c \in FreeOf(m, s) BY <1>3 DEF Exact
  <1>6. \A z \in Slots : FreeOf(t, z) = FreeOf(m, z) \ {c} BY <1>1, <1>4 DEF FreeOf
  <1>7. \A z \in Slots : z # s => c \notin FreeOf(m, z) BY <1>5, OneSlot DEF FreeOf
  <1>8. \A z \in Slots : z # s => FreeOf(t, z) = FreeOf(m, z) BY <1>6, <1>7
  <1>9. MemInv(t) BY <1>1 DEF MemInv
  <1>10. CountInv(t)
    <2>1. SUFFICES ASSUME NEW z \in Slots
          PROVE  /\ t.nrof_free[z] = Cardinality(FreeOf(t, z))
                 /\ t.nrof_allocated[z] = Cardinality(ChunksOf(t, z))
      BY DEF CountInv
    <2>2. t.nrof_allocated[z] = Cardinality(ChunksOf(t, z)) BY <1>1, <1>4 DEF CountInv
    <2>3. CASE z # s
      <3>1. t.nrof_free[z] = m.nrof_free[z] BY <1>1, <1>2, <2>3
      <3> QED BY <1>8, <2>2, <2>3, <3>1 DEF CountInv
    <2>4. CASE z = s
      <3>1. t.nrof_free[z] = m.nrof_free[z] - 1 BY <1>1, <1>2, <2>4
      <3>2. IsFiniteSet(FreeOf(m, s)) BY ChunksAreFinite
      <3>3. Cardinality(FreeOf(m, s) \ {c}) = Cardinality(FreeOf(m, s)) - 1
        BY <1>5, <3>2, FS_RemoveElement
      <3> QED BY <1>6, <2>2, <2>4, <3>1, <3>3 DEF CountInv
    <2> QED BY <2>3, <2>4
  <1>11. ASSUME NEW z \in Slots, Exact(m, z) PROVE Exact(t, z)
    <2>1. CASE z # s
      <3>1. t.freelist[z] = m.freelist[z] BY <1>1, <1>2, <2>1
      <3> QED BY <1>8, <1>11, <2>1, <3>1 DEF Exact
    <2>2. CASE z = s
      <3>1. t.freelist[z] = Tail(m.freelist[s]) BY <1>1, <1>2, <2>2
      <3> QED BY <1>3, <1>6, <1>11, <2>2, <3>1 DEF Exact
    <2> QED BY <2>1, <2>2
  <1> QED BY <1>4, <1>5, <1>6, <1>8, <1>9, <1>10, <1>11 DEF t, c

\* A used chunk is given back: the books stay right.
LEMMA GiveBooks ==
  ASSUME ExponentsFit, NEW m, MemInv(m), CountInv(m), NEW s \in Slots, Exact(m, s),
         NEW c \in ChunksOf(m, s), c \notin m.free, NEW t, t = Give(m, s, c)
  PROVE  /\ MemInv(t) /\ CountInv(t)
         /\ \A z : ChunksOf(t, z) = ChunksOf(m, z)
         /\ \A z \in Slots : z # s => FreeOf(t, z) = FreeOf(m, z)
         /\ \A z \in Slots : Exact(m, z) => Exact(t, z)
  <1>0. m \in Memory /\ c \in Chunk BY ChunksAreFinite DEF MemInv
  <1>1. /\ t \in Memory /\ t.owner = m.owner /\ t.live = m.live /\ t.count = m.count
        /\ t.puddlelist = m.puddlelist /\ t.nrof_allocated = m.nrof_allocated
        /\ t.free = m.free \cup {c}
        /\ t.freelist[s] = Put(c, m.freelist[s]) /\ t.nrof_free[s] = m.nrof_free[s] + 1
        /\ \A z \in Slots : z # s => /\ t.freelist[z] = m.freelist[z]
                                     /\ t.nrof_free[z] = m.nrof_free[z]
    BY <1>0, GiveFields
  <1>2. m.freelist \in [Slots -> Seq(Chunk)] /\ m.nrof_free \in [Slots -> Int] BY <1>0 DEF Memory
  <1>3. c \notin Range(m.freelist[s]) BY DEF Exact, FreeOf
  <1>4. /\ Once(Put(c, m.freelist[s]))
        /\ Range(Put(c, m.freelist[s])) = Range(m.freelist[s]) \cup {c}
    BY <1>0, <1>2, <1>3, PutFirst DEF Exact
  <1>5. \A z : ChunksOf(t, z) = ChunksOf(m, z) BY <1>1 DEF ChunksOf
  <1>6. \A z \in Slots : z # s => c \notin ChunksOf(m, z) BY OneSlot
  <1>7. \A z \in Slots : z # s => FreeOf(t, z) = FreeOf(m, z) BY <1>1, <1>5, <1>6 DEF FreeOf
  <1>8. FreeOf(t, s) = FreeOf(m, s) \cup {c} /\ c \notin FreeOf(m, s) BY <1>1, <1>5 DEF FreeOf
  <1>9. MemInv(t) BY <1>1 DEF MemInv
  <1>10. CountInv(t)
    <2>1. SUFFICES ASSUME NEW z \in Slots
          PROVE  /\ t.nrof_free[z] = Cardinality(FreeOf(t, z))
                 /\ t.nrof_allocated[z] = Cardinality(ChunksOf(t, z))
      BY DEF CountInv
    <2>2. t.nrof_allocated[z] = Cardinality(ChunksOf(t, z)) BY <1>1, <1>5 DEF CountInv
    <2>3. CASE z # s
      <3>1. t.nrof_free[z] = m.nrof_free[z] BY <1>1, <1>2, <2>3
      <3> QED BY <1>7, <2>2, <2>3, <3>1 DEF CountInv
    <2>4. CASE z = s
      <3>1. t.nrof_free[z] = m.nrof_free[z] + 1 BY <1>1, <1>2, <2>4
      <3>2. IsFiniteSet(FreeOf(m, s)) BY ChunksAreFinite
      <3>3. Cardinality(FreeOf(m, s) \cup {c}) = Cardinality(FreeOf(m, s)) + 1
        BY <1>8, <3>2, FS_AddElement
      <3> QED BY <1>8, <2>2, <2>4, <3>1, <3>3 DEF CountInv
    <2> QED BY <2>3, <2>4
  <1>11. ASSUME NEW z \in Slots, Exact(m, z) PROVE Exact(t, z)
    <2>1. CASE z # s
      <3>1. t.freelist[z] = m.freelist[z] BY <1>1, <1>2, <2>1
      <3> QED BY <1>7, <1>11, <2>1, <3>1 DEF Exact
    <2>2. CASE z = s
      <3>1. t.freelist[z] = Put(c, m.freelist[s]) BY <1>1, <1>2, <2>2
      <3> QED BY <1>4, <1>8, <1>11, <2>2, <3>1 DEF Exact
    <2> QED BY <2>1, <2>2
  <1> QED BY <1>5, <1>7, <1>9, <1>10, <1>11

-----------------------------------------------------------------------------
(* A new block                                                              *)

Row(b, n) == [i \in 1..n |-> <<b, i - 1>>]
BlockOf(b, n) == {b} \X (0..(n - 1))

LEMMA RowIsExact ==
  ASSUME NEW b \in Block, NEW n \in Nat
  PROVE  /\ Row(b, n) \in Seq(Chunk) /\ Len(Row(b, n)) = n
         /\ Range(Row(b, n)) = BlockOf(b, n) /\ Once(Row(b, n))
         /\ BlockOf(b, n) \subseteq Chunk
         /\ \A c \in BlockOf(b, n) : c[1] = b
  <1>1. \A i \in 1..n : i - 1 \in Nat /\ i - 1 \in 0..(n - 1) OBVIOUS
  <1>2. Row(b, n) \in [1..n -> Chunk] /\ \A i \in 1..n : Row(b, n)[i] = <<b, i - 1>>
    BY <1>1 DEF Row, Chunk
  <1>3. Row(b, n) \in Seq(Chunk) /\ Len(Row(b, n)) = n /\ DOMAIN Row(b, n) = 1..n BY <1>2
  <1>4. ASSUME NEW c \in BlockOf(b, n) PROVE c \in Range(Row(b, n))
    <2>1. c[2] \in 0..(n - 1) /\ c = <<b, c[2]>> BY DEF BlockOf
    <2>2. c[2] + 1 \in 1..n /\ (c[2] + 1) - 1 = c[2] BY <2>1
    <2>3. Row(b, n)[c[2] + 1] = c BY <1>2, <2>1, <2>2
    <2> QED BY <1>3, <2>2, <2>3 DEF Range
  <1>5. Range(Row(b, n)) \subseteq BlockOf(b, n)
    <2>1. \A i \in 1..n : <<b, i - 1>> \in BlockOf(b, n) BY <1>1 DEF BlockOf
    <2> QED BY <1>2, <1>3, <2>1 DEF Range
  <1>6. Once(Row(b, n))
    <2>1. \A i, j \in 1..n : <<b, i - 1>> = <<b, j - 1>> => i = j OBVIOUS
    <2> QED BY <1>2, <1>3, <2>1 DEF Once
  <1>7. BlockOf(b, n) \subseteq Chunk /\ \A c \in BlockOf(b, n) : c[1] = b
    BY DEF BlockOf, Chunk
  <1> QED BY <1>3, <1>4, <1>5, <1>6, <1>7

LEMMA NewBlockFields ==
  ASSUME ExponentsFit, NEW m \in Memory, NEW s \in Slots, m.count < MaxBlocks
  PROVE  LET t == NewBlock(m, s)
             b == m.count + 1
             n == BlockSize(s)
         IN  /\ t \in Memory /\ t.owner = [m.owner EXCEPT ![b] = s] /\ t.count = b
             /\ b \in Block
             /\ t.live = m.live \cup {b} /\ t.puddlelist = m.puddlelist
             /\ t.free = m.free \cup BlockOf(b, n)
             /\ t.freelist = [m.freelist EXCEPT ![s] = Row(b, n)]
             /\ t.nrof_free = [m.nrof_free EXCEPT ![s] = n]
             /\ t.nrof_allocated = [m.nrof_allocated EXCEPT ![s] = m.nrof_allocated[s] + n]
  <1> DEFINE t == NewBlock(m, s)
             b == m.count + 1
             n == BlockSize(s)
             owners == [m.owner EXCEPT ![b] = s]
             lists == [m.freelist EXCEPT ![s] = Row(b, n)]
             chunks == m.free \cup BlockOf(b, n)
             counts == [m.nrof_free EXCEPT ![s] = n]
             totals == [m.nrof_allocated EXCEPT ![s] = m.nrof_allocated[s] + n]
  <1>1. /\ m.owner \in [Block -> Slots \cup {NoOwner}] /\ m.freelist \in [Slots -> Seq(Chunk)]
        /\ m.free \in SUBSET Chunk /\ m.nrof_free \in [Slots -> Int]
        /\ m.nrof_allocated \in [Slots -> Int] /\ m.count \in 0..MaxBlocks
        /\ m.live \in SUBSET Block
    BY DEF Memory
  <1>2. b \in Block /\ b \in 0..MaxBlocks BY <1>1, MempoolAssumption DEF Block
  <1>3. n \in Nat BY SizeFits
  <1>4. t = [m EXCEPT !.owner = owners, !.count = b, !.live = m.live \cup {b},
                      !.freelist = lists, !.free = chunks, !.nrof_allocated = totals,
                      !.nrof_free = counts]
    BY DEF NewBlock, Row, BlockOf
  <1>5. /\ owners \in [Block -> Slots \cup {NoOwner}] /\ lists \in [Slots -> Seq(Chunk)]
        /\ chunks \in SUBSET Chunk /\ counts \in [Slots -> Int] /\ totals \in [Slots -> Int]
        /\ m.live \cup {b} \in SUBSET Block
    <2>1. Row(b, n) \in Seq(Chunk) /\ BlockOf(b, n) \subseteq Chunk BY <1>2, <1>3, RowIsExact
    <2> HIDE DEF b, n
    <2> QED BY <1>1, <1>2, <1>3, <2>1
  <1> HIDE DEF t, b, n, owners, lists, chunks, counts, totals
  <1>6. t \in Memory BY <1>2, <1>4, <1>5 DEF Memory
  <1>7. /\ t.owner = owners /\ t.count = b /\ t.live = m.live \cup {b}
        /\ t.puddlelist = m.puddlelist /\ t.free = chunks /\ t.freelist = lists
        /\ t.nrof_free = counts /\ t.nrof_allocated = totals
    BY <1>4 DEF Memory
  <1> QED BY <1>2, <1>6, <1>7 DEF t, b, n, owners, lists, chunks, counts, totals

\* A block is allocated for a freelist that is empty: the books stay right.
LEMMA NewBlockBooks ==
  ASSUME ExponentsFit, NEW m, MemInv(m), CountInv(m), NEW s \in Slots,
         s[1] = "puddles" => s = PuddleSlot, m.nrof_free[s] = 0, m.count < MaxBlocks
  PROVE  LET t == NewBlock(m, s)
             b == m.count + 1
             n == BlockSize(s)
         IN  /\ MemInv(t) /\ CountInv(t) /\ b \notin m.live
             /\ \A z \in Slots : z # s => ChunksOf(t, z) = ChunksOf(m, z)
             /\ ChunksOf(t, s) = ChunksOf(m, s) \cup BlockOf(b, n)
             /\ \A z \in Slots : z # s => FreeOf(t, z) = FreeOf(m, z)
             /\ Exact(t, s) /\ \A z \in Slots : Exact(m, z) => Exact(t, z)
  <1> DEFINE t == NewBlock(m, s)
             b == m.count + 1
             n == BlockSize(s)
  <1>0. m \in Memory BY DEF MemInv
  <1>1. /\ t \in Memory /\ t.owner = [m.owner EXCEPT ![b] = s] /\ t.count = b
        /\ b \in Block
        /\ t.live = m.live \cup {b} /\ t.puddlelist = m.puddlelist
        /\ t.free = m.free \cup BlockOf(b, n)
        /\ t.freelist = [m.freelist EXCEPT ![s] = Row(b, n)]
        /\ t.nrof_free = [m.nrof_free EXCEPT ![s] = n]
        /\ t.nrof_allocated = [m.nrof_allocated EXCEPT ![s] = m.nrof_allocated[s] + n]
    BY <1>0, NewBlockFields
  <1>2. /\ m.freelist \in [Slots -> Seq(Chunk)] /\ m.nrof_free \in [Slots -> Int]
        /\ m.nrof_allocated \in [Slots -> Int] /\ m.owner \in [Block -> Slots \cup {NoOwner}]
        /\ m.live \in SUBSET Block /\ m.count \in Nat
    BY <1>0 DEF Memory
  <1>3. n \in Nat \ {0} BY SizeFits
  <1>4. b \notin m.live
    <2>1. \A x \in m.live : x <= m.count /\ x \in Nat BY <1>2 DEF MemInv, Block
    <2> QED BY <1>2, <2>1
  <1>5. \A x \in m.live : x \in Block /\ x <= b
    <2>1. \A x \in m.live : x <= m.count /\ x \in Nat /\ x \in Block BY <1>2 DEF MemInv, Block
    <2> QED BY <1>2, <2>1
  <1>6. /\ Row(b, n) \in Seq(Chunk) /\ Len(Row(b, n)) = n
        /\ Range(Row(b, n)) = BlockOf(b, n) /\ Once(Row(b, n))
        /\ BlockOf(b, n) \subseteq Chunk /\ \A c \in BlockOf(b, n) : c[1] = b
    BY <1>1, <1>3, RowIsExact
  <1> HIDE DEF t, b
  <1>7. t.owner[b] = s /\ \A x \in m.live : t.owner[x] = m.owner[x] BY <1>1, <1>2, <1>4
  <1>8. MemInv(t)
    <2>1. SUFFICES ASSUME NEW x \in t.live
          PROVE  /\ x <= t.count /\ t.owner[x] \in Slots
                 /\ t.owner[x][1] = "puddles" => t.owner[x] = PuddleSlot
      BY <1>1 DEF MemInv
    <2>2. CASE x = b
      <3>1. b <= b BY <1>1 DEF Block
      <3> QED BY <1>1, <1>7, <2>2, <3>1
    <2>3. CASE x \in m.live BY <1>1, <1>5, <1>7, <2>3 DEF MemInv
    <2> QED BY <1>1, <2>2, <2>3
  <1>9. \A z \in Slots : z # s => ChunksOf(t, z) = ChunksOf(m, z)
    BY <1>1, <1>4, <1>7 DEF ChunksOf
  <1>10. ChunksOf(t, s) = ChunksOf(m, s) \cup BlockOf(b, n)
    <2>1. ASSUME NEW c \in ChunksOf(t, s) PROVE c \in ChunksOf(m, s) \cup BlockOf(b, n)
      <3>1. c \in Block \X (0..(n - 1)) /\ c[1] \in m.live \cup {b} /\ t.owner[c[1]] = s
        BY <1>1 DEF ChunksOf
      <3>2. CASE c[1] = b BY <3>1, <3>2 DEF BlockOf
      <3>3. CASE c[1] \in m.live BY <1>7, <3>1, <3>3 DEF ChunksOf
      <3> QED BY <3>1, <3>2, <3>3
    <2>2. ChunksOf(m, s) \subseteq ChunksOf(t, s) BY <1>1, <1>7 DEF ChunksOf
    <2>3. BlockOf(b, n) \subseteq ChunksOf(t, s) BY <1>1, <1>7 DEF ChunksOf, BlockOf
    <2> QED BY <2>1, <2>2, <2>3
  <1>11. \A z \in Slots : \A c \in ChunksOf(m, z) : c[1] \in m.live BY DEF ChunksOf
  <1>12. \A z \in Slots : ChunksOf(m, z) \cap BlockOf(b, n) = {} BY <1>4, <1>6, <1>11
  <1>13. \A z \in Slots : z # s => FreeOf(t, z) = FreeOf(m, z)
    BY <1>1, <1>9, <1>12 DEF FreeOf
  <1>14. FreeOf(m, s) = {}
    <2>1. IsFiniteSet(FreeOf(m, s)) /\ Cardinality(FreeOf(m, s)) = 0
      BY ChunksAreFinite DEF CountInv
    <2> QED BY <2>1, FS_EmptySet
  <1>15. FreeOf(t, s) = BlockOf(b, n)
    BY <1>1, <1>10, <1>12, <1>14 DEF FreeOf
  <1>16. IsFiniteSet(BlockOf(b, n)) /\ Cardinality(BlockOf(b, n)) = n
    BY <1>3, BlockCounts DEF BlockOf
  <1>17. CountInv(t)
    <2>1. SUFFICES ASSUME NEW z \in Slots
          PROVE  /\ t.nrof_free[z] = Cardinality(FreeOf(t, z))
                 /\ t.nrof_allocated[z] = Cardinality(ChunksOf(t, z))
      BY DEF CountInv
    <2>2. CASE z # s
      <3>1. t.nrof_free[z] = m.nrof_free[z] /\ t.nrof_allocated[z] = m.nrof_allocated[z]
        BY <1>1, <1>2, <2>2
      <3> QED BY <1>9, <1>13, <2>2, <3>1 DEF CountInv
    <2>3. CASE z = s
      <3>1. t.nrof_free[z] = n /\ t.nrof_allocated[z] = m.nrof_allocated[s] + n
        BY <1>1, <1>2, <2>3
      <3>2. IsFiniteSet(ChunksOf(m, s)) /\ Cardinality(ChunksOf(m, s)) \in Nat
        BY ChunksAreFinite
      <3>3. Cardinality(ChunksOf(m, s) \cup BlockOf(b, n)) =
              Cardinality(ChunksOf(m, s)) + n - Cardinality(ChunksOf(m, s) \cap BlockOf(b, n))
        BY <1>16, <3>2, FS_Union
      <3>4. Cardinality(ChunksOf(m, s) \cap BlockOf(b, n)) = 0 BY <1>12, FS_EmptySet
      <3>5. Cardinality(ChunksOf(t, s)) = Cardinality(ChunksOf(m, s)) + n
        BY <1>3, <1>10, <3>2, <3>3, <3>4
      <3>6. m.nrof_allocated[s] = Cardinality(ChunksOf(m, s)) BY DEF CountInv
      <3> QED BY <1>15, <1>16, <2>3, <3>1, <3>5, <3>6
    <2> QED BY <2>2, <2>3
  <1>18. Exact(t, s)
    <2>1. t.freelist[s] = Row(b, n) BY <1>1, <1>2
    <2> QED BY <1>6, <1>15, <2>1 DEF Exact
  <1>19. ASSUME NEW z \in Slots, Exact(m, z) PROVE Exact(t, z)
    <2>1. CASE z # s
      <3>1. t.freelist[z] = m.freelist[z] BY <1>1, <1>2, <2>1
      <3> QED BY <1>13, <1>19, <2>1, <3>1 DEF Exact
    <2> QED BY <1>18, <2>1
  <1> QED BY <1>4, <1>8, <1>9, <1>10, <1>13, <1>17, <1>18, <1>19 DEF t, b, n

-----------------------------------------------------------------------------
(* mempool_expand() and mempool_get_chunk()                                 *)

LEMMA UserChunks ==
  ASSUME ExponentsFit, NEW m, MemInv(m)
  PROVE  /\ UserOf(m) = {c \in Chunk : /\ c \notin m.free
                                       /\ \E z \in Slots : z[1] = "user" /\ c \in ChunksOf(m, z)}
         /\ \A c \in UserOf(m) : c \in ChunksOf(m, m.owner[c[1]]) /\ m.owner[c[1]] \in Slots
  <1>1. ASSUME NEW c \in UserOf(m)
        PROVE  /\ m.owner[c[1]] \in Slots /\ m.owner[c[1]][1] = "user" /\ c \notin m.free
               /\ c \in Chunk /\ c \in ChunksOf(m, m.owner[c[1]])
    <2>1. /\ c \in Chunk /\ c[1] \in m.live /\ m.owner[c[1]][1] = "user"
          /\ c[2] < BlockSize(m.owner[c[1]]) /\ c \notin m.free
      BY DEF UserOf
    <2>2. m.owner[c[1]] \in Slots BY <2>1 DEF MemInv
    <2>3. BlockSize(m.owner[c[1]]) \in Nat BY <2>2, SizeFits
    <2>4. c \in Block \X (0..(BlockSize(m.owner[c[1]]) - 1)) BY <2>1, <2>3 DEF Chunk
    <2> QED BY <2>1, <2>2, <2>4 DEF ChunksOf
  <1>2. ASSUME NEW c \in Chunk, c \notin m.free,
               NEW z \in Slots, z[1] = "user", c \in ChunksOf(m, z)
        PROVE  c \in UserOf(m)
    <2>1. BlockSize(z) \in Nat BY SizeFits
    <2>2. c[1] \in m.live /\ m.owner[c[1]] = z /\ c[2] \in 0..(BlockSize(z) - 1)
      BY <1>2 DEF ChunksOf
    <2> QED BY <1>2, <2>1, <2>2 DEF UserOf
  <1> QED BY <1>1, <1>2

LEMMA TakeSettled ==
  ASSUME ExponentsFit, NEW m, NEW new, Settled(m, new), NEW s \in Slots, m.freelist[s] # <<>>
  PROVE  LET t == Take(m, s)
             c == Taken(m, s)
         IN  /\ Settled(t, new) /\ c \in ChunksOf(m, s) /\ c \in m.free
             /\ UserOf(t) = IF s[1] = "user" THEN UserOf(m) \cup {c} ELSE UserOf(m)
  <1> DEFINE t == Take(m, s)
             c == Taken(m, s)
  <1>0. MemInv(m) /\ CountInv(m) /\ Exact(m, s) /\ m \in Memory BY DEF Settled, MemInv
  <1>1. /\ t.owner = m.owner /\ t.live = m.live /\ t.puddlelist = m.puddlelist
        /\ t.free = m.free \ {c} /\ c \in Chunk
    BY <1>0, TakeFields
  <1>2. /\ MemInv(t) /\ CountInv(t) /\ c \in FreeOf(m, s)
        /\ \A z : ChunksOf(t, z) = ChunksOf(m, z)
        /\ \A z \in Slots : Exact(m, z) => Exact(t, z)
    BY <1>0, TakeBooks
  <1> HIDE DEF t, c
  <1>3. Settled(t, new) BY <1>1, <1>2 DEF Settled
  <1>4. c \in ChunksOf(m, s) /\ c \in m.free BY <1>2 DEF FreeOf
  <1>5. UserOf(t) = IF s[1] = "user" THEN UserOf(m) \cup {c} ELSE UserOf(m)
    <2>1. UserOf(t) = {x \in Chunk : /\ x \notin t.free
                                     /\ \E z \in Slots : z[1] = "user" /\ x \in ChunksOf(m, z)}
      BY <1>2, UserChunks
    <2>2. UserOf(m) = {x \in Chunk : /\ x \notin m.free
                                     /\ \E z \in Slots : z[1] = "user" /\ x \in ChunksOf(m, z)}
      BY <1>0, UserChunks
    <2>3. \A z \in Slots : c \in ChunksOf(m, z) => z = s BY <1>4, OneSlot
    <2>4. CASE s[1] = "user" BY <1>1, <1>4, <2>1, <2>2, <2>4
    <2>5. CASE s[1] # "user" BY <1>1, <1>4, <2>1, <2>2, <2>3, <2>5
    <2> QED BY <2>4, <2>5
  <1> QED BY <1>3, <1>4, <1>5 DEF t, c

LEMMA NewBlockSettled ==
  ASSUME ExponentsFit, NEW m, NEW new, Settled(m, new), NEW s \in Slots,
         s[1] = "puddles" => s = PuddleSlot, m.nrof_free[s] = 0, m.count < MaxBlocks
  PROVE  LET t == NewBlock(m, s)
             b == m.count + 1
         IN  Settled(t, new \cup {b}) /\ UserOf(t) = UserOf(m) /\ b \notin m.live
  <1> DEFINE t == NewBlock(m, s)
             b == m.count + 1
             n == BlockSize(s)
  <1>0. MemInv(m) /\ CountInv(m) /\ m \in Memory BY DEF Settled, MemInv
  <1>1. /\ t.owner = [m.owner EXCEPT ![b] = s]
        /\ t.live = m.live \cup {b} /\ t.puddlelist = m.puddlelist
        /\ t.free = m.free \cup BlockOf(b, n) /\ b \in Block
    BY <1>0, NewBlockFields
  <1>2. /\ MemInv(t) /\ CountInv(t) /\ b \notin m.live
        /\ \A z \in Slots : z # s => ChunksOf(t, z) = ChunksOf(m, z)
        /\ ChunksOf(t, s) = ChunksOf(m, s) \cup BlockOf(b, n)
        /\ Exact(t, s) /\ \A z \in Slots : Exact(m, z) => Exact(t, z)
    BY <1>0, NewBlockBooks
  <1>3. BlockSize(s) \in Nat BY SizeFits
  <1>4. \A c \in BlockOf(b, n) : c[1] = b BY <1>1, <1>3, RowIsExact
  <1>5. m.owner \in [Block -> Slots \cup {NoOwner}] BY <1>0 DEF Memory
  <1> HIDE DEF t, b
  <1>6. \A x \in m.live : t.owner[x] = m.owner[x]
    BY <1>1, <1>2, <1>5
  <1>7. \A z \in Slots : \A c \in ChunksOf(m, z) : c \notin BlockOf(b, n)
    BY <1>2, <1>4 DEF ChunksOf
  <1>8. ASSUME NEW z \in Slots, NEW p \in Range(t.puddlelist[z])
        PROVE  /\ p.block \in t.live \ (new \cup {b}) /\ t.owner[p.block] = z
               /\ p.at \in ChunksOf(t, PuddleSlot) /\ p.at \notin t.free
               /\ z = PuddleSlot => p.at[1] = p.block
               /\ \A y \in Slots : \A r \in Range(t.puddlelist[y]) : p.at = r.at => p = r
    <2>1. /\ p.block \in m.live \ new /\ m.owner[p.block] = z
          /\ p.at \in ChunksOf(m, PuddleSlot) /\ p.at \notin m.free
          /\ z = PuddleSlot => p.at[1] = p.block
          /\ \A y \in Slots : \A r \in Range(m.puddlelist[y]) : p.at = r.at => p = r
      BY <1>1 DEF Settled
    <2>2. p.at \in ChunksOf(t, PuddleSlot) BY <1>2, <2>1, SlotFacts
    <2>3. p.at \notin t.free BY <1>1, <1>7, <2>1, SlotFacts
    <2> QED BY <1>1, <1>2, <1>6, <2>1, <2>2, <2>3
  <1>9. ASSUME NEW x \in t.live \ (new \cup {b})
        PROVE  \E p \in Range(t.puddlelist[t.owner[x]]) : p.block = x
    BY <1>1, <1>6 DEF Settled
  <1>10. Settled(t, new \cup {b}) BY <1>1, <1>2, <1>8, <1>9 DEF Settled
  <1>11. UserOf(t) = UserOf(m)
    <2>1. UserOf(t) = {x \in Chunk : /\ x \notin t.free
                                     /\ \E z \in Slots : z[1] = "user" /\ x \in ChunksOf(t, z)}
      BY <1>2, UserChunks
    <2>2. UserOf(m) = {x \in Chunk : /\ x \notin m.free
                                     /\ \E z \in Slots : z[1] = "user" /\ x \in ChunksOf(m, z)}
      BY <1>0, UserChunks
    <2>3. ASSUME NEW x \in UserOf(t) PROVE x \in UserOf(m)
      <3>1. PICK z \in Slots : z[1] = "user" /\ x \in ChunksOf(t, z) BY <2>1
      <3>2. x \notin m.free /\ x \notin BlockOf(b, n) /\ x \in Chunk BY <1>1, <2>1
      <3>3. x \in ChunksOf(m, z) BY <1>2, <3>1, <3>2
      <3> QED BY <2>2, <3>1, <3>2, <3>3
    <2>4. ASSUME NEW x \in UserOf(m) PROVE x \in UserOf(t)
      <3>1. PICK z \in Slots : z[1] = "user" /\ x \in ChunksOf(m, z) BY <2>2
      <3>2. x \in ChunksOf(t, z) /\ x \notin t.free BY <1>1, <1>2, <1>7, <2>2, <3>1
      <3> QED BY <2>1, <2>2, <3>1, <3>2
    <2> QED BY <2>3, <2>4
  <1> QED BY <1>2, <1>10, <1>11 DEF t, b

Puddle(at, b) == [at |-> at, block |-> b]
LEMMA TrackFields ==
  ASSUME NEW m \in Memory, NEW s \in Slots, NEW at \in Chunk, NEW b \in Block,
         NEW t, t = Track(m, s, at, b)
  PROVE  /\ t \in Memory /\ t.owner = m.owner /\ t.live = m.live /\ t.count = m.count
         /\ t.free = m.free /\ t.freelist = m.freelist /\ t.nrof_free = m.nrof_free
         /\ t.nrof_allocated = m.nrof_allocated
         /\ t.puddlelist[s] = Put(Puddle(at, b), m.puddlelist[s])
         /\ \A z \in Slots : z # s => t.puddlelist[z] = m.puddlelist[z]
  <1> DEFINE d == Puddle(at, b)
             lists == [m.puddlelist EXCEPT ![s] = Put(d, m.puddlelist[s])]
  <1>1. m.puddlelist \in [Slots -> Seq(Descriptor)] BY DEF Memory
  <1>2. d \in Descriptor BY DEF Descriptor, Puddle
  <1>3. t = [m EXCEPT !.puddlelist = lists] BY DEF Track, Put, Puddle
  <1> HIDE DEF d
  <1>4. Put(d, m.puddlelist[s]) \in Seq(Descriptor) BY <1>1, <1>2, PutFirst
  <1>5. lists \in [Slots -> Seq(Descriptor)] BY <1>1, <1>4
  <1>8. lists[s] = Put(d, m.puddlelist[s]) /\ \A z \in Slots : z # s => lists[z] = m.puddlelist[z]
    BY <1>1
  <1> HIDE DEF lists
  <1>6. t \in Memory BY <1>3, <1>5 DEF Memory
  <1>7. /\ t.owner = m.owner /\ t.live = m.live /\ t.count = m.count
        /\ t.free = m.free /\ t.freelist = m.freelist /\ t.nrof_free = m.nrof_free
        /\ t.nrof_allocated = m.nrof_allocated /\ t.puddlelist = lists
    BY <1>3 DEF Memory
  <1> QED BY <1>6, <1>7, <1>8 DEF d

\* A block gets its descriptor.
LEMMA TrackSettled ==
  ASSUME ExponentsFit, NEW m, NEW new, Settled(m, new), NEW b \in m.live, b \in new,
         NEW at \in ChunksOf(m, PuddleSlot), at \notin m.free,
         \A z \in Slots : \A r \in Range(m.puddlelist[z]) : r.at # at,
         m.owner[b] = PuddleSlot => at[1] = b,
         NEW t, t = Track(m, m.owner[b], at, b),
         NEW old, \A x : x \in old <=> x \in new /\ x # b
  PROVE  Settled(t, old) /\ UserOf(t) = UserOf(m)
  <1> DEFINE s == m.owner[b]
             d == Puddle(at, b)
  <1>0. /\ MemInv(m) /\ CountInv(m) /\ m \in Memory /\ s \in Slots /\ at \in Chunk
        /\ b \in Block
    BY ChunksAreFinite, SlotFacts DEF Settled, MemInv, Memory
  <1>1. /\ t \in Memory /\ t.owner = m.owner /\ t.live = m.live /\ t.count = m.count
        /\ t.free = m.free /\ t.freelist = m.freelist /\ t.nrof_free = m.nrof_free
        /\ t.nrof_allocated = m.nrof_allocated
        /\ t.puddlelist[s] = Put(d, m.puddlelist[s])
        /\ \A z \in Slots : z # s => t.puddlelist[z] = m.puddlelist[z]
    BY <1>0, TrackFields
  <1>2. m.puddlelist \in [Slots -> Seq(Descriptor)] BY <1>0 DEF Memory
  <1>3. d \in Descriptor /\ d.at = at /\ d.block = b BY <1>0 DEF Descriptor, Puddle
  <1> HIDE DEF d, s
  <1>4. \A z \in Slots : \A r \in Range(m.puddlelist[z]) : r.block # b BY DEF Settled
  <1>5. /\ Range(t.puddlelist[s]) = Range(m.puddlelist[s]) \cup {d} /\ Apart(t.puddlelist[s])
    <2>1. t.puddlelist[s] = Put(d, m.puddlelist[s]) BY <1>1
    <2>2. m.puddlelist[s] \in Seq(Descriptor) /\ Apart(m.puddlelist[s])
      BY <1>0, <1>2 DEF Settled
    <2> DEFINE list == m.puddlelist[s]
    <2>3. \A p \in Range(list) : p.block # d.block BY <1>0, <1>3, <1>4
    <2> HIDE DEF list
    <2>4. list \in Seq(Descriptor) /\ Apart(list) BY <2>2 DEF list
    <2>5. /\ Range(Put(d, list)) = Range(list) \cup {d}
          /\ Apart(list) /\ (\A p \in Range(list) : p.block # d.block) => Apart(Put(d, list))
      <3>1. d \in Descriptor /\ list \in Seq(Descriptor) BY <1>3, <2>4
      <3>2. \A l \in Seq(Descriptor) : \A x \in Descriptor :
              /\ Range(Put(x, l)) = Range(l) \cup {x}
              /\ Apart(l) /\ (\A p \in Range(l) : p.block # x.block) => Apart(Put(x, l))
        BY PutFirst
      <3> QED BY <3>1, <3>2, Zenon
    <2>6. Apart(Put(d, list)) BY <2>3, <2>4, <2>5, Zenon
    <2> QED BY <2>1, <2>5, <2>6 DEF list
  <1>6. \A z \in Slots : z # s => t.puddlelist[z] = m.puddlelist[z] BY <1>1
  <1>7. \A z : ChunksOf(t, z) = ChunksOf(m, z) /\ FreeOf(t, z) = FreeOf(m, z)
    BY <1>1 DEF ChunksOf, FreeOf
  <1>8. MemInv(t) /\ CountInv(t) BY <1>0, <1>1, <1>7 DEF MemInv, CountInv
  <1>9. \A z \in Slots : Exact(t, z) /\ Apart(t.puddlelist[z])
    BY <1>1, <1>5, <1>6, <1>7 DEF Settled, Exact
  <1>10. \A z \in Slots : \A p \in Range(t.puddlelist[z]) :
           p \in Range(m.puddlelist[z]) \/ (z = s /\ p = d)
    BY <1>5, <1>6
  <1>11. ASSUME NEW z \in Slots, NEW p \in Range(t.puddlelist[z])
         PROVE  /\ p.block \in t.live \ old /\ t.owner[p.block] = z
                /\ p.at \in ChunksOf(t, PuddleSlot) /\ p.at \notin t.free
                /\ z = PuddleSlot => p.at[1] = p.block
                /\ \A y \in Slots : \A r \in Range(t.puddlelist[y]) : p.at = r.at => p = r
    <2>1. CASE p \in Range(m.puddlelist[z])
      BY <1>1, <1>3, <1>7, <1>10, <2>1 DEF Settled
    <2>2. CASE z = s /\ p = d
      BY <1>1, <1>3, <1>7, <1>10, <2>2 DEF s
    <2> QED BY <1>10, <2>1, <2>2
  <1>12. ASSUME NEW x \in t.live \ old
         PROVE  \E p \in Range(t.puddlelist[t.owner[x]]) : p.block = x
    <2>1. CASE x = b BY <1>1, <1>3, <1>5, <2>1 DEF s
    <2>2. CASE x # b
      <3>1. PICK p \in Range(m.puddlelist[m.owner[x]]) : p.block = x
        BY <1>1, <2>2 DEF Settled
      <3>2. m.owner[x] \in Slots BY <1>0, <1>1 DEF MemInv
      <3> QED BY <1>1, <1>5, <1>6, <3>1, <3>2
    <2> QED BY <2>1, <2>2
  <1>13. Settled(t, old) BY <1>8, <1>9, <1>11, <1>12 DEF Settled
  <1>14. UserOf(t) = UserOf(m) BY <1>1 DEF UserOf
  <1> QED BY <1>13, <1>14

\* A chunk that was free is the descriptor of no block.
LEMMA TakePuddle ==
  ASSUME ExponentsFit, NEW m, NEW new, Settled(m, new), NEW b \in m.live, b \in new,
         m.freelist[PuddleSlot] # <<>>,
         m.owner[b] = PuddleSlot => Taken(m, PuddleSlot)[1] = b,
         NEW t, t = Track(Take(m, PuddleSlot), m.owner[b], Taken(m, PuddleSlot), b),
         NEW old, \A x : x \in old <=> x \in new /\ x # b
  PROVE  /\ Settled(t, old) /\ UserOf(t) = UserOf(m)
         /\ t.owner = m.owner /\ t.live = m.live /\ t.count = m.count
         /\ t.freelist[PuddleSlot] = Tail(m.freelist[PuddleSlot])
         /\ \A z \in Slots : z # PuddleSlot => t.freelist[z] = m.freelist[z]
  <1> DEFINE k == Take(m, PuddleSlot)
             c == Taken(m, PuddleSlot)
  <1>t. t = Track(k, m.owner[b], c, b) OBVIOUS
  <1>0. PuddleSlot \in Slots /\ m \in Memory BY SlotFacts DEF Settled, MemInv
  <1>1. /\ k \in Memory /\ k.owner = m.owner /\ k.live = m.live /\ k.count = m.count
        /\ k.puddlelist = m.puddlelist /\ k.free = m.free \ {c} /\ c \in Chunk
        /\ k.freelist = [m.freelist EXCEPT ![PuddleSlot] = Tail(m.freelist[PuddleSlot])]
    BY <1>0, TakeFields
  <1>2. /\ Settled(k, new) /\ c \in ChunksOf(m, PuddleSlot) /\ c \in m.free
        /\ UserOf(k) = UserOf(m)
    <2>1. PuddleSlot[1] # "user" BY DEF PuddleSlot
    <2> QED BY <1>0, <2>1, TakeSettled
  <1> HIDE DEF k, c
  <1>3. c \in ChunksOf(k, PuddleSlot) /\ c \notin k.free BY <1>1, <1>2 DEF ChunksOf
  <1>4. \A z \in Slots : \A r \in Range(k.puddlelist[z]) : r.at # c BY <1>1, <1>2 DEF Settled
  <1>5. k.owner[b] = PuddleSlot => c[1] = b BY <1>1 DEF c
  <1>6. Settled(t, old) /\ UserOf(t) = UserOf(k)
    <2>1. t = Track(k, k.owner[b], c, b) BY <1>1, <1>t
    <2>2. b \in k.live /\ b \in new /\ Settled(k, new) BY <1>1, <1>2
    <2> QED BY <1>3, <1>4, <1>5, <2>1, <2>2, TrackSettled
  <1>7. m.owner[b] \in Slots /\ b \in Block BY DEF Settled, MemInv, Memory
  <1>8. /\ t.owner = k.owner /\ t.live = k.live /\ t.count = k.count
        /\ t.freelist = k.freelist
    <2> DEFINE o == m.owner[b]
    <2>1. k \in Memory /\ o \in Slots /\ c \in Chunk /\ b \in Block BY <1>1, <1>7
    <2>2. t = Track(k, o, c, b) BY <1>t
    <2> HIDE DEF o
    <2> QED BY <2>1, <2>2, TrackFields
  <1>9. m.freelist \in [Slots -> Seq(Chunk)] BY <1>0 DEF Memory
  <1>10. /\ t.freelist[PuddleSlot] = Tail(m.freelist[PuddleSlot])
         /\ \A z \in Slots : z # PuddleSlot => t.freelist[z] = m.freelist[z]
    BY <1>0, <1>1, <1>8, <1>9
  <1> QED BY <1>1, <1>2, <1>6, <1>8, <1>10 DEF k, c

\* pool_puddle has a chunk to give.
LEMMA FreePuddleReady ==
  ASSUME ExponentsFit, NEW m, NEW new, Settled(m, new), new \subseteq m.live,
         m.nrof_free[PuddleSlot] = 0 => m.count < MaxBlocks
  PROVE  LET t == WithFreePuddle(m)
         IN  /\ Settled(t, new) /\ UserOf(t) = UserOf(m) /\ t.freelist[PuddleSlot] # <<>>
             /\ \A b \in m.live : b \in t.live /\ t.owner[b] = m.owner[b]
             /\ \A s \in Slots : s # PuddleSlot => t.freelist[s] = m.freelist[s]
  <1>0. PuddleSlot \in Slots /\ m \in Memory /\ CountInv(m) /\ Exact(m, PuddleSlot)
    <2>1. MemInv(m) /\ CountInv(m) /\ \A s \in Slots : Exact(m, s) BY Zenon DEF Settled
    <2> QED BY <2>1, SlotFacts DEF MemInv
  <1>1. m.freelist[PuddleSlot] \in Seq(Chunk) /\ m.freelist \in [Slots -> Seq(Chunk)]
    BY <1>0 DEF Memory
  <1>2. m.nrof_free[PuddleSlot] = Len(m.freelist[PuddleSlot])
    <2>1. Range(m.freelist[PuddleSlot]) = FreeOf(m, PuddleSlot) /\ Once(m.freelist[PuddleSlot])
      BY <1>0 DEF Exact
    <2>2. m.nrof_free[PuddleSlot] = Cardinality(FreeOf(m, PuddleSlot)) BY <1>0 DEF CountInv
    <2>3. Cardinality(Range(m.freelist[PuddleSlot])) = Len(m.freelist[PuddleSlot])
      BY <1>1, <2>1, OnceCounts
    <2> QED BY <2>1, <2>2, <2>3
  <1>3. CASE m.nrof_free[PuddleSlot] > 0
    <2>1. WithFreePuddle(m) = m BY <1>3 DEF WithFreePuddle
    <2>2. m.freelist[PuddleSlot] # <<>> BY <1>1, <1>2, <1>3
    <2> QED BY <2>1, <2>2
  <1>4. CASE ~(m.nrof_free[PuddleSlot] > 0)
    <2>0. m.nrof_free[PuddleSlot] = 0 /\ m.count < MaxBlocks BY <1>1, <1>2, <1>4
    <2> DEFINE g == NewBlock(m, PuddleSlot)
               b == m.count + 1
               n == BlockSize(PuddleSlot)
               c == Taken(g, PuddleSlot)
               t == Track(Take(g, PuddleSlot), PuddleSlot, c, g.count)
    <2>1. WithFreePuddle(m) = t BY <1>4 DEF WithFreePuddle
    <2>2. /\ g \in Memory /\ g.owner = [m.owner EXCEPT ![b] = PuddleSlot] /\ g.count = b
          /\ b \in Block /\ g.live = m.live \cup {b}
          /\ g.freelist = [m.freelist EXCEPT ![PuddleSlot] = Row(b, n)]
      BY <1>0, <2>0, NewBlockFields
    <2>3. Settled(g, new \cup {b}) /\ UserOf(g) = UserOf(m) /\ b \notin m.live
      BY <1>0, <2>0, NewBlockSettled
    <2>4. n \in Nat \ {0, 1} BY <1>0, SizeFits, MempoolAssumption
    <2>5. /\ g.freelist[PuddleSlot] = Row(b, n) /\ Row(b, n) \in Seq(Chunk) /\ Len(Row(b, n)) = n
      BY <1>0, <1>1, <2>2, <2>4, RowIsExact
    <2> HIDE DEF g, b, n
    <2>6. g.freelist[PuddleSlot] # <<>> BY <2>4, <2>5
    <2>7. c = <<b, 0>>
      <3>1. c = Row(b, n)[1] BY <2>4, <2>5 DEF Taken
      <3>2. 1 \in 1..n BY <2>4
      <3> QED BY <3>1, <3>2 DEF Row
    <2>8. c[1] = b BY <2>7
    <2>9. m.owner \in [Block -> Slots \cup {NoOwner}] BY <1>0 DEF Memory
    <2>10. g.owner[b] = PuddleSlot BY <2>2, <2>9
    <2> HIDE DEF c
    <2>11. /\ Settled(t, new) /\ UserOf(t) = UserOf(g)
           /\ t.owner = g.owner /\ t.live = g.live
           /\ t.freelist[PuddleSlot] = Tail(g.freelist[PuddleSlot])
           /\ \A z \in Slots : z # PuddleSlot => t.freelist[z] = g.freelist[z]
      <3> DEFINE fresh == new \cup {b}
      <3>1. b \in g.live /\ b \in fresh /\ Taken(g, PuddleSlot)[1] = b BY <2>2, <2>8 DEF c
      <3>2. t = Track(Take(g, PuddleSlot), g.owner[b], Taken(g, PuddleSlot), b)
        BY <2>2, <2>10 DEF c
      <3>3. Settled(g, fresh) /\ \A x : x \in new <=> x \in fresh /\ x # b BY <2>2, <2>3
      <3> HIDE DEF t, fresh
      <3> QED BY <2>6, <3>1, <3>2, <3>3, TakePuddle, SMTT(30)
    <2> HIDE DEF t
    <2>13. t.freelist[PuddleSlot] # <<>>
      <3>1. t.freelist[PuddleSlot] = Tail(Row(b, n)) BY <2>5, <2>11
      <3>2. Len(Tail(Row(b, n))) = n - 1 BY <2>4, <2>5
      <3> QED BY <2>4, <3>1, <3>2, SMTT(30)
    <2>14. \A x \in m.live : x \in t.live /\ t.owner[x] = m.owner[x]
      BY <2>2, <2>3, <2>9, <2>11
    <2>15. \A s \in Slots : s # PuddleSlot => t.freelist[s] = m.freelist[s]
      BY <1>1, <2>2, <2>11
    <2> QED BY <2>1, <2>3, <2>11, <2>13, <2>14, <2>15
  <1> QED BY <1>3, <1>4

\* The pool of the user grows.
LEMMA ExpandSettled ==
  ASSUME ExponentsFit, NEW m, Settled(m, {}), NEW s \in Slots, s[1] = "user",
         m.nrof_free[s] = 0,
         m.count + (IF m.nrof_free[PuddleSlot] = 0 THEN 2 ELSE 1) <= MaxBlocks
  PROVE  LET t == mempool_expand(m, s)
         IN  Settled(t, {}) /\ UserOf(t) = UserOf(m) /\ t.freelist[s] # <<>>
  <1> DEFINE g == NewBlock(m, s)
             b == m.count + 1
             n == BlockSize(s)
             r == WithFreePuddle(g)
             t == Track(Take(r, PuddleSlot), s, Taken(r, PuddleSlot), g.count)
  <1>0. m \in Memory /\ m.count \in Nat /\ m.nrof_free \in [Slots -> Int] /\ s # PuddleSlot
        /\ m.freelist \in [Slots -> Seq(Chunk)] /\ m.owner \in [Block -> Slots \cup {NoOwner}]
        /\ m.count < MaxBlocks
    <2>1. m \in Memory BY DEF Settled, MemInv
    <2>2. m.count \in Nat /\ m.nrof_free \in [Slots -> Int]
          /\ m.freelist \in [Slots -> Seq(Chunk)] /\ m.owner \in [Block -> Slots \cup {NoOwner}]
      BY <2>1 DEF Memory
    <2>3. s # PuddleSlot BY DEF PuddleSlot
    <2>4. m.count < MaxBlocks
      <3>1. m.count + 1 <= MaxBlocks \/ m.count + 2 <= MaxBlocks OBVIOUS
      <3> QED BY <2>2, <3>1, MempoolAssumption
    <2> QED BY <2>1, <2>2, <2>3, <2>4
  <1>1. /\ g \in Memory /\ g.owner = [m.owner EXCEPT ![b] = s] /\ g.count = b
        /\ b \in Block /\ g.live = m.live \cup {b}
        /\ g.freelist = [m.freelist EXCEPT ![s] = Row(b, n)]
        /\ g.nrof_free = [m.nrof_free EXCEPT ![s] = n]
    BY <1>0, NewBlockFields, ZenonT(40)
  <1>2. Settled(g, {} \cup {b}) /\ UserOf(g) = UserOf(m) /\ b \notin m.live
    <2>1. s[1] # "puddles" OBVIOUS
    <2> QED BY <1>0, <2>1, NewBlockSettled
  <1>3. n \in Nat \ {0} BY SizeFits
  <1>4. g.nrof_free[PuddleSlot] = 0 => g.count < MaxBlocks
    BY <1>0, <1>1, SlotFacts, MempoolAssumption
  <1>5. g.freelist[s] = Row(b, n) /\ g.owner[b] = s /\ Row(b, n) # <<>>
    <2>1. Row(b, n) \in Seq(Chunk) /\ Len(Row(b, n)) = n BY <1>1, <1>3, RowIsExact
    <2>2. Row(b, n) # <<>> BY <1>3, <2>1
    <2> QED BY <1>0, <1>1, <2>2
  <1> HIDE DEF g, b, n
  <1>6. Settled(g, {b}) /\ {b} \subseteq g.live
    <2>1. {} \cup {b} = {b} OBVIOUS
    <2> QED BY <1>1, <1>2, <2>1
  <1>7. /\ Settled(r, {b}) /\ UserOf(r) = UserOf(g) /\ r.freelist[PuddleSlot] # <<>>
        /\ \A x \in g.live : x \in r.live /\ r.owner[x] = g.owner[x]
        /\ \A z \in Slots : z # PuddleSlot => r.freelist[z] = g.freelist[z]
    BY <1>4, <1>6, FreePuddleReady
  <1>8. b \in r.live /\ r.owner[b] = s /\ r.freelist[s] = Row(b, n) BY <1>0, <1>1, <1>5, <1>7
  <1> HIDE DEF r
  <1>9. /\ Settled(t, {}) /\ UserOf(t) = UserOf(r)
        /\ \A z \in Slots : z # PuddleSlot => t.freelist[z] = r.freelist[z]
    <2>1. t = Track(Take(r, PuddleSlot), r.owner[b], Taken(r, PuddleSlot), b) BY <1>1, <1>8
    <2> DEFINE fresh == {b}
               none == {}
    <2>2. Settled(r, fresh) /\ b \in fresh /\ \A x : x \in none <=> x \in fresh /\ x # b BY <1>7
    <2> HIDE DEF t, fresh, none
    <2>3. r.owner[b] # PuddleSlot BY <1>0, <1>8
    <2>4. /\ Settled(t, none) /\ UserOf(t) = UserOf(r)
          /\ \A z \in Slots : z # PuddleSlot => t.freelist[z] = r.freelist[z]
      BY <1>7, <1>8, <2>1, <2>2, <2>3, TakePuddle
    <2> QED BY <2>4 DEF none
  <1> HIDE DEF t
  <1>12. t.freelist[s] # <<>> BY <1>0, <1>5, <1>8, <1>9
  <1>13. mempool_expand(m, s) = t BY DEF mempool_expand, t, r, g
  <1> QED BY <1>2, <1>7, <1>9, <1>12, <1>13

-----------------------------------------------------------------------------
(* The functions that are not a pass                                        *)

\* Between two functions the books are those of a settled pool.
LEMMA AtRest ==
  ASSUME NEW m, NEW q, q.phase = "none"
  PROVE  Books(m, q) <=> Settled(m, {})
  <1>1. \A s : Listed(m, q, s) = Range(m.puddlelist[s]) BY DEF Listed
  <1>2. ListInv(m, q) <=> \A s \in Slots : Exact(m, s) BY DEF ListInv
  <1>3. OnceInv(m, q) <=> \A s \in Slots : Apart(m.puddlelist[s]) BY DEF OnceInv
  <1>4. TrackInv(m, q) <=>
          \A b \in m.live : \E p \in Range(m.puddlelist[m.owner[b]]) : p.block = b
    BY <1>1 DEF TrackInv
  <1>5. DescInv(m, q) <=>
          \A s \in Slots : \A p \in Range(m.puddlelist[s]) :
            /\ Describes(m, s, p)
            /\ \A z \in Slots : \A r \in Range(m.puddlelist[z]) : p.at = r.at => p = r
    BY <1>1 DEF DescInv
  <1>6. m.live \ {} = m.live OBVIOUS
  <1> QED BY <1>2, <1>3, <1>4, <1>5, <1>6 DEF Books, Settled, Describes

\* The counter of a freelist is its length.
LEMMA ListLength ==
  ASSUME NEW m \in Memory, CountInv(m), NEW s \in Slots, Exact(m, s)
  PROVE  /\ m.freelist[s] \in Seq(Chunk) /\ m.nrof_free[s] = Len(m.freelist[s])
         /\ m.nrof_free[s] # 0 => m.freelist[s] # <<>>
  <1>1. m.freelist[s] \in Seq(Chunk) BY DEF Memory
  <1>2. Range(m.freelist[s]) = FreeOf(m, s) /\ Once(m.freelist[s]) BY DEF Exact
  <1>3. m.nrof_free[s] = Cardinality(FreeOf(m, s)) BY DEF CountInv
  <1>4. Cardinality(Range(m.freelist[s])) = Len(m.freelist[s]) BY <1>1, <1>2, OnceCounts
  <1> QED BY <1>1, <1>2, <1>3, <1>4

\* A chunk of the user comes back.
LEMMA GiveSettled ==
  ASSUME ExponentsFit, NEW m, Settled(m, {}), NEW s \in Slots, s[1] = "user",
         NEW c \in ChunksOf(m, s), c \notin m.free, NEW t, t = Give(m, s, c)
  PROVE  Settled(t, {}) /\ UserOf(t) = UserOf(m) \ {c}
  <1>0. MemInv(m) /\ CountInv(m) /\ Exact(m, s) /\ m \in Memory /\ c \in Chunk
    BY ChunksAreFinite DEF Settled, MemInv
  <1>1. /\ t.owner = m.owner /\ t.live = m.live /\ t.puddlelist = m.puddlelist
        /\ t.free = m.free \cup {c}
    BY <1>0, GiveFields
  <1>2. /\ MemInv(t) /\ CountInv(t) /\ \A z : ChunksOf(t, z) = ChunksOf(m, z)
        /\ \A z \in Slots : Exact(m, z) => Exact(t, z)
    BY <1>0, GiveBooks
  <1>3. c \notin ChunksOf(m, PuddleSlot)
    <2>1. s # PuddleSlot BY DEF PuddleSlot
    <2> QED BY <2>1, OneSlot
  <1>4. Settled(t, {}) BY <1>1, <1>2, <1>3 DEF Settled
  <1>5. UserOf(t) = UserOf(m) \ {c} BY <1>1 DEF UserOf
  <1> QED BY <1>4, <1>5

\* A chunk is taken from the freelist, or from a block that is allocated for it.
LEMMA GetStep ==
  ASSUME ExponentsFit, PoolInv, NEW slot \in Slots, mempool_get_chunk(slot)
  PROVE  PoolInv'
  <1> DEFINE m == IF mem.nrof_free[slot] = 0 THEN mempool_expand(mem, slot) ELSE mem
             c == Taken(m, slot)
  <1>0. /\ pass.phase = "none" /\ deiniting = "no" /\ slot[1] = "user"
        /\ mem.nrof_free[slot] = 0 =>
             mem.count + (IF mem.nrof_free[PuddleSlot] = 0 THEN 2 ELSE 1) <= MaxBlocks
        /\ mem' = Take(m, slot) /\ used' = used \cup {c}
        /\ deiniting' = deiniting /\ pass' = pass
    BY DEF mempool_get_chunk, Returned
  <1>1. Settled(mem, {}) /\ used = UserOf(mem) /\ PassInv BY <1>0, AtRest DEF PoolInv
  <1>2. mem \in Memory /\ CountInv(mem) /\ Exact(mem, slot) BY <1>1 DEF Settled, MemInv
  <1>3. Settled(m, {}) /\ UserOf(m) = UserOf(mem) /\ m.freelist[slot] # <<>>
    <2>1. CASE mem.nrof_free[slot] = 0
      <3>1. m = mempool_expand(mem, slot) BY <2>1
      <3> HIDE DEF m
      <3> QED BY <1>0, <1>1, <2>1, <3>1, ExpandSettled
    <2>2. CASE mem.nrof_free[slot] # 0
      <3>1. m = mem BY <2>2
      <3> HIDE DEF m
      <3> QED BY <1>1, <1>2, <2>2, <3>1, ListLength
    <2> QED BY <2>1, <2>2
  <1> HIDE DEF m
  <1>4. Settled(mem', {}) /\ UserOf(mem') = UserOf(m) \cup {c}
    BY <1>0, <1>3, TakeSettled
  <1>5. Books(mem', pass') BY <1>0, <1>4, AtRest
  <1>6. used' = UserOf(mem') BY <1>0, <1>1, <1>3, <1>4
  <1>7. LeakInv' BY <1>0 DEF LeakInv, Sifted
  <1>8. PassInv' BY <1>0, <1>1 DEF PassInv
  <1> QED BY <1>0, <1>5, <1>6, <1>7, <1>8 DEF PoolInv, UserOf

\* A used chunk is in a block of the user, and returns to its freelist.
LEMMA ReturnStep ==
  ASSUME ExponentsFit, PoolInv, NEW c \in used, mempool_return_chunk(c)
  PROVE  PoolInv'
  <1> DEFINE s == mem.owner[c[1]]
  <1>0. /\ pass.phase = "none" /\ deiniting = "no" /\ c \notin mem.free
        /\ mem' = Give(mem, s, c) /\ used' = used \ {c}
        /\ deiniting' = deiniting /\ pass' = pass
    BY DEF mempool_return_chunk, Returned
  <1>1. Settled(mem, {}) /\ used = UserOf(mem) /\ PassInv BY <1>0, AtRest DEF PoolInv
  <1>2. s \in Slots /\ s[1] = "user" /\ c \in ChunksOf(mem, s)
    <2>1. MemInv(mem) BY <1>1 DEF Settled
    <2>2. s[1] = "user" BY <1>1 DEF UserOf
    <2> QED BY <1>1, <2>1, <2>2, UserChunks
  <1> HIDE DEF s
  <1>3. Settled(mem', {}) /\ UserOf(mem') = UserOf(mem) \ {c}
    BY <1>0, <1>1, <1>2, GiveSettled
  <1>4. Books(mem', pass') BY <1>0, <1>3, AtRest
  <1>5. used' = UserOf(mem') BY <1>0, <1>1, <1>3
  <1>6. LeakInv' BY <1>0 DEF LeakInv, Sifted
  <1>7. PassInv' BY <1>0, <1>1 DEF PassInv
  <1> QED BY <1>0, <1>4, <1>5, <1>6, <1>7 DEF PoolInv

-----------------------------------------------------------------------------
(* A pass: from one freelist to the next                                    *)

\* A freelist whose puddles have all been linked is right again.
LEMMA Rested ==
  ASSUME NEW m, NEW q \in Pass, Books(m, q),
         q.phase = "none" \/ (q.phase = "link" /\ q.todo = <<>>)
  PROVE  Settled(m, {})
  <1>1. CASE q.phase = "none" BY <1>1, AtRest
  <1>2. CASE q.phase = "link" /\ q.todo = <<>>
    <2> DEFINE r == [q EXCEPT !.phase = "none"]
    <2>1. r.phase = "none" /\ q.phase = "link" BY <1>2 DEF Pass
    <2>2. \A s : Listed(m, q, s) = Listed(m, r, s) BY <2>1 DEF Listed
    <2> HIDE DEF r
    <2>3. DescInv(m, r) /\ TrackInv(m, r) BY <2>2 DEF Books, DescInv, TrackInv
    <2>4. OnceInv(m, r) BY <2>1 DEF Books, OnceInv
    <2>5. ListInv(m, r)
      <3>1. SUFFICES ASSUME NEW s \in Slots PROVE Exact(m, s) BY <2>1 DEF ListInv
      <3>2. CASE s # q.slot BY <2>1, <3>2 DEF Books, ListInv
      <3>3. CASE s = q.slot
        <4>1. Linked(m, q) BY <2>1, <3>3 DEF Books, ListInv
        <4>2. Range(q.todo) = {} BY <1>2 DEF Range
        <4> QED BY <3>3, <4>1, <4>2 DEF Linked, Exact
      <3> QED BY <3>2, <3>3
    <2>6. Books(m, r) BY <2>3, <2>4, <2>5 DEF Books
    <2> QED BY <2>1, <2>6, AtRest
  <1> QED BY <1>1, <1>2

\* The puddles of a freelist are taken off their list.
LEMMA Begins ==
  ASSUME NEW m, Settled(m, {}), NEW s \in Slots, NEW exps \in SUBSET Exps,
         NEW t, t = [m EXCEPT !.puddlelist[s] = <<>>],
         NEW q, q = [phase |-> "sift", slot |-> s, left |-> exps, todo |-> m.puddlelist[s]]
  PROVE  /\ Books(t, q) /\ UserOf(t) = UserOf(m) /\ t.live = m.live /\ t.owner = m.owner
         /\ q \in Pass /\ q.phase = "sift" /\ q.slot = s /\ q.left = exps
         /\ q.todo = m.puddlelist[s]
  <1>0. MemInv(m) /\ CountInv(m) /\ m \in Memory BY DEF Settled, MemInv
  <1>1. m.puddlelist \in [Slots -> Seq(Descriptor)] BY <1>0 DEF Memory
  <1> DEFINE lists == [m.puddlelist EXCEPT ![s] = <<>>]
  <1>2. t = [m EXCEPT !.puddlelist = lists] OBVIOUS
  <1>3. lists \in [Slots -> Seq(Descriptor)] BY <1>1
  <1>4. lists[s] = <<>> /\ \A z \in Slots : z # s => lists[z] = m.puddlelist[z] BY <1>1
  <1> HIDE DEF lists
  <1>5. t \in Memory BY <1>0, <1>2, <1>3 DEF Memory
  <1>6. /\ t.owner = m.owner /\ t.live = m.live /\ t.count = m.count
        /\ t.free = m.free /\ t.freelist = m.freelist /\ t.nrof_free = m.nrof_free
        /\ t.nrof_allocated = m.nrof_allocated /\ t.puddlelist = lists
    BY <1>0, <1>2 DEF Memory
  <1>7. /\ q.phase = "sift" /\ q.slot = s /\ q.left = exps /\ q.todo = m.puddlelist[s]
    OBVIOUS
  <1>8. q \in Pass BY <1>1 DEF Pass
  <1>9. \A z : ChunksOf(t, z) = ChunksOf(m, z) /\ FreeOf(t, z) = FreeOf(m, z)
    BY <1>6 DEF ChunksOf, FreeOf
  <1>10. Range(lists[s]) = {} BY <1>4 DEF Range
  <1>11. \A z \in Slots : Listed(t, q, z) = Range(m.puddlelist[z])
    BY <1>4, <1>6, <1>7, <1>10 DEF Listed
  <1>12. MemInv(t) /\ CountInv(t) BY <1>0, <1>5, <1>6, <1>9 DEF MemInv, CountInv
  <1>13. ListInv(t, q) BY <1>6, <1>7, <1>9 DEF ListInv, Settled, Exact
  <1>14. DescInv(t, q)
    <2>1. \A z \in Slots : \A p \in Range(m.puddlelist[z]) :
            /\ Describes(m, z, p)
            /\ \A y \in Slots : \A r \in Range(m.puddlelist[y]) : p.at = r.at => p = r
      BY DEF Settled, Describes
    <2>2. \A z, p : Describes(m, z, p) => Describes(t, z, p) BY <1>6, <1>9 DEF Describes
    <2> QED BY <1>11, <2>1, <2>2 DEF DescInv
  <1>15. TrackInv(t, q)
    <2>1. \A b \in m.live : m.owner[b] \in Slots BY <1>0 DEF MemInv
    <2>2. \A b \in m.live : \E p \in Range(m.puddlelist[m.owner[b]]) : p.block = b BY DEF Settled
    <2> QED BY <1>6, <1>11, <2>1, <2>2 DEF TrackInv
  <1>16. OnceInv(t, q)
    <2>1. \A z \in Slots : Apart(m.puddlelist[z]) BY DEF Settled
    <2>2. Apart(lists[s]) BY <1>4 DEF Apart
    <2> QED BY <1>4, <1>6, <1>7, <1>10, <2>1, <2>2 DEF OnceInv
  <1>17. UserOf(t) = UserOf(m) BY <1>6 DEF UserOf
  <1> QED BY <1>6, <1>7, <1>8, <1>12, <1>13, <1>14, <1>15, <1>16, <1>17 DEF Books

\* A pass comes to a freelist: of its blocks none has been sifted, and the others have
\* been sifted if they had been.
LEMMA VisitBooks ==
  ASSUME ExponentsFit, pass \in Pass, Books(mem, pass), LeakInv,
         pass.phase = "none" \/ (pass.phase = "link" /\ pass.todo = <<>>),
         NEW pool \in Pool, NEW exps \in SUBSET Exps, VisitNext(pool, exps),
         deiniting \in {"no", "user"}, deiniting' = deiniting, used' = used,
         used = UserOf(mem),
         deiniting = "user" => pool = "user",
         deiniting = "user" /\ pass.phase = "none" => exps = Exps,
         deiniting = "user" /\ pass.phase = "link" => exps = pass.left
  PROVE  PoolInv'
  <1>1. Settled(mem, {}) BY Rested
  <1>2. PICK e \in exps :
          /\ mem' = [mem EXCEPT !.puddlelist[<<pool, e>>] = <<>>]
          /\ pass' = [phase |-> "sift", slot |-> <<pool, e>>, left |-> exps \ {e},
                      todo |-> mem.puddlelist[<<pool, e>>]]
    BY DEF VisitNext
  <1> DEFINE s == <<pool, e>>
             rest == exps \ {e}
  <1>3. s \in Slots /\ rest \in SUBSET Exps BY DEF Slots
  <1>4. /\ mem' = [mem EXCEPT !.puddlelist[s] = <<>>]
        /\ pass' = [phase |-> "sift", slot |-> s, left |-> rest, todo |-> mem.puddlelist[s]]
    BY <1>2
  <1>5. s[1] = pool /\ s[2] = e /\ e \notin rest /\ rest \cup {e} = exps OBVIOUS
  <1> HIDE DEF s, rest
  <1>6. /\ Books(mem', pass') /\ UserOf(mem') = UserOf(mem) /\ mem'.live = mem.live
        /\ mem'.owner = mem.owner
        /\ pass' \in Pass /\ pass'.phase = "sift" /\ pass'.slot = s /\ pass'.left = rest
        /\ pass'.todo = mem.puddlelist[s]
    BY <1>1, <1>3, <1>4, Begins
  <1>7. PassInv' BY <1>5, <1>6 DEF PassInv
  <1>8. ASSUME NEW b \in mem.live, mem.owner[b][1] = "user", Sifted(b)'
        PROVE  \E c \in used : c[1] = b
    <2>1. /\ deiniting = "user" /\ mem.owner[b][2] \notin rest
          /\ mem.owner[b] = s => \A p \in Range(mem.puddlelist[s]) : p.block # b
      BY <1>6, <1>8 DEF Sifted
    <2>2. mem.owner[b] \in Slots BY <1>1 DEF Settled, MemInv
    <2>3. \E p \in Range(mem.puddlelist[mem.owner[b]]) : p.block = b BY <1>1 DEF Settled
    <2>4. mem.owner[b] # s BY <2>1, <2>3
    <2>5. mem.owner[b][2] # e /\ mem.owner[b][2] \in Exps
      BY <1>8, <2>1, <2>2, <2>4 DEF Slots, s
    <2>6. mem.owner[b][2] \notin exps BY <1>5, <2>1, <2>5
    <2>7. pass.phase = "link" /\ exps = pass.left BY <2>1, <2>5, <2>6
    <2>8. Sifted(b) BY <2>1, <2>6, <2>7 DEF Sifted
    <2> QED BY <1>8, <2>8 DEF LeakInv
  <1>9. LeakInv' BY <1>6, <1>8 DEF LeakInv
  <1> QED BY <1>6, <1>7, <1>9 DEF PoolInv

\* A freelist is done: the pass comes to the next one or ends.
LEMMA SlotDoneStep ==
  ASSUME ExponentsFit, PoolInv, SlotDone
  PROVE  PoolInv'
  <1>0. /\ pass.phase = "link" /\ pass.todo = <<>> /\ used' = used /\ PassInv
    BY DEF SlotDone, PoolInv
  <1>1. /\ pass \in Pass /\ pass.slot \in Slots /\ pass.left \in SUBSET Exps
        /\ deiniting \in {"no", "user"} /\ (deiniting = "user" => pass.slot[1] = "user")
    BY <1>0 DEF PassInv, Pass
  <1>2. Books(mem, pass) /\ used = UserOf(mem) /\ LeakInv BY <1>1 DEF PoolInv
  <1>3. CASE pass.left # {} /\ VisitNext(pass.slot[1], pass.left) /\ UNCHANGED deiniting
    <2>1. pass.slot[1] \in Pool BY <1>1 DEF Slots
    <2> QED BY <1>0, <1>1, <1>2, <1>3, <2>1, VisitBooks
  <1>4. CASE /\ pass.left = {} /\ pass' = [pass EXCEPT !.phase = "none"] /\ UNCHANGED mem
             /\ deiniting' = IF deiniting = "user" THEN "puddles" ELSE deiniting
    <2>1. Settled(mem, {}) BY <1>0, <1>1, <1>2, Rested
    <2>2. pass' \in Pass /\ pass'.phase = "none" BY <1>1, <1>4 DEF Pass
    <2>3. Books(mem', pass') BY <1>4, <2>1, <2>2, AtRest
    <2>4. used' = UserOf(mem') BY <1>0, <1>2, <1>4
    <2>5. deiniting' \in {"no", "puddles"} /\ (deiniting' = "puddles" => deiniting = "user")
      BY <1>1, <1>4
    <2>6. PassInv' BY <2>2, <2>5 DEF PassInv
    <2>7. LeakInv'
      <3>1. SUFFICES ASSUME NEW b \in mem.live, mem.owner[b][1] = "user", Sifted(b)'
            PROVE  \E c \in used : c[1] = b
        BY <1>0, <1>4 DEF LeakInv
      <3>2. deiniting = "user" BY <2>2, <2>5, <3>1 DEF Sifted
      <3>3. Sifted(b) BY <1>0, <1>4, <3>2 DEF Sifted
      <3> QED BY <1>2, <3>1, <3>3 DEF LeakInv
    <2> QED BY <2>3, <2>4, <2>5, <2>6, <2>7 DEF PoolInv
  <1> QED BY <1>3, <1>4 DEF SlotDone

LEMMA ReclaimStep ==
  ASSUME ExponentsFit, PoolInv, NEW pool \in Pool, mempool_reclaim(pool)
  PROVE  PoolInv'
  <1>1. /\ deiniting = "no" /\ pass.phase = "none" /\ VisitNext(pool, Exps)
        /\ used' = used /\ deiniting' = deiniting
    BY DEF mempool_reclaim, mempool_free_puddles, Returned
  <1>2. pass \in Pass /\ Books(mem, pass) /\ used = UserOf(mem) /\ LeakInv
    BY <1>1 DEF PoolInv, PassInv
  <1>3. Exps \in SUBSET Exps OBVIOUS
  <1> QED BY <1>1, <1>2, <1>3, VisitBooks

LEMMA UserPoolStep ==
  ASSUME ExponentsFit, PoolInv, FreeUserPool
  PROVE  PoolInv'
  <1>1. /\ deiniting = "user" /\ pass.phase = "none" /\ VisitNext("user", Exps)
        /\ used' = used /\ deiniting' = deiniting
    BY DEF FreeUserPool, mempool_free_puddles, Returned
  <1>2. pass \in Pass /\ Books(mem, pass) /\ used = UserOf(mem) /\ LeakInv
    BY <1>1 DEF PoolInv, PassInv
  <1>3. Exps \in SUBSET Exps /\ "user" \in Pool BY DEF Pool
  <1> QED BY <1>1, <1>2, <1>3, VisitBooks

LEMMA BeginStep ==
  ASSUME PoolInv, BeginDeinit
  PROVE  PoolInv'
  <1>1. /\ pass.phase = "none" /\ deiniting = "no" /\ deiniting' = "user"
        /\ mem' = mem /\ used' = used /\ pass' = pass
    BY DEF BeginDeinit, Returned
  <1>2. PassInv' BY <1>1 DEF PoolInv, PassInv
  <1>3. LeakInv' BY <1>1 DEF LeakInv, Sifted
  <1>4. Books(mem', pass') /\ used' = UserOf(mem') BY <1>1 DEF PoolInv
  <1> QED BY <1>1, <1>2, <1>3, <1>4 DEF PoolInv

\* What is left after deinitialisation are the blocks of the user's chunks.
LEMMA PuddlePoolStep ==
  ASSUME ExponentsFit, PoolInv, FreePuddlePool
  PROVE  PoolInv'
  <1> DEFINE blocks == {p.block : p \in Range(mem.puddlelist[PuddleSlot])}
  <1>0. /\ deiniting = "puddles" /\ deiniting' = "done" /\ used' = used /\ pass' = pass
        /\ mem' = [mem EXCEPT !.live = @ \ blocks, !.puddlelist[PuddleSlot] = <<>>]
    BY DEF FreePuddlePool
  <1>1. PassInv /\ pass.phase = "none" BY <1>0 DEF PoolInv, PassInv
  <1>2. Settled(mem, {}) /\ used = UserOf(mem) /\ LeakInv BY <1>0, <1>1, AtRest DEF PoolInv
  <1>3. mem \in Memory /\ MemInv(mem) BY <1>2 DEF Settled, MemInv
  <1>4. mem'.live = mem.live \ blocks /\ mem'.free = mem.free BY <1>0, <1>3 DEF Memory
  <1>5. \A b \in blocks : mem.owner[b] = PuddleSlot
    <2>1. \A p \in Range(mem.puddlelist[PuddleSlot]) : mem.owner[p.block] = PuddleSlot
      BY <1>2, SlotFacts DEF Settled
    <2> QED BY <2>1
  <1>6. \A b \in mem.live : mem.owner[b] = PuddleSlot => b \in blocks BY <1>2 DEF Settled
  <1> HIDE DEF blocks
  <1>7. \A b \in mem.live : b \notin blocks <=> mem.owner[b][1] = "user"
    <2>1. \A b \in mem.live : mem.owner[b][1] \in {"user", "puddles"}
      BY <1>3 DEF MemInv, Slots, Pool
    <2>2. \A b \in mem.live : mem.owner[b][1] = "puddles" => mem.owner[b] = PuddleSlot
      BY <1>3 DEF MemInv
    <2>3. PuddleSlot[1] = "puddles" BY DEF PuddleSlot
    <2> QED BY <1>5, <1>6, <2>1, <2>2, <2>3
  <1>8. \A c \in used : c[1] \in mem.live /\ mem.owner[c[1]][1] = "user" /\ c \notin mem.free
    BY <1>2 DEF UserOf
  <1>9. UsedStaysAllocated' BY <1>0, <1>4, <1>7, <1>8 DEF UsedStaysAllocated
  <1>10. \A b \in mem'.live : \E c \in used : c[1] = b
    BY <1>0, <1>2, <1>4, <1>7 DEF LeakInv, Sifted
  <1>11. OnlyLeaksStay' BY <1>0, <1>4, <1>7, <1>8, <1>10 DEF OnlyLeaksStay
  <1>12. PassInv' BY <1>0, <1>1 DEF PassInv
  <1> QED BY <1>0, <1>9, <1>11, <1>12 DEF PoolInv

-----------------------------------------------------------------------------
(* A pass: the puddles of a freelist                                        *)

\* The free chunks of a puddle are those of its freelist in its block.
LEMMA FreeInBlock ==
  ASSUME ExponentsFit, NEW m, MemInv(m), NEW s \in Slots, NEW p, p.block \in m.live,
         m.owner[p.block] = s
  PROVE  /\ FreeIn(m, s, p) = {c \in FreeOf(m, s) : c[1] = p.block}
         /\ BlockOf(p.block, BlockSize(s)) = {c \in ChunksOf(m, s) : c[1] = p.block}
         /\ BlockOf(p.block, BlockSize(s)) = Chunks(m, p.block)
         /\ FreeIn(m, s, p) = BlockOf(p.block, BlockSize(s)) \cap m.free
  <1> DEFINE b == p.block
             n == BlockSize(s)
  <1>0. b \in Block BY DEF MemInv, Memory
  <1>1. nrof_arrays(s) = n BY SizeFits
  <1>2. BlockOf(b, n) = {c \in ChunksOf(m, s) : c[1] = b} BY <1>0 DEF BlockOf, ChunksOf
  <1>3. BlockOf(b, n) = Chunks(m, b) BY DEF BlockOf, Chunks
  <1>4. FreeIn(m, s, p) = BlockOf(b, n) \cap m.free BY <1>1 DEF FreeIn, BlockOf
  <1>5. FreeIn(m, s, p) = {c \in FreeOf(m, s) : c[1] = b} BY <1>2, <1>4 DEF FreeOf
  <1> QED BY <1>2, <1>3, <1>4, <1>5

\* A puddle is counted as free if and only if all of its chunks are.
LEMMA AllFreeIsAll ==
  ASSUME ExponentsFit, NEW m, MemInv(m), NEW s \in Slots, NEW p, p.block \in m.live,
         m.owner[p.block] = s
  PROVE  AllFree(m, s, p) <=> BlockOf(p.block, BlockSize(s)) \subseteq m.free
  <1> DEFINE B == BlockOf(p.block, BlockSize(s))
             F == FreeIn(m, s, p)
             n == BlockSize(s)
  <1>1. F = B \cap m.free BY FreeInBlock
  <1>2. nrof_arrays(s) = n /\ n \in Nat BY SizeFits
  <1>3. IsFiniteSet(B) /\ Cardinality(B) = n BY <1>2, BlockCounts DEF BlockOf
  <1>4. AllFree(m, s, p) <=> Cardinality(F) = n BY <1>2 DEF AllFree
  <1> HIDE DEF F, B, n
  <1>5. F \in SUBSET B BY <1>1
  <1>6. Cardinality(F) = n => F = B BY <1>3, <1>5, FS_Subset
  <1>7. F = B => Cardinality(F) = n BY <1>3
  <1>8. F = B <=> B \subseteq m.free BY <1>1
  <1> QED BY <1>4, <1>6, <1>7, <1>8 DEF B

\* What a step of the pass does to a puddle that is kept, and to the pass.
Kept(m, s, p) == [m EXCEPT !.puddlelist[s] = <<p>> \o @]
WithoutFirst(q) == [q EXCEPT !.todo = Tail(@)]

\* What a sift has in front of it.
LEMMA SiftFacts ==
  ASSUME NEW m, NEW q \in Pass, Books(m, q), q.phase = "sift", q.todo # <<>>,
         NEW p, p = Head(q.todo), NEW r, r = WithoutFirst(q)
  PROVE  /\ m \in Memory /\ MemInv(m) /\ q.slot \in Slots /\ p \in Descriptor
         /\ p \in Listed(m, q, q.slot) /\ p \in Range(q.todo)
         /\ Describes(m, q.slot, p)
         /\ r \in Pass /\ r.phase = "sift" /\ r.slot = q.slot /\ r.left = q.left
         /\ r.todo = Tail(q.todo) /\ Apart(r.todo)
         /\ Range(q.todo) = Range(r.todo) \cup {p}
         /\ \A x \in Range(r.todo) : x.block # p.block
         /\ \A x \in Range(m.puddlelist[q.slot]) : x.block # p.block
  <1>1. m \in Memory /\ MemInv(m) /\ DescInv(m, q) /\ OnceInv(m, q) BY DEF Books, MemInv
  <1>2. q.slot \in Slots /\ q.todo \in Seq(Descriptor) BY DEF Pass
  <1>3. Apart(q.todo) /\ \A x \in Range(q.todo), y \in Range(m.puddlelist[q.slot]) : x.block # y.block
    BY <1>1 DEF OnceInv
  <1>4. /\ p \in Descriptor /\ p \in Range(q.todo) /\ Tail(q.todo) \in Seq(Descriptor)
        /\ Range(q.todo) = Range(Tail(q.todo)) \cup {p}
        /\ Apart(Tail(q.todo)) /\ \A x \in Range(Tail(q.todo)) : x.block # p.block
    BY <1>2, <1>3, TailOf
  <1>5. /\ r.phase = "sift" /\ r.slot = q.slot /\ r.left = q.left /\ r.todo = Tail(q.todo)
    BY DEF Pass, WithoutFirst
  <1>6. r \in Pass BY <1>4 DEF Pass, WithoutFirst
  <1>7. p \in Listed(m, q, q.slot) BY <1>4 DEF Listed
  <1>8. Describes(m, q.slot, p) BY <1>1, <1>2, <1>7 DEF DescInv
  <1> QED BY <1>1, <1>2, <1>3, <1>4, <1>5, <1>6, <1>7, <1>8

\* The descriptors are those that there were.
LEMMA SameDescriptors ==
  ASSUME NEW m, NEW q, MemInv(m), DescInv(m, q), TrackInv(m, q),
         NEW t, NEW r, t.owner = m.owner, t.live = m.live, t.free = m.free,
         \A z \in Slots : Listed(t, r, z) = Listed(m, q, z)
  PROVE  DescInv(t, r) /\ TrackInv(t, r)
  <1>1. ChunksOf(t, PuddleSlot) = ChunksOf(m, PuddleSlot) BY DEF ChunksOf
  <1>2. \A z, x : Describes(m, z, x) => Describes(t, z, x) BY <1>1 DEF Describes
  <1>3. DescInv(t, r) BY <1>2 DEF DescInv
  <1>4. \A b \in m.live : m.owner[b] \in Slots BY DEF MemInv
  <1>5. TrackInv(t, r) BY <1>4 DEF TrackInv
  <1> QED BY <1>3, <1>5

\* A puddle returns to its list.
LEMMA KeepBooks ==
  ASSUME NEW m, NEW q \in Pass, Books(m, q), q.phase = "sift", q.todo # <<>>,
         NEW p, p = Head(q.todo), NEW r, r = WithoutFirst(q),
         NEW t, t = Kept(m, q.slot, p)
  PROVE  Books(t, r) /\ UserOf(t) = UserOf(m) /\ t.live = m.live /\ t.owner = m.owner
  <1> DEFINE s == q.slot
             list == Put(p, m.puddlelist[s])
             lists == [m.puddlelist EXCEPT ![s] = list]
  <1>1. /\ m \in Memory /\ MemInv(m) /\ s \in Slots /\ p \in Descriptor
        /\ r \in Pass /\ r.phase = "sift" /\ r.slot = s
        /\ Apart(r.todo) /\ Range(q.todo) = Range(r.todo) \cup {p}
        /\ \A x \in Range(r.todo) : x.block # p.block
        /\ \A x \in Range(m.puddlelist[s]) : x.block # p.block
    BY SiftFacts
  <1>2. m.puddlelist \in [Slots -> Seq(Descriptor)] /\ m.puddlelist[s] \in Seq(Descriptor)
    BY <1>1 DEF Memory
  <1>3. Apart(m.puddlelist[s]) BY <1>1 DEF Books, OnceInv
  <1>4. list \in Seq(Descriptor) /\ Range(list) = Range(m.puddlelist[s]) \cup {p} /\ Apart(list)
    <2>1. \A l \in Seq(Descriptor) : \A x \in Descriptor :
            /\ Put(x, l) \in Seq(Descriptor) /\ Range(Put(x, l)) = Range(l) \cup {x}
            /\ Apart(l) /\ (\A y \in Range(l) : y.block # x.block) => Apart(Put(x, l))
      BY PutFirst
    <2> DEFINE l == m.puddlelist[s]
    <2>2. l \in Seq(Descriptor) /\ Apart(l) /\ p \in Descriptor
          /\ \A x \in Range(l) : x.block # p.block
      BY <1>1, <1>2, <1>3
    <2> HIDE DEF l
    <2> QED BY <2>1, <2>2, Zenon DEF l
  <1>5. t = [m EXCEPT !.puddlelist = lists] BY DEF Put, Kept
  <1>6. lists[s] = list /\ \A z \in Slots : z # s => lists[z] = m.puddlelist[z]
    BY <1>1, <1>2
  <1>7. lists \in [Slots -> Seq(Descriptor)] BY <1>2, <1>4
  <1> HIDE DEF lists, list, s
  <1>8. t \in Memory BY <1>1, <1>5, <1>7 DEF Memory
  <1>9. /\ t.owner = m.owner /\ t.live = m.live /\ t.count = m.count
        /\ t.free = m.free /\ t.freelist = m.freelist /\ t.nrof_free = m.nrof_free
        /\ t.nrof_allocated = m.nrof_allocated /\ t.puddlelist = lists
    BY <1>1, <1>5 DEF Memory
  <1>10. \A z : ChunksOf(t, z) = ChunksOf(m, z) /\ FreeOf(t, z) = FreeOf(m, z)
    BY <1>9 DEF ChunksOf, FreeOf
  <1>11. \A z \in Slots : Listed(t, r, z) = Listed(m, q, z)
    BY <1>1, <1>4, <1>6, <1>9 DEF Listed, s
  <1>12. MemInv(t) /\ CountInv(t) BY <1>1, <1>8, <1>9, <1>10 DEF Books, MemInv, CountInv
  <1>13. ListInv(t, r)
    BY <1>1, <1>9, <1>10 DEF Books, ListInv, Exact, s
  <1>14. DescInv(t, r) /\ TrackInv(t, r)
    <2>1. MemInv(m) /\ DescInv(m, q) /\ TrackInv(m, q) BY DEF Books
    <2> QED BY <1>9, <1>11, <2>1, SameDescriptors
  <1>16. OnceInv(t, r)
    <2>1. \A z \in Slots : Apart(lists[z]) BY <1>4, <1>6 DEF Books, OnceInv
    <2>2. \A x \in Range(r.todo), y \in Range(m.puddlelist[s]) : x.block # y.block
      BY <1>1 DEF Books, OnceInv, s
    <2>3. \A x \in Range(r.todo), y \in Range(lists[s]) : x.block # y.block
      BY <1>1, <1>4, <1>6, <2>2
    <2> QED BY <1>1, <1>9, <2>1, <2>3 DEF OnceInv
  <1>17. UserOf(t) = UserOf(m) BY <1>9 DEF UserOf
  <1> QED BY <1>9, <1>12, <1>13, <1>14, <1>16, <1>17 DEF Books

LEMMA RemoveSubset ==
  ASSUME NEW S, NEW T, IsFiniteSet(S), T \subseteq S
  PROVE  Cardinality(S \ T) = Cardinality(S) - Cardinality(T)
  <1>1. S \cap T = T OBVIOUS
  <1>2. Cardinality(S \ T) = Cardinality(S) - Cardinality(S \cap T) BY FS_Difference
  <1> QED BY <1>1, <1>2

LEMMA FreePuddleFields ==
  ASSUME NEW m \in Memory, NEW s \in Slots, s # PuddleSlot, NEW p \in Descriptor,
         NEW g, g = Give(m, PuddleSlot, p.at), NEW t, t = FreePuddle(m, s, p),
         nrof_arrays(s) \in Nat
  PROVE  /\ t \in Memory /\ t.owner = m.owner /\ t.count = m.count
         /\ t.puddlelist = m.puddlelist /\ t.live = m.live \ {p.block}
         /\ t.free = (m.free \cup {p.at}) \ Chunks(m, p.block)
         /\ t.freelist = g.freelist
         /\ t.nrof_free[s] = m.nrof_free[s] - nrof_arrays(s)
         /\ t.nrof_allocated[s] = m.nrof_allocated[s] - nrof_arrays(s)
         /\ \A z \in Slots : z # s => /\ t.nrof_free[z] = g.nrof_free[z]
                                      /\ t.nrof_allocated[z] = m.nrof_allocated[z]
  <1> DEFINE n == nrof_arrays(s)
  <1>0. PuddleSlot \in Slots /\ p.at \in Chunk BY SlotFacts DEF Descriptor
  <1>1. /\ g \in Memory /\ g.owner = m.owner /\ g.live = m.live /\ g.count = m.count
        /\ g.puddlelist = m.puddlelist /\ g.nrof_allocated = m.nrof_allocated
        /\ g.free = m.free \cup {p.at}
        /\ \A z \in Slots : z # PuddleSlot => g.nrof_free[z] = m.nrof_free[z]
    BY <1>0, GiveFields
  <1> DEFINE live == g.live \ {p.block}
             free == g.free \ Chunks(m, p.block)
             counts == [g.nrof_free EXCEPT ![s] = g.nrof_free[s] - n]
             totals == [g.nrof_allocated EXCEPT ![s] = g.nrof_allocated[s] - n]
  <1>2. t = [g EXCEPT !.live = live, !.free = free, !.nrof_free = counts,
                      !.nrof_allocated = totals]
    BY DEF FreePuddle
  <1>3. /\ g.nrof_free \in [Slots -> Int] /\ g.nrof_allocated \in [Slots -> Int]
        /\ g.live \in SUBSET Block /\ g.free \in SUBSET Chunk
    BY <1>1 DEF Memory
  <1>4. /\ live \in SUBSET Block /\ free \in SUBSET Chunk /\ counts \in [Slots -> Int]
        /\ totals \in [Slots -> Int]
    BY <1>3
  <1>5. /\ counts[s] = g.nrof_free[s] - n /\ totals[s] = g.nrof_allocated[s] - n
        /\ \A z \in Slots : z # s => counts[z] = g.nrof_free[z] /\ totals[z] = g.nrof_allocated[z]
    BY <1>3
  <1>6. g.nrof_free[s] = m.nrof_free[s] BY <1>1
  <1> HIDE DEF live, free, counts, totals, n
  <1>7. t \in Memory BY <1>1, <1>2, <1>4 DEF Memory
  <1>8. /\ t.owner = g.owner /\ t.count = g.count /\ t.puddlelist = g.puddlelist
        /\ t.live = live /\ t.free = free /\ t.freelist = g.freelist
        /\ t.nrof_free = counts /\ t.nrof_allocated = totals
    BY <1>1, <1>2 DEF Memory
  <1>9. live = m.live \ {p.block} /\ free = (m.free \cup {p.at}) \ Chunks(m, p.block)
    BY <1>1 DEF live, free
  <1> QED BY <1>1, <1>5, <1>6, <1>7, <1>8, <1>9 DEF n

\* A puddle whose chunks are all free goes, and its descriptor is free.
LEMMA FreeBooks ==
  ASSUME ExponentsFit, NEW m, NEW q \in Pass, Books(m, q), q.phase = "sift", q.todo # <<>>,
         NEW p, p = Head(q.todo), NEW r, r = WithoutFirst(q), AllFree(m, q.slot, p),
         NEW t, t = FreePuddle(m, q.slot, p)
  PROVE  /\ Books(t, r) /\ UserOf(t) = UserOf(m) /\ t.live = m.live \ {p.block}
         /\ t.owner = m.owner
  <1> DEFINE s == q.slot
             b == p.block
             n == BlockSize(s)
             B == BlockOf(b, n)
             g == Give(m, PuddleSlot, p.at)
  <1>1. /\ m \in Memory /\ MemInv(m) /\ s \in Slots /\ p \in Descriptor
        /\ p \in Listed(m, q, s) /\ Describes(m, s, p)
        /\ r \in Pass /\ r.phase = "sift" /\ r.slot = s
        /\ Apart(r.todo) /\ Range(q.todo) = Range(r.todo) \cup {p}
        /\ \A x \in Range(r.todo) : x.block # b
        /\ \A x \in Range(m.puddlelist[s]) : x.block # b
    BY SiftFacts
  <1>2. /\ b \in m.live /\ m.owner[b] = s /\ p.at \in ChunksOf(m, PuddleSlot)
        /\ p.at \notin m.free /\ (s = PuddleSlot => p.at[1] = b)
    BY <1>1 DEF Describes
  <1>3. B \subseteq m.free BY <1>1, <1>2, AllFreeIsAll
  <1>4. /\ B = {c \in ChunksOf(m, s) : c[1] = b} /\ B = Chunks(m, b)
    BY <1>1, <1>2, FreeInBlock
  <1>5. n \in Nat /\ nrof_arrays(s) = n BY <1>1, SizeFits
  <1>6. IsFiniteSet(B) /\ Cardinality(B) = n BY <1>5, BlockCounts DEF BlockOf
  <1> HIDE DEF B, n, b, s
  <1>7. s # PuddleSlot BY <1>2, <1>3, <1>4
  <1>8. PuddleSlot \in Slots /\ CountInv(m) /\ Exact(m, PuddleSlot)
    BY <1>1, <1>7, SlotFacts DEF Books, ListInv, s
  <1>9. /\ MemInv(g) /\ CountInv(g) /\ \A z : ChunksOf(g, z) = ChunksOf(m, z)
        /\ \A z \in Slots : z # PuddleSlot => FreeOf(g, z) = FreeOf(m, z)
        /\ \A z \in Slots : Exact(m, z) => Exact(g, z)
    BY <1>1, <1>2, <1>8, GiveBooks
  <1>10. /\ g.nrof_allocated = m.nrof_allocated /\ g.free = m.free \cup {p.at}
    <2>1. p.at \in Chunk BY <1>1 DEF Descriptor
    <2> QED BY <1>1, <1>8, <2>1, GiveFields
  <1>11. /\ t \in Memory /\ t.owner = m.owner /\ t.count = m.count
         /\ t.puddlelist = m.puddlelist /\ t.live = m.live \ {b}
         /\ t.free = (m.free \cup {p.at}) \ B
         /\ t.freelist = g.freelist
         /\ t.nrof_free[s] = m.nrof_free[s] - n
         /\ t.nrof_allocated[s] = m.nrof_allocated[s] - n
         /\ \A z \in Slots : z # s => /\ t.nrof_free[z] = g.nrof_free[z]
                                      /\ t.nrof_allocated[z] = m.nrof_allocated[z]
    BY <1>1, <1>4, <1>5, <1>7, FreePuddleFields DEF s, b
  <1> HIDE DEF g
  <1>12. ChunksOf(t, s) = ChunksOf(m, s) \ B BY <1>4, <1>11 DEF ChunksOf
  <1>13. \A z \in Slots : z # s => ChunksOf(t, z) = ChunksOf(m, z)
    BY <1>2, <1>11 DEF ChunksOf
  <1>14. \A z \in Slots : z # s => \A c \in ChunksOf(m, z) : c \notin B
    BY <1>4, OneSlot
  <1>15. \A z \in Slots : z # s => FreeOf(t, z) = FreeOf(g, z)
    BY <1>9, <1>10, <1>11, <1>13, <1>14 DEF FreeOf
  <1>16. p.at \notin ChunksOf(m, s) BY <1>2, <1>7, OneSlot
  <1>17. FreeOf(t, s) = FreeOf(m, s) \ B BY <1>11, <1>12, <1>16 DEF FreeOf
  <1>18. B \subseteq FreeOf(m, s) /\ B \subseteq ChunksOf(m, s) BY <1>3, <1>4 DEF FreeOf
  <1>19. MemInv(t) BY <1>1, <1>11 DEF MemInv
  <1>20. CountInv(t)
    <2>1. SUFFICES ASSUME NEW z \in Slots
          PROVE  /\ t.nrof_free[z] = Cardinality(FreeOf(t, z))
                 /\ t.nrof_allocated[z] = Cardinality(ChunksOf(t, z))
      BY DEF CountInv
    <2>2. CASE z # s
      <3>1. t.nrof_free[z] = Cardinality(FreeOf(t, z)) BY <1>9, <1>11, <1>15, <2>2 DEF CountInv
      <3>2. t.nrof_allocated[z] = Cardinality(ChunksOf(t, z))
        BY <1>8, <1>11, <1>13, <2>2 DEF CountInv
      <3> QED BY <3>1, <3>2
    <2>3. CASE z = s
      <3>1. IsFiniteSet(FreeOf(m, s)) /\ IsFiniteSet(ChunksOf(m, s)) BY <1>1, ChunksAreFinite
      <3>3. Cardinality(FreeOf(m, s) \ B) = Cardinality(FreeOf(m, s)) - n
        BY <1>6, <1>18, <3>1, RemoveSubset
      <3>4. Cardinality(ChunksOf(m, s) \ B) = Cardinality(ChunksOf(m, s)) - n
        BY <1>6, <1>18, <3>1, RemoveSubset
      <3>5. /\ m.nrof_free[s] = Cardinality(FreeOf(m, s))
            /\ m.nrof_allocated[s] = Cardinality(ChunksOf(m, s))
        BY <1>1, <1>8 DEF CountInv
      <3> QED BY <1>11, <1>12, <1>17, <2>3, <3>3, <3>4, <3>5
    <2> QED BY <2>2, <2>3
  <1>21. ListInv(t, r)
    <2>1. \A z \in Slots : z # s => Exact(m, z) BY DEF Books, ListInv, s
    <2>2. \A z \in Slots : z # s => Exact(t, z) BY <1>9, <1>11, <1>15, <2>1 DEF Exact
    <2> QED BY <1>1, <2>2 DEF ListInv
  <1>22. \A z \in Slots : Listed(m, q, z) = Listed(t, r, z) \cup (IF z = s THEN {p} ELSE {})
    BY <1>1, <1>11 DEF Listed, s
  <1>23. \A z \in Slots : \A x \in Listed(t, r, z) : x \in Listed(m, q, z) /\ x.block # b
    <2>1. SUFFICES ASSUME NEW z \in Slots, NEW x \in Listed(t, r, z)
          PROVE  x \in Listed(m, q, z) /\ x.block # b
      OBVIOUS
    <2>2. x \in Listed(m, q, z) BY <1>22, <2>1
    <2>3. m.owner[x.block] = z BY <2>2 DEF Books, DescInv, Describes
    <2>4. CASE z # s BY <1>2, <2>2, <2>3, <2>4
    <2>5. CASE z = s BY <1>1, <1>11, <2>2, <2>5 DEF Listed
    <2> QED BY <2>4, <2>5
  <1>24. DescInv(t, r)
    <2>1. SUFFICES ASSUME NEW z \in Slots, NEW x \in Listed(t, r, z)
          PROVE  /\ Describes(t, z, x)
                 /\ \A y \in Slots : \A w \in Listed(t, r, y) : x.at = w.at => x = w
      BY DEF DescInv
    <2>2. x \in Listed(m, q, z) /\ x.block # b BY <1>23
    <2>3. /\ Describes(m, z, x)
          /\ \A y \in Slots : \A w \in Listed(m, q, y) : x.at = w.at => x = w
      BY <2>2 DEF Books, DescInv
    <2>4. x.at # p.at
      <3>1. x.at = p.at => x = p BY <1>1, <2>3
      <3> QED BY <2>2, <3>1 DEF b
    <2>5. x.at \in ChunksOf(t, PuddleSlot) BY <1>7, <1>8, <1>13, <2>3 DEF Describes
    <2>6. x.at \notin t.free BY <1>11, <2>3, <2>4 DEF Describes
    <2>7. Describes(t, z, x) BY <1>11, <2>2, <2>3, <2>5, <2>6 DEF Describes
    <2> QED BY <1>23, <2>3, <2>7
  <1>25. TrackInv(t, r)
    <2>1. SUFFICES ASSUME NEW x \in m.live, x # b
          PROVE  \E d \in Listed(t, r, m.owner[x]) : d.block = x
      BY <1>11 DEF TrackInv
    <2>2. m.owner[x] \in Slots BY <1>1 DEF MemInv
    <2>3. PICK d \in Listed(m, q, m.owner[x]) : d.block = x BY DEF Books, TrackInv
    <2>4. d # p BY <2>1, <2>3 DEF b
    <2> QED BY <1>22, <2>2, <2>3, <2>4
  <1>26. OnceInv(t, r)
    <2>1. /\ \A z \in Slots : Apart(m.puddlelist[z])
          /\ \A x \in Range(q.todo), y \in Range(m.puddlelist[s]) : x.block # y.block
      BY DEF Books, OnceInv, s
    <2> QED BY <1>1, <1>11, <2>1 DEF OnceInv
  <1>27. UserOf(t) = UserOf(m)
    <2>1. ASSUME NEW c \in UserOf(t) PROVE c \in UserOf(m)
      <3>1. /\ c \in Chunk /\ c[1] \in m.live \ {b} /\ m.owner[c[1]][1] = "user"
            /\ c[2] < BlockSize(m.owner[c[1]]) /\ c \notin t.free
        BY <1>11 DEF UserOf
      <3>2. c \notin B BY <1>4, <3>1
      <3>3. c \notin m.free BY <1>11, <3>1, <3>2
      <3> QED BY <3>1, <3>3 DEF UserOf
    <2>2. ASSUME NEW c \in UserOf(m) PROVE c \in UserOf(t)
      <3>1. /\ c \in Chunk /\ c[1] \in m.live /\ m.owner[c[1]][1] = "user"
            /\ c[2] < BlockSize(m.owner[c[1]]) /\ c \notin m.free
            /\ c \in ChunksOf(m, m.owner[c[1]]) /\ m.owner[c[1]] \in Slots
        BY <1>1, UserChunks DEF UserOf
      <3>2. c[1] # b
        <4>1. c[1] = b => c \in B BY <1>2, <1>4, <3>1
        <4> QED BY <1>3, <3>1, <4>1
      <3>3. c # p.at
        <4>1. m.owner[c[1]] # PuddleSlot BY <3>1 DEF PuddleSlot
        <4> QED BY <1>2, <3>1, <4>1, OneSlot
      <3> QED BY <1>11, <3>1, <3>2, <3>3 DEF UserOf
    <2> QED BY <2>1, <2>2
  <1> QED BY <1>11, <1>19, <1>20, <1>21, <1>24, <1>25, <1>26, <1>27 DEF Books, b

\* A block that is kept has a used chunk.
LEMMA SiftStep ==
  ASSUME ExponentsFit, PoolInv, SiftPuddle
  PROVE  PoolInv'
  <1> DEFINE p == Head(pass.todo)
             s == pass.slot
  <1>0. /\ pass.phase = "sift" /\ pass.todo # <<>> /\ pass' = WithoutFirst(pass)
        /\ mem' = IF AllFree(mem, s, p) THEN FreePuddle(mem, s, p) ELSE Kept(mem, s, p)
        /\ used' = used /\ deiniting' = deiniting
    BY DEF SiftPuddle, Kept, WithoutFirst
  <1>1. PassInv /\ pass \in Pass /\ deiniting \in {"no", "user"}
    BY <1>0 DEF PoolInv, PassInv
  <1>2. Books(mem, pass) /\ used = UserOf(mem) /\ LeakInv BY <1>1 DEF PoolInv
  <1>3. /\ mem \in Memory /\ MemInv(mem) /\ s \in Slots /\ p \in Descriptor
        /\ p \in Range(pass.todo) /\ Describes(mem, s, p)
        /\ pass' \in Pass /\ pass'.phase = "sift" /\ pass'.slot = s /\ pass'.left = pass.left
        /\ Range(pass.todo) = Range(pass'.todo) \cup {p}
    BY <1>0, <1>1, <1>2, SiftFacts
  <1>4. p.block \in mem.live /\ mem.owner[p.block] = s BY <1>3 DEF Describes
  <1> HIDE DEF p, s
  <1>5. PassInv'
    BY <1>0, <1>1, <1>3 DEF PassInv, s
  <1>6. \A b \in mem.live : b # p.block /\ Sifted(b)' /\ mem'.owner = mem.owner => Sifted(b)
    BY <1>0, <1>3 DEF Sifted, s
  <1>7. CASE AllFree(mem, s, p)
    <2>1. /\ Books(mem', pass') /\ UserOf(mem') = UserOf(mem)
          /\ mem'.live = mem.live \ {p.block} /\ mem'.owner = mem.owner
      <3>1. mem' = FreePuddle(mem, s, p) BY <1>0, <1>7
      <3> QED BY <1>0, <1>1, <1>2, <1>7, <3>1, FreeBooks DEF p, s
    <2>2. LeakInv' BY <1>0, <1>2, <1>6, <2>1 DEF LeakInv
    <2> QED BY <1>0, <1>1, <1>2, <1>5, <2>1, <2>2 DEF PoolInv
  <1>8. CASE ~AllFree(mem, s, p)
    <2>1. /\ Books(mem', pass') /\ UserOf(mem') = UserOf(mem)
          /\ mem'.live = mem.live /\ mem'.owner = mem.owner
      <3>1. mem' = Kept(mem, s, p) BY <1>0, <1>8
      <3> QED BY <1>0, <1>1, <1>2, <3>1, KeepBooks DEF p, s
    <2>2. ASSUME s[1] = "user" PROVE \E c \in used : c[1] = p.block
      <3>1. PICK c \in BlockOf(p.block, BlockSize(s)) : c \notin mem.free
        BY <1>3, <1>4, <1>8, AllFreeIsAll
      <3>2. c \in ChunksOf(mem, s) /\ c[1] = p.block BY <1>3, <1>4, <3>1, FreeInBlock
      <3>3. c \in Chunk BY <1>3, <3>2, ChunksAreFinite
      <3>4. c \in UserOf(mem) BY <1>3, <2>2, <3>1, <3>2, <3>3, UserChunks
      <3> QED BY <1>2, <3>2, <3>4
    <2>3. LeakInv' BY <1>0, <1>2, <1>4, <1>6, <2>1, <2>2 DEF LeakInv
    <2> QED BY <1>0, <1>1, <1>2, <1>5, <2>1, <2>3 DEF PoolInv
  <1> QED BY <1>7, <1>8

\* The puddles of a freelist in another order.
LEMMA Permuted ==
  ASSUME NEW list \in Seq(Descriptor), Apart(list),
         NEW order \in Bijection(1..Len(list), 1..Len(list)),
         NEW new, new = [i \in 1..Len(list) |-> list[order[i]]]
  PROVE  new \in Seq(Descriptor) /\ Range(new) = Range(list) /\ Apart(new)
  <1> DEFINE n == Len(list)
  <1>1. n \in Nat /\ DOMAIN list = 1..n /\ \A i \in 1..n : list[i] \in Descriptor OBVIOUS
  <1>2. /\ \A i \in 1..n : order[i] \in 1..n
        /\ \A i, j \in 1..n : order[i] = order[j] => i = j
        /\ \A j \in 1..n : \E i \in 1..n : order[i] = j
    BY DEF Bijection, Injection, Surjection, IsInjective
  <1>3. new \in [1..n -> Descriptor] BY <1>1, <1>2
  <1>4. new \in Seq(Descriptor) /\ Len(new) = n /\ DOMAIN new = 1..n BY <1>1, <1>3
  <1>5. \A i \in 1..n : new[i] = list[order[i]] OBVIOUS
  <1> HIDE DEF n
  <1>6. Range(new) = Range(list)
    <2>1. \A i \in 1..n : new[i] \in Range(list) BY <1>1, <1>2, <1>5 DEF Range
    <2>2. \A j \in 1..n : list[j] \in Range(new)
      <3>1. \A j \in 1..n : \E i \in 1..n : new[i] = list[j] BY <1>2, <1>5
      <3> QED BY <1>4, <3>1 DEF Range
    <2> QED BY <1>1, <1>4, <2>1, <2>2, SMTT(30) DEF Range
  <1>7. Apart(new)
    <2>1. SUFFICES ASSUME NEW i \in 1..n, NEW j \in 1..n, new[i].block = new[j].block
          PROVE  i = j
      BY <1>4 DEF Apart
    <2>2. list[order[i]].block = list[order[j]].block BY <1>5, <2>1
    <2>3. \A a, b \in 1..n : list[a].block = list[b].block => a = b BY DEF Apart, n
    <2>4. order[i] = order[j] BY <1>2, <2>2, <2>3
    <2> QED BY <1>2, <2>4
  <1> QED BY <1>4, <1>6, <1>7

Resorted(m, s, list) == [m EXCEPT !.puddlelist[s] = list, !.freelist[s] = <<>>]
ToLink(q, list) == [q EXCEPT !.phase = "link", !.todo = list]

\* The puddles are sorted: none of them is linked.
LEMMA SortBooks ==
  ASSUME NEW m, NEW q \in Pass, Books(m, q), q.phase = "sift", q.todo = <<>>,
         NEW list \in Seq(Descriptor), Range(list) = Range(m.puddlelist[q.slot]), Apart(list),
         NEW t, t = Resorted(m, q.slot, list), NEW r, r = ToLink(q, list)
  PROVE  /\ Books(t, r) /\ UserOf(t) = UserOf(m) /\ t.live = m.live /\ t.owner = m.owner
         /\ r \in Pass /\ r.phase = "link" /\ r.slot = q.slot /\ r.left = q.left
  <1> DEFINE s == q.slot
             old == m.puddlelist[s]
             lists == [m.puddlelist EXCEPT ![s] = list]
             frees == [m.freelist EXCEPT ![s] = <<>>]
  <1>1. m \in Memory /\ MemInv(m) /\ CountInv(m) /\ s \in Slots BY DEF Books, MemInv, Pass
  <1>2. /\ m.puddlelist \in [Slots -> Seq(Descriptor)] /\ old \in Seq(Descriptor)
        /\ m.freelist \in [Slots -> Seq(Chunk)]
    BY <1>1 DEF Memory
  <1>3. \A z \in Slots : Apart(m.puddlelist[z]) BY DEF Books, OnceInv
  <1>4. list \in Seq(Descriptor) /\ Range(list) = Range(old) /\ Apart(list) OBVIOUS
  <1>5. t = [m EXCEPT !.puddlelist = lists, !.freelist = frees] BY DEF Resorted
  <1>6. /\ lists[s] = list /\ frees[s] = <<>>
        /\ \A z \in Slots : z # s => lists[z] = m.puddlelist[z] /\ frees[z] = m.freelist[z]
    BY <1>1, <1>2
  <1>7. lists \in [Slots -> Seq(Descriptor)] /\ frees \in [Slots -> Seq(Chunk)]
    <2>1. lists \in [Slots -> Seq(Descriptor)] BY <1>2, <1>4
    <2> DEFINE none == <<>>
    <2>2. none \in Seq(Chunk) /\ frees = [m.freelist EXCEPT ![s] = none] OBVIOUS
    <2> HIDE DEF none, frees
    <2>3. frees \in [Slots -> Seq(Chunk)] BY <1>2, <2>2
    <2> QED BY <2>1, <2>3
  <1>8. r \in Pass /\ r.phase = "link" /\ r.slot = s /\ r.left = q.left /\ r.todo = list
    BY <1>4 DEF Pass, ToLink
  <1> HIDE DEF lists, frees, old, s
  <1>9. t \in Memory BY <1>1, <1>5, <1>7 DEF Memory
  <1>10. /\ t.owner = m.owner /\ t.live = m.live /\ t.count = m.count
         /\ t.free = m.free /\ t.freelist = frees /\ t.nrof_free = m.nrof_free
         /\ t.nrof_allocated = m.nrof_allocated /\ t.puddlelist = lists
    BY <1>1, <1>5 DEF Memory
  <1>11. \A z : ChunksOf(t, z) = ChunksOf(m, z) /\ FreeOf(t, z) = FreeOf(m, z)
    BY <1>10 DEF ChunksOf, FreeOf
  <1>12. Range(q.todo) = {} BY DEF Range
  <1>13. \A z \in Slots : Listed(t, r, z) = Listed(m, q, z)
    <2>1. \A z : Listed(m, q, z) = Range(m.puddlelist[z]) BY <1>12 DEF Listed
    <2>2. \A z : Listed(t, r, z) = Range(lists[z]) BY <1>8, <1>10 DEF Listed
    <2> QED BY <1>4, <1>6, <2>1, <2>2 DEF old
  <1>14. MemInv(t) /\ CountInv(t) BY <1>1, <1>9, <1>10, <1>11 DEF MemInv, CountInv
  <1>15. DescInv(t, r) /\ TrackInv(t, r)
    <2>1. DescInv(m, q) /\ TrackInv(m, q) BY DEF Books
    <2> QED BY <1>1, <1>10, <1>13, <2>1, SameDescriptors
  <1>16. OnceInv(t, r)
    <2>1. \A z \in Slots : Apart(lists[z]) BY <1>3, <1>4, <1>6
    <2> QED BY <1>4, <1>6, <1>8, <1>10, <2>1 DEF OnceInv
  <1>17. ListInv(t, r)
    <2>1. \A z \in Slots : z # s => Exact(t, z)
      BY <1>6, <1>10, <1>11 DEF Books, ListInv, Exact, s
    <2>2. Linked(t, r)
      <3>1. Range(<<>>) = {} /\ Once(<<>>) BY DEF Range, Once
      <3>2. ASSUME NEW c \in FreeOf(t, s) PROVE \E p \in Range(r.todo) : p.block = c[1]
        <4>1. c[1] \in m.live /\ m.owner[c[1]] = s BY <1>10 DEF FreeOf, ChunksOf
        <4>2. \E p \in Listed(m, q, s) : p.block = c[1] BY <4>1 DEF Books, TrackInv
        <4>3. Listed(m, q, s) = Range(old) BY <1>12 DEF Listed, old
        <4> QED BY <1>4, <1>8, <4>2, <4>3
      <3> QED BY <1>6, <1>8, <1>10, <3>1, <3>2 DEF Linked
    <2> QED BY <1>8, <2>1, <2>2 DEF ListInv
  <1>18. UserOf(t) = UserOf(m) BY <1>10 DEF UserOf
  <1> QED BY <1>8, <1>10, <1>14, <1>15, <1>16, <1>17, <1>18 DEF Books, s

LEMMA SortStep ==
  ASSUME ExponentsFit, PoolInv, SortPuddles
  PROVE  PoolInv'
  <1> DEFINE old == mem.puddlelist[pass.slot]
  <1>0. pass.phase = "sift" /\ pass.todo = <<>> /\ used' = used /\ deiniting' = deiniting
    BY DEF SortPuddles
  <1>1. PICK order \in Bijection(1..Len(old), 1..Len(old)) :
          LET list == [i \in 1..Len(old) |-> old[order[i]]]
          IN  mem' = Resorted(mem, pass.slot, list) /\ pass' = ToLink(pass, list)
    BY DEF SortPuddles, Resorted, ToLink
  <1> DEFINE list == [i \in 1..Len(old) |-> old[order[i]]]
  <1>2. mem' = Resorted(mem, pass.slot, list) /\ pass' = ToLink(pass, list) BY <1>1
  <1>3. PassInv /\ pass \in Pass /\ deiniting \in {"no", "user"}
    BY <1>0 DEF PoolInv, PassInv
  <1>4. Books(mem, pass) /\ used = UserOf(mem) /\ LeakInv BY <1>3 DEF PoolInv
  <1>5. list \in Seq(Descriptor) /\ Range(list) = Range(old) /\ Apart(list)
    <2>1. mem \in Memory /\ pass.slot \in Slots BY <1>3, <1>4 DEF Books, MemInv, Pass
    <2>2. old \in Seq(Descriptor) BY <2>1 DEF Memory
    <2>3. Apart(old) BY <1>4, <2>1 DEF Books, OnceInv
    <2>4. list = [i \in 1..Len(old) |-> old[order[i]]] OBVIOUS
    <2> HIDE DEF list, old
    <2> QED BY <2>2, <2>3, <2>4, Permuted
  <1> HIDE DEF list
  <1>6. /\ Books(mem', pass') /\ UserOf(mem') = UserOf(mem) /\ mem'.live = mem.live
        /\ mem'.owner = mem.owner
        /\ pass' \in Pass /\ pass'.phase = "link" /\ pass'.slot = pass.slot
        /\ pass'.left = pass.left
    BY <1>0, <1>2, <1>3, <1>4, <1>5, SortBooks
  <1>7. PassInv' BY <1>0, <1>3, <1>6 DEF PassInv
  <1>8. LeakInv'
    <2>1. Range(pass.todo) = {} BY <1>0 DEF Range
    <2>2. \A b : Sifted(b)' => Sifted(b) BY <1>0, <1>6, <2>1 DEF Sifted
    <2> QED BY <1>0, <1>4, <1>6, <2>2 DEF LeakInv
  <1> QED BY <1>0, <1>3, <1>4, <1>6, <1>7, <1>8 DEF PoolInv

Extended(m, s, list) == [m EXCEPT !.freelist[s] = @ \o list]

\* The free chunks of one more puddle are linked.
LEMMA LinkBooks ==
  ASSUME ExponentsFit, NEW m, NEW q \in Pass, Books(m, q), q.phase = "link", q.todo # <<>>,
         NEW p, p = Head(q.todo), NEW r, r = WithoutFirst(q),
         NEW t, t = Extended(m, q.slot, LocalFree(m, q.slot, p))
  PROVE  /\ Books(t, r) /\ UserOf(t) = UserOf(m) /\ t.live = m.live /\ t.owner = m.owner
         /\ r \in Pass /\ r.phase = "link" /\ r.slot = q.slot /\ r.left = q.left
  <1> DEFINE s == q.slot
             old == m.freelist[s]
             more == LocalFree(m, s, p)
             list == old \o more
             lists == [m.freelist EXCEPT ![s] = list]
  <1>1. m \in Memory /\ MemInv(m) /\ CountInv(m) /\ s \in Slots /\ q.todo \in Seq(Descriptor)
    BY DEF Books, MemInv, Pass
  <1>2. m.freelist \in [Slots -> Seq(Chunk)] /\ old \in Seq(Chunk) BY <1>1 DEF Memory
  <1>3. /\ p \in Descriptor /\ p \in Range(q.todo) /\ Tail(q.todo) \in Seq(Descriptor)
        /\ Range(q.todo) = Range(Tail(q.todo)) \cup {p}
        /\ Apart(Tail(q.todo)) /\ \A x \in Range(Tail(q.todo)) : x.block # p.block
    <2>1. Apart(q.todo) BY DEF Books, OnceInv
    <2> QED BY <1>1, <2>1, TailOf
  <1>4. r \in Pass /\ r.phase = "link" /\ r.slot = s /\ r.left = q.left /\ r.todo = Tail(q.todo)
    BY <1>3 DEF Pass, WithoutFirst
  <1>5. Range(q.todo) \subseteq Range(m.puddlelist[s]) BY DEF Books, OnceInv
  <1>6. p.block \in m.live /\ m.owner[p.block] = s
    <2>1. p \in Listed(m, q, s) BY <1>3, <1>5 DEF Listed
    <2> QED BY <1>1, <2>1 DEF Books, DescInv, Describes
  <1>7. FreeIn(m, s, p) = {c \in FreeOf(m, s) : c[1] = p.block} BY <1>1, <1>6, FreeInBlock
  <1>8. Range(old) = {c \in FreeOf(m, s) : \A x \in Range(q.todo) : x.block # c[1]} /\ Once(old)
    BY <1>1 DEF Books, ListInv, Linked
  <1>9. more \in Seq(Chunk) /\ Range(more) = FreeIn(m, s, p) /\ Once(more)
    <2>1. more \in Seq(FreeIn(m, s, p)) /\ Range(more) = FreeIn(m, s, p) /\ Once(more)
      BY <1>1, LocalFreeIsExact
    <2>2. FreeIn(m, s, p) \subseteq Chunk BY <1>1, <1>7, ChunksAreFinite DEF FreeOf
    <2> HIDE DEF more, s
    <2> QED BY <2>1, <2>2
  <1>10. t = [m EXCEPT !.freelist = lists] BY DEF Extended
  <1> HIDE DEF more, old
  <1>11. list \in Seq(Chunk) /\ Range(list) = Range(old) \cup Range(more) /\ Once(list)
    <2>1. Range(old) \cap Range(more) = {} BY <1>3, <1>7, <1>8, <1>9
    <2> QED BY <1>2, <1>8, <1>9, <2>1, PutLast
  <1> HIDE DEF list
  <1>12. lists[s] = list /\ \A z \in Slots : z # s => lists[z] = m.freelist[z] BY <1>1, <1>2
  <1>13. lists \in [Slots -> Seq(Chunk)] BY <1>2, <1>11
  <1> HIDE DEF lists, s
  <1>14. t \in Memory BY <1>1, <1>10, <1>13 DEF Memory
  <1>15. /\ t.owner = m.owner /\ t.live = m.live /\ t.count = m.count
         /\ t.free = m.free /\ t.freelist = lists /\ t.nrof_free = m.nrof_free
         /\ t.nrof_allocated = m.nrof_allocated /\ t.puddlelist = m.puddlelist
    BY <1>1, <1>10 DEF Memory
  <1>16. \A z : ChunksOf(t, z) = ChunksOf(m, z) /\ FreeOf(t, z) = FreeOf(m, z)
    BY <1>15 DEF ChunksOf, FreeOf
  <1>17. \A z \in Slots : Listed(t, r, z) = Listed(m, q, z) BY <1>4, <1>15 DEF Listed
  <1>18. MemInv(t) /\ CountInv(t) BY <1>1, <1>14, <1>15, <1>16 DEF MemInv, CountInv
  <1>19. DescInv(t, r) /\ TrackInv(t, r)
    <2>1. DescInv(m, q) /\ TrackInv(m, q) BY DEF Books
    <2> QED BY <1>1, <1>15, <1>17, <2>1, SameDescriptors
  <1>20. OnceInv(t, r)
    <2>1. \A z \in Slots : Apart(m.puddlelist[z]) BY DEF Books, OnceInv
    <2> QED BY <1>3, <1>4, <1>5, <1>15, <2>1 DEF OnceInv
  <1>21. ListInv(t, r)
    <2>1. \A z \in Slots : z # s => Exact(t, z)
      BY <1>12, <1>15, <1>16 DEF Books, ListInv, Exact, s
    <2>2. Range(list) = {c \in FreeOf(m, s) : \A x \in Range(r.todo) : x.block # c[1]}
      <3>1. \A c : c \in Range(list) <=>
              c \in FreeOf(m, s) /\ (c[1] = p.block \/ \A x \in Range(q.todo) : x.block # c[1])
        BY <1>7, <1>8, <1>9, <1>11
      <3> QED BY <1>3, <1>4, <3>1
    <2>3. Linked(t, r) BY <1>4, <1>11, <1>12, <1>15, <1>16, <2>2 DEF Linked
    <2> QED BY <1>4, <2>1, <2>3 DEF ListInv
  <1>22. UserOf(t) = UserOf(m) BY <1>15 DEF UserOf
  <1> QED BY <1>4, <1>15, <1>18, <1>19, <1>20, <1>21, <1>22 DEF Books, s

LEMMA LinkStep ==
  ASSUME ExponentsFit, PoolInv, LinkPuddle
  PROVE  PoolInv'
  <1> DEFINE p == Head(pass.todo)
  <1>0. /\ pass.phase = "link" /\ pass.todo # <<>> /\ used' = used /\ deiniting' = deiniting
        /\ mem' = Extended(mem, pass.slot, LocalFree(mem, pass.slot, p))
        /\ pass' = WithoutFirst(pass)
    BY DEF LinkPuddle, Extended, WithoutFirst
  <1>1. PassInv /\ pass \in Pass /\ deiniting \in {"no", "user"}
    BY <1>0 DEF PoolInv, PassInv
  <1>2. Books(mem, pass) /\ used = UserOf(mem) /\ LeakInv BY <1>1 DEF PoolInv
  <1>3. /\ Books(mem', pass') /\ UserOf(mem') = UserOf(mem) /\ mem'.live = mem.live
        /\ mem'.owner = mem.owner
        /\ pass' \in Pass /\ pass'.phase = "link" /\ pass'.slot = pass.slot
        /\ pass'.left = pass.left
    BY <1>0, <1>1, <1>2, LinkBooks
  <1>4. PassInv' BY <1>0, <1>1, <1>3 DEF PassInv
  <1>5. LeakInv'
    <2>1. \A b : Sifted(b)' => Sifted(b) BY <1>0, <1>3 DEF Sifted
    <2> QED BY <1>0, <1>2, <1>3, <2>1 DEF LeakInv
  <1> QED BY <1>0, <1>1, <1>2, <1>3, <1>4, <1>5 DEF PoolInv

LEMMA PoolStarts ==
  ASSUME ExponentsFit, Init
  PROVE  PoolInv
  <1>0. /\ mem = Empty /\ used = {} /\ deiniting = "no"
        /\ pass = [phase |-> "none", slot |-> PuddleSlot, left |-> {}, todo |-> <<>>]
    BY DEF Init
  <1>1. pass \in Pass /\ pass.phase = "none" BY <1>0, SlotFacts DEF Pass
  <1>2. mem \in Memory
    <2>1. /\ [b \in Block |-> NoOwner] \in [Block -> Slots \cup {NoOwner}]
          /\ [s \in Slots |-> 0] \in [Slots -> Int] /\ 0 \in 0..MaxBlocks
      BY MempoolAssumption
    <2>2. <<>> \in Seq(Chunk) /\ <<>> \in Seq(Descriptor) OBVIOUS
    <2>3. /\ [s \in Slots |-> <<>>] \in [Slots -> Seq(Chunk)]
          /\ [s \in Slots |-> <<>>] \in [Slots -> Seq(Descriptor)]
      BY <2>2
    <2>4. {} \in SUBSET Chunk /\ {} \in SUBSET Block OBVIOUS
    <2> QED BY <1>0, <2>1, <2>3, <2>4 DEF Empty, Memory
  <1>3. /\ mem.live = {} /\ mem.free = {}
        /\ \A s \in Slots : /\ mem.freelist[s] = <<>> /\ mem.puddlelist[s] = <<>>
                            /\ mem.nrof_free[s] = 0 /\ mem.nrof_allocated[s] = 0
    BY <1>0 DEF Empty
  <1>4. \A s : ChunksOf(mem, s) = {} /\ FreeOf(mem, s) = {} BY <1>3 DEF ChunksOf, FreeOf
  <1>5. Range(<<>>) = {} /\ Once(<<>>) /\ Apart(<<>>) BY DEF Range, Once, Apart
  <1>6. MemInv(mem) BY <1>2, <1>3 DEF MemInv
  <1>7. CountInv(mem) BY <1>3, <1>4, FS_EmptySet DEF CountInv
  <1>8. \A s \in Slots : Exact(mem, s) /\ Apart(mem.puddlelist[s]) BY <1>3, <1>4, <1>5 DEF Exact
  <1>9. \A s \in Slots : Range(mem.puddlelist[s]) = {} BY <1>3, <1>5
  <1>10. Settled(mem, {}) BY <1>3, <1>6, <1>7, <1>8, <1>9 DEF Settled
  <1>11. Books(mem, pass) BY <1>1, <1>10, AtRest
  <1>12. UserOf(mem) = {} BY <1>3 DEF UserOf
  <1>13. LeakInv BY <1>3 DEF LeakInv
  <1>14. PassInv BY <1>0, <1>1 DEF PassInv
  <1> QED BY <1>0, <1>11, <1>12, <1>13, <1>14 DEF PoolInv

LEMMA PoolStep ==
  ASSUME ExponentsFit, PoolInv, [Next]_vars
  PROVE  PoolInv'
  <1>1. CASE \E slot \in Slots : mempool_get_chunk(slot) BY <1>1, GetStep
  <1>2. CASE \E c \in used : mempool_return_chunk(c) BY <1>2, ReturnStep
  <1>3. CASE \E pool \in Pool : mempool_reclaim(pool) BY <1>3, ReclaimStep
  <1>4. CASE UNCHANGED vars
    BY <1>4 DEF vars, PoolInv, PassInv, LeakInv, Sifted, UsedStaysAllocated, OnlyLeaksStay
  <1>5. CASE Deinited BY <1>4, <1>5 DEF Deinited
  <1> QED BY <1>1, <1>2, <1>3, <1>4, <1>5, SiftStep, SortStep, LinkStep, SlotDoneStep,
             BeginStep, UserPoolStep, PuddlePoolStep DEF Next

LEMMA PoolInvIsExact ==
  ASSUME ExponentsFit, PoolInv
  PROVE  PoolIsExact
  <1>1. CASE deiniting = "done"
    BY <1>1 DEF PoolInv, PoolIsExact, FreelistIsExact, BlocksAreTracked
  <1>2. CASE deiniting # "done"
    <2>1. Books(mem, pass) /\ used = UserOf(mem) BY <1>2 DEF PoolInv
    <2>2. UsedStaysAllocated BY <2>1 DEF UsedStaysAllocated, UserOf
    <2>3. OnlyLeaksStay BY <1>2 DEF OnlyLeaksStay
    <2>4. CASE pass.phase # "none"
      BY <2>2, <2>3, <2>4 DEF PoolIsExact, FreelistIsExact, BlocksAreTracked, Returned
    <2>5. CASE pass.phase = "none"
      <3>1. Settled(mem, {}) BY <2>1, <2>5, AtRest
      <3>2. /\ MemInv(mem) /\ mem \in Memory /\ CountInv(mem)
            /\ \A s \in Slots : Exact(mem, s) /\ Apart(mem.puddlelist[s])
        BY <3>1 DEF Settled, MemInv
      <3>3. FreelistIsExact
        <4>1. ASSUME NEW s \in Slots
              PROVE  /\ Range(mem.freelist[s]) = ChunksOf(mem, s) \cap mem.free
                     /\ \A i, j \in DOMAIN mem.freelist[s] :
                          mem.freelist[s][i] = mem.freelist[s][j] => i = j
                     /\ mem.nrof_free[s] = Len(mem.freelist[s])
                     /\ mem.nrof_allocated[s] = Cardinality(ChunksOf(mem, s))
          <5>1. mem.freelist[s] \in Seq(Chunk) /\ mem.nrof_free[s] = Len(mem.freelist[s])
            BY <3>2, ListLength
          <5>2. Range(mem.freelist[s]) = FreeOf(mem, s) /\ Once(mem.freelist[s])
            BY <3>2 DEF Exact
          <5>3. DOMAIN mem.freelist[s] = 1..Len(mem.freelist[s]) BY <5>1
          <5>4. mem.nrof_allocated[s] = Cardinality(ChunksOf(mem, s)) BY <3>2 DEF CountInv
          <5> QED BY <5>1, <5>2, <5>3, <5>4 DEF FreeOf, Once
        <4> QED BY <4>1 DEF FreelistIsExact
      <3>4. BlocksAreTracked
        <4>1. ASSUME NEW b \in mem.live
              PROVE  LET list == mem.puddlelist[mem.owner[b]]
                     IN  \E i \in DOMAIN list : \A j \in DOMAIN list : list[j].block = b <=> j = i
          <5> DEFINE list == mem.puddlelist[mem.owner[b]]
          <5>1. mem.owner[b] \in Slots BY <3>2 DEF MemInv
          <5>2. list \in Seq(Descriptor) /\ Apart(list) BY <3>2, <5>1 DEF Memory
          <5>3. PICK p \in Range(list) : p.block = b BY <3>1 DEF Settled
          <5> HIDE DEF list
          <5>4. DOMAIN list = 1..Len(list) BY <5>2
          <5>5. PICK i \in DOMAIN list : list[i] = p BY <5>3 DEF Range
          <5>6. \A j \in DOMAIN list : list[j].block = b <=> j = i
            BY <5>2, <5>3, <5>4, <5>5 DEF Apart
          <5> QED BY <5>6 DEF list
        <4>2. ASSUME NEW s \in Slots, NEW p \in Range(mem.puddlelist[s])
              PROVE  /\ p.block \in mem.live /\ p.at[1] \in mem.live /\ p.at \notin mem.free
                     /\ s = PuddleSlot => p.at[1] = p.block
          <5>1. /\ p.block \in mem.live /\ p.at \in ChunksOf(mem, PuddleSlot)
                /\ p.at \notin mem.free /\ (s = PuddleSlot => p.at[1] = p.block)
            BY <3>1 DEF Settled
          <5> QED BY <5>1 DEF ChunksOf
        <4> QED BY <4>1, <4>2 DEF BlocksAreTracked
      <3> QED BY <2>2, <2>3, <3>3, <3>4 DEF PoolIsExact
    <2> QED BY <2>4, <2>5
  <1> QED BY <1>1, <1>2

\* However chunks are taken and returned, pools are reclaimed and the library is
\* deinitialised, used chunks stay allocated, freelists and counters are exact, each
\* block has one descriptor and only leaks stay in the end (mempool_get_chunk(),
\* mempool_return_chunk(), mempool_free_puddles()), for any sizes of blocks in which
\* the arrays fit: with a larger exponent a block of one chunk counts as empty.
THEOREM PoolExact ==
  ASSUME ExponentsFit
  PROVE  Spec => []PoolIsExact
  <1>1. Init => PoolInv BY PoolStarts
  <1>2. PoolInv /\ [Next]_vars => PoolInv' BY PoolStep
  <1>3. PoolInv => PoolIsExact BY PoolInvIsExact
  <1> QED BY <1>1, <1>2, <1>3, PTL DEF Spec

=============================================================================
