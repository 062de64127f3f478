------------------------- MODULE CurlRequestProofs -------------------------
(***************************************************************************)
(* Proofs about CurlRequest, for every set of methods, trust settings,     *)
(* limits, piece sizes and faults, every width of size_t and every number  *)
(* of redirects.  Four inductive invariants say why two threads that share a request with hardly any     *)
(* locking stay out of each other's way:                                   *)
(*   FreeInv    who frees the request, and what he knows of the worker;    *)
(*   ResultInv  where the worker can be once the state is published;       *)
(*   TrustInv   what a header that was taken says about the certificates;  *)
(*   SizeInv    body_size, a word, is the number of bytes received.        *)
(***************************************************************************)
EXTENDS CurlRequest, TLAPS

\* The structure is freed by the last step of curl_request_free() only.  As
\* long as nobody but the user assigns to the byte of bit-fields, `threaded'
\* is set from curl_request_start_get() on, so that the join is not skipped; a
\* request that runs in the caller is over before the user does anything else.
FreeInv ==
  /\ user = "created" => worker = "none"
  /\ alive <=> user # "freed"
  /\ (trust = "APPLICATION" => pinned) => worker # "mark" /\ ThreadIsRemembered
  /\ method = "SYNC" /\ user # "sync" => worker \in {"none", "exited"}
  /\ FreeWaitsForWorker

\* A state other than INPROGRESS is the last thing that the worker writes, or
\* there never was a worker (curl_request_start_get() failed).
ResultInv ==
  state # "INPROGRESS" =>
    /\ worker \in {"none", "cleanup", "callback", "exited"}
    /\ user # "created"

\* The certificates are judged by the callbacks that follow the handshake: a
\* header is taken only from a connection that passed, a new connection starts
\* without one, and no body, no code and no success exist without a header.
TrustInv ==
  /\ worker = "tls" => body = 0 /\ ~answered
  /\ answered => cert # "untrusted"
  /\ body > 0 => answered
  /\ worker \in {"code", "cache"} => answered
  /\ worker = "publish" /\ outcome = "OK" => answered
  /\ state = "OK" => answered

\* The checks of curl_callback() rest on body_size, which is what was received only
\* as long as they have never let it wrap.
SizeInv == body = received

IInv == TypeOK /\ FreeInv /\ ResultInv /\ TrustInv /\ SizeInv

-----------------------------------------------------------------------------
\* size_t arithmetic does not change a number that fits, and gives one that does.
LEMMA WordFits ==
  ASSUME NEW n \in 0..SizeMax
  PROVE  Word(n) = n
  BY CurlAssumption DEF Word

LEMMA WordIsWord ==
  ASSUME NEW n \in Nat
  PROVE  Word(n) \in 0..SizeMax /\ Word(n) <= n
  BY CurlAssumption DEF Word

\* The division notices a product that has wrapped.
LEMMA ProductFits ==
  ASSUME NEW size \in Nat, NEW nitems \in Nat,
         size = 0 \/ Word(size * nitems) \div size = nitems
  PROVE  size * nitems \in 0..SizeMax /\ Word(size * nitems) = size * nitems
  <1> DEFINE product == size * nitems
             r == Word(product)
  <1>1. product \in Nat OBVIOUS
  <1>2. r \in 0..SizeMax /\ r <= product BY <1>1, WordIsWord
  <1>3. CASE size = 0 BY <1>1, <1>3, CurlAssumption, WordFits
  <1>4. CASE size # 0
    <2>1. r \in Nat /\ size \in Nat \ {0} /\ r \div size = nitems
      BY <1>2, <1>4, CurlAssumption
    <2>2. ASSUME NEW w \in Nat, NEW d \in Nat \ {0} PROVE d * (w \div d) <= w
      OBVIOUS
    <2>3. product <= r
      <3> HIDE DEF r
      <3> QED BY <2>1, <2>2
    <2> HIDE DEF product, r
    <2>4. r = product BY <1>1, <1>2, <2>1, <2>3
    <2> QED BY <1>2, <2>4 DEF product, r
  <1> QED BY <1>3, <1>4

\* An accepted piece fits, with what was received before it, into the limit and,
\* with the terminator, into a word.
LEMMA AcceptedFits ==
  ASSUME TypeOK, NEW size \in Nat, NEW nitems \in Nat, Accepts(size, nitems)
  PROVE  /\ size * nitems \in Nat /\ Word(size * nitems) = size * nitems
         /\ body + size * nitems <= max_body_size
         /\ Word(body + size * nitems) = body + size * nitems
         /\ body + size * nitems + 1 \in 0..SizeMax
         /\ Word(body + size * nitems + 1) = body + size * nitems + 1
  <1> DEFINE product == size * nitems
  <1>1. product \in 0..SizeMax /\ Word(product) = product
    BY ProductFits DEF Accepts
  <1>2. body \in 0..SizeMax /\ max_body_size \in 0..SizeMax /\ SizeMax \in Nat
    BY CurlAssumption DEF TypeOK
  <1>3. /\ body <= max_body_size /\ body # SizeMax
        /\ product <= Word(max_body_size - body)
        /\ product <= Word(SizeMax - body - 1)
    BY <1>1 DEF Accepts
  <1> HIDE DEF product
  <1>4. Word(max_body_size - body) = max_body_size - body BY <1>2, <1>3, WordFits
  <1>5. Word(SizeMax - body - 1) = SizeMax - body - 1 BY <1>2, <1>3, WordFits
  <1>6. body + product <= max_body_size /\ body + product + 1 <= SizeMax
    BY <1>1, <1>2, <1>3, <1>4, <1>5
  <1>7. Word(body + product) = body + product BY <1>1, <1>2, <1>6, WordFits
  <1>8. Word(body + product + 1) = body + product + 1 BY <1>1, <1>2, <1>6, WordFits
  <1> QED BY <1>1, <1>2, <1>6, <1>7, <1>8 DEF product

\* What changes the buffer is a piece that was accepted or a file of the cache, and
\* keeps the sizes of what is stored right.
LEMMA BufferStep ==
  ASSUME TypeOK, SizeInv, [Next]_vars, buffer' # buffer
  PROVE  /\ received' \in Nat /\ received' <= max_body_size
         /\ body' = received' /\ room' = received' + 1 /\ room' <= SizeMax
  <1> USE DEF vars, result
  <1>1. CASE WorkerStep
    <2>1. LoadCache
      BY <1>1 DEF WorkerStep, EasyInit, curl_request_setup, SetupFails,
         curl_request_build_form, SetHttpCode, WriteCache, Publish, Cleanup,
         Callback, VerifyBySystem, VerifyByStore, VerifyWithoutPins,
         VerifyWithoutKeys, MarkUntrusted
    <2>2. PICK size \in 0..(SizeMax \div 2) :
            /\ size <= max_body_size
            /\ room' = Word(size + 1) /\ body' = size /\ received' = size
      BY <2>1 DEF LoadCache
    <2>3. size \in Nat /\ size + 1 \in 0..SizeMax
      <3>1. SizeMax \in Nat /\ max_body_size \in 1..SizeMax
        BY CurlAssumption DEF TypeOK
      <3> QED BY <3>1, <2>2
    <2> QED BY <2>2, <2>3, WordFits
  <1>2. CASE PeerStep \/ PeerEnds
    <2>1. PICK size \in ItemSizes, nitems \in ItemCounts : curl_callback(size, nitems)
      BY <1>2 DEF PeerStep, PeerEnds, curl_ssl_ctx, curl_header_callback,
         PerformFails, PerformReturns
    <2>2. size \in Nat /\ nitems \in Nat BY CurlAssumption
    <2>3. Accepts(size, nitems) BY <2>1 DEF curl_callback
    <2>4. /\ room' = Word(body + Word(size * nitems) + 1)
          /\ body' = Word(body + Word(size * nitems))
          /\ received' = received + size * nitems
      BY <2>1 DEF curl_callback
    <2>5. received = body /\ received \in Nat BY DEF SizeInv, TypeOK
    <2> DEFINE product == size * nitems
    <2>6. /\ product \in Nat /\ body + product <= max_body_size
          /\ body' = body + product /\ room' = body + product + 1
          /\ body + product + 1 \in 0..SizeMax
      BY <2>2, <2>3, <2>4, AcceptedFits
    <2>7. received' = body + product /\ body \in Nat BY <2>4, <2>5
    <2>8. SizeMax \in Nat BY CurlAssumption
    <2> HIDE DEF product
    <2> QED BY <2>6, <2>7, <2>8
  <1>3. CASE UserStep
    BY <1>3 DEF UserStep, RememberThread, ThreadRemembered, SyncReturns,
       SizeinfoRead, FreeFinish, FreeJoin
  <1>4. CASE UserCall
    BY <1>4 DEF UserCall, Start, StartFails, curl_request_set_max_body,
       SizeinfoCheck, FreeCheck
  <1>5. CASE Over \/ UNCHANGED vars BY <1>5 DEF Over
  <1> QED BY <1>1, <1>2, <1>3, <1>4, <1>5 DEF Next

\* The sizes stay words, the count of bytes a number.
LEMMA BufferType ==
  ASSUME TypeOK, SizeInv, [Next]_vars
  PROVE  body' \in 0..SizeMax /\ room' \in 0..SizeMax /\ received' \in Nat
  <1>1. CASE buffer' = buffer BY <1>1 DEF buffer, TypeOK
  <1>2. CASE buffer' # buffer
    <2>1. /\ received' \in Nat /\ body' = received' /\ room' = received' + 1
          /\ room' <= SizeMax
      BY <1>2, BufferStep
    <2>2. SizeMax \in Nat BY CurlAssumption
    <2>3. ASSUME NEW n \in Nat, n + 1 <= SizeMax
          PROVE  n \in 0..SizeMax /\ n + 1 \in 0..SizeMax
      BY <2>2, <2>3
    <2>4. received' + 1 <= SizeMax BY <2>1
    <2>5. received' \in 0..SizeMax /\ received' + 1 \in 0..SizeMax BY <2>1, <2>3, <2>4
    <2> QED BY <2>1, <2>5
  <1> QED BY <1>1, <1>2

-----------------------------------------------------------------------------
\* curl_request_create() and the setters give every field a value of its type.
LEMMA InitType == Init => TypeOK
  <1> SUFFICES ASSUME Init PROVE TypeOK OBVIOUS
  <1>1. NoFlags \in Flags BY DEF NoFlags, Flags
  <1>2. locked \in BOOLEAN /\ header \in BOOLEAN /\ answered \in BOOLEAN /\ alive \in BOOLEAN
    BY DEF Init
  <1> QED
    BY <1>1, <1>2, CurlAssumption DEF Init, TypeOK, UserState, WorkerState, HttpCode

\* A request that was just created satisfies the invariant.
LEMMA InitIInv == Init => IInv
  <1> SUFFICES ASSUME Init PROVE IInv OBVIOUS
  <1>1. TypeOK BY InitType
  <1>2. FreeInv
    BY DEF Init, FreeInv, ThreadIsRemembered, FreeWaitsForWorker, NoUseAfterFree
  <1>3. ResultInv BY DEF Init, ResultInv
  <1>4. TrustInv BY DEF Init, TrustInv
  <1>5. SizeInv BY DEF Init, SizeInv
  <1> QED BY <1>1, <1>2, <1>3, <1>4, <1>5 DEF IInv

\* Every step of either thread keeps the types: the copies of the bit-fields are
\* written back as they were read, and the connections stay within their bound.
LEMMA TypeStep ==
  ASSUME TypeOK, SizeInv, [Next]_vars
  PROVE  TypeOK'
  <1> USE CurlAssumption
      DEF TypeOK, vars, config, result, buffer, transfer, locals, Flags, UserState,
          WorkerState, HttpCode
  <1>0. body' \in 0..SizeMax /\ room' \in 0..SizeMax /\ received' \in Nat
    BY BufferType
  <1>1. CASE EasyInit BY <1>1 DEF EasyInit, Give
  <1>2. CASE curl_request_setup BY <1>2 DEF curl_request_setup
  <1>3. CASE SetupFails BY <1>3 DEF SetupFails, Give
  <1>4. CASE curl_request_build_form BY <1>4 DEF curl_request_build_form, Give
  <1>5. CASE SetHttpCode BY <1>5 DEF SetHttpCode, Give
  <1>6. CASE WriteCache BY <1>6 DEF WriteCache, Give
  <1>7. CASE LoadCache BY <1>0, <1>7 DEF LoadCache, Give
  <1>8. CASE Publish BY <1>8 DEF Publish
  <1>9. CASE Cleanup BY <1>9 DEF Cleanup
  <1>10. CASE Callback BY <1>10 DEF Callback
  <1>11. CASE VerifyBySystem BY <1>11 DEF VerifyBySystem
  <1>12. CASE VerifyByStore
    <2>1. cert' \in {"none", "trusted", "untrusted"} BY <1>12 DEF VerifyByStore
    <2>2. worker' = "perform"
          /\ UNCHANGED <<config, max_body_size, user, locked, flags, userFlags,
                         workerFlags, result, handle, connections, answered,
                         locals, alive, calls>>
      BY <1>12 DEF VerifyByStore
    <2> QED BY <2>1, <2>2
  <1>13. CASE VerifyWithoutPins BY <1>13 DEF VerifyWithoutPins, Give
  <1>14. CASE VerifyWithoutKeys BY <1>14 DEF VerifyWithoutKeys
  <1>15. CASE MarkUntrusted
    <2>1. flags' \in Flags BY <1>15 DEF MarkUntrusted
    <2>2. locked' \in BOOLEAN BY <1>15 DEF MarkUntrusted
    <2> QED BY <1>15, <2>1, <2>2 DEF MarkUntrusted
  <1>16. CASE curl_ssl_ctx
    <2>1. answered' \in BOOLEAN BY <1>16 DEF curl_ssl_ctx
    <2> QED BY <1>16, <2>1 DEF curl_ssl_ctx, Give
  <1>17. CASE curl_header_callback
    <2>1. answered' \in BOOLEAN /\ header' \in BOOLEAN
      BY <1>17 DEF curl_header_callback
    <2> QED BY <1>17, <2>1 DEF curl_header_callback, Give
  <1>18. CASE \E size \in ItemSizes, nitems \in ItemCounts : curl_callback(size, nitems)
    <2>1. UNCHANGED <<config, max_body_size, user, locked, flags, userFlags,
                      workerFlags, state, header, http_code, handle, transfer,
                      alive, calls>>
      BY <1>18 DEF curl_callback
    <2>2. UNCHANGED <<worker, locals>> \/ Give("ERROR")
      BY <1>18 DEF curl_callback
    <2> QED BY <1>0, <2>1, <2>2 DEF Give
  <1>19. CASE PerformFails BY <1>19 DEF PerformFails, Give
  <1>20. CASE PerformReturns BY <1>20 DEF PerformReturns
  <1>21. CASE RememberThread BY <1>21 DEF RememberThread
  <1>22. CASE ThreadRemembered
    <2>1. flags' \in Flags BY <1>22 DEF ThreadRemembered
    <2> QED BY <1>22, <2>1 DEF ThreadRemembered
  <1>23. CASE SyncReturns BY <1>23 DEF SyncReturns
  <1>24. CASE SizeinfoRead BY <1>24 DEF SizeinfoRead
  <1>25. CASE FreeFinish
    <2>1. flags' \in Flags BY <1>25 DEF FreeFinish
    <2> QED BY <1>25, <2>1 DEF FreeFinish
  <1>26. CASE FreeJoin
    <2>1. alive' \in BOOLEAN BY <1>26 DEF FreeJoin
    <2> QED BY <1>26, <2>1 DEF FreeJoin
  <1>27. CASE Start BY <1>27 DEF Start
  <1>28. CASE StartFails BY <1>28 DEF StartFails
  <1>29. CASE curl_request_set_max_body BY <1>29 DEF curl_request_set_max_body
  <1>30. CASE SizeinfoCheck BY <1>30 DEF SizeinfoCheck
  <1>31. CASE FreeCheck BY <1>31 DEF FreeCheck
  <1>32. CASE Over BY <1>32 DEF Over
  <1>33. CASE UNCHANGED vars BY <1>33
  <1> QED BY <1>1, <1>2, <1>3, <1>4, <1>5, <1>6, <1>7, <1>8, <1>9, <1>10,
            <1>11, <1>12, <1>13, <1>14, <1>15, <1>16, <1>17, <1>18, <1>19,
            <1>20, <1>21, <1>22, <1>23, <1>24, <1>25, <1>26, <1>27, <1>28,
            <1>29, <1>30, <1>31, <1>32, <1>33
    DEF Next, WorkerStep, PeerStep, PeerEnds, UserStep, UserCall

\* Nobody frees what the other thread still uses.
LEMMA FreeStep ==
  ASSUME TypeOK, FreeInv, [Next]_vars
  PROVE  FreeInv'
  <1> USE DEF TypeOK, FreeInv, ThreadIsRemembered, FreeWaitsForWorker,
              NoUseAfterFree, Flags, vars, config
  <1>1. CASE EasyInit BY <1>1 DEF EasyInit, Give
  <1>2. CASE curl_request_setup BY <1>2 DEF curl_request_setup
  <1>3. CASE SetupFails BY <1>3 DEF SetupFails, Give
  <1>4. CASE curl_request_build_form BY <1>4 DEF curl_request_build_form, Give
  <1>5. CASE SetHttpCode BY <1>5 DEF SetHttpCode, Give
  <1>6. CASE WriteCache BY <1>6 DEF WriteCache, Give
  <1>7. CASE LoadCache BY <1>7 DEF LoadCache, Give
  <1>8. CASE Publish BY <1>8 DEF Publish
  <1>9. CASE Cleanup BY <1>9 DEF Cleanup
  <1>10. CASE Callback BY <1>10 DEF Callback
  <1>11. CASE VerifyBySystem BY <1>11 DEF VerifyBySystem
  <1>12. CASE VerifyByStore BY <1>12 DEF VerifyByStore
  <1>13. CASE VerifyWithoutPins BY <1>13 DEF VerifyWithoutPins, Give
  <1>14. CASE VerifyWithoutKeys BY <1>14 DEF VerifyWithoutKeys
  <1>15. CASE MarkUntrusted BY <1>15 DEF MarkUntrusted
  <1>16. CASE curl_ssl_ctx BY <1>16 DEF curl_ssl_ctx, Give, curl_verify_cert_chain
  <1>17. CASE curl_header_callback BY <1>17 DEF curl_header_callback, Give, curl_verify_cert_chain
  <1>18. CASE \E size \in ItemSizes, nitems \in ItemCounts : curl_callback(size, nitems)
    BY <1>18 DEF curl_callback, Give, curl_verify_cert_chain
  <1>19. CASE PerformFails BY <1>19 DEF PerformFails, Give
  <1>20. CASE PerformReturns BY <1>20 DEF PerformReturns
  <1>21. CASE RememberThread BY <1>21 DEF RememberThread
  <1>22. CASE ThreadRemembered BY <1>22 DEF ThreadRemembered
  <1>23. CASE SyncReturns BY <1>23 DEF SyncReturns
  <1>24. CASE SizeinfoRead BY <1>24 DEF SizeinfoRead
  <1>25. CASE FreeFinish BY <1>25 DEF FreeFinish
  <1>26. CASE FreeJoin
    <2>1. method \in {"GET", "POST", "SYNC"} BY CurlAssumption
    <2>2. ~alive' /\ user' = "freed" /\ user = "join"
          /\ UNCHANGED <<method, trust, pinned, worker, flags>>
      BY <1>26 DEF FreeJoin
    <2>3. flags.threaded => worker = "exited" BY <1>26 DEF FreeJoin
    <2>4. ASSUME method = "GET", trust = "APPLICATION" => pinned
          PROVE  worker \in {"none", "exited"}
      BY <2>2, <2>3, <2>4
    <2>5. ASSUME method = "SYNC" PROVE worker \in {"none", "exited"}
      BY <2>2, <2>5
    <2> QED BY <2>1, <2>2, <2>4, <2>5
  <1>27. CASE Start BY <1>27 DEF Start
  <1>28. CASE StartFails BY <1>28 DEF StartFails
  <1>29. CASE curl_request_set_max_body BY <1>29 DEF curl_request_set_max_body
  <1>30. CASE SizeinfoCheck BY <1>30 DEF SizeinfoCheck
  <1>31. CASE FreeCheck BY <1>31 DEF FreeCheck
  <1>32. CASE Over BY <1>32 DEF Over
  <1>33. CASE UNCHANGED vars BY <1>33
  <1> QED BY <1>1, <1>2, <1>3, <1>4, <1>5, <1>6, <1>7, <1>8, <1>9, <1>10,
            <1>11, <1>12, <1>13, <1>14, <1>15, <1>16, <1>17, <1>18, <1>19,
            <1>20, <1>21, <1>22, <1>23, <1>24, <1>25, <1>26, <1>27, <1>28,
            <1>29, <1>30, <1>31, <1>32, <1>33
    DEF Next, WorkerStep, PeerStep, PeerEnds, UserStep, UserCall

\* Once the state is published the worker has nothing more to write.
LEMMA ResultStep ==
  ASSUME TypeOK, FreeInv, ResultInv, [Next]_vars
  PROVE  ResultInv'
  <1> USE DEF TypeOK, FreeInv, ResultInv, vars, result
  <1>1. CASE EasyInit BY <1>1 DEF EasyInit, Give
  <1>2. CASE curl_request_setup BY <1>2 DEF curl_request_setup
  <1>3. CASE SetupFails BY <1>3 DEF SetupFails, Give
  <1>4. CASE curl_request_build_form BY <1>4 DEF curl_request_build_form, Give
  <1>5. CASE SetHttpCode BY <1>5 DEF SetHttpCode, Give
  <1>6. CASE WriteCache BY <1>6 DEF WriteCache, Give
  <1>7. CASE LoadCache BY <1>7 DEF LoadCache, Give
  <1>8. CASE Publish BY <1>8 DEF Publish
  <1>9. CASE Cleanup BY <1>9 DEF Cleanup
  <1>10. CASE Callback BY <1>10 DEF Callback
  <1>11. CASE VerifyBySystem BY <1>11 DEF VerifyBySystem
  <1>12. CASE VerifyByStore BY <1>12 DEF VerifyByStore
  <1>13. CASE VerifyWithoutPins BY <1>13 DEF VerifyWithoutPins, Give
  <1>14. CASE VerifyWithoutKeys BY <1>14 DEF VerifyWithoutKeys
  <1>15. CASE MarkUntrusted BY <1>15 DEF MarkUntrusted
  <1>16. CASE curl_ssl_ctx BY <1>16 DEF curl_ssl_ctx, Give, curl_verify_cert_chain
  <1>17. CASE curl_header_callback BY <1>17 DEF curl_header_callback, Give, curl_verify_cert_chain
  <1>18. CASE \E size \in ItemSizes, nitems \in ItemCounts : curl_callback(size, nitems)
    BY <1>18 DEF curl_callback, Give, curl_verify_cert_chain
  <1>19. CASE PerformFails BY <1>19 DEF PerformFails, Give
  <1>20. CASE PerformReturns BY <1>20 DEF PerformReturns
  <1>21. CASE RememberThread BY <1>21 DEF RememberThread
  <1>22. CASE ThreadRemembered BY <1>22 DEF ThreadRemembered
  <1>23. CASE SyncReturns BY <1>23 DEF SyncReturns
  <1>24. CASE SizeinfoRead BY <1>24 DEF SizeinfoRead
  <1>25. CASE FreeFinish BY <1>25 DEF FreeFinish
  <1>26. CASE FreeJoin BY <1>26 DEF FreeJoin
  <1>27. CASE Start BY <1>27 DEF Start
  <1>28. CASE StartFails BY <1>28 DEF StartFails
  <1>29. CASE curl_request_set_max_body BY <1>29 DEF curl_request_set_max_body
  <1>30. CASE SizeinfoCheck BY <1>30 DEF SizeinfoCheck
  <1>31. CASE FreeCheck BY <1>31 DEF FreeCheck
  <1>32. CASE Over BY <1>32 DEF Over
  <1>33. CASE UNCHANGED vars BY <1>33
  <1> QED BY <1>1, <1>2, <1>3, <1>4, <1>5, <1>6, <1>7, <1>8, <1>9, <1>10,
            <1>11, <1>12, <1>13, <1>14, <1>15, <1>16, <1>17, <1>18, <1>19,
            <1>20, <1>21, <1>22, <1>23, <1>24, <1>25, <1>26, <1>27, <1>28,
            <1>29, <1>30, <1>31, <1>32, <1>33
    DEF Next, WorkerStep, PeerStep, PeerEnds, UserStep, UserCall

\* Headers, bodies and success come from connections that passed the check.
LEMMA TrustStep ==
  ASSUME TypeOK, ResultInv, TrustInv, [Next]_vars
  PROVE  TrustInv'
  <1> USE DEF TypeOK, ResultInv, TrustInv, vars, result, buffer, transfer, locals
  <1>1. CASE EasyInit BY <1>1 DEF EasyInit, Give
  <1>2. CASE curl_request_setup BY <1>2 DEF curl_request_setup
  <1>3. CASE SetupFails BY <1>3 DEF SetupFails, Give
  <1>4. CASE curl_request_build_form BY <1>4 DEF curl_request_build_form, Give
  <1>5. CASE SetHttpCode BY <1>5 DEF SetHttpCode, Give
  <1>6. CASE WriteCache BY <1>6 DEF WriteCache, Give
  <1>7. CASE LoadCache BY <1>7 DEF LoadCache, Give
  <1>8. CASE Publish BY <1>8 DEF Publish
  <1>9. CASE Cleanup BY <1>9 DEF Cleanup
  <1>10. CASE Callback BY <1>10 DEF Callback
  <1>11. CASE VerifyBySystem BY <1>11 DEF VerifyBySystem
  <1>12. CASE VerifyByStore BY <1>12 DEF VerifyByStore
  <1>13. CASE VerifyWithoutPins BY <1>13 DEF VerifyWithoutPins, Give
  <1>14. CASE VerifyWithoutKeys BY <1>14 DEF VerifyWithoutKeys
  <1>15. CASE MarkUntrusted BY <1>15 DEF MarkUntrusted
  <1>16. CASE curl_ssl_ctx BY <1>16 DEF curl_ssl_ctx, Give, curl_verify_cert_chain
  <1>17. CASE curl_header_callback BY <1>17 DEF curl_header_callback, Give, curl_verify_cert_chain
  <1>18. CASE \E size \in ItemSizes, nitems \in ItemCounts : curl_callback(size, nitems)
    BY <1>18 DEF curl_callback, Give, curl_verify_cert_chain
  <1>19. CASE PerformFails BY <1>19 DEF PerformFails, Give
  <1>20. CASE PerformReturns BY <1>20 DEF PerformReturns
  <1>21. CASE RememberThread BY <1>21 DEF RememberThread
  <1>22. CASE ThreadRemembered BY <1>22 DEF ThreadRemembered
  <1>23. CASE SyncReturns BY <1>23 DEF SyncReturns
  <1>24. CASE SizeinfoRead BY <1>24 DEF SizeinfoRead
  <1>25. CASE FreeFinish BY <1>25 DEF FreeFinish
  <1>26. CASE FreeJoin BY <1>26 DEF FreeJoin
  <1>27. CASE Start BY <1>27 DEF Start
  <1>28. CASE StartFails BY <1>28 DEF StartFails
  <1>29. CASE curl_request_set_max_body BY <1>29 DEF curl_request_set_max_body
  <1>30. CASE SizeinfoCheck BY <1>30 DEF SizeinfoCheck
  <1>31. CASE FreeCheck BY <1>31 DEF FreeCheck
  <1>32. CASE Over BY <1>32 DEF Over
  <1>33. CASE UNCHANGED vars BY <1>33
  <1> QED BY <1>1, <1>2, <1>3, <1>4, <1>5, <1>6, <1>7, <1>8, <1>9, <1>10,
            <1>11, <1>12, <1>13, <1>14, <1>15, <1>16, <1>17, <1>18, <1>19,
            <1>20, <1>21, <1>22, <1>23, <1>24, <1>25, <1>26, <1>27, <1>28,
            <1>29, <1>30, <1>31, <1>32, <1>33
    DEF Next, WorkerStep, PeerStep, PeerEnds, UserStep, UserCall

-----------------------------------------------------------------------------
\* body_size counts what was received.
LEMMA SizeStep ==
  ASSUME TypeOK, SizeInv, [Next]_vars
  PROVE  SizeInv'
  BY BufferStep DEF SizeInv, buffer

\* The invariant holds for every order of the two threads' steps.
LEMMA Invariance == Spec => []IInv
  <1>1. IInv /\ [Next]_vars => IInv'
    BY TypeStep, FreeStep, ResultStep, TrustStep, SizeStep DEF IInv
  <1> QED BY InitIInv, <1>1, PTL DEF Spec

\* Every field of the request keeps its type: curl_request_get_state() returns
\* INPROGRESS, OK or ERROR at any time, and a byte of bit-fields that two
\* threads assign to is always a byte that one of them meant to write.
THEOREM TypeCorrect == Spec => []TypeOK
  <1>1. IInv => TypeOK BY DEF IInv
  <1> QED BY Invariance, <1>1, PTL

\* curl_request_free() does not free what the worker uses: the pthread_join()
\* is reached, unless the request was started by curl_request_start_post() or
\* curl_ssl_verify() assigned to the byte that `threaded' is part of.
THEOREM FreeIsSafe == Spec => []FreeWaitsForWorker
  <1>1. IInv => FreeWaitsForWorker BY DEF IInv, FreeInv
  <1> QED BY Invariance, <1>1, PTL

\* curl_verify_cert_chain() runs in curl_header_callback() and curl_callback(),
\* after the handshake, and still nothing of a peer that fails it is kept.
THEOREM TrustedOnly == Spec => []NoDataFromUntrustedPeer
  <1>1. IInv => NoDataFromUntrustedPeer BY DEF IInv, TrustInv, NoDataFromUntrustedPeer
  <1> QED BY Invariance, <1>1, PTL

\* What the getters return without the lock after the state has left
\* INPROGRESS does not change any more.
THEOREM Frozen == Spec => ResultIsFrozen
  <1>1. IInv /\ [Next]_vars
          => [state # "INPROGRESS" => UNCHANGED result]_vars
    <2> SUFFICES ASSUME IInv, [Next]_vars, state # "INPROGRESS"
                 PROVE  UNCHANGED result
      OBVIOUS
    <2> USE DEF IInv, ResultInv, vars, result
    <2>1. worker \in {"none", "cleanup", "callback", "exited"} /\ user # "created"
      OBVIOUS
    <2>2. CASE WorkerStep
      BY <2>1, <2>2 DEF WorkerStep, EasyInit, curl_request_setup, SetupFails,
         curl_request_build_form, SetHttpCode, WriteCache, LoadCache, Publish,
         Cleanup, Callback, VerifyBySystem, VerifyByStore, VerifyWithoutPins,
         VerifyWithoutKeys, MarkUntrusted
    <2>3. CASE PeerStep \/ PeerEnds
      BY <2>1, <2>3 DEF PeerStep, PeerEnds, curl_ssl_ctx, curl_header_callback,
         curl_callback, PerformFails, PerformReturns
    <2>4. CASE UserStep
      BY <2>1, <2>4 DEF UserStep, RememberThread, ThreadRemembered, SyncReturns,
         SizeinfoRead, FreeFinish, FreeJoin
    <2>5. CASE UserCall
      BY <2>1, <2>5 DEF UserCall, Start, StartFails, curl_request_set_max_body,
         SizeinfoCheck, FreeCheck
    <2>6. CASE Over \/ UNCHANGED vars BY <2>6 DEF Over
    <2> QED BY <2>2, <2>3, <2>4, <2>5, <2>6 DEF Next
  <1> QED BY Invariance, <1>1, PTL DEF Spec, ResultIsFrozen

\* For every width of size_t: what is stored is within the limit, whenever and however
\* curl_request_set_max_body() changes it, and no size has wrapped.
THEOREM WithinLimit == Spec => StoredWithinLimit
  <1>1. IInv /\ [Next]_vars
          => [buffer' # buffer => /\ received' <= max_body_size
                                  /\ body' = received' /\ room' = received' + 1]_vars
    BY BufferStep DEF IInv
  <1> QED BY Invariance, <1>1, PTL DEF Spec, StoredWithinLimit

=============================================================================
