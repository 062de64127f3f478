---------------------------- MODULE CurlRequest ----------------------------
(***************************************************************************)
(* The life of one curl_request_t (curl.c): the thread that owns it        *)
(* ("user") creates, starts, polls and frees it, the thread that           *)
(* curl_request_start_get() or curl_request_start_post() creates           *)
(* ("worker") runs the transfer, and libcurl calls back into the worker.   *)
(*                                                                         *)
(* request->mutex protects short sections, each of which is one step here; *)
(* `locked' is TRUE only while a section spans several steps, or after a   *)
(* return that forgot to unlock.  finished, threaded and untrusted are     *)
(* bit-fields of one byte: assigning one of them reads and writes all of   *)
(* them.                                                                   *)
(*                                                                         *)
(* Sizes are words of type size_t, whose arithmetic wraps at SizeMax + 1.  *)
(* The certificate chain that curl_ssl_verify() collects is abstracted to  *)
(* what curl_verify_cert_chain() makes of it.                              *)
(* curl_progress() does not occur: nothing clears CURLOPT_NOPROGRESS, so   *)
(* libcurl never calls it.                                                 *)
(***************************************************************************)
EXTENDS Integers

CONSTANTS Methods,         \* of "GET", "POST" and "SYNC" (do_get in the caller)
          Trusts,          \* of "SYSTEM", "ULTIMATE" and "APPLICATION"
          Stores,          \* may there be public keys for the last two?
          Limits,          \* body limits that the user sets
          SizeMax,         \* SIZE_MAX
          ItemSizes,       \* sizes and numbers of the items in the pieces of a
          ItemCounts,      \* body that libcurl hands over
          MaxConnections,  \* bound: redirects that open a connection
          Faults           \* may curl_easy_setopt() fail? {"setopt"} or {}

ASSUME CurlAssumption ==
  /\ Methods \subseteq {"GET", "POST", "SYNC"}
  /\ Trusts \subseteq {"SYSTEM", "ULTIMATE", "APPLICATION"}
  /\ Stores \subseteq BOOLEAN /\ SizeMax \in Nat
  /\ Limits \subseteq 1..SizeMax
  /\ ItemSizes \subseteq 0..SizeMax /\ ItemCounts \subseteq 0..SizeMax
  /\ MaxConnections \in Nat /\ Faults \subseteq {"setopt"}

VARIABLES
  method, trust, has_cb,     \* fixed when the request is created
  pinned,                    \* the trust store holds public keys
  max_body_size,
  user, worker,              \* where the two threads are
  locked,
  flags,                     \* the bit-fields
  userFlags, workerFlags,    \* copies during an assignment to one of them
  state, header, http_code, handle,
  body,                      \* body_size
  room,                      \* bytes allocated for the body, 0 without one
  received,                  \* the bytes put into it, counted without wrapping
  cert,                      \* verdict on the certificates of the connection
  connections, answered,     \* libcurl: connections so far, and did the
                             \* current one bring a header?
  code, outcome,             \* locals of the worker: http_code and state
  alive,                     \* the structure has not been freed
  calls                      \* times the callback was called

config == <<method, trust, has_cb, pinned>>
buffer == <<body, room, received>>
result == <<state, buffer, header, http_code>>
transfer == <<cert, connections, answered>>
locals == <<code, outcome>>
vars == <<config, max_body_size, user, worker, locked, flags, userFlags,
          workerFlags, result, handle, transfer, locals, alive, calls>>

NoFlags == [finished |-> FALSE, threaded |-> FALSE, untrusted |-> FALSE]
Flags == [finished : BOOLEAN, threaded : BOOLEAN, untrusted : BOOLEAN]
UserState == {"created", "started", "flag", "sync", "idle", "info", "finish",
              "join", "freed"}
WorkerState == {"none", "init", "setup", "form", "perform", "tls", "mark",
                "code", "cache", "publish", "cleanup", "callback", "exited"}
HttpCode == {200, 304, 404}

\* curl_request_create() and the setters that are used before the start.
Init ==
  /\ method \in Methods /\ trust \in Trusts /\ has_cb \in BOOLEAN
  /\ pinned \in Stores
  /\ max_body_size \in Limits
  /\ user = "created" /\ worker = "none" /\ locked = FALSE
  /\ flags = NoFlags /\ userFlags = NoFlags /\ workerFlags = NoFlags
  /\ state = "INPROGRESS" /\ header = FALSE /\ http_code = -1
  /\ body = 0 /\ room = 0 /\ received = 0
  /\ handle = "NULL"
  /\ cert = "none" /\ connections = 0 /\ answered = FALSE
  /\ code = 200 /\ outcome = "OK"
  /\ alive = TRUE /\ calls = 0

-----------------------------------------------------------------------------
(* The worker: curl_request_do_get() and curl_request_do_post()             *)

\* goto done
Give(st) == worker' = "publish" /\ outcome' = st /\ code' = code

EasyInit ==
  /\ worker = "init"
  /\ \/ handle' = "live" /\ worker' = "setup" /\ UNCHANGED locals
     \/ handle' = "NULL" /\ Give("ERROR")
  /\ UNCHANGED <<config, max_body_size, user, locked, flags, userFlags,
                 workerFlags, result, transfer, alive, calls>>

curl_request_setup ==
  /\ worker = "setup" /\ ~locked
  /\ worker' = IF method = "POST" THEN "form" ELSE "perform"
  /\ UNCHANGED <<config, max_body_size, user, locked, flags, userFlags,
                 workerFlags, result, handle, transfer, locals, alive, calls>>

\* CURL_SETOPT returns from curl_request_setup(), in the middle of its locked
\* section or outside of it.
SetupFails ==
  /\ worker = "setup" /\ ~locked /\ "setopt" \in Faults
  /\ Give("ERROR")
  /\ locked' \in BOOLEAN
  /\ UNCHANGED <<config, max_body_size, user, flags, userFlags, workerFlags,
                 result, handle, transfer, alive, calls>>

curl_request_build_form ==
  /\ worker = "form"
  /\ \/ worker' = "perform" /\ UNCHANGED locals
     \/ Give("ERROR")
  /\ UNCHANGED <<config, max_body_size, user, locked, flags, userFlags,
                 workerFlags, result, handle, transfer, alive, calls>>

(* curl_easy_perform() and the callbacks it makes                           *)

\* curl_verify_cert_chain()
curl_verify_cert_chain == cert # "untrusted"

\* A connection over TLS is opened, at first or because of a redirect.
curl_ssl_ctx ==
  /\ worker = "perform" /\ ~locked
  /\ connections < MaxConnections /\ body = 0
  /\ connections' = connections + 1 /\ answered' = FALSE
  /\ IF curl_verify_cert_chain
     THEN cert' = "none" /\ worker' = "tls" /\ UNCHANGED locals
     ELSE cert' = cert /\ Give("ERROR")
  /\ UNCHANGED <<config, max_body_size, user, locked, flags, userFlags,
                 workerFlags, result, handle, alive, calls>>

\* curl_ssl_verify() for the certificates of a connection.
VerifyBySystem ==
  /\ worker = "tls" /\ ~locked /\ trust = "SYSTEM"
  /\ worker' = "perform"
  /\ UNCHANGED <<config, max_body_size, user, locked, flags, userFlags,
                 workerFlags, result, handle, transfer, locals, alive, calls>>

VerifyByStore ==
  /\ worker = "tls" /\ ~locked /\ trust # "SYSTEM" /\ pinned
  /\ cert' \in {"trusted", "untrusted"}
  /\ worker' = "perform"
  /\ UNCHANGED <<config, max_body_size, user, locked, flags, userFlags,
                 workerFlags, result, handle, connections, answered, locals,
                 alive, calls>>

\* SOFT_ASSERT_RC returns before the unlock, and the handshake fails.
VerifyWithoutPins ==
  /\ worker = "tls" /\ ~locked /\ trust = "ULTIMATE" /\ ~pinned
  /\ locked' = TRUE
  /\ Give("ERROR")
  /\ UNCHANGED <<config, max_body_size, user, flags, userFlags, workerFlags,
                 result, handle, transfer, alive, calls>>

\* request->untrusted = true: the byte is read ...
VerifyWithoutKeys ==
  /\ worker = "tls" /\ ~locked /\ trust = "APPLICATION" /\ ~pinned
  /\ locked' = TRUE /\ workerFlags' = flags /\ worker' = "mark"
  /\ UNCHANGED <<config, max_body_size, user, flags, userFlags, result,
                 handle, transfer, locals, alive, calls>>

\* ... and written.
MarkUntrusted ==
  /\ worker = "mark"
  /\ flags' = [workerFlags EXCEPT !.untrusted = TRUE]
  /\ locked' = FALSE /\ worker' = "perform"
  /\ UNCHANGED <<config, max_body_size, user, userFlags, workerFlags, result,
                 handle, transfer, locals, alive, calls>>

\* Mutant: the certificates are checked with the body only.
HeaderUnchecked ==
  /\ worker = "perform" /\ ~locked
  /\ header' = TRUE /\ answered' = TRUE
  /\ UNCHANGED <<config, max_body_size, user, worker, locked, flags, userFlags,
                 workerFlags, state, buffer, http_code, handle, cert,
                 connections, locals, alive, calls>>

curl_header_callback ==
  /\ worker = "perform" /\ ~locked
  /\ IF curl_verify_cert_chain
     THEN header' = TRUE /\ answered' = TRUE /\ UNCHANGED <<worker, locals>>
     ELSE Give("ERROR") /\ UNCHANGED <<header, answered>>
  /\ UNCHANGED <<config, max_body_size, user, locked, flags, userFlags,
                 workerFlags, state, buffer, http_code, handle, cert,
                 connections, alive, calls>>

\* size_t arithmetic.
Word(n) == n % (SizeMax + 1)

\* Mutant: a limit that was lowered below what has been received is not noticed.
AcceptsLoweredLimit(size, nitems) ==
  LET realsize == Word(size * nitems)
  IN  /\ size = 0 \/ realsize \div size = nitems
      /\ realsize <= Word(max_body_size - body)
      /\ body # SizeMax /\ realsize <= Word(SizeMax - body - 1)

\* None of the reasons to refuse a piece applies.
Accepts(size, nitems) ==
  LET realsize == Word(size * nitems)
  IN  /\ size = 0 \/ realsize \div size = nitems
      /\ body <= max_body_size
      /\ realsize <= Word(max_body_size - body)
      /\ body # SizeMax /\ realsize <= Word(SizeMax - body - 1)

\* The next piece of the body.  libcurl notices a refusal, which is a return of 0,
\* unless the piece is empty.
curl_callback(size, nitems) ==
  LET realsize == Word(size * nitems)
  IN  /\ worker = "perform" /\ ~locked /\ answered
      /\ IF curl_verify_cert_chain /\ Accepts(size, nitems)
         THEN /\ room' = Word(body + realsize + 1) /\ body' = Word(body + realsize)
              /\ received' = received + size * nitems
              /\ UNCHANGED <<worker, locals>>
         ELSE /\ IF size * nitems = 0 THEN UNCHANGED <<worker, locals>> ELSE Give("ERROR")
              /\ UNCHANGED buffer
      /\ UNCHANGED <<config, max_body_size, user, locked, flags, userFlags,
                     workerFlags, state, header, http_code, handle, transfer,
                     alive, calls>>

\* The network, a time-out of the connection attempt or TLS ends the transfer.
PerformFails ==
  /\ worker \in {"perform", "tls"}
  /\ Give("ERROR")
  /\ UNCHANGED <<config, max_body_size, user, locked, flags, userFlags,
                 workerFlags, result, handle, transfer, alive, calls>>

\* A response is complete; one with code 304 has no body.
PerformReturns ==
  /\ worker = "perform" /\ answered
  /\ code' \in HttpCode /\ (code' = 304 => body = 0)
  /\ worker' = "code" /\ outcome' = outcome
  /\ UNCHANGED <<config, max_body_size, user, locked, flags, userFlags,
                 workerFlags, result, handle, transfer, alive, calls>>

(* The rest of curl_request_complete()                                      *)

\* Mutant: the state is published before the cache is dealt with.
PublishWithCode ==
  /\ worker = "code" /\ ~locked
  /\ http_code' = code
  /\ IF code = 404 THEN Give("ERROR") /\ UNCHANGED state
     ELSE worker' = "cache" /\ state' = "OK" /\ UNCHANGED locals
  /\ UNCHANGED <<config, max_body_size, user, locked, flags, userFlags,
                 workerFlags, buffer, header, handle, transfer, alive, calls>>

SetHttpCode ==
  /\ worker = "code" /\ ~locked
  /\ http_code' = code
  /\ IF code = 404 THEN Give("ERROR")
     ELSE worker' = "cache" /\ UNCHANGED locals
  /\ UNCHANGED <<config, max_body_size, user, locked, flags, userFlags,
                 workerFlags, state, buffer, header, handle, transfer, alive,
                 calls>>

\* curl_write_cache() leaves the request as it is.
WriteCache ==
  /\ worker = "cache" /\ ~locked /\ code = 200
  /\ Give("OK")
  /\ UNCHANGED <<config, max_body_size, user, locked, flags, userFlags,
                 workerFlags, result, handle, transfer, alive, calls>>

\* curl_load_cache(): a file of a size that off_t can hold becomes the body, unless
\* it is missing, too long or cannot be read.
LoadCache ==
  /\ worker = "cache" /\ ~locked /\ code = 304
  /\ \/ Give("ERROR") /\ UNCHANGED buffer
     \/ \E size \in 0..(SizeMax \div 2) :
          /\ size <= max_body_size
          /\ room' = Word(size + 1) /\ body' = size /\ received' = size
          /\ Give("OK")
  /\ UNCHANGED <<config, max_body_size, user, locked, flags, userFlags,
                 workerFlags, state, header, http_code, handle, transfer,
                 alive, calls>>

(* The end of curl_request_do_get() and curl_request_do_post()              *)

\* Mutant: no result for a user who has given up.
PublishUnlessFinished ==
  /\ worker = "publish" /\ ~locked
  /\ state' = IF flags.finished THEN state ELSE outcome
  /\ worker' = "cleanup"
  /\ UNCHANGED <<config, max_body_size, user, locked, flags, userFlags,
                 workerFlags, buffer, header, http_code, handle, transfer,
                 locals, alive, calls>>

Publish ==
  /\ worker = "publish" /\ ~locked
  /\ state' = outcome /\ worker' = "cleanup"
  /\ UNCHANGED <<config, max_body_size, user, locked, flags, userFlags,
                 workerFlags, buffer, header, http_code, handle, transfer,
                 locals, alive, calls>>

\* curl_easy_cleanup(); request->handle keeps its value.
Cleanup ==
  /\ worker = "cleanup"
  /\ handle' = IF handle = "live" THEN "dead" ELSE handle
  /\ worker' = "callback"
  /\ UNCHANGED <<config, max_body_size, user, locked, flags, userFlags,
                 workerFlags, result, transfer, locals, alive, calls>>

Callback ==
  /\ worker = "callback"
  /\ calls' = IF has_cb /\ ~flags.finished THEN calls + 1 ELSE calls
  /\ worker' = "exited"
  /\ UNCHANGED <<config, max_body_size, user, locked, flags, userFlags,
                 workerFlags, result, handle, transfer, locals, alive>>

-----------------------------------------------------------------------------
(* The user                                                                 *)

\* pthread_create() in curl_request_start_get() or curl_request_start_post(),
\* or a direct call of curl_request_do_get().
Start ==
  /\ user = "created"
  /\ worker' = "init"
  /\ user' = CASE method = "GET" -> "started"
               [] method = "POST" -> "idle"
               [] OTHER -> "sync"
  /\ UNCHANGED <<config, max_body_size, locked, flags, userFlags, workerFlags,
                 result, handle, transfer, locals, alive, calls>>

StartFails ==
  /\ user = "created" /\ method # "SYNC"
  /\ state' = "ERROR" /\ user' = "idle"
  /\ UNCHANGED <<config, max_body_size, worker, locked, flags, userFlags,
                 workerFlags, buffer, header, http_code, handle, transfer,
                 locals, alive, calls>>

\* request->threaded = true, without the lock: the byte is read ...
RememberThread ==
  /\ user = "started"
  /\ userFlags' = flags /\ user' = "flag"
  /\ UNCHANGED <<config, max_body_size, worker, locked, flags, workerFlags,
                 result, handle, transfer, locals, alive, calls>>

\* ... and written.
ThreadRemembered ==
  /\ user = "flag"
  /\ flags' = [userFlags EXCEPT !.threaded = TRUE] /\ user' = "idle"
  /\ UNCHANGED <<config, max_body_size, worker, locked, userFlags,
                 workerFlags, result, handle, transfer, locals, alive, calls>>

SyncReturns ==
  /\ user = "sync" /\ worker = "exited"
  /\ user' = "idle"
  /\ UNCHANGED <<config, max_body_size, worker, locked, flags, userFlags,
                 workerFlags, result, handle, transfer, locals, alive, calls>>

curl_request_set_max_body ==
  /\ user = "idle" /\ ~locked
  /\ max_body_size' \in Limits
  /\ UNCHANGED <<config, user, worker, locked, flags, userFlags, workerFlags,
                 result, handle, transfer, locals, alive, calls>>

\* curl_request_sizeinfo(): the state and the handle are looked at ...
SizeinfoCheck ==
  /\ user = "idle" /\ ~locked
  /\ state = "INPROGRESS" /\ handle # "NULL"
  /\ user' = "info"
  /\ UNCHANGED <<config, max_body_size, worker, locked, flags, userFlags,
                 workerFlags, result, handle, transfer, locals, alive, calls>>

\* ... and the handle is given to curl_easy_getinfo().
SizeinfoRead ==
  /\ user = "info"
  /\ user' = "idle"
  /\ UNCHANGED <<config, max_body_size, worker, locked, flags, userFlags,
                 workerFlags, result, handle, transfer, locals, alive, calls>>

(* curl_request_free()                                                      *)

FreeCheck ==
  /\ user \in {"created", "idle"} /\ ~locked
  /\ user' = IF state = "INPROGRESS" THEN "finish" ELSE "join"
  /\ UNCHANGED <<config, max_body_size, worker, locked, flags, userFlags,
                 workerFlags, result, handle, transfer, locals, alive, calls>>

FreeFinish ==
  /\ user = "finish" /\ ~locked
  /\ flags' = [flags EXCEPT !.finished = TRUE] /\ user' = "join"
  /\ UNCHANGED <<config, max_body_size, worker, locked, userFlags,
                 workerFlags, result, handle, transfer, locals, alive, calls>>

\* Mutant: the thread is not waited for.
FreeWithoutJoin ==
  /\ user = "join"
  /\ alive' = FALSE /\ user' = "freed"
  /\ UNCHANGED <<config, max_body_size, worker, locked, flags, userFlags,
                 workerFlags, result, handle, transfer, locals, calls>>

FreeJoin ==
  /\ user = "join" /\ (flags.threaded => worker = "exited")
  /\ alive' = FALSE /\ user' = "freed"
  /\ UNCHANGED <<config, max_body_size, worker, locked, flags, userFlags,
                 workerFlags, result, handle, transfer, locals, calls>>

-----------------------------------------------------------------------------
\* Steps that the worker takes by itself.
WorkerStep ==
  \/ EasyInit \/ curl_request_setup \/ SetupFails \/ curl_request_build_form
  \/ SetHttpCode \/ WriteCache \/ LoadCache \/ Publish \/ Cleanup \/ Callback
  \/ VerifyBySystem \/ VerifyByStore \/ VerifyWithoutPins \/ VerifyWithoutKeys
  \/ MarkUntrusted

\* Steps that the peer brings about, and those that end the transfer.
PeerStep ==
  \/ curl_ssl_ctx \/ curl_header_callback
  \/ \E size \in ItemSizes, nitems \in ItemCounts : curl_callback(size, nitems)
PeerEnds == PerformFails \/ PerformReturns

\* Calls that have been made and go on, and calls that the user may make.
UserStep ==
  \/ RememberThread \/ ThreadRemembered \/ SyncReturns \/ SizeinfoRead
  \/ FreeFinish \/ FreeJoin
UserCall ==
  \/ Start \/ StartFails \/ curl_request_set_max_body \/ SizeinfoCheck
  \/ FreeCheck

Over ==
  /\ user = "freed" /\ worker \in {"none", "exited"}
  /\ UNCHANGED vars

Next == WorkerStep \/ PeerStep \/ PeerEnds \/ UserStep \/ UserCall \/ Over

Spec == Init /\ [][Next]_vars

\* Both threads run, and a call that has been made goes on.
ThreadFairness == WF_vars(WorkerStep) /\ WF_vars(UserStep)

\* The peer may stall: no time-out for the transfer is set.
StallSpec == Spec /\ ThreadFairness

\* Every transfer ends, well or badly.
FairSpec == Spec /\ ThreadFairness /\ WF_vars(PeerEnds)

-----------------------------------------------------------------------------
(* Properties                                                               *)

\* The request's fields and both threads' places keep their types: the state
\* that curl_request_get_state() returns is INPROGRESS, OK or ERROR, never NONE,
\* also when the worker thread could not be created.
TypeOK ==
  /\ method \in Methods /\ trust \in Trusts /\ has_cb \in BOOLEAN
  /\ pinned \in Stores
  /\ max_body_size \in Limits
  /\ user \in UserState /\ worker \in WorkerState /\ locked \in BOOLEAN
  /\ flags \in Flags /\ userFlags \in Flags /\ workerFlags \in Flags
  /\ state \in {"INPROGRESS", "OK", "ERROR"}
  /\ body \in 0..SizeMax /\ room \in 0..SizeMax /\ received \in Nat
  /\ header \in BOOLEAN /\ http_code \in HttpCode \cup {-1}
  /\ handle \in {"NULL", "live", "dead"}
  /\ cert \in {"none", "trusted", "untrusted"}
  /\ connections \in 0..MaxConnections /\ answered \in BOOLEAN
  /\ code \in HttpCode /\ outcome \in {"OK", "ERROR"}
  /\ alive \in BOOLEAN /\ calls \in Nat

\* curl_request_get_body(), _get_header() and _get_http_code() return pointers
\* and values without the lock once the state is no longer INPROGRESS.  That is
\* sound only if nothing changes any more from then on.
ResultIsFrozen == [][state # "INPROGRESS" => UNCHANGED result]_vars

\* What is stored, be it received or loaded from the cache, is within the limit that
\* holds at that moment, body_size is its true length, and the memory allocated for
\* it has room for the terminator: none of the sizes has wrapped, although the
\* limit may be lowered below what has been received while the transfer runs, and
\* may be SIZE_MAX.
StoredWithinLimit ==
  [][buffer' # buffer => /\ received' <= max_body_size
                         /\ body' = received' /\ room' = received' + 1]_vars

\* With public keys to check against, nothing is taken from a peer whose
\* certificates fail the check, although the check runs only in the callbacks
\* that follow the handshake.
NoDataFromUntrustedPeer ==
  body > 0 \/ state = "OK" => cert # "untrusted"

\* curl_request_free() waits for the worker before it frees what it uses.
NoUseAfterFree == ~alive => worker \in {"none", "exited"}

\* It does, whenever `free' and the transfer meet, if the request was started by
\* curl_request_start_get() or run in the caller and curl_ssl_verify() never
\* assigned to the byte that `threaded' is part of.
FreeWaitsForWorker ==
  method # "POST" /\ (trust = "APPLICATION" => pinned) => NoUseAfterFree

\* curl_request_sizeinfo() asks a handle that still exists.
LiveHandle == user = "info" => handle # "dead"

\* A request that runs in a thread of its own is known to.
ThreadIsRemembered ==
  method = "GET" /\ worker # "none" /\ user \notin {"started", "flag"}
    => flags.threaded

\* What curl_request_get_body() documents: no body if the request failed.
FailedHasNoBody == state = "ERROR" => body = 0

\* A started request is completed with a result or an error, and then
\* curl_request_free() returns.
EveryRequestCompletes == worker # "none" ~> state # "INPROGRESS"
EveryFreeReturns == user \in {"finish", "join"} ~> user = "freed"

\* Both hold, for every order of the threads' steps, except that a mutex which a
\* return forgot to unlock stops everyone who asks for it: curl_request_do_get(),
\* curl_request_do_post() and curl_request_free() wait for nothing else.
CallsComplete == (EveryRequestCompletes /\ EveryFreeReturns) \/ <>[]locked

=============================================================================
