----------------------------- MODULE CurlCache -----------------------------
(***************************************************************************)
(* The file cache of HTTP requests (curl.c) and the atomic replacement of  *)
(* files under it (path_write_atomic() in path.c).  A resource has a body  *)
(* file and a .etag file; a request sends the stored ETag, a 304 answer    *)
(* is served from the body file, a 200 answer replaces the body and then,  *)
(* if it has an ETag, the .etag file.                                      *)
(*                                                                         *)
(* The program may crash between any two system calls.  `view' is what the *)
(* running system sees of a file and `disk' what is on the disk: a rename  *)
(* reaches the disk at some later time, and a file that was renamed before *)
(* its data was synchronised may come back incomplete.  Contents are the   *)
(* version of the resource that they belong to, 0 for no file.             *)
(***************************************************************************)
EXTENDS Naturals, FiniteSets

CONSTANTS Worker,       \* threads with a request for the resource
          Tagged,       \* versions that the server sends with an ETag: 1..n
          MaxVersion,   \* bound: versions of the resource
          MaxRequests,  \* bound: requests in a behaviour
          MaxCrashes    \* bound: crashes

ASSUME CacheAssumption ==
  /\ MaxVersion \in Nat \ {0} /\ Tagged \subseteq 1..MaxVersion
  /\ MaxRequests \in Nat /\ MaxCrashes \in Nat

VARIABLES version,      \* server: the current version
          view, disk,   \* File -> content
          unsynced,     \* contents of `view' whose data may not be on the disk
          pc, file,     \* per worker: place, and the file it is writing
          sent,         \* per worker: ETag sent, 0 for none
          body,         \* per worker: request->body
          temp,         \* per worker: "none", "written", "synced": its temporary
          orphans,      \* whether a crash left temporaries behind
          split,        \* whether body and ETag may be of two answers: see Split
          requests, crashes

cacheVars == <<version, view, disk, unsynced, pc, file, sent, body, temp, orphans,
               split, requests, crashes>>
serverVars == <<version, requests, crashes>>

File == {"body", "etag"}
TORN == MaxVersion + 1

CacheInit ==
  /\ version = 1 /\ view = [f \in File |-> 0] /\ disk = view /\ unsynced = {}
  /\ pc = [w \in Worker |-> "idle"] /\ file = [w \in Worker |-> "body"]
  /\ sent = [w \in Worker |-> 0] /\ body = [w \in Worker |-> 0]
  /\ temp = [w \in Worker |-> "none"] /\ orphans = FALSE
  /\ split = FALSE /\ requests = 0 /\ crashes = 0

Goto(w, p) == pc' = [pc EXCEPT ![w] = p]
Others(w) == Worker \ {w}

-----------------------------------------------------------------------------
(* Requests                                                                 *)

\* curl_request_do_get(): curl_load_etag() reads the .etag file, if there is one.
curl_load_etag(w) ==
  /\ pc[w] = "idle" /\ requests < MaxRequests /\ requests' = requests + 1
  /\ sent' = [sent EXCEPT ![w] = view["etag"]] /\ body' = [body EXCEPT ![w] = 0]
  /\ split' = (split \/ \E u \in Others(w) : pc[u] # "idle")
  /\ Goto(w, "transfer")
  /\ UNCHANGED <<version, view, disk, unsynced, file, temp, orphans, crashes>>

\* External: the resource changes.
Publish ==
  /\ version < MaxVersion /\ version' = version + 1
  /\ UNCHANGED <<view, disk, unsynced, pc, file, sent, body, temp, orphans, split,
                 requests, crashes>>

\* The transfer: 304 if the ETag is the current one, 200 with a body, or an error.
NotModified(w) ==
  /\ pc[w] = "transfer" /\ sent[w] = version /\ version \in Tagged
  /\ Goto(w, "load")
  /\ UNCHANGED <<view, disk, unsynced, file, sent, body, temp, orphans, split>>
  /\ UNCHANGED serverVars

Answered(w) ==
  /\ pc[w] = "transfer" /\ ~(sent[w] = version /\ version \in Tagged)
  /\ body' = [body EXCEPT ![w] = version] /\ file' = [file EXCEPT ![w] = "body"]
  /\ Goto(w, "create")
  /\ UNCHANGED <<view, disk, unsynced, sent, temp, orphans, split>> /\ UNCHANGED serverVars

TransferFails(w) ==
  /\ pc[w] = "transfer" /\ Goto(w, "idle")
  /\ UNCHANGED <<view, disk, unsynced, file, sent, body, temp, orphans, split>>
  /\ UNCHANGED serverVars

\* curl_load_cache(); the request ends in an error if there is no body file, or it
\* cannot be read, or is longer than the limit of the request.
curl_load_cache(w) ==
  /\ pc[w] = "load"
  /\ \/ view["body"] # 0 /\ body' = [body EXCEPT ![w] = view["body"]] /\ Goto(w, "served")
     \/ UNCHANGED body /\ Goto(w, "idle")
  /\ UNCHANGED <<view, disk, unsynced, file, sent, temp, orphans, split>>
  /\ UNCHANGED serverVars

Finish(w) ==
  /\ pc[w] = "served" /\ Goto(w, "idle")
  /\ UNCHANGED <<view, disk, unsynced, file, sent, body, temp, orphans, split>>
  /\ UNCHANGED serverVars

-----------------------------------------------------------------------------
(* path_write_atomic() of file[w], called by curl_write_cache()             *)

\* What curl_write_cache() does when path_write_atomic() has returned ok.
Continue(w, ok) ==
  IF ok /\ file[w] = "body" /\ body[w] \in Tagged
  THEN Goto(w, "create") /\ file' = [file EXCEPT ![w] = "etag"]
  ELSE Goto(w, "idle") /\ UNCHANGED file

\* Body and ETag may from now on be of two answers: a stored answer has no ETag
\* of its own, or its ETag could not be written.
Split(w, ok) ==
  split' = \/ split
           \/ ok /\ file[w] = "body" /\ body[w] \notin Tagged
           \/ ~ok /\ file[w] = "etag"

\* mkstemp(), fchmod(), fdopen(), fwrite() and fflush() of a file that nobody
\* else knows.
WriteTemporary(w) ==
  /\ pc[w] = "create" /\ temp' = [temp EXCEPT ![w] = "written"] /\ Goto(w, "sync")
  /\ UNCHANGED <<view, disk, unsynced, file, sent, body, orphans, split>>
  /\ UNCHANGED serverVars

\* Mutant: fsync() is left out.
SyncNothing(w) ==
  /\ pc[w] = "sync" /\ Goto(w, "rename")
  /\ UNCHANGED <<view, disk, unsynced, file, sent, body, temp, orphans, split>>
  /\ UNCHANGED serverVars

Sync(w) ==
  /\ pc[w] = "sync" /\ temp' = [temp EXCEPT ![w] = "synced"] /\ Goto(w, "rename")
  /\ UNCHANGED <<view, disk, unsynced, file, sent, body, orphans, split>>
  /\ UNCHANGED serverVars

path_rename(w) ==
  /\ pc[w] = "rename"
  /\ view' = [view EXCEPT ![file[w]] = body[w]]
  /\ unsynced' = IF temp[w] = "synced" THEN unsynced \ {file[w]} ELSE unsynced \cup {file[w]}
  /\ temp' = [temp EXCEPT ![w] = "none"] /\ Continue(w, TRUE) /\ Split(w, TRUE)
  /\ UNCHANGED <<disk, sent, body, orphans>> /\ UNCHANGED serverVars

\* Any of the calls fails: the temporary is removed and the target is untouched.
WriteFails(w) ==
  /\ pc[w] \in {"create", "sync", "rename"}
  /\ temp' = [temp EXCEPT ![w] = "none"] /\ Continue(w, FALSE) /\ Split(w, FALSE)
  /\ UNCHANGED <<view, disk, unsynced, sent, body, orphans>> /\ UNCHANGED serverVars

-----------------------------------------------------------------------------
(* The system                                                               *)

\* External: a renamed file reaches the disk, with its data.
Settle(f) ==
  /\ (disk[f] # view[f] \/ f \in unsynced)
  /\ disk' = [disk EXCEPT ![f] = view[f]] /\ unsynced' = unsynced \ {f}
  /\ UNCHANGED <<view, pc, file, sent, body, temp, orphans, split>> /\ UNCHANGED serverVars

\* A crash: every file is what the disk has, or what was renamed over it, which
\* is torn if its data was not synchronised.
Recovered(f) == {disk[f], IF f \in unsynced THEN TORN ELSE view[f]}

Crash ==
  /\ crashes < MaxCrashes /\ crashes' = crashes + 1
  /\ \E found \in [File -> 0..TORN] :
       /\ \A f \in File : found[f] \in Recovered(f)
       /\ view' = found /\ disk' = found
       /\ split' = \/ split \/ found["body"] # found["etag"]
  /\ unsynced' = {} /\ pc' = [w \in Worker |-> "idle"]
  /\ orphans' = (orphans \/ \E w \in Worker : temp[w] # "none")
  /\ temp' = [w \in Worker |-> "none"]
  /\ UNCHANGED <<version, file, sent, body, requests>>

CacheNext ==
  \/ \E w \in Worker :
       \/ curl_load_etag(w) \/ NotModified(w) \/ Answered(w) \/ TransferFails(w)
       \/ curl_load_cache(w) \/ Finish(w)
       \/ WriteTemporary(w) \/ Sync(w) \/ path_rename(w) \/ WriteFails(w)
  \/ Publish \/ Crash \/ \E f \in File : Settle(f)

CacheSpec == CacheInit /\ [][CacheNext]_cacheVars

-----------------------------------------------------------------------------

\* Replacement is atomic: whatever fails and whenever the program crashes, both
\* files hold one complete answer, also when threads write the same file.
NothingTorn == \A f \in File : view[f] # TORN /\ disk[f] # TORN

\* What a 304 answer is served with is the body that the ETag was sent for,
\* unless body and ETag were parted by a crash, by an answer without an ETag, by a
\* failure to write the ETag, or by two requests for the resource at a time.
\* (A body that could not be written keeps its ETag unwritten.)
ServedMatchesETag == \A w \in Worker : pc[w] = "served" => split \/ body[w] = sent[w]

\* The cache never serves what no server sent for the request: files are whole,
\* and a 304 answer is served with the body of its ETag (curl_load_etag(),
\* curl_load_cache(), curl_write_cache()).
CacheIsSound == NothingTorn /\ ServedMatchesETag
=============================================================================
