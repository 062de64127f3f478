# TLA+ models of libatrinik

libatrinik is the C library shared by the Atrinik client and server: sockets
over QUIC with direct connections through NAT, HTTP downloads, child processes,
memory pools, shared strings, packets, pathfinding and a toolkit of helpers.
This directory holds models of the parts whose correctness depends on the order
in which threads, peers, callbacks or long sequences of calls do things, of the
formats that go over the wire, and of the algorithms under them; the TLC
configurations that check them on small instances; and proofs that TLAPS checks
for instances of every size.  `PROJECT.json` records which definition stands for
which lines of the source.

Run a model with `tlc -workers 2 -config X.cfg M`, a proof module with
`tlapm M.tla`.

## Inventory

| Component | State it keeps | Operations | What is hard about it | What makes it correct |
|---|---|---|---|---|
| QUIC candidate plan (`socket_quic.c` 529-881) | candidates, their order, tasks | order by kind and preference, deal to tasks, place the punched socket | tiers, preferences, unparsable addresses, no NAT candidate | a stable sort; every usable candidate in one task; NAT routes share the punched socket |
| QUIC candidate race (`socket_quic.c` 554-957) | one record per task, a shared race record under a lock | start, handshake, finish, wait, cancel, join, select | threads, deadlines, a grace window, `pthread_create()` failing, results read without the lock | best confirmed route returned; every other socket closed once; the call returns |
| Rendezvous, STUN, punching (`socket_direct.c`) | candidate list, punch jobs, receive buffer, deadline | STUN, signalling, schedule, update, collect | messages in parts, lost and foreign probes, few jobs, a deadline that is seldom looked at | the list is bounded and free of duplicates and strangers; what is returned was punched; the call ends |
| Typed QUIC streams (`socket.c` 370-700, 1321-1372) | pending list and its count, preface positions, game stream | open, preface read/write, poll, accept, reject, destroy, close | prefaces in pieces, resets, timeouts, a full list | one owner per stream; consumers get their kind; useful streams are not starved |
| Serving a connection (`socket.c`, `socket_quic.c` 1003-1060) | cached timer of the QUIC engine, handshake and game stream flags | accept, wait, service, read, write | timers without datagrams, data pumped for another connection | an event loop that sleeps as long as it is told misses nothing |
| Other socket operations, server identity | descriptor, options, key files | create, bind, options, resolve | wrappers over system calls and OpenSSL | not modelled, except the comparison of addresses |
| Packets (`packet.c`) | buffer, size, limit, sticky error; reader cursor; stack of scopes | write, mark, roll back, delete, copy, limit; read, begin and finish a scope | growth up to a limit that changes, use after failure, several readers of one packet | within bounds; reads back as written; a failure is final; the verdict is right |
| Asset and map protocol (`socket_asset.c`, `map_protocol.c`) | none | append, parse, validate | nested counts and lengths | exactly the sound messages are accepted |
| HTTP requests (`curl.c`) | one `curl_request_t` shared by two threads and its mutex, trust stores | create, start, callbacks, complete, getters, free | two threads, bit-fields, early returns inside locked sections | published results are final; no data of an untrusted peer; no use after free; everything completes |
| HTTP cache (`curl.c` 419-576, `path_write_atomic()`) | a body file and an ETag file per path | load, write | crashes and failures between the writes, two threads | files are whole; a 304 answer is served with the body of its ETag |
| Child processes (`process.c`) | list of processes, packet queues, pipes | create, start, send, check, stop, free | partial writes, hang-ups, restarts, callbacks inside the poll loop | packets arrive whole; exits are noticed; descriptors belong to their process |
| Pathfinding search (`pathfinding/pathfinding.c`) | nodes, heap, budgets | `atrinik_pf_search()` | reopening, zero-cost steps, saturation, failures in the middle of an expansion | routes are real and cheapest; "no path" is true; budgets hold; it ends |
| Pathfinding heap, hash, reachability | node array, hash slots, heap array with back pointers | add, find, rebuild, push, pop, improve; flood | collisions, rebuilding, index arithmetic | a priority queue; exactly the reachable states |
| Memory pools (`mempool.c`) | freelists, counters, puddles | get, return, expand, reclaim, deinit | the pool of descriptors is reclaimed like every other pool | used chunks stay allocated; lists and counters are exact; only leaks remain |
| Shared strings (`shstr.c`) | hash chains, counts with a flag bit | add, find, reference, free | the flag moves when the head of a chain goes | one entry per text with the right count; chains stay linked |
| String buffers, strings, paths (`stringbuffer.c`, `string.c`, `path.c`) | a growing array | append, format, seek, finish; some forty functions on texts | off-by-one, empty texts, separators in a row | room for the terminator; agreement with what they are documented to compute |
| Toolkit registry (`toolkit.c`, `toolkit.h`) | list of APIs, one flag per API | import, register, deinitialise | the graph of APIs is cyclic | an API outlives those that depend on it |
| Console (`console.c`) | queue of lines, two mutexes, a thread | read, push, handle, cancel | a pointer into the queue is kept outside the lock; asynchronous cancellation | lines are handled once, in order |
| Command line options (`clioptions.c`) | options and their values, run-time flag | create, parse, load, set, get | abbreviations, files that load files | fixed options stay fixed; names find their options |
| Mathematics (`math.c`, `bresenham.h`) | none | root, random ranges, list sort, lines | boundaries | agreement with the definition |
| Logger, signals, dates, colours, passwords, porting, vendored containers | none worth relating | | formatting, platform I/O | not modelled |

How they meet: `socket_quic_client_create()` calls the rendezvous code, plans the
returned candidates, races them and hands the winner to the stream code, whose
game stream carries packets and whose asset streams carry asset messages; the
server's event loop serves the connections.  curl requests and their cache call into
`path.c`.  `process.c` queues packets and calls back into its user from inside its
poll loop.  Packets, strings and puddles come from memory pools.  All of them
are brought up and down by the toolkit.

## Modules

| Module | Models | State and actions |
|---|---|---|
| `CandidatePlan` | planning of candidates | pure operators: `ordered_priorities`, `ordered_candidates`, `DealCandidate`, `initial_socket_task`, `RacePlan` |
| `QuicRace` | the race | `main`/`next` are the caller's place in `socket_quic_client_create()`, `pc`/`idx` a task's place in `socket_quic_candidate_thread()`; a section under `race->lock` is one step; `Expire` and `WindowElapses` are the passing of time |
| `QuicConnect` | composition of both | rendezvous hands over candidates one at a time, the plan follows, `QuicRace` races it |
| `RouteChoice` | what a caller of `socket_quic_client_create()` may rely on | abstract: candidates are begun, fail or are confirmed; a best confirmed route or nothing is returned |
| `QuicRaceProofs` | | theorems about `QuicRace`, and that it implements `RouteChoice` |
| `Rendezvous` | `socket_rendezvous_client()` | the client's place is `pc`; the WebSocket `ws` and the UDP socket `udp` are queues that the service and the network fill; `jobs` are the punch jobs |
| `RendezvousProofs` | | theorems about `Rendezvous` |
| `QuicStreams`, `MCQuicStreams` | client and server side of one connection | a call of the server keeps its place in `pc` and, in the list of pending streams, in `at`: one stream is polled or looked at per step; the client opens, writes prefaces piece by piece, resets |
| `QuicStreamsProofs` | | theorems about `QuicStreams` |
| `QuicService`, `MCQuicLive` | one accepted connection, over QUIC or TCP, and its event loop | `loop` is the loop's place; the QUIC engine (external) works on what is in `inbox`; times are what remains of them |
| `PacketCodec`, `Packet` | writers and readers | operators for every function; the actions of `Packet` are a program that calls them in any order |
| `PacketScope` | reader scopes | a stack of scopes, readers that come and go |
| `PacketProofs` | | theorems about `Packet` and `PacketScope` |
| `AssetProtocol`, `MapProtocol`, `MCWire` | the codecs | a step composes one more part of a message; the operators encode, parse and validate |
| `CurlRequest` | one request | `user` and `worker` are the two threads' places, `locked` the mutex, `flags` the byte of bit-fields with its two non-atomic writers; peers act through the libcurl callbacks |
| `CurlRequestProofs` | | theorems about `CurlRequest` |
| `CurlCache` | the cache and atomic replacement | `view` is what the system sees of the files, `disk` what survives a crash; workers load, get an answer and write, one system call at a time |
| `Process`, `MCProcess` | `process.c`, POSIX build | a call that polls keeps its place in `pc`, `cur`, `pipe`, `idx`; one packet is written per step; children read, write and exit between any two steps; `sends` and `misled` are history |
| `ProcessProofs` | | theorems about `Process` |
| `Pathfinding`, `MCPathfinding` | `atrinik_pf_search()` | one action per way through the loop and through `pf_emit_transition()`; the hash table is the set `known`, the heap a set with its order |
| `PathfindingProofs` | | theorems about `Pathfinding` |
| `PriorityQueue` | what the search takes for granted of its frontier | abstract: insert, improve, take the first |
| `PfFrontier` | node array, hash and heap | implements `PriorityQueue` |
| `Reachable` | `atrinik_pf_reachable()` | one successor per step |
| `Mempool` | an ordinary pool and `pool_puddle` | the functions work on the record `mem`; get, return, reclaim and the steps of deinitialisation are actions; `mempool_free_puddles()` takes a step for each puddle it sifts and links again, with its place in `pass` |
| `SharedStrings`, `StringBuffer` | `shstr.c`, `stringbuffer.c` | links as in the code; `held` and `meant` record what the caller is owed |
| `StringText`, `PathText`, `Text` | functions on texts | operators; `Text` states what they promise, over a text that grows |
| `Numbers` | functions on numbers | operators and what they are to compute |
| `Toolkit` | the registry and the generated initialisation functions | `stack` holds the functions in progress |
| `Console` | reader thread and main loop | one step per locked section |
| `CliOptions` | options | `frames` are the files being loaded |
| `MCLibrary` | instance of the modules from `PfFrontier` to `CliOptions` and of `CurlCache` | `part` is the one a behaviour exercises |
| `LibraryProofs` | | theorems about `CurlCache`, `Console`, `StringBuffer`, `Toolkit`, `Reachable`, `SharedStrings`, `CliOptions` and `Mempool` |

Definitions whose comment begins with "Mutant" are variants with a plausible mistake.
Each property of a passing run is known to fail when the definition named in
`PROJECT.json` is replaced by such a variant.

## Runs

| Run | Checks | Bounds, and why they are enough |
|---|---|---|
| `quic_connect` | the plan against a declarative sort and partition (`PlanIsRight`); the race (`SelectsBestConfirmedRoute`, `SocketsAreAccountedFor`, `NatThroughPunchedSocket`, `CallReturns`) and that it implements `RouteChoice` (`ChoosesRoute`) | lists of up to `MaxRendezvous` = 3 candidates plus the directory's, of every kind and preference, are planned: two of one kind and one of another show both ties and order.  Up to `MaxRaced` = 2 of them are raced with the directory's: three tasks, or a NAT task with several candidates beside another.  Longer races are covered by the theorems |
| `rendezvous` | `ListIsSound`, `CandidatesArePunched`, `SilenceEndsCall` | three endpoints for a list of two, so that it overflows; two jobs of two probes; messages of up to two parts, as many as the buffer holds; queues of one, refilled at any time |
| `pathfinding` | `RoutesAreReal`, `NoPathIsTrue`, `FoundIsOptimal`, `BudgetsHold`, `PartialIsBest`, `SearchEnds` | four states; one family has all choices of present and absent edges with costs from 0 to 4 and heuristics that are consistent, inconsistent and inadmissible (two middle states that improve each other are the smallest case in which a closed node is reopened); the other, on three graphs, each budget on its own, faults at every point and `UINT64_MAX` = 6, so that saturation and overflow happen |
| `curl_request` | `FreeWaitsForWorker`, `NoDataFromUntrustedPeer`, `ResultIsFrozen`, `StoredWithinLimit`, `CallsComplete` | all start functions, trusts and stores; two connections, so that one follows a judged one; `size_t` has three bits, so that pieces of 0 to 8 bytes reach its end and a product wraps; limits 2 and `SizeMax`, changed at any time.  Deadlock is not checked: a leaked mutex really stops both threads, and `CallsComplete` says that nothing else does |
| `process_queue` | `NothingDroppedOrRepeated`, `ChildrenAreKnown` | two processes, two packets of two units and a pipe of one: every write is partial; two starts, so that one is a restart |
| `process_live` | `ChildIsServed` | one process, a pipe that holds one and a half packets |
| `quic_streams` | `StreamsAreSound` | three streams, two pending slots, prefaces of two units; streams are interchangeable (symmetry) |
| `quic_live` | `StreamsAreServed`, `NothingIsMissed` | streams: the same with one slot, without symmetry, so that starvation could happen.  Event loop: two datagrams in flight, an idle time-out of 3, and no time-out of the loop's own, so that it depends on what `socket_quic_timeout()` says.  The program may stop when the connection is closed |
| `wire` | `PacketIsSound`, `VerdictIsRight`, `CodecsAgree`, `FailureSticks` | bytes have four values in packets (fields keep their widths); limits on, below and above the sizes of the fields; two readers that start anywhere, two scopes, a packet and a part of it; asset messages with every status and flag, one size beyond the limit included; map commands with up to two levels and cells that take each branch of the validator |
| `library` | `PoolIsExact`, `ReachableIsExact`, `InternedOnce`, `BufferHoldsText`, `FunctionsAgree`, `DependenciesOutlive`, `LinesHandledInOrder`, `CacheIsSound`, `OptionsAreSound`, `FrontierImplementsQueue` | pools: blocks of two chunks, five blocks, so that the pool of puddles grows twice and a descriptor is used again; frontier: four states whose probes collide, in tables that start with two places (states with the same hash value are interchangeable: symmetry); graphs of three places; four strings, three in one chain; texts of up to five characters over the five that matter; numbers up to 70, words of three bits, lists of six; the actual API graph; three lines; two threads, three versions of which one has no ETag, one crash; three options given.  What the parts have done is done: deadlock is not checked |
| `curl_post_free` | finding: `NoUseAfterFree` fails for POST requests | |
| `process_send_order` | finding: `ChildReadsPackets` fails | |

Constants named `Max...` are the only other bounds.  With the plans that the code
computes, the NAT kinds are contiguous in the order, so tasks come in the order of
their best rank and the branch of the selection loop that replaces a held result
(`socket_quic.c` 923-925) is not taken in `quic_connect`; the theorems cover it, since
they hold for every well-formed plan.

## Refinement

`RouteChoice` says what a connection attempt is, without threads, locks, time and
sockets: each task tries its candidates in order; a task with a confirmed route tries
no more; the call returns a best confirmed route as soon as it likes, but nothing only
if every candidate was tried in vain, or before it has begun; after the return nothing
happens.  `QuicRace` implements it (`ChoosesRoute`) under the mapping that takes the
ranks from the plan, `trying` from the tasks' `idx`, `confirmed` from the ranks of
the connected tasks, and that sees the beginning and the return in the caller's
place `main`.  TLC checks this on `quic_connect`; `Implements` proves it.  The
proof uses the inductive invariant of the race twice: that no task moves after the
caller has joined it, and that what the selection loop holds when it ends is a least rank.

`PriorityQueue` says what a search expects of its frontier: a state is queued at most
once, its priority only improves, and the one taken is the least, the first discovered
among equals.  `PfFrontier` has the arrays of the code.  `FrontierImplementsQueue`
is the abstract specification under the mapping that reads the queue off the heap array and
the discovered states off the node array; hash table and back pointers do not occur
in it, and are right if no step through them ever departs from it.  `Pathfinding` uses the
abstract form.

## Fairness

* `QuicRace`: threads are scheduled (`MainStep`, `TaskStep` weakly fair) and time
  passes (`Expire`: a handshake's deadline is reached).  Nothing is assumed of
  peers or of the grace window.
* `Rendezvous`: the client is a running thread.  Nothing is assumed of the service;
  `SilenceEndsCall` is about the time after it fell silent, because a service that goes on
  sending keeps the call in its loop.
* `Pathfinding`: the search goes on; it is one thread.
* `CurlRequest`: both threads run, and every transfer ends, well or badly.  The
  latter is an assumption on the peer, since the code sets no time-out for a
  transfer: without it (`StallSpec`) `EveryFreeReturns` fails.
* `Process`: calls return, the program's main loop calls `process_check_all()`
  again and again (strongly, because it is only possible between other calls),
  and a living child reads its input.
* `QuicStreams`: the server goes on with calls it has begun, reads or writes its
  game stream and asks for asset streams again and again (strongly, because it can
  only do so between calls); the client writes its game preface; the preface time-out
  passes (strongly, because the model lets it pass only while no scan is going on).
  Nothing is assumed of other streams.
* `QuicService`: the loop goes on, and the clock does, however much arrives (strongly,
  since it only moves while the loop sleeps).

## What is proved

Each theorem holds for every value of the constants that the assumptions of its
module allow.  Those assumptions only say what kind of values the constants are (numbers,
sequences, well-formed plans, graphs); none excludes a size that the code can meet.
Proofs have one step per action.  An inductive invariant that TLC can evaluate was
checked on the runs' instances before it was proved.

`QuicRaceProofs`, for every number of tasks and every set `Plans` of well-formed
plans (`PlansAssumption`): `TypeCorrect`, `BestRoute` (the returned route is the best
confirmed one), `NoEarlyGivingUp`, `SocketOwnership` (one owner per socket, and only
the selected one stays open), `NatRoute`, the action property `Improvement`, and
`Implements`, the refinement of `RouteChoice`.
They rest on `Invariance`: `IInv` is inductive.  None of the properties is
inductive alone.  That the selection is right needs to know which tasks the loop
has passed (`SelectInv`) and that every thread is gone by then (`ControlInv`);
`ControlInv` needs that a task not started as a thread ran to its end in the caller.
That nothing leaks needs an exact account of the open sockets (`OpenInv`), which
needs that a task's socket and result are determined by its number
(`SocketInv`).  That the call does not give up early needs that a race is cancelled
only after a success (`CancelInv` with `BestRankIsMinimum`) and what an
unsuccessful task has tried (`TaskInv`).

`PathfindingProofs`, for every graph, finite or not, every heuristic, every set of
options and every fault (`SearchAssumption`): `TypeCorrect`, `RoutesEnd` (parent links
are acyclic and follow real transitions), `BestPartial`, `NoPathSound`, `Optimality` and
`WithinBudgets`.
`IInv` adds to the properties that priorities follow costs (`NodeInv`), that closed
nodes have passed their cost on over all their transitions, or over those
emitted so far (`RelaxedInv`), and what is known when the loop is left
(`OutcomeInv`).  Optimality cannot be stated with "the cheapest route" in first-order
terms; it is stated by a potential: if the heuristic is admissible, as
witnessed by lower bounds `remaining`, then either the found cost is at most the
bound at the start, or `LowerBound` is 0 at the start, grows along a
transition by at most its cost and is at least the found cost at every goal.  Along any
route its growth adds up, so no route is cheaper.

`CurlRequestProofs`, for every method, trust, store and limit and every number of
connections, every width of `size_t` and all arguments of the callback: `TypeCorrect`, `FreeIsSafe` (the request is freed after its thread has
ended), `TrustedOnly` (nothing of an untrusted peer is kept), and the action properties
`Frozen` (a published result does not change) and `WithinLimit` (what is stored is within the
limit, and no size has wrapped).
`FreeInv` says who frees the request and what he knows of the worker: without the
value of `threaded`, which the worker may overwrite, the join could be skipped;
`ResultInv` says where the worker can be once the state is published; `TrustInv` ties
body, code and success to a header, and a header to certificates that were accepted.
`SizeInv` (`body_size` is what was received) is what the checks of `curl_callback()` rest
on and what they keep; `ProductFits` says why the division notices a product that wrapped,
`AcceptedFits` that the differences they compare with have not.

`RendezvousProofs`, for every set of endpoints, capacity, number of jobs, pace, deadline
and length of the queues: `ListSound` and `Punching`.  That at most one endpoint in the
list was not announced is inductive only with the fact that such an endpoint counts as
confirmed from then on (`ListInv`).  That every NAT candidate was probed needs to know
which job stands for a candidate that has not been probed yet, and that it is due
at once (`PunchInv`): then the update before a successful return serves them all.

`QuicStreamsProofs`, for every number of streams, size of the preface and limit:
`TypeCorrect` and `StreamsInOrder` (one owner of the right kind per stream, exact list and
count).  A stream is handed out by the kind that was read from its preface, so
`KindInv` relates that to the kind its peer opened it with.  `Unlinked` and `Linked`
say what unlinking at a position and appending do to the list.

`ProcessProofs`, for every list of processes, packet length and pipe size:
`PacketsAccounted` (every unit of every packet is written once and in order, or waits) and
`ChildrenKnown`.  A packet is written to the descriptor at `idx`, not to its
process, so the packets need `LoopInv`: `idx` has passed exactly the descriptors of
the collected processes before `cur`, and these are all that run, unless a callback
started one.  `QueueInv` says that a queued packet is incomplete, `TargetInv` which
process a call that terminates is about.

`PacketProofs`, for all fields, sizes, limits, readers and blocks: `WithinBuffer`,
`FieldsInOrder`, the action property `Sticky`, and `ScopeVerdict`.  `HoldsFields` is what
makes the writer's part of `PacketIsSound` inductive: there are offsets that split the
buffer into the encodings of the fields, and a mark is one of them, so that a rollback cuts no field
in two.  Appending, cutting and dropping the first field are lemmas (`Joined`, `Cut`,
`Dropped`).  The verdict of a scope is right because, as long as no reader has failed, the
scope's position splits the bytes into those that were read, or passed over by a reader
that started beyond the others, and those that were not (`Sound`).  Nothing is assumed of
where readers start.

`LibraryProofs`: `CacheSound` for any number of threads, versions, failures and crashes
(`SyncInv`: what is renamed was synchronised; `PairInv`: until something parts them, body
and ETag belong together except while one request is between its two writes);
`ConsoleInOrder` (`QueueInv` counts the lines that were typed, queued and handled);
`BufferExact` for all texts and sequences of operations (`TextInv`); `RegistryOrder` for every graph of
APIs, cyclic ones included (`RegistryInv`: an API is registered after what it depends
on; `StackInv`: only functions in progress are marked without being ready); and
`FloodExact` for every graph (`FloodInv`; reachability is the least closed set, so
that no induction over paths is needed).

`Interned`, for every set of strings, hash function and sequence of calls.  The
entries of a slot are in one chain: `TableInv` relates entries, slots and counts to what
the caller holds, `LinkInv` says that `next` and the `up` pointer of its target, with the
TOPBIT at the first entry, are inverse to each other, and `ChainInv` that every entry is in the least
set that has the first entry of its slot and is closed under `next`.  Linking
and unlinking keep the last of these without induction along the chain.

`OptionsSound`, for every set of options, command line and files: `GoodStack` says of the
files in progress that at run time each was loaded by the program or for an option that may be
changed, `FixedInv` that an option which may not has kept its value, and `OptionsInv` adds
that names are unique and that no option with an argument has a freed value.

`PoolExact`, for every set of exponents, size of blocks and number of blocks.  Its
hypothesis `ExponentsFit` (`expand_size >> exponent` is not 0) holds of the
run's constants, and the theorem is false without it (see below).  `PoolInv` says what is true in the
middle of `mempool_free_puddles()` too.  The counters are right at each step; all
freelists are exact except the one that is being rebuilt, which has the free chunks of the
puddles that were linked; the descriptors of the freelist that is being sifted are on its
list or not yet looked at; and a block of
puddles contains its own descriptor, so that it is never freed.  For the end, `LeakInv`
says of the exponents that deinitialisation has passed that each block that stays has a chunk in use.
The lemmas say what taking, giving, growing, tracking and freeing do to these books.

Where a proof needs a least number (the first free job, the last separator of a text),
it takes it from the well-foundedness of the natural numbers (`Least`): the
induction schemes of the library take an operator as a parameter, which the provers
cannot instantiate.

Only model-checked:

* liveness (`CallReturns`, `SilenceEndsCall`, `SearchEnds`, `CallsComplete`,
  `ChildIsServed`, `StreamsAreServed`, `NothingIsMissed`), which is outside the prover's reach, as is
  `ENABLED`;
* `PlanIsRight`: the plan is computed by folds over sequences, and what a fold computes
  for every sequence needs induction over data.  For the same reason the
  readers' half of `PacketIsSound` (`ReadsBackWhatWasWritten`: decoding is a fold);
* `CodecsAgree`, `FunctionsAgree` and `FrontierImplementsQueue`: `MapProtocol`,
  `StringText`, `PathText`, `Numbers` and `PfFrontier` have recursive operators, as
  their code walks texts, numbers and heaps; the prover cannot reason in such modules.

## Promises that do not hold

Two are runs (`curl_post_free`, `process_send_order`; see "findings" in
`PROJECT.json`).  The others have a definition in the module that TLC
refutes with the constants given here; the rest of the constants may be as in
the passing runs.

| Definition | Constants | What the code does | What it says |
|---|---|---|---|
| `LiveHandle` (`CurlRequest`) | any | `curl_request_sizeinfo()` (`curl.c` 828) uses `request->handle` while the worker cleans it up | "Mutex to protect the data in this structure when accessed across threads." (`curl.c` 98) |
| `FailedHasNoBody` | any | a request that failed half way returns what had arrived (`curl.c` 716) | "NULL in case the download isn't finished yet (or has failed)." (`curl.c` 713) |
| `ThreadIsRemembered` | `Methods = {"GET"}`, `Trusts = {"APPLICATION"}`, `Stores = {FALSE}` | `threaded` (`curl.c` 1463) and `untrusted` (953) are bit-fields of one byte, assigned by two threads | "Whether the request was started in its own thread." (`curl.c` 169) |
| `EveryRequestCompletes` under `FairSpec` | `Trusts = {"ULTIMATE"}`, `Stores = {FALSE}` | an assertion (`curl.c` 950) returns with the mutex locked; the worker blocks on it | "An error occurred trying to process the request." (`curl.h` 49) |
| `EveryFreeReturns` under `StallSpec` | any | the join waits for a peer that stalls (`curl.c` 896) | "Note that this might wait up to a second in order to exit the thread," (`curl.c` 878) |
| `ChildReadsPackets` (`Process`) | `Restarts = {TRUE}`, `MaxStarts = 2`, `MaxSends = 1` | a restarted child gets the second half of a packet (`process.c` 588) | "Sends a packet to the specified process." (`process.c` 323) |
| `OutputIsRead` | `MaxOutput = 1` | a descriptor with `POLLHUP` is not read even if it has `POLLIN` (`process.c` 844), then closed | "Check the specified process for errors, read data from it and send any outgoing packets if necessary." (`process.c` 907) |
| `StopStops` | `Restarts = {TRUE}`, `Calls = {"stop"}` | `process_stop()` ends in `process_cleanup()`, which restarts (`process.c` 611) | "Forcefully stop the specified running process." (`process.c` 619) |
| `ListedAreAllocated` | `Calls = {"free"}` | `process_free()` leaves the process in the list (`process.c` 188) | "Frees the specified process and all data associated with it." (`process.c` 180) |
| `DescriptorsMatch` without `StartedSince` | `CallbackCalls = {"start"}` | a callback that starts a process makes the second loop look for descriptors nobody collected (`process.c` 967) | "It is important that this loop keeps the same logic/checks as the one above, ..." (`process.c` 964) |
| `WrittenToItsProcess` without `misled` | three processes, `CallbackCalls = {"start"}` | for the same reason a packet can be written to the pipe of another process (`process.c` 851) | "Sends a packet to the specified process." (`process.c` 323) |
| `UsedStaysAllocated` (`Mempool`) | an exponent with `expand_size >> exponent` = 0 | a block of one chunk counts as none (`mempool.c` 170, 475): it is freed while the chunk is in use | "Go through the freelists and free puddles with no used chunks." (`mempool.c` 120) |
| `FittingFieldIsAccepted` (`Packet`) | any | a buffer that is smaller than its limit grows by what is left to the limit; if that is less than the field `packet_ensure()` reports SIZE_OVERFLOW, although used bytes and field fit (`packet.c` 280) | "Maximum payload size accepted by writer operations." (`packet.h`) |
| `BodiesRunOnce` (`Toolkit`) | any | importing logger, or math, first runs bodies twice: string imports math before logger is registered | "Import the specified API (if it has not been imported yet)." (`toolkit.h` 62) |
| `LineIsLive` (`Console`) | `MaxLines = 2` | a pointer into the queue's array is used after the mutex was released; a push moves the array (`console.c` 411) | "Mutex protecting command command process queue." (`console.c` 66) |
| `NoGapApproved` (`PacketScope`) | any | `packet_reader_init_at()` (`packet.c` 594) takes any position for a later reader of a scope; bytes between the scope's position and that of the reader are never read, and the scope approves | |
| `DeinitCanEnd` (`Console`) | any | a thread that is cancelled in `handle_enter()` keeps `rl_mutex`, which deinitialisation then takes (`console.c` 109) | |
| `ServedMatchesETag` without `split` (`CurlCache`) | `MaxCrashes = 1`, or an untagged version, or two workers | body and ETag are two files: a 304 answer can be served with the body of another answer (`curl.c` 564) | |

Found while writing the operators, and kept in them: `path_basename()` does not end for a
path with a slash at its end; `path_normalize()` puts a slash in front of a path that begins
with a name, and "/a/.." becomes "."; `string_sub()` with two negative indices counts
the first from the second; `string_isdigit()` accepts "" and "-"; `isqrt()` starts at
`1 << 30` (`math.c` 208) and is right below 2^32 only; `socket_addr_cmp()` shifts by 32
for a prefix of length 0 (`socket.c` 1568), which C leaves undefined; `sort_linked_list()`
of one record ends in NULL instead of the end marker.  An option that takes no
argument and is given again frees its old value twice (`clioptions.c` 465); abbreviated
option names, the empty one too, find the first option that fits; names of one character are
not compared when an option is created (`clioptions.c` 295).  A connection that is closed
after its handshake and before it has a game stream is not reported by `socket_read()`
(`socket.c` 422-431).  A datagram that is no probe, at the head of the UDP
queue, hides the probes behind it from the rendezvous client, and an endpoint that the service
itself announces as peer-reflexive keeps it from learning another one.

## Not modelled, and abstractions

* Statistics, log lines, formatting and the text of messages; compression of packets.
* `Rendezvous`: the syntax of messages (parsing is what it accepts), the STUN format,
  the enumeration of interfaces.  It is not composed with `QuicConnect`, which starts from every
  short list of candidates.
* `CurlRequest`: certificate chains are reduced to the verdict on them; the cache
  calls are single steps; trust stores do not change; `curl_progress()` is never called
  by libcurl, because nothing clears `CURLOPT_NOPROGRESS`.
* `Process`: the Windows build; data callbacks that stop or free a process;
  descriptors and memory that are not freed.  Behaviours end where a freed
  process is still in the list.
* `Mempool`: pools that bypass to `malloc()`, leak reports, constructors.
* `QuicStreams`: the application destroys its asset streams before it closes the
  connection; data after the preface.
* `QuicService`: OpenSSL's engine is external, modelled by what the code relies on: it
  handles what has arrived when it is called for any connection of the listener, and has one
  timer per connection.
* `Pathfinding`, `PfFrontier`: metrics, allocators, sizes near the limit of `size_t`.
* `Console`: `console_command_add()` and the completion of commands.  The program adds
  commands without a lock to the array that completion reads in the reader thread.
* `CliOptions`: a file that loads itself (the code recurses without bound).
* `Numbers`: floating point, the random generator itself, Base64, `nearest_pow_two_exp()`.
* Server keys and certificates, socket creation and options, name resolution, logger,
  signals, dates, colours, passwords, porting and vendored code: sequences of system or library
  calls with error returns and without state of their own to relate.

## Plan

Done, in this order: `CandidatePlan`, `QuicRace`, `QuicConnect`, `QuicRaceProofs`;
`Pathfinding`, `PathfindingProofs`; `CurlRequest`; `Process`; `Mempool`; `QuicStreams`;
`Rendezvous`; packets, codecs; `PriorityQueue` and `PfFrontier`, `Reachable`; `SharedStrings`,
`StringBuffer`, texts and paths; `Toolkit`; `Console`; `CurlCache`; `CliOptions`;
`QuicService`; `Numbers`; the proofs about requests, rendezvous, streams, processes,
packets and the parts of the library; `RouteChoice` with the proof that `QuicRace`
implements it.

Next:

1. Proofs: the safety part of `QuicService`.
2. `Rendezvous` in place of the free choice of candidates in `QuicConnect`; trust stores as
   state in `CurlRequest`; callbacks that stop processes in `Process`.
