------------------------------ MODULE Mempool ------------------------------
(***************************************************************************)
(* The memory pools of mempool.c: chunks of a pool are cut from blocks     *)
(* ("first_chunk" arrays), each block has a descriptor, its puddle, and    *)
(* puddles are themselves chunks of a pool, pool_puddle, whose blocks have *)
(* their descriptors in themselves.                                        *)
(*                                                                         *)
(* A chunk is <<block, index>>.  Blocks are numbered in the order of their *)
(* allocation and never reused.  `mem' is what the functions work on:      *)
(*   owner         pool and array exponent of every block, or NoOwner      *)
(*   freelist      of each pool and exponent, as a sequence of chunks      *)
(*   free          the chunks whose `next' is not NULL, see CHUNK_FREE     *)
(*   nrof_free, nrof_allocated                                             *)
(*   puddlelist    sequences of descriptors [at, block]                    *)
(*   count         number of blocks allocated so far                       *)
(*   live          blocks that have not been freed                         *)
(* The pool of the user is an ordinary one, without MEMPOOL_BYPASS_POOLS   *)
(* (which would make it a front for malloc()).                             *)
(***************************************************************************)
EXTENDS Integers, Sequences, FiniteSets, Functions, SequencesExt

CONSTANTS Exps,        \* array exponents in use
          ExpandSize,  \* expand_size of each pool
          MaxBlocks    \* bound: blocks that are ever allocated

Pool == {"user", "puddles"}

VARIABLES mem,
          used,        \* chunks that the user holds
          deiniting,   \* "no", "user" (its pool is next), "puddles" or "done"
          pass         \* mempool_free_puddles() in progress: its phase, freelist and
                       \* the puddles and exponents it has not come to
vars == <<mem, used, deiniting, pass>>

Block == 1..MaxBlocks
Slots == Pool \X Exps
NoOwner == <<"none", 0>>
PuddleSlot == <<"puddles", 0>>

\* expand_size >> exponent
nrof_arrays(slot) == ExpandSize[slot[1]] \div 2^slot[2]

\* A block of puddles has room for its own descriptor and for another one.
ASSUME MempoolAssumption ==
  /\ 0 \in Exps /\ Exps \subseteq Nat
  /\ ExpandSize \in [Pool -> Nat] /\ nrof_arrays(PuddleSlot) \in Nat \ {0, 1}
  /\ MaxBlocks \in Nat

\* ... and what mempool_expand() makes of it.
BlockSize(slot) == IF nrof_arrays(slot) = 0 THEN 1 ELSE nrof_arrays(slot)

Chunks(m, b) == {b} \X (0..(BlockSize(m.owner[b]) - 1))

Empty ==
  [owner          |-> [b \in Block |-> NoOwner],
   freelist       |-> [s \in Slots |-> <<>>],
   free           |-> {},
   nrof_free      |-> [s \in Slots |-> 0],
   nrof_allocated |-> [s \in Slots |-> 0],
   puddlelist     |-> [s \in Slots |-> <<>>],
   count          |-> 0,
   live           |-> {}]

\* mempool_create() for both pools.
Init == /\ mem = Empty /\ used = {} /\ deiniting = "no"
        /\ pass = [phase |-> "none", slot |-> PuddleSlot, left |-> {}, todo |-> <<>>]

\* No function of the pools is running.
Returned == pass.phase = "none"

-----------------------------------------------------------------------------
(* mempool_get_chunk() and mempool_expand()                                 *)

\* The first chunk of the freelist, taken.
Taken(m, slot) == Head(m.freelist[slot])
Take(m, slot) ==
  [m EXCEPT !.freelist[slot] = Tail(@),
            !.free = @ \ {Taken(m, slot)},
            !.nrof_free[slot] = @ - 1]

\* A new block whose chunks make up the freelist.
NewBlock(m, slot) ==
  LET b == m.count + 1
      n == BlockSize(slot)
  IN  [m EXCEPT !.owner[b] = slot,
                !.count = b,
                !.live = @ \cup {b},
                !.freelist[slot] = [i \in 1..n |-> <<b, i - 1>>],
                !.free = @ \cup ({b} \X (0..(n - 1))),
                !.nrof_allocated[slot] = @ + n,
                !.nrof_free[slot] = n]

Track(m, slot, at, b) ==
  [m EXCEPT !.puddlelist[slot] = <<[at |-> at, block |-> b]>> \o @]

\* pool_puddle can give a chunk: if it has to be expanded first, the descriptor
\* of its new block is the first chunk of that block.
WithFreePuddle(m) ==
  IF m.nrof_free[PuddleSlot] > 0 THEN m
  ELSE LET grown == NewBlock(m, PuddleSlot)
       IN  Track(Take(grown, PuddleSlot), PuddleSlot,
                 Taken(grown, PuddleSlot), grown.count)

\* mempool_expand() of the user's pool
mempool_expand(m, slot) ==
  LET grown == NewBlock(m, slot)
      ready == WithFreePuddle(grown)
  IN  Track(Take(ready, PuddleSlot), slot, Taken(ready, PuddleSlot), grown.count)

mempool_get_chunk(slot) ==
  /\ Returned /\ deiniting = "no" /\ slot[1] = "user"
  /\ mem.nrof_free[slot] = 0 =>
       mem.count + (IF mem.nrof_free[PuddleSlot] = 0 THEN 2 ELSE 1) <= MaxBlocks
  /\ LET m == IF mem.nrof_free[slot] = 0 THEN mempool_expand(mem, slot) ELSE mem
     IN  /\ mem' = Take(m, slot)
         /\ used' = used \cup {Taken(m, slot)}
  /\ UNCHANGED <<deiniting, pass>>

-----------------------------------------------------------------------------
(* mempool_return_chunk()                                                   *)

Give(m, slot, chunk) ==
  [m EXCEPT !.freelist[slot] = <<chunk>> \o @,
            !.free = @ \cup {chunk},
            !.nrof_free[slot] = @ + 1]

mempool_return_chunk(chunk) ==
  /\ Returned /\ deiniting = "no" /\ chunk \in used
  /\ chunk \notin mem.free
  /\ mem' = Give(mem, mem.owner[chunk[1]], chunk)
  /\ used' = used \ {chunk}
  /\ UNCHANGED <<deiniting, pass>>

-----------------------------------------------------------------------------
(* mempool_free_puddles(), one step for each puddle: no other function runs *)
(* until it has returned.                                                   *)

\* The free chunks of a puddle.
FreeIn(m, slot, puddle) == ({puddle.block} \X (0..(nrof_arrays(slot) - 1))) \cap m.free

\* The puddle-local freelist, built from the front.
LocalFree(m, slot, puddle) ==
  LET free == FreeIn(m, slot, puddle)
  IN  CHOOSE list \in [1..Cardinality(free) -> free] :
        \A i, j \in DOMAIN list : i < j => list[i][2] > list[j][2]

\* Mutant: half of the chunks free is enough.
HalfFree(m, slot, puddle) ==
  2 * Cardinality(FreeIn(m, slot, puddle)) >= nrof_arrays(slot)

AllFree(m, slot, puddle) == Cardinality(FreeIn(m, slot, puddle)) = nrof_arrays(slot)

\* The block is freed and its descriptor is returned to pool_puddle.
FreePuddle(m, slot, puddle) ==
  LET returned == Give(m, PuddleSlot, puddle.at)
  IN  [returned EXCEPT !.live = @ \ {puddle.block},
                       !.free = @ \ Chunks(m, puddle.block),
                       !.nrof_free[slot] = @ - nrof_arrays(slot),
                       !.nrof_allocated[slot] = @ - nrof_arrays(slot)]

\* The first of the freelists that are left: its puddles are taken off their list.
VisitNext(pool, left) ==
  \E e \in left :
    /\ \A f \in left : e <= f
    /\ mem' = [mem EXCEPT !.puddlelist[<<pool, e>>] = <<>>]
    /\ pass' = [phase |-> "sift", slot |-> <<pool, e>>, left |-> left \ {e},
                todo |-> mem.puddlelist[<<pool, e>>]]

\* A puddle without used chunks goes, any other one returns to its list.
SiftPuddle ==
  /\ pass.phase = "sift" /\ pass.todo # <<>>
  /\ LET puddle == Head(pass.todo)
     IN  mem' = IF AllFree(mem, pass.slot, puddle) THEN FreePuddle(mem, pass.slot, puddle)
                ELSE [mem EXCEPT !.puddlelist[pass.slot] = <<puddle>> \o @]
  /\ pass' = [pass EXCEPT !.todo = Tail(@)]
  /\ UNCHANGED <<used, deiniting>>

\* sort_puddle_by_nrof_free() and the order of the list decide which puddle is first.
Before(puddles, i, j) ==
  LET nrof_free(k) == Cardinality(FreeIn(mem, pass.slot, puddles[k]))
  IN  nrof_free(i) < nrof_free(j) \/ (nrof_free(i) = nrof_free(j) /\ i < j)

\* The puddles are sorted, and the freelist is emptied.
SortPuddles ==
  /\ pass.phase = "sift" /\ pass.todo = <<>>
  /\ LET puddles == mem.puddlelist[pass.slot]
         places == 1..Len(puddles)
     IN  \E order \in Bijection(places, places) :
           LET sorted == [i \in places |-> puddles[order[i]]]
           IN  /\ \A i, j \in places : i < j => Before(puddles, order[i], order[j])
               /\ mem' = [mem EXCEPT !.puddlelist[pass.slot] = sorted,
                                     !.freelist[pass.slot] = <<>>]
               /\ pass' = [pass EXCEPT !.phase = "link", !.todo = sorted]
  /\ UNCHANGED <<used, deiniting>>

\* The freelist of a puddle is put at the end of the freelist.
LinkPuddle ==
  /\ pass.phase = "link" /\ pass.todo # <<>>
  /\ mem' = [mem EXCEPT !.freelist[pass.slot] =
               @ \o LocalFree(mem, pass.slot, Head(pass.todo))]
  /\ pass' = [pass EXCEPT !.todo = Tail(@)]
  /\ UNCHANGED <<used, deiniting>>

\* One freelist is done.
SlotDone ==
  /\ pass.phase = "link" /\ pass.todo = <<>>
  /\ \/ pass.left # {} /\ VisitNext(pass.slot[1], pass.left) /\ UNCHANGED deiniting
     \/ /\ pass.left = {} /\ pass' = [pass EXCEPT !.phase = "none"] /\ UNCHANGED mem
        /\ deiniting' = IF deiniting = "user" THEN "puddles" ELSE deiniting
  /\ UNCHANGED used

mempool_free_puddles(pool) == Returned /\ VisitNext(pool, Exps)

mempool_reclaim(pool) ==
  deiniting = "no" /\ mempool_free_puddles(pool) /\ UNCHANGED <<used, deiniting>>

-----------------------------------------------------------------------------
(* TOOLKIT_DEINIT_FUNC(mempool)                                             *)

BeginDeinit ==
  /\ Returned /\ deiniting = "no"
  /\ deiniting' = "user"
  /\ UNCHANGED <<mem, used, pass>>

FreeUserPool ==
  deiniting = "user" /\ mempool_free_puddles("user") /\ UNCHANGED <<used, deiniting>>

\* Puddles are freed whether they are empty or not.
FreePuddlePool ==
  /\ deiniting = "puddles"
  /\ LET blocks == {p.block : p \in Range(mem.puddlelist[PuddleSlot])}
     IN  mem' = [mem EXCEPT !.live = @ \ blocks,
                            !.puddlelist[PuddleSlot] = <<>>]
  /\ deiniting' = "done"
  /\ UNCHANGED <<used, pass>>

Deinited == deiniting = "done" /\ UNCHANGED vars

Next ==
  \/ \E slot \in Slots : mempool_get_chunk(slot)
  \/ \E chunk \in used : mempool_return_chunk(chunk)
  \/ \E pool \in Pool : mempool_reclaim(pool)
  \/ SiftPuddle \/ SortPuddles \/ LinkPuddle \/ SlotDone
  \/ BeginDeinit \/ FreeUserPool \/ FreePuddlePool \/ Deinited

Spec == Init /\ [][Next]_vars

-----------------------------------------------------------------------------
(* Properties                                                               *)

\* What the user holds stays in allocated memory and is not on a freelist, so
\* that nobody else gets it: "free puddles with no used chunks".
UsedStaysAllocated == \A c \in used : c[1] \in mem.live /\ c \notin mem.free

\* The chunks of the allocated blocks of a freelist.
ChunksOf(m, s) ==
  {c \in Block \X (0..(BlockSize(s) - 1)) : c[1] \in m.live /\ m.owner[c[1]] = s}

\* A freelist has every free chunk of its allocated blocks once, and nothing
\* else, and the counters are right, although it is rebuilt from the blocks
\* while descriptors are returned to it.
FreelistIsExact ==
  Returned /\ deiniting # "done" => \A s \in Slots :
    LET list == mem.freelist[s]
    IN  /\ Range(list) = ChunksOf(mem, s) \cap mem.free
        /\ \A i, j \in DOMAIN list : list[i] = list[j] => i = j
        /\ mem.nrof_free[s] = Len(list)
        /\ mem.nrof_allocated[s] = Cardinality(ChunksOf(mem, s))

\* Every allocated block has one descriptor, in an allocated block of puddles,
\* and a block of puddles is described by a chunk of its own: it is never
\* reclaimed under the descriptors of other blocks.
BlocksAreTracked ==
  Returned /\ deiniting # "done" =>
    /\ \A b \in mem.live :
         LET list == mem.puddlelist[mem.owner[b]]
         IN  \E i \in DOMAIN list : \A j \in DOMAIN list : list[j].block = b <=> j = i
    /\ \A s \in Slots : \A p \in Range(mem.puddlelist[s]) :
         /\ p.block \in mem.live /\ p.at[1] \in mem.live /\ p.at \notin mem.free
         /\ s = PuddleSlot => p.at[1] = p.block

\* At the end all memory is freed but for blocks with chunks that were not
\* returned.
OnlyLeaksStay ==
  deiniting = "done" => mem.live = {c[1] : c \in used}

\* The books of a pool are right: what the user holds stays allocated, the
\* freelists have exactly the free chunks, and every block has its descriptor
\* (mempool_get_chunk(), mempool_return_chunk() and mempool_free_puddles() in any
\* order); and deinitialisation leaves nothing but what the user did not return.
PoolIsExact ==
  UsedStaysAllocated /\ FreelistIsExact /\ BlocksAreTracked /\ OnlyLeaksStay

=============================================================================
