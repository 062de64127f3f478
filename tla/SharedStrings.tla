---------------------------- MODULE SharedStrings ----------------------------
(***************************************************************************)
(* Shared strings (shstr.c): a hash table of chains of counted strings.    *)
(* An entry links to its successor and, through a union, either to its     *)
(* predecessor or to the slot of the table: one bit of the reference count *)
(* (TOPBIT) says which, and must move to the next entry when the first one *)
(* goes.  `held' counts the references that the program has, which is what *)
(* the calls promise to keep track of.                                     *)
(***************************************************************************)
EXTENDS Naturals

CONSTANTS String,   \* the texts
          Slot,     \* hashstr(): the slot of every text
          Entry,    \* addresses; one more than there are texts is enough
          NULL,
          MaxHeld   \* bound: references held to one text

ASSUME StringsAssumption ==
  NULL \notin Entry /\ NULL \notin String /\ DOMAIN Slot = String /\ MaxHeld \in Nat

VARIABLES hash_table,            \* first entry of every slot
          text, refcount, topbit, next,
          up,                    \* the union u: an entry, or the slot
          held                   \* references of the program to every entry

shVars == <<hash_table, text, refcount, topbit, next, up, held>>

Index == {Slot[s] : s \in String}
Allocated == {e \in Entry : text[e] # NULL}

ShInit ==
  /\ hash_table = [k \in Index |-> NULL]
  /\ text = [e \in Entry |-> NULL] /\ refcount = [e \in Entry |-> 0]
  /\ topbit = {} /\ next = [e \in Entry |-> NULL] /\ up = [e \in Entry |-> NULL]
  /\ held = [e \in Entry |-> 0]

\* The loop along a chain: it leaves an entry for the next one unless the entry has
\* the text or is the last, and it visits the smallest set that is closed under this.
Stops(e, s) == text[e] = s \/ next[e] = NULL
Reached(first, s) ==
  {e \in Entry : \A C \in SUBSET Entry :
     first \in C /\ (\A d \in C : Stops(d, s) \/ next[d] \in C) => e \in C}

\* Where the loop ends: the entry with the text, else the last of the chain.
Walk(first, s) == CHOOSE e \in Reached(first, s) : Stops(e, s)

\* find_string(): the entry, or NULL.
find_string(s) ==
  LET first == hash_table[Slot[s]]
  IN  IF first = NULL \/ text[Walk(first, s)] # s THEN NULL ELSE Walk(first, s)

Count(e) ==
  /\ refcount' = [refcount EXCEPT ![e] = @ + 1]
  /\ held' = [held EXCEPT ![e] = @ + 1]

\* add_string() of a text that is in the table.
AddKnown(s) ==
  /\ find_string(s) # NULL /\ held[find_string(s)] < MaxHeld
  /\ Count(find_string(s))
  /\ UNCHANGED <<hash_table, text, topbit, next, up>>

\* new_shared_string(), at the end of its chain or as the first of it; e is the
\* address that xmalloc() returns.
AddNew(s, e) ==
  LET first == hash_table[Slot[s]]
  IN  /\ find_string(s) = NULL /\ e \notin Allocated
      /\ Count(e) /\ text' = [text EXCEPT ![e] = s]
      /\ \/ /\ first = NULL
            /\ hash_table' = [hash_table EXCEPT ![Slot[s]] = e]
            /\ topbit' = topbit \cup {e} /\ up' = [up EXCEPT ![e] = Slot[s]]
            /\ next' = [next EXCEPT ![e] = NULL]
         \/ /\ first # NULL
            /\ next' = [next EXCEPT ![Walk(first, s)] = e, ![e] = NULL]
            /\ up' = [up EXCEPT ![e] = Walk(first, s)]
            /\ UNCHANGED <<hash_table, topbit>>

add_refcount(e) ==
  /\ held[e] \in 1..(MaxHeld - 1) /\ Count(e)
  /\ UNCHANGED <<hash_table, text, topbit, next, up>>

\* Mutant: the next entry does not learn that it is the first.
UnlinkForgetsTopbit(e) ==
  \/ /\ e \in topbit /\ hash_table' = [hash_table EXCEPT ![up[e]] = next[e]]
     /\ topbit' = topbit \ {e}
     /\ up' = IF next[e] = NULL THEN up ELSE [up EXCEPT ![next[e]] = up[e]]
     /\ next' = [next EXCEPT ![e] = NULL]
  \/ /\ e \notin topbit /\ UNCHANGED <<hash_table, topbit>>
     /\ up' = IF next[e] = NULL THEN up ELSE [up EXCEPT ![next[e]] = up[e]]
     /\ next' = [next EXCEPT ![up[e]] = next[e], ![e] = NULL]

\* What becomes of the links when entry e, whose count is zero, is freed: the
\* first of a chain, or another one.
Unlink(e) ==
  \/ /\ e \in topbit /\ hash_table' = [hash_table EXCEPT ![up[e]] = next[e]]
     /\ topbit' = (topbit \ {e}) \cup ({next[e]} \ {NULL})
     /\ up' = IF next[e] = NULL THEN up ELSE [up EXCEPT ![next[e]] = up[e]]
     /\ next' = [next EXCEPT ![e] = NULL]
  \/ /\ e \notin topbit /\ UNCHANGED <<hash_table, topbit>>
     /\ up' = IF next[e] = NULL THEN up ELSE [up EXCEPT ![next[e]] = up[e]]
     /\ next' = [next EXCEPT ![up[e]] = next[e], ![e] = NULL]

free_string_shared(e) ==
  /\ held[e] > 0
  /\ held' = [held EXCEPT ![e] = @ - 1] /\ refcount' = [refcount EXCEPT ![e] = @ - 1]
  /\ IF refcount[e] = 1 THEN Unlink(e) /\ text' = [text EXCEPT ![e] = NULL]
     ELSE UNCHANGED <<hash_table, text, topbit, next, up>>

ShNext ==
  \/ \E s \in String : AddKnown(s) \/ \E e \in Entry : AddNew(s, e)
  \/ \E e \in Entry : add_refcount(e) \/ free_string_shared(e)

ShSpec == ShInit /\ [][ShNext]_shVars

-----------------------------------------------------------------------------

\* Equal texts have one address as long as somebody holds it (pointers are
\* compared instead of texts), the lookup finds exactly the texts that are held,
\* their counts are the references held, and every entry's union leads back to
\* what leads to it, with TOPBIT telling which: the structure that freeing the
\* entries of a chain in any order must preserve.
InternedOnce ==
  /\ \A e \in Entry : refcount[e] = held[e] /\ (e \in Allocated <=> held[e] > 0)
  /\ \A e \in Allocated :
       /\ find_string(text[e]) = e
       /\ e \in topbit <=> hash_table[Slot[text[e]]] = e
       /\ IF e \in topbit THEN up[e] = Slot[text[e]] ELSE next[up[e]] = e
  /\ topbit \subseteq Allocated
=============================================================================
