----------------------------- MODULE PacketScope -----------------------------
(***************************************************************************)
(* Readers and reader scopes (packet.c): the dispatcher of a packet begins *)
(* a scope; the functions it calls create readers on the same bytes, one   *)
(* after the other or at once, which find the scope in a thread-local      *)
(* variable; and the end of the scope tells whether the packet was read    *)
(* without failure and to its end.  Scopes nest, and readers of other      *)
(* bytes, such as a view of a part of the packet, stay outside.            *)
(*                                                                         *)
(* The bytes are those of a block [id, length]; what they are is not       *)
(* looked at here, only how many are taken.  Of a failure only that it     *)
(* happened is kept, not which it was.                                     *)
(***************************************************************************)
EXTENDS Integers, Sequences, SequencesExt

CONSTANTS Reader, Blocks, BlockLen,
          MaxScopes, MaxTake    \* bounds on nested scopes and on what is read

ASSUME ScopeAssumption ==
  BlockLen \in [Blocks -> Nat] /\ {MaxScopes, MaxTake} \subseteq Nat

VARIABLES
  scopes,    \* packet_active_reader_scope and its `previous', innermost last:
             \* [initialized, block, pos, error], and as history `start',
             \* `read' (offsets that were taken), `skipped' (offsets that a reader
             \* which started beyond the scope's position left out) and `failed'
  readers,   \* packet_reader_t: [block, pos, error, scope] of those in use
  verdict    \* history: whether the scope that was finished last approved of
             \* its packet, whether it should have, and whether every byte was read

scopeVars == <<scopes, readers, verdict>>

OK == "NONE"
BAD == "ERROR"
Unused == [block |-> "none", pos |-> 0, error |-> OK, scope |-> 0]
Fresh == [initialized |-> FALSE, block |-> "none", pos |-> 0, error |-> OK,
          start |-> 0, read |-> {}, skipped |-> {}, failed |-> FALSE]

ScopeInit ==
  /\ scopes = <<>> /\ readers = [r \in Reader |-> Unused]
  /\ verdict = [approved |-> TRUE, deserved |-> TRUE, complete |-> TRUE]

ScopeLen(s) == IF s.initialized THEN BlockLen[s.block] ELSE 0

FailScope(s) == [s EXCEPT !.error = BAD, !.failed = TRUE]

packet_reader_scope_begin ==
  /\ Len(scopes) < MaxScopes /\ scopes' = Append(scopes, Fresh)
  /\ UNCHANGED <<readers, verdict>>

\* packet_reader_init_at(): a reader joins the innermost scope, unless that has other bytes; the first
\* one brings its bytes and its position to the scope.
JoinsScope(b) ==
  scopes # <<>> /\ (Last(scopes).initialized => Last(scopes).block = b)

ReaderInitAt(r, b, pos) ==
  LET n == Len(scopes)
      s == IF Last(scopes).initialized THEN Last(scopes)
           ELSE [Last(scopes) EXCEPT !.initialized = TRUE, !.block = b,
                                     !.pos = pos, !.start = pos]
      bad == pos > BlockLen[b]
  IN  /\ readers[r] = Unused
      /\ readers' = [readers EXCEPT ![r] =
           [block |-> b, pos |-> IF bad THEN 0 ELSE pos,
            error |-> IF bad THEN BAD ELSE OK,
            scope |-> IF JoinsScope(b) THEN n ELSE 0]]
      /\ scopes' = IF ~JoinsScope(b) THEN scopes
                   ELSE [scopes EXCEPT ![n] =
                           IF bad THEN FailScope(s) ELSE s]
      /\ UNCHANGED verdict

\* packet_reader_fail()
ReaderFails(r) ==
  LET n == readers[r].scope IN
    /\ readers' = [readers EXCEPT ![r].error = BAD]
    /\ scopes' = IF n = 0 THEN scopes
                 ELSE [scopes EXCEPT ![n] = FailScope(@)]
    /\ UNCHANGED verdict

\* Mutant: the scope is where the reader is that moved last.
AdvanceToLast(s, from, to) ==
  [s EXCEPT !.pos = to, !.read = @ \cup from..(to - 1),
            !.skipped = @ \cup s.pos..(from - 1)]

\* The scope is as far as its furthest reader.
Advance(s, from, to) ==
  [s EXCEPT !.pos = IF to > @ THEN to ELSE @, !.read = @ \cup from..(to - 1),
            !.skipped = @ \cup s.pos..(from - 1)]

\* packet_reader_take(); nothing is taken of no bytes, wherever the reader is.
ReaderTakes(r, len) ==
  LET p == readers[r].pos
      n == readers[r].scope
  IN  /\ readers[r] # Unused /\ readers[r].error = OK
      /\ IF len > BlockLen[readers[r].block] - p
         THEN ReaderFails(r)
         ELSE /\ readers' = [readers EXCEPT ![r].pos = p + len]
              /\ scopes' = IF n = 0 \/ len = 0 THEN scopes
                           ELSE [scopes EXCEPT ![n] = Advance(@, p, p + len)]
              /\ UNCHANGED verdict

\* packet_reader_finish()
ReaderFinishes(r) ==
  /\ readers[r] # Unused /\ readers[r].error = OK
  /\ readers[r].pos # BlockLen[readers[r].block]
  /\ ReaderFails(r)

packet_reader_set_error(r) ==
  readers[r] # Unused /\ ReaderFails(r)

\* The function that had the reader returns.
Drop(r) == /\ readers[r] # Unused /\ readers' = [readers EXCEPT ![r] = Unused]
           /\ UNCHANGED <<scopes, verdict>>

\* The readers of a scope are gone before the scope is.
packet_reader_scope_finish ==
  LET n == Len(scopes)
      s == scopes[n]
      e == IF s.pos # ScopeLen(s) THEN BAD ELSE s.error
      Up(t) == IF e = OK THEN t ELSE FailScope(t)
  IN  /\ scopes # <<>> /\ \A r \in Reader : readers[r].scope # n
      /\ verdict' =
           [approved |-> e = OK,
            deserved |-> /\ ~s.failed
                         /\ s.start..(ScopeLen(s) - 1) \subseteq s.read \cup s.skipped,
            complete |-> s.start..(ScopeLen(s) - 1) \subseteq s.read]
      /\ scopes' = [i \in 1..(n - 1) |->
                      IF i = n - 1 THEN Up(scopes[i]) ELSE scopes[i]]
      /\ UNCHANGED readers

\* A reader may start anywhere, even past the end.
Starts(b) == 0..(BlockLen[b] + 1)

ScopeNext ==
  \/ packet_reader_scope_begin \/ packet_reader_scope_finish
  \/ \E r \in Reader :
       \/ \E b \in Blocks : \E pos \in Starts(b) : ReaderInitAt(r, b, pos)
       \/ \E len \in 0..MaxTake : ReaderTakes(r, len)
       \/ ReaderFinishes(r) \/ packet_reader_set_error(r) \/ Drop(r)

ScopeSpec == ScopeInit /\ [][ScopeNext]_scopeVars

-----------------------------------------------------------------------------
(* Properties                                                               *)

\* The end of a scope approves of a packet exactly if none of its readers,
\* and no scope within it, failed, and its readers between them have taken
\* every byte from the first reader's position to the end, except those that a
\* reader passed over by starting beyond all others; however many readers there
\* were, wherever they started, in whatever order they went forward, and whether
\* they were finished themselves or just dropped (packet_reader_scope_finish()).
VerdictIsRight == verdict.approved <=> verdict.deserved

\* A packet that is approved was read to its end without a gap.  Not so:
\* packet_reader_init_at() accepts any position for a later reader.
NoGapApproved == verdict.approved => verdict.complete
=============================================================================
