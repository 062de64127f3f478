------------------------------- MODULE Toolkit -------------------------------
(***************************************************************************)
(* The registry of the library's APIs (toolkit.c) and the initialisation   *)
(* functions that TOOLKIT_API, TOOLKIT_INIT_FUNC and ..._FINISH generate   *)
(* (toolkit.h).  An API calls the initialisation functions of the APIs it  *)
(* DEPENDS on before it registers itself and runs its own body, and those  *)
(* of the ones it IMPORTS afterwards; the imports make the graph cyclic    *)
(* (string imports math, math depends on logger, logger on string), so     *)
(* that a function can be entered again while it runs.                     *)
(* `stack' holds the functions in progress; a frame is the API and the     *)
(* initialisation functions that it has yet to call on either side of its  *)
(* registration.                                                           *)
(***************************************************************************)
EXTENDS Naturals, Sequences, SequencesExt

CONSTANTS Api, DependsOn, Imports,  \* functions from APIs to sequences of APIs
          MaxImports                \* bound: calls of toolkit_import()

ASSUME KitAssumption ==
  /\ DependsOn \in [Api -> Seq(Api)] /\ Imports \in [Api -> Seq(Api)]
  /\ MaxImports \in Nat

VARIABLES apis,      \* registered APIs, in order
          stack,
          did_init,  \* APIs whose _did_init_ is set
          ready,     \* APIs whose body has run and that are not deinitialised
          twice,     \* APIs whose body has run again
          imports,   \* calls of toolkit_import() so far
          left       \* toolkit_deinit(): registered APIs still to visit; -1: not called

kitVars == <<apis, stack, did_init, ready, twice, imports, left>>

KitInit ==
  /\ apis = <<>> /\ stack = <<>> /\ did_init = {} /\ ready = {} /\ twice = {}
  /\ imports = 0 /\ left = -1

toolkit_check_imported(a) == a \in Range(apis)

\* Entering an initialisation function: it returns at once if the API is known.
Enter(a, callers) ==
  IF toolkit_check_imported(a) THEN stack' = callers /\ UNCHANGED did_init
  ELSE /\ stack' = <<[api |-> a, before |-> DependsOn[a], after |-> Imports[a],
                      registered |-> FALSE]>> \o callers
       /\ did_init' = did_init \cup {a}

toolkit_import(a) ==
  /\ stack = <<>> /\ left = -1 /\ imports < MaxImports
  /\ imports' = imports + 1 /\ Enter(a, <<>>)
  /\ UNCHANGED <<apis, ready, twice, left>>

Top == stack[1]
Callers == Tail(stack)

CallDependency ==
  /\ stack # <<>> /\ ~Top.registered /\ Top.before # <<>>
  /\ Enter(Top.before[1], <<[Top EXCEPT !.before = Tail(@)]>> \o Callers)
  /\ UNCHANGED <<apis, ready, twice, imports, left>>

\* Mutant: an API does not wait for what it depends on.
RegisterEarly ==
  /\ stack # <<>> /\ ~Top.registered
  /\ apis' = IF toolkit_check_imported(Top.api) THEN apis ELSE Append(apis, Top.api)
  /\ ready' = ready \cup {Top.api}
  /\ twice' = IF Top.api \in ready THEN twice \cup {Top.api} ELSE twice
  /\ stack' = <<[Top EXCEPT !.registered = TRUE]>> \o Callers
  /\ UNCHANGED <<did_init, imports, left>>

\* toolkit_import_register(), which ignores an API that is there, and the body.
RegisterAndRun ==
  /\ stack # <<>> /\ ~Top.registered /\ Top.before = <<>>
  /\ apis' = IF toolkit_check_imported(Top.api) THEN apis ELSE Append(apis, Top.api)
  /\ ready' = ready \cup {Top.api}
  /\ twice' = IF Top.api \in ready THEN twice \cup {Top.api} ELSE twice
  /\ stack' = <<[Top EXCEPT !.registered = TRUE]>> \o Callers
  /\ UNCHANGED <<did_init, imports, left>>

CallImport ==
  /\ stack # <<>> /\ Top.registered /\ Top.after # <<>>
  /\ Enter(Top.after[1], <<[Top EXCEPT !.after = Tail(@)]>> \o Callers)
  /\ UNCHANGED <<apis, ready, twice, imports, left>>

InitReturns ==
  /\ stack # <<>> /\ Top.registered /\ Top.after = <<>>
  /\ stack' = Callers /\ UNCHANGED <<apis, did_init, ready, twice, imports, left>>

toolkit_deinit ==
  /\ stack = <<>> /\ left = -1 /\ apis # <<>> /\ left' = Len(apis)
  /\ UNCHANGED <<apis, stack, did_init, ready, twice, imports>>

\* The API whose turn it is, in the loop of toolkit_deinit().
Visited == apis[left]

DeinitNext ==
  /\ left > 0 /\ left' = left - 1
  /\ ready' = ready \ {Visited} /\ did_init' = did_init \ {Visited}
  /\ UNCHANGED <<apis, stack, twice, imports>>

DeinitReturns ==
  /\ left = 0 /\ left' = -1 /\ apis' = <<>>
  /\ UNCHANGED <<stack, did_init, ready, twice, imports>>

KitNext ==
  \/ \E a \in Api : toolkit_import(a)
  \/ CallDependency \/ RegisterAndRun \/ CallImport \/ InitReturns
  \/ toolkit_deinit \/ DeinitNext \/ DeinitReturns

KitSpec == KitInit /\ [][KitNext]_kitVars

-----------------------------------------------------------------------------

\* Whatever the order of imports, and although the graph is cyclic: while an API
\* is ready, so is every API it depends on; hence its body, its functions and its
\* deinitialisation function can use them.  APIs are registered once each, and
\* toolkit_deinit() leaves nothing initialised.
DependenciesOutlive ==
  /\ \A a \in ready : Range(DependsOn[a]) \subseteq ready
  /\ \A i, j \in 1..Len(apis) : apis[i] = apis[j] => i = j
  /\ (left = 0 => ready = {} /\ did_init = {})

\* "Import the specified API (if it has not been imported yet)." (toolkit.h:62).
\* Not so: importing logger, or math, first runs their bodies twice, because
\* string imports math before logger is registered.
BodiesRunOnce == twice = {}
=============================================================================
