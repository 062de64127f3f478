----------------------------- MODULE MCLibrary -----------------------------
(***************************************************************************)
(* The parts of the library that keep state of their own and do not share  *)
(* any: memory pools, the structures under the searches, shared strings,   *)
(* string buffers, pure functions, the registry of APIs, the console, the  *)
(* cache of HTTP requests and the options.  A behaviour exercises one.     *)
(***************************************************************************)
EXTENDS Mempool, Reachable, StringBuffer, Toolkit, Console, CurlCache,
        SharedStrings, CliOptions

CONSTANTS NOWHERE, Colliding, Apart, Alphabet, MaxLength, MaxKeys, Width, MaxNumber

VARIABLES part,
          nodes, hash, heap, popped, stopped,
          sample, list

pfVars == <<nodes, hash, heap, popped, stopped>>
libVars == <<part, vars, pfVars, reachVars, shVars, bufVars, sample, list, kitVars, conVars,
             cacheVars, cliVars>>

-----------------------------------------------------------------------------
(* Values of constants                                                      *)

SmallPools == [p \in Pool |-> 2]

\* Two states collide at once, a third one after the probe of the others.
Hashes == [s \in Colliding \cup Apart |-> IF s \in Colliding THEN 1 ELSE 2]

\* Nothing but the hash tells two states of a search apart.
SameHash == Permutations(Colliding) \cup Permutations(Apart)

\* Three places: every graph in which a place has at most two successors.
ThreePlaces == 1..3
SmallGraphs == [1..3 -> {<<>>, <<2>>, <<3>>, <<2, 3>>, <<3, 1>>}]
SmallBudgets ==
  {b \in [expanded : {0, 1}, generated : {0, 2}, transitions : {0, 2}, frontier : {0, 1}] :
     Cardinality({k \in DOMAIN b : b[k] # 0}) <= 1}

\* Three texts in one chain, one in another.
SomeStrings == {"s", "t", "u", "v"}
Slots4 == [s \in SomeStrings |-> IF s = "v" THEN 2 ELSE 1]

BufferTexts == {<<>>, <<"a">>, <<"b", "c">>, <<"a", "b", "c">>}

\* The TOOLKIT_API lines of the sources (the APIs without links are left out).
Depends ==
  [string |-> <<>>, stringbuffer |-> <<>>, math |-> <<"logger">>,
   logger |-> <<"string">>, path |-> <<"logger", "string", "stringbuffer">>,
   clioptions |-> <<"logger">>, curl |-> <<"clioptions">>,
   console |-> <<"logger", "string">>, shstr |-> <<"logger">>,
   mempool |-> <<"math", "logger", "string", "stringbuffer">>,
   packet |-> <<"mempool">>, binreloc |-> <<"path">>, process |-> <<>>]
SomeApis == DOMAIN Depends
ImportsOf ==
  [a \in DOMAIN Depends |->
     CASE a = "string" -> <<"math", "stringbuffer">>
       [] a = "stringbuffer" -> <<"string">>
       [] a = "clioptions" -> <<"string", "stringbuffer">>
       [] a = "process" -> <<"logger">>
       [] OTHER -> <<>>]

\* Two options share the beginning of their names; one is fixed once the program
\* runs; a configuration file loads another one.
OptionDefinitions ==
  {[name |-> <<"c">>, short_name |-> <<>>, argument |-> TRUE, changeable |-> TRUE,
    handler |-> "config"],
   [name |-> <<"p", "a">>, short_name |-> <<"a">>, argument |-> TRUE, changeable |-> FALSE,
    handler |-> "plain"],
   [name |-> <<"p">>, short_name |-> <<"b">>, argument |-> FALSE, changeable |-> TRUE,
    handler |-> "plain"],
   [name |-> <<"h">>, short_name |-> <<"h">>, argument |-> FALSE, changeable |-> FALSE,
    handler |-> "help"]}
OptionTokens ==
  {[form |-> "long", name |-> <<"c">>, arg |-> "f"],
   [form |-> "long", name |-> <<"p", "a">>, arg |-> "<v"],
   [form |-> "short", name |-> <<"a">>, arg |-> "NONE"],
   [form |-> "short", name |-> <<"b">>, arg |-> "x"],
   [form |-> "short", name |-> <<"h">>, arg |-> "x"],
   [form |-> "long", name |-> <<"p">>, arg |-> "x"],
   [form |-> "long", name |-> <<>>, arg |-> "y"]}
FileContents == [x \in {"<v"} |-> "z"]
ConfigFiles ==
  [f |-> <<[kind |-> "comment"],
           [kind |-> "option", name |-> <<"c">>, arg |-> "g"],
           [kind |-> "category", arg |-> "A"],
           [kind |-> "option", name |-> <<"p", "a">>, arg |-> "x"]>>,
   g |-> <<[kind |-> "option", name |-> <<"p", "a">>, arg |-> "y"],
           [kind |-> "bad"],
           [kind |-> "option", name |-> <<"p">>, arg |-> "EMPTY"]>>]

-----------------------------------------------------------------------------
F == INSTANCE PfFrontier WITH State <- DOMAIN Hashes, Priorities <- {1, 2},
                              HashOf <- Hashes, FirstCapacity <- 2
X == INSTANCE Text WITH text <- sample
N == INSTANCE Numbers WITH Keys <- {1, 2, 3}

LibInit ==
  /\ part \in {"pools", "frontier", "reachable", "strings", "buffers", "texts", "numbers",
               "toolkit", "console", "cache", "options"}
  /\ Init /\ F!PfInit /\ ShInit /\ BufInit /\ X!TextInit /\ N!NumbersInit /\ KitInit
  /\ ConInit /\ (part # "console" => readline = FALSE) /\ CacheInit
  /\ CliInit
  /\ ReachInit
  /\ part # "reachable" => /\ succ = [p \in Place |-> <<>>]
                           /\ \A k \in DOMAIN budget : budget[k] = 0

Pools == /\ part = "pools" /\ Next
         /\ UNCHANGED <<pfVars, reachVars, shVars, bufVars, sample, list, kitVars, conVars, cacheVars,
                        cliVars>>
Frontier == /\ part = "frontier" /\ F!PfNext
            /\ UNCHANGED <<vars, reachVars, shVars, bufVars, sample, list, kitVars, conVars, cacheVars,
                        cliVars>>
Reach == /\ part = "reachable" /\ ReachNext
         /\ UNCHANGED <<vars, pfVars, shVars, bufVars, sample, list, kitVars, conVars, cacheVars,
                        cliVars>>
Strings == /\ part = "strings" /\ ShNext
           /\ UNCHANGED <<vars, pfVars, reachVars, bufVars, sample, list, kitVars, conVars, cacheVars,
                        cliVars>>
Buffers == /\ part = "buffers" /\ BufNext
           /\ UNCHANGED <<vars, pfVars, reachVars, shVars, sample, list, kitVars, conVars, cacheVars,
                        cliVars>>
TextGrows == /\ part = "texts" /\ X!Grow
             /\ UNCHANGED <<vars, pfVars, reachVars, shVars, bufVars, list, kitVars, conVars, cacheVars,
                        cliVars>>
NumbersGrow == /\ part = "numbers" /\ N!GrowList
               /\ UNCHANGED <<vars, pfVars, reachVars, shVars, bufVars, sample, kitVars, conVars, cacheVars,
                        cliVars>>
Kit == /\ part = "toolkit" /\ KitNext
       /\ UNCHANGED <<vars, pfVars, reachVars, shVars, bufVars, sample, list, conVars, cacheVars,
                        cliVars>>
Commands == /\ part = "console" /\ ConNext
            /\ UNCHANGED <<vars, pfVars, reachVars, shVars, bufVars, sample, list, kitVars, cacheVars, cliVars>>
Cache == /\ part = "cache" /\ CacheNext
         /\ UNCHANGED <<vars, pfVars, reachVars, shVars, bufVars, sample, list, kitVars, conVars, cliVars>>
Options == /\ part = "options" /\ CliNext
           /\ UNCHANGED <<vars, pfVars, reachVars, shVars, bufVars, sample, list, kitVars, conVars,
                        cacheVars>>

LibNext ==
  /\ UNCHANGED part
  /\ \/ Pools \/ Frontier \/ Reach \/ Strings \/ Buffers \/ TextGrows \/ NumbersGrow \/ Kit
     \/ Commands \/ Cache \/ Options

LibSpec == LibInit /\ [][LibNext]_libVars

-----------------------------------------------------------------------------

\* The hash and the heap of pathfinding.c implement the abstract priority queue.
FrontierImplementsQueue == F!FrontierImplementsQueue

\* The functions on paths, texts and numbers agree with what they are to compute
\* (path.c, string.c, math.c, bresenham.h, socket_addr_cmp()).
FunctionsAgree == (part = "texts" => X!TextAgrees) /\ (part = "numbers" => N!NumbersAgree)
=============================================================================
