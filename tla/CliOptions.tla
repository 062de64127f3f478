----------------------------- MODULE CliOptions -----------------------------
(***************************************************************************)
(* Options given on the command line, in configuration files that may load *)
(* other files, and at run time (clioptions.c).                            *)
(*                                                                         *)
(* A name is a sequence, since long options may be abbreviated.  An        *)
(* argument is NONE (there is none), EMPTY, or a value; one in the domain  *)
(* of Contents is written "<file" and stands for what the file holds.      *)
(* What a handler says is a choice, except the handlers of --config, which *)
(* loads a file, and of --help, which ends the program.                    *)
(***************************************************************************)
EXTENDS Naturals, Sequences, SequencesExt

CONSTANTS Definitions,   \* options a program may create
          Tokens,        \* elements of a command line: [form, name, arg]
          Files,         \* path -> lines of a configuration file
          Contents,      \* "<file" -> what the file holds
          Categories, MaxGiven  \* bound: options given on the command line or at run time

\* What is given is not the mark of a value that was freed; files and their contents
\* are there.
ASSUME OptionsAssumption ==
  /\ \A d \in Definitions : /\ d.name \in Seq(Range(d.name))
                            /\ d.argument \in BOOLEAN /\ d.changeable \in BOOLEAN
  /\ \A t \in Tokens : t.arg # "FREED"
  /\ \A path \in DOMAIN Files :
       /\ path \notin {"NONE", "FREED"} /\ Files[path] \in Seq(Range(Files[path]))
       /\ \A n \in DOMAIN Files[path] :
            Files[path][n].kind = "option" => Files[path][n].arg \notin {"NONE", "FREED"}
  /\ \A arg \in DOMAIN Contents : Contents[arg] \notin {"NONE", "FREED"}

VARIABLES clioptions,   \* sequence of the definitions, each with its value
          runtime,      \* clioptions_runtime
          frames,       \* clioptions_load() calls in progress
          ended,        \* "no", or why the program ended
          given,        \* number of options given so far
          fixed         \* the options when clioptions_parse() returned

cliVars == <<clioptions, runtime, frames, ended, given, fixed>>

CliInit == /\ clioptions = <<>> /\ runtime = FALSE /\ frames = <<>> /\ ended = "no"
           /\ given = 0 /\ fixed = <<>>

Names == {clioptions[i].name : i \in DOMAIN clioptions}
Idle == ended = "no" /\ frames = <<>>
End(why) == ended' = why /\ UNCHANGED <<clioptions, frames>>

\* What the setters make of a new option; it has no value.
Described(d) ==
  [name |-> d.name, short_name |-> d.short_name, argument |-> d.argument,
   changeable |-> d.changeable, handler |-> d.handler, value |-> "NONE"]

\* clioptions_create() and the setters, as the CLIOPTIONS_CREATE macros call them.
clioptions_create(d) ==
  /\ Idle /\ ~runtime /\ given = 0
  /\ IF d.name \in Names THEN End("duplicate option")
     ELSE /\ clioptions' = Append(clioptions, Described(d))
          /\ UNCHANGED <<frames, ended>>
  /\ UNCHANGED <<runtime, given, fixed>>

\* clioptions_get()
clioptions_get(name) ==
  LET i == SelectInSeq(clioptions, LAMBDA o : o.name = name)
  IN  IF i = 0 THEN "NONE" ELSE clioptions[i].value

-----------------------------------------------------------------------------
(* Looking up an option                                                     *)

\* Short names are compared as a whole, long ones as far as they are written.
Matches(o, t) == IF t.form = "short" THEN o.short_name # <<>> /\ o.short_name = t.name
                 ELSE IsPrefix(t.name, o.name)

\* clioptions_parse_find(): the first option created that matches, or 0.
clioptions_parse_find(t) == SelectInSeq(clioptions, LAMBDA o : Matches(o, t))

\* The argument of the option found: a short option takes the next element of the
\* command line only if it wants one.
ArgumentOf(o, t) == IF t.form = "short" /\ ~o.argument THEN "NONE" ELSE t.arg
LacksArgument(o, t) == o.argument /\ ArgumentOf(o, t) \in {"NONE", "EMPTY"}

-----------------------------------------------------------------------------
(* Calling its handler                                                      *)

\* The handler has accepted an argument: the old value is freed, and only replaced
\* if there is an argument.
Store(opts, i, arg) ==
  [opts EXCEPT ![i].value = IF arg # "NONE" THEN arg
                            ELSE IF @ = "NONE" THEN "NONE" ELSE "FREED"]

\* The handler has returned; `stack' is what remains of the loads in progress.
Accept(i, arg, stack) ==
  IF clioptions[i].value = "FREED" THEN End("double free")
  ELSE clioptions' = Store(clioptions, i, arg) /\ frames' = stack /\ UNCHANGED ended

\* Nothing is stored.
Refuse(stack) == frames' = stack /\ UNCHANGED <<clioptions, ended>>

Frame(path, category, i) ==
  [path |-> path, at |-> 1, category |-> category, current |-> "NONE", option |-> i]

\* The handlers of --help and of --config.
clioptions_option_help == End("help")
clioptions_option_config(path, i, stack) ==
  IF path \notin DOMAIN Files THEN Refuse(stack)
  ELSE frames' = Append(stack, Frame(path, "NONE", i)) /\ UNCHANGED <<clioptions, ended>>

\* clioptions_call_handler() for option i.
clioptions_call_handler(i, arg, stack) ==
  LET handler == clioptions[i].handler
      meant == IF arg \in DOMAIN Contents THEN Contents[arg] ELSE arg
  IN  \/ arg \in DOMAIN Contents /\ Refuse(stack)      \* the file cannot be opened
      \/ handler = "plain" /\ (Refuse(stack) \/ Accept(i, meant, stack))
      \/ handler = "help" /\ clioptions_option_help
      \/ handler = "config" /\ clioptions_option_config(meant, i, stack)

\* One element of the command line (for a short option that wants an argument, two).
ParseOne(t) ==
  LET i == clioptions_parse_find(t)
  IN  /\ Idle /\ ~runtime /\ given < MaxGiven /\ given' = given + 1
      /\ CASE i = 0 -> End("unknown option")
           [] i # 0 /\ LacksArgument(clioptions[i], t) -> End("argument required")
           [] i # 0 /\ ~LacksArgument(clioptions[i], t) ->
                IF clioptions[i].handler = "none" THEN Refuse(frames)
                ELSE clioptions_call_handler(i, ArgumentOf(clioptions[i], t), frames)
      /\ UNCHANGED <<runtime, fixed>>

\* clioptions_parse() returns.
ParseEnd == /\ Idle /\ ~runtime /\ runtime' = TRUE /\ fixed' = clioptions
            /\ UNCHANGED <<clioptions, frames, ended, given>>

\* Mutant: only options set directly are looked at, not those of a file.
SettableByFile(i) ==
  clioptions[i].handler # "none" /\ (runtime /\ frames = <<>> => clioptions[i].changeable)

\* Option i may be set by a line of text.
Settable(i) == clioptions[i].handler # "none" /\ (runtime => clioptions[i].changeable)

\* clioptions_load_str(): "name = value"; a line without "=" is refused.
clioptions_load_str(line, stack) ==
  LET t == [form |-> "long", name |-> line.name, arg |-> line.arg]
      i == clioptions_parse_find(t)
  IN  IF line.kind = "bad" \/ i = 0 THEN Refuse(stack)
      ELSE IF LacksArgument(clioptions[i], t) THEN End("argument required")
      ELSE IF Settable(i) THEN clioptions_call_handler(i, line.arg, stack)
      ELSE Refuse(stack)

\* A line given by the program, as from its console.
SetAtRuntime(line) ==
  /\ Idle /\ runtime /\ given < MaxGiven /\ given' = given + 1
  /\ line.kind \in {"option", "bad"} /\ clioptions_load_str(line, frames) /\ UNCHANGED <<runtime, fixed>>

-----------------------------------------------------------------------------
(* Loading a file                                                           *)

\* clioptions_load() called by the program itself.
Load(path, category) ==
  /\ Idle /\ given < MaxGiven /\ given' = given + 1
  /\ frames' = Append(frames, Frame(path, category, 0))
  /\ UNCHANGED <<clioptions, runtime, ended, fixed>>

Innermost == Last(frames)
Line == Files[Innermost.path][Innermost.at]
Advanced == [frames EXCEPT ![Len(frames)].at = @ + 1]

\* The next line: a comment, the head of a category, or an option, which counts if
\* its category is wanted.
LoadLine ==
  /\ ended = "no" /\ frames # <<>> /\ Innermost.at <= Len(Files[Innermost.path])
  /\ CASE Line.kind = "category" -> Refuse([Advanced EXCEPT ![Len(frames)].current = Line.arg])
       [] Line.kind \in {"option", "bad"} /\ Innermost.category \in {"NONE", Innermost.current} ->
            clioptions_load_str(Line, Advanced)
       [] OTHER -> Refuse(Advanced)
  /\ UNCHANGED <<runtime, given, fixed>>

\* The end of the file; if a handler of --config loads it, that handler is done.
LoadEnd ==
  /\ ended = "no" /\ frames # <<>> /\ Innermost.at > Len(Files[Innermost.path])
  /\ IF Innermost.option = 0 THEN Refuse(Front(frames))
     ELSE Accept(Innermost.option, Innermost.path, Front(frames))
  /\ UNCHANGED <<runtime, given, fixed>>

CliNext ==
  \/ \E d \in Definitions : clioptions_create(d)
  \/ \E t \in Tokens : ParseOne(t)
  \/ ParseEnd
  \/ \E path \in DOMAIN Files, c \in Categories : Load(path, c)
  \/ \E path \in DOMAIN Files : \E n \in DOMAIN Files[path] : SetAtRuntime(Files[path][n])
  \/ LoadLine
  \/ LoadEnd

CliSpec == CliInit /\ [][CliNext]_cliVars

-----------------------------------------------------------------------------

\* Options can be told apart, an option whose name is no prefix of another's is
\* found by its name, and nothing is found but by a prefix of its name.
NamesAreFound ==
  \A i \in DOMAIN clioptions :
    LET Long(n) == [form |-> "long", name |-> n, arg |-> "NONE"]
        name == clioptions[i].name
    IN  /\ \A j \in DOMAIN clioptions : clioptions[j].name = name => j = i
        /\ (\A n \in Names \ {name} : ~IsPrefix(name, n))
             => clioptions_parse_find(Long(name)) = i
        /\ \A k \in 0..Len(name) :
             clioptions_parse_find(Long(SubSeq(name, 1, k))) \in 1..i

\* "Option is not changeable at runtime" (clioptions.c:600): whatever is set or
\* loaded after the command line, through files that load files too, such an option
\* keeps its value; an option that takes an argument never loses its value again.
OptionsAreSound ==
  /\ NamesAreFound
  /\ \A i \in DOMAIN fixed : ~fixed[i].changeable => clioptions[i] = fixed[i]
  /\ \A i \in DOMAIN clioptions :
       clioptions[i].argument => clioptions_get(clioptions[i].name) # "FREED"
=============================================================================
