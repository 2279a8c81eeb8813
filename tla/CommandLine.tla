----------------------------- MODULE CommandLine ----------------------------
(***************************************************************************)
(* One invocation of the wrapper as its command line sees it: the phases   *)
(* the compiler prints for it are parsed, the inputs are picked from them, *)
(* the options from the arguments, and the commands put together that make *)
(* the LLVM IR of each input and, at the end, what the user asked for.     *)
(* (wrapper/wrapper_base.cc, common/arguments.cc, common/phase.cc)         *)
(***************************************************************************)
EXTENDS CompilerDriver, ShellQuoting

CONSTANTS
  Commands,     (* the command lines of users, without the program's name    *)
  Builds,       (* the ways to build the wrapper: cxx, ndk, and hooks if the *)
                (* tool links a runtime                                      *)
  Ll,           (* Ll[f] is f with its extension replaced by .ll             *)
  DeclarationC, DeclarationLl, RuntimeC, RuntimeO

BuildType == [cxx : BOOLEAN, ndk : BOOLEAN, hooks : BOOLEAN]

(* The options that the wrapper adds to those of the user. *)
Added == {"-D", "ANDROID", "--no-warnings", "-fPIC"}
Internal == {"-Xclang", "-disable-O0-optnone", "-O0", "--debug", "-no-opaque-pointers",
             "--assemble", "-emit-llvm", "--language", "c", "--compile", "--output",
             "-ccc-print-phases"}

(* No file of a user lies where an input is compiled to. *)
ASSUME CommandAssumption ==
  /\ Commands \subseteq Seq(Args) /\ Builds \subseteq BuildType
  /\ \A a \in DOMAIN Response : Response[a] \in Seq(Args)
  /\ Ll \in [Args -> Args] /\ \A f \in Args : Ll[f] = f \/ Ll[f] \in Generated
  /\ Added \cup Internal \cup {DeclarationC, DeclarationLl, RuntimeC, RuntimeO} \subseteq Args

(* What the compiler takes the words and the files of the wrapper for. *)
ASSUME VocabularyAssumption ==
  /\ {"-D", "-Xclang"} \subseteq Valued
  /\ {"--no-warnings", "-fPIC", "-O0", "--debug", "-emit-llvm"} \subseteq Options \ Valued
  /\ {"ANDROID", "c", "-disable-O0-optnone", "-no-opaque-pointers"}
       \cap (Valued \cup DOMAIN Response) = {}
  /\ \A f \in {DeclarationC, RuntimeC} : f \in DOMAIN Native \ Generated /\ Native[f] = "c"
  /\ \A f \in Args : Ll[f] # f => Native[Ll[f]] = "ir"
  /\ {DeclarationLl, RuntimeO} \subseteq Generated /\ Native[RuntimeO] = "object"

VARIABLES
  args,     (* the arguments, without the program's name                     *)
  build,    (* how this wrapper was built                                    *)
  pc,       (* where it is                                                   *)
  n,        (* the position of the current loop                              *)
  lines,    (* what the compiler printed                                     *)
  phases,   (* the lines that are phases                                     *)
  inputs,   (* the sources it instruments, in the end what replaces them     *)
  options,  (* the other arguments                                           *)
  made,     (* the generated files, and what each was made from              *)
  outcome   (* how it ended, and what the last run of the compiler made      *)

vars == <<args, build, pc, n, lines, phases, inputs, options, made, outcome>>

None == [ended |-> "no"]

Init ==
  /\ args \in Commands /\ build \in Builds
  /\ Build(args, build.cxx, <<>>).ok
  /\ pc = "query" /\ n = 1
  /\ lines = <<>> /\ phases = <<>> /\ inputs = <<>> /\ options = <<>>
  /\ made = <<>> /\ outcome = None

(* Whether something follows that the loop has not come to. *)
Ends(seq) == n > Len(seq)
Goto(stage) == pc' = stage /\ n' = 1

End(how, result) ==
  /\ pc' = "done"
  /\ outcome' = [ended |-> how, result |-> result]
-----------------------------------------------------------------------------
(***************************************************************************)
(* get_phases(): the arguments go through the shell to the compiler.       *)
(***************************************************************************)
Query ==
  /\ pc = "query"
  /\ LET command == Command(<<"-ccc-print-phases">> \o args)
         asked == Tail(ShellArgs(command))
     IN IF Understood(command) /\ Build(asked, build.cxx, <<>>).ok
        THEN /\ lines' = Phases(asked, build.cxx)
             /\ Goto("parse")
             /\ UNCHANGED outcome
        ELSE /\ End("exit", Rejected)
             /\ UNCHANGED <<n, lines>>
  /\ UNCHANGED <<args, build, phases, inputs, options, made>>

(* parse_phase() takes the name of an input to end at the first quote. *)
Matches(line) ==
  CASE line.tool = "warning" -> FALSE
    [] line.tool = "input"   -> "quote" \notin ToSet(Text[line.name])
    [] OTHER                 -> TRUE

(* parse_phases(): what is no phase is skipped. *)
ParsePhase ==
  /\ pc = "parse"
  /\ IF Ends(lines) THEN Goto("inputs") /\ UNCHANGED phases
     ELSE /\ phases' = IF Matches(lines[n]) THEN Append(phases, lines[n]) ELSE phases
          /\ n' = n + 1 /\ UNCHANGED pc
  /\ UNCHANGED <<args, build, lines, inputs, options, made, outcome>>

IsSource(phase) == phase.tool = "input" /\ phase.type \in {"c", "c++", "ir"}

HasLinkStage == \E k \in DOMAIN phases : phases[k].tool = "linker"

(* get_inputs() asserts that each source is there. *)
GetInput ==
  /\ pc = "inputs"
  /\ \/ /\ Ends(phases)
        /\ Goto("options")
        /\ UNCHANGED <<inputs, outcome>>
     \/ /\ ~Ends(phases) /\ IsSource(phases[n]) /\ phases[n].name \in Piped
        /\ End("crash", Rejected)
        /\ UNCHANGED <<n, inputs>>
     \/ /\ ~Ends(phases) /\ ~(IsSource(phases[n]) /\ phases[n].name \in Piped)
        /\ inputs' = IF IsSource(phases[n]) THEN Append(inputs, phases[n].name) ELSE inputs
        /\ n' = n + 1
        /\ UNCHANGED <<pc, outcome>>
  /\ UNCHANGED <<args, build, lines, phases, options, made>>

(* get_options(): every argument that is equal to an input is left out. *)
GetOption ==
  /\ pc = "options"
  /\ IF Ends(args) THEN Goto("stdc") /\ UNCHANGED options
     ELSE /\ options' = IF Contains(inputs, args[n]) THEN options ELSE Append(options, args[n])
          /\ n' = n + 1 /\ UNCHANGED pc
  /\ UNCHANGED <<args, build, lines, phases, inputs, made, outcome>>
-----------------------------------------------------------------------------
(* A mutant of RemoveStdc: i is not set back after an erase. *)
RemoveStdcSkips ==
  /\ pc = "stdc" /\ build.cxx /\ ~Ends(options)
  /\ options' = IF options[n] \in StdC THEN RemoveAt(options, n) ELSE options
  /\ n' = n + 1
  /\ UNCHANGED <<args, build, pc, lines, phases, inputs, made, outcome>>

(* remove_stdc(), for C++: --i after an erase, then ++i. *)
RemoveStdc ==
  /\ pc = "stdc" /\ build.cxx /\ ~Ends(options)
  /\ IF options[n] \in StdC
     THEN options' = RemoveAt(options, n) /\ UNCHANGED n
     ELSE n' = n + 1 /\ UNCHANGED options
  /\ UNCHANGED <<args, build, pc, lines, phases, inputs, made, outcome>>

(* The rest of prepare_args(). *)
Additions == (IF build.ndk THEN <<"-D", "ANDROID">> ELSE <<>>) \o <<"--no-warnings", "-fPIC">>

AddOptions ==
  /\ pc = "stdc" /\ (build.cxx => Ends(options))
  /\ options' = options \o Additions
  /\ Goto(IF build.hooks THEN "runtime" ELSE "generate")
  /\ UNCHANGED <<args, build, lines, phases, inputs, made, outcome>>
-----------------------------------------------------------------------------
(* A mutant of JoinArgs: the inputs come first. *)
JoinArgsInputsFirst(opts, ins) == ins \o opts

JoinArgs(opts, ins) == opts \o ins

Debuggable == <<"-Xclang", "-disable-O0-optnone", "-O0", "--debug">>

(* generate_ll(): the C++ compiler is told that a .c file is C. *)
LlCommand(input, output) ==
  JoinArgs(options \o Debuggable
             \o <<"-Xclang", "-no-opaque-pointers", "--assemble", "-emit-llvm">>
             \o (IF build.cxx /\ Native[input] = "c" THEN <<"--language", "c">> ELSE <<>>)
             \o <<"--output", output>>,
           <<input>>)

OCommand(input, output) ==
  JoinArgs(options \o Debuggable \o <<"--compile", "--output", output>>, <<input>>)

(* The generated files when this one is made, too. *)
MadeAlso(file, unit) ==
  [f \in DOMAIN made \cup {file} |-> IF f = file THEN unit ELSE made[f]]

(* The int that these two throw is caught by nobody. *)
GenerateRuntime ==
  /\ pc = "runtime"
  /\ IF /\ Build(LlCommand(DeclarationC, DeclarationLl), build.cxx, made).ok
        /\ Build(OCommand(RuntimeC, RuntimeO), build.cxx, made).ok
     THEN Goto("generate") /\ UNCHANGED outcome
     ELSE End("crash", Rejected) /\ UNCHANGED n
  /\ UNCHANGED <<args, build, lines, phases, inputs, options, made>>

(***************************************************************************)
(* generate_ll() and the pass, which finds calls of interest in the module *)
(* or none.  A command that the compiler rejects, and one that leaves no   *)
(* IR as it only preprocesses, leave the input as it is.                   *)
(***************************************************************************)
GenerateLl ==
  /\ pc = "generate" /\ ~Ends(inputs)
  /\ LET input == inputs[n]
         ll == Build(LlCommand(input, Ll[input]), build.cxx, made)
     IN \/ UNCHANGED <<inputs, made>>
        \/ /\ build.hooks /\ Ll[input] # input
           /\ ll.ok /\ ll.mode = "assemble"
           /\ made' = MadeAlso(Ll[input], ll.units[1])
           /\ inputs' = [inputs EXCEPT ![n] = Ll[input]]
  /\ n' = n + 1
  /\ UNCHANGED <<args, build, pc, lines, phases, options, outcome>>

(* The last command: join_args() and the runtime. *)
Final ==
  /\ pc = "generate" /\ Ends(inputs)
  /\ LET files == inputs \o IF build.hooks /\ HasLinkStage THEN <<RuntimeO>> ELSE <<>>
     IN End("exit", Build(JoinArgs(options, files), build.cxx,
                         MadeAlso(RuntimeO, <<RuntimeO, "object">>)))
  /\ UNCHANGED <<args, build, n, lines, phases, inputs, options, made>>

Next ==
  \/ Query \/ ParsePhase \/ GetInput \/ GetOption
  \/ RemoveStdc \/ AddOptions
  \/ GenerateRuntime \/ GenerateLl \/ Final

Spec == Init /\ [][Next]_vars
-----------------------------------------------------------------------------
(***************************************************************************)
(* Properties.                                                             *)
(***************************************************************************)
LineType == [tool : {"warning", "input", "compiler", "linker"}, name : Args \cup {""},
             type : Languages \cup {"", "image"}]

Stages == {"query", "parse", "inputs", "options", "stdc", "runtime", "generate", "done"}

(* The variables have their types, and no loop runs past its list. *)
TypeOK ==
  /\ args \in Seq(Args) /\ build \in Builds /\ pc \in Stages
  /\ lines \in Seq(LineType) /\ phases \in Seq(LineType)
  /\ inputs \in Seq(Args) /\ options \in Seq(Args)
  /\ DOMAIN made \subseteq Generated
  /\ n \in Nat \ {0}
  /\ pc = "parse" => n <= Len(lines) + 1
  /\ pc = "inputs" => n <= Len(phases) + 1
  /\ pc = "options" => n <= Len(args) + 1
  /\ pc = "stdc" => n <= Len(options) + 1
  /\ pc = "generate" => n <= Len(inputs) + 1

(***************************************************************************)
(* The compiler accepts the question and answers it about the command line *)
(* of the user, whatever characters the arguments have.                    *)
(***************************************************************************)
Asked == pc # "query" => lines = Phases(args, build.cxx)

(* What stands at the positions in S. *)
At(seq, S) == LET where == InOrder(S) IN [k \in DOMAIN where |-> seq[where[k]]]

SourceNames == {phases[k].name : k \in {l \in DOMAIN phases : IsSource(phases[l])}}

(***************************************************************************)
(* Whatever is erased while the loop counts: the options are the arguments *)
(* of the user in their order, without the sources and, for C++, without   *)
(* every -std of C, wherever they stand and however many there are.        *)
(***************************************************************************)
OptionsKept ==
  pc \in {"runtime", "generate"} =>
    options = At(args, {k \in DOMAIN args : args[k] \notin SourceNames
                                            /\ ~(build.cxx /\ args[k] \in StdC)})
                \o Additions
-----------------------------------------------------------------------------
(* The command line as the compiler sees it, and its sources. *)
Words == Expand(args)
SourcesOf == {i \in ToSet(InputsOf(Words)) : Language(Words, build.cxx, i) \in {"c", "c++", "ir"}}
Instrumentable == {i \in SourcesOf : "quote" \notin ToSet(Text[Words[i]])}

(***************************************************************************)
(* The commands that come out as they went in.  The sources move behind    *)
(* all options, so the last -x must be in force for each of them, and none *)
(* may be in force for IR.  Every argument that is equal to a source is    *)
(* dropped, and for C++ every -std of C, so none may be a value.  Behind   *)
(* "--" there is no place for options.  What stands in a response file     *)
(* cannot be dropped.  A source that is piped in fails an assertion.  Two  *)
(* sources of one stem are compiled to one file.                           *)
(***************************************************************************)
LanguageSettled ==
  LET last == Forced(Words, Len(Words) + 1)
  IN /\ \A i \in Instrumentable : Forced(Words, i) = last
     /\ build.hooks => last = "none"

NamesApart ==
  /\ \A i \in DOMAIN Words, k \in Instrumentable : Words[i] = Words[k] => i \in Instrumentable
  /\ build.cxx => \A i \in DOMAIN Words : Words[i] \in StdC => ~IsValue(Words, i)

Plainly ==
  /\ Given(Words, {"--"}) = {}
  /\ \A a \in ToSet(args) \cap DOMAIN Response : \A w \in ToSet(Response[a]) :
       w \notin StdC /\ \A i \in Instrumentable : w # Words[i]
  /\ \A i \in SourcesOf : Words[i] \notin Piped

StemsApart ==
  build.hooks =>
    \A i, k \in Instrumentable : Ll[Words[i]] = Ll[Words[k]] => Words[i] = Words[k]

(***************************************************************************)
(* A tool with a runtime compiles C with all options of the user: it does  *)
(* not stand an option for C++, nor an input besides that is compiled.  A  *)
(* C++ wrapper compiles a .c file as C, which the compiler alone would     *)
(* take for C++.                                                           *)
(***************************************************************************)
RuntimeCompiles ==
  build.hooks =>
    /\ Given(Words, StdCxx) = {}
    /\ ToSet(Compiled(Words, build.cxx)) = Instrumentable
    /\ build.cxx => \A i \in Instrumentable : Native[Words[i]] # "c"

Regular == LanguageSettled /\ NamesApart /\ Plainly /\ StemsApart /\ RuntimeCompiles

Plain == Build(args, build.cxx, <<>>)
Units(result) ==
  At(result.units, {k \in DOMAIN result.units : result.units[k] # <<RuntimeO, "object">>})

(***************************************************************************)
(* What the user asked for is made: the last command of the wrapper stops  *)
(* at the phase and has the output of the user's, and takes every file in  *)
(* the language it has there, instrumented or not; it links the runtime if *)
(* it links.  The standard of a language is left to OptionsKept.           *)
(***************************************************************************)
BuildsTheSame ==
  pc = "done" /\ Regular =>
    /\ outcome.ended = "exit" /\ outcome.result.ok
    /\ outcome.result.mode = Plain.mode /\ outcome.result.out = Plain.out
    /\ ToBag(Units(outcome.result)) = ToBag(Plain.units)
    /\ Contains(outcome.result.units, <<RuntimeO, "object">>)
         <=> build.hooks /\ Plain.mode = "link"

(* No source stands before an object, a library or another compiled input. *)
SourcesLast ==
  \A i \in Instrumentable, k \in ToSet(InputsOf(Words)) : i < k => k \in Instrumentable

(* The linker gets its files in the order of the user, if the sources are last. *)
LinksInOrder ==
  pc = "done" /\ Regular /\ SourcesLast => Units(outcome.result) = Plain.units
=============================================================================
