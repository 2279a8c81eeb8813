--------------------------- MODULE CompilerDriver ---------------------------
(***************************************************************************)
(* What the compiler makes of a command line: a part of clang's driver, as *)
(* far as the wrapper relies on it.  Words are inputs, options or values   *)
(* of the option before them, and no value is an option that has one.  The *)
(* language of an input is what the last -x before it says, else what its  *)
(* name says.                                                              *)
(***************************************************************************)
EXTENDS Integers, SequencesExt

CONSTANTS
  Options,    (* the words with a dash that are no inputs, "--" among them   *)
  Valued,     (* the options whose value is the next word                    *)
  Libraries,  (* the inputs of the linker with a dash: -lz                   *)
  Native,     (* Native[f] is the language of file f by its name             *)
  Generated,  (* the files that are there only when the wrapper makes them   *)
  Piped,      (* the inputs that are no file: "-"                            *)
  Response    (* Response[a] are the words in the response file a            *)

StdC == {"-std=c11"}
StdCxx == {"-std=c++11"}
Languages == {"c", "c++", "ir", "assembler", "object"}

ASSUME DriverAssumption ==
  /\ Valued \subseteq Options /\ Options \cap DOMAIN Native = {}
  /\ Libraries \cup Generated \cup Piped \subseteq DOMAIN Native
  /\ \A f \in DOMAIN Native : Native[f] \in Languages \/ f \in Piped
  /\ Piped \cap Generated = {} /\ (Options \cup DOMAIN Native) \cap DOMAIN Response = {}
  /\ {"-x", "--language", "-o", "--output"} \subseteq Valued
  /\ {"--", "-E", "-S", "--assemble", "-c", "--compile"} \cup StdC \cup StdCxx
       \subseteq Options \ Valued

(* The words of a command line with those of its response files. *)
Expand(argv) ==
  FlattenSeq([i \in DOMAIN argv |->
                IF argv[i] \in DOMAIN Response THEN Response[argv[i]] ELSE <<argv[i]>>])

(* Whether a word is the value of the option before it. *)
IsValue(argv, i) == i > 1 /\ argv[i - 1] \in Valued

Given(argv, words) == {i \in DOMAIN argv : argv[i] \in words /\ ~IsValue(argv, i)}

(* Behind "--" every word is an input. *)
IsInput(argv, i) ==
  /\ ~IsValue(argv, i)
  /\ argv[i] \in Options => \E k \in Given(argv, {"--"}) : k < i

(* The positions in S from the first to the last. *)
InOrder(S) ==
  [k \in 1 .. Cardinality(S) |-> CHOOSE i \in S : Cardinality({j \in S : j <= i}) = k]

InputsOf(argv) == InOrder({i \in DOMAIN argv : IsInput(argv, i)})

(* The value of the last of these options before position n. *)
ValueBefore(argv, words, n, default) ==
  LET before == {i \in Given(argv, words) : i < n}
  IN IF before = {} THEN default ELSE argv[Max(before) + 1]

Forced(argv, n) == ValueBefore(argv, {"-x", "--language"}, n, "none")

Language(argv, cxx, i) ==
  IF argv[i] \in Libraries \/ Forced(argv, i) = "none"
  THEN IF cxx /\ Native[argv[i]] = "c" THEN "c++" ELSE Native[argv[i]]
  ELSE Forced(argv, i)

(* A C source compiles as C++, too; what is piped in has no name to tell. *)
Accepts(f, language) ==
  IF f \in Piped THEN language \in {"c", "c++"}
  ELSE language = Native[f] \/ (Native[f] = "c" /\ language = "c++")

(* The last phase. *)
Mode(argv) ==
  IF Given(argv, {"-E"}) # {} THEN "preprocess"
  ELSE IF Given(argv, {"-S", "--assemble"}) # {} THEN "assemble"
  ELSE IF Given(argv, {"-c", "--compile"}) # {} THEN "compile"
  ELSE "link"

Output(argv) == ValueBefore(argv, {"-o", "--output"}, Len(argv), "none")

(* The inputs that are compiled, in their order; the linker takes the others, too. *)
Compiled(argv, cxx) ==
  InOrder({i \in ToSet(InputsOf(argv)) : Language(argv, cxx, i) # "object"})

(* made[f] is what the generated file f was compiled from, for those that are there. *)
Exists(f, made) == f \in DOMAIN Native \ Generated \/ f \in DOMAIN made

(* The errors of a command line whose inputs exist. *)
Errs(argv, inputs, cxx) ==
  \/ inputs = <<>>
  \/ argv[Len(argv)] \in Valued
  \/ \E i \in ToSet(inputs) :
       LET language == Language(argv, cxx, i)
       IN \/ ~Accepts(argv[i], language)
          \/ language = "c++" /\ Given(argv, StdC) # {}
          \/ language = "c" /\ Given(argv, StdCxx) # {}
  \/ Mode(argv) # "link" /\ Output(argv) # "none" /\ Len(Compiled(argv, cxx)) > 1

(* A unit is a source and the language it is compiled in. *)
UnitOf(argv, cxx, i, made) ==
  IF argv[i] \in Generated THEN made[argv[i]] ELSE <<argv[i], Language(argv, cxx, i)>>

Rejected == [ok |-> FALSE]

(* What a run of the compiler makes. *)
Build(args, cxx, made) ==
  LET argv == Expand(args)
      inputs == InputsOf(argv)
      used == IF Mode(argv) = "link" THEN inputs ELSE Compiled(argv, cxx)
  IN IF (\E i \in ToSet(inputs) : ~Exists(argv[i], made)) \/ Errs(argv, inputs, cxx)
     THEN Rejected
     ELSE [ok |-> TRUE, mode |-> Mode(argv), out |-> Output(argv),
           units |-> [k \in DOMAIN used |-> UnitOf(argv, cxx, used[k], made)]]

(***************************************************************************)
(* What -ccc-print-phases prints: the phases of each input, and that of    *)
(* the link.  Between them stand other lines, warnings for example.        *)
(***************************************************************************)
Line(tool, name, type) == [tool |-> tool, name |-> name, type |-> type]

PhasesOf(argv, cxx, i) ==
  LET language == Language(argv, cxx, i)
  IN <<Line("input", argv[i], language)>>
     \o IF language \in {"c", "c++"} THEN <<Line("compiler", "", "ir")>> ELSE <<>>

Phases(args, cxx) ==
  LET argv == Expand(args)
      inputs == InputsOf(argv)
  IN <<Line("warning", "", "")>>
     \o FlattenSeq([k \in DOMAIN inputs |-> PhasesOf(argv, cxx, inputs[k])])
     \o IF Mode(argv) = "link" THEN <<Line("linker", "", "image")>> ELSE <<>>
=============================================================================
