------------------------------ MODULE MCWrapper -----------------------------
(***************************************************************************)
(* Instances of Wrapper: small builds, as make runs them in parallel.      *)
(***************************************************************************)
EXTENDS Wrapper, FiniteSets

CONSTANT FaultBound (* how many faults a behaviour may have that is explored further *)

FewFaults == Cardinality(UNION {{j} \X blame[j] : j \in Jobs}) <= FaultBound

CInputs == {"a.c", "b.c", "m.ll"}
AllFiles == {"a.c", "b.c", "a.cc", "m.ll", "-", "a.ll", "b.ll", "-.ll",
             "a.o", "b.o", "app", "prog", "declaration.ll", "runtime.o"}
AllSources == {"a.c", "b.c", "a.cc", "m.ll", "-"}
AllPiped == {"-"}
LlOf == [s \in AllSources |->
           CASE s \in {"a.c", "a.cc"} -> "a.ll"
             [] s = "b.c" -> "b.ll"
             [] s = "m.ll" -> "m.ll"
             [] s = "-" -> "-.ll"]

Compile(s, o) == [inputs |-> <<s>>, objects |-> <<>>, link |-> FALSE,
                  out |-> o, after |-> {}]

(* A compile, a command with an input of the same stem and one that crashes  *)
(* the pass, and, after the compile, a link of what it made with an ir input. *)
MakeJobs == {"cc_a", "app", "ld"}
MakeCmd == [j \in MakeJobs |->
  CASE j = "cc_a" -> Compile("a.c", "a.o")
    [] j = "app"  -> [inputs |-> <<"a.cc", "b.c">>, objects |-> <<>>, link |-> TRUE,
                      out |-> "app", after |-> {}]
    [] j = "ld"   -> [inputs |-> <<"m.ll">>, objects |-> <<"a.o">>, link |-> TRUE,
                      out |-> "prog", after |-> {"cc_a"}]]

(* One command that compiles two inputs and links them, beside a compile. *)
ProgJobs == {"cc_a", "prog"}
ProgCmd == [j \in ProgJobs |->
  CASE j = "cc_a" -> Compile("a.c", "a.o")
    [] j = "prog" -> [inputs |-> <<"b.c", "m.ll">>, objects |-> <<>>, link |-> TRUE,
                      out |-> "prog", after |-> {}]]

(* A compile, one of the standard input, and a link of what they leave. *)
EndJobs == {"cc_a", "cc", "prog"}
EndCmd == [j \in EndJobs |->
  CASE j = "cc_a" -> Compile("a.c", "a.o")
    [] j = "cc"   -> Compile("-", "b.o")
    [] j = "prog" -> [inputs |-> <<"b.c", "m.ll">>, objects |-> <<"a.o">>, link |-> TRUE,
                      out |-> "prog", after |-> {"cc_a"}]]
=============================================================================
