------------------------------ MODULE Wrapper -------------------------------
(***************************************************************************)
(* The wrapper processes of one build: every job is one invocation of a    *)
(* tool of src/main/ in place of the compiler, from its start to its exit. *)
(* A job asks the compiler for its phases, compiles every input to LLVM    *)
(* IR next to it, instruments that file in place, and compiles what is     *)
(* left of its command line for good.  The jobs of a parallel build run    *)
(* interleaved and share the directory tree: the sources, the .ll files    *)
(* the wrapper leaves behind, and one declaration.ll and one runtime.o.    *)
(***************************************************************************)
EXTENDS Executor, Sequences

CONSTANTS
  Jobs,           (* the invocations of the wrapper                           *)
  Earlier,        (* whoever made what is on the disk before the build        *)
  Files,          (* every path of the tree                                   *)
  Sources,        (* the paths of inputs of type c, c++ or ir                 *)
  Piped,          (* the sources that are no file: "-", the standard input    *)
  Ll,             (* Ll[s] is s with its extension replaced by .ll            *)
  DeclarationLl,  (* declaration.ll of the runtime, rebuilt by every job      *)
  RuntimeO,       (* runtime.o of the runtime, rebuilt by every job           *)
  Cmd,            (* the command line of each job, see CmdType                *)
  Tool,           (* which of the four tools the build runs                   *)
  Hookable,       (* the sources with a call that the tool's pass hooks       *)
  Crashing,       (* the sources whose IR ends the process in the tool's pass *)
  Leftovers,      (* what an earlier build may have left, see Leftover        *)
  Fates           (* the fates of children this build may meet                *)

Tools == {"base", "struct-parser", "call-hook", "jni-interface-counter"}

(***************************************************************************)
(* A command line: its inputs in order, its other files (objects), whether *)
(* it links, its output, and the jobs whose outputs it reads; make runs it *)
(* only when these have exited with 0.                                     *)
(***************************************************************************)
CmdType == [inputs : Seq(Sources), objects : Seq(Files), link : BOOLEAN,
            out : Files, after : SUBSET Jobs]

ASSUME JobsAssumption ==
  /\ Cmd \in [Jobs -> CmdType]
  /\ Earlier \notin Jobs
ASSUME FilesAssumption ==
  /\ Sources \subseteq Files /\ Piped \subseteq Sources
  /\ Ll \in [Sources -> Files]
  /\ {DeclarationLl, RuntimeO} \subseteq Files \ Sources
ASSUME ToolAssumption ==
  /\ Tool \in Tools
  /\ Hookable \subseteq Sources /\ Crashing \subseteq Sources
  /\ Tool = "base" => Crashing = {}
  /\ Fates \subseteq AllFates
  /\ Leftovers \subseteq {"absent", "torn", "earlier"}

(***************************************************************************)
(* A build whose commands do not overwrite each other's files: no two have *)
(* one output, no output is a source or an .ll file of one, and an object  *)
(* is the output of a job that make has run before.  An .ll file that is a *)
(* source is an ir input, its own .ll file.                                *)
(***************************************************************************)
ASSUME BuildAssumption ==
  /\ DeclarationLl # RuntimeO
  /\ \A s \in Sources : /\ Ll[s] \notin {DeclarationLl, RuntimeO}
                        /\ Ll[s] \in Sources => Ll[Ll[s]] = Ll[s]
  /\ \A j, k \in Jobs : Cmd[j].out = Cmd[k].out => j = k
  /\ \A j \in Jobs : /\ Cmd[j].out \notin Sources \cup {DeclarationLl, RuntimeO}
                     /\ \A s \in Sources : Ll[s] # Cmd[j].out
  /\ \A j \in Jobs : \A i \in DOMAIN Cmd[j].objects :
       \E k \in Cmd[j].after : Cmd[k].out = Cmd[j].objects[i]

(* The tools that link a runtime and whose pass inserts calls of it. *)
Hooking == Tool \in {"call-hook", "jni-interface-counter"}

(* An ir input is its own .ll file. *)
Raw(s) == Ll[s] # s
-----------------------------------------------------------------------------
(***************************************************************************)
(* The content of a file: the translation units it holds, each with the    *)
(* job whose options made it and how many times it was instrumented.  A    *)
(* torn file does not parse.  "writers" are the jobs that hold this very   *)
(* file open for writing: the compiler renames a finished file over the    *)
(* path, and a job that had it open goes on writing to the old one.        *)
(***************************************************************************)
Unit == [src : Sources \cup {DeclarationLl, RuntimeO},
         by : Jobs \cup {Earlier}, hooks : Nat]

File == [state : {"absent", "whole", "torn", "mixed"},
         units : SUBSET Unit, writers : SUBSET Jobs]

Absent   == [state |-> "absent", units |-> {}, writers |-> {}]
Whole(u) == [state |-> "whole", units |-> u, writers |-> {}]
Torn(w)  == [state |-> "torn", units |-> {}, writers |-> w]
Mixed(w) == [state |-> "mixed", units |-> {}, writers |-> w]

Made(s, j) == {[src |-> s, by |-> j, hooks |-> 0]}

(* A mutant of Hooked: the block's loop meets the call it has hooked again. *)
HookedTwice(u) == {[x EXCEPT !.hooks = @ + 2] : x \in u}

(* A pass puts its hook before each call of interest. *)
Hooked(u) == {[x EXCEPT !.hooks = @ + 1] : x \in u}

VARIABLES
  disk,     (* the content of every file                                      *)
  pc,       (* where each job is in compile_s()                               *)
  inputs,   (* its vector inputs                                              *)
  link,     (* its has_link_stage                                             *)
  idx,      (* the position in inputs of its loop                             *)
  module,   (* the module it is printing to a file                            *)
  status,   (* its exit status, once it is done                               *)
  blame     (* history: what went wrong in it or its children                 *)

vars == <<disk, pc, inputs, link, idx, module, status, blame>>

(***************************************************************************)
(* What an earlier build left at a path that is not a source.  An aborted  *)
(* one may have left its .ll files torn.                                   *)
(***************************************************************************)
EarlierUnits(f) ==
  LET compiled == {s \in Sources : Ll[s] = f}
      built    == UNION {{Cmd[j].inputs[i] : i \in DOMAIN Cmd[j].inputs} :
                           j \in {k \in Jobs : Cmd[k].out = f}}
  IN {[src |-> s, by |-> Earlier, hooks |-> IF Hooking THEN 1 ELSE 0] :
        s \in compiled \cup built}
     \cup IF f \in {DeclarationLl, RuntimeO} THEN Made(f, Earlier) ELSE {}

Leftover(kind, f) ==
  CASE f \in Piped           -> Absent
    [] f \in Sources \ Piped -> Whole(Made(f, Earlier))
    [] OTHER ->
         CASE kind = "absent"  -> Absent
           [] kind = "earlier" -> Whole(EarlierUnits(f))
           [] kind = "torn"    -> IF \E s \in Sources : Ll[s] = f
                                  THEN Torn({}) ELSE Whole(EarlierUnits(f))

Init ==
  /\ \E kind \in Leftovers : disk = [f \in Files |-> Leftover(kind, f)]
  /\ pc     = [j \in Jobs |-> "idle"]
  /\ inputs = [j \in Jobs |-> <<>>]
  /\ link   = [j \in Jobs |-> FALSE]
  /\ idx    = [j \in Jobs |-> 1]
  /\ module = [j \in Jobs |-> {}]
  /\ status = [j \in Jobs |-> 0]
  /\ blame  = [j \in Jobs |-> {}]
-----------------------------------------------------------------------------
(* The process ends: an exit, or a crash, whose code is that of an abort. *)
Crash == 134

Exit(j, code) ==
  /\ pc' = [pc EXCEPT ![j] = "done"]
  /\ status' = [status EXCEPT ![j] = ExitByte(code)]

(* What went wrong is recorded with where the job was. *)
Blame(j, faults) ==
  blame' = [blame EXCEPT ![j] = @ \cup {<<pc[j], f>> : f \in faults}]

(***************************************************************************)
(* One run of the compiler by exec_fork(), which returns code, with f as   *)
(* its --output; made is what a run that succeeds leaves there, or Absent  *)
(* when the compiler is bound to reject this command.  The compiler writes *)
(* to a temporary file it renames over f; a run that fails may remove f,   *)
(* as the driver does with the outputs of a failing command.               *)
(***************************************************************************)
Outcomes(fate, old, made) ==
  CASE fate = "succeeds" -> {made} \ {Absent}
    [] fate = "fails"    -> {old, Absent}
    [] fate = "killed"   -> {old} \cup ({made} \ {Absent})
    [] fate \in {"noexec", "nofork"} -> {old}
    [] fate = "unwaited" -> {old, Absent, made}

ExecFork(j, f, made, code) ==
  \E fate \in Fates :
    /\ code \in ForkReturn(fate)
    /\ \E new \in Outcomes(fate, disk[f], made) : disk' = [disk EXCEPT ![f] = new]
    /\ Blame(j, IF fate = "succeeds" \/ (fate = "fails" /\ made = Absent) THEN {} ELSE {fate})

Codes == {-1, 0, 1, 255}

(* A mutant of AfterInput: a turn too many. *)
AfterInputOffByOne(j, i) ==
  /\ idx' = [idx EXCEPT ![j] = i + 1]
  /\ pc'  = [pc EXCEPT ![j] = IF i <= Len(inputs[j]) THEN "generate" ELSE "final"]

(* The next turn of the loop over the inputs, whose element i is done. *)
AfterInput(j, i) ==
  /\ idx' = [idx EXCEPT ![j] = i + 1]
  /\ pc'  = [pc EXCEPT ![j] = IF i < Len(inputs[j]) THEN "generate" ELSE "final"]
-----------------------------------------------------------------------------
(***************************************************************************)
(* prepare_args(): run the compiler with -ccc-print-phases and parse what  *)
(* it prints.  It prints an input after the other and the link phase last; *)
(* one that is killed has printed some first part of that.  A popen() that *)
(* fails gives a null stream, which is read at once.                       *)
(***************************************************************************)
Startable(j) ==
  /\ pc[j] = "idle"
  /\ \A d \in Cmd[j].after : pc[d] = "done" /\ status[d] = 0

PhasesFail(j) ==
  /\ Startable(j)
  /\ \E fate \in Fates :
       /\ Blame(j, {fate})
       /\ \/ fate = "nofork" /\ Exit(j, Crash)
          \/ /\ fate # "nofork"
             /\ \E code \in PcloseReturn(fate) : code # 0 /\ Exit(j, code)
  /\ UNCHANGED <<disk, inputs, link, idx, module>>

(* get_inputs() asserts that every input the compiler named exists. *)
PhasesParsed(j) ==
  /\ Startable(j)
  /\ \E fate \in Fates \ {"nofork"}, n \in 0 .. Len(Cmd[j].inputs), linker \in BOOLEAN :
       /\ 0 \in PcloseReturn(fate)
       /\ linker => Cmd[j].link /\ n = Len(Cmd[j].inputs)
       /\ fate = "succeeds" => linker = Cmd[j].link /\ n = Len(Cmd[j].inputs)
       /\ \/ /\ \A i \in 1 .. n : disk[Cmd[j].inputs[i]] # Absent
             /\ inputs' = [inputs EXCEPT ![j] = SubSeq(Cmd[j].inputs, 1, n)]
             /\ link' = [link EXCEPT ![j] = linker /\ Hooking]
             /\ pc' = [pc EXCEPT ![j] = IF Hooking THEN "declaration"
                                        ELSE IF n > 0 THEN "generate" ELSE "final"]
             /\ Blame(j, {fate} \ {"succeeds"})
             /\ UNCHANGED status
          \/ /\ \E i \in 1 .. n : disk[Cmd[j].inputs[i]] = Absent
             /\ Exit(j, Crash)
             /\ Blame(j, {"assertion"})
             /\ UNCHANGED <<inputs, link>>
  /\ UNCHANGED <<disk, idx, module>>

(***************************************************************************)
(* generate_ll(declaration.c) and generate_o(runtime.c), outside of every  *)
(* try block: the int they throw ends the process.                         *)
(***************************************************************************)
GenerateDeclaration(j) ==
  /\ pc[j] = "declaration"
  /\ \E code \in Codes :
       /\ ExecFork(j, DeclarationLl, Whole(Made(DeclarationLl, j)), code)
       /\ IF code = 0 THEN pc' = [pc EXCEPT ![j] = "runtime"] /\ UNCHANGED status
                      ELSE Exit(j, Crash)
  /\ UNCHANGED <<inputs, link, idx, module>>

GenerateRuntime(j) ==
  /\ pc[j] = "runtime"
  /\ \E code \in Codes :
       /\ ExecFork(j, RuntimeO, Whole(Made(RuntimeO, j)), code)
       /\ IF code = 0 THEN AfterInput(j, 0) /\ UNCHANGED status
                      ELSE Exit(j, Crash) /\ UNCHANGED idx
  /\ UNCHANGED <<inputs, link, module>>

(***************************************************************************)
(* generate_ll(input).  An input that is its own .ll file is not compiled. *)
(* The int thrown for a nonzero code is caught: the input stays as it is.  *)
(***************************************************************************)
(* A mutant of AfterCompile: the code is not thrown. *)
AfterCompileIgnored(j, code) == pc' = [pc EXCEPT ![j] = "pass"] /\ UNCHANGED idx

(* The exit code of the compile decides whether there is a pass. *)
AfterCompile(j, code) ==
  IF code = 0 THEN pc' = [pc EXCEPT ![j] = "pass"] /\ UNCHANGED idx
              ELSE AfterInput(j, idx[j])

GenerateLl(j) ==
  LET input == inputs[j][idx[j]]
      output == Ll[input]
  IN /\ pc[j] = "generate"
     /\ \/ /\ ~Raw(input)
           /\ pc' = [pc EXCEPT ![j] = "pass"]
           /\ UNCHANGED <<disk, idx, blame>>
        \/ /\ Raw(input)
           /\ \E code \in Codes :
                /\ ExecFork(j, output, Whole(Made(input, j)), code)
                /\ AfterCompile(j, code)
     /\ UNCHANGED <<inputs, link, module, status>>
-----------------------------------------------------------------------------
Parses(f) == disk[f].state = "whole"

(* Mutants of Caught: exceptions of the pass are not caught, or the input  *)
(* is tried again.                                                         *)
Uncaught(j) == Exit(j, Crash) /\ UNCHANGED idx
CaughtRetried(j) == pc' = [pc EXCEPT ![j] = "generate"] /\ UNCHANGED <<idx, status>>

(* catch (const std::exception&): the input stays as it is. *)
Caught(j) == AfterInput(j, idx[j]) /\ UNCHANGED status

(* The passes of base and struct-parser change nothing, the others what *)
(* has a call they hook.                                                *)
Modifies(units) == Hooking /\ \E u \in units : u.src \in Hookable

(***************************************************************************)
(* apply_pass(output).  A file that does not parse makes parse_ir_file()   *)
(* throw, and a module that does not verify makes write_module() throw     *)
(* before it opens the file; both are caught.  A pass that changed nothing *)
(* writes nothing.  Some modules end the process: call-hook takes the name *)
(* of the called function of every call, and there is none for a call      *)
(* through a pointer; the StructParser of the other two tools casts debug  *)
(* information to types it may not have.                                   *)
(***************************************************************************)
ApplyPass(j) ==
  LET output   == Ll[inputs[j][idx[j]]]
      units    == disk[output].units
      parsed   == Parses(output) /\ (Hooking => Parses(DeclarationLl))
      crashes  == \E u \in units : u.src \in Crashing
  IN /\ pc[j] = "pass"
     /\ \/ /\ ~parsed
           /\ Caught(j)
           /\ UNCHANGED <<module, blame>>
        \/ /\ parsed /\ crashes
           /\ Exit(j, Crash)
           /\ Blame(j, {"crash"})
           /\ UNCHANGED <<idx, module>>
        \/ /\ parsed /\ ~crashes /\ ~Modifies(units)
           /\ AfterInput(j, idx[j])
           /\ UNCHANGED <<module, status, blame>>
        \/ /\ parsed /\ ~crashes /\ Modifies(units)
           /\ Caught(j)
           /\ Blame(j, {"rejected"})
           /\ UNCHANGED module
        \/ /\ parsed /\ ~crashes /\ Modifies(units)
           /\ module' = [module EXCEPT ![j] = Hooked(units)]
           /\ pc' = [pc EXCEPT ![j] = "open"]
           /\ UNCHANGED <<idx, status, blame>>
     /\ UNCHANGED <<disk, inputs, link>>

(* write_module() opens the file by its name, which empties it. *)
OpenModule(j) ==
  LET output == Ll[inputs[j][idx[j]]]
      others == disk[output].writers
  IN /\ pc[j] = "open"
     /\ disk' = [disk EXCEPT ![output] =
                   IF others = {} THEN Torn({j}) ELSE Mixed(others \cup {j})]
     /\ pc' = [pc EXCEPT ![j] = "print"]
     /\ UNCHANGED <<inputs, link, idx, module, status, blame>>

(***************************************************************************)
(* It then prints the module and closes the file.  Two jobs that print to  *)
(* the same file at once leave whatever their writes add up to.  The file  *)
(* may not be at its path any more.  The input is replaced by the .ll      *)
(* file.  The error of an open or a write that fails is not read, and the  *)
(* destructor of the stream ends the process.                              *)
(***************************************************************************)
Closed(j, file) ==
  CASE j \notin file.writers -> {file}
    [] file = Torn({j})      -> {Whole(module[j])}
    [] file = Mixed({j})     -> {Whole(module[j]), Torn({})}
    [] OTHER                 -> {Mixed(file.writers \ {j})}

OpenFails(j) ==
  /\ pc[j] = "open"
  /\ Exit(j, 1) /\ Blame(j, {"io"})
  /\ UNCHANGED <<disk, inputs, link, idx, module>>

PrintModule(j) ==
  LET output == Ll[inputs[j][idx[j]]]
  IN /\ pc[j] = "print"
     /\ \E file \in Closed(j, disk[output]) : disk' = [disk EXCEPT ![output] = file]
     /\ inputs' = [inputs EXCEPT ![j][idx[j]] = output]
     /\ AfterInput(j, idx[j])
     /\ UNCHANGED <<link, module, status, blame>>

PrintFails(j) ==
  LET output == Ll[inputs[j][idx[j]]]
  IN /\ pc[j] = "print"
     /\ disk' = [disk EXCEPT ![output].writers = @ \ {j}]
     /\ Exit(j, 1) /\ Blame(j, {"io"})
     /\ UNCHANGED <<inputs, link, idx, module>>
-----------------------------------------------------------------------------
(* Mutants of CommandFiles: the inputs replace the other files, and the     *)
(* runtime is left out.                                                    *)
CommandFilesOnlyInputs(j) == inputs[j] \o IF link[j] THEN <<RuntimeO>> ELSE <<>>

CommandFilesNoRuntime(j) ==
  Cmd[j].objects
    \o SubSeq(Cmd[j].inputs, Len(inputs[j]) + 1, Len(Cmd[j].inputs))
    \o inputs[j]

(***************************************************************************)
(* The files of the last command: get_options() leaves every argument that *)
(* is no known input among the options, join_args() puts the inputs after  *)
(* them, and compile_s() the runtime last if there is a link stage.        *)
(***************************************************************************)
CommandFiles(j) ==
  Cmd[j].objects
    \o SubSeq(Cmd[j].inputs, Len(inputs[j]) + 1, Len(Cmd[j].inputs))
    \o inputs[j]
    \o IF link[j] THEN <<RuntimeO>> ELSE <<>>

(* The units the compiler makes of a file of job j's command. *)
UnitsOf(j, f) == IF f \in Sources /\ Raw(f) THEN Made(f, j) ELSE disk[f].units

Product(j) == UNION {UnitsOf(j, CommandFiles(j)[i]) : i \in DOMAIN CommandFiles(j)}

(***************************************************************************)
(* The compiler accepts a command whose files are there and parse, that    *)
(* defines no unit twice and, if it links, every hook that is called.      *)
(***************************************************************************)
Buildable(j) ==
  LET files == CommandFiles(j) IN
  /\ \A i \in DOMAIN files : files[i] \in Piped \/ Parses(files[i])
  /\ \A i, k \in DOMAIN files : i # k =>
       \A u \in UnitsOf(j, files[i]), v \in UnitsOf(j, files[k]) : u.src # v.src
  /\ Cmd[j].link /\ (\E u \in Product(j) : u.hooks > 0) =>
       \E u \in Product(j) : u.src = RuntimeO

FinalCompile(j) ==
  /\ pc[j] = "final"
  /\ \E code \in Codes :
       /\ ExecFork(j, Cmd[j].out, IF Buildable(j) THEN Whole(Product(j)) ELSE Absent, code)
       /\ Exit(j, code)
  /\ UNCHANGED <<inputs, link, idx, module>>
-----------------------------------------------------------------------------
Step(j) ==
  \/ PhasesFail(j) \/ PhasesParsed(j)
  \/ GenerateDeclaration(j) \/ GenerateRuntime(j)
  \/ GenerateLl(j) \/ ApplyPass(j)
  \/ OpenModule(j) \/ OpenFails(j) \/ PrintModule(j) \/ PrintFails(j)
  \/ FinalCompile(j)

Next == \E j \in Jobs : Step(j)

Spec == Init /\ [][Next]_vars

(* The system runs every process, and every child comes to an end. *)
FairSpec == Spec /\ \A j \in Jobs : WF_vars(Step(j))
-----------------------------------------------------------------------------
(***************************************************************************)
(* Properties.                                                             *)
(***************************************************************************)
Stages == {"idle", "declaration", "runtime", "generate", "pass", "open", "print",
           "final", "done"}
Faults == AllFates \cup {"assertion", "crash", "rejected", "io"}

(* The variables have their types, and a loop is at one of its inputs. *)
TypeOK ==
  /\ disk \in [Files -> File]
  /\ pc \in [Jobs -> Stages]
  /\ inputs \in [Jobs -> Seq(Files)]
  /\ link \in [Jobs -> BOOLEAN]
  /\ idx \in [Jobs -> Nat \ {0}]
  /\ module \in [Jobs -> SUBSET Unit]
  /\ status \in [Jobs -> 0 .. 255]
  /\ blame \in [Jobs -> SUBSET (Stages \X Faults)]
  /\ \A j \in Jobs : pc[j] \in {"generate", "pass", "open", "print"} =>
       /\ idx[j] \in DOMAIN inputs[j]
       /\ inputs[j][idx[j]] \in Sources

InputSet(j) == {Cmd[j].inputs[i] : i \in DOMAIN Cmd[j].inputs}
ObjectSet(j) == {Cmd[j].objects[i] : i \in DOMAIN Cmd[j].objects}

(* No other input of the build has the .ll file of an input of j. *)
Private(j) ==
  \A i \in DOMAIN Cmd[j].inputs, k \in Jobs : \A m \in DOMAIN Cmd[k].inputs :
    Ll[Cmd[j].inputs[i]] = Ll[Cmd[k].inputs[m]] => k = j /\ m = i

(* Who makes what job j compiles of input s: an ir input is what it is. *)
Owner(s, j) == IF Raw(s) THEN j ELSE Earlier

(* The output of j: every input compiled by this very job from its source  *)
(* of now, and instrumented at most once, and the objects it was given.    *)
Right(j) ==
  LET built == disk[Cmd[j].out]
  IN /\ built.state = "whole"
     /\ \A s \in InputSet(j) : \E n \in {0, 1} :
          {u \in built.units : u.src = s} = {[src |-> s, by |-> Owner(s, j), hooks |-> n]}
     /\ \A o \in ObjectSet(j) : disk[o].units \subseteq built.units

(* A child of j that ended badly and that j takes for one that did well. *)
Misreported(j) == \E b \in blame[j] : b[2] \in {"killed", "unwaited"}

(***************************************************************************)
(* A wrapper that exits with 0 has built what the compiler alone would     *)
(* have built of the sources, however the jobs interleave, whatever an     *)
(* earlier build left behind and whichever of its own steps failed.  The   *)
(* cases that escape are a child of its own whose end is misreported and   *)
(* two inputs with one .ll file.                                           *)
(***************************************************************************)
FaithfulOutput ==
  \A j \in Jobs : pc[j] = "done" /\ status[j] = 0 /\ Private(j) =>
    Right(j) \/ Misreported(j)

(* A fault that the code lets end the process, or that is one of its last command. *)
Fatal(b) ==
  \/ b[1] \in {"idle", "declaration", "runtime", "final"}
  \/ b[2] \in {"crash", "io"}

(* A compile of the runtime that may have removed it. *)
LostRuntime(k) == \E b \in blame[k] : b[1] = "runtime" /\ b[2] \in {"fails", "unwaited"}

(* The objects of j hold no unit twice: each is what another compile made, *)
(* and no two of these have inputs with one .ll file.                      *)
Linkable(j) ==
  LET makers == {k \in Jobs : Cmd[k].out \in ObjectSet(j)} IN
  /\ \A p, q \in DOMAIN Cmd[j].objects : Cmd[j].objects[p] = Cmd[j].objects[q] => p = q
  /\ \A k \in makers : ~Cmd[k].link /\ Cmd[k].objects = <<>>
  /\ \A k, l \in makers : k # l => \A s \in InputSet(k), t \in InputSet(l) : Ll[s] # Ll[t]

(***************************************************************************)
(* Instrumentation never breaks a build: a wrapper fails only if its phase *)
(* query, its runtime or its last compile failed as a process, if its pass *)
(* crashed or its disk had an error, or if another job's failing compile   *)
(* took the runtime away.  A pass that is rejected, a file that does not   *)
(* compile to LLVM IR or one that an earlier build left torn do not.  A    *)
(* link of objects that clash fails, with or without the wrapper.  What    *)
(* the log does to the status is left to Logger.                           *)
(***************************************************************************)
NoSpuriousFailure ==
  \A j \in Jobs : pc[j] = "done" /\ status[j] # 0 /\ Private(j) /\ Linkable(j) =>
    \/ \E b \in blame[j] : Fatal(b)
    \/ \E k \in Cmd[j].after : Misreported(k)
    \/ Hooking /\ \E k \in Jobs \ {j} : LostRuntime(k)

(***************************************************************************)
(* Where nothing goes wrong everything is instrumented: the output of a    *)
(* job has every source with a call of interest hooked exactly once, and   *)
(* no other.                                                               *)
(***************************************************************************)
Instrumented ==
  \A j \in Jobs :
    pc[j] = "done" /\ status[j] = 0 /\ Private(j) /\ (\A k \in Jobs : blame[k] = {}) =>
      \A s \in InputSet(j), u \in disk[Cmd[j].out].units : u.src = s =>
        u.hooks = IF Hooking /\ s \in Hookable THEN 1 ELSE 0

(* Every wrapper that has started comes to an end, whatever its children   *)
(* and the other wrappers do.                                              *)
EveryJobEnds == \A j \in Jobs : pc[j] # "idle" ~> pc[j] = "done"

(* exec_fork() logs "exit with code 0" of a child only if it exited so: a  *)
(* wrapper exits with 0 only if its last compile did.                      *)
ZeroMeansExitedZero ==
  \A j \in Jobs : pc[j] = "done" /\ status[j] = 0 => <<"final", "killed">> \notin blame[j]
-----------------------------------------------------------------------------
(***************************************************************************)
(* The refinement of the plain build.  What the instrumentation adds, the  *)
(* hooks and the runtime, is not seen; neither are the .ll files.          *)
(***************************************************************************)
Seen(f) == {<<u.src, u.by>> : u \in {v \in disk[f].units : v.src # RuntimeO}}

plainState ==
  [j \in Jobs |-> IF pc[j] # "done" THEN "pending"
                  ELSE IF status[j] = 0 THEN "succeeded" ELSE "failed"]

plainArtifact == [f \in {Cmd[j].out : j \in Jobs} |-> Seen(f)]

Plain == INSTANCE PlainBuild WITH
  Makers <- Jobs \cup {Earlier}, Inputs <- Sources, Origin <- Owner,
  state <- plainState, artifact <- plainArtifact

(***************************************************************************)
(* The wrapped build is a plain build, as long as no child ends killed or  *)
(* unwaited and no two inputs have one .ll file; with a tool that changes  *)
(* nothing, then too.                                                      *)
(***************************************************************************)
ImplementsPlainBuild == Plain!PlainSpec
=============================================================================
