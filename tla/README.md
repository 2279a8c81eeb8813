# clang-wrapper: models, model checking and proofs

clang-wrapper stands in the place of a C or C++ compiler. A build that calls it
gets what the compiler would have made, with every translation unit
instrumented on the way: the wrapper compiles each input to LLVM IR, runs a pass
over the IR, and compiles the result with the rest of the command line. This
directory holds TLA+ models of the program, the TLC configurations that check
them on small instances, and proofs for every instance. Source paths below are
relative to the root of the repository (`src/...`, `runtime/...`); in
`PROJECT.json` they have the prefix `src/`.

    tlc -workers 2 -config make_counter.cfg MCWrapper    # a run
    tlapm DictionaryProofs.tla                           # the proofs of a module

## Inventory

| Component | State | Operations | Interacts with |
|---|---|---|---|
| **Wrapper drivers** `src/wrapper/*`, `src/main/*` | the vectors `inputs` and `options`, `has_link_stage`, the position of the loop in `compile_s()`; on disk a `.ll` file next to each source, one `declaration.ll` and one `runtime.o` per installation | `prepare_args`, `generate_ll`, `generate_o`, `compile_s`, `compile_c` | runs the compiler by the executor, a pass on each IR file; other wrapper processes by the shared tree |
| **Executor** `src/common/executor.cc` | none; a child process per call | `exec_fork`, `exec_pclose` (`exec_exec` and `exec_system` have no caller) | its return value is the caller's only news of a child |
| **Passes** `src/pass/*` | an LLVM module in memory | `apply_pass`: parse the declarations and the input, walk functions, blocks and calls, verify, print in place | called by a driver inside its `try`; asks the detectors |
| **JNI detectors** `src/utility/jni/*` | none | is this call a JNI interface call, is this function a JNI method (a stub) | asked by a pass |
| **StructParser** `src/utility/struct_parser.cc`, `PassStructParser` | a map from type to debug type | `probe_type`, which recurses and merges the fields of a struct, `get_base_type`, `get_field_name` | built and asked by the struct-parser pass |
| **Dictionary** `runtime/common/dictionary.h` | a table of buckets, `_capacity`, `_size` | `new`, `delete`, `get`, `put`, two probes | expanded into the interface counter |
| **Interface counter runtime** `runtime/jni/interface_counter/runtime.c` | `dict`, `file`, `counter`, shared by all threads of the instrumented program | constructor, `__before_interface_call`, `save_to_file`, destructor | linked into the instrumented program, called by every hook |
| **Call hook runtime** `runtime/call_hook/runtime.c` | none | prints a line per call | as above |
| **Arguments, Phase** `src/common/arguments.cc`, `phase.cc` | vectors of strings | escape, join, `remove_stdc`, parsing the printed phases | used by the drivers |
| **Logger** `src/common/logging.cc` | a log file, its buffer, a level | open, log, destructor that removes a short log | a static object of every process, duplicated by `fork()`; its directory is shared with `scripts/log.sh` |
| **log.sh** `scripts/log.sh` | the directory of the logs | purge, remove | runs beside wrappers |
| **Path, env** `src/common/path.cc`, `env.cc` | none | `replace_extension`, `get_env` | used by the drivers |
| **wrap-ndk.sh** `scripts/wrap-ndk.sh` | the NDK's `clang` and `clang++` and their backups | backup, install, recover | puts the wrapper in place |

### What is hard in it, and what makes it correct

* *Wrapper drivers and executor.* Builds are parallel, and every wrapper of a
  build writes into one tree: `.ll` files named by the stem of a source, and one
  runtime that every job rebuilds. Every child may fail, be killed, not start or
  not be waited for. Earlier builds leave files behind, torn ones if they were
  interrupted, because `write_module()` rewrites in place. Correct means: a
  wrapper that exits with 0 has built what the compiler alone would have built
  of the sources of now; instrumentation never turns a build that works into one
  that does not; where nothing goes wrong everything is instrumented, once; every
  wrapper ends.
* *Dictionary.* A `put` looks twice, once for the key and once for a free bucket;
  a `get` returns a pointer that is written through later; the table wraps and
  can fill. Correct means: it is a map, whatever collides; pointers stay good;
  a call ends unless the table is full.
* *Interface counter.* The table is shared by threads that take no lock, saved
  every `SAVE_INTERVAL` calls by rewriting one file, and freed at exit. Correct
  means: no count too high, none lost without a race, and a file that a crash
  leaves at most an interval behind.
* *Passes.* They insert calls into the list they walk over. Correct means: each
  call of interest is hooked once, nothing else changes.
* *StructParser.* It walks a cyclic graph of types, cut at types already seen.
  Correct means: it ends, misses no type, whatever the order of the variables that
  lead to them, and gives an access the name its field has in the source.
* *Arguments and Phase.* Options are escaped for a shell, filtered while they are
  walked over and put before the inputs, which are told from options by what the
  compiler prints. Correct means: the last command makes what the user's would,
  with only its sources replaced, and links in the same order.
* *Logger.* The destructor is four calls that others may interleave with, and a
  child that cannot `exec` runs it with a copy of its parent's buffer. Correct means:
  a log has the lines at its level, in order, and is there unless it has none; and
  how a wrapper ends does not depend on its log.
* *wrap-ndk.sh.* `cp` is not atomic, and runs may overlap and stop. Correct means
  that the original of a compiler is never lost, and that a recover undoes a build;
  the second is not so (see Findings).

`PROJECT.json` lists every component with what is modelled of it, and under
`hazards` each of these difficulties at the line where it bites.

## Modules

| Module | What it is |
|---|---|
| `Executor` | what `exec_fork` and `exec_pclose` return for every end of a child |
| `Wrapper` | the wrapper processes of a build, from start to exit, on one shared disk |
| `PlainBuild` | the abstract specification of `Wrapper`: the same build by the compiler alone |
| `MCWrapper` | the builds that TLC checks |
| `WrapperProofs` | its types, its safety properties and the refinement of `PlainBuild`, for every build |
| `Dictionary` | the hash table with linear probing, a turn of a probe a step |
| `DictionaryMap` | its abstract specification: a map of at most `Capacity` keys |
| `MCDictionary` | a table of three buckets with keys that collide |
| `DictionaryProofs` | every safety property of `Dictionary` and its refinement, for every table |
| `StructParser` | the walk over types and debug types, a call or a turn of a loop a step |
| `MCStructParser` | the types of two C++ modules |
| `StructParserProofs` | its types, the depth of its recursion, that it misses nothing, and that names are right, for all types |
| `HookPass` | the three passes over a module, composed with the `StructParser` they ask |
| `MCHookPass` | two modules that use the types of `MCStructParser` in every way |
| `HookPassProofs` | a pass is a behaviour of its parser; its types; its hooks are exact, and so is what it reports |
| `ShellQuoting` | `Arguments::command()` and the shell that reads it |
| `CompilerDriver` | the part of clang's driver that the wrapper relies on (external) |
| `CommandLine` | one invocation of the wrapper, from its arguments to its last command |
| `MCCommandLine` | every command line of up to three pieces |
| `CommandLineProofs` | every property of `CommandLine`, and that the shell gives back what it is given, for all command lines |
| `Logger` | the logs of wrappers side by side, and `log.sh` |
| `MCLogger` | two wrappers |
| `LoggerProofs` | every property of `Logger`, for all wrappers, calls and levels |
| `WrapNdk` | overlapping runs of `wrap-ndk.sh` |
| `MCWrapNdk` | two runs |
| `WrapNdkProofs` | both its properties, for any number of runs |
| `InterfaceCounter` | the threads of an instrumented program in the runtime of the interface counter |
| `MCInterfaceCounter` | a program of one thread and one of two |
| `InterfaceCounterProofs` | its safety, for all threads, names, hashes and capacities (`SavedUpToInterval` for one thread, which is what it is about) |

### Executor

A child has a *fate* (it succeeds, fails, is killed, cannot be executed, is never
forked, or runs but is not waited for); `ForkReturn` and `PcloseReturn` give the
values the code returns for it. They translate what the code computes: no test of
`WIFEXITED`, so `killed` is 0; no test of the result of `wait()`, so an
uninitialised status is anything; `exit(-1)` in a child that cannot `exec`, which
is 255. `popen()` runs its command by `sh -c`; a shell that replaces itself by the
command passes a signal on, one that does not exits with 128 and its number, and
both are possible.

### Wrapper

`pc[j]` is where job j is in `compile_s()` of its tool:

| `pc` | code | actions |
|---|---|---|
| `idle` | `prepare_args()`, `get_phases()`, `get_inputs()` | `PhasesFail`, `PhasesParsed` |
| `declaration` | `generate_ll(declaration.c)` of the tools with a runtime | `GenerateDeclaration` |
| `runtime` | `generate_o(runtime.c)` | `GenerateRuntime` |
| `generate` | `generate_ll(input)` in the loop's `try` | `GenerateLl` |
| `pass` | the pass up to and with the verifier | `ApplyPass` |
| `open`, `print` | `write_module()`: the file is emptied, then printed | `OpenModule`, `OpenFails`, `PrintModule`, `PrintFails` |
| `final` | `compile_c()`, whose code is the exit status | `FinalCompile` |

`inputs`, `link` and `idx` are the variables of the code, `module` is what the
pass holds in memory, `status` is the byte the parent sees. `blame` is a history
variable: the pairs of stage and fault that a job has met. It says *why* a job
failed, which the properties need, and no guard reads it.

The disk holds for each path a set of *units*: a translation unit, the job whose
command compiled it, and how many times it was hooked. A file may be absent,
whole, torn (opened for rewriting and not yet or never finished), or mixed
(written by two jobs at once). `writers` are the jobs with a descriptor on that
very file: a compiler that renames a finished file over a path leaves a job that
had the old one open writing to nowhere.

Each action is one child, one call into the pass or one system call of
`write_module()`, so other jobs run between any two of them: a job's `.ll` file
may change between its compile and its parse, and `declaration.ll` between its
compile and the pass that reads it.

The parts that are not in this repository are marked external in the map: the
compiler (it writes to a temporary file and renames it over its output; a failing
run leaves the output or removes it; it rejects files that are missing or torn,
units defined twice and hooks without a runtime), the file system, and make
(a job runs when those it depends on have exited with 0).

Abstracted: the text of options and of IR; a pass that finds nothing to hook and
one that finds calls differ in `Hookable`, a module a pass cannot survive (an
indirect call in the call hook, a cast in the struct parser) is in `Crashing`.
The builds are those of `BuildAssumption`: no two commands have one output, an output
is neither a source nor the `.ll` file of one (a command line with its own
`-S -emit-llvm -o x.ll` next to an `x.c` is not modelled) nor a file of the
installation, and an object comes from a job that make has run before. A build that
breaks the first or the last of these is a race without the wrapper, too. Assertions are active,
as in the build the repository configures.

### Dictionary

The variables are `_buckets`, `_size` and the locals of the function the one
caller is in. `CallGet` and `CallPut` start a call with any key; `ProbeForHit` and
`ProbeForFree` are a turn of their loops; `GetHit`, `GetMiss`, `Overwrite` and
`Insert` return. `PutMiss` is the point where `put` starts its second probe.
`WriteThrough` is the caller's `++(*value)`. `held` remembers the key whose value
`result` points to. `calloc()` succeeds; the hash function gives a natural number,
as the two in the repository do (both clear the sign bit), and says nothing else:
keys may collide in any way.

### StructParser

The variables are `_type_map` (`typeMap`), the declarations of the module with the
one the walk has come to, and a stack of the calls of `probe_type()` in progress.
A call is at `base` (before and in `get_base_type()`, a qualifier a step), in the
`merge` (the loop over the fields, at element i of the type and member j of the
debug type, counted from 1), or about to `return` after the call for what a
pointer points to. `RunOnDbgDeclareInst` starts a call for the next variable,
`ProbeKnown`, `ProbePointer`, `ProbeStruct` and `ProbeOther` are the body of
`probe_type()` up to its recursive call or loop, and `SkipForeign`, `SkipElement`,
`SkipMember`, `Match` and `EndLoop` a turn of the loop. `crash` names the
assertion or cast that failed; nothing happens after it. When the walk is over,
`RunOnInstruction` asks for the name of a field of any struct, as loads and
`getelementptr` instructions do, and `answer` remembers what came back.

`Ir` gives the types as LLVM has them, `Di` the debug types, both constants, as the
module is only read. The pointers of the module have a pointee, as the code asks
for non-opaque ones. What clang makes of a source (padding, one element for several
bitfields, `i8*` for `void*`, methods among the members, offset 0 for a static
member) is external and stands in the instances of `MCStructParser`, where `Own`
and `Fields` say what the source says. `Void` names the debug types that end in
no base at all, as the one of `const void` does: `probe_type()` rightly ignores them.

### HookPass

The composition of a pass with the struct parser it builds. `Construct` is a step of
that parser (`Probe` of `StructParser`), which call-hook does not have; then the loops
of `run_on_module()`, `run_on_function()` and `run_on_block()` are at block `b`,
instruction `i` of `code`, the module in memory. `RunOnCallInst`, `RunOnField` and
`RunOnOther` are the virtual `run_on_instruction()` of the three classes.
`InsertHook` puts the call of the runtime before the instruction the loop is at: the
list moves on by one under the loop, whose iterator stays with its instruction.
`RunOnField` asks the parser (`GetFieldName`) for a call through a field in the
counter and for a load or address in the struct-parser pass. The hook has no name
and no location here: those are text. Functions are blocks that carry whether their
function has a dot in its name, which the code skips (`llvm.dbg.declare` and its
like). The first block holds the declarations of the locals, which are calls.

### CommandLine

The variables follow `prepare_args()` and `compile_s()` from one to the next:
`args`, what the compiler prints (`lines`), `phases`, `inputs`, `options`, and `made`,
what each generated file was compiled from. `Query` sends the arguments through the
shell to the compiler; `ParsePhase`, `GetInput`, `GetOption` and `RemoveStdc` are a turn
of their loops; `GenerateRuntime`, `GenerateLl` and `Final` put a command together and
run it. Faults of children are in `Wrapper`; here every command has the outcome its
words give it, which is what `CompilerDriver` is for: which words are inputs, their
language, the phase, the output, and the errors. It is the least of clang's driver that
tells right from wrong commands: `-x`, `--`, `-o`, `-c`, `-E`, `-S`, response files,
`-std`, values of options, libraries. `Build` is what a command makes: its units, each
a source and the language it is compiled in, in the order of the linker.

Words are model strings with a sequence of characters each (`Text`), which only the
shell looks at; a character without a meaning to it stands for any piece of a word.

### Logger

Each wrapper is a process: `pc` is `start`, `run`, `forked` and `waiting` around a child,
then the four calls of the destructor (`close`, `exists`, `size`, `remove`), and how it
ended. A child that cannot start its program runs the same destructor (`child`) while
its parent waits. A line is the number of its call: `buffer` and `disk` are the lines not
yet and already written, `calls` remembers what was asked to be logged. A file counts as
empty below 64 bytes, and a line is longer than that. `Call` writes a full buffer or
does not, as lines are of any length. `linked` is whether the file has its name:
`log.sh` takes names away, and what has the file open keeps it. `special` is a
`LOG_PATH` that is no regular file, as the default `/dev/stderr` is none.
`file_size()` throws for such a file and for one that is gone, in a destructor, which
is `noexcept`: the process aborts. `failed` and `cut` are history variables: after how
many lines a child could not start, and whether the script took the file.

### WrapNdk

A command is a list of steps, and a step a copy with a condition, or make. `at` is where
a run is in its step: the test, before `cp` opens its target, or within the copy, where
the target is torn. `Stop` ends a run anywhere, by an error (`errexit`) or an interrupt.
A copy of a file that is not there fails, and only `Stop` is left. `trusted` is a history
variable: the tools of whose backup some run relied on what was not the original, either
since a test found a torn backup, or since the backup of another run appeared between
test and copy.

### InterfaceCounter

`Dictionary` has one caller. `InterfaceCounter` has the same code, inlined into
the runtime that calls it, run by threads that take no lock: a step is one access
to what they share (a bucket with its entry's key, a value, the counter, the
stream), so a probe, a count and a save of one thread fall between any two
accesses of another. `pc[t]` is where thread t is:

| `pc` | code | actions |
|---|---|---|
| `idle` | the instrumented program | `BeforeInterfaceCall`, `Exit` of the main thread |
| `get`, `got` | `Dict_get()`: the probe, then the bucket read anew | `ProbeForHit`, `GetHit`, `GetMiss` |
| `increment` | the write of `++(*value)`; `tmp` is what was read | `Increment` |
| `put`, `found` | `Dict_put()`: its first probe, then the bucket read anew | `ProbeForHit`, `Overwrite`, `PutMiss` |
| `free`, `alloc`, `key`, `value` | the second probe and the three stores of a new entry | `ProbeForFree`, `Alloc`, `SetKey`, `SetValue` |
| `count`, `bump` | the read and the write of `++counter` | `ReadCounter`, `Bump` |
| `rewind`, `print` | `save_to_file()`, a bucket a step | `Rewind`, `PrintBucket`, `Flush` |
| `reset` | `counter = 0` | `Reset` |
| `close` | `fclose()` and `Dict_delete()` | `Close` |

Entries are named by the call that allocates them. `stream` is what has been
printed and `disk` what of it has left the stream's buffer: on a flush and a
rewind all, after any line possibly all. Both remember the position of the stream
and the length of the file, since `rewind()` does not truncate: where the length
is beyond the position, a rest of older text is behind the new one.
`joined` and `opened` are what the program and `fopen()` do, chosen at the start.
`life` is `crashed` after a null pointer is read (a key not filled yet, a stream
that did not open) or a thread has used what `runtime_exit()` has freed, and
`cause` says why and at which name. `hits` is a history variable, the calls that
have stored into an entry.

The races of C are undefined behaviour. The model takes what the compilers this
project is built with make of them: loads and stores of whole words, in the order
of the source, except that the address of a new entry may be kept in a register or
loaded again from the bucket (`Target`). `++(self->_size)` is left out, as nothing
in the runtime reads `_size`; so are the name of the file, Android's log, and the
overflow of an `int` by 2^31 calls. Names are equally long, so only the digits of
a count change the width of a line; that changes the lengths the properties
compare, and is what makes a line grow.

## Runs

| Run | States | Question and answer |
|---|---|---|
| `prog_call_hook` | 265 000 | One command with a C input, an IR input and a link, next to a compile, every fate of a child, leftovers whole and torn. Are outputs right, do failures have a cause, is everything hooked once? Yes. |
| `make_counter` | 111 000 | Two jobs with one `.ll` file at once, a module that crashes the pass, and a link that waits for one of them. Do faults travel by another's object, a shared `.ll` or the shared runtime? Only as the properties say. Two of the jobs share their `.ll` file and are exempt by name, so `FaithfulOutput` and `NoSpuriousFailure` bind the link job here. |
| `plain_hook` | 10 900 | Is a build wrapped by a hooking tool a plain build, and does every wrapper that starts end? Yes, where each end of a child is reported. |
| `killed_is_zero` | – | Does exit code 0 mean that the compiler exited so? No: a finding. |
| `dictionary` | 12 800 | Is the table a map, with its invariants? Yes. Does every call end? Unless the table is full without the key. |
| `pass_walk` | 31 700 | The three passes over two modules, on the types of a C++ module, up to three of six variables in any order. Is every call of interest hooked once, is no type missed, does each field get its name, and does the pass end? Yes, but for a pass that asks about a volatile struct (`Settled`) and what else `PassEnds` names. |
| `static_member` | – | Does a debug type that is a pointer always meet a type that is one? No: a finding. |
| `counter_one` | 71 800 | One thread. What does a kill leave in the file? All calls but less than an interval, and nothing stale. Does every call return? Yes. |
| `counter_two` | 1 224 000 | Two threads; the second calls a name they share or one that collides. Are the names of one thread counted and saved exactly, is a call ever counted twice, and what takes the program down? Yes; no; a race, a missing file, a thread that outlives `main()`. |
| `command_line` | 710 000 | Every command line of up to three of 23 pieces, for five builds. Does the compiler answer about the command line that was typed? Yes. Does the wrapper make what the compiler would? Yes, but for the command lines that `Regular` names. |
| `logger` | 1 069 000 | Two wrappers, failing children, and `log.sh` at any moment. Is a log complete, or rightly absent? Yes, but for the causes in `LogKept`. Does the log change how a wrapper ends? In the three cases of `StatusKept`. |
| `wrap_ndk` | 69 900 | Two runs that overlap or follow each other. Is an original ever lost? Only by the two causes in `trusted`. Can it be if no two runs overlap? Only if a backup was stopped in its `cp`. |

### Properties of Wrapper

* `FaithfulOutput`: exit code 0 means that the output has every input compiled by
  this job from the source of now, hooked at most once, and the objects it was
  given. It needs the steps of a job, what earlier builds left, and the
  other jobs. Two exceptions are in the statement, since the code has them: a
  child of its own whose end is misreported, and an input that shares its `.ll` file.
* `NoSpuriousFailure`: a wrapper fails only for a fault that the compiler alone
  would have met or that the code lets end the process (the phase query, the
  runtime, a crash of the pass, an error of the disk, a runtime removed by
  another job). Every other failure of the instrumentation is survived. The log of a
  wrapper is not in this module: with the default `LOG_PATH`, `/dev/stderr`, the wrapper
  aborts in `~Logger` after its work, which is in `StatusKept`. `Linkable`
  leaves out links that the linker refuses with or without the wrapper: an object named
  twice, or two that hold one unit.
* `Instrumented`: without faults, hooked exactly once.
* `EveryJobEnds`: with weak fairness of each job.
* `ImplementsPlainBuild`: `Wrapper` refines `PlainBuild`. A job is pending until
  it is done, and an output is the set of (unit, maker) in it; hooks and the
  runtime are what the abstraction does not see.

### Properties of StructParser and HookPass

* `WalkComplete`: when the walk is over, each variable, each pointee and each field
  that has a member of its own has a debug type. A call that meets a known type
  returns at once and relies on another call, further down the stack or done before,
  for what is behind it: the cut must be sound for every order and every cycle.
* `NamesRight`: an access gets the name that its field has in the source, or no name
  where no variable leads to the struct; bitfields get that of the first. A struct
  that is volatile somewhere, or a base class, is excluded: the code maps it to the
  wrapping debug type if it meets that first, and the cast of `get_field_name()` fails.
* `DepthBounded`: the recursion is at most one deeper than there are types.
* `HooksExact`: the module in the end is the module that was read with one hook
  before each call of interest, and `modified`, on which it depends whether the file
  is written, says whether there is one. What is of interest is said by the source
  (`Own`, `Fields` and `Recorded`), not by the parser. `Settled` is the exception of
  `NamesRight`, for the instructions whose field the pass asks about: it leaves out a
  counter that calls through a field of a struct that is volatile somewhere or a base
  class, and nothing of call-hook, which asks about no field.
* `PassEnds`: with weak fairness the pass ends, though the loop is over a list that
  grows; or it stops at a call through a pointer (call-hook), or at a wrapped struct that it
  asks about.

### Properties of CommandLine

* `Asked`: the phases that the wrapper parses are those of the user's command line,
  although it has gone through a shell: no quote, blank or dollar in an argument makes
  another question of it, nor one that the compiler rejects.
* `OptionsKept`: after the loop that erases while it counts, the options are the
  arguments without the sources and, for C++, without every `-std` of C.
* `BuildsTheSame`: the last command has the phase, the output and the units of the
  user's, each in its language, and links the runtime exactly if it links. Options such
  as `-std` are no part of a unit: that those arrive is `OptionsKept`. `Regular`
  is the precondition, and names what TLC found the wrapper to change:
  * `LanguageSettled`: sources move behind all options, so an `-x c` or `-x none` comes
    to be in force for sources it was behind; and it stays in force for the `.ll`.
  * `NamesApart`: an argument equal to a source is dropped where it is the value of an
    option, too (`-MT a.c`); and so is, for C++, a `-std` of C that is one (`-MT -std=c11`).
  * `Plainly`: options put behind `--` are inputs; a source named in a response file
    cannot be dropped and is compiled twice, and a `-std` of C in one stays; a source
    that is piped in fails an assertion.
  * `StemsApart`: `a.c` and `a.cc` are compiled to one `a.ll`.
  * `RuntimeCompiles`: the runtime, in C, is compiled with the user's options, and
    `-std=c++11` ends the wrapper; so does any other compiled input that is named in a
    response file or cannot be parsed. A C++ wrapper compiles `a.c` as C.
* `LinksInOrder`: where no source stands before an object or a library the linker gets
  its files in the user's order. Without that condition `a.c -lz` is unchanged but
  `a.c o.o` becomes `o.o a.c`.

### Properties of Logger

* `LogKept`: a wrapper that ended and whose log the script left alone has a file exactly
  if it had a line to write, with every line at its level and no other, each behind
  those before it; and each once if no child failed. A child that cannot start its
  program writes its copy of the buffer, so lines repeat; and one that fails before
  there is a line removes the file of its parent, which writes to no name from then on.
* `StatusKept`: exit status 1 from a log that was not opened (`wrap-ndk.sh` sets
  `build/log/*.log` and makes no such directory), an abort from one that is not regular
  or was taken away. A child that aborts there gives its parent the status 0.

### Properties of WrapNdk

* `OriginalsKept`: the original of a compiler is whole in its place or in its backup,
  except for the tools in `trusted`.
* `WrongOnlyIfCut`: what `trusted` is about when no two runs overlap (`overlap`). A run
  is then wrong about no backup but one whose own `cp` was stopped (`cut`): not after a
  build that ran twice, nor after one that was stopped in `make` or in a copy over a
  compiler, nor after a recover. It takes several runs to see, each of which finds
  what the others have left.

### Properties of InterfaceCounter

* `CountsExact`: a name that one thread alone calls, and whose slots no name of
  another thread can reach, is in one bucket with exactly the calls made.
  `Reach` gives the slots: a probe passes at most as many buckets as there are pairs
  of a thread and a name it calls. It is the strongest claim that is true per name:
  TLC finds a name that is *not* shared but collides lost, doubled, or with the
  calls of another name.
* `EachCallOnce`: what remains without that condition. Calls get lost but are
  never counted twice: the value of an entry is covered by calls that stored into
  it, and no call stores into two entries.
* `CrashExplained`: a null key is read only at a name that a race can reach, a
  null stream only if `fopen()` failed, freed memory only if a thread outlives
  `main()`.
* `SavedUpToInterval`: with one thread the file, whenever it is not being
  written, is exactly the first k calls for a k within an interval of now, and
  after the exit all of them; no rest of an older text is behind it, which holds
  since names stay, counts only grow and a save prints every bucket. A kill *in* a
  save can leave the head of the new text before the rest of the old one.
* `FinalCountsExact`: the text of the last save is right for the names of
  `CountsExact`, after any overlap of saves. Two saves that overlap print into one
  stream, and a rest of that longer text may stay behind the last one.
* `CallReturns`: every call of one thread returns.

### Bounds

Two or three jobs, one or two inputs each: enough for two jobs to share each kind
of file and for a third to be outside. `FaultBound` is used as a state constraint:
a state with one fault more than the bound is checked but not continued, so each
run covers every behaviour up to that many faults plus one, at every place
(`plain_hook` has no such bound: every child may fail). The bound is two, and one
in `make_counter`, whose jobs are three. `hooks` needs no bound, as a job prints an input once. The table of three
buckets has four keys, two of which start at the last slot: it wraps, it is full
with a key missing, and every pair of homes occurs.

`MaxCalls` bounds the calls of a thread: two each, for two threads, reach every
pair of stages of two calls (one that makes an entry, one that finds it), and, with
an interval of 2 or 3, overlapping saves; six for the one thread are three
intervals. `OneOfTwo` cuts the other thread of `counter_two` off behind two calls of the
shared name or one of its own. `Ten`, the least number of two digits, is 2 for the one thread, so
that lines grow. The tables have four and six slots, with homes in the last one, so
that probes wrap; they do not fill.

`pass_walk` has a struct that contains a pointer to itself, a struct by value,
a second one behind a pointer, bitfields that share an element, two elements of
padding, a void pointer and a method. Its six variables lead into that graph at
every kind of place, through `const`, `typedef` and `volatile`, and up to three of
them in every order make each of them the first, one that finds everything known,
and one between.

The two modules of `pass_walk` have every access to two structs, a call through a
pointer, functions with a dot, an empty block, loads and addresses. The calls of the
first are through pointers, in all fields of two structs: there counter puts its hooks,
struct-parser asks for names, and call-hook crashes. Those of the second are direct:
there call-hook puts its hooks, also before calls next to each other (the declarations
of the variables); counter asks about nothing, and struct-parser about a volatile struct.

`command_line` has a C, two C++ and an IR source, two of them with one stem, one with a
quote in its name, one for the assembler, an object, a library and a piped source;
options with and without a value, one whose value is a source, a language or a `-std`,
`--`, two response files, and two options with characters the shell knows. Three of them in any order put an option
before, between and behind two inputs.

`MaxCalls` of `logger` lets the one wrapper make three calls: a child that fails before
there is a line and a line after it, or two lines around a child. The other makes none;
its file appears and goes beside the script, and that is all the two share. The
proofs hold for all numbers.

In `wrap_ndk` nothing but the number of runs is bounded.

`CHECK_DEADLOCK FALSE` is in the configurations of what really stops: a build whose
jobs are done, a dictionary that is deleted, a wrapper, a pass or a program that has
ended. `wrap_ndk` is checked for deadlocks, as another run can always start.

### Fairness

`FairSpec` of `Wrapper` is weak fairness of each job's steps: the operating system
schedules every process, and each child, being a compiler run, ends. A job that
make never starts need not end. `FairPassSpec` of `HookPass` is weak fairness
of the pass, which one thread runs. `FairSpec` of `Dictionary` is weak fairness of a
call that has begun: its thread runs; that a call *begins* is not assumed. The same
holds for each thread of `InterfaceCounter`, and for the close after its last save.

### Mutants

Each property of a passing run has a mutant in `PROJECT.json`: a definition
replaced by one with a likely bug (an exit code ignored, an exception not caught,
an off-by-one, a probe with another stride) for which TLC finds the property
violated. The mutated forms stand in the modules before the definition they
change.

## Findings

* `killed_is_zero`: `exec_fork()` takes `WEXITSTATUS` of the wait status without
  `WIFEXITED` (`src/common/executor.cc:48`). A compiler ended by a signal (the
  out-of-memory killer in a parallel build) is logged as "exit with code 0" and
  make goes on with no object, or the old one.
* `static_member`: the merge of `probe_type()` pairs elements and members by their
  offsets. A static member of a C++ struct is a derived debug type with offset 0, so
  it takes the place of the first field if it stands before it: for
  `struct item { static item *first; int x; }` the pair is `i32` and a pointer, and
  `assert(type->isPointerTy())` (`src/utility/struct_parser.cc:133`) fails.

Other disagreements between what the code does and what it seems meant to do are not
findings of a run of their own, as no line of the repository states what they break;
the properties above name them as their exceptions: the command lines outside
`Regular`, a log lost to a failed child or to a missing directory, the abort at the
exit of a wrapper whose log is `/dev/stderr`. `recover` copies the backup of `clang++`
over `clang` (`scripts/wrap-ndk.sh:54`), so no command brings `clang++` back and `clang`
becomes the other compiler; `RecoverSteps` has it as it is in the code, and the only
text beside it, the message of `copy()`, names the two files that are copied. Two more were
met while reading: `log.sh` and `wrap-ndk.sh` run `shift 1` under `errexit`, so without
an argument they end there and their default command never runs; and `log.sh` reads its
path from `${2}` after that `shift`, which is the third argument.

## Proofs

`DictionaryProofs`, from `CapacityAssumption` (a positive capacity),
`HashAssumption` (hashes are naturals), `NoEntryAssumption` and
`NoKeyAssumption` (null is no entry), for every set of keys and values:

* `Invariance`: `IInv`, the conjunction of the run's invariants, is inductive. None
  of them is alone. `TypeOK` needs `PointerGood`, since the caller writes through
  its pointer; `UniqueKeys` at an insert needs that the first probe found no key
  anywhere, which follows from `NoHoles` and from what `ProbeState` says of the
  slots the probe has passed (lemma `MissMeansAbsent`); `NoHoles` at an insert
  needs that the second probe passed occupied slots only.
* `TypeCorrect`, `KeysUnique`, `EntriesFound`, `SizeCorrect`, `PointersStayGood`,
  `ProbesMissNothing`, `EntriesStayPut`: the properties of the run, from `IInv`.
* `Refinement`: every behaviour of the table is one of `DictionaryMap`, including
  that a key is added only below the capacity.

`WrapperProofs`, from `JobsAssumption`, `FilesAssumption` and `ToolAssumption`, and behind
its first theorem from `BuildAssumption`, for any number of jobs, inputs and faults, any
tool and anything an earlier build left:

* `Invariance` and `TypeCorrect`: for any set of jobs, command lines, files and
  faults the types hold, and a job in its loop is at an index of `inputs` whose
  element is still a source. The strengthening says that the elements from the
  loop's index on are those of the command line, which `PhasesParsed` sets up and
  each turn keeps.

* `OutputInvariance`: `OutInv`. `FaithfulOutput` speaks of ended jobs and is far from
  inductive: whether an output is right depends on what the `.ll` files were when the
  last command read them. `InputOK` says at every stage what input i of a job is: before
  the loop's index as given or replaced by an `.ll` file with exactly the unit of the
  source of now, hooked once (`HookedOnce`); at the index what `TargetOK` says of the
  file, torn by this very job while it prints, and of the module in memory; behind it as
  given. Another job keeps that, since it writes only the files of `Writes`, and the
  `.ll` file of a `Private` input is not among them (lemma `OwnLlNotWritten`). An object
  that was given is right since make runs a job after those it depends on have exited
  with 0 (`Started`), and these write no more.
* `OutputFaithful` and `EverythingInstrumented`: the properties, from `OutInv`. The second
  needs that a job without faults has a declaration to hook with, which no other job takes
  away (`DeclarationOK`).
* `PlainRefinement`: `Spec => ImplementsPlainBuild` under two hypotheses, the ones the run
  has: no fate is `killed` or `unwaited` (`Reported`), and no two inputs have one `.ll`
  file (`AllPrivate`). Both are needed: without the first a job succeeds without
  an output (the finding `killed_is_zero`), without the second with another's unit.
  `OutInv` shows that the last command makes what the abstract one does.
* `FailInvariance`: `FailInv` adds to `OutInv` what the last command needs in order not to
  fail: every source can be read and no file is half written but by a job at work on it
  (`Tree`); the inputs of a job are readable (`FilesOK`); the runtime has its unit unless
  a compile of it by another job failed (`RuntimeOK`); an output that another links has
  units of the stems of its inputs alone (`OutputOK`), so that objects do not clash. `OutInv`
  is about jobs none of whose children is misreported, these about jobs that met no fault
  that may end them.
* `NoneSpurious`: the property, from `FailInv`.

`StructParserProofs`, from `TypesAssumption` (finitely many types),
`IrAssumption` (elements in the order of their offsets), `DiAssumption`,
`VoidAssumption` and `OrdersAssumption`, for every graph of types and every order of
declarations:

* `TypeCorrect`: the types, and that the loops stay in their lists.
* `NothingMissed`: `WalkComplete`. It speaks of the end of the walk; the
  strengthening `Walked` says at every step that what is not mapped yet is either
  what the call on top is about to map (`Pending`) or ahead of a loop on the stack
  (`Ahead`), and that no loop has passed an element whose member is still behind it
  (`PassedApart`). The second needs the elements to be sorted; members need not be.
* `DepthNeverExceeded`: `DepthBounded`, since the calls below the top have mapped
  types of their own (`StackShape`), which makes the stack an injection into `Types`.
* `NamesAlwaysRight`: `NamesRight`, for any set `R` of pairs of a type and a debug type
  that is `Described`: it has the pairs of the variables and those that the walk may go
  on with (`LeadsTo`), and where it pairs a struct with a debug type that is recorded,
  that is the struct's own and has each field as the first member at its offset (`Named`),
  unless the struct is `Wrapped`. This is what debug types have to say of a program; a
  static member breaks it, and `static_member` shows what then happens. The invariant
  (`WithinR`) keeps what the stack compares and the map records within `R`; who has
  asked has waited for the walk to be over (`AskedLate`), so the map no longer changes.
  `MCHookPass` computes such an `R` for its types, and TLC checks `Described` of it.

`InterfaceCounterProofs`, from `ThreadsAssumption`, `FiniteAssumption` (a program has
finitely many threads and interfaces), `TableAssumption`, `BoundsAssumption` and
`NullAssumption`, for any number of threads and names, any hash function and any
interval:

* `TypeCorrect`: the types, and that no race moves a probe out of the table or
  makes null of a pointer that is used.
* `CallsCountedOnce`: `EachCallOnce`. It is not inductive: a thread that has read a
  value and writes it back plus one later must not exceed the calls that have
  stored into that entry by then. The strengthening says that a pending call has
  stored nowhere (`PendingUnstored`), that the value in `tmp` was covered when it was
  read (`ReadCovered`), and that the sets of calls are finite (`HitsMade`). They only
  grow, so the write adds one call to a set that covers what it adds one to.
* `TableInvariance`: `TableInv`, from which the theorems below follow. Its point is why a
  probe stays in `Reach`, although two threads may take one bucket, put one name twice
  and write each other's keys. Every bucket in use has an owner, a pair of a thread and a
  name: the thread that wrote its key last, or is about to (`SlotOK`). A thread puts a
  name only after a probe that has found no bucket of that pair (`OwnsOK`), and at most
  one bucket of the pair is left when another thread takes one, so no pair owns two; a
  probe passes buckets of other pairs only, hence less of them than there are pairs
  (lemma `InReach`, by an injection into `Pairs`). The state does not say who wrote a key,
  so `TableInv` says that there *is* such a function `own`; `Alloc` and `SetKey` change
  it. Nobody else's probe then comes to the slots of a private name (`Mine`, lemma
  `MineVisited`), so what a thread has read there is still true when it writes (`MineOK`),
  and the value of its entry is the number of its calls that are done (`ValueOK`).
  `EntriesOK` says that no two buckets have one entry and that a call without an entry
  of its own has no key written.
* `PrivateExact`: `CountsExact`.
* `EndInvariance`: `EndOK` adds what the end of the program needs: while it exits, and if
  it waits for its threads, only the main thread moves, in its save, and the text so far
  has the lines of the buckets passed (`Printed`, lemma `PrintsBucket`).
* `FinalTextExact`: `FinalCountsExact`, from the last two.
* `CrashesExplained`: `CrashExplained`. A null key at a private name would be one that
  another thread is about to write in a slot of `Mine` (lemma `NoHalf`).
* `CallsSaved`: `SavedUpToInterval`, for a program of one thread (`Threads = {Main}`);
  with more threads there are other calls on the disk than `Main`'s, and overlapping
  saves print into one text. `SaveInv` adds four parts to what precedes
  it. No rest of an older text is left because no text was ever longer than the table
  of now would print (`Fits`). That length is a sum over
  the buckets, which is not defined by recursion here: `Widths` says that `f` has the
  width of the lines before each bucket, and `Fits` that there *is* such an `f`, so a
  line that is new or gets longer gives another one (lemma `Widen`). It never gets
  shorter because a fresh entry counts nothing before its call stores the 1
  (`FreshOK`), and the only thread does not find in `Dict_put()` what `Dict_get()` has
  missed (lemma `NeverOverwrites`). In a save the lines are those of the buckets passed
  (`Lists`), hence at its end one for each name that was called (`Snapshot`,
  `WholeText`). `Since` says how many calls are not on the disk: as many as `counter`
  has, and one if a call has not counted itself yet.

`HookPassProofs`, from the assumptions of `StructParser` and `ToolsAssumption`,
`NoFieldAssumption` and `ModulesAssumption`, for all modules:

* `PassImplementsParser`: `PassSpec => Spec`, as each step of a pass is a step of the
  parser or leaves it alone. `PassDepthBounded` and `PassWalkComplete` follow from the
  theorems of `StructParserProofs` at once.
* `PassTypeCorrect`: `PassTypeOK`, with `InsertAt` shown to give a longer list of the
  same kind, so that the loop, which goes on by two, stays in it.
* `UnmodifiedNeverChanged`: while `modified` is false the code is the source.
  `apply_pass()` writes only if `modified`.
* `PassNamesRight`: `NamesRight` in a pass, from `NamesAlwaysRight`.
* `HooksAlwaysExact`: `HooksExact`, under `Described`, on which the names rest. It says
  nothing of a counter that asks about a wrapped struct, as the property does (`Settled`).
  `LoopInv` has the blocks behind the loop instrumented and those ahead as read; in the
  block of the loop there is an instruction of the list *as it was read* that it is at
  (`AtSource`), with those before it where `Moved` says and those behind it shifted as
  one (`HookedUpTo`). A hook is put exactly when the source asks for one
  (`FieldDecides`), and the loop goes on by two exactly then. Each hook makes its block
  longer than it was read, so `modified` cannot be true of a module left alone.

`LoggerProofs`, from `LoggerAssumption`, for any wrappers, levels and numbers of calls:

* `LoggerInvariance`: `IInv` has for each wrapper three parts. `Place`: what `pc` says of
  `opened`, `special` and `child`. `Text`: what is on the disk or in the buffer is what
  was logged at the level, and `disk \o buffer` is `Ordered`, so that a full buffer, a
  close and a child's close keep it (lemmas `AppendLine`, `WrittenTwice`); a child that
  has closed leaves nothing in the buffer that is not on the disk. `Name`: a file that
  lost its name was cut, or a child failed before the first line, or the wrapper ended
  without one.
* `LoggerTypeCorrect`, `LogAlwaysKept`, `StatusAlwaysKept`: the properties of the run.

`WrapNdkProofs`, from `ToolsAssumption`, for any number of runs:

* `Invariance`: `OriginalsKept` is not inductive: a run that is to copy a wrapper over
  a compiler must know of the backup. `Kept` says so of each run that has come by the
  backup step (`Passed`) and of each that copies a backup back, that at most one run
  makes the backup of a tool, and that while it does the original is in its place. For
  `clang` it needs that `clang++` is never backed up before `clang` is.
* `TypeCorrect` and `OriginalsNeverLost` follow.
* `WrongBackupsWereCut`: `WrongOnlyIfCut`. `InTurn` is what is true as long as no two runs
  have overlapped: one at most is busy (lemma `TurnFrame` leaves its own step to show), a
  backup that was not stopped is torn only in its `cp`, and there is none when that
  begins. With `Kept` a run that is alone then finds the original or no backup (lemma
  `AloneFinds`).

`CommandLineProofs`, from `TextAssumption`, `DriverAssumption`, `CommandAssumption` and
`VocabularyAssumption`, for any set of command lines, files, options and response files,
any text of an argument, and every way to build the wrapper. It uses two principles of
induction that speak of sets and not of an operator, `SetInduction` (a set with 0 and with
the successors of its numbers has all numbers) and `SequenceInduction`, which follow from
the order of the naturals being well-founded (lemma `NaturalsWellFounded`). With them
the recursive functions of the model (`FlattenSeq`, the shell that reads a command) and
the counting in `InOrder` come into reach.

* `ShellRoundTrip`: the shell takes the text of `Arguments::command()` apart into the
  arguments that were put in, and finds nothing to expand. The induction is over the
  arguments, with the state of the reader in front of each character of one.
* `TypeCorrect` and `QuestionArrives` (`Asked`), from that.
* `OptionsAreKept`: `OptionsKept`. The invariant (`Kept`) says for each loop what it has
  picked so far; for the one that erases while it counts, that what is left is what `At`
  selects by *some* set of positions, which lacks nothing but a `-std` of C and has none
  of those before `n` (`LeftOf`). An erase takes one position from that set (lemmas on
  `InOrder` and `At`).
* `BuildsWhatWasAsked`: `BuildsTheSame`. `Named` says which names the lists have at each
  stage: those of the lines that the loops have read, which are about inputs of `Words`.
  `Ready` follows the loop over `inputs`: the element of a source is its name or the `.ll`
  file made of it, which holds the unit the source stands for (`Replaced`, `InputMade`);
  another source may be compiled to that file only if it is the same (`StemsApart`). That
  no command for the runtime fails is `RuntimeMade`. The last command is another list of
  words than the user's: the sources come last, options are gone and new ones have come, and
  an input may be another file. Lemma `BaseStands` says which words of the user are
  left, and the lemmas before it what such a list says, position by position against the
  user's: which word is a value, which `-x` is in force, the phase and the output.
  `RegularSettled` is where each part of `Regular` has its place. The bags of units are
  equal by a bijection of the positions (`SameBag`).
* `LinkOrderKept`: `LinksInOrder`, from the same invariant: with `SourcesLast` that
  bijection is the identity.

Every invariant of a passing run is so proved for every value of the constants, as far
as the theorem's hypotheses go. What stays with TLC is what is temporal beyond safety:
`EveryJobEnds`, `CallEnds`, `CallReturns` and `PassEnds`, as liveness under fairness and
`ENABLED` are out of this prover's reach; and the two runs that expect a violation, whose
result is a counterexample.

## Not modelled, and why

* The text of logs, prompts and colours, of the strings the hooks are given, and of
  source positions (`src/utility/location.cc`): layout, with no state. The format loop of
  `Logger::log()` is in `Call` as one line.
* One fixed `LOG_PATH` for several wrappers: each has a file of its own in `Logger`, as
  the `*` in the path that `wrap-ndk.sh` sets makes it. With one path each would empty
  what the others wrote.
* `-E` in a command line with a runtime: the model gives the compiler's error or
  success, not that a preprocessed `declaration.ll` is then parsed as IR.
* `exec_exec()`, `exec_system()`, `Arguments::argv()` and `Phase::to_string()`: without a
  caller, a copy, or only for the log. `JNIMethodDetector` is a stub that nothing calls.
* `runtime/call_hook`: one `fprintf`. The name of the counter's file (`clock()`) and
  Android's log.
* The assertions on the LLVM API in `src/utility/assertion.cc`, which test that a
  function or an instruction is in the module it was taken from.
* `replace_extension()` of `src/common/path.cc` for old compilers is a constant (`Ll`);
  its collisions are what matters, and both models have them.
* The build files: they set constants. The LLVM libraries.
* `runtime/common/dictionary.c`, a driver of the table that makes calls any caller of
  `Dictionary` makes.
