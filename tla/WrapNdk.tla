------------------------------ MODULE WrapNdk -------------------------------
(***************************************************************************)
(* scripts/wrap-ndk.sh puts wrappers in the place of the two compilers of  *)
(* an Android NDK.  It copies the compilers to clang.bak and clang++.bak   *)
(* first, which the wrappers call, and can copy them back.  Runs of the    *)
(* script may follow each other, overlap, fail and be interrupted; cp      *)
(* empties its target before it fills it.                                  *)
(***************************************************************************)
EXTENDS Integers, Sequences, FiniteSets

CONSTANTS
  Runs,   (* how many runs may overlap                                     *)
  Tools   (* the two compilers                                             *)

CONSTANTS CC, CXX

ASSUME ToolsAssumption == Tools = {CC, CXX} /\ CC # CXX

Original(tool) == <<"original", tool>>
Wrapper(tool) == <<"wrapper", tool>>
Absent == <<"absent">>
Torn == <<"torn">>

Contents == {Original(t) : t \in Tools} \cup {Wrapper(t) : t \in Tools} \cup {Absent, Torn}

(* The files: bin/<tool>, its backup and what make builds. *)
Bin(tool) == <<"bin", tool>>
Bak(tool) == <<"bak", tool>>
Built(tool) == <<"build", tool>>
Files == {"bin", "bak", "build"} \X Tools

(* A step of the script: a copy whose condition is tested, or make. *)
Step(condition, source, target) == [condition |-> condition, source |-> source, target |-> target]
BackUp(tool) == Step("no backup", Bin(tool), Bak(tool))
Install(tool) == Step("none", Built(tool), Bin(tool))
Make == Step("make", Bak(CC), Bin(CC))

BackupSteps == <<BackUp(CC), BackUp(CXX)>>

(* A mutant of BuildSteps: the backup comes after make and the first copy. *)
BuildStepsFirst == <<Make, Install(CC), BackUp(CC), BackUp(CXX), Install(CXX)>>

(* The function build() calls backup() first. *)
BuildSteps == <<BackUp(CC), BackUp(CXX), Make, Install(CC), Install(CXX)>>

(* Both backups go over clang: none brings a clang++ back. *)
RecoverSteps == <<Step("backup", Bak(CC), Bin(CC)), Step("backup", Bak(CXX), Bin(CC))>>

Commands == {"backup", "build", "recover"}

Steps(command) ==
  CASE command = "backup"  -> BackupSteps
    [] command = "build"   -> BuildSteps
    [] command = "recover" -> RecoverSteps

VARIABLES
  file,     (* what is in each file                                        *)
  command,  (* what a run does, "none" if it is over                       *)
  n,        (* the number of its step                                      *)
  at,       (* where it is in that: its test, its cp                       *)
  trusted,  (* the tools of whose backup a run relied on what was not so   *)
  overlap,  (* history: whether a run has begun while another was busy     *)
  cut       (* history: the tools whose backup was stopped in its cp       *)

history == <<overlap, cut>>
vars == <<file, command, n, at, trusted, history>>

Init ==
  /\ file = [f \in Files |-> IF f[1] = "bin" THEN Original(f[2]) ELSE Absent]
  /\ command = [r \in Runs |-> "none"]
  /\ n = [r \in Runs |-> 1] /\ at = [r \in Runs |-> "test"]
  /\ trusted = {}
  /\ overlap = FALSE /\ cut = {}

Busy(r) == command[r] # "none"

Start(r) ==
  /\ ~Busy(r)
  /\ \E c \in Commands : command' = [command EXCEPT ![r] = c]
  /\ overlap' = (overlap \/ \E s \in Runs : Busy(s))
  /\ UNCHANGED <<file, n, at, trusted, cut>>

StepOf(r) == Steps(command[r])[n[r]]

Over(r) ==
  /\ command' = [command EXCEPT ![r] = "none"]
  /\ n' = [n EXCEPT ![r] = 1] /\ at' = [at EXCEPT ![r] = "test"]

(* The step after this one. *)
Proceed(r) ==
  IF n[r] = Len(Steps(command[r])) THEN Over(r)
  ELSE /\ n' = [n EXCEPT ![r] = @ + 1] /\ at' = [at EXCEPT ![r] = "test"]
       /\ UNCHANGED command

Within(r, stage) == at' = [at EXCEPT ![r] = stage] /\ UNCHANGED <<command, n>>

Exists(f) == file[f] # Absent

(* A mutant of Wanted: a backup is made whether or not there is one. *)
WantedAnew(step) == step.condition = "backup" => Exists(step.source)

(* The copies that the condition of a step lets happen. *)
Wanted(step) ==
  CASE step.condition = "no backup" -> ~Exists(step.target)
    [] step.condition = "backup"    -> Exists(step.source)
    [] OTHER                        -> TRUE

BackupOf(step) == IF step.condition = "backup" THEN step.source ELSE step.target

(* A test finds a backup, and takes it for whole. *)
Relies(step) ==
  /\ step.condition \in {"no backup", "backup"}
  /\ Exists(BackupOf(step)) /\ file[BackupOf(step)] # Original(BackupOf(step)[2])

Test(r) ==
  /\ Busy(r) /\ StepOf(r).condition # "make" /\ at[r] = "test"
  /\ IF Wanted(StepOf(r)) THEN Within(r, "open") ELSE Proceed(r)
  /\ trusted' = trusted \cup IF Relies(StepOf(r)) THEN {BackupOf(StepOf(r))[2]} ELSE {}
  /\ UNCHANGED <<file, history>>

(* cp opens its target: if a backup is there by now, the test was too early. *)
CopyBegins(r) ==
  /\ Busy(r) /\ at[r] = "open"
  /\ Exists(StepOf(r).source)
  /\ file' = [file EXCEPT ![StepOf(r).target] = Torn]
  /\ trusted' = trusted \cup IF StepOf(r).condition = "no backup" /\ Exists(StepOf(r).target)
                             THEN {StepOf(r).target[2]} ELSE {}
  /\ Within(r, "copy")
  /\ UNCHANGED history

CopyEnds(r) ==
  /\ Busy(r) /\ at[r] = "copy"
  /\ file' = [file EXCEPT ![StepOf(r).target] = file[StepOf(r).source]]
  /\ Proceed(r)
  /\ UNCHANGED <<trusted, history>>

(* make links each wrapper anew. *)
MakeEnds(r) ==
  /\ Busy(r) /\ StepOf(r).condition = "make"
  /\ file' = [f \in Files |-> IF f[1] = "build" THEN Wrapper(f[2]) ELSE file[f]]
  /\ Proceed(r)
  /\ UNCHANGED <<trusted, history>>

(* An error (errexit) or an interrupt, in the middle of a copy, too. *)
Stop(r) ==
  /\ Busy(r) /\ Over(r)
  /\ cut' = cut \cup {t \in Tools : at[r] = "copy" /\ StepOf(r) = BackUp(t)}
  /\ UNCHANGED <<file, trusted, overlap>>

Next ==
  \E r \in Runs : Start(r) \/ Test(r) \/ CopyBegins(r) \/ CopyEnds(r) \/ MakeEnds(r) \/ Stop(r)

Spec == Init /\ [][Next]_vars
-----------------------------------------------------------------------------
(***************************************************************************)
(* Properties.                                                             *)
(***************************************************************************)
(* The variables have their types, and a run is at a step of its command. *)
TypeOK ==
  /\ file \in [Files -> Contents]
  /\ command \in [Runs -> Commands \cup {"none"}]
  /\ n \in [Runs -> 1 .. 5] /\ at \in [Runs -> {"test", "open", "copy"}]
  /\ trusted \subseteq Tools /\ cut \subseteq Tools /\ overlap \in BOOLEAN
  /\ \A r \in Runs : IF command[r] = "none" THEN n[r] = 1 /\ at[r] = "test"
                     ELSE n[r] <= Len(Steps(command[r]))

(***************************************************************************)
(* However runs overlap and wherever they stop, the original of a compiler *)
(* is whole in its place or in its backup, which is what a wrapper in its  *)
(* place calls: unless a run took a torn backup for one, or two runs made  *)
(* the backup at once.                                                     *)
(***************************************************************************)
OriginalsKept ==
  \A t \in Tools \ trusted : Original(t) \in {file[Bin(t)], file[Bak(t)]}

(***************************************************************************)
(* Runs that follow each other, in whatever order, wherever each of them   *)
(* fails or is stopped, are wrong about no backup but one whose own cp was *)
(* stopped: a second build does not take the wrapper for the compiler, and *)
(* what a stopped copy over a compiler left does not get into its backup.  *)
(***************************************************************************)
WrongOnlyIfCut == ~overlap => trusted \subseteq cut
=============================================================================
