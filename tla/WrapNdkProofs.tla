--------------------------- MODULE WrapNdkProofs ----------------------------
(***************************************************************************)
(* Proofs about WrapNdk, for any number of runs: those that overlap, and   *)
(* those that follow each other.                                           *)
(***************************************************************************)
EXTENDS WrapNdk, TLAPS

USE ToolsAssumption

Restore(tool) == Step("backup", Bak(tool), Bin(CC))
AllSteps == {BackUp(t) : t \in Tools} \cup {Install(t) : t \in Tools}
            \cup {Restore(t) : t \in Tools} \cup {Make}

(* The run has come by the backup of a tool. *)
Place(tool) == IF tool = CC THEN 1 ELSE 2
Passed(r, tool) == command[r] \in {"backup", "build"} /\ n[r] > Place(tool)

Copying(r) == at[r] \in {"open", "copy"}
BackingUp(r, tool) == at[r] = "copy" /\ StepOf(r) = BackUp(tool)

(***************************************************************************)
(* What keeps the original of a tool that no run was wrong about: it is    *)
(* in its place until it is in its backup; it is there for a run that has  *)
(* come by the backup and for one that is to copy over the tool; and one   *)
(* run at most makes the backup.                                           *)
(***************************************************************************)
Kept(tool) ==
  /\ \/ file[Bak(tool)] = Original(tool)
     \/ file[Bak(tool)] \in {Absent, Torn} /\ file[Bin(tool)] = Original(tool)
  /\ \A r \in Runs : Passed(r, tool) => file[Bak(tool)] = Original(tool)
  /\ \A r \in Runs :
       Copying(r) /\ StepOf(r).condition = "backup" /\ StepOf(r).target = Bin(tool) =>
         file[Bak(tool)] = Original(tool)
  /\ \A r \in Runs : BackingUp(r, tool) =>
       file[Bak(tool)] = Torn /\ \A s \in Runs : BackingUp(s, tool) => s = r
  /\ tool = CC /\ file[Bak(CXX)] # Absent => file[Bak(CC)] = Original(CC)

IInv ==
  /\ TypeOK
  /\ \A r \in Runs : Copying(r) => Busy(r) /\ StepOf(r).condition # "make"
  /\ \A t \in Tools : file[Built(t)] \in {Absent, Wrapper(t)}
  /\ \A t \in Tools \ trusted : Kept(t)
-----------------------------------------------------------------------------
(* Files and contents differ. *)
LEMMA FileFacts ==
  /\ \A t \in Tools : Bin(t) \in Files /\ Bak(t) \in Files /\ Built(t) \in Files
  /\ \A t, u \in Tools : Bin(t) # Bak(u) /\ Bin(t) # Built(u) /\ Bak(t) # Built(u)
  /\ \A t, u \in Tools : t # u => Bin(t) # Bin(u) /\ Bak(t) # Bak(u)
  /\ \A t \in Tools : Bak(t)[2] = t
BY DEF Bin, Bak, Built, Files

LEMMA ContentFacts ==
  /\ Absent \in Contents /\ Torn \in Contents /\ Absent # Torn
  /\ \A t \in Tools : Original(t) \in Contents /\ Wrapper(t) \in Contents
  /\ \A t \in Tools : Original(t) # Absent /\ Original(t) # Torn
  /\ \A t, u \in Tools : Wrapper(t) # Original(u)
<1>1. Absent[1] = "absent" /\ Torn[1] = "torn"
      /\ \A t : Original(t)[1] = "original" /\ Wrapper(t)[1] = "wrapper"
  BY DEF Absent, Torn, Original, Wrapper
<1>2. Absent # Torn
  BY <1>1
<1>3. \A t : Original(t) # Absent /\ Original(t) # Torn
  BY <1>1
<1>4. \A t, u : Wrapper(t) # Original(u)
  BY <1>1
<1> QED  BY <1>2, <1>3, <1>4 DEF Contents

(* The steps of the script. *)
LEMMA StepsFacts ==
  /\ \A t \in Tools : /\ BackUp(t).condition = "no backup" /\ BackUp(t).source = Bin(t)
                      /\ BackUp(t).target = Bak(t)
                      /\ Install(t).condition = "none" /\ Install(t).source = Built(t)
                      /\ Install(t).target = Bin(t)
                      /\ Restore(t).condition = "backup" /\ Restore(t).source = Bak(t)
                      /\ Restore(t).target = Bin(CC)
  /\ Make.condition = "make"
BY DEF BackUp, Install, Restore, Make, Step

LEMMA BackUpsDiffer == \A t, u \in Tools : BackUp(t) = BackUp(u) => t = u
<1> SUFFICES ASSUME NEW t \in Tools, NEW u \in Tools, BackUp(t) = BackUp(u) PROVE t = u
  OBVIOUS
<1>1. Bak(t) = Bak(u)
  BY StepsFacts
<1> QED  BY <1>1, FileFacts

LEMMA StepFacts ==
  ASSUME TypeOK, NEW r \in Runs, Busy(r)
  PROVE  /\ StepOf(r) \in AllSteps
         /\ \A t \in Tools : StepOf(r) = BackUp(t) =>
              command[r] \in {"backup", "build"} /\ n[r] = Place(t)
         /\ \A t, u \in Tools : StepOf(r) = Install(t) => Passed(r, u)
<1>1. command[r] \in Commands /\ n[r] \in 1 .. 5 /\ n[r] <= Len(Steps(command[r]))
  BY DEF TypeOK, Busy
<1> HIDE ToolsAssumption
<1>2. CASE command[r] = "backup"
  <2>1. Steps(command[r]) = <<BackUp(CC), BackUp(CXX)>> /\ n[r] \in {1, 2}
    BY <1>1, <1>2 DEF Steps, BackupSteps
  <2>2. \/ n[r] = 1 /\ StepOf(r) = BackUp(CC)
        \/ n[r] = 2 /\ StepOf(r) = BackUp(CXX)
    BY <2>1 DEF StepOf
  <2>3. \A t, u \in Tools : BackUp(u) # Install(t)
    BY StepsFacts
  <2> QED  BY <1>2, <2>2, <2>3, BackUpsDiffer, ToolsAssumption DEF AllSteps, Place
<1>3. CASE command[r] = "build"
  <2>1. /\ Steps(command[r]) = <<BackUp(CC), BackUp(CXX), Make, Install(CC), Install(CXX)>>
        /\ n[r] \in {1, 2, 3, 4, 5}
    BY <1>1, <1>3 DEF Steps, BuildSteps
  <2>2. \/ n[r] = 1 /\ StepOf(r) = BackUp(CC)
        \/ n[r] = 2 /\ StepOf(r) = BackUp(CXX)
        \/ n[r] = 3 /\ StepOf(r) = Make
        \/ n[r] = 4 /\ StepOf(r) = Install(CC)
        \/ n[r] = 5 /\ StepOf(r) = Install(CXX)
    BY <2>1 DEF StepOf
  <2>3. \A t, u \in Tools : BackUp(u) # Install(t) /\ BackUp(u) # Make /\ Install(u) # Make
    BY StepsFacts
  <2> QED
    BY <1>3, <2>2, <2>3, BackUpsDiffer, ToolsAssumption DEF AllSteps, Place, Passed
<1>4. CASE command[r] = "recover"
  <2>1. Steps(command[r]) = <<Restore(CC), Restore(CXX)>> /\ n[r] \in {1, 2}
    BY <1>1, <1>4 DEF Steps, RecoverSteps, Restore
  <2>2. StepOf(r) \in {Restore(CC), Restore(CXX)}
    BY <2>1 DEF StepOf
  <2>3. \A t, u \in Tools : Restore(u) # Install(t) /\ Restore(u) # BackUp(t)
    BY StepsFacts
  <2> QED  BY <2>2, <2>3, ToolsAssumption DEF AllSteps
<1> QED  BY <1>1, <1>2, <1>3, <1>4 DEF Commands

(* What becomes of a run that goes on to its next step, or ends. *)
LEMMA ProceedFacts ==
  ASSUME TypeOK, NEW r \in Runs, Busy(r), Proceed(r) \/ Over(r)
  PROVE  /\ command' \in [Runs -> Commands \cup {"none"}]
         /\ n' \in [Runs -> 1 .. 5] /\ at' \in [Runs -> {"test", "open", "copy"}]
         /\ at'[r] = "test"
         /\ IF command'[r] = "none" THEN n'[r] = 1 ELSE n'[r] <= Len(Steps(command'[r]))
         /\ \A t \in Tools : Passed(r, t)' => Passed(r, t) \/ StepOf(r) = BackUp(t)
         /\ \A s \in Runs \ {r} :
              command'[s] = command[s] /\ n'[s] = n[s] /\ at'[s] = at[s]
<1>1. command[r] \in Commands /\ n[r] \in 1 .. 5 /\ n[r] <= Len(Steps(command[r]))
  BY DEF TypeOK, Busy
<1>2. CASE Over(r)
  BY <1>2 DEF Over, TypeOK, Commands, Passed
<1>3. CASE n[r] # Len(Steps(command[r])) /\ Proceed(r)
  <2>1. UNCHANGED command /\ n' = [n EXCEPT ![r] = @ + 1] /\ at' = [at EXCEPT ![r] = "test"]
    BY <1>3 DEF Proceed
  <2>2. Len(Steps(command[r])) \in {2, 5}
    BY <1>1 DEF Commands, Steps, BackupSteps, BuildSteps, RecoverSteps
  <2>3. n'[r] = n[r] + 1 /\ n'[r] \in 1 .. 5 /\ n'[r] <= Len(Steps(command[r]))
    <3>1. n'[r] = n[r] + 1
      BY <2>1 DEF TypeOK
    <3> DEFINE l == Len(Steps(command[r]))
    <3>2. l \in {2, 5} /\ n[r] <= l /\ n[r] # l
      BY <1>1, <1>3, <2>2
    <3> HIDE DEF l
    <3>3. n'[r] \in 1 .. 5 /\ n'[r] <= l
      BY <1>1, <3>1, <3>2
    <3> QED  BY <3>1, <3>3 DEF l
  <2>4. ASSUME NEW t \in Tools, Passed(r, t)'
        PROVE  Passed(r, t) \/ StepOf(r) = BackUp(t)
    <3>1. command[r] \in {"backup", "build"} /\ n[r] + 1 > Place(t)
      BY <2>1, <2>3, <2>4 DEF Passed, Place
    <3>2. CASE n[r] > Place(t)
      BY <3>1, <3>2 DEF Passed
    <3>3. CASE n[r] = Place(t)
      <4>1. Steps(command[r])[1] = BackUp(CC) /\ Steps(command[r])[2] = BackUp(CXX)
        BY <3>1 DEF Steps, BackupSteps, BuildSteps
      <4> QED  BY <3>3, <4>1 DEF StepOf, Place
    <3> QED  BY <1>1, <3>1, <3>2, <3>3 DEF Place
  <2> QED  BY <1>1, <2>1, <2>3, <2>4 DEF TypeOK, Commands
<1> QED  BY <1>2, <1>3 DEF Proceed

LEMMA StepStays ==
  ASSUME NEW r \in Runs, command'[r] = command[r], n'[r] = n[r]
  PROVE  /\ StepOf(r)' = StepOf(r) /\ (Busy(r)' <=> Busy(r))
         /\ \A t \in Tools : Passed(r, t)' <=> Passed(r, t)
BY DEF StepOf, Busy, Passed, Steps
-----------------------------------------------------------------------------
(* A run is at a copy of one of three kinds. *)
LEMMA CopyFacts ==
  ASSUME IInv, NEW r \in Runs, Copying(r)
  PROVE  \E u \in Tools : StepOf(r) \in {BackUp(u), Install(u), Restore(u)}
BY StepFacts, StepsFacts DEF IInv, AllSteps

LEMMA InitIInv == Init => IInv
<1> SUFFICES ASSUME Init PROVE IInv
  OBVIOUS
<1>1. \A t \in Tools : file[Bin(t)] = Original(t) /\ file[Bak(t)] = Absent /\ file[Built(t)] = Absent
  BY DEF Init, Files, Bin, Bak, Built
<1>2. file \in [Files -> Contents]
  <2>1. ASSUME NEW f \in Files PROVE f[2] \in Tools
    BY DEF Files
  <2> QED  BY <2>1, ContentFacts DEF Init
<1>3. TypeOK
  <2>1. /\ command \in [Runs -> Commands \cup {"none"}] /\ n \in [Runs -> 1 .. 5]
        /\ at \in [Runs -> {"test", "open", "copy"}]
        /\ \A r \in Runs : command[r] = "none" /\ n[r] = 1 /\ at[r] = "test"
    BY DEF Init
  <2>2. trusted \subseteq Tools /\ cut \subseteq Tools /\ overlap \in BOOLEAN
    BY DEF Init
  <2> QED  BY <1>2, <2>1, <2>2 DEF TypeOK
<1>4. \A r \in Runs : ~Copying(r) /\ at[r] # "copy" /\ command[r] = "none"
  BY DEF Init, Copying
<1>5. \A t \in Tools : Kept(t)
  BY <1>1, <1>4, ContentFacts DEF Kept, Passed, BackingUp
<1> QED  BY <1>1, <1>3, <1>4, <1>5 DEF IInv

LEMMA StartStep ==
  ASSUME IInv, NEW r \in Runs, Start(r)
  PROVE  IInv'
<1>1. /\ command'[r] \in Commands /\ n[r] = 1 /\ at[r] = "test"
      /\ command' \in [Runs -> Commands \cup {"none"}]
      /\ \A s \in Runs \ {r} : command'[s] = command[s]
      /\ UNCHANGED <<file, n, at, trusted, cut>> /\ overlap' \in BOOLEAN
  BY DEF Start, Busy, IInv, TypeOK
<1>2. n[r] <= Len(Steps(command'[r]))
  BY <1>1 DEF Commands, Steps, BackupSteps, BuildSteps, RecoverSteps
<1>3. TypeOK'
  <2>1. ASSUME NEW s \in Runs
        PROVE  IF command'[s] = "none" THEN n'[s] = 1 /\ at'[s] = "test"
               ELSE n'[s] <= Len(Steps(command'[s]))
    BY <1>1, <1>2 DEF IInv, TypeOK, Commands
  <2> QED  BY <1>1, <2>1 DEF IInv, TypeOK
<1>4. ~Copying(r)' /\ \A t \in Tools : ~Passed(r, t)' /\ ~BackingUp(r, t)'
  BY <1>1 DEF Copying, Passed, BackingUp, Place
<1>5. \A s \in Runs \ {r} : /\ StepOf(s)' = StepOf(s) /\ (Busy(s)' <=> Busy(s))
                            /\ \A t \in Tools : Passed(s, t)' <=> Passed(s, t)
  BY <1>1, StepStays
<1>6. ASSUME NEW t \in Tools \ trusted PROVE Kept(t)'
  BY <1>1, <1>4, <1>5 DEF IInv, Kept, Copying, BackingUp
<1> QED  BY <1>1, <1>3, <1>4, <1>5, <1>6 DEF IInv, Copying

LEMMA TestStep ==
  ASSUME IInv, NEW r \in Runs, Test(r)
  PROVE  IInv'
<1>1. /\ Busy(r) /\ StepOf(r).condition # "make" /\ at[r] = "test" /\ UNCHANGED <<file, history>>
      /\ trusted' = trusted \cup IF Relies(StepOf(r)) THEN {BackupOf(StepOf(r))[2]} ELSE {}
      /\ TypeOK /\ StepOf(r) \in AllSteps
  BY StepFacts DEF Test, IInv
<1>2. trusted' \subseteq Tools
  <2>1. \A t \in Tools : BackupOf(BackUp(t)) = Bak(t) /\ BackupOf(Restore(t)) = Bak(t)
    BY StepsFacts DEF BackupOf
  <2>2. Relies(StepOf(r)) => BackupOf(StepOf(r))[2] \in Tools
    <3>1. Relies(StepOf(r)) => StepOf(r).condition \in {"no backup", "backup"}
      BY DEF Relies
    <3>2. Relies(StepOf(r)) => \E t \in Tools : StepOf(r) \in {BackUp(t), Restore(t)}
      BY <1>1, <3>1, StepsFacts DEF AllSteps
    <3> QED  BY <2>1, <3>2, FileFacts
  <2> QED  BY <1>1, <2>2 DEF TypeOK
(* A test of a backup that is not what it seems is recorded. *)
<1>3. ASSUME NEW t \in Tools \ trusted', StepOf(r) \in {BackUp(t), Restore(t)}, Exists(Bak(t))
      PROVE  file[Bak(t)] = Original(t)
  <2>1. BackupOf(StepOf(r)) = Bak(t) /\ StepOf(r).condition \in {"no backup", "backup"}
    BY ZenonT(40), <1>3, StepsFacts DEF BackupOf
  <2>2. Bak(t)[2] = t
    BY FileFacts
  <2> QED  BY <1>1, <1>3, <2>1, <2>2 DEF Relies
<1>4. CASE Wanted(StepOf(r)) /\ Within(r, "open")
  <2>1. /\ UNCHANGED <<command, n>> /\ at' \in [Runs -> {"test", "open", "copy"}]
        /\ at'[r] = "open" /\ \A s \in Runs \ {r} : at'[s] = at[s]
    BY <1>1, <1>4 DEF Within, TypeOK
  <2>2. \A s \in Runs : /\ StepOf(s)' = StepOf(s) /\ (Busy(s)' <=> Busy(s))
                        /\ \A t \in Tools : Passed(s, t)' <=> Passed(s, t)
    BY <2>1, StepStays
  <2>3. TypeOK'
    BY <1>1, <1>2, <2>1 DEF TypeOK, Busy, history
  <2>4. ASSUME NEW t \in Tools \ trusted' PROVE Kept(t)'
    <3>1. Kept(t)
      BY <1>1, <2>4 DEF IInv
    <3>2. ASSUME StepOf(r).condition = "backup", StepOf(r).target = Bin(t)
          PROVE  file[Bak(t)] = Original(t)
      <4>1. PICK u \in Tools : StepOf(r) = Restore(u)
        BY <1>1, <3>2, StepsFacts DEF AllSteps
      <4>2. t = CC /\ Exists(Bak(u))
        <5>1. StepOf(r).source = Bak(u) /\ Bin(CC) = Bin(t)
          BY <3>2, <4>1, StepsFacts
        <5>2. Exists(StepOf(r).source)
          BY <1>4, <3>2 DEF Wanted
        <5> QED  BY <5>1, <5>2, FileFacts
      <4> QED  BY <1>3, <3>1, <4>1, <4>2 DEF Kept, Exists
    <3> QED  BY <1>1, <2>1, <2>2, <3>1, <3>2 DEF Kept, Copying, BackingUp
  <2> QED  BY <1>1, <2>1, <2>2, <2>3, <2>4 DEF IInv, Copying
<1>5. CASE ~Wanted(StepOf(r)) /\ Proceed(r)
  <2>1. /\ at'[r] = "test"
        /\ \A t \in Tools : Passed(r, t)' => Passed(r, t) \/ StepOf(r) = BackUp(t)
        /\ \A s \in Runs \ {r} :
             command'[s] = command[s] /\ n'[s] = n[s] /\ at'[s] = at[s]
    BY <1>1, <1>5, ProceedFacts
  <2>2. \A s \in Runs \ {r} : /\ StepOf(s)' = StepOf(s) /\ (Busy(s)' <=> Busy(s))
                              /\ \A t \in Tools : Passed(s, t)' <=> Passed(s, t)
    BY <2>1, StepStays
  <2>3. TypeOK'
    BY <1>1, <1>2, <1>5, ProceedFacts DEF TypeOK, history
  <2>4. ASSUME NEW t \in Tools \ trusted' PROVE Kept(t)'
    <3>1. Kept(t)
      BY <1>1, <2>4 DEF IInv
    <3>2. StepOf(r) = BackUp(t) => file[Bak(t)] = Original(t)
      BY <1>3, <1>5, StepsFacts DEF Wanted
    <3> QED  BY <1>1, <2>1, <2>2, <3>1, <3>2 DEF Kept, Copying, BackingUp
  <2> QED  BY <1>1, <2>1, <2>2, <2>3, <2>4 DEF IInv, Copying
<1> QED  BY <1>4, <1>5 DEF Test

(* A run that stops keeps what it has, and so does make. *)
LEMMA LeaveStep ==
  ASSUME IInv, NEW r \in Runs, Stop(r) \/ MakeEnds(r)
  PROVE  IInv'
<1>1. /\ Busy(r) /\ (Proceed(r) \/ Over(r)) /\ UNCHANGED trusted /\ TypeOK
      /\ (Proceed(r) /\ MakeEnds(r)) \/ Over(r)
      /\ overlap' \in BOOLEAN /\ cut' \subseteq Tools
  BY DEF Stop, MakeEnds, IInv, TypeOK, history
<1>2. /\ file' \in [Files -> Contents]
      /\ \A t \in Tools : /\ file'[Bin(t)] = file[Bin(t)] /\ file'[Bak(t)] = file[Bak(t)]
                          /\ file'[Built(t)] \in {Absent, Wrapper(t)}
  <2>1. CASE Stop(r)
    BY <2>1 DEF Stop, IInv, TypeOK
  <2>2. CASE MakeEnds(r)
    <3>1. \A f \in Files : f[2] \in Tools
      BY DEF Files
    <3>2. \A t \in Tools : /\ Bin(t)[1] = "bin" /\ Bak(t)[1] = "bak"
                          /\ Built(t)[1] = "build" /\ Built(t)[2] = t
      BY DEF Bin, Bak, Built
    <3> QED  BY <2>2, <3>1, <3>2, FileFacts, ContentFacts DEF MakeEnds, IInv, TypeOK
  <2> QED  BY <2>1, <2>2
<1>3. /\ at'[r] = "test"
      /\ \A t \in Tools : Passed(r, t)' => Passed(r, t) \/ StepOf(r) = BackUp(t)
      /\ \A s \in Runs \ {r} :
           command'[s] = command[s] /\ n'[s] = n[s] /\ at'[s] = at[s]
  BY <1>1, ProceedFacts
<1>4. \A s \in Runs \ {r} : /\ StepOf(s)' = StepOf(s) /\ (Busy(s)' <=> Busy(s))
                            /\ \A t \in Tools : Passed(s, t)' <=> Passed(s, t)
  BY <1>3, StepStays
<1>5. \A t \in Tools : Passed(r, t)' => Passed(r, t)
  <2>1. CASE Over(r)
    BY <1>1, <2>1 DEF Over, Passed, TypeOK
  <2>2. CASE MakeEnds(r)
    BY <1>3, <2>2, StepsFacts DEF MakeEnds
  <2> QED  BY <1>1, <2>1, <2>2
<1>6. TypeOK'
  BY <1>1, <1>2, ProceedFacts DEF TypeOK
<1>7. ASSUME NEW t \in Tools \ trusted PROVE Kept(t)'
  BY <1>2, <1>3, <1>4, <1>5, <1>7 DEF IInv, Kept, Copying, BackingUp
<1> QED  BY <1>1, <1>2, <1>3, <1>4, <1>6, <1>7 DEF IInv, Copying
-----------------------------------------------------------------------------
(***************************************************************************)
(* A copy over a tool, whose original is in its backup: Install(u) goes    *)
(* over u, Restore(u) over CC, whichever tool u is.                        *)
(***************************************************************************)
LEMMA CopyOverTool ==
  ASSUME IInv, NEW r \in Runs, Copying(r), NEW u \in Tools,
         StepOf(r) \in {Install(u), Restore(u)}
  PROVE  /\ \E v \in Tools : /\ StepOf(r).target = Bin(v)
                             /\ v \notin trusted => file[Bak(v)] = Original(v)
         /\ \A t \in Tools : StepOf(r) # BackUp(t)
<1>1. Busy(r) /\ TypeOK /\ \A t \in Tools \ trusted : Kept(t)
  BY DEF IInv
<1>2. CASE StepOf(r) = Install(u)
  <2>1. Passed(r, u) /\ StepOf(r).target = Bin(u)
    BY <1>1, <1>2, StepFacts, StepsFacts
  <2> QED  BY <1>1, <1>2, <2>1, StepsFacts DEF Kept
<1>3. CASE StepOf(r) = Restore(u)
  BY <1>1, <1>3, StepsFacts DEF Kept
<1> QED  BY <1>2, <1>3

LEMMA CopyBeginsStep ==
  ASSUME IInv, NEW r \in Runs, CopyBegins(r)
  PROVE  IInv'
<1>1. /\ Busy(r) /\ at[r] = "open" /\ Copying(r) /\ TypeOK /\ UNCHANGED <<command, n>>
      /\ file' = [file EXCEPT ![StepOf(r).target] = Torn]
      /\ trusted' = trusted \cup IF StepOf(r).condition = "no backup" /\ Exists(StepOf(r).target)
                                 THEN {StepOf(r).target[2]} ELSE {}
      /\ at' = [at EXCEPT ![r] = "copy"] /\ UNCHANGED history
  BY DEF CopyBegins, Copying, Within, IInv
<1>2. PICK u \in Tools : StepOf(r) \in {BackUp(u), Install(u), Restore(u)}
  BY <1>1, CopyFacts
<1>3. /\ at' \in [Runs -> {"test", "open", "copy"}]
      /\ at'[r] = "copy" /\ \A s \in Runs \ {r} : at'[s] = at[s]
  BY <1>1 DEF TypeOK
<1>4. \A s \in Runs : /\ StepOf(s)' = StepOf(s) /\ (Busy(s)' <=> Busy(s))
                      /\ \A t \in Tools : Passed(s, t)' <=> Passed(s, t)
  BY <1>1, StepStays
<1>5. /\ \A s \in Runs : Copying(s)' => Copying(s)
      /\ \A s \in Runs \ {r}, t \in Tools : BackingUp(s, t)' <=> BackingUp(s, t)
      /\ \A t \in Tools : BackingUp(r, t)' => StepOf(r) = BackUp(t)
  BY <1>1, <1>3, <1>4 DEF Copying, BackingUp
<1>6. /\ file' \in [Files -> Contents]
      /\ \A t \in Tools : file'[Built(t)] = file[Built(t)]
      /\ trusted' \subseteq Tools
  <2>1. PICK f \in {Bin(t) : t \in Tools} \cup {Bak(t) : t \in Tools} : StepOf(r).target = f
    BY ZenonT(40), <1>2, StepsFacts
  <2>2. StepOf(r).condition = "no backup" => StepOf(r).target[2] \in Tools
    <3>1. CASE StepOf(r) = BackUp(u)
      <4>1. StepOf(r).target = Bak(u)
        BY <3>1, StepsFacts
      <4>2. Bak(u)[2] = u
        BY FileFacts
      <4> QED  BY <4>1, <4>2
    <3>2. CASE StepOf(r) = Install(u)
      BY <3>2, StepsFacts
    <3>3. CASE StepOf(r) = Restore(u)
      BY <3>3, StepsFacts
    <3> QED  BY <1>2, <3>1, <3>2, <3>3
  <2>3. file' = [file EXCEPT ![f] = Torn] /\ f \in Files
    <3>1. f \in Files
      BY FileFacts
    <3> QED  BY <1>1, <2>1, <3>1
  <2>4. trusted' \subseteq Tools
    BY <1>1, <2>2 DEF TypeOK
  <2>5. \A t \in Tools : f # Built(t)
    BY <2>1, FileFacts
  <2>6. file' \in [Files -> Contents]
    BY <1>1, <2>3, ContentFacts DEF TypeOK
  <2> QED  BY <1>1, <2>3, <2>4, <2>5, <2>6, FileFacts DEF TypeOK
<1>7. TypeOK'
  BY <1>1, <1>3, <1>6 DEF TypeOK, Busy, history
<1>8. ASSUME NEW t \in Tools \ trusted' PROVE Kept(t)'
  <2>1. Kept(t) /\ t \notin trusted
    BY <1>1, <1>8 DEF IInv
  <2>2. CASE StepOf(r) \in {Install(u), Restore(u)}
    <3>1. PICK v \in Tools : /\ StepOf(r).target = Bin(v)
                             /\ v \notin trusted => file[Bak(v)] = Original(v)
      BY <1>1, <2>2, CopyOverTool
    <3>2. \A w \in Tools : /\ StepOf(r) # BackUp(w) /\ file'[Bak(w)] = file[Bak(w)]
                           /\ w # v => file'[Bin(w)] = file[Bin(w)]
      <4>1. file' = [file EXCEPT ![Bin(v)] = Torn] /\ file \in [Files -> Contents]
        BY <1>1, <3>1 DEF TypeOK
      <4>2. \A w \in Tools : StepOf(r) # BackUp(w)
        BY <1>1, <2>2, CopyOverTool
      <4> QED  BY <4>1, <4>2, FileFacts
    <3>3. t = v => file[Bak(t)] = Original(t)
      BY <2>1, <3>1
    <3>4. /\ \/ file'[Bak(t)] = Original(t)
             \/ file'[Bak(t)] \in {Absent, Torn} /\ file'[Bin(t)] = Original(t)
      BY <2>1, <3>2, <3>3 DEF Kept
    <3>5. \A s \in Runs : BackingUp(s, t)' => BackingUp(s, t)
      BY <1>5, <3>2
    <3>6. t = CC /\ file'[Bak(CXX)] # Absent => file'[Bak(CC)] = Original(CC)
      BY <2>1, <3>2 DEF Kept
    <3>7. \A s \in Runs : BackingUp(s, t)' =>
            file'[Bak(t)] = Torn /\ \A q \in Runs : BackingUp(q, t)' => q = s
      BY <2>1, <3>2, <3>5 DEF Kept
    <3>8. \A s \in Runs : Passed(s, t)' => file'[Bak(t)] = Original(t)
      BY <1>4, <2>1, <3>2 DEF Kept
    <3>9. \A s \in Runs : Copying(s)' /\ StepOf(s)'.condition = "backup"
              /\ StepOf(s)'.target = Bin(t) => file'[Bak(t)] = Original(t)
      BY <1>4, <1>5, <2>1, <3>2 DEF Kept
    <3> QED  BY <3>4, <3>6, <3>7, <3>8, <3>9 DEF Kept
  <2>3. CASE StepOf(r) = BackUp(u)
    <3>1. /\ StepOf(r).target = Bak(u) /\ StepOf(r).condition = "no backup"
          /\ command[r] \in {"backup", "build"} /\ n[r] = Place(u)
      BY ZenonT(40), <1>1, <2>3, StepFacts, StepsFacts
    <3>2. /\ file'[Bak(u)] = Torn
          /\ \A w \in Tools : /\ file'[Bin(w)] = file[Bin(w)]
                              /\ w # u => file'[Bak(w)] = file[Bak(w)]
      <4>1. file' = [file EXCEPT ![Bak(u)] = Torn] /\ file \in [Files -> Contents]
        BY <1>1, <3>1 DEF TypeOK
      <4> QED  BY <4>1, FileFacts
    <3>3. t = u => file[Bak(u)] = Absent
      BY <1>1, <1>8, <3>1, FileFacts DEF Exists
    <3>4. CASE t = u
      <4>1. file[Bin(t)] = Original(t) /\ file[Bak(t)] = Absent
        BY <2>1, <3>3, <3>4, ContentFacts DEF Kept
      <4>2. \A s \in Runs : /\ ~Passed(s, t) /\ ~BackingUp(s, t)
                            /\ ~(/\ Copying(s) /\ StepOf(s).condition = "backup"
                                 /\ StepOf(s).target = Bin(t))
        BY <2>1, <4>1, ContentFacts DEF Kept
      <4>3. t = CC => file[Bak(CXX)] = Absent
        BY <2>1, <4>1, ContentFacts DEF Kept
      <4>4. t = CC => file'[Bak(CXX)] = Absent
        BY <3>2, <3>4, <4>3
      <4> QED
        BY ZenonT(40), <1>3, <1>4, <2>3, <3>1, <3>2, <3>4, <4>1, <4>2, <4>4
          DEF Kept, Copying, BackingUp
    <3>5. CASE t # u
      <4>1. ~BackingUp(r, t)'
        BY <1>4, <2>3, <3>5, BackUpsDiffer DEF BackingUp
      <4>2. t = CC => file[Bak(CC)] = Original(CC)
        <5>1. ASSUME t = CC PROVE Passed(r, CC)
          <6>1. Place(u) = 2 /\ Place(CC) = 1
            BY <3>5, <5>1 DEF Place
          <6>2. n[r] = 2 /\ command[r] \in {"backup", "build"}
            BY <3>1, <6>1
          <6> QED  BY <6>1, <6>2 DEF Passed
        <5> QED  BY <2>1, <5>1 DEF Kept
      <4>3. file'[Bak(t)] = file[Bak(t)] /\ file'[Bin(t)] = file[Bin(t)]
        BY <3>2, <3>5
      <4>4. t = CC /\ file'[Bak(CXX)] # Absent => file'[Bak(CC)] = Original(CC)
        BY <4>2, <4>3
      <4>5. \A s \in Runs : BackingUp(s, t)' =>
              file'[Bak(t)] = Torn /\ \A q \in Runs : BackingUp(q, t)' => q = s
        BY <1>5, <2>1, <4>1, <4>3 DEF Kept
      <4>6. \A s \in Runs : Passed(s, t)' => file'[Bak(t)] = Original(t)
        BY <1>4, <2>1, <4>3 DEF Kept
      <4>7. \A s \in Runs : Copying(s)' /\ StepOf(s)'.condition = "backup"
                /\ StepOf(s)'.target = Bin(t) => file'[Bak(t)] = Original(t)
        BY <1>4, <1>5, <2>1, <4>3 DEF Kept
      <4>8. /\ \/ file'[Bak(t)] = Original(t)
               \/ file'[Bak(t)] \in {Absent, Torn} /\ file'[Bin(t)] = Original(t)
        BY <2>1, <4>3 DEF Kept
      <4> QED  BY <4>4, <4>5, <4>6, <4>7, <4>8 DEF Kept
    <3> QED  BY <3>4, <3>5
  <2> QED  BY <1>2, <2>2, <2>3
<1>9. StepOf(r).condition # "make" /\ \A s \in Runs : Copying(s) => Busy(s) /\ StepOf(s).condition # "make"
  BY <1>1 DEF IInv
<1> QED  BY <1>1, <1>3, <1>4, <1>6, <1>7, <1>8, <1>9 DEF IInv, Copying

LEMMA CopyEndsStep ==
  ASSUME IInv, NEW r \in Runs, CopyEnds(r)
  PROVE  IInv'
<1>1. /\ Busy(r) /\ at[r] = "copy" /\ Copying(r) /\ TypeOK /\ UNCHANGED <<trusted, history>> /\ Proceed(r)
      /\ file' = [file EXCEPT ![StepOf(r).target] = file[StepOf(r).source]]
  BY DEF CopyEnds, Copying, IInv
<1>2. PICK u \in Tools : StepOf(r) \in {BackUp(u), Install(u), Restore(u)}
  BY <1>1, CopyFacts
<1>3. /\ at'[r] = "test" /\ ~Copying(r)' /\ \A t \in Tools : ~BackingUp(r, t)'
      /\ \A t \in Tools : Passed(r, t)' => Passed(r, t) \/ StepOf(r) = BackUp(t)
      /\ \A s \in Runs \ {r} :
           command'[s] = command[s] /\ n'[s] = n[s] /\ at'[s] = at[s]
  BY <1>1, ProceedFacts DEF Copying, BackingUp
<1>4. \A s \in Runs \ {r} : /\ StepOf(s)' = StepOf(s) /\ (Busy(s)' <=> Busy(s))
                            /\ \A t \in Tools : Passed(s, t)' <=> Passed(s, t)
  BY <1>3, StepStays
<1>5. /\ file' \in [Files -> Contents]
      /\ \A t \in Tools : file'[Built(t)] = file[Built(t)]
  <2>1. PICK f \in {Bin(t) : t \in Tools} \cup {Bak(t) : t \in Tools} : StepOf(r).target = f
    BY ZenonT(40), <1>2, StepsFacts
  <2>2. StepOf(r).source \in {Bin(u), Built(u), Bak(u)}
    <3>1. CASE StepOf(r) = BackUp(u)
      BY <3>1, StepsFacts
    <3>2. CASE StepOf(r) = Install(u)
      BY <3>2, StepsFacts
    <3>3. CASE StepOf(r) = Restore(u)
      BY <3>3, StepsFacts
    <3> QED  BY <1>2, <3>1, <3>2, <3>3
  <2>3. PICK g \in Files : StepOf(r).source = g
    BY <2>2, FileFacts
  <2>4. file' = [file EXCEPT ![f] = file[g]] /\ f \in Files /\ file \in [Files -> Contents]
    BY <1>1, <2>1, <2>3, FileFacts DEF TypeOK
  <2>5. \A t \in Tools : f # Built(t)
    BY <2>1, FileFacts
  <2> QED  BY <2>4, <2>5, FileFacts
<1>6. TypeOK'
  BY <1>1, <1>5, ProceedFacts DEF TypeOK, history
<1>7. ASSUME NEW t \in Tools \ trusted PROVE Kept(t)'
  <2>1. Kept(t)
    BY <1>7 DEF IInv
  <2>2. CASE StepOf(r) \in {Install(u), Restore(u)}
    <3>1. PICK v \in Tools : /\ StepOf(r).target = Bin(v)
                             /\ v \notin trusted => file[Bak(v)] = Original(v)
      BY <1>1, <2>2, CopyOverTool
    <3>2. \A w \in Tools : /\ StepOf(r) # BackUp(w) /\ file'[Bak(w)] = file[Bak(w)]
                           /\ w # v => file'[Bin(w)] = file[Bin(w)]
      <4>1. /\ file' = [file EXCEPT ![Bin(v)] = file[StepOf(r).source]]
            /\ file \in [Files -> Contents]
        BY <1>1, <3>1 DEF TypeOK
      <4>2. \A w \in Tools : StepOf(r) # BackUp(w)
        BY <1>1, <2>2, CopyOverTool
      <4> QED  BY <4>1, <4>2, FileFacts
    <3>3. \/ file'[Bak(t)] = Original(t)
          \/ file'[Bak(t)] \in {Absent, Torn} /\ file'[Bin(t)] = Original(t)
      BY <1>7, <2>1, <3>1, <3>2 DEF Kept
    <3> QED  BY <1>3, <1>4, <2>1, <3>2, <3>3 DEF Kept, Copying, BackingUp
  <2>3. CASE StepOf(r) = BackUp(u)
    <3>1. /\ StepOf(r).target = Bak(u) /\ StepOf(r).source = Bin(u)
          /\ command[r] \in {"backup", "build"} /\ n[r] = Place(u)
      BY <1>1, <2>3, StepFacts, StepsFacts
    <3>2. /\ file'[Bak(u)] = file[Bin(u)]
          /\ \A w \in Tools : /\ file'[Bin(w)] = file[Bin(w)]
                              /\ w # u => file'[Bak(w)] = file[Bak(w)]
      BY <1>1, <3>1, FileFacts DEF TypeOK
    <3>3. CASE t = u
      <4>1. BackingUp(r, t)
        BY <1>1, <2>3, <3>3 DEF BackingUp
      <4>2. file[Bak(t)] = Torn
        BY <2>1, <4>1 DEF Kept
      <4>3. file'[Bak(t)] = Original(t)
        BY <2>1, <3>2, <3>3, <4>2, ContentFacts DEF Kept
      <4>4. \A s \in Runs \ {r} : ~BackingUp(s, t)
        BY <2>1, <4>1 DEF Kept
      <4>5. \A s \in Runs : ~BackingUp(s, t)'
        BY <1>3, <1>4, <4>4 DEF BackingUp
      <4> QED  BY <3>3, <4>3, <4>5 DEF Kept
    <3>4. CASE t # u
      <4>1. t = CC => file[Bak(CC)] = Original(CC)
        <5>1. t = CC => Passed(r, CC)
          BY <3>1, <3>4 DEF Passed, Place
        <5> QED  BY <2>1, <5>1 DEF Kept
      <4>2. StepOf(r) # BackUp(t)
        BY <2>3, <3>4, BackUpsDiffer
      <4> QED
        BY <1>3, <1>4, <2>1, <3>2, <3>4, <4>1, <4>2 DEF Kept, Copying, BackingUp
    <3> QED  BY <3>3, <3>4
  <2> QED  BY <1>2, <2>2, <2>3
<1> QED  BY <1>1, <1>3, <1>4, <1>5, <1>6, <1>7 DEF IInv, Copying

LEMMA NextIInv == IInv /\ [Next]_vars => IInv'
<1> SUFFICES ASSUME IInv, [Next]_vars PROVE IInv'
  OBVIOUS
<1>1. CASE UNCHANGED vars
  BY <1>1 DEF vars, history, IInv, TypeOK, Copying, Busy, StepOf, Kept, Passed, BackingUp
<1>2. ASSUME NEW r \in Runs,
             Start(r) \/ Test(r) \/ CopyBegins(r) \/ CopyEnds(r) \/ MakeEnds(r) \/ Stop(r)
      PROVE  IInv'
  BY <1>2, StartStep, TestStep, CopyBeginsStep, CopyEndsStep, LeaveStep
<1> QED  BY <1>1, <1>2 DEF Next
-----------------------------------------------------------------------------
(* The inductive invariant: what keeps each original. *)
THEOREM Invariance == Spec => []IInv
<1> QED  BY InitIInv, NextIInv, PTL DEF Spec

(* The variables keep their types, and each run is at a step of its command. *)
THEOREM TypeCorrect == Spec => []TypeOK
<1>1. IInv => TypeOK
  BY DEF IInv
<1> QED  BY <1>1, Invariance, PTL

(***************************************************************************)
(* However many runs of the script overlap and wherever they stop: the     *)
(* original of a compiler whose backup nobody was wrong about is whole in  *)
(* its place or in its backup.                                             *)
(***************************************************************************)
THEOREM OriginalsNeverLost == Spec => []OriginalsKept
<1>1. IInv => OriginalsKept
  BY DEF IInv, Kept, OriginalsKept
<1> QED  BY <1>1, Invariance, PTL

-----------------------------------------------------------------------------
(***************************************************************************)
(* Runs that follow each other: one at most is busy, and a backup whose cp *)
(* was not stopped is torn only while that run copies it; if it is about   *)
(* to, there is none yet.                                                  *)
(***************************************************************************)
InTurn ==
  /\ \A r, s \in Runs : Busy(r) /\ Busy(s) => r = s
  /\ \A t \in Tools \ cut :
       /\ t \notin trusted
       /\ file[Bak(t)] = Torn => \E r \in Runs : Busy(r) /\ BackingUp(r, t)
       /\ \A r \in Runs : at[r] = "open" /\ StepOf(r) = BackUp(t) => file[Bak(t)] = Absent

TurnInv == IInv /\ (~overlap => InTurn)

(* What a run that is alone finds: whole backups, or none, but for those cut. *)
LEMMA AloneFinds ==
  ASSUME TurnInv, ~overlap, NEW r \in Runs, Busy(r), NEW t \in Tools \ cut
  PROVE  /\ t \notin trusted
         /\ ~BackingUp(r, t) => file[Bak(t)] \in {Absent, Original(t)}
         /\ \A s \in Runs \ {r} : ~Busy(s) /\ at[s] = "test"
<1>1. InTurn /\ TypeOK /\ \A u \in Tools \ trusted : Kept(u)
  BY DEF TurnInv, IInv
<1>2. t \notin trusted /\ Kept(t)
  BY <1>1 DEF InTurn
<1>3. file[Bak(t)] \in {Absent, Torn, Original(t)}
  BY <1>2 DEF Kept
<1>4. file[Bak(t)] = Torn => BackingUp(r, t)
  BY <1>1 DEF InTurn
<1>5. \A s \in Runs \ {r} : ~Busy(s) /\ at[s] = "test"
  BY <1>1 DEF InTurn, TypeOK, Busy
<1> QED  BY <1>2, <1>3, <1>4, <1>5

(* What is left to show of a step of the run that is busy. *)
LEMMA TurnFrame ==
  ASSUME TurnInv, ~overlap, NEW r \in Runs, Busy(r), cut \subseteq cut',
         \A s \in Runs \ {r} : command'[s] = command[s] /\ n'[s] = n[s] /\ at'[s] = at[s],
         \A t \in Tools \ cut' :
           /\ t \notin trusted'
           /\ file'[Bak(t)] = Torn => Busy(r)' /\ BackingUp(r, t)'
           /\ at'[r] = "open" /\ StepOf(r)' = BackUp(t) => file'[Bak(t)] = Absent
  PROVE  InTurn'
<1>1. \A s \in Runs \ {r} : ~Busy(s) /\ at[s] = "test"
  BY DEF TurnInv, InTurn, IInv, TypeOK, Busy
<1>2. \A s \in Runs \ {r} : ~Busy(s)' /\ at'[s] = "test"
  BY <1>1 DEF Busy
<1>3. \A p, q \in Runs : Busy(p)' /\ Busy(q)' => p = q
  BY <1>2
<1>4. ASSUME NEW t \in Tools \ cut'
      PROVE  /\ t \notin trusted'
             /\ file'[Bak(t)] = Torn => \E s \in Runs : Busy(s)' /\ BackingUp(s, t)'
             /\ \A s \in Runs : at'[s] = "open" /\ StepOf(s)' = BackUp(t) => file'[Bak(t)] = Absent
  BY <1>2, <1>4
<1> QED  BY <1>3, <1>4 DEF InTurn

(* A run that begins when no other is busy finds what they have left. *)
LEMMA StartTurn ==
  ASSUME TurnInv, NEW r \in Runs, Start(r), ~overlap'
  PROVE  InTurn'
<1>1. /\ ~overlap /\ \A s \in Runs : ~Busy(s)
      /\ UNCHANGED <<file, n, at, trusted, cut>>
      /\ \A s \in Runs \ {r} : command'[s] = command[s]
  BY DEF Start, TurnInv, IInv, TypeOK
<1>2. InTurn /\ \A s \in Runs : at[s] = "test"
  BY <1>1 DEF TurnInv, IInv, TypeOK, Busy
<1>3. \A s \in Runs \ {r} : ~Busy(s)'
  BY <1>1 DEF Busy
<1>4. \A t \in Tools \ cut : t \notin trusted /\ file[Bak(t)] # Torn
  BY <1>1, <1>2 DEF InTurn
<1> QED  BY <1>1, <1>2, <1>3, <1>4 DEF InTurn

(* A run that is alone is right about what it tests. *)
LEMMA TestTurn ==
  ASSUME TurnInv, NEW r \in Runs, Test(r), ~overlap
  PROVE  InTurn'
<1>1. /\ Busy(r) /\ at[r] = "test" /\ UNCHANGED <<file, history>>
      /\ trusted' = trusted \cup IF Relies(StepOf(r)) THEN {BackupOf(StepOf(r))[2]} ELSE {}
      /\ TypeOK /\ StepOf(r) \in AllSteps
  BY StepFacts DEF Test, TurnInv, IInv
<1>2. /\ \A s \in Runs \ {r} : command'[s] = command[s] /\ n'[s] = n[s] /\ at'[s] = at[s]
      /\ at'[r] = "open" => Wanted(StepOf(r)) /\ StepOf(r)' = StepOf(r)
  <2>1. CASE Wanted(StepOf(r)) /\ Within(r, "open")
    BY <1>1, <2>1, StepStays DEF Within, TypeOK
  <2>2. CASE ~Wanted(StepOf(r)) /\ Proceed(r)
    BY <1>1, <2>2, ProceedFacts
  <2> QED  BY <2>1, <2>2 DEF Test
<1>3. ASSUME NEW t \in Tools \ cut
      PROVE  /\ t \notin trusted' /\ file'[Bak(t)] # Torn
             /\ at'[r] = "open" /\ StepOf(r)' = BackUp(t) => file'[Bak(t)] = Absent
  <2>1. t \notin trusted /\ file[Bak(t)] \in {Absent, Original(t)}
    BY <1>1, <1>3, AloneFinds DEF BackingUp
  <2>2. ASSUME Relies(StepOf(r)), BackupOf(StepOf(r))[2] = t  PROVE FALSE
    <3>1. StepOf(r).condition \in {"no backup", "backup"}
      BY <2>2 DEF Relies
    <3>2. PICK u \in Tools : StepOf(r) \in {BackUp(u), Restore(u)}
      BY <1>1, <3>1, StepsFacts DEF AllSteps
    <3>3. BackupOf(StepOf(r)) = Bak(u)
      <4>1. CASE StepOf(r) = BackUp(u)
        BY <4>1, StepsFacts DEF BackupOf
      <4>2. CASE StepOf(r) = Restore(u)
        BY <4>2, StepsFacts DEF BackupOf
      <4> QED  BY <3>2, <4>1, <4>2
    <3>4. u = t
      BY <2>2, <3>3, FileFacts
    <3> QED  BY <2>1, <2>2, <3>3, <3>4 DEF Relies, Exists, Bak
  <2>3. ASSUME at'[r] = "open", StepOf(r)' = BackUp(t)  PROVE file[Bak(t)] = Absent
    <3>1. Wanted(StepOf(r)) /\ StepOf(r) = BackUp(t)
      BY <1>2, <2>3 DEF BackUp, Step, Bin, Bak
    <3> QED  BY <3>1, StepsFacts DEF Wanted, Exists
  <2> QED  BY <1>1, <2>1, <2>2, <2>3, ContentFacts
<1> QED  BY <1>1, <1>2, <1>3, TurnFrame DEF history

(* It has found no backup when it begins one. *)
LEMMA CopyBeginsTurn ==
  ASSUME TurnInv, NEW r \in Runs, CopyBegins(r), ~overlap
  PROVE  InTurn'
<1>1. /\ Busy(r) /\ at[r] = "open" /\ Copying(r) /\ TypeOK /\ InTurn
      /\ UNCHANGED <<command, n, history>> /\ at' = [at EXCEPT ![r] = "copy"]
      /\ file' = [file EXCEPT ![StepOf(r).target] = Torn]
      /\ trusted' = trusted \cup IF StepOf(r).condition = "no backup" /\ Exists(StepOf(r).target)
                                 THEN {StepOf(r).target[2]} ELSE {}
  BY DEF CopyBegins, Copying, Within, TurnInv, IInv
<1>2. PICK u \in Tools : StepOf(r) \in {BackUp(u), Install(u), Restore(u)}
  BY <1>1, CopyFacts DEF TurnInv
<1>3. /\ at'[r] = "copy" /\ \A s \in Runs \ {r} : at'[s] = at[s]
      /\ Busy(r)' /\ StepOf(r)' = StepOf(r)
  BY <1>1, StepStays DEF TypeOK
<1>4. ASSUME NEW t \in Tools \ cut
      PROVE  t \notin trusted' /\ (file'[Bak(t)] = Torn => BackingUp(r, t)')
  <2>1. t \notin trusted /\ file[Bak(t)] \in {Absent, Original(t)}
    BY <1>1, <1>4, AloneFinds DEF BackingUp
  <2>2. file[Bak(t)] # Torn
    BY <2>1, ContentFacts
  <2>3. CASE StepOf(r) = BackUp(u)
    <3>1. StepOf(r).target = Bak(u) /\ Bak(u)[2] = u
      BY <2>3, StepsFacts, FileFacts
    <3>2. CASE u = t
      <4>1. file[Bak(u)] = Absent
        BY <1>1, <1>4, <2>3, <3>2 DEF InTurn
      <4>2. trusted' = trusted
        BY <1>1, <3>1, <4>1 DEF Exists
      <4>3. BackingUp(r, t)'
        BY <1>3, <2>3, <3>2 DEF BackingUp, BackUp, Step, Bin, Bak
      <4> QED  BY <2>1, <4>2, <4>3
    <3>3. CASE u # t
      <4>1. file'[Bak(t)] = file[Bak(t)]
        BY <1>1, <3>1, <3>3, FileFacts DEF TypeOK
      <4>2. t \notin trusted'
        BY <1>1, <2>1, <3>1, <3>3
      <4> QED  BY <2>2, <4>1, <4>2
    <3> QED  BY <3>2, <3>3
  <2>4. CASE StepOf(r) \in {Install(u), Restore(u)}
    <3>1. StepOf(r).condition # "no backup"
      <4>1. CASE StepOf(r) = Install(u)
        BY <4>1, StepsFacts
      <4>2. CASE StepOf(r) = Restore(u)
        BY <4>2, StepsFacts
      <4> QED  BY <2>4, <4>1, <4>2
    <3>2. PICK v \in Tools : StepOf(r).target = Bin(v)
      BY <1>1, <2>4, CopyOverTool DEF TurnInv
    <3>3. file'[Bak(t)] = file[Bak(t)]
      BY <1>1, <3>2, FileFacts DEF TypeOK
    <3> QED  BY <1>1, <2>1, <2>2, <3>1, <3>3
  <2> QED  BY <1>2, <2>3, <2>4
<1> QED  BY <1>1, <1>3, <1>4, TurnFrame DEF history

(* It copies the original when it makes a backup. *)
LEMMA CopyEndsTurn ==
  ASSUME TurnInv, NEW r \in Runs, CopyEnds(r), ~overlap
  PROVE  InTurn'
<1>1. /\ Busy(r) /\ at[r] = "copy" /\ Copying(r) /\ TypeOK /\ InTurn
      /\ UNCHANGED <<trusted, history>> /\ Proceed(r)
      /\ file' = [file EXCEPT ![StepOf(r).target] = file[StepOf(r).source]]
  BY DEF CopyEnds, Copying, TurnInv, IInv
<1>2. PICK u \in Tools : StepOf(r) \in {BackUp(u), Install(u), Restore(u)}
  BY <1>1, CopyFacts DEF TurnInv
<1>3. /\ at'[r] = "test"
      /\ \A s \in Runs \ {r} : command'[s] = command[s] /\ n'[s] = n[s] /\ at'[s] = at[s]
  BY <1>1, ProceedFacts
<1>4. ASSUME NEW t \in Tools \ cut
      PROVE  t \notin trusted /\ file'[Bak(t)] # Torn
  <2>1. t \notin trusted /\ Kept(t) /\ (~BackingUp(r, t) => file[Bak(t)] # Torn)
    BY <1>1, <1>4, AloneFinds, ContentFacts DEF TurnInv, IInv
  <2>2. CASE StepOf(r) = BackUp(t)
    <3>1. BackingUp(r, t) /\ StepOf(r).target = Bak(t) /\ StepOf(r).source = Bin(t)
      BY <1>1, <2>2, StepsFacts DEF BackingUp
    <3>2. file[Bin(t)] = Original(t)
      BY <2>1, <3>1, ContentFacts DEF Kept
    <3>3. file'[Bak(t)] = Original(t)
      BY <1>1, <3>1, <3>2, FileFacts DEF TypeOK
    <3> QED  BY <2>1, <3>3, ContentFacts
  <2>3. CASE StepOf(r) # BackUp(t)
    <3>1. file[Bak(t)] # Torn
      BY <2>1, <2>3 DEF BackingUp
    <3>2. PICK f : StepOf(r).target = f /\ f # Bak(t)
      <4>1. CASE StepOf(r) = BackUp(u)
        <5>1. StepOf(r).target = Bak(u) /\ u # t
          BY <2>3, <4>1, StepsFacts
        <5> QED  BY <5>1, FileFacts
      <4>2. CASE StepOf(r) \in {Install(u), Restore(u)}
        <5>1. \E v \in Tools : StepOf(r).target = Bin(v)
          BY <1>1, <4>2, CopyOverTool DEF TurnInv
        <5> QED  BY <5>1, FileFacts
      <4> QED  BY <1>2, <4>1, <4>2
    <3>3. file'[Bak(t)] = file[Bak(t)]
      BY <1>1, <3>2, FileFacts DEF TypeOK
    <3> QED  BY <2>1, <3>1, <3>3
  <2> QED  BY <2>2, <2>3
<1> QED  BY <1>1, <1>3, <1>4, TurnFrame DEF history

(* A run that stops leaves a torn backup only if that is cut from now on. *)
LEMMA LeaveTurn ==
  ASSUME TurnInv, NEW r \in Runs, Stop(r) \/ MakeEnds(r), ~overlap
  PROVE  InTurn'
<1>1. /\ Busy(r) /\ (Proceed(r) \/ Over(r)) /\ UNCHANGED trusted /\ TypeOK
      /\ cut \subseteq cut'
      /\ \A t \in Tools : BackingUp(r, t) => t \in cut'
  <2>1. CASE Stop(r)
    BY <2>1 DEF Stop, TurnInv, IInv, BackingUp
  <2>2. CASE MakeEnds(r)
    BY <2>2, StepsFacts DEF MakeEnds, TurnInv, IInv, BackingUp, history
  <2> QED  BY <2>1, <2>2
<1>2. \A t \in Tools : file'[Bak(t)] = file[Bak(t)]
  <2>1. CASE MakeEnds(r)
    BY <2>1, FileFacts DEF MakeEnds, Bak
  <2> QED  BY <2>1 DEF Stop
<1>3. /\ at'[r] = "test"
      /\ \A s \in Runs \ {r} : command'[s] = command[s] /\ n'[s] = n[s] /\ at'[s] = at[s]
  BY <1>1, ProceedFacts
<1>4. ASSUME NEW t \in Tools \ cut'
      PROVE  t \notin trusted /\ file'[Bak(t)] # Torn
  BY <1>1, <1>2, <1>4, AloneFinds, ContentFacts
<1> QED  BY <1>1, <1>3, <1>4, TurnFrame

LEMMA NextTurnInv == TurnInv /\ [Next]_vars => TurnInv'
<1> SUFFICES ASSUME TurnInv, [Next]_vars PROVE TurnInv'
  OBVIOUS
<1>1. IInv'
  BY NextIInv DEF TurnInv
<1>2. ASSUME ~overlap'  PROVE InTurn'
  <2>1. CASE UNCHANGED vars
    <3>1. InTurn
      BY <1>2, <2>1 DEF vars, history, TurnInv
    <3> QED  BY <2>1, <3>1 DEF vars, history, InTurn, Busy, BackingUp, StepOf
  <2>2. ASSUME NEW r \in Runs, Test(r) \/ CopyBegins(r) \/ CopyEnds(r) \/ MakeEnds(r) \/ Stop(r)
        PROVE  InTurn'
    <3>1. ~overlap
      BY <1>2, <2>2 DEF Test, CopyBegins, CopyEnds, MakeEnds, Stop, history
    <3> QED  BY <2>2, <3>1, TestTurn, CopyBeginsTurn, CopyEndsTurn, LeaveTurn
  <2> QED  BY <1>2, <2>1, <2>2, StartTurn DEF Next
<1> QED  BY <1>1, <1>2 DEF TurnInv

(***************************************************************************)
(* However often the script is run, one run after the other, and wherever  *)
(* its runs fail or are stopped: only a backup whose own cp was stopped is *)
(* ever taken wrongly for the original.                                    *)
(***************************************************************************)
THEOREM WrongBackupsWereCut == Spec => []WrongOnlyIfCut
<1>1. Init => TurnInv
  <2> SUFFICES ASSUME Init PROVE TurnInv
    OBVIOUS
  <2>1. /\ \A r \in Runs : ~Busy(r) /\ at[r] = "test"
        /\ \A t \in Tools : t \notin trusted /\ file[Bak(t)] # Torn
    BY FileFacts, ContentFacts DEF Init, Busy, Bak
  <2>2. InTurn
    BY <2>1 DEF InTurn
  <2> QED  BY <2>2, InitIInv DEF TurnInv
<1>2. TurnInv => WrongOnlyIfCut
  BY DEF TurnInv, IInv, TypeOK, InTurn, WrongOnlyIfCut
<1> QED  BY <1>1, <1>2, NextTurnInv, PTL DEF Spec
=============================================================================
