--------------------------- MODULE WrapperProofs ----------------------------
(***************************************************************************)
(* Proofs about Wrapper, for any build, tool and faults.                   *)
(***************************************************************************)
EXTENDS Wrapper, TLAPS

USE JobsAssumption, FilesAssumption, ToolAssumption

(* The types of the variables, and what a job in its loop is at. *)
Types ==
  /\ disk \in [Files -> File]
  /\ pc \in [Jobs -> Stages]
  /\ inputs \in [Jobs -> Seq(Files)]
  /\ link \in [Jobs -> BOOLEAN]
  /\ idx \in [Jobs -> Nat \ {0}]
  /\ module \in [Jobs -> SUBSET Unit]
  /\ status \in [Jobs -> 0 .. 255]
  /\ blame \in [Jobs -> SUBSET (Stages \X Faults)]

(* Every turn of the loop to come is at an input that is still a source. *)
Ahead(j) == \A i \in idx[j] .. Len(inputs[j]) : inputs[j][i] \in Sources

InLoop == {"generate", "pass", "open", "print"}

LoopOK(j) ==
  /\ pc[j] \in {"idle", "declaration", "runtime"} => idx[j] = 1
  /\ pc[j] \in {"declaration", "runtime"} \cup InLoop => Ahead(j)
  /\ pc[j] \in InLoop => idx[j] \in 1 .. Len(inputs[j])

IInv == Types /\ \A j \in Jobs : LoopOK(j)

LEMMA IInvImpliesTypeOK == IInv => TypeOK
<1> SUFFICES ASSUME IInv, NEW j \in Jobs, pc[j] \in InLoop
             PROVE  idx[j] \in DOMAIN inputs[j] /\ inputs[j][idx[j]] \in Sources
  BY DEF IInv, Types, TypeOK, InLoop
<1>1. inputs[j] \in Seq(Files) /\ idx[j] \in 1 .. Len(inputs[j]) /\ Ahead(j)
  BY DEF IInv, Types, LoopOK
<1>2. idx[j] \in idx[j] .. Len(inputs[j])  BY <1>1
<1> QED  BY <1>1, <1>2 DEF Ahead
-----------------------------------------------------------------------------
(***************************************************************************)
(* The types of what the actions put into the variables.                   *)
(***************************************************************************)
Makers == Jobs \cup {Earlier}
Named == Sources \cup {DeclarationLl, RuntimeO}

LEMMA FileTypes ==
  ASSUME NEW u \in SUBSET Unit, NEW w \in SUBSET Jobs
  PROVE  Absent \in File /\ Whole(u) \in File /\ Torn(w) \in File /\ Mixed(w) \in File
BY DEF Absent, Whole, Torn, Mixed, File

LEMMA MadeType ==
  ASSUME NEW s \in Named, NEW j \in Makers
  PROVE  Made(s, j) \subseteq Unit
BY DEF Made, Unit, Named, Makers

LEMMA HookedType ==
  ASSUME NEW u \in SUBSET Unit
  PROVE  Hooked(u) \subseteq Unit
<1> SUFFICES ASSUME NEW x \in u PROVE [x EXCEPT !.hooks = @ + 1] \in Unit
  BY DEF Hooked
<1>1. x \in Unit  OBVIOUS
<1> QED  BY <1>1 DEF Unit

LEMMA CmdTypes ==
  ASSUME NEW j \in Jobs
  PROVE  /\ Cmd[j].inputs \in Seq(Sources) /\ Cmd[j].inputs \in Seq(Files)
         /\ Cmd[j].objects \in Seq(Files)
         /\ Cmd[j].out \in Files /\ Cmd[j].link \in BOOLEAN
<1>1. Cmd[j] \in CmdType  OBVIOUS
<1> QED  BY <1>1 DEF CmdType

LEMMA EarlierUnitsType ==
  ASSUME NEW f \in Files
  PROVE  EarlierUnits(f) \subseteq Unit
<1> DEFINE compiled == {s \in Sources : Ll[s] = f}
<1> DEFINE built == UNION {{Cmd[j].inputs[i] : i \in DOMAIN Cmd[j].inputs} :
                             j \in {k \in Jobs : Cmd[k].out = f}}
<1>1. built \subseteq Sources
  <2> SUFFICES ASSUME NEW j \in Jobs, NEW i \in DOMAIN Cmd[j].inputs
               PROVE  Cmd[j].inputs[i] \in Sources
    OBVIOUS
  <2> QED  BY CmdTypes
<1>2. {[src |-> s, by |-> Earlier, hooks |-> IF Hooking THEN 1 ELSE 0] :
         s \in compiled \cup built} \subseteq Unit
  BY <1>1 DEF Unit
<1>3. f \in {DeclarationLl, RuntimeO} => Made(f, Earlier) \subseteq Unit
  BY MadeType DEF Named, Makers
<1> QED  BY <1>2, <1>3 DEF EarlierUnits

LEMMA LeftoverType ==
  ASSUME NEW f \in Files, NEW kind \in Leftovers
  PROVE  Leftover(kind, f) \in File
<1>1. kind \in {"absent", "torn", "earlier"}  OBVIOUS
<1>2. Absent \in File /\ Torn({}) \in File /\ Whole(EarlierUnits(f)) \in File
  BY EarlierUnitsType, FileTypes
<1>3. f \in Sources => Whole(Made(f, Earlier)) \in File
  BY MadeType, FileTypes DEF Named, Makers
<1>4. f \in Piped \/ f \in Sources \ Piped \/ f \notin Sources  OBVIOUS
<1> QED  BY <1>1, <1>2, <1>3, <1>4 DEF Leftover

LEMMA ExitByteType == \A code \in Int : ExitByte(code) \in 0 .. 255
BY DEF ExitByte

(* What a run of the compiler does to the disk. *)
LEMMA ExecForkType ==
  ASSUME Types, NEW j \in Jobs, NEW f \in Files, NEW made \in File, NEW code,
         ExecFork(j, f, made, code)
  PROVE  /\ disk' \in [Files -> File]
         /\ blame' \in [Jobs -> SUBSET (Stages \X Faults)]
<1>1. PICK fate \in Fates :
        /\ \E new \in Outcomes(fate, disk[f], made) : disk' = [disk EXCEPT ![f] = new]
        /\ Blame(j, IF fate = "succeeds" \/ (fate = "fails" /\ made = Absent)
                    THEN {} ELSE {fate})
  BY DEF ExecFork
<1>2. fate \in AllFates  OBVIOUS
<1>3. Absent \in File  BY FileTypes
<1>4. \A new \in Outcomes(fate, disk[f], made) : new \in File
  BY <1>2, <1>3 DEF Outcomes, AllFates, Types
<1>5. fate \in Faults  BY <1>2 DEF Faults
<1> QED  BY <1>1, <1>4, <1>5 DEF Blame, Types

LEMMA CommandFilesType ==
  ASSUME Types, NEW j \in Jobs
  PROVE  CommandFiles(j) \in Seq(Files)
<1>1. Cmd[j].objects \in Seq(Files) /\ Cmd[j].inputs \in Seq(Files) /\ inputs[j] \in Seq(Files)
  BY CmdTypes DEF Types
<1>2. SubSeq(Cmd[j].inputs, Len(inputs[j]) + 1, Len(Cmd[j].inputs)) \in Seq(Files)
  <2>1. \A i \in Len(inputs[j]) + 1 .. Len(Cmd[j].inputs) : i \in DOMAIN Cmd[j].inputs
    BY <1>1
  <2> QED  BY <1>1, <2>1
<1>3. (IF link[j] THEN <<RuntimeO>> ELSE <<>>) \in Seq(Files)
  OBVIOUS
<1> QED  BY <1>1, <1>2, <1>3 DEF CommandFiles

LEMMA ProductType ==
  ASSUME Types, NEW j \in Jobs
  PROVE  Product(j) \subseteq Unit
<1> SUFFICES ASSUME NEW i \in DOMAIN CommandFiles(j)
             PROVE  UnitsOf(j, CommandFiles(j)[i]) \subseteq Unit
  BY DEF Product
<1> DEFINE f == CommandFiles(j)[i]
<1>1. f \in Files  BY CommandFilesType
<1> HIDE DEF f
<1>2. disk[f].units \subseteq Unit  BY <1>1 DEF Types, File
<1>3. f \in Sources => Made(f, j) \subseteq Unit  BY MadeType DEF Named, Makers
<1> QED  BY <1>2, <1>3 DEF UnitsOf, f
-----------------------------------------------------------------------------
(***************************************************************************)
(* The steps.                                                              *)
(***************************************************************************)
LEMMA InitIInv == Init => IInv
<1> SUFFICES ASSUME Init PROVE IInv
  OBVIOUS
<1>1. disk \in [Files -> File]  BY LeftoverType DEF Init
<1>2. Types  BY <1>1 DEF Init, Types, Stages
<1>3. \A j \in Jobs : LoopOK(j)  BY DEF Init, LoopOK, InLoop
<1> QED  BY <1>2, <1>3 DEF IInv

(* A process that ends has no loop any more. *)
LEMMA ExitType ==
  ASSUME IInv, NEW j \in Jobs, NEW code \in Int, Exit(j, code)
  PROVE  /\ pc' \in [Jobs -> Stages] /\ status' \in [Jobs -> 0 .. 255]
         /\ pc'[j] = "done" /\ \A k \in Jobs \ {j} : pc'[k] = pc[k]
BY SMTT(30), ExitByteType DEF Exit, IInv, Types, Stages

(* What is the same for a job leaves its loop as it was. *)
LEMMA LoopFrame ==
  ASSUME NEW j, LoopOK(j), pc'[j] = pc[j], idx'[j] = idx[j], inputs'[j] = inputs[j]
  PROVE  LoopOK(j)'
BY DEF LoopOK, Ahead, InLoop

LEMMA DoneLoop ==
  ASSUME NEW j, pc'[j] = "done"
  PROVE  LoopOK(j)'
BY DEF LoopOK, InLoop

(* The loop goes on from an input that is done, or for the first time. *)
LEMMA AfterInputType ==
  ASSUME IInv, NEW j \in Jobs, NEW i \in Nat, AfterInput(j, i),
         \A m \in i + 1 .. Len(inputs[j]) : inputs'[j][m] \in Sources,
         Len(inputs'[j]) = Len(inputs[j]), inputs[j] \in Seq(Files)
  PROVE  /\ pc' \in [Jobs -> Stages] /\ idx' \in [Jobs -> Nat \ {0}]
         /\ LoopOK(j)'
         /\ \A k \in Jobs \ {j} : pc'[k] = pc[k] /\ idx'[k] = idx[k]
<1>1. pc' \in [Jobs -> Stages] /\ idx' \in [Jobs -> Nat \ {0}]
  BY DEF AfterInput, IInv, Types, Stages
<1>2. idx'[j] = i + 1 /\ pc'[j] = IF i < Len(inputs[j]) THEN "generate" ELSE "final"
  BY DEF AfterInput, IInv, Types
<1>3. Len(inputs[j]) \in Nat  OBVIOUS
<1>4. LoopOK(j)'
  BY <1>2, <1>3 DEF LoopOK, Ahead, InLoop
<1>5. \A k \in Jobs \ {j} : pc'[k] = pc[k] /\ idx'[k] = idx[k]
  BY DEF AfterInput, IInv, Types
<1> QED  BY <1>1, <1>4, <1>5

(* blame stays a set of faults and where they were met. *)
LEMMA BlameType ==
  ASSUME Types, NEW j \in Jobs, NEW faults \in SUBSET Faults, Blame(j, faults)
  PROVE  blame' \in [Jobs -> SUBSET (Stages \X Faults)]
BY DEF Blame, Types

LEMMA PhasesFailStep ==
  ASSUME IInv, NEW j \in Jobs, PhasesFail(j)
  PROVE  IInv'
<1>1. PICK fate \in Fates :
        /\ Blame(j, {fate})
        /\ \/ fate = "nofork" /\ Exit(j, Crash)
           \/ fate # "nofork" /\ \E code \in PcloseReturn(fate) : Exit(j, code)
  BY DEF PhasesFail
<1>7. fate # "nofork" => PcloseReturn(fate) \subseteq Int
  BY DEF PcloseReturn, AllFates
<1>2. PICK code \in Int : Exit(j, code)  BY <1>1, <1>7 DEF Crash
<1>3. fate \in Faults  BY DEF Faults
<1>4. UNCHANGED <<disk, inputs, link, idx, module>>  BY DEF PhasesFail
<1>5. Types'
  BY ZenonT(40), <1>1, <1>2, <1>3, <1>4, ExitType, BlameType DEF IInv, Types
<1>6. \A k \in Jobs : LoopOK(k)'
  BY <1>2, <1>4, ExitType, LoopFrame, DoneLoop DEF IInv
<1> QED  BY <1>5, <1>6 DEF IInv

LEMMA PhasesParsedStep ==
  ASSUME IInv, NEW j \in Jobs, PhasesParsed(j)
  PROVE  IInv'
<1> DEFINE given == Cmd[j].inputs
<1>1. PICK fate \in Fates, n \in 0 .. Len(given), linker \in BOOLEAN :
        \/ /\ inputs' = [inputs EXCEPT ![j] = SubSeq(given, 1, n)]
           /\ link' = [link EXCEPT ![j] = linker /\ Hooking]
           /\ pc' = [pc EXCEPT ![j] = IF Hooking THEN "declaration"
                                      ELSE IF n > 0 THEN "generate" ELSE "final"]
           /\ Blame(j, {fate} \ {"succeeds"})
           /\ UNCHANGED status
        \/ /\ Exit(j, Crash)
           /\ Blame(j, {"assertion"})
           /\ UNCHANGED <<inputs, link>>
  BY DEF PhasesParsed
<1>2. UNCHANGED <<disk, idx, module>> /\ pc[j] = "idle"  BY DEF PhasesParsed, Startable
<1>3. fate \in Faults /\ "assertion" \in Faults /\ Crash \in Int
  BY DEF Faults, Crash
<1>4. blame' \in [Jobs -> SUBSET (Stages \X Faults)]
  BY <1>1, <1>3, BlameType DEF IInv
<1>5. CASE Exit(j, Crash) /\ UNCHANGED <<inputs, link>>
  BY <1>2, <1>3, <1>4, <1>5, ExitType, LoopFrame, DoneLoop DEF IInv, Types
<1>6. CASE /\ inputs' = [inputs EXCEPT ![j] = SubSeq(given, 1, n)]
           /\ link' = [link EXCEPT ![j] = linker /\ Hooking]
           /\ pc' = [pc EXCEPT ![j] = IF Hooking THEN "declaration"
                                      ELSE IF n > 0 THEN "generate" ELSE "final"]
           /\ UNCHANGED status
  <2>1. given \in Seq(Sources)  BY CmdTypes
  <2>2. /\ SubSeq(given, 1, n) \in Seq(Sources) /\ Len(SubSeq(given, 1, n)) = n
        /\ \A i \in 1 .. n : SubSeq(given, 1, n)[i] \in Sources
    BY <2>1
  <2>3. SubSeq(given, 1, n) \in Seq(Files)  BY <2>1, <2>2
  <2>4. Types'
    BY <1>2, <1>4, <1>6, <2>3 DEF IInv, Types, Stages, Hooking
  <2>5. idx'[j] = 1 /\ inputs'[j] = SubSeq(given, 1, n)
    BY <1>2, <1>6 DEF IInv, Types, LoopOK
  <2>6. Ahead(j)'  BY <2>2, <2>5 DEF Ahead
  <2>7. pc'[j] \in {"declaration", "final"} \/ (pc'[j] = "generate" /\ n > 0)
    BY <1>6 DEF IInv, Types
  <2>8. LoopOK(j)'  BY <2>2, <2>5, <2>6, <2>7 DEF LoopOK, InLoop
  <2>9. \A k \in Jobs \ {j} : LoopOK(k)'
    BY <1>2, <1>6, LoopFrame DEF IInv, Types
  <2> QED  BY <2>4, <2>8, <2>9 DEF IInv
<1> QED  BY <1>1, <1>5, <1>6

LEMMA CodesInt == \A code \in Codes : code \in Int
BY DEF Codes

LEMMA GenerateDeclarationStep ==
  ASSUME IInv, NEW j \in Jobs, GenerateDeclaration(j)
  PROVE  IInv'
<1>1. PICK code \in Codes :
        /\ ExecFork(j, DeclarationLl, Whole(Made(DeclarationLl, j)), code)
        /\ IF code = 0 THEN pc' = [pc EXCEPT ![j] = "runtime"] /\ UNCHANGED status
                       ELSE Exit(j, Crash)
  BY DEF GenerateDeclaration
<1>2. UNCHANGED <<inputs, link, idx, module>> /\ pc[j] = "declaration"
  BY DEF GenerateDeclaration
<1>3. Whole(Made(DeclarationLl, j)) \in File
  BY MadeType, FileTypes DEF Named, Makers
<1>4. disk' \in [Files -> File] /\ blame' \in [Jobs -> SUBSET (Stages \X Faults)]
  BY <1>1, <1>3, ExecForkType DEF IInv
<1>5. CASE code = 0
  <2>1. pc' = [pc EXCEPT ![j] = "runtime"] /\ UNCHANGED status  BY <1>1, <1>5
  <2>2. Types'  BY <1>2, <1>4, <2>1 DEF IInv, Types, Stages
  <2>3. LoopOK(j)'
    BY <1>2, <2>1 DEF IInv, Types, LoopOK, Ahead, InLoop
  <2>4. \A k \in Jobs \ {j} : LoopOK(k)'  BY <1>2, <2>1, LoopFrame DEF IInv, Types
  <2> QED  BY <2>2, <2>3, <2>4 DEF IInv
<1>6. CASE code # 0
  <2>1. Exit(j, Crash) /\ Crash \in Int  BY <1>1, <1>6 DEF Crash
  <2> QED  BY <1>2, <1>4, <2>1, ExitType, LoopFrame, DoneLoop DEF IInv, Types
<1> QED  BY <1>5, <1>6

LEMMA GenerateRuntimeStep ==
  ASSUME IInv, NEW j \in Jobs, GenerateRuntime(j)
  PROVE  IInv'
<1>1. PICK code \in Codes :
        /\ ExecFork(j, RuntimeO, Whole(Made(RuntimeO, j)), code)
        /\ IF code = 0 THEN AfterInput(j, 0) /\ UNCHANGED status
                       ELSE Exit(j, Crash) /\ UNCHANGED idx
  BY DEF GenerateRuntime
<1>2. UNCHANGED <<inputs, link, module>> /\ pc[j] = "runtime"
  BY DEF GenerateRuntime
<1>3. Whole(Made(RuntimeO, j)) \in File
  BY MadeType, FileTypes DEF Named, Makers
<1>4. disk' \in [Files -> File] /\ blame' \in [Jobs -> SUBSET (Stages \X Faults)]
  BY <1>1, <1>3, ExecForkType DEF IInv
<1>5. CASE code = 0
  <2>1. AfterInput(j, 0) /\ UNCHANGED status  BY <1>1, <1>5
  <2>2. \A m \in 0 + 1 .. Len(inputs[j]) : inputs'[j][m] \in Sources
    BY <1>2 DEF IInv, LoopOK, Ahead
  <2>3. /\ pc' \in [Jobs -> Stages] /\ idx' \in [Jobs -> Nat \ {0}] /\ LoopOK(j)'
        /\ \A k \in Jobs \ {j} : pc'[k] = pc[k] /\ idx'[k] = idx[k]
    BY <1>2, <2>1, <2>2, AfterInputType DEF IInv, Types
  <2> QED  BY <1>2, <1>4, <2>1, <2>3, LoopFrame DEF IInv, Types
<1>6. CASE code # 0
  <2>1. Exit(j, Crash) /\ Crash \in Int /\ UNCHANGED idx  BY <1>1, <1>6 DEF Crash
  <2> QED  BY <1>2, <1>4, <2>1, ExitType, LoopFrame, DoneLoop DEF IInv, Types
<1> QED  BY <1>5, <1>6

(* The input that a job in its loop is at. *)
LEMMA AtInput ==
  ASSUME IInv, NEW j \in Jobs, pc[j] \in InLoop
  PROVE  /\ inputs[j] \in Seq(Files) /\ idx[j] \in 1 .. Len(inputs[j]) /\ Ahead(j)
         /\ idx[j] \in Nat
         /\ inputs[j][idx[j]] \in Sources /\ Ll[inputs[j][idx[j]]] \in Files
<1>1. inputs[j] \in Seq(Files) /\ idx[j] \in 1 .. Len(inputs[j]) /\ Ahead(j)
  BY DEF IInv, Types, LoopOK
<1>2. idx[j] \in idx[j] .. Len(inputs[j]) /\ idx[j] \in Nat  BY <1>1
<1> QED  BY <1>1, <1>2 DEF Ahead

(* The loop goes on, with its inputs as they were. *)
LEMMA NextTurn ==
  ASSUME IInv, NEW j \in Jobs, pc[j] \in InLoop, AfterInput(j, idx[j]), UNCHANGED inputs
  PROVE  /\ pc' \in [Jobs -> Stages] /\ idx' \in [Jobs -> Nat \ {0}]
         /\ \A k \in Jobs : LoopOK(k)'
<1>1. \A m \in idx[j] + 1 .. Len(inputs[j]) : inputs'[j][m] \in Sources
  BY AtInput DEF Ahead
<1>2. /\ pc' \in [Jobs -> Stages] /\ idx' \in [Jobs -> Nat \ {0}] /\ LoopOK(j)'
      /\ \A k \in Jobs \ {j} : pc'[k] = pc[k] /\ idx'[k] = idx[k]
  BY <1>1, AtInput, AfterInputType
<1> QED  BY <1>2, LoopFrame DEF IInv

(* The step from one place in the turn of an input to the next. *)
LEMMA SameTurn ==
  ASSUME IInv, NEW j \in Jobs, pc[j] \in InLoop, NEW to \in InLoop,
         pc' = [pc EXCEPT ![j] = to], UNCHANGED <<inputs, idx>>
  PROVE  pc' \in [Jobs -> Stages] /\ \A k \in Jobs : LoopOK(k)'
<1>1. pc' \in [Jobs -> Stages]  BY DEF IInv, Types, Stages, InLoop
<1>2. pc'[j] = to /\ \A k \in Jobs \ {j} : pc'[k] = pc[k]  BY DEF IInv, Types
<1>3. LoopOK(j)'  BY <1>2 DEF IInv, LoopOK, Ahead, InLoop
<1> QED  BY <1>1, <1>2, <1>3, LoopFrame DEF IInv

LEMMA GenerateLlStep ==
  ASSUME IInv, NEW j \in Jobs, GenerateLl(j)
  PROVE  IInv'
<1> DEFINE input == inputs[j][idx[j]]
<1>1. UNCHANGED <<inputs, link, module, status>> /\ pc[j] = "generate"
  BY DEF GenerateLl
<1>2. pc[j] \in InLoop /\ "pass" \in InLoop  BY <1>1 DEF InLoop
<1>3. input \in Sources /\ Ll[input] \in Files  BY <1>2, AtInput
<1> HIDE DEF input
<1>4. CASE pc' = [pc EXCEPT ![j] = "pass"] /\ UNCHANGED <<disk, idx, blame>>
  BY <1>1, <1>2, <1>4, SameTurn DEF IInv, Types
<1>5. CASE \E code \in Codes :
             ExecFork(j, Ll[input], Whole(Made(input, j)), code) /\ AfterCompile(j, code)
  <2>1. PICK code \in Codes :
          ExecFork(j, Ll[input], Whole(Made(input, j)), code) /\ AfterCompile(j, code)
    BY <1>5
  <2>2. Whole(Made(input, j)) \in File
    BY <1>3, MadeType, FileTypes DEF Named, Makers
  <2>3. disk' \in [Files -> File] /\ blame' \in [Jobs -> SUBSET (Stages \X Faults)]
    BY <1>3, <2>1, <2>2, ExecForkType DEF IInv
  <2>4. CASE pc' = [pc EXCEPT ![j] = "pass"] /\ UNCHANGED idx
    BY <1>1, <1>2, <2>3, <2>4, SameTurn DEF IInv, Types
  <2>5. CASE AfterInput(j, idx[j])
    BY <1>1, <1>2, <2>3, <2>5, NextTurn DEF IInv, Types
  <2> QED  BY <2>1, <2>4, <2>5 DEF AfterCompile
<1> QED  BY <1>4, <1>5 DEF GenerateLl, input

LEMMA ApplyPassStep ==
  ASSUME IInv, NEW j \in Jobs, ApplyPass(j)
  PROVE  IInv'
<1> DEFINE units == disk[Ll[inputs[j][idx[j]]]].units
<1>1. UNCHANGED <<disk, inputs, link>> /\ pc[j] = "pass"  BY DEF ApplyPass
<1>2. pc[j] \in InLoop /\ "open" \in InLoop  BY <1>1 DEF InLoop
<1>3. units \in SUBSET Unit  BY <1>2, AtInput DEF IInv, Types, File
<1> HIDE DEF units
<1>4. blame' \in [Jobs -> SUBSET (Stages \X Faults)]
  BY BlameType DEF ApplyPass, IInv, Types, Faults
<1>5. CASE AfterInput(j, idx[j]) /\ UNCHANGED <<module, status>>
  BY <1>1, <1>2, <1>4, <1>5, NextTurn DEF IInv, Types
<1>6. CASE Exit(j, Crash) /\ UNCHANGED <<idx, module>>
  <2>1. Crash \in Int  BY DEF Crash
  <2> QED  BY <1>1, <1>4, <1>6, <2>1, ExitType, LoopFrame, DoneLoop DEF IInv, Types
<1>7. CASE /\ module' = [module EXCEPT ![j] = Hooked(units)]
           /\ pc' = [pc EXCEPT ![j] = "open"]
           /\ UNCHANGED <<idx, status>>
  <2>1. module' \in [Jobs -> SUBSET Unit]
    BY <1>3, <1>7, HookedType DEF IInv, Types
  <2> QED  BY <1>1, <1>2, <1>4, <1>7, <2>1, SameTurn DEF IInv, Types
<1> QED  BY <1>5, <1>6, <1>7 DEF ApplyPass, Caught, units

(* Opening and printing leave a file that is one. *)
LEMMA OpenModuleStep ==
  ASSUME IInv, NEW j \in Jobs, OpenModule(j)
  PROVE  IInv'
<1>1. UNCHANGED <<inputs, link, idx, module, status, blame>> /\ pc[j] = "open"
      /\ pc' = [pc EXCEPT ![j] = "print"]
  BY DEF OpenModule
<1>2. pc[j] \in InLoop /\ "print" \in InLoop  BY <1>1 DEF InLoop
<1>3. disk' \in [Files -> File]
  <2> DEFINE output == Ll[inputs[j][idx[j]]]
  <2>1. output \in Files  BY <1>2, AtInput
  <2>2. disk[output].writers \subseteq Jobs  BY <2>1 DEF IInv, Types, File
  <2>3. Torn({j}) \in File /\ Mixed(disk[output].writers \cup {j}) \in File
    BY <2>2, FileTypes
  <2> QED  BY <2>1, <2>3 DEF OpenModule, IInv, Types
<1> QED  BY <1>1, <1>2, <1>3, SameTurn DEF IInv, Types

LEMMA OpenFailsStep ==
  ASSUME IInv, NEW j \in Jobs, OpenFails(j)
  PROVE  IInv'
<1>1. Exit(j, 1) /\ UNCHANGED <<disk, inputs, link, idx, module>>  BY DEF OpenFails
<1>2. blame' \in [Jobs -> SUBSET (Stages \X Faults)]
  BY BlameType DEF OpenFails, IInv, Faults
<1>3. 1 \in Int  OBVIOUS
<1> QED  BY <1>1, <1>2, <1>3, ExitType, LoopFrame, DoneLoop DEF IInv, Types

LEMMA PrintModuleStep ==
  ASSUME IInv, NEW j \in Jobs, PrintModule(j)
  PROVE  IInv'
<1> DEFINE output == Ll[inputs[j][idx[j]]]
<1>1. PICK file \in Closed(j, disk[output]) :
        /\ pc[j] = "print" /\ disk' = [disk EXCEPT ![output] = file]
        /\ inputs' = [inputs EXCEPT ![j][idx[j]] = output]
        /\ AfterInput(j, idx[j])
        /\ UNCHANGED <<link, module, status, blame>>
  BY DEF PrintModule
<1>2. pc[j] \in InLoop  BY <1>1 DEF InLoop
<1>3. output \in Files /\ disk[output] \in File  BY <1>2, AtInput DEF IInv, Types
<1>4. file \in File
  <2>1. Torn({}) \in File /\ Whole(module[j]) \in File
        /\ Mixed(disk[output].writers \ {j}) \in File
    BY <1>3, FileTypes DEF File, IInv, Types
  <2> QED  BY <1>3, <2>1 DEF Closed
<1>5. disk' \in [Files -> File]  BY <1>1, <1>3, <1>4 DEF IInv, Types
<1> HIDE DEF output
<1>6. /\ inputs' \in [Jobs -> Seq(Files)] /\ Len(inputs'[j]) = Len(inputs[j])
      /\ \A m \in idx[j] + 1 .. Len(inputs[j]) : inputs'[j][m] = inputs[j][m]
      /\ \A k \in Jobs \ {j} : inputs'[k] = inputs[k]
  <2>1. inputs'[j] = [inputs[j] EXCEPT ![idx[j]] = output]
        /\ inputs' = [inputs EXCEPT ![j] = [inputs[j] EXCEPT ![idx[j]] = output]]
    BY <1>1 DEF IInv, Types
  <2>2. inputs[j] \in Seq(Files) /\ idx[j] \in 1 .. Len(inputs[j])
    BY <1>2, AtInput
  <2>3. /\ [inputs[j] EXCEPT ![idx[j]] = output] \in Seq(Files)
        /\ Len([inputs[j] EXCEPT ![idx[j]] = output]) = Len(inputs[j])
    BY <1>3, <2>2
  <2>4. \A m \in idx[j] + 1 .. Len(inputs[j]) :
          [inputs[j] EXCEPT ![idx[j]] = output][m] = inputs[j][m]
    BY <2>2
  <2> QED  BY <2>1, <2>3, <2>4 DEF IInv, Types
<1>7. \A m \in idx[j] + 1 .. Len(inputs[j]) : inputs'[j][m] \in Sources
  BY <1>2, <1>6, AtInput DEF Ahead
<1>8. /\ pc' \in [Jobs -> Stages] /\ idx' \in [Jobs -> Nat \ {0}] /\ LoopOK(j)'
      /\ \A k \in Jobs \ {j} : pc'[k] = pc[k] /\ idx'[k] = idx[k]
  BY <1>1, <1>2, <1>6, <1>7, AtInput, AfterInputType
<1> QED  BY <1>1, <1>5, <1>6, <1>8, LoopFrame DEF IInv, Types

LEMMA PrintFailsStep ==
  ASSUME IInv, NEW j \in Jobs, PrintFails(j)
  PROVE  IInv'
<1> DEFINE output == Ll[inputs[j][idx[j]]]
<1>1. Exit(j, 1) /\ UNCHANGED <<inputs, link, idx, module>> /\ pc[j] \in InLoop
      /\ disk' = [disk EXCEPT ![output].writers = @ \ {j}]
  BY DEF PrintFails, InLoop
<1>2. blame' \in [Jobs -> SUBSET (Stages \X Faults)]
  BY BlameType DEF PrintFails, IInv, Faults
<1>3. disk' \in [Files -> File]
  <2>1. output \in Files /\ disk[output] \in File  BY <1>1, AtInput DEF IInv, Types
  <2>2. [disk[output] EXCEPT !.writers = @ \ {j}] \in File  BY <2>1 DEF File
  <2> QED  BY <1>1, <2>1, <2>2 DEF IInv, Types
<1>4. 1 \in Int  OBVIOUS
<1> QED  BY <1>1, <1>2, <1>3, <1>4, ExitType, LoopFrame, DoneLoop DEF IInv, Types

LEMMA FinalCompileStep ==
  ASSUME IInv, NEW j \in Jobs, FinalCompile(j)
  PROVE  IInv'
<1> DEFINE made == IF Buildable(j) THEN Whole(Product(j)) ELSE Absent
<1>1. PICK code \in Codes : ExecFork(j, Cmd[j].out, made, code) /\ Exit(j, code)
  BY DEF FinalCompile
<1>2. made \in File  BY ProductType, FileTypes DEF IInv
<1> HIDE DEF made
<1>3. disk' \in [Files -> File] /\ blame' \in [Jobs -> SUBSET (Stages \X Faults)]
  BY <1>1, <1>2, CmdTypes, ExecForkType DEF IInv
<1>4. code \in Int /\ UNCHANGED <<inputs, link, idx, module>>
  BY CodesInt DEF FinalCompile
<1> QED  BY <1>1, <1>3, <1>4, ExitType, LoopFrame, DoneLoop DEF IInv, Types

LEMMA StutterStep == IInv /\ UNCHANGED vars => IInv'
BY DEF IInv, Types, LoopOK, Ahead, InLoop, vars

LEMMA NextIInv == IInv /\ [Next]_vars => IInv'
BY PhasesFailStep, PhasesParsedStep, GenerateDeclarationStep, GenerateRuntimeStep,
   GenerateLlStep, ApplyPassStep, OpenModuleStep, OpenFailsStep, PrintModuleStep,
   PrintFailsStep, FinalCompileStep, StutterStep
DEF Next, Step

THEOREM Invariance == Spec => []IInv
BY InitIInv, NextIInv, PTL DEF Spec

(* The types, for any build: no job ever works on an input it has replaced *)
(* already or that there is not.                                           *)
THEOREM TypeCorrect == Spec => []TypeOK
BY Invariance, IInvImpliesTypeOK, PTL
-----------------------------------------------------------------------------
(***************************************************************************)
(* What a wrapped build leaves, for any build, tool and faults: the output *)
(* of a wrapper that exits with 0, what is instrumented in it, and that    *)
(* the wrapped build implements the plain one.                             *)
(***************************************************************************)
USE BuildAssumption

(***************************************************************************)
(* The inductive invariant.                                                *)
(***************************************************************************)
(* What the compiler makes of source s for job j, instrumented n times. *)
Part(s, j, n) == [src |-> s, by |-> Owner(s, j), hooks |-> n]

(* The vector inputs is a first part of the inputs of the command line, those *)
(* before the loop possibly replaced by their .ll files.                      *)
Shape(j) ==
  /\ Len(inputs[j]) <= Len(Cmd[j].inputs)
  /\ \A i \in 1 .. Len(inputs[j]) : inputs[j][i] \in {Cmd[j].inputs[i], Ll[Cmd[j].inputs[i]]}
  /\ \A i \in idx[j] .. Len(inputs[j]) : inputs[j][i] = Cmd[j].inputs[i]
  /\ pc[j] = "final" => idx[j] = Len(inputs[j]) + 1
  /\ link[j] => Cmd[j].link /\ Hooking
  /\ pc[j] \in {"declaration", "runtime", "open", "print"} => Hooking

(* make runs a job after those it depends on. *)
MayRun(j) == \A d \in Cmd[j].after : pc[d] = "done" /\ status[d] = 0
Started(j) == pc[j] # "idle" => MayRun(j)

Blameless == \A k \in Jobs : blame[k] = {}

Working(j) == pc[j] \notin {"idle", "done"}

(* Input i of job j is as its command line says. *)
AsGiven(j, i) ==
  LET s == Cmd[j].inputs[i] IN
  inputs[j][i] = s /\ (~Raw(s) => disk[s] = Whole({Part(s, j, 0)}))

(* It is replaced by its .ll file, which this job has instrumented. *)
HookedOnce(j, i) ==
  LET s == Cmd[j].inputs[i] IN
  /\ inputs[j][i] = Ll[s] /\ disk[Ll[s]] = Whole({Part(s, j, 1)})
  /\ Hooking /\ s \in Hookable

(* The .ll file of the input that job j is at. *)
TargetOK(j, i) ==
  LET s == Cmd[j].inputs[i] IN
  /\ pc[j] \in {"pass", "open"} => disk[Ll[s]] = Whole({Part(s, j, 0)})
  /\ pc[j] = "print" => disk[Ll[s]] = Torn({j})
  /\ pc[j] \in {"open", "print"} => module[j] = {Part(s, j, 1)} /\ Hooking /\ s \in Hookable

InputOK(j, i) ==
  /\ i < idx[j] => AsGiven(j, i) \/ HookedOnce(j, i)
  /\ i < idx[j] /\ Blameless =>
       IF Hooking /\ Cmd[j].inputs[i] \in Hookable THEN HookedOnce(j, i) ELSE AsGiven(j, i)
  /\ i > idx[j] \/ (i = idx[j] /\ pc[j] \notin {"pass", "open", "print"}) => AsGiven(j, i)
  /\ i = idx[j] => TargetOK(j, i)

WorkOK(j) ==
  Private(j) /\ ~Misreported(j) /\ Working(j) =>
    /\ Len(inputs[j]) = Len(Cmd[j].inputs)
    /\ link[j] = (Cmd[j].link /\ Hooking)
    /\ \A i \in DOMAIN Cmd[j].inputs : InputOK(j, i)

IdleOK(j) ==
  Private(j) /\ pc[j] = "idle" =>
    \A i \in DOMAIN Cmd[j].inputs :
      LET s == Cmd[j].inputs[i] IN ~Raw(s) => disk[s] \in {Absent, Whole({Part(s, j, 0)})}

HooksRight(j) ==
  \A s \in InputSet(j), u \in disk[Cmd[j].out].units : u.src = s =>
    u.hooks = IF Hooking /\ s \in Hookable THEN 1 ELSE 0

DoneOK(j) ==
  Private(j) /\ ~Misreported(j) /\ pc[j] = "done" /\ status[j] = 0 =>
    Right(j) /\ (Blameless => HooksRight(j))

JobOK(j) == Shape(j) /\ Started(j) /\ WorkOK(j) /\ IdleOK(j) /\ DoneOK(j)

(* A job that instruments has a declaration to do it with. *)
DeclarationOK ==
  Blameless /\ Hooking =>
    \A j \in Jobs : pc[j] \in {"runtime"} \cup InLoop => Parses(DeclarationLl)

OutInv == IInv /\ DeclarationOK /\ \A j \in Jobs : JobOK(j)
-----------------------------------------------------------------------------
(***************************************************************************)
(* What a step of one job leaves alone: the other jobs, every file but the *)
(* one it is at, and what it was blamed for.                               *)
(***************************************************************************)
Writes(j, f) ==
  \/ pc[j] = "declaration" /\ f = DeclarationLl
  \/ pc[j] = "runtime" /\ f = RuntimeO
  \/ pc[j] \in InLoop /\ f = Ll[inputs[j][idx[j]]]
  \/ pc[j] = "final" /\ f = Cmd[j].out

SameJob(k) ==
  /\ pc'[k] = pc[k] /\ inputs'[k] = inputs[k] /\ link'[k] = link[k] /\ idx'[k] = idx[k]
  /\ module'[k] = module[k] /\ status'[k] = status[k] /\ blame'[k] = blame[k]

Framed(j) ==
  /\ \A k \in Jobs \ {j} : SameJob(k)
  /\ blame[j] \subseteq blame'[j]
  /\ pc[j] # "done" /\ pc'[j] # "idle"
  /\ \A f \in Files : ~Writes(j, f) => disk'[f] = disk[f]

LEMMA BlameFrame ==
  ASSUME IInv, NEW j \in Jobs, NEW faults, Blame(j, faults)
  PROVE  /\ \A k \in Jobs \ {j} : blame'[k] = blame[k]
         /\ blame'[j] = blame[j] \cup {<<pc[j], f>> : f \in faults}
BY DEF Blame, IInv, Types

LEMMA ExitFrame ==
  ASSUME IInv, NEW j \in Jobs, NEW code, Exit(j, code)
  PROVE  /\ \A k \in Jobs \ {j} : pc'[k] = pc[k] /\ status'[k] = status[k]
         /\ pc'[j] = "done" /\ status'[j] = ExitByte(code)
BY DEF Exit, IInv, Types

(* One run of the compiler: its fate, what it leaves and what it returns. *)
LEMMA ForkEffect ==
  ASSUME IInv, NEW j \in Jobs, NEW f \in Files, NEW made, NEW code, ExecFork(j, f, made, code)
  PROVE  /\ \A g \in Files : g # f => disk'[g] = disk[g]
         /\ \A k \in Jobs \ {j} : blame'[k] = blame[k]
         /\ blame[j] \subseteq blame'[j]
         /\ \E fate \in Fates :
              /\ code \in ForkReturn(fate)
              /\ disk'[f] \in Outcomes(fate, disk[f], made)
              /\ blame'[j] = blame[j] \cup
                   {<<pc[j], x>> : x \in IF fate = "succeeds" \/ (fate = "fails" /\ made = Absent)
                                         THEN {} ELSE {fate}}
<1>1. PICK fate \in Fates :
        /\ code \in ForkReturn(fate)
        /\ \E new \in Outcomes(fate, disk[f], made) : disk' = [disk EXCEPT ![f] = new]
        /\ Blame(j, IF fate = "succeeds" \/ (fate = "fails" /\ made = Absent) THEN {} ELSE {fate})
  BY DEF ExecFork
<1>2. PICK new \in Outcomes(fate, disk[f], made) : disk' = [disk EXCEPT ![f] = new]
  BY <1>1
<1>3. disk'[f] = new /\ \A g \in Files : g # f => disk'[g] = disk[g]
  BY <1>2 DEF IInv, Types
<1>4. /\ \A k \in Jobs \ {j} : blame'[k] = blame[k]
      /\ blame'[j] = blame[j] \cup
           {<<pc[j], x>> : x \in IF fate = "succeeds" \/ (fate = "fails" /\ made = Absent)
                                 THEN {} ELSE {fate}}
  BY <1>1, BlameFrame
<1> QED  BY <1>1, <1>2, <1>3, <1>4

(* A run that returns 0 and is not misreported has made its output. *)
LEMMA ForkSucceeded ==
  ASSUME IInv, NEW j \in Jobs, NEW f \in Files, NEW made, ExecFork(j, f, made, 0),
         ~Misreported(j)'
  PROVE  made # Absent /\ disk'[f] = made
<1>1. PICK fate \in Fates :
        /\ 0 \in ForkReturn(fate)
        /\ disk'[f] \in Outcomes(fate, disk[f], made)
        /\ blame'[j] = blame[j] \cup
             {<<pc[j], x>> : x \in IF fate = "succeeds" \/ (fate = "fails" /\ made = Absent)
                                   THEN {} ELSE {fate}}
  BY ForkEffect
<1>2. fate \in AllFates  OBVIOUS
<1>3. fate \in {"succeeds", "killed", "unwaited"}
  BY <1>1, <1>2 DEF ForkReturn, AllFates
<1>4. fate \in {"killed", "unwaited"} => <<pc[j], fate>> \in blame'[j]
  BY <1>1
<1>5. fate \notin {"killed", "unwaited"}
  BY <1>4 DEF Misreported
<1>6. fate = "succeeds"  BY <1>3, <1>5
<1> QED  BY <1>1, <1>6 DEF Outcomes

(* A run of a command the compiler accepts is blamed for everything but a 0. *)
LEMMA ForkBlamed ==
  ASSUME IInv, NEW j \in Jobs, NEW f \in Files, NEW made, NEW code,
         ExecFork(j, f, made, code), made # Absent, code # 0
  PROVE  \E x \in Fates : <<pc[j], x>> \in blame'[j]
<1>1. PICK fate \in Fates :
        /\ code \in ForkReturn(fate)
        /\ blame'[j] = blame[j] \cup
             {<<pc[j], x>> : x \in IF fate = "succeeds" \/ (fate = "fails" /\ made = Absent)
                                   THEN {} ELSE {fate}}
  BY ForkEffect
<1>2. CASE fate = "succeeds"
  BY <1>1, <1>2 DEF ForkReturn
<1>3. CASE fate # "succeeds"
  <2>1. <<pc[j], fate>> \in blame'[j]  BY <1>1, <1>3
  <2> QED  BY <2>1
<1> QED  BY <1>2, <1>3

LEMMA AfterInputFrame ==
  ASSUME IInv, NEW j \in Jobs, NEW i, AfterInput(j, i)
  PROVE  /\ \A k \in Jobs \ {j} : pc'[k] = pc[k] /\ idx'[k] = idx[k]
         /\ idx'[j] = i + 1
         /\ pc'[j] = IF i < Len(inputs[j]) THEN "generate" ELSE "final"
BY DEF AfterInput, IInv, Types

LEMMA PhasesFailFrame ==
  ASSUME IInv, NEW j \in Jobs, PhasesFail(j)
  PROVE  Framed(j) /\ pc'[j] = "done" /\ status'[j] # 0
<1>1. PICK fate \in Fates :
        /\ Blame(j, {fate})
        /\ \/ fate = "nofork" /\ Exit(j, Crash)
           \/ fate # "nofork" /\ \E code \in PcloseReturn(fate) : code # 0 /\ Exit(j, code)
  BY DEF PhasesFail
<1>2. PICK code : Exit(j, code) /\ code \in {Crash, 1, 127, 137, 255}
  <2>1. fate \in AllFates  OBVIOUS
  <2> QED  BY <1>1, <2>1 DEF PcloseReturn, AllFates
<1>3. ExitByte(code) # 0  BY <1>2 DEF ExitByte, Crash
<1>4. pc[j] = "idle" /\ UNCHANGED <<disk, inputs, link, idx, module>>
  BY DEF PhasesFail, Startable
<1> QED  BY <1>1, <1>2, <1>3, <1>4, BlameFrame, ExitFrame DEF Framed, SameJob

LEMMA PhasesParsedFrame ==
  ASSUME IInv, NEW j \in Jobs, PhasesParsed(j)
  PROVE  Framed(j)
<1>1. pc[j] = "idle" /\ UNCHANGED <<disk, idx, module>>
  BY DEF PhasesParsed, Startable
<1>2. PICK faults : Blame(j, faults)
  BY DEF PhasesParsed
<1>3. /\ \A k \in Jobs \ {j} : /\ pc'[k] = pc[k] /\ inputs'[k] = inputs[k]
                              /\ link'[k] = link[k] /\ status'[k] = status[k]
      /\ pc'[j] # "idle"
  <2>1. CASE Exit(j, Crash) /\ UNCHANGED <<inputs, link>>
    BY <2>1, ExitFrame
  <2>2. CASE /\ \E n \in 0 .. Len(Cmd[j].inputs), linker \in BOOLEAN :
                  /\ inputs' = [inputs EXCEPT ![j] = SubSeq(Cmd[j].inputs, 1, n)]
                  /\ link' = [link EXCEPT ![j] = linker /\ Hooking]
                  /\ pc' = [pc EXCEPT ![j] = IF Hooking THEN "declaration"
                                             ELSE IF n > 0 THEN "generate" ELSE "final"]
             /\ UNCHANGED status
    BY <2>2 DEF IInv, Types
  <2> QED  BY <2>1, <2>2 DEF PhasesParsed
<1> QED  BY <1>1, <1>2, <1>3, BlameFrame DEF Framed, SameJob

LEMMA GenerateDeclarationFrame ==
  ASSUME IInv, NEW j \in Jobs, GenerateDeclaration(j)
  PROVE  Framed(j)
<1>1. PICK code \in Codes :
        /\ ExecFork(j, DeclarationLl, Whole(Made(DeclarationLl, j)), code)
        /\ IF code = 0 THEN pc' = [pc EXCEPT ![j] = "runtime"] /\ UNCHANGED status
                       ELSE Exit(j, Crash)
  BY DEF GenerateDeclaration
<1>2. pc[j] = "declaration" /\ UNCHANGED <<inputs, link, idx, module>>
  BY DEF GenerateDeclaration
<1>3. pc'[j] # "idle" /\ \A k \in Jobs \ {j} : pc'[k] = pc[k] /\ status'[k] = status[k]
  BY <1>1, ExitFrame DEF IInv, Types
<1> QED  BY <1>1, <1>2, <1>3, ForkEffect DEF Framed, SameJob, Writes

LEMMA GenerateRuntimeFrame ==
  ASSUME IInv, NEW j \in Jobs, GenerateRuntime(j)
  PROVE  Framed(j)
<1>1. PICK code \in Codes :
        /\ ExecFork(j, RuntimeO, Whole(Made(RuntimeO, j)), code)
        /\ IF code = 0 THEN AfterInput(j, 0) /\ UNCHANGED status
                       ELSE Exit(j, Crash) /\ UNCHANGED idx
  BY DEF GenerateRuntime
<1>2. pc[j] = "runtime" /\ UNCHANGED <<inputs, link, module>>
  BY DEF GenerateRuntime
<1>3. /\ pc'[j] # "idle"
      /\ \A k \in Jobs \ {j} : pc'[k] = pc[k] /\ status'[k] = status[k] /\ idx'[k] = idx[k]
  BY <1>1, ExitFrame, AfterInputFrame
<1> QED  BY <1>1, <1>2, <1>3, ForkEffect DEF Framed, SameJob, Writes

LEMMA GenerateLlFrame ==
  ASSUME IInv, NEW j \in Jobs, GenerateLl(j)
  PROVE  Framed(j)
<1> DEFINE output == Ll[inputs[j][idx[j]]]
<1>1. pc[j] = "generate" /\ UNCHANGED <<inputs, link, module, status>>
  BY DEF GenerateLl
<1>2. output \in Files /\ pc[j] \in InLoop
  BY <1>1, AtInput DEF InLoop
<1>3. /\ \A k \in Jobs \ {j} : pc'[k] = pc[k] /\ idx'[k] = idx[k]
      /\ pc'[j] # "idle"
  BY AfterInputFrame DEF GenerateLl, AfterCompile, IInv, Types
<1>4. /\ \A k \in Jobs \ {j} : blame'[k] = blame[k]
      /\ blame[j] \subseteq blame'[j]
      /\ \A f \in Files : f # output => disk'[f] = disk[f]
  <2>1. CASE UNCHANGED <<disk, blame>>
    BY <2>1
  <2>2. CASE \E code \in Codes :
               ExecFork(j, output, Whole(Made(inputs[j][idx[j]], j)), code)
    BY <1>2, <2>2, ForkEffect
  <2> QED  BY <2>1, <2>2 DEF GenerateLl
<1> QED  BY <1>1, <1>2, <1>3, <1>4 DEF Framed, SameJob, Writes

LEMMA ApplyPassFrame ==
  ASSUME IInv, NEW j \in Jobs, ApplyPass(j)
  PROVE  Framed(j)
<1>1. pc[j] = "pass" /\ UNCHANGED <<disk, inputs, link>>
  BY DEF ApplyPass
<1>2. /\ \A k \in Jobs \ {j} : blame'[k] = blame[k]
      /\ blame[j] \subseteq blame'[j]
  <2>1. UNCHANGED blame \/ Blame(j, {"crash"}) \/ Blame(j, {"rejected"})
    BY DEF ApplyPass
  <2> QED  BY <2>1, BlameFrame
<1>3. /\ \A k \in Jobs \ {j} : pc'[k] = pc[k] /\ status'[k] = status[k] /\ idx'[k] = idx[k]
      /\ pc'[j] # "idle"
  <2>1. CASE AfterInput(j, idx[j]) /\ UNCHANGED status  BY <2>1, AfterInputFrame
  <2>2. CASE Exit(j, Crash) /\ UNCHANGED idx  BY <2>2, ExitFrame
  <2>3. CASE pc' = [pc EXCEPT ![j] = "open"] /\ UNCHANGED <<idx, status>>
    BY <2>3 DEF IInv, Types
  <2>4. \/ AfterInput(j, idx[j]) /\ UNCHANGED status
        \/ Exit(j, Crash) /\ UNCHANGED idx
        \/ pc' = [pc EXCEPT ![j] = "open"] /\ UNCHANGED <<idx, status>>
    BY DEF ApplyPass, Caught
  <2> QED  BY <2>1, <2>2, <2>3, <2>4
<1>4. \A k \in Jobs \ {j} : module'[k] = module[k]
  <2>1. UNCHANGED module \/ \E m : module' = [module EXCEPT ![j] = m]
    BY DEF ApplyPass
  <2> QED  BY <2>1 DEF IInv, Types
<1> QED  BY <1>1, <1>2, <1>3, <1>4 DEF Framed, SameJob

LEMMA OpenModuleFrame ==
  ASSUME IInv, NEW j \in Jobs, OpenModule(j)
  PROVE  Framed(j)
BY DEF OpenModule, Framed, SameJob, Writes, InLoop, IInv, Types

LEMMA OpenFailsFrame ==
  ASSUME IInv, NEW j \in Jobs, OpenFails(j)
  PROVE  Framed(j) /\ pc'[j] = "done" /\ status'[j] # 0
<1>1. /\ pc[j] = "open" /\ Exit(j, 1) /\ Blame(j, {"io"})
      /\ UNCHANGED <<disk, inputs, link, idx, module>>
  BY DEF OpenFails
<1>2. ExitByte(1) # 0  BY DEF ExitByte
<1> QED  BY <1>1, <1>2, ExitFrame, BlameFrame DEF Framed, SameJob

LEMMA PrintModuleFrame ==
  ASSUME IInv, NEW j \in Jobs, PrintModule(j)
  PROVE  Framed(j)
<1> DEFINE output == Ll[inputs[j][idx[j]]]
<1>1. /\ pc[j] = "print" /\ UNCHANGED <<link, module, status, blame>>
      /\ \E file : disk' = [disk EXCEPT ![output] = file]
      /\ inputs' = [inputs EXCEPT ![j][idx[j]] = output]
      /\ AfterInput(j, idx[j])
  BY DEF PrintModule
<1>2. \A k \in Jobs \ {j} : inputs'[k] = inputs[k]
  BY <1>1 DEF IInv, Types
<1>3. \A f \in Files : f # output => disk'[f] = disk[f]
  BY <1>1 DEF IInv, Types
<1> QED  BY <1>1, <1>2, <1>3, AfterInputFrame DEF Framed, SameJob, Writes, InLoop

LEMMA PrintFailsFrame ==
  ASSUME IInv, NEW j \in Jobs, PrintFails(j)
  PROVE  Framed(j) /\ pc'[j] = "done" /\ status'[j] # 0
<1> DEFINE output == Ll[inputs[j][idx[j]]]
<1>1. /\ pc[j] = "print" /\ Exit(j, 1) /\ Blame(j, {"io"})
      /\ UNCHANGED <<inputs, link, idx, module>>
      /\ \E file : disk' = [disk EXCEPT ![output] = file]
  BY DEF PrintFails
<1>2. \A f \in Files : f # output => disk'[f] = disk[f]
  BY <1>1 DEF IInv, Types
<1>3. ExitByte(1) # 0  BY DEF ExitByte
<1> QED  BY <1>1, <1>2, <1>3, ExitFrame, BlameFrame DEF Framed, SameJob, Writes, InLoop

LEMMA FinalCompileFrame ==
  ASSUME IInv, NEW j \in Jobs, FinalCompile(j)
  PROVE  Framed(j) /\ pc'[j] = "done"
<1> DEFINE made == IF Buildable(j) THEN Whole(Product(j)) ELSE Absent
<1>1. PICK code \in Codes : ExecFork(j, Cmd[j].out, made, code) /\ Exit(j, code)
  BY DEF FinalCompile
<1> HIDE DEF made
<1>2. pc[j] = "final" /\ UNCHANGED <<inputs, link, idx, module>> /\ Cmd[j].out \in Files
  BY CmdTypes DEF FinalCompile
<1> QED  BY <1>1, <1>2, ExitFrame, ForkEffect DEF Framed, SameJob, Writes

LEMMA StepFrame ==
  ASSUME IInv, NEW j \in Jobs, Step(j)
  PROVE  Framed(j)
BY PhasesFailFrame, PhasesParsedFrame, GenerateDeclarationFrame, GenerateRuntimeFrame,
   GenerateLlFrame, ApplyPassFrame, OpenModuleFrame, OpenFailsFrame, PrintModuleFrame,
   PrintFailsFrame, FinalCompileFrame
DEF Step
-----------------------------------------------------------------------------
(***************************************************************************)
(* A step of one job keeps what the invariant says of the others.          *)
(***************************************************************************)
LEMMA GivenType ==
  ASSUME NEW j \in Jobs, NEW i \in DOMAIN Cmd[j].inputs
  PROVE  Cmd[j].inputs[i] \in Sources /\ Ll[Cmd[j].inputs[i]] \in Files
BY CmdTypes

(* The .ll file that a job in its loop is at. *)
LEMMA AtGiven ==
  ASSUME IInv, NEW j \in Jobs, Shape(j), pc[j] \in InLoop
  PROVE  /\ idx[j] \in DOMAIN Cmd[j].inputs
         /\ inputs[j][idx[j]] = Cmd[j].inputs[idx[j]]
<1>1. idx[j] \in 1 .. Len(inputs[j]) /\ inputs[j] \in Seq(Files)  BY AtInput
<1>2. Cmd[j].inputs \in Seq(Sources)  BY CmdTypes
<1>3. Len(inputs[j]) <= Len(Cmd[j].inputs)  BY DEF Shape
<1>4. idx[j] \in idx[j] .. Len(inputs[j])  BY <1>1
<1>5. idx[j] \in DOMAIN Cmd[j].inputs  BY <1>1, <1>2, <1>3
<1> QED  BY <1>4, <1>5 DEF Shape

LEMMA LlNotWritten ==
  ASSUME IInv, NEW j \in Jobs, Shape(j), NEW k \in Jobs \ {j}, Private(k),
         NEW i \in DOMAIN Cmd[k].inputs
  PROVE  ~Writes(j, Ll[Cmd[k].inputs[i]])
<1> DEFINE f == Ll[Cmd[k].inputs[i]]
<1>1. Cmd[k].inputs[i] \in Sources  BY GivenType
<1>2. f \notin {DeclarationLl, RuntimeO, Cmd[j].out}  BY <1>1
<1>3. CASE pc[j] \in InLoop
  <2>1. /\ idx[j] \in DOMAIN Cmd[j].inputs
        /\ Ll[inputs[j][idx[j]]] = Ll[Cmd[j].inputs[idx[j]]]
    BY <1>3, AtGiven
  <2>2. Ll[Cmd[k].inputs[i]] = Ll[Cmd[j].inputs[idx[j]]] => j = k
    BY <2>1 DEF Private
  <2>3. Ll[inputs[j][idx[j]]] # f  BY <2>1, <2>2
  <2> QED  BY <1>2, <2>3 DEF Writes
<1> QED  BY <1>2, <1>3 DEF Writes

LEMMA OutNotWritten ==
  ASSUME IInv, NEW j \in Jobs, NEW k \in Jobs, pc[j] = "final" => j # k
  PROVE  ~Writes(j, Cmd[k].out)
<1>1. pc[j] \in InLoop => Ll[inputs[j][idx[j]]] # Cmd[k].out  BY AtInput
<1>2. Cmd[k].out \notin {DeclarationLl, RuntimeO}  OBVIOUS
<1> QED  BY <1>1, <1>2 DEF Writes

(* An object of a job that has started is an output that is done. *)
LEMMA ObjectMaker ==
  ASSUME NEW k \in Jobs, Started(k), pc[k] # "idle", NEW o \in ObjectSet(k)
  PROVE  \E l \in Jobs : o = Cmd[l].out /\ l \in Cmd[k].after /\ pc[l] = "done" /\ status[l] = 0
<1>1. PICK i \in DOMAIN Cmd[k].objects : o = Cmd[k].objects[i]  BY DEF ObjectSet
<1>2. PICK l \in Cmd[k].after : o = Cmd[l].out  BY <1>1
<1>3. Cmd[k] \in CmdType  OBVIOUS
<1>4. l \in Jobs  BY <1>3 DEF CmdType
<1> QED  BY <1>2, <1>4 DEF Started, MayRun

LEMMA ObjectNotWritten ==
  ASSUME IInv, NEW j \in Jobs, pc[j] # "done", NEW k \in Jobs, Started(k), pc[k] # "idle",
         NEW o \in ObjectSet(k)
  PROVE  o \in Files /\ ~Writes(j, o)
<1>1. PICK l \in Jobs : o = Cmd[l].out /\ pc[l] = "done"  BY ObjectMaker
<1>2. o \in Files  BY <1>1, CmdTypes
<1> QED  BY <1>1, <1>2, OutNotWritten

(* What the invariant says of an input depends on its job and its .ll file. *)
LEMMA InputKept ==
  ASSUME NEW k \in Jobs, NEW i \in DOMAIN Cmd[k].inputs, SameJob(k), InputOK(k, i),
         disk'[Ll[Cmd[k].inputs[i]]] = disk[Ll[Cmd[k].inputs[i]]],
         Blameless' => Blameless
  PROVE  InputOK(k, i)'
<1> DEFINE s == Cmd[k].inputs[i]
<1>1. AsGiven(k, i)' <=> AsGiven(k, i)  BY DEF AsGiven, SameJob, Raw
<1>2. HookedOnce(k, i)' <=> HookedOnce(k, i)  BY DEF HookedOnce, SameJob
<1>3. TargetOK(k, i)' <=> TargetOK(k, i)  BY DEF TargetOK, SameJob
<1>4. pc'[k] = pc[k] /\ idx'[k] = idx[k]  BY DEF SameJob
<1> QED  BY <1>1, <1>2, <1>3, <1>4 DEF InputOK

LEMMA BlamelessBefore ==
  ASSUME NEW j \in Jobs, Framed(j), Blameless'
  PROVE  Blameless
BY DEF Framed, SameJob, Blameless

LEMMA StartedNow ==
  ASSUME NEW j \in Jobs, Framed(j), NEW k \in Jobs, MayRun(k)
  PROVE  Started(k)'
<1> SUFFICES ASSUME NEW d \in Cmd[k].after
             PROVE  pc'[d] = "done" /\ status'[d] = 0
  BY DEF Started, MayRun
<1>1. Cmd[k] \in CmdType  OBVIOUS
<1>2. d \in Jobs  BY <1>1 DEF CmdType
<1>3. pc[d] = "done" /\ status[d] = 0  BY DEF MayRun
<1>4. d # j  BY <1>3 DEF Framed
<1> QED  BY <1>2, <1>3, <1>4 DEF Framed, SameJob

LEMMA OtherKept ==
  ASSUME IInv, NEW j \in Jobs, Framed(j), Shape(j), NEW k \in Jobs \ {j}, JobOK(k)
  PROVE  JobOK(k)'
<1>1. SameJob(k)  BY DEF Framed
<1>2. Private(k) => \A i \in DOMAIN Cmd[k].inputs :
        disk'[Ll[Cmd[k].inputs[i]]] = disk[Ll[Cmd[k].inputs[i]]]
  BY LlNotWritten, GivenType DEF Framed
<1>3. disk'[Cmd[k].out] = disk[Cmd[k].out]
  BY OutNotWritten, CmdTypes DEF Framed
<1>4. Misreported(k)' <=> Misreported(k)  BY <1>1 DEF Misreported, SameJob
<1>5. Shape(k)'  BY <1>1 DEF JobOK, Shape, SameJob
<1>6. Started(k)'
  <2>1. CASE pc[k] = "idle"  BY <1>1, <2>1 DEF Started, SameJob
  <2> QED  BY <2>1, StartedNow DEF JobOK, Started
<1>7. WorkOK(k)'
  <2> SUFFICES ASSUME Private(k), ~Misreported(k), Working(k)
               PROVE  /\ Len(inputs[k]) = Len(Cmd[k].inputs)
                      /\ link[k] = (Cmd[k].link /\ Hooking)
                      /\ \A i \in DOMAIN Cmd[k].inputs : InputOK(k, i)'
    BY <1>1, <1>4 DEF WorkOK, Working, SameJob, Private
  <2>1. \A i \in DOMAIN Cmd[k].inputs : InputOK(k, i)'
    BY <1>1, <1>2, InputKept, BlamelessBefore DEF JobOK, WorkOK
  <2> QED  BY <2>1 DEF JobOK, WorkOK
<1>8. IdleOK(k)'
  <2> SUFFICES ASSUME Private(k), pc[k] = "idle", NEW i \in DOMAIN Cmd[k].inputs,
                      ~Raw(Cmd[k].inputs[i])
               PROVE  disk'[Cmd[k].inputs[i]] \in {Absent, Whole({Part(Cmd[k].inputs[i], k, 0)})}
    BY <1>1 DEF IdleOK, SameJob, Private
  <2>1. disk'[Cmd[k].inputs[i]] = disk[Cmd[k].inputs[i]]  BY <1>2 DEF Raw
  <2>2. IdleOK(k)  BY DEF JobOK
  <2> QED  BY <2>1, <2>2 DEF IdleOK
<1>9. DoneOK(k)'
  <2> SUFFICES ASSUME Private(k), ~Misreported(k), pc[k] = "done", status[k] = 0
               PROVE  Right(k)' /\ (Blameless' => HooksRight(k)')
    BY <1>1, <1>4 DEF DoneOK, SameJob, Private
  <2>1. Right(k) /\ (Blameless => HooksRight(k))  BY DEF JobOK, DoneOK
  <2>2. \A o \in ObjectSet(k) : disk'[o] = disk[o]
    BY ObjectNotWritten DEF JobOK, Framed
  <2>3. Right(k)'  BY <1>3, <2>1, <2>2 DEF Right
  <2>4. Blameless' => HooksRight(k)'
    BY <1>3, <2>1, BlamelessBefore DEF HooksRight
  <2> QED  BY <2>3, <2>4
<1> QED  BY <1>5, <1>6, <1>7, <1>8, <1>9 DEF JobOK
-----------------------------------------------------------------------------
(***************************************************************************)
(* A step of a job keeps what the invariant says of that job.              *)
(***************************************************************************)
(* A process that ends with a failure promises nothing more. *)
LEMMA ExitKept ==
  ASSUME IInv, NEW j \in Jobs, Framed(j), Shape(j), MayRun(j), pc'[j] = "done",
         status'[j] # 0, UNCHANGED <<inputs, link, idx>>
  PROVE  JobOK(j)'
<1>1. Shape(j)'  BY DEF Shape
<1>2. Started(j)'  BY StartedNow
<1>3. WorkOK(j)' /\ IdleOK(j)' /\ DoneOK(j)'  BY DEF WorkOK, Working, IdleOK, DoneOK
<1> QED  BY <1>1, <1>2, <1>3 DEF JobOK

(* A job that goes on keeps its invariant if it keeps that of its inputs. *)
LEMMA GoesOn ==
  ASSUME IInv, NEW j \in Jobs, Framed(j), MayRun(j), Working(j)', Shape(j)',
         Private(j) /\ ~Misreported(j)' =>
           /\ Len(inputs'[j]) = Len(Cmd[j].inputs)
           /\ link'[j] = (Cmd[j].link /\ Hooking)
           /\ \A i \in DOMAIN Cmd[j].inputs : InputOK(j, i)'
  PROVE  JobOK(j)'
<1>1. Started(j)'  BY StartedNow
<1>2. WorkOK(j)'  BY DEF WorkOK, Private
<1>3. IdleOK(j)' /\ DoneOK(j)'  BY DEF IdleOK, DoneOK, Working
<1> QED  BY <1>1, <1>2, <1>3 DEF JobOK

LEMMA NotMisreportedBefore ==
  ASSUME NEW j \in Jobs, Framed(j), ~Misreported(j)'
  PROVE  ~Misreported(j)
BY DEF Framed, Misreported

LEMMA PhasesParsedKept ==
  ASSUME IInv, NEW j \in Jobs, PhasesParsed(j), JobOK(j)
  PROVE  JobOK(j)'
<1> DEFINE given == Cmd[j].inputs
<1>1. PICK fate \in Fates \ {"nofork"}, n \in 0 .. Len(given), linker \in BOOLEAN :
        /\ 0 \in PcloseReturn(fate)
        /\ linker => Cmd[j].link /\ n = Len(given)
        /\ fate = "succeeds" => linker = Cmd[j].link /\ n = Len(given)
        /\ \/ /\ \A i \in 1 .. n : disk[given[i]] # Absent
              /\ inputs' = [inputs EXCEPT ![j] = SubSeq(given, 1, n)]
              /\ link' = [link EXCEPT ![j] = linker /\ Hooking]
              /\ pc' = [pc EXCEPT ![j] = IF Hooking THEN "declaration"
                                         ELSE IF n > 0 THEN "generate" ELSE "final"]
              /\ Blame(j, {fate} \ {"succeeds"})
              /\ UNCHANGED status
           \/ /\ Exit(j, Crash)
              /\ UNCHANGED <<inputs, link>>
  BY DEF PhasesParsed
<1>2. pc[j] = "idle" /\ MayRun(j) /\ UNCHANGED <<disk, idx, module>>
  BY DEF PhasesParsed, Startable, MayRun
<1>3. Framed(j)  BY PhasesParsedFrame
<1>4. CASE Exit(j, Crash) /\ UNCHANGED <<inputs, link>>
  <2>1. ExitByte(Crash) # 0  BY DEF ExitByte, Crash
  <2> QED  BY <1>2, <1>3, <1>4, <2>1, ExitFrame, ExitKept DEF JobOK
<1>5. CASE /\ \A i \in 1 .. n : disk[given[i]] # Absent
           /\ inputs' = [inputs EXCEPT ![j] = SubSeq(given, 1, n)]
           /\ link' = [link EXCEPT ![j] = linker /\ Hooking]
           /\ pc' = [pc EXCEPT ![j] = IF Hooking THEN "declaration"
                                      ELSE IF n > 0 THEN "generate" ELSE "final"]
           /\ Blame(j, {fate} \ {"succeeds"})
  <2>1. given \in Seq(Sources)  BY CmdTypes
  <2>2. /\ inputs'[j] = SubSeq(given, 1, n) /\ link'[j] = (linker /\ Hooking)
        /\ pc'[j] = IF Hooking THEN "declaration" ELSE IF n > 0 THEN "generate" ELSE "final"
        /\ idx'[j] = 1
    BY <1>2, <1>5 DEF IInv, Types, LoopOK
  <2>3. Len(inputs'[j]) = n /\ \A i \in 1 .. n : inputs'[j][i] = given[i]
    BY <2>1, <2>2
  <2>4. Shape(j)'
    <3>1. \A i \in idx'[j] .. Len(inputs'[j]) : inputs'[j][i] = given[i]  BY <2>2, <2>3
    <3>2. pc'[j] = "final" => idx'[j] = Len(inputs'[j]) + 1  BY <2>2, <2>3
    <3>3. pc'[j] \in {"declaration", "runtime", "open", "print"} => Hooking  BY <2>2
    <3>4. link'[j] => Cmd[j].link /\ Hooking  BY <1>1, <2>2
    <3>5. Len(inputs'[j]) <= Len(given)  BY <2>1, <2>3
    <3>6. \A i \in 1 .. Len(inputs'[j]) : inputs'[j][i] \in {given[i], Ll[given[i]]}
      BY <2>3
    <3> QED  BY <3>1, <3>2, <3>3, <3>4, <3>5, <3>6 DEF Shape
  <2>5. ASSUME Private(j), ~Misreported(j)'
        PROVE  /\ Len(inputs'[j]) = Len(given)
               /\ link'[j] = (Cmd[j].link /\ Hooking)
               /\ \A i \in DOMAIN given : InputOK(j, i)'
    <3>1. fate = "succeeds"
      <4>1. fate \in AllFates  OBVIOUS
      <4>2. fate \in {"succeeds", "killed"}  BY <1>1, <4>1 DEF PcloseReturn, AllFates
      <4>3. blame'[j] = blame[j] \cup {<<pc[j], f>> : f \in {fate} \ {"succeeds"}}
        BY <1>5, BlameFrame
      <4>4. fate = "killed" => <<pc[j], fate>> \in blame'[j]  BY <4>3
      <4> QED  BY <2>5, <4>2, <4>4 DEF Misreported
    <3>2. linker = Cmd[j].link /\ n = Len(given)  BY <1>1, <3>1
    <3>3. ASSUME NEW i \in DOMAIN given PROVE InputOK(j, i)'
      <4>1. i \in 1 .. n /\ i >= 1 /\ given[i] \in Sources  BY <2>1, <3>2
      <4>2. inputs'[j][i] = given[i] /\ disk'[given[i]] # Absent
        BY <1>2, <1>5, <2>3, <4>1
      <4>3. ~Raw(given[i]) => disk'[given[i]] \in {Absent, Whole({Part(given[i], j, 0)})}
        BY <1>2, <2>5 DEF JobOK, IdleOK
      <4>4. AsGiven(j, i)'  BY <4>2, <4>3 DEF AsGiven, Raw
      <4>5. pc'[j] \notin {"pass", "open", "print"} /\ ~(i < idx'[j])  BY <2>2, <4>1
      <4> QED  BY <4>4, <4>5 DEF InputOK, TargetOK
    <3> QED  BY <2>2, <2>3, <3>2, <3>3
  <2>6. Working(j)'  BY <2>2 DEF Working
  <2> QED  BY <1>2, <1>3, <2>4, <2>5, <2>6, GoesOn
<1> QED  BY <1>1, <1>4, <1>5

(* The .ll files of the inputs that a job is not at are left alone by it. *)
LEMMA OwnLlNotWritten ==
  ASSUME IInv, NEW j \in Jobs, Shape(j), Private(j), NEW i \in DOMAIN Cmd[j].inputs,
         pc[j] \in InLoop => i # idx[j]
  PROVE  ~Writes(j, Ll[Cmd[j].inputs[i]])
<1> DEFINE f == Ll[Cmd[j].inputs[i]]
<1>1. Cmd[j].inputs[i] \in Sources  BY GivenType
<1>2. f \notin {DeclarationLl, RuntimeO, Cmd[j].out}  BY <1>1
<1>3. CASE pc[j] \in InLoop
  <2>1. /\ idx[j] \in DOMAIN Cmd[j].inputs
        /\ Ll[inputs[j][idx[j]]] = Ll[Cmd[j].inputs[idx[j]]]
    BY <1>3, AtGiven
  <2>2. Ll[inputs[j][idx[j]]] # f  BY <1>3, <2>1 DEF Private
  <2> QED  BY <1>2, <2>2 DEF Writes, InLoop
<1> QED  BY <1>2, <1>3 DEF Writes

LEMMA OwnInputKept ==
  ASSUME NEW j \in Jobs, NEW i \in DOMAIN Cmd[j].inputs,
         disk'[Ll[Cmd[j].inputs[i]]] = disk[Ll[Cmd[j].inputs[i]]],
         inputs'[j][i] = inputs[j][i]
  PROVE  (AsGiven(j, i)' <=> AsGiven(j, i)) /\ (HookedOnce(j, i)' <=> HookedOnce(j, i))
<1>1. AsGiven(j, i)' <=> AsGiven(j, i)  BY DEF AsGiven, Raw
<1>2. HookedOnce(j, i)' <=> HookedOnce(j, i)  BY DEF HookedOnce
<1> QED  BY <1>1, <1>2

(* The steps before the loop. *)
LEMMA BeforeLoop ==
  ASSUME IInv, NEW j \in Jobs, Framed(j), JobOK(j), pc[j] \in {"declaration", "runtime"},
         inputs'[j] = inputs[j], Private(j), ~Misreported(j)'
  PROVE  /\ Len(inputs[j]) = Len(Cmd[j].inputs)
         /\ link[j] = (Cmd[j].link /\ Hooking)
         /\ \A i \in DOMAIN Cmd[j].inputs : i >= 1 /\ AsGiven(j, i)'
<1>1. /\ Len(inputs[j]) = Len(Cmd[j].inputs)
      /\ link[j] = (Cmd[j].link /\ Hooking)
      /\ \A i \in DOMAIN Cmd[j].inputs : InputOK(j, i)
  BY NotMisreportedBefore DEF JobOK, WorkOK, Working
<1>2. ASSUME NEW i \in DOMAIN Cmd[j].inputs PROVE i >= 1 /\ AsGiven(j, i)'
  <2>1. i \in Nat /\ i >= 1  BY CmdTypes
  <2>2. idx[j] = 1  BY DEF IInv, LoopOK
  <2>3. InputOK(j, i)  BY <1>1
  <2>4. i > idx[j] \/ (i = idx[j] /\ pc[j] \notin {"pass", "open", "print"})
    BY <2>1, <2>2
  <2>5. AsGiven(j, i)  BY <2>3, <2>4 DEF InputOK
  <2>6. Ll[Cmd[j].inputs[i]] \in Files  BY GivenType
  <2>7. ~Writes(j, Ll[Cmd[j].inputs[i]])  BY OwnLlNotWritten DEF JobOK, InLoop
  <2>8. disk'[Ll[Cmd[j].inputs[i]]] = disk[Ll[Cmd[j].inputs[i]]]
    BY <2>6, <2>7 DEF Framed
  <2> QED  BY <2>1, <2>5, <2>8, OwnInputKept
<1> QED  BY <1>1, <1>2

LEMMA GenerateDeclarationKept ==
  ASSUME IInv, NEW j \in Jobs, GenerateDeclaration(j), JobOK(j)
  PROVE  JobOK(j)'
<1>1. PICK code \in Codes :
        IF code = 0 THEN pc' = [pc EXCEPT ![j] = "runtime"] ELSE Exit(j, Crash)
  BY DEF GenerateDeclaration
<1>2. pc[j] = "declaration" /\ UNCHANGED <<inputs, link, idx, module>>
  BY DEF GenerateDeclaration
<1>3. Framed(j)  BY GenerateDeclarationFrame
<1>4. MayRun(j)  BY <1>2 DEF JobOK, Started
<1>5. CASE code = 0
  <2>1. pc'[j] = "runtime"  BY <1>1, <1>5 DEF IInv, Types
  <2>2. Shape(j)'  BY <1>2, <2>1 DEF JobOK, Shape
  <2>3. ASSUME Private(j), ~Misreported(j)', NEW i \in DOMAIN Cmd[j].inputs
        PROVE  InputOK(j, i)'
    <3>1. i >= 1 /\ AsGiven(j, i)'  BY <1>2, <1>3, <2>3, BeforeLoop
    <3>2. i \in Nat /\ idx'[j] = 1  BY <1>2, CmdTypes DEF IInv, LoopOK
    <3>3. ~(i < idx'[j])  BY <3>1, <3>2
    <3> QED  BY <2>1, <3>1, <3>3 DEF InputOK, TargetOK
  <2> QED  BY <1>2, <1>3, <1>4, <2>1, <2>2, <2>3, BeforeLoop, GoesOn DEF Working
<1>6. CASE code # 0
  <2>1. ExitByte(Crash) # 0  BY DEF ExitByte, Crash
  <2> QED  BY <1>1, <1>2, <1>3, <1>4, <1>6, <2>1, ExitFrame, ExitKept DEF JobOK
<1> QED  BY <1>5, <1>6

LEMMA GenerateRuntimeKept ==
  ASSUME IInv, NEW j \in Jobs, GenerateRuntime(j), JobOK(j)
  PROVE  JobOK(j)'
<1>1. PICK code \in Codes :
        IF code = 0 THEN AfterInput(j, 0) ELSE Exit(j, Crash) /\ UNCHANGED idx
  BY DEF GenerateRuntime
<1>2. pc[j] = "runtime" /\ UNCHANGED <<inputs, link, module>>
  BY DEF GenerateRuntime
<1>3. Framed(j)  BY GenerateRuntimeFrame
<1>4. MayRun(j)  BY <1>2 DEF JobOK, Started
<1>5. CASE code = 0
  <2>1. /\ idx'[j] = 1 /\ idx[j] = 1
        /\ pc'[j] = IF 0 < Len(inputs[j]) THEN "generate" ELSE "final"
    BY <1>1, <1>2, <1>5, AfterInputFrame DEF IInv, LoopOK
  <2>2. Len(inputs[j]) \in Nat  BY DEF IInv, Types
  <2>3. Shape(j)'  BY <1>2, <2>1, <2>2 DEF JobOK, Shape
  <2>4. ASSUME Private(j), ~Misreported(j)', NEW i \in DOMAIN Cmd[j].inputs
        PROVE  InputOK(j, i)'
    <3>1. i >= 1 /\ AsGiven(j, i)'  BY <1>2, <1>3, <2>4, BeforeLoop
    <3>2. i \in Nat  BY CmdTypes
    <3>3. ~(i < idx'[j])  BY <2>1, <3>1, <3>2
    <3> QED  BY <2>1, <3>1, <3>3 DEF InputOK, TargetOK
  <2> QED  BY <1>2, <1>3, <1>4, <2>1, <2>3, <2>4, BeforeLoop, GoesOn DEF Working
<1>6. CASE code # 0
  <2>1. ExitByte(Crash) # 0  BY DEF ExitByte, Crash
  <2> QED  BY <1>1, <1>2, <1>3, <1>4, <1>6, <2>1, ExitFrame, ExitKept DEF JobOK
<1> QED  BY <1>5, <1>6

(* What the invariant says of the inputs of a job in its loop. *)
LEMMA LoopInputs ==
  ASSUME IInv, NEW j \in Jobs, Framed(j), JobOK(j), pc[j] \in InLoop,
         Private(j), ~Misreported(j)'
  PROVE  /\ Len(inputs[j]) = Len(Cmd[j].inputs)
         /\ link[j] = (Cmd[j].link /\ Hooking)
         /\ \A i \in DOMAIN Cmd[j].inputs :
              /\ InputOK(j, i)
              /\ i # idx[j] => disk'[Ll[Cmd[j].inputs[i]]] = disk[Ll[Cmd[j].inputs[i]]]
<1>1. /\ Len(inputs[j]) = Len(Cmd[j].inputs)
      /\ link[j] = (Cmd[j].link /\ Hooking)
      /\ \A i \in DOMAIN Cmd[j].inputs : InputOK(j, i)
  BY NotMisreportedBefore DEF JobOK, WorkOK, Working, InLoop
<1>2. ASSUME NEW i \in DOMAIN Cmd[j].inputs, i # idx[j]
      PROVE  disk'[Ll[Cmd[j].inputs[i]]] = disk[Ll[Cmd[j].inputs[i]]]
  <2>1. Ll[Cmd[j].inputs[i]] \in Files  BY GivenType
  <2>2. ~Writes(j, Ll[Cmd[j].inputs[i]])  BY <1>2, OwnLlNotWritten DEF JobOK
  <2> QED  BY <2>1, <2>2 DEF Framed
<1> QED  BY <1>1, <1>2

(* The step from one place in the turn of an input to the next. *)
LEMMA SameTurnKept ==
  ASSUME IInv, NEW j \in Jobs, Framed(j), JobOK(j), pc[j] \in InLoop,
         pc'[j] \in {"pass", "open", "print"}, pc'[j] \in {"open", "print"} => Hooking,
         UNCHANGED <<inputs, link, idx>>,
         Private(j) /\ ~Misreported(j)' => TargetOK(j, idx[j])'
  PROVE  JobOK(j)'
<1>1. MayRun(j)  BY DEF JobOK, Started, InLoop
<1>2. Shape(j)'  BY DEF JobOK, Shape
<1>3. ASSUME Private(j), ~Misreported(j)', NEW i \in DOMAIN Cmd[j].inputs
      PROVE  InputOK(j, i)'
  <2>1. InputOK(j, i)
    BY <1>3, LoopInputs
  <2>2. CASE i = idx[j]
    <3>1. TargetOK(j, i)'  BY <1>3, <2>2
    <3>2. idx[j] \in Nat /\ idx'[j] = idx[j]  BY DEF IInv, Types
    <3> QED  BY <2>2, <3>1, <3>2 DEF InputOK
  <2>3. CASE i # idx[j]
    <3>1. disk'[Ll[Cmd[j].inputs[i]]] = disk[Ll[Cmd[j].inputs[i]]]
      BY <1>3, <2>3, LoopInputs
    <3>2. (AsGiven(j, i)' <=> AsGiven(j, i)) /\ (HookedOnce(j, i)' <=> HookedOnce(j, i))
      BY <3>1, OwnInputKept
    <3> QED  BY <2>1, <2>3, <3>2, BlamelessBefore DEF InputOK
  <2> QED  BY <2>2, <2>3
<1> QED  BY <1>1, <1>2, <1>3, LoopInputs, GoesOn DEF Working

(* The loop goes on, from an input that it leaves as it should. *)
LEMMA NextTurnKept ==
  ASSUME IInv, NEW j \in Jobs, Framed(j), JobOK(j), pc[j] \in InLoop,
         AfterInput(j, idx[j]), UNCHANGED link,
         Len(inputs'[j]) = Len(inputs[j]),
         \A i \in 1 .. Len(inputs[j]) : i # idx[j] => inputs'[j][i] = inputs[j][i],
         NEW here, here = idx[j],
         inputs'[j][here] \in {Cmd[j].inputs[here], Ll[Cmd[j].inputs[here]]},
         Private(j) /\ ~Misreported(j)' =>
           /\ AsGiven(j, here)' \/ HookedOnce(j, here)'
           /\ Blameless' => IF Hooking /\ Cmd[j].inputs[here] \in Hookable
                            THEN HookedOnce(j, here)' ELSE AsGiven(j, here)'
  PROVE  JobOK(j)'
<1>1. MayRun(j)  BY DEF JobOK, Started, InLoop
<1>2. /\ idx'[j] = here + 1
      /\ pc'[j] = IF here < Len(inputs[j]) THEN "generate" ELSE "final"
      /\ here \in 1 .. Len(inputs[j]) /\ Len(inputs[j]) \in Nat
  BY AfterInputFrame, AtInput
<1>3. Shape(j)'
  <2>1. /\ Len(inputs[j]) <= Len(Cmd[j].inputs)
        /\ \A i \in 1 .. Len(inputs[j]) : inputs[j][i] \in {Cmd[j].inputs[i], Ll[Cmd[j].inputs[i]]}
        /\ \A i \in idx[j] .. Len(inputs[j]) : inputs[j][i] = Cmd[j].inputs[i]
        /\ link[j] => Cmd[j].link /\ Hooking
    BY DEF JobOK, Shape
  <2>2. \A i \in 1 .. Len(inputs'[j]) : inputs'[j][i] \in {Cmd[j].inputs[i], Ll[Cmd[j].inputs[i]]}
    BY <2>1
  <2>3. \A i \in idx'[j] .. Len(inputs'[j]) : inputs'[j][i] = Cmd[j].inputs[i]
    BY <1>2, <2>1
  <2>4. pc'[j] = "final" => idx'[j] = Len(inputs'[j]) + 1
    BY <1>2
  <2>5. pc'[j] \notin {"declaration", "runtime", "open", "print"}
    BY <1>2
  <2> QED  BY <2>1, <2>2, <2>3, <2>4, <2>5 DEF Shape
<1>4. ASSUME Private(j), ~Misreported(j)', NEW i \in DOMAIN Cmd[j].inputs
      PROVE  InputOK(j, i)'
  <2>1. InputOK(j, i) /\ Len(inputs[j]) = Len(Cmd[j].inputs)
    BY <1>4, LoopInputs
  <2>2. i \in Nat /\ i \in 1 .. Len(inputs[j])  BY <2>1, CmdTypes
  <2>3. CASE i = here
    <3>1. i < idx'[j]  BY <1>2, <2>2, <2>3
    <3> QED  BY <1>2, <1>4, <2>2, <2>3, <3>1 DEF InputOK, TargetOK
  <2>4. CASE i # here
    <3>1. disk'[Ll[Cmd[j].inputs[i]]] = disk[Ll[Cmd[j].inputs[i]]]
      BY <1>4, <2>4, LoopInputs
    <3>2. inputs'[j][i] = inputs[j][i]  BY <2>2, <2>4
    <3>3. (AsGiven(j, i)' <=> AsGiven(j, i)) /\ (HookedOnce(j, i)' <=> HookedOnce(j, i))
      BY <3>1, <3>2, OwnInputKept
    <3>4. CASE i < idx[j]
      <4>1. i < idx'[j] /\ ~(i > idx'[j]) /\ i # idx'[j]  BY <1>2, <2>2, <3>4
      <4> QED  BY <2>1, <3>3, <3>4, <4>1, BlamelessBefore DEF InputOK
    <3>5. CASE i > idx[j]
      <4>1. ~(i < idx'[j])  BY <1>2, <2>2, <3>5
      <4>2. pc'[j] \notin {"pass", "open", "print"}  BY <1>2
      <4>3. AsGiven(j, i)'  BY <2>1, <3>3, <3>5 DEF InputOK
      <4> QED  BY <4>1, <4>2, <4>3 DEF InputOK, TargetOK
    <3> QED  BY <1>2, <2>2, <2>4, <3>4, <3>5
  <2> QED  BY <2>3, <2>4
<1> QED  BY <1>1, <1>2, <1>3, <1>4, LoopInputs, GoesOn DEF Working

(* The same, for an input that stays what the command line says. *)
LEMMA NextTurnAsGiven ==
  ASSUME IInv, NEW j \in Jobs, Framed(j), JobOK(j), pc[j] \in InLoop,
         AfterInput(j, idx[j]), UNCHANGED <<inputs, link>>,
         NEW here, here = idx[j],
         Private(j) /\ ~Misreported(j)' =>
           /\ ~Raw(Cmd[j].inputs[here]) =>
                disk'[Cmd[j].inputs[here]] = Whole({Part(Cmd[j].inputs[here], j, 0)})
           /\ Blameless' => ~(Hooking /\ Cmd[j].inputs[here] \in Hookable)
  PROVE  JobOK(j)'
<1>1. inputs[j][here] = Cmd[j].inputs[here]  BY AtGiven DEF JobOK
<1>2. Private(j) /\ ~Misreported(j)' => AsGiven(j, here)'
  BY <1>1 DEF AsGiven, Raw, Part, Owner
<1> QED  BY <1>1, <1>2, NextTurnKept

LEMMA GenerateLlKept ==
  ASSUME IInv, NEW j \in Jobs, GenerateLl(j), JobOK(j)
  PROVE  JobOK(j)'
<1> DEFINE here == idx[j]
<1> DEFINE s == Cmd[j].inputs[here]
<1>1. pc[j] = "generate" /\ UNCHANGED <<inputs, link, module, status>>
  BY DEF GenerateLl
<1>2. pc[j] \in InLoop /\ Framed(j)  BY <1>1, GenerateLlFrame DEF InLoop
<1>3. here \in DOMAIN Cmd[j].inputs /\ inputs[j][here] = s
  BY <1>2, AtGiven DEF JobOK
<1>4. s \in Sources /\ Ll[s] \in Files  BY <1>3, GivenType
<1>5. CASE ~Raw(s) /\ pc' = [pc EXCEPT ![j] = "pass"] /\ UNCHANGED <<disk, idx, blame>>
  <2>1. pc'[j] = "pass" /\ idx'[j] = here  BY <1>5 DEF IInv, Types
  <2>2. Private(j) /\ ~Misreported(j)' => TargetOK(j, idx[j])'
    <3> SUFFICES ASSUME Private(j), ~Misreported(j)' PROVE TargetOK(j, idx[j])'
      OBVIOUS
    <3>1. InputOK(j, here)  BY <1>2, <1>3, LoopInputs
    <3>2. AsGiven(j, here)  BY <1>1, <3>1 DEF InputOK
    <3>3. disk[Ll[s]] = Whole({Part(s, j, 0)})  BY <1>5, <3>2 DEF AsGiven, Raw
    <3> QED  BY <1>5, <2>1, <3>3 DEF TargetOK, Part, Owner, Whole, Raw
  <2> QED  BY <1>1, <1>2, <1>5, <2>1, <2>2, SameTurnKept
<1>6. CASE Raw(s) /\ \E code \in Codes :
             ExecFork(j, Ll[s], Whole(Made(s, j)), code) /\ AfterCompile(j, code)
  <2>1. PICK code \in Codes :
          ExecFork(j, Ll[s], Whole(Made(s, j)), code) /\ AfterCompile(j, code)
    BY <1>6
  <2>2. CASE code = 0
    <3>1. pc' = [pc EXCEPT ![j] = "pass"] /\ UNCHANGED idx  BY <2>1, <2>2 DEF AfterCompile
    <3>2. pc'[j] = "pass" /\ idx'[j] = here  BY <3>1 DEF IInv, Types
    <3>3. ~Misreported(j)' => disk'[Ll[s]] = Whole(Made(s, j))
      BY <1>4, <2>1, <2>2, ForkSucceeded
    <3>4. Made(s, j) = {Part(s, j, 0)}  BY <1>6 DEF Made, Part, Owner
    <3>5. ~Misreported(j)' => TargetOK(j, idx[j])'
      BY <3>2, <3>3, <3>4 DEF TargetOK, Part, Owner, Whole, Raw
    <3> QED  BY <1>1, <1>2, <3>1, <3>2, <3>5, SameTurnKept
  <2>3. CASE code # 0
    <3>1. AfterInput(j, idx[j])  BY <2>1, <2>3 DEF AfterCompile
    <3>2. ~Blameless'
      <4>1. Whole(Made(s, j)) # Absent  BY DEF Whole, Absent
      <4>2. \E x \in Fates : <<pc[j], x>> \in blame'[j]
        BY <1>4, <2>1, <2>3, <4>1, ForkBlamed
      <4> QED  BY <4>2 DEF Blameless
    <3> QED  BY <1>1, <1>2, <1>6, <3>1, <3>2, NextTurnAsGiven
  <2> QED  BY <2>2, <2>3
<1> QED  BY <1>3, <1>5, <1>6 DEF GenerateLl

LEMMA ApplyPassKept ==
  ASSUME IInv, DeclarationOK, NEW j \in Jobs, ApplyPass(j), JobOK(j)
  PROVE  JobOK(j)'
<1> DEFINE here == idx[j]
<1> DEFINE s == Cmd[j].inputs[here]
<1> DEFINE units == disk[Ll[s]].units
<1> DEFINE parsed == Parses(Ll[s]) /\ (Hooking => Parses(DeclarationLl))
<1>1. pc[j] = "pass" /\ UNCHANGED <<disk, inputs, link>>
  BY DEF ApplyPass
<1>2. pc[j] \in InLoop /\ Framed(j)  BY <1>1, ApplyPassFrame DEF InLoop
<1>3. here \in DOMAIN Cmd[j].inputs /\ inputs[j][here] = s
  BY <1>2, AtGiven DEF JobOK
<1>4. s \in Sources  BY <1>3, GivenType
<1>5. Private(j) /\ ~Misreported(j)' => disk[Ll[s]] = Whole({Part(s, j, 0)})
  <2> SUFFICES ASSUME Private(j), ~Misreported(j)' PROVE disk[Ll[s]] = Whole({Part(s, j, 0)})
    OBVIOUS
  <2>1. InputOK(j, here)  BY <1>2, <1>3, LoopInputs
  <2> QED  BY <1>1, <2>1 DEF InputOK, TargetOK
<1> HIDE DEF s, here
<1>6. Private(j) /\ ~Misreported(j)' =>
        units = {Part(s, j, 0)} /\ Parses(Ll[s])
        /\ (~Raw(s) => disk'[s] = Whole({Part(s, j, 0)}))
  <2>1. Private(j) /\ ~Misreported(j)' => units = {Part(s, j, 0)} /\ Parses(Ll[s])
    BY <1>5 DEF Whole, Parses
  <2>2. Private(j) /\ ~Misreported(j)' /\ ~Raw(s) => disk'[s] = Whole({Part(s, j, 0)})
    BY <1>1, <1>5 DEF Raw
  <2> QED  BY <2>1, <2>2
<1> HIDE DEF units
<1>7. Private(j) /\ ~Misreported(j)' => (Modifies(units) <=> (Hooking /\ s \in Hookable))
  <2>1. Part(s, j, 0).src = s  BY DEF Part
  <2>2. Modifies({Part(s, j, 0)}) <=> (Hooking /\ s \in Hookable)
    BY <2>1 DEF Modifies
  <2> QED  BY <1>6, <2>2
<1>8. \/ ~parsed /\ AfterInput(j, here)
      \/ Exit(j, Crash) /\ UNCHANGED idx
      \/ ~Modifies(units) /\ AfterInput(j, here)
      \/ AfterInput(j, here) /\ Blame(j, {"rejected"})
      \/ /\ Modifies(units)
         /\ module' = [module EXCEPT ![j] = Hooked(units)]
         /\ pc' = [pc EXCEPT ![j] = "open"] /\ UNCHANGED idx
  BY <1>3 DEF ApplyPass, Caught, units, s, here
<1>9. CASE ~parsed /\ AfterInput(j, here)
  <2>1. Private(j) /\ ~Misreported(j)' /\ Hooking => ~Blameless'
    <3>1. Blameless' => Blameless  BY <1>2, BlamelessBefore
    <3>2. Blameless /\ Hooking => Parses(DeclarationLl)  BY <1>2 DEF DeclarationOK
    <3> QED  BY <1>6, <1>9, <3>1, <3>2
  <2> QED  BY <1>1, <1>2, <1>6, <1>9, <2>1, NextTurnAsGiven DEF s, here
<1>10. CASE Exit(j, Crash) /\ UNCHANGED idx
  <2>1. ExitByte(Crash) # 0  BY DEF ExitByte, Crash
  <2>2. MayRun(j)  BY <1>1 DEF JobOK, Started
  <2> QED  BY <1>1, <1>2, <1>10, <2>1, <2>2, ExitFrame, ExitKept DEF JobOK
<1>11. CASE ~Modifies(units) /\ AfterInput(j, here)
  BY <1>1, <1>2, <1>6, <1>7, <1>11, NextTurnAsGiven DEF s, here
<1>12. CASE AfterInput(j, here) /\ Blame(j, {"rejected"})
  <2>1. blame'[j] = blame[j] \cup {<<pc[j], f>> : f \in {"rejected"}}
    BY <1>12, BlameFrame
  <2>2. <<pc[j], "rejected">> \in blame'[j]  BY <2>1
  <2>3. ~Blameless'  BY <2>2 DEF Blameless
  <2> QED  BY <1>1, <1>2, <1>6, <1>12, <2>3, NextTurnAsGiven DEF s, here
<1>13. CASE /\ Modifies(units)
            /\ module' = [module EXCEPT ![j] = Hooked(units)]
            /\ pc' = [pc EXCEPT ![j] = "open"] /\ UNCHANGED idx
  <2>1. pc'[j] = "open" /\ idx'[j] = here /\ module'[j] = Hooked(units)
    BY <1>13 DEF IInv, Types, here
  <2>2. Hooking  BY <1>13 DEF Modifies
  <2>3. Hooked({Part(s, j, 0)}) = {Part(s, j, 1)}
    <3>1. [Part(s, j, 0) EXCEPT !.hooks = @ + 1] = Part(s, j, 1)  BY DEF Part
    <3> QED  BY <3>1 DEF Hooked
  <2>4. Private(j) /\ ~Misreported(j)' =>
          /\ disk'[Ll[s]] = Whole({Part(s, j, 0)}) /\ module'[j] = {Part(s, j, 1)}
          /\ s \in Hookable
    BY <1>1, <1>5, <1>6, <1>7, <1>13, <2>1, <2>3
  <2>5. Private(j) /\ ~Misreported(j)' => TargetOK(j, idx[j])'
    BY <2>1, <2>2, <2>4 DEF TargetOK, Part, Owner, Whole, Raw, s
  <2> QED  BY <1>1, <1>2, <1>13, <2>1, <2>2, <2>5, SameTurnKept
<1> QED  BY <1>8, <1>9, <1>10, <1>11, <1>12, <1>13

LEMMA OpenModuleKept ==
  ASSUME IInv, NEW j \in Jobs, OpenModule(j), JobOK(j)
  PROVE  JobOK(j)'
<1> DEFINE here == idx[j]
<1> DEFINE s == Cmd[j].inputs[here]
<1>1. /\ pc[j] = "open" /\ pc' = [pc EXCEPT ![j] = "print"]
      /\ UNCHANGED <<inputs, link, idx, module, status, blame>>
  BY DEF OpenModule
<1>2. pc[j] \in InLoop /\ Framed(j) /\ Hooking
  BY <1>1, OpenModuleFrame DEF InLoop, JobOK, Shape
<1>3. here \in DOMAIN Cmd[j].inputs /\ inputs[j][here] = s
  BY <1>2, AtGiven DEF JobOK
<1>4. pc'[j] = "print" /\ idx'[j] = here /\ module'[j] = module[j]
  BY <1>1 DEF IInv, Types
<1>5. Private(j) /\ ~Misreported(j)' => TargetOK(j, idx[j])'
  <2> SUFFICES ASSUME Private(j), ~Misreported(j)' PROVE TargetOK(j, idx[j])'
    OBVIOUS
  <2>1. InputOK(j, here)  BY <1>2, <1>3, LoopInputs
  <2>2. /\ disk[Ll[s]] = Whole({Part(s, j, 0)}) /\ module[j] = {Part(s, j, 1)}
        /\ s \in Hookable
    BY <1>1, <2>1 DEF InputOK, TargetOK
  <2>3. disk[Ll[s]].writers = {}  BY <2>2 DEF Whole
  <2>4. Ll[s] \in Files  BY <1>3, GivenType
  <2>5. disk'[Ll[s]] = Torn({j})  BY <1>3, <2>3, <2>4 DEF OpenModule, IInv, Types
  <2> QED  BY <1>2, <1>4, <2>2, <2>5 DEF TargetOK, Part, Owner, Whole, Torn, Raw
<1> QED  BY <1>1, <1>2, <1>4, <1>5, SameTurnKept

LEMMA PrintModuleKept ==
  ASSUME IInv, NEW j \in Jobs, PrintModule(j), JobOK(j)
  PROVE  JobOK(j)'
<1> SUFFICES ASSUME NEW here, here = idx[j] PROVE JobOK(j)'
  OBVIOUS
<1> DEFINE s == Cmd[j].inputs[here]
<1>1. pc[j] = "print" /\ UNCHANGED <<link, module, status, blame>> /\ AfterInput(j, idx[j])
  BY DEF PrintModule
<1>2. pc[j] \in InLoop /\ Framed(j)  BY <1>1, PrintModuleFrame DEF InLoop
<1>3. /\ here \in DOMAIN Cmd[j].inputs /\ inputs[j][here] = s
      /\ here \in 1 .. Len(inputs[j]) /\ inputs[j] \in Seq(Files)
  BY <1>2, AtGiven, AtInput DEF JobOK
<1>4. PICK file \in Closed(j, disk[Ll[s]]) :
        /\ disk' = [disk EXCEPT ![Ll[s]] = file]
        /\ inputs' = [inputs EXCEPT ![j][here] = Ll[s]]
  BY <1>3 DEF PrintModule
<1>5. s \in Sources /\ Ll[s] \in Files  BY <1>3, GivenType
<1> HIDE DEF s
<1>6. inputs'[j] = [inputs[j] EXCEPT ![here] = Ll[s]]  BY <1>4 DEF IInv, Types
<1>7. /\ Len(inputs'[j]) = Len(inputs[j]) /\ inputs'[j][here] = Ll[s]
      /\ \A i \in 1 .. Len(inputs[j]) : i # here => inputs'[j][i] = inputs[j][i]
  BY <1>3, <1>6
<1>8. ASSUME Private(j), ~Misreported(j)' PROVE HookedOnce(j, here)'
  <2>1. InputOK(j, here)  BY <1>2, <1>3, <1>8, LoopInputs
  <2>2. /\ disk[Ll[s]] = Torn({j}) /\ module[j] = {Part(s, j, 1)}
        /\ Hooking /\ s \in Hookable
    BY <1>1, <2>1 DEF InputOK, TargetOK, s
  <2>3. Closed(j, Torn({j})) = {Whole(module[j])}
    <3>1. j \in Torn({j}).writers /\ Torn({j}) # Mixed({j})  BY DEF Torn, Mixed
    <3> QED  BY <3>1 DEF Closed
  <2>4. Closed(j, disk[Ll[s]]) = {Whole({Part(s, j, 1)})}
    <3> HIDE DEF s
    <3>1. Closed(j, disk[Ll[s]]) = Closed(j, Torn({j}))  BY <2>2
    <3> QED  BY <2>2, <2>3, <3>1
  <2>5. disk'[Ll[s]] = Whole({Part(s, j, 1)})
    <3>1. file = Whole({Part(s, j, 1)})  BY <2>4
    <3> QED  BY <1>4, <1>5, <3>1 DEF IInv, Types
  <2> QED  BY <1>7, <2>2, <2>5 DEF HookedOnce, Part, Owner, Whole, Raw, s
<1>9. Private(j) /\ ~Misreported(j)' => (Hooking /\ s \in Hookable)
  <2> SUFFICES ASSUME Private(j), ~Misreported(j)' PROVE Hooking /\ s \in Hookable
    OBVIOUS
  <2>1. HookedOnce(j, here)'  BY <1>8
  <2> QED  BY <2>1 DEF HookedOnce, s
<1>10. s = Cmd[j].inputs[here]  BY DEF s
<1>11. \A i \in 1 .. Len(inputs[j]) : i # idx[j] => inputs'[j][i] = inputs[j][i]
  BY <1>7, <1>10
<1>12. inputs'[j][here] \in {Cmd[j].inputs[here], Ll[Cmd[j].inputs[here]]}
  BY <1>7, <1>10
<1>13. Private(j) /\ ~Misreported(j)' =>
         /\ AsGiven(j, here)' \/ HookedOnce(j, here)'
         /\ Blameless' => IF Hooking /\ Cmd[j].inputs[here] \in Hookable
                          THEN HookedOnce(j, here)' ELSE AsGiven(j, here)'
  BY <1>8, <1>9, <1>10
<1> QED  BY <1>1, <1>2, <1>7, <1>10, <1>11, <1>12, <1>13, NextTurnKept

LEMMA ExitsKept ==
  ASSUME IInv, NEW j \in Jobs, PhasesFail(j) \/ OpenFails(j) \/ PrintFails(j), JobOK(j)
  PROVE  JobOK(j)'
<1>1. UNCHANGED <<inputs, link, idx>>  BY DEF PhasesFail, OpenFails, PrintFails
<1>2. MayRun(j)
  BY DEF PhasesFail, OpenFails, PrintFails, Startable, MayRun, JobOK, Started
<1>3. Framed(j) /\ pc'[j] = "done" /\ status'[j] # 0
  BY PhasesFailFrame, OpenFailsFrame, PrintFailsFrame
<1> QED  BY <1>1, <1>2, <1>3, ExitKept DEF JobOK
-----------------------------------------------------------------------------
(***************************************************************************)
(* The last command.                                                       *)
(***************************************************************************)
(* Its files, when the compiler named every input: the objects, then the   *)
(* vector inputs, then the runtime.                                        *)
LEMMA CommandPlaces ==
  ASSUME IInv, NEW j \in Jobs, Len(inputs[j]) = Len(Cmd[j].inputs)
  PROVE  LET objects == Cmd[j].objects
             files == CommandFiles(j)
         IN /\ \A p \in DOMAIN objects : p \in DOMAIN files /\ files[p] = objects[p]
            /\ \A i \in DOMAIN Cmd[j].inputs :
                 /\ Len(objects) + i \in DOMAIN files
                 /\ files[Len(objects) + i] = inputs[j][i]
            /\ \A p \in DOMAIN files :
                 \/ p \in DOMAIN objects
                 \/ \E i \in DOMAIN Cmd[j].inputs : p = Len(objects) + i
                 \/ link[j] /\ files[p] = RuntimeO /\ p = Len(objects) + Len(inputs[j]) + 1
            /\ link[j] => \E p \in DOMAIN files : files[p] = RuntimeO
<1> DEFINE objects == Cmd[j].objects
<1> DEFINE given == Cmd[j].inputs
<1> DEFINE now == inputs[j]
<1> DEFINE last == IF link[j] THEN <<RuntimeO>> ELSE <<>>
<1> DEFINE rest == SubSeq(given, Len(now) + 1, Len(given))
<1>1. objects \in Seq(Files) /\ given \in Seq(Sources) /\ now \in Seq(Files)
  BY CmdTypes DEF IInv, Types
<1>2. rest = <<>>  BY <1>1
<1>3. last \in Seq(Files) /\ (link[j] => Len(last) = 1 /\ last[1] = RuntimeO)
      /\ (~link[j] => Len(last) = 0)
  OBVIOUS
<1>4. CommandFiles(j) = objects \o rest \o now \o last  BY DEF CommandFiles
<1> HIDE DEF objects, given, now, last, rest
<1>5. CommandFiles(j) = (objects \o now) \o last  BY <1>1, <1>2, <1>4
<1>6. /\ objects \o now \in Seq(Files) /\ Len(objects \o now) = Len(objects) + Len(now)
      /\ \A p \in 1 .. Len(objects) : (objects \o now)[p] = objects[p]
      /\ \A i \in 1 .. Len(now) : (objects \o now)[Len(objects) + i] = now[i]
  BY <1>1
<1>7. DOMAIN given = 1 .. Len(now) /\ DOMAIN objects = 1 .. Len(objects)
  BY <1>1 DEF now, given
<1> DEFINE front == objects \o now
<1> DEFINE files == front \o last
<1>8. /\ Len(files) = Len(front) + Len(last) /\ DOMAIN files = 1 .. Len(files)
      /\ \A p \in 1 .. Len(front) : files[p] = front[p]
      /\ \A p \in 1 .. Len(last) : files[Len(front) + p] = last[p]
  <2> HIDE DEF front
  <2> QED  BY <1>3, <1>6 DEF front
<1>9. Len(objects) \in Nat /\ Len(now) \in Nat  BY <1>1
<1> HIDE DEF files, front
<1>10. Len(front) = Len(objects) + Len(now)  BY <1>6 DEF front
<1>11. \A p \in DOMAIN objects : p \in DOMAIN files /\ files[p] = objects[p]
  <2> TAKE p \in DOMAIN objects
  <2>1. p \in 1 .. Len(front) /\ p \in 1 .. Len(files)
    BY <1>3, <1>7, <1>8, <1>9, <1>10
  <2> QED  BY <1>6, <1>7, <1>8, <2>1 DEF front
<1>12. \A i \in DOMAIN given :
         Len(objects) + i \in DOMAIN files /\ files[Len(objects) + i] = now[i]
  <2> TAKE i \in DOMAIN given
  <2>1. Len(objects) + i \in 1 .. Len(front) /\ Len(objects) + i \in 1 .. Len(files)
    BY <1>3, <1>7, <1>8, <1>9, <1>10
  <2> QED  BY <1>6, <1>7, <1>8, <2>1 DEF front
<1>13. ASSUME NEW p \in DOMAIN files
       PROVE  \/ p \in DOMAIN objects
              \/ \E i \in DOMAIN given : p = Len(objects) + i
              \/ link[j] /\ files[p] = RuntimeO /\ p = Len(objects) + Len(now) + 1
  <2>1. p \in 1 .. Len(files)  BY <1>8
  <2>2. CASE p <= Len(objects)  BY <1>7, <1>9, <2>1, <2>2
  <2>3. CASE p > Len(objects) /\ p <= Len(front)
    <3>1. p - Len(objects) \in DOMAIN given /\ p = Len(objects) + (p - Len(objects))
      BY <1>7, <1>9, <1>10, <2>1, <2>3
    <3> QED  BY <3>1
  <2>4. CASE p > Len(front)
    <3>1. link[j]  BY <1>3, <1>8, <1>9, <1>10, <2>1, <2>4
    <3>2. Len(last) = 1 /\ Len(front) \in Nat  BY <1>3, <1>9, <1>10, <3>1
    <3>3. Len(files) = Len(front) + 1  BY <1>8, <3>2
    <3>4. p = Len(front) + 1
      <4> HIDE DEF last
      <4> QED  BY <2>1, <2>4, <3>2, <3>3
    <3>5. files[p] = last[1]  BY <1>3, <1>8, <3>1, <3>4
    <3> QED  BY <1>3, <1>10, <3>1, <3>4, <3>5
  <2> QED  BY <1>9, <1>10, <2>1, <2>2, <2>3, <2>4
<1>14. link[j] => \E p \in DOMAIN files : files[p] = RuntimeO
  <2> SUFFICES ASSUME link[j] PROVE \E p \in DOMAIN files : files[p] = RuntimeO
    OBVIOUS
  <2>1. Len(front) + 1 \in DOMAIN files  BY <1>3, <1>8, <1>9, <1>10
  <2>2. files[Len(front) + 1] = RuntimeO
    <3>1. Len(last) = 1 /\ last[1] = RuntimeO  BY <1>3
    <3>2. \A q \in 1 .. Len(last) : files[Len(front) + q] = last[q]  BY <1>8
    <3> HIDE DEF last
    <3> QED  BY <3>1, <3>2
  <2> QED  BY <2>1, <2>2
<1>15. files = CommandFiles(j)  BY <1>5 DEF files, front
<1> QED  BY <1>11, <1>12, <1>13, <1>14, <1>15 DEF objects, given, now

(* What a file with one unit gives to a command that the compiler accepts. *)
LEMMA OnlyUnit ==
  ASSUME NEW j \in Jobs, Buildable(j), NEW p \in DOMAIN CommandFiles(j), NEW x,
         UnitsOf(j, CommandFiles(j)[p]) = {x}
  PROVE  {u \in Product(j) : u.src = x.src} = {x}
<1> DEFINE files == CommandFiles(j)
<1>1. x \in Product(j)  BY DEF Product
<1>2. ASSUME NEW u \in Product(j), u.src = x.src PROVE u = x
  <2>1. PICK q \in DOMAIN files : u \in UnitsOf(j, files[q])  BY DEF Product
  <2>2. q # p => u.src # x.src  BY <2>1 DEF Buildable
  <2> QED  BY <1>2, <2>1, <2>2
<1> QED  BY <1>1, <1>2

(* What the compiler makes of an input that the loop has left as it should. *)
LEMMA InputUnits ==
  ASSUME IInv, NEW j \in Jobs, pc[j] = "final", JobOK(j), Private(j), ~Misreported(j),
         NEW i \in DOMAIN Cmd[j].inputs
  PROVE  LET s == Cmd[j].inputs[i]
         IN \E n \in {0, 1} :
              /\ UnitsOf(j, inputs[j][i]) = {Part(s, j, n)}
              /\ Blameless => n = IF Hooking /\ s \in Hookable THEN 1 ELSE 0
<1> DEFINE s == Cmd[j].inputs[i]
<1>1. InputOK(j, i) /\ Len(inputs[j]) = Len(Cmd[j].inputs)
  BY DEF JobOK, WorkOK, Working
<1>2. s \in Sources  BY GivenType
<1>3. i < idx[j]
  <2>1. idx[j] = Len(inputs[j]) + 1  BY DEF JobOK, Shape
  <2>2. i \in 1 .. Len(inputs[j]) /\ Len(inputs[j]) \in Nat  BY <1>1, CmdTypes
  <2> QED  BY <2>1, <2>2
<1>4. AsGiven(j, i) => UnitsOf(j, inputs[j][i]) = {Part(s, j, 0)}
  <2> SUFFICES ASSUME AsGiven(j, i) PROVE UnitsOf(j, s) = {Part(s, j, 0)}
    BY DEF AsGiven
  <2>1. CASE Raw(s)  BY <1>2, <2>1 DEF UnitsOf, Made, Part, Owner
  <2>2. CASE ~Raw(s)  BY <2>2 DEF AsGiven, UnitsOf, Whole
  <2> QED  BY <2>1, <2>2
<1>5. HookedOnce(j, i) => UnitsOf(j, inputs[j][i]) = {Part(s, j, 1)}
  <2>1. Ll[s] \in Sources => ~Raw(Ll[s])  BY <1>2 DEF Raw
  <2> QED  BY <2>1 DEF HookedOnce, UnitsOf, Whole
<1>6. CASE Hooking /\ s \in Hookable
  BY <1>1, <1>3, <1>4, <1>5, <1>6 DEF InputOK
<1>7. CASE ~(Hooking /\ s \in Hookable)
  <2>1. AsGiven(j, i)  BY <1>1, <1>3, <1>7 DEF InputOK, HookedOnce
  <2> QED  BY <1>4, <1>7, <2>1
<1> QED  BY <1>6, <1>7

LEMMA FinalCompileKept ==
  ASSUME IInv, NEW j \in Jobs, FinalCompile(j), JobOK(j)
  PROVE  JobOK(j)'
<1> DEFINE made == IF Buildable(j) THEN Whole(Product(j)) ELSE Absent
<1> DEFINE out == Cmd[j].out
<1>1. PICK code \in Codes : ExecFork(j, out, made, code) /\ Exit(j, code)
  BY DEF FinalCompile
<1>2. pc[j] = "final" /\ UNCHANGED <<inputs, link, idx, module>> /\ out \in Files
  BY CmdTypes DEF FinalCompile
<1>3. Framed(j) /\ pc'[j] = "done"  BY FinalCompileFrame
<1>4. MayRun(j)  BY <1>2 DEF JobOK, Started
<1>5. status'[j] = 0 => code = 0
  BY <1>1, ExitFrame DEF ExitByte, Codes
<1>6. DoneOK(j)'
  <2> SUFFICES ASSUME Private(j), ~Misreported(j)', status'[j] = 0
               PROVE  Right(j)' /\ (Blameless' => HooksRight(j)')
    BY DEF DoneOK, Private
  <2>1. made # Absent /\ disk'[out] = made
    <3> HIDE DEF made
    <3> QED  BY <1>1, <1>2, <1>5, ForkSucceeded
  <2>2. Buildable(j) /\ disk'[out] = Whole(Product(j))  BY <2>1
  <2>3. disk'[out].state = "whole" /\ disk'[out].units = Product(j)  BY <2>2 DEF Whole
  <2>4. ~Misreported(j)  BY <1>3, NotMisreportedBefore
  <2>5. Len(inputs[j]) = Len(Cmd[j].inputs)
    BY <1>2, <2>4 DEF JobOK, WorkOK, Working
  <2>6. /\ \A p \in DOMAIN Cmd[j].objects :
             p \in DOMAIN CommandFiles(j) /\ CommandFiles(j)[p] = Cmd[j].objects[p]
        /\ \A i \in DOMAIN Cmd[j].inputs :
             /\ Len(Cmd[j].objects) + i \in DOMAIN CommandFiles(j)
             /\ CommandFiles(j)[Len(Cmd[j].objects) + i] = inputs[j][i]
    BY <2>5, CommandPlaces
  <2>7. ASSUME NEW s \in InputSet(j)
        PROVE  \E n \in {0, 1} :
                 /\ {u \in Product(j) : u.src = s} = {Part(s, j, n)}
                 /\ Blameless => n = IF Hooking /\ s \in Hookable THEN 1 ELSE 0
    <3>1. PICK i \in DOMAIN Cmd[j].inputs : s = Cmd[j].inputs[i]  BY DEF InputSet
    <3>2. PICK n \in {0, 1} :
            /\ UnitsOf(j, inputs[j][i]) = {Part(s, j, n)}
            /\ Blameless => n = IF Hooking /\ s \in Hookable THEN 1 ELSE 0
      <4>1. \E n \in {0, 1} :
              /\ UnitsOf(j, inputs[j][i]) = {Part(Cmd[j].inputs[i], j, n)}
              /\ Blameless => n = IF Hooking /\ Cmd[j].inputs[i] \in Hookable THEN 1 ELSE 0
        BY <1>2, <2>4, InputUnits
      <4> QED  BY <3>1, <4>1
    <3>3. PICK p \in DOMAIN CommandFiles(j) : CommandFiles(j)[p] = inputs[j][i]
      BY <2>6
    <3>4. Part(s, j, n).src = s  BY DEF Part
    <3> QED  BY <2>2, <3>2, <3>3, <3>4, OnlyUnit
  <2>8. ASSUME NEW o \in ObjectSet(j) PROVE disk'[o].units \subseteq Product(j)
    <3>1. PICK p \in DOMAIN CommandFiles(j) : CommandFiles(j)[p] = o
      BY <2>6 DEF ObjectSet
    <3>2. PICK l \in Jobs : o = Cmd[l].out  BY <1>2, ObjectMaker DEF JobOK
    <3>3. o \notin Sources  BY <3>2
    <3>4. UnitsOf(j, o) = disk[o].units  BY <3>3 DEF UnitsOf
    <3>5. disk[o].units \subseteq Product(j)  BY <3>1, <3>4 DEF Product
    <3>6. CASE o = out  BY <2>3, <3>6
    <3>7. CASE o # out
      <4>1. o \in Files /\ ~Writes(j, o)
        BY <1>2, ObjectNotWritten DEF JobOK
      <4> QED  BY <1>3, <3>5, <4>1 DEF Framed
    <3> QED  BY <3>6, <3>7
  <2>9. Right(j)'
    BY <2>3, <2>7, <2>8 DEF Right, Part, Owner, Raw
  <2>10. Blameless' => HooksRight(j)'
    <3> SUFFICES ASSUME Blameless', NEW s \in InputSet(j), NEW u \in Product(j), u.src = s
                 PROVE  u.hooks = IF Hooking /\ s \in Hookable THEN 1 ELSE 0
      BY <2>3 DEF HooksRight
    <3>1. PICK n \in {0, 1} :
            /\ {v \in Product(j) : v.src = s} = {Part(s, j, n)}
            /\ n = IF Hooking /\ s \in Hookable THEN 1 ELSE 0
      BY <1>3, <2>7, BlamelessBefore
    <3>2. u = Part(s, j, n)  BY <3>1
    <3> QED  BY <3>1, <3>2 DEF Part
  <2> QED  BY <2>9, <2>10
<1>7. Shape(j)'  BY <1>2, <1>3 DEF JobOK, Shape
<1>8. Started(j)'  BY <1>3, <1>4, StartedNow
<1>9. WorkOK(j)' /\ IdleOK(j)'  BY <1>3 DEF WorkOK, IdleOK, Working
<1> QED  BY <1>6, <1>7, <1>8, <1>9 DEF JobOK
-----------------------------------------------------------------------------
(***************************************************************************)
(* The whole invariant.                                                    *)
(***************************************************************************)
(* The stages that lead to one where a job needs the declaration. *)
LEMMA LoopStages ==
  ASSUME IInv, NEW j \in Jobs, Step(j), Hooking, pc'[j] \in {"runtime"} \cup InLoop
  PROVE  pc[j] \in {"declaration", "runtime"} \cup InLoop
<1>1. CASE pc[j] = "idle"
  <2>1. PhasesFail(j) \/ PhasesParsed(j)
    BY <1>1 DEF Step, PhasesFail, PhasesParsed, GenerateDeclaration, GenerateRuntime, GenerateLl,
       ApplyPass, OpenModule, OpenFails, PrintModule, PrintFails, FinalCompile
  <2>2. pc'[j] \in {"declaration", "done"}
    <3>1. CASE PhasesFail(j)  BY <3>1, PhasesFailFrame
    <3>2. CASE PhasesParsed(j)
      BY <3>2, ExitFrame DEF PhasesParsed, IInv, Types
    <3> QED  BY <2>1, <3>1, <3>2
  <2> QED  BY <2>2 DEF InLoop
<1>2. pc[j] # "done"  BY StepFrame DEF Framed
<1>3. CASE pc[j] = "final"
  <2>1. FinalCompile(j)
    BY <1>3 DEF Step, PhasesFail, PhasesParsed, Startable, GenerateDeclaration, GenerateRuntime,
       GenerateLl, ApplyPass, OpenModule, OpenFails, PrintModule, PrintFails
  <2> QED  BY <2>1, FinalCompileFrame DEF InLoop
<1>4. pc[j] \in Stages  BY DEF IInv, Types
<1> QED  BY <1>1, <1>2, <1>3, <1>4 DEF Stages, InLoop

LEMMA DeclarationStep ==
  ASSUME IInv, DeclarationOK, NEW j \in Jobs, Step(j)
  PROVE  DeclarationOK'
<1> SUFFICES ASSUME Blameless', Hooking, NEW k \in Jobs, pc'[k] \in {"runtime"} \cup InLoop
             PROVE  Parses(DeclarationLl)'
  BY DEF DeclarationOK, Hooking
<1>1. Framed(j) /\ Blameless  BY StepFrame, BlamelessBefore
<1>2. CASE pc[j] = "declaration"
  <2>1. GenerateDeclaration(j)
    BY <1>2 DEF Step, PhasesFail, PhasesParsed, Startable, GenerateRuntime, GenerateLl,
       ApplyPass, OpenModule, OpenFails, PrintModule, PrintFails, FinalCompile
  <2> DEFINE made == Whole(Made(DeclarationLl, j))
  <2>2. PICK code \in Codes : ExecFork(j, DeclarationLl, made, code)
    BY <2>1 DEF GenerateDeclaration
  <2>3. made # Absent  BY DEF Whole, Absent
  <2>4. blame'[j] = {}  BY DEF Blameless
  <2> HIDE DEF made
  <2>5. code = 0 /\ ~Misreported(j)'
    <3>1. code = 0  BY <2>2, <2>3, <2>4, ForkBlamed
    <3> QED  BY <2>4, <3>1 DEF Misreported
  <2>6. disk'[DeclarationLl] = made  BY <2>2, <2>5, ForkSucceeded
  <2> QED  BY <2>6 DEF made, Whole, Parses
<1>3. CASE pc[j] # "declaration"
  <2>1. pc[k] \in {"runtime"} \cup InLoop
    <3>1. CASE k = j  BY <1>3, <3>1, LoopStages
    <3>2. CASE k # j  BY <1>1, <3>2 DEF Framed, SameJob
    <3> QED  BY <3>1, <3>2
  <2>2. Parses(DeclarationLl)  BY <1>1, <2>1 DEF DeclarationOK
  <2>3. ~Writes(j, DeclarationLl)
    <3>1. pc[j] \in InLoop => Ll[inputs[j][idx[j]]] # DeclarationLl  BY AtInput
    <3> QED  BY <1>3, <3>1 DEF Writes
  <2> QED  BY <1>1, <2>2, <2>3 DEF Framed, Parses
<1> QED  BY <1>2, <1>3

LEMMA JobStep ==
  ASSUME IInv, DeclarationOK, NEW j \in Jobs, Step(j), \A k \in Jobs : JobOK(k)
  PROVE  \A k \in Jobs : JobOK(k)'
<1>1. JobOK(j)'
  BY PhasesParsedKept, GenerateDeclarationKept, GenerateRuntimeKept, GenerateLlKept,
     ApplyPassKept, OpenModuleKept, PrintModuleKept, ExitsKept, FinalCompileKept
  DEF Step
<1>2. Framed(j) /\ Shape(j)  BY StepFrame DEF JobOK
<1> QED  BY <1>1, <1>2, OtherKept

LEMMA InitOutInv == Init => OutInv
<1> SUFFICES ASSUME Init PROVE OutInv
  OBVIOUS
<1>1. IInv  BY InitIInv
<1>2. DeclarationOK  BY DEF Init, DeclarationOK, InLoop
<1>3. ASSUME NEW j \in Jobs PROVE JobOK(j)
  <2>1. /\ pc[j] = "idle" /\ inputs[j] = <<>> /\ link[j] = FALSE /\ idx[j] = 1
        /\ \E kind \in Leftovers : disk = [f \in Files |-> Leftover(kind, f)]
    BY DEF Init
  <2>2. Shape(j)
    <3>1. Len(inputs[j]) = 0 /\ Len(Cmd[j].inputs) \in Nat  BY <2>1, CmdTypes
    <3> QED  BY <2>1, <3>1 DEF Shape
  <2>3. IdleOK(j)
    <3> SUFFICES ASSUME NEW i \in DOMAIN Cmd[j].inputs, ~Raw(Cmd[j].inputs[i])
                 PROVE  disk[Cmd[j].inputs[i]] \in {Absent, Whole({Part(Cmd[j].inputs[i], j, 0)})}
      BY DEF IdleOK
    <3> DEFINE s == Cmd[j].inputs[i]
    <3>1. s \in Sources  BY GivenType
    <3>2. Made(s, Earlier) = {Part(s, j, 0)}  BY DEF Made, Part, Owner
    <3>3. PICK kind \in Leftovers : disk = [f \in Files |-> Leftover(kind, f)]  BY <2>1
    <3> HIDE DEF s
    <3>4. disk[s] = Leftover(kind, s)  BY <3>1, <3>3
    <3>5. disk[s] \in {Absent, Whole(Made(s, Earlier))}
      <4>1. s \in Piped \/ s \in Sources \ Piped  BY <3>1
      <4> QED  BY <3>1, <3>4, <4>1 DEF Leftover
    <3> QED  BY <3>2, <3>5 DEF s
  <2> QED  BY <2>1, <2>2, <2>3 DEF JobOK, Started, WorkOK, Working, DoneOK
<1> QED  BY <1>1, <1>2, <1>3 DEF OutInv

LEMMA StutterOutInv == OutInv /\ UNCHANGED vars => OutInv'
<1> SUFFICES ASSUME OutInv, UNCHANGED vars PROVE OutInv'
  OBVIOUS
<1>1. IInv'  BY StutterStep DEF OutInv
<1>2. DeclarationOK'
  BY DEF OutInv, DeclarationOK, Blameless, Parses, vars, Hooking, InLoop
<1>3. ASSUME NEW j \in Jobs PROVE JobOK(j)'
  <2>1. SameJob(j) /\ disk' = disk /\ pc' = pc /\ status' = status /\ JobOK(j)
    BY DEF vars, SameJob, OutInv
  <2>2. Misreported(j)' <=> Misreported(j)  BY <2>1 DEF Misreported, SameJob
  <2>3. Blameless' => Blameless  BY DEF Blameless, vars
  <2>4. Shape(j)'  BY <2>1 DEF JobOK, Shape, SameJob
  <2>5. Started(j)' /\ IdleOK(j)'
    BY <2>1 DEF JobOK, Started, MayRun, IdleOK, Private, Raw, Absent, Whole, Part, Owner
  <2>6. WorkOK(j)'
    <3>1. \A i \in DOMAIN Cmd[j].inputs : InputOK(j, i) => InputOK(j, i)'
      BY <2>1, <2>3, InputKept
    <3> QED  BY <2>1, <2>2, <3>1 DEF JobOK, WorkOK, Working, Private, SameJob
  <2>7. DoneOK(j)'
    <3>1. (Right(j)' <=> Right(j)) /\ (HooksRight(j)' <=> HooksRight(j))
      BY <2>1 DEF Right, HooksRight
    <3> QED  BY <2>1, <2>2, <2>3, <3>1 DEF JobOK, DoneOK, Private
  <2> QED  BY <2>4, <2>5, <2>6, <2>7 DEF JobOK
<1> QED  BY <1>1, <1>2, <1>3 DEF OutInv

LEMMA NextOutInv == OutInv /\ [Next]_vars => OutInv'
<1> SUFFICES ASSUME OutInv, Next PROVE OutInv'
  BY StutterOutInv
<1>1. PICK j \in Jobs : Step(j)  BY DEF Next
<1>2. IInv'  BY NextIInv DEF OutInv
<1> QED  BY <1>1, <1>2, DeclarationStep, JobStep DEF OutInv

THEOREM OutputInvariance == Spec => []OutInv
BY InitOutInv, NextOutInv, PTL DEF Spec

(* A wrapper that exits with 0, and none of whose children is misreported, *)
(* has built what the compiler alone would have built.                     *)
THEOREM OutputFaithful == Spec => []FaithfulOutput
<1>1. OutInv => FaithfulOutput  BY DEF OutInv, JobOK, DoneOK, FaithfulOutput
<1> QED  BY <1>1, OutputInvariance, PTL

(* Where nothing goes wrong every call of interest is hooked exactly once. *)
THEOREM EverythingInstrumented == Spec => []Instrumented
<1>1. OutInv => Instrumented
  <2> SUFFICES ASSUME OutInv, NEW j \in Jobs, pc[j] = "done", status[j] = 0, Private(j),
                      \A k \in Jobs : blame[k] = {}
               PROVE  HooksRight(j)
    BY DEF Instrumented, HooksRight
  <2>1. Blameless /\ ~Misreported(j)  BY DEF Blameless, Misreported
  <2> QED  BY <2>1 DEF OutInv, JobOK, DoneOK
<1> QED  BY <1>1, OutputInvariance, PTL
-----------------------------------------------------------------------------
(***************************************************************************)
(* The refinement of the plain build, where no end of a child is           *)
(* misreported and no two inputs have one .ll file.                        *)
(***************************************************************************)
OwnFaults == {"assertion", "crash", "rejected", "io"}

(* The job runs the compiler. *)
Compiles(j) == \E f \in Files : \E made, code : ExecFork(j, f, made, code)

(* What a job is blamed for is a fate of its child or a fault of its own. *)
LEMMA StepBlame ==
  ASSUME IInv, NEW j \in Jobs, Step(j), NEW b \in blame'[j]
  PROVE  b \in blame[j] \/ \E f \in Fates \cup OwnFaults : b = <<pc[j], f>>
<1>1. CASE UNCHANGED blame  BY <1>1
<1>2. CASE \E faults \in SUBSET (Fates \cup OwnFaults) : Blame(j, faults)
  BY <1>2, BlameFrame
<1>3. CASE Compiles(j)
  <2>1. PICK f \in Files : \E made, code : ExecFork(j, f, made, code)  BY <1>3 DEF Compiles
  <2>2. PICK made, code : ExecFork(j, f, made, code)  BY <2>1
  <2>3. PICK fate \in Fates :
          blame'[j] = blame[j] \cup
            {<<pc[j], x>> : x \in IF fate = "succeeds" \/ (fate = "fails" /\ made = Absent)
                                  THEN {} ELSE {fate}}
    BY <2>2, ForkEffect
  <2> QED  BY <2>3
<1>4. PhasesFail(j) => \E faults \in SUBSET (Fates \cup OwnFaults) : Blame(j, faults)
  BY DEF PhasesFail
<1>5. PhasesParsed(j) => \E faults \in SUBSET (Fates \cup OwnFaults) : Blame(j, faults)
  <2> SUFFICES ASSUME PhasesParsed(j)
               PROVE  \E faults \in SUBSET (Fates \cup OwnFaults) : Blame(j, faults)
    OBVIOUS
  <2>1. PICK fate \in Fates : Blame(j, {fate} \ {"succeeds"}) \/ Blame(j, {"assertion"})
    BY DEF PhasesParsed
  <2>2. /\ {fate} \ {"succeeds"} \in SUBSET (Fates \cup OwnFaults)
        /\ {"assertion"} \in SUBSET (Fates \cup OwnFaults)
    BY DEF OwnFaults
  <2> QED  BY <2>1, <2>2
<1>6. ApplyPass(j) =>
        UNCHANGED blame \/ \E faults \in SUBSET (Fates \cup OwnFaults) : Blame(j, faults)
  <2> SUFFICES ASSUME ApplyPass(j)
               PROVE  UNCHANGED blame \/ Blame(j, {"crash"}) \/ Blame(j, {"rejected"})
    BY DEF OwnFaults
  <2> QED  BY DEF ApplyPass
<1>7. OpenFails(j) \/ PrintFails(j) =>
        \E faults \in SUBSET (Fates \cup OwnFaults) : Blame(j, faults)
  BY DEF OpenFails, PrintFails, OwnFaults
<1>8. OpenModule(j) \/ PrintModule(j) => UNCHANGED blame
  BY DEF OpenModule, PrintModule
<1>9. GenerateDeclaration(j) \/ GenerateRuntime(j) => Compiles(j)
  BY DEF Compiles, GenerateDeclaration, GenerateRuntime
<1>10. GenerateLl(j) => UNCHANGED blame \/ Compiles(j)
  <2> SUFFICES ASSUME GenerateLl(j), ~UNCHANGED blame PROVE Compiles(j)
    OBVIOUS
  <2>1. Ll[inputs[j][idx[j]]] \in Files  BY AtInput DEF GenerateLl, InLoop
  <2> QED  BY <2>1 DEF Compiles, GenerateLl
<1>11. FinalCompile(j) => Compiles(j)
  BY CmdTypes DEF Compiles, FinalCompile
<1> QED  BY <1>1, <1>2, <1>3, <1>4, <1>5, <1>6, <1>7, <1>8, <1>9, <1>10, <1>11 DEF Step

(* runtime.o holds nothing but the runtime. *)
RuntimeUnits == \A u \in disk[RuntimeO].units : u.src = RuntimeO

(* A run of the compiler leaves its output as it was, gone, or as it should be. *)
LEMMA ForkLeaves ==
  ASSUME IInv, NEW j \in Jobs, NEW f \in Files, NEW made, NEW code, ExecFork(j, f, made, code)
  PROVE  disk'[f] \in {disk[f], Absent, made}
<1>1. PICK fate \in Fates : disk'[f] \in Outcomes(fate, disk[f], made)  BY ForkEffect
<1>2. fate \in AllFates  OBVIOUS
<1> QED  BY <1>1, <1>2 DEF Outcomes, AllFates

LEMMA RuntimeUnitsStep ==
  ASSUME IInv, RuntimeUnits, NEW j \in Jobs, Step(j)
  PROVE  RuntimeUnits'
<1>1. Framed(j)  BY StepFrame
<1>2. CASE pc[j] = "runtime"
  <2>1. GenerateRuntime(j)
    BY <1>2 DEF Step, PhasesFail, PhasesParsed, Startable, GenerateDeclaration, GenerateLl,
       ApplyPass, OpenModule, OpenFails, PrintModule, PrintFails, FinalCompile
  <2>2. disk'[RuntimeO] \in {disk[RuntimeO], Absent, Whole(Made(RuntimeO, j))}
    BY <2>1, ForkLeaves DEF GenerateRuntime
  <2> QED  BY <2>2 DEF RuntimeUnits, Absent, Whole, Made
<1>3. CASE pc[j] # "runtime"
  <2>1. pc[j] \in InLoop => Ll[inputs[j][idx[j]]] # RuntimeO  BY AtInput
  <2>2. ~Writes(j, RuntimeO)  BY <1>3, <2>1 DEF Writes
  <2> QED  BY <1>1, <2>2 DEF Framed, RuntimeUnits
<1> QED  BY <1>2, <1>3

(* A wrapper that ends before its last command ends with a failure. *)
LEMMA EarlyEnd ==
  ASSUME IInv, NEW j \in Jobs, Step(j), pc[j] # "final", pc'[j] = "done"
  PROVE  status'[j] # 0
<1>1. ExitByte(Crash) # 0  BY DEF ExitByte, Crash
<1>2. CASE Exit(j, Crash)  BY <1>1, <1>2, ExitFrame
<1>3. CASE PhasesFail(j) \/ OpenFails(j) \/ PrintFails(j)
  BY <1>3, PhasesFailFrame, OpenFailsFrame, PrintFailsFrame
<1>4. AfterInput(j, 0) \/ AfterInput(j, idx[j]) => FALSE
  <2>1. idx[j] \in Nat  BY DEF IInv, Types
  <2> QED  BY <2>1, AfterInputFrame
<1>5. \A to \in Stages \ {"done"} : pc' # [pc EXCEPT ![j] = to]  BY DEF IInv, Types
<1>6. PhasesParsed(j) => Exit(j, Crash)
  BY DEF PhasesParsed, IInv, Types
<1>7. GenerateDeclaration(j) \/ GenerateRuntime(j) => Exit(j, Crash)
  BY <1>4, <1>5 DEF GenerateDeclaration, GenerateRuntime, Stages
<1>8. ~GenerateLl(j)  BY <1>4, <1>5 DEF GenerateLl, AfterCompile, Stages
<1>9. ApplyPass(j) => Exit(j, Crash)
  BY <1>4, <1>5 DEF ApplyPass, Caught, Stages
<1>10. ~OpenModule(j) /\ ~PrintModule(j)
  BY <1>4, <1>5 DEF OpenModule, PrintModule, Stages
<1> QED  BY <1>2, <1>3, <1>6, <1>7, <1>8, <1>9, <1>10 DEF Step, FinalCompile

(* The hypotheses of the refinement: no end of a child is misreported, and *)
(* every input has an .ll file of its own.                                 *)
Reported == Fates \cap {"killed", "unwaited"} = {}
AllPrivate == \A j \in Jobs : Private(j)

NoneMisreported == \A j \in Jobs : ~Misreported(j)

PlainInv == OutInv /\ RuntimeUnits /\ NoneMisreported

LEMMA NoneMisreportedStep ==
  ASSUME Reported, IInv, NoneMisreported, NEW j \in Jobs, Step(j)
  PROVE  NoneMisreported'
<1> SUFFICES ASSUME NEW k \in Jobs, NEW b \in blame'[k]
             PROVE  b[2] \notin {"killed", "unwaited"}
  BY DEF NoneMisreported, Misreported
<1>1. CASE b \in blame[k]  BY <1>1 DEF NoneMisreported, Misreported
<1>2. CASE b \notin blame[k]
  <2>1. k = j  BY <1>2, StepFrame DEF Framed, SameJob
  <2>2. PICK f \in Fates \cup OwnFaults : b = <<pc[j], f>>  BY <1>2, <2>1, StepBlame
  <2>3. f \notin {"killed", "unwaited"}  BY DEF Reported, OwnFaults
  <2> QED  BY <2>2, <2>3
<1> QED  BY <1>1, <1>2

LEMMA PlainInvStep ==
  ASSUME Reported, PlainInv, [Next]_vars
  PROVE  PlainInv'
<1>1. OutInv'  BY NextOutInv DEF PlainInv
<1>2. RuntimeUnits' /\ NoneMisreported'
  <2>1. CASE UNCHANGED vars
    BY <2>1 DEF PlainInv, RuntimeUnits, NoneMisreported, Misreported, vars
  <2>2. CASE Next
    BY <2>2, RuntimeUnitsStep, NoneMisreportedStep DEF Next, PlainInv, OutInv
  <2> QED  BY <2>1, <2>2
<1> QED  BY <1>1, <1>2 DEF PlainInv

LEMMA PlainInvInit == Init => PlainInv
<1> SUFFICES ASSUME Init PROVE PlainInv
  OBVIOUS
<1>1. NoneMisreported  BY DEF Init, NoneMisreported, Misreported
<1>2. PICK kind \in Leftovers : disk = [f \in Files |-> Leftover(kind, f)]  BY DEF Init
<1>3. disk[RuntimeO] \in {Absent, Torn({}), Whole(EarlierUnits(RuntimeO))}
  <2>1. disk[RuntimeO] = Leftover(kind, RuntimeO) /\ RuntimeO \notin Sources  BY <1>2
  <2>2. kind \in {"absent", "torn", "earlier"}  OBVIOUS
  <2> QED  BY <2>1, <2>2 DEF Leftover
<1>4. EarlierUnits(RuntimeO) = Made(RuntimeO, Earlier)
  <2>1. {s \in Sources : Ll[s] = RuntimeO} = {}  OBVIOUS
  <2>2. {k \in Jobs : Cmd[k].out = RuntimeO} = {}  OBVIOUS
  <2> QED  BY <2>1, <2>2 DEF EarlierUnits
<1>5. RuntimeUnits
  BY <1>3, <1>4 DEF RuntimeUnits, Absent, Torn, Whole, Made
<1> QED  BY <1>1, <1>5, InitOutInv DEF PlainInv

(* The outputs of an earlier build hold nothing but inputs and what it made. *)
LEMMA InitPlain == Init => Plain!PlainInit
<1> SUFFICES ASSUME Init PROVE Plain!PlainInit
  OBVIOUS
<1>1. plainState = [j \in Jobs |-> "pending"]  BY DEF Init, plainState
<1>2. PICK kind \in Leftovers : disk = [f \in Files |-> Leftover(kind, f)]  BY DEF Init
<1>3. ASSUME NEW j \in Jobs
      PROVE  Seen(Cmd[j].out) \in SUBSET (Sources \X (Jobs \cup {Earlier}))
  <2> DEFINE out == Cmd[j].out
  <2>1. disk[out] = Leftover(kind, out) /\ out \notin Sources /\ out \in Files
    BY <1>2, CmdTypes
  <2>2. kind \in {"absent", "torn", "earlier"}  OBVIOUS
  <2> HIDE DEF out
  <2>3. disk[out] \in {Absent, Torn({}), Whole(EarlierUnits(out))}
    BY <2>1, <2>2 DEF Leftover
  <2>4. \A u \in EarlierUnits(out) : u.src \in Sources /\ u.by = Earlier
    <3> DEFINE compiled == {s \in Sources : Ll[s] = out}
    <3> DEFINE built == UNION {{Cmd[k].inputs[i] : i \in DOMAIN Cmd[k].inputs} :
                                 k \in {l \in Jobs : Cmd[l].out = out}}
    <3>1. compiled \cup built \subseteq Sources  BY GivenType
    <3>2. out \notin {DeclarationLl, RuntimeO}  BY DEF out
    <3>3. EarlierUnits(out) =
            {[src |-> s, by |-> Earlier, hooks |-> IF Hooking THEN 1 ELSE 0] :
               s \in compiled \cup built}
      BY <3>2 DEF EarlierUnits
    <3> HIDE DEF compiled, built
    <3> QED  BY <3>1, <3>3
  <2>5. \A u \in disk[out].units : u.src \in Sources /\ u.by = Earlier
    BY <2>3, <2>4 DEF Absent, Torn, Whole
  <2> QED  BY <2>5 DEF Seen, out
<1>4. plainArtifact \in [{Cmd[j].out : j \in Jobs} -> SUBSET (Sources \X (Jobs \cup {Earlier}))]
  BY <1>3 DEF plainArtifact
<1> QED  BY <1>1, <1>4 DEF Plain!PlainInit, Plain!Outputs

LEMMA PlainReady ==
  ASSUME NEW j \in Jobs, MayRun(j), pc[j] # "done"
  PROVE  Plain!Ready(j)
<1>1. plainState[j] = "pending"  BY DEF plainState
<1>2. \A d \in Cmd[j].after : plainState[d] = "succeeded"
  <2>1. Cmd[j] \in CmdType  OBVIOUS
  <2> QED  BY <2>1 DEF CmdType, MayRun, plainState
<1> QED  BY <1>1, <1>2 DEF Plain!Ready

(* A job ends: nothing else changes of what the plain build sees. *)
LEMMA PlainEnd ==
  ASSUME NEW j \in Jobs, Framed(j), pc'[j] = "done"
  PROVE  plainState' = [plainState EXCEPT ![j] =
                          IF status'[j] = 0 THEN "succeeded" ELSE "failed"]
<1> DEFINE new == IF status'[j] = 0 THEN "succeeded" ELSE "failed"
<1>1. plainState'[j] = new  BY DEF plainState
<1>2. \A k \in Jobs \ {j} : plainState'[k] = plainState[k]
  BY DEF plainState, Framed, SameJob
<1>3. DOMAIN plainState = Jobs /\ DOMAIN plainState' = Jobs
  BY DEF plainState
<1>4. plainState' = [k \in Jobs |-> plainState'[k]]
  BY DEF plainState
<1> HIDE DEF new
<1>5. [plainState EXCEPT ![j] = new] = [k \in Jobs |-> IF k = j THEN new ELSE plainState[k]]
  BY <1>3
<1>6. [k \in Jobs |-> plainState'[k]] = [k \in Jobs |-> IF k = j THEN new ELSE plainState[k]]
  BY <1>1, <1>2
<1> QED  BY <1>4, <1>5, <1>6 DEF new

LEMMA OthersSeen ==
  ASSUME IInv, NEW j \in Jobs, Framed(j), NEW k \in Jobs, pc[j] = "final" => k # j
  PROVE  disk'[Cmd[k].out] = disk[Cmd[k].out]
BY OutNotWritten, CmdTypes DEF Framed

LEMMA SameArtifacts ==
  ASSUME IInv, NEW j \in Jobs, Framed(j), pc[j] # "final"
  PROVE  plainArtifact' = plainArtifact
<1>1. \A k \in Jobs : disk'[Cmd[k].out] = disk[Cmd[k].out]  BY OthersSeen
<1>2. \A f \in {Cmd[k].out : k \in Jobs} : Seen(f)' = Seen(f)  BY <1>1 DEF Seen
<1> QED  BY <1>2 DEF plainArtifact

LEMMA OneArtifact ==
  ASSUME IInv, NEW j \in Jobs, Framed(j), NEW new, Seen(Cmd[j].out)' = new
  PROVE  plainArtifact' = [plainArtifact EXCEPT ![Cmd[j].out] = new]
<1>1. \A k \in Jobs : k # j => disk'[Cmd[k].out] = disk[Cmd[k].out]  BY OthersSeen
<1>2. \A f \in {Cmd[k].out : k \in Jobs} : f # Cmd[j].out => Seen(f)' = Seen(f)
  BY <1>1 DEF Seen
<1> QED  BY <1>2 DEF plainArtifact

(* What the last command makes is what the plain build makes of it. *)
LEMMA ProductSeen ==
  ASSUME AllPrivate, PlainInv, NEW j \in Jobs, pc[j] = "final"
  PROVE  {<<u.src, u.by>> : u \in {v \in Product(j) : v.src # RuntimeO}} = Plain!Expected(j)
<1> DEFINE seen(units) == {<<u.src, u.by>> : u \in {v \in units : v.src # RuntimeO}}
<1> DEFINE files == CommandFiles(j)
<1> DEFINE objects == Cmd[j].objects
<1> DEFINE given == Cmd[j].inputs
<1>1. IInv /\ JobOK(j) /\ Private(j) /\ ~Misreported(j)
  BY DEF PlainInv, OutInv, AllPrivate, NoneMisreported
<1>2. Len(inputs[j]) = Len(given)  BY <1>1 DEF JobOK, WorkOK, Working
<1>3. ASSUME NEW i \in DOMAIN given
      PROVE  seen(UnitsOf(j, inputs[j][i])) = {<<given[i], Owner(given[i], j)>>}
  <2>1. PICK n \in {0, 1} : UnitsOf(j, inputs[j][i]) = {Part(given[i], j, n)}
    BY SMTT(40), <1>1, InputUnits
  <2>2. given[i] # RuntimeO  BY GivenType
  <2>3. Part(given[i], j, n).src = given[i] /\ Part(given[i], j, n).by = Owner(given[i], j)
    BY DEF Part
  <2>4. \A x : x.src # RuntimeO => seen({x}) = {<<x.src, x.by>>}  OBVIOUS
  <2> HIDE DEF seen
  <2> QED  BY <2>1, <2>2, <2>3, <2>4
<1>4. ASSUME NEW p \in DOMAIN objects
      PROVE  seen(UnitsOf(j, objects[p])) = plainArtifact[objects[p]]
  <2>1. objects[p] \in ObjectSet(j)  BY DEF ObjectSet
  <2>2. PICK l \in Jobs : objects[p] = Cmd[l].out  BY <1>1, <2>1, ObjectMaker DEF JobOK
  <2>3. UnitsOf(j, objects[p]) = disk[objects[p]].units  BY <2>2 DEF UnitsOf
  <2> QED  BY <2>2, <2>3 DEF plainArtifact, Seen
<1>5. seen(UnitsOf(j, RuntimeO)) = {}
  <2>1. UnitsOf(j, RuntimeO) = disk[RuntimeO].units  BY DEF UnitsOf
  <2> QED  BY <2>1 DEF PlainInv, RuntimeUnits
<1>6. Product(j) = UNION {UnitsOf(j, files[p]) : p \in DOMAIN files}  BY DEF Product
<1>7. /\ \A p \in DOMAIN objects : p \in DOMAIN files /\ files[p] = objects[p]
      /\ \A i \in DOMAIN given : /\ Len(objects) + i \in DOMAIN files
                                 /\ files[Len(objects) + i] = inputs[j][i]
      /\ \A p \in DOMAIN files : \/ p \in DOMAIN objects
                                 \/ \E i \in DOMAIN given : p = Len(objects) + i
                                 \/ files[p] = RuntimeO
  BY <1>1, <1>2, CommandPlaces
<1>8. Plain!Expected(j) =
        {<<given[i], Owner(given[i], j)>> : i \in DOMAIN given}
          \cup UNION {plainArtifact[objects[p]] : p \in DOMAIN objects}
  BY DEF Plain!Expected, Plain!Content
<1> HIDE DEF files, objects, given
<1>9. ASSUME NEW x \in seen(Product(j)) PROVE x \in Plain!Expected(j)
  <2>1. PICK p \in DOMAIN files : x \in seen(UnitsOf(j, files[p]))  BY <1>6
  <2> HIDE DEF seen
  <2>2. CASE p \in DOMAIN objects  BY <1>4, <1>7, <1>8, <2>1, <2>2
  <2>3. CASE \E i \in DOMAIN given : p = Len(objects) + i
    BY <1>3, <1>7, <1>8, <2>1, <2>3
  <2>4. CASE files[p] = RuntimeO  BY <1>5, <2>1, <2>4
  <2> QED  BY <1>7, <2>2, <2>3, <2>4
<1>10. ASSUME NEW x \in Plain!Expected(j) PROVE x \in seen(Product(j))
  <2>1. ASSUME NEW p \in DOMAIN files, x \in seen(UnitsOf(j, files[p]))
        PROVE  x \in seen(Product(j))
    BY <1>6, <2>1
  <2> HIDE DEF seen
  <2>2. CASE \E i \in DOMAIN given : x = <<given[i], Owner(given[i], j)>>
    BY <1>3, <1>7, <2>1, <2>2
  <2>3. CASE \E p \in DOMAIN objects : x \in plainArtifact[objects[p]]
    BY <1>4, <1>7, <2>1, <2>3
  <2> QED  BY <1>8, <2>2, <2>3
<1> QED  BY <1>9, <1>10

LEMMA FinalOutcome ==
  ASSUME Reported, IInv, NEW j \in Jobs, FinalCompile(j)
  PROVE  \/ status'[j] = 0 /\ disk'[Cmd[j].out] = Whole(Product(j))
         \/ status'[j] # 0 /\ disk'[Cmd[j].out] \in {disk[Cmd[j].out], Absent}
<1> DEFINE made == IF Buildable(j) THEN Whole(Product(j)) ELSE Absent
<1>1. PICK code \in Codes : ExecFork(j, Cmd[j].out, made, code) /\ Exit(j, code)
  BY DEF FinalCompile
<1>2. Cmd[j].out \in Files  BY CmdTypes
<1>3. PICK fate \in Fates :
        /\ code \in ForkReturn(fate)
        /\ disk'[Cmd[j].out] \in Outcomes(fate, disk[Cmd[j].out], made)
  <2> HIDE DEF made
  <2> QED  BY <1>1, <1>2, ForkEffect
<1>4. fate \in {"succeeds", "fails", "noexec", "nofork"}
  <2>1. fate \in AllFates  OBVIOUS
  <2> QED  BY <2>1 DEF Reported, AllFates
<1>5. status'[j] = ExitByte(code)  BY <1>1, ExitFrame
<1>6. CASE fate = "succeeds"
  <2>1. code = 0  BY <1>3, <1>6 DEF ForkReturn
  <2>2. disk'[Cmd[j].out] \in {made} \ {Absent}  BY <1>3, <1>6 DEF Outcomes
  <2> QED  BY <1>5, <2>1, <2>2 DEF ExitByte
<1>7. CASE fate # "succeeds"
  <2>1. code \in {1, 255, -1}  BY <1>3, <1>4, <1>7 DEF ForkReturn
  <2>2. disk'[Cmd[j].out] \in {disk[Cmd[j].out], Absent}
    BY <1>3, <1>4, <1>7 DEF Outcomes
  <2>3. ExitByte(code) # 0  BY <2>1 DEF ExitByte
  <2> QED  BY <1>5, <2>2, <2>3
<1> QED  BY <1>6, <1>7

LEMMA PlainStep ==
  ASSUME Reported, AllPrivate, PlainInv, NEW j \in Jobs, Step(j)
  PROVE  Plain!Succeed(j) \/ Plain!Fail(j) \/ UNCHANGED Plain!plainVars
<1>1. IInv /\ Framed(j)  BY StepFrame DEF PlainInv, OutInv
<1>2. CASE pc'[j] # "done"
  <2>1. plainState' = plainState  BY <1>1, <1>2 DEF plainState, Framed, SameJob
  <2>2. pc[j] # "final"
    <3>1. pc[j] = "final" => FinalCompile(j)
      BY DEF Step, PhasesFail, PhasesParsed, Startable, GenerateDeclaration, GenerateRuntime,
         GenerateLl, ApplyPass, OpenModule, OpenFails, PrintModule, PrintFails
    <3> QED  BY <1>1, <1>2, <3>1, FinalCompileFrame
  <2>3. plainArtifact' = plainArtifact  BY <1>1, <2>2, SameArtifacts
  <2> QED  BY <2>1, <2>3 DEF Plain!plainVars
<1>3. CASE pc'[j] = "done"
  <2>1. Plain!Ready(j)
    <3>1. MayRun(j)
      <4>1. CASE pc[j] = "idle"
        BY <4>1 DEF Step, PhasesFail, PhasesParsed, Startable, MayRun, GenerateDeclaration,
           GenerateRuntime, GenerateLl, ApplyPass, OpenModule, OpenFails, PrintModule,
           PrintFails, FinalCompile
      <4>2. CASE pc[j] # "idle"  BY <4>2 DEF PlainInv, OutInv, JobOK, Started
      <4> QED  BY <4>1, <4>2
    <3> QED  BY <1>1, <3>1, PlainReady DEF Framed
  <2>2. plainState' = [plainState EXCEPT ![j] =
                         IF status'[j] = 0 THEN "succeeded" ELSE "failed"]
    BY <1>1, <1>3, PlainEnd
  <2>3. CASE pc[j] # "final"
    <3>1. status'[j] # 0  BY <1>1, <1>3, <2>3, EarlyEnd
    <3>2. plainArtifact' = plainArtifact  BY <1>1, <2>3, SameArtifacts
    <3>3. plainArtifact' = [plainArtifact EXCEPT ![Cmd[j].out] = plainArtifact[Cmd[j].out]]
      BY <3>2 DEF plainArtifact
    <3> QED  BY <2>1, <2>2, <3>1, <3>3 DEF Plain!Fail
  <2>4. CASE pc[j] = "final"
    <3>1. FinalCompile(j)
      BY <2>4 DEF Step, PhasesFail, PhasesParsed, Startable, GenerateDeclaration, GenerateRuntime,
         GenerateLl, ApplyPass, OpenModule, OpenFails, PrintModule, PrintFails
    <3>2. CASE status'[j] = 0 /\ disk'[Cmd[j].out] = Whole(Product(j))
      <4>1. Seen(Cmd[j].out)' = Plain!Expected(j)
        <5>1. disk'[Cmd[j].out].units = Product(j)  BY <3>2 DEF Whole
        <5> QED  BY <2>4, <5>1, ProductSeen DEF Seen
      <4>2. plainArtifact' = [plainArtifact EXCEPT ![Cmd[j].out] = Plain!Expected(j)]
        BY <1>1, <4>1, OneArtifact
      <4> QED  BY <2>1, <2>2, <3>2, <4>2 DEF Plain!Succeed
    <3>3. CASE status'[j] # 0 /\ disk'[Cmd[j].out] \in {disk[Cmd[j].out], Absent}
      <4>1. Seen(Cmd[j].out)' \in {plainArtifact[Cmd[j].out], {}}
        <5>1. plainArtifact[Cmd[j].out] = Seen(Cmd[j].out)  BY DEF plainArtifact
        <5>2. Absent.units = {}  BY DEF Absent
        <5>3. CASE disk'[Cmd[j].out] = disk[Cmd[j].out]  BY <5>1, <5>3 DEF Seen
        <5>4. CASE disk'[Cmd[j].out] = Absent  BY <5>2, <5>4 DEF Seen
        <5> QED  BY <3>3, <5>3, <5>4
      <4>2. plainArtifact' = [plainArtifact EXCEPT ![Cmd[j].out] = Seen(Cmd[j].out)']
        BY <1>1, OneArtifact
      <4> QED  BY <2>1, <2>2, <3>3, <4>1, <4>2 DEF Plain!Fail, Plain!None
    <3> QED  BY <1>1, <3>1, <3>2, <3>3, FinalOutcome
  <2> QED  BY <2>3, <2>4
<1> QED  BY <1>2, <1>3

LEMMA PlainStutter == UNCHANGED vars => UNCHANGED Plain!plainVars
BY DEF vars, Plain!plainVars, plainState, plainArtifact, Seen

(* The wrapped build implements the plain one: every step of a wrapper is  *)
(* the success of its command, its failure, or nothing a plain build sees. *)
THEOREM PlainRefinement ==
  ASSUME Reported, AllPrivate
  PROVE  Spec => ImplementsPlainBuild
<1>1. Init => Plain!PlainInit  BY InitPlain
<1>2. Init => PlainInv  BY PlainInvInit
<1>3. PlainInv /\ [Next]_vars => PlainInv'  BY PlainInvStep
<1>4. PlainInv /\ [Next]_vars => [Plain!PlainNext]_(Plain!plainVars)
  BY PlainStep, PlainStutter DEF Next, Plain!PlainNext
<1> QED  BY <1>1, <1>2, <1>3, <1>4, PTL DEF Spec, ImplementsPlainBuild, Plain!PlainSpec
-----------------------------------------------------------------------------
(***************************************************************************)
(* Why a wrapper fails: the invariant about what its last command needs.   *)
(***************************************************************************)
(* A file that is whole or gone is not being written. *)
NoneOpen == \A f \in Files : disk[f].state \in {"whole", "absent"} => disk[f].writers = {}

SourcesKept == \A s \in Sources \ Piped : Raw(s) => Parses(s)

(* The units of source files with one .ll file. *)
OfLl(units, f) == \A u \in units : u.src \in Sources /\ Ll[u.src] = f

LlUnits ==
  /\ \A s \in Sources : OfLl(disk[Ll[s]].units, Ll[s])
  /\ \A j \in Jobs : pc[j] \in {"open", "print"} => OfLl(module[j], Ll[inputs[j][idx[j]]])

NoHooks(units) == \A u \in units : u.hooks = 0

NeverHooked == ~Hooking => \A f \in Files : NoHooks(disk[f].units)

NotFatal(j) == \A b \in blame[j] : ~Fatal(b)

(* A phase query that was cut short is on record. *)
PhasesOK(j) ==
  Working(j) =>
    \/ <<"idle", "killed">> \in blame[j]
    \/ Len(inputs[j]) = Len(Cmd[j].inputs) /\ link[j] = (Cmd[j].link /\ Hooking)

(* Input i of job j is as its command line says, and the compiler can read it. *)
Readable(j, i) ==
  LET s == Cmd[j].inputs[i] IN inputs[j][i] = s /\ (~Raw(s) => Parses(s))

FileOK(j, i) ==
  LET s == Cmd[j].inputs[i] IN
  /\ i < idx[j] => Readable(j, i) \/ (inputs[j][i] = Ll[s] /\ Parses(Ll[s]))
  /\ i > idx[j] \/ (i = idx[j] /\ pc[j] # "print") => Readable(j, i)
  /\ i = idx[j] /\ pc[j] = "open" => Parses(Ll[s])
  /\ i = idx[j] /\ pc[j] = "print" => disk[Ll[s]] = Torn({j})

FilesOK(j) ==
  Private(j) /\ NotFatal(j) /\ Working(j) => \A i \in DOMAIN Cmd[j].inputs : FileOK(j, i)

(* The runtime of a job that has one is there, unless another job lost it. *)
RuntimeOK(j) ==
  Hooking /\ NotFatal(j) /\ pc[j] \in InLoop \cup {"final"} =>
    \/ Parses(RuntimeO) /\ \E u \in disk[RuntimeO].units : u.src = RuntimeO
    \/ \E k \in Jobs \ {j} : LostRuntime(k)

(* The output of a job that has succeeded, and of a mere compile in particular. *)
OutputOK(j) ==
  pc[j] = "done" /\ status[j] = 0 /\ ~Misreported(j) =>
    /\ Parses(Cmd[j].out)
    /\ ~Cmd[j].link /\ Cmd[j].objects = <<>> =>
         \A u \in disk[Cmd[j].out].units :
           u.src \in Sources /\ \E s \in InputSet(j) : Ll[u.src] = Ll[s]

FailureOK(j) ==
  pc[j] = "done" /\ status[j] # 0 /\ Private(j) /\ Linkable(j) =>
    \/ \E b \in blame[j] : Fatal(b)
    \/ \E k \in Cmd[j].after : Misreported(k)
    \/ Hooking /\ \E k \in Jobs \ {j} : LostRuntime(k)

Tree == NoneOpen /\ SourcesKept /\ LlUnits /\ NeverHooked /\ RuntimeUnits

JobFine(j) == PhasesOK(j) /\ FilesOK(j) /\ RuntimeOK(j) /\ OutputOK(j) /\ FailureOK(j)

FailInv == OutInv /\ Tree /\ \A j \in Jobs : JobFine(j)

(***************************************************************************)
(* What a step may put into a file.                                        *)
(***************************************************************************)
(* The units a job may make file f of. *)
Fills(j, f, units) ==
  \/ f \in {DeclarationLl, RuntimeO} /\ units = Made(f, j)
  \/ /\ pc[j] = "generate" /\ f = Ll[inputs[j][idx[j]]]
     /\ units = Made(inputs[j][idx[j]], j)
  \/ pc[j] = "print" /\ f = Ll[inputs[j][idx[j]]] /\ units = module[j]
  \/ pc[j] = "final" /\ f = Cmd[j].out /\ units = Product(j)

Content(j, f, file) ==
  \/ file = disk[f] \/ file = Absent
  \/ file.state \in {"torn", "mixed"} /\ file.units = {}
  \/ pc[j] = "print" /\ file = [disk[f] EXCEPT !.writers = @ \ {j}]
  \/ \E units : Fills(j, f, units) /\ file = Whole(units)

LEMMA ForkContent ==
  ASSUME IInv, NEW j \in Jobs, NEW f \in Files, NEW units, NEW code, NEW made,
         ExecFork(j, f, made, code), made = Absent \/ made = Whole(units), Fills(j, f, units),
         NEW g \in Files
  PROVE  Content(j, g, disk'[g])
<1>1. CASE g = f  BY <1>1, ForkLeaves DEF Content
<1>2. CASE g # f  BY <1>2, ForkEffect DEF Content
<1> QED  BY <1>1, <1>2

LEMMA StepContent ==
  ASSUME IInv, NEW j \in Jobs, Step(j), NEW g \in Files
  PROVE  Content(j, g, disk'[g])
<1> DEFINE input == inputs[j][idx[j]]
<1>1. CASE UNCHANGED disk  BY <1>1 DEF Content
<1>2. CASE GenerateDeclaration(j)
  <2>1. PICK code : ExecFork(j, DeclarationLl, Whole(Made(DeclarationLl, j)), code)
    BY <1>2 DEF GenerateDeclaration
  <2>2. Fills(j, DeclarationLl, Made(DeclarationLl, j))  BY DEF Fills
  <2> QED  BY <2>1, <2>2, ForkContent
<1>3. CASE GenerateRuntime(j)
  <2>1. PICK code : ExecFork(j, RuntimeO, Whole(Made(RuntimeO, j)), code)
    BY <1>3 DEF GenerateRuntime
  <2>2. Fills(j, RuntimeO, Made(RuntimeO, j))  BY DEF Fills
  <2> QED  BY <2>1, <2>2, ForkContent
<1>4. CASE GenerateLl(j) /\ ~UNCHANGED disk
  <2>1. PICK code : ExecFork(j, Ll[input], Whole(Made(input, j)), code)
    BY <1>4 DEF GenerateLl
  <2>2. pc[j] = "generate" /\ Ll[input] \in Files  BY <1>4, AtInput DEF GenerateLl, InLoop
  <2>3. Fills(j, Ll[input], Made(input, j))  BY <2>2 DEF Fills
  <2> QED  BY <2>1, <2>2, <2>3, ForkContent
<1>5. CASE OpenModule(j)
  <2>1. pc[j] = "open" /\ Ll[input] \in Files  BY <1>5, AtInput DEF OpenModule, InLoop
  <2>2. PICK file : /\ disk' = [disk EXCEPT ![Ll[input]] = file]
                    /\ \E w : file = Torn(w) \/ file = Mixed(w)
    BY <1>5 DEF OpenModule
  <2>3. file.state \in {"torn", "mixed"} /\ file.units = {}
    BY <2>2 DEF Torn, Mixed
  <2> QED  BY <2>1, <2>2, <2>3 DEF Content, IInv, Types
<1>6. CASE PrintModule(j)
  <2>1. pc[j] = "print" /\ Ll[input] \in Files  BY <1>6, AtInput DEF PrintModule, InLoop
  <2>2. PICK file \in Closed(j, disk[Ll[input]]) : disk' = [disk EXCEPT ![Ll[input]] = file]
    BY <1>6 DEF PrintModule
  <2>3. \/ file = disk[Ll[input]] \/ file = Whole(module[j])
        \/ \E w : file = Torn(w) \/ file = Mixed(w)
    BY DEF Closed
  <2>4. \/ file = disk[Ll[input]] \/ file = Whole(module[j])
        \/ file.state \in {"torn", "mixed"} /\ file.units = {}
    BY <2>3 DEF Torn, Mixed
  <2>5. Fills(j, Ll[input], module[j])  BY <2>1 DEF Fills
  <2>6. Content(j, Ll[input], file)  BY <2>4, <2>5 DEF Content
  <2>7. IF g = Ll[input] THEN disk'[g] = file ELSE disk'[g] = disk[g]
    BY <2>1, <2>2 DEF IInv, Types
  <2> QED  BY <2>6, <2>7 DEF Content
<1>7. CASE PrintFails(j)
  <2>1. pc[j] = "print" /\ Ll[input] \in Files  BY <1>7, AtInput DEF PrintFails, InLoop
  <2>2. disk' = [disk EXCEPT ![Ll[input]].writers = @ \ {j}]  BY <1>7 DEF PrintFails
  <2>3. IF g = Ll[input] THEN disk'[g] = [disk[g] EXCEPT !.writers = @ \ {j}]
        ELSE disk'[g] = disk[g]
    BY <2>1, <2>2 DEF IInv, Types
  <2> QED  BY <2>1, <2>3 DEF Content
<1>8. CASE FinalCompile(j)
  <2> DEFINE made == IF Buildable(j) THEN Whole(Product(j)) ELSE Absent
  <2>1. PICK code : ExecFork(j, Cmd[j].out, made, code)  BY <1>8 DEF FinalCompile
  <2>2. Fills(j, Cmd[j].out, Product(j))  BY <1>8 DEF Fills, FinalCompile
  <2>3. made = Absent \/ made = Whole(Product(j))  OBVIOUS
  <2>4. Cmd[j].out \in Files  BY CmdTypes
  <2> HIDE DEF made
  <2> QED  BY <2>1, <2>2, <2>3, <2>4, ForkContent
<1> QED
  BY <1>1, <1>2, <1>3, <1>4, <1>5, <1>6, <1>7, <1>8
  DEF Step, PhasesFail, PhasesParsed, ApplyPass, OpenFails
-----------------------------------------------------------------------------
(***************************************************************************)
(* The tree.                                                               *)
(***************************************************************************)
LEMMA NoneOpenStep ==
  ASSUME IInv, NoneOpen, NEW j \in Jobs, Step(j)
  PROVE  NoneOpen'
<1> SUFFICES ASSUME NEW f \in Files, disk'[f].state \in {"whole", "absent"}
             PROVE  disk'[f].writers = {}
  BY DEF NoneOpen
<1>1. Content(j, f, disk'[f])  BY StepContent
<1>2. disk[f] \in File  BY DEF IInv, Types
<1>3. CASE disk'[f] = disk[f]  BY <1>3 DEF NoneOpen
<1>4. CASE disk'[f] = Absent  BY <1>4 DEF Absent
<1>5. CASE disk'[f] = [disk[f] EXCEPT !.writers = @ \ {j}]
  <2>1. disk'[f].state = disk[f].state /\ disk'[f].writers = disk[f].writers \ {j}
    BY <1>2, <1>5 DEF File
  <2> QED  BY <2>1 DEF NoneOpen
<1>6. CASE \E units : disk'[f] = Whole(units)  BY <1>6 DEF Whole
<1> QED  BY <1>1, <1>3, <1>4, <1>5, <1>6 DEF Content

LEMMA SourcesKeptStep ==
  ASSUME IInv, SourcesKept, NEW j \in Jobs, Step(j)
  PROVE  SourcesKept'
<1> SUFFICES ASSUME NEW s \in Sources \ Piped, Raw(s)
             PROVE  disk'[s] = disk[s]
  BY DEF SourcesKept, Parses, Raw
<1>1. pc[j] \in InLoop => Ll[inputs[j][idx[j]]] # s  BY AtInput DEF Raw
<1>2. s \notin {DeclarationLl, RuntimeO, Cmd[j].out} /\ s \in Files  OBVIOUS
<1>3. ~Writes(j, s)  BY <1>1, <1>2 DEF Writes
<1> QED  BY <1>2, <1>3, StepFrame DEF Framed

(* The units of a file after a step are those it had or those it is filled with. *)
LEMMA StepUnits ==
  ASSUME IInv, NEW j \in Jobs, Step(j), NEW f \in Files
  PROVE  disk'[f].units \subseteq disk[f].units
         \/ \E units : Fills(j, f, units) /\ disk'[f].units = units
<1>1. Content(j, f, disk'[f])  BY StepContent
<1>2. disk[f] \in File  BY DEF IInv, Types
<1>3. Absent.units = {} /\ \A u : Whole(u).units = u  BY DEF Absent, Whole
<1>4. [disk[f] EXCEPT !.writers = @ \ {j}].units = disk[f].units  BY <1>2 DEF File
<1>5. CASE disk'[f] = disk[f] \/ disk'[f] = Absent  BY <1>3, <1>5
<1>6. CASE disk'[f].units = {}  BY <1>6
<1>7. CASE disk'[f] = [disk[f] EXCEPT !.writers = @ \ {j}]  BY <1>4, <1>7
<1>8. CASE \E units : Fills(j, f, units) /\ disk'[f] = Whole(units)
  <2>1. PICK units : Fills(j, f, units) /\ disk'[f] = Whole(units)  BY <1>8
  <2> QED  BY <2>1, <1>3
<1> QED  BY <1>1, <1>5, <1>6, <1>7, <1>8 DEF Content

(* A phase query that the job goes on from. *)
LEMMA QueryGoesOn ==
  ASSUME IInv, NEW j \in Jobs, PhasesParsed(j), Working(j)'
  PROVE  /\ UNCHANGED disk /\ idx'[j] = 1 /\ pc'[j] \in {"declaration", "generate", "final"}
         /\ \/ <<"idle", "killed">> \in blame'[j]
            \/ /\ inputs'[j] = Cmd[j].inputs /\ link'[j] = (Cmd[j].link /\ Hooking)
               /\ \A i \in DOMAIN Cmd[j].inputs : disk[Cmd[j].inputs[i]] # Absent
<1> DEFINE given == Cmd[j].inputs
<1> DEFINE Set(fate, n, linker) ==
             /\ \A i \in 1 .. n : disk[given[i]] # Absent
             /\ inputs' = [inputs EXCEPT ![j] = SubSeq(given, 1, n)]
             /\ link' = [link EXCEPT ![j] = linker /\ Hooking]
             /\ pc' = [pc EXCEPT ![j] = IF Hooking THEN "declaration"
                                        ELSE IF n > 0 THEN "generate" ELSE "final"]
             /\ Blame(j, {fate} \ {"succeeds"})
<1>1. PICK fate \in Fates \ {"nofork"}, n \in 0 .. Len(given), linker \in BOOLEAN :
        /\ 0 \in PcloseReturn(fate)
        /\ fate = "succeeds" => linker = Cmd[j].link /\ n = Len(given)
        /\ Set(fate, n, linker) \/ Exit(j, Crash)
  BY DEF PhasesParsed
<1>2. ~Exit(j, Crash)  BY ExitFrame DEF Working
<1>3. Set(fate, n, linker)  BY <1>1, <1>2
<1>4. UNCHANGED <<disk, idx>> /\ pc[j] = "idle" /\ idx[j] = 1
  BY DEF PhasesParsed, Startable, IInv, LoopOK
<1>5. /\ inputs'[j] = SubSeq(given, 1, n) /\ link'[j] = (linker /\ Hooking)
      /\ pc'[j] \in {"declaration", "generate", "final"}
  BY <1>3 DEF IInv, Types
<1>6. fate \in {"succeeds", "killed"}
  <2>1. fate \in AllFates  OBVIOUS
  <2> QED  BY <1>1, <2>1 DEF PcloseReturn, AllFates
<1>7. CASE fate = "killed"
  <2>1. blame'[j] = blame[j] \cup {<<pc[j], f>> : f \in {fate} \ {"succeeds"}}
    BY <1>3, BlameFrame
  <2>2. <<"idle", "killed">> \in blame'[j]  BY <1>4, <1>7, <2>1
  <2> QED  BY <1>4, <1>5, <2>2
<1>8. CASE fate = "succeeds"
  <2>1. given \in Seq(Sources)  BY CmdTypes
  <2>2. n = Len(given) /\ linker = Cmd[j].link  BY <1>1, <1>8
  <2>3. SubSeq(given, 1, n) = given  BY <2>1, <2>2
  <2>4. DOMAIN given = 1 .. n  BY <2>1, <2>2
  <2>5. \A i \in DOMAIN given : disk[given[i]] # Absent  BY <1>3, <2>4
  <2>6. inputs'[j] = given /\ link'[j] = (Cmd[j].link /\ Hooking)  BY <1>5, <2>2, <2>3
  <2> QED  BY <1>4, <1>5, <2>5, <2>6
<1> QED  BY <1>6, <1>7, <1>8

(* How a job comes to open and to print. *)
LEMMA OpenComes ==
  ASSUME IInv, NEW j \in Jobs, Step(j), pc'[j] = "open"
  PROVE  /\ ApplyPass(j) /\ module'[j] = Hooked(disk[Ll[inputs[j][idx[j]]]].units)
         /\ inputs'[j] = inputs[j] /\ idx'[j] = idx[j] /\ Parses(Ll[inputs[j][idx[j]]])
<1>1. ~AfterInput(j, 0) /\ ~AfterInput(j, idx[j])
  <2>1. idx[j] \in Nat  BY DEF IInv, Types
  <2> QED  BY <2>1, AfterInputFrame
<1>2. \A code : ~Exit(j, code)  BY ExitFrame
<1>3. \A to \in Stages \ {"open"} : pc' # [pc EXCEPT ![j] = to]  BY DEF IInv, Types
<1>4. ~PhasesFail(j) /\ ~PhasesParsed(j)
  BY <1>2, PhasesFailFrame, QueryGoesOn DEF Working
<1>5. ~GenerateDeclaration(j) /\ ~GenerateRuntime(j)
  BY <1>1, <1>2, <1>3 DEF GenerateDeclaration, GenerateRuntime, Stages
<1>6. ~GenerateLl(j)  BY <1>1, <1>3 DEF GenerateLl, AfterCompile, Stages
<1>7. ~OpenModule(j) /\ ~PrintModule(j)
  BY <1>1, <1>3 DEF OpenModule, PrintModule, Stages
<1>8. ~OpenFails(j) /\ ~PrintFails(j) /\ ~FinalCompile(j)
  BY <1>2 DEF OpenFails, PrintFails, FinalCompile
<1>9. ApplyPass(j)  BY <1>4, <1>5, <1>6, <1>7, <1>8 DEF Step
<1> QED  BY <1>1, <1>2, <1>9 DEF ApplyPass, Caught, IInv, Types

LEMMA PrintComes ==
  ASSUME IInv, NEW j \in Jobs, Step(j), pc'[j] = "print"
  PROVE  /\ pc[j] = "open" /\ module'[j] = module[j]
         /\ inputs'[j] = inputs[j] /\ idx'[j] = idx[j]
<1>1. ~AfterInput(j, 0) /\ ~AfterInput(j, idx[j])
  <2>1. idx[j] \in Nat  BY DEF IInv, Types
  <2> QED  BY <2>1, AfterInputFrame
<1>2. \A code : ~Exit(j, code)  BY ExitFrame
<1>3. \A to \in Stages \ {"print"} : pc' # [pc EXCEPT ![j] = to]  BY DEF IInv, Types
<1>4. ~PhasesFail(j) /\ ~PhasesParsed(j)
  BY <1>2, PhasesFailFrame, QueryGoesOn DEF Working
<1>5. ~GenerateDeclaration(j) /\ ~GenerateRuntime(j)
  BY <1>1, <1>2, <1>3 DEF GenerateDeclaration, GenerateRuntime, Stages
<1>6. ~GenerateLl(j)  BY <1>1, <1>3 DEF GenerateLl, AfterCompile, Stages
<1>7. ~ApplyPass(j)
  BY <1>1, <1>2, <1>3 DEF ApplyPass, Caught, Stages
<1>8. ~PrintModule(j) /\ ~OpenFails(j) /\ ~PrintFails(j) /\ ~FinalCompile(j)
  BY <1>1, <1>2 DEF PrintModule, OpenFails, PrintFails, FinalCompile
<1>9. OpenModule(j)  BY <1>4, <1>5, <1>6, <1>7, <1>8 DEF Step
<1> QED  BY <1>9 DEF OpenModule

LEMMA OfLlStep ==
  ASSUME IInv, LlUnits, NEW j \in Jobs, Step(j), NEW f \in Files, OfLl(disk[f].units, f),
         f \notin {DeclarationLl, RuntimeO, Cmd[j].out}
  PROVE  OfLl(disk'[f].units, f)
<1>1. CASE disk'[f].units \subseteq disk[f].units  BY <1>1 DEF OfLl
<1>2. CASE \E units : Fills(j, f, units) /\ disk'[f].units = units
  <2>1. PICK units : Fills(j, f, units) /\ disk'[f].units = units  BY <1>2
  <2>2. CASE /\ pc[j] = "generate" /\ f = Ll[inputs[j][idx[j]]]
             /\ units = Made(inputs[j][idx[j]], j)
    <3>1. inputs[j][idx[j]] \in Sources  BY <2>2, AtInput DEF InLoop
    <3>2. \A u \in units : u.src = inputs[j][idx[j]]  BY <2>2 DEF Made
    <3> QED  BY <2>1, <2>2, <3>1, <3>2 DEF OfLl
  <2>3. CASE pc[j] = "print" /\ f = Ll[inputs[j][idx[j]]] /\ units = module[j]
    BY <2>1, <2>3 DEF LlUnits
  <2> QED  BY <2>1, <2>2, <2>3 DEF Fills
<1> QED  BY <1>1, <1>2, StepUnits

LEMMA LlUnitsStep ==
  ASSUME IInv, LlUnits, NEW j \in Jobs, Step(j)
  PROVE  LlUnits'
<1>1. ASSUME NEW s \in Sources PROVE OfLl(disk'[Ll[s]].units, Ll[s])
  <2>1. Ll[s] \in Files /\ Ll[s] \notin {DeclarationLl, RuntimeO, Cmd[j].out}  OBVIOUS
  <2>2. OfLl(disk[Ll[s]].units, Ll[s])  BY DEF LlUnits
  <2> QED  BY <2>1, <2>2, OfLlStep
<1>2. ASSUME NEW k \in Jobs, pc'[k] \in {"open", "print"}
      PROVE  OfLl(module'[k], Ll[inputs'[k][idx'[k]]])
  <2>1. CASE k # j
    <3>1. SameJob(k)  BY <2>1, StepFrame DEF Framed
    <3> QED  BY <1>2, <3>1 DEF LlUnits, SameJob
  <2>2. CASE k = j /\ pc'[j] = "open"
    <3>1. ApplyPass(j) /\ module'[j] = Hooked(disk[Ll[inputs[j][idx[j]]]].units)
          /\ inputs'[j] = inputs[j] /\ idx'[j] = idx[j]
      BY <2>2, OpenComes
    <3>2. inputs[j][idx[j]] \in Sources  BY <3>1, AtInput DEF ApplyPass, InLoop
    <3>3. OfLl(disk[Ll[inputs[j][idx[j]]]].units, Ll[inputs[j][idx[j]]])
      BY <3>2 DEF LlUnits
    <3>4. \A x \in disk[Ll[inputs[j][idx[j]]]].units : [x EXCEPT !.hooks = @ + 1].src = x.src
      <4>1. disk[Ll[inputs[j][idx[j]]]].units \subseteq Unit
        BY <3>2 DEF IInv, Types, File
      <4> QED  BY <4>1 DEF Unit
    <3>5. ASSUME NEW u \in module'[j]
          PROVE  u.src \in Sources /\ Ll[u.src] = Ll[inputs[j][idx[j]]]
      <4>1. PICK x \in disk[Ll[inputs[j][idx[j]]]].units : u = [x EXCEPT !.hooks = @ + 1]
        BY <3>1 DEF Hooked
      <4>2. u.src = x.src  BY <3>4, <4>1
      <4> QED  BY <3>3, <4>2 DEF OfLl
    <3>6. inputs'[k][idx'[k]] = inputs[j][idx[j]] /\ module'[k] = module'[j]  BY <2>2, <3>1
    <3> QED  BY <3>5, <3>6 DEF OfLl
  <2>3. CASE k = j /\ pc'[j] = "print"
    <3>1. /\ pc[j] = "open" /\ module'[j] = module[j]
          /\ inputs'[j] = inputs[j] /\ idx'[j] = idx[j]
      BY <2>3, PrintComes
    <3>2. OfLl(module[j], Ll[inputs[j][idx[j]]])  BY <3>1 DEF LlUnits
    <3>3. module'[k] = module[j] /\ inputs'[k][idx'[k]] = inputs[j][idx[j]]  BY <2>3, <3>1
    <3> QED  BY <3>2, <3>3
  <2> QED  BY <1>2, <2>1, <2>2, <2>3
<1> QED  BY <1>1, <1>2 DEF LlUnits

LEMMA ProductNoHooks ==
  ASSUME IInv, NeverHooked, ~Hooking, NEW j \in Jobs
  PROVE  NoHooks(Product(j))
<1> SUFFICES ASSUME NEW p \in DOMAIN CommandFiles(j)
             PROVE  NoHooks(UnitsOf(j, CommandFiles(j)[p]))
  BY DEF NoHooks, Product
<1>1. CommandFiles(j)[p] \in Files  BY CommandFilesType DEF IInv
<1>2. \A s : NoHooks(Made(s, j))  BY DEF NoHooks, Made
<1> QED  BY <1>1, <1>2 DEF UnitsOf, NeverHooked

LEMMA NeverHookedStep ==
  ASSUME OutInv, NeverHooked, NEW j \in Jobs, Step(j)
  PROVE  NeverHooked'
<1> SUFFICES ASSUME ~Hooking, NEW f \in Files PROVE NoHooks(disk'[f].units)
  BY DEF NeverHooked, Hooking
<1>1. \A g \in Files : NoHooks(disk[g].units)  BY DEF NeverHooked
<1>2. \A s : NoHooks(Made(s, j))  BY DEF NoHooks, Made
<1>3. NoHooks(Product(j))  BY ProductNoHooks DEF OutInv
<1>4. pc[j] # "print"  BY DEF OutInv, JobOK, Shape
<1>5. \/ disk'[f].units \subseteq disk[f].units
      \/ \E units : Fills(j, f, units) /\ disk'[f].units = units
  BY StepUnits DEF OutInv
<1>6. CASE disk'[f].units \subseteq disk[f].units  BY <1>1, <1>6 DEF NoHooks
<1>7. CASE \E units : Fills(j, f, units) /\ disk'[f].units = units
  BY <1>2, <1>3, <1>4, <1>7 DEF Fills
<1> QED  BY <1>5, <1>6, <1>7
-----------------------------------------------------------------------------
(***************************************************************************)
(* The jobs.                                                               *)
(***************************************************************************)
LEMMA NotFatalBefore ==
  ASSUME NEW j \in Jobs, Framed(j), NotFatal(j)'
  PROVE  NotFatal(j)
BY DEF Framed, NotFatal

LEMMA LostBefore ==
  ASSUME NEW j \in Jobs, Framed(j), NEW k \in Jobs
  PROVE  /\ LostRuntime(k) => LostRuntime(k)'
         /\ Misreported(k) => Misreported(k)'
<1>1. blame[k] \subseteq blame'[k]  BY DEF Framed, SameJob
<1> QED  BY <1>1 DEF LostRuntime, Misreported

(* Only the phase query sets the command, and only a print changes an input. *)
LEMMA CommandKept ==
  ASSUME IInv, NEW j \in Jobs, Step(j), pc[j] # "idle"
  PROVE  /\ link'[j] = link[j] /\ Len(inputs'[j]) = Len(inputs[j])
         /\ \A i : i # idx[j] \/ ~PrintModule(j) => inputs'[j][i] = inputs[j][i]
<1>1. CASE PrintModule(j)
  <2>1. PICK f : inputs' = [inputs EXCEPT ![j][idx[j]] = f]  BY <1>1 DEF PrintModule
  <2>2. inputs[j] \in Seq(Files)  BY DEF IInv, Types
  <2>3. inputs'[j] = [inputs[j] EXCEPT ![idx[j]] = f]  BY <2>1 DEF IInv, Types
  <2>4. Len(inputs'[j]) = Len(inputs[j])  BY <2>2, <2>3
  <2>5. \A i : i # idx[j] => inputs'[j][i] = inputs[j][i]  BY <2>2, <2>3
  <2> QED  BY <1>1, <2>4, <2>5 DEF PrintModule
<1>2. CASE ~PrintModule(j)
  <2>1. UNCHANGED <<inputs, link>>
    BY <1>2 DEF Step, PhasesFail, PhasesParsed, Startable, GenerateDeclaration, GenerateRuntime,
       GenerateLl, ApplyPass, OpenModule, OpenFails, PrintFails, FinalCompile
  <2> QED  BY <1>2, <2>1
<1> QED  BY <1>1, <1>2

LEMMA QueryDone ==
  ASSUME IInv, NEW j \in Jobs, Step(j), pc[j] = "idle", Working(j)'
  PROVE  /\ UNCHANGED disk /\ idx'[j] = 1 /\ pc'[j] \in {"declaration", "generate", "final"}
         /\ \/ <<"idle", "killed">> \in blame'[j]
            \/ /\ inputs'[j] = Cmd[j].inputs /\ link'[j] = (Cmd[j].link /\ Hooking)
               /\ \A i \in DOMAIN Cmd[j].inputs : disk[Cmd[j].inputs[i]] # Absent
<1>1. ~PhasesFail(j)  BY PhasesFailFrame DEF Working
<1>2. PhasesParsed(j)
  BY <1>1 DEF Step, GenerateDeclaration, GenerateRuntime, GenerateLl, ApplyPass, OpenModule,
     OpenFails, PrintModule, PrintFails, FinalCompile
<1> QED  BY <1>2, QueryGoesOn

LEMMA PhasesOKStep ==
  ASSUME IInv, NEW j \in Jobs, Step(j), NEW k \in Jobs, PhasesOK(k)
  PROVE  PhasesOK(k)'
<1>0. Framed(j)  BY StepFrame
<1>1. CASE k # j
  <2>1. SameJob(k)  BY <1>0, <1>1 DEF Framed
  <2> QED  BY <2>1 DEF PhasesOK, SameJob, Working
<1>2. CASE k = j /\ pc[j] = "idle"
  <2> SUFFICES ASSUME Working(j)' PROVE PhasesOK(j)'  BY <1>2 DEF PhasesOK
  <2> QED  BY <1>2, QueryDone DEF PhasesOK
<1>3. CASE k = j /\ pc[j] # "idle"
  <2>1. Working(j)  BY <1>0, <1>3 DEF Working, Framed
  <2>2. blame[j] \subseteq blame'[j]  BY <1>0 DEF Framed
  <2>3. link'[j] = link[j] /\ Len(inputs'[j]) = Len(inputs[j])  BY <1>3, CommandKept
  <2> QED  BY <1>3, <2>1, <2>2, <2>3 DEF PhasesOK
<1> QED  BY <1>1, <1>2, <1>3

(* What FileOK says depends on the job and on the .ll file of the input. *)
LEMMA OtherFile ==
  ASSUME NEW k \in Jobs, NEW i \in DOMAIN Cmd[k].inputs, SameJob(k), FileOK(k, i),
         disk'[Ll[Cmd[k].inputs[i]]] = disk[Ll[Cmd[k].inputs[i]]]
  PROVE  FileOK(k, i)'
<1> DEFINE s == Cmd[k].inputs[i]
<1>1. Readable(k, i)' <=> Readable(k, i)  BY DEF Readable, SameJob, Raw, Parses
<1>2. Parses(Ll[s])' <=> Parses(Ll[s])  BY DEF Parses
<1>3. pc'[k] = pc[k] /\ idx'[k] = idx[k] /\ inputs'[k] = inputs[k]  BY DEF SameJob
<1> QED  BY <1>1, <1>2, <1>3 DEF FileOK

(* A turn of the loop that leaves its input as it should. *)
LEMMA FilesTurn ==
  ASSUME IInv, NEW j \in Jobs, Framed(j), Shape(j), Private(j), pc[j] \in InLoop,
         \A i \in DOMAIN Cmd[j].inputs : FileOK(j, i),
         \A i : i # idx[j] => inputs'[j][i] = inputs[j][i],
         \/ idx'[j] = idx[j]
         \/ idx'[j] = idx[j] + 1 /\ pc'[j] \in {"generate", "final"},
         NEW here, here = idx[j], FileOK(j, here)'
  PROVE  \A i \in DOMAIN Cmd[j].inputs : FileOK(j, i)'
<1> SUFFICES ASSUME NEW i \in DOMAIN Cmd[j].inputs, i # idx[j] PROVE FileOK(j, i)'
  OBVIOUS
<1> DEFINE s == Cmd[j].inputs[i]
<1>1. i \in Nat /\ idx[j] \in Nat  BY AtInput, CmdTypes
<1>2. disk'[Ll[s]] = disk[Ll[s]]  BY OwnLlNotWritten, GivenType DEF Framed
<1>3. inputs'[j][i] = inputs[j][i]  OBVIOUS
<1>4. Readable(j, i)' <=> Readable(j, i)  BY <1>2, <1>3 DEF Readable, Raw, Parses
<1>5. CASE i < idx[j]
  <2>1. i < idx'[j] /\ ~(i > idx'[j]) /\ i # idx'[j]  BY <1>1, <1>5
  <2>2. Readable(j, i) \/ (inputs[j][i] = Ll[s] /\ Parses(Ll[s]))  BY <1>5 DEF FileOK
  <2> QED  BY <1>2, <1>3, <1>4, <2>1, <2>2 DEF FileOK, Parses
<1>6. CASE i > idx[j]
  <2>1. ~(i < idx'[j])  BY <1>1, <1>6
  <2>2. i = idx'[j] => pc'[j] \notin {"open", "print"}  BY <1>1, <1>6
  <2>3. Readable(j, i)  BY <1>6 DEF FileOK
  <2> QED  BY <1>4, <2>1, <2>2, <2>3 DEF FileOK
<1> QED  BY <1>1, <1>5, <1>6

LEMMA FilesQueried ==
  ASSUME IInv, NEW j \in Jobs, Step(j), JobOK(j), pc[j] = "idle",
         Private(j), NotFatal(j)', Working(j)'
  PROVE  \A i \in DOMAIN Cmd[j].inputs : FileOK(j, i)'
<1>1. /\ UNCHANGED disk /\ idx'[j] = 1 /\ pc'[j] \in {"declaration", "generate", "final"}
      /\ \/ <<"idle", "killed">> \in blame'[j]
         \/ /\ inputs'[j] = Cmd[j].inputs
            /\ \A i \in DOMAIN Cmd[j].inputs : disk[Cmd[j].inputs[i]] # Absent
  BY QueryDone
<1>2. <<"idle", "killed">> \notin blame'[j]  BY DEF NotFatal, Fatal
<1> SUFFICES ASSUME NEW i \in DOMAIN Cmd[j].inputs PROVE FileOK(j, i)'
  OBVIOUS
<1> DEFINE s == Cmd[j].inputs[i]
<1>3. i \in Nat /\ ~(i < idx'[j])  BY <1>1, CmdTypes
<1>4. ~Raw(s) => Parses(s)'
  <2> SUFFICES ASSUME ~Raw(s) PROVE Parses(s)'
    OBVIOUS
  <2>1. disk[s] \in {Absent, Whole({Part(s, j, 0)})}  BY DEF JobOK, IdleOK
  <2>2. disk'[s] = Whole({Part(s, j, 0)})  BY <1>1, <1>2, <2>1
  <2> QED  BY <2>2 DEF Parses, Whole
<1>5. Readable(j, i)'  BY <1>1, <1>2, <1>4 DEF Readable, Raw
<1> QED  BY <1>1, <1>3, <1>5 DEF FileOK

LEMMA FilesBeforeLoop ==
  ASSUME IInv, NEW j \in Jobs, Step(j), JobOK(j), pc[j] \in {"declaration", "runtime"},
         Private(j), \A i \in DOMAIN Cmd[j].inputs : FileOK(j, i), Working(j)'
  PROVE  \A i \in DOMAIN Cmd[j].inputs : FileOK(j, i)'
<1>1. Framed(j)  BY StepFrame
<1>2. /\ \A i : inputs'[j][i] = inputs[j][i]
      /\ idx'[j] = 1 /\ idx[j] = 1 /\ pc'[j] \notin {"open", "print"}
  <2>1. GenerateDeclaration(j) \/ GenerateRuntime(j)
    BY DEF Step, PhasesFail, PhasesParsed, Startable, GenerateLl, ApplyPass, OpenModule,
       OpenFails, PrintModule, PrintFails, FinalCompile
  <2>2. \A code : ~Exit(j, code)  BY ExitFrame DEF Working
  <2>3. idx[j] = 1 /\ UNCHANGED inputs
    BY <2>1 DEF IInv, LoopOK, GenerateDeclaration, GenerateRuntime
  <2>4. CASE GenerateDeclaration(j)
    <3>1. pc' = [pc EXCEPT ![j] = "runtime"] /\ UNCHANGED idx
      BY <2>2, <2>4 DEF GenerateDeclaration
    <3> QED  BY <2>3, <3>1 DEF IInv, Types
  <2>5. CASE GenerateRuntime(j)
    <3>1. AfterInput(j, 0)  BY <2>2, <2>5 DEF GenerateRuntime
    <3> QED  BY <2>3, <3>1, AfterInputFrame
  <2> QED  BY <2>1, <2>4, <2>5
<1> SUFFICES ASSUME NEW i \in DOMAIN Cmd[j].inputs PROVE FileOK(j, i)'
  OBVIOUS
<1> DEFINE s == Cmd[j].inputs[i]
<1>3. i \in Nat /\ i >= 1  BY CmdTypes
<1>4. Readable(j, i)  BY <1>2, <1>3 DEF FileOK
<1>5. disk'[Ll[s]] = disk[Ll[s]]
  BY <1>1, OwnLlNotWritten, GivenType DEF Framed, JobOK, InLoop
<1>6. Readable(j, i)'  BY <1>2, <1>4, <1>5 DEF Readable, Raw, Parses
<1> QED  BY <1>2, <1>3, <1>6 DEF FileOK


(* A job that prints to a file no other job has open. *)
LEMMA PrintedAlone ==
  ASSUME IInv, NEW j \in Jobs, PrintModule(j), NEW here, here = idx[j],
         NEW f \in Files, f = Ll[inputs[j][here]], disk[f] = Torn({j})
  PROVE  disk'[f] = Whole(module[j]) /\ inputs'[j][here] = f
<1>1. Closed(j, Torn({j})) = {Whole(module[j])}
  <2>1. j \in Torn({j}).writers /\ Torn({j}) # Mixed({j})  BY DEF Torn, Mixed
  <2> QED  BY <2>1 DEF Closed
<1>2. Closed(j, disk[f]) = Closed(j, Torn({j}))  OBVIOUS
<1>3. PICK file \in Closed(j, disk[f]) : /\ disk' = [disk EXCEPT ![f] = file]
                                         /\ inputs' = [inputs EXCEPT ![j][here] = f]
  BY DEF PrintModule
<1>4. file = Whole(module[j])  BY <1>1, <1>2, <1>3
<1>5. disk'[f] = file  BY <1>3 DEF IInv, Types
<1>6. inputs[j] \in Seq(Files) /\ here \in 1 .. Len(inputs[j])
  BY AtInput DEF PrintModule, InLoop
<1>7. inputs'[j] = [inputs[j] EXCEPT ![here] = f]  BY <1>3 DEF IInv, Types
<1> QED  BY <1>4, <1>5, <1>6, <1>7

LEMMA FilesInLoop ==
  ASSUME IInv, NoneOpen, NEW j \in Jobs, Step(j), JobOK(j), pc[j] \in InLoop,
         Private(j), \A i \in DOMAIN Cmd[j].inputs : FileOK(j, i), Working(j)'
  PROVE  \A i \in DOMAIN Cmd[j].inputs : FileOK(j, i)'
<1> SUFFICES ASSUME NEW here, here = idx[j]
             PROVE  \A i \in DOMAIN Cmd[j].inputs : FileOK(j, i)'
  OBVIOUS
<1> DEFINE s == Cmd[j].inputs[here]
<1> DEFINE output == Ll[s]
<1>1. Framed(j) /\ \A code : ~Exit(j, code)  BY StepFrame, ExitFrame DEF Working
<1>2. here \in DOMAIN Cmd[j].inputs /\ inputs[j][here] = s /\ here \in Nat
  BY AtGiven, AtInput DEF JobOK
<1>3. s \in Sources /\ output \in Files  BY <1>2, GivenType
<1>4. FileOK(j, here) /\ ~(here < here) /\ ~(here > here)  BY <1>2
<1>5. \A i : i # here => inputs'[j][i] = inputs[j][i]
  BY CommandKept DEF InLoop
<1>6. AfterInput(j, here) =>
        idx'[j] = here + 1 /\ pc'[j] \in {"generate", "final"} /\ here < idx'[j]
        /\ ~(here > idx'[j]) /\ here # idx'[j]
  BY <1>2, AfterInputFrame
<1>7. /\ \/ idx'[j] = here
         \/ idx'[j] = here + 1 /\ pc'[j] \in {"generate", "final"}
      /\ FileOK(j, here)'
  <2>1. CASE GenerateLl(j)
    <3>1. Readable(j, here)  BY <1>4, <2>1 DEF FileOK, GenerateLl
    <3>2. UNCHANGED inputs  BY <2>1 DEF GenerateLl
    <3>3. Readable(j, here)'
      BY <1>2, <2>1, <3>1, <3>2 DEF Readable, Raw, GenerateLl, Parses
    <3>4. \/ AfterInput(j, here)
          \/ idx'[j] = here /\ pc'[j] = "pass"
      BY <2>1 DEF GenerateLl, AfterCompile, IInv, Types
    <3> QED  BY <1>4, <1>6, <3>3, <3>4 DEF FileOK
  <2>2. CASE ApplyPass(j)
    <3>1. Readable(j, here)  BY <1>4, <2>2 DEF FileOK, ApplyPass
    <3>2. UNCHANGED <<disk, inputs>>  BY <2>2 DEF ApplyPass
    <3>3. Readable(j, here)'  BY <3>1, <3>2 DEF Readable, Raw, Parses
    <3>4. \/ AfterInput(j, here)
          \/ idx'[j] = here /\ pc'[j] = "open"
      BY <1>1, <2>2 DEF ApplyPass, Caught, IInv, Types
    <3>5. CASE AfterInput(j, here)  BY <1>6, <3>3, <3>5 DEF FileOK
    <3>6. CASE idx'[j] = here /\ pc'[j] = "open"
      <4>1. Parses(output)  BY <1>2, <3>6, OpenComes
      <4>2. Parses(output)'  BY <3>2, <4>1 DEF Parses
      <4> QED  BY <1>4, <3>3, <3>6, <4>2 DEF FileOK
    <3> QED  BY <3>4, <3>5, <3>6
  <2>3. CASE OpenModule(j)
    <3>1. Parses(output)  BY <1>4, <2>3 DEF FileOK, OpenModule
    <3>2. disk[output].writers = {}  BY <1>3, <3>1 DEF NoneOpen, Parses
    <3>3. disk' = [disk EXCEPT ![output] = Torn({j})]  BY <1>2, <2>3, <3>2 DEF OpenModule
    <3>4. disk'[output] = Torn({j})  BY <1>3, <3>3 DEF IInv, Types
    <3>5. idx'[j] = here /\ pc'[j] = "print"  BY <2>3 DEF OpenModule, IInv, Types
    <3> QED  BY <1>4, <3>4, <3>5 DEF FileOK
  <2>4. CASE PrintModule(j)
    <3>1. disk[output] = Torn({j})  BY <1>4, <2>4 DEF FileOK, PrintModule
    <3>2. output = Ll[inputs[j][here]]  BY <1>2
    <3> HIDE DEF output
    <3>3. disk'[output] = Whole(module[j]) /\ inputs'[j][here] = output
      BY <1>3, <2>4, <3>1, <3>2, PrintedAlone
    <3>4. Whole(module[j]).state = "whole"  BY DEF Whole
    <3>5. Parses(output)'  BY <3>3, <3>4 DEF Parses
    <3>6. inputs'[j][here] = Ll[s] /\ Parses(Ll[s])'  BY <3>3, <3>5 DEF output
    <3>7. AfterInput(j, here)  BY <2>4 DEF PrintModule
    <3> QED  BY <1>6, <3>6, <3>7 DEF FileOK
  <2> QED
    BY <1>1, <2>1, <2>2, <2>3, <2>4
    DEF Step, PhasesFail, PhasesParsed, Startable, GenerateDeclaration, GenerateRuntime,
       OpenFails, PrintFails, FinalCompile, InLoop
<1> QED  BY <1>1, <1>5, <1>7, FilesTurn DEF JobOK

LEMMA FilesOKStep ==
  ASSUME OutInv, NoneOpen, NEW j \in Jobs, Step(j), NEW k \in Jobs, FilesOK(k)
  PROVE  FilesOK(k)'
<1>0. Framed(j) /\ IInv /\ JobOK(j) /\ JobOK(k)  BY StepFrame DEF OutInv
<1> SUFFICES ASSUME Private(k), NotFatal(k)', Working(k)'
             PROVE  \A i \in DOMAIN Cmd[k].inputs : FileOK(k, i)'
  BY DEF FilesOK, Private
<1>1. CASE k # j
  <2>1. SameJob(k)  BY <1>0, <1>1 DEF Framed
  <2>2. NotFatal(k) /\ Working(k)  BY <2>1 DEF SameJob, NotFatal, Working
  <2>3. \A i \in DOMAIN Cmd[k].inputs :
          disk'[Ll[Cmd[k].inputs[i]]] = disk[Ll[Cmd[k].inputs[i]]]
    BY <1>0, <1>1, LlNotWritten, GivenType DEF Framed, JobOK
  <2> QED  BY <2>1, <2>2, <2>3, OtherFile DEF FilesOK
<1>2. CASE k = j /\ pc[j] = "idle"
  BY <1>0, <1>2, FilesQueried
<1>3. CASE k = j /\ pc[j] # "idle"
  <2>1. NotFatal(j)  BY <1>0, <1>3, NotFatalBefore
  <2>2. Working(j)  BY <1>0, <1>3 DEF Working, Framed
  <2>3. \A i \in DOMAIN Cmd[j].inputs : FileOK(j, i)  BY <1>3, <2>1, <2>2 DEF FilesOK
  <2>4. pc[j] # "final"
    <3>1. pc[j] = "final" => FinalCompile(j)
      BY DEF Step, PhasesFail, PhasesParsed, Startable, GenerateDeclaration, GenerateRuntime,
         GenerateLl, ApplyPass, OpenModule, OpenFails, PrintModule, PrintFails
    <3> QED  BY <1>0, <1>3, <3>1, FinalCompileFrame DEF Working
  <2>5. pc[j] \in {"declaration", "runtime"} \cup InLoop
    BY <1>0, <2>2, <2>4 DEF Working, InLoop, IInv, Types, Stages
  <2> QED  BY <1>0, <1>3, <2>3, <2>5, FilesBeforeLoop, FilesInLoop
<1> QED  BY <1>1, <1>2, <1>3

(* The runtime.o that the link needs. *)
RuntimeThere == Parses(RuntimeO) /\ \E u \in disk[RuntimeO].units : u.src = RuntimeO

LEMMA LoopComes ==
  ASSUME IInv, NEW j \in Jobs, Step(j), Hooking, pc'[j] \in InLoop \cup {"final"}
  PROVE  pc[j] \in InLoop \/ GenerateRuntime(j)
<1>1. CASE pc[j] = "idle"
  <2>1. Working(j)'  BY DEF Working, InLoop
  <2>2. ~PhasesFail(j) /\ \A code : ~Exit(j, code)
    BY <2>1, PhasesFailFrame, ExitFrame DEF Working
  <2>3. PhasesParsed(j)
    BY <1>1, <2>2 DEF Step, GenerateDeclaration, GenerateRuntime, GenerateLl, ApplyPass,
       OpenModule, OpenFails, PrintModule, PrintFails, FinalCompile
  <2>4. pc' = [pc EXCEPT ![j] = "declaration"]  BY <2>2, <2>3 DEF PhasesParsed
  <2>5. pc'[j] = "declaration"  BY <2>4 DEF IInv, Types
  <2> QED  BY <2>5 DEF InLoop
<1>2. CASE GenerateDeclaration(j)
  <2>1. \A code : ~Exit(j, code)  BY ExitFrame DEF InLoop
  <2>2. pc' = [pc EXCEPT ![j] = "runtime"]  BY <1>2, <2>1 DEF GenerateDeclaration
  <2>3. pc'[j] = "runtime"  BY <2>2 DEF IInv, Types
  <2> QED  BY <2>3 DEF InLoop
<1>3. ~FinalCompile(j)  BY FinalCompileFrame DEF InLoop
<1> QED
  BY <1>1, <1>2, <1>3 DEF Step, PhasesFail, PhasesParsed, Startable, GenerateLl, ApplyPass,
     OpenModule, OpenFails, PrintModule, PrintFails, InLoop

(* A compile of the runtime makes it, leaves it, or is blamed for its loss. *)
LEMMA RuntimeMade ==
  ASSUME IInv, NEW j \in Jobs, GenerateRuntime(j)
  PROVE  /\ RuntimeThere' \/ disk'[RuntimeO] = disk[RuntimeO] \/ LostRuntime(j)'
         /\ NotFatal(j)' => RuntimeThere'
<1> DEFINE made == Whole(Made(RuntimeO, j))
<1>1. PICK code : ExecFork(j, RuntimeO, made, code)  BY DEF GenerateRuntime
<1>2. pc[j] = "runtime"  BY DEF GenerateRuntime
<1>3. made # Absent  BY DEF Whole, Absent
<1>4. PICK fate \in Fates :
        /\ code \in ForkReturn(fate)
        /\ disk'[RuntimeO] \in Outcomes(fate, disk[RuntimeO], made)
        /\ blame'[j] = blame[j] \cup
             {<<pc[j], x>> : x \in IF fate = "succeeds" \/ (fate = "fails" /\ made = Absent)
                                   THEN {} ELSE {fate}}
  <2> HIDE DEF made
  <2> QED  BY <1>1, ForkEffect
<1>5. fate # "succeeds" => <<"runtime", fate>> \in blame'[j]
  BY <1>2, <1>3, <1>4
<1>6. NotFatal(j)' => fate = "succeeds"  BY <1>5 DEF NotFatal, Fatal
<1>7. disk'[RuntimeO] = made => RuntimeThere'
  <2>1. made.state = "whole" /\ made.units = Made(RuntimeO, j)  BY DEF Whole
  <2>2. \E u \in Made(RuntimeO, j) : u.src = RuntimeO  BY DEF Made
  <2> HIDE DEF made
  <2> QED  BY <2>1, <2>2 DEF RuntimeThere, Parses
<1>8. fate = "succeeds" => disk'[RuntimeO] = made
  <2> HIDE DEF made
  <2> QED  BY <1>4 DEF Outcomes
<1>9. fate \in {"fails", "unwaited"} => LostRuntime(j)'
  BY <1>5 DEF LostRuntime
<1>10. fate \in {"killed", "noexec", "nofork"} =>
         disk'[RuntimeO] = made \/ disk'[RuntimeO] = disk[RuntimeO]
  <2> HIDE DEF made
  <2> QED  BY <1>4 DEF Outcomes
<1>11. fate \in {"succeeds", "fails", "killed", "noexec", "nofork", "unwaited"}
  BY DEF AllFates
<1> HIDE DEF made
<1> QED  BY <1>6, <1>7, <1>8, <1>9, <1>10, <1>11

LEMMA RuntimeOKStep ==
  ASSUME OutInv, NEW j \in Jobs, Step(j), NEW k \in Jobs, RuntimeOK(k)
  PROVE  RuntimeOK(k)'
<1>0. Framed(j) /\ IInv  BY StepFrame DEF OutInv
<1>1. pc[j] = "runtime" => GenerateRuntime(j)
  BY DEF Step, PhasesFail, PhasesParsed, Startable, GenerateDeclaration, GenerateLl, ApplyPass,
     OpenModule, OpenFails, PrintModule, PrintFails, FinalCompile
<1>2. pc[j] # "runtime" => disk'[RuntimeO] = disk[RuntimeO]
  <2>1. pc[j] \in InLoop => Ll[inputs[j][idx[j]]] # RuntimeO  BY <1>0, AtInput
  <2>2. pc[j] # "runtime" => ~Writes(j, RuntimeO)  BY <2>1 DEF Writes
  <2> QED  BY <1>0, <2>2 DEF Framed
<1> SUFFICES ASSUME Hooking, NotFatal(k)', pc'[k] \in InLoop \cup {"final"}
             PROVE  RuntimeThere' \/ \E l \in Jobs \ {k} : LostRuntime(l)'
  BY DEF RuntimeOK, RuntimeThere
<1>3. (\E l \in Jobs \ {k} : LostRuntime(l)) => \E l \in Jobs \ {k} : LostRuntime(l)'
  BY <1>0, LostBefore
<1>4. disk'[RuntimeO] = disk[RuntimeO] => (RuntimeThere => RuntimeThere')
  BY DEF RuntimeThere, Parses
<1>5. CASE k # j
  <2>1. SameJob(k)  BY <1>0, <1>5 DEF Framed
  <2>2. NotFatal(k) /\ pc[k] \in InLoop \cup {"final"}
    BY <2>1 DEF SameJob, NotFatal, InLoop
  <2>3. RuntimeThere \/ \E l \in Jobs \ {k} : LostRuntime(l)
    BY <2>2 DEF RuntimeOK, RuntimeThere
  <2>4. CASE pc[j] # "runtime"  BY <1>2, <1>3, <1>4, <2>3, <2>4
  <2>5. CASE pc[j] = "runtime"
    <3>1. RuntimeThere' \/ disk'[RuntimeO] = disk[RuntimeO] \/ LostRuntime(j)'
      BY <1>0, <1>1, <2>5, RuntimeMade
    <3> QED  BY <1>3, <1>4, <1>5, <2>3, <3>1
  <2> QED  BY <2>4, <2>5
<1>6. CASE k = j /\ GenerateRuntime(j)
  BY <1>0, <1>6, RuntimeMade
<1>7. CASE k = j /\ ~GenerateRuntime(j)
  <2>1. pc[j] \in InLoop /\ pc[j] # "runtime"  BY <1>0, <1>7, LoopComes DEF InLoop
  <2>2. NotFatal(j)  BY <1>0, <1>7, NotFatalBefore
  <2>3. RuntimeThere \/ \E l \in Jobs \ {k} : LostRuntime(l)
    BY <1>7, <2>1, <2>2 DEF RuntimeOK, RuntimeThere
  <2> QED  BY <1>2, <1>3, <1>4, <2>1, <2>3
<1> QED  BY <1>5, <1>6, <1>7

(* Whatever the compiler makes of an input or of its .ll file is of one .ll file. *)
LEMMA UnitsOfLl ==
  ASSUME LlUnits, NEW j \in Jobs, NEW s \in Sources, NEW f \in {s, Ll[s]},
         NEW u \in UnitsOf(j, f)
  PROVE  u.src \in Sources /\ Ll[u.src] = Ll[s]
<1>1. CASE f \in Sources /\ Raw(f)
  <2>1. u.src = f  BY <1>1 DEF UnitsOf, Made
  <2>2. Ll[f] = Ll[s]  BY <1>1 DEF Raw
  <2> QED  BY <1>1, <2>1, <2>2
<1>2. CASE ~(f \in Sources /\ Raw(f))
  <2>1. f = Ll[s]  BY <1>2 DEF Raw
  <2>2. u \in disk[Ll[s]].units  BY <1>2, <2>1 DEF UnitsOf
  <2> QED  BY <2>2 DEF LlUnits, OfLl
<1> QED  BY <1>1, <1>2

LEMMA OutputOKStep ==
  ASSUME OutInv, LlUnits, NEW j \in Jobs, Step(j), NEW k \in Jobs, OutputOK(k), PhasesOK(k)
  PROVE  OutputOK(k)'
<1>0. Framed(j) /\ IInv /\ Shape(k)  BY StepFrame DEF OutInv, JobOK
<1> SUFFICES ASSUME pc'[k] = "done", status'[k] = 0, ~Misreported(k)'
             PROVE  /\ Parses(Cmd[k].out)'
                    /\ ~Cmd[k].link /\ Cmd[k].objects = <<>> =>
                         \A u \in disk'[Cmd[k].out].units :
                           u.src \in Sources /\ \E s \in InputSet(k) : Ll[u.src] = Ll[s]
  BY DEF OutputOK, InputSet
<1>1. CASE k # j
  <2>1. SameJob(k)  BY <1>0, <1>1 DEF Framed
  <2>2. disk'[Cmd[k].out] = disk[Cmd[k].out]  BY <1>0, <1>1, OthersSeen
  <2>3. pc[k] = "done" /\ status[k] = 0 /\ ~Misreported(k)
    BY <2>1 DEF SameJob, Misreported
  <2> QED  BY <2>2, <2>3 DEF OutputOK, Parses
<1>2. CASE k = j
  <2> DEFINE made == IF Buildable(j) THEN Whole(Product(j)) ELSE Absent
  <2>1. pc[j] = "final"  BY <1>0, <1>2, EarlyEnd
  <2>2. FinalCompile(j)
    BY <2>1 DEF Step, PhasesFail, PhasesParsed, Startable, GenerateDeclaration,
       GenerateRuntime, GenerateLl, ApplyPass, OpenModule, OpenFails, PrintModule, PrintFails
  <2>3. PICK code \in Codes : ExecFork(j, Cmd[j].out, made, code) /\ Exit(j, code)
    BY <2>2 DEF FinalCompile
  <2>4. code = 0
    <3>1. ExitByte(code) = 0  BY <1>0, <1>2, <2>3, ExitFrame
    <3> QED  BY <2>3, <3>1 DEF ExitByte, Codes
  <2>5. Cmd[j].out \in Files  BY CmdTypes
  <2>6. made # Absent /\ disk'[Cmd[j].out] = made
    <3> HIDE DEF made
    <3> QED  BY <1>0, <1>2, <2>3, <2>4, <2>5, ForkSucceeded
  <2>7. disk'[Cmd[j].out] = Whole(Product(j))  BY <2>6
  <2>8. Parses(Cmd[k].out)'  BY <1>2, <2>7 DEF Parses, Whole
  <2>9. ASSUME ~Cmd[k].link, Cmd[k].objects = <<>>, NEW u \in disk'[Cmd[k].out].units
        PROVE  u.src \in Sources /\ \E s \in InputSet(k) : Ll[u.src] = Ll[s]
    <3>1. ~Misreported(j)  BY <1>0, <1>2, NotMisreportedBefore
    <3>2. Len(inputs[j]) = Len(Cmd[j].inputs) /\ ~link[j]
      <4>1. <<"idle", "killed">> \notin blame[j]  BY <3>1 DEF Misreported
      <4>2. Working(j)  BY <2>1 DEF Working
      <4> QED  BY <1>2, <2>9, <4>1, <4>2 DEF PhasesOK
    <3>3. PICK p \in DOMAIN CommandFiles(j) : u \in UnitsOf(j, CommandFiles(j)[p])
      BY <1>2, <2>7, <2>9 DEF Whole, Product
    <3>4. DOMAIN Cmd[j].objects = {}  BY <1>2, <2>9
    <3>5. PICK i \in DOMAIN Cmd[j].inputs : CommandFiles(j)[p] = inputs[j][i]
      <4>1. \A q \in DOMAIN CommandFiles(j) :
              \/ q \in DOMAIN Cmd[j].objects
              \/ \E i \in DOMAIN Cmd[j].inputs : q = Len(Cmd[j].objects) + i
              \/ link[j]
        BY <1>0, <3>2, CommandPlaces
      <4>2. \A i \in DOMAIN Cmd[j].inputs :
              /\ Len(Cmd[j].objects) + i \in DOMAIN CommandFiles(j)
              /\ CommandFiles(j)[Len(Cmd[j].objects) + i] = inputs[j][i]
        BY <1>0, <3>2, CommandPlaces
      <4> QED  BY <3>2, <3>4, <4>1, <4>2
    <3>6. i \in 1 .. Len(inputs[j])  BY <3>2, CmdTypes
    <3>7. inputs[j][i] \in {Cmd[j].inputs[i], Ll[Cmd[j].inputs[i]]}
      BY <1>0, <1>2, <3>6 DEF Shape
    <3>8. Cmd[j].inputs[i] \in Sources /\ Cmd[j].inputs[i] \in InputSet(j)
      BY GivenType DEF InputSet
    <3>9. u.src \in Sources /\ Ll[u.src] = Ll[Cmd[j].inputs[i]]
      BY <3>3, <3>5, <3>7, <3>8, UnitsOfLl
    <3> QED  BY <1>2, <3>8, <3>9
  <2> QED  BY <2>8, <2>9
<1> QED  BY <1>1, <1>2
-----------------------------------------------------------------------------
(***************************************************************************)
(* The last command of a job that nothing fatal has happened to, before it *)
(* is run: the compiler accepts it.                                        *)
(***************************************************************************)
Ready(j) ==
  /\ pc[j] = "final" /\ NotFatal(j) /\ Private(j) /\ Linkable(j)
  /\ \A k \in Cmd[j].after : ~Misreported(k)
  /\ Hooking => \A k \in Jobs \ {j} : ~LostRuntime(k)

LEMMA CommandComplete ==
  ASSUME FailInv, NEW j \in Jobs, Ready(j)
  PROVE  /\ Len(inputs[j]) = Len(Cmd[j].inputs)
         /\ link[j] = (Cmd[j].link /\ Hooking)
<1>1. <<"idle", "killed">> \notin blame[j]  BY DEF Ready, NotFatal, Fatal
<1>2. Working(j)  BY DEF Ready, Working
<1> QED  BY <1>1, <1>2 DEF FailInv, OutInv, JobFine, PhasesOK

(* An object: another job made it, of inputs that have other .ll files. *)
LEMMA ObjectFile ==
  ASSUME FailInv, NEW j \in Jobs, Ready(j), NEW o \in ObjectSet(j)
  PROVE  /\ Parses(o) /\ UnitsOf(j, o) = disk[o].units
         /\ \E k \in Jobs \ {j} :
              /\ o = Cmd[k].out
              /\ \A u \in disk[o].units :
                   u.src \in Sources /\ \E s \in InputSet(k) : Ll[u.src] = Ll[s]
<1>1. Started(j) /\ pc[j] # "idle" /\ pc[j] # "done" /\ Linkable(j)
  BY DEF FailInv, OutInv, JobOK, Ready
<1>2. PICK k \in Jobs : o = Cmd[k].out /\ k \in Cmd[j].after /\ pc[k] = "done" /\ status[k] = 0
  BY <1>1, ObjectMaker
<1>3. k # j  BY <1>1, <1>2
<1>4. ~Misreported(k)  BY <1>2 DEF Ready
<1>5. ~Cmd[k].link /\ Cmd[k].objects = <<>>  BY <1>1, <1>2 DEF Linkable
<1>6. OutputOK(k)  BY DEF FailInv, OutInv, JobFine
<1>7. o \notin Sources  BY <1>2
<1> QED  BY <1>2, <1>3, <1>4, <1>5, <1>6, <1>7 DEF OutputOK, UnitsOf

(* An input: it parses, unless it is no file, and so do the .ll files. *)
LEMMA InputFile ==
  ASSUME FailInv, NEW j \in Jobs, Ready(j), NEW i \in DOMAIN Cmd[j].inputs
  PROVE  /\ inputs[j][i] \in Piped \/ Parses(inputs[j][i])
         /\ \A u \in UnitsOf(j, inputs[j][i]) :
              u.src \in Sources /\ Ll[u.src] = Ll[Cmd[j].inputs[i]]
<1> DEFINE s == Cmd[j].inputs[i]
<1>1. Len(inputs[j]) = Len(Cmd[j].inputs)  BY CommandComplete
<1>2. i \in Nat /\ i \in 1 .. Len(inputs[j])  BY <1>1, CmdTypes
<1>3. idx[j] = Len(inputs[j]) + 1  BY DEF FailInv, OutInv, JobOK, Shape, Ready
<1>4. Len(inputs[j]) \in Nat  BY DEF FailInv, OutInv, IInv, Types
<1>5. i < idx[j]  BY <1>2, <1>3, <1>4
<1>6. FileOK(j, i)  BY DEF FailInv, OutInv, JobFine, FilesOK, Ready, Working
<1>7. Readable(j, i) \/ (inputs[j][i] = Ll[s] /\ Parses(Ll[s]))
  BY <1>5, <1>6 DEF FileOK
<1>8. s \in Sources  BY GivenType
<1>9. Raw(s) => s \in Piped \/ Parses(s)  BY <1>8 DEF FailInv, OutInv, Tree, SourcesKept
<1>10. inputs[j][i] \in {s, Ll[s]}  BY <1>7 DEF Readable
<1>11. LlUnits  BY DEF FailInv, OutInv, Tree
<1>12. \A u \in UnitsOf(j, inputs[j][i]) : u.src \in Sources /\ Ll[u.src] = Ll[s]
  BY <1>8, <1>10, <1>11, UnitsOfLl
<1> QED  BY <1>7, <1>9, <1>12 DEF Readable

(* The runtime: it is there, and holds nothing else. *)
LEMMA RuntimeFile ==
  ASSUME FailInv, NEW j \in Jobs, Ready(j), Hooking
  PROVE  /\ Parses(RuntimeO) /\ \E u \in UnitsOf(j, RuntimeO) : u.src = RuntimeO
         /\ \A u \in UnitsOf(j, RuntimeO) : u.src = RuntimeO
<1>1. UnitsOf(j, RuntimeO) = disk[RuntimeO].units  BY DEF UnitsOf
<1>2. RuntimeOK(j)  BY DEF FailInv, OutInv, JobFine
<1>3. Parses(RuntimeO) /\ \E u \in disk[RuntimeO].units : u.src = RuntimeO
  BY <1>2 DEF RuntimeOK, Ready
<1> QED  BY <1>1, <1>3 DEF FailInv, OutInv, Tree, RuntimeUnits

(* Where a file of the last command comes from. *)
LEMMA CommandFile ==
  ASSUME FailInv, NEW j \in Jobs, Ready(j), NEW p \in DOMAIN CommandFiles(j)
  PROVE  \/ p \in DOMAIN Cmd[j].objects /\ CommandFiles(j)[p] = Cmd[j].objects[p]
         \/ \E i \in DOMAIN Cmd[j].inputs :
              p = Len(Cmd[j].objects) + i /\ CommandFiles(j)[p] = inputs[j][i]
         \/ /\ Hooking /\ CommandFiles(j)[p] = RuntimeO
            /\ p = Len(Cmd[j].objects) + Len(inputs[j]) + 1
<1>1. IInv /\ Len(inputs[j]) = Len(Cmd[j].inputs)  BY CommandComplete DEF FailInv, OutInv
<1>2. link[j] => Hooking  BY CommandComplete
<1>3. CASE p \in DOMAIN Cmd[j].objects
  <2>1. \A q \in DOMAIN Cmd[j].objects :
          q \in DOMAIN CommandFiles(j) /\ CommandFiles(j)[q] = Cmd[j].objects[q]
    BY <1>1, CommandPlaces
  <2> QED  BY <1>3, <2>1
<1>4. CASE \E i \in DOMAIN Cmd[j].inputs : p = Len(Cmd[j].objects) + i
  <2>1. \A i \in DOMAIN Cmd[j].inputs :
          /\ Len(Cmd[j].objects) + i \in DOMAIN CommandFiles(j)
          /\ CommandFiles(j)[Len(Cmd[j].objects) + i] = inputs[j][i]
    BY <1>1, CommandPlaces
  <2>2. PICK i \in DOMAIN Cmd[j].inputs : p = Len(Cmd[j].objects) + i  BY <1>4
  <2>3. CommandFiles(j)[p] = inputs[j][i]  BY <2>1, <2>2
  <2> QED  BY <2>2, <2>3
<1>5. CASE /\ link[j] /\ CommandFiles(j)[p] = RuntimeO
           /\ p = Len(Cmd[j].objects) + Len(inputs[j]) + 1
  <2>1. Hooking  BY <1>2, <1>5
  <2> QED  BY <1>5, <2>1
<1> QED  BY <1>1, <1>3, <1>4, <1>5, CommandPlaces

LEMMA FilesParse ==
  ASSUME FailInv, NEW j \in Jobs, Ready(j), NEW p \in DOMAIN CommandFiles(j)
  PROVE  CommandFiles(j)[p] \in Piped \/ Parses(CommandFiles(j)[p])
<1>1. CASE p \in DOMAIN Cmd[j].objects /\ CommandFiles(j)[p] = Cmd[j].objects[p]
  <2>1. CommandFiles(j)[p] \in ObjectSet(j)  BY <1>1 DEF ObjectSet
  <2> QED  BY <2>1, ObjectFile
<1>2. CASE \E i \in DOMAIN Cmd[j].inputs : CommandFiles(j)[p] = inputs[j][i]
  BY <1>2, InputFile
<1>3. CASE Hooking /\ CommandFiles(j)[p] = RuntimeO
  BY <1>3, RuntimeFile
<1> QED  BY <1>1, <1>2, <1>3, CommandFile

(* The units of two files of the last command. *)
LEMMA TwoObjects ==
  ASSUME FailInv, NEW j \in Jobs, Ready(j),
         NEW p \in DOMAIN Cmd[j].objects, NEW q \in DOMAIN Cmd[j].objects, p # q,
         NEW u \in UnitsOf(j, Cmd[j].objects[p]), NEW v \in UnitsOf(j, Cmd[j].objects[q])
  PROVE  u.src # v.src
<1> DEFINE o == Cmd[j].objects[p]
           r == Cmd[j].objects[q]
<1>1. o \in ObjectSet(j) /\ r \in ObjectSet(j)  BY DEF ObjectSet
<1>2. Linkable(j)  BY DEF Ready
<1>3. o # r  BY <1>2 DEF Linkable
<1>4. PICK k \in Jobs : /\ o = Cmd[k].out
                        /\ \E s \in InputSet(k) : Ll[u.src] = Ll[s]
  BY <1>1, ObjectFile
<1>5. PICK l \in Jobs : /\ r = Cmd[l].out
                        /\ \E s \in InputSet(l) : Ll[v.src] = Ll[s]
  BY <1>1, ObjectFile
<1>6. k # l  BY <1>3, <1>4, <1>5
<1>7. \A s \in InputSet(k), t \in InputSet(l) : Ll[s] # Ll[t]
  BY <1>1, <1>2, <1>4, <1>5, <1>6 DEF Linkable
<1> QED  BY <1>4, <1>5, <1>7

LEMMA ObjectAndInput ==
  ASSUME FailInv, NEW j \in Jobs, Ready(j),
         NEW o \in ObjectSet(j), NEW i \in DOMAIN Cmd[j].inputs,
         NEW u \in UnitsOf(j, o), NEW v \in UnitsOf(j, inputs[j][i])
  PROVE  u.src # v.src
<1>1. PICK k \in Jobs \ {j} : \E s \in InputSet(k) : Ll[u.src] = Ll[s]
  BY ObjectFile
<1>2. PICK m \in DOMAIN Cmd[k].inputs : Ll[u.src] = Ll[Cmd[k].inputs[m]]
  BY <1>1 DEF InputSet
<1>3. Ll[v.src] = Ll[Cmd[j].inputs[i]]  BY InputFile
<1> QED  BY <1>2, <1>3 DEF Ready, Private

LEMMA TwoInputs ==
  ASSUME FailInv, NEW j \in Jobs, Ready(j),
         NEW i \in DOMAIN Cmd[j].inputs, NEW m \in DOMAIN Cmd[j].inputs, i # m,
         NEW u \in UnitsOf(j, inputs[j][i]), NEW v \in UnitsOf(j, inputs[j][m])
  PROVE  u.src # v.src
<1>1. Ll[u.src] = Ll[Cmd[j].inputs[i]] /\ Ll[v.src] = Ll[Cmd[j].inputs[m]]  BY InputFile
<1> QED  BY <1>1 DEF Ready, Private

LEMMA RuntimeAndOther ==
  ASSUME FailInv, NEW j \in Jobs, Ready(j), Hooking,
         NEW f, f \in ObjectSet(j) \/ \E i \in DOMAIN Cmd[j].inputs : f = inputs[j][i],
         NEW u \in UnitsOf(j, RuntimeO), NEW v \in UnitsOf(j, f)
  PROVE  u.src # v.src
<1>1. u.src = RuntimeO  BY RuntimeFile
<1>2. v.src \in Sources  BY ObjectFile, InputFile
<1> QED  BY <1>1, <1>2

LEMMA UnitsDiffer ==
  ASSUME FailInv, NEW j \in Jobs, Ready(j), NEW p \in DOMAIN CommandFiles(j),
         NEW q \in DOMAIN CommandFiles(j), p # q,
         NEW u \in UnitsOf(j, CommandFiles(j)[p]), NEW v \in UnitsOf(j, CommandFiles(j)[q])
  PROVE  u.src # v.src
<1> DEFINE AtObject(n) ==
             n \in DOMAIN Cmd[j].objects /\ CommandFiles(j)[n] = Cmd[j].objects[n]
           AtInputs(n) ==
             \E i \in DOMAIN Cmd[j].inputs :
               n = Len(Cmd[j].objects) + i /\ CommandFiles(j)[n] = inputs[j][i]
           AtRuntime(n) ==
             /\ Hooking /\ CommandFiles(j)[n] = RuntimeO
             /\ n = Len(Cmd[j].objects) + Len(inputs[j]) + 1
<1>1. \A n \in DOMAIN CommandFiles(j) : AtObject(n) \/ AtInputs(n) \/ AtRuntime(n)
  BY CommandFile
<1>2. \A n : AtObject(n) => CommandFiles(j)[n] \in ObjectSet(j)  BY DEF ObjectSet
<1>3. CASE AtObject(p) /\ AtObject(q)  BY <1>3, TwoObjects
<1>4. CASE AtObject(p) /\ AtInputs(q)  BY <1>2, <1>4, ObjectAndInput
<1>5. CASE AtInputs(p) /\ AtObject(q)  BY <1>2, <1>5, ObjectAndInput
<1>6. CASE AtInputs(p) /\ AtInputs(q)  BY <1>6, TwoInputs
<1>7. CASE AtRuntime(p) /\ (AtObject(q) \/ AtInputs(q))  BY <1>2, <1>7, RuntimeAndOther
<1>8. CASE (AtObject(p) \/ AtInputs(p)) /\ AtRuntime(q)  BY <1>2, <1>8, RuntimeAndOther
<1>9. ~(AtRuntime(p) /\ AtRuntime(q))  OBVIOUS
<1> QED  BY <1>1, <1>3, <1>4, <1>5, <1>6, <1>7, <1>8, <1>9

LEMMA HooksDefined ==
  ASSUME FailInv, NEW j \in Jobs, Ready(j), Cmd[j].link,
         NEW u \in Product(j), u.hooks > 0
  PROVE  \E v \in Product(j) : v.src = RuntimeO
<1>1. Hooking
  <2>1. ~Hooking => NoHooks(Product(j))
    BY ProductNoHooks DEF FailInv, OutInv, Tree
  <2>2. u.hooks # 0  OBVIOUS
  <2> QED  BY <2>1, <2>2 DEF NoHooks
<1>2. Len(inputs[j]) = Len(Cmd[j].inputs) /\ link[j]  BY <1>1, CommandComplete
<1>3. PICK p \in DOMAIN CommandFiles(j) : CommandFiles(j)[p] = RuntimeO
  BY <1>2, CommandPlaces DEF FailInv, OutInv
<1>4. PICK v \in UnitsOf(j, RuntimeO) : v.src = RuntimeO  BY <1>1, RuntimeFile
<1> QED  BY <1>3, <1>4 DEF Product

LEMMA BuildableAtEnd ==
  ASSUME FailInv, NEW j \in Jobs, Ready(j)
  PROVE  Buildable(j)
BY FilesParse, UnitsDiffer, HooksDefined DEF Buildable
-----------------------------------------------------------------------------
(* A job that ends before its last command does so for a fatal fault. *)
LEMMA EarlyFatal ==
  ASSUME IInv, NEW j \in Jobs, Step(j), pc[j] # "final", pc'[j] = "done"
  PROVE  ~NotFatal(j)'
<1>1. \A b \in blame'[j] : Fatal(b) => ~NotFatal(j)'  BY DEF NotFatal
<1>2. \A to \in Stages \ {"done"} : pc' # [pc EXCEPT ![j] = to]  BY DEF IInv, Types
<1>3. ~AfterInput(j, 0) /\ ~AfterInput(j, idx[j])
  <2>1. idx[j] \in Nat  BY DEF IInv, Types
  <2> QED  BY <2>1, AfterInputFrame
<1>4. CASE PhasesFail(j)
  <2>1. PICK fate \in Fates : Blame(j, {fate})  BY <1>4 DEF PhasesFail
  <2>2. <<"idle", fate>> \in blame'[j]
    BY <1>4, <2>1, BlameFrame DEF PhasesFail, Startable
  <2> QED  BY <1>1, <2>2 DEF Fatal
<1>5. CASE PhasesParsed(j)
  <2>1. Blame(j, {"assertion"})
    <3>1. \A to \in {"declaration", "generate", "final"} : pc' # [pc EXCEPT ![j] = to]
      BY <1>2 DEF Stages
    <3> QED  BY <1>5, <3>1 DEF PhasesParsed
  <2>2. <<"idle", "assertion">> \in blame'[j]
    BY <1>5, <2>1, BlameFrame DEF PhasesParsed, Startable
  <2> QED  BY <1>1, <2>2 DEF Fatal
<1>6. CASE GenerateDeclaration(j)
  <2>1. PICK code \in Codes :
          /\ ExecFork(j, DeclarationLl, Whole(Made(DeclarationLl, j)), code)
          /\ code = 0 => pc' = [pc EXCEPT ![j] = "runtime"]
    BY <1>6 DEF GenerateDeclaration
  <2>2. code # 0  BY <1>2, <2>1 DEF Stages
  <2>3. Whole(Made(DeclarationLl, j)) # Absent  BY DEF Whole, Absent
  <2>4. PICK x \in Fates : <<"declaration", x>> \in blame'[j]
    BY <1>6, <2>1, <2>2, <2>3, ForkBlamed DEF GenerateDeclaration
  <2> QED  BY <1>1, <2>4 DEF Fatal
<1>7. CASE GenerateRuntime(j)
  <2>1. PICK code \in Codes :
          /\ ExecFork(j, RuntimeO, Whole(Made(RuntimeO, j)), code)
          /\ code = 0 => AfterInput(j, 0)
    BY <1>7 DEF GenerateRuntime
  <2>2. code # 0  BY <1>3, <2>1
  <2>3. Whole(Made(RuntimeO, j)) # Absent  BY DEF Whole, Absent
  <2>4. PICK x \in Fates : <<"runtime", x>> \in blame'[j]
    BY <1>7, <2>1, <2>2, <2>3, ForkBlamed DEF GenerateRuntime
  <2> QED  BY <1>1, <2>4 DEF Fatal
<1>8. ~GenerateLl(j)  BY <1>2, <1>3 DEF GenerateLl, AfterCompile, Stages
<1>9. CASE ApplyPass(j)
  <2>1. Blame(j, {"crash"})  BY <1>2, <1>3, <1>9 DEF ApplyPass, Caught, Stages
  <2>2. <<pc[j], "crash">> \in blame'[j]  BY <2>1, BlameFrame
  <2> QED  BY <1>1, <2>2 DEF Fatal
<1>10. ~OpenModule(j) /\ ~PrintModule(j)  BY <1>2, <1>3 DEF OpenModule, PrintModule, Stages
<1>11. CASE OpenFails(j) \/ PrintFails(j)
  <2>1. Blame(j, {"io"})  BY <1>11 DEF OpenFails, PrintFails
  <2>2. <<pc[j], "io">> \in blame'[j]  BY <2>1, BlameFrame
  <2> QED  BY <1>1, <2>2 DEF Fatal
<1> QED
  BY <1>4, <1>5, <1>6, <1>7, <1>8, <1>9, <1>10, <1>11 DEF Step, FinalCompile

(* Its last command fails only for a fault of its child. *)
LEMMA LastFatal ==
  ASSUME FailInv, NEW j \in Jobs, FinalCompile(j), status'[j] # 0, Ready(j)
  PROVE  ~NotFatal(j)'
<1> DEFINE made == IF Buildable(j) THEN Whole(Product(j)) ELSE Absent
<1>1. IInv  BY DEF FailInv, OutInv
<1>2. PICK code \in Codes : ExecFork(j, Cmd[j].out, made, code) /\ Exit(j, code)
  BY DEF FinalCompile
<1>3. code # 0
  <2>1. ExitByte(0) = 0  BY DEF ExitByte
  <2> QED  BY <1>1, <1>2, <2>1, ExitFrame
<1>4. made # Absent  BY BuildableAtEnd DEF Whole, Absent
<1>5. Cmd[j].out \in Files  BY CmdTypes
<1> HIDE DEF made
<1>6. PICK x \in Fates : <<"final", x>> \in blame'[j]
  BY <1>1, <1>2, <1>3, <1>4, <1>5, ForkBlamed DEF FinalCompile
<1> QED  BY <1>6 DEF NotFatal, Fatal

LEMMA FailureOKStep ==
  ASSUME FailInv, NEW j \in Jobs, Step(j), NEW k \in Jobs
  PROVE  FailureOK(k)'
<1>0. Framed(j) /\ IInv /\ FailureOK(k)  BY StepFrame DEF FailInv, OutInv, JobFine
<1> SUFFICES ASSUME pc'[k] = "done", status'[k] # 0, Private(k), Linkable(k), NotFatal(k)',
                    \A l \in Cmd[k].after : ~Misreported(l)',
                    Hooking => \A l \in Jobs \ {k} : ~LostRuntime(l)'
             PROVE  FALSE
  BY DEF FailureOK, NotFatal, Private, Linkable
<1>1. \A l \in Cmd[k].after : l \in Jobs /\ ~Misreported(l)
  <2>1. Cmd[k] \in CmdType  BY DEF CmdType
  <2>2. \A l \in Cmd[k].after : l \in Jobs  BY <2>1 DEF CmdType
  <2> QED  BY <1>0, <2>2, LostBefore
<1>2. Hooking => \A l \in Jobs \ {k} : ~LostRuntime(l)
  BY <1>0, LostBefore
<1>3. CASE k # j
  <2>1. SameJob(k)  BY <1>0, <1>3 DEF Framed
  <2>2. pc[k] = "done" /\ status[k] # 0 /\ NotFatal(k)  BY <2>1 DEF SameJob, NotFatal
  <2> QED  BY <1>0, <1>1, <1>2, <2>2 DEF FailureOK, NotFatal
<1>4. CASE k = j
  <2>1. pc[j] = "final"  BY <1>0, <1>4, EarlyFatal
  <2>2. FinalCompile(j)
    BY <2>1 DEF Step, PhasesFail, PhasesParsed, Startable, GenerateDeclaration,
       GenerateRuntime, GenerateLl, ApplyPass, OpenModule, OpenFails, PrintModule, PrintFails
  <2>3. NotFatal(j)  BY <1>0, <1>4, NotFatalBefore
  <2>4. Ready(j)  BY <1>1, <1>2, <1>4, <2>1, <2>3 DEF Ready
  <2> QED  BY <1>4, <2>2, <2>4, LastFatal
<1> QED  BY <1>3, <1>4

LEMMA InitFailInv == Init => FailInv
<1> SUFFICES ASSUME Init PROVE FailInv
  OBVIOUS
<1>1. OutInv /\ PlainInv  BY InitOutInv, PlainInvInit
<1>2. /\ pc = [j \in Jobs |-> "idle"] /\ blame = [j \in Jobs |-> {}]
      /\ \E kind \in Leftovers : disk = [f \in Files |-> Leftover(kind, f)]
  BY DEF Init
<1>3. PICK kind \in Leftovers : disk = [f \in Files |-> Leftover(kind, f)]
  BY <1>2
<1>4. ASSUME NEW f \in Files
      PROVE  \/ disk[f] = Absent
             \/ f \in Sources \ Piped /\ disk[f] = Whole(Made(f, Earlier))
             \/ f \notin Sources /\ disk[f] = Whole(EarlierUnits(f))
             \/ f \notin Sources /\ disk[f] = Torn({})
  <2>1. kind \in {"absent", "torn", "earlier"}  OBVIOUS
  <2>2. disk[f] = Leftover(kind, f)  BY <1>3
  <2>3. CASE f \in Piped  BY <2>2, <2>3 DEF Leftover
  <2>4. CASE f \in Sources \ Piped  BY <2>2, <2>4 DEF Leftover
  <2>5. CASE f \notin Sources
    <3>1. CASE kind = "absent"  BY <2>2, <2>5, <3>1 DEF Leftover
    <3>2. CASE kind = "earlier"  BY <2>2, <2>5, <3>2 DEF Leftover
    <3>3. CASE kind = "torn"  BY <2>2, <2>5, <3>3 DEF Leftover
    <3> QED  BY <2>1, <2>5, <3>1, <3>2, <3>3
  <2> QED  BY <2>3, <2>4, <2>5
<1>5. NoneOpen
  <2>1. Absent.writers = {} /\ Torn({}).writers = {} /\ \A u : Whole(u).writers = {}
    BY DEF Absent, Whole, Torn
  <2> QED  BY <1>4, <2>1 DEF NoneOpen
<1>6. SourcesKept
  <2> SUFFICES ASSUME NEW s \in Sources \ Piped PROVE Parses(s)
    BY DEF SourcesKept
  <2>1. disk[s] = Whole(Made(s, Earlier))  BY <1>3 DEF Leftover
  <2> QED  BY <2>1 DEF Parses, Whole
<1>7. LlUnits
  <2> SUFFICES ASSUME NEW s \in Sources PROVE OfLl(disk[Ll[s]].units, Ll[s])
    BY <1>2 DEF LlUnits
  <2>1. CASE disk[Ll[s]] = Absent \/ disk[Ll[s]] = Torn({})
    BY <2>1 DEF OfLl, Absent, Torn
  <2>2. CASE Ll[s] \in Sources /\ disk[Ll[s]] = Whole(Made(Ll[s], Earlier))
    BY <2>2 DEF OfLl, Whole, Made
  <2>3. CASE disk[Ll[s]] = Whole(EarlierUnits(Ll[s]))
    <3>1. \A u \in EarlierUnits(Ll[s]) : u.src \in Sources /\ Ll[u.src] = Ll[s]
      BY DEF EarlierUnits
    <3> QED  BY <2>3, <3>1 DEF OfLl, Whole
  <2> QED  BY <1>4, <2>1, <2>2, <2>3
<1>8. NeverHooked
  <2> SUFFICES ASSUME ~Hooking, NEW f \in Files PROVE NoHooks(disk[f].units)
    BY DEF NeverHooked
  <2>1. NoHooks(EarlierUnits(f))  BY DEF NoHooks, EarlierUnits, Made
  <2>2. NoHooks(Made(f, Earlier)) /\ NoHooks({})  BY DEF NoHooks, Made
  <2>3. \A u : Whole(u).units = u  BY DEF Whole
  <2>4. Absent.units = {} /\ Torn({}).units = {}  BY DEF Absent, Torn
  <2>5. disk[f].units \in {{}, EarlierUnits(f), Made(f, Earlier)}
    BY <1>4, <2>3, <2>4
  <2> QED  BY <2>1, <2>2, <2>5
<1>9. ASSUME NEW j \in Jobs PROVE JobFine(j)
  BY <1>2 DEF JobFine, PhasesOK, FilesOK, RuntimeOK, OutputOK, FailureOK, Working, InLoop
<1> QED  BY <1>1, <1>5, <1>6, <1>7, <1>8, <1>9 DEF FailInv, Tree, PlainInv

LEMMA FailInvStep ==
  ASSUME FailInv, NEW j \in Jobs, Step(j)
  PROVE  FailInv'
<1>1. IInv /\ OutInv /\ Tree /\ \A k \in Jobs : JobFine(k)
  BY DEF FailInv, OutInv
<1>2. OutInv'
  <2>1. Next  BY DEF Next
  <2> QED  BY <1>1, <2>1, NextOutInv
<1>3. Tree'
  BY <1>1, NoneOpenStep, SourcesKeptStep, LlUnitsStep, NeverHookedStep, RuntimeUnitsStep
  DEF Tree
<1>4. ASSUME NEW k \in Jobs PROVE JobFine(k)'
  <2>1. JobFine(k)  BY <1>1
  <2>2. PhasesOK(k)'  BY <1>1, <2>1, PhasesOKStep DEF JobFine
  <2>3. FilesOK(k)'  BY <1>1, <2>1, FilesOKStep DEF JobFine, Tree
  <2>4. RuntimeOK(k)'  BY <1>1, <2>1, RuntimeOKStep DEF JobFine
  <2>5. OutputOK(k)'  BY <1>1, <2>1, OutputOKStep DEF JobFine, Tree
  <2>6. FailureOK(k)'  BY FailureOKStep
  <2> QED  BY <2>2, <2>3, <2>4, <2>5, <2>6 DEF JobFine
<1> QED  BY <1>2, <1>3, <1>4 DEF FailInv

LEMMA FailInvStutter ==
  ASSUME FailInv, UNCHANGED vars
  PROVE  FailInv'
<1>1. OutInv'  BY StutterOutInv DEF FailInv
<1>2. Tree'
  BY DEF FailInv, Tree, NoneOpen, SourcesKept, LlUnits, OfLl, NeverHooked, NoHooks,
     RuntimeUnits, Parses, Raw, Hooking, vars
<1>3. ASSUME NEW j \in Jobs PROVE JobFine(j)'
  <2>1. JobFine(j)  BY DEF FailInv
  <2>2. /\ UNCHANGED <<disk, pc, inputs, link, idx, status, blame>>  BY DEF vars
  <2>3. PhasesOK(j)'  BY <2>1, <2>2 DEF JobFine, PhasesOK, Working, Hooking
  <2>4. FilesOK(j)'
    BY <2>1, <2>2 DEF JobFine, FilesOK, FileOK, Readable, Parses, NotFatal, Fatal, Working,
       Private, Raw
  <2>5. RuntimeOK(j)'
    BY <2>1, <2>2 DEF JobFine, RuntimeOK, Parses, NotFatal, LostRuntime, InLoop, Hooking
  <2>6. OutputOK(j)'
    BY <2>1, <2>2 DEF JobFine, OutputOK, Parses, Misreported, InputSet
  <2>7. FailureOK(j)'
    BY <2>1, <2>2 DEF JobFine, FailureOK, Private, Linkable, Misreported, LostRuntime, Hooking
  <2> QED  BY <2>3, <2>4, <2>5, <2>6, <2>7 DEF JobFine
<1> QED  BY <1>1, <1>2, <1>3 DEF FailInv

(* The invariant of everything a last command needs. *)
THEOREM FailInvariance == Spec => []FailInv
<1>1. FailInv /\ [Next]_vars => FailInv'
  <2> SUFFICES ASSUME FailInv, [Next]_vars PROVE FailInv'
    OBVIOUS
  <2>1. CASE UNCHANGED vars  BY <2>1, FailInvStutter
  <2>2. CASE Next  BY <2>2, FailInvStep DEF Next
  <2> QED  BY <2>1, <2>2
<1> QED  BY <1>1, InitFailInv, PTL DEF Spec

(* Instrumentation never breaks a build: a wrapper whose inputs share no .ll  *)
(* file and whose objects do not clash fails only for one of the faults that  *)
(* the code lets end it, for an object that was misreported, or for a runtime *)
(* that another job's failing compile took away.                              *)
THEOREM NoneSpurious == Spec => []NoSpuriousFailure
<1>1. FailInv => NoSpuriousFailure
  BY DEF FailInv, JobFine, FailureOK, NoSpuriousFailure
<1> QED  BY <1>1, FailInvariance, PTL
=============================================================================
