------------------------------ MODULE HookPass ------------------------------
(***************************************************************************)
(* The passes over a module (pass/pass_base.cc): call-hook puts a call of  *)
(* the runtime before every call, make-counter before the calls of JNI     *)
(* functions, which are those through a named field of a struct, and       *)
(* struct-parser reports the fields that are accessed.  The last two build *)
(* a StructParser of the module first and ask it for names.  The loop is   *)
(* over the list of instructions that the hooks are put into.              *)
(***************************************************************************)
EXTENDS StructParser, SequencesExt

CONSTANTS
  Tools,    (* the passes among "call-hook", "counter" and "struct-parser"    *)
  Modules,  (* the blocks of modules, behind the one that declares the locals *)
  NoField   (* an instruction that accesses no field of a struct              *)

(* A call is direct or through a pointer; a call or a load through a field *)
(* uses the address that a getelementptr gave for it.                      *)
FieldOf == [type : {t \in Types : Ir[t].kind = "struct"}, index : Nat]
Instruction == [op : {"call", "invoke", "load", "gep", "other"}, direct : BOOLEAN,
                field : FieldOf \cup {NoField}, hook : BOOLEAN]
Block == [dotted : BOOLEAN, insts : Seq(Instruction)]

(* No instruction accesses padding; an index that is no constant counts as 0. *)
Accessible(f) ==
  f.index = 0 \/ (f.index \in DOMAIN Ir[f.type].elements /\ Fields[f.type][f.index] # "")

ASSUME ToolsAssumption == Tools \subseteq {"call-hook", "counter", "struct-parser"}
ASSUME NoFieldAssumption == NoField \notin FieldOf
ASSUME ModulesAssumption ==
  /\ Modules \subseteq Seq(Block)
  /\ \A m \in Modules : \A k \in DOMAIN m : \A l \in DOMAIN m[k].insts :
       LET inst == m[k].insts[l]
       IN ~inst.hook /\ (inst.field # NoField => Accessible(inst.field))

VARIABLES
  tool,      (* the pass                                                    *)
  source,    (* the module as it was read                                   *)
  code,      (* the module, as blocks of functions with a dot in their name *)
             (* or without                                                  *)
  b, i,      (* the block and the instruction the loops have come to        *)
  modified,  (* what run_on_module() returns                                *)
  pc         (* whether the loops are over, or a null pointer was used      *)

pass == <<tool, source, code, b, i, modified, pc>>

Plain(op, direct) == [op |-> op, direct |-> direct, field |-> NoField, hook |-> FALSE]
Hook == [op |-> "call", direct |-> TRUE, field |-> NoField, hook |-> TRUE]

(* Each declaration of a local is a call of llvm.dbg.declare(). *)
Declarations(variables) ==
  [dotted |-> FALSE, insts |-> [n \in DOMAIN variables |-> Plain("call", TRUE)]]

PassInit ==
  /\ Init
  /\ tool \in Tools
  /\ \E m \in Modules : source = <<Declarations(locals)>> \o m
  /\ code = source /\ b = 1 /\ i = 1
  /\ modified = FALSE /\ pc = "walk"

(* The constructor of the two passes that ask for names. *)
Construct ==
  /\ tool # "call-hook"
  /\ Probe
  /\ UNCHANGED pass

Ready == pc = "walk" /\ crash = "none" /\ (tool = "call-hook" \/ Parsed)
InModule == Ready /\ b <= Len(code)
AtInstruction == InModule /\ ~code[b].dotted /\ i <= Len(code[b].insts)
Inst == code[b].insts[i]
-----------------------------------------------------------------------------
(* run_on_function(): a function with a dot in its name is skipped. *)
SkipFunction ==
  /\ InModule /\ code[b].dotted
  /\ b' = b + 1 /\ i' = 1
  /\ UNCHANGED <<vars, tool, source, code, modified, pc>>

EndBlock ==
  /\ InModule /\ ~code[b].dotted /\ i > Len(code[b].insts)
  /\ b' = b + 1 /\ i' = 1
  /\ UNCHANGED <<vars, tool, source, code, modified, pc>>

EndModule ==
  /\ Ready /\ b > Len(code)
  /\ pc' = "done"
  /\ UNCHANGED <<vars, tool, source, code, b, i, modified>>

Continue == i' = i + 1 /\ UNCHANGED <<code, modified>>

(* A mutant of InsertHook: the hook comes behind the call, and the loop to it. *)
InsertHookBehind ==
  /\ code' = [code EXCEPT ![b].insts = InsertAt(@, i + 1, Hook)]
  /\ i' = i + 1
  /\ modified' = TRUE

(* IRBuilder(&inst): the hook comes before the call, which the loop is at. *)
InsertHook ==
  /\ code' = [code EXCEPT ![b].insts = InsertAt(@, i, Hook)]
  /\ i' = i + 2
  /\ modified' = TRUE

HooksAll == tool = "call-hook" /\ Inst.op = "call"

(* The instructions whose field the pass asks the struct parser about. *)
Asks(inst) ==
  /\ inst.field # NoField
  /\ \/ tool = "counter" /\ inst.op = "call"
     \/ tool = "struct-parser" /\ inst.op \in {"load", "gep"}

RunOnOther ==
  /\ AtInstruction /\ ~HooksAll /\ ~Asks(Inst)
  /\ Continue
  /\ UNCHANGED <<vars, tool, source, b, pc>>

(* run_on_call_inst() of call-hook: a call through a pointer has no function. *)
RunOnCallInst ==
  /\ AtInstruction /\ HooksAll
  /\ IF Inst.direct THEN InsertHook /\ UNCHANGED pc
     ELSE pc' = "crashed" /\ UNCHANGED <<code, i, modified>>
  /\ UNCHANGED <<vars, tool, source, b>>

(* A call that has a name is hooked; the other pass only writes it down. *)
RunOnField ==
  /\ AtInstruction /\ Asks(Inst)
  /\ GetFieldName(Inst.field.type, Inst.field.index)
  /\ IF tool = "counter" /\ answer'.name # "" /\ crash' = "none" THEN InsertHook ELSE Continue
  /\ UNCHANGED <<tool, source, b, pc>>

Walk ==
  \/ SkipFunction \/ EndBlock \/ EndModule
  \/ RunOnOther \/ RunOnCallInst \/ RunOnField

PassNext == Construct \/ Walk

PassSpec == PassInit /\ [][PassNext]_<<vars, pass>>

FairPassSpec == PassSpec /\ WF_<<vars, pass>>(PassNext)
-----------------------------------------------------------------------------
(***************************************************************************)
(* Properties.                                                             *)
(***************************************************************************)
(* The variables have their types, and the loops stay in their lists. *)
PassTypeOK ==
  /\ TypeOK
  /\ tool \in Tools /\ source \in Seq(Block) /\ code \in Seq(Block)
  /\ b \in 1 .. Len(code) + 1
  /\ i \in Nat \ {0} /\ (b <= Len(code) => i <= Len(code[b].insts) + 1)
  /\ modified \in BOOLEAN /\ pc \in {"walk", "done", "crashed"}

(* The calls that are of interest, by the source: those through a pointer *)
(* are where a field has a name there and a local leads to the struct.     *)
OfInterest(inst) ==
  /\ inst.op = "call"
  /\ \/ tool = "call-hook"
     \/ /\ tool = "counter" /\ inst.field # NoField
        /\ inst.field.index # 0 /\ inst.field.type \in Recorded
        /\ Fields[inst.field.type][inst.field.index] # ""

HookedIn(insts) == {l \in DOMAIN insts : OfInterest(insts[l])}

(* Where instruction l comes to be if each of hooked gets a hook before it. *)
Moved(hooked, l) == l + Cardinality(hooked \cap 1 .. l)

Instrumented(new, old, hooked) ==
  IF old.dotted THEN new = old
  ELSE /\ ~new.dotted
       /\ Len(new.insts) = Moved(hooked, Len(old.insts))
       /\ \A l \in DOMAIN old.insts : new.insts[Moved(hooked, l)] = old.insts[l]
       /\ \A l \in hooked : new.insts[Moved(hooked, l) - 1] = Hook

(* The pass asks about no field of a struct whose debug type is wrapped:   *)
(* call-hook never asks, counter only about the fields it calls through.   *)
Settled ==
  \A k \in DOMAIN source : \A l \in DOMAIN source[k].insts :
    Asks(source[k].insts[l]) => ~Wrapped(source[k].insts[l].field.type)

(***************************************************************************)
(* When the loops are over each call of interest, and nothing else, has a  *)
(* hook right before it, one and no more, though the hooks are put into    *)
(* the list that the loop is over; and modified tells whether there is     *)
(* one, on which it depends whether the module is written at all.  A pass  *)
(* that asks about a struct that is volatile somewhere, or a base class,   *)
(* is left out (Settled): it may get no name, or crash.                    *)
(***************************************************************************)
HooksExact ==
  pc = "done" /\ Settled =>
    /\ Len(code) = Len(source)
    /\ \A k \in DOMAIN source : Instrumented(code[k], source[k], HookedIn(source[k].insts))
    /\ modified <=> code # source

(***************************************************************************)
(* The walk over the types and that over the instructions end: the hooks   *)
(* that are inserted do not keep the loop busy.  What ends the pass before *)
(* is a call through a pointer for call-hook, and being asked about a      *)
(* struct with a wrapped debug type for the others.                        *)
(***************************************************************************)
PassEnds ==
  <>(\/ pc = "done"
     \/ tool = "call-hook" /\ pc = "crashed" /\ ~Inst.direct
     \/ crash # "none" /\ ~Settled)
=============================================================================
