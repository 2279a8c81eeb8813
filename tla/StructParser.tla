---------------------------- MODULE StructParser ----------------------------
(***************************************************************************)
(* The struct parser (utility/struct_parser.cc): it walks the types of the *)
(* local variables of a module side by side with their debug types, maps   *)
(* each type to the first debug type it meets for it, and answers the pass *)
(* (pass/pass_struct_parser.cc) with the names of fields.  A step is a     *)
(* turn of a loop or a call, on an explicit stack.                         *)
(***************************************************************************)
EXTENDS Integers, Sequences, FiniteSets

CONSTANTS
  Types,      (* the types of the module; pointers have a type they point to *)
  Ir,         (* Ir[t] is their kind, the elements of a struct with their    *)
              (* offsets, and what a pointer points to                       *)
  DITypes,    (* the debug types, members of a struct among them             *)
  Di,         (* Di[d] is the tag, the base, the name and the offset of a    *)
              (* derived debug type, and the elements of a composite one     *)
  Void,       (* the debug types that are nothing but qualifiers of void     *)
  Variables,  (* the local variables, each declared by one llvm.dbg.declare  *)
  Orders,     (* the orders in which a module may declare some of them       *)
  Own,        (* the source: Own[t] is the debug type that describes t, and  *)
  Fields,     (* Fields[t][k] the field that is element k of t, "" for none  *)
  NoDI        (* the null debug type                                         *)

Stripped == {"member", "typedef", "const"}
Derived == Stripped \cup {"volatile", "inheritance", "pointer"}
Composite == {"structure", "union", "class"}
Tags == Derived \cup Composite \cup {"subprogram", "other"}

TypeInfo == [kind : {"struct", "pointer", "other"}, pointee : Types,
             elements : Seq([type : Types, offset : Nat])]
DebugInfo == [tag : Tags, base : DITypes \cup {NoDI}, name : STRING, offset : Nat,
              elements : Seq(DITypes)]

ASSUME TypesAssumption == IsFiniteSet(Types)
(* Elements of a struct are laid out in their order. *)
ASSUME IrAssumption ==
  /\ Ir \in [Types -> TypeInfo]
  /\ \A t \in Types : \A k, l \in DOMAIN Ir[t].elements :
       k < l => Ir[t].elements[k].offset <= Ir[t].elements[l].offset
ASSUME DiAssumption == Di \in [DITypes -> DebugInfo] /\ NoDI \notin DITypes
ASSUME VoidAssumption ==
  /\ Void \subseteq DITypes
  /\ \A d \in DITypes :
       d \in Void <=> Di[d].tag \in Stripped /\ Di[d].base \in Void \cup {NoDI}
ASSUME OrdersAssumption ==
  /\ Variables \subseteq [type : Types, di : DITypes, expression : BOOLEAN]
  /\ Orders \subseteq Seq(Variables)

VARIABLES
  locals,   (* the declarations of the module, in its order                 *)
  next,     (* the one the walk over the instructions has come to           *)
  typeMap,  (* _type_map, NoDI where it has no debug type                   *)
  stack,    (* the calls of probe_type() that have not returned             *)
  answer,   (* what get_field_name() was last asked, and its answer         *)
  crash     (* the assertion or the cast that failed                        *)

walk == <<locals, next, typeMap, stack>>
vars == <<walk, answer, crash>>

(* A call is at get_base_type(), in the loop over the fields, at element i *)
(* and member j, or about to return.                                       *)
Call(t, d) == [type |-> t, di |-> d, at |-> "base", i |-> 1, j |-> 1]

NoAnswer == [asked |-> FALSE]

Init ==
  /\ locals \in Orders /\ next = 1
  /\ typeMap = [t \in Types |-> NoDI]
  /\ stack = <<>>
  /\ answer = NoAnswer
  /\ crash = "none"
-----------------------------------------------------------------------------
Top == stack[Len(stack)]
AtTop(stage) == crash = "none" /\ stack # <<>> /\ Top.at = stage
SetTop(frame) == stack' = [stack EXCEPT ![Len(stack)] = frame]
Return == stack' = SubSeq(stack, 1, Len(stack) - 1)
CallFrom(frame, t, d) == stack' = Append([stack EXCEPT ![Len(stack)] = frame], Call(t, d))

(* run_on_dbg_declare_inst(): a declaration with an expression is skipped. *)
RunOnDbgDeclareInst ==
  /\ crash = "none" /\ stack = <<>> /\ next <= Len(locals)
  /\ next' = next + 1
  /\ LET v == locals[next]
     IN stack' = IF v.expression THEN stack ELSE <<Call(v.type, v.di)>>
  /\ UNCHANGED <<locals, typeMap, answer, crash>>

(* A mutant of Strippable: const is kept. *)
StrippableNotConst(d) == d # NoDI /\ Di[d].tag \in Stripped \ {"const"}

Strippable(d) == d # NoDI /\ Di[d].tag \in Stripped

(* A turn of the recursion of get_base_type(). *)
GetBaseType ==
  /\ AtTop("base") /\ Strippable(Top.di)
  /\ SetTop([Top EXCEPT !.di = Di[Top.di].base])
  /\ UNCHANGED <<locals, next, typeMap, answer, crash>>

(* A mutant of Seen: types are walked again. *)
SeenNever(t) == FALSE

Seen(t) == typeMap[t] # NoDI

(* probe_type() returns early without a debug type or for a type it knows. *)
ProbeKnown ==
  /\ AtTop("base") /\ ~Strippable(Top.di)
  /\ Top.di = NoDI \/ Seen(Top.type)
  /\ Return
  /\ UNCHANGED <<locals, next, typeMap, answer, crash>>

(* Otherwise it maps the type, and goes on by the tag of the debug type. *)
Record(tags) ==
  /\ AtTop("base") /\ Top.di # NoDI /\ ~Strippable(Top.di) /\ ~Seen(Top.type)
  /\ Di[Top.di].tag \in tags
  /\ typeMap' = [typeMap EXCEPT ![Top.type] = Top.di]
  /\ UNCHANGED <<locals, next, answer>>

ProbePointer ==
  /\ Record({"pointer"})
  /\ IF Ir[Top.type].kind = "pointer"
     THEN /\ CallFrom([Top EXCEPT !.at = "return"], Ir[Top.type].pointee, Di[Top.di].base)
          /\ UNCHANGED crash
     ELSE crash' = "pointer" /\ UNCHANGED stack

ProbeStruct ==
  /\ Record({"structure"})
  /\ IF Ir[Top.type].kind = "struct"
     THEN SetTop([Top EXCEPT !.at = "merge", !.i = 1, !.j = 1]) /\ UNCHANGED crash
     ELSE crash' = "struct" /\ UNCHANGED stack

ProbeOther ==
  /\ Record(Tags \ {"pointer", "structure"})
  /\ Return
  /\ UNCHANGED crash

ReturnFromPointer ==
  /\ AtTop("return")
  /\ Return
  /\ UNCHANGED <<locals, next, typeMap, answer, crash>>
-----------------------------------------------------------------------------
(***************************************************************************)
(* The loop over the elements of the struct and those of its debug type,   *)
(* which pairs what has the same offset.                                   *)
(***************************************************************************)
Elements == Ir[Top.type].elements
Members == Di[Top.di].elements
InLoop == Top.i <= Len(Elements) /\ Top.j <= Len(Members)
ElementOffset == Elements[Top.i].offset
Member == Di[Members[Top.j]]
IsDerived(d) == Di[d].tag \in Derived

(* A mutant of SkipForeign: without the increment. *)
SkipForeignStays ==
  /\ AtTop("merge") /\ InLoop /\ ~IsDerived(Members[Top.j])
  /\ UNCHANGED vars

SkipForeign ==
  /\ AtTop("merge") /\ InLoop /\ ~IsDerived(Members[Top.j])
  /\ SetTop([Top EXCEPT !.j = @ + 1])
  /\ UNCHANGED <<locals, next, typeMap, answer, crash>>

(* A mutant of SkipElement: the member is skipped, too. *)
SkipBoth ==
  /\ AtTop("merge") /\ InLoop /\ IsDerived(Members[Top.j])
  /\ ElementOffset < Member.offset
  /\ SetTop([Top EXCEPT !.i = @ + 1, !.j = @ + 1])
  /\ UNCHANGED <<locals, next, typeMap, answer, crash>>

SkipElement ==
  /\ AtTop("merge") /\ InLoop /\ IsDerived(Members[Top.j])
  /\ ElementOffset < Member.offset
  /\ SetTop([Top EXCEPT !.i = @ + 1])
  /\ UNCHANGED <<locals, next, typeMap, answer, crash>>

SkipMember ==
  /\ AtTop("merge") /\ InLoop /\ IsDerived(Members[Top.j])
  /\ ElementOffset > Member.offset
  /\ SetTop([Top EXCEPT !.j = @ + 1])
  /\ UNCHANGED <<locals, next, typeMap, answer, crash>>

(* A mutant of Match: the next element is left out. *)
MatchSkips ==
  /\ AtTop("merge") /\ InLoop /\ IsDerived(Members[Top.j])
  /\ ElementOffset = Member.offset
  /\ CallFrom([Top EXCEPT !.i = @ + 2, !.j = @ + 1], Elements[Top.i].type, Members[Top.j])
  /\ UNCHANGED <<locals, next, typeMap, answer, crash>>

Match ==
  /\ AtTop("merge") /\ InLoop /\ IsDerived(Members[Top.j])
  /\ ElementOffset = Member.offset
  /\ CallFrom([Top EXCEPT !.i = @ + 1, !.j = @ + 1], Elements[Top.i].type, Members[Top.j])
  /\ UNCHANGED <<locals, next, typeMap, answer, crash>>

EndLoop ==
  /\ AtTop("merge") /\ ~InLoop
  /\ Return
  /\ UNCHANGED <<locals, next, typeMap, answer, crash>>
-----------------------------------------------------------------------------
Parsed == crash = "none" /\ stack = <<>> /\ next > Len(locals)

(* Where the search for an offset ends: at a member that has it, or with a *)
(* failing cast at an element that is none.                                *)
Stops(d, offset) ==
  {k \in DOMAIN Di[d].elements :
     LET m == Di[d].elements[k] IN ~IsDerived(m) \/ Di[m].offset = offset}

Answer(t, k, name) == answer' = [asked |-> TRUE, type |-> t, index |-> k, name |-> name]

(***************************************************************************)
(* get_field_name() for a getelementptr into struct t, with the constant   *)
(* index k or, for any other, 0.                                           *)
(***************************************************************************)
GetFieldName(t, k) ==
  /\ Parsed
  /\ UNCHANGED walk
  /\ IF k = 0 \/ typeMap[t] = NoDI THEN Answer(t, k, "") /\ UNCHANGED crash
     ELSE IF Di[typeMap[t]].tag \notin Composite
     THEN Answer(t, k, "") /\ crash' = "composite"
     ELSE LET d == typeMap[t]
              stops == Stops(d, Ir[t].elements[k].offset)
              first == CHOOSE s \in stops : \A u \in stops : s <= u
          IN IF stops = {} THEN Answer(t, k, "") /\ UNCHANGED crash
             ELSE IF IsDerived(Di[d].elements[first])
             THEN Answer(t, k, Di[Di[d].elements[first]].name) /\ UNCHANGED crash
             ELSE Answer(t, k, "") /\ crash' = "member"

(* The pass asks for the field of every instruction that accesses one. *)
RunOnInstruction ==
  \E t \in {u \in Types : Ir[u].kind = "struct"} :
    \E k \in {0} \cup {l \in DOMAIN Ir[t].elements : Fields[t][l] # ""} : GetFieldName(t, k)

Probe ==
  \/ RunOnDbgDeclareInst \/ GetBaseType \/ ProbeKnown
  \/ ProbePointer \/ ProbeStruct \/ ProbeOther \/ ReturnFromPointer
  \/ SkipForeign \/ SkipElement \/ SkipMember \/ Match \/ EndLoop

Next == Probe \/ RunOnInstruction

Spec == Init /\ [][Next]_vars
-----------------------------------------------------------------------------
(***************************************************************************)
(* Properties.                                                             *)
(***************************************************************************)
Recorded == {t \in Types : typeMap[t] # NoDI}

Frame == [type : Types, di : DITypes \cup {NoDI}, at : {"base", "merge", "return"},
          i : Nat, j : Nat]

(* A loop is at most behind the last element and the last member. *)
InRange(f) ==
  f.at = "merge" => /\ f.di \in DITypes
                    /\ f.i \in 1 .. Len(Ir[f.type].elements) + 1
                    /\ f.j \in 1 .. Len(Di[f.di].elements) + 1

(* The variables have their types, and the loops stay in their lists. *)
TypeOK ==
  /\ locals \in Seq(Variables) /\ next \in 1 .. Len(locals) + 1
  /\ typeMap \in [Types -> DITypes \cup {NoDI}]
  /\ stack \in Seq(Frame)
  /\ \A n \in DOMAIN stack : InRange(stack[n])
  /\ crash \in {"none", "pointer", "struct", "composite", "member"}

(* However types refer to each other, in cycles or by way of others: the   *)
(* recursion is never deeper than there are types, and one more.           *)
DepthBounded == Len(stack) <= Cardinality(Types) + 1

(* The debug type d of type t has been taken care of. *)
Done(t, d) == d \in Void \cup {NoDI} \/ t \in Recorded

(* Element k of t and member m of d belong together: they have the same   *)
(* offset, k is the first element that has it and m exceeds the members    *)
(* before it.                                                              *)
Together(t, d, k, m) ==
  /\ IsDerived(Di[d].elements[m])
  /\ Ir[t].elements[k].offset = Di[Di[d].elements[m]].offset
  /\ \A l \in 1 .. k - 1 : Ir[t].elements[l].offset < Ir[t].elements[k].offset
  /\ \A l \in 1 .. m - 1 :
       IsDerived(Di[d].elements[l]) =>
         Di[Di[d].elements[l]].offset < Di[Di[d].elements[m]].offset

(***************************************************************************)
(* When the walk is over it has missed nothing, whatever the order of the  *)
(* declarations and wherever types that were known have cut it short: the  *)
(* type of each variable, what a pointer points to and each element with a *)
(* member of its own have a debug type.                                    *)
(***************************************************************************)
WalkComplete ==
  Parsed =>
    /\ \A n \in DOMAIN locals : locals[n].expression \/ Done(locals[n].type, locals[n].di)
    /\ \A t \in Recorded :
         LET d == typeMap[t]
         IN /\ Di[d].tag = "pointer" => Done(Ir[t].pointee, Di[d].base)
            /\ Di[d].tag = "structure" =>
                 \A k \in DOMAIN Ir[t].elements, m \in DOMAIN Di[d].elements :
                   Done(Ir[t].elements[k].type, Di[d].elements[m]) \/ ~Together(t, d, k, m)

(* The debug types that wrap that of t in a way that get_base_type() keeps. *)
Wrapped(t) ==
  \E d \in DITypes : Di[d].tag \in {"volatile", "inheritance"} /\ Di[d].base = Own[t]

(***************************************************************************)
(* A struct that is nowhere volatile nor a base class gets the names its   *)
(* fields have in the source, or none if no variable leads to it; asking   *)
(* for them does not end the pass.                                         *)
(***************************************************************************)
NamesRight ==
  answer.asked /\ ~Wrapped(answer.type) =>
    /\ crash = "none"
    /\ answer.name = IF answer.index = 0 \/ answer.type \notin Recorded THEN ""
                     ELSE Fields[answer.type][answer.index]

(***************************************************************************)
(* What the names depend on.  LeadsTo(t, d) are the pairs that a walk may  *)
(* go on with from type t with debug type d.                               *)
(***************************************************************************)
LeadsTo(t, d) ==
  IF d = NoDI THEN {}
  ELSE IF Di[d].tag \in Stripped THEN {<<t, Di[d].base>>}
  ELSE IF Di[d].tag = "pointer" THEN {<<Ir[t].pointee, Di[d].base>>}
  ELSE {<<Ir[t].elements[p[1]].type, Di[d].elements[p[2]]>> :
          p \in {q \in (DOMAIN Ir[t].elements) \X (DOMAIN Di[d].elements) :
                   /\ Di[d].tag = "structure"
                   /\ IsDerived(Di[d].elements[q[2]])
                   /\ Ir[t].elements[q[1]].offset = Di[Di[d].elements[q[2]]].offset}}

(* The first member at the offset of a field is the field: no method and   *)
(* no static member comes before it.                                       *)
Named(t) ==
  /\ Di[Own[t]].tag \in Composite
  /\ \A k \in DOMAIN Ir[t].elements : Fields[t][k] # "" =>
       \E m \in DOMAIN Di[Own[t]].elements :
         LET field == Di[Own[t]].elements[m]
         IN /\ IsDerived(field) /\ Di[field].name = Fields[t][k]
            /\ Stops(Own[t], Ir[t].elements[k].offset) \cap 1 .. m = {m}

(* R holds the pairs that the variables lead to, and a debug type that is  *)
(* recorded for a struct there is its own and names its fields.            *)
Described(R) ==
  /\ \A v \in Variables : v.expression \/ <<v.type, v.di>> \in R
  /\ \A p \in R : LeadsTo(p[1], p[2]) \subseteq R
  /\ \A p \in R : Ir[p[1]].kind = "struct" /\ p[2] # NoDI /\ Di[p[2]].tag \notin Stripped =>
       Wrapped(p[1]) \/ (p[2] = Own[p[1]] /\ Named(p[1]))

(* assert(type->isPointerTy()): a debug type that is a pointer goes with a *)
(* type that is one.                                                       *)
PointerTypesAgree == crash # "pointer"
=============================================================================
