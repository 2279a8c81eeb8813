--------------------------- MODULE HookPassProofs ---------------------------
(***************************************************************************)
(* Proofs about HookPass, for any module: a pass takes only steps that the *)
(* struct parser allows, so that what is proved of that holds in the pass; *)
(* the loops stay in the lists that they put hooks into; what they put     *)
(* there is right, and a pass that reports no change has made none.        *)
(***************************************************************************)
EXTENDS HookPass, StructParserProofs

(* The instructions of a module, hooks among them, access fields only. *)
GoodInst == {inst \in Instruction : inst.field # NoField => Accessible(inst.field)}
GoodBlock == [dotted : BOOLEAN, insts : Seq(GoodInst)]

LoopsInRange ==
  /\ b \in 1 .. Len(code) + 1
  /\ i \in Nat \ {0} /\ (b <= Len(code) => i <= Len(code[b].insts) + 1)

PassInv ==
  /\ tool \in Tools
  /\ source \in Seq(GoodBlock) /\ code \in Seq(GoodBlock)
  /\ LoopsInRange
  /\ modified \in BOOLEAN /\ pc \in {"walk", "done", "crashed"}

(***************************************************************************)
(* A pass that does not report a change has left the module as it was      *)
(* read: then the module is not written.                                   *)
(***************************************************************************)
UnmodifiedIsSource == modified \/ code = source
-----------------------------------------------------------------------------
LEMMA JoinFacts ==
  ASSUME NEW S, NEW s \in Seq(S), NEW t \in Seq(S), NEW n, NEW m, n = Len(s), m = Len(t)
  PROVE  /\ s \o t \in Seq(S) /\ Len(s \o t) = n + m
         /\ \A k \in 1 .. n : (s \o t)[k] = s[k]
         /\ \A k \in n + 1 .. n + m : (s \o t)[k] = t[k - n]
<1>1. n \in Nat /\ m \in Nat
  BY LenProperties
<1>2. /\ s \o t \in Seq(S) /\ Len(s \o t) = n + m
      /\ \A k \in 1 .. n + m : (s \o t)[k] = IF k <= n THEN s[k] ELSE t[k - n]
  BY ConcatProperties
<1> QED  BY <1>1, <1>2

LEMMA InsertFacts ==
  ASSUME NEW S, NEW s \in Seq(S), NEW k \in 1 .. Len(s), NEW e \in S
  PROVE  /\ InsertAt(s, k, e) \in Seq(S) /\ Len(InsertAt(s, k, e)) = Len(s) + 1
         /\ InsertAt(s, k, e)[k] = e
         /\ \A n \in 1 .. k - 1 : InsertAt(s, k, e)[n] = s[n]
         /\ \A n \in k .. Len(s) : InsertAt(s, k, e)[n + 1] = s[n]
<1> DEFINE l == SubSeq(s, 1, k - 1)
           r == SubSeq(s, k, Len(s))
<1>1. Len(s) \in Nat /\ DOMAIN s = 1 .. Len(s) /\ k \in Nat /\ 1 <= k /\ k <= Len(s)
  BY LenProperties
<1>2. l \in Seq(S) /\ Len(l) = k - 1 /\ \A n \in 1 .. k - 1 : l[n] = s[n]
  <2>1. /\ l \in Seq(S) /\ Len(l) = IF 1 <= k - 1 THEN k - 1 - 1 + 1 ELSE 0
        /\ \A n \in 1 .. k - 1 - 1 + 1 : l[n] = s[1 + n - 1]
    BY <1>1, SubSeqProperties
  <2>2. k - 1 - 1 + 1 = k - 1 /\ \A n \in 1 .. k - 1 : 1 + n - 1 = n
    BY <1>1
  <2> HIDE DEF l
  <2>3. Len(l) = k - 1
    BY <1>1, <2>1, <2>2
  <2>4. \A n \in 1 .. k - 1 : l[n] = s[n]
    BY <2>1, <2>2
  <2> QED  BY <2>1, <2>3, <2>4
<1>3. /\ r \in Seq(S) /\ Len(r) = Len(s) - k + 1
      /\ \A n \in 1 .. Len(s) - k + 1 : r[n] = s[k + n - 1]
  BY <1>1, SubSeqProperties
<1>4. <<e>> \in Seq(S) /\ Len(<<e>>) = 1 /\ <<e>>[1] = e
  OBVIOUS
<1> HIDE DEF l, r
<1> DEFINE h == l \o <<e>>
           t == h \o r
<1>5. /\ h \in Seq(S) /\ Len(h) = k /\ h[k] = e
      /\ \A n \in 1 .. k - 1 : h[n] = s[n]
  <2> DEFINE x == <<e>>
  <2>1. x \in Seq(S) /\ Len(x) = 1 /\ x[1] = e
    BY <1>4
  <2> HIDE DEF x
  <2>2. /\ l \o x \in Seq(S) /\ Len(l \o x) = k
        /\ \A n \in 1 .. k - 1 : (l \o x)[n] = l[n]
        /\ (l \o x)[k] = x[1]
    <3>1. PICK n, m : n = k - 1 /\ m = 1
      OBVIOUS
    <3>2. l \in Seq(S) /\ x \in Seq(S) /\ n = Len(l) /\ m = Len(x)
      BY <1>2, <2>1, <3>1
    <3>3. /\ l \o x \in Seq(S) /\ Len(l \o x) = n + m
          /\ \A p \in 1 .. n : (l \o x)[p] = l[p]
          /\ \A p \in n + 1 .. n + m : (l \o x)[p] = x[p - n]
      BY <3>2, JoinFacts
    <3>4. n + m = k /\ n + 1 = k /\ n \in Nat /\ k - n = 1 /\ k \in k .. k
      BY <1>1, <3>1
    <3>5. (l \o x)[k] = x[k - n]
      BY <3>3, <3>4
    <3> QED  BY <3>1, <3>3, <3>4, <3>5
  <2>3. (l \o x)[k] = e
    BY <2>1, <2>2
  <2>4. \A n \in 1 .. k - 1 : (l \o x)[n] = s[n]
    BY <1>1, <1>2, <2>2
  <2> QED  BY <2>2, <2>3, <2>4 DEF x
<1> HIDE DEF h
<1>6. /\ t \in Seq(S) /\ Len(t) = Len(s) + 1
      /\ \A n \in 1 .. k : t[n] = h[n]
      /\ \A n \in k + 1 .. Len(s) + 1 : t[n] = r[n - k]
  <2>1. PICK m : m = Len(s) - k + 1
    OBVIOUS
  <2>2. k + m = Len(s) + 1
    BY <1>1, <2>1
  <2>3. /\ t \in Seq(S) /\ Len(t) = k + m
        /\ \A n \in 1 .. k : t[n] = h[n]
        /\ \A n \in k + 1 .. k + m : t[n] = r[n - k]
    BY <1>3, <1>5, <2>1, JoinFacts
  <2> HIDE DEF t
  <2> QED  BY <2>2, <2>3
<1> HIDE DEF t
<1>7. t[k] = e /\ \A n \in 1 .. k - 1 : t[n] = s[n]
  BY <1>1, <1>5, <1>6
<1>8. ASSUME NEW n \in k .. Len(s) PROVE t[n + 1] = s[n]
  <2>1. t[n + 1] = r[n + 1 - k] /\ n + 1 - k \in 1 .. Len(s) - k + 1
    BY <1>1, <1>6
  <2>2. k + (n + 1 - k) - 1 = n
    BY <1>1
  <2> QED  BY <1>3, <2>1, <2>2
<1> QED  BY <1>6, <1>7, <1>8 DEF InsertAt, l, r, h, t

LEMMA HookIsGood == Hook \in GoodInst
BY DEF Hook, GoodInst, Instruction

LEMMA GoodIsBlock == GoodBlock \subseteq Block /\ Seq(GoodBlock) \subseteq Seq(Block)
<1>1. GoodInst \subseteq Instruction
  BY DEF GoodInst
<1>2. Seq(GoodInst) \subseteq Seq(Instruction)
  BY <1>1
<1>3. GoodBlock \subseteq Block
  BY <1>2 DEF GoodBlock, Block
<1> QED  BY <1>3

(* The instruction that the loop is at. *)
LEMMA InstFacts ==
  ASSUME PassInv, AtInstruction
  PROVE  /\ b \in 1 .. Len(code) /\ DOMAIN code = 1 .. Len(code) /\ Len(code) \in Nat
         /\ code[b] \in GoodBlock
         /\ i \in 1 .. Len(code[b].insts) /\ Len(code[b].insts) \in Nat
         /\ Inst \in GoodInst
<1>1. Len(code) \in Nat /\ DOMAIN code = 1 .. Len(code)
  BY LenProperties DEF PassInv
<1>2. b \in 1 .. Len(code)
  BY <1>1 DEF PassInv, LoopsInRange, AtInstruction, InModule
<1>3. code[b] \in GoodBlock
  BY <1>2, ElementOfSeq DEF PassInv
<1>4. code[b].insts \in Seq(GoodInst)
  BY <1>3 DEF GoodBlock
<1>5. Len(code[b].insts) \in Nat
  BY <1>4, LenProperties
<1>6. i \in 1 .. Len(code[b].insts)
  BY <1>2, <1>5 DEF PassInv, LoopsInRange, AtInstruction
<1>7. Inst \in GoodInst
  BY <1>4, <1>6, ElementOfSeq DEF Inst
<1> QED  BY <1>1, <1>2, <1>3, <1>5, <1>6, <1>7
-----------------------------------------------------------------------------
(* The declarations and the rest of a module are good. *)
LEMMA InitPassInv == PassInit => PassInv /\ UnmodifiedIsSource
<1> SUFFICES ASSUME PassInit PROVE PassInv
  BY DEF PassInit, UnmodifiedIsSource
<1>1. PICK m \in Modules : source = <<Declarations(locals)>> \o m
  BY DEF PassInit
<1>2. locals \in Seq(Variables)
  BY OrdersAssumption DEF PassInit, Init
<1>3. Plain("call", TRUE) \in GoodInst
  BY DEF Plain, GoodInst, Instruction
<1>4. Declarations(locals) \in GoodBlock
  <2>1. Len(locals) \in Nat /\ DOMAIN locals = 1 .. Len(locals)
    BY <1>2, LenProperties
  <2>2. [n \in DOMAIN locals |-> Plain("call", TRUE)] \in Seq(GoodInst)
    <3> DEFINE x == Plain("call", TRUE)
    <3>1. x \in GoodInst
      BY <1>3
    <3> HIDE DEF x
    <3>2. [n \in 1 .. Len(locals) |-> x] \in Seq(GoodInst)
      BY <2>1, <3>1
    <3> QED  BY <2>1, <3>2 DEF x
  <2> QED  BY <2>2 DEF Declarations, GoodBlock
<1>5. m \in Seq(GoodBlock)
  <2>1. m \in Seq(Block) /\ Len(m) \in Nat /\ DOMAIN m = 1 .. Len(m)
    BY ModulesAssumption, LenProperties
  <2>2. ASSUME NEW k \in 1 .. Len(m) PROVE m[k] \in GoodBlock
    <3>1. m[k] \in Block
      BY <2>1, ElementOfSeq
    <3>2. m[k].insts \in Seq(Instruction) /\ m[k].dotted \in BOOLEAN
          /\ m[k] = [dotted |-> m[k].dotted, insts |-> m[k].insts]
      BY <3>1 DEF Block
    <3>3. DOMAIN m[k].insts = 1 .. Len(m[k].insts) /\ Len(m[k].insts) \in Nat
      BY <3>2, LenProperties
    <3>4. ASSUME NEW l \in 1 .. Len(m[k].insts) PROVE m[k].insts[l] \in GoodInst
      <4>1. m[k].insts[l] \in Instruction
        BY <3>2, ElementOfSeq
      <4>2. m[k].insts[l].field # NoField => Accessible(m[k].insts[l].field)
        BY <2>1, <3>3, ModulesAssumption
      <4> QED  BY <4>1, <4>2 DEF GoodInst
    <3>5. m[k].insts \in Seq(GoodInst)
      BY <3>2, <3>3, <3>4, IsASeq
    <3> QED  BY <3>2, <3>5 DEF GoodBlock
  <2> QED  BY <2>1, <2>2, IsASeq
<1>6. <<Declarations(locals)>> \in Seq(GoodBlock) /\ Len(<<Declarations(locals)>>) = 1
  BY <1>4
<1>7. source \in Seq(GoodBlock) /\ Len(source) = 1 + Len(m)
  BY <1>1, <1>5, <1>6, ConcatProperties
<1>8. LoopsInRange
  <2>1. Len(source) \in Nat /\ Len(source) >= 1
    BY <1>5, <1>7, LenProperties
  <2>2. source[1] \in GoodBlock
    BY <1>7, <2>1, ElementOfSeq
  <2>3. Len(source[1].insts) \in Nat
    BY <2>2, LenProperties DEF GoodBlock
  <2> QED  BY <2>1, <2>3 DEF PassInit, LoopsInRange
<1> QED  BY <1>7, <1>8 DEF PassInit, PassInv
-----------------------------------------------------------------------------
LEMMA ContinueStep ==
  ASSUME PassInv, UnmodifiedIsSource, AtInstruction, Continue, UNCHANGED <<tool, source, b, pc>>
  PROVE  (PassInv /\ UnmodifiedIsSource)'
<1>1. LoopsInRange'
  BY InstFacts DEF PassInv, LoopsInRange, Continue
<1> QED  BY <1>1 DEF PassInv, UnmodifiedIsSource, Continue

(* The hook makes the list longer by one, and the loop goes on by two. *)
LEMMA InsertHookStep ==
  ASSUME PassInv, AtInstruction, InsertHook, UNCHANGED <<tool, source, b, pc>>
  PROVE  (PassInv /\ UnmodifiedIsSource)'
<1> DEFINE ins == InsertAt(code[b].insts, i, Hook)
           block == [code[b] EXCEPT !.insts = ins]
<1>1. code[b].insts \in Seq(GoodInst) /\ code[b].dotted \in BOOLEAN
  BY InstFacts DEF GoodBlock
<1>2. ins \in Seq(GoodInst) /\ Len(ins) = Len(code[b].insts) + 1
  BY <1>1, InstFacts, InsertFacts, HookIsGood
<1>3. code' = [code EXCEPT ![b] = block]
  BY DEF InsertHook
<1> HIDE DEF ins
<1>4. block \in GoodBlock /\ block.insts = ins
  BY <1>2, InstFacts DEF GoodBlock
<1> HIDE DEF block
<1>5. code' \in Seq(GoodBlock) /\ Len(code') = Len(code) /\ code'[b] = block
  BY <1>3, <1>4, InstFacts, ExceptSeq DEF PassInv
<1>6. LoopsInRange'
  <2>1. i' \in Nat \ {0} /\ i' <= Len(ins) + 1
    BY <1>2, InstFacts DEF InsertHook
  <2>2. b' \in 1 .. Len(code') + 1 /\ code'[b'].insts = ins
    BY <1>4, <1>5, InstFacts
  <2> QED  BY <2>1, <2>2 DEF LoopsInRange
<1> QED  BY <1>5, <1>6 DEF PassInv, UnmodifiedIsSource, InsertHook

(* The end of a block or a function: the loop begins again in the next. *)
LEMMA NextBlockStep ==
  ASSUME PassInv, UnmodifiedIsSource, SkipFunction \/ EndBlock
  PROVE  (PassInv /\ UnmodifiedIsSource)'
<1>1. b <= Len(code) /\ b' = b + 1 /\ i' = 1 /\ UNCHANGED <<tool, source, code, modified, pc>>
  BY DEF SkipFunction, EndBlock, InModule
<1>2. Len(code) \in Nat /\ b' \in 1 .. Len(code) + 1
  BY <1>1, LenProperties DEF PassInv, LoopsInRange
<1>3. ASSUME b' <= Len(code) PROVE 1 <= Len(code[b'].insts) + 1
  <2>1. code[b'] \in GoodBlock
    BY <1>2, <1>3, ElementOfSeq DEF PassInv
  <2> QED  BY <2>1, LenProperties DEF GoodBlock
<1>4. LoopsInRange'
  BY <1>1, <1>2, <1>3 DEF LoopsInRange
<1> QED  BY <1>1, <1>4 DEF PassInv, UnmodifiedIsSource

LEMMA NextPassInv ==
  PassInv /\ UnmodifiedIsSource /\ [PassNext]_<<vars, pass>> => (PassInv /\ UnmodifiedIsSource)'
<1> SUFFICES ASSUME PassInv, UnmodifiedIsSource, [PassNext]_<<vars, pass>>
             PROVE  (PassInv /\ UnmodifiedIsSource)'
  OBVIOUS
<1>1. CASE Construct \/ UNCHANGED <<vars, pass>>
  <2>1. UNCHANGED pass
    BY <1>1 DEF Construct
  <2> QED  BY <2>1 DEF pass, PassInv, LoopsInRange, UnmodifiedIsSource
<1>2. CASE SkipFunction \/ EndBlock
  BY <1>2, NextBlockStep
<1>3. CASE EndModule
  BY <1>3 DEF EndModule, PassInv, LoopsInRange, UnmodifiedIsSource
<1>4. CASE RunOnOther
  BY <1>4, ContinueStep DEF RunOnOther
<1>5. CASE RunOnCallInst
  <2>1. CASE Inst.direct
    BY <1>5, <2>1, InsertHookStep DEF RunOnCallInst
  <2>2. CASE ~Inst.direct
    BY <1>5, <2>2 DEF RunOnCallInst, PassInv, LoopsInRange, UnmodifiedIsSource
  <2> QED  BY <2>1, <2>2
<1>6. CASE RunOnField
  <2>1. AtInstruction /\ (InsertHook \/ Continue) /\ UNCHANGED <<tool, source, b, pc>>
    BY <1>6 DEF RunOnField
  <2> QED  BY <2>1, InsertHookStep, ContinueStep
<1> QED  BY <1>1, <1>2, <1>3, <1>4, <1>5, <1>6 DEF PassNext, Walk

(* The invariant of the loops. *)
THEOREM PassInvariance == PassSpec => [](PassInv /\ UnmodifiedIsSource)
<1> QED  BY InitPassInv, NextPassInv, PTL DEF PassSpec
-----------------------------------------------------------------------------
(***************************************************************************)
(* A question of the pass is one that StructParser allows: it is about a   *)
(* field of a struct, and neither hooks nor declarations ask any.          *)
(***************************************************************************)
LEMMA StepSimulates ==
  ASSUME PassInv, [PassNext]_<<vars, pass>>
  PROVE  [Next]_vars
<1>1. CASE Construct
  BY <1>1 DEF Construct, Next
<1>2. CASE RunOnField
  <2>1. AtInstruction /\ Inst.field # NoField /\ GetFieldName(Inst.field.type, Inst.field.index)
    BY <1>2 DEF RunOnField, Asks
  <2>2. Inst \in Instruction /\ Accessible(Inst.field)
    BY <2>1, InstFacts DEF GoodInst
  <2>3. Inst.field \in FieldOf
    BY <2>1, <2>2 DEF Instruction
  <2>4. Inst.field.type \in {u \in Types : Ir[u].kind = "struct"}
    BY <2>3 DEF FieldOf
  <2>5. Inst.field.index \in {0} \cup {l \in DOMAIN Ir[Inst.field.type].elements :
                                       Fields[Inst.field.type][l] # ""}
    BY <2>2 DEF Accessible
  <2> QED  BY <2>1, <2>4, <2>5 DEF Next, RunOnInstruction
<1>3. CASE UNCHANGED vars
  BY <1>3
<1> QED  BY <1>1, <1>2, <1>3
     DEF PassNext, Walk, SkipFunction, EndBlock, EndModule, RunOnOther, RunOnCallInst

(***************************************************************************)
(* A pass is a user of the struct parser: what is proved of every run of   *)
(* that holds while the pass walks over the instructions.                  *)
(***************************************************************************)
THEOREM PassImplementsParser == PassSpec => Spec
<1>1. PassInit => Init
  BY DEF PassInit
<1>2. PassInv /\ [PassNext]_<<vars, pass>> => [Next]_vars
  BY StepSimulates
<1> QED  BY <1>1, <1>2, PassInvariance, PTL DEF PassSpec, Spec

(***************************************************************************)
(* In a pass, too, the recursion over the types is bounded: probe_type()   *)
(* calls itself at most once for each type, and once more.                 *)
(***************************************************************************)
THEOREM PassDepthBounded == PassSpec => []DepthBounded
<1> QED  BY PassImplementsParser, DepthNeverExceeded, PTL

(* When a pass begins to ask for fields, no type has been missed. *)
THEOREM PassWalkComplete == PassSpec => []WalkComplete
<1> QED  BY PassImplementsParser, NothingMissed, PTL

(***************************************************************************)
(* The loops over blocks and instructions stay within their lists, though  *)
(* the hooks make these longer as the loops go.                            *)
(***************************************************************************)
THEOREM PassTypeCorrect == PassSpec => []PassTypeOK
<1>1. PassInv /\ TypeOK => PassTypeOK
  BY GoodIsBlock DEF PassInv, LoopsInRange, PassTypeOK
<1> QED  BY <1>1, PassInvariance, PassImplementsParser, TypeCorrect, PTL

(* run_on_module() returns false only for a module that it left alone. *)
THEOREM UnmodifiedNeverChanged == PassSpec => []UnmodifiedIsSource
<1> QED  BY PassInvariance, PTL

(***************************************************************************)
(* A pass that asks for the field of an instruction gets the name it has   *)
(* in the source.                                                          *)
(***************************************************************************)
THEOREM PassNamesRight ==
  ASSUME NEW R, Described(R)
  PROVE  PassSpec => []NamesRight
<1>1. Spec => []NamesRight
  BY NamesAlwaysRight
<1> QED  BY <1>1, PassImplementsParser, PTL
-----------------------------------------------------------------------------
(***************************************************************************)
(* Lists with hooks.  The loop is behind instruction l of the list as it   *)
(* was read: those up to l are where Moved() says, with their hooks, and   *)
(* the others follow as they were.                                         *)
(***************************************************************************)
HookedUpTo(c, s, hooked, l) ==
  /\ Len(c) = Len(s) + Moved(hooked, l) - l
  /\ \A m \in 1 .. l : /\ c[Moved(hooked, m)] = s[m]
                       /\ m \in hooked => c[Moved(hooked, m) - 1] = Hook
  /\ \A m \in l + 1 .. Len(s) : c[Moved(hooked, l) + (m - l)] = s[m]

LEMMA MovedZero ==
  ASSUME NEW H
  PROVE  Moved(H, 0) = 0
<1>1. H \cap 1 .. 0 = {}
  OBVIOUS
<1> QED  BY <1>1, FS_EmptySet DEF Moved

LEMMA CountFacts ==
  ASSUME NEW H, NEW l \in Nat
  PROVE  IsFiniteSet(H \cap 1 .. l) /\ Cardinality(H \cap 1 .. l) \in Nat
<1>1. IsFiniteSet(1 .. l)
  BY FS_Interval
<1>2. IsFiniteSet(H \cap 1 .. l)
  BY <1>1, FS_Subset
<1> QED  BY <1>2, FS_CardinalityType

(* An instruction comes behind those before it, by one or, with a hook, two. *)
LEMMA MovedFacts ==
  ASSUME NEW H, NEW l \in Nat
  PROVE  /\ Moved(H, l) \in Nat /\ l <= Moved(H, l)
         /\ l + 1 \in H => Moved(H, l + 1) = Moved(H, l) + 2
         /\ l + 1 \notin H => Moved(H, l + 1) = Moved(H, l) + 1
<1> DEFINE A == H \cap 1 .. l
<1>1. IsFiniteSet(A) /\ Cardinality(A) \in Nat /\ l + 1 \notin A
  <2>1. l + 1 \notin 1 .. l
    OBVIOUS
  <2> QED  BY <2>1, CountFacts
<1>2. Moved(H, l) = l + Cardinality(A)
  BY DEF Moved
<1>3. CASE l + 1 \in H
  <2>1. H \cap 1 .. l + 1 = A \cup {l + 1}
    BY <1>3
  <2>2. Cardinality(A \cup {l + 1}) = Cardinality(A) + 1
    BY <1>1, FS_AddElement
  <2>3. Moved(H, l + 1) = l + 1 + (Cardinality(A) + 1)
    BY <2>1, <2>2 DEF Moved
  <2> HIDE DEF A
  <2> QED  BY <1>1, <1>2, <1>3, <2>3
<1>4. CASE l + 1 \notin H
  <2>1. H \cap 1 .. l + 1 = A
    BY <1>4
  <2>2. Moved(H, l + 1) = l + 1 + Cardinality(A)
    BY <2>1 DEF Moved
  <2> HIDE DEF A
  <2> QED  BY <1>1, <1>2, <1>4, <2>2
<1> QED  BY <1>3, <1>4

LEMMA MovedMonotone ==
  ASSUME NEW H, NEW l \in Nat, NEW m \in Nat, m <= l
  PROVE  Moved(H, m) <= Moved(H, l)
<1> DEFINE x == Cardinality(H \cap 1 .. m)
           y == Cardinality(H \cap 1 .. l)
<1>1. H \cap 1 .. m \subseteq H \cap 1 .. l
  OBVIOUS
<1>2. x \in Nat /\ y \in Nat /\ x <= y
  BY <1>1, CountFacts, FS_Subset
<1>3. Moved(H, m) = m + x /\ Moved(H, l) = l + y
  BY DEF Moved
<1> HIDE DEF x, y
<1> QED  BY <1>2, <1>3

(* Where a hook before instruction m goes is behind instruction m - 1. *)
LEMMA HookFits ==
  ASSUME NEW H, NEW l \in Nat, NEW m \in 1 .. l
  PROVE  /\ Moved(H, m) \in 1 .. Moved(H, l)
         /\ m \in H => Moved(H, m) - 1 \in 1 .. Moved(H, l)
<1>1. PICK n \in Nat : m = n + 1
  <2>1. m - 1 \in Nat /\ m = (m - 1) + 1
    OBVIOUS
  <2> QED  BY <2>1
<1>2. /\ m \in H => Moved(H, m) = Moved(H, n) + 2
      /\ m \notin H => Moved(H, m) = Moved(H, n) + 1
      /\ Moved(H, n) \in Nat /\ Moved(H, l) \in Nat
  BY <1>1, MovedFacts
<1>3. Moved(H, m) <= Moved(H, l)
  BY MovedMonotone
<1> QED  BY <1>2, <1>3

LEMMA HookedNone ==
  ASSUME NEW S, NEW s \in Seq(S), NEW H
  PROVE  HookedUpTo(s, s, H, 0)
<1>1. Moved(H, 0) = 0 /\ Len(s) \in Nat
  BY MovedZero, LenProperties
<1> QED  BY <1>1 DEF HookedUpTo

(* The instruction that the loop is at, and what it is left with. *)
LEMMA HookedNext ==
  ASSUME NEW S, NEW s \in Seq(S), NEW c \in Seq(S), NEW H, NEW l \in 0 .. Len(s),
         HookedUpTo(c, s, H, l)
  PROVE  /\ Moved(H, l) + 1 <= Len(c) => l < Len(s) /\ c[Moved(H, l) + 1] = s[l + 1]
         /\ Moved(H, l) + 1 > Len(c) => l = Len(s)
<1>1. /\ l \in Nat /\ Len(s) \in Nat /\ Moved(H, l) \in Nat /\ l <= Len(s)
      /\ Len(c) = Len(s) + Moved(H, l) - l
  <2>1. Len(s) \in Nat /\ l \in Nat /\ l <= Len(s)
    BY LenProperties
  <2> QED  BY <2>1, MovedFacts DEF HookedUpTo
<1>2. CASE Moved(H, l) + 1 <= Len(c)
  <2>1. l < Len(s) /\ l + 1 \in l + 1 .. Len(s) /\ (l + 1) - l = 1
    BY <1>1, <1>2
  <2> QED  BY <1>1, <1>2, <2>1 DEF HookedUpTo
<1>3. CASE Moved(H, l) + 1 > Len(c)
  BY <1>1, <1>3
<1> QED  BY <1>1, <1>2, <1>3

LEMMA HookedContinue ==
  ASSUME NEW S, NEW s \in Seq(S), NEW c \in Seq(S), NEW H, NEW l \in 0 .. Len(s),
         HookedUpTo(c, s, H, l), l < Len(s), l + 1 \notin H
  PROVE  Moved(H, l + 1) = Moved(H, l) + 1 /\ HookedUpTo(c, s, H, l + 1)
<1>1. /\ l \in Nat /\ Len(s) \in Nat /\ Moved(H, l) \in Nat
      /\ Moved(H, l + 1) = Moved(H, l) + 1
  <2>1. Len(s) \in Nat /\ l \in Nat
    BY LenProperties
  <2> QED  BY <2>1, MovedFacts
<1>2. Len(c) = Len(s) + Moved(H, l + 1) - (l + 1)
  BY <1>1 DEF HookedUpTo
<1>3. ASSUME NEW m \in 1 .. l + 1
      PROVE  /\ c[Moved(H, m)] = s[m]
             /\ m \in H => c[Moved(H, m) - 1] = Hook
  <2>1. CASE m = l + 1
    <3>1. m \in l + 1 .. Len(s) /\ m - l = 1
      BY <1>1, <2>1
    <3> QED  BY <1>1, <2>1, <3>1 DEF HookedUpTo
  <2>2. CASE m # l + 1
    <3>1. m \in 1 .. l
      BY <1>1, <2>2
    <3> QED  BY <3>1 DEF HookedUpTo
  <2> QED  BY <2>1, <2>2
<1>4. ASSUME NEW m \in l + 1 + 1 .. Len(s)
      PROVE  c[Moved(H, l + 1) + (m - (l + 1))] = s[m]
  <2>1. m \in l + 1 .. Len(s) /\ Moved(H, l + 1) + (m - (l + 1)) = Moved(H, l) + (m - l)
    BY <1>1
  <2> QED  BY <2>1 DEF HookedUpTo
<1> QED  BY <1>1, <1>2, <1>3, <1>4 DEF HookedUpTo

LEMMA HookedInsert ==
  ASSUME NEW S, NEW s \in Seq(S), NEW c \in Seq(S), NEW H, NEW l \in 0 .. Len(s), Hook \in S,
         HookedUpTo(c, s, H, l), l < Len(s), l + 1 \in H
  PROVE  /\ Moved(H, l + 1) = Moved(H, l) + 2
         /\ HookedUpTo(InsertAt(c, Moved(H, l) + 1, Hook), s, H, l + 1)
<1> DEFINE k == Moved(H, l) + 1
           n == InsertAt(c, k, Hook)
<1>1. /\ l \in Nat /\ Len(s) \in Nat /\ Moved(H, l) \in Nat
      /\ Moved(H, l + 1) = Moved(H, l) + 2
  <2>1. Len(s) \in Nat /\ l \in Nat
    BY LenProperties
  <2> QED  BY <2>1, MovedFacts
<1>2. k \in 1 .. Len(c) /\ Len(c) = Len(s) + Moved(H, l) - l
  BY <1>1 DEF HookedUpTo
<1> HIDE DEF k
<1>3. /\ Len(n) = Len(c) + 1 /\ n[k] = Hook
      /\ \A m \in 1 .. k - 1 : n[m] = c[m]
      /\ \A m \in k .. Len(c) : n[m + 1] = c[m]
  <2>1. c \in Seq(S) /\ Hook \in S /\ k \in 1 .. Len(c)
    BY <1>2
  <2>2. /\ Len(n) = Len(c) + 1 /\ n[k] = Hook
        /\ \A q \in 1 .. k - 1 : n[q] = c[q]
        /\ \A q \in k .. Len(c) : n[q + 1] = c[q]
    BY <2>1, InsertFacts
  <2> QED  BY <2>2
<1> HIDE DEF n
<1>4. Len(n) = Len(s) + Moved(H, l + 1) - (l + 1)
  BY <1>1, <1>2, <1>3
<1>5. ASSUME NEW m \in 1 .. l + 1
      PROVE  /\ n[Moved(H, m)] = s[m]
             /\ m \in H => n[Moved(H, m) - 1] = Hook
  <2>1. CASE m = l + 1
    <3>1. k + 1 = Moved(H, m) /\ Moved(H, m) - 1 = k
      BY <1>1, <2>1 DEF k
    <3>2. m \in l + 1 .. Len(s) /\ Moved(H, l) + (m - l) = k
      BY <1>1, <2>1 DEF k
    <3>3. n[k + 1] = c[k] /\ c[k] = s[m]
      BY <1>2, <1>3, <3>2 DEF HookedUpTo
    <3> QED  BY <1>3, <3>1, <3>3
  <2>2. CASE m # l + 1
    <3>1. m \in 1 .. l
      BY <1>1, <2>2
    <3>2. /\ Moved(H, m) \in 1 .. k - 1
          /\ m \in H => Moved(H, m) - 1 \in 1 .. k - 1
      <4>1. k - 1 = Moved(H, l)
        BY <1>1 DEF k
      <4> QED  BY <1>1, <3>1, <4>1, HookFits
    <3> QED  BY <1>3, <3>1, <3>2 DEF HookedUpTo
  <2> QED  BY <2>1, <2>2
<1>6. ASSUME NEW m \in l + 1 + 1 .. Len(s)
      PROVE  n[Moved(H, l + 1) + (m - (l + 1))] = s[m]
  <2>1. m \in Int /\ l + 2 <= m /\ m <= Len(s)
    BY <1>1
  <2>2. PICK p \in Int : p = Moved(H, l) + (m - l)
    BY <1>1, <2>1
  <2>3. m \in l + 1 .. Len(s) /\ Moved(H, l + 1) + (m - (l + 1)) = p + 1
    <3>1. m \in l + 1 .. Len(s)
      BY <1>1, <2>1
    <3>2. Moved(H, l + 1) + (m - (l + 1)) = p + 1
      BY <1>1, <2>1, <2>2
    <3> QED  BY <3>1, <3>2
  <2>4. p \in k .. Len(c)
    BY <1>1, <1>2, <2>1, <2>2 DEF k
  <2>5. c[p] = s[m]
    BY <2>2, <2>3 DEF HookedUpTo
  <2> QED  BY <1>3, <2>3, <2>4, <2>5
<1>7. HookedUpTo(n, s, H, l + 1)
  BY <1>4, <1>5, <1>6 DEF HookedUpTo
<1> QED  BY <1>1, <1>7 DEF k, n
-----------------------------------------------------------------------------
(***************************************************************************)
(* The loops over a module: the blocks behind are instrumented, those      *)
(* ahead are as they were read, and in between the loop is at an           *)
(* instruction of the list as it was read.                                 *)
(***************************************************************************)
AtSource(l) ==
  /\ i = Moved(HookedIn(source[b].insts), l) + 1
  /\ HookedUpTo(code[b].insts, source[b].insts, HookedIn(source[b].insts), l)

BlockDone(k) == Instrumented(code[k], source[k], HookedIn(source[k].insts))

BlockInv ==
  IF source[b].dotted THEN code[b] = source[b]
  ELSE \E l \in 0 .. Len(source[b].insts) : AtSource(l)

LoopInv ==
  /\ Len(code) = Len(source)
  /\ \A k \in 1 .. Len(source) :
       /\ code[k].dotted = source[k].dotted
       /\ k < b => BlockDone(k)
       /\ k > b => code[k] = source[k]
  /\ b <= Len(source) => BlockInv
  /\ modified => \E k \in 1 .. Len(source) : Len(code[k].insts) > Len(source[k].insts)

(* A pass that asks for names walks when the struct parser is done. *)
Begun == tool = "call-hook" \/ (stack = <<>> /\ next > Len(locals))
Fresh == b = 1 /\ i = 1 /\ code = source /\ ~modified

HookInv ==
  /\ Settled => Fresh \/ (Begun /\ LoopInv)
  /\ pc = "done" => b > Len(code)

LEMMA SourceFacts ==
  ASSUME PassInv, NEW k \in 1 .. Len(source)
  PROVE  /\ source[k] \in GoodBlock
         /\ source[k].insts \in Seq(GoodInst) /\ source[k].dotted \in BOOLEAN
<1>1. source[k] \in GoodBlock
  BY ElementOfSeq DEF PassInv
<1> QED  BY <1>1 DEF GoodBlock

(* A block that the loop comes to is instrumented up to its first one. *)
LEMMA BlockBegins ==
  ASSUME PassInv, b \in 1 .. Len(source), i = 1, code[b] = source[b]
  PROVE  BlockInv
<1> DEFINE s == source[b].insts
<1>1. s \in Seq(GoodInst)
  BY SourceFacts
<1> HIDE DEF s
<1>2. HookedUpTo(s, s, HookedIn(s), 0) /\ Moved(HookedIn(s), 0) = 0 /\ Len(s) \in Nat
  BY <1>1, HookedNone, MovedZero, LenProperties
<1>3. AtSource(0)
  BY <1>2 DEF AtSource, s
<1>4. 0 \in 0 .. Len(s)
  BY <1>2
<1> QED  BY <1>3, <1>4 DEF BlockInv, s

LEMMA FreshLoop ==
  ASSUME PassInv, Fresh
  PROVE  LoopInv
<1>1. Len(source) \in Nat /\ b = 1 /\ i = 1 /\ code = source /\ ~modified
  BY LenProperties DEF PassInv, Fresh
<1>2. b <= Len(source) => BlockInv
  BY <1>1, BlockBegins
<1> QED  BY <1>1, <1>2 DEF LoopInv

(* The instruction the loop is at is one of the list as it was read. *)
LEMMA AtSourceFacts ==
  ASSUME PassInv, LoopInv, AtInstruction
  PROVE  /\ b \in 1 .. Len(source) /\ Len(source) \in Nat
         /\ source[b].insts \in Seq(GoodInst) /\ code[b].insts \in Seq(GoodInst)
         /\ ~source[b].dotted
         /\ \E l \in 0 .. Len(source[b].insts) :
              /\ AtSource(l) /\ l < Len(source[b].insts) /\ l + 1 \in DOMAIN source[b].insts
              /\ Inst = source[b].insts[l + 1]
              /\ OfInterest(Inst) <=> l + 1 \in HookedIn(source[b].insts)
<1> DEFINE s == source[b].insts
           c == code[b].insts
<1>1. b \in 1 .. Len(source) /\ Len(source) \in Nat /\ c \in Seq(GoodInst)
  BY InstFacts DEF LoopInv, GoodBlock
<1>2. s \in Seq(GoodInst)
  BY <1>1, SourceFacts
<1>3. ~source[b].dotted /\ i <= Len(c)
  BY <1>1 DEF AtInstruction, LoopInv
<1>4. PICK l \in 0 .. Len(s) : AtSource(l)
  BY <1>1, <1>3 DEF LoopInv, BlockInv
<1>5. i = Moved(HookedIn(s), l) + 1 /\ HookedUpTo(c, s, HookedIn(s), l) /\ Inst = c[i]
  BY <1>4 DEF AtSource, Inst
<1> HIDE DEF s, c
<1>6. l < Len(s) /\ Inst = s[l + 1]
  BY <1>1, <1>2, <1>3, <1>5, HookedNext
<1>7. l + 1 \in DOMAIN s
  BY <1>2, <1>6, LenProperties
<1>8. OfInterest(Inst) <=> l + 1 \in HookedIn(s)
  BY <1>6, <1>7 DEF HookedIn
<1> QED  BY <1>1, <1>2, <1>3, <1>4, <1>6, <1>7, <1>8 DEF s, c

(* At the end of a block each instruction of the list has been done. *)
LEMMA BlockEnds ==
  ASSUME PassInv, LoopInv, b \in 1 .. Len(source),
         code[b].dotted \/ i > Len(code[b].insts)
  PROVE  BlockDone(b)
<1>1. CASE source[b].dotted
  BY <1>1, LenProperties DEF PassInv, LoopInv, BlockInv, BlockDone, Instrumented
<1>2. CASE ~source[b].dotted
  <2> DEFINE s == source[b].insts
             c == code[b].insts
             H == HookedIn(s)
  <2>1. s \in Seq(GoodInst)
    BY SourceFacts
  <2>2. c \in Seq(GoodInst)
    <3>1. b \in 1 .. Len(code)
      BY DEF LoopInv
    <3>2. code[b] \in GoodBlock
      BY <3>1, ElementOfSeq DEF PassInv
    <3> QED  BY <3>2 DEF GoodBlock
  <2>3. ~code[b].dotted
    BY <1>2 DEF LoopInv
  <2>4. b <= Len(source)
    BY LenProperties DEF PassInv
  <2>5. PICK l \in 0 .. Len(s) : AtSource(l)
    BY <1>2, <2>4 DEF LoopInv, BlockInv
  <2>6. HookedUpTo(c, s, H, l) /\ Moved(H, l) + 1 > Len(c)
    BY <2>3, <2>5 DEF AtSource
  <2> HIDE DEF s, c, H
  <2>7. l = Len(s)
    BY <2>1, <2>2, <2>6, HookedNext
  <2>8. Len(c) = Moved(H, Len(s))
    <3>1. Len(s) \in Nat /\ Moved(H, Len(s)) \in Nat
      BY <2>1, LenProperties, MovedFacts
    <3> QED  BY <2>6, <2>7, <3>1 DEF HookedUpTo
  <2>9. \A m \in DOMAIN s : /\ c[Moved(H, m)] = s[m]
                            /\ m \in H => c[Moved(H, m) - 1] = Hook
    BY <2>1, <2>6, <2>7, LenProperties DEF HookedUpTo
  <2>10. H \subseteq DOMAIN s
    BY DEF H, HookedIn
  <2> QED  BY <1>2, <2>3, <2>8, <2>9, <2>10 DEF BlockDone, Instrumented, s, c, H
<1> QED  BY <1>1, <1>2
-----------------------------------------------------------------------------
(* A walk of the pass adds no type to the map: what is of interest stays so. *)
LEMMA InterestKept ==
  ASSUME UNCHANGED <<tool, source, typeMap>>
  PROVE  \A k : HookedIn(source[k].insts)' = HookedIn(source[k].insts)
<1>1. Recorded' = Recorded
  BY DEF Recorded
<1> QED  BY <1>1 DEF HookedIn, OfInterest

(* What is left to show of a step within a block. *)
LEMMA LoopStep ==
  ASSUME LoopInv, b \in 1 .. Len(source), ~source[b].dotted, ~code'[b].dotted,
         UNCHANGED <<tool, source, b, typeMap>>, Len(code') = Len(code),
         \A k \in 1 .. Len(source) : k # b => code'[k] = code[k],
         Len(code'[b].insts) >= Len(code[b].insts), Len(source) \in Nat,
         Len(code[b].insts) \in Nat, Len(code'[b].insts) \in Nat, Len(source[b].insts) \in Nat,
         modified' => modified \/ Len(code'[b].insts) > Len(source[b].insts),
         \E l \in 0 .. Len(source[b].insts) :
           /\ i' = Moved(HookedIn(source[b].insts), l) + 1
           /\ HookedUpTo(code'[b].insts, source[b].insts, HookedIn(source[b].insts), l)
  PROVE  LoopInv'
<1>1. Len(code') = Len(source') /\ Len(source') = Len(source)
  BY DEF LoopInv
<1>2. ASSUME NEW k \in 1 .. Len(source')
      PROVE  /\ code'[k].dotted = source'[k].dotted
             /\ k < b' => BlockDone(k)'
             /\ k > b' => code'[k] = source'[k]
  <2>1. CASE k = b
    <3>1. code[b].dotted = source[b].dotted /\ ~(k < b') /\ ~(k > b')
      BY <2>1 DEF LoopInv
    <3>2. source[b].dotted = FALSE /\ code'[b].dotted = FALSE => code'[k].dotted = source'[k].dotted
      BY <2>1
    <3> QED  BY <2>1, <3>1, <3>2
  <2>2. CASE k # b
    <3>1. code'[k] = code[k] /\ source'[k] = source[k] /\ k \in 1 .. Len(source)
      BY <1>1, <2>2
    <3>2. k < b => BlockDone(k)
      BY <3>1 DEF LoopInv
    <3>3. k < b => BlockDone(k)'
      <4>1. HookedIn(source[k].insts)' = HookedIn(source[k].insts)
        BY <3>1, InterestKept
      <4> QED  BY <3>1, <3>2, <4>1 DEF BlockDone
    <3>4. k > b => code[k] = source[k]
      BY <3>1 DEF LoopInv
    <3>5. code[k].dotted = source[k].dotted
      BY <3>1 DEF LoopInv
    <3> QED  BY <3>1, <3>3, <3>4, <3>5
  <2> QED  BY <2>1, <2>2
<1>3. BlockInv'
  <2>1. HookedIn(source[b].insts)' = HookedIn(source[b].insts)
    BY InterestKept
  <2>2. PICK l \in 0 .. Len(source[b].insts) :
          /\ i' = Moved(HookedIn(source[b].insts), l) + 1
          /\ HookedUpTo(code'[b].insts, source[b].insts, HookedIn(source[b].insts), l)
    OBVIOUS
  <2>3. AtSource(l)'
    BY <2>1, <2>2 DEF AtSource
  <2> QED  BY <2>2, <2>3 DEF BlockInv
<1>4. ASSUME modified'
      PROVE  \E k \in 1 .. Len(source') : Len(code'[k].insts) > Len(source'[k].insts)
  <2>1. CASE Len(code'[b].insts) > Len(source[b].insts)
    BY <1>1, <2>1
  <2>2. CASE modified
    <3>1. PICK k \in 1 .. Len(source) : Len(code[k].insts) > Len(source[k].insts)
      BY <2>2 DEF LoopInv
    <3>2. CASE k = b
      <4>1. Len(code'[b].insts) > Len(source[b].insts)
        <5>1. PICK x, y, z \in Nat : /\ x = Len(code'[b].insts) /\ y = Len(code[b].insts)
                                    /\ z = Len(source[b].insts)
          OBVIOUS
        <5>2. x >= y /\ y > z
          BY <3>1, <3>2, <5>1
        <5>3. x > z
          BY <5>2
        <5> QED  BY <5>1, <5>3
      <4> QED  BY <1>1, <4>1
    <3>3. CASE k # b
      BY <1>1, <3>1, <3>3
    <3> QED  BY <3>2, <3>3
  <2> QED  BY <1>4, <2>1, <2>2
<1> QED  BY <1>1, <1>2, <1>3, <1>4 DEF LoopInv

LEMMA LoopKept ==
  ASSUME LoopInv, UNCHANGED <<tool, source, code, b, i, modified, typeMap>>
  PROVE  LoopInv'
<1>1. \A k : HookedIn(source[k].insts)' = HookedIn(source[k].insts)
  BY InterestKept
<1>2. \A k : BlockDone(k) => BlockDone(k)'
  BY <1>1 DEF BlockDone
<1>3. BlockInv => BlockInv'
  BY <1>1 DEF BlockInv, AtSource
<1> QED  BY <1>2, <1>3 DEF LoopInv

LEMMA LoopContinue ==
  ASSUME PassInv, LoopInv, AtInstruction, ~OfInterest(Inst), Continue,
         UNCHANGED <<tool, source, b, typeMap>>
  PROVE  LoopInv'
<1> DEFINE s == source[b].insts
           c == code[b].insts
           H == HookedIn(s)
<1>1. /\ b \in 1 .. Len(source) /\ Len(source) \in Nat /\ ~source[b].dotted
      /\ s \in Seq(GoodInst) /\ c \in Seq(GoodInst)
  BY AtSourceFacts
<1>2. PICK l \in 0 .. Len(s) : AtSource(l) /\ l < Len(s) /\ l + 1 \notin H
  BY AtSourceFacts
<1>3. i = Moved(H, l) + 1 /\ HookedUpTo(c, s, H, l)
  BY <1>2 DEF AtSource
<1>4. i' = i + 1 /\ UNCHANGED <<code, modified>>
  BY DEF Continue
<1>5. ~code[b].dotted /\ code' = code
  BY <1>4 DEF AtInstruction
<1> HIDE DEF s, c, H
<1>6. Moved(H, l + 1) = Moved(H, l) + 1 /\ HookedUpTo(c, s, H, l + 1)
  BY <1>1, <1>2, <1>3, HookedContinue
<1>7. Len(s) \in Nat /\ Len(c) \in Nat /\ l + 1 \in 0 .. Len(s)
  BY <1>1, <1>2, LenProperties
<1>8. i' = Moved(H, l + 1) + 1
  BY <1>3, <1>4, <1>6
<1>9. \E m \in 0 .. Len(source[b].insts) :
        /\ i' = Moved(HookedIn(source[b].insts), m) + 1
        /\ HookedUpTo(code'[b].insts, source[b].insts, HookedIn(source[b].insts), m)
  BY <1>5, <1>6, <1>7, <1>8 DEF s, c, H
<1>10. Len(code'[b].insts) >= Len(code[b].insts) /\ Len(code[b].insts) \in Nat
       /\ Len(code'[b].insts) \in Nat /\ Len(source[b].insts) \in Nat
  BY <1>5, <1>7 DEF c, s
<1> QED  BY <1>1, <1>4, <1>5, <1>9, <1>10, LoopStep

(* The hook goes before the instruction the loop is at, which goes on by two. *)
LEMMA LoopInsert ==
  ASSUME PassInv, LoopInv, AtInstruction, OfInterest(Inst), InsertHook,
         UNCHANGED <<tool, source, b, typeMap>>
  PROVE  LoopInv'
<1> DEFINE s == source[b].insts
           c == code[b].insts
           H == HookedIn(s)
           n == InsertAt(c, i, Hook)
           block == [code[b] EXCEPT !.insts = n]
<1>1. /\ b \in 1 .. Len(source) /\ Len(source) \in Nat /\ ~source[b].dotted
      /\ s \in Seq(GoodInst) /\ c \in Seq(GoodInst)
  BY AtSourceFacts
<1>2. PICK l \in 0 .. Len(s) : AtSource(l) /\ l < Len(s) /\ l + 1 \in H
  BY AtSourceFacts
<1>3. i = Moved(H, l) + 1 /\ HookedUpTo(c, s, H, l)
  BY <1>2 DEF AtSource
<1>4. i' = i + 2 /\ code' = [code EXCEPT ![b] = block]
  BY DEF InsertHook
<1>5. code[b] \in GoodBlock /\ b \in DOMAIN code /\ code \in Seq(GoodBlock)
  BY InstFacts DEF PassInv
<1>6. block.insts = n /\ block.dotted = code[b].dotted /\ ~code[b].dotted
  BY <1>5 DEF GoodBlock, AtInstruction
<1>7. n \in Seq(GoodInst) /\ Len(n) = Len(c) + 1
  <2>1. c \in Seq(GoodInst) /\ i \in 1 .. Len(c)
    BY <1>1, InstFacts
  <2> HIDE DEF c
  <2> QED  BY <2>1, InsertFacts, HookIsGood
<1> HIDE DEF block
<1>8. /\ code'[b] = block /\ Len(code') = Len(code)
      /\ \A k \in 1 .. Len(source) : k # b => code'[k] = code[k]
  <2>1. \A k \in DOMAIN code : code'[k] = IF k = b THEN block ELSE code[k]
    BY <1>4
  <2>2. 1 .. Len(source) = DOMAIN code
    BY <1>5, LenProperties DEF LoopInv
  <2>3. Len(code') = Len(code)
    <3>1. block \in GoodBlock
      BY <1>5, <1>7 DEF block, GoodBlock
    <3> QED  BY <1>4, <1>5, <3>1, ExceptSeq, InstFacts
  <2> QED  BY <1>5, <2>1, <2>2, <2>3
<1> HIDE DEF s, c, H
<1>9. Moved(H, l + 1) = Moved(H, l) + 2 /\ HookedUpTo(n, s, H, l + 1)
  BY <1>1, <1>2, <1>3, HookedInsert, HookIsGood
<1>10. Len(s) \in Nat /\ Len(c) \in Nat /\ l + 1 \in 0 .. Len(s) /\ Moved(H, l) \in Nat
  BY <1>1, <1>2, LenProperties, MovedFacts
<1>11. i' = Moved(H, l + 1) + 1
  BY <1>3, <1>4, <1>9, <1>10
<1> HIDE DEF n
<1>12. \E m \in 0 .. Len(source[b].insts) :
         /\ i' = Moved(HookedIn(source[b].insts), m) + 1
         /\ HookedUpTo(code'[b].insts, source[b].insts, HookedIn(source[b].insts), m)
  BY <1>6, <1>8, <1>9, <1>10, <1>11 DEF s, H
<1>13. Len(c) >= Len(s)
  <2>1. l \in Nat /\ l <= Moved(H, l) /\ Len(c) = Len(s) + Moved(H, l) - l
    BY <1>2, <1>3, <1>10, MovedFacts DEF HookedUpTo
  <2> QED  BY <1>10, <2>1
<1>14. /\ Len(code'[b].insts) >= Len(code[b].insts) /\ Len(code[b].insts) \in Nat
       /\ Len(code'[b].insts) \in Nat /\ Len(source[b].insts) \in Nat
       /\ Len(code'[b].insts) > Len(source[b].insts)
  <2>1. code'[b].insts = n
    BY <1>6, <1>8
  <2>2. Len(n) >= Len(c) /\ Len(n) \in Nat /\ Len(n) > Len(s)
    BY <1>7, <1>10, <1>13
  <2> QED  BY <1>10, <2>1, <2>2 DEF c, s
<1> QED  BY <1>1, <1>6, <1>8, <1>12, <1>14, LoopStep

LEMMA LoopNextBlock ==
  ASSUME PassInv, PassInv', LoopInv, SkipFunction \/ EndBlock
  PROVE  LoopInv'
<1>1. /\ b <= Len(code) /\ b' = b + 1 /\ i' = 1
      /\ UNCHANGED <<tool, source, code, modified, typeMap>>
      /\ code[b].dotted \/ i > Len(code[b].insts)
  BY DEF SkipFunction, EndBlock, InModule, vars, walk
<1>2. Len(source) \in Nat /\ Len(code) = Len(source) /\ b \in 1 .. Len(source)
  BY <1>1, LenProperties DEF PassInv, LoopsInRange, LoopInv
<1>3. BlockDone(b)
  BY <1>1, <1>2, BlockEnds
<1>4. ASSUME NEW k \in 1 .. Len(source)
      PROVE  /\ code[k].dotted = source[k].dotted
             /\ k < b + 1 => BlockDone(k)'
             /\ k > b + 1 => code[k] = source[k]
  <2>1. k < b + 1 => BlockDone(k)
    BY <1>2, <1>3 DEF LoopInv
  <2>2. HookedIn(source[k].insts)' = HookedIn(source[k].insts)
    BY <1>1, InterestKept
  <2>3. k < b + 1 => BlockDone(k)'
    BY <1>1, <2>1, <2>2 DEF BlockDone
  <2> QED  BY <1>2, <2>3 DEF LoopInv
<1>5. ASSUME b' <= Len(source) PROVE BlockInv'
  <2>1. b + 1 \in 1 .. Len(source) /\ code[b + 1] = source[b + 1]
    BY <1>1, <1>2, <1>5 DEF LoopInv
  <2>2. PICK k, s : k = b + 1 /\ s = source[k].insts
    OBVIOUS
  <2>3. s \in Seq(GoodInst) /\ code[k] = source[k]
    BY <2>1, <2>2, SourceFacts
  <2>4. HookedIn(source[k].insts)' = HookedIn(s)
    BY <1>1, <2>2, InterestKept
  <2>5. /\ HookedUpTo(s, s, HookedIn(s), 0) /\ Moved(HookedIn(s), 0) = 0
        /\ 0 \in 0 .. Len(s)
    BY <2>3, HookedNone, MovedZero, LenProperties
  <2>6. b' = k /\ source'[k].insts = s /\ code'[k].insts = s /\ code'[k] = source'[k]
    BY <1>1, <2>2, <2>3
  <2>7. AtSource(0)'
    BY <1>1, <2>4, <2>5, <2>6 DEF AtSource
  <2> QED  BY <2>5, <2>6, <2>7 DEF BlockInv
<1> QED  BY <1>1, <1>2, <1>4, <1>5 DEF LoopInv

(* The name that the struct parser gives decides as the source does. *)
LEMMA FieldDecides ==
  ASSUME PassInv, LoopInv, Settled, NamesRight', RunOnField
  PROVE  IF OfInterest(Inst) THEN InsertHook ELSE Continue
<1>1. /\ AtInstruction /\ Asks(Inst) /\ GetFieldName(Inst.field.type, Inst.field.index)
      /\ IF tool = "counter" /\ answer'.name # "" /\ crash' = "none" THEN InsertHook ELSE Continue
  BY DEF RunOnField
<1>2. CASE tool = "struct-parser"
  BY <1>1, <1>2 DEF OfInterest
<1>3. CASE tool # "struct-parser"
  <2>1. tool = "counter" /\ Inst.op = "call" /\ Inst.field # NoField
    BY <1>1, <1>3 DEF Asks
  <2> DEFINE t == Inst.field.type
             k == Inst.field.index
  <2>2. ~Wrapped(t)
    <3>1. PICK l : l \in DOMAIN source[b].insts /\ Inst = source[b].insts[l]
      BY <1>1, AtSourceFacts
    <3>2. b \in DOMAIN source
      BY <1>1, AtSourceFacts, LenProperties DEF PassInv
    <3> QED  BY <1>1, <2>1, <3>1, <3>2 DEF Settled
  <2>3. PICK name : answer' = [asked |-> TRUE, type |-> t, index |-> k, name |-> name]
    BY <1>1 DEF GetFieldName, Answer
  <2>4. /\ answer'.asked /\ answer'.type = t /\ answer'.index = k
    BY <2>3
  <2>5. Recorded' = Recorded
    BY <1>1 DEF GetFieldName, walk, Recorded
  <2>6. /\ crash' = "none"
        /\ answer'.name = IF k = 0 \/ t \notin Recorded THEN "" ELSE Fields[t][k]
    BY <2>2, <2>4, <2>5 DEF NamesRight, Wrapped
  <2>7. OfInterest(Inst) <=> answer'.name # ""
    BY <2>1, <2>6 DEF OfInterest
  <2> QED  BY <1>1, <2>1, <2>6, <2>7
<1> QED  BY <1>2, <1>3

(* The walk begins when the struct parser is done, and no type is added then. *)
LEMMA WalkHookInv ==
  ASSUME PassInv, PassInv', HookInv, NamesRight', Walk
  PROVE  HookInv'
<1>1. /\ Ready /\ pc = "walk" /\ Begun /\ UNCHANGED <<tool, source, locals, next, typeMap, stack>>
  BY DEF Walk, SkipFunction, EndBlock, EndModule, RunOnOther, RunOnCallInst, RunOnField,
         AtInstruction, InModule, Ready, Begun, Parsed, GetFieldName, vars, walk
<1>2. Begun' /\ (Settled' => Settled)
  BY <1>1 DEF Begun, Settled, Asks, Wrapped
<1>3. Settled => LoopInv
  BY FreshLoop DEF HookInv
<1>4. pc' = "done" => b' > Len(code')
  BY <1>1 DEF Walk, SkipFunction, EndBlock, EndModule, RunOnOther, RunOnCallInst, RunOnField
<1>5. ASSUME Settled PROVE LoopInv'
  <2>1. CASE SkipFunction \/ EndBlock
    BY <1>3, <1>5, <2>1, LoopNextBlock
  <2>2. CASE RunOnOther
    <3>1. AtInstruction /\ ~OfInterest(Inst) /\ Continue /\ UNCHANGED b
      BY <2>2 DEF RunOnOther, HooksAll, Asks, OfInterest
    <3> QED  BY <1>1, <1>3, <1>5, <3>1, LoopContinue
  <2>3. CASE RunOnField
    <3>1. AtInstruction /\ UNCHANGED b
      BY <2>3 DEF RunOnField
    <3>2. CASE OfInterest(Inst)
      BY <1>1, <1>3, <1>5, <2>3, <3>1, <3>2, FieldDecides, LoopInsert
    <3>3. CASE ~OfInterest(Inst)
      BY <1>1, <1>3, <1>5, <2>3, <3>1, <3>3, FieldDecides, LoopContinue
    <3> QED  BY <3>2, <3>3
  <2>4. CASE RunOnCallInst /\ Inst.direct
    <3>1. AtInstruction /\ OfInterest(Inst) /\ InsertHook /\ UNCHANGED b
      BY <2>4 DEF RunOnCallInst, HooksAll, OfInterest
    <3> QED  BY <1>1, <1>3, <1>5, <3>1, LoopInsert
  <2>5. CASE EndModule \/ (RunOnCallInst /\ ~Inst.direct)
    <3>1. UNCHANGED <<code, b, i, modified>>
      BY <2>5 DEF EndModule, RunOnCallInst
    <3> QED  BY <1>1, <1>3, <1>5, <3>1, LoopKept
  <2> QED  BY <2>1, <2>2, <2>3, <2>4, <2>5 DEF Walk
<1> QED  BY <1>2, <1>4, <1>5 DEF HookInv

(* A step of the struct parser is one that is not done. *)
LEMMA ProbeBusy ==
  ASSUME TypeOK, Probe
  PROVE  ~(stack = <<>> /\ next > Len(locals))
<1>1. stack # <<>> \/ next <= Len(locals)
  BY DEF Probe, RunOnDbgDeclareInst, GetBaseType, ProbeKnown, ProbePointer, ProbeStruct,
         ProbeOther, Record, ReturnFromPointer, SkipForeign, SkipElement, SkipMember,
         Match, EndLoop, AtTop
<1>2. next \in Nat /\ Len(locals) \in Nat
  BY OrdersAssumption, LenProperties DEF TypeOK
<1> QED  BY <1>1, <1>2

LEMMA NextHookInv ==
  ASSUME PassInv, PassInv', TypeOK, HookInv, NamesRight', [PassNext]_<<vars, pass>>
  PROVE  HookInv'
<1>1. CASE Construct
  <2>1. tool # "call-hook" /\ Probe /\ UNCHANGED <<tool, source, code, b, i, modified, pc>>
    BY <1>1 DEF Construct, pass
  <2>2. Settled => Fresh
    BY <2>1, ProbeBusy DEF HookInv, Begun
  <2>3. Settled' => Settled
    BY <2>1 DEF Settled, Asks, Wrapped
  <2> QED  BY <2>1, <2>2, <2>3 DEF HookInv, Fresh
<1>2. CASE Walk
  BY <1>2, WalkHookInv
<1>3. CASE UNCHANGED <<vars, pass>>
  <2>1. UNCHANGED <<tool, source, code, b, i, modified, pc, locals, next, typeMap, stack>>
    BY <1>3 DEF vars, walk, pass
  <2>2. LoopInv => LoopInv'
    BY <2>1, LoopKept
  <2>3. (Settled' => Settled) /\ (Begun => Begun') /\ (Fresh => Fresh')
    BY <2>1 DEF Settled, Asks, Wrapped, Begun, Fresh
  <2> QED  BY <2>1, <2>2, <2>3 DEF HookInv
<1> QED  BY <1>1, <1>2, <1>3 DEF PassNext

(* The hooks that the pass has put into the module at the end. *)
LEMMA HookInvExact ==
  ASSUME PassInv, UnmodifiedIsSource, HookInv
  PROVE  HooksExact
<1> SUFFICES ASSUME pc = "done", Settled
             PROVE  /\ Len(code) = Len(source)
                    /\ \A k \in DOMAIN source :
                         Instrumented(code[k], source[k], HookedIn(source[k].insts))
                    /\ modified <=> code # source
  BY DEF HooksExact
<1>1. LoopInv /\ b > Len(code)
  BY FreshLoop DEF HookInv
<1>2. Len(source) \in Nat /\ DOMAIN source = 1 .. Len(source) /\ Len(code) = Len(source)
  BY <1>1, LenProperties DEF PassInv, LoopInv
<1>3. ASSUME NEW k \in DOMAIN source PROVE BlockDone(k)
  BY <1>1, <1>2 DEF LoopInv, PassInv, LoopsInRange
<1>4. modified => code # source
  <2>1. ASSUME modified, code = source PROVE FALSE
    <3>1. PICK k \in 1 .. Len(source) : Len(source[k].insts) > Len(source[k].insts)
      BY <1>1, <2>1 DEF LoopInv
    <3>2. Len(source[k].insts) \in Nat
      BY SourceFacts, LenProperties
    <3> QED  BY <3>1, <3>2
  <2> QED  BY <2>1
<1>5. ~modified => code = source
  BY DEF UnmodifiedIsSource
<1> QED  BY <1>2, <1>3, <1>4, <1>5 DEF BlockDone, PassInv

(***************************************************************************)
(* When a pass ends, each call of interest, and nothing else, has one hook *)
(* right before it, for any module: the loop is not led astray by the list *)
(* that grows under it, and modified tells whether the module is to be     *)
(* written.  As the property says, this is not of a counter that asks      *)
(* about a struct whose debug type is volatile or a base class (Settled).  *)
(***************************************************************************)
THEOREM HooksAlwaysExact ==
  ASSUME NEW R, Described(R)
  PROVE  PassSpec => []HooksExact
<1>1. PassInit => HookInv
  BY DEF PassInit, HookInv, Fresh
<1>2. /\ PassInv /\ PassInv' /\ TypeOK /\ HookInv /\ NamesRight' /\ [PassNext]_<<vars, pass>>
      => HookInv'
  BY NextHookInv
<1>3. PassInv /\ UnmodifiedIsSource /\ HookInv => HooksExact
  BY HookInvExact
<1>4. PassSpec => []NamesRight
  BY PassNamesRight
<1>5. PassSpec => []TypeOK
  BY PassImplementsParser, TypeCorrect, PTL
<1> QED  BY <1>1, <1>2, <1>3, <1>4, <1>5, PassInvariance, PTL DEF PassSpec
=============================================================================
