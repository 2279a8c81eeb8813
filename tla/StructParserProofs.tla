------------------------- MODULE StructParserProofs -------------------------
(***************************************************************************)
(* Proofs about StructParser, for any types, debug types and declarations: *)
(* the types, the depth of the recursion, that the walk misses nothing, and *)
(* that the names it gives are right.                                      *)
(***************************************************************************)
EXTENDS StructParser, SequenceTheorems, FiniteSetTheorems, FunctionTheorems, TLAPS

(* Only the call on top is at get_base_type(); the others have mapped their *)
(* type, each a type of its own.                                           *)
StackShape ==
  /\ \A n \in 1 .. Len(stack) :
       /\ stack[n].at = "base" => n = Len(stack)
       /\ stack[n].at # "base" => typeMap[stack[n].type] # NoDI
       /\ stack[n].at = "merge" => /\ typeMap[stack[n].type] = stack[n].di
                                   /\ Di[stack[n].di].tag = "structure"
  /\ \A n, m \in 1 .. Len(stack) :
       stack[n].at # "base" /\ stack[m].at # "base" /\ stack[n].type = stack[m].type => n = m

NoBase == Void \cup {NoDI}

(* The call on top will take care of debug type d of type t. *)
Pending(t, d) ==
  stack # <<>> /\ Top.at = "base" /\ Top.type = t /\ (Top.di \in NoBase <=> d \in NoBase)

Covered(t, d) == Done(t, d) \/ Pending(t, d)

(* The loop over the elements of t has not passed element k. *)
Ahead(t, k) ==
  \E n \in 1 .. Len(stack) : stack[n].at = "merge" /\ stack[n].type = t /\ stack[n].i <= k

(* No element that a loop has before it belongs to a member behind it. *)
PassedApart ==
  \A n \in 1 .. Len(stack) : stack[n].at = "merge" =>
    \A k \in DOMAIN Ir[stack[n].type].elements, m \in DOMAIN Di[stack[n].di].elements :
      k >= stack[n].i /\ m < stack[n].j => ~Together(stack[n].type, stack[n].di, k, m)

LocalsCovered ==
  \A n \in DOMAIN locals :
    n < next => locals[n].expression \/ Covered(locals[n].type, locals[n].di)

TypeCovered(t, d) ==
  /\ Di[d].tag = "pointer" => Covered(Ir[t].pointee, Di[d].base)
  /\ Di[d].tag = "structure" =>
       \A k \in DOMAIN Ir[t].elements, m \in DOMAIN Di[d].elements :
         Together(t, d, k, m) =>
           Covered(Ir[t].elements[k].type, Di[d].elements[m]) \/ Ahead(t, k)

Walked ==
  crash = "none" =>
    PassedApart /\ LocalsCovered /\ \A t \in Recorded : TypeCovered(t, typeMap[t])

IInv == TypeOK /\ StackShape /\ Walked
-----------------------------------------------------------------------------
(* The facts about the constants in the form the proofs use. *)
LEMMA IrFacts ==
  ASSUME NEW t \in Types
  PROVE  /\ Ir[t].pointee \in Types
         /\ Len(Ir[t].elements) \in Nat
         /\ DOMAIN Ir[t].elements = 1 .. Len(Ir[t].elements)
         /\ \A k \in 1 .. Len(Ir[t].elements) :
              Ir[t].elements[k].type \in Types /\ Ir[t].elements[k].offset \in Nat
<1>1. Ir[t] \in TypeInfo
  BY IrAssumption
<1>2. Ir[t].elements \in Seq([type : Types, offset : Nat])
  BY <1>1 DEF TypeInfo
<1>3. /\ Len(Ir[t].elements) \in Nat
      /\ DOMAIN Ir[t].elements = 1 .. Len(Ir[t].elements)
      /\ \A k \in 1 .. Len(Ir[t].elements) :
           Ir[t].elements[k] \in [type : Types, offset : Nat]
  BY <1>2, LenProperties, ElementOfSeq
<1> QED  BY <1>1, <1>3 DEF TypeInfo

LEMMA DiFacts ==
  ASSUME NEW d \in DITypes
  PROVE  /\ Di[d].base \in DITypes \cup {NoDI} /\ Di[d].offset \in Nat /\ Di[d].tag \in Tags
         /\ Len(Di[d].elements) \in Nat
         /\ DOMAIN Di[d].elements = 1 .. Len(Di[d].elements)
         /\ \A k \in 1 .. Len(Di[d].elements) : Di[d].elements[k] \in DITypes
<1>1. Di[d] \in DebugInfo
  BY DiAssumption
<1>2. Di[d].elements \in Seq(DITypes)
  BY <1>1 DEF DebugInfo
<1> QED  BY <1>1, <1>2, LenProperties, ElementOfSeq DEF DebugInfo

(* The call on top, and what the operations on the stack make of it. *)
LEMMA TopFacts ==
  ASSUME TypeOK, stack # <<>>
  PROVE  /\ Len(stack) \in Nat \ {0} /\ Top = stack[Len(stack)] /\ Top \in Frame
         /\ \A n \in 1 .. Len(stack) : stack[n] \in Frame /\ InRange(stack[n])
<1>1. stack \in Seq(Frame) /\ \A n \in DOMAIN stack : InRange(stack[n])
  BY DEF TypeOK
<1>2. Len(stack) \in Nat \ {0} /\ DOMAIN stack = 1 .. Len(stack)
  BY <1>1, EmptySeq, LenProperties
<1> QED  BY <1>1, <1>2, ElementOfSeq DEF Top

LEMMA ReturnFacts ==
  ASSUME TypeOK, stack # <<>>, Return
  PROVE  /\ stack' \in Seq(Frame) /\ Len(stack') = Len(stack) - 1
         /\ \A n \in 1 .. Len(stack') : stack'[n] = stack[n]
<1> DEFINE l == Len(stack) - 1
<1>1. Len(stack) \in Nat \ {0} /\ \A n \in 1 .. Len(stack) : stack[n] \in Frame
  BY TopFacts
<1>2. l \in Nat /\ \A n \in 1 .. l : stack[n] \in Frame
  BY <1>1
<1>3. stack' = SubSeq(stack, 1, l)
  BY DEF Return
<1> HIDE DEF l
<1>4. /\ stack' \in Seq(Frame)
      /\ Len(stack') = IF 1 <= l THEN l - 1 + 1 ELSE 0
      /\ \A n \in 1 .. l - 1 + 1 : stack'[n] = stack[1 + n - 1]
  BY <1>2, <1>3, SubSeqProperties
<1>5. l - 1 + 1 = l /\ \A n \in 1 .. l : 1 + n - 1 = n
  BY <1>2
<1>6. Len(stack') = l
  BY <1>2, <1>4, <1>5
<1>7. \A n \in 1 .. l : stack'[n] = stack[n]
  BY <1>4, <1>5
<1> QED  BY <1>4, <1>6, <1>7 DEF l

LEMMA SetTopFacts ==
  ASSUME TypeOK, stack # <<>>, NEW f \in Frame, SetTop(f)
  PROVE  /\ stack' \in Seq(Frame) /\ Len(stack') = Len(stack)
         /\ stack'[Len(stack)] = f
         /\ \A n \in 1 .. Len(stack) - 1 : stack'[n] = stack[n]
<1>1. Len(stack) \in Nat \ {0} /\ stack \in Seq(Frame)
  BY TopFacts DEF TypeOK
<1> QED  BY <1>1, ExceptSeq DEF SetTop

LEMMA CallFacts ==
  ASSUME TypeOK, stack # <<>>, NEW f \in Frame, NEW t \in Types, NEW d \in DITypes \cup {NoDI},
         CallFrom(f, t, d)
  PROVE  /\ stack' \in Seq(Frame) /\ Len(stack') = Len(stack) + 1
         /\ stack'[Len(stack) + 1] = Call(t, d)
         /\ stack'[Len(stack)] = f
         /\ \A n \in 1 .. Len(stack) - 1 : stack'[n] = stack[n]
<1> DEFINE s == [stack EXCEPT ![Len(stack)] = f]
<1>1. Len(stack) \in Nat \ {0} /\ stack \in Seq(Frame)
  BY TopFacts DEF TypeOK
<1>2. /\ s \in Seq(Frame) /\ Len(s) = Len(stack)
      /\ \A n \in 1 .. Len(stack) : s[n] = IF n = Len(stack) THEN f ELSE stack[n]
  BY <1>1, ExceptSeq
<1>3. Call(t, d) \in Frame
  BY DEF Call, Frame
<1>4. stack' = Append(s, Call(t, d))
  BY DEF CallFrom
<1> HIDE DEF s
<1> QED  BY <1>1, <1>2, <1>3, <1>4

LEMMA InitIInv == Init => IInv
<1> SUFFICES ASSUME Init PROVE IInv
  OBVIOUS
<1>1. Len(locals) \in Nat /\ DOMAIN locals = 1 .. Len(locals)
  BY OrdersAssumption, LenProperties DEF Init
<1>2. TypeOK
  BY <1>1, OrdersAssumption, EmptySeq DEF Init, TypeOK
<1>3. StackShape
  BY EmptySeq DEF Init, StackShape
<1>4. Walked
  BY <1>1, EmptySeq DEF Init, Walked, PassedApart, LocalsCovered, Recorded
<1> QED  BY <1>2, <1>3, <1>4 DEF IInv
-----------------------------------------------------------------------------
(* What is left to show of Walked for a step that adds to the map. *)
LEMMA WalkedStep ==
  ASSUME IInv, crash = "none", UNCHANGED <<locals, next>>,
         \A t \in Types : typeMap[t] # NoDI => typeMap'[t] = typeMap[t],
         \A t, d : Covered(t, d) => Covered(t, d)',
         PassedApart',
         \A t \in Recorded : \A k \in DOMAIN Ir[t].elements, m \in DOMAIN Di[typeMap[t]].elements :
           Together(t, typeMap[t], k, m) /\ Ahead(t, k) =>
             Covered(Ir[t].elements[k].type, Di[typeMap[t]].elements[m])' \/ Ahead(t, k)',
         \A t \in Recorded' \ Recorded : TypeCovered(t, typeMap[t])'
  PROVE  Walked'
<1>1. PassedApart /\ LocalsCovered /\ \A t \in Recorded : TypeCovered(t, typeMap[t])
  BY DEF IInv, Walked
<1>2. LocalsCovered'
  BY <1>1 DEF LocalsCovered
<1>3. ASSUME NEW t \in Recorded PROVE TypeCovered(t, typeMap[t])'
  <2> DEFINE d == typeMap[t]
  <2>1. d' = d /\ TypeCovered(t, d)
    BY <1>1 DEF Recorded
  <2> QED  BY <2>1, <1>3 DEF TypeCovered, Together, IsDerived
<1> QED  BY <1>2, <1>3 DEF Walked

(***************************************************************************)
(* The call on top returns: it has taken care of what was pending, and, if *)
(* it was in a loop, nothing the loop has not come to belongs together.    *)
(***************************************************************************)
LEMMA ReturnStep ==
  ASSUME IInv, crash = "none", stack # <<>>, Return, UNCHANGED <<locals, next, crash>>,
         typeMap' \in [Types -> DITypes \cup {NoDI}],
         \A u \in Types : typeMap[u] # NoDI => typeMap'[u] = typeMap[u],
         \A t, d : Covered(t, d) => Done(t, d)',
         \A t \in Recorded' \ Recorded : TypeCovered(t, typeMap[t])',
         Top.at = "merge" =>
           \A k \in DOMAIN Ir[Top.type].elements, m \in DOMAIN Di[Top.di].elements :
             k >= Top.i => ~Together(Top.type, Top.di, k, m)
  PROVE  IInv'
<1> USE DEF IInv
<1>1. /\ stack' \in Seq(Frame) /\ Len(stack') = Len(stack) - 1
      /\ \A n \in 1 .. Len(stack') : stack'[n] = stack[n]
  BY ReturnFacts
<1>2. /\ Len(stack) \in Nat \ {0} /\ Top = stack[Len(stack)]
      /\ \A n \in 1 .. Len(stack) : stack[n] \in Frame /\ InRange(stack[n])
  BY TopFacts
<1>3. \A n \in 1 .. Len(stack') : n # Len(stack) /\ n \in 1 .. Len(stack)
  BY <1>1, <1>2
<1>4. TypeOK'
  <2>1. DOMAIN stack' = 1 .. Len(stack')
    BY <1>1, LenProperties
  <2>2. \A n \in DOMAIN stack' : InRange(stack'[n])
    BY <1>1, <1>2, <1>3, <2>1
  <2> QED  BY <1>1, <2>2 DEF TypeOK, InRange
<1>5. StackShape'
  <2>1. ASSUME NEW n \in 1 .. Len(stack')
        PROVE  /\ stack'[n].at # "base"
               /\ typeMap'[stack'[n].type] # NoDI
               /\ stack'[n].at = "merge" => /\ typeMap'[stack'[n].type] = stack'[n].di
                                            /\ Di[stack'[n].di].tag = "structure"
    <3>1. stack'[n] = stack[n] /\ stack[n].type \in Types
      BY <1>1, <1>2, <1>3 DEF Frame
    <3>2. stack[n].at # "base" /\ typeMap[stack[n].type] # NoDI
      BY <1>3 DEF StackShape
    <3> QED  BY <1>3, <3>1, <3>2 DEF StackShape
  <2>2. ASSUME NEW n \in 1 .. Len(stack'), NEW m \in 1 .. Len(stack'),
               stack'[n].type = stack'[m].type
        PROVE  n = m
    <3>1. n \in 1 .. Len(stack) /\ m \in 1 .. Len(stack)
      BY <1>3
    <3>2. stack'[n] = stack[n] /\ stack'[m] = stack[m]
      BY <1>1
    <3>3. stack[n].at # "base" /\ stack[m].at # "base" /\ stack[n].type = stack[m].type
      BY <2>1, <2>2, <3>2
    <3> QED  BY <3>1, <3>3 DEF StackShape
  <2> QED  BY <2>1, <2>2 DEF StackShape
<1>6. Walked'
  <2>1. PassedApart
    BY DEF Walked
  <2>2. \A t, d : Covered(t, d) => Covered(t, d)'
    BY DEF Covered
  <2>3. PassedApart'
    <3>1. ASSUME NEW n \in 1 .. Len(stack'), stack'[n].at = "merge",
                 NEW k \in DOMAIN Ir[stack'[n].type].elements,
                 NEW m \in DOMAIN Di[stack'[n].di].elements,
                 k >= stack'[n].i, m < stack'[n].j
          PROVE  ~Together(stack'[n].type, stack'[n].di, k, m)
      <4>1. stack'[n] = stack[n] /\ n \in 1 .. Len(stack)
        BY <1>1, <1>3
      <4> QED  BY <2>1, <3>1, <4>1 DEF PassedApart
    <3> QED  BY <3>1 DEF PassedApart, Together, IsDerived
  <2>4. ASSUME NEW t \in Recorded, NEW k \in DOMAIN Ir[t].elements,
               NEW m \in DOMAIN Di[typeMap[t]].elements,
               Together(t, typeMap[t], k, m), Ahead(t, k)
        PROVE  Ahead(t, k)'
    <3>1. PICK n \in 1 .. Len(stack) :
            stack[n].at = "merge" /\ stack[n].type = t /\ stack[n].i <= k
      BY <2>4 DEF Ahead
    <3>2. CASE n = Len(stack)
      <4>1. typeMap[t] = Top.di
        BY <1>2, <3>1, <3>2 DEF StackShape
      <4> QED  BY <1>2, <2>4, <3>1, <3>2, <4>1, IrFacts DEF Frame, Recorded
    <3>3. CASE n # Len(stack)
      BY <1>1, <1>3, <1>2, <3>1, <3>3 DEF Ahead
    <3> QED  BY <3>2, <3>3
  <2> QED  BY <2>2, <2>3, <2>4, WalkedStep
<1> QED  BY <1>4, <1>5, <1>6

(***************************************************************************)
(* The call on top goes on with the same type, at get_base_type() with a   *)
(* debug type that is as good, or in the loop with what it leaves behind   *)
(* not belonging together.                                                 *)
(***************************************************************************)
LEMMA TopStep ==
  ASSUME IInv, stack # <<>>, UNCHANGED <<locals, next, typeMap, crash>>,
         NEW f \in Frame, SetTop(f), InRange(f), f.type = Top.type, f.at = Top.at,
         f.at = "base" => (f.di \in NoBase <=> Top.di \in NoBase),
         f.at # "base" => f.di = Top.di,
         f.at = "merge" =>
           \A k \in DOMAIN Ir[f.type].elements, m \in DOMAIN Di[f.di].elements :
             /\ k >= f.i /\ m < f.j => ~Together(f.type, f.di, k, m)
             /\ k >= Top.i /\ k < f.i => ~Together(f.type, f.di, k, m)
  PROVE  IInv'
<1> USE DEF IInv
<1>1. /\ stack' \in Seq(Frame) /\ Len(stack') = Len(stack)
      /\ stack'[Len(stack)] = f
      /\ \A n \in 1 .. Len(stack) - 1 : stack'[n] = stack[n]
  BY SetTopFacts
<1>2. /\ Len(stack) \in Nat \ {0} /\ Top = stack[Len(stack)] /\ Top \in Frame
      /\ \A n \in 1 .. Len(stack) : stack[n] \in Frame /\ InRange(stack[n])
  BY TopFacts
<1>3. \A n \in 1 .. Len(stack) : n # Len(stack) => n \in 1 .. Len(stack) - 1
  BY <1>2
<1>4. \A n \in 1 .. Len(stack) : n # Len(stack) => stack'[n] = stack[n]
  BY <1>1, <1>3
<1>5. \A n \in 1 .. Len(stack) :
        stack'[n].type = stack[n].type /\ stack'[n].at = stack[n].at
  BY <1>1, <1>2, <1>4
<1>6. stack' # <<>> /\ Top' = f
  BY <1>1, <1>2 DEF Top
<1>7. TypeOK'
  <2>1. DOMAIN stack' = 1 .. Len(stack)
    BY <1>1, LenProperties
  <2>2. \A n \in DOMAIN stack' : InRange(stack'[n])
    BY <1>1, <1>2, <1>4, <2>1
  <2> QED  BY <1>1, <2>2 DEF TypeOK, InRange
<1>8. StackShape'
  <2>1. ASSUME NEW n \in 1 .. Len(stack)
        PROVE  /\ stack'[n].at = "base" => n = Len(stack)
               /\ stack'[n].at # "base" => typeMap'[stack'[n].type] # NoDI
               /\ stack'[n].at = "merge" => /\ typeMap'[stack'[n].type] = stack'[n].di
                                            /\ Di[stack'[n].di].tag = "structure"
    BY <1>1, <1>2, <1>4, <1>5 DEF StackShape
  <2>2. ASSUME NEW n \in 1 .. Len(stack), NEW m \in 1 .. Len(stack),
               stack'[n].at # "base", stack'[m].at # "base", stack'[n].type = stack'[m].type
        PROVE  n = m
    BY <1>5, <2>2 DEF StackShape
  <2> QED  BY <1>1, <2>1, <2>2 DEF StackShape
<1>9. Walked'
  <2> SUFFICES ASSUME crash = "none"
               PROVE  (PassedApart /\ LocalsCovered /\ \A t \in Recorded : TypeCovered(t, typeMap[t]))'
    BY DEF Walked
  <2>1. PassedApart /\ LocalsCovered /\ \A t \in Recorded : TypeCovered(t, typeMap[t])
    BY DEF Walked
  <2>2. \A t, d : Covered(t, d) => Covered(t, d)'
    BY <1>6 DEF Covered, Done, Recorded, Pending, NoBase
  <2>3. PassedApart'
    <3> SUFFICES ASSUME NEW n \in 1 .. Len(stack), stack'[n].at = "merge",
                        NEW k \in DOMAIN Ir[stack'[n].type].elements,
                        NEW m \in DOMAIN Di[stack'[n].di].elements,
                        k >= stack'[n].i, m < stack'[n].j
                 PROVE  ~Together(stack'[n].type, stack'[n].di, k, m)
      BY <1>1 DEF PassedApart, Together, IsDerived
    <3>1. CASE n = Len(stack)
      BY <1>1, <3>1
    <3>2. CASE n # Len(stack)
      BY <1>4, <2>1, <3>2 DEF PassedApart
    <3> QED  BY <3>1, <3>2
  <2>4. LocalsCovered'
    BY <2>1, <2>2 DEF LocalsCovered
  <2>5. ASSUME NEW t \in Recorded' PROVE TypeCovered(t, typeMap[t])'
    <3> DEFINE d == typeMap[t]
    <3>1. t \in Recorded /\ d' = d /\ TypeCovered(t, d)
      BY <2>1 DEF Recorded
    <3>2. ASSUME NEW k \in DOMAIN Ir[t].elements, NEW m \in DOMAIN Di[d].elements,
                 Together(t, d, k, m), Ahead(t, k)
          PROVE  Ahead(t, k)'
      <4>1. PICK n \in 1 .. Len(stack) :
              stack[n].at = "merge" /\ stack[n].type = t /\ stack[n].i <= k
        BY <3>2 DEF Ahead
      <4>2. CASE n = Len(stack)
        <5>1. typeMap[t] = Top.di /\ f.at = "merge" /\ f.type = t /\ f.di = Top.di
          BY <1>2, <4>1, <4>2 DEF StackShape
        <5>2. k \in Nat /\ Top.i \in Nat /\ f.i \in Nat
          BY <1>2, <3>1, IrFacts DEF Recorded, Frame
        <5>3. ~(k < f.i)
          BY <1>2, <3>2, <4>1, <4>2, <5>1, <5>2
        <5> QED  BY <1>1, <1>2, <4>2, <5>1, <5>2, <5>3 DEF Ahead
      <4>3. CASE n # Len(stack)
        BY <1>1, <1>4, <4>1, <4>3 DEF Ahead
      <4> QED  BY <4>2, <4>3
    <3> QED  BY <2>2, <3>1, <3>2 DEF TypeCovered, Together, IsDerived
  <2> QED  BY <2>3, <2>4, <2>5
<1> QED  BY <1>7, <1>8, <1>9
-----------------------------------------------------------------------------
(* A call is made from the one on top, which has mapped its type by then. *)
LEMMA PushShape ==
  ASSUME IInv, stack # <<>>, UNCHANGED <<locals, next, crash>>,
         NEW f \in Frame, NEW t \in Types, NEW d \in DITypes \cup {NoDI}, CallFrom(f, t, d),
         InRange(f), f.type = Top.type, f.at # "base",
         f.at = "merge" => typeMap'[f.type] = f.di /\ Di[f.di].tag = "structure",
         Top.at = "base" => typeMap[Top.type] = NoDI,
         typeMap' \in [Types -> DITypes \cup {NoDI}], typeMap'[f.type] # NoDI,
         \A u \in Types : typeMap[u] # NoDI => typeMap'[u] = typeMap[u]
  PROVE  TypeOK' /\ StackShape'
<1> USE DEF IInv
<1>1. /\ stack' \in Seq(Frame) /\ Len(stack') = Len(stack) + 1
      /\ stack'[Len(stack) + 1] = Call(t, d)
      /\ stack'[Len(stack)] = f
      /\ \A n \in 1 .. Len(stack) - 1 : stack'[n] = stack[n]
  BY CallFacts
<1>2. /\ Len(stack) \in Nat \ {0} /\ Top = stack[Len(stack)] /\ Top \in Frame
      /\ \A n \in 1 .. Len(stack) : stack[n] \in Frame /\ InRange(stack[n])
  BY TopFacts
<1>3. \A n \in 1 .. Len(stack') :
        n = Len(stack) + 1 \/ n = Len(stack) \/ n \in 1 .. Len(stack) - 1
  BY <1>1, <1>2
<1>4. Call(t, d).at = "base"
  BY DEF Call
<1>5. TypeOK'
  <2>1. DOMAIN stack' = 1 .. Len(stack')
    BY <1>1, LenProperties
  <2>2. ASSUME NEW n \in 1 .. Len(stack') PROVE InRange(stack'[n])
    <3>1. CASE n \in 1 .. Len(stack) - 1
      BY <1>1, <1>2, <3>1
    <3>2. InRange(Call(t, d))
      BY DEF InRange, Call
    <3> QED  BY <1>1, <1>3, <3>1, <3>2
  <2> QED  BY <1>1, <2>1, <2>2 DEF TypeOK, InRange
<1>6. ASSUME NEW n \in 1 .. Len(stack) - 1
      PROVE  /\ stack'[n].at # "base" /\ stack'[n] = stack[n] /\ stack[n].type \in Types
             /\ n \in 1 .. Len(stack) /\ n # Len(stack)
             /\ typeMap[stack[n].type] # NoDI /\ stack[n].type # f.type
             /\ stack[n].at = "merge" => /\ typeMap[stack[n].type] = stack[n].di
                                         /\ Di[stack[n].di].tag = "structure"
  <2>1. n \in 1 .. Len(stack) /\ n # Len(stack) /\ stack'[n] = stack[n]
        /\ Len(stack) \in 1 .. Len(stack)
    BY <1>1, <1>2
  <2>2. /\ stack[n].at # "base" /\ typeMap[stack[n].type] # NoDI
        /\ stack[n].at = "merge" => /\ typeMap[stack[n].type] = stack[n].di
                                    /\ Di[stack[n].di].tag = "structure"
    BY <2>1 DEF StackShape
  <2>3. stack[n].type # f.type
    BY <1>2, <2>1, <2>2 DEF StackShape
  <2> QED  BY <1>2, <2>1, <2>2, <2>3 DEF Frame
<1>7. StackShape'
  <2>1. ASSUME NEW n \in 1 .. Len(stack')
        PROVE  /\ stack'[n].at = "base" => n = Len(stack')
               /\ stack'[n].at # "base" => typeMap'[stack'[n].type] # NoDI
               /\ stack'[n].at = "merge" => /\ typeMap'[stack'[n].type] = stack'[n].di
                                            /\ Di[stack'[n].di].tag = "structure"
    <3>1. CASE n \in 1 .. Len(stack) - 1
      BY <1>6, <3>1
    <3>2. CASE n = Len(stack)
      BY <1>1, <3>2
    <3>3. CASE n = Len(stack) + 1
      BY <1>1, <1>4, <3>3
    <3> QED  BY <1>3, <3>1, <3>2, <3>3
  <2>2. ASSUME NEW n \in 1 .. Len(stack'), NEW m \in 1 .. Len(stack'),
               stack'[n].at # "base", stack'[m].at # "base", stack'[n].type = stack'[m].type
        PROVE  n = m
    <3>1. n # Len(stack) + 1 /\ m # Len(stack) + 1
      BY <1>1, <1>4, <2>2
    <3>2. CASE n = Len(stack)
      BY SMTT(30), <1>1, <1>3, <1>6, <2>2, <3>1, <3>2
    <3>3. CASE m = Len(stack)
      BY SMTT(30), <1>1, <1>3, <1>6, <2>2, <3>1, <3>3
    <3>4. CASE n \in 1 .. Len(stack) - 1 /\ m \in 1 .. Len(stack) - 1
      <4>1. /\ n \in 1 .. Len(stack) /\ m \in 1 .. Len(stack)
            /\ stack'[n] = stack[n] /\ stack'[m] = stack[m]
        BY <1>6, <3>4
      <4> QED  BY <2>2, <4>1 DEF StackShape
    <3> QED  BY <1>3, <3>1, <3>2, <3>3, <3>4
  <2> QED  BY <2>1, <2>2 DEF StackShape
<1> QED  BY <1>5, <1>7
-----------------------------------------------------------------------------
(* A loop on top: where it is, and what it has left behind. *)
LEMMA LoopFacts ==
  ASSUME IInv, AtTop("merge")
  PROVE  /\ stack # <<>> /\ crash = "none" /\ Top \in Frame /\ Top.type \in Types /\ Top.di \in DITypes
         /\ Len(stack) \in 1 .. Len(stack) /\ Top = stack[Len(stack)]
         /\ typeMap[Top.type] = Top.di /\ Di[Top.di].tag = "structure"
         /\ DOMAIN Elements = 1 .. Len(Elements) /\ Len(Elements) \in Nat
         /\ DOMAIN Members = 1 .. Len(Members) /\ Len(Members) \in Nat
         /\ Top.i \in 1 .. Len(Elements) + 1 /\ Top.j \in 1 .. Len(Members) + 1
         /\ \A k \in DOMAIN Elements :
              k \in Nat /\ Elements[k].type \in Types /\ Elements[k].offset \in Nat
         /\ \A m \in DOMAIN Members :
              m \in Nat /\ Members[m] \in DITypes /\ Di[Members[m]].offset \in Nat
         /\ \A k \in DOMAIN Elements, m \in DOMAIN Members :
              k >= Top.i /\ m < Top.j => ~Together(Top.type, Top.di, k, m)
         /\ \A t, d : Covered(t, d) => Done(t, d)
<1>1. /\ stack # <<>> /\ crash = "none" /\ Top.at = "merge"
  BY DEF AtTop
<1>2. /\ Len(stack) \in Nat \ {0} /\ Top = stack[Len(stack)] /\ Top \in Frame /\ InRange(Top)
  BY <1>1, TopFacts DEF IInv
<1>3. Len(stack) \in 1 .. Len(stack) /\ Top.type \in Types /\ Top.di \in DITypes
  BY <1>1, <1>2 DEF InRange, Frame
<1>4. typeMap[Top.type] = Top.di /\ Di[Top.di].tag = "structure"
  BY <1>1, <1>2, <1>3 DEF IInv, StackShape
<1>5. /\ DOMAIN Elements = 1 .. Len(Elements) /\ Len(Elements) \in Nat
      /\ \A k \in 1 .. Len(Elements) : Elements[k].type \in Types /\ Elements[k].offset \in Nat
  BY <1>3, IrFacts DEF Elements
<1>6. /\ DOMAIN Members = 1 .. Len(Members) /\ Len(Members) \in Nat
      /\ \A m \in 1 .. Len(Members) : Members[m] \in DITypes
  BY <1>3, DiFacts DEF Members
<1>7. \A m \in 1 .. Len(Members) : Di[Members[m]].offset \in Nat
  BY <1>6, DiFacts
<1>8. \A k \in DOMAIN Elements, m \in DOMAIN Members :
        k >= Top.i /\ m < Top.j => ~Together(Top.type, Top.di, k, m)
  BY <1>1, <1>2, <1>3 DEF IInv, Walked, PassedApart, Elements, Members
<1>9. \A t, d : Covered(t, d) => Done(t, d)
  BY <1>1 DEF Covered, Pending
<1>10. Top.i \in 1 .. Len(Elements) + 1 /\ Top.j \in 1 .. Len(Members) + 1
  BY <1>1, <1>2 DEF InRange, Elements, Members
<1> QED  BY <1>1, <1>2, <1>3, <1>4, <1>5, <1>6, <1>7, <1>8, <1>9, <1>10

(* The steps of a loop that make no call. *)
LEMMA SkipStep ==
  ASSUME IInv, SkipForeign \/ SkipElement \/ SkipMember
  PROVE  IInv'
<1>1. AtTop("merge") /\ InLoop /\ UNCHANGED <<locals, next, typeMap, crash>>
  BY DEF SkipForeign, SkipElement, SkipMember
<1>2. Top \in Frame /\ Top.at = "merge" /\ stack # <<>>
  BY <1>1, LoopFacts DEF AtTop
<1>3. Top.i \in 1 .. Len(Elements) /\ Top.j \in 1 .. Len(Members)
  BY <1>1, LoopFacts DEF InLoop
<1>n. Len(Elements) \in Nat /\ Len(Members) \in Nat /\ Top.di \in DITypes
  BY <1>1, LoopFacts
<1>4. CASE SkipForeign \/ SkipMember
  <2> DEFINE f == [Top EXCEPT !.j = @ + 1]
  <2>1. SetTop(f)
    BY <1>4 DEF SkipForeign, SkipMember
  <2>2. /\ f \in Frame /\ f.type = Top.type /\ f.at = "merge" /\ f.di = Top.di
        /\ f.i = Top.i /\ f.j = Top.j + 1
    BY <1>2, <1>3 DEF Frame
  <2>3. InRange(f)
    <3> HIDE DEF f
    <3>1. f.i \in 1 .. Len(Elements) + 1 /\ f.j \in 1 .. Len(Members) + 1
      BY <1>3, <1>n, <2>2
    <3> QED  BY <1>n, <2>2, <3>1 DEF InRange, Elements, Members
  <2>4. \A k \in DOMAIN Elements : k >= Top.i => ~Together(Top.type, Top.di, k, Top.j)
    <3>1. CASE SkipForeign
      BY <3>1 DEF SkipForeign, Together, Members
    <3>2. CASE SkipMember
      <4>1. \A k \in DOMAIN Elements : k >= Top.i => Elements[Top.i].offset <= Elements[k].offset
        <5>1. \A k, l \in DOMAIN Elements : k < l => Elements[k].offset <= Elements[l].offset
          BY <1>1, LoopFacts, IrAssumption DEF Elements
        <5> QED  BY SMTT(30), <1>1, <1>3, <5>1, LoopFacts
      <4>2. Elements[Top.i].offset > Di[Members[Top.j]].offset
        BY <3>2 DEF SkipMember, ElementOffset, Member
      <4>3. /\ Elements[Top.i].offset \in Nat /\ Di[Members[Top.j]].offset \in Nat
            /\ \A k \in DOMAIN Elements : Elements[k].offset \in Nat
        BY <1>1, <1>3, LoopFacts
      <4>4. \A k \in DOMAIN Elements :
              k >= Top.i => Elements[k].offset # Di[Members[Top.j]].offset
        BY <4>1, <4>2, <4>3
      <4> QED  BY <4>4 DEF Together, Elements, Members
    <3> QED  BY <1>4, <3>1, <3>2
  <2>5. \A k \in DOMAIN Elements, m \in DOMAIN Members :
          /\ k >= f.i /\ m < f.j => ~Together(Top.type, Top.di, k, m)
          /\ ~(k >= Top.i /\ k < f.i)
    BY <1>1, <1>3, <2>2, <2>4, LoopFacts
  <2> HIDE DEF f
  <2> QED  BY <1>1, <1>2, <2>1, <2>2, <2>3, <2>5, TopStep DEF Elements, Members
<1>5. CASE SkipElement
  <2> DEFINE f == [Top EXCEPT !.i = @ + 1]
  <2>1. SetTop(f)
    BY <1>5 DEF SkipElement
  <2>2. /\ f \in Frame /\ f.type = Top.type /\ f.at = "merge" /\ f.di = Top.di
        /\ f.i = Top.i + 1 /\ f.j = Top.j
    BY <1>2, <1>3 DEF Frame
  <2>3. InRange(f)
    <3> HIDE DEF f
    <3>1. f.i \in 1 .. Len(Elements) + 1 /\ f.j \in 1 .. Len(Members) + 1
      BY <1>3, <1>n, <2>2
    <3> QED  BY <1>n, <2>2, <3>1 DEF InRange, Elements, Members
  <2>4. ASSUME NEW m \in DOMAIN Members PROVE ~Together(Top.type, Top.di, Top.i, m)
    <3>1. /\ Elements[Top.i].offset < Di[Members[Top.j]].offset
          /\ IsDerived(Members[Top.j])
      BY <1>5 DEF SkipElement, ElementOffset, Member
    <3>2. /\ Elements[Top.i].offset \in Nat /\ Di[Members[Top.j]].offset \in Nat
          /\ Di[Members[m]].offset \in Nat /\ m \in Nat /\ m \in 1 .. Len(Members)
      BY <1>1, <1>3, LoopFacts
    <3>3. CASE m < Top.j
      <4>1. Top.i \in DOMAIN Elements /\ Top.i >= Top.i
        BY <1>1, <1>3, LoopFacts
      <4>2. \A k \in DOMAIN Elements, l \in DOMAIN Members :
              k >= Top.i /\ l < Top.j => ~Together(Top.type, Top.di, k, l)
        BY <1>1, LoopFacts
      <4> QED  BY <3>3, <4>1, <4>2
    <3>4. CASE m = Top.j
      <4>1. Together(Top.type, Top.di, Top.i, m) =>
              Elements[Top.i].offset = Di[Members[m]].offset
        BY DEF Together, Elements, Members
      <4> QED  BY <3>1, <3>2, <3>4, <4>1
    <3>5. CASE m > Top.j
      <4>1. Top.j \in 1 .. m - 1
        BY <1>3, <3>2, <3>5
      <4>2. Together(Top.type, Top.di, Top.i, m) =>
              /\ Elements[Top.i].offset = Di[Members[m]].offset
              /\ Di[Members[Top.j]].offset < Di[Members[m]].offset
        BY <3>1, <4>1 DEF Together, Elements, Members
      <4> QED  BY <3>1, <3>2, <4>2
    <3> QED  BY <1>3, <3>2, <3>3, <3>4, <3>5
  <2>5. \A k \in DOMAIN Elements, m \in DOMAIN Members :
          /\ k >= f.i /\ m < f.j => ~Together(Top.type, Top.di, k, m)
          /\ k >= Top.i /\ k < f.i => ~Together(Top.type, Top.di, k, m)
    BY <1>1, <1>3, <2>2, <2>4, LoopFacts
  <2> HIDE DEF f
  <2> QED  BY <1>1, <1>2, <2>1, <2>2, <2>3, <2>5, TopStep DEF Elements, Members
<1> QED  BY <1>4, <1>5

(* A match is a call for the element and the member that are paired. *)
LEMMA MatchStep ==
  ASSUME IInv, Match
  PROVE  IInv'
<1> DEFINE f == [Top EXCEPT !.i = @ + 1, !.j = @ + 1]
           t == Elements[Top.i].type
           d == Members[Top.j]
<1>1. /\ AtTop("merge") /\ InLoop /\ UNCHANGED <<locals, next, typeMap, crash>>
      /\ CallFrom(f, t, d)
      /\ IsDerived(Members[Top.j]) /\ Elements[Top.i].offset = Di[Members[Top.j]].offset
  BY DEF Match, ElementOffset, Member
<1>2. Top \in Frame /\ Top.at = "merge" /\ stack # <<>> /\ crash = "none"
  BY <1>1, LoopFacts DEF AtTop
<1>3. Top.i \in 1 .. Len(Elements) /\ Top.j \in 1 .. Len(Members)
  BY <1>1, LoopFacts DEF InLoop
<1>4. /\ f \in Frame /\ f.type = Top.type /\ f.at = "merge" /\ f.di = Top.di
      /\ f.i = Top.i + 1 /\ f.j = Top.j + 1
  <2>1. Top.i + 1 \in Nat /\ Top.j + 1 \in Nat
    BY <1>3
  <2> QED  BY <1>2, <2>1 DEF Frame
<1> HIDE DEF f
<1>5. InRange(f)
  <2>1. Top.di \in DITypes /\ Len(Elements) \in Nat /\ Len(Members) \in Nat
    BY <1>1, LoopFacts
  <2>2. f.i \in 1 .. Len(Elements) + 1 /\ f.j \in 1 .. Len(Members) + 1
    BY <1>3, <1>4, <2>1
  <2> QED  BY <1>4, <2>1, <2>2 DEF InRange, Elements, Members
<1>6. t \in Types /\ d \in DITypes
  BY <1>1, <1>3, LoopFacts
<1>7. /\ typeMap \in [Types -> DITypes \cup {NoDI}] /\ NoDI \notin DITypes
      /\ Top.di \in DITypes /\ typeMap[Top.type] = Top.di /\ Di[Top.di].tag = "structure"
  BY <1>1, LoopFacts, DiAssumption DEF IInv, TypeOK
<1> HIDE DEF t, d
<1>8. TypeOK' /\ StackShape'
  BY <1>1, <1>2, <1>4, <1>5, <1>6, <1>7, PushShape
<1>9. /\ stack' \in Seq(Frame) /\ Len(stack') = Len(stack) + 1
      /\ stack'[Len(stack) + 1] = Call(t, d)
      /\ stack'[Len(stack)] = f
      /\ \A n \in 1 .. Len(stack) - 1 : stack'[n] = stack[n]
  BY <1>1, <1>2, <1>4, <1>6, CallFacts DEF IInv
<1>10. Len(stack) \in Nat \ {0} /\ Top = stack[Len(stack)]
  BY <1>2, TopFacts DEF IInv
<1>11. ASSUME NEW u, NEW e, u = t, e = d PROVE Covered(u, e)'
  <2>1. stack' # <<>> /\ Top' = Call(u, e)
    BY <1>9, <1>10, <1>11, EmptySeq DEF Top
  <2> QED  BY <2>1 DEF Covered, Pending, Call
<1>12. ASSUME NEW k \in DOMAIN Elements, NEW m \in DOMAIN Members,
              Together(Top.type, Top.di, k, m), k >= Top.i
       PROVE  /\ m >= Top.j /\ (k > Top.i => m # Top.j) /\ (k = Top.i => m = Top.j)
  <2>1. /\ Elements[k].offset = Di[Members[m]].offset
        /\ \A l \in 1 .. k - 1 : Elements[l].offset < Elements[k].offset
        /\ \A l \in 1 .. m - 1 :
             IsDerived(Members[l]) => Di[Members[l]].offset < Di[Members[m]].offset
    BY <1>12 DEF Together, Elements, Members
  <2>2. /\ k \in Nat /\ m \in Nat /\ m \in 1 .. Len(Members)
        /\ Elements[k].offset \in Nat /\ Di[Members[m]].offset \in Nat
        /\ Elements[Top.i].offset \in Nat /\ Di[Members[Top.j]].offset \in Nat
    BY <1>1, <1>3, LoopFacts
  <2>3. ~(m < Top.j)
    BY <1>1, <1>12, LoopFacts
  <2>4. ASSUME k > Top.i PROVE m # Top.j
    <3>1. Top.i \in 1 .. k - 1
      BY <1>3, <2>2, <2>4
    <3>2. Elements[Top.i].offset < Elements[k].offset
      BY <2>1, <3>1
    <3> QED  BY <1>1, <2>1, <2>2, <3>2
  <2>5. ASSUME k = Top.i PROVE m = Top.j
    <3>1. ASSUME m # Top.j PROVE FALSE
      <4>1. Top.j \in 1 .. m - 1
        BY <1>3, <2>2, <2>3, <3>1
      <4>2. Di[Members[Top.j]].offset < Di[Members[m]].offset
        BY <1>1, <2>1, <4>1
      <4> QED  BY <1>1, <2>1, <2>2, <2>5, <4>2
    <3> QED  BY <3>1
  <2> QED  BY <1>3, <2>2, <2>3, <2>4, <2>5
<1>13. PassedApart'
  <2> SUFFICES ASSUME NEW n \in 1 .. Len(stack'), stack'[n].at = "merge",
                      NEW k \in DOMAIN Ir[stack'[n].type].elements,
                      NEW m \in DOMAIN Di[stack'[n].di].elements,
                      k >= stack'[n].i, m < stack'[n].j
               PROVE  ~Together(stack'[n].type, stack'[n].di, k, m)
    BY DEF PassedApart, Together, IsDerived
  <2>1. CASE n = Len(stack)
    <3>1. /\ k \in DOMAIN Elements /\ m \in DOMAIN Members
          /\ k >= Top.i + 1 /\ m < Top.j + 1
          /\ stack'[n].type = Top.type /\ stack'[n].di = Top.di
      BY <1>4, <1>9, <2>1 DEF Elements, Members
    <3>2. k \in Nat /\ m \in Nat /\ Top.i \in Nat /\ Top.j \in Nat
      BY <1>1, <1>3, <3>1, LoopFacts
    <3>3. k >= Top.i /\ k > Top.i /\ (m < Top.j \/ m = Top.j)
      BY <3>1, <3>2
    <3> QED  BY <1>3, <1>12, <3>1, <3>2, <3>3
  <2>2. CASE n = Len(stack) + 1
    BY <1>9, <2>2 DEF Call
  <2>3. CASE n \in 1 .. Len(stack) - 1
    <3>1. stack'[n] = stack[n] /\ n \in 1 .. Len(stack)
      BY <1>9, <1>10, <2>3
    <3> QED  BY <1>2, <3>1 DEF IInv, Walked, PassedApart
  <2> QED  BY <1>9, <1>10, <2>1, <2>2, <2>3
<1>14. ASSUME NEW u \in Recorded, NEW k \in DOMAIN Ir[u].elements,
              NEW m \in DOMAIN Di[typeMap[u]].elements,
              Together(u, typeMap[u], k, m), Ahead(u, k)
       PROVE  Covered(Ir[u].elements[k].type, Di[typeMap[u]].elements[m])' \/ Ahead(u, k)'
  <2>1. PICK n \in 1 .. Len(stack) :
          stack[n].at = "merge" /\ stack[n].type = u /\ stack[n].i <= k
    BY <1>14 DEF Ahead
  <2>2. CASE n = Len(stack)
    <3>1. u = Top.type /\ typeMap[u] = Top.di /\ Top.i <= k
      BY <1>7, <1>10, <2>1, <2>2
    <3>2. k \in DOMAIN Elements /\ m \in DOMAIN Members
      BY <3>1 DEF Elements, Members
    <3>3. k \in Nat
      BY <1>1, <3>2, LoopFacts
    <3>4. CASE k = Top.i
      <4>1. m = Top.j
        BY <1>3, <1>12, <1>14, <3>1, <3>2, <3>4
      <4>2. Ir[u].elements[k].type = t /\ Di[typeMap[u]].elements[m] = d
        BY <3>1, <3>4, <4>1 DEF t, d, Elements, Members
      <4>3. PICK e : e = Di[typeMap[u]].elements[m]
        OBVIOUS
      <4>4. Covered(Ir[u].elements[k].type, e)'
        BY <1>11, <4>2, <4>3
      <4>5. e = Di[typeMap'[u]].elements[m]
        BY <1>1, <4>3
      <4> QED  BY <4>4, <4>5 DEF Covered, Done, Pending
    <3>5. CASE k # Top.i
      <4>1. f.i <= k
        BY <1>3, <1>4, <3>1, <3>3, <3>5
      <4>2. n \in 1 .. Len(stack')
        BY <1>9, <1>10, <2>2
      <4> QED  BY <1>4, <1>9, <2>2, <3>1, <4>1, <4>2 DEF Ahead
    <3> QED  BY <3>4, <3>5
  <2>3. CASE n # Len(stack)
    <3>1. n \in 1 .. Len(stack) - 1 /\ n \in 1 .. Len(stack')
      BY <1>9, <1>10, <2>3
    <3> QED  BY <1>9, <2>1, <3>1 DEF Ahead
  <2> QED  BY <2>2, <2>3
<1>15. \A u, e : Covered(u, e) => Covered(u, e)'
  BY <1>1, LoopFacts DEF Covered, Done, Recorded
<1>16. Walked'
  BY <1>1, <1>2, <1>13, <1>14, <1>15, WalkedStep DEF Recorded
<1> QED  BY <1>8, <1>16 DEF IInv
-----------------------------------------------------------------------------
(* What it means to map the type of the call on top. *)
LEMMA RecordFacts ==
  ASSUME IInv, NEW tags, Record(tags)
  PROVE  /\ stack # <<>> /\ crash = "none" /\ Top.at = "base" /\ Top \in Frame
         /\ Top.type \in Types /\ Top.di \in DITypes /\ Di[Top.di].tag \in tags
         /\ typeMap[Top.type] = NoDI /\ typeMap'[Top.type] = Top.di
         /\ typeMap' \in [Types -> DITypes \cup {NoDI}]
         /\ \A u \in Types : typeMap[u] # NoDI => typeMap'[u] = typeMap[u]
         /\ \A u \in Recorded' \ Recorded : u = Top.type
         /\ Top.type \in Recorded' /\ Recorded \subseteq Recorded'
         /\ UNCHANGED <<locals, next>>
         /\ \A t, d : Covered(t, d) => Done(t, d)'
<1>1. /\ stack # <<>> /\ crash = "none" /\ Top.at = "base" /\ typeMap[Top.type] = NoDI
      /\ Top.di # NoDI /\ Di[Top.di].tag \in tags /\ UNCHANGED <<locals, next>>
      /\ typeMap' = [typeMap EXCEPT ![Top.type] = Top.di]
  BY DEF Record, AtTop, Seen
<1>2. Top \in Frame /\ typeMap \in [Types -> DITypes \cup {NoDI}]
  BY <1>1, TopFacts DEF IInv, TypeOK
<1>3. Top.type \in Types /\ Top.di \in DITypes
  BY <1>1, <1>2 DEF Frame
<1>4. /\ typeMap' \in [Types -> DITypes \cup {NoDI}] /\ typeMap'[Top.type] = Top.di
      /\ \A u \in Types : u # Top.type => typeMap'[u] = typeMap[u]
  BY <1>1, <1>2, <1>3
<1>5. /\ \A u \in Recorded' \ Recorded : u = Top.type
      /\ Top.type \in Recorded' /\ Recorded \subseteq Recorded'
  BY <1>1, <1>3, <1>4, DiAssumption DEF Recorded
<1>6. \A t, d : Covered(t, d) => Done(t, d)'
  BY <1>5 DEF Covered, Done, Pending
<1> QED  BY <1>1, <1>2, <1>3, <1>4, <1>5, <1>6

(* A failed assertion ends the walk with the type mapped. *)
LEMMA CrashStep ==
  ASSUME IInv, NEW tags, Record(tags), UNCHANGED stack, crash' \in {"pointer", "struct"}
  PROVE  IInv'
<1>1. /\ typeMap' \in [Types -> DITypes \cup {NoDI}] /\ UNCHANGED <<locals, next>>
      /\ \A u \in Types : typeMap[u] # NoDI => typeMap'[u] = typeMap[u]
  BY RecordFacts
<1>2. \A n \in 1 .. Len(stack) : stack[n].type \in Types
  BY RecordFacts, TopFacts DEF IInv, Frame
<1>3. TypeOK'
  BY <1>1 DEF IInv, TypeOK, InRange
<1>4. StackShape'
  <2>1. ASSUME NEW n \in 1 .. Len(stack), stack[n].at # "base"
        PROVE  typeMap'[stack[n].type] = typeMap[stack[n].type]
    BY <1>1, <1>2, <2>1 DEF IInv, StackShape
  <2>2. ASSUME NEW n \in 1 .. Len(stack)
        PROVE  /\ stack'[n].at = "base" => n = Len(stack)
               /\ stack'[n].at # "base" => typeMap'[stack'[n].type] # NoDI
               /\ stack'[n].at = "merge" => /\ typeMap'[stack'[n].type] = stack'[n].di
                                            /\ Di[stack'[n].di].tag = "structure"
    BY <2>1 DEF IInv, StackShape
  <2> QED  BY <2>2 DEF IInv, StackShape
<1>5. Walked'
  BY DEF Walked
<1> QED  BY <1>3, <1>4, <1>5 DEF IInv

LEMMA ProbePointerStep ==
  ASSUME IInv, ProbePointer
  PROVE  IInv'
<1> DEFINE f == [Top EXCEPT !.at = "return"]
           t == Ir[Top.type].pointee
           d == Di[Top.di].base
<1>1. Record({"pointer"})
  BY DEF ProbePointer
<1>2. CASE Ir[Top.type].kind # "pointer"
  BY <1>1, <1>2, CrashStep DEF ProbePointer
<1>3. CASE Ir[Top.type].kind = "pointer"
  <2>1. CallFrom(f, t, d) /\ UNCHANGED <<locals, next, crash>>
    BY <1>1, <1>3, RecordFacts DEF ProbePointer
  <2>2. /\ stack # <<>> /\ crash = "none" /\ Top.at = "base" /\ Top \in Frame
        /\ Top.type \in Types /\ Top.di \in DITypes /\ Di[Top.di].tag = "pointer"
        /\ typeMap[Top.type] = NoDI /\ typeMap'[Top.type] = Top.di
        /\ typeMap' \in [Types -> DITypes \cup {NoDI}] /\ Top.di # NoDI
        /\ \A u \in Types : typeMap[u] # NoDI => typeMap'[u] = typeMap[u]
    BY <1>1, RecordFacts, DiAssumption
  <2>3. f \in Frame /\ f.type = Top.type /\ f.at = "return" /\ InRange(f)
    BY <2>2 DEF Frame, InRange
  <2>4. t \in Types /\ d \in DITypes \cup {NoDI}
    BY <2>2, IrFacts, DiFacts
  <2> HIDE DEF f, t, d
  <2>5. TypeOK' /\ StackShape'
    BY <2>1, <2>2, <2>3, <2>4, PushShape
  <2>6. /\ stack' \in Seq(Frame) /\ Len(stack') = Len(stack) + 1
        /\ stack'[Len(stack) + 1] = Call(t, d)
        /\ stack'[Len(stack)] = f
        /\ \A n \in 1 .. Len(stack) - 1 : stack'[n] = stack[n]
    BY <2>1, <2>2, <2>3, <2>4, CallFacts DEF IInv
  <2>7. Len(stack) \in Nat \ {0} /\ Top = stack[Len(stack)]
    BY <2>2, TopFacts DEF IInv
  <2>8. \A n \in 1 .. Len(stack') :
          stack'[n].at = "merge" =>
            n \in 1 .. Len(stack) /\ n # Len(stack) /\ stack'[n] = stack[n]
    BY <2>3, <2>6, <2>7 DEF Call
  <2>9. \A n \in 1 .. Len(stack) :
          stack[n].at = "merge" => n \in 1 .. Len(stack') /\ stack'[n] = stack[n]
    BY <2>2, <2>6, <2>7
  <2>10. PassedApart'
    BY ZenonT(40), <2>2, <2>8 DEF IInv, Walked, PassedApart, Together, IsDerived
  <2>11. \A u \in Recorded : \A k \in DOMAIN Ir[u].elements : Ahead(u, k) => Ahead(u, k)'
    BY <2>9 DEF Ahead
  <2>12. \A u, e : Covered(u, e) => Covered(u, e)'
    BY <1>1, RecordFacts DEF Covered
  <2>13. ASSUME NEW u \in Recorded' \ Recorded PROVE TypeCovered(u, typeMap[u])'
    <3>1. u = Top.type /\ typeMap'[u] = Top.di
      BY <1>1, <2>2, RecordFacts
    <3>2. stack' # <<>> /\ Top' = Call(t, d)
      BY <2>6, <2>7, EmptySeq DEF Top
    <3>3. t = Ir[u].pointee /\ d = Di[typeMap'[u]].base
      BY <3>1 DEF t, d
    <3>4. Covered(Ir[u].pointee, Di[typeMap[u]].base)'
      BY <3>2, <3>3 DEF Covered, Pending, Call
    <3>5. Di[typeMap'[u]].tag # "structure"
      BY <2>2, <3>1
    <3> QED  BY <3>4, <3>5 DEF TypeCovered
  <2>14. Walked'
    BY <2>1, <2>2, <2>10, <2>11, <2>12, <2>13, WalkedStep
  <2> QED  BY <2>5, <2>14 DEF IInv
<1> QED  BY <1>2, <1>3

LEMMA ProbeStructStep ==
  ASSUME IInv, ProbeStruct
  PROVE  IInv'
<1> DEFINE f == [Top EXCEPT !.at = "merge", !.i = 1, !.j = 1]
<1>1. Record({"structure"})
  BY DEF ProbeStruct
<1>2. CASE Ir[Top.type].kind # "struct"
  BY <1>1, <1>2, CrashStep DEF ProbeStruct
<1>3. CASE Ir[Top.type].kind = "struct"
  <2>1. SetTop(f) /\ UNCHANGED <<locals, next, crash>>
    BY <1>1, <1>3, RecordFacts DEF ProbeStruct
  <2>2. /\ stack # <<>> /\ crash = "none" /\ Top.at = "base" /\ Top \in Frame
        /\ Top.type \in Types /\ Top.di \in DITypes /\ Di[Top.di].tag = "structure"
        /\ typeMap[Top.type] = NoDI /\ typeMap'[Top.type] = Top.di
        /\ typeMap' \in [Types -> DITypes \cup {NoDI}] /\ Top.di # NoDI
        /\ \A u \in Types : typeMap[u] # NoDI => typeMap'[u] = typeMap[u]
    BY <1>1, RecordFacts, DiAssumption
  <2>3. /\ f \in Frame /\ f.type = Top.type /\ f.at = "merge" /\ f.di = Top.di
        /\ f.i = 1 /\ f.j = 1
    BY <2>2 DEF Frame
  <2> HIDE DEF f
  <2>4. InRange(f)
    BY <2>2, <2>3, IrFacts, DiFacts DEF InRange
  <2>5. /\ stack' \in Seq(Frame) /\ Len(stack') = Len(stack) /\ stack'[Len(stack)] = f
        /\ \A n \in 1 .. Len(stack) - 1 : stack'[n] = stack[n]
    BY <2>1, <2>2, <2>3, SetTopFacts DEF IInv
  <2>6. /\ Len(stack) \in Nat \ {0} /\ Top = stack[Len(stack)]
        /\ \A n \in 1 .. Len(stack) : stack[n] \in Frame /\ InRange(stack[n])
    BY <2>2, TopFacts DEF IInv
  <2>7. ASSUME NEW n \in 1 .. Len(stack), n # Len(stack)
        PROVE  /\ stack'[n] = stack[n] /\ stack[n].at # "base" /\ stack[n].type \in Types
               /\ typeMap[stack[n].type] # NoDI /\ stack[n].type # Top.type
               /\ typeMap'[stack[n].type] = typeMap[stack[n].type]
               /\ stack[n].at = "merge" => /\ typeMap[stack[n].type] = stack[n].di
                                           /\ Di[stack[n].di].tag = "structure"
    <3>1. stack'[n] = stack[n]
      BY <2>5, <2>6, <2>7
    <3>2. /\ stack[n].at # "base" /\ typeMap[stack[n].type] # NoDI
          /\ stack[n].at = "merge" => /\ typeMap[stack[n].type] = stack[n].di
                                      /\ Di[stack[n].di].tag = "structure"
      BY <2>7 DEF IInv, StackShape
    <3> QED  BY <2>2, <2>6, <3>1, <3>2 DEF Frame
  <2>8. TypeOK'
    <3>1. DOMAIN stack' = 1 .. Len(stack)
      BY <2>5, LenProperties
    <3>2. \A n \in DOMAIN stack' : InRange(stack'[n])
      BY <2>4, <2>5, <2>6, <2>7, <3>1
    <3> QED  BY <2>1, <2>2, <2>5, <3>2 DEF IInv, TypeOK, InRange
  <2>9. StackShape'
    <3>1. ASSUME NEW n \in 1 .. Len(stack)
          PROVE  /\ stack'[n].at = "base" => n = Len(stack)
                 /\ stack'[n].at # "base" => typeMap'[stack'[n].type] # NoDI
                 /\ stack'[n].at = "merge" => /\ typeMap'[stack'[n].type] = stack'[n].di
                                              /\ Di[stack'[n].di].tag = "structure"
      BY <2>2, <2>3, <2>5, <2>7
    <3>2. ASSUME NEW n \in 1 .. Len(stack), NEW m \in 1 .. Len(stack),
                 stack'[n].type = stack'[m].type
          PROVE  n = m
      <4>1. CASE n = Len(stack) \/ m = Len(stack)
        BY <2>3, <2>5, <2>7, <3>2, <4>1
      <4>2. CASE n # Len(stack) /\ m # Len(stack)
        BY <2>7, <3>2, <4>2 DEF IInv, StackShape
      <4> QED  BY <4>1, <4>2
    <3> QED  BY <2>5, <3>1, <3>2 DEF StackShape
  <2>10. PassedApart'
    <3> SUFFICES ASSUME NEW n \in 1 .. Len(stack), stack'[n].at = "merge",
                        NEW k \in DOMAIN Ir[stack'[n].type].elements,
                        NEW m \in DOMAIN Di[stack'[n].di].elements,
                        k >= stack'[n].i, m < stack'[n].j
                 PROVE  ~Together(stack'[n].type, stack'[n].di, k, m)
      BY <2>5 DEF PassedApart, Together, IsDerived
    <3>1. CASE n = Len(stack)
      <4>1. m \in 1 .. Len(Di[Top.di].elements) /\ m < 1
        BY <2>2, <2>3, <2>5, <3>1, DiFacts
      <4> QED  BY <4>1
    <3>2. CASE n # Len(stack)
      BY <2>2, <2>7, <3>2 DEF IInv, Walked, PassedApart
    <3> QED  BY <3>1, <3>2
  <2>11. \A u \in Recorded : \A k \in DOMAIN Ir[u].elements : Ahead(u, k) => Ahead(u, k)'
    BY <2>2, <2>5, <2>6, <2>7 DEF Ahead
  <2>12. \A u, e : Covered(u, e) => Covered(u, e)'
    BY <1>1, RecordFacts DEF Covered
  <2>13. ASSUME NEW u \in Recorded' \ Recorded PROVE TypeCovered(u, typeMap[u])'
    <3>1. u = Top.type /\ typeMap'[u] = Top.di
      BY <1>1, <2>2, RecordFacts
    <3>2. Di[typeMap'[u]].tag # "pointer"
      BY <2>2, <3>1
    <3>3. ASSUME NEW k \in DOMAIN Ir[u].elements PROVE Ahead(u, k)'
      <4>1. k \in 1 .. Len(Ir[u].elements) /\ Len(Ir[u].elements) \in Nat
        BY <2>2, <3>1, IrFacts
      <4>2. Len(stack) \in 1 .. Len(stack') /\ 1 <= k
        BY <2>5, <2>6, <4>1
      <4> QED  BY <2>3, <2>5, <3>1, <4>2 DEF Ahead
    <3> QED  BY <3>2, <3>3 DEF TypeCovered
  <2>14. Walked'
    BY <2>1, <2>2, <2>10, <2>11, <2>12, <2>13, WalkedStep
  <2> QED  BY <2>8, <2>9, <2>14 DEF IInv
<1> QED  BY <1>2, <1>3

LEMMA ProbeOtherStep ==
  ASSUME IInv, ProbeOther
  PROVE  IInv'
<1>1. Record(Tags \ {"pointer", "structure"}) /\ Return /\ UNCHANGED crash
  BY DEF ProbeOther
<1>2. \A u \in Recorded' \ Recorded : TypeCovered(u, typeMap[u])'
  <2>1. \A u \in Recorded' \ Recorded : Di[typeMap'[u]].tag \notin {"pointer", "structure"}
    BY <1>1, RecordFacts
  <2> QED  BY <2>1 DEF TypeCovered
<1>3. /\ stack # <<>> /\ crash = "none" /\ Top.at = "base" /\ UNCHANGED <<locals, next>>
      /\ typeMap' \in [Types -> DITypes \cup {NoDI}]
      /\ \A u \in Types : typeMap[u] # NoDI => typeMap'[u] = typeMap[u]
      /\ \A t, d : Covered(t, d) => Done(t, d)'
  BY <1>1, RecordFacts
<1> QED  BY <1>1, <1>2, <1>3, ReturnStep
-----------------------------------------------------------------------------
LEMMA GetBaseTypeStep ==
  ASSUME IInv, GetBaseType
  PROVE  IInv'
<1> DEFINE f == [Top EXCEPT !.di = Di[Top.di].base]
<1>1. /\ stack # <<>> /\ Top.at = "base" /\ SetTop(f) /\ UNCHANGED <<locals, next, typeMap, crash>>
      /\ Top.di # NoDI /\ Di[Top.di].tag \in Stripped
  BY DEF GetBaseType, AtTop, Strippable
<1>2. Top \in Frame /\ Top.di \in DITypes
  BY <1>1, TopFacts DEF IInv, Frame
<1>3. /\ f \in Frame /\ f.type = Top.type /\ f.at = "base" /\ f.di = Di[Top.di].base
  BY <1>1, <1>2, DiFacts DEF Frame
<1>4. f.di \in NoBase <=> Top.di \in NoBase
  BY <1>1, <1>2, <1>3, VoidAssumption, DiAssumption DEF NoBase
<1> HIDE DEF f
<1>5. InRange(f)
  BY <1>3 DEF InRange
<1> QED  BY <1>1, <1>3, <1>4, <1>5, TopStep

LEMMA ReturnSteps ==
  ASSUME IInv, ProbeKnown \/ ReturnFromPointer \/ EndLoop
  PROVE  IInv'
<1>1. /\ stack # <<>> /\ crash = "none" /\ Return /\ UNCHANGED <<locals, next, typeMap, crash>>
      /\ typeMap \in [Types -> DITypes \cup {NoDI}]
  BY DEF ProbeKnown, ReturnFromPointer, EndLoop, AtTop, IInv, TypeOK
<1>2. \A t, d : Covered(t, d) => Done(t, d)
  <2>1. CASE ProbeKnown
    <3>1. Top.type \in Types
      BY <1>1, TopFacts DEF IInv, Frame
    <3>2. Top.di = NoDI \/ Top.type \in Recorded
      BY <2>1, <3>1 DEF ProbeKnown, Seen, Recorded
    <3> QED  BY <3>2 DEF Covered, Done, Pending, NoBase
  <2>2. CASE ReturnFromPointer \/ EndLoop
    <3>1. Top.at # "base"
      BY <2>2 DEF ReturnFromPointer, EndLoop, AtTop
    <3> QED  BY <3>1 DEF Covered, Pending
  <2> QED  BY <2>1, <2>2
<1>3. \A t, d : Covered(t, d) => Done(t, d)'
  BY <1>1, <1>2 DEF Done, Recorded
<1>4. ASSUME Top.at = "merge",
             NEW k \in DOMAIN Elements, NEW m \in DOMAIN Members, k >= Top.i
      PROVE  ~Together(Top.type, Top.di, k, m)
  <2>1. AtTop("merge") /\ ~InLoop
    BY <1>4 DEF ProbeKnown, ReturnFromPointer, EndLoop, AtTop
  <2>2. /\ k \in 1 .. Len(Elements) /\ m \in 1 .. Len(Members)
        /\ Len(Elements) \in Nat /\ Len(Members) \in Nat
        /\ Top.i \in 1 .. Len(Elements) + 1 /\ Top.j \in 1 .. Len(Members) + 1
    BY <2>1, LoopFacts
  <2>3. m < Top.j
    BY <1>4, <2>1, <2>2 DEF InLoop
  <2> QED  BY <1>4, <2>1, <2>3, LoopFacts
<1>5. Recorded' = Recorded
  BY <1>1 DEF Recorded
<1> QED  BY <1>1, <1>3, <1>4, <1>5, ReturnStep DEF Elements, Members

LEMMA RunOnDbgDeclareInstStep ==
  ASSUME IInv, RunOnDbgDeclareInst
  PROVE  IInv'
<1> DEFINE v == locals[next]
<1>1. /\ crash = "none" /\ stack = <<>> /\ next <= Len(locals) /\ next' = next + 1
      /\ stack' = IF v.expression THEN stack ELSE <<Call(v.type, v.di)>>
      /\ UNCHANGED <<locals, typeMap, crash>>
  BY DEF RunOnDbgDeclareInst
<1>2. /\ locals \in Seq(Variables) /\ Len(locals) \in Nat /\ DOMAIN locals = 1 .. Len(locals)
      /\ next \in 1 .. Len(locals)
  BY <1>1, OrdersAssumption, LenProperties DEF IInv, TypeOK
<1>3. v.type \in Types /\ v.di \in DITypes
  BY <1>2, OrdersAssumption, ElementOfSeq
<1> HIDE DEF v
<1>4. Call(v.type, v.di) \in Frame /\ Call(v.type, v.di).at = "base" /\ InRange(Call(v.type, v.di))
  BY <1>3 DEF Call, Frame, InRange
<1>5. \A n \in 1 .. Len(stack) : FALSE
  BY <1>1, EmptySeq
<1>6. /\ stack' \in Seq(Frame) /\ Len(stack') \in {0, 1}
      /\ \A n \in 1 .. Len(stack') :
           n = 1 /\ Len(stack') = 1 /\ stack'[n] = Call(v.type, v.di)
  <2>1. CASE v.expression
    BY <1>1, <2>1, EmptySeq
  <2>2. CASE ~v.expression
    <3>1. stack' = <<Call(v.type, v.di)>>
      BY <1>1, <2>2
    <3> HIDE <1>1
    <3> QED  BY <1>4, <3>1
  <2> QED  BY <2>1, <2>2
<1>7. TypeOK'
  <2>1. DOMAIN stack' = 1 .. Len(stack')
    BY <1>6, LenProperties
  <2>2. \A n \in DOMAIN stack' : InRange(stack'[n])
    BY <1>4, <1>6, <2>1
  <2>3. next' \in 1 .. Len(locals') + 1
    BY <1>1, <1>2
  <2> QED  BY <1>1, <1>6, <2>2, <2>3 DEF IInv, TypeOK, InRange
<1>8. StackShape'
  BY <1>4, <1>6 DEF StackShape
<1>9. Walked'
  <2>1. \A t, d : Covered(t, d) => Done(t, d)
    BY <1>1 DEF Covered, Pending
  <2>2. \A t, d : Covered(t, d) => Covered(t, d)'
    BY <1>1, <2>1 DEF Covered, Done, Recorded
  <2>3. PassedApart'
    BY <1>4, <1>6 DEF PassedApart
  <2>4. \A t, k : ~Ahead(t, k)
    BY <1>5 DEF Ahead
  <2>5. LocalsCovered /\ \A t \in Recorded : TypeCovered(t, typeMap[t])
    BY <1>1 DEF IInv, Walked
  <2>6. ASSUME NEW n \in DOMAIN locals, n < next + 1
        PROVE  (locals[n].expression \/ Covered(locals[n].type, locals[n].di))'
    <3>1. CASE n = next
      <4>1. ASSUME NEW t, NEW d, t = v.type, d = v.di, ~v.expression PROVE Covered(t, d)'
        <5>1. stack' = <<Call(t, d)>>
          BY <1>1, <4>1
        <5>2. stack' # <<>> /\ Top' = Call(t, d)
          BY <5>1 DEF Top
        <5> QED  BY <5>2 DEF Covered, Pending, Call
      <4>2. PICK t, d : t = v.type /\ d = v.di
        OBVIOUS
      <4>3. v.expression \/ Covered(t, d)'
        BY <4>1, <4>2
      <4>4. t = locals'[n].type /\ d = locals'[n].di /\ v = locals'[n]
        BY <1>1, <3>1, <4>2 DEF v
      <4> QED  BY <4>3, <4>4 DEF Covered, Done, Pending
    <3>2. CASE n # next
      <4>1. n < next
        BY <1>2, <2>6, <3>2
      <4>2. locals[n].expression \/ Covered(locals[n].type, locals[n].di)
        BY <2>5, <4>1 DEF LocalsCovered
      <4>3. PICK t, d : t = locals[n].type /\ d = locals[n].di
        OBVIOUS
      <4>4. locals[n].expression \/ Covered(t, d)'
        BY <2>2, <4>2, <4>3
      <4> QED  BY <1>1, <4>3, <4>4 DEF Covered, Done, Pending
    <3> QED  BY <3>1, <3>2
  <2>7. LocalsCovered'
    BY <1>1, <2>6 DEF LocalsCovered
  <2>8. ASSUME NEW t \in Recorded' PROVE TypeCovered(t, typeMap[t])'
    BY <1>1, <2>2, <2>4, <2>5 DEF TypeCovered, Recorded, Together, IsDerived
  <2> QED  BY <2>3, <2>7, <2>8 DEF Walked
<1> QED  BY <1>7, <1>8, <1>9 DEF IInv

LEMMA NextIInv == IInv /\ [Next]_vars => IInv'
<1> SUFFICES ASSUME IInv, [Next]_vars PROVE IInv'
  OBVIOUS
<1>1. CASE RunOnDbgDeclareInst
  BY <1>1, RunOnDbgDeclareInstStep
<1>2. CASE GetBaseType
  BY <1>2, GetBaseTypeStep
<1>3. CASE ProbeKnown \/ ReturnFromPointer \/ EndLoop
  BY <1>3, ReturnSteps
<1>4. CASE ProbePointer
  BY <1>4, ProbePointerStep
<1>5. CASE ProbeStruct
  BY <1>5, ProbeStructStep
<1>6. CASE ProbeOther
  BY <1>6, ProbeOtherStep
<1>7. CASE SkipForeign \/ SkipElement \/ SkipMember
  BY <1>7, SkipStep
<1>8. CASE Match
  BY <1>8, MatchStep
<1>9. CASE RunOnInstruction \/ UNCHANGED vars
  <2>1. UNCHANGED walk /\ (UNCHANGED crash \/ crash' \in {"composite", "member"})
    BY <1>9 DEF RunOnInstruction, GetFieldName, Answer, vars
  <2>2. TypeOK'
    BY <2>1 DEF IInv, TypeOK, InRange, walk
  <2>3. StackShape'
    BY <2>1 DEF IInv, StackShape, walk
  <2>4. CASE crash' # "none"
    BY <2>2, <2>3, <2>4 DEF IInv, Walked
  <2>5. CASE crash' = "none"
    <3>1. UNCHANGED <<locals, next, typeMap, stack>> /\ crash = "none"
      BY <2>1, <2>5 DEF walk
    <3>2. PassedApart'
      <4>1. PassedApart
        BY <3>1 DEF IInv, Walked
      <4>2. stack' = stack
        BY <3>1
      <4>3. ASSUME NEW n \in 1 .. Len(stack'), stack'[n].at = "merge",
                   NEW k \in DOMAIN Ir[stack'[n].type].elements,
                   NEW m \in DOMAIN Di[stack'[n].di].elements,
                   k >= stack'[n].i, m < stack'[n].j
            PROVE  ~Together(stack'[n].type, stack'[n].di, k, m)
        BY <4>1, <4>2, <4>3 DEF PassedApart
      <4> QED  BY <4>3 DEF PassedApart, Together, IsDerived
    <3>3. \A t, d : Covered(t, d) => Covered(t, d)'
      BY <3>1 DEF Covered, Done, Pending, Recorded, Top
    <3>4. \A t, k : Ahead(t, k) => Ahead(t, k)'
      BY <3>1 DEF Ahead
    <3>5. Recorded' = Recorded
      BY <3>1 DEF Recorded
    <3>6. Walked'
      BY <3>1, <3>2, <3>3, <3>4, <3>5, WalkedStep
    <3> QED  BY <2>2, <2>3, <3>6 DEF IInv
  <2> QED  BY <2>4, <2>5
<1> QED  BY <1>1, <1>2, <1>3, <1>4, <1>5, <1>6, <1>7, <1>8, <1>9 DEF Next, Probe

(***************************************************************************)
(* The inductive invariant: the shape of the stack and what the calls on   *)
(* it still have to take care of.                                          *)
(***************************************************************************)
THEOREM Invariance == Spec => []IInv
<1> QED  BY InitIInv, NextIInv, PTL DEF Spec

(* The variables keep their types, and the loops stay in their lists. *)
THEOREM TypeCorrect == Spec => []TypeOK
<1>1. IInv => TypeOK
  BY DEF IInv
<1> QED  BY <1>1, Invariance, PTL

(***************************************************************************)
(* probe_type() calls itself at most once for each type and once more,     *)
(* whatever the types and their debug types are: calls that are not on top *)
(* are for types of their own.                                             *)
(***************************************************************************)
THEOREM DepthNeverExceeded == Spec => []DepthBounded
<1>1. ASSUME IInv PROVE DepthBounded
  <2> DEFINE l == Len(stack) - 1
             f == [n \in 1 .. l |-> stack[n].type]
  <2>1. Cardinality(Types) \in Nat
    BY TypesAssumption, FS_CardinalityType
  <2>2. CASE stack = <<>>
    BY <2>1, <2>2, EmptySeq DEF DepthBounded
  <2>3. CASE stack # <<>>
    <3>1. Len(stack) \in Nat \ {0} /\ \A n \in 1 .. Len(stack) : stack[n] \in Frame
      BY <1>1, <2>3, TopFacts DEF IInv
    <3>2. l \in Nat /\ \A n \in 1 .. l : n \in 1 .. Len(stack) /\ n # Len(stack)
      BY <3>1
    <3>3. f \in [1 .. l -> Types]
      BY <3>1, <3>2 DEF Frame
    <3>4. \A n, m \in 1 .. l : f[n] = f[m] => n = m
      BY <1>1, <3>2 DEF IInv, StackShape
    <3> HIDE DEF f, l
    <3>5. f \in Injection(1 .. l, Types)
      BY <3>3, <3>4, Fun_IsInj
    <3>6. Cardinality(1 .. l) <= Cardinality(Types)
      BY <3>5, TypesAssumption, FS_Injection
    <3>7. Cardinality(1 .. l) = IF 1 > l THEN 0 ELSE l - 1 + 1
      BY <3>2, FS_Interval
    <3>8. l <= Cardinality(Types)
      BY <2>1, <3>2, <3>6, <3>7
    <3> QED  BY <2>1, <3>1, <3>8 DEF DepthBounded, l
  <2> QED  BY <2>2, <2>3
<1> QED  BY <1>1, Invariance, PTL

(***************************************************************************)
(* When the walk is over it has missed no type that it was led to, however *)
(* types that were known by then have cut it short.                        *)
(***************************************************************************)
THEOREM NothingMissed == Spec => []WalkComplete
<1>1. ASSUME IInv, Parsed PROVE WalkComplete
  <2>1. stack = <<>> /\ crash = "none" /\ next > Len(locals)
    BY <1>1 DEF Parsed
  <2>2. LocalsCovered /\ \A t \in Recorded : TypeCovered(t, typeMap[t])
    BY <1>1, <2>1 DEF IInv, Walked
  <2>3. \A t, d : Covered(t, d) => Done(t, d)
    BY <2>1 DEF Covered, Pending
  <2>4. \A t, k : ~Ahead(t, k)
    BY <2>1, EmptySeq DEF Ahead
  <2>5. ASSUME NEW n \in DOMAIN locals
        PROVE  locals[n].expression \/ Done(locals[n].type, locals[n].di)
    <3>1. locals \in Seq(Variables) /\ next \in 1 .. Len(locals) + 1
      BY <1>1, OrdersAssumption DEF IInv, TypeOK
    <3>2. n < next
      BY <2>1, <3>1, LenProperties
    <3> QED  BY <2>2, <2>3, <3>2 DEF LocalsCovered
  <2>6. ASSUME NEW t \in Recorded
        PROVE  /\ Di[typeMap[t]].tag = "pointer" => Done(Ir[t].pointee, Di[typeMap[t]].base)
               /\ Di[typeMap[t]].tag = "structure" =>
                    \A k \in DOMAIN Ir[t].elements, m \in DOMAIN Di[typeMap[t]].elements :
                      Together(t, typeMap[t], k, m) =>
                        Done(Ir[t].elements[k].type, Di[typeMap[t]].elements[m])
    BY <2>2, <2>3, <2>4 DEF TypeCovered
  <2> QED  BY <2>5, <2>6 DEF WalkComplete
<1>2. IInv => WalkComplete
  BY <1>1 DEF WalkComplete
<1> QED  BY <1>2, Invariance, PTL
-----------------------------------------------------------------------------
(***************************************************************************)
(* The names.  What the walk compares and records are pairs of R, and who  *)
(* has asked for a name has waited for the walk to be over.                *)
(***************************************************************************)
WithinR(R) ==
  /\ \A n \in 1 .. Len(stack) :
       stack[n].at # "return" => <<stack[n].type, stack[n].di>> \in R
  /\ \A t \in Recorded : <<t, typeMap[t]>> \in R /\ ~Strippable(typeMap[t])

AskedLate == answer.asked => stack = <<>> /\ next > Len(locals)

(* A step that ends the call on top or has it go on in the loop. *)
LEMMA WithinKept ==
  ASSUME NEW R, IInv, WithinR(R), stack # <<>>, UNCHANGED typeMap,
         \/ Return
         \/ \E f \in Frame : SetTop(f) /\ (f.at # "return" => <<f.type, f.di>> \in R)
  PROVE  WithinR(R)'
<1>1. Len(stack) \in Nat \ {0}
  BY TopFacts DEF IInv
<1>2. Recorded' = Recorded
  BY DEF Recorded
<1>3. ASSUME NEW n \in 1 .. Len(stack'), stack'[n].at # "return"
      PROVE  <<stack'[n].type, stack'[n].di>> \in R
  <2>1. CASE Return
    <3>1. Len(stack') = Len(stack) - 1 /\ stack'[n] = stack[n]
      BY <2>1, ReturnFacts DEF IInv
    <3>2. n \in 1 .. Len(stack)
      BY <1>1, <3>1
    <3> QED  BY <1>3, <3>1, <3>2 DEF WithinR
  <2>2. ASSUME NEW f \in Frame, SetTop(f), f.at # "return" => <<f.type, f.di>> \in R
        PROVE  <<stack'[n].type, stack'[n].di>> \in R
    <3>1. /\ Len(stack') = Len(stack) /\ stack'[Len(stack)] = f
          /\ \A l \in 1 .. Len(stack) - 1 : stack'[l] = stack[l]
      BY <2>2, SetTopFacts DEF IInv
    <3>2. n = Len(stack) \/ n \in 1 .. Len(stack) - 1
      BY <1>1, <3>1
    <3> QED  BY <1>3, <2>2, <3>1, <3>2 DEF WithinR
  <2> QED  BY <2>1, <2>2
<1> QED  BY <1>2, <1>3 DEF WithinR

(* A step that calls probe_type() with a pair of R. *)
LEMMA WithinCalled ==
  ASSUME NEW R, IInv, WithinR(R), stack # <<>>,
         NEW f \in Frame, NEW t \in Types, NEW d \in DITypes \cup {NoDI}, CallFrom(f, t, d),
         f.at # "return" => <<f.type, f.di>> \in R, <<t, d>> \in R
  PROVE  \A n \in 1 .. Len(stack') :
           stack'[n].at # "return" => <<stack'[n].type, stack'[n].di>> \in R
<1>1. Len(stack) \in Nat \ {0}
  BY TopFacts DEF IInv
<1>2. /\ Len(stack') = Len(stack) + 1 /\ stack'[Len(stack) + 1] = Call(t, d)
      /\ stack'[Len(stack)] = f /\ \A n \in 1 .. Len(stack) - 1 : stack'[n] = stack[n]
  BY CallFacts DEF IInv
<1>3. ASSUME NEW n \in 1 .. Len(stack'), stack'[n].at # "return"
      PROVE  <<stack'[n].type, stack'[n].di>> \in R
  <2>1. n = Len(stack) + 1 \/ n = Len(stack) \/ n \in 1 .. Len(stack) - 1
    BY <1>1, <1>2
  <2>2. Call(t, d).type = t /\ Call(t, d).di = d
    BY DEF Call
  <2>3. n \in 1 .. Len(stack) - 1 => n \in 1 .. Len(stack)
    BY <1>1
  <2> QED  BY <1>2, <1>3, <2>1, <2>2, <2>3 DEF WithinR
<1> QED  BY <1>3

(* What is added to the map is the pair the call on top is about. *)
LEMMA RecordedWithin ==
  ASSUME NEW R, IInv, WithinR(R), NEW tags, Record(tags)
  PROVE  /\ <<Top.type, Top.di>> \in R /\ ~Strippable(Top.di)
         /\ \A t \in Recorded' : <<t, typeMap'[t]>> \in R /\ ~Strippable(typeMap'[t])
<1>1. <<Top.type, Top.di>> \in R
  <2>1. Len(stack) \in 1 .. Len(stack) /\ Top = stack[Len(stack)]
    BY RecordFacts, TopFacts DEF IInv
  <2>2. Top.at # "return"
    BY RecordFacts
  <2> QED  BY <2>1, <2>2 DEF WithinR
<1>2. ~Strippable(Top.di)
  BY DEF Record
<1>3. ASSUME NEW t \in Recorded' PROVE <<t, typeMap'[t]>> \in R /\ ~Strippable(typeMap'[t])
  <2>1. CASE t \in Recorded
    <3>1. typeMap'[t] = typeMap[t]
      BY <2>1, RecordFacts DEF Recorded
    <3> QED  BY <2>1, <3>1 DEF WithinR
  <2>2. CASE t \notin Recorded
    <3>1. t = Top.type /\ typeMap'[t] = Top.di
      BY <1>3, <2>2, RecordFacts
    <3> QED  BY <1>1, <1>2, <3>1
  <2> QED  BY <2>1, <2>2
<1> QED  BY <1>1, <1>2, <1>3

LEMMA WithinProbe ==
  ASSUME NEW R, Described(R), IInv, WithinR(R), Probe
  PROVE  WithinR(R)'
<1>1. CASE RunOnDbgDeclareInst
  <2> DEFINE v == locals[next]
  <2>1. /\ stack = <<>> /\ next <= Len(locals) /\ UNCHANGED typeMap
        /\ stack' = IF v.expression THEN stack ELSE <<Call(v.type, v.di)>>
    BY <1>1 DEF RunOnDbgDeclareInst
  <2>2. v \in Variables
    <3>1. locals \in Seq(Variables) /\ next \in 1 .. Len(locals)
      BY <2>1, OrdersAssumption, LenProperties DEF IInv, TypeOK
    <3> QED  BY <3>1, ElementOfSeq
  <2> HIDE DEF v
  <2>3. Recorded' = Recorded
    BY <2>1 DEF Recorded
  <2>4. CASE v.expression
    BY <2>1, <2>3, <2>4 DEF WithinR
  <2>5. CASE ~v.expression
    <3>1. <<v.type, v.di>> \in R
      BY <2>2, <2>5 DEF Described
    <3>2. Call(v.type, v.di).type = v.type /\ Call(v.type, v.di).di = v.di
      BY DEF Call
    <3>3. PICK c : c = Call(v.type, v.di)
      OBVIOUS
    <3>4. stack' = <<c>>
      BY <2>1, <2>5, <3>3
    <3>5. \A n \in 1 .. Len(stack') : stack'[n] = c
      BY <3>4
    <3> QED  BY <2>1, <2>3, <3>1, <3>2, <3>3, <3>5 DEF WithinR
  <2> QED  BY <2>4, <2>5
<1>2. CASE GetBaseType
  <2> DEFINE f == [Top EXCEPT !.di = Di[Top.di].base]
  <2>1. /\ stack # <<>> /\ Top.at = "base" /\ SetTop(f) /\ UNCHANGED typeMap
        /\ Strippable(Top.di) /\ Top.di # NoDI
    BY <1>2 DEF GetBaseType, AtTop, Strippable
  <2>2. /\ Top \in Frame /\ Top.di \in DITypes /\ Top = stack[Len(stack)]
        /\ Len(stack) \in 1 .. Len(stack)
    BY <2>1, TopFacts DEF IInv, Frame
  <2>3. f \in Frame /\ f.type = Top.type /\ f.di = Di[Top.di].base
    BY <2>2, DiFacts DEF Frame
  <2>4. <<Top.type, Top.di>> \in R
    BY <2>1, <2>2 DEF WithinR
  <2>5. LeadsTo(Top.type, Top.di) = {<<Top.type, Di[Top.di].base>>}
    BY <2>1 DEF LeadsTo, Strippable
  <2>6. <<f.type, f.di>> \in R
    BY <2>3, <2>4, <2>5 DEF Described
  <2> HIDE DEF f
  <2> QED  BY <2>1, <2>3, <2>6, WithinKept
<1>3. CASE ProbeKnown \/ ReturnFromPointer \/ EndLoop
  <2>1. stack # <<>> /\ Return /\ UNCHANGED typeMap
    BY <1>3 DEF ProbeKnown, ReturnFromPointer, EndLoop, AtTop
  <2> QED  BY <2>1, WithinKept
<1>4. CASE SkipForeign \/ SkipElement \/ SkipMember
  <2>1. AtTop("merge") /\ UNCHANGED typeMap /\ stack # <<>> /\ Top.at = "merge"
    BY <1>4 DEF SkipForeign, SkipElement, SkipMember, AtTop
  <2>2. PICK f \in Frame : SetTop(f) /\ f.type = Top.type /\ f.di = Top.di
    <3>1. Top \in Frame
      BY <2>1, LoopFacts
    <3>2. /\ [Top EXCEPT !.i = @ + 1] \in Frame /\ [Top EXCEPT !.j = @ + 1] \in Frame
          /\ [Top EXCEPT !.i = @ + 1].type = Top.type /\ [Top EXCEPT !.i = @ + 1].di = Top.di
          /\ [Top EXCEPT !.j = @ + 1].type = Top.type /\ [Top EXCEPT !.j = @ + 1].di = Top.di
      BY <3>1 DEF Frame
    <3> QED  BY <1>4, <3>2 DEF SkipForeign, SkipElement, SkipMember
  <2>3. <<Top.type, Top.di>> \in R
    BY <2>1, LoopFacts DEF WithinR
  <2> QED  BY <2>1, <2>2, <2>3, WithinKept
<1>5. CASE Match
  <2> DEFINE f == [Top EXCEPT !.i = @ + 1, !.j = @ + 1]
             t == Elements[Top.i].type
             d == Members[Top.j]
  <2>1. /\ AtTop("merge") /\ InLoop /\ IsDerived(Members[Top.j]) /\ UNCHANGED typeMap
        /\ ElementOffset = Member.offset /\ CallFrom(f, t, d) /\ Top.at = "merge"
    BY <1>5 DEF Match, AtTop
  <2>2. Top \in Frame /\ Top.i \in DOMAIN Elements /\ Top.j \in DOMAIN Members
    BY <2>1, LoopFacts DEF InLoop
  <2>3. f \in Frame /\ f.type = Top.type /\ f.di = Top.di
    <3>1. Top.i + 1 \in Nat /\ Top.j + 1 \in Nat
      BY <2>1, <2>2, LoopFacts
    <3> QED  BY <2>2, <3>1 DEF Frame
  <2>4. t \in Types /\ d \in DITypes
    BY <2>1, <2>2, LoopFacts
  <2>5. <<Top.type, Top.di>> \in R
    BY <2>1, LoopFacts DEF WithinR
  <2>6. /\ Top.di # NoDI /\ Di[Top.di].tag = "structure" /\ ~Strippable(Top.di)
    BY <2>1, LoopFacts, DiAssumption DEF Strippable, Stripped
  <2>7. <<t, d>> \in LeadsTo(Top.type, Top.di)
    <3> DEFINE es == Ir[Top.type].elements
               ms == Di[Top.di].elements
               Q(q) == /\ Di[Top.di].tag = "structure"
                       /\ IsDerived(ms[q[2]])
                       /\ es[q[1]].offset = Di[ms[q[2]]].offset
               S == {q \in (DOMAIN es) \X (DOMAIN ms) : Q(q)}
    <3>1. LeadsTo(Top.type, Top.di) = {<<es[p[1]].type, ms[p[2]]>> : p \in S}
      BY <2>6 DEF LeadsTo, Strippable
    <3>2. PICK p : p = <<Top.i, Top.j>>
      OBVIOUS
    <3>3. p[1] = Top.i /\ p[2] = Top.j
      BY <3>2
    <3>4. Q(p)
      BY <2>1, <2>6, <3>3 DEF ElementOffset, Member, Elements, Members
    <3>5. p \in (DOMAIN es) \X (DOMAIN ms)
      BY <2>2, <3>2 DEF Elements, Members
    <3>6. t = es[p[1]].type /\ d = ms[p[2]]
      BY <3>3 DEF Elements, Members
    <3> HIDE DEF es, ms, Q, t, d
    <3>7. p \in S
      BY <3>4, <3>5
    <3> HIDE DEF S
    <3> QED  BY <3>1, <3>6, <3>7
  <2>8. <<t, d>> \in R
    BY <2>5, <2>7 DEF Described
  <2>9. Recorded' = Recorded
    BY <2>1 DEF Recorded
  <2> HIDE DEF f, t, d
  <2>10. \A n \in 1 .. Len(stack') :
           stack'[n].at # "return" => <<stack'[n].type, stack'[n].di>> \in R
    BY <2>1, <2>3, <2>4, <2>5, <2>8, LoopFacts, WithinCalled
  <2> QED  BY <2>1, <2>9, <2>10 DEF WithinR
<1>6. CASE ProbePointer
  <2> DEFINE f == [Top EXCEPT !.at = "return"]
  <2>1. Record({"pointer"})
    BY <1>6 DEF ProbePointer
  <2>2. /\ stack # <<>> /\ Top \in Frame /\ Top.type \in Types /\ Top.di \in DITypes
        /\ Di[Top.di].tag = "pointer"
    BY <2>1, RecordFacts
  <2>3. /\ <<Top.type, Top.di>> \in R /\ ~Strippable(Top.di)
        /\ \A t \in Recorded' : <<t, typeMap'[t]>> \in R /\ ~Strippable(typeMap'[t])
    BY <2>1, RecordedWithin
  <2>4. CASE UNCHANGED stack
    BY <2>3, <2>4 DEF WithinR
  <2>5. CASE CallFrom(f, Ir[Top.type].pointee, Di[Top.di].base)
    <3>1. f \in Frame /\ f.at = "return"
      BY <2>2 DEF Frame
    <3>2. Ir[Top.type].pointee \in Types /\ Di[Top.di].base \in DITypes \cup {NoDI}
      BY <2>2, IrFacts, DiFacts
    <3>3. LeadsTo(Top.type, Top.di) = {<<Ir[Top.type].pointee, Di[Top.di].base>>}
      BY <2>2, <2>3, DiAssumption DEF LeadsTo, Strippable
    <3>4. <<Ir[Top.type].pointee, Di[Top.di].base>> \in R
      BY <2>3, <3>3 DEF Described
    <3> HIDE DEF f
    <3>5. \A n \in 1 .. Len(stack') :
            stack'[n].at # "return" => <<stack'[n].type, stack'[n].di>> \in R
      BY <2>2, <2>5, <3>1, <3>2, <3>4, WithinCalled
    <3> QED  BY <2>3, <3>5 DEF WithinR
  <2> QED  BY <1>6, <2>4, <2>5 DEF ProbePointer
<1>7. CASE ProbeStruct \/ ProbeOther
  <2>1. PICK tags : Record(tags)
    BY <1>7 DEF ProbeStruct, ProbeOther
  <2>2. /\ stack # <<>> /\ Top \in Frame
        /\ <<Top.type, Top.di>> \in R
        /\ \A t \in Recorded' : <<t, typeMap'[t]>> \in R /\ ~Strippable(typeMap'[t])
    BY <2>1, RecordFacts, RecordedWithin
  <2>3. Len(stack) \in Nat \ {0}
    BY <2>2, TopFacts DEF IInv
  <2>4. ASSUME NEW n \in 1 .. Len(stack'), stack'[n].at # "return"
        PROVE  <<stack'[n].type, stack'[n].di>> \in R
    <3>1. CASE UNCHANGED stack
      BY <2>4, <3>1 DEF WithinR
    <3>2. CASE Return
      <4>1. Len(stack') = Len(stack) - 1 /\ stack'[n] = stack[n]
        BY <2>2, <3>2, ReturnFacts DEF IInv
      <4>2. n \in 1 .. Len(stack)
        BY <2>3, <4>1
      <4> QED  BY <2>4, <4>1, <4>2 DEF WithinR
    <3>3. CASE SetTop([Top EXCEPT !.at = "merge", !.i = 1, !.j = 1])
      <4> DEFINE f == [Top EXCEPT !.at = "merge", !.i = 1, !.j = 1]
      <4>1. f \in Frame /\ f.type = Top.type /\ f.di = Top.di /\ SetTop(f)
        BY <2>2, <3>3 DEF Frame
      <4> HIDE DEF f
      <4>2. /\ Len(stack') = Len(stack) /\ stack'[Len(stack)] = f
            /\ \A l \in 1 .. Len(stack) - 1 : stack'[l] = stack[l]
        BY <2>2, <4>1, SetTopFacts DEF IInv
      <4>3. n = Len(stack) \/ n \in 1 .. Len(stack) - 1
        BY <2>3, <4>2
      <4>4. n \in 1 .. Len(stack) - 1 => n \in 1 .. Len(stack)
        BY <2>3
      <4> QED  BY <2>2, <2>4, <4>1, <4>2, <4>3, <4>4 DEF WithinR
    <3> QED  BY <1>7, <3>1, <3>2, <3>3 DEF ProbeStruct, ProbeOther
  <2> QED  BY <2>2, <2>4 DEF WithinR
<1> QED  BY <1>1, <1>2, <1>3, <1>4, <1>5, <1>6, <1>7 DEF Probe

LEMMA MembersCounted ==
  ASSUME NEW d \in DITypes
  PROVE  \A n \in DOMAIN Di[d].elements : n \in Nat /\ 1 <= n
BY DiFacts

(* The least element of a set is the one that no smaller one is in. *)
LEMMA LeastIs ==
  ASSUME NEW S, NEW m \in S, \A n \in S : n \in Nat /\ 1 <= n, S \cap 1 .. m = {m}
  PROVE  S # {} /\ (CHOOSE s \in S : \A u \in S : s <= u) = m
<1>1. \A u \in S : m <= u
  <2>1. ASSUME NEW u \in S, u < m PROVE FALSE
    <3>1. u \in 1 .. m /\ u # m
      BY <2>1
    <3> QED  BY <2>1, <3>1
  <2> QED  BY <2>1
<1>2. \A s \in S : (\A u \in S : s <= u) <=> s = m
  BY <1>1
<1> QED  BY <1>2

(* The answer about a struct whose debug type is its own. *)
LEMMA AnswerRight ==
  ASSUME NEW R, Described(R), TypeOK, WithinR(R), RunOnInstruction
  PROVE  NamesRight'
<1> SUFFICES ASSUME answer'.asked, ~Wrapped(answer'.type)
             PROVE  /\ crash' = "none"
                    /\ answer'.name = IF answer'.index = 0 \/ answer'.type \notin Recorded' THEN ""
                                      ELSE Fields[answer'.type][answer'.index]
  BY DEF NamesRight, Wrapped
<1>1. PICK t \in {u \in Types : Ir[u].kind = "struct"} :
        \E k \in {0} \cup {l \in DOMAIN Ir[t].elements : Fields[t][l] # ""} : GetFieldName(t, k)
  BY DEF RunOnInstruction
<1>2. PICK k \in {0} \cup {l \in DOMAIN Ir[t].elements : Fields[t][l] # ""} : GetFieldName(t, k)
  BY <1>1
<1>3. Recorded' = Recorded /\ crash = "none" /\ t \in Types /\ Ir[t].kind = "struct"
  BY <1>1, <1>2 DEF GetFieldName, Parsed, Recorded, walk
<1>4. CASE k = 0 \/ typeMap[t] = NoDI
  <2>1. answer' = [asked |-> TRUE, type |-> t, index |-> k, name |-> ""] /\ crash' = crash
    BY <1>2, <1>4 DEF GetFieldName, Answer
  <2>2. answer'.type = t /\ answer'.index = k /\ answer'.name = ""
    BY <2>1
  <2> QED  BY <1>3, <1>4, <2>1, <2>2 DEF Recorded
<1>5. CASE k # 0 /\ typeMap[t] # NoDI
  <2> DEFINE d == typeMap[t]
             offset == Ir[t].elements[k].offset
             first == CHOOSE s \in Stops(d, offset) : \A u \in Stops(d, offset) : s <= u
  <2>1. answer'.type = t /\ answer'.index = k
    <3>1. PICK name : answer' = [asked |-> TRUE, type |-> t, index |-> k, name |-> name]
      BY <1>2 DEF GetFieldName, Answer
    <3> QED  BY <3>1
  <2>2. t \in Recorded /\ k \in DOMAIN Ir[t].elements /\ Fields[t][k] # ""
    BY <1>3, <1>5 DEF Recorded
  <2>3. d = Own[t] /\ Named(t)
    <3>1. PICK p : p = <<t, d>>
      OBVIOUS
    <3>2. p \in R /\ p[1] = t /\ p[2] = d /\ d # NoDI /\ ~Strippable(d)
      BY <1>5, <2>2, <3>1 DEF WithinR
    <3> QED  BY <1>3, <2>1, <3>2 DEF Described, Strippable
  <2>4. PICK m \in DOMAIN Di[d].elements :
          /\ IsDerived(Di[d].elements[m]) /\ Di[Di[d].elements[m]].name = Fields[t][k]
          /\ Stops(d, offset) \cap 1 .. m = {m}
    BY <2>2, <2>3 DEF Named
  <2>5. Di[d].tag \in Composite
    BY <2>3 DEF Named
  <2> HIDE DEF d, offset
  <2>6. Stops(d, offset) # {} /\ first = m
    <3>1. d \in DITypes
      BY <1>3, <1>5 DEF d, TypeOK
    <3>2. \A n \in DOMAIN Di[d].elements : n \in Nat /\ 1 <= n
      BY <3>1, MembersCounted
    <3>3. Stops(d, offset) \subseteq DOMAIN Di[d].elements
      BY DEF Stops
    <3> HIDE DEF first
    <3>4. first = CHOOSE s \in Stops(d, offset) : \A u \in Stops(d, offset) : s <= u
      BY DEF first
    <3> QED  BY <2>4, <3>2, <3>3, <3>4, LeastIs
  <2> HIDE DEF first
  <2>7. answer' = [asked |-> TRUE, type |-> t, index |-> k, name |-> Fields[t][k]] /\ crash' = crash
    BY <1>2, <1>5, <2>4, <2>5, <2>6 DEF GetFieldName, Answer, first, d, offset
  <2>8. answer'.type = t /\ answer'.index = k /\ answer'.name = Fields[t][k]
    BY <2>7
  <2> QED  BY <1>3, <1>5, <2>2, <2>7, <2>8
<1> QED  BY <1>4, <1>5

(***************************************************************************)
(* A struct that is nowhere volatile nor a base class gets the names its   *)
(* fields have, and asking for them does not end the pass.  It is enough   *)
(* that the debug types the variables lead to describe their structs, and  *)
(* no method nor static member comes before a field at its offset.         *)
(***************************************************************************)
THEOREM NamesAlwaysRight ==
  ASSUME NEW R, Described(R)
  PROVE  Spec => []NamesRight
<1> DEFINE Inv == IInv /\ WithinR(R) /\ AskedLate /\ NamesRight
<1>1. Init => Inv
  <2> SUFFICES ASSUME Init PROVE WithinR(R) /\ AskedLate /\ NamesRight
    BY InitIInv
  <2>1. WithinR(R)
    BY EmptySeq DEF Init, WithinR, Recorded
  <2>2. ~answer.asked
    BY DEF Init, NoAnswer
  <2> QED  BY <2>1, <2>2 DEF AskedLate, NamesRight
<1>2. Inv /\ [Next]_vars => Inv'
  <2> SUFFICES ASSUME Inv, [Next]_vars PROVE (WithinR(R) /\ AskedLate /\ NamesRight)'
    BY NextIInv
  <2>1. CASE Probe
    <3>1. stack # <<>> \/ next <= Len(locals)
      BY <2>1 DEF Probe, RunOnDbgDeclareInst, GetBaseType, ProbeKnown, ProbePointer, ProbeStruct,
                  ProbeOther, Record, ReturnFromPointer, SkipForeign, SkipElement, SkipMember,
                  Match, EndLoop, AtTop
    <3>2. ~answer.asked
      <4>1. locals \in Seq(Variables) /\ next \in Nat /\ Len(locals) \in Nat
        BY OrdersAssumption, LenProperties DEF IInv, TypeOK
      <4> QED  BY <3>1, <4>1 DEF AskedLate
    <3>3. answer' = answer
      BY <2>1 DEF Probe, RunOnDbgDeclareInst, GetBaseType, ProbeKnown, ProbePointer, ProbeStruct,
                  ProbeOther, Record, ReturnFromPointer, SkipForeign, SkipElement, SkipMember,
                  Match, EndLoop
    <3>4. WithinR(R)'
      BY <2>1, WithinProbe
    <3> QED  BY <3>2, <3>3, <3>4 DEF AskedLate, NamesRight
  <2>2. CASE RunOnInstruction
    <3>1. Parsed /\ UNCHANGED <<locals, next, typeMap, stack>>
      BY <2>2 DEF RunOnInstruction, GetFieldName, walk
    <3>2. WithinR(R)' /\ AskedLate'
      BY <3>1 DEF WithinR, Recorded, AskedLate, Parsed
    <3> QED  BY <2>2, <3>2, AnswerRight DEF IInv
  <2>3. CASE UNCHANGED vars
    BY <2>3 DEF vars, walk, WithinR, Recorded, AskedLate, NamesRight
  <2> QED  BY <2>1, <2>2, <2>3 DEF Next
<1>3. Inv => NamesRight
  OBVIOUS
<1> QED  BY <1>1, <1>2, <1>3, PTL DEF Spec
=============================================================================
