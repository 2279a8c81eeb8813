-------------------------- MODULE DictionaryProofs --------------------------
(***************************************************************************)
(* Proofs about Dictionary, for any keys, values, capacity and hash.       *)
(***************************************************************************)
EXTENDS Dictionary, FiniteSetTheorems, TLAPS

USE CapacityAssumption, HashAssumption

(* The home of a key is a slot. *)
LEMMA HomeSlot == \A k \in Keys : Home(k) \in Slots
<1>1. \A n \in Nat : n % Capacity \in 0 .. Capacity - 1
  OBVIOUS
<1> QED  BY <1>1 DEF Home, Slots

(* The slot after the last one is the first one. *)
LEMMA SuccSlot ==
  ASSUME NEW s \in Slots
  PROVE  Succ(s) = IF s + 1 = Capacity THEN 0 ELSE s + 1
<1>1. CASE s + 1 = Capacity
  BY <1>1 DEF Succ, Slots
<1>2. CASE s + 1 # Capacity
  <2>1. s + 1 \in 0 .. Capacity - 1  BY <1>2 DEF Slots
  <2>2. (s + 1) % Capacity = s + 1  BY <2>1
  <2> QED  BY <1>2, <2>2 DEF Succ
<1> QED  BY <1>1, <1>2

LEMMA SuccInSlots == \A s \in Slots : Succ(s) \in Slots
BY SuccSlot DEF Slots

(* A turn of a probe adds the slot it leaves, or has gone round. *)
LEMMA BeforeSucc ==
  ASSUME NEW h \in Slots, NEW s \in Slots
  PROVE  Before(h, Succ(s)) \subseteq Before(h, s) \cup {s}
BY SuccSlot DEF Before, Slots

LEMMA BeforeSlots ==
  ASSUME NEW h \in Slots, NEW s \in Slots
  PROVE  Before(h, s) \subseteq Slots /\ s \notin Before(h, s)
BY DEF Before, Slots

(* Of two slots a probe meets one before the other. *)
LEMMA BeforeTotal ==
  ASSUME NEW h \in Slots, NEW s \in Slots, NEW t \in Slots, s # t
  PROVE  s \in Before(h, t) \/ t \in Before(h, s)
BY DEF Before, Slots
-----------------------------------------------------------------------------
(***************************************************************************)
(* The inductive invariant.  TypeOK is not inductive without PointerGood:  *)
(* the caller writes through the pointer it holds.                         *)
(***************************************************************************)
IInv == TypeOK /\ UniqueKeys /\ NoHoles /\ SizeCounts /\ PointerGood /\ ProbeState

(* Writing a value into a bucket in use changes neither what buckets are   *)
(* in use nor their keys.                                                  *)
SameKeys == Occupied' = Occupied /\ \A s \in Occupied : buckets'[s].key = buckets[s].key

LEMMA WriteKeepsKeys ==
  ASSUME TypeOK, NEW s \in Occupied, NEW v \in Values,
         buckets' = [buckets EXCEPT ![s].value = v]
  PROVE  buckets' \in [Slots -> Entry \cup {NoEntry}] /\ SameKeys
<1> DEFINE new == [key |-> buckets[s].key, value |-> v]
<1>1. s \in Slots /\ buckets[s] \in Entry  BY DEF TypeOK, Occupied
<1>2. new \in Entry /\ new # NoEntry  BY <1>1, NoEntryAssumption DEF Entry
<1>3. buckets' = [buckets EXCEPT ![s] = new]
  <2>1. [buckets[s] EXCEPT !.value = v] = new  BY <1>1 DEF Entry
  <2> QED  BY <2>1
<1> HIDE DEF new
<1>4. buckets' \in [Slots -> Entry \cup {NoEntry}]  BY <1>2, <1>3 DEF TypeOK
<1>5. \A t \in Slots : buckets'[t] = IF t = s THEN new ELSE buckets[t]
  BY <1>1, <1>3 DEF TypeOK
<1>6. Occupied' = Occupied  BY <1>2, <1>5 DEF Occupied
<1>7. new.key = buckets[s].key  BY DEF new
<1> QED  BY <1>4, <1>5, <1>6, <1>7 DEF SameKeys, Occupied

(* What the table promises is kept by what keeps its keys. *)
LEMMA SameKeysKeep ==
  ASSUME UniqueKeys, NoHoles, SizeCounts, SameKeys, UNCHANGED size
  PROVE  UniqueKeys' /\ NoHoles' /\ SizeCounts'
<1>1. UniqueKeys'  BY DEF UniqueKeys, SameKeys
<1>2. NoHoles'  BY DEF NoHoles, SameKeys, Home, Before, Slots
<1>3. SizeCounts'  BY DEF SizeCounts, SameKeys
<1> QED  BY <1>1, <1>2, <1>3

LEMMA SameBuckets == UNCHANGED buckets => SameKeys
BY DEF SameKeys, Occupied, Slots

(* A probe that has come to a null bucket without meeting its key has      *)
(* shown that the key is nowhere.                                          *)
LEMMA MissMeansAbsent ==
  ASSUME TypeOK, NoHoles, NEW k \in Keys, NEW s \in Slots, buckets[s] = NoEntry,
         \A t \in Before(Home(k), s) : buckets[t].key # k
  PROVE  \A t \in Occupied : buckets[t].key # k
<1> SUFFICES ASSUME NEW t \in Occupied, buckets[t].key = k PROVE FALSE
  OBVIOUS
<1>1. Home(k) \in Slots /\ t \in Slots  BY HomeSlot DEF Occupied
<1>2. s \notin Occupied /\ s # t  BY DEF Occupied
<1>3. s \notin Before(Home(k), t)  BY <1>2 DEF NoHoles
<1>4. t \in Before(Home(k), s)  BY <1>1, <1>2, <1>3, BeforeTotal
<1> QED  BY <1>4

LEMMA OccupiedFinite == IsFiniteSet(Slots) /\ IsFiniteSet(Occupied)
<1>1. IsFiniteSet(Slots)  BY FS_Interval DEF Slots
<1> QED  BY <1>1, FS_Subset DEF Occupied
-----------------------------------------------------------------------------
LEMMA InitIInv == Init => IInv
<1> SUFFICES ASSUME Init PROVE IInv
  OBVIOUS
<1>1. TypeOK  BY DEF Init, TypeOK, Slots
<1>2. Occupied = {}  BY DEF Init, Occupied
<1>3. SizeCounts  BY <1>2, FS_EmptySet DEF Init, SizeCounts
<1>4. UniqueKeys /\ NoHoles  BY <1>2 DEF UniqueKeys, NoHoles
<1>5. PointerGood /\ ProbeState  BY DEF Init, PointerGood, ProbeState
<1> QED  BY <1>1, <1>3, <1>4, <1>5 DEF IInv

(* A call begins: its probe has met nothing yet. *)
LEMMA CallStep ==
  ASSUME IInv, CallGet \/ CallPut
  PROVE  IInv'
<1> USE DEF IInv, CallGet, CallPut
<1>1. TypeOK'  BY HomeSlot DEF TypeOK
<1>2. SameKeys /\ UNCHANGED size  BY SameBuckets
<1>3. PointerGood'  BY DEF PointerGood, Occupied, Slots
<1>4. ProbeState'
  <2>1. i' = Home(key') /\ i' \in Slots /\ pc' \in {"get", "put"}
    BY HomeSlot
  <2>2. Before(i', i') = {}  BY <2>1 DEF Before, Slots
  <2>3. Before(Home(key), i)' = Before(i', i')  BY <2>1 DEF Before, Home, Slots
  <2> QED  BY <2>1, <2>2, <2>3 DEF ProbeState
<1> QED  BY <1>1, <1>2, <1>3, <1>4, SameKeysKeep

(* A turn of either probe. *)
LEMMA ProbeStep ==
  ASSUME IInv, ProbeForHit \/ ProbeForFree
  PROVE  IInv'
<1> USE DEF IInv
<1>1. TypeOK'  BY SuccInSlots DEF TypeOK, ProbeForHit, ProbeForFree
<1>2. UNCHANGED <<buckets, size, key, result, held, pc>> /\ i' = Succ(i)
  BY DEF ProbeForHit, ProbeForFree
<1>3. SameKeys  BY <1>2, SameBuckets
<1>4. PointerGood'  BY <1>2 DEF PointerGood, Occupied
<1>5. ProbeState'
  <2>1. Before(Home(key), i') \subseteq Before(Home(key), i) \cup {i}
    BY <1>2, BeforeSucc, HomeSlot DEF TypeOK
  <2>2. i \in Occupied /\ (pc \in {"get", "put"} => buckets[i].key # key)
    BY DEF TypeOK, Occupied, ProbeForHit, ProbeForFree
  <2>3. Before(Home(key), i)' = Before(Home(key), i')  BY <1>2 DEF Before, Home
  <2>4. Occupied' = Occupied  BY <1>3 DEF SameKeys
  <2> QED  BY <1>2, <2>1, <2>2, <2>3, <2>4 DEF ProbeState
<1> QED  BY <1>1, <1>2, <1>3, <1>4, <1>5, SameKeysKeep

(* A get returns. *)
LEMMA GetStep ==
  ASSUME IInv, GetHit \/ GetMiss
  PROVE  IInv'
<1> USE DEF IInv, GetHit, GetMiss, Hit
<1>1. TypeOK'  BY DEF TypeOK
<1>2. SameKeys /\ UNCHANGED size  BY SameBuckets
<1>3. PointerGood'
  BY NoKeyAssumption DEF PointerGood, Occupied, TypeOK, NoSlot, Slots
<1>4. ProbeState'  BY DEF ProbeState
<1> QED  BY <1>1, <1>2, <1>3, <1>4, SameKeysKeep

(* A value is written into a bucket in use, by put or through the pointer. *)
LEMMA WritesInUse ==
  ASSUME IInv, Overwrite \/ WriteThrough
  PROVE  \E s \in Occupied, v \in Values : buckets' = [buckets EXCEPT ![s].value = v]
<1>1. CASE Overwrite
  <2>1. i \in Occupied /\ value \in Values
    BY <1>1 DEF IInv, Overwrite, Hit, TypeOK, Occupied
  <2> QED  BY <1>1, <2>1 DEF Overwrite
<1>2. CASE WriteThrough
  <2>1. result \in Occupied  BY <1>2 DEF IInv, WriteThrough, PointerGood
  <2> QED  BY <1>2, <2>1 DEF WriteThrough
<1> QED  BY <1>1, <1>2

LEMMA WriteStep ==
  ASSUME IInv, Overwrite \/ WriteThrough
  PROVE  IInv'
<1> USE DEF IInv
<1>1. PICK s \in Occupied, v \in Values : buckets' = [buckets EXCEPT ![s].value = v]
  BY WritesInUse
<1>2. UNCHANGED <<size, key, value, i, result, held>> /\ pc' = "idle"
  BY DEF Overwrite, WriteThrough
<1>3. buckets' \in [Slots -> Entry \cup {NoEntry}] /\ SameKeys
  BY <1>1, WriteKeepsKeys
<1>4. TypeOK'  BY <1>2, <1>3 DEF TypeOK
<1>5. PointerGood'  BY <1>2, <1>3 DEF PointerGood, SameKeys
<1>6. ProbeState'  BY <1>2 DEF ProbeState
<1> QED  BY <1>2, <1>3, <1>4, <1>5, <1>6, SameKeysKeep

(* put has not found its key and looks for a free bucket. *)
LEMMA PutMissStep ==
  ASSUME IInv, PutMiss
  PROVE  IInv'
<1> USE DEF IInv, PutMiss
<1>1. TypeOK'  BY HomeSlot DEF TypeOK
<1>2. SameKeys /\ UNCHANGED <<size, key, buckets>>  BY SameBuckets
<1>3. PointerGood'  BY DEF PointerGood, Occupied, Slots
<1>4. ProbeState'
  <2>1. \A s \in Before(Home(key), i) : buckets[s].key # key  BY DEF ProbeState
  <2>2. \A s \in Occupied : buckets[s].key # key
    BY <2>1, MissMeansAbsent DEF TypeOK
  <2>3. i \in Slots \ Occupied  BY DEF TypeOK, Occupied
  <2>4. Before(Home(key), i)' = {}  BY HomeSlot DEF TypeOK, Before, Slots, Home
  <2>5. Occupied' = Occupied /\ Slots' = Slots  BY <1>2 DEF SameKeys, Slots
  <2> QED  BY <1>2, <2>2, <2>3, <2>4, <2>5 DEF ProbeState
<1> QED  BY <1>1, <1>2, <1>3, <1>4, SameKeysKeep

(* put takes the free bucket its probe has come to. *)
LEMMA InsertStep ==
  ASSUME IInv, Insert
  PROVE  IInv'
<1> DEFINE new == [key |-> key, value |-> value]
<1> USE DEF IInv
<1>1. new \in Entry /\ new # NoEntry  BY NoEntryAssumption DEF TypeOK, Entry
<1>2. buckets' = [buckets EXCEPT ![i] = new] /\ new.key = key  BY DEF Insert
<1> HIDE DEF new
<1>3. TypeOK'  BY <1>1, <1>2 DEF TypeOK, Insert
<1>4. i \in Slots \ Occupied  BY DEF Insert, TypeOK, Occupied
<1>5. \A s \in Slots : buckets'[s] = IF s = i THEN new ELSE buckets[s]
  BY <1>2, <1>4 DEF TypeOK
<1>6. Occupied' = Occupied \cup {i}
  BY <1>1, <1>4, <1>5 DEF Occupied
<1>7. \A s \in Occupied : s # i /\ buckets'[s] = buckets[s] /\ buckets[s].key # key
  BY <1>4, <1>5 DEF Insert, ProbeState, Occupied
<1>8. buckets'[i].key = key  BY <1>2, <1>4, <1>5
<1>9. UniqueKeys'  BY <1>6, <1>7, <1>8 DEF UniqueKeys
<1>10. NoHoles'
  <2>1. Before(Home(key), i) \subseteq Occupied  BY DEF Insert, ProbeState
  <2>2. \A s \in Occupied' : Before(Home(buckets'[s].key), s) \subseteq Occupied'
    BY <1>6, <1>7, <1>8, <2>1 DEF NoHoles
  <2> QED  BY <2>2 DEF NoHoles, Home, Before, Slots
<1>11. SizeCounts'
  <2>1. Cardinality(Occupied \cup {i}) = Cardinality(Occupied) + 1
    BY <1>4, OccupiedFinite, FS_AddElement
  <2> QED  BY <1>6, <2>1 DEF SizeCounts, Insert
<1>12. PointerGood'  BY <1>6, <1>7 DEF PointerGood, Insert
<1>13. ProbeState'  BY DEF ProbeState, Insert
<1> QED  BY <1>3, <1>9, <1>10, <1>11, <1>12, <1>13

(* Deleting the table, or doing nothing, changes nothing of it. *)
LEMMA RestStep ==
  ASSUME IInv, Delete \/ UNCHANGED vars
  PROVE  IInv'
<1> USE DEF IInv, Delete, vars
<1>1. TypeOK'  BY DEF TypeOK
<1>2. SameKeys /\ UNCHANGED size  BY SameBuckets
<1>3. PointerGood'  BY DEF PointerGood, Occupied
<1>4. ProbeState'  BY DEF ProbeState, Occupied, Slots, Before, Home
<1> QED  BY <1>1, <1>2, <1>3, <1>4, SameKeysKeep

LEMMA NextIInv == IInv /\ [Next]_vars => IInv'
BY CallStep, ProbeStep, GetStep, WriteStep, PutMissStep, InsertStep, RestStep
DEF Next, Work

THEOREM Invariance == Spec => []IInv
BY InitIInv, NextIInv, PTL DEF Spec

(* The types, for any keys, capacity and hash. *)
THEOREM TypeCorrect == Spec => []TypeOK
BY Invariance, PTL DEF IInv

(* No key is ever in two buckets. *)
THEOREM KeysUnique == Spec => []UniqueKeys
BY Invariance, PTL DEF IInv

(* Every entry is found by the probe for its key. *)
THEOREM EntriesFound == Spec => []NoHoles
BY Invariance, PTL DEF IInv

(* The size is the number of entries. *)
THEOREM SizeCorrect == Spec => []SizeCounts
BY Invariance, PTL DEF IInv

(* A pointer a get returned stays good. *)
THEOREM PointersStayGood == Spec => []PointerGood
BY Invariance, PTL DEF IInv

(* A probe has met no bucket that it should have stopped at, and a put     *)
(* takes a free bucket only for a key that is nowhere in the table.        *)
THEOREM ProbesMissNothing == Spec => []ProbeState
BY Invariance, PTL DEF IInv
-----------------------------------------------------------------------------
(***************************************************************************)
(* An entry stays where it is: every step but Insert keeps what buckets    *)
(* are in use, and Insert takes a free one.                                *)
(***************************************************************************)
LEMMA StaysStep == IInv /\ [Next]_vars => Stays
<1> SUFFICES ASSUME IInv, [Next]_vars PROVE Stays
  OBVIOUS
<1>1. CASE Insert
  <2>1. \A s \in Occupied : buckets'[s] = buckets[s]
    BY <1>1 DEF IInv, TypeOK, Insert, Occupied
  <2> QED  BY <2>1 DEF Stays, Occupied, Slots
<1>2. CASE Overwrite \/ WriteThrough
  BY <1>2, WritesInUse, WriteKeepsKeys DEF IInv, Stays, SameKeys
<1>3. CASE UNCHANGED buckets
  BY <1>3, SameBuckets DEF Stays, SameKeys
<1> QED
  BY <1>1, <1>2, <1>3
  DEF Next, Work, CallGet, CallPut, ProbeForHit, GetHit, GetMiss, PutMiss, ProbeForFree,
      Delete, vars

(* No call moves, drops or renames an entry. *)
THEOREM EntriesStayPut == Spec => EntriesStay
<1>1. IInv /\ [Next]_vars => [Stays]_vars  BY StaysStep
<1> QED  BY <1>1, Invariance, PTL DEF Spec, EntriesStay
-----------------------------------------------------------------------------
(***************************************************************************)
(* The refinement: what abstractMap is, before and after a step.           *)
(***************************************************************************)
KeysInUse == {buckets[s].key : s \in Occupied}

MapAgrees ==
  /\ \A s \in Occupied : buckets[s].key \in Keys /\ buckets[s].value \in Values
  /\ \A s \in Occupied : abstractMap[buckets[s].key] = buckets[s].value
  /\ \A k \in Keys \ KeysInUse : abstractMap[k] = NoValue
  /\ abstractMap = [k \in Keys |-> abstractMap[k]]
  /\ Map!Present = KeysInUse

LEMMA MapOfBuckets == IInv => MapAgrees
<1> SUFFICES ASSUME IInv PROVE MapAgrees
  OBVIOUS
<1>1. \A s \in Occupied : buckets[s].key \in Keys /\ buckets[s].value \in Values
  BY DEF IInv, TypeOK, Occupied, Entry
<1>2. ASSUME NEW s \in Occupied
      PROVE  abstractMap[buckets[s].key] = buckets[s].value
  <2>1. SlotOf(buckets[s].key) = s  BY DEF SlotOf, IInv, UniqueKeys
  <2> QED  BY <1>1, <2>1 DEF abstractMap
<1>3. \A k \in Keys \ KeysInUse : abstractMap[k] = NoValue
  BY DEF abstractMap, KeysInUse
<1>4. abstractMap = [k \in Keys |-> abstractMap[k]]
  BY DEF abstractMap
<1>5. Map!Present = KeysInUse
  BY <1>1, <1>2, <1>3, NoKeyAssumption DEF Map!Present, KeysInUse
<1> QED  BY <1>1, <1>2, <1>3, <1>4, <1>5 DEF MapAgrees

LEMMA MapOfNextBuckets == IInv' => MapAgrees'
BY MapOfBuckets, PTL

(* A free bucket means that there is room for a key. *)
LEMMA RoomLeft ==
  ASSUME IInv, Occupied # Slots
  PROVE  Cardinality(Map!Present) < Capacity
<1> DEFINE keyOf == [s \in Occupied |-> buckets[s].key]
<1>1. Map!Present = KeysInUse  BY MapOfBuckets DEF MapAgrees
<1>2. keyOf \in Surjection(Occupied, KeysInUse)
  BY DEF Surjection, KeysInUse
<1>3. IsFiniteSet(KeysInUse) /\ Cardinality(KeysInUse) <= Cardinality(Occupied)
  BY <1>2, OccupiedFinite, FS_Surjection
<1>4. Cardinality(Slots) = Capacity  BY FS_Interval DEF Slots
<1>5. Occupied \subseteq Slots  BY DEF Occupied
<1>6. Cardinality(Occupied) < Cardinality(Slots)
  BY <1>5, OccupiedFinite, FS_Subset, FS_CardinalityType
<1>7. Cardinality(KeysInUse) \in Nat /\ Cardinality(Occupied) \in Nat
  BY <1>3, OccupiedFinite, FS_CardinalityType
<1> QED  BY <1>1, <1>3, <1>4, <1>6, <1>7

(* Two maps with the values of the same buckets are one. *)
LEMMA MapStutters ==
  ASSUME IInv, UNCHANGED buckets
  PROVE  UNCHANGED abstractMap
BY DEF abstractMap, SlotOf, Occupied, Slots

LEMMA InitMap == Init => Map!MapInit
<1> SUFFICES ASSUME Init PROVE Map!MapInit
  OBVIOUS
<1>1. Occupied = {}  BY DEF Init, Occupied
<1>2. abstractMap = [k \in Keys |-> NoValue]  BY <1>1 DEF abstractMap
<1> QED  BY <1>2 DEF Init, Map!MapInit, abstractCall, Map!Idle

(* A call begins, or the last one. *)
LEMMA CallsMap ==
  ASSUME IInv, CallGet \/ CallPut \/ Delete
  PROVE  Map!Call
<1>1. UNCHANGED <<abstractMap, held>>
  BY MapStutters DEF CallGet, CallPut, Delete
<1>2. abstractCall = Map!Idle
  BY DEF CallGet, CallPut, Delete, abstractCall, Map!Idle
<1>3. CASE CallGet
  BY <1>1, <1>2, <1>3 DEF CallGet, abstractCall, Map!Call
<1>4. CASE CallPut
  BY <1>1, <1>2, <1>4 DEF CallPut, abstractCall, Map!Call
<1>5. CASE Delete
  BY <1>1, <1>2, <1>5 DEF Delete, abstractCall, Map!Call, Map!Deleted
<1> QED  BY <1>3, <1>4, <1>5

(* A probe is nothing a map does. *)
LEMMA ProbesStutter ==
  ASSUME IInv, ProbeForHit \/ ProbeForFree \/ PutMiss \/ UNCHANGED vars
  PROVE  UNCHANGED Map!mapVars
<1>1. UNCHANGED <<abstractMap, held>>
  BY MapStutters DEF ProbeForHit, ProbeForFree, PutMiss, vars
<1>2. UNCHANGED abstractCall
  BY DEF ProbeForHit, ProbeForFree, PutMiss, vars, abstractCall
<1> QED  BY <1>1, <1>2 DEF Map!mapVars

(* A get that hits has a key that is present, one that misses has not. *)
LEMMA GetsMap ==
  ASSUME IInv, GetHit \/ GetMiss
  PROVE  Map!Get
<1>1. UNCHANGED abstractMap  BY MapStutters DEF GetHit, GetMiss
<1>2. abstractCall = <<"get", key>> /\ abstractCall' = Map!Idle /\ key \in Keys
  BY DEF GetHit, GetMiss, abstractCall, Map!Idle, IInv, TypeOK
<1>3. Map!Present = KeysInUse  BY MapOfBuckets DEF MapAgrees
<1>4. CASE GetHit
  <2>1. key \in KeysInUse
    BY <1>4 DEF GetHit, Hit, KeysInUse, Occupied, IInv, TypeOK
  <2> QED  BY <1>1, <1>2, <1>3, <1>4, <2>1 DEF GetHit, Map!Get
<1>5. CASE GetMiss
  <2>1. \A s \in Before(Home(key), i) : buckets[s].key # key
    BY <1>5 DEF GetMiss, IInv, ProbeState
  <2>2. key \notin KeysInUse
    BY <1>5, <2>1, MissMeansAbsent DEF GetMiss, KeysInUse, IInv, TypeOK
  <2> QED  BY <1>1, <1>2, <1>3, <1>5, <2>2 DEF GetMiss, Map!Get
<1> QED  BY <1>4, <1>5

(* To write a value into the bucket of a key is to write it into the map. *)
LEMMA WriteMaps ==
  ASSUME IInv, IInv', NEW s \in Occupied, NEW v \in Values,
         buckets' = [buckets EXCEPT ![s].value = v]
  PROVE  abstractMap' = [abstractMap EXCEPT ![buckets[s].key] = v]
<1> DEFINE k == buckets[s].key
<1>1. MapAgrees /\ MapAgrees' /\ SameKeys
  BY MapOfBuckets, MapOfNextBuckets, WriteKeepsKeys DEF IInv
<1>2. s \in Slots /\ buckets[s] \in Entry  BY DEF IInv, TypeOK, Occupied
<1>3. \A t \in Occupied : buckets'[t].value = IF t = s THEN v ELSE buckets[t].value
  <2>1. [buckets[s] EXCEPT !.value = v] = [key |-> k, value |-> v]
    BY <1>2 DEF Entry
  <2>2. buckets' = [buckets EXCEPT ![s] = [key |-> k, value |-> v]]  BY <2>1
  <2>3. \A t \in Occupied : t \in Slots  BY DEF Occupied
  <2> QED  BY <2>2, <2>3 DEF IInv, TypeOK
<1>4. ASSUME NEW j \in Keys
      PROVE  abstractMap'[j] = [abstractMap EXCEPT ![k] = v][j]
  <2>1. CASE j \in KeysInUse
    <3>1. PICK t \in Occupied : buckets[t].key = j  BY <2>1 DEF KeysInUse
    <3>2. abstractMap'[j] = buckets'[t].value /\ abstractMap[j] = buckets[t].value
      BY <1>1, <3>1 DEF MapAgrees, SameKeys
    <3>3. t = s <=> j = k  BY <3>1 DEF IInv, UniqueKeys
    <3> QED  BY <1>1, <1>3, <3>2, <3>3 DEF MapAgrees
  <2>2. CASE j \notin KeysInUse
    <3>1. j # k /\ j \notin KeysInUse'
      BY <1>1, <2>2 DEF KeysInUse, SameKeys
    <3> QED  BY <1>1, <2>2, <3>1 DEF MapAgrees
  <2> QED  BY <2>1, <2>2
<1> QED  BY <1>1, <1>4 DEF MapAgrees

(* A put of a key that is there. *)
LEMMA OverwriteMaps ==
  ASSUME IInv, IInv', Overwrite
  PROVE  Map!Put
<1>1. i \in Occupied /\ value \in Values /\ key \in Keys /\ buckets[i].key = key
  BY DEF IInv, TypeOK, Overwrite, Hit, Occupied
<1>2. abstractMap' = [abstractMap EXCEPT ![key] = value]
  BY <1>1, WriteMaps DEF Overwrite
<1>3. key \in Map!Present
  BY <1>1, MapOfBuckets DEF MapAgrees, KeysInUse
<1>4. abstractCall = <<"put", key, value>> /\ abstractCall' = Map!Idle
  BY DEF Overwrite, abstractCall, Map!Idle
<1>5. UNCHANGED held  BY DEF Overwrite
<1> QED  BY <1>1, <1>2, <1>3, <1>4, <1>5 DEF Map!Put

(* The caller writes through its pointer. *)
LEMMA WriteThroughMaps ==
  ASSUME IInv, IInv', WriteThrough
  PROVE  Map!Write
<1>1. PICK v \in Values : buckets' = [buckets EXCEPT ![result].value = v]
  BY DEF WriteThrough
<1>2. result \in Occupied /\ buckets[result].key = held /\ held # NoKey
  BY DEF IInv, PointerGood, WriteThrough
<1>3. abstractMap' = [abstractMap EXCEPT ![held] = v]
  BY <1>1, <1>2, WriteMaps
<1>4. abstractCall = Map!Idle /\ UNCHANGED <<abstractCall, held>>
  BY DEF WriteThrough, abstractCall, Map!Idle
<1> QED  BY <1>2, <1>3, <1>4 DEF Map!Write

(* A put of a key that is not there. *)
LEMMA InsertMaps ==
  ASSUME IInv, IInv', Insert
  PROVE  Map!Put
<1> DEFINE new == [key |-> key, value |-> value]
<1>1. key \in Keys /\ value \in Values /\ i \in Slots \ Occupied /\ Occupied # Slots
  BY DEF IInv, TypeOK, Insert, Occupied, ProbeState
<1>2. new \in Entry /\ new # NoEntry /\ new.key = key /\ new.value = value
  BY <1>1, NoEntryAssumption DEF Entry
<1>3. \A s \in Slots : buckets'[s] = IF s = i THEN new ELSE buckets[s]
  BY <1>1 DEF Insert, IInv, TypeOK
<1> HIDE DEF new
<1>4. Occupied' = Occupied \cup {i}
  BY <1>1, <1>2, <1>3 DEF Occupied
<1>5. \A s \in Occupied : s # i /\ buckets'[s] = buckets[s]
  BY <1>1, <1>3 DEF Occupied
<1>6. MapAgrees /\ MapAgrees'  BY MapOfBuckets, MapOfNextBuckets
<1>7. abstractMap'[key] = value
  BY <1>1, <1>2, <1>3, <1>4, <1>6 DEF MapAgrees
<1>8. ASSUME NEW j \in Keys, j # key
      PROVE  abstractMap'[j] = abstractMap[j]
  <2>1. CASE j \in KeysInUse
    <3>1. PICK t \in Occupied : buckets[t].key = j  BY <2>1 DEF KeysInUse
    <3> QED  BY <1>4, <1>5, <1>6, <3>1 DEF MapAgrees
  <2>2. CASE j \notin KeysInUse
    <3>1. j \notin KeysInUse'
      BY <1>1, <1>2, <1>3, <1>4, <1>5, <1>8, <2>2 DEF KeysInUse
    <3> QED  BY <1>6, <2>2, <3>1 DEF MapAgrees
  <2> QED  BY <2>1, <2>2
<1>9. abstractMap' = [abstractMap EXCEPT ![key] = value]
  BY <1>1, <1>6, <1>7, <1>8 DEF MapAgrees
<1>10. abstractCall = <<"put", key, value>> /\ abstractCall' = Map!Idle /\ UNCHANGED held
  BY DEF Insert, abstractCall, Map!Idle
<1>11. Cardinality(Map!Present) < Capacity  BY <1>1, RoomLeft
<1>12. Map!Cardinality(Map!Present) < Capacity
  BY <1>11 DEF Cardinality, Map!Cardinality
<1> QED  BY <1>1, <1>9, <1>10, <1>12 DEF Map!Put

LEMMA NextMaps == IInv /\ IInv' /\ [Next]_vars => [Map!MapNext]_(Map!mapVars)
BY CallsMap, ProbesStutter, GetsMap, OverwriteMaps, WriteThroughMaps, InsertMaps
DEF Next, Work, Map!MapNext

(* The hash table implements the map, whatever hash function it is given. *)
THEOREM Refinement == Spec => ImplementsMap
<1>1. Init => Map!MapInit  BY InitMap
<1>2. IInv /\ IInv' /\ [Next]_vars => [Map!MapNext]_(Map!mapVars)  BY NextMaps
<1> QED  BY <1>1, <1>2, Invariance, PTL DEF Spec, ImplementsMap, Map!MapSpec
=============================================================================
