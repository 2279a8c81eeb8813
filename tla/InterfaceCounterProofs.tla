----------------------- MODULE InterfaceCounterProofs -----------------------
(***************************************************************************)
(* Proofs about InterfaceCounter, for any threads, names, table and        *)
(* interval: the types, that no call is counted twice, whatever races      *)
(* there are, and that the races do not reach the names of one thread's    *)
(* own: they are counted exactly, in the table and in the last text, and   *)
(* bring nothing down.  A program of one thread has all its calls on the   *)
(* disk but for less than an interval.                                     *)
(***************************************************************************)
EXTENDS InterfaceCounter, FiniteSetTheorems, TLAPS

(* A call in these stages has not stored a count yet. *)
Pending == {"get", "got", "increment", "put", "found", "free", "alloc", "key", "value"}

(***************************************************************************)
(* The strengthening of EachCallOnce: only calls that were made have       *)
(* stored, one that is pending has not, and a count that was read was      *)
(* covered by the calls that had stored it, which only become more.        *)
(***************************************************************************)
HitsMade ==
  \A e \in Calls : IsFiniteSet(hits[e]) /\ \A c \in hits[e] : c[2] <= Len(calls[c[1]])

PendingUnstored ==
  \A t \in Threads : pc[t] \in Pending => \A e \in Calls : Call(t) \notin hits[e]

ReadCovered ==
  \A t \in Threads : pc[t] = "increment" => tmp[t] <= Cardinality(hits[ptr[t]])

Counts == HitsMade /\ PendingUnstored /\ ReadCovered /\ EachCallOnce

IInv == TypeOK /\ Counts

(* The step from a slot stays in the table. *)
LEMMA SuccInSlots == \A s \in Slots : Succ(s) \in Slots
<1>1. \A n \in Nat : n % Capacity \in 0 .. Capacity - 1
  BY TableAssumption
<1> QED  BY <1>1, TableAssumption DEF Slots, Succ

(* The call of a thread in a call is one of the calls. *)
LEMMA CallInCalls ==
  ASSUME TypeOK, NEW t \in Threads, pc[t] \in Pending
  PROVE  /\ Call(t) \in Calls /\ Name(t) \in Names
         /\ i[t] \in Slots /\ Home[Name(t)] \in Slots
<1>1. Len(calls[t]) \in 1 .. MaxCalls /\ calls[t] \in Seq(Names)
  BY DEF TypeOK, InPlace, Pending
<1>2. i[t] \in Slots
  BY DEF TypeOK, InPlace, Pending
<1> QED  BY <1>1, <1>2, BoundsAssumption, TableAssumption DEF Call, Calls, Name

LEMMA InitIInv == Init => IInv
<1> SUFFICES ASSUME Init PROVE IInv
  OBVIOUS
<1>1. TypeOK
  <2>1. 0 \in Slots /\ Capacity \notin Slots
    BY TableAssumption DEF Slots
  <2>2. Fresh \in Entry /\ Empty \in Text
    BY DEF Fresh, Entry, Empty, Text
  <2> QED  BY <2>1, <2>2, TableAssumption DEF Init, TypeOK, InPlace, Stages
<1>2. Counts
  BY FS_EmptySet DEF Init, Counts, HitsMade, PendingUnstored, ReadCovered, EachCallOnce,
       Pending, Fresh
<1> QED  BY <1>1, <1>2 DEF IInv
-----------------------------------------------------------------------------
(***************************************************************************)
(* A call stores at most once.                                             *)
(***************************************************************************)
(* A step that stores nothing, leaves what is read and moves no thread     *)
(* into a call keeps the counts.                                           *)
LEMMA QuietCounts ==
  ASSUME Counts, UNCHANGED <<hits, calls>>,
         \A e \in Calls : entries'[e].value = entries[e].value,
         \A t \in Threads : pc'[t] \in Pending => pc[t] \in Pending,
         \A t \in Threads : pc'[t] = "increment" =>
           \/ pc[t] = "increment" /\ tmp'[t] = tmp[t] /\ ptr'[t] = ptr[t]
           \/ ptr'[t] \in Calls /\ tmp'[t] = entries[ptr'[t]].value
  PROVE  Counts'
<1>1. HitsMade' /\ PendingUnstored'
  BY DEF Counts, HitsMade, PendingUnstored, Call
<1>2. ReadCovered'
  BY DEF Counts, ReadCovered, EachCallOnce
<1>3. EachCallOnce'
  BY DEF Counts, EachCallOnce
<1> QED  BY <1>1, <1>2, <1>3 DEF Counts

(* The store of a pending call covers one count more. *)
LEMMA StoreCounts ==
  ASSUME IInv, NEW t \in Threads, pc[t] \in Pending,
         NEW e \in Calls, NEW v \in Nat, v <= Cardinality(hits[e]) + 1,
         Store(t, e, v), pc' = [pc EXCEPT ![t] = "count"], UNCHANGED <<calls, ptr, tmp>>
  PROVE  Counts'
<1> DEFINE c == Call(t)
<1>1. c \in Calls /\ \A f \in Calls : c \notin hits[f]
  BY CallInCalls DEF IInv, Counts, PendingUnstored
<1>2. hits' = [f \in Calls |-> IF f = e THEN hits[e] \cup {c} ELSE hits[f]]
  BY DEF Store, IInv, TypeOK
<1>3. entries' = [f \in Calls |-> IF f = e THEN [entries[e] EXCEPT !.value = v] ELSE entries[f]]
  BY DEF Store, IInv, TypeOK
<1>4. entries'[e].value = v /\ \A f \in Calls \ {e} : entries'[f].value = entries[f].value
  BY <1>3 DEF IInv, TypeOK, Entry
<1>5. \A f \in Calls : IsFiniteSet(hits[f]) /\ Cardinality(hits[f]) \in Nat
  BY FS_CardinalityType DEF IInv, Counts, HitsMade
<1>6. IsFiniteSet(hits'[e]) /\ Cardinality(hits'[e]) = Cardinality(hits[e]) + 1
  BY <1>1, <1>2, <1>5, FS_AddElement
<1>7. \A f \in Calls : Cardinality(hits[f]) <= Cardinality(hits'[f])
  BY <1>2, <1>5, <1>6
<1>8. HitsMade'
  <2>1. c[1] = t /\ c[2] = Len(calls[t]) /\ Len(calls[t]) \in Nat
    BY DEF Call, IInv, TypeOK
  <2> QED  BY <1>2, <1>5, <1>6, <2>1 DEF HitsMade, IInv, Counts
<1>9. PendingUnstored'
  <2> SUFFICES ASSUME NEW u \in Threads, pc'[u] \in Pending, NEW f \in Calls
               PROVE  Call(u)' \notin hits'[f]
    BY DEF PendingUnstored
  <2>1. u # t /\ pc[u] \in Pending
    BY DEF IInv, TypeOK, Pending
  <2>2. Call(u)' = Call(u) /\ Call(u) # c
    BY <2>1 DEF Call
  <2> QED  BY <1>2, <2>1, <2>2 DEF PendingUnstored, IInv, Counts
<1>10. ReadCovered'
  <2> SUFFICES ASSUME NEW u \in Threads, pc'[u] = "increment"
               PROVE  tmp'[u] <= Cardinality(hits'[ptr'[u]])
    BY DEF ReadCovered
  <2>1. pc[u] = "increment" /\ ptr[u] \in Calls /\ tmp[u] \in Nat
    BY DEF IInv, TypeOK, InPlace
  <2>2. tmp[u] <= Cardinality(hits[ptr[u]])
    BY <2>1 DEF IInv, Counts, ReadCovered
  <2> QED  BY <1>2, <1>5, <1>6, <1>7, <2>1, <2>2
<1>11. EachCallOnce'
  <2>1. \A f \in Calls : entries'[f].value <= Cardinality(hits'[f])
    BY <1>2, <1>4, <1>6 DEF IInv, Counts, EachCallOnce
  <2>2. \A f, g \in Calls : f # g => hits'[f] \cap hits'[g] = {}
    BY <1>1, <1>2 DEF IInv, Counts, EachCallOnce
  <2> QED  BY <2>1, <2>2 DEF EachCallOnce
<1> QED  BY <1>8, <1>9, <1>10, <1>11 DEF Counts
-----------------------------------------------------------------------------
(***************************************************************************)
(* The steps of a call, for the types and for the counts.                  *)
(***************************************************************************)
LEMMA BeginStep ==
  ASSUME IInv, NEW t \in Threads, BeforeInterfaceCall(t)
  PROVE  IInv'
<1> USE DEF IInv
<1>1. PICK n \in Uses[t] : /\ calls' = [calls EXCEPT ![t] = Append(@, n)]
                           /\ i' = [i EXCEPT ![t] = Home[n]]
  BY DEF BeforeInterfaceCall
<1>2. n \in Names /\ Home[n] \in Slots
  BY ThreadsAssumption, TableAssumption
<1>3. calls[t] \in Seq(Names) /\ Len(calls[t]) \in Nat
  BY DEF TypeOK
<1>4. calls' \in [Threads -> Seq(Names)] /\ Len(calls'[t]) = Len(calls[t]) + 1
  BY <1>1, <1>2, <1>3 DEF TypeOK
<1>5. \A u \in Threads \ {t} : calls'[u] = calls[u]
  BY <1>1 DEF TypeOK
<1>6. pc' = [pc EXCEPT ![t] = "get"] /\ UNCHANGED <<table, file, counter, life, ptr, tmp, cause>>
  BY DEF BeforeInterfaceCall, Goto
<1>7. TypeOK'
  <2>1. Len(calls'[t]) \in 1 .. MaxCalls
    BY <1>3, <1>4, BoundsAssumption DEF BeforeInterfaceCall
  <2>2. Capacity \notin Slots
    BY TableAssumption DEF Slots
  <2>3. /\ i' \in [Threads -> Slots \cup {Capacity}]
        /\ pc' \in [Threads -> Stages]
    BY <1>1, <1>2, <1>6 DEF TypeOK, Stages
  <2> QED
    BY <1>1, <1>2, <1>4, <1>5, <1>6, <2>1, <2>2, <2>3 DEF TypeOK, InPlace, table, file, fixed
<1>8. Counts'
  <2>1. UNCHANGED <<entries, hits, ptr, tmp>>
    BY <1>6 DEF table
  <2>2. \A u \in Threads : Len(calls[u]) <= Len(calls'[u])
    <3>1. \A u \in Threads : Len(calls[u]) \in Nat
      BY DEF TypeOK
    <3> QED  BY <1>3, <1>4, <1>5, <3>1
  <2>3. HitsMade'
    <3> SUFFICES ASSUME NEW e \in Calls, NEW c \in hits[e]
                 PROVE  c[2] <= Len(calls'[c[1]])
      BY <2>1 DEF HitsMade, Counts
    <3>1. c[1] \in Threads /\ c[2] \in Nat /\ Len(calls[c[1]]) \in Nat /\ Len(calls'[c[1]]) \in Nat
      BY <1>4 DEF TypeOK, Calls
    <3>2. c[2] <= Len(calls[c[1]])
      BY DEF HitsMade, Counts
    <3> QED  BY <2>2, <3>1, <3>2
  <2>4. PendingUnstored'
    <3> SUFFICES ASSUME NEW u \in Threads, pc'[u] \in Pending, NEW e \in Calls
                 PROVE  Call(u)' \notin hits[e]
      BY <2>1 DEF PendingUnstored
    <3>1. CASE u = t
      <4>1. Call(t)' = <<t, Len(calls[t]) + 1>>
        BY <1>4 DEF Call
      <4>2. \A c \in hits[e] : c[1] = t => c[2] <= Len(calls[t])
        BY DEF HitsMade, Counts
      <4> QED  BY <3>1, <4>1, <4>2, <1>3
    <3>2. CASE u # t
      <4>1. pc[u] \in Pending /\ Call(u)' = Call(u)
        BY <3>2, <1>5, <1>6 DEF TypeOK, Call
      <4> QED  BY <4>1 DEF PendingUnstored, Counts
    <3> QED  BY <3>1, <3>2
  <2>5. ReadCovered' /\ EachCallOnce'
    BY <1>6, <2>1 DEF ReadCovered, EachCallOnce, Counts, TypeOK
  <2> QED  BY <2>3, <2>4, <2>5 DEF Counts
<1> QED  BY <1>7, <1>8

LEMMA ProbeStep ==
  ASSUME IInv, NEW t \in Threads,
         \/ ProbeForHit(t, "get", "got") \/ ProbeForHit(t, "put", "found") \/ ProbeForFree(t)
  PROVE  IInv'
<1> USE DEF IInv
<1>1. /\ pc[t] \in {"get", "put", "free"} /\ pc[t] \in Pending
      /\ i[t] \in Slots /\ Name(t) \in Names
  <2>1. pc[t] \in {"get", "put", "free"} /\ pc[t] \in Pending
    BY DEF ProbeForHit, ProbeForFree, At, Pending
  <2> QED  BY <2>1, CallInCalls
<1>2. Succ(i[t]) \in Slots /\ Capacity \notin Slots
  BY <1>1, SuccInSlots, TableAssumption DEF Slots
<1>3. UNCHANGED <<table, file, counter, calls, ptr, tmp>>
  BY DEF ProbeForHit, ProbeForFree
<1>4. /\ \/ i' = [i EXCEPT ![t] = Succ(@)]
         \/ UNCHANGED i
      /\ \/ UNCHANGED pc
         \/ pc[t] = "get" /\ pc' = [pc EXCEPT ![t] = "got"]
         \/ pc[t] = "put" /\ pc' = [pc EXCEPT ![t] = "found"]
         \/ pc[t] = "free" /\ pc' = [pc EXCEPT ![t] = "alloc"]
      /\ life' \in {life, "crashed"} /\ cause' \in {cause, <<"half", Name(t)>>}
  BY DEF ProbeForHit, ProbeForFree, At, Goto, Crash
<1>5. TypeOK'
  <2>1. pc' \in [Threads -> Stages]
    BY <1>4 DEF TypeOK, Stages
  <2>2. i' \in [Threads -> Slots \cup {Capacity}]
    BY <1>2, <1>4 DEF TypeOK
  <2>3. cause' \in {"none", "stream", "half", "exit"} \X (Names \cup {NoName})
    BY <1>1, <1>4 DEF TypeOK
  <2>4. InPlace(t)'
    <3>1. i'[t] \in Slots /\ pc'[t] \in {"get", "put", "free", "got", "found", "alloc"}
      BY <1>1, <1>2, <1>4 DEF TypeOK
    <3> QED  BY <1>1, <1>2, <1>3, <3>1 DEF TypeOK, InPlace
  <2>5. \A u \in Threads \ {t} : InPlace(u)'
    BY <1>3, <1>4 DEF TypeOK, InPlace, table
  <2> QED  BY <1>3, <1>4, <2>1, <2>2, <2>3, <2>4, <2>5 DEF TypeOK, table, file, fixed
<1>6. Counts'
  <2>1. \A u \in Threads : pc'[u] \in Pending => pc[u] \in Pending
    BY <1>1, <1>4 DEF TypeOK, Pending
  <2>2. \A u \in Threads : pc'[u] = "increment" => pc[u] = "increment"
    BY <1>4 DEF TypeOK
  <2> QED  BY <1>3, <2>1, <2>2, QuietCounts DEF table
<1> QED  BY <1>5, <1>6

(* The ends of the probes: a get that hits or misses, a put that misses. *)
LEMMA FoundStep ==
  ASSUME IInv, NEW t \in Threads, GetHit(t) \/ GetMiss(t) \/ PutMiss(t)
  PROVE  IInv'
<1> USE DEF IInv
<1> DEFINE e == buckets[i[t]]
<1>1. /\ pc[t] \in {"got", "found"} /\ pc[t] \in Pending
      /\ i[t] \in Slots /\ Home[Name(t)] \in Slots
  <2>1. pc[t] \in {"got", "found"} /\ pc[t] \in Pending
    BY DEF GetHit, GetMiss, PutMiss, At, Pending
  <2> QED  BY <2>1, CallInCalls
<1>2. UNCHANGED <<table, file, counter, life, calls, cause>> /\ Capacity \notin Slots
  BY TableAssumption DEF GetHit, GetMiss, PutMiss, Slots
<1>3. CASE GetHit(t)
  <2>1. /\ e \in Calls /\ entries[e].value \in Nat
        /\ ptr' = [ptr EXCEPT ![t] = e] /\ tmp' = [tmp EXCEPT ![t] = entries[e].value]
        /\ pc' = [pc EXCEPT ![t] = "increment"] /\ UNCHANGED i
    BY <1>1, <1>3 DEF GetHit, Goto, TypeOK, Entry
  <2>2. /\ pc' \in [Threads -> Stages] /\ ptr' \in [Threads -> Calls \cup {Null}]
        /\ tmp' \in [Threads -> Nat]
    BY <2>1 DEF TypeOK, Stages
  <2>3. \A u \in Threads : InPlace(u)'
    BY <1>1, <1>2, <2>1 DEF TypeOK, InPlace, table
  <2>4. TypeOK'
    BY <1>2, <2>1, <2>2, <2>3 DEF TypeOK, table, file, fixed
  <2>5. Counts'
    <3>1. \A u \in Threads : pc'[u] \in Pending => pc[u] \in Pending
      BY <1>1, <2>1 DEF TypeOK, Pending
    <3>2. \A u \in Threads : pc'[u] = "increment" =>
            \/ pc[u] = "increment" /\ tmp'[u] = tmp[u] /\ ptr'[u] = ptr[u]
            \/ ptr'[u] \in Calls /\ tmp'[u] = entries[ptr'[u]].value
      BY <2>1 DEF TypeOK
    <3> QED  BY <1>2, <3>1, <3>2, QuietCounts DEF table
  <2> QED  BY <2>4, <2>5
<1>4. CASE GetMiss(t) \/ PutMiss(t)
  <2>1. /\ i' = [i EXCEPT ![t] = Home[Name(t)]] /\ UNCHANGED <<ptr, tmp>>
        /\ \E stage \in {"put", "free"} : pc' = [pc EXCEPT ![t] = stage]
    BY <1>4 DEF GetMiss, PutMiss, Goto
  <2>2. pc' \in [Threads -> Stages] /\ i' \in [Threads -> Slots \cup {Capacity}]
    BY <1>1, <2>1 DEF TypeOK, Stages
  <2>3. InPlace(t)'
    <3>1. i'[t] \in Slots /\ pc'[t] \in {"put", "free"}
      BY <1>1, <2>1 DEF TypeOK
    <3> QED  BY <1>1, <1>2, <3>1 DEF TypeOK, InPlace
  <2>4. \A u \in Threads \ {t} : InPlace(u)'
    BY <1>2, <2>1 DEF TypeOK, InPlace, table
  <2>5. TypeOK'
    BY <1>2, <2>1, <2>2, <2>3, <2>4 DEF TypeOK, table, file, fixed
  <2>6. Counts'
    <3>1. \A u \in Threads : pc'[u] \in Pending => pc[u] \in Pending
      BY <1>1, <2>1 DEF TypeOK, Pending
    <3>2. \A u \in Threads : pc'[u] = "increment" => pc[u] = "increment"
      BY <2>1 DEF TypeOK
    <3> QED  BY <1>2, <2>1, <3>1, <3>2, QuietCounts DEF table
  <2> QED  BY <2>5, <2>6
<1> QED  BY <1>3, <1>4

(* The three ways a call stores its count. *)
LEMMA StoreStep ==
  ASSUME IInv, NEW t \in Threads, Increment(t) \/ Overwrite(t) \/ SetValue(t)
  PROVE  IInv'
<1> USE DEF IInv
<1>1. /\ pc[t] \in {"increment", "found", "value"} /\ pc[t] \in Pending
      /\ Call(t) \in Calls /\ i[t] \in Slots
  <2>1. pc[t] \in {"increment", "found", "value"} /\ pc[t] \in Pending
    BY DEF Increment, Overwrite, SetValue, At, Pending
  <2> QED  BY <2>1, CallInCalls
<1>2. /\ pc' = [pc EXCEPT ![t] = "count"]
      /\ UNCHANGED <<buckets, file, counter, life, calls, i, ptr, tmp, cause>>
  BY DEF Increment, Overwrite, SetValue, Goto
<1>3. \A e \in Calls : Cardinality(hits[e]) \in Nat
  BY FS_CardinalityType DEF Counts, HitsMade
<1>4. \E e \in Calls, v \in Nat : v <= Cardinality(hits[e]) + 1 /\ Store(t, e, v)
  <2>1. CASE Increment(t)
    <3>1. ptr[t] \in Calls /\ tmp[t] \in Nat /\ tmp[t] <= Cardinality(hits[ptr[t]])
      BY <2>1 DEF Increment, At, TypeOK, InPlace, Counts, ReadCovered
    <3>2. tmp[t] + 1 \in Nat /\ tmp[t] + 1 <= Cardinality(hits[ptr[t]]) + 1
      BY <1>3, <3>1
    <3> QED  BY <2>1, <3>1, <3>2 DEF Increment
  <2>2. CASE Overwrite(t)
    <3>1. buckets[i[t]] \in Calls /\ Store(t, buckets[i[t]], 1)
      BY <1>1, <2>2 DEF Overwrite, TypeOK
    <3> QED  BY <1>3, <3>1
  <2>3. CASE SetValue(t)
    <3>1. buckets[i[t]] \in Calls
      BY <1>1, <2>3 DEF SetValue, At, TypeOK, InPlace
    <3>2. PICK e \in Target(t) : Store(t, e, 1)
      BY <2>3 DEF SetValue
    <3> QED  BY <1>1, <1>3, <3>1, <3>2 DEF Target
  <2> QED  BY <2>1, <2>2, <2>3
<1>5. PICK e \in Calls, v \in Nat : v <= Cardinality(hits[e]) + 1 /\ Store(t, e, v)
  BY <1>4
<1>6. TypeOK'
  <2>1. entries' \in [Calls -> Entry]
    BY <1>5 DEF Store, TypeOK, Entry
  <2>2. hits' \in [Calls -> SUBSET Calls] /\ pc' \in [Threads -> Stages]
    BY <1>1, <1>2, <1>5 DEF Store, TypeOK, Stages
  <2>3. \A u \in Threads : InPlace(u)'
    BY <1>1, <1>2 DEF TypeOK, InPlace
  <2> QED  BY <1>2, <2>1, <2>2, <2>3 DEF TypeOK, file, fixed
<1>7. Counts'
  BY <1>1, <1>2, <1>5, StoreCounts
<1> QED  BY <1>6, <1>7

(* A new entry takes a bucket, and gets its key. *)
LEMMA EntryStep ==
  ASSUME IInv, NEW t \in Threads, Alloc(t) \/ SetKey(t)
  PROVE  IInv'
<1> USE DEF IInv
<1>1. /\ pc[t] \in {"alloc", "key"} /\ pc[t] \in Pending
      /\ Call(t) \in Calls /\ i[t] \in Slots /\ Name(t) \in Names
  <2>1. pc[t] \in {"alloc", "key"} /\ pc[t] \in Pending
    BY DEF Alloc, SetKey, At, Pending
  <2> QED  BY <2>1, CallInCalls
<1>2. /\ UNCHANGED <<hits, file, counter, life, calls, i, ptr, tmp, cause>>
      /\ \E stage \in {"key", "value"} : pc' = [pc EXCEPT ![t] = stage]
  BY DEF Alloc, SetKey, Goto
<1>3. /\ buckets' \in [Slots -> Calls \cup {Null}] /\ buckets'[i[t]] # Null
      /\ \A s \in Slots : buckets[s] # Null => buckets'[s] # Null
      /\ entries' \in [Calls -> Entry]
      /\ \A e \in Calls : entries'[e].value = entries[e].value
  <2>1. CASE Alloc(t)
    <3>1. buckets' = [buckets EXCEPT ![i[t]] = Call(t)] /\ UNCHANGED entries
      BY <2>1 DEF Alloc
    <3>2. Call(t) # Null
      BY <1>1, NullAssumption DEF Calls
    <3> QED  BY <1>1, <3>1, <3>2 DEF TypeOK
  <2>2. CASE SetKey(t)
    <3>1. UNCHANGED buckets /\ buckets[i[t]] # Null
      BY <2>2 DEF SetKey, At, TypeOK, InPlace
    <3>2. PICK e \in Target(t) : entries' = [entries EXCEPT ![e].key = Name(t)]
      BY <2>2 DEF SetKey
    <3>3. e \in Calls
      BY <1>1, <3>1, <3>2 DEF Target, TypeOK
    <3>4. entries' \in [Calls -> Entry]
      BY <1>1, <3>2, <3>3 DEF TypeOK, Entry
    <3>5. \A f \in Calls : entries'[f].value = entries[f].value
      BY <3>2, <3>3 DEF TypeOK, Entry
    <3> QED  BY <3>1, <3>4, <3>5 DEF TypeOK
  <2> QED  BY <2>1, <2>2
<1>4. TypeOK'
  <2>1. pc' \in [Threads -> Stages]
    BY <1>2 DEF TypeOK, Stages
  <2>2. InPlace(t)'
    <3>1. pc'[t] \in {"key", "value"} /\ Len(calls[t]) \in 1 .. MaxCalls
      BY <1>1, <1>2 DEF TypeOK, InPlace
    <3>2. i[t] # Capacity
      BY <1>1, TableAssumption DEF Slots
    <3> QED  BY <1>2, <1>3, <3>1, <3>2 DEF InPlace
  <2>3. ASSUME NEW u \in Threads, u # t PROVE InPlace(u)'
    <3>1. InPlace(u) /\ pc'[u] = pc[u]
      BY <1>2, <2>3 DEF TypeOK
    <3>2. pc[u] \in {"key", "value"} => i[u] \in Slots
      BY <3>1 DEF TypeOK, InPlace
    <3> QED  BY <1>2, <1>3, <3>1, <3>2 DEF InPlace
  <2> QED  BY <1>2, <1>3, <2>1, <2>2, <2>3 DEF TypeOK, file, fixed
<1>5. Counts'
  <2>1. \A u \in Threads : pc'[u] \in Pending => pc[u] \in Pending
    BY <1>1, <1>2 DEF TypeOK, Pending
  <2>2. \A u \in Threads : pc'[u] = "increment" => pc[u] = "increment"
    BY <1>2 DEF TypeOK
  <2> QED  BY <1>2, <1>3, <2>1, <2>2, QuietCounts
<1> QED  BY <1>4, <1>5
-----------------------------------------------------------------------------
(***************************************************************************)
(* The steps outside of the table.                                         *)
(***************************************************************************)
(* They keep what InPlace and the counts say of a thread that stays where  *)
(* it is, and leave nothing to say of one that is not in a call.           *)
LEMMA OutsideStep ==
  ASSUME IInv, NEW t \in Threads, UNCHANGED <<table, calls, ptr>>,
         NEW stage \in Stages \ (Pending \cup {"count", "bump"}),
         NEW n \in Slots \cup {Capacity}, NEW m \in Nat,
         stage # "print" => n # Capacity,
         pc' = [pc EXCEPT ![t] = stage], i' = [i EXCEPT ![t] = n], tmp' = [tmp EXCEPT ![t] = m]
  PROVE  /\ pc' \in [Threads -> Stages] /\ i' \in [Threads -> Slots \cup {Capacity}]
         /\ tmp' \in [Threads -> Nat] /\ \A u \in Threads : InPlace(u)'
         /\ Counts'
<1> USE DEF IInv
<1>1. stage \in {"idle", "rewind", "print", "reset", "close"}
  BY DEF Stages, Pending
<1>2. \A u \in Threads : InPlace(u)'
  BY <1>1 DEF TypeOK, InPlace, table
<1>3. \A u \in Threads : pc'[u] \in Pending => pc[u] \in Pending
  BY <1>1 DEF TypeOK, Pending
<1>4. \A u \in Threads : pc'[u] = "increment" =>
        pc[u] = "increment" /\ tmp'[u] = tmp[u] /\ ptr'[u] = ptr[u]
  BY <1>1 DEF TypeOK
<1>5. Counts'
  BY <1>3, <1>4, QuietCounts DEF table
<1> QED  BY <1>2, <1>5 DEF TypeOK

LEMMA WrittenText ==
  ASSUME stream \in Text, NEW line \in Line
  PROVE  Written(line) \in Text
<1>1. Width(line) \in Nat
  BY DEF Width
<1>2. stream.at + Width(line) \in Nat /\ stream.length \in Nat
  BY <1>1 DEF Text
<1>3. Append(stream.lines, line) \in Seq(Line)
  BY DEF Text
<1> QED  BY <1>2, <1>3 DEF Written, Longer, Text

(* The counter is read, written back, and compared. *)
LEMMA CounterStep ==
  ASSUME IInv, NEW t \in Threads, ReadCounter(t) \/ Bump(t)
  PROVE  IInv'
<1> USE DEF IInv
<1>1. CASE ReadCounter(t)
  <2>1. /\ tmp' = [tmp EXCEPT ![t] = counter] /\ pc' = [pc EXCEPT ![t] = "bump"]
        /\ pc[t] = "count"
        /\ UNCHANGED <<table, file, counter, life, calls, i, ptr, cause>>
    BY <1>1 DEF ReadCounter, Goto, At
  <2>2. tmp' \in [Threads -> Nat] /\ pc' \in [Threads -> Stages]
    BY <2>1 DEF TypeOK, Stages
  <2>3. \A u \in Threads : InPlace(u)'
    BY <2>1 DEF TypeOK, InPlace, table
  <2>4. TypeOK'
    BY <2>1, <2>2, <2>3 DEF TypeOK, table, file, fixed
  <2>5. \A u \in Threads : pc'[u] \in Pending => pc[u] \in Pending
    BY <2>1 DEF TypeOK, Pending
  <2>6. \A u \in Threads : pc'[u] = "increment" =>
          pc[u] = "increment" /\ tmp'[u] = tmp[u] /\ ptr'[u] = ptr[u]
    BY <2>1 DEF TypeOK
  <2>7. Counts'
    BY <2>1, <2>5, <2>6, QuietCounts DEF table
  <2> QED  BY <2>4, <2>7
<1>2. CASE Bump(t)
  <2>1. PICK stage \in {"rewind", "idle"} : pc' = [pc EXCEPT ![t] = stage]
    BY <1>2 DEF Bump, Goto
  <2>2. UNCHANGED <<table, file, life, calls, i, ptr, tmp, cause>> /\ counter' = tmp[t] + 1
    BY <1>2 DEF Bump
  <2>3. tmp[t] \in Nat /\ i[t] \in Slots /\ Capacity \notin Slots
    BY <1>2, TableAssumption DEF Bump, At, TypeOK, InPlace, Slots
  <2>4. i' = [i EXCEPT ![t] = i[t]] /\ tmp' = [tmp EXCEPT ![t] = tmp[t]]
    BY <2>2 DEF TypeOK
  <2>5. counter' \in Nat
    BY <2>2, <2>3
  <2>6. stage \in Stages \ (Pending \cup {"count", "bump"}) /\ i[t] # Capacity
    BY <2>3 DEF Stages, Pending
  <2>7. /\ pc' \in [Threads -> Stages] /\ \A u \in Threads : InPlace(u)'
        /\ Counts'
    <3>1. UNCHANGED <<table, calls, ptr>>
      BY <2>2
    <3>2. IInv
      OBVIOUS
    <3> QED  BY <2>1, <2>3, <2>4, <2>6, <3>1, <3>2, OutsideStep
  <2> QED  BY <2>2, <2>5, <2>7 DEF TypeOK, table, file, fixed
<1> QED  BY <1>1, <1>2

(* The turns of a save. *)
LEMMA SaveStep ==
  ASSUME IInv, NEW t \in Threads, Rewind(t) \/ PrintBucket(t) \/ Flush(t) \/ Reset(t)
  PROVE  IInv'
<1> USE DEF IInv
<1>1. UNCHANGED <<table, fixed, calls, ptr, tmp>>
  BY DEF Rewind, PrintBucket, Flush, Reset, file, fixed
<1>2. 0 \in Slots /\ Capacity \notin Slots /\ Capacity \in Nat \ {0}
  BY TableAssumption DEF Slots
<1>3. PICK stage \in {"rewind", "print", "reset", "close", "idle"}, n \in Slots \cup {Capacity} :
        /\ pc' = [pc EXCEPT ![t] = stage] /\ i' = [i EXCEPT ![t] = n]
        /\ stage # "print" => n # Capacity
  <2>1. pc = [pc EXCEPT ![t] = pc[t]] /\ i = [i EXCEPT ![t] = i[t]]
        /\ i[t] \in Slots \cup {Capacity} /\ (pc[t] # "print" => i[t] # Capacity)
    BY DEF TypeOK, InPlace
  <2>2. CASE Rewind(t)
    BY <1>2, <2>1, <2>2 DEF Rewind, At, Goto
  <2>3. CASE PrintBucket(t)
    <3>1. i[t] + 1 \in Slots \cup {Capacity}
      BY <1>2, <2>1, <2>3 DEF PrintBucket, Slots
    <3>2. pc[t] = "print" /\ pc' = pc /\ i' = [i EXCEPT ![t] = i[t] + 1]
      BY <2>3 DEF PrintBucket, At
    <3> QED  BY <2>1, <3>1, <3>2
  <2>4. CASE Flush(t)
    BY <1>2, <2>4 DEF Flush, Goto
  <2>5. CASE Reset(t)
    BY <2>1, <2>5 DEF Reset, At, Goto
  <2> QED  BY <2>2, <2>3, <2>4, <2>5
<1>4. stream' \in Text /\ disk' \in Text
  <2>1. CASE Rewind(t)
    <3>1. [lines |-> <<>>, at |-> 0, length |-> stream.length] \in Text
      BY DEF TypeOK, Text
    <3> QED  BY <2>1, <3>1 DEF Rewind, TypeOK
  <2>2. CASE PrintBucket(t)
    <3> DEFINE e == buckets[i[t]]
               line == [name |-> entries[e].key, value |-> entries[e].value]
    <3>1. CASE e = Null
      BY <2>2, <3>1 DEF PrintBucket, TypeOK
    <3>2. CASE e # Null
      <4>1. i[t] \in Slots
        BY <1>2, <2>2 DEF PrintBucket, TypeOK
      <4>2. e \in Calls
        BY <3>2, <4>1 DEF TypeOK
      <4>3. line \in Line
        BY <4>2 DEF TypeOK, Entry, Line
      <4>4. Written(line) \in Text
        BY <4>3, WrittenText DEF TypeOK
      <4> QED  BY <2>2, <3>2, <4>4 DEF PrintBucket, TypeOK
    <3> QED  BY <3>1, <3>2
  <2>3. CASE Flush(t) \/ Reset(t)
    BY <2>3 DEF Flush, Reset, TypeOK, file, fixed
  <2> QED  BY <2>1, <2>2, <2>3
<1>5. /\ counter' \in Nat /\ life' \in {"running", "exiting", "exited", "crashed"}
      /\ cause' \in {"none", "stream", "half", "exit"} \X (Names \cup {NoName})
  BY DEF Rewind, PrintBucket, Flush, Reset, Crash, TypeOK
<1>6. /\ tmp' = [tmp EXCEPT ![t] = tmp[t]] /\ tmp[t] \in Nat
      /\ stage \in Stages \ (Pending \cup {"count", "bump"})
  BY <1>1 DEF TypeOK, Stages, Pending
<1>7. /\ pc' \in [Threads -> Stages] /\ i' \in [Threads -> Slots \cup {Capacity}]
      /\ \A u \in Threads : InPlace(u)'
      /\ Counts'
  BY <1>1, <1>3, <1>6, OutsideStep
<1> QED  BY <1>1, <1>4, <1>5, <1>7 DEF TypeOK, table, fixed

(* The end of the program. *)
LEMMA EndStep ==
  ASSUME IInv, Exit \/ Close \/ \E t \in Threads : UseAfterExit(t)
  PROVE  IInv'
<1> USE DEF IInv
<1>1. CASE Exit \/ Close
  <2>1. /\ UNCHANGED <<table, fixed, stream, counter, calls, i, ptr, tmp, cause>>
        /\ disk' \in {disk, stream} /\ life' \in {"exiting", "exited"}
    BY <1>1 DEF Exit, Close, file, fixed
  <2>2. PICK stage \in {"rewind", "idle"} : pc' = [pc EXCEPT ![Main] = stage]
    BY <1>1 DEF Exit, Close, Goto
  <2>3. i[Main] # Capacity /\ i[Main] \in Slots \cup {Capacity} /\ tmp[Main] \in Nat
    BY <1>1, ThreadsAssumption DEF Exit, Close, At, TypeOK, InPlace
  <2>4. /\ i' = [i EXCEPT ![Main] = i[Main]] /\ tmp' = [tmp EXCEPT ![Main] = tmp[Main]]
        /\ stage \in Stages \ (Pending \cup {"count", "bump"})
    BY <2>1 DEF TypeOK, Stages, Pending
  <2>5. /\ pc' \in [Threads -> Stages] /\ \A u \in Threads : InPlace(u)'
        /\ Counts'
    <3>1. UNCHANGED <<table, calls, ptr>> /\ Main \in Threads
      BY <2>1, ThreadsAssumption
    <3>2. IInv
      OBVIOUS
    <3> QED  BY <2>2, <2>3, <2>4, <3>1, <3>2, OutsideStep
  <2> QED  BY <2>1, <2>5 DEF TypeOK, table, fixed
<1>2. CASE \E t \in Threads : UseAfterExit(t)
  <2>1. UNCHANGED <<table, file, counter, pc, calls, i, ptr, tmp>>
        /\ life' = "crashed" /\ cause' = <<"exit", NoName>>
    BY <1>2 DEF UseAfterExit, Crash
  <2>2. TypeOK'
    BY <2>1 DEF TypeOK, InPlace, table, file, fixed
  <2>3. Counts'
    BY <2>1, QuietCounts DEF table
  <2> QED  BY <2>2, <2>3
<1> QED  BY <1>1, <1>2
-----------------------------------------------------------------------------
LEMMA NextIInv == IInv /\ [Next]_vars => IInv'
<1> SUFFICES ASSUME IInv, [Next]_vars PROVE IInv'
  OBVIOUS
<1>1. CASE Exit \/ Close
  BY <1>1, EndStep
<1>2. ASSUME NEW t \in Threads, BeforeInterfaceCall(t) PROVE IInv'
  BY <1>2, BeginStep
<1>3. ASSUME NEW t \in Threads, Work(t) PROVE IInv'
  BY <1>3, ProbeStep, FoundStep, StoreStep, EntryStep, CounterStep, SaveStep, EndStep DEF Work
<1>4. CASE UNCHANGED vars
  <2>1. TypeOK'
    BY <1>4 DEF vars, table, file, fixed, IInv, TypeOK, InPlace
  <2>2. Counts'
    BY <1>4, QuietCounts DEF vars, table, IInv
  <2> QED  BY <2>1, <2>2 DEF IInv
<1> QED  BY <1>1, <1>2, <1>3, <1>4 DEF Next

(* The inductive invariant, for any threads, names, table and interval. *)
THEOREM Invariance == Spec => []IInv
BY InitIInv, NextIInv, PTL DEF Spec

(* The types, a probe that stays in the table among them. *)
THEOREM TypeCorrect == Spec => []TypeOK
<1>1. IInv => TypeOK
  BY DEF IInv
<1> QED  BY <1>1, Invariance, PTL

(* No call is counted twice, whatever the threads of the program do to     *)
(* each other in the table.                                                *)
THEOREM CallsCountedOnce == Spec => []EachCallOnce
<1>1. IInv => EachCallOnce
  BY DEF IInv, Counts
<1> QED  BY <1>1, Invariance, PTL
-----------------------------------------------------------------------------
(***************************************************************************)
(* The slots that a probe passes.                                          *)
(***************************************************************************)
(* The slots a probe from h meets before it is at s, and how many they are. *)
Before(h, s) ==
  IF h <= s THEN h .. s - 1 ELSE {r \in Slots : r >= h \/ r < s}

Dist(h, s) == IF h <= s THEN s - h ELSE s - h + Capacity

(* The slot after the last one is the first one. *)
LEMMA SuccSlot ==
  ASSUME NEW s \in Slots
  PROVE  Succ(s) = IF s + 1 = Capacity THEN 0 ELSE s + 1
<1> USE TableAssumption
<1>1. CASE s + 1 = Capacity
  BY <1>1 DEF Succ, Slots
<1>2. CASE s + 1 # Capacity
  <2>1. s + 1 \in 0 .. Capacity - 1  BY <1>2 DEF Slots
  <2>2. (s + 1) % Capacity = s + 1  BY <2>1
  <2> QED  BY <1>2, <2>2 DEF Succ
<1> QED  BY <1>1, <1>2

(* A turn of a probe adds the slot it leaves, or has gone round. *)
LEMMA BeforeSucc ==
  ASSUME NEW h \in Slots, NEW s \in Slots
  PROVE  Before(h, Succ(s)) \subseteq Before(h, s) \cup {s}
BY SuccSlot, TableAssumption DEF Before, Slots

LEMMA BeforeSlots ==
  ASSUME NEW h \in Slots, NEW s \in Slots
  PROVE  Before(h, s) \subseteq Slots /\ s \notin Before(h, s) /\ Before(h, h) = {}
BY TableAssumption DEF Before, Slots

(* Of two slots a probe meets one before the other. *)
LEMMA BeforeTotal ==
  ASSUME NEW h \in Slots, NEW s \in Slots, NEW r \in Slots, s # r
  PROVE  s \in Before(h, r) \/ r \in Before(h, s)
BY TableAssumption DEF Before, Slots

LEMMA BeforeCount ==
  ASSUME NEW h \in Slots, NEW s \in Slots
  PROVE  IsFiniteSet(Before(h, s)) /\ Cardinality(Before(h, s)) = Dist(h, s)
<1> USE TableAssumption DEF Slots
<1>1. CASE h <= s
  <2>1. Before(h, s) = h .. s - 1  BY <1>1 DEF Before
  <2>2. h \in Int /\ s - 1 \in Int  OBVIOUS
  <2>3. IsFiniteSet(h .. s - 1)
        /\ Cardinality(h .. s - 1) = IF h > s - 1 THEN 0 ELSE (s - 1) - h + 1
    BY <2>2, FS_Interval
  <2> QED  BY <1>1, <2>1, <2>3 DEF Dist
<1>2. CASE h > s
  <2> DEFINE high == h .. Capacity - 1
             low == 0 .. s - 1
  <2>1. Before(h, s) = high \cup low /\ high \cap low = {}  BY <1>2 DEF Before
  <2>2. IsFiniteSet(high) /\ Cardinality(high) = Capacity - h
    BY FS_Interval
  <2>3. IsFiniteSet(low) /\ Cardinality(low) = s
    BY FS_Interval
  <2>4. IsFiniteSet(high \cup low)
        /\ Cardinality(high \cup low) =
             Cardinality(high) + Cardinality(low) - Cardinality(high \cap low)
    BY <2>2, <2>3, FS_Union
  <2>5. Cardinality(high \cap low) = 0  BY <2>1, FS_EmptySet
  <2> QED  BY <1>2, <2>1, <2>2, <2>3, <2>4, <2>5 DEF Dist
<1> QED  BY <1>1, <1>2

(* A slot is as many steps from home as it has slots before it. *)
LEMMA DistSlot ==
  ASSUME NEW h \in Slots, NEW s \in Slots
  PROVE  Dist(h, s) \in Nat /\ (h + Dist(h, s)) % Capacity = s
<1> USE TableAssumption DEF Slots
<1>1. CASE h <= s
  <2>1. h + Dist(h, s) = s  BY <1>1 DEF Dist
  <2>2. s % Capacity = s  OBVIOUS
  <2> QED  BY <1>1, <2>1, <2>2 DEF Dist
<1>2. CASE h > s
  <2>1. h + Dist(h, s) = s + Capacity  BY <1>2 DEF Dist
  <2>2. (s + Capacity) % Capacity = s  OBVIOUS
  <2> QED  BY <1>2, <2>1, <2>2 DEF Dist
<1> QED  BY <1>1, <1>2

LEMMA PairsFinite == IsFiniteSet(Pairs) /\ Cardinality(Pairs) \in Nat
<1>1. IsFiniteSet(Threads \X Names)  BY FiniteAssumption, FS_Product
<1>2. Pairs \in SUBSET (Threads \X Names)  BY DEF Pairs
<1> QED  BY <1>1, <1>2, FS_Subset, FS_CardinalityType

(* A probe that has passed slots of different pairs, its own not among     *)
(* them, is in reach.                                                      *)
LEMMA InReach ==
  ASSUME NEW n \in Names, NEW s \in Slots, NEW p \in Pairs, NEW own,
         \A r \in Before(Home[n], s) : own[r] \in Pairs \ {p},
         \A q, r \in Before(Home[n], s) : own[q] = own[r] => q = r
  PROVE  s \in Reach(n)
<1> DEFINE S == Before(Home[n], s)
           T == Pairs \ {p}
           f == [r \in S |-> own[r]]
<1>1. Home[n] \in Slots  BY TableAssumption
<1>2. IsFiniteSet(T) /\ Cardinality(T) = Cardinality(Pairs) - 1
  BY PairsFinite, FS_RemoveElement
<1>3. f \in Injection(S, T)  BY DEF Injection, IsInjective
<1>4. Cardinality(S) <= Cardinality(T)  BY <1>2, <1>3, FS_Injection
<1>5. Cardinality(S) = Dist(Home[n], s)  BY <1>1, BeforeCount
<1>6. Dist(Home[n], s) \in 0 .. Cardinality(Pairs) - 1
  BY <1>1, <1>2, <1>4, <1>5, DistSlot, PairsFinite
<1> QED  BY <1>1, <1>6, DistSlot DEF Reach

LEMMA HomeInReach ==
  ASSUME NEW n \in Names, NEW p \in Pairs
  PROVE  Home[n] \in Reach(n) /\ Reach(n) \subseteq Slots
<1>1. Home[n] \in Slots  BY TableAssumption
<1>2. Before(Home[n], Home[n]) = {}  BY <1>1, BeforeSlots
<1>3. Home[n] \in Reach(n)  BY <1>1, <1>2, InReach
<1>4. \A k \in Nat : k % Capacity \in 0 .. Capacity - 1  BY TableAssumption
<1>5. Home[n] \in Nat  BY <1>1 DEF Slots
<1> QED  BY <1>3, <1>4, <1>5 DEF Reach, Slots
-----------------------------------------------------------------------------
(***************************************************************************)
(* The inductive invariant of the table.  Every bucket in use is owned by  *)
(* a pair of a thread and a name: the thread that wrote the key of its     *)
(* entry last, or that is about to write it.  No pair owns two buckets, as *)
(* a thread does not put a name that it would find.  So a probe passes no  *)
(* more buckets than there are other pairs.                                *)
(***************************************************************************)
Occupied == {s \in Slots : buckets[s] # Null}
Key(s) == entries[buckets[s]].key

Missed  == {"put", "found", "free", "alloc"}
Probing == {"get", "got"} \cup Missed
Placed  == {"increment", "key", "value"}

Pair(t) == <<t, Name(t)>>

(* A call that has not been made, or has no entry yet. *)
Unmade(e) == e[2] > Len(calls[e[1]]) \/ (e = Call(e[1]) /\ pc[e[1]] \in Probing)

(* An entry is in one bucket at most, and in none before its call has made it. *)
EntriesOK ==
  /\ \A s, r \in Occupied : buckets[s] = buckets[r] => s = r
  /\ \A e \in Calls : Unmade(e) =>
       /\ entries[e].key = NoName
       /\ \A s \in Occupied : buckets[s] # e
       /\ \A t \in Threads : pc[t] = "increment" => ptr[t] # e

(* Thread t is about to write the key of the entry it has put into s. *)
Half(t, s) == pc[t] = "key" /\ i[t] = s /\ buckets[s] = Call(t)

SlotOK(own, s) ==
  /\ own[s] \in Pairs /\ Before(Home[own[s][2]], s) \subseteq Occupied
  /\ \/ Key(s) = own[s][2]
     \/ Key(s) = NoName /\ \E t \in Threads : own[s] = Pair(t) /\ Half(t, s)

(* What a thread has passed, and where the entry is that it works on. *)
TrailOK(t) ==
  /\ \A k \in DOMAIN calls[t] : calls[t][k] \in Uses[t]
  /\ pc[t] \in Probing \cup Placed => Before(Home[Name(t)], i[t]) \subseteq Occupied
  /\ pc[t] \in Placed => i[t] \in Occupied
  /\ pc[t] \in {"key", "value"} => \A s \in Occupied : buckets[s] = Call(t) => s = i[t]
  /\ pc[t] = "increment" => \A s \in Occupied : buckets[s] = ptr[t] => s = i[t]

OwnsOK(own, t) ==
  /\ pc[t] \in {"get", "got"} => \A s \in Before(Home[Name(t)], i[t]) : own[s] # Pair(t)
  /\ pc[t] \in Missed => \A s \in Occupied : own[s] # Pair(t)
  /\ pc[t] = "key" => \A s \in Occupied : own[s] = Pair(t) => s = i[t]

(* The slots that no other thread comes to. *)
Mine(t) == {s \in Slots : \E n \in Names : Private(n, t) /\ s \in Reach(n)}

(* There a thread finds what it has left. *)
MineOK(t) ==
  i[t] \in Mine(t) =>
    /\ pc[t] \in {"got", "found"} => i[t] \notin Occupied \/ Key(i[t]) = Name(t)
    /\ pc[t] = "increment" =>
         ptr[t] = buckets[i[t]] /\ Key(i[t]) = Name(t) /\ tmp[t] = entries[ptr[t]].value
    /\ pc[t] = "alloc" => i[t] \notin Occupied
    /\ pc[t] \in {"key", "value"} => buckets[i[t]] = Call(t)
    /\ pc[t] = "key" => Key(i[t]) = NoName
    /\ pc[t] = "value" => Key(i[t]) = Name(t)

(* The calls of n by t that have been counted. *)
Done(n, t) == Times(n, calls[t]) - (IF pc[t] \in Pending /\ Name(t) = n THEN 1 ELSE 0)

ValueOK(own, n, t) ==
  /\ \A s \in Occupied : own[s] = <<t, n>> =>
       IF pc[t] \in {"key", "value"} /\ Name(t) = n THEN Done(n, t) = 0
       ELSE entries[buckets[s]].value = Done(n, t) /\ Done(n, t) >= 1
  /\ (\A s \in Occupied : own[s] # <<t, n>>) => Done(n, t) = 0

ThreadOK(own, t) == TrailOK(t) /\ OwnsOK(own, t) /\ MineOK(t)

Owned(own) ==
  /\ \A s, r \in Occupied : own[s] = own[r] => s = r
  /\ \A s \in Occupied : SlotOK(own, s)
  /\ \A t \in Threads : ThreadOK(own, t)
  /\ \A t \in Threads, n \in Names : Private(n, t) => ValueOK(own, n, t)

Owners == [Slots -> (Threads \X Names) \cup {Null}]

TableInv == IInv /\ EntriesOK /\ \E own \in Owners : Owned(own)
-----------------------------------------------------------------------------
(***************************************************************************)
(* What follows of the places a thread is at.                              *)
(***************************************************************************)
LEMMA PairOfCall ==
  ASSUME IInv, NEW own, NEW t \in Threads, ThreadOK(own, t), pc[t] \in Pending
  PROVE  /\ Pair(t) \in Pairs /\ Name(t) \in Uses[t] /\ Name(t) \in Names
         /\ i[t] \in Slots /\ Home[Name(t)] \in Slots /\ Call(t) \in Calls
<1>1. Name(t) \in Names /\ i[t] \in Slots /\ Home[Name(t)] \in Slots /\ Call(t) \in Calls
  BY CallInCalls DEF IInv
<1>2. Len(calls[t]) \in DOMAIN calls[t]
  <2>1. calls[t] \in Seq(Names) /\ Len(calls[t]) \in 1 .. MaxCalls
    BY DEF IInv, TypeOK, InPlace, Pending
  <2> QED  BY <2>1, BoundsAssumption
<1>3. Name(t) \in Uses[t]  BY <1>2 DEF ThreadOK, TrailOK, Name
<1> QED  BY <1>1, <1>3 DEF Pair, Pairs

(* The slots in use and the probes are in reach of their names. *)
LEMMA SlotReach ==
  ASSUME NEW own, Owned(own), NEW s \in Occupied
  PROVE  s \in Reach(own[s][2]) /\ own[s][2] \in Uses[own[s][1]]
         /\ own[s][1] \in Threads /\ own[s][2] \in Names
<1> DEFINE n == own[s][2]
<1>1. own[s] \in Pairs /\ Before(Home[n], s) \subseteq Occupied  BY DEF Owned, SlotOK
<1>2. n \in Names /\ own[s][1] \in Threads /\ n \in Uses[own[s][1]]
  BY <1>1 DEF Pairs
<1>3. Home[n] \in Slots /\ s \in Slots  BY <1>2, TableAssumption DEF Occupied
<1>4. s \notin Before(Home[n], s)  BY <1>3, BeforeSlots
<1>5. \A r \in Before(Home[n], s) : own[r] \in Pairs \ {own[s]}
  BY <1>1, <1>4 DEF Owned, SlotOK
<1>6. \A q, r \in Before(Home[n], s) : own[q] = own[r] => q = r
  BY <1>1 DEF Owned
<1>7. s \in Reach(n)  BY <1>1, <1>2, <1>3, <1>5, <1>6, InReach
<1> QED  BY <1>2, <1>7

LEMMA ProbeReach ==
  ASSUME IInv, NEW own, Owned(own), NEW t \in Threads, pc[t] \in Pending
  PROVE  i[t] \in Reach(Name(t))
<1> DEFINE n == Name(t)
<1>1. ThreadOK(own, t)  BY DEF Owned
<1>2. Pair(t) \in Pairs /\ n \in Names /\ i[t] \in Slots  BY <1>1, PairOfCall
<1>3. pc[t] \in Probing \cup Placed /\ Before(Home[n], i[t]) \subseteq Occupied
  BY <1>1 DEF ThreadOK, TrailOK, Pending, Probing, Placed, Missed
<1>4. \A r \in Before(Home[n], i[t]) : own[r] \in Pairs  BY <1>3 DEF Owned, SlotOK
<1>5. \A q, r \in Before(Home[n], i[t]) : own[q] = own[r] => q = r  BY <1>3 DEF Owned
<1>6. CASE pc[t] \in Probing
  <2>1. \A r \in Before(Home[n], i[t]) : own[r] # Pair(t)
    BY <1>1, <1>3, <1>6 DEF ThreadOK, OwnsOK, Probing
  <2> QED  BY <1>2, <1>4, <1>5, <2>1, InReach
<1>7. CASE pc[t] \in Placed
  <2>1. i[t] \in Occupied /\ own[i[t]] \in Pairs
    BY <1>1, <1>7 DEF ThreadOK, TrailOK, Owned, SlotOK
  <2>2. Home[n] \in Slots /\ i[t] \notin Before(Home[n], i[t])
    BY <1>2, TableAssumption, BeforeSlots
  <2>3. \A r \in Before(Home[n], i[t]) : own[r] # own[i[t]]
    BY <1>3, <2>1, <2>2 DEF Owned
  <2> QED  BY <1>2, <1>4, <1>5, <2>1, <2>3, InReach
<1> QED  BY <1>3, <1>6, <1>7

(* The slots of a private name are no other thread's. *)
LEMMA MineApart ==
  ASSUME NEW t \in Threads, NEW u \in Threads, NEW m \in Uses[u],
         NEW s \in Mine(t), s \in Reach(m)
  PROVE  u = t
BY DEF Mine, Private

LEMMA MineOwned ==
  ASSUME NEW own, Owned(own), NEW t \in Threads, NEW s \in Occupied, s \in Mine(t)
  PROVE  own[s][1] = t
BY SlotReach, MineApart

LEMMA MineVisited ==
  ASSUME IInv, NEW own, Owned(own), NEW t \in Threads,
         NEW u \in Threads, pc[u] \in Pending, i[u] \in Mine(t)
  PROVE  u = t
<1>1. ThreadOK(own, u)  BY DEF Owned
<1>2. Name(u) \in Uses[u]  BY <1>1, PairOfCall
<1> QED  BY <1>2, ProbeReach, MineApart

(* A private name is only called by its thread, which owns its slots. *)
LEMMA PrivateUses ==
  ASSUME NEW n \in Names, NEW t \in Threads, Private(n, t),
         NEW u \in Threads, n \in Uses[u]
  PROVE  u = t
<1>1. <<t, n>> \in Pairs  BY DEF Private, Pairs
<1>2. Home[n] \in Reach(n)  BY <1>1, HomeInReach
<1> QED  BY <1>2 DEF Private

LEMMA PrivateOwned ==
  ASSUME NEW own, Owned(own), NEW n \in Names, NEW t \in Threads, Private(n, t),
         NEW s \in Occupied, own[s][2] = n
  PROVE  own[s] = <<t, n>> /\ s \in Mine(t)
<1>1. s \in Reach(n) /\ own[s][1] = t  BY SlotReach, PrivateUses
<1>2. own[s] \in Pairs  BY DEF Owned, SlotOK
<1>3. own[s] = <<t, n>>  BY <1>1, <1>2 DEF Pairs
<1> QED  BY <1>1, <1>3 DEF Mine, Occupied

(* A probe that has come to a null bucket has shown that its pair owns none. *)
LEMMA MissMeansNone ==
  ASSUME IInv, NEW own, Owned(own), NEW t \in Threads, pc[t] \in Probing,
         i[t] \notin Occupied
  PROVE  \A s \in Occupied : own[s] # Pair(t)
<1> SUFFICES ASSUME NEW s \in Occupied, own[s] = Pair(t) PROVE FALSE
  OBVIOUS
<1> DEFINE h == Home[Name(t)]
<1>1. ThreadOK(own, t)  BY DEF Owned
<1>2. i[t] \in Slots /\ h \in Slots /\ s \in Slots
  BY <1>1, PairOfCall DEF Occupied, Pending, Probing, Missed
<1>3. own[s][2] = Name(t)  BY DEF Pair
<1>4. i[t] \notin Before(h, s) /\ i[t] # s  BY <1>3 DEF Owned, SlotOK
<1>5. s \in Before(h, i[t])  BY <1>2, <1>4, BeforeTotal
<1> QED  BY <1>1, <1>5 DEF ThreadOK, OwnsOK, Probing
-----------------------------------------------------------------------------
(***************************************************************************)
(* Steps that leave the table alone.                                       *)
(***************************************************************************)
SameLocals(u) ==
  /\ pc'[u] = pc[u] /\ calls'[u] = calls[u] /\ i'[u] = i[u]
  /\ ptr'[u] = ptr[u] /\ tmp'[u] = tmp[u]

LEMMA SameThread ==
  ASSUME UNCHANGED table, NEW own, NEW u \in Threads, SameLocals(u), ThreadOK(own, u)
  PROVE  ThreadOK(own, u)'
<1> USE DEF SameLocals, ThreadOK, table
<1>1. Occupied' = Occupied /\ Name(u)' = Name(u) /\ Pair(u)' = Pair(u) /\ Call(u)' = Call(u)
  BY DEF Occupied, Name, Pair, Call
<1>2. TrailOK(u)'  BY <1>1 DEF TrailOK, Before
<1>3. OwnsOK(own, u)'  BY <1>1 DEF OwnsOK, Before
<1>4. MineOK(u)'  BY <1>1 DEF MineOK, Mine, Key
<1> QED  BY <1>2, <1>3, <1>4

LEMMA SameDone ==
  ASSUME NEW u \in Threads, SameLocals(u), NEW n
  PROVE  Done(n, u)' = Done(n, u) /\ Name(u)' = Name(u) /\ Call(u)' = Call(u)
BY DEF SameLocals, Done, Name, Call, Times

LEMMA Quiet ==
  ASSUME EntriesOK, NEW own, Owned(own), UNCHANGED table, NEW t \in Threads,
         \A u \in Threads \ {t} : SameLocals(u),
         pc[t] \notin {"key", "value"}, pc'[t] \notin {"key", "value"},
         \A e \in Calls : Unmade(e)' => Unmade(e),
         \A n \in Names : Done(n, t)' = Done(n, t),
         pc'[t] = "increment" => \E s \in Occupied : buckets[s] = ptr'[t],
         ThreadOK(own, t)'
  PROVE  EntriesOK' /\ Owned(own)'
<1>1. Occupied' = Occupied /\ \A s : Key(s)' = Key(s)
  BY DEF Occupied, Key, table
<1>2. EntriesOK'
  <2> SUFFICES ASSUME NEW e \in Calls, Unmade(e), NEW u \in Threads, pc'[u] = "increment"
               PROVE  ptr'[u] # e
    BY <1>1 DEF EntriesOK, table
  <2>1. CASE u = t  BY <2>1 DEF EntriesOK
  <2>2. CASE u # t  BY <2>2 DEF EntriesOK, SameLocals
  <2> QED  BY <2>1, <2>2
<1>3. \A u \in Threads : ThreadOK(own, u)'
  <2> SUFFICES ASSUME NEW u \in Threads \ {t} PROVE ThreadOK(own, u)'
    OBVIOUS
  <2>1. ThreadOK(own, u)  BY DEF Owned
  <2> QED  BY <2>1, SameThread
<1>4. ASSUME NEW s \in Occupied PROVE SlotOK(own, s)'
  <2>1. SlotOK(own, s)  BY DEF Owned
  <2>2. ASSUME NEW u \in Threads, own[s] = Pair(u), Half(u, s)
        PROVE  own[s] = Pair(u)' /\ Half(u, s)'
    <3>1. u # t  BY <2>2 DEF Half
    <3>2. SameLocals(u)  BY <3>1
    <3> QED  BY <2>2, <3>2 DEF SameLocals, Half, Pair, Name, Call, table
  <2> QED  BY <1>1, <2>1, <2>2 DEF SlotOK, Before
<1>5. ASSUME NEW u \in Threads, NEW n \in Names, Private(n, u) PROVE ValueOK(own, n, u)'
  <2>1. ValueOK(own, n, u)  BY <1>5 DEF Owned
  <2>2. UNCHANGED <<buckets, entries>>  BY DEF table
  <2>3. CASE u = t
    <3>1. Done(n, u)' = Done(n, u)  BY <2>3
    <3> QED  BY <1>1, <2>1, <2>2, <2>3, <3>1 DEF ValueOK
  <2>4. CASE u # t
    <3>1. SameLocals(u)  BY <2>4
    <3>2. Done(n, u)' = Done(n, u) /\ Name(u)' = Name(u)  BY <3>1, SameDone
    <3> QED  BY <1>1, <2>1, <2>2, <3>1, <3>2 DEF ValueOK, SameLocals
  <2> QED  BY <2>3, <2>4
<1> QED  BY <1>1, <1>2, <1>3, <1>4, <1>5 DEF Owned

(* The step of a thread that goes on with the call it is in. *)
LEMMA SameCalls ==
  ASSUME UNCHANGED calls, NEW t \in Threads, \A u \in Threads \ {t} : pc'[u] = pc[u],
         pc'[t] \in Probing => pc[t] \in Probing,
         pc'[t] \in Pending <=> pc[t] \in Pending
  PROVE  /\ \A e \in Calls : Unmade(e)' => Unmade(e)
         /\ \A n : Done(n, t)' = Done(n, t)
         /\ Name(t)' = Name(t) /\ Pair(t)' = Pair(t) /\ Call(t)' = Call(t)
<1>1. Name(t)' = Name(t) /\ \A u : Call(u)' = Call(u)  BY DEF Name, Call
<1>2. \A e \in Calls : Unmade(e)' => Unmade(e)
  <2> SUFFICES ASSUME NEW e \in Calls, Unmade(e)' PROVE Unmade(e)
    OBVIOUS
  <2>1. e[1] \in Threads  BY DEF Calls
  <2> QED  BY <1>1, <2>1 DEF Unmade
<1>3. \A n : Done(n, t)' = Done(n, t)  BY <1>1 DEF Done, Times
<1> QED  BY <1>1, <1>2, <1>3 DEF Pair
-----------------------------------------------------------------------------
(***************************************************************************)
(* The steps of a call up to the one that stores.                          *)
(***************************************************************************)
LEMMA TimesAppend ==
  ASSUME NEW s \in Seq(Names), NEW x \in Names, NEW n
  PROVE  /\ Times(n, s) \in Nat
         /\ Times(n, Append(s, x)) = Times(n, s) + (IF x = n THEN 1 ELSE 0)
<1> DEFINE S == {k \in DOMAIN s : s[k] = n}
           more == {k \in DOMAIN Append(s, x) : Append(s, x)[k] = n}
           last == Len(s) + 1
<1>1. Len(s) \in Nat /\ DOMAIN s = 1 .. Len(s)  OBVIOUS
<1>2. IsFiniteSet(1 .. Len(s))  BY <1>1, FS_Interval
<1>3. S \in SUBSET (1 .. Len(s))  BY <1>1
<1>4. IsFiniteSet(S) /\ Cardinality(S) \in Nat
  BY <1>2, <1>3, FS_Subset, FS_CardinalityType
<1>5. last \notin S  BY <1>1
<1>6. DOMAIN Append(s, x) = 1 .. last /\ Append(s, x)[last] = x
      /\ \A k \in 1 .. Len(s) : Append(s, x)[k] = s[k]
  BY <1>1
<1>7. more = IF x = n THEN S \cup {last} ELSE S
  BY <1>1, <1>6
<1>8. Cardinality(more) = Cardinality(S) + (IF x = n THEN 1 ELSE 0)
  <2> HIDE DEF S, more
  <2>1. Cardinality(S \cup {last}) = Cardinality(S) + 1
    BY <1>4, <1>5, FS_AddElement
  <2> QED  BY <1>4, <1>7, <2>1
<1> QED  BY <1>4, <1>8 DEF Times

LEMMA BeginTable ==
  ASSUME IInv, EntriesOK, NEW own, Owned(own), NEW t \in Threads, BeforeInterfaceCall(t)
  PROVE  EntriesOK' /\ Owned(own)'
<1>1. PICK n \in Uses[t] : /\ calls' = [calls EXCEPT ![t] = Append(@, n)]
                           /\ i' = [i EXCEPT ![t] = Home[n]]
  BY DEF BeforeInterfaceCall
<1>2. /\ pc[t] = "idle" /\ pc' = [pc EXCEPT ![t] = "get"] /\ UNCHANGED <<table, ptr, tmp>>
  BY DEF BeforeInterfaceCall, Goto
<1>3. n \in Names /\ Home[n] \in Slots  BY ThreadsAssumption, TableAssumption
<1>4. calls[t] \in Seq(Names) /\ Len(calls[t]) \in Nat  BY DEF IInv, TypeOK
<1>5. calls'[t] = Append(calls[t], n) /\ i'[t] = Home[n] /\ pc'[t] = "get"
  BY <1>1, <1>2 DEF IInv, TypeOK
<1>6. /\ Len(calls'[t]) = Len(calls[t]) + 1 /\ Name(t)' = n
      /\ DOMAIN calls'[t] = 1 .. Len(calls[t]) + 1
      /\ DOMAIN calls[t] = 1 .. Len(calls[t])
      /\ \A k \in 1 .. Len(calls[t]) : calls'[t][k] = calls[t][k]
  BY <1>3, <1>4, <1>5 DEF Name
<1>7. \A u \in Threads \ {t} : SameLocals(u)
  BY <1>1, <1>2 DEF SameLocals, IInv, TypeOK
<1>8. ASSUME NEW e \in Calls, Unmade(e)' PROVE Unmade(e)
  <2>1. e[1] \in Threads /\ e[2] \in Nat  BY DEF Calls
  <2>2. CASE e[1] = t
    <3>1. Call(t)'[2] = Len(calls[t]) + 1  BY <1>6 DEF Call
    <3>2. e[2] >= Len(calls[t]) + 1  BY <1>4, <1>6, <1>8, <2>1, <2>2, <3>1 DEF Unmade
    <3> QED  BY <1>4, <2>1, <2>2, <3>2 DEF Unmade
  <2>3. CASE e[1] # t
    <3>1. SameLocals(e[1])  BY <1>7, <2>1, <2>3
    <3> QED  BY <1>8, <3>1 DEF Unmade, SameLocals, Call
  <2> QED  BY <2>2, <2>3
<1>9. \A m \in Names : Done(m, t)' = Done(m, t)
  <2> SUFFICES ASSUME NEW m \in Names PROVE Done(m, t)' = Done(m, t)
    OBVIOUS
  <2>1. Times(m, calls'[t]) = Times(m, calls[t]) + (IF n = m THEN 1 ELSE 0)
        /\ Times(m, calls[t]) \in Nat
    BY <1>3, <1>4, <1>5, TimesAppend
  <2>2. Done(m, t)' = Times(m, calls'[t]) - (IF n = m THEN 1 ELSE 0)
    BY <1>5, <1>6 DEF Done, Pending, Times
  <2>3. Done(m, t) = Times(m, calls[t])
    BY <1>2, <2>1 DEF Done, Pending
  <2> QED  BY <2>1, <2>2, <2>3
<1>10. ThreadOK(own, t)'
  <2>1. Before(Home[n], Home[n]) = {}  BY <1>3, BeforeSlots
  <2>2. TrailOK(t)'
    <3>1. \A k \in DOMAIN calls'[t] : calls'[t][k] \in Uses[t]
      <4>1. \A k \in DOMAIN calls[t] : calls[t][k] \in Uses[t]
        BY DEF Owned, ThreadOK, TrailOK
      <4> QED  BY <1>4, <1>5, <1>6, <4>1
    <3> QED  BY <1>5, <1>6, <2>1, <3>1 DEF TrailOK, Before, Placed
  <2>3. OwnsOK(own, t)'
    BY <1>5, <1>6, <2>1 DEF OwnsOK, Before, Missed
  <2>4. MineOK(t)'  BY <1>5 DEF MineOK
  <2> QED  BY <2>2, <2>3, <2>4 DEF ThreadOK
<1>11. pc[t] \notin {"key", "value"} /\ pc'[t] \notin {"key", "value"}
  BY <1>2, <1>5
<1> QED  BY <1>2, <1>7, <1>8, <1>9, <1>10, <1>11, Quiet

(* A turn or the end of a probe, and what dies of a null key. *)
LEMMA HitTable ==
  ASSUME IInv, EntriesOK, NEW own, Owned(own), NEW t \in Threads,
         NEW from, NEW to, ProbeForHit(t, from, to),
         <<from, to>> \in {<<"get", "got">>, <<"put", "found">>}
  PROVE  EntriesOK' /\ Owned(own)'
<1> DEFINE h == Home[Name(t)]
<1>1. pc[t] = from /\ UNCHANGED <<table, calls, ptr, tmp>> /\ pc[t] \in {"get", "put"}
  BY DEF ProbeForHit, At
<1>2. ThreadOK(own, t)  BY DEF Owned
<1>3. /\ Pair(t) \in Pairs /\ Name(t) \in Names /\ i[t] \in Slots /\ h \in Slots
  BY <1>1, <1>2, PairOfCall DEF Pending
<1>4. Before(h, i[t]) \subseteq Occupied
  BY <1>1, <1>2 DEF ThreadOK, TrailOK, Probing, Missed
<1>5. Occupied' = Occupied /\ Key(i[t])' = entries[buckets[i'[t]]].key
  BY <1>1 DEF Occupied, Key, table
<1>6. CASE /\ i[t] \in Occupied /\ Key(i[t]) \notin {Name(t), NoName}
           /\ i' = [i EXCEPT ![t] = Succ(@)] /\ UNCHANGED pc
  <2>1. i'[t] = Succ(i[t]) /\ pc'[t] = pc[t]  BY <1>6 DEF IInv, TypeOK
  <2>2. \A u \in Threads \ {t} : SameLocals(u)
    BY <1>1, <1>6 DEF SameLocals, IInv, TypeOK
  <2>3. /\ \A e \in Calls : Unmade(e)' => Unmade(e)
        /\ \A n : Done(n, t)' = Done(n, t)
        /\ Name(t)' = Name(t) /\ Pair(t)' = Pair(t) /\ Call(t)' = Call(t)
    BY <1>1, <1>6, SameCalls
  <2>4. Before(h, Succ(i[t])) \subseteq Before(h, i[t]) \cup {i[t]}
    BY <1>3, BeforeSucc
  <2>5. own[i[t]] # Pair(t)
    <3>1. own[i[t]][2] # Name(t)
      BY <1>6 DEF Owned, SlotOK
    <3> QED  BY <3>1 DEF Pair
  <2>6. TrailOK(t)'
    BY <1>1, <1>2, <1>4, <1>5, <1>6, <2>1, <2>3, <2>4
    DEF ThreadOK, TrailOK, Before, Placed
  <2>7. OwnsOK(own, t)'
    BY <1>1, <1>2, <1>5, <2>1, <2>3, <2>4, <2>5 DEF ThreadOK, OwnsOK, Before
  <2>8. MineOK(t)'
    BY <1>1, <2>1 DEF MineOK
  <2> QED
    BY <1>1, <2>1, <2>2, <2>3, <2>6, <2>7, <2>8, Quiet DEF ThreadOK
<1>7. CASE /\ i[t] \in Occupied => Key(i[t]) = Name(t)
           /\ pc' = [pc EXCEPT ![t] = to] /\ UNCHANGED i
  <2>1. i'[t] = i[t] /\ pc'[t] = to /\ to \in {"got", "found"}
    BY <1>7 DEF IInv, TypeOK
  <2>2. \A u \in Threads \ {t} : SameLocals(u)
    BY <1>1, <1>7 DEF SameLocals, IInv, TypeOK
  <2>3. /\ \A e \in Calls : Unmade(e)' => Unmade(e)
        /\ \A n : Done(n, t)' = Done(n, t)
        /\ Name(t)' = Name(t) /\ Pair(t)' = Pair(t) /\ Call(t)' = Call(t)
    <3>1. \A u \in Threads \ {t} : pc'[u] = pc[u]  BY <2>2 DEF SameLocals
    <3>2. pc[t] \in Probing /\ (pc'[t] \in Pending <=> pc[t] \in Pending)
      BY <1>1, <2>1 DEF Probing, Missed, Pending
    <3> QED  BY <1>1, <3>1, <3>2, SameCalls
  <2>4. TrailOK(t)'
    BY <1>1, <1>2, <1>4, <1>5, <2>1, <2>3 DEF ThreadOK, TrailOK, Before, Placed
  <2>5. OwnsOK(own, t)'
    BY <1>1, <1>2, <1>5, <2>1, <2>3 DEF ThreadOK, OwnsOK, Before, Missed
  <2>6. MineOK(t)'
    BY <1>1, <1>5, <1>7, <2>1, <2>3 DEF MineOK, Key, Occupied, table
  <2> QED
    BY <1>1, <2>1, <2>2, <2>3, <2>4, <2>5, <2>6, Quiet DEF ThreadOK
<1>8. CASE UNCHANGED <<pc, i>>
  <2>1. \A u \in Threads : SameLocals(u)  BY <1>1, <1>8 DEF SameLocals
  <2>2. /\ \A e \in Calls : Unmade(e)' => Unmade(e)
        /\ \A n : Done(n, t)' = Done(n, t)
    BY <1>1, <1>8, SameCalls
  <2>3. ThreadOK(own, t)'  BY <1>1, <1>2, <2>1, SameThread
  <2> QED  BY <1>1, <1>8, <2>1, <2>2, <2>3, Quiet
<1> QED
  BY <1>3, <1>6, <1>7, <1>8 DEF ProbeForHit, Goto, Key, Occupied


(* The ends of the probes. *)
LEMMA GetTable ==
  ASSUME IInv, EntriesOK, NEW own, Owned(own), NEW t \in Threads,
         GetHit(t) \/ GetMiss(t) \/ PutMiss(t)
  PROVE  EntriesOK' /\ Owned(own)'
<1> DEFINE h == Home[Name(t)]
<1>1. /\ pc[t] \in {"got", "found"} /\ UNCHANGED <<table, calls>>
      /\ pc[t] \in Probing /\ pc[t] \in Pending
  BY DEF GetHit, GetMiss, PutMiss, At, Probing, Missed, Pending
<1>2. ThreadOK(own, t)  BY DEF Owned
<1>3. /\ Name(t) \in Names /\ i[t] \in Slots /\ h \in Slots
  BY <1>1, <1>2, PairOfCall
<1>4. Before(h, i[t]) \subseteq Occupied
  BY <1>1, <1>2 DEF ThreadOK, TrailOK
<1>5. Occupied' = Occupied  BY <1>1 DEF Occupied, table
<1>6. \A u \in Threads \ {t} : SameLocals(u)
  BY <1>1 DEF GetHit, GetMiss, PutMiss, Goto, SameLocals, IInv, TypeOK
<1>7. pc'[t] \in {"increment", "put", "free"}
  BY DEF GetHit, GetMiss, PutMiss, Goto, IInv, TypeOK
<1>8. /\ \A e \in Calls : Unmade(e)' => Unmade(e)
      /\ \A n : Done(n, t)' = Done(n, t)
      /\ Name(t)' = Name(t) /\ Pair(t)' = Pair(t) /\ Call(t)' = Call(t)
  <2>1. \A u \in Threads \ {t} : pc'[u] = pc[u]  BY <1>6 DEF SameLocals
  <2>2. pc'[t] \in Pending  BY <1>7 DEF Pending
  <2> QED  BY <1>1, <2>1, <2>2, SameCalls
<1>9. ThreadOK(own, t)'
  <2>1. CASE GetHit(t)
    <3> DEFINE e == buckets[i[t]]
    <3>1. /\ pc'[t] = "increment" /\ i'[t] = i[t] /\ i[t] \in Occupied
          /\ ptr'[t] = e /\ tmp'[t] = entries[e].value /\ pc[t] = "got"
      BY <1>3, <2>1 DEF GetHit, Goto, At, IInv, TypeOK, Occupied
    <3>2. TrailOK(t)'
      <4>1. \A s \in Occupied : buckets[s] = e => s = i[t]
        BY <3>1 DEF EntriesOK
      <4> QED
        BY <1>1, <1>2, <1>4, <1>5, <1>8, <3>1, <4>1
        DEF ThreadOK, TrailOK, Before, table
    <3>3. OwnsOK(own, t)'  BY <3>1 DEF OwnsOK, Missed
    <3>4. MineOK(t)'
      <4>1. i[t] \in Mine(t) => Key(i[t]) = Name(t)
        BY <1>2, <3>1 DEF ThreadOK, MineOK
      <4>2. Mine(t)' = Mine(t) /\ Key(i[t])' = Key(i[t])
        BY <1>1, <3>1 DEF Mine, Key, table
      <4>3. buckets' = buckets /\ entries' = entries  BY <1>1 DEF table
      <4> QED  BY <1>8, <3>1, <4>1, <4>2, <4>3 DEF MineOK
    <3> QED  BY <3>2, <3>3, <3>4 DEF ThreadOK
  <2>2. CASE GetMiss(t) \/ PutMiss(t)
    <3>1. pc'[t] \in {"put", "free"} /\ i'[t] = h /\ i[t] \notin Occupied
      BY <1>3, <2>2 DEF GetMiss, PutMiss, Goto, IInv, TypeOK, Occupied
    <3>2. \A s \in Occupied : own[s] # Pair(t)
      BY <1>1, <3>1, MissMeansNone
    <3>3. Before(h, h) = {}  BY <1>3, BeforeSlots
    <3>4. TrailOK(t)'
      BY <1>1, <1>2, <1>8, <3>1, <3>3 DEF ThreadOK, TrailOK, Before, Placed
    <3>5. OwnsOK(own, t)'
      BY <1>5, <1>8, <3>1, <3>2 DEF OwnsOK
    <3>6. MineOK(t)'  BY <3>1 DEF MineOK
    <3> QED  BY <3>4, <3>5, <3>6 DEF ThreadOK
  <2> QED  BY <2>1, <2>2
<1>10. pc[t] \notin {"key", "value"} /\ pc'[t] \notin {"key", "value"}
  BY <1>1, <1>7
<1>11. pc'[t] = "increment" => \E s \in Occupied : buckets[s] = ptr'[t]
  BY <1>3 DEF GetHit, GetMiss, PutMiss, Goto, IInv, TypeOK, Occupied
<1> QED  BY <1>1, <1>6, <1>8, <1>9, <1>10, <1>11, Quiet

LEMMA FreeTable ==
  ASSUME IInv, EntriesOK, NEW own, Owned(own), NEW t \in Threads, ProbeForFree(t)
  PROVE  EntriesOK' /\ Owned(own)'
<1> DEFINE h == Home[Name(t)]
<1>1. pc[t] = "free" /\ UNCHANGED <<table, calls, ptr, tmp>>
  BY DEF ProbeForFree, At
<1>2. ThreadOK(own, t)  BY DEF Owned
<1>3. Name(t) \in Names /\ i[t] \in Slots /\ h \in Slots
  BY <1>1, <1>2, PairOfCall DEF Pending
<1>4. Before(h, i[t]) \subseteq Occupied /\ \A s \in Occupied : own[s] # Pair(t)
  BY <1>1, <1>2 DEF ThreadOK, TrailOK, OwnsOK, Probing, Missed
<1>5. Occupied' = Occupied  BY <1>1 DEF Occupied, table
<1>6. /\ \A u \in Threads \ {t} : SameLocals(u)
      /\ \/ i[t] \in Occupied /\ i'[t] = Succ(i[t]) /\ pc'[t] = "free"
         \/ i[t] \notin Occupied /\ i'[t] = i[t] /\ pc'[t] = "alloc"
  BY <1>1, <1>3 DEF ProbeForFree, Goto, SameLocals, IInv, TypeOK, Occupied
<1>7. /\ \A e \in Calls : Unmade(e)' => Unmade(e)
      /\ \A n : Done(n, t)' = Done(n, t)
      /\ Name(t)' = Name(t) /\ Pair(t)' = Pair(t) /\ Call(t)' = Call(t)
  <2>1. \A u \in Threads \ {t} : pc'[u] = pc[u]  BY <1>6 DEF SameLocals
  <2>2. pc[t] \in Probing /\ pc[t] \in Pending /\ pc'[t] \in Pending
    BY <1>1, <1>6 DEF Probing, Missed, Pending
  <2> QED  BY <1>1, <2>1, <2>2, SameCalls
<1>8. Before(h, i'[t]) \subseteq Occupied
  <2>1. Before(h, Succ(i[t])) \subseteq Before(h, i[t]) \cup {i[t]}
    BY <1>3, BeforeSucc
  <2> QED  BY <1>4, <1>6, <2>1
<1>9. TrailOK(t)'
  BY <1>1, <1>2, <1>5, <1>6, <1>7, <1>8 DEF ThreadOK, TrailOK, Before, Placed
<1>10. OwnsOK(own, t)'
  BY <1>4, <1>5, <1>6, <1>7 DEF OwnsOK
<1>11. MineOK(t)'
  BY <1>5, <1>6 DEF MineOK
<1>12. pc[t] \notin {"key", "value"} /\ pc'[t] \notin {"key", "value"}
  BY <1>1, <1>6
<1> QED  BY <1>1, <1>6, <1>7, <1>9, <1>10, <1>11, <1>12, Quiet DEF ThreadOK

(* The steps outside of the table. *)
LEMMA OutsideTable ==
  ASSUME IInv, EntriesOK, NEW own, Owned(own), NEW t \in Threads,
         UNCHANGED <<table, calls>>,
         \A u \in Threads \ {t} : SameLocals(u),
         pc[t] \notin Pending, pc'[t] \notin Pending
  PROVE  EntriesOK' /\ Owned(own)'
<1>1. \A u \in Threads \ {t} : pc'[u] = pc[u]  BY DEF SameLocals
<1>2. Probing \subseteq Pending /\ Placed \subseteq Pending
      /\ {"got", "found", "increment", "alloc", "key", "value"} \subseteq Pending
      /\ Missed \cup {"get"} \subseteq Pending
  BY DEF Probing, Placed, Missed, Pending
<1>3. /\ \A e \in Calls : Unmade(e)' => Unmade(e)
      /\ \A n : Done(n, t)' = Done(n, t)
  BY <1>1, <1>2, SameCalls
<1>4. TrailOK(t)'
  <2>1. TrailOK(t)  BY DEF Owned, ThreadOK
  <2>2. pc'[t] \notin Probing \cup Placed /\ pc'[t] \notin {"key", "value"}
        /\ pc'[t] # "increment" /\ pc'[t] \notin Placed
    BY <1>2
  <2> QED  BY <2>1, <2>2 DEF TrailOK
<1>5. OwnsOK(own, t)' /\ MineOK(t)'
  BY <1>2 DEF OwnsOK, MineOK
<1> QED  BY <1>2, <1>3, <1>4, <1>5, Quiet DEF ThreadOK

LEMMA OutsideActions ==
  ASSUME IInv, NEW t \in Threads,
         \/ ReadCounter(t) \/ Bump(t) \/ Rewind(t) \/ PrintBucket(t) \/ Flush(t) \/ Reset(t)
         \/ UseAfterExit(t) /\ pc[t] \notin Pending
         \/ Exit /\ t = Main
         \/ Close /\ t = Main
  PROVE  /\ UNCHANGED <<table, calls>> /\ \A u \in Threads \ {t} : SameLocals(u)
         /\ pc[t] \notin Pending /\ pc'[t] \notin Pending
<1> USE DEF IInv, TypeOK, SameLocals, Pending, Goto, At
<1>1. CASE ReadCounter(t)  BY <1>1 DEF ReadCounter
<1>2. CASE Bump(t)  BY <1>2 DEF Bump
<1>3. CASE Rewind(t)  BY <1>3 DEF Rewind
<1>4. CASE PrintBucket(t)  BY <1>4 DEF PrintBucket
<1>5. CASE Flush(t)  BY <1>5 DEF Flush
<1>6. CASE Reset(t)  BY <1>6 DEF Reset
<1>7. CASE UseAfterExit(t) /\ pc[t] \notin Pending  BY <1>7 DEF UseAfterExit
<1>8. CASE Exit /\ t = Main  BY <1>8 DEF Exit
<1>9. CASE Close /\ t = Main  BY <1>9 DEF Close
<1> QED  BY <1>1, <1>2, <1>3, <1>4, <1>5, <1>6, <1>7, <1>8, <1>9

LEMMA SameTable ==
  ASSUME EntriesOK, NEW own, Owned(own), UNCHANGED <<table, pc, calls, i, ptr, tmp>>
  PROVE  EntriesOK' /\ Owned(own)'
<1>1. \A u \in Threads : SameLocals(u)  BY DEF SameLocals
<1>2. Occupied' = Occupied /\ (\A s : Key(s)' = Key(s))
      /\ (\A u : Pair(u)' = Pair(u) /\ Call(u)' = Call(u) /\ Name(u)' = Name(u))
  BY DEF Occupied, Key, Pair, Call, Name, table
<1>3. EntriesOK'  BY <1>2 DEF EntriesOK, Unmade, table
<1>4. \A u \in Threads : ThreadOK(own, u)'
  BY <1>1, SameThread DEF Owned
<1>5. \A s \in Occupied : SlotOK(own, s)'
  BY <1>2 DEF Owned, SlotOK, Half, Before, table
<1>6. \A t \in Threads, n \in Names : Private(n, t) => ValueOK(own, n, t)'
  <2>1. \A n, u : Done(n, u)' = Done(n, u)  BY <1>2 DEF Done, Times
  <2>2. UNCHANGED <<buckets, entries>>  BY DEF table
  <2> QED  BY <1>2, <2>1, <2>2 DEF Owned, ValueOK
<1> QED  BY <1>2, <1>3, <1>4, <1>5, <1>6 DEF Owned
-----------------------------------------------------------------------------
(***************************************************************************)
(* A new entry takes its bucket, and gets its key.                         *)
(***************************************************************************)
LEMMA AllocTable ==
  ASSUME IInv, EntriesOK, NEW own \in Owners, Owned(own), NEW t \in Threads, Alloc(t)
  PROVE  EntriesOK' /\ \E new \in Owners : Owned(new)'
<1> DEFINE here == i[t]
<1>1. /\ pc[t] = "alloc" /\ pc[t] \in Probing /\ pc[t] \in Pending /\ pc[t] \in Missed
      /\ buckets' = [buckets EXCEPT ![here] = Call(t)] /\ pc' = [pc EXCEPT ![t] = "key"]
      /\ UNCHANGED <<entries, calls, i, ptr, tmp>>
  BY DEF Alloc, At, Goto, Probing, Pending, Missed
<1>2. ThreadOK(own, t)  BY DEF Owned
<1>3. /\ Pair(t) \in Pairs /\ Name(t) \in Names /\ here \in Slots /\ Call(t) \in Calls
  BY <1>1, <1>2, PairOfCall
<1>4. /\ \A s \in Slots : buckets'[s] = IF s = here THEN Call(t) ELSE buckets[s]
      /\ Call(t) # Null /\ Occupied' = Occupied \cup {here}
  <2>1. \A s \in Slots : buckets'[s] = IF s = here THEN Call(t) ELSE buckets[s]
    BY <1>1, <1>3 DEF IInv, TypeOK
  <2>2. Call(t) # Null  BY <1>3, NullAssumption DEF Calls
  <2> QED  BY <1>3, <2>1, <2>2 DEF Occupied
<1>5. /\ \A u : Call(u)' = Call(u) /\ Name(u)' = Name(u) /\ Pair(u)' = Pair(u)
      /\ \A u \in Threads \ {t} : pc'[u] = pc[u] /\ Call(u) # Call(t) /\ Pair(u) # Pair(t)
      /\ pc'[t] = "key"
  BY <1>1 DEF Call, Name, Pair, IInv, TypeOK
<1>6. /\ \A s \in Occupied : buckets[s] # Call(t)
      /\ \A s \in Occupied : own[s] # Pair(t)
      /\ \A u \in Threads : pc[u] = "increment" => ptr[u] # Call(t)
      /\ entries[Call(t)].key = NoName
  <2>1. Unmade(Call(t))  BY <1>1 DEF Unmade, Call
  <2> QED  BY <1>1, <1>2, <1>3, <2>1 DEF EntriesOK, ThreadOK, OwnsOK
<1>7. ASSUME NEW e \in Calls, Unmade(e)' PROVE Unmade(e) /\ e # Call(t)
  <2>1. e[1] \in Threads /\ e[2] \in Nat /\ Len(calls[t]) \in Nat
    BY DEF Calls, IInv, TypeOK
  <2>2. e # Call(t)
    <3> SUFFICES ASSUME e = Call(t) PROVE FALSE
      OBVIOUS
    <3>1. e[1] = t /\ e[2] = Len(calls[t])  BY DEF Call
    <3> QED  BY <1>1, <1>5, <1>7, <2>1, <3>1 DEF Unmade, Probing, Missed
  <2>3. CASE e[1] = t
    <3>1. e[2] > Len(calls[t])  BY <1>1, <1>5, <1>7, <2>2, <2>3 DEF Unmade
    <3> QED  BY <2>2, <2>3, <3>1 DEF Unmade
  <2>4. CASE e[1] # t
    BY <1>1, <1>5, <1>7, <2>1, <2>2, <2>4 DEF Unmade
  <2> QED  BY <2>3, <2>4
<1>8. EntriesOK'
  <2>1. \A s, r \in Occupied' : buckets'[s] = buckets'[r] => s = r
    BY <1>4, <1>6 DEF EntriesOK, Occupied
  <2>2. ASSUME NEW e \in Calls, Unmade(e)'
        PROVE  /\ entries'[e].key = NoName
               /\ \A s \in Occupied' : buckets'[s] # e
               /\ \A u \in Threads : pc'[u] = "increment" => ptr'[u] # e
    <3>1. Unmade(e) /\ e # Call(t)  BY <1>7, <2>2
    <3>2. /\ entries[e].key = NoName /\ \A s \in Occupied : buckets[s] # e
          /\ \A u \in Threads : pc[u] = "increment" => ptr[u] # e
      BY <3>1 DEF EntriesOK
    <3>3. \A s \in Occupied' : buckets'[s] # e
      BY <1>4, <3>1, <3>2 DEF Occupied
    <3> QED  BY <1>1, <1>5, <3>2, <3>3
  <2> QED  BY <2>1, <2>2 DEF EntriesOK
<1>9. PICK new : new = [own EXCEPT ![here] = Pair(t)]
  OBVIOUS
<1>10. /\ new \in Owners
       /\ \A s \in Slots : new[s] = IF s = here THEN Pair(t) ELSE own[s]
  BY <1>3, <1>9 DEF Owners, Pairs
<1>11. \A s, r \in Occupied' : new[s] = new[r] => s = r
  BY <1>4, <1>6, <1>10 DEF Owned, Occupied
<1>12. ASSUME NEW s \in Occupied' PROVE SlotOK(new, s)'
  <2>1. CASE s = here
    <3>1. new[s] = Pair(t) /\ new[s][2] = Name(t)  BY <1>3, <1>10, <2>1 DEF Pair
    <3>2. Before(Home[Name(t)], here) \subseteq Occupied'
      BY <1>1, <1>2, <1>4 DEF ThreadOK, TrailOK
    <3>3. Half(t, s)' /\ Key(s)' = NoName
      BY <1>1, <1>3, <1>4, <1>5, <1>6, <2>1 DEF Half, Key
    <3> QED  BY <1>3, <1>5, <2>1, <3>1, <3>2, <3>3 DEF SlotOK, Before
  <2>2. CASE s # here
    <3>1. s \in Occupied /\ s \in Slots  BY <1>4, <2>2 DEF Occupied
    <3>2. SlotOK(own, s) /\ new[s] = own[s] /\ Key(s)' = Key(s)
      BY <1>1, <1>4, <1>10, <2>2, <3>1 DEF Owned, Key
    <3>3. ASSUME NEW u \in Threads, Half(u, s) PROVE Half(u, s)'
      BY <1>1, <1>4, <1>5, <2>2, <3>1, <3>3 DEF Half
    <3>4. Before(Home[own[s][2]], s) \subseteq Occupied'  BY <1>4, <3>2 DEF SlotOK
    <3> QED  BY <1>5, <3>2, <3>3, <3>4 DEF SlotOK, Before
  <2> QED  BY <2>1, <2>2
<1>13. ThreadOK(new, t)'
  <2>1. TrailOK(t)'
    <3>1. \A s \in Occupied' : buckets'[s] = Call(t) => s = here
      BY <1>4, <1>6 DEF Occupied
    <3>2. here \in Occupied' /\ Before(Home[Name(t)], here) \subseteq Occupied'
      BY <1>1, <1>2, <1>4 DEF ThreadOK, TrailOK
    <3> QED  BY <1>1, <1>2, <1>5, <3>1, <3>2 DEF ThreadOK, TrailOK, Before
  <2>2. OwnsOK(new, t)'
    <3>1. \A s \in Occupied' : new[s] = Pair(t) => s = here
      BY <1>4, <1>6, <1>10 DEF Occupied
    <3> QED  BY <1>1, <1>5, <3>1 DEF OwnsOK, Missed
  <2>3. MineOK(t)'
    BY <1>1, <1>3, <1>4, <1>5, <1>6 DEF MineOK, Key
  <2> QED  BY <2>1, <2>2, <2>3 DEF ThreadOK
<1>14. ASSUME NEW u \in Threads \ {t} PROVE ThreadOK(new, u)'
  <2>1. ThreadOK(own, u)  BY DEF Owned
  <2>2. TrailOK(u)'
    <3>1. pc[u] \in {"key", "value"} => \A s \in Occupied' : buckets'[s] = Call(u) => s = i[u]
      BY <1>4, <1>5, <2>1 DEF ThreadOK, TrailOK, Occupied
    <3>2. pc[u] = "increment" => \A s \in Occupied' : buckets'[s] = ptr[u] => s = i[u]
      BY <1>4, <1>6, <2>1 DEF ThreadOK, TrailOK, Occupied
    <3> QED  BY <1>1, <1>4, <1>5, <2>1, <3>1, <3>2 DEF ThreadOK, TrailOK, Before
  <2>3. OwnsOK(new, u)'
    <3>1. \A s \in Slots : new[s] = Pair(u) => s # here /\ own[s] = Pair(u)
      BY <1>5, <1>10
    <3>2. Before(Home[Name(u)], i[u]) \subseteq Slots \/ pc[u] \notin {"get", "got"}
      BY <2>1 DEF ThreadOK, TrailOK, Probing, Occupied
    <3> QED
      BY <1>1, <1>4, <1>5, <2>1, <3>1, <3>2 DEF ThreadOK, OwnsOK, Before, Missed, Occupied
  <2>4. MineOK(u)'
    <3> SUFFICES ASSUME i[u] \in Mine(u), pc[u] \in Pending PROVE MineOK(u)'
      BY <1>1, <1>5 DEF MineOK, Mine, Pending
    <3>1. i[u] # here  BY <1>1, MineVisited
    <3>2. i[u] \in Slots  BY DEF Mine
    <3>3. buckets'[i[u]] = buckets[i[u]]  BY <1>4, <3>1, <3>2
    <3>4. i[u] \in Occupied' <=> i[u] \in Occupied  BY <1>4, <3>1
    <3> QED  BY <1>1, <1>5, <2>1, <3>3, <3>4 DEF ThreadOK, MineOK, Key
  <2> QED  BY <2>2, <2>3, <2>4 DEF ThreadOK
<1>15. ASSUME NEW u \in Threads, NEW n \in Names, Private(n, u) PROVE ValueOK(new, n, u)'
  <2>1. ValueOK(own, n, u)  BY <1>15 DEF Owned
  <2>2. Done(n, u)' = Done(n, u)
    BY <1>1, <1>5 DEF Done, Times, Pending
  <2>3. \A s \in Occupied : own[s] = <<u, n>> => s \in Mine(u)
    <3> SUFFICES ASSUME NEW s \in Occupied, own[s] = <<u, n>> PROVE s \in Mine(u)
      OBVIOUS
    <3>1. own[s][2] = n  OBVIOUS
    <3> QED  BY <1>15, <3>1, PrivateOwned
  <2>4. \A s \in Occupied : own[s] = <<u, n>> => s # here
    <3> SUFFICES ASSUME here \in Occupied, own[here] = <<u, n>> PROVE FALSE
      OBVIOUS
    <3>1. here \in Mine(u)  BY <2>3
    <3>2. u = t  BY <1>1, <3>1, MineVisited
    <3> QED  BY <1>1, <1>2, <3>1, <3>2 DEF ThreadOK, MineOK
  <2>5. CASE <<u, n>> = Pair(t)
    <3>1. u = t /\ n = Name(t)  BY <2>5 DEF Pair
    <3>2. Done(n, u) = 0  BY <1>6, <2>1, <2>5 DEF ValueOK
    <3>3. \A s \in Occupied' : new[s] = <<u, n>> => s = here
      BY <1>4, <1>6, <1>10, <2>5 DEF Occupied
    <3>4. here \in Occupied' /\ new[here] = <<u, n>>  BY <1>3, <1>4, <1>10, <2>5
    <3> QED  BY <1>5, <2>2, <3>1, <3>2, <3>3, <3>4 DEF ValueOK
  <2>6. CASE <<u, n>> # Pair(t)
    <3>1. ASSUME NEW s \in Occupied', new[s] = <<u, n>>
          PROVE  s \in Occupied /\ own[s] = <<u, n>> /\ buckets'[s] = buckets[s]
      BY <1>4, <1>10, <2>6, <3>1 DEF Occupied
    <3>2. ASSUME NEW s \in Occupied, own[s] = <<u, n>>
          PROVE  s \in Occupied' /\ new[s] = <<u, n>>
      BY <1>4, <1>10, <2>4, <3>2 DEF Occupied
    <3>3. pc'[u] \in {"key", "value"} /\ Name(u) = n =>
            pc[u] \in {"key", "value"}
      BY <1>5, <2>6 DEF Pair
    <3>4. pc[u] \in {"key", "value"} => pc'[u] = pc[u]  BY <1>1, <1>5
    <3> QED  BY <1>1, <1>5, <2>1, <2>2, <3>1, <3>2, <3>3, <3>4 DEF ValueOK
  <2> QED  BY <2>5, <2>6
<1>16. Owned(new)'  BY <1>11, <1>12, <1>13, <1>14, <1>15 DEF Owned
<1> QED  BY <1>8, <1>10, <1>16


LEMMA KeyTable ==
  ASSUME IInv, EntriesOK, NEW own \in Owners, Owned(own), NEW t \in Threads, SetKey(t)
  PROVE  EntriesOK' /\ \E new \in Owners : Owned(new)'
<1> DEFINE here == i[t]
<1>1. /\ pc[t] = "key" /\ pc[t] \in Placed /\ pc[t] \in Pending
      /\ pc' = [pc EXCEPT ![t] = "value"] /\ UNCHANGED <<buckets, calls, i, ptr, tmp>>
  BY DEF SetKey, At, Goto, Placed, Pending
<1>2. ThreadOK(own, t)  BY DEF Owned
<1>3. /\ Pair(t) \in Pairs /\ Name(t) \in Names /\ here \in Slots /\ Call(t) \in Calls
      /\ here \in Occupied /\ Before(Home[Name(t)], here) \subseteq Occupied
  BY <1>1, <1>2, PairOfCall DEF ThreadOK, TrailOK
<1>4. PICK e \in Target(t) : entries' = [entries EXCEPT ![e].key = Name(t)]
  BY DEF SetKey
<1>5. /\ e \in Calls /\ ~Unmade(e)
      /\ \A s \in Occupied : buckets[s] = e => s = here
  <2>1. buckets[here] \in Calls /\ ~Unmade(buckets[here])
    BY <1>3 DEF IInv, TypeOK, Occupied, EntriesOK
  <2>2. ~Unmade(Call(t))
    <3>1. Call(t)[1] = t /\ Call(t)[2] = Len(calls[t]) /\ Len(calls[t]) \in Nat
      BY DEF Call, IInv, TypeOK
    <3>2. pc[t] \notin Probing  BY <1>1 DEF Probing, Missed
    <3> QED  BY <3>1, <3>2 DEF Unmade
  <2>3. \A s \in Occupied : buckets[s] \in {Call(t), buckets[here]} => s = here
    BY <1>1, <1>2, <1>3 DEF EntriesOK, ThreadOK, TrailOK
  <2> QED  BY <1>3, <2>1, <2>2, <2>3 DEF Target
<1>6. /\ entries'[e].key = Name(t) /\ \A f \in Calls \ {e} : entries'[f] = entries[f]
      /\ \A f \in Calls : entries'[f].value = entries[f].value
  BY <1>4, <1>5 DEF IInv, TypeOK, Entry
<1>7. /\ \A u : Call(u)' = Call(u) /\ Name(u)' = Name(u) /\ Pair(u)' = Pair(u)
      /\ \A u \in Threads \ {t} : pc'[u] = pc[u] /\ Call(u) # Call(t) /\ Pair(u) # Pair(t)
      /\ pc'[t] = "value" /\ Occupied' = Occupied
  BY <1>1 DEF Call, Name, Pair, IInv, TypeOK, Occupied
<1>8. \A s \in Occupied :
        buckets[s] \in Calls /\ entries'[buckets[s]].value = entries[buckets[s]].value
  BY <1>6 DEF Occupied, IInv, TypeOK
<1>9. \A s \in Occupied \ {here} : Key(s)' = Key(s)
  BY <1>1, <1>5, <1>6, <1>8 DEF Key
<1>10. PICK new \in Owners :
         /\ \A s \in Slots \ {here} : new[s] = own[s]
         /\ \/ new[here] = Pair(t) /\ Key(here)' = Name(t)
            \/ new[here] = own[here] /\ Key(here)' = Key(here) /\ buckets[here] # Call(t)
  <2>1. CASE e = buckets[here]
    <3>1. PICK new : new = [own EXCEPT ![here] = Pair(t)]  OBVIOUS
    <3>2. new \in Owners /\ \A s \in Slots : new[s] = IF s = here THEN Pair(t) ELSE own[s]
      BY <1>3, <3>1 DEF Owners, Pairs
    <3>3. Key(here)' = Name(t)  BY <1>1, <1>6, <2>1 DEF Key
    <3> QED  BY <1>3, <3>2, <3>3
  <2>2. CASE e # buckets[here]
    <3>1. buckets[here] # Call(t)
      BY <1>1, <1>3, <1>4, <1>5, <2>2 DEF Target
    <3>2. Key(here)' = Key(here)  BY <1>1, <1>3, <1>6, <1>8, <2>2 DEF Key
    <3> QED  BY <3>1, <3>2
  <2> QED  BY <2>1, <2>2
<1>11. \A s \in Occupied : own[s] = Pair(t) => s = here
  BY <1>1, <1>2 DEF ThreadOK, OwnsOK
<1>12. EntriesOK'
  <2>1. ASSUME NEW f \in Calls, Unmade(f)' PROVE Unmade(f) /\ f # e
    <3>1. Unmade(f)
      <4>1. f[1] \in Threads  BY DEF Calls
      <4>2. pc'[f[1]] \in Probing => pc[f[1]] \in Probing
        BY <1>7, <4>1 DEF Probing, Missed
      <4> QED  BY <1>1, <1>7, <2>1, <4>2 DEF Unmade
    <3> QED  BY <1>5, <3>1
  <2>2. ASSUME NEW f \in Calls, Unmade(f)'
        PROVE  /\ entries'[f].key = NoName
               /\ \A s \in Occupied' : buckets'[s] # f
               /\ \A u \in Threads : pc'[u] = "increment" => ptr'[u] # f
    <3>1. Unmade(f) /\ f # e  BY <2>1, <2>2
    <3>2. /\ entries[f].key = NoName /\ \A s \in Occupied : buckets[s] # f
          /\ \A u \in Threads : pc[u] = "increment" => ptr[u] # f
      BY <3>1 DEF EntriesOK
    <3>3. \A u \in Threads : pc'[u] = "increment" => pc[u] = "increment"
      BY <1>7
    <3>4. \A u \in Threads : pc'[u] = "increment" => ptr'[u] # f
      BY <1>1, <3>2, <3>3
    <3>5. entries'[f].key = NoName  BY <1>6, <3>1, <3>2
    <3>6. \A s \in Occupied' : buckets'[s] # f  BY <1>1, <1>7, <3>2
    <3> QED  BY <3>4, <3>5, <3>6
  <2>3. \A s, r \in Occupied' : buckets'[s] = buckets'[r] => s = r
    BY <1>1, <1>7 DEF EntriesOK
  <2> QED  BY <2>2, <2>3 DEF EntriesOK
<1>13. Occupied \subseteq Slots  BY DEF Occupied
<1>14. \A s, r \in Occupied' : new[s] = new[r] => s = r
  <2>1. \A s \in Occupied \ {here} : new[s] = own[s] /\ new[s] # new[here]
    BY <1>3, <1>10, <1>11, <1>13 DEF Owned
  <2> QED  BY <1>7, <2>1 DEF Owned
<1>15. ASSUME NEW s \in Occupied' PROVE SlotOK(new, s)'
  <2>1. CASE s = here /\ new[here] = Pair(t) /\ Key(here)' = Name(t)
    <3>1. new[s][2] = Name(t)  BY <2>1 DEF Pair
    <3>2. Key(s)' = Name(t)  BY <1>1, <2>1 DEF Key
    <3> QED  BY <1>3, <1>7, <2>1, <3>1, <3>2 DEF SlotOK, Before
  <2>2. CASE new[s] = own[s] /\ Key(s)' = Key(s) /\ (s = here => buckets[here] # Call(t))
    <3>1. SlotOK(own, s)  BY <1>7 DEF Owned
    <3>2. ASSUME NEW u \in Threads, Half(u, s) PROVE Half(u, s)'
      <4>1. u # t  BY <2>2, <3>2 DEF Half
      <4> QED  BY <1>1, <1>7, <3>2, <4>1 DEF Half
    <3> QED  BY <1>7, <2>2, <3>1, <3>2 DEF SlotOK, Before
  <2>3. CASE s = here
    <3>1. Key(s)' = Key(here)'  BY <1>1, <2>3 DEF Key
    <3> QED  BY <1>10, <2>1, <2>2, <2>3, <3>1
  <2>4. CASE s # here
    <3>1. s \in Occupied \ {here} /\ s \in Slots  BY <1>7, <1>13, <2>4
    <3> QED  BY <1>9, <1>10, <2>2, <2>4, <3>1
  <2> QED  BY <2>3, <2>4
<1>16. ThreadOK(new, t)'
  <2>1. TrailOK(t)'
    BY <1>1, <1>2, <1>3, <1>7 DEF ThreadOK, TrailOK, Before
  <2>2. OwnsOK(new, t)'  BY <1>7 DEF OwnsOK, Missed
  <2>3. MineOK(t)'
    <3> SUFFICES ASSUME here \in Mine(t) PROVE MineOK(t)'
      BY <1>1 DEF MineOK, Mine
    <3>1. buckets[here] = Call(t)  BY <1>1, <1>2 DEF ThreadOK, MineOK
    <3>2. Key(here)' = Name(t)  BY <1>10, <3>1
    <3>3. Key(here)' = entries'[buckets'[i'[t]]].key  BY <1>1 DEF Key
    <3> QED  BY <1>1, <1>7, <3>1, <3>2, <3>3 DEF MineOK, Key
  <2> QED  BY <2>1, <2>2, <2>3 DEF ThreadOK
<1>17. ASSUME NEW u \in Threads \ {t} PROVE ThreadOK(new, u)'
  <2>1. ThreadOK(own, u)  BY DEF Owned
  <2>2. TrailOK(u)'
    BY <1>1, <1>7, <2>1 DEF ThreadOK, TrailOK, Before
  <2>3. OwnsOK(new, u)'
    <3>1. \A s \in Slots : new[s] = Pair(u) => own[s] = Pair(u)
      BY <1>3, <1>7, <1>10
    <3>2. Before(Home[Name(u)], i[u]) \subseteq Slots \/ pc[u] \notin {"get", "got"}
      BY <1>13, <2>1 DEF ThreadOK, TrailOK, Probing
    <3> QED
      BY <1>1, <1>7, <1>13, <2>1, <3>1, <3>2 DEF ThreadOK, OwnsOK, Before, Missed
  <2>4. MineOK(u)'
    <3> SUFFICES ASSUME i[u] \in Mine(u), pc[u] \in Pending PROVE MineOK(u)'
      BY <1>1, <1>7 DEF MineOK, Mine, Pending
    <3>1. i[u] # here  BY <1>1, MineVisited
    <3>2. i[u] \in Occupied => Key(i[u])' = Key(i[u])  BY <1>1, <1>5, <1>6, <1>8, <3>1 DEF Key
    <3>3. pc[u] \in Placed => i[u] \in Occupied  BY <2>1 DEF ThreadOK, TrailOK
    <3>4. Key(i[u])' = entries'[buckets'[i'[u]]].key  BY <1>1 DEF Key
    <3>5. pc[u] = "increment" => entries'[ptr[u]].value = entries[ptr[u]].value
      BY <1>8, <2>1, <3>3 DEF ThreadOK, MineOK, Placed
    <3> QED
      BY <1>1, <1>7, <2>1, <3>2, <3>3, <3>4, <3>5 DEF ThreadOK, MineOK, Key, Placed
  <2> QED  BY <2>2, <2>3, <2>4 DEF ThreadOK
<1>18. ASSUME NEW u \in Threads, NEW n \in Names, Private(n, u) PROVE ValueOK(new, n, u)'
  <2>1. ValueOK(own, n, u)  BY <1>18 DEF Owned
  <2>2. Done(n, u)' = Done(n, u)
    BY <1>1, <1>7 DEF Done, Times, Pending
  <2>3. CASE <<u, n>> = Pair(t)
    <3>1. u = t /\ n = Name(t)  BY <2>3 DEF Pair
    <3>2. Done(n, u) = 0  BY <1>1, <2>1, <3>1 DEF ValueOK
    <3> QED  BY <1>7, <2>2, <3>1, <3>2 DEF ValueOK
  <2>4. CASE <<u, n>> # Pair(t)
    <3>1. ASSUME own[here] = <<u, n>> PROVE new[here] = own[here]
      <4>1. own[here][2] = n  BY <3>1
      <4>2. here \in Mine(u)  BY <1>3, <1>18, <4>1, PrivateOwned
      <4>3. u = t  BY <1>1, <4>2, MineVisited
      <4>4. buckets[here] = Call(t) /\ Key(here) = NoName
        BY <1>1, <1>2, <4>2, <4>3 DEF ThreadOK, MineOK
      <4>5. n \in Names /\ n # NoName  BY NullAssumption
      <4>6. PICK w \in Threads : own[here] = Pair(w) /\ Half(w, here)
        BY <1>3, <4>1, <4>4, <4>5 DEF Owned, SlotOK
      <4>7. w = t  BY <4>4, <4>6 DEF Half, Call
      <4> QED  BY <2>4, <3>1, <4>6, <4>7
    <3>2. \A s \in Occupied : new[s] = <<u, n>> <=> own[s] = <<u, n>>
      BY <1>10, <1>13, <2>4, <3>1
    <3>3. pc'[u] \in {"key", "value"} <=> pc[u] \in {"key", "value"}
      BY <1>1, <1>7
    <3>4. \A s \in Occupied : entries'[buckets'[s]].value = entries[buckets[s]].value
      BY <1>1, <1>8
    <3> QED  BY <1>7, <2>1, <2>2, <3>2, <3>3, <3>4 DEF ValueOK
  <2> QED  BY <2>3, <2>4
<1>19. Owned(new)'  BY <1>14, <1>15, <1>16, <1>17, <1>18 DEF Owned
<1> QED  BY <1>12, <1>19
-----------------------------------------------------------------------------
(***************************************************************************)
(* A call stores its count, into the entry of the bucket it is at if into  *)
(* one that is in a bucket at all.                                         *)
(***************************************************************************)
LEMMA StoreTable ==
  ASSUME IInv, EntriesOK, NEW own, Owned(own), NEW t \in Threads,
         Increment(t) \/ Overwrite(t) \/ SetValue(t)
  PROVE  EntriesOK' /\ Owned(own)'
<1> DEFINE here == i[t]
<1>1. /\ pc[t] \in {"increment", "found", "value"} /\ pc[t] \in Pending
      /\ pc' = [pc EXCEPT ![t] = "count"] /\ UNCHANGED <<buckets, calls, i, ptr, tmp>>
  BY DEF Increment, Overwrite, SetValue, At, Goto, Pending
<1>2. ThreadOK(own, t)  BY DEF Owned
<1>3. /\ Pair(t) \in Pairs /\ Name(t) \in Names /\ here \in Slots /\ Call(t) \in Calls
  BY <1>1, <1>2, PairOfCall
<1>4. PICK e \in Calls, v \in Nat :
        /\ entries' = [entries EXCEPT ![e].value = v]
        /\ \A s \in Occupied : buckets[s] = e => s = here
        /\ pc[t] = "increment" => e = ptr[t] /\ v = tmp[t] + 1
        /\ pc[t] = "found" => here \in Occupied
        /\ pc[t] = "value" => e \in {Call(t), buckets[here]} /\ v = 1
  <2>1. CASE Increment(t)
    <3>1. pc[t] = "increment" /\ ptr[t] \in Calls /\ tmp[t] + 1 \in Nat
          /\ entries' = [entries EXCEPT ![ptr[t]].value = tmp[t] + 1]
      BY <2>1 DEF Increment, Store, At, IInv, TypeOK, InPlace
    <3>2. \A s \in Occupied : buckets[s] = ptr[t] => s = here
      BY <1>2, <3>1 DEF ThreadOK, TrailOK
    <3> QED  BY <3>1, <3>2
  <2>2. CASE Overwrite(t)
    <3>1. pc[t] = "found" /\ buckets[here] \in Calls /\ here \in Occupied
          /\ entries' = [entries EXCEPT ![buckets[here]].value = 1]
      BY <1>3, <2>2 DEF Overwrite, Store, At, IInv, TypeOK, Occupied
    <3>2. \A s \in Occupied : buckets[s] = buckets[here] => s = here
      BY <3>1 DEF EntriesOK
    <3> QED  BY <3>1, <3>2
  <2>3. CASE SetValue(t)
    <3>1. pc[t] = "value" /\ here \in Occupied /\ buckets[here] \in Calls
      BY <1>2, <1>3, <2>3 DEF SetValue, At, ThreadOK, TrailOK, Placed, Occupied, IInv, TypeOK
    <3>2. PICK e \in {Call(t), buckets[here]} : entries' = [entries EXCEPT ![e].value = 1]
      BY <2>3 DEF SetValue, Store, Target
    <3>3. \A s \in Occupied : buckets[s] = e => s = here
      BY <1>2, <3>1, <3>2 DEF EntriesOK, ThreadOK, TrailOK
    <3> QED  BY <1>3, <3>1, <3>2, <3>3
  <2> QED  BY <2>1, <2>2, <2>3
<1>5. /\ entries'[e].value = v /\ \A f \in Calls \ {e} : entries'[f] = entries[f]
      /\ \A f \in Calls : entries'[f].key = entries[f].key
  BY <1>4 DEF IInv, TypeOK, Entry
<1>6. /\ \A u : Call(u)' = Call(u) /\ Name(u)' = Name(u) /\ Pair(u)' = Pair(u)
      /\ \A u \in Threads \ {t} : pc'[u] = pc[u]
      /\ pc'[t] = "count" /\ Occupied' = Occupied
  BY <1>1 DEF Call, Name, Pair, IInv, TypeOK, Occupied
<1>7. \A s \in Occupied : /\ buckets[s] \in Calls /\ Key(s)' = Key(s)
                          /\ s # here => entries'[buckets[s]].value = entries[buckets[s]].value
  <2>1. \A s \in Occupied : buckets[s] \in Calls  BY DEF Occupied, IInv, TypeOK
  <2> QED  BY <1>1, <1>4, <1>5, <2>1 DEF Key
<1>8. EntriesOK'
  <2>1. ASSUME NEW f \in Calls, Unmade(f)'
        PROVE  /\ entries'[f].key = NoName
               /\ \A s \in Occupied' : buckets'[s] # f
               /\ \A u \in Threads : pc'[u] = "increment" => ptr'[u] # f
    <3>1. Unmade(f)
      <4>1. f[1] \in Threads  BY DEF Calls
      <4>2. pc'[f[1]] \in Probing => pc[f[1]] \in Probing
        BY <1>6, <4>1 DEF Probing, Missed
      <4> QED  BY <1>1, <1>6, <2>1, <4>2 DEF Unmade
    <3>2. \A u \in Threads : pc'[u] = "increment" => pc[u] = "increment"
      BY <1>6
    <3> QED  BY <1>1, <1>5, <1>6, <3>1, <3>2 DEF EntriesOK
  <2> QED  BY <1>1, <1>6, <2>1 DEF EntriesOK
<1>9. ASSUME NEW s \in Occupied PROVE SlotOK(own, s)'
  <2>1. SlotOK(own, s)  BY DEF Owned
  <2>2. ASSUME NEW u \in Threads, Half(u, s) PROVE Half(u, s)'
    <3>1. u # t  BY <1>1, <2>2 DEF Half
    <3> QED  BY <1>1, <1>6, <2>2, <3>1 DEF Half
  <2> QED  BY <1>6, <1>7, <2>1, <2>2 DEF SlotOK, Before
<1>10. ThreadOK(own, t)'
  <2>1. TrailOK(t)'
    BY <1>1, <1>2, <1>6 DEF ThreadOK, TrailOK, Placed, Probing, Missed
  <2> QED  BY <1>6, <2>1 DEF ThreadOK, OwnsOK, MineOK, Missed
<1>11. ASSUME NEW u \in Threads \ {t} PROVE ThreadOK(own, u)'
  <2>1. ThreadOK(own, u)  BY DEF Owned
  <2>2. TrailOK(u)'
    BY <1>1, <1>6, <2>1 DEF ThreadOK, TrailOK, Before
  <2>3. OwnsOK(own, u)'
    BY <1>1, <1>6, <2>1 DEF ThreadOK, OwnsOK, Before
  <2>4. MineOK(u)'
    <3> SUFFICES ASSUME i[u] \in Mine(u), pc[u] \in Pending PROVE MineOK(u)'
      BY <1>1, <1>6 DEF MineOK, Mine, Pending
    <3>1. i[u] # here  BY <1>1, MineVisited
    <3>2. i[u] \in Occupied => Key(i[u])' = Key(i[u])  BY <1>1, <1>5, <1>7 DEF Key
    <3>3. pc[u] \in Placed => i[u] \in Occupied  BY <2>1 DEF ThreadOK, TrailOK
    <3>4. Key(i[u])' = entries'[buckets'[i'[u]]].key  BY <1>1 DEF Key
    <3>5. pc[u] = "increment" => entries'[ptr[u]].value = entries[ptr[u]].value
      BY <1>7, <2>1, <3>1, <3>3 DEF ThreadOK, MineOK, Placed
    <3> QED
      BY <1>1, <1>6, <2>1, <3>2, <3>3, <3>4, <3>5 DEF ThreadOK, MineOK, Key, Placed
  <2> QED  BY <2>2, <2>3, <2>4 DEF ThreadOK
<1>12. ASSUME NEW u \in Threads, NEW n \in Names, Private(n, u) PROVE ValueOK(own, n, u)'
  <2>1. ValueOK(own, n, u)  BY <1>12 DEF Owned
  <2>2. \A s \in Occupied : own[s] = <<u, n>> => s \in Mine(u) /\ own[s][2] = n
    <3> SUFFICES ASSUME NEW s \in Occupied, own[s] = <<u, n>>
                 PROVE  s \in Mine(u) /\ own[s][2] = n
      OBVIOUS
    <3>1. own[s][2] = n  OBVIOUS
    <3> QED  BY <1>12, <3>1, PrivateOwned
  <2>3. CASE <<u, n>> # Pair(t)
    <3>1. Done(n, u)' = Done(n, u)
      BY <1>1, <1>6, <2>3 DEF Done, Times, Pair
    <3>2. ASSUME NEW s \in Occupied, own[s] = <<u, n>> PROVE s # here
      <4> SUFFICES ASSUME s = here PROVE FALSE
        OBVIOUS
      <4>1. u = t /\ here \in Mine(t) /\ n # Name(t)
        BY <1>1, <2>2, <2>3, <3>2, MineVisited DEF Pair
      <4>2. Key(here) = Name(t)
        BY <1>1, <1>2, <3>2, <4>1 DEF ThreadOK, MineOK
      <4>3. Key(here) \in {n, NoName}  BY <2>2, <3>2 DEF Owned, SlotOK
      <4> QED  BY <1>3, <4>1, <4>2, <4>3, NullAssumption
    <3>3. pc'[u] \in {"key", "value"} /\ Name(u) = n <=> pc[u] \in {"key", "value"} /\ Name(u) = n
      BY <1>1, <1>6, <2>3 DEF Pair
    <3> QED  BY <1>1, <1>6, <1>7, <2>1, <3>1, <3>2, <3>3 DEF ValueOK
  <2>4. CASE <<u, n>> = Pair(t)
    <3>1. u = t /\ n = Name(t) /\ n # NoName  BY <2>4, NullAssumption DEF Pair
    <3>2. here \in Mine(t)  BY <1>1, <1>3, <1>12, <3>1, ProbeReach DEF Mine
    <3>3. here \in Occupied /\ Key(here) = n
      BY <1>1, <1>2, <1>4, <3>1, <3>2 DEF ThreadOK, TrailOK, MineOK, Placed
    <3>4. own[here] = Pair(t)
      <4>1. SlotOK(own, here)  BY <3>3 DEF Owned
      <4>2. own[here][2] = n  BY <3>1, <3>3, <4>1 DEF SlotOK
      <4> QED  BY <1>12, <2>4, <3>3, <4>2, PrivateOwned
    <3>5. pc[t] # "found"  BY <1>2, <3>3, <3>4 DEF ThreadOK, OwnsOK, Missed
    <3>6. Times(n, calls[t]) = Done(n, t) + 1 /\ Done(n, t)' = Times(n, calls[t])
          /\ Done(n, t) \in Int
      <4>1. calls[t] \in Seq(Names)  BY DEF IInv, TypeOK
      <4>2. Times(n, calls[t]) \in Nat  BY <1>3, <4>1, TimesAppend
      <4> QED  BY <1>1, <1>6, <3>1, <4>2 DEF Done, Times, Pending
    <3>7. /\ e = buckets[here]
          /\ v = Done(n, t) + 1 /\ v >= 1
      <4>1. CASE pc[t] = "increment"
        <5>1. ptr[t] = buckets[here] /\ tmp[t] = entries[ptr[t]].value
          BY <1>2, <3>2, <4>1 DEF ThreadOK, MineOK
        <5>2. entries[buckets[here]].value = Done(n, t) /\ Done(n, t) >= 1
          BY <2>1, <2>4, <3>1, <3>3, <3>4, <4>1 DEF ValueOK
        <5> QED  BY <1>4, <3>6, <4>1, <5>1, <5>2
      <4>2. CASE pc[t] = "value"
        <5>1. buckets[here] = Call(t)  BY <1>2, <3>2, <4>2 DEF ThreadOK, MineOK
        <5>2. Done(n, t) = 0  BY <2>1, <2>4, <3>1, <3>3, <3>4, <4>2 DEF ValueOK
        <5> QED  BY <1>4, <4>2, <5>1, <5>2
      <4> QED  BY <1>1, <3>5, <4>1, <4>2
    <3>8. \A s \in Occupied : own[s] = <<u, n>> => s = here
      BY <2>4, <3>3, <3>4 DEF Owned
    <3> HIDE DEF here
    <3>9. entries'[buckets'[here]].value = Done(n, t)' /\ Done(n, t)' >= 1
      BY <1>1, <1>5, <3>6, <3>7
    <3> QED  BY <1>6, <2>4, <3>1, <3>3, <3>4, <3>8, <3>9 DEF ValueOK
  <2> QED  BY <2>3, <2>4
<1>13. Owned(own)'  BY <1>6, <1>9, <1>10, <1>11, <1>12 DEF Owned
<1> QED  BY <1>8, <1>13
-----------------------------------------------------------------------------
LEMMA InitTable == Init => TableInv
<1> SUFFICES ASSUME Init PROVE TableInv
  OBVIOUS
<1>1. IInv  BY InitIInv
<1>2. Occupied = {}  BY DEF Init, Occupied
<1>3. /\ \A t \in Threads : pc[t] = "idle" /\ calls[t] = <<>>
      /\ \A e \in Calls : entries[e].key = NoName
  BY DEF Init, Fresh
<1>4. EntriesOK  BY <1>2, <1>3 DEF EntriesOK
<1>5. PICK own : own = [s \in Slots |-> Null]
  OBVIOUS
<1>6. own \in Owners  BY <1>5 DEF Owners
<1>7. ASSUME NEW t \in Threads PROVE ThreadOK(own, t)
  <2>1. pc[t] = "idle" /\ DOMAIN calls[t] = {}  BY <1>3
  <2> QED
    BY <2>1 DEF ThreadOK, TrailOK, OwnsOK, MineOK, Probing, Placed, Missed
<1>8. ASSUME NEW t \in Threads, NEW n \in Names PROVE ValueOK(own, n, t)
  <2>1. {k \in DOMAIN calls[t] : calls[t][k] = n} = {}  BY <1>3
  <2>2. Times(n, calls[t]) = 0  BY <2>1, FS_EmptySet DEF Times
  <2>3. pc[t] \notin Pending  BY <1>3 DEF Pending
  <2>4. Done(n, t) = 0
    <3>1. Done(n, t) = Times(n, calls[t]) - 0  BY <2>3 DEF Done
    <3> QED  BY <2>2, <3>1
  <2> QED  BY <1>2, <2>4 DEF ValueOK
<1>9. Owned(own)  BY <1>2, <1>7, <1>8 DEF Owned
<1> QED  BY <1>1, <1>4, <1>6, <1>9 DEF TableInv

LEMMA NextTable == TableInv /\ [Next]_vars => TableInv'
<1> SUFFICES ASSUME TableInv, [Next]_vars PROVE TableInv'
  OBVIOUS
<1>1. IInv /\ EntriesOK  BY DEF TableInv
<1>2. PICK own \in Owners : Owned(own)  BY DEF TableInv
<1>3. IInv'  BY <1>1, NextIInv
<1>4. SUFFICES EntriesOK' /\ \E new \in Owners : Owned(new)'
  <2>1. Owners' = Owners  BY DEF Owners
  <2> QED  BY <1>3, <2>1 DEF TableInv
<1>5. SUFFICES \/ EntriesOK' /\ Owned(own)'
               \/ EntriesOK' /\ \E new \in Owners : Owned(new)'
  BY <1>2
<1>6. ASSUME NEW t \in Threads, BeforeInterfaceCall(t) PROVE EntriesOK' /\ Owned(own)'
  BY <1>1, <1>2, <1>6, BeginTable
<1>7. ASSUME NEW t \in Threads, Work(t)
      PROVE  \/ EntriesOK' /\ Owned(own)'
             \/ EntriesOK' /\ \E new \in Owners : Owned(new)'
  <2>1. CASE ProbeForHit(t, "get", "got") \/ ProbeForHit(t, "put", "found")
    BY <1>1, <1>2, <2>1, HitTable
  <2>2. CASE GetHit(t) \/ GetMiss(t) \/ PutMiss(t)
    BY <1>1, <1>2, <2>2, GetTable
  <2>3. CASE Increment(t) \/ Overwrite(t) \/ SetValue(t)
    BY <1>1, <1>2, <2>3, StoreTable
  <2>4. CASE ProbeForFree(t)  BY <1>1, <1>2, <2>4, FreeTable
  <2>5. CASE Alloc(t)  BY <1>1, <1>2, <2>5, AllocTable
  <2>6. CASE SetKey(t)  BY <1>1, <1>2, <2>6, KeyTable
  <2>7. CASE \/ ReadCounter(t) \/ Bump(t)
             \/ Rewind(t) \/ PrintBucket(t) \/ Flush(t) \/ Reset(t)
             \/ UseAfterExit(t) /\ pc[t] \notin Pending
    BY <1>1, <1>2, <2>7, OutsideActions, OutsideTable
  <2>8. CASE UseAfterExit(t)
    <3>1. UNCHANGED <<table, pc, calls, i, ptr, tmp>>  BY <2>8 DEF UseAfterExit
    <3> QED  BY <1>1, <1>2, <3>1, SameTable
  <2> QED
    BY <1>7, <2>1, <2>2, <2>3, <2>4, <2>5, <2>6, <2>7, <2>8 DEF Work
<1>8. CASE Exit \/ Close
  BY <1>1, <1>2, <1>8, ThreadsAssumption, OutsideActions, OutsideTable
<1>9. CASE UNCHANGED vars
  <2>1. UNCHANGED <<table, pc, calls, i, ptr, tmp>>  BY <1>9 DEF vars
  <2> QED  BY <1>1, <1>2, <2>1, SameTable
<1> QED  BY <1>6, <1>7, <1>8, <1>9 DEF Next

(* Whatever the races of the threads, every bucket in use has an owner, and *)
(* a thread finds in the slots of a name of its own what it has left there.  *)
THEOREM TableInvariance == Spec => []TableInv
BY InitTable, NextTable, PTL DEF Spec

(* What the table has of a private name: one entry with the calls that have *)
(* been counted, once there is one that has.                                *)
LEMMA PrivateRecord ==
  ASSUME IInv, NEW own, Owned(own), NEW t \in Threads, NEW n \in Names, Private(n, t),
         pc[t] \notin Pending
  PROVE  LET made == Times(n, calls[t])
         IN IF made = 0 THEN Recorded(n) = {}
            ELSE \E s \in Slots : Recorded(n) = {s} /\ entries[buckets[s]].value = made
<1> DEFINE made == Times(n, calls[t])
<1>1. pc[t] \notin Pending /\ pc[t] \notin {"key", "value"}  BY DEF Pending
<1>2. Done(n, t) = made
  <2>1. made \in Nat
    <3>1. calls[t] \in Seq(Names)  BY DEF IInv, TypeOK
    <3> QED  BY <3>1, TimesAppend
  <2> QED  BY <1>1, <2>1 DEF Done
<1>3. ValueOK(own, n, t)  BY DEF Owned
<1>4. Recorded(n) = {s \in Occupied : own[s] = <<t, n>>}
  <2>1. ASSUME NEW s \in Recorded(n) PROVE s \in Occupied /\ own[s] = <<t, n>>
    <3>1. s \in Occupied /\ Key(s) = n  BY DEF Recorded, Occupied, Key
    <3>2. SlotOK(own, s) /\ n # NoName  BY <3>1, NullAssumption DEF Owned
    <3>3. own[s][2] = n  BY <3>1, <3>2 DEF SlotOK
    <3> QED  BY <3>1, <3>3, PrivateOwned
  <2>2. ASSUME NEW s \in Occupied, own[s] = <<t, n>> PROVE s \in Recorded(n)
    <3>1. SlotOK(own, s)  BY DEF Owned
    <3>2. ASSUME NEW u \in Threads, own[s] = Pair(u), Half(u, s) PROVE FALSE
      <4>1. u = t  BY <2>2, <3>2 DEF Pair
      <4> QED  BY <1>1, <3>2, <4>1 DEF Half
    <3>3. Key(s) = n  BY <2>2, <3>1, <3>2 DEF SlotOK
    <3> QED  BY <3>3 DEF Recorded, Occupied, Key
  <2> QED  BY <2>1, <2>2
<1>5. CASE Recorded(n) = {}
  <2>1. made = 0  BY <1>2, <1>3, <1>4, <1>5 DEF ValueOK
  <2> QED  BY <1>5, <2>1
<1>6. CASE Recorded(n) # {}
  <2>1. PICK s \in Occupied : own[s] = <<t, n>>  BY <1>4, <1>6
  <2>2. entries[buckets[s]].value = made /\ made >= 1
    BY <1>1, <1>2, <1>3, <2>1 DEF ValueOK
  <2>3. Recorded(n) = {s}  BY <1>4, <2>1 DEF Owned
  <2>4. s \in Slots /\ made # 0  BY <2>2 DEF Occupied
  <2> QED  BY <2>2, <2>3, <2>4
<1> QED  BY <1>5, <1>6

(* A name that collides with no name of another thread is counted exactly,  *)
(* whatever the other threads do to the rest of the table.                  *)
THEOREM PrivateExact == Spec => []CountsExact
<1>1. TableInv => CountsExact
  <2> SUFFICES ASSUME TableInv, NEW t \in Threads, NEW n \in Names,
                      pc[t] = "idle", Private(n, t)
               PROVE  LET made == Times(n, calls[t])
                      IN IF made = 0 THEN Recorded(n) = {}
                         ELSE \E s \in Slots :
                                Recorded(n) = {s} /\ entries[buckets[s]].value = made
    BY DEF CountsExact
  <2>1. IInv  BY DEF TableInv
  <2>2. PICK own \in Owners : Owned(own)  BY DEF TableInv
  <2>3. pc[t] \notin Pending  BY DEF Pending
  <2> QED  BY <2>1, <2>2, <2>3, PrivateRecord
<1> QED  BY <1>1, TableInvariance, PTL
-----------------------------------------------------------------------------
(***************************************************************************)
(* The end of the program.  If it waits for its threads, only the main one *)
(* is left to save, so nothing changes the table while its lines are       *)
(* printed: text has the lines of the buckets before k.                    *)
(***************************************************************************)
Found(text, n) == {m \in DOMAIN text.lines : text.lines[m].name = n}

LineOK(text, n, k) ==
  IF Recorded(n) \cap (0 .. k - 1) = {} THEN Found(text, n) = {}
  ELSE \E m \in DOMAIN text.lines, s \in Recorded(n) :
         Found(text, n) = {m} /\ text.lines[m].value = entries[buckets[s]].value

Printed(text, k) ==
  \A t \in Threads, n \in Names : Private(n, t) => LineOK(text, n, k)

EndOK ==
  /\ life = "running" => pc[Main] # "close"
  /\ life = "exiting" => pc[Main] \in {"rewind", "print", "close"}
  /\ life = "exited" => pc[Main] = "idle"
  /\ joined /\ life \in {"exiting", "exited"} =>
       /\ \A t \in Threads \ {Main} : pc[t] = "idle"
       /\ pc[Main] = "print" => Printed(stream, i[Main])
       /\ pc[Main] = "close" => Printed(stream, Capacity)
       /\ pc[Main] = "idle" => Printed(disk, Capacity)

EndInv == TableInv /\ EndOK

(* What is printed depends on the table alone. *)
LEMMA SamePrinted ==
  ASSUME UNCHANGED <<buckets, entries>>
  PROVE  /\ Printed(stream, i[Main])' <=> Printed(stream', i'[Main])
         /\ Printed(stream, Capacity)' <=> Printed(stream', Capacity)
         /\ Printed(disk, Capacity)' <=> Printed(disk', Capacity)
<1> USE DEF Printed, LineOK, Found, Recorded
<1>1. Printed(stream, i[Main])' <=> Printed(stream', i'[Main])  OBVIOUS
<1>2. Printed(stream, Capacity)' <=> Printed(stream', Capacity)  OBVIOUS
<1>3. Printed(disk, Capacity)' <=> Printed(disk', Capacity)  OBVIOUS
<1> QED  BY <1>1, <1>2, <1>3

(* A turn of the loop over the buckets prints what its bucket has. *)
LEMMA PrintsBucket ==
  ASSUME TableInv, PrintBucket(Main), \A t \in Threads : pc[t] \notin Pending,
         Printed(stream, i[Main])
  PROVE  Printed(stream', i[Main] + 1)
<1> DEFINE k == i[Main]
           e == buckets[k]
           line == [name |-> entries[e].key, value |-> entries[e].value]
<1>1. k \in Slots /\ k \in Nat
  BY ThreadsAssumption, TableAssumption DEF PrintBucket, TableInv, IInv, TypeOK, Slots
<1>2. SUFFICES ASSUME NEW t \in Threads, NEW n \in Names, Private(n, t)
               PROVE  LineOK(stream', n, k + 1)
  BY DEF Printed
<1>3. LineOK(stream, n, k)  BY <1>2 DEF Printed
<1>4. 0 .. (k + 1) - 1 = (0 .. k - 1) \cup {k}  BY <1>1
<1>5. CASE k \notin Recorded(n) /\ e = Null
  <2>1. stream' = stream  BY <1>5 DEF PrintBucket
  <2>2. Recorded(n) \cap (0 .. (k + 1) - 1) = Recorded(n) \cap (0 .. k - 1)
    BY <1>4, <1>5
  <2> QED  BY <1>3, <2>1, <2>2 DEF LineOK
<1>6. CASE e # Null
  <2>1. stream'.lines = Append(stream.lines, line) /\ stream.lines \in Seq(Line)
    BY <1>6 DEF PrintBucket, Written, TableInv, IInv, TypeOK, Text
  <2> DEFINE old == stream.lines
             new == stream'.lines
             last == Len(old) + 1
  <2>2. /\ Len(old) \in Nat /\ DOMAIN old = 1 .. Len(old) /\ DOMAIN new = 1 .. last
        /\ new[last] = line /\ \A m \in 1 .. Len(old) : new[m] = old[m]
    <3>1. line \in Line
      BY <1>1, <1>6 DEF TableInv, IInv, TypeOK, Entry, Line
    <3> QED  BY <2>1, <3>1
  <2>3. k \in Recorded(n) <=> line.name = n
    BY <1>1, <1>6 DEF Recorded
  <2>4. CASE k \in Recorded(n)
    <3>1. Recorded(n) = {k}
      <4>1. IInv /\ pc[t] \notin Pending  BY DEF TableInv
      <4>2. PICK own \in Owners : Owned(own)  BY DEF TableInv
      <4> QED  BY <1>2, <2>4, <4>1, <4>2, PrivateRecord
    <3>2. Found(stream, n) = {}
      <4>1. Recorded(n) \cap (0 .. k - 1) = {}  BY <1>1, <3>1
      <4> QED  BY <1>3, <4>1 DEF LineOK
    <3>3. Found(stream', n) = {last}
      <4>1. \A m \in 1 .. Len(old) : new[m].name # n
        BY <2>2, <3>2 DEF Found
      <4>2. new[last].name = n /\ last \in DOMAIN new  BY <2>2, <2>3, <2>4
      <4>3. DOMAIN new = (1 .. Len(old)) \cup {last}  BY <2>2
      <4> HIDE DEF old, new, last, line
      <4>4. {m \in DOMAIN new : new[m].name = n} = {last}  BY <4>1, <4>2, <4>3
      <4> QED  BY <4>4 DEF Found, new
    <3>4. last \in DOMAIN new /\ new[last].value = entries[buckets[k]].value
      BY <2>2
    <3>5. Recorded(n) \cap (0 .. (k + 1) - 1) # {}  BY <1>4, <2>4
    <3> QED  BY <2>4, <3>3, <3>4, <3>5 DEF LineOK
  <2>5. CASE k \notin Recorded(n)
    <3>1. Found(stream', n) = Found(stream, n)
      BY <2>2, <2>3, <2>5 DEF Found
    <3>2. Recorded(n) \cap (0 .. (k + 1) - 1) = Recorded(n) \cap (0 .. k - 1)
      BY <1>4, <2>5
    <3>3. DOMAIN old \subseteq DOMAIN new /\ \A m \in DOMAIN old : new[m] = old[m]
      BY <2>2
    <3> QED  BY <1>3, <3>1, <3>2, <3>3 DEF LineOK
  <2> QED  BY <2>4, <2>5
<1> QED  BY <1>5, <1>6 DEF Recorded

(* Once the program exits, only a save goes on in the main thread. *)
LEMMA MainSaves ==
  ASSUME EndOK, Work(Main), life' # "crashed", life # "running"
  PROVE  /\ life = "exiting" /\ life' = "exiting"
         /\ Rewind(Main) \/ PrintBucket(Main) \/ Flush(Main)
<1> USE DEF At, Alive, Crash
<1>1. life = "exiting" /\ ~UseAfterExit(Main)
  BY DEF Work, UseAfterExit, EndOK, ProbeForHit, GetHit, Increment, GetMiss, Overwrite,
     PutMiss, ProbeForFree, Alloc, SetKey, SetValue, ReadCounter, Bump, Rewind, PrintBucket,
     Flush, Reset
<1>2. pc[Main] \in {"rewind", "print", "close"}  BY <1>1 DEF EndOK
<1>3. Rewind(Main) \/ PrintBucket(Main) \/ Flush(Main)
  BY <1>1, <1>2 DEF Work, ProbeForHit, GetHit, Increment, GetMiss, Overwrite,
     PutMiss, ProbeForFree, Alloc, SetKey, SetValue, ReadCounter, Bump, Reset
<1> QED  BY <1>1, <1>3 DEF Rewind, PrintBucket, Flush

LEMMA WorkMoves ==
  ASSUME IInv, NEW t \in Threads, Work(t)
  PROVE  /\ pc[t] # "idle" /\ UNCHANGED fixed /\ UNCHANGED joined /\ life' \in {life, "crashed"}
         /\ pc'[t] = "close" => life # "running"
         /\ \A u \in Threads \ {t} : pc'[u] = pc[u]
         /\ \/ UNCHANGED cause
            \/ ProbeForHit(t, "get", "got") \/ ProbeForHit(t, "put", "found")
            \/ Rewind(t) \/ UseAfterExit(t)
<1> USE DEF At, Goto, Crash, file, fixed, IInv, TypeOK
<1>1. CASE ProbeForHit(t, "get", "got")  BY <1>1 DEF ProbeForHit
<1>2. CASE ProbeForHit(t, "put", "found")  BY <1>2 DEF ProbeForHit
<1>3. CASE GetHit(t) \/ GetMiss(t) \/ PutMiss(t)  BY <1>3 DEF GetHit, GetMiss, PutMiss
<1>4. CASE Increment(t) \/ Overwrite(t) \/ SetValue(t)
  BY <1>4 DEF Increment, Overwrite, SetValue
<1>5. CASE ProbeForFree(t) \/ Alloc(t) \/ SetKey(t)  BY <1>5 DEF ProbeForFree, Alloc, SetKey
<1>6. CASE ReadCounter(t) \/ Bump(t) \/ Reset(t)  BY <1>6 DEF ReadCounter, Bump, Reset
<1>7. CASE Rewind(t) \/ PrintBucket(t) \/ Flush(t)  BY <1>7 DEF Rewind, PrintBucket, Flush
<1>8. CASE UseAfterExit(t)  BY <1>8 DEF UseAfterExit
<1> QED  BY <1>1, <1>2, <1>3, <1>4, <1>5, <1>6, <1>7, <1>8 DEF Work
-----------------------------------------------------------------------------
LEMMA NextEnd ==
  ASSUME TableInv, EndOK, [Next]_vars
  PROVE  EndOK'
<1>1. IInv /\ Main \in Threads  BY ThreadsAssumption DEF TableInv
<1>2. CASE life' \in {"running", "crashed"}
  <2>1. life' = "running" => pc'[Main] # "close"
    <3> SUFFICES ASSUME life' = "running" PROVE pc'[Main] # "close"
      OBVIOUS
    <3>1. CASE Exit \/ Close \/ UNCHANGED vars
      BY <3>1 DEF Exit, Close, vars, EndOK
    <3>2. ASSUME NEW t \in Threads, BeforeInterfaceCall(t) PROVE pc'[Main] # "close"
      <4>1. pc' = [pc EXCEPT ![t] = "get"] /\ life' = life
        BY <3>2 DEF BeforeInterfaceCall, Goto
      <4> QED  BY <1>1, <4>1 DEF EndOK, IInv, TypeOK
    <3>3. ASSUME NEW t \in Threads, Work(t) PROVE pc'[Main] # "close"
      BY <1>1, <3>3, WorkMoves DEF EndOK
    <3> QED  BY <3>1, <3>2, <3>3 DEF Next
  <2> QED  BY <1>2, <2>1 DEF EndOK
<1>3. CASE Exit
  <2>1. /\ life' = "exiting" /\ UNCHANGED joined /\ pc'[Main] = "rewind"
        /\ joined => \A t \in Threads \ {Main} : pc'[t] = "idle"
    BY <1>1, <1>3 DEF Exit, Goto, file, fixed, IInv, TypeOK
  <2> QED  BY <2>1 DEF EndOK
<1>4. CASE Close
  <2>1. /\ pc[Main] = "close" /\ life \in {"running", "exiting"} /\ disk' = stream
        /\ pc'[Main] = "idle" /\ life' = "exited" /\ UNCHANGED <<joined, buckets, entries>>
        /\ \A t \in Threads \ {Main} : pc'[t] = pc[t]
    BY <1>1, <1>4 DEF Close, At, Alive, Goto, table, fixed, IInv, TypeOK
  <2> QED  BY <2>1, SamePrinted DEF EndOK
<1>5. ASSUME NEW t \in Threads \ {Main}, BeforeInterfaceCall(t) \/ Work(t),
             life' \notin {"running", "crashed"}
      PROVE  EndOK'
  <2>1. /\ life' = life /\ UNCHANGED joined /\ pc'[Main] = pc[Main]
        /\ pc[t] # "idle" \/ ~joined
    BY <1>1, <1>5, WorkMoves DEF BeforeInterfaceCall, Goto, file, fixed, IInv, TypeOK
  <2>2. ~joined
    <3>1. life \in {"exiting", "exited"}  BY <1>1, <1>5, <2>1 DEF IInv, TypeOK
    <3> QED  BY <2>1, <3>1 DEF EndOK
  <2> QED  BY <2>1, <2>2 DEF EndOK
<1>6. CASE Work(Main) /\ life # "running" /\ life' # "crashed"
  <2>1. /\ life = "exiting" /\ life' = "exiting"
        /\ Rewind(Main) \/ PrintBucket(Main) \/ Flush(Main)
    BY <1>6, MainSaves
  <2>2. /\ UNCHANGED <<joined, buckets, entries>>
        /\ \A t \in Threads \ {Main} : pc'[t] = pc[t]
    <3>1. UNCHANGED <<buckets, entries>>
      BY <2>1 DEF Rewind, PrintBucket, Flush, table
    <3> QED  BY <1>1, <1>6, <3>1, WorkMoves
  <2>3. CASE Rewind(Main)
    <3>1. pc'[Main] = "print" /\ i'[Main] = 0 /\ stream'.lines = <<>>
      BY <1>1, <1>6, <2>3 DEF Rewind, Crash, Goto, IInv, TypeOK
    <3>2. Printed(stream', 0)
      <4>1. 0 .. 0 - 1 = {} /\ DOMAIN stream'.lines = {}  BY <3>1
      <4> QED  BY <4>1 DEF Printed, LineOK, Found
    <3> QED  BY <2>1, <2>2, <3>1, <3>2, SamePrinted DEF EndOK
  <2>4. CASE PrintBucket(Main)
    <3>1. pc[Main] = "print" /\ pc'[Main] = "print" /\ i'[Main] = i[Main] + 1
      BY <1>1, <2>4 DEF PrintBucket, At, IInv, TypeOK
    <3>2. CASE joined
      <4>1. Printed(stream, i[Main]) /\ \A t \in Threads : pc[t] \notin Pending
        BY <2>1, <3>1, <3>2 DEF EndOK, Pending
      <4>2. Printed(stream', i[Main] + 1)  BY <2>4, <4>1, PrintsBucket
      <4> QED  BY <2>1, <2>2, <3>1, <4>2, SamePrinted DEF EndOK
    <3>3. CASE ~joined
      BY <2>1, <2>2, <3>1, <3>3 DEF EndOK
    <3> QED  BY <3>2, <3>3
  <2>5. CASE Flush(Main)
    <3>1. /\ pc[Main] = "print" /\ i[Main] = Capacity /\ pc'[Main] = "close"
          /\ stream' = stream
      BY <1>1, <2>1, <2>5 DEF Flush, At, Goto, IInv, TypeOK
    <3> QED  BY <2>1, <2>2, <3>1, SamePrinted DEF EndOK
  <2> QED  BY <2>1, <2>3, <2>4, <2>5
<1>7. CASE UNCHANGED vars
  <2>1. UNCHANGED <<life, joined, buckets, entries, stream, disk, pc, i>>
    BY <1>7 DEF vars, table, file, fixed
  <2> QED  BY <2>1, SamePrinted DEF EndOK
<1>8. ASSUME BeforeInterfaceCall(Main) \/ (Work(Main) /\ life = "running"),
             life' \notin {"running", "crashed"}
      PROVE  FALSE
  BY <1>1, <1>8, WorkMoves DEF BeforeInterfaceCall
<1> QED
  BY <1>1, <1>2, <1>3, <1>4, <1>5, <1>6, <1>7, <1>8 DEF Next
-----------------------------------------------------------------------------
LEMMA InitEnd == Init => EndInv
<1> SUFFICES ASSUME Init PROVE EndInv
  OBVIOUS
<1>1. life = "running" /\ pc[Main] = "idle"  BY ThreadsAssumption DEF Init
<1> QED  BY <1>1, InitTable DEF EndInv, EndOK

(* The table, and the end of a program that waits for its threads. *)
THEOREM EndInvariance == Spec => []EndInv
<1>1. EndInv /\ [Next]_vars => EndInv'
  BY NextTable, NextEnd DEF EndInv
<1> QED  BY <1>1, InitEnd, PTL DEF Spec

(* The text of a save at an orderly exit has each private name exactly as  *)
(* often as its thread has called it, whatever saves have overlapped.      *)
THEOREM FinalTextExact == Spec => []FinalCountsExact
<1>1. EndInv => FinalCountsExact
  <2> SUFFICES ASSUME EndInv, life = "exited", joined,
                      NEW t \in Threads, NEW n \in Names, Private(n, t)
               PROVE  LET made == Times(n, calls[t])
                          where == {m \in DOMAIN disk.lines : disk.lines[m].name = n}
                      IN IF made = 0 THEN where = {}
                         ELSE \E m \in DOMAIN disk.lines :
                                where = {m} /\ disk.lines[m].value = made
    BY DEF FinalCountsExact
  <2>1. LineOK(disk, n, Capacity) /\ pc[t] = "idle"
    BY DEF EndInv, EndOK, Printed
  <2>2. Recorded(n) \cap (0 .. Capacity - 1) = Recorded(n)  BY DEF Recorded, Slots
  <2> DEFINE made == Times(n, calls[t])
  <2>3. IF made = 0 THEN Recorded(n) = {}
        ELSE \E s \in Slots : Recorded(n) = {s} /\ entries[buckets[s]].value = made
    <3>1. IInv /\ pc[t] \notin Pending  BY <2>1 DEF EndInv, TableInv, Pending
    <3>2. PICK own \in Owners : Owned(own)  BY DEF EndInv, TableInv
    <3> QED  BY <3>1, <3>2, PrivateRecord
  <2> HIDE DEF made
  <2>4. IF made = 0 THEN Found(disk, n) = {}
        ELSE \E m \in DOMAIN disk.lines : Found(disk, n) = {m} /\ disk.lines[m].value = made
    BY <2>1, <2>2, <2>3 DEF LineOK
  <2> QED  BY <2>4 DEF Found, made
<1> QED  BY <1>1, EndInvariance, PTL

(* A probe for a private name meets no entry that another thread has not   *)
(* given its key yet.                                                      *)
LEMMA NoHalf ==
  ASSUME TableInv, NEW t \in Threads, pc[t] \in {"get", "put"},
         buckets[i[t]] # Null, entries[buckets[i[t]]].key = NoName
  PROVE  \A u \in Threads : ~Private(Name(t), u)
<1> SUFFICES ASSUME NEW u \in Threads, Private(Name(t), u) PROVE FALSE
  OBVIOUS
<1>1. IInv /\ pc[t] \in Pending  BY DEF TableInv, Pending
<1>2. PICK own \in Owners : Owned(own)  BY DEF TableInv
<1>3. ThreadOK(own, t)  BY <1>2 DEF Owned
<1>4. Name(t) \in Uses[t] /\ Name(t) \in Names /\ i[t] \in Slots
  BY <1>1, <1>3, PairOfCall
<1>5. Private(Name(t), t)  BY <1>4, PrivateUses
<1>6. i[t] \in Mine(t)  BY <1>1, <1>2, <1>4, <1>5, ProbeReach DEF Mine
<1>7. SlotOK(own, i[t]) /\ own[i[t]][2] # NoName
  <2>1. i[t] \in Occupied  BY <1>4 DEF Occupied
  <2> QED  BY <1>2, <2>1, SlotReach, NullAssumption DEF Owned
<1>8. PICK v \in Threads : Half(v, i[t])  BY <1>7 DEF SlotOK, Key
<1>9. v # t /\ pc[v] \in Pending /\ i[v] = i[t]  BY <1>8 DEF Half, Pending
<1> QED  BY <1>1, <1>2, <1>6, <1>9, MineVisited

LEMMA NextCrash ==
  ASSUME EndInv, CrashExplained, [Next]_vars
  PROVE  CrashExplained'
<1>1. /\ UNCHANGED fixed
      /\ \/ UNCHANGED cause
         \/ \E t \in Threads :
              \/ ProbeForHit(t, "get", "got") \/ ProbeForHit(t, "put", "found")
              \/ Rewind(t) \/ UseAfterExit(t)
  <2>1. CASE Exit \/ Close \/ UNCHANGED vars
    BY <2>1 DEF Exit, Close, vars, file
  <2>2. CASE \E t \in Threads : BeforeInterfaceCall(t)
    BY <2>2 DEF BeforeInterfaceCall, file
  <2>3. CASE \E t \in Threads : Work(t)
    BY <2>3, WorkMoves DEF EndInv, TableInv
  <2> QED  BY <2>1, <2>2, <2>3 DEF Next
<1>2. SUFFICES ASSUME cause' # cause PROVE CrashExplained'
  BY <1>1 DEF CrashExplained, fixed
<1>3. PICK t \in Threads :
        \/ ProbeForHit(t, "get", "got") \/ ProbeForHit(t, "put", "found")
        \/ Rewind(t) \/ UseAfterExit(t)
  BY <1>1, <1>2
<1>4. CASE ProbeForHit(t, "get", "got") \/ ProbeForHit(t, "put", "found")
  <2>1. /\ pc[t] \in {"get", "put"} /\ cause' = <<"half", Name(t)>>
        /\ buckets[i[t]] # Null /\ entries[buckets[i[t]]].key = NoName
    <3>1. Name(t) # NoName
      <4>1. pc[t] \in Pending  BY <1>4 DEF ProbeForHit, At, Pending
      <4> QED  BY <4>1, CallInCalls, NullAssumption DEF EndInv, TableInv, IInv
    <3> QED  BY <1>2, <1>4, <3>1 DEF ProbeForHit, At, Crash
  <2>2. \A u \in Threads : ~Private(Name(t), u)  BY <2>1, NoHalf DEF EndInv
  <2> QED  BY <2>1, <2>2 DEF CrashExplained
<1>5. CASE Rewind(t)
  BY <1>2, <1>5 DEF Rewind, Crash, CrashExplained, fixed
<1>6. CASE UseAfterExit(t)
  <2>1. /\ life = "exited" /\ pc[t] # "idle" /\ cause' = <<"exit", NoName>>
        /\ UNCHANGED joined
    BY <1>6 DEF UseAfterExit, Crash, file, fixed
  <2>2. ~joined  BY <2>1 DEF EndInv, EndOK
  <2> QED  BY <2>1, <2>2 DEF CrashExplained
<1> QED  BY <1>3, <1>4, <1>5, <1>6

(* The runtime takes no program down at a private name: only a race for    *)
(* one bucket does, a file that was not opened, or a thread that outlives  *)
(* main().                                                                 *)
THEOREM CrashesExplained == Spec => []CrashExplained
<1>1. Init => CrashExplained
  BY DEF Init, CrashExplained
<1>2. CrashExplained /\ EndInv /\ EndInv' /\ [Next]_vars => CrashExplained'
  BY NextCrash
<1> QED  BY <1>1, <1>2, EndInvariance, PTL DEF Spec
-----------------------------------------------------------------------------
(***************************************************************************)
(* What a program of one thread has on its disk.                           *)
(***************************************************************************)
Alone == Threads = {Main}

Made == Len(calls[Main])
Called == {calls[Main][m] : m \in DOMAIN calls[Main]}

(* The width of the line of a bucket, and of the lines before each bucket. *)
Digits(s) ==
  IF buckets[s] = Null THEN 0 ELSE IF entries[buckets[s]].value < Ten THEN 4 ELSE 5

Widths(f) ==
  /\ f \in [0 .. Capacity -> Nat] /\ f[0] = 0
  /\ \A s \in Slots : f[s + 1] = f[s] + Digits(s)
  /\ \A a, b \in 0 .. Capacity : a <= b => f[a] <= f[b]

(***************************************************************************)
(* No text was longer than the one that the table has now, as buckets stay *)
(* in use and counts grow; a save has come to where its lines end.         *)
(***************************************************************************)
Fits(f) ==
  /\ Widths(f)
  /\ stream.at <= stream.length /\ stream.length <= f[Capacity]
  /\ pc[Main] = "print" => stream.at = f[i[Main]]

(* An entry counts nothing before its call has stored into it. *)
Blank(e) == Unmade(e) \/ (e = Call(Main) /\ pc[Main] \in {"key", "value"})

FreshOK == \A e \in Calls : Blank(e) => entries[e].value = 0

(* The lines are those of the buckets before k. *)
LineOf(s) == [name |-> Key(s), value |-> entries[buckets[s]].value]

Lists(g, text, k) ==
  /\ g \in [1 .. Len(text.lines) -> {s \in Occupied : s < k}]
  /\ \A s \in Occupied : s < k => \E m \in 1 .. Len(text.lines) : g[m] = s
  /\ \A l, m \in 1 .. Len(text.lines) : g[l] = g[m] => l = m
  /\ \A m \in 1 .. Len(text.lines) : text.lines[m] = LineOf(g[m])

(* How many calls are not on the disk: as many as the counter says. *)
Since(k) ==
  /\ pc[Main] = "idle" => IF life = "running" THEN counter = Made - k /\ counter < SaveInterval
                          ELSE k = Made
  /\ pc[Main] \in Pending \cup {"count", "bump"} =>
       counter = Made - k - 1 /\ counter < SaveInterval
  /\ pc[Main] = "bump" => tmp[Main] = counter
  /\ pc[Main] = "rewind" => Made - k <= SaveInterval
  /\ pc[Main] \in {"reset", "close"} => k = Made

SavedOK ==
  IF pc[Main] = "print" THEN \E g : Lists(g, stream, i[Main])
  ELSE disk = stream /\ \E k \in 0 .. Made : OnDisk(k) /\ Since(k)

SaveOK ==
  /\ FreshOK
  /\ opened /\ life # "crashed" => SavedOK /\ \E f : Fits(f)

SaveInv == EndInv /\ SaveOK
-----------------------------------------------------------------------------
LEMMA DigitsAre == \A s : Digits(s) \in {0, 4, 5}
BY DEF Digits

(* One line that gets longer, or is new, moves those behind it. *)
LEMMA Widen ==
  ASSUME NEW f, Widths(f), NEW z \in Slots, Digits(z)' >= Digits(z),
         \A s \in Slots \ {z} : Digits(s)' = Digits(s)
  PROVE  \E h : Widths(h)' /\ h[Capacity] >= f[Capacity]
<1>1. Digits(z) \in {0, 4, 5} /\ Digits(z)' \in {0, 4, 5}
  BY DigitsAre DEF Digits
<1>2. PICK d \in Nat : Digits(z)' = Digits(z) + d
  <2>1. Digits(z)' - Digits(z) \in Nat /\ Digits(z)' = Digits(z) + (Digits(z)' - Digits(z))
    BY <1>1
  <2> QED BY <2>1
<1> DEFINE h == [k \in 0 .. Capacity |-> IF k <= z THEN f[k] ELSE f[k] + d]
<1>3. Capacity \in Nat \ {0} /\ z \in 0 .. Capacity - 1
  BY TableAssumption DEF Slots
<1>4. /\ \A k \in 0 .. Capacity : f[k] \in Nat
      /\ f[0] = 0
      /\ \A s \in Slots : f[s + 1] = f[s] + Digits(s)
      /\ \A a, b \in 0 .. Capacity : a <= b => f[a] <= f[b]
  BY DEF Widths
<1>5. \A k \in 0 .. Capacity : h[k] = IF k <= z THEN f[k] ELSE f[k] + d
  OBVIOUS
<1>6. h \in [0 .. Capacity -> Nat]
  BY <1>2, <1>4
<1>7. h[0] = 0 /\ h[Capacity] >= f[Capacity]
  BY <1>2, <1>3, <1>4, <1>5
<1>8. ASSUME NEW s \in Slots  PROVE h[s + 1] = h[s] + Digits(s)'
  <2>1. s \in 0 .. Capacity /\ s + 1 \in 0 .. Capacity /\ s \in Int
    BY <1>3 DEF Slots
  <2>2. f[s + 1] = f[s] + Digits(s) /\ f[s] \in Nat /\ Digits(s) \in Nat
    BY <1>4, <2>1, DigitsAre
  <2>3. CASE s = z
    <3>1. h[s] = f[s] /\ h[s + 1] = f[s + 1] + d
      BY <1>3, <1>5, <2>1, <2>3
    <3>2. Digits(s)' = Digits(z)' /\ Digits(s) = Digits(z)
      BY <2>3 DEF Digits
    <3> QED BY <1>2, <2>2, <3>1, <3>2
  <2>4. CASE s # z
    <3>1. Digits(s)' = Digits(s)
      BY <2>4
    <3>2. (s <= z <=> s + 1 <= z)
      BY <1>3, <2>1, <2>4
    <3> QED BY <1>2, <1>5, <2>1, <2>2, <3>1, <3>2
  <2> QED BY <2>3, <2>4
<1>9. ASSUME NEW a \in 0 .. Capacity, NEW b \in 0 .. Capacity, a <= b  PROVE h[a] <= h[b]
  <2>1. f[a] <= f[b] /\ f[a] \in Nat /\ f[b] \in Nat
    BY <1>4, <1>9
  <2>2. b <= z => a <= z
    BY <1>3, <1>9
  <2> QED BY <1>2, <1>5, <2>1, <2>2
<1> HIDE DEF h
<1>10. Widths(h)'
  BY <1>6, <1>7, <1>8, <1>9 DEF Widths
<1> QED BY <1>7, <1>10

(* Widths depend on the table only. *)
LEMMA SameWidths ==
  ASSUME UNCHANGED <<buckets, entries>>, NEW f
  PROVE  Widths(f)' <=> Widths(f)
<1>1. \A s : Digits(s)' = Digits(s)
  BY DEF Digits
<1> QED BY <1>1 DEF Widths

(* The text still fits when a line of the table gets longer. *)
LEMMA WidensFit ==
  ASSUME IInv, NEW f, Fits(f), NEW z \in Slots, Digits(z)' >= Digits(z),
         \A s \in Slots \ {z} : Digits(s)' = Digits(s),
         UNCHANGED stream, pc'[Main] # "print"
  PROVE  \E h : Fits(h)'
<1>1. Widths(f)
  BY DEF Fits
<1>2. PICK h : Widths(h)' /\ h[Capacity] >= f[Capacity]
  BY <1>1, Widen
<1>3. stream.at <= stream.length /\ stream.length <= f[Capacity] /\ stream.length \in Nat
  BY DEF Fits, IInv, TypeOK, Text
<1>4. f[Capacity] \in Nat /\ h[Capacity] \in Nat
  <2>1. Capacity \in 0 .. Capacity
    BY TableAssumption
  <2>2. f \in [0 .. Capacity -> Nat] /\ h \in [0 .. Capacity -> Nat]
    BY <1>1, <1>2 DEF Widths
  <2> QED BY <2>1, <2>2
<1>5. Fits(h)'
  BY <1>2, <1>3, <1>4 DEF Fits
<1> QED BY <1>5
-----------------------------------------------------------------------------
(***************************************************************************)
(* The steps of the only thread that write the table.                      *)
(***************************************************************************)
LEMMA AlonePrivate ==
  ASSUME Alone, NEW n \in Uses[Main]
  PROVE  n \in Names /\ Main \in Threads /\ Private(n, Main)
BY ThreadsAssumption DEF Alone, Private

LEMMA AloneMine ==
  ASSUME Alone, IInv, NEW own, Owned(own), pc[Main] \in Pending
  PROVE  /\ i[Main] \in Mine(Main) /\ i[Main] \in Slots /\ Call(Main) \in Calls
         /\ TrailOK(Main) /\ OwnsOK(own, Main) /\ MineOK(Main)
         /\ \A s \in Occupied : SlotOK(own, s)
<1>1. Main \in Threads
  BY ThreadsAssumption
<1>2. ThreadOK(own, Main) /\ \A s \in Occupied : SlotOK(own, s)
  BY <1>1 DEF Owned
<1>3. Name(Main) \in Uses[Main] /\ i[Main] \in Slots /\ Call(Main) \in Calls
  BY <1>1, <1>2, PairOfCall
<1>4. i[Main] \in Reach(Name(Main))
  BY <1>1, ProbeReach
<1>5. Private(Name(Main), Main) /\ Name(Main) \in Names
  BY <1>3, AlonePrivate
<1> QED BY <1>2, <1>3, <1>4, <1>5 DEF ThreadOK, Mine

Grows == \E z \in Slots : Digits(z)' >= Digits(z) /\ \A s \in Slots \ {z} : Digits(s)' = Digits(s)

(* A value that grows in an entry of one bucket makes one line no shorter. *)
LEMMA ValueGrows ==
  ASSUME IInv, NEW z \in Slots, buckets[z] \in Calls, NEW v \in Nat,
         entries[buckets[z]].value <= v,
         \A s \in Occupied : buckets[s] = buckets[z] => s = z,
         UNCHANGED buckets, entries' = [entries EXCEPT ![buckets[z]].value = v]
  PROVE  Grows
<1> DEFINE e == buckets[z]
<1>1. entries \in [Calls -> Entry] /\ buckets \in [Slots -> Calls \cup {Null}]
  BY DEF IInv, TypeOK
<1>2. e # Null
  BY NullAssumption DEF Calls
<1>3. entries'[e].value = v /\ entries[e].value \in Nat
  BY <1>1 DEF Entry
<1>4. \A x \in Calls \ {e} : entries'[x] = entries[x]
  BY <1>1
<1>5. Digits(z)' >= Digits(z)
  BY <1>2, <1>3, BoundsAssumption DEF Digits
<1>6. ASSUME NEW s \in Slots \ {z}  PROVE Digits(s)' = Digits(s)
  <2>1. CASE buckets[s] = Null
    BY <2>1 DEF Digits
  <2>2. CASE buckets[s] # Null
    <3>1. buckets[s] \in Calls \ {e}
      BY <1>1, <2>2 DEF Occupied
    <3> QED BY <1>4, <2>2, <3>1 DEF Digits
  <2> QED BY <2>1, <2>2
<1> QED BY <1>5, <1>6 DEF Grows

(* A count that is written back is one more than the count was. *)
LEMMA IncrementGrows ==
  ASSUME Alone, IInv, EntriesOK, NEW own, Owned(own), Increment(Main)
  PROVE  Grows /\ \A e \in Calls : Blank(e)' => entries'[e].value = entries[e].value
<1>1. /\ pc[Main] = "increment" /\ UNCHANGED <<buckets, calls>>
      /\ entries' = [entries EXCEPT ![ptr[Main]].value = tmp[Main] + 1]
      /\ pc' = [pc EXCEPT ![Main] = "count"]
  BY DEF Increment, At, Store, Goto
<1>2. /\ i[Main] \in Slots /\ i[Main] \in Occupied /\ ptr[Main] = buckets[i[Main]]
      /\ tmp[Main] = entries[ptr[Main]].value
      /\ \A s \in Occupied : buckets[s] = ptr[Main] => s = i[Main]
  BY <1>1, AloneMine DEF Pending, Placed, MineOK, TrailOK
<1>3. ptr[Main] \in Calls /\ tmp[Main] \in Nat
  BY <1>1, ThreadsAssumption DEF IInv, TypeOK, InPlace
<1>4. Grows
  <2>1. PICK z \in Slots, v \in Nat : z = i[Main] /\ v = tmp[Main] + 1
    BY <1>2, <1>3
  <2>2. /\ buckets[z] \in Calls /\ entries[buckets[z]].value <= v
        /\ \A s \in Occupied : buckets[s] = buckets[z] => s = z
        /\ entries' = [entries EXCEPT ![buckets[z]].value = v]
    BY <1>1, <1>2, <1>3, <2>1
  <2> QED BY <1>1, <2>2, ValueGrows
<1>5. ASSUME NEW e \in Calls, Blank(e)'  PROVE e # ptr[Main]
  <2>1. pc'[Main] = "count"
    BY <1>1, ThreadsAssumption DEF IInv, TypeOK
  <2>2. e[1] = Main
    BY DEF Calls, Alone
  <2>3. Unmade(e)
    BY <1>1, <1>5, <2>1, <2>2 DEF Blank, Unmade, Probing, Missed
  <2> QED BY <1>2, <2>3 DEF EntriesOK
<1>6. \A e \in Calls \ {ptr[Main]} : entries'[e] = entries[e]
  BY <1>1 DEF IInv, TypeOK
<1> QED BY <1>4, <1>5, <1>6

(* What get() has missed, put() does not find either. *)
LEMMA NeverOverwrites ==
  ASSUME Alone, IInv, NEW own, Owned(own), Overwrite(Main)
  PROVE  FALSE
<1>1. pc[Main] = "found" /\ buckets[i[Main]] # Null
  BY DEF Overwrite, At
<1>2. /\ i[Main] \in Mine(Main) /\ i[Main] \in Slots /\ OwnsOK(own, Main) /\ MineOK(Main)
      /\ \A s \in Occupied : SlotOK(own, s)
  BY <1>1, AloneMine DEF Pending
<1>3. i[Main] \in Occupied
  BY <1>1, <1>2 DEF Occupied
<1>4. Key(i[Main]) = Name(Main) /\ own[i[Main]] # Pair(Main)
  BY <1>1, <1>2, <1>3 DEF MineOK, OwnsOK, Missed
<1>5. Key(i[Main]) = own[i[Main]][2] /\ own[i[Main]] \in Pairs
  <2>1. Key(i[Main]) # NoName
    BY <1>1, <1>4, ThreadsAssumption, CallInCalls, NullAssumption DEF IInv, Pending
  <2> QED BY <1>2, <1>3, <2>1 DEF SlotOK
<1>6. own[i[Main]] = Pair(Main)
  BY <1>4, <1>5 DEF Pairs, Pair, Alone
<1> QED BY <1>4, <1>6

(* A null bucket gets an entry that counts nothing. *)
LEMMA AllocGrows ==
  ASSUME Alone, IInv, EntriesOK, NEW own, Owned(own), Alloc(Main)
  PROVE  Grows /\ \A e \in Calls : entries'[e].value = entries[e].value
<1>1. /\ pc[Main] = "alloc" /\ UNCHANGED <<entries, calls>>
      /\ buckets' = [buckets EXCEPT ![i[Main]] = Call(Main)]
  BY DEF Alloc, At
<1>2. PICK z \in Slots : z = i[Main] /\ z \notin Occupied
  BY <1>1, AloneMine DEF Pending, MineOK
<1>3. Digits(z) = 0 /\ Digits(z)' \in {0, 4, 5}
  BY <1>2, DigitsAre DEF Occupied, Digits
<1>4. Digits(z)' >= Digits(z)
  BY <1>3
<1>5. \A s \in Slots \ {z} : Digits(s)' = Digits(s)
  BY <1>1, <1>2 DEF Digits, IInv, TypeOK
<1> QED BY <1>1, <1>4, <1>5 DEF Grows

(* A key that is stored changes no count. *)
LEMMA SetKeyGrows ==
  ASSUME Alone, IInv, NEW own, Owned(own), SetKey(Main)
  PROVE  Grows /\ \A e \in Calls : entries'[e].value = entries[e].value
<1>1. PICK e \in Target(Main) : entries' = [entries EXCEPT ![e].key = Name(Main)]
  BY DEF SetKey
<1>2. UNCHANGED buckets /\ pc[Main] = "key"
  BY DEF SetKey, At
<1>3. \A x \in Calls : entries'[x].value = entries[x].value
  BY <1>1 DEF IInv, TypeOK, Entry
<1>4. PICK z \in Slots : TRUE
  BY TableAssumption DEF Slots
<1>5. \A s \in Slots : Digits(s)' = Digits(s)
  <2> SUFFICES ASSUME NEW s \in Slots, buckets[s] # Null  PROVE Digits(s)' = Digits(s)
    BY <1>2 DEF Digits
  <2>1. buckets[s] \in Calls
    BY DEF IInv, TypeOK
  <2> QED BY <1>2, <1>3, <2>1 DEF Digits
<1>6. Digits(z)' = Digits(z) /\ Digits(z) \in {0, 4, 5}
  BY <1>5, DigitsAre
<1>7. Grows
  BY <1>5, <1>6 DEF Grows
<1> QED BY <1>3, <1>7

(* The count 1 takes the place of the count 0 of a fresh entry. *)
LEMMA SetValueGrows ==
  ASSUME Alone, IInv, EntriesOK, NEW own, Owned(own), FreshOK, SetValue(Main)
  PROVE  Grows /\ \A e \in Calls : Blank(e)' => entries'[e].value = entries[e].value
<1>1. PICK x \in Target(Main) : entries' = [entries EXCEPT ![x].value = 1]
  BY DEF SetValue, Store
<1>2. /\ UNCHANGED <<buckets, calls>> /\ pc[Main] = "value" /\ pc' = [pc EXCEPT ![Main] = "count"]
  BY DEF SetValue, At, Goto
<1>3. /\ i[Main] \in Slots /\ Call(Main) \in Calls /\ buckets[i[Main]] = Call(Main)
      /\ \A s \in Occupied : buckets[s] = Call(Main) => s = i[Main]
  BY <1>2, AloneMine DEF Pending, TrailOK, MineOK
<1>4. x = buckets[i[Main]] /\ x = Call(Main)
  BY <1>3 DEF Target
<1>5. entries[Call(Main)].value = 0
  BY <1>2, <1>3 DEF FreshOK, Blank
<1>6. Grows
  <2>1. PICK z \in Slots : z = i[Main]
    BY <1>3
  <2>2. /\ buckets[z] \in Calls /\ entries[buckets[z]].value <= 1
        /\ \A s \in Occupied : buckets[s] = buckets[z] => s = z
        /\ entries' = [entries EXCEPT ![buckets[z]].value = 1]
    <3>1. buckets[z] = Call(Main) /\ x = buckets[z]
      BY <1>3, <1>4, <2>1
    <3>2. \A s \in Occupied : buckets[s] = buckets[z] => s = z
      BY <1>3, <2>1, <3>1
    <3>3. entries[buckets[z]].value <= 1
      BY <1>5, <3>1
    <3> QED BY <1>1, <1>3, <3>1, <3>2, <3>3
  <2> QED BY <1>2, <2>2, ValueGrows
<1>7. ASSUME NEW e \in Calls, Blank(e)'  PROVE e # x
  <2>1. pc'[Main] = "count"
    BY <1>2, ThreadsAssumption DEF IInv, TypeOK
  <2>2. e[1] = Main
    BY DEF Calls, Alone
  <2>3. e[2] > Len(calls[Main])
    BY <1>2, <1>7, <2>1, <2>2 DEF Blank, Unmade, Probing, Missed
  <2>4. Call(Main)[2] = Len(calls[Main]) /\ Len(calls[Main]) \in Nat
    BY ThreadsAssumption DEF Call, IInv, TypeOK
  <2> QED BY <1>4, <2>3, <2>4
<1>8. \A e \in Calls \ {x} : entries'[e] = entries[e]
  BY <1>1 DEF IInv, TypeOK
<1> QED BY <1>6, <1>7, <1>8

(* What none of the calls that count has stored into yet stays at nothing. *)
LEMMA BlankStays ==
  ASSUME Alone, IInv, UNCHANGED calls, pc' = [pc EXCEPT ![Main] = pc'[Main]],
         pc'[Main] \in Probing \cup {"key", "value"} => pc[Main] \in Probing \cup {"key", "value"}
  PROVE  \A e \in Calls : Blank(e)' => Blank(e)
<1> SUFFICES ASSUME NEW e \in Calls, Blank(e)'  PROVE Blank(e)
  OBVIOUS
<1>1. e[1] = Main
  BY DEF Calls, Alone
<1>2. Call(Main)' = Call(Main)
  BY DEF Call
<1> QED BY <1>1, <1>2 DEF Blank, Unmade

(* A step that stores no count keeps the fresh entries at 0. *)
LEMMA FreshStays ==
  ASSUME FreshOK,
         \A e \in Calls : Blank(e)' => Blank(e) /\ entries'[e].value = entries[e].value
  PROVE  FreshOK'
BY DEF FreshOK
-----------------------------------------------------------------------------
(***************************************************************************)
(* Between two calls the table of the only thread has what it has called.  *)
(***************************************************************************)
LEMMA TimesCalled ==
  ASSUME TypeOK, NEW n \in Names
  PROVE  Times(n, calls[Main]) \in Nat /\ (n \in Called <=> Times(n, calls[Main]) # 0)
<1> DEFINE S == {k \in DOMAIN calls[Main] : calls[Main][k] = n}
<1>1. calls[Main] \in Seq(Names) /\ Len(calls[Main]) \in Nat
      /\ DOMAIN calls[Main] = 1 .. Len(calls[Main])
  BY ThreadsAssumption DEF TypeOK
<1>2. Times(n, calls[Main]) \in Nat
  BY <1>1, TimesAppend
<1>3. IsFiniteSet(S)
  <2>1. S \in SUBSET (1 .. Len(calls[Main])) /\ IsFiniteSet(1 .. Len(calls[Main]))
    BY <1>1, FS_Interval
  <2> QED BY <2>1, FS_Subset
<1>4. Cardinality(S) = 0 <=> S = {}
  BY <1>3, FS_EmptySet
<1> QED BY <1>2, <1>4 DEF Times, Called

(* The buckets have the names that were called, each with its number of calls. *)
LEMMA Snapshot ==
  ASSUME Alone, IInv, NEW own, Owned(own), pc[Main] \notin Pending
  PROVE  /\ \A s \in Occupied : /\ Key(s) \in Called /\ Key(s) \in Names
                                /\ entries[buckets[s]].value = Times(Key(s), calls[Main])
         /\ \A s, r \in Occupied : Key(s) = Key(r) => s = r
         /\ \A n \in Called : \E s \in Occupied : Key(s) = n
<1>1. TypeOK /\ Main \in Threads /\ pc[Main] \notin {"key", "value"}
  BY ThreadsAssumption DEF IInv, Pending
<1>2. ASSUME NEW s \in Occupied
      PROVE  own[s] = <<Main, Key(s)>> /\ Key(s) \in Uses[Main]
  <2>1. SlotOK(own, s)
    BY DEF Owned
  <2>2. own[s] \in Pairs /\ Key(s) = own[s][2]
    BY <1>1, <2>1 DEF SlotOK, Half, Alone
  <2> QED BY <2>2 DEF Pairs, Alone
<1>3. ASSUME NEW n \in Uses[Main]
      PROVE  /\ n \in Names /\ ValueOK(own, n, Main) /\ Done(n, Main) = Times(n, calls[Main])
             /\ Times(n, calls[Main]) \in Nat
  <2>1. n \in Names /\ Private(n, Main)
    BY AlonePrivate
  <2>2. Times(n, calls[Main]) \in Nat
    BY <1>1, <2>1, TimesCalled
  <2> QED BY <1>1, <2>1, <2>2 DEF Owned, Done
<1>4. ASSUME NEW s \in Occupied
      PROVE  /\ Key(s) \in Called /\ Key(s) \in Names
             /\ entries[buckets[s]].value = Times(Key(s), calls[Main])
  <2>1. /\ own[s] = <<Main, Key(s)>> /\ Key(s) \in Names /\ ValueOK(own, Key(s), Main)
        /\ Done(Key(s), Main) = Times(Key(s), calls[Main]) /\ Times(Key(s), calls[Main]) \in Nat
    BY <1>2, <1>3
  <2>2. entries[buckets[s]].value = Times(Key(s), calls[Main]) /\ Times(Key(s), calls[Main]) >= 1
    BY <1>1, <2>1 DEF ValueOK
  <2> QED BY <1>1, <2>1, <2>2, TimesCalled
<1>5. ASSUME NEW s \in Occupied, NEW r \in Occupied, Key(s) = Key(r)  PROVE s = r
  <2>1. own[s] = own[r]
    BY <1>2, <1>5
  <2> QED BY <2>1 DEF Owned
<1>6. ASSUME NEW n \in Called  PROVE \E s \in Occupied : Key(s) = n
  <2>1. n \in Uses[Main]
    BY <1>1 DEF Owned, ThreadOK, TrailOK, Called
  <2>2. n \in Names /\ ValueOK(own, n, Main) /\ Done(n, Main) # 0
    BY <1>1, <1>3, <2>1, TimesCalled
  <2>3. PICK s \in Occupied : own[s] = <<Main, n>>
    BY <2>2 DEF ValueOK
  <2> QED BY <1>2, <2>3
<1> QED BY <1>4, <1>5, <1>6

(* What a flush leaves: the lines are as many as the names, one for each. *)
LEMMA WholeText ==
  ASSUME Alone, IInv, NEW own, Owned(own), pc[Main] \notin Pending,
         NEW g, stream.lines \in Seq(Line), Lists(g, stream, Capacity)
  PROVE  /\ Len(stream.lines) = Cardinality(Called)
         /\ {stream.lines[m] : m \in DOMAIN stream.lines} =
              {[name |-> n, value |-> Times(n, calls[Main])] : n \in Called}
<1> DEFINE L == 1 .. Len(stream.lines)
           h == [m \in L |-> Key(g[m])]
<1>1. Len(stream.lines) \in Nat /\ DOMAIN stream.lines = L
  OBVIOUS
<1>2. \A s \in Occupied : s < Capacity
  BY TableAssumption DEF Occupied, Slots
<1>3. /\ \A m \in L : g[m] \in Occupied /\ stream.lines[m] = LineOf(g[m])
      /\ \A s \in Occupied : \E m \in L : g[m] = s
      /\ \A l, m \in L : g[l] = g[m] => l = m
  BY <1>2 DEF Lists
<1>4. /\ \A s \in Occupied : /\ Key(s) \in Called
                             /\ LineOf(s) = [name |-> Key(s), value |-> Times(Key(s), calls[Main])]
      /\ \A s, r \in Occupied : Key(s) = Key(r) => s = r
      /\ \A n \in Called : \E s \in Occupied : Key(s) = n
  BY Snapshot DEF LineOf
<1> HIDE DEF L
<1>5. h \in Bijection(L, Called)
  <2>1. h \in [L -> Called]
    BY <1>3, <1>4
  <2>2. \A l, m \in L : h[l] = h[m] => l = m
    BY <1>3, <1>4
  <2>3. \A n \in Called : \E m \in L : h[m] = n
    <3> SUFFICES ASSUME NEW n \in Called  PROVE \E m \in L : h[m] = n
      OBVIOUS
    <3>1. PICK s \in Occupied : Key(s) = n
      BY <1>4
    <3>2. PICK m \in L : g[m] = s
      BY <1>3
    <3> QED BY <3>1, <3>2
  <2> QED BY <2>1, <2>2, <2>3 DEF Bijection, Injection, Surjection, IsInjective
<1>6. Cardinality(Called) = Cardinality(L) /\ Cardinality(L) = Len(stream.lines)
  <2>1. IsFiniteSet(L) /\ Cardinality(L) = Len(stream.lines)
    BY <1>1, FS_Interval DEF L
  <2>2. ExistsBijection(L, Called)
    BY <1>5 DEF ExistsBijection
  <2> QED BY <2>1, <2>2, FS_Bijection
<1>7. \A m \in L : \E n \in Called :
        stream.lines[m] = [name |-> n, value |-> Times(n, calls[Main])]
  BY <1>3, <1>4
<1>8. \A n \in Called : \E m \in L :
        stream.lines[m] = [name |-> n, value |-> Times(n, calls[Main])]
  <2> SUFFICES ASSUME NEW n \in Called
               PROVE  \E m \in L : stream.lines[m] = [name |-> n, value |-> Times(n, calls[Main])]
    OBVIOUS
  <2>1. PICK s \in Occupied : Key(s) = n
    BY <1>4
  <2>2. PICK m \in L : g[m] = s
    BY <1>3
  <2> QED BY <1>3, <1>4, <2>1, <2>2
<1>9. {stream.lines[m] : m \in L} = {[name |-> n, value |-> Times(n, calls[Main])] : n \in Called}
  BY <1>7, <1>8, Zenon
<1> QED BY <1>1, <1>6, <1>9, Zenon
-----------------------------------------------------------------------------
(***************************************************************************)
(* The disk and the text between two saves, and in one.                    *)
(***************************************************************************)
LEMMA OnDiskStays ==
  ASSUME TypeOK, NEW k \in 0 .. Made, UNCHANGED disk,
         \/ calls'[Main] = calls[Main]
         \/ \E n \in Names : calls'[Main] = Append(calls[Main], n)
  PROVE  OnDisk(k)' <=> OnDisk(k)
<1>1. calls[Main] \in Seq(Names) /\ Made \in Nat /\ k \in Int
  BY ThreadsAssumption DEF TypeOK, Made
<1>2. SubSeq(calls'[Main], 1, k) = SubSeq(calls[Main], 1, k)
  <2>1. CASE calls'[Main] = calls[Main]
    BY <2>1
  <2>2. ASSUME NEW n \in Names, calls'[Main] = Append(calls[Main], n)
        PROVE  SubSeq(calls'[Main], 1, k) = SubSeq(calls[Main], 1, k)
    <3>1. SubSeq(Append(calls[Main], n), 1, k) = SubSeq(calls[Main], 1, k)
      BY <1>1 DEF Made
    <3> QED BY <2>2, <3>1
  <2> QED BY <2>1, <2>2
<1> DEFINE Holds(saved, text) ==
             /\ text.at = text.length
             /\ Len(text.lines) = Cardinality({saved[m] : m \in DOMAIN saved})
             /\ {text.lines[m] : m \in DOMAIN text.lines} =
                  {[name |-> n, value |-> Times(n, saved)] : n \in {saved[m] : m \in DOMAIN saved}}
<1>3. OnDisk(k) <=> Holds(SubSeq(calls[Main], 1, k), disk)
  BY Zenon DEF OnDisk
<1>4. OnDisk(k)' <=> Holds(SubSeq(calls'[Main], 1, k), disk')
  BY Zenon DEF OnDisk, Times
<1> HIDE DEF Holds
<1> QED BY <1>2, <1>3, <1>4, Zenon

(* Outside a save, what is on the disk stays on it. *)
LEMMA DiskStays ==
  ASSUME TypeOK, SavedOK, UNCHANGED <<stream, disk>>,
         pc[Main] # "print", pc'[Main] # "print",
         \/ calls'[Main] = calls[Main]
         \/ \E n \in Names : calls'[Main] = Append(calls[Main], n),
         \A k \in 0 .. Made : Since(k) => Since(k)'
  PROVE  SavedOK'
<1>1. PICK k \in 0 .. Made : OnDisk(k) /\ Since(k)
  BY DEF SavedOK
<1>2. OnDisk(k)' /\ Since(k)'
  BY <1>1, OnDiskStays
<1>3. k \in 0 .. Made'
  <2>1. calls[Main] \in Seq(Names) /\ Len(calls[Main]) \in Nat
    BY ThreadsAssumption DEF TypeOK
  <2>2. Made' = Made \/ Made' = Made + 1
    BY <2>1 DEF Made
  <2> QED BY <2>1, <2>2 DEF Made
<1> QED BY <1>2, <1>3 DEF SavedOK

(* The text still fits when the table is the same. *)
LEMMA FitsStay ==
  ASSUME NEW f, Fits(f), UNCHANGED <<buckets, entries, stream>>, pc'[Main] # "print"
  PROVE  Fits(f)'
BY SameWidths DEF Fits

(* The lines are still those of the buckets when the table is the same. *)
LEMMA SameLists ==
  ASSUME UNCHANGED <<buckets, entries>>, NEW g
  PROVE  Lists(g, stream, i[Main])' <=> Lists(g, stream', i'[Main])
BY DEF Lists, LineOf, Occupied, Key

(* A turn of the loop over the buckets adds the line of its bucket. *)
LEMMA ListsMore ==
  ASSUME NEW g, NEW k \in Slots, Lists(g, stream, k), stream.lines \in Seq(Line),
         buckets[k] # Null, LineOf(k) \in Line,
         stream'.lines = Append(stream.lines, LineOf(k))
  PROVE  \E h : Lists(h, stream', k + 1)
<1> DEFINE old == stream.lines
           last == Len(old) + 1
           h == [m \in 1 .. last |-> IF m = last THEN k ELSE g[m]]
<1>1. /\ Len(old) \in Nat /\ Len(stream'.lines) = last
      /\ stream'.lines[last] = LineOf(k) /\ \A m \in 1 .. Len(old) : stream'.lines[m] = old[m]
  OBVIOUS
<1>2. /\ k \in Occupied /\ k \in Nat /\ \A s \in Occupied : s \in Nat
      /\ \A s \in Occupied : s < k + 1 <=> s < k \/ s = k
  BY TableAssumption DEF Occupied, Slots
<1>3. /\ \A m \in 1 .. Len(old) : /\ g[m] \in Occupied /\ g[m] < k
                                  /\ old[m] = LineOf(g[m])
      /\ \A s \in Occupied : s < k => \E m \in 1 .. Len(old) : g[m] = s
      /\ \A l, m \in 1 .. Len(old) : g[l] = g[m] => l = m
  BY DEF Lists
<1>4. \A m \in 1 .. last : m = last \/ m \in 1 .. Len(old)
  BY <1>1
<1>5. \A m \in 1 .. Len(old) : m # last /\ m \in 1 .. last
  BY <1>1
<1>6. last \in 1 .. last /\ h[last] = k /\ \A m \in 1 .. Len(old) : h[m] = g[m]
  BY <1>1, <1>5
<1>7. h \in [1 .. last -> {s \in Occupied : s < k + 1}]
  <2>1. \A m \in 1 .. last : h[m] \in Occupied /\ h[m] < k + 1
    BY <1>2, <1>3, <1>4, <1>6
  <2> QED BY <2>1
<1> HIDE DEF h, last, old
<1>8. \A s \in Occupied : s < k + 1 => \E m \in 1 .. last : h[m] = s
  BY <1>2, <1>3, <1>5, <1>6
<1>9. \A l, m \in 1 .. last : h[l] = h[m] => l = m
  <2> SUFFICES ASSUME NEW l \in 1 .. last, NEW m \in 1 .. last, h[l] = h[m]  PROVE l = m
    OBVIOUS
  <2>1. \A p \in 1 .. Len(old) : h[p] # k
    BY <1>2, <1>3, <1>6
  <2> QED BY <1>3, <1>4, <1>6, <2>1
<1>10. \A m \in 1 .. last : stream'.lines[m] = LineOf(h[m])
  BY <1>1, <1>3, <1>4, <1>6
<1>11. Lists(h, stream', k + 1)
  BY <1>1, <1>7, <1>8, <1>9, <1>10 DEF Lists
<1> QED BY <1>11
-----------------------------------------------------------------------------
(***************************************************************************)
(* The steps of the only thread.                                           *)
(***************************************************************************)
LEMMA AloneFacts ==
  ASSUME SaveInv
  PROVE  /\ TypeOK /\ IInv /\ EntriesOK /\ EndOK /\ FreshOK /\ Main \in Threads
         /\ \E own \in Owners : Owned(own)
         /\ Made \in Nat /\ calls[Main] \in Seq(Names) /\ counter \in Nat /\ SaveInterval \in Nat
BY ThreadsAssumption, BoundsAssumption DEF SaveInv, EndInv, TableInv, SaveOK, IInv, TypeOK, Made

(* A step that leaves the table, the text and the disk as they are. *)
LEMMA QuietSave ==
  ASSUME Alone, SaveInv, UNCHANGED <<table, opened, stream, disk>>, life' = "crashed" \/ life # "crashed",
         pc[Main] # "print", pc'[Main] # "print",
         \/ calls'[Main] = calls[Main]
         \/ \E n \in Names : calls'[Main] = Append(calls[Main], n),
         \A e \in Calls : Blank(e)' => Blank(e),
         life' # "crashed" => \A k \in 0 .. Made : Since(k) => Since(k)'
  PROVE  SaveOK'
<1>1. UNCHANGED <<buckets, entries>>
  BY DEF table
<1>2. FreshOK'
  BY <1>1, AloneFacts, FreshStays
<1>3. ASSUME opened', life' # "crashed"  PROVE SavedOK' /\ \E f : Fits(f)'
  <2>1. SavedOK /\ \E f : Fits(f)
    BY <1>3 DEF SaveInv, SaveOK
  <2>2. SavedOK'
    BY <1>3, <2>1, AloneFacts, DiskStays
  <2>3. PICK f : Fits(f)
    BY <2>1
  <2>4. Fits(f)'
    BY <1>1, <2>3, FitsStay
  <2> QED BY <2>2, <2>4
<1> QED BY <1>2, <1>3 DEF SaveOK

(* A call begins. *)
LEMMA BeginSave ==
  ASSUME Alone, SaveInv, BeforeInterfaceCall(Main)
  PROVE  SaveOK'
<1>1. /\ pc[Main] = "idle" /\ life = "running" /\ life' = life
      /\ UNCHANGED <<table, opened, stream, disk, counter>>
      /\ pc' = [pc EXCEPT ![Main] = "get"]
  BY DEF BeforeInterfaceCall, Goto, file, fixed
<1>2. PICK n \in Names : calls' = [calls EXCEPT ![Main] = Append(@, n)]
  BY ThreadsAssumption DEF BeforeInterfaceCall
<1>3. /\ calls'[Main] = Append(calls[Main], n) /\ pc'[Main] = "get"
      /\ Len(calls'[Main]) = Made + 1 /\ Made' = Made + 1 /\ Made \in Nat
  BY <1>1, <1>2, AloneFacts DEF TypeOK, Made
<1>4. ASSUME NEW e \in Calls, Blank(e)'  PROVE Blank(e)
  <2>1. e[1] = Main /\ e[2] \in Nat
    BY BoundsAssumption DEF Calls, Alone
  <2>2. e[2] > Len(calls'[Main]) \/ e = Call(Main)'
    BY <1>3, <1>4, <2>1 DEF Blank, Unmade
  <2>3. Call(Main)'[2] = Made + 1
    BY <1>3 DEF Call
  <2>4. e[2] > Len(calls[Main])
    BY <1>3, <2>1, <2>2, <2>3 DEF Made
  <2> QED BY <2>1, <2>4 DEF Blank, Unmade
<1>5. ASSUME NEW k \in 0 .. Made, Since(k)  PROVE Since(k)'
  <2>1. counter = Made - k /\ counter < SaveInterval
    BY <1>1, <1>5 DEF Since
  <2>2. counter' = Made' - k - 1 /\ counter' < SaveInterval
    BY <1>1, <1>3, <2>1
  <2> QED BY <1>3, <2>2 DEF Since, Pending
<1> QED BY <1>1, <1>3, <1>4, <1>5, QuietSave

(* A turn of a probe, or what follows it. *)
LEMMA ProbeSave ==
  ASSUME Alone, SaveInv,
         \/ ProbeForHit(Main, "get", "got") \/ ProbeForHit(Main, "put", "found")
         \/ GetHit(Main) \/ GetMiss(Main) \/ PutMiss(Main) \/ ProbeForFree(Main)
  PROVE  SaveOK'
<1>1. /\ UNCHANGED <<table, opened, stream, disk, counter, calls>> /\ life # "crashed"
      /\ pc[Main] \in Pending /\ pc'[Main] \in Pending
      /\ pc' = [pc EXCEPT ![Main] = pc'[Main]]
      /\ pc'[Main] \in Probing \cup {"key", "value"} => pc[Main] \in Probing \cup {"key", "value"}
  <2> USE DEF At, Alive, Goto, file, fixed, Pending, Probing, Missed, TypeOK
  <2>0. TypeOK /\ Main \in Threads
    BY AloneFacts
  <2>1. CASE ProbeForHit(Main, "get", "got")
    BY <2>0, <2>1 DEF ProbeForHit
  <2>2. CASE ProbeForHit(Main, "put", "found")
    BY <2>0, <2>2 DEF ProbeForHit
  <2>3. CASE GetHit(Main) \/ GetMiss(Main) \/ PutMiss(Main)
    BY <2>0, <2>3 DEF GetHit, GetMiss, PutMiss
  <2>4. CASE ProbeForFree(Main)
    BY <2>0, <2>4 DEF ProbeForFree
  <2> QED BY <2>1, <2>2, <2>3, <2>4
<1>2. pc[Main] # "print" /\ pc'[Main] # "print"
  BY <1>1 DEF Pending
<1>3. \A e \in Calls : Blank(e)' => Blank(e)
  BY <1>1, AloneFacts, BlankStays
<1>4. \A k \in 0 .. Made : Since(k) => Since(k)'
  BY <1>1 DEF Since, Pending, Made
<1> QED BY <1>1, <1>2, <1>3, <1>4, QuietSave

(* The counter is read, or written back: a save begins in time. *)
LEMMA CounterSave ==
  ASSUME Alone, SaveInv, ReadCounter(Main) \/ Bump(Main)
  PROVE  SaveOK'
<1> USE DEF At, Alive, Goto, file, fixed
<1>1. /\ UNCHANGED <<table, opened, stream, disk, calls, life>> /\ life # "crashed"
      /\ pc' = [pc EXCEPT ![Main] = pc'[Main]]
      /\ pc[Main] \in {"count", "bump"} /\ pc'[Main] \in {"bump", "rewind", "idle"}
      /\ Made' = Made
  BY AloneFacts DEF ReadCounter, Bump, TypeOK, Made
<1>2. \A e \in Calls : Blank(e)' => Blank(e)
  BY <1>1, AloneFacts, BlankStays DEF Probing, Missed
<1>3. ASSUME NEW k \in 0 .. Made, Since(k)  PROVE Since(k)'
  <2>1. Made \in Nat /\ counter \in Nat /\ SaveInterval \in Nat
    BY AloneFacts
  <2>2. CASE ReadCounter(Main)
    <3>1. counter' = counter /\ pc'[Main] = "bump" /\ tmp'[Main] = counter /\ pc[Main] = "count"
      BY <2>2, AloneFacts DEF ReadCounter, TypeOK
    <3> QED BY <1>1, <1>3, <3>1 DEF Since, Pending
  <2>3. CASE Bump(Main)
    <3>1. /\ pc[Main] = "bump" /\ counter' = tmp[Main] + 1
          /\ pc'[Main] = IF tmp[Main] + 1 >= SaveInterval THEN "rewind" ELSE "idle"
      BY <2>3, AloneFacts DEF Bump, TypeOK
    <3>2. counter = Made - k - 1 /\ counter < SaveInterval /\ tmp[Main] = counter
      BY <1>3, <3>1 DEF Since
    <3>3. life = "running"
      BY <1>1, <3>1, AloneFacts DEF EndOK, TypeOK
    <3>4. counter' = Made - k /\ Made - k <= SaveInterval
      BY <2>1, <3>1, <3>2
    <3>5. CASE pc'[Main] = "rewind"
      BY <1>1, <3>4, <3>5 DEF Since, Pending
    <3>6. CASE pc'[Main] = "idle" /\ tmp[Main] + 1 < SaveInterval
      <4>1. counter' < SaveInterval
        BY <3>1, <3>6
      <4> QED BY <1>1, <3>3, <3>4, <3>6, <4>1 DEF Since, Pending
    <3> QED BY <2>1, <3>1, <3>2, <3>5, <3>6
  <2> QED BY <2>2, <2>3
<1> QED BY <1>1, <1>2, <1>3, QuietSave

(* A step that stores into the table. *)
LEMMA StoreSave ==
  ASSUME Alone, SaveInv,
         Increment(Main) \/ Overwrite(Main) \/ Alloc(Main) \/ SetKey(Main) \/ SetValue(Main)
  PROVE  SaveOK'
<1>1. PICK own \in Owners : Owned(own)
  BY AloneFacts
<1>2. ~Overwrite(Main)
  BY <1>1, AloneFacts, NeverOverwrites
<1>3. /\ UNCHANGED <<opened, stream, disk, counter, calls, life>> /\ life # "crashed"
      /\ pc[Main] \in Pending /\ pc'[Main] \in {"key", "value", "count"}
      /\ pc' = [pc EXCEPT ![Main] = pc'[Main]]
      /\ pc'[Main] \in Probing \cup {"key", "value"} => pc[Main] \in Probing \cup {"key", "value"}
  <2> USE <1>2, AloneFacts DEF At, Alive, Goto, file, fixed, Pending, Probing, Missed, TypeOK
  <2>1. CASE Increment(Main)
    BY <2>1 DEF Increment
  <2>2. CASE Alloc(Main)
    BY <2>2 DEF Alloc
  <2>3. CASE SetKey(Main) \/ SetValue(Main)
    BY <2>3 DEF SetKey, SetValue
  <2> QED BY <2>1, <2>2, <2>3
<1>4. \A e \in Calls : Blank(e)' => Blank(e)
  BY <1>3, AloneFacts, BlankStays
<1>5. Grows /\ \A e \in Calls : Blank(e)' => entries'[e].value = entries[e].value
  BY <1>1, <1>2, AloneFacts, IncrementGrows, AllocGrows, SetKeyGrows, SetValueGrows
<1>6. FreshOK'
  BY <1>4, <1>5, AloneFacts, FreshStays
<1>7. pc[Main] # "print" /\ pc'[Main] # "print"
  BY <1>3 DEF Pending
<1>8. \A k \in 0 .. Made : Since(k) => Since(k)'
  BY <1>3 DEF Since, Pending, Made
<1>9. ASSUME opened'  PROVE SavedOK' /\ \E f : Fits(f)'
  <2>1. SavedOK /\ \E f : Fits(f)
    BY <1>3, <1>9 DEF SaveInv, SaveOK
  <2>2. SavedOK'
    BY <1>3, <1>7, <1>8, <2>1, AloneFacts, DiskStays
  <2>3. PICK f : Fits(f)
    BY <2>1
  <2>4. PICK z \in Slots : Digits(z)' >= Digits(z) /\ \A s \in Slots \ {z} : Digits(s)' = Digits(s)
    BY <1>5 DEF Grows
  <2>5. \E h : Fits(h)'
    BY <1>3, <1>7, <2>3, <2>4, AloneFacts, WidensFit
  <2> QED BY <2>2, <2>5
<1> QED BY <1>6, <1>9 DEF SaveOK

(* The program exits, and the last save begins. *)
LEMMA ExitSave ==
  ASSUME Alone, SaveInv, Exit
  PROVE  SaveOK'
<1>1. /\ pc[Main] = "idle" /\ life = "running" /\ life' = "exiting"
      /\ UNCHANGED <<table, opened, stream, disk, counter, calls>>
      /\ pc' = [pc EXCEPT ![Main] = pc'[Main]] /\ pc'[Main] = "rewind"
  BY AloneFacts DEF Exit, Goto, file, fixed, TypeOK
<1>2. \A e \in Calls : Blank(e)' => Blank(e)
  BY <1>1, AloneFacts, BlankStays DEF Probing, Missed
<1>3. ASSUME NEW k \in 0 .. Made, Since(k)  PROVE Since(k)'
  <2>1. Made' = Made /\ counter = Made - k /\ counter < SaveInterval
    BY <1>1, <1>3 DEF Since, Made
  <2>2. Made' - k <= SaveInterval
    BY <2>1, AloneFacts
  <2> QED BY <1>1, <2>2 DEF Since, Pending
<1> QED BY <1>1, <1>2, <1>3, QuietSave

(* The save begins with an empty list of lines. *)
LEMMA RewindSave ==
  ASSUME Alone, SaveInv, Rewind(Main)
  PROVE  SaveOK'
<1> USE DEF At, Alive, Goto, Crash, fixed
<1>1. /\ pc[Main] = "rewind" /\ life # "crashed" /\ UNCHANGED <<table, opened, calls>>
      /\ pc' = [pc EXCEPT ![Main] = pc'[Main]] /\ pc'[Main] \in {"rewind", "print"}
  BY AloneFacts DEF Rewind, TypeOK
<1>2. FreshOK'
  <2>1. \A e \in Calls : Blank(e)' => Blank(e)
    BY <1>1, AloneFacts, BlankStays DEF Probing, Missed
  <2> QED BY <1>1, <2>1, AloneFacts, FreshStays DEF table
<1>3. ASSUME opened', life' # "crashed"  PROVE SavedOK' /\ \E f : Fits(f)'
  <2>1. /\ stream' = [lines |-> <<>>, at |-> 0, length |-> stream.length]
        /\ i'[Main] = 0 /\ pc'[Main] = "print"
    BY <1>1, <1>3, AloneFacts DEF Rewind, TypeOK
  <2>2. Lists(<<>>, stream', 0)
    <3>1. Len(stream'.lines) = 0 /\ \A s \in Occupied : ~(s < 0)
      BY <2>1, TableAssumption DEF Occupied, Slots
    <3>2. 1 .. Len(stream'.lines) = {}
      BY <3>1
    <3>3. <<>> \in [{} -> {s \in Occupied : s < 0}]
      OBVIOUS
    <3> QED BY <3>1, <3>2, <3>3 DEF Lists
  <2>3. SavedOK'
    <3>1. Lists(<<>>, stream, i[Main])'
      BY <1>1, <2>1, <2>2, SameLists DEF table
    <3> QED BY <2>1, <3>1 DEF SavedOK
  <2>4. PICK f : Fits(f)
    BY <1>1, <1>3 DEF SaveInv, SaveOK
  <2>5. Fits(f)'
    <3>1. Widths(f)' /\ f[0] = 0
      BY <1>1, <2>4, SameWidths DEF Fits, Widths, table
    <3>2. stream.length <= f[Capacity] /\ stream.length \in Nat
      BY <2>4, AloneFacts DEF Fits, TypeOK, Text
    <3> QED BY <2>1, <3>1, <3>2 DEF Fits
  <2> QED BY <2>3, <2>5
<1> QED BY <1>2, <1>3 DEF SaveOK

(* The save comes to the next bucket. *)
LEMMA PrintSave ==
  ASSUME Alone, SaveInv, PrintBucket(Main)
  PROVE  SaveOK'
<1> DEFINE k == i[Main]
<1>1. /\ pc[Main] = "print" /\ life # "crashed" /\ UNCHANGED <<table, opened, calls, pc, life>>
      /\ i'[Main] = k + 1 /\ k \in Slots /\ k \in Nat /\ k < Capacity
  <2>1. /\ pc[Main] = "print" /\ life # "crashed" /\ UNCHANGED <<table, opened, calls, pc, life>>
        /\ i'[Main] = k + 1 /\ k < Capacity
    BY AloneFacts DEF PrintBucket, At, Alive, fixed, TypeOK
  <2>2. k \in Slots
    <3>1. k \in Slots \cup {Capacity}
      BY AloneFacts, ThreadsAssumption DEF TypeOK
    <3>2. k # Capacity
      BY <2>1, TableAssumption
    <3> QED BY <3>1, <3>2
  <2> QED BY <2>1, <2>2, TableAssumption DEF Slots
<1>2. FreshOK'
  <2>1. \A e \in Calls : Blank(e)' => Blank(e)
    BY <1>1 DEF Blank, Unmade, Call
  <2> QED BY <1>1, <2>1, AloneFacts, FreshStays DEF table
<1>3. ASSUME opened'  PROVE SavedOK' /\ \E f : Fits(f)'
  <2>1. SavedOK /\ \E f : Fits(f)
    BY <1>1, <1>3 DEF SaveInv, SaveOK
  <2>2. PICK g : Lists(g, stream, k)
    BY <1>1, <2>1 DEF SavedOK
  <2>3. PICK f : Fits(f)
    BY <2>1
  <2>4. /\ stream.at = f[k] /\ stream.length <= f[Capacity] /\ stream.at <= stream.length
        /\ f[k + 1] = f[k] + Digits(k) /\ f[k + 1] <= f[Capacity]
        /\ f[k] \in Nat /\ f[k + 1] \in Nat /\ f[Capacity] \in Nat
    <3>1. k + 1 \in 0 .. Capacity /\ k \in 0 .. Capacity /\ Capacity \in 0 .. Capacity
          /\ k + 1 <= Capacity
      BY <1>1, TableAssumption
    <3> QED BY <1>1, <2>3, <3>1 DEF Fits, Widths
  <2>5. stream \in Text /\ stream.length \in Nat /\ stream.at \in Nat /\ stream.lines \in Seq(Line)
    BY AloneFacts DEF TypeOK, Text
  <2>6. Widths(f)'
    BY <1>1, <2>3, SameWidths DEF Fits, table
  <2>7. CASE buckets[k] = Null
    <3>1. stream' = stream /\ Digits(k) = 0
      BY <2>7 DEF PrintBucket, Digits
    <3>2. \A s \in Occupied : s < k + 1 <=> s < k
      <4>1. k \notin Occupied /\ \A s \in Occupied : s \in Nat
        BY <2>7, TableAssumption DEF Occupied, Slots
      <4> QED BY <1>1, <4>1
    <3>3. {s \in Occupied : s < k + 1} = {s \in Occupied : s < k}
      BY <3>2
    <3>4. Lists(g, stream', k + 1)
      BY <2>2, <3>1, <3>2, <3>3, Zenon DEF Lists
    <3>5. SavedOK'
      BY <1>1, <3>4, SameLists DEF SavedOK, table
    <3>6. Fits(f)'
      BY <1>1, <2>4, <2>5, <2>6, <3>1 DEF Fits
    <3> QED BY <3>5, <3>6
  <2>8. CASE buckets[k] # Null
    <3>1. stream' = Written(LineOf(k))
      BY <2>8 DEF PrintBucket, LineOf, Key
    <3>2. LineOf(k) \in Line /\ Width(LineOf(k)) = Digits(k) /\ Digits(k) \in Nat
      <4>1. entries[buckets[k]] \in Entry
        BY <1>1, <2>8, AloneFacts DEF TypeOK
      <4> QED BY <2>8, <4>1 DEF LineOf, Key, Line, Entry, Width, Digits
    <3>3. /\ stream'.lines = Append(stream.lines, LineOf(k))
          /\ stream'.at = f[k + 1]
          /\ stream'.length = Longer(f[k + 1], stream.length)
      BY <2>4, <3>1, <3>2 DEF Written
    <3>4. PICK h : Lists(h, stream', k + 1)
      BY <1>1, <2>2, <2>5, <2>8, <3>2, <3>3, ListsMore
    <3>5. SavedOK'
      BY <1>1, <3>4, SameLists DEF SavedOK, table
    <3>6. stream'.at <= stream'.length /\ stream'.length <= f[Capacity]
      BY <2>4, <2>5, <3>3 DEF Longer
    <3>7. Fits(f)'
      BY <1>1, <2>6, <3>3, <3>6 DEF Fits
    <3> QED BY <3>5, <3>7
  <2> QED BY <2>7, <2>8
<1> QED BY <1>2, <1>3 DEF SaveOK

(* The save has come to the end: the whole table is on the disk. *)
LEMMA FlushSave ==
  ASSUME Alone, SaveInv, Flush(Main)
  PROVE  SaveOK'
<1>1. /\ pc[Main] = "print" /\ life # "crashed" /\ i[Main] = Capacity
      /\ UNCHANGED <<table, opened, calls, stream, life>> /\ disk' = stream
      /\ pc' = [pc EXCEPT ![Main] = pc'[Main]] /\ pc'[Main] \in {"reset", "close"}
  BY AloneFacts DEF Flush, At, Alive, Goto, fixed, TypeOK
<1>2. FreshOK'
  <2>1. \A e \in Calls : Blank(e)' => Blank(e)
    BY <1>1, AloneFacts, BlankStays DEF Probing, Missed
  <2> QED BY <1>1, <2>1, AloneFacts, FreshStays DEF table
<1>3. ASSUME opened'  PROVE SavedOK' /\ \E f : Fits(f)'
  <2>1. SavedOK /\ \E f : Fits(f)
    BY <1>1, <1>3 DEF SaveInv, SaveOK
  <2>2. PICK g : Lists(g, stream, Capacity)
    BY <1>1, <2>1 DEF SavedOK
  <2>3. PICK f : Fits(f)
    BY <2>1
  <2>4. Fits(f)'
    BY <1>1, <2>3, FitsStay DEF table
  <2>5. stream.at = stream.length
    <3>1. Capacity \in 0 .. Capacity /\ f \in [0 .. Capacity -> Nat]
      BY <2>3, TableAssumption DEF Fits, Widths
    <3>2. f[Capacity] \in Nat /\ stream.length \in Nat /\ stream.at \in Nat
      BY <3>1, AloneFacts DEF TypeOK, Text
    <3> QED BY <1>1, <2>3, <3>2 DEF Fits
  <2>6. PICK own \in Owners : Owned(own)
    BY AloneFacts
  <2>7. /\ Len(stream.lines) = Cardinality(Called)
        /\ {stream.lines[m] : m \in DOMAIN stream.lines} =
             {[name |-> n, value |-> Times(n, calls[Main])] : n \in Called}
    <3>1. pc[Main] \notin Pending /\ stream.lines \in Seq(Line)
      BY <1>1, AloneFacts DEF Pending, TypeOK, Text
    <3> QED BY <2>2, <2>6, <3>1, AloneFacts, WholeText
  <2>8. SubSeq(calls[Main], 1, Made) = calls[Main]
    BY AloneFacts DEF Made
  <2>9. OnDisk(Made)'
    <3> DEFINE Holds(saved, text) ==
          LET names == {saved[m] : m \in DOMAIN saved}
          IN /\ text.at = text.length
             /\ Len(text.lines) = Cardinality(names)
             /\ {text.lines[m] : m \in DOMAIN text.lines} =
                  {[name |-> n, value |-> Times(n, saved)] : n \in names}
    <3>1. Holds(calls[Main], stream)
      BY <2>5, <2>7 DEF Called
    <3>2. OnDisk(Made) <=> Holds(SubSeq(calls[Main], 1, Made), disk)
      BY DEF OnDisk
    <3>3. OnDisk(Made)' <=> Holds(SubSeq(calls'[Main], 1, Made'), disk')
      BY DEF OnDisk, Times
    <3> HIDE DEF Holds
    <3>4. calls' = calls /\ Made' = Made /\ disk' = stream
      BY <1>1 DEF Made
    <3>5. SubSeq(calls'[Main], 1, Made') = calls[Main]
      BY <2>8, <3>4
    <3> QED BY <3>1, <3>3, <3>4, <3>5
  <2>10. Since(Made)' /\ Made' \in 0 .. Made'
    BY <1>1, AloneFacts DEF Since, Pending, Made
  <2> QED BY <1>1, <2>4, <2>9, <2>10 DEF SavedOK
<1> QED BY <1>2, <1>3 DEF SaveOK

(* A new interval begins. *)
LEMMA ResetSave ==
  ASSUME Alone, SaveInv, Reset(Main)
  PROVE  SaveOK'
<1>1. /\ pc[Main] = "reset" /\ UNCHANGED <<table, opened, calls, stream, disk, life>>
      /\ life # "crashed" /\ counter' = 0
      /\ pc' = [pc EXCEPT ![Main] = pc'[Main]] /\ pc'[Main] = "idle"
  BY AloneFacts DEF Reset, At, Alive, Goto, file, fixed, TypeOK
<1>2. \A e \in Calls : Blank(e)' => Blank(e)
  BY <1>1, AloneFacts, BlankStays DEF Probing, Missed
<1>3. ASSUME NEW k \in 0 .. Made, Since(k)  PROVE Since(k)'
  <2>1. k = Made /\ Made' = Made
    BY <1>1, <1>3 DEF Since, Made
  <2>2. counter' = Made' - k /\ counter' < SaveInterval
    BY <1>1, <2>1, AloneFacts, BoundsAssumption
  <2>3. life' = "running"
    BY <1>1, AloneFacts DEF EndOK, TypeOK
  <2> QED BY <1>1, <2>2, <2>3 DEF Since, Pending
<1> QED BY <1>1, <1>2, <1>3, QuietSave

(* The stream is closed with what the last save has written. *)
LEMMA CloseSave ==
  ASSUME Alone, SaveInv, Close
  PROVE  SaveOK'
<1>1. /\ pc[Main] = "close" /\ UNCHANGED <<table, opened, calls, stream>>
      /\ life # "crashed" /\ life' = "exited" /\ disk' = stream
      /\ pc' = [pc EXCEPT ![Main] = pc'[Main]] /\ pc'[Main] = "idle"
  BY AloneFacts DEF Close, At, Alive, Goto, fixed, TypeOK
<1>2. \A e \in Calls : Blank(e)' => Blank(e)
  BY <1>1, AloneFacts, BlankStays DEF Probing, Missed
<1>3. CASE opened
  <2>1. disk' = disk
    BY <1>1, <1>3 DEF SaveInv, SaveOK, SavedOK
  <2>2. \A k \in 0 .. Made : Since(k) => Since(k)'
    BY <1>1 DEF Since, Pending, Made
  <2> QED BY <1>1, <1>2, <2>1, <2>2, QuietSave
<1>4. CASE ~opened
  <2>1. FreshOK'
    BY <1>1, <1>2, AloneFacts, FreshStays DEF table
  <2> QED BY <1>1, <1>4, <2>1 DEF SaveOK
<1> QED BY <1>3, <1>4

(* Nothing changes, or the program crashes. *)
LEMMA StillSave ==
  ASSUME Alone, SaveInv, UNCHANGED <<table, opened, stream, disk, counter, calls, pc, i, tmp>>,
         life' = life \/ life' = "crashed"
  PROVE  SaveOK'
<1>1. \A e \in Calls : Blank(e)' => Blank(e)
  BY DEF Blank, Unmade, Call
<1>2. FreshOK'
  BY <1>1, AloneFacts, FreshStays DEF table
<1>3. ASSUME opened', life' # "crashed"  PROVE SavedOK' /\ \E f : Fits(f)'
  <2>1. SavedOK /\ life' = life /\ \E f : Fits(f)
    BY <1>3 DEF SaveInv, SaveOK
  <2>2. PICK f : Fits(f)
    BY <2>1
  <2>3. Fits(f)'
    BY <2>2, SameWidths DEF Fits, table
  <2>4. SavedOK'
    <3>1. CASE pc[Main] = "print"
      BY <2>1, <3>1, SameLists DEF SavedOK, table
    <3>2. CASE pc[Main] # "print"
      <4>1. \A k \in 0 .. Made : Since(k) => Since(k)'
        BY <2>1 DEF Since, Made
      <4> QED BY <2>1, <3>2, <4>1, AloneFacts, DiskStays
    <3> QED BY <3>1, <3>2
  <2> QED BY <2>3, <2>4
<1> QED BY <1>2, <1>3 DEF SaveOK

(* Every step preserves it. *)
LEMMA NextSave ==
  ASSUME Alone, SaveInv, [Next]_vars
  PROVE  SaveOK'
<1>1. CASE UNCHANGED vars
  BY <1>1, StillSave DEF vars, file, fixed
<1>2. CASE UseAfterExit(Main)
  BY <1>2, StillSave DEF UseAfterExit, Crash, file, fixed
<1>3. CASE Work(Main)
  BY <1>2, <1>3, ProbeSave, StoreSave, CounterSave, RewindSave, PrintSave, FlushSave,
     ResetSave DEF Work
<1> QED BY <1>1, <1>3, BeginSave, ExitSave, CloseSave DEF Next, Alone

LEMMA InitSave == Init => SaveOK
<1> SUFFICES ASSUME Init  PROVE SaveOK
  OBVIOUS
<1>1. /\ pc[Main] = "idle" /\ life = "running" /\ calls[Main] = <<>> /\ counter = 0
      /\ stream = Empty /\ disk = Empty
      /\ \A s \in Slots : buckets[s] = Null
      /\ \A e \in Calls : entries[e] = Fresh
  BY ThreadsAssumption DEF Init
<1>2. FreshOK
  BY <1>1 DEF FreshOK, Fresh
<1>3. OnDisk(0)
  <2> DEFINE saved == SubSeq(calls[Main], 1, 0)
             names == {saved[m] : m \in DOMAIN saved}
  <2>1. DOMAIN saved = {}
    BY <1>1
  <2>2. names = {}
    BY <2>1
  <2>3. {[name |-> n, value |-> Times(n, saved)] : n \in names} = {}
    BY <2>2
  <2>4. disk.lines = <<>> /\ disk.at = disk.length
    BY <1>1 DEF Empty
  <2>5. {disk.lines[m] : m \in DOMAIN disk.lines} = {}
    BY <2>4
  <2>6. Len(disk.lines) = Cardinality(names)
    BY <2>2, <2>4, FS_EmptySet
  <2> QED BY <2>3, <2>4, <2>5, <2>6 DEF OnDisk
<1>4. Made = 0 /\ Since(0)
  BY <1>1, BoundsAssumption DEF Made, Since, Pending
<1>5. SavedOK
  BY <1>1, <1>3, <1>4 DEF SavedOK
<1>6. Fits([k \in 0 .. Capacity |-> 0])
  <2> DEFINE f == [k \in 0 .. Capacity |-> 0]
  <2>1. \A s \in Slots : Digits(s) = 0 /\ s \in 0 .. Capacity /\ s + 1 \in 0 .. Capacity
    BY <1>1, TableAssumption DEF Digits, Slots
  <2>2. 0 \in 0 .. Capacity /\ Capacity \in 0 .. Capacity
    BY TableAssumption
  <2>3. Widths(f)
    BY <2>1, <2>2 DEF Widths
  <2>4. f[Capacity] = 0 /\ stream.at = 0 /\ stream.length = 0
    BY <1>1, <2>2 DEF Empty
  <2> HIDE DEF f
  <2>5. Fits(f)
    BY <1>1, <2>3, <2>4 DEF Fits
  <2> QED BY <2>5 DEF f
<1> QED BY <1>2, <1>5, <1>6 DEF SaveOK

(***************************************************************************)
(* What the only thread of a program has called is on the disk but for     *)
(* less than an interval, whenever the program is killed other than in a   *)
(* save, and all of it after the exit; and no rest of an older text is     *)
(* behind the last one.                                                    *)
(***************************************************************************)
THEOREM CallsSaved ==
  ASSUME Threads = {Main}
  PROVE  Spec => []SavedUpToInterval
<1>1. Alone
  BY DEF Alone
<1>2. SaveInv /\ [Next]_vars => SaveInv'
  BY <1>1, NextSave, NextTable, NextEnd DEF SaveInv, EndInv
<1>3. Init => SaveInv
  BY InitSave, InitEnd DEF SaveInv
<1>4. SaveInv => SavedUpToInterval
  <2> SUFFICES ASSUME SaveInv, opened, life # "crashed", pc[Main] # "print"
               PROVE  \E k \in 0 .. Made :
                        /\ OnDisk(k)
                        /\ Made - k <= IF pc[Main] = "idle" THEN SaveInterval - 1 ELSE SaveInterval
                        /\ life = "exited" => k = Made
    BY DEF SavedUpToInterval, Made
  <2>1. PICK k \in 0 .. Made : OnDisk(k) /\ Since(k)
    BY DEF SaveInv, SaveOK, SavedOK
  <2>2. Made \in Nat /\ counter \in Nat /\ SaveInterval \in Nat \ {0} /\ k \in Nat
    BY AloneFacts, BoundsAssumption
  <2>3. life = "exited" => k = Made
    BY <2>1, AloneFacts DEF EndOK, Since
  <2>4. Made - k <= IF pc[Main] = "idle" THEN SaveInterval - 1 ELSE SaveInterval
    <3>1. CASE pc[Main] = "idle"
      BY <2>1, <2>2, <3>1 DEF Since
    <3>2. CASE pc[Main] \in Pending \cup {"count", "bump"}
      <4>1. counter = Made - k - 1 /\ counter < SaveInterval /\ pc[Main] # "idle"
        BY <2>1, <3>2 DEF Since, Pending
      <4> QED BY <2>2, <4>1
    <3>3. CASE pc[Main] = "rewind"
      BY <2>1, <2>2, <3>3 DEF Since
    <3>4. CASE pc[Main] \in {"reset", "close"}
      BY <2>1, <2>2, <3>4 DEF Since
    <3>5. pc[Main] \in Stages
      BY AloneFacts DEF TypeOK
    <3> QED BY <3>1, <3>2, <3>3, <3>4, <3>5 DEF Stages, Pending
  <2> QED BY <2>1, <2>3, <2>4
<1> QED BY <1>2, <1>3, <1>4, PTL DEF Spec
=============================================================================
