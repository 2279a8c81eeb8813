---------------------------- MODULE LoggerProofs ----------------------------
(***************************************************************************)
(* Proofs about Logger, for any number of wrappers and of calls.           *)
(***************************************************************************)
EXTENDS Logger, SequenceTheorems, FiniteSetTheorems, TLAPS

Ending == {"exists", "size", "remove", "exited"}
Lines(w) == disk[w] \o buffer[w]

(* Where a wrapper is, and what it has opened. *)
Place(w) ==
  /\ pc[w] \in Stages
  /\ child[w] => pc[w] \in {"close", "exists", "size", "remove"} /\ failed[w] # {}
  /\ pc[w] = "start" => ~opened[w] /\ ~child[w] /\ calls[w] = <<>> /\ failed[w] = {}
  /\ pc[w] # "start" /\ special[w] => opened[w]
  /\ linked[w] \/ cut[w] => opened[w] /\ ~special[w]
  /\ pc[w] = "size" => opened[w] /\ (special[w] \/ linked[w] \/ cut[w])
  /\ pc[w] = "remove" => opened[w] /\ ~special[w] /\ disk[w] = <<>>
  /\ pc[w] = "failed" => ~opened[w]
  /\ pc[w] = "aborted" => special[w] \/ cut[w]
  /\ pc[w] = "exited" => opened[w] /\ ~special[w]

(* The calls at the level of a wrapper are on its disk, in their order, or in its buffer. *)
Text(w) ==
  /\ calls[w] \in Seq(Severities \cup {DUMP}) /\ Len(calls[w]) <= MaxCalls[w]
  /\ buffer[w] \in Seq(Nat) /\ disk[w] \in Seq(Nat)
  /\ IF opened[w] THEN Written(w) = Enabled(w) ELSE buffer[w] = <<>> /\ disk[w] = <<>>
  /\ Ordered(Lines(w))
  /\ failed[w] = {} => Increasing(Lines(w))
  /\ pc[w] \in Ending => IF child[w] THEN ToSet(buffer[w]) \subseteq ToSet(disk[w])
                                     ELSE buffer[w] = <<>>

(* Why a file has lost its name, and which file keeps it. *)
Name(w) ==
  /\ failed[w] \subseteq 0 .. MaxCalls[w]
  /\ child[w] => Cardinality(Written(w)) \in failed[w]
  /\ 0 \in failed[w] /\ linked[w] => child[w] /\ Written(w) = {}
  /\ opened[w] /\ ~special[w] /\ ~linked[w] =>
       \/ cut[w]
       \/ 0 \in failed[w]
       \/ pc[w] = "exited" /\ Enabled(w) = {}
  /\ pc[w] = "exited" /\ linked[w] => disk[w] # <<>>

Types ==
  /\ level \in [Wrappers -> Nat] /\ special \in [Wrappers -> BOOLEAN]
  /\ opened \in [Wrappers -> BOOLEAN] /\ pc \in [Wrappers -> Stages]
  /\ child \in [Wrappers -> BOOLEAN] /\ calls \in [Wrappers -> Seq(Severities \cup {DUMP})]
  /\ buffer \in [Wrappers -> Seq(Nat)] /\ disk \in [Wrappers -> Seq(Nat)]
  /\ linked \in [Wrappers -> BOOLEAN] /\ failed \in [Wrappers -> SUBSET Nat]
  /\ cut \in [Wrappers -> BOOLEAN]

Dir ==
  /\ directory \in BOOLEAN /\ script \in {"idle", "purge", "rmdir", "mkdir"}
  /\ found \subseteq Wrappers
  /\ \A w \in Wrappers : linked[w] => directory

WInv(w) == Place(w) /\ Text(w) /\ Name(w)

IInv == Types /\ Dir /\ \A w \in Wrappers : WInv(w)
-----------------------------------------------------------------------------
(* Sequences of lines. *)
LEMMA ToSetConcat ==
  ASSUME NEW s \in Seq(Nat), NEW t \in Seq(Nat)
  PROVE  ToSet(s \o t) = ToSet(s) \cup ToSet(t)
<1>1. /\ s \o t \in Seq(Nat) /\ Len(s \o t) = Len(s) + Len(t)
      /\ \A i \in 1 .. Len(s) + Len(t) :
           (s \o t)[i] = IF i <= Len(s) THEN s[i] ELSE t[i - Len(s)]
  BY ConcatProperties
<1>2. DOMAIN s = 1 .. Len(s) /\ DOMAIN t = 1 .. Len(t)
      /\ DOMAIN (s \o t) = 1 .. Len(s) + Len(t)
  BY <1>1
<1>3. Len(s) \in Nat /\ Len(t) \in Nat
  OBVIOUS
<1>4. ASSUME NEW i \in DOMAIN (s \o t) PROVE (s \o t)[i] \in ToSet(s) \cup ToSet(t)
  BY <1>1, <1>2, <1>3 DEF ToSet
<1>5. ASSUME NEW i \in DOMAIN s PROVE s[i] \in ToSet(s \o t)
  <2>1. i \in DOMAIN (s \o t) /\ (s \o t)[i] = s[i]
    BY <1>1, <1>2, <1>3
  <2> QED  BY <2>1 DEF ToSet
<1>6. ASSUME NEW i \in DOMAIN t PROVE t[i] \in ToSet(s \o t)
  <2>1. Len(s) + i \in 1 .. Len(s) + Len(t) /\ ~(Len(s) + i <= Len(s))
        /\ Len(s) + i - Len(s) = i
    BY <1>2, <1>3
  <2>2. Len(s) + i \in DOMAIN (s \o t) /\ (s \o t)[Len(s) + i] = t[i]
    BY <1>1, <1>2, <2>1
  <2> QED  BY <2>2 DEF ToSet
<1> QED  BY <1>4, <1>5, <1>6 DEF ToSet

LEMMA ToSetSmall ==
  /\ ToSet(<<>>) = {}
  /\ \A k \in Nat : <<k>> \in Seq(Nat) /\ ToSet(<<k>>) = {k}
  /\ \A s \in Seq(Nat) : ToSet(s) = {} => s = <<>>
  /\ \A s \in Seq(Nat) : ToSet(s) \subseteq Nat
<1>1. \A k \in Nat : <<k>> \in Seq(Nat) /\ ToSet(<<k>>) = {k}
  BY DEF ToSet
<1>2. \A s \in Seq(Nat) : ToSet(s) = {} => s = <<>>
  <2> SUFFICES ASSUME NEW s \in Seq(Nat), s # <<>> PROVE ToSet(s) # {}
    OBVIOUS
  <2>1. 1 \in DOMAIN s
    BY EmptySeq
  <2> QED  BY <2>1 DEF ToSet
<1> QED  BY <1>1, <1>2 DEF ToSet

(* A line that is newer than all before it. *)
LEMMA AppendLine ==
  ASSUME NEW s \in Seq(Nat), NEW k \in Nat, \A j \in ToSet(s) : j < k
  PROVE  /\ s \o <<k>> \in Seq(Nat)
         /\ Ordered(s) => Ordered(s \o <<k>>)
         /\ Increasing(s) => Increasing(s \o <<k>>)
<1> DEFINE f == s \o <<k>>
<1>1. /\ f \in Seq(Nat) /\ DOMAIN f = 1 .. Len(s) + 1 /\ Len(s) \in Nat
      /\ f[Len(s) + 1] = k
      /\ \A i \in 1 .. Len(s) : f[i] = s[i] /\ i \in DOMAIN s
  OBVIOUS
<1>2. ToSet(f) = ToSet(s) \cup {k}
  BY ToSetConcat, ToSetSmall
<1>3. \A i \in DOMAIN s : s[i] \in ToSet(s) /\ s[i] < k /\ i \in 1 .. Len(s)
  BY DEF ToSet
<1> HIDE DEF f
<1>4. ASSUME Ordered(s), NEW p \in DOMAIN f, NEW j \in ToSet(f), j < f[p]
      PROVE  \E q \in 1 .. p - 1 : f[q] = j
  <2>1. CASE p = Len(s) + 1
    <3>1. j \in ToSet(s)
      BY <1>1, <1>2, <1>4, <2>1
    <3>2. PICK q \in DOMAIN s : s[q] = j
      BY <3>1 DEF ToSet
    <3> QED  BY <1>1, <1>3, <2>1, <3>2
  <2>2. CASE p \in 1 .. Len(s)
    <3>1. f[p] = s[p] /\ s[p] < k /\ p \in DOMAIN s
      BY <1>1, <1>3, <2>2
    <3>2. j \in ToSet(s)
      <4>1. s[p] \in Nat
        BY <3>1
      <4> QED  BY <1>2, <1>4, <3>1, <4>1
    <3>3. PICK q \in 1 .. p - 1 : s[q] = j
      BY <1>4, <3>1, <3>2 DEF Ordered
    <3>4. q \in 1 .. Len(s)
      BY <1>1, <2>2, <3>3
    <3> QED  BY <1>1, <3>3, <3>4
  <2> QED  BY <1>1, <2>1, <2>2
<1>5. ASSUME Increasing(s), NEW p \in DOMAIN f, NEW q \in DOMAIN f, p < q
      PROVE  f[p] < f[q]
  <2>1. p \in DOMAIN s /\ f[p] = s[p]
    <3>1. p \in 1 .. Len(s) + 1 /\ q \in 1 .. Len(s) + 1
      BY <1>1, <1>5
    <3>2. p \in 1 .. Len(s)
      BY <1>1, <1>5, <3>1
    <3> QED  BY <1>1, <3>2
  <2>2. CASE q = Len(s) + 1
    BY <1>1, <1>3, <2>1, <2>2
  <2>3. CASE q \in 1 .. Len(s)
    BY <1>1, <1>5, <2>1, <2>3 DEF Increasing
  <2> QED  BY <1>1, <2>2, <2>3
<1>6. f \in Seq(Nat) /\ (Ordered(s) => Ordered(f)) /\ (Increasing(s) => Increasing(f))
  BY <1>1, <1>4, <1>5 DEF Ordered, Increasing
<1> QED  BY <1>6 DEF f

(* A child and then its parent write what both had in the buffer. *)
LEMMA WrittenTwice ==
  ASSUME NEW s \in Seq(Nat), NEW t \in Seq(Nat), Ordered(s \o t)
  PROVE  Ordered((s \o t) \o t)
<1> DEFINE f == s \o t
           g == f \o t
<1>1. /\ f \in Seq(Nat) /\ DOMAIN f = 1 .. Len(s) + Len(t)
      /\ Len(f) = Len(s) + Len(t) /\ Len(s) \in Nat /\ Len(t) \in Nat
      /\ \A i \in 1 .. Len(t) : f[Len(s) + i] = t[i]
  BY ConcatProperties
<1>a. Len(f) = Len(s) + Len(t) /\ Len(s) \in Nat /\ Len(t) \in Nat
  BY <1>1
<1>0. ToSet(f) = ToSet(s) \cup ToSet(t)
  BY ToSetConcat
<1> HIDE DEF f
<1>2. ToSet(g) = ToSet(f)
  <2>1. ToSet(f \o t) = ToSet(f) \cup ToSet(t)
    BY <1>1, ToSetConcat
  <2> QED  BY <1>0, <2>1
<1>3. /\ DOMAIN g = 1 .. Len(f) + Len(t)
      /\ \A i \in DOMAIN f : g[i] = f[i]
      /\ \A i \in 1 .. Len(t) : g[Len(f) + i] = t[i]
  <2>1. /\ g \in Seq(Nat) /\ Len(g) = Len(f) + Len(t)
        /\ \A i \in 1 .. Len(f) + Len(t) :
             g[i] = IF i <= Len(f) THEN f[i] ELSE t[i - Len(f)]
    BY <1>1, ConcatProperties
  <2>2. DOMAIN f = 1 .. Len(f) /\ Len(f) \in Nat
    BY <1>1
  <2> HIDE DEF g
  <2>3. DOMAIN g = 1 .. Len(f) + Len(t)
    BY <2>1
  <2>4. ASSUME NEW i \in 1 .. Len(t) PROVE g[Len(f) + i] = t[i]
    <3>1. Len(f) + i \in 1 .. Len(f) + Len(t) /\ ~(Len(f) + i <= Len(f))
          /\ Len(f) + i - Len(f) = i
      BY <1>a, <2>2
    <3>2. g[Len(f) + i] = t[Len(f) + i - Len(f)]
      BY SMTT(30), <2>1, <3>1
    <3> QED  BY <3>1, <3>2
  <2>5. ASSUME NEW i \in DOMAIN f PROVE g[i] = f[i]
    BY <1>1, <2>1, <2>2
  <2> QED  BY <2>3, <2>4, <2>5
<1> HIDE DEF g
<1>4. ASSUME NEW p \in DOMAIN g, NEW j \in ToSet(g), j < g[p]
      PROVE  \E q \in 1 .. p - 1 : g[q] = j
  <2>1. PICK r \in DOMAIN f : g[p] = f[r] /\ r <= p
    <3>1. CASE p \in 1 .. Len(f)
      BY <1>1, <1>3, <3>1
    <3>2. CASE p \notin 1 .. Len(f)
      <4>1. p \in 1 .. Len(f) + Len(t)
        BY <1>3
      <4> DEFINE d == p - Len(f)
      <4>2. d \in 1 .. Len(t) /\ p = Len(f) + d
        BY <1>a, <3>2, <4>1
      <4>3. Len(s) + d \in 1 .. Len(s) + Len(t) /\ Len(s) + d <= p
        BY <1>a, <4>2
      <4> HIDE DEF d
      <4>4. g[p] = t[d]
        BY <1>3, <4>2
      <4>5. f[Len(s) + d] = t[d]
        BY <1>1, <4>2
      <4> QED  BY <1>1, <4>3, <4>4, <4>5
    <3> QED  BY <3>1, <3>2
  <2>2. Ordered(f)
    BY DEF f
  <2>3. PICK q \in 1 .. r - 1 : f[q] = j
    BY <1>2, <1>4, <2>1, <2>2 DEF Ordered
  <2>4. q \in DOMAIN f /\ q \in 1 .. p - 1
    <3>1. /\ DOMAIN f = 1 .. Len(f) /\ r \in 1 .. Len(f) /\ p \in 1 .. Len(f) + Len(t)
          /\ q \in 1 .. r - 1
      BY <1>1, <1>3, <2>1, <2>3
    <3> QED  BY <1>a, <2>1, <3>1
  <2> QED  BY <1>3, <2>3, <2>4
<1>5. Ordered(g)
  BY <1>4 DEF Ordered
<1> QED  BY <1>5 DEF f, g
-----------------------------------------------------------------------------
(* A step that leaves a wrapper alone. *)
Same(w) ==
  /\ level'[w] = level[w] /\ special'[w] = special[w] /\ opened'[w] = opened[w]
  /\ pc'[w] = pc[w] /\ child'[w] = child[w] /\ calls'[w] = calls[w]
  /\ buffer'[w] = buffer[w] /\ disk'[w] = disk[w] /\ linked'[w] = linked[w]
  /\ failed'[w] = failed[w] /\ cut'[w] = cut[w]

LEMMA SameKeeps == ASSUME NEW w, Same(w), WInv(w) PROVE WInv(w)'
BY DEF Same, WInv, Place, Text, Name, Written, Enabled, Lines

(* A step that leaves the lines of a wrapper alone. *)
LEMMA TextStays ==
  ASSUME NEW w, Text(w), level'[w] = level[w], opened'[w] = opened[w],
         calls'[w] = calls[w], buffer'[w] = buffer[w], disk'[w] = disk[w],
         failed'[w] = {} => failed[w] = {},
         pc'[w] \in Ending =>
           IF child'[w] THEN ToSet(buffer[w]) \subseteq ToSet(disk[w]) ELSE buffer[w] = <<>>
  PROVE  Text(w)' /\ Written(w)' = Written(w) /\ Enabled(w)' = Enabled(w)
BY DEF Text, Written, Enabled, Lines

(* The lines that are written are the numbers of calls. *)
LEMMA WrittenFacts ==
  ASSUME NEW w, Text(w)
  PROVE  /\ Written(w) \subseteq DOMAIN calls[w] /\ DOMAIN calls[w] = 1 .. Len(calls[w])
         /\ Len(calls[w]) \in Nat /\ IsFiniteSet(Written(w))
         /\ Cardinality(Written(w)) \in 0 .. Len(calls[w])
         /\ Cardinality(Written(w)) = 0 <=> Written(w) = {}
<1>1. DOMAIN calls[w] = 1 .. Len(calls[w]) /\ Len(calls[w]) \in Nat
  BY DEF Text
<1>2. Written(w) \subseteq DOMAIN calls[w]
  BY ToSetSmall DEF Text, Written, Enabled
<1>3. IsFiniteSet(1 .. Len(calls[w])) /\ Cardinality(1 .. Len(calls[w])) = Len(calls[w])
  BY <1>1, FS_Interval
<1>4. IsFiniteSet(Written(w)) /\ Cardinality(Written(w)) <= Len(calls[w])
  BY <1>1, <1>2, <1>3, FS_Subset
<1>5. Cardinality(Written(w)) \in Nat
  BY <1>4, FS_CardinalityType
<1> QED  BY <1>1, <1>2, <1>4, <1>5, FS_EmptySet

LEMMA InitIInv == Init => IInv
<1> SUFFICES ASSUME Init PROVE IInv
  OBVIOUS
<1>1. Types /\ Dir
  <2>1. level \in [Wrappers -> Nat]
    BY LoggerAssumption DEF Init
  <2>2. <<>> \in Seq(Severities \cup {DUMP}) /\ <<>> \in Seq(Nat)
    BY EmptySeq
  <2> QED  BY <2>1, <2>2 DEF Init, Types, Dir, Stages
<1>2. ASSUME NEW w \in Wrappers PROVE WInv(w)
  <2>1. /\ pc[w] = "start" /\ ~opened[w] /\ ~child[w] /\ calls[w] = <<>> /\ buffer[w] = <<>>
        /\ disk[w] = <<>> /\ ~linked[w] /\ failed[w] = {} /\ ~cut[w]
    BY DEF Init
  <2>2. MaxCalls[w] \in Nat
    BY LoggerAssumption
  <2>3. Lines(w) = <<>>
    BY <2>1 DEF Lines
  <2>4. Ordered(<<>>) /\ Increasing(<<>>)
    BY DEF Ordered, Increasing
  <2>5. Text(w)
    BY <2>1, <2>2, <2>3, <2>4 DEF Text, Ending
  <2> QED  BY <2>1, <2>5 DEF WInv, Place, Name, Stages
<1> QED  BY <1>1, <1>2 DEF IInv

LEMMA OpenStep == ASSUME IInv, NEW w \in Wrappers, Open(w) PROVE IInv'
<1>1. Types' /\ Dir'
  BY DEF IInv, Types, Dir, Open, dirVars, Stages
<1>2. \A v \in Wrappers \ {w} : Same(v)
  BY DEF IInv, Types, Open, Same
<1>3. /\ pc[w] = "start" /\ pc'[w] = "run" /\ opened'[w] = (directory \/ special[w])
      /\ linked'[w] = (directory /\ ~special[w]) /\ UNCHANGED <<child, calls, buffer, disk>>
      /\ UNCHANGED <<level, special, failed, cut>>
  BY DEF IInv, Types, Open
<1>4. ~opened[w] /\ ~child[w] /\ calls[w] = <<>> /\ failed[w] = {} /\ ~cut[w]
      /\ buffer[w] = <<>> /\ disk[w] = <<>> /\ WInv(w)
  BY <1>3 DEF IInv, WInv, Place, Text
<1>5. Text(w)'
  <2>1. Written(w)' = {} /\ Enabled(w)' = {} /\ Lines(w)' = Lines(w)
    BY <1>3, <1>4, ToSetSmall DEF Written, Enabled, Lines
  <2> QED  BY <1>3, <1>4, <2>1 DEF WInv, Text, Ending
<1>6. WInv(w)'
  BY <1>3, <1>4, <1>5 DEF IInv, Types, Dir, WInv, Place, Name, Stages
<1> QED  BY <1>1, <1>2, <1>6, SameKeeps DEF IInv

LEMMA CallStep ==
  ASSUME IInv, NEW w \in Wrappers, NEW severity \in Severities \cup {DUMP},
         NEW next \in {"run", "forked"}, pc[w] \in {"run", "waiting"}, Call(w, severity, next)
  PROVE  IInv'
<1> DEFINE k == Len(calls[w]) + 1
<1>1. /\ WInv(w) /\ ~child[w] /\ k \in Nat /\ k <= MaxCalls[w] /\ level[w] \in Nat
      /\ buffer[w] \in Seq(Nat) /\ disk[w] \in Seq(Nat) /\ Text(w)
  <2>1. WInv(w) /\ level[w] \in Nat /\ MaxCalls[w] \in Nat
    BY LoggerAssumption DEF IInv, Types
  <2>2. Len(calls[w]) \in Nat /\ Len(calls[w]) < MaxCalls[w]
    BY <2>1 DEF WInv, Text, Call
  <2> QED  BY SMTT(30), <2>1, <2>2 DEF WInv, Place, Text
<1>2. /\ calls'[w] = Append(calls[w], severity) /\ pc'[w] = next
      /\ UNCHANGED <<level, special, opened, child, linked, failed, cut, dirVars>>
      /\ calls' \in [Wrappers -> Seq(Severities \cup {DUMP})]
      /\ pc' \in [Wrappers -> Stages]
      /\ \A v \in Wrappers \ {w} : calls'[v] = calls[v] /\ pc'[v] = pc[v]
  BY <1>1 DEF Call, IInv, Types, Stages
<1>3. /\ Len(calls'[w]) = k /\ DOMAIN calls'[w] = DOMAIN calls[w] \cup {k} /\ k \notin DOMAIN calls[w]
      /\ \A i \in DOMAIN calls[w] : calls'[w][i] = calls[w][i]
      /\ calls'[w][k] = severity
  BY SMTT(30), <1>1, <1>2 DEF Text
<1> HIDE DEF k
<1>4. severity \in Int /\ DUMP \in Int
  BY DEF Severities, DUMP, INFO, ERROR
<1>5. Enabled(w)' = Enabled(w) \cup IF IsLogged(w, severity) THEN {k} ELSE {}
  BY <1>1, <1>2, <1>3, <1>4 DEF Enabled, IsLogged
<1>6. \A j \in Written(w) : j < k
  BY <1>1, <1>3, WrittenFacts DEF k
<1>7. /\ buffer' \in [Wrappers -> Seq(Nat)] /\ disk' \in [Wrappers -> Seq(Nat)]
      /\ \A v \in Wrappers \ {w} : buffer'[v] = buffer[v] /\ disk'[v] = disk[v]
      /\ IF opened[w] /\ IsLogged(w, severity)
         THEN Lines(w)' = Lines(w) \o <<k>> /\ Written(w)' = Written(w) \cup {k}
         ELSE Lines(w)' = Lines(w) /\ Written(w)' = Written(w)
      /\ disk[w] # <<>> => disk'[w] # <<>>
  <2>1. CASE ~(opened[w] /\ IsLogged(w, severity))
    <3>1. UNCHANGED <<buffer, disk>>
      BY <2>1 DEF Call
    <3> QED  BY <2>1, <3>1 DEF IInv, Types, Lines, Written
  <2>2. CASE opened[w] /\ IsLogged(w, severity)
    <3>1. PICK full \in BOOLEAN :
            /\ disk' = [disk EXCEPT ![w] = @ \o IF full THEN buffer[w] ELSE <<>>]
            /\ buffer' = [buffer EXCEPT ![w] = (IF full THEN <<>> ELSE @) \o <<Len(calls'[w])>>]
      BY <2>2 DEF Call
    <3>2. buffer \in [Wrappers -> Seq(Nat)] /\ disk \in [Wrappers -> Seq(Nat)] /\ <<k>> \in Seq(Nat)
      BY <1>1 DEF IInv, Types
    <3>3. CASE full
      <4>1. disk' = [disk EXCEPT ![w] = disk[w] \o buffer[w]]
        BY <3>1, <3>2, <3>3
      <4>2. buffer' = [buffer EXCEPT ![w] = <<k>>]
        BY <1>3, <3>1, <3>2, <3>3, ConcatEmptySeq
      <4>3. disk[w] \o buffer[w] \in Seq(Nat)
        BY <1>1, ConcatProperties
      <4>4. disk'[w] = disk[w] \o buffer[w] /\ buffer'[w] = <<k>>
        BY <3>2, <4>1, <4>2
      <4>5. Written(w)' = (ToSet(disk[w]) \cup ToSet(buffer[w])) \cup {k}
        BY <1>1, <4>4, ToSetConcat, ToSetSmall DEF Written
      <4>6. disk[w] # <<>> => disk'[w] # <<>>
        BY <1>1, <4>4, ConcatEqualIffEmpty
      <4> QED  BY <2>2, <3>2, <4>1, <4>2, <4>3, <4>4, <4>5, <4>6 DEF Lines, Written
    <3>4. CASE ~full
      <4>1. disk' = disk
        BY <1>1, <3>1, <3>2, <3>4, ConcatEmptySeq
      <4>2. buffer' = [buffer EXCEPT ![w] = buffer[w] \o <<k>>]
        BY <1>3, <3>1, <3>2, <3>4
      <4>3. buffer[w] \o <<k>> \in Seq(Nat)
        BY <1>1, <3>2, ConcatProperties
      <4>4. buffer'[w] = buffer[w] \o <<k>>
        BY <3>2, <4>2
      <4>5. Written(w)' = ToSet(disk[w]) \cup (ToSet(buffer[w]) \cup {k})
        <5>1. ToSet(buffer[w] \o <<k>>) = ToSet(buffer[w]) \cup ToSet(<<k>>)
          BY <1>1, <3>2, ToSetConcat
        <5>2. ToSet(<<k>>) = {k}
          BY <1>1, ToSetSmall
        <5>3. Written(w)' = ToSet(disk'[w]) \cup ToSet(buffer'[w])
          BY DEF Written
        <5> QED  BY <4>1, <4>4, <5>1, <5>2, <5>3
      <4>6. Lines(w)' = Lines(w) \o <<k>>
        BY SMTT(30), <1>1, <3>2, <4>1, <4>4, ConcatAssociative DEF Lines
      <4> QED  BY <2>2, <3>2, <4>1, <4>2, <4>3, <4>5, <4>6 DEF Written
    <3> QED  BY <3>3, <3>4
  <2> QED  BY <2>1, <2>2
<1>8. Types' /\ Dir'
  BY <1>2, <1>7 DEF IInv, Types, Dir, dirVars
<1>9. \A v \in Wrappers \ {w} : Same(v)
  BY <1>2, <1>7 DEF Same
<1>10. Text(w)'
  <2>1. Lines(w) \in Seq(Nat) /\ ToSet(Lines(w)) = Written(w)
    BY <1>1, ConcatProperties, ToSetConcat DEF Lines, Written
  <2>2. Ordered(Lines(w)') /\ (failed[w] = {} => Increasing(Lines(w)'))
    <3>1. Ordered(Lines(w)) /\ (failed[w] = {} => Increasing(Lines(w)))
      BY <1>1 DEF Text
    <3>2. /\ Ordered(Lines(w)) => Ordered(Lines(w) \o <<k>>)
          /\ Increasing(Lines(w)) => Increasing(Lines(w) \o <<k>>)
      BY <1>1, <1>6, <2>1, AppendLine
    <3>3. Lines(w)' \in {Lines(w), Lines(w) \o <<k>>}
      BY <1>7
    <3> QED  BY <3>1, <3>2, <3>3
  <2>3. IF opened[w] THEN Written(w)' = Enabled(w)' ELSE buffer'[w] = <<>> /\ disk'[w] = <<>>
    <3>1. CASE opened[w]
      BY <1>1, <1>5, <1>7, <3>1 DEF Text
    <3>2. CASE ~opened[w]
      BY <1>1, <3>2 DEF Text, Call
    <3> QED  BY <3>1, <3>2
  <2>4. Len(calls'[w]) <= MaxCalls[w]
    BY <1>1, <1>3
  <2> QED  BY <1>2, <1>7, <2>2, <2>3, <2>4 DEF Text, Ending
<1>11. Place(w)'
  BY <1>1, <1>2 DEF WInv, Place, Stages
<1>12. Name(w)'
  <2>1. 0 \in failed[w] => ~linked[w]
    BY <1>1 DEF WInv, Name
  <2> QED  BY <1>1, <1>2, <2>1 DEF WInv, Name
<1> QED  BY <1>8, <1>9, <1>10, <1>11, <1>12, SameKeeps DEF IInv, WInv
-----------------------------------------------------------------------------
(* A step of one wrapper that changes only where it is. *)
LEMMA MoveStep ==
  ASSUME IInv, NEW w \in Wrappers, ChildRuns(w) \/ Exit(w) \/ Crash(w)
  PROVE  IInv'
<1>1. /\ UNCHANGED <<level, special, opened, child, calls, buffer, disk, linked, failed, cut, dirVars>>
      /\ pc[w] \in {"run", "forked"} /\ pc'[w] \in {"waiting", "close", "crashed"}
      /\ pc' \in [Wrappers -> Stages] /\ \A v \in Wrappers \ {w} : pc'[v] = pc[v]
  BY DEF ChildRuns, Exit, Crash, IInv, Types, Stages
<1>2. Types' /\ Dir' /\ \A v \in Wrappers \ {w} : Same(v)
  BY <1>1 DEF IInv, Types, Dir, dirVars, Same
<1>3. WInv(w) /\ ~child[w]
  BY <1>1 DEF IInv, WInv, Place
<1>4. Text(w)' /\ Written(w)' = Written(w)
  BY <1>1, <1>3, TextStays DEF WInv, Ending
<1>5. WInv(w)'
  BY <1>1, <1>3, <1>4 DEF WInv, Place, Name, Stages
<1> QED  BY <1>2, <1>5, SameKeeps DEF IInv

LEMMA ChildFailsStep == ASSUME IInv, NEW w \in Wrappers, ChildFails(w) PROVE IInv'
<1> DEFINE c == Cardinality(Written(w))
<1>1. WInv(w) /\ ~child[w] /\ pc[w] = "forked" /\ MaxCalls[w] \in Nat
  BY LoggerAssumption DEF ChildFails, IInv, WInv, Place
<1>2. c \in 0 .. MaxCalls[w] /\ (c = 0 <=> Written(w) = {})
  BY SMTT(30), <1>1, WrittenFacts DEF WInv, Text
<1> HIDE DEF c
<1>3. /\ child'[w] = TRUE /\ failed'[w] = failed[w] \cup {c} /\ pc'[w] = "close"
      /\ UNCHANGED <<level, special, opened, calls, buffer, disk, linked, cut, dirVars>>
      /\ child' \in [Wrappers -> BOOLEAN] /\ failed' \in [Wrappers -> SUBSET Nat]
      /\ pc' \in [Wrappers -> Stages]
      /\ \A v \in Wrappers \ {w} :
           child'[v] = child[v] /\ failed'[v] = failed[v] /\ pc'[v] = pc[v]
  <2>1. failed' = [failed EXCEPT ![w] = @ \cup {c}]
    BY DEF ChildFails, c
  <2>2. failed[w] \cup {c} \in SUBSET Nat
    BY <1>1, <1>2 DEF IInv, Types
  <2>3. failed'[w] = failed[w] \cup {c} /\ failed' \in [Wrappers -> SUBSET Nat]
        /\ \A v \in Wrappers \ {w} : failed'[v] = failed[v]
    BY <2>1, <2>2 DEF IInv, Types
  <2> QED  BY <2>3 DEF ChildFails, IInv, Types, Stages
<1>4. Types' /\ Dir' /\ \A v \in Wrappers \ {w} : Same(v)
  BY <1>3 DEF IInv, Types, Dir, dirVars, Same
<1>5. Text(w)' /\ Written(w)' = Written(w) /\ Enabled(w)' = Enabled(w)
  BY <1>1, <1>3, TextStays DEF WInv, Ending
<1>6. Place(w)'
  BY <1>1, <1>3 DEF WInv, Place, Stages
<1>7. Name(w)'
  <2>1. Cardinality(Written(w))' = c
    BY <1>5 DEF c
  <2> QED  BY <1>1, <1>2, <1>3, <1>5, <2>1 DEF WInv, Name
<1> QED  BY <1>4, <1>5, <1>6, <1>7, SameKeeps DEF IInv, WInv

LEMMA CloseStep == ASSUME IInv, NEW w \in Wrappers, Close(w) PROVE IInv'
<1>1. /\ WInv(w) /\ pc[w] = "close" /\ disk[w] \in Seq(Nat) /\ buffer[w] \in Seq(Nat)
  BY DEF Close, IInv, Types
<1>2. disk[w] \o buffer[w] \in Seq(Nat)
  BY <1>1, ConcatProperties
<1>3. /\ disk'[w] = disk[w] \o buffer[w]
      /\ buffer'[w] = (IF child[w] THEN buffer[w] ELSE <<>>)
      /\ pc'[w] = "exists"
      /\ UNCHANGED <<level, special, opened, child, calls, linked, failed, cut, dirVars>>
      /\ pc' \in [Wrappers -> Stages] /\ disk' \in [Wrappers -> Seq(Nat)]
      /\ buffer' \in [Wrappers -> Seq(Nat)]
      /\ \A v \in Wrappers \ {w} :
           disk'[v] = disk[v] /\ buffer'[v] = buffer[v] /\ pc'[v] = pc[v]
  BY <1>1, <1>2, EmptySeq DEF Close, IInv, Types, Stages
<1>4. Types' /\ Dir' /\ \A v \in Wrappers \ {w} : Same(v)
  BY <1>3 DEF IInv, Types, Dir, dirVars, Same
<1>5. /\ ToSet(disk'[w]) = Written(w) /\ ToSet(<<>>) = {}
      /\ ToSet(buffer[w]) \subseteq Written(w)
  BY <1>1, <1>3, ToSetConcat, ToSetSmall DEF Written
<1>6. Written(w)' = Written(w)
  <2>1. Written(w)' = ToSet(disk'[w]) \cup ToSet(buffer'[w])
    BY DEF Written
  <2> QED  BY <1>3, <1>5, <2>1
<1>7. Enabled(w)' = Enabled(w)
  BY <1>3 DEF Enabled
<1>8. Ordered(Lines(w)') /\ (failed[w] = {} => Increasing(Lines(w)'))
  <2>1. Ordered(disk[w] \o buffer[w]) /\ (failed[w] = {} => Increasing(disk[w] \o buffer[w]))
    BY <1>1 DEF WInv, Text, Lines
  <2>2. Lines(w)' = disk'[w] \o buffer'[w]
    BY DEF Lines
  <2>3. CASE child[w]
    <3>1. failed[w] # {}
      BY <1>1, <2>3 DEF WInv, Place
    <3> QED  BY <1>1, <1>3, <2>1, <2>2, <2>3, <3>1, WrittenTwice
  <2>4. CASE ~child[w]
    <3>1. Lines(w)' = disk[w] \o buffer[w]
      BY <1>2, <1>3, <2>2, <2>4, ConcatEmptySeq
    <3> QED  BY <2>1, <3>1
  <2> QED  BY <2>3, <2>4
<1>9. ~opened[w] => disk'[w] = <<>> /\ buffer'[w] = <<>>
  BY <1>1, <1>3 DEF WInv, Text
<1>10. Text(w)'
  BY <1>1, <1>3, <1>4, <1>5, <1>6, <1>7, <1>8, <1>9 DEF WInv, Text, Ending, Types
<1>11. Place(w)'
  BY <1>1, <1>3 DEF WInv, Place, Stages
<1>12. Name(w)'
  <2>1. Cardinality(Written(w))' = Cardinality(Written(w))
    BY <1>6
  <2> QED  BY <1>1, <1>3, <1>6, <1>7, <2>1 DEF WInv, Name
<1> QED  BY <1>4, <1>10, <1>11, <1>12, SameKeeps DEF IInv, WInv

(* The rest of the destructor: on to its next stage, or its end. *)
LEMMA DestructorStep ==
  ASSUME IInv, NEW w \in Wrappers, Exists(w) \/ Size(w) \/ RemoveLog(w)
  PROVE  IInv'
<1>1. WInv(w) /\ pc[w] \in {"exists", "size", "remove"}
  BY DEF IInv, Exists, Size, RemoveLog
<1>2. /\ UNCHANGED <<level, special, opened, calls, buffer, disk, failed, cut, dirVars>>
      /\ pc' \in [Wrappers -> Stages] /\ child' \in [Wrappers -> BOOLEAN]
      /\ linked' \in [Wrappers -> BOOLEAN]
      /\ \A v \in Wrappers : linked'[v] => linked[v]
      /\ \A v \in Wrappers \ {w} : linked'[v] = linked[v] /\ child'[v] = child[v] /\ pc'[v] = pc[v]
  BY ZenonT(40) DEF IInv, Types, Exists, Size, RemoveLog, Ends, Stages
<1>3. Types' /\ Dir' /\ \A v \in Wrappers \ {w} : Same(v)
  BY <1>2 DEF IInv, Types, Dir, dirVars, Same
<1>4. \/ /\ pc[w] = "exists" /\ (special[w] \/ linked[w])
         /\ pc'[w] = "size" /\ child'[w] = child[w] /\ linked'[w] = linked[w]
      \/ /\ pc[w] = "size" /\ ~special[w] /\ linked[w] /\ disk[w] = <<>>
         /\ pc'[w] = "remove" /\ child'[w] = child[w] /\ linked'[w] = linked[w]
      \/ /\ child[w] /\ ~child'[w] /\ pc'[w] = "waiting"
         /\ linked'[w] = (linked[w] /\ pc[w] # "remove")
         /\ linked'[w] => disk[w] # <<>>
         /\ pc[w] = "remove" => disk[w] = <<>> /\ opened[w]
      \/ /\ ~child[w] /\ ~child'[w] /\ pc[w] = "exists" /\ linked'[w] = linked[w]
         /\ ~special[w] /\ ~linked[w] /\ pc'[w] = IF opened[w] THEN "exited" ELSE "failed"
      \/ /\ ~child[w] /\ ~child'[w] /\ pc[w] = "size" /\ linked'[w] = linked[w]
         /\ (special[w] \/ ~linked[w]) /\ pc'[w] = "aborted"
      \/ /\ ~child[w] /\ ~child'[w] /\ pc[w] = "size" /\ linked'[w] = linked[w]
         /\ ~special[w] /\ linked[w] /\ disk[w] # <<>> /\ pc'[w] = "exited"
      \/ /\ ~child[w] /\ ~child'[w] /\ pc[w] = "remove" /\ ~linked'[w]
         /\ disk[w] = <<>> /\ opened[w] /\ ~special[w] /\ pc'[w] = "exited"
  <2>1. child \in [Wrappers -> BOOLEAN] /\ pc \in [Wrappers -> Stages]
        /\ linked \in [Wrappers -> BOOLEAN]
    BY DEF IInv, Types
  <2>2. CASE Exists(w)
    BY <1>1, <2>1, <2>2 DEF Exists, Ends, WInv, Place
  <2>3. CASE Size(w)
    BY <1>1, <2>1, <2>3 DEF Size, Ends, WInv, Place
  <2>4. CASE RemoveLog(w)
    BY <1>1, <2>1, <2>4 DEF RemoveLog, Ends, WInv, Place
  <2> QED  BY <2>2, <2>3, <2>4
<1>5. Text(w)' /\ Written(w)' = Written(w) /\ Enabled(w)' = Enabled(w)
  <2>1. pc[w] \in Ending /\ (pc'[w] \in Ending => child'[w] = child[w])
    <3>1. child[w] \in BOOLEAN /\ child'[w] \in BOOLEAN
      BY <1>2 DEF IInv, Types
    <3> QED  BY <1>1, <1>4, <3>1 DEF Ending
  <2>2. IF child[w] THEN ToSet(buffer[w]) \subseteq ToSet(disk[w]) ELSE buffer[w] = <<>>
    BY <1>1, <2>1 DEF WInv, Text
  <2> QED  BY <1>1, <1>2, <2>1, <2>2, TextStays DEF WInv
<1>6. Place(w)'
  BY <1>1, <1>2, <1>4 DEF WInv, Place, Stages
<1>7. /\ disk[w] = <<>> /\ pc[w] = "remove" => Written(w) = {}
      /\ Written(w) = {} => disk[w] = <<>>
  <2>1. pc[w] \in Ending /\ buffer[w] \in Seq(Nat) /\ disk[w] \in Seq(Nat)
    BY <1>1 DEF Ending, IInv, Types
  <2> QED  BY <1>1, <2>1, ToSetSmall DEF WInv, Text, Written
<1>8. Name(w)'
  <2>1. Cardinality(Written(w))' = Cardinality(Written(w)) /\ Cardinality({}) = 0
    BY <1>5, FS_EmptySet
  <2>2. opened[w] => Written(w) = Enabled(w)
    BY <1>1 DEF WInv, Text
  <2>3. Name(w) /\ (child[w] /\ Written(w) = {} => 0 \in failed[w])
    BY <1>1, <2>1 DEF WInv, Name
  <2>4. 0 \in failed'[w] /\ linked'[w] => child'[w] /\ Written(w)' = {}
    BY <1>2, <1>4, <1>5, <1>7, <2>3 DEF Name
  <2>5. opened'[w] /\ ~special'[w] /\ ~linked'[w] =>
          cut'[w] \/ 0 \in failed'[w] \/ (pc'[w] = "exited" /\ Enabled(w)' = {})
    BY <1>2, <1>4, <1>5, <1>7, <2>2, <2>3 DEF Name
  <2>6. child'[w] => child[w]
    BY <1>4
  <2>7. pc'[w] = "exited" /\ linked'[w] => disk'[w] # <<>>
    BY <1>2, <1>4
  <2> QED  BY <1>2, <1>5, <2>1, <2>3, <2>4, <2>5, <2>6, <2>7 DEF Name
<1> QED  BY <1>3, <1>5, <1>6, <1>8, SameKeeps DEF IInv, WInv
-----------------------------------------------------------------------------
(* The script takes names of files away, and nothing else from a wrapper. *)
LEMMA UnlinkKeeps ==
  ASSUME IInv, NEW files \in SUBSET Wrappers, Unlink(files), UNCHANGED wrapperVars
  PROVE  /\ Types' /\ \A w \in Wrappers : WInv(w)'
         /\ \A w \in Wrappers : linked'[w] => linked[w]
<1>1. /\ linked' \in [Wrappers -> BOOLEAN] /\ cut' \in [Wrappers -> BOOLEAN]
      /\ \A w \in Wrappers :
           /\ linked'[w] = (linked[w] /\ w \notin files)
           /\ cut'[w] = (cut[w] \/ (linked[w] /\ w \in files))
  BY DEF Unlink, IInv, Types
<1>2. Types'
  BY <1>1 DEF IInv, Types, wrapperVars
<1>3. ASSUME NEW w \in Wrappers PROVE WInv(w)'
  <2>1. UNCHANGED <<level, special, opened, pc, child, calls, buffer, disk, failed>> /\ WInv(w)
    BY DEF wrapperVars, IInv
  <2>2. Text(w)' /\ Written(w)' = Written(w) /\ Enabled(w)' = Enabled(w)
    BY <2>1 DEF WInv, Text, Written, Enabled, Lines
  <2>3. Place(w)'
    BY <1>1, <2>1 DEF WInv, Place
  <2>4. Name(w)'
    BY <1>1, <2>1, <2>2 DEF WInv, Name
  <2> QED  BY <2>2, <2>3, <2>4 DEF WInv
<1> QED  BY <1>1, <1>2, <1>3

LEMMA ScriptStepKeeps ==
  ASSUME IInv,
         \/ PurgeFind \/ PurgeEnd \/ RemoveFiles \/ RemoveDirectory \/ MakeDirectory
         \/ \E w \in Wrappers : PurgeOne(w)
  PROVE  IInv'
<1>1. CASE UNCHANGED <<wrapperVars, linked, cut>>
  <2>1. Types' /\ \A w \in Wrappers : Same(w)
    BY <1>1 DEF IInv, Types, wrapperVars, Same
  <2>2. Dir'
    <3>1. script' \in {"idle", "purge", "rmdir", "mkdir"} /\ found' \subseteq Wrappers
          /\ directory' \in BOOLEAN
      BY DEF IInv, Dir, ScriptStep, PurgeFind, PurgeEnd, RemoveFiles, RemoveDirectory,
             MakeDirectory, PurgeOne
    <3>2. \A w \in Wrappers : linked'[w] => linked[w] /\ directory'
      BY <1>1 DEF IInv, Dir, PurgeFind, PurgeEnd, RemoveFiles, RemoveDirectory,
                  MakeDirectory, PurgeOne
    <3> QED  BY <3>1, <3>2 DEF Dir
  <2> QED  BY <2>1, <2>2, SameKeeps DEF IInv
<1>2. CASE RemoveFiles \/ \E w \in Wrappers : PurgeOne(w)
  <2>1. PICK files \in SUBSET Wrappers :
          /\ Unlink(files) /\ UNCHANGED <<wrapperVars, directory>>
          /\ script' \in {"rmdir", "purge"} /\ found' \subseteq Wrappers
    BY <1>2 DEF IInv, Dir, ScriptStep, RemoveFiles, PurgeOne
  <2> QED  BY <2>1, UnlinkKeeps DEF IInv, Dir
<1> QED  BY <1>1, <1>2 DEF PurgeFind, PurgeEnd, RemoveDirectory, MakeDirectory

LEMMA NextKeeps == ASSUME IInv, [Next]_vars PROVE IInv'
<1>1. ASSUME NEW w \in Wrappers, Log(w) \/ Dump(w) \/ Fork(w) \/ Wait(w) PROVE IInv'
  <2>1. PICK severity \in Severities \cup {DUMP}, next \in {"run", "forked"} :
          pc[w] \in {"run", "waiting"} /\ Call(w, severity, next)
    BY <1>1 DEF Log, Dump, Fork, Wait, Severities
  <2> QED  BY <2>1, CallStep
<1>2. CASE UNCHANGED vars
  <2>1. Types' /\ Dir' /\ \A w \in Wrappers : Same(w)
    BY <1>2 DEF IInv, Types, Dir, vars, Same
  <2> QED  BY <2>1, SameKeeps DEF IInv
<1> QED
  BY <1>1, <1>2, OpenStep, MoveStep, ChildFailsStep, CloseStep, DestructorStep,
     ScriptStepKeeps DEF Next
-----------------------------------------------------------------------------
(***************************************************************************)
(* The inductive invariant: what every wrapper has written, where it is,   *)
(* and why its log has a name or has none.                                 *)
(***************************************************************************)
THEOREM LoggerInvariance == Spec => []IInv
BY InitIInv, NextKeeps, PTL DEF Spec

LEMMA IInvImplies == IInv => TypeOK /\ LogKept /\ StatusKept
<1> SUFFICES ASSUME IInv PROVE TypeOK /\ LogKept /\ StatusKept
  OBVIOUS
<1>1. StatusKept
  BY DEF IInv, WInv, Place, StatusKept
<1>2. TypeOK
  <2>1. ASSUME NEW w \in Wrappers
        PROVE  /\ calls[w] \in Seq(Severities \cup {DUMP}) /\ Len(calls[w]) <= MaxCalls[w]
               /\ Written(w) \subseteq DOMAIN calls[w]
               /\ failed[w] \subseteq 0 .. MaxCalls[w]
               /\ child[w] => pc[w] \in {"close", "exists", "size", "remove"}
               /\ linked[w] => directory /\ opened[w] /\ ~special[w]
    <3>1. Text(w) /\ Place(w) /\ Name(w)
      BY DEF IInv, WInv
    <3> QED  BY <3>1, WrittenFacts DEF IInv, Dir, Text, Place, Name
  <2> QED  BY <2>1 DEF IInv, Types, Dir, TypeOK
<1>3. ASSUME NEW w \in Wrappers, pc[w] = "exited", ~cut[w]
      PROVE  /\ linked[w] <=> Enabled(w) # {} /\ 0 \notin failed[w]
             /\ ToSet(disk[w]) = Enabled(w) /\ Ordered(disk[w])
             /\ failed[w] = {} => Increasing(disk[w])
  <2>1. Text(w) /\ Place(w) /\ Name(w) /\ disk[w] \in Seq(Nat)
    BY DEF IInv, WInv, Types
  <2>2. opened[w] /\ ~special[w] /\ ~child[w] /\ buffer[w] = <<>>
    BY <1>3, <2>1 DEF Place, Text, Ending
  <2>3. Lines(w) = disk[w]
    BY <2>1, <2>2, ConcatEmptySeq DEF Lines
  <2>4. ToSet(disk[w]) = Enabled(w)
    BY <2>1, <2>2, ToSetSmall DEF Text, Written
  <2>5. disk[w] # <<>> => Enabled(w) # {}
    BY <2>1, <2>4, ToSetSmall
  <2> QED  BY <1>3, <2>1, <2>2, <2>3, <2>4, <2>5 DEF Text, Name
<1> QED  BY <1>1, <1>2, <1>3 DEF LogKept

(* The variables of the wrappers and of the script have their types. *)
THEOREM LoggerTypeCorrect == Spec => []TypeOK
BY LoggerInvariance, IInvImplies, PTL

(***************************************************************************)
(* A wrapper that has ended leaves exactly the lines at its level, or no   *)
(* file if there is none, whatever its children and other wrappers did.    *)
(***************************************************************************)
THEOREM LogAlwaysKept == Spec => []LogKept
BY LoggerInvariance, IInvImplies, PTL

(* A wrapper is aborted or fails for its log only in the cases StatusKept names. *)
THEOREM StatusAlwaysKept == Spec => []StatusKept
BY LoggerInvariance, IInvImplies, PTL
=============================================================================
