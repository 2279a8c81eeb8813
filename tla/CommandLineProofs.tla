-------------------------- MODULE CommandLineProofs -------------------------
(***************************************************************************)
(* Proofs about CommandLine.  Facts about data are proved by induction     *)
(* with SetInduction: the principle over sets of numbers, which the prover *)
(* can instantiate.                                                        *)
(***************************************************************************)
EXTENDS CommandLine, SequenceTheorems, FiniteSetTheorems, WellFoundedInduction, TLAPS

-----------------------------------------------------------------------------
(***************************************************************************)
(* Induction.                                                              *)
(***************************************************************************)

(* There is a well-founded relation that contains the order of the naturals. *)
LEMMA NaturalsWellFounded ==
  \E R : IsWellFoundedOn(R, Nat) /\ \A x, y \in Nat : x < y => <<x, y>> \in R
<1>1. IsWellFoundedOn(OpToRel(<, Nat), Nat)
  BY NatLessThanWellFounded, Zenon
<1>2. \A x, y \in Nat : x < y => <<x, y>> \in OpToRel(<, Nat)
  BY SMT DEF OpToRel
<1> QED BY <1>1, <1>2, Zenon

(* A set with 0, and with k + 1 if it has k, has all natural numbers. *)
LEMMA SetInduction ==
  ASSUME NEW S, 0 \in S, \A k \in Nat : k \in S => k + 1 \in S
  PROVE  Nat \subseteq S
<1> DEFINE T == Nat \ S
<1>1. SUFFICES ASSUME T # {}  PROVE FALSE
  OBVIOUS
<1>2. PICK R : IsWellFoundedOn(R, Nat) /\ \A x, y \in Nat : x < y => <<x, y>> \in R
  BY NaturalsWellFounded
<1>3. PICK x \in T : \A y \in T : ~(<<y, x>> \in R)
  <2>1. T \subseteq Nat /\ T # {}
    BY <1>1
  <2>2. IsWellFoundedOn(R, Nat)
    BY <1>2
  <2> HIDE DEF T
  <2> QED BY <2>1, <2>2, WFMin, Zenon
<1>4. x \in Nat /\ x # 0 /\ x - 1 \in Nat /\ x - 1 < x
  OBVIOUS
<1>5. x - 1 \in T
  BY <1>4
<1>6. <<x - 1, x>> \in R
  BY <1>2, <1>4
<1> QED BY <1>3, <1>5, <1>6, Zenon

(* A set with the empty sequence, and with each sequence one longer, has all. *)
LEMMA SequenceInduction ==
  ASSUME NEW X, NEW S, <<>> \in S,
         \A t \in Seq(X), c \in X : t \in S => Append(t, c) \in S
  PROVE  Seq(X) \subseteq S
<1> DEFINE L == {k \in Nat : \A t \in Seq(X) : Len(t) = k => t \in S}
<1>1. 0 \in L
  <2>1. \A t \in Seq(X) : Len(t) = 0 => t = <<>>
    OBVIOUS
  <2> QED BY <2>1
<1>2. ASSUME NEW k \in Nat, k \in L  PROVE k + 1 \in L
  <2>1. SUFFICES ASSUME NEW t \in Seq(X), Len(t) = k + 1  PROVE t \in S
    OBVIOUS
  <2> DEFINE front == SubSeq(t, 1, k)
  <2>2. front \in Seq(X) /\ Len(front) = k /\ t[k + 1] \in X
    BY <2>1
  <2>3. t = Append(front, t[k + 1])
    BY <2>1, <2>2
  <2>4. front \in S
    BY <1>2, <2>2
  <2> QED BY <2>2, <2>3, <2>4
<1>3. Nat \subseteq L
  <2> HIDE DEF L
  <2> QED BY <1>1, <1>2, SetInduction
<1> QED BY <1>3
-----------------------------------------------------------------------------
(***************************************************************************)
(* FlattenSeq.                                                             *)
(***************************************************************************)
FlattenStep(seqs, f) == [i \in 1 .. Len(seqs) |-> IF i = 1 THEN seqs[i] ELSE f[i - 1] \o seqs[i]]
Flattened(seqs) == CHOOSE f : f = FlattenStep(seqs, f)

LEMMA FlattenIs ==
  ASSUME NEW seqs, Len(seqs) # 0
  PROVE  FlattenSeq(seqs) = Flattened(seqs)[Len(seqs)]
BY DEF FlattenSeq, Flattened, FlattenStep

(* The recursion has a solution: one for each prefix. *)
LEMMA FlattenExists ==
  ASSUME NEW X, NEW seqs \in Seq(Seq(X))
  PROVE  Flattened(seqs) = FlattenStep(seqs, Flattened(seqs))
<1> DEFINE Solves(f, m) ==
             /\ DOMAIN f = 1 .. m
             /\ \A i \in 1 .. m : f[i] = IF i = 1 THEN seqs[i] ELSE f[i - 1] \o seqs[i]
           L == {m \in Nat : m <= Len(seqs) => \E f : Solves(f, m)}
<1>1. 0 \in L
  <2>1. Solves([i \in 1 .. 0 |-> <<>>], 0)
    OBVIOUS
  <2> QED BY <2>1
<1>2. ASSUME NEW m \in Nat, m \in L  PROVE m + 1 \in L
  <2>1. SUFFICES ASSUME m + 1 <= Len(seqs)  PROVE \E g : Solves(g, m + 1)
    OBVIOUS
  <2>2. PICK f : Solves(f, m)
    BY <1>2, <2>1
  <2> DEFINE g == [i \in 1 .. m + 1 |-> IF i <= m THEN f[i]
                                        ELSE IF i = 1 THEN seqs[i] ELSE f[i - 1] \o seqs[i]]
  <2>3. Solves(g, m + 1)
    <3>1. DOMAIN g = 1 .. m + 1
      OBVIOUS
    <3>2. ASSUME NEW i \in 1 .. m + 1
          PROVE  g[i] = IF i = 1 THEN seqs[i] ELSE g[i - 1] \o seqs[i]
      <4>1. CASE i <= m
        <5>1. f[i] = IF i = 1 THEN seqs[i] ELSE f[i - 1] \o seqs[i]
          <6>1. i \in 1 .. m
            BY <4>1
          <6> QED BY <2>2, <6>1, Zenon
        <5>2. i # 1 => g[i - 1] = f[i - 1]
          BY <4>1
        <5> QED BY <4>1, <5>1, <5>2
      <4>2. CASE i = m + 1
        <5>1. i # 1 => g[i - 1] = f[i - 1]
          BY <4>2
        <5> QED BY <4>2, <5>1
      <4> QED BY <4>1, <4>2
    <3> QED BY <3>1, <3>2
  <2> QED BY <2>3
<1>3. Len(seqs) \in L
  <2> HIDE DEF L
  <2> QED BY <1>1, <1>2, SetInduction, SMTT(40)
<1>4. PICK f : Solves(f, Len(seqs))
  BY <1>3
<1>5. \E h : h = FlattenStep(seqs, h)
  <2> DEFINE h == [i \in 1 .. Len(seqs) |-> f[i]]
  <2>1. ASSUME NEW i \in 1 .. Len(seqs)
        PROVE  h[i] = IF i = 1 THEN seqs[i] ELSE h[i - 1] \o seqs[i]
    <3>1. f[i] = IF i = 1 THEN seqs[i] ELSE f[i - 1] \o seqs[i]
      BY <1>4, Zenon
    <3>2. i # 1 => h[i - 1] = f[i - 1]
      OBVIOUS
    <3> QED BY <3>1, <3>2
  <2>2. h = FlattenStep(seqs, h)
    BY <2>1, Zenon DEF FlattenStep
  <2> QED BY <2>2
<1> QED BY <1>5, Zenon DEF Flattened

(* One sequence more is one piece more behind. *)
LEMMA FlattenAppend ==
  ASSUME NEW X, NEW seqs \in Seq(Seq(X)), NEW t \in Seq(X),
         FlattenSeq(seqs) \in Seq(X)
  PROVE  FlattenSeq(Append(seqs, t)) = FlattenSeq(seqs) \o t
<1> DEFINE more == Append(seqs, t)
           F == Flattened(seqs)
           G == Flattened(more)
<1>1. more \in Seq(Seq(X)) /\ Len(more) = Len(seqs) + 1 /\ Len(more) # 0
      /\ more[Len(more)] = t /\ \A i \in 1 .. Len(seqs) : more[i] = seqs[i]
  OBVIOUS
<1>2. G = FlattenStep(more, G)
  <2> HIDE DEF more
  <2> QED BY <1>1, FlattenExists
<1>3. \A i \in 1 .. Len(more) : G[i] = IF i = 1 THEN more[i] ELSE G[i - 1] \o more[i]
  <2> HIDE DEF G, more
  <2> QED BY <1>2, Zenon DEF FlattenStep
<1>4. FlattenSeq(more) = G[Len(more)]
  <2> HIDE DEF more
  <2> QED BY <1>1, FlattenIs DEF G
<1>5. CASE Len(seqs) = 0
  <2>1. FlattenSeq(seqs) = <<>>
    BY <1>5 DEF FlattenSeq
  <2>2. G[1] = t
    <3> HIDE DEF G, more
    <3> QED BY <1>1, <1>3, <1>5
  <2>3. <<>> \o t = t
    OBVIOUS
  <2> HIDE DEF G, more
  <2> QED BY <1>1, <1>4, <1>5, <2>1, <2>2, <2>3 DEF more
<1>6. CASE Len(seqs) # 0
  <2>1. F = FlattenStep(seqs, F)
    BY FlattenExists
  <2>2. \A i \in 1 .. Len(seqs) : F[i] = IF i = 1 THEN seqs[i] ELSE F[i - 1] \o seqs[i]
    <3> HIDE DEF F
    <3> QED BY <2>1, Zenon DEF FlattenStep
  <2>3. FlattenSeq(seqs) = F[Len(seqs)]
    BY <1>6, FlattenIs
  <2> DEFINE L == {m \in Nat : m + 1 <= Len(seqs) => F[m + 1] = G[m + 1]}
  <2> HIDE DEF F, G, more
  <2>4. 0 \in L
    <3>1. 1 \in 1 .. Len(seqs) /\ 1 \in 1 .. Len(more)
      BY <1>1, <1>6
    <3>2. F[1] = seqs[1] /\ G[1] = more[1] /\ seqs[1] = more[1]
      BY <1>1, <1>3, <2>2, <3>1
    <3> QED BY <3>2
  <2>5. ASSUME NEW m \in Nat, m \in L  PROVE m + 1 \in L
    <3>1. SUFFICES ASSUME m + 2 <= Len(seqs)  PROVE F[m + 2] = G[m + 2]
      OBVIOUS
    <3>2. F[m + 1] = G[m + 1]
      BY <2>5, <3>1
    <3>3. m + 2 \in 1 .. Len(seqs) /\ m + 2 \in 1 .. Len(more) /\ m + 2 # 1
          /\ (m + 2) - 1 = m + 1
      BY <1>1, <3>1
    <3>4. F[m + 2] = F[m + 1] \o seqs[m + 2] /\ G[m + 2] = G[m + 1] \o more[m + 2]
      BY <1>3, <2>2, <3>3
    <3> QED BY <1>1, <3>2, <3>3, <3>4
  <2>6. Len(seqs) - 1 \in L
    <3> HIDE DEF L
    <3>1. Len(seqs) - 1 \in Nat
      BY <1>6
    <3> QED BY <2>4, <2>5, <3>1, SetInduction
  <2>7. F[Len(seqs)] = G[Len(seqs)]
    BY <1>6, <2>6
  <2>8. G[Len(more)] = G[Len(seqs)] \o t
    <3>1. Len(more) \in 1 .. Len(more) /\ Len(more) # 1 /\ Len(more) - 1 = Len(seqs)
      BY <1>1, <1>6
    <3> QED BY <1>1, <1>3, <3>1
  <2> QED BY <1>4, <2>3, <2>7, <2>8 DEF more
<1> QED BY <1>5, <1>6

(* What is put together from sequences over X is one. *)
LEMMA FlattenType ==
  ASSUME NEW X, NEW seqs \in Seq(Seq(X))
  PROVE  FlattenSeq(seqs) \in Seq(X)
<1> DEFINE S == {s \in Seq(Seq(X)) : FlattenSeq(s) \in Seq(X)}
<1>1. <<>> \in S
  BY DEF FlattenSeq
<1>2. ASSUME NEW s \in Seq(Seq(X)), NEW t \in Seq(X), s \in S  PROVE Append(s, t) \in S
  <2>1. FlattenSeq(s) \in Seq(X)
    BY <1>2
  <2>2. FlattenSeq(Append(s, t)) = FlattenSeq(s) \o t
    BY <2>1, FlattenAppend
  <2>3. FlattenSeq(s) \o t \in Seq(X) /\ Append(s, t) \in Seq(Seq(X))
    BY <2>1
  <2> QED BY <2>2, <2>3, Zenon
<1>3. Seq(Seq(X)) \subseteq S
  <2> HIDE DEF S
  <2> QED BY <1>1, <1>2, SequenceInduction
<1> QED BY <1>3

(* What is put together from two lists is what is put together from each. *)
LEMMA FlattenConcat ==
  ASSUME NEW X, NEW a \in Seq(Seq(X)), NEW b \in Seq(Seq(X))
  PROVE  FlattenSeq(a \o b) = FlattenSeq(a) \o FlattenSeq(b)
<1> DEFINE S == {s \in Seq(Seq(X)) : FlattenSeq(a \o s) = FlattenSeq(a) \o FlattenSeq(s)}
<1>1. <<>> \in S
  <2>1. FlattenSeq(a) \in Seq(X)
    BY FlattenType
  <2>2. FlattenSeq(<<>>) = <<>>
    BY DEF FlattenSeq
  <2>3. a \o <<>> = a /\ FlattenSeq(a) \o <<>> = FlattenSeq(a) /\ <<>> \in Seq(Seq(X))
    BY <2>1
  <2> QED BY <2>2, <2>3, Zenon
<1>2. ASSUME NEW s \in Seq(Seq(X)), NEW t \in Seq(X), s \in S  PROVE Append(s, t) \in S
  <2>1. a \o Append(s, t) = Append(a \o s, t) /\ a \o s \in Seq(Seq(X))
    OBVIOUS
  <2>2. FlattenSeq(a) \in Seq(X) /\ FlattenSeq(s) \in Seq(X) /\ FlattenSeq(a \o s) \in Seq(X)
    BY <2>1, FlattenType
  <2>3. FlattenSeq(Append(s, t)) = FlattenSeq(s) \o t
    BY <2>2, FlattenAppend
  <2>4. FlattenSeq(Append(a \o s, t)) = FlattenSeq(a \o s) \o t
    BY <2>1, <2>2, FlattenAppend
  <2>5. (FlattenSeq(a) \o FlattenSeq(s)) \o t = FlattenSeq(a) \o (FlattenSeq(s) \o t)
    BY <2>2, SMTT(30)
  <2>6. FlattenSeq(a \o s) = FlattenSeq(a) \o FlattenSeq(s)
    BY <1>2
  <2>7. FlattenSeq(a \o Append(s, t)) = FlattenSeq(a) \o FlattenSeq(Append(s, t))
    BY <2>1, <2>3, <2>4, <2>5, <2>6, Zenon
  <2> QED BY <2>7
<1>3. Seq(Seq(X)) \subseteq S
  <2> HIDE DEF S
  <2> QED BY <1>1, <1>2, SequenceInduction
<1> QED BY <1>3

(* One sequence is itself. *)
LEMMA FlattenOne ==
  ASSUME NEW X, NEW t \in Seq(X)
  PROVE  FlattenSeq(<<t>>) = t
<1>1. FlattenSeq(<<>>) = <<>> /\ <<>> \in Seq(Seq(X)) /\ <<>> \in Seq(X)
  BY DEF FlattenSeq
<1>2. FlattenSeq(Append(<<>>, t)) = <<>> \o t
  BY <1>1, FlattenAppend
<1> QED BY <1>2
-----------------------------------------------------------------------------
(***************************************************************************)
(* The shell takes a command apart into the arguments it was put together  *)
(* from.  ReadsFrom(s, text) is where the shell is that reads text in      *)
(* state s.                                                                *)
(***************************************************************************)
ReadingStep(s, text, f) ==
  [i \in 0 .. Len(text) |-> IF i = 0 THEN s ELSE Read(f[i - 1], text[i])]
Reading(s, text) == CHOOSE f : f = ReadingStep(s, text, f)
ReadsFrom(s, text) == Reading(s, text)[Len(text)]

LEMMA ShellReadsIs == \A text : ShellReads(text) = ReadsFrom(Outside, text)
BY DEF ShellReads, ReadsFrom, Reading, ReadingStep

(* The recursion has a solution: one for each prefix. *)
LEMMA ReadingExists ==
  ASSUME NEW s, NEW text \in Seq(Chars)
  PROVE  LET f == Reading(s, text)
         IN f[0] = s /\ \A i \in 1 .. Len(text) : f[i] = Read(f[i - 1], text[i])
<1> DEFINE Solves(f, m) ==
             /\ DOMAIN f = 0 .. m
             /\ \A i \in 0 .. m : f[i] = IF i = 0 THEN s ELSE Read(f[i - 1], text[i])
           L == {m \in Nat : \E f : Solves(f, m)}
<1>1. 0 \in L
  <2>1. Solves([i \in 0 .. 0 |-> s], 0)
    OBVIOUS
  <2> QED BY <2>1
<1>2. ASSUME NEW m \in Nat, m \in L  PROVE m + 1 \in L
  <2>1. PICK f : Solves(f, m)
    BY <1>2
  <2> DEFINE g == [i \in 0 .. m + 1 |-> IF i <= m THEN f[i] ELSE Read(f[m], text[m + 1])]
  <2>2. ASSUME NEW i \in 0 .. m + 1
        PROVE  g[i] = IF i = 0 THEN s ELSE Read(g[i - 1], text[i])
    <3>1. CASE i <= m
      <4>1. f[i] = IF i = 0 THEN s ELSE Read(f[i - 1], text[i])
        <5>1. i \in 0 .. m
          BY <3>1
        <5> QED BY <2>1, <5>1, Zenon
      <4>2. i # 0 => g[i - 1] = f[i - 1]
        BY <3>1
      <4> QED BY <3>1, <4>1, <4>2
    <3>2. CASE i = m + 1
      <4>1. g[i - 1] = f[m]
        BY <3>2
      <4> QED BY <3>2, <4>1
    <3> QED BY <3>1, <3>2
  <2>3. Solves(g, m + 1)
    <3>1. DOMAIN g = 0 .. m + 1
      OBVIOUS
    <3> HIDE DEF g
    <3> QED BY <2>2, <3>1
  <2>4. \E h : Solves(h, m + 1)
    <3> HIDE DEF g, Solves
    <3> QED BY <2>3
  <2> HIDE DEF Solves
  <2> QED BY <2>4
<1>3. Len(text) \in L
  <2> HIDE DEF L
  <2> QED BY <1>1, <1>2, SetInduction
<1>4. PICK f : Solves(f, Len(text))
  BY <1>3
<1>5. \E h : h = ReadingStep(s, text, h)
  <2> DEFINE h == [i \in 0 .. Len(text) |-> f[i]]
  <2>1. ASSUME NEW i \in 0 .. Len(text)
        PROVE  h[i] = IF i = 0 THEN s ELSE Read(h[i - 1], text[i])
    <3>1. f[i] = IF i = 0 THEN s ELSE Read(f[i - 1], text[i])
      BY <1>4, Zenon
    <3>2. i # 0 => h[i - 1] = f[i - 1]
      OBVIOUS
    <3> QED BY <3>1, <3>2
  <2>2. h = ReadingStep(s, text, h)
    BY <2>1, Zenon DEF ReadingStep
  <2> QED BY <2>2
<1>6. Reading(s, text) = ReadingStep(s, text, Reading(s, text))
  BY <1>5, Zenon DEF Reading
<1> HIDE DEF L
<1> DEFINE R == Reading(s, text)
<1> HIDE DEF R
<1>7. R = ReadingStep(s, text, R)
  BY <1>6 DEF R
<1>8. \A i \in 0 .. Len(text) : R[i] = IF i = 0 THEN s ELSE Read(R[i - 1], text[i])
  BY <1>7, Zenon DEF ReadingStep
<1>9. R[0] = s /\ \A i \in 1 .. Len(text) : R[i] = Read(R[i - 1], text[i])
  BY <1>8
<1> QED BY <1>9 DEF R

LEMMA ReadsNothing ==
  ASSUME NEW s
  PROVE  ReadsFrom(s, <<>>) = s
<1>1. <<>> \in Seq(Chars) /\ Len(<<>>) = 0
  OBVIOUS
<1> QED BY <1>1, ReadingExists DEF ReadsFrom

LEMMA ReadsAppend ==
  ASSUME NEW s, NEW t \in Seq(Chars), NEW c \in Chars
  PROVE  ReadsFrom(s, Append(t, c)) = Read(ReadsFrom(s, t), c)
<1> DEFINE more == Append(t, c)
           F == Reading(s, t)
           G == Reading(s, more)
<1>1. more \in Seq(Chars) /\ Len(more) = Len(t) + 1 /\ more[Len(more)] = c
      /\ \A i \in 1 .. Len(t) : more[i] = t[i]
  OBVIOUS
<1> HIDE DEF more
<1>2. F[0] = s /\ \A i \in 1 .. Len(t) : F[i] = Read(F[i - 1], t[i])
  BY ReadingExists
<1>3. G[0] = s /\ \A i \in 1 .. Len(more) : G[i] = Read(G[i - 1], more[i])
  BY <1>1, ReadingExists
<1> DEFINE L == {m \in Nat : m <= Len(t) => F[m] = G[m]}
<1> HIDE DEF F, G
<1>4. 0 \in L
  BY <1>2, <1>3
<1>5. ASSUME NEW m \in Nat, m \in L  PROVE m + 1 \in L
  <2>1. SUFFICES ASSUME m + 1 <= Len(t)  PROVE F[m + 1] = G[m + 1]
    OBVIOUS
  <2>2. F[m] = G[m] /\ m + 1 \in 1 .. Len(t) /\ m + 1 \in 1 .. Len(more) /\ (m + 1) - 1 = m
    BY <1>1, <1>5, <2>1
  <2>3. F[m + 1] = Read(F[m], t[m + 1]) /\ G[m + 1] = Read(G[m], more[m + 1])
    BY <1>2, <1>3, <2>2
  <2> QED BY <1>1, <2>2, <2>3
<1>6. Len(t) \in L
  <2> HIDE DEF L
  <2> QED BY <1>4, <1>5, SetInduction
<1>7. G[Len(more)] = Read(G[Len(t)], c)
  <2>1. Len(more) \in 1 .. Len(more) /\ Len(more) - 1 = Len(t)
    BY <1>1
  <2> QED BY <1>1, <1>3, <2>1
<1>8. F[Len(t)] = G[Len(t)]
  BY <1>6
<1> QED BY <1>7, <1>8 DEF F, G, more, ReadsFrom

LEMMA ReadsConcat ==
  ASSUME NEW s, NEW a \in Seq(Chars), NEW b \in Seq(Chars)
  PROVE  ReadsFrom(s, a \o b) = ReadsFrom(ReadsFrom(s, a), b)
<1> DEFINE S == {t \in Seq(Chars) : ReadsFrom(s, a \o t) = ReadsFrom(ReadsFrom(s, a), t)}
<1>1. <<>> \in S
  <2>1. a \o <<>> = a /\ <<>> \in Seq(Chars)
    OBVIOUS
  <2>2. ReadsFrom(ReadsFrom(s, a), <<>>) = ReadsFrom(s, a)
    BY ReadsNothing
  <2> QED BY <2>1, <2>2
<1>2. ASSUME NEW t \in Seq(Chars), NEW c \in Chars, t \in S  PROVE Append(t, c) \in S
  <2>1. a \o Append(t, c) = Append(a \o t, c) /\ a \o t \in Seq(Chars) /\ Append(t, c) \in Seq(Chars)
    OBVIOUS
  <2>2. ReadsFrom(s, Append(a \o t, c)) = Read(ReadsFrom(s, a \o t), c)
    BY <2>1, ReadsAppend
  <2>3. ReadsFrom(ReadsFrom(s, a), Append(t, c)) = Read(ReadsFrom(ReadsFrom(s, a), t), c)
    BY ReadsAppend
  <2>4. ReadsFrom(s, a \o t) = ReadsFrom(ReadsFrom(s, a), t)
    BY <1>2
  <2> QED BY <2>1, <2>2, <2>3, <2>4, Zenon
<1>3. Seq(Chars) \subseteq S
  <2> HIDE DEF S
  <2> QED BY <1>1, <1>2, SequenceInduction
<1> QED BY <1>3

(* One and two characters. *)
LEMMA ReadsOne ==
  ASSUME NEW s, NEW c \in Chars
  PROVE  ReadsFrom(s, <<c>>) = Read(s, c)
<1>1. Append(<<>>, c) = <<c>> /\ <<>> \in Seq(Chars)
  OBVIOUS
<1>2. ReadsFrom(s, Append(<<>>, c)) = Read(ReadsFrom(s, <<>>), c)
  BY <1>1, ReadsAppend
<1> QED BY <1>1, <1>2, ReadsNothing

LEMMA ReadsTwo ==
  ASSUME NEW s, NEW c \in Chars, NEW d \in Chars
  PROVE  ReadsFrom(s, <<c, d>>) = Read(Read(s, c), d)
<1>1. Append(<<c>>, d) = <<c, d>> /\ <<c>> \in Seq(Chars)
  <2>1. <<c>> \in Seq(Chars) /\ Len(<<c>>) = 1 /\ <<c>>[1] = c
    OBVIOUS
  <2>2. <<c, d>> \in Seq(Chars) /\ Len(<<c, d>>) = 2 /\ <<c, d>>[1] = c /\ <<c, d>>[2] = d
    OBVIOUS
  <2>3. /\ Append(<<c>>, d) \in Seq(Chars) /\ Len(Append(<<c>>, d)) = 2
        /\ Append(<<c>>, d)[1] = c /\ Append(<<c>>, d)[2] = d
    BY <2>1
  <2>4. \A i \in 1 .. 2 : Append(<<c>>, d)[i] = <<c, d>>[i]
    BY <2>2, <2>3
  <2> QED BY <2>1, <2>2, <2>3, <2>4, SeqEqual
<1>2. ReadsFrom(s, Append(<<c>>, d)) = Read(ReadsFrom(s, <<c>>), d)
  BY <1>1, ReadsAppend
<1> QED BY <1>1, <1>2, ReadsOne
-----------------------------------------------------------------------------
(* What Escape() makes of one character, and of one more. *)
Escaped(c) == IF c \in Special THEN <<"backslash", c>> ELSE <<c>>

LEMMA EscapeAppend ==
  ASSUME NEW w \in Seq(Chars), NEW c \in Chars
  PROVE  /\ Escape(w) \in Seq(Chars)
         /\ Escape(Append(w, c)) = Escape(w) \o Escaped(c)
<1> DEFINE pieces == [i \in DOMAIN w |-> Escaped(w[i])]
           more == [i \in DOMAIN Append(w, c) |-> Escaped(Append(w, c)[i])]
<1>1. ASSUME NEW d \in Chars  PROVE Escaped(d) \in Seq(Chars)
  <2>1. "backslash" \in Chars
    BY TextAssumption DEF Special
  <2>2. <<"backslash", d>> \in Seq(Chars) /\ <<d>> \in Seq(Chars)
    BY <2>1
  <2> QED BY <2>2 DEF Escaped
<1>2. pieces \in Seq(Seq(Chars))
  <2>1. \A i \in 1 .. Len(w) : w[i] \in Chars
    OBVIOUS
  <2>2. \A i \in 1 .. Len(w) : Escaped(w[i]) \in Seq(Chars)
    BY <1>1, <2>1
  <2>3. DOMAIN w = 1 .. Len(w) /\ Len(w) \in Nat
    OBVIOUS
  <2> QED BY <2>2, <2>3, IsASeq
<1>3. Escape(w) = FlattenSeq(pieces) /\ Escape(Append(w, c)) = FlattenSeq(more)
  BY DEF Escape, Escaped
<1>4. more = Append(pieces, Escaped(c))
  <2>1. DOMAIN w = 1 .. Len(w) /\ Len(w) \in Nat /\ DOMAIN Append(w, c) = 1 .. Len(w) + 1
        /\ Append(w, c)[Len(w) + 1] = c /\ \A i \in 1 .. Len(w) : Append(w, c)[i] = w[i]
    OBVIOUS
  <2>2. \A i \in 1 .. Len(w) + 1 : Append(w, c)[i] \in Chars
    BY <2>1
  <2>3. more \in Seq(Seq(Chars)) /\ Len(more) = Len(w) + 1
    <3>1. \A i \in 1 .. Len(w) + 1 : Escaped(Append(w, c)[i]) \in Seq(Chars)
      BY <1>1, <2>2
    <3> HIDE DEF Escaped
    <3> QED BY <2>1, <3>1, IsASeq
  <2>4. Append(pieces, Escaped(c)) \in Seq(Seq(Chars)) /\ Len(Append(pieces, Escaped(c))) = Len(w) + 1
        /\ Append(pieces, Escaped(c))[Len(w) + 1] = Escaped(c)
        /\ \A i \in 1 .. Len(w) : Append(pieces, Escaped(c))[i] = Escaped(w[i])
    <3>1. Len(pieces) = Len(w)
      BY <2>1
    <3>2. \A i \in 1 .. Len(w) : pieces[i] = Escaped(w[i])
      BY <2>1
    <3> HIDE DEF pieces
    <3> QED BY <1>1, <1>2, <3>1, <3>2
  <2>5. \A i \in 1 .. Len(w) + 1 : more[i] = Append(pieces, Escaped(c))[i]
    <3> HIDE DEF pieces
    <3> QED BY <2>1, <2>4
  <2> HIDE DEF more, pieces
  <2> QED BY <2>3, <2>4, <2>5, SeqEqual
<1> HIDE DEF pieces, more
<1>5. FlattenSeq(pieces) \in Seq(Chars)
  BY <1>2, FlattenType
<1>6. FlattenSeq(Append(pieces, Escaped(c))) = FlattenSeq(pieces) \o Escaped(c)
  BY <1>1, <1>2, <1>5, FlattenAppend
<1> QED BY <1>3, <1>4, <1>5, <1>6

LEMMA EscapeNothing == Escape(<<>>) = <<>>
<1>1. [i \in DOMAIN <<>> |-> IF <<>>[i] \in Special THEN <<"backslash", <<>>[i]>> ELSE <<<<>>[i]>>] = <<>>
  OBVIOUS
<1>2. FlattenSeq(<<>>) = <<>>
  BY DEF FlattenSeq
<1> QED BY <1>1, <1>2, Zenon DEF Escape

(* A state of the shell. *)
Shell(words, word, at) == [words |-> words, word |-> word, at |-> at, expands |-> FALSE]

(* Between quotes, what is escaped is read as it was before. *)
LEMMA ReadsEscaped ==
  ASSUME NEW words, NEW w \in Seq(Chars)
  PROVE  ReadsFrom(Shell(words, <<>>, "quoted"), Escape(w)) = Shell(words, w, "quoted")
<1> DEFINE from == Shell(words, <<>>, "quoted")
           S == {t \in Seq(Chars) : ReadsFrom(from, Escape(t)) = Shell(words, t, "quoted")}
<1>1. <<>> \in S
  BY EscapeNothing, ReadsNothing
<1>2. ASSUME NEW t \in Seq(Chars), NEW c \in Chars, t \in S  PROVE Append(t, c) \in S
  <2>1. Escape(t) \in Seq(Chars) /\ Escape(Append(t, c)) = Escape(t) \o Escaped(c)
    BY EscapeAppend
  <2>2. Escaped(c) \in Seq(Chars) /\ "backslash" \in Chars
    BY TextAssumption DEF Escaped, Special
  <2>3. ReadsFrom(from, Escape(Append(t, c))) = ReadsFrom(Shell(words, t, "quoted"), Escaped(c))
    <3>1. ReadsFrom(from, Escape(t)) = Shell(words, t, "quoted")
      BY <1>2
    <3> HIDE DEF from
    <3> QED BY <2>1, <2>2, <3>1, ReadsConcat
  <2>4. ReadsFrom(Shell(words, t, "quoted"), Escaped(c)) = Shell(words, Append(t, c), "quoted")
    <3>1. CASE c \in Special
      <4>1. Escaped(c) = <<"backslash", c>>
        BY <3>1 DEF Escaped
      <4>2. Read(Shell(words, t, "quoted"), "backslash") = Shell(words, t, "escape")
        BY DEF Read, ReadQuoted, Shell
      <4>3. Read(Shell(words, t, "escape"), c) = Shell(words, t \o <<c>>, "quoted")
        BY <3>1 DEF Read, ReadEscaped, Shell
      <4>4. t \o <<c>> = Append(t, c)
        OBVIOUS
      <4>5. ReadsFrom(Shell(words, t, "quoted"), <<"backslash", c>>)
              = Read(Read(Shell(words, t, "quoted"), "backslash"), c)
        BY <2>2, ReadsTwo
      <4> QED BY <4>1, <4>2, <4>3, <4>4, <4>5
    <3>2. CASE c \notin Special
      <4>1. Escaped(c) = <<c>>
        BY <3>2 DEF Escaped
      <4>2. Read(Shell(words, t, "quoted"), c) = Shell(words, Append(t, c), "quoted")
        BY <3>2 DEF Read, ReadQuoted, Shell, Special
      <4>3. ReadsFrom(Shell(words, t, "quoted"), <<c>>) = Read(Shell(words, t, "quoted"), c)
        BY ReadsOne
      <4> QED BY <4>1, <4>2, <4>3
    <3> QED BY <3>1, <3>2
  <2> QED BY <2>3, <2>4
<1>3. Seq(Chars) \subseteq S
  <2> HIDE DEF S
  <2> QED BY <1>1, <1>2, SequenceInduction
<1> QED BY <1>3

(* What command() makes of one word. *)
Quoted(a) == <<"quote">> \o Escape(Text[a]) \o <<"quote", "space">>

LEMMA EscapeType == \A w \in Seq(Chars) : Escape(w) \in Seq(Chars)
<1>1. ASSUME NEW w \in Seq(Chars)  PROVE Escape(w) \in Seq(Chars)
  <2>1. "space" \in Chars
    BY TextAssumption
  <2> QED BY <2>1, EscapeAppend
<1> QED BY <1>1

LEMMA QuotedType == \A a \in Args : Quoted(a) \in Seq(Chars)
<1>1. ASSUME NEW a \in Args  PROVE Quoted(a) \in Seq(Chars)
  <2>1. Text[a] \in Seq(Chars) /\ "quote" \in Chars /\ "space" \in Chars
    BY TextAssumption DEF Special
  <2>2. Escape(Text[a]) \in Seq(Chars)
    BY <2>1, EscapeType
  <2>3. <<"quote">> \in Seq(Chars) /\ <<"quote", "space">> \in Seq(Chars)
    BY <2>1
  <2> QED BY <2>2, <2>3 DEF Quoted
<1> QED BY <1>1

LEMMA ReadsQuoted ==
  ASSUME NEW words, NEW a \in Args
  PROVE  ReadsFrom(Shell(words, <<>>, "outside"), Quoted(a))
           = Shell(Append(words, Text[a]), <<>>, "outside")
<1> DEFINE w == Text[a]
<1>1. w \in Seq(Chars) /\ "quote" \in Chars /\ "space" \in Chars
  BY TextAssumption DEF Special
<1> HIDE DEF w
<1>2. Escape(w) \in Seq(Chars)
  BY <1>1, EscapeType
<1>3. <<"quote">> \in Seq(Chars) /\ <<"quote", "space">> \in Seq(Chars)
  BY <1>1
<1>4. ReadsFrom(Shell(words, <<>>, "outside"), <<"quote">>) = Shell(words, <<>>, "quoted")
  <2>1. Read(Shell(words, <<>>, "outside"), "quote") = Shell(words, <<>>, "quoted")
    BY DEF Read, ReadPlain, Shell
  <2>2. ReadsFrom(Shell(words, <<>>, "outside"), <<"quote">>)
          = Read(Shell(words, <<>>, "outside"), "quote")
    BY <1>1, ReadsOne
  <2> QED BY <2>1, <2>2
<1>5. ReadsFrom(Shell(words, <<>>, "quoted"), Escape(w)) = Shell(words, w, "quoted")
  BY <1>1, ReadsEscaped
<1>6. ReadsFrom(Shell(words, w, "quoted"), <<"quote", "space">>)
        = Shell(Append(words, w), <<>>, "outside")
  <2>1. Read(Shell(words, w, "quoted"), "quote") = Shell(words, w, "word")
    BY DEF Read, ReadQuoted, Shell
  <2>2. Read(Shell(words, w, "word"), "space") = Shell(Append(words, w), <<>>, "outside")
    BY DEF Read, ReadPlain, Shell
  <2>3. ReadsFrom(Shell(words, w, "quoted"), <<"quote", "space">>)
          = Read(Read(Shell(words, w, "quoted"), "quote"), "space")
    BY <1>1, ReadsTwo
  <2> QED BY <2>1, <2>2, <2>3
<1> DEFINE front == <<"quote">> \o Escape(w)
<1>7. front \in Seq(Chars) /\ Quoted(a) = front \o <<"quote", "space">>
  BY <1>2, <1>3 DEF Quoted, w
<1>8. ReadsFrom(Shell(words, <<>>, "outside"), front) = Shell(words, w, "quoted")
  <2>1. ReadsFrom(Shell(words, <<>>, "outside"), front)
          = ReadsFrom(ReadsFrom(Shell(words, <<>>, "outside"), <<"quote">>), Escape(w))
    BY <1>2, <1>3, ReadsConcat, Zenon
  <2> QED BY <1>4, <1>5, <2>1, Zenon
<1>9. ReadsFrom(Shell(words, <<>>, "outside"), Quoted(a))
        = ReadsFrom(Shell(words, w, "quoted"), <<"quote", "space">>)
  <2> HIDE DEF front
  <2>1. ReadsFrom(Shell(words, <<>>, "outside"), front \o <<"quote", "space">>)
          = ReadsFrom(ReadsFrom(Shell(words, <<>>, "outside"), front), <<"quote", "space">>)
    BY <1>3, <1>7, ReadsConcat, Zenon
  <2> QED BY <1>7, <1>8, <2>1, Zenon
<1> QED BY <1>6, <1>9 DEF w

(* A function applied to each element, and the texts of a list of arguments. *)
Image(f, s) == [i \in DOMAIN s |-> f[s[i]]]
Texts(list) == Image(Text, list)

LEMMA ImageType ==
  ASSUME NEW X, NEW Y, NEW f, \A x \in X : f[x] \in Y, NEW s \in Seq(X)
  PROVE  Image(f, s) \in Seq(Y) /\ Len(Image(f, s)) = Len(s)
<1>1. DOMAIN s = 1 .. Len(s) /\ Len(s) \in Nat /\ \A i \in 1 .. Len(s) : s[i] \in X
  OBVIOUS
<1>2. \A i \in 1 .. Len(s) : f[s[i]] \in Y
  BY <1>1
<1> QED BY <1>1, <1>2, IsASeq DEF Image

LEMMA ImageAppend ==
  ASSUME NEW X, NEW f, NEW s \in Seq(X), NEW c \in X
  PROVE  Image(f, Append(s, c)) = Append(Image(f, s), f[c])
<1> DEFINE Y == {f[x] : x \in X}
           images == Image(f, s)
           more == Image(f, Append(s, c))
<1>1. /\ DOMAIN s = 1 .. Len(s) /\ Len(s) \in Nat /\ DOMAIN Append(s, c) = 1 .. Len(s) + 1
      /\ Append(s, c)[Len(s) + 1] = c /\ \A i \in 1 .. Len(s) : Append(s, c)[i] = s[i] /\ s[i] \in X
      /\ Append(s, c) \in Seq(X) /\ Len(Append(s, c)) = Len(s) + 1
  OBVIOUS
<1>2. \A x \in X : f[x] \in Y
  OBVIOUS
<1> HIDE DEF Y
<1>3. images \in Seq(Y) /\ Len(images) = Len(s) /\ more \in Seq(Y) /\ Len(more) = Len(s) + 1
  <2>1. \A i \in 1 .. Len(s) : f[s[i]] \in Y
    BY <1>1, <1>2
  <2>2. \A i \in 1 .. Len(s) + 1 : Append(s, c)[i] \in X
    BY <1>1
  <2>3. \A i \in 1 .. Len(s) + 1 : f[Append(s, c)[i]] \in Y
    BY <1>2, <2>2
  <2>4. images \in Seq(Y) /\ Len(images) = Len(s)
    BY <1>1, <2>1, IsASeq DEF Image
  <2>5. more \in Seq(Y) /\ Len(more) = Len(s) + 1
    BY <1>1, <2>3, IsASeq DEF Image
  <2> QED BY <2>4, <2>5
<1>4. \A i \in 1 .. Len(s) + 1 : more[i] = Append(images, f[c])[i]
  <2>1. \A i \in 1 .. Len(s) : images[i] = f[s[i]] /\ more[i] = f[s[i]]
    BY <1>1 DEF Image
  <2>2. more[Len(s) + 1] = f[c]
    BY <1>1 DEF Image
  <2> HIDE DEF images, more
  <2> QED BY <1>1, <1>3, <2>1, <2>2
<1> HIDE DEF images, more
<1>5. Append(images, f[c]) \in Seq(Y) /\ Len(Append(images, f[c])) = Len(s) + 1
  BY <1>2, <1>3
<1>6. more = Append(images, f[c])
  BY <1>3, <1>4, <1>5, SeqEqual
<1> QED BY <1>6 DEF images, more

LEMMA ReadsCommand ==
  ASSUME NEW list \in Seq(Args)
  PROVE  ReadsFrom(Outside, Command(list)) = Shell(Texts(list), <<>>, "outside")
<1> DEFINE Pieces == [a \in Args |-> Quoted(a)]
           S == {s \in Seq(Args) : /\ Command(s) \in Seq(Chars)
                                   /\ ReadsFrom(Outside, Command(s)) = Shell(Texts(s), <<>>, "outside")}
<1>1. \A a \in Args : Pieces[a] \in Seq(Chars)
  BY QuotedType
<1>2. \A s \in Seq(Args) : Command(s) = FlattenSeq(Image(Pieces, s))
  <2>1. ASSUME NEW s \in Seq(Args)  PROVE Command(s) = FlattenSeq(Image(Pieces, s))
    <3>1. \A i \in DOMAIN s : Pieces[s[i]] = <<"quote">> \o Escape(Text[s[i]]) \o <<"quote", "space">>
      <4>1. \A i \in DOMAIN s : s[i] \in Args
        OBVIOUS
      <4>2. \A a \in Args : Pieces[a] = Quoted(a)
        OBVIOUS
      <4> HIDE DEF Pieces
      <4> QED BY <4>1, <4>2, Zenon DEF Quoted
    <3>2. [i \in DOMAIN s |-> Pieces[s[i]]]
            = [i \in DOMAIN s |-> <<"quote">> \o Escape(Text[s[i]]) \o <<"quote", "space">>]
      BY <3>1, Zenon
    <3> QED BY <3>2, Zenon DEF Command, Image
  <2> QED BY <2>1
<1>3. <<>> \in S
  <2>1. <<>> \in Seq(Args) /\ Texts(<<>>) = <<>> /\ <<>> \in Seq(Chars)
    BY DEF Texts, Image
  <2>2. Command(<<>>) = <<>>
    <3>1. Image(Pieces, <<>>) = <<>>
      BY DEF Image
    <3>2. FlattenSeq(<<>>) = <<>>
      BY DEF FlattenSeq
    <3> HIDE DEF Pieces
    <3> QED BY <1>2, <2>1, <3>1, <3>2, Zenon
  <2>3. Outside = Shell(<<>>, <<>>, "outside")
    BY DEF Outside, Shell
  <2> QED BY <2>1, <2>2, <2>3, ReadsNothing
<1>4. ASSUME NEW s \in Seq(Args), NEW a \in Args, s \in S  PROVE Append(s, a) \in S
  <2> DEFINE pieces == Image(Pieces, s)
  <2>1. Append(s, a) \in Seq(Args)
    OBVIOUS
  <2>2. pieces \in Seq(Seq(Chars))
        /\ Image(Pieces, Append(s, a)) = Append(pieces, Pieces[a])
    <3> HIDE DEF Pieces
    <3> QED BY <1>1, ImageType, ImageAppend
  <2>3. Command(Append(s, a)) = FlattenSeq(Append(pieces, Pieces[a])) /\ Command(s) = FlattenSeq(pieces)
    <3> HIDE DEF Pieces
    <3> QED BY <1>2, <2>1, <2>2
  <2>4. Pieces[a] = Quoted(a) /\ Quoted(a) \in Seq(Chars)
    BY QuotedType
  <2> HIDE DEF pieces, Pieces
  <2>5. Command(s) \in Seq(Chars) /\ ReadsFrom(Outside, Command(s)) = Shell(Texts(s), <<>>, "outside")
    BY <1>4
  <2>6. Command(Append(s, a)) = Command(s) \o Quoted(a)
    BY <2>2, <2>3, <2>4, <2>5, FlattenAppend
  <2>7. ReadsFrom(Outside, Command(Append(s, a))) = Shell(Append(Texts(s), Text[a]), <<>>, "outside")
    BY <2>4, <2>5, <2>6, ReadsConcat, ReadsQuoted
  <2>8. Texts(Append(s, a)) = Append(Texts(s), Text[a])
    BY ImageAppend DEF Texts
  <2>9. Command(Append(s, a)) \in Seq(Chars)
    BY <2>4, <2>5, <2>6
  <2> QED BY <2>1, <2>7, <2>8, <2>9
<1>5. Seq(Args) \subseteq S
  <2> HIDE DEF S
  <2> QED BY <1>3, <1>4, SequenceInduction
<1> QED BY <1>5

(***************************************************************************)
(* Whatever characters the arguments have, the shell finds the arguments   *)
(* that Arguments::command() put together, and nothing to expand.          *)
(***************************************************************************)
THEOREM ShellRoundTrip ==
  ASSUME NEW list \in Seq(Args)
  PROVE  Understood(Command(list)) /\ ShellArgs(Command(list)) = list
<1> DEFINE text == Command(list)
<1>1. ShellReads(text) = Shell(Texts(list), <<>>, "outside")
  BY ShellReadsIs, ReadsCommand
<1> HIDE DEF text
<1>2. DOMAIN Texts(list) = DOMAIN list /\ \A i \in DOMAIN list : Texts(list)[i] = Text[list[i]]
  BY DEF Texts, Image
<1>3. DOMAIN list = 1 .. Len(list) /\ Len(list) \in Nat /\ \A i \in DOMAIN list : list[i] \in Args
  OBVIOUS
<1>4. Understood(text)
  BY <1>1, <1>2, <1>3 DEF Understood, Shell
<1>5. ShellArgs(text) = [i \in DOMAIN list |-> CHOOSE a \in Args : Text[a] = Text[list[i]]]
  BY <1>1, <1>2 DEF ShellArgs, Shell
<1>6. \A i \in DOMAIN list : (CHOOSE a \in Args : Text[a] = Text[list[i]]) = list[i]
  BY <1>3, TextAssumption
<1>7. list = [i \in DOMAIN list |-> list[i]]
  BY <1>3
<1> QED BY <1>4, <1>5, <1>6, <1>7 DEF text
-----------------------------------------------------------------------------
(***************************************************************************)
(* InOrder and At: positions from the first to the last.                   *)
(***************************************************************************)
Positions(S, m) == m \in Nat /\ S \in SUBSET (1 .. m)
Rank(S, x) == Cardinality({j \in S : j <= x})

LEMMA PositionsAre ==
  ASSUME NEW m, NEW S, Positions(S, m)
  PROVE  m \in Nat /\ \A j \in S : j \in Int /\ 1 <= j /\ j <= m
BY DEF Positions

LEMMA PositionsFinite ==
  ASSUME NEW m, NEW S, Positions(S, m)
  PROVE  IsFiniteSet(S) /\ Cardinality(S) \in Nat /\ Cardinality(S) <= m
<1>1. IsFiniteSet(1 .. m) /\ Cardinality(1 .. m) = m
  BY FS_Interval DEF Positions
<1>2. IsFiniteSet(S) /\ Cardinality(S) <= m
  BY <1>1, FS_Subset DEF Positions
<1> QED BY <1>2, FS_CardinalityType

LEMMA RankFacts ==
  ASSUME NEW m, NEW S, Positions(S, m), NEW x \in Int
  PROVE  /\ Rank(S, x) \in Nat /\ Cardinality(S) \in Nat /\ Rank(S, x) <= Cardinality(S)
         /\ IsFiniteSet({j \in S : j <= x})
         /\ x < 1 => Rank(S, x) = 0
         /\ x >= m => Rank(S, x) = Cardinality(S)
         /\ x \in S => Rank(S, x) = Rank(S, x - 1) + 1
         /\ x \notin S => Rank(S, x) = Rank(S, x - 1)
<1>0. m \in Nat /\ \A j \in S : j \in Int /\ 1 <= j /\ j <= m
  BY PositionsAre
<1>1. IsFiniteSet(S)
  BY PositionsFinite
<1>2. ASSUME NEW y \in Int
      PROVE  /\ IsFiniteSet({j \in S : j <= y}) /\ Rank(S, y) \in Nat
             /\ Cardinality(S) \in Nat /\ Rank(S, y) <= Cardinality(S)
  <2> DEFINE B == {j \in S : j <= y}
  <2>1. B \in SUBSET S
    OBVIOUS
  <2> HIDE DEF B
  <2>2. IsFiniteSet(B) /\ Cardinality(B) <= Cardinality(S)
    BY <1>1, <2>1, FS_Subset
  <2>3. Cardinality(B) \in Nat /\ Cardinality(S) \in Nat
    BY <1>1, <2>2, FS_CardinalityType
  <2> QED BY <2>2, <2>3 DEF B, Rank
<1>3. x < 1 => {j \in S : j <= x} = {}
  BY <1>0
<1>4. x >= m => {j \in S : j <= x} = S
  BY <1>0
<1>5. ASSUME x \in S  PROVE Rank(S, x) = Rank(S, x - 1) + 1
  <2> DEFINE B == {j \in S : j <= x - 1}
  <2>1. {j \in S : j <= x} = B \cup {x} /\ x \notin B /\ x - 1 \in Int
    <3>1. \A j \in S : j <= x <=> j <= x - 1 \/ j = x
      BY <1>0
    <3>2. x \notin B
      OBVIOUS
    <3>3. {j \in S : j <= x} = B \cup {x}
      BY <1>5, <3>1
    <3> QED BY <3>2, <3>3
  <2>2. IsFiniteSet(B)
    BY <1>2, <2>1
  <2> HIDE DEF B
  <2>3. Cardinality(B \cup {x}) = Cardinality(B) + 1
    BY <2>1, <2>2, FS_AddElement
  <2> QED BY <2>1, <2>3 DEF Rank, B
<1>6. ASSUME x \notin S  PROVE Rank(S, x) = Rank(S, x - 1)
  <2>1. {j \in S : j <= x} = {j \in S : j <= x - 1}
    BY <1>0, <1>6
  <2> QED BY <2>1 DEF Rank
<1>7. Cardinality({}) = 0
  BY FS_EmptySet
<1> QED BY <1>2, <1>3, <1>4, <1>5, <1>6, <1>7 DEF Rank

LEMMA RankMonotone ==
  ASSUME NEW m, NEW S, Positions(S, m), NEW x \in Int, NEW y \in Int, x < y
  PROVE  /\ Rank(S, x) <= Rank(S, y)
         /\ y \in S => Rank(S, x) < Rank(S, y)
<1>1. ASSUME NEW z \in Int, x <= z  PROVE Rank(S, x) <= Rank(S, z)
  <2>1. {j \in S : j <= x} \in SUBSET {j \in S : j <= z}
    BY <1>1, PositionsAre
  <2>2. IsFiniteSet({j \in S : j <= z})
    BY RankFacts
  <2> QED BY <2>1, <2>2, FS_Subset DEF Rank
<1>2. y \in S => Rank(S, y) = Rank(S, y - 1) + 1 /\ Rank(S, y - 1) \in Nat
  <2>1. y - 1 \in Int
    OBVIOUS
  <2> QED BY <2>1, RankFacts
<1>3. Rank(S, x) \in Nat /\ Rank(S, y) \in Nat /\ Rank(S, x) <= Rank(S, y - 1) /\ Rank(S, x) <= Rank(S, y)
  <2>1. y - 1 \in Int /\ x <= y - 1 /\ x <= y
    OBVIOUS
  <2> QED BY <1>1, <2>1, RankFacts
<1> QED BY <1>2, <1>3

(* Each number of a position is the rank of one. *)
LEMMA RankOnto ==
  ASSUME NEW m, NEW S, Positions(S, m), NEW k \in 1 .. Cardinality(S)
  PROVE  \E i \in S : Rank(S, i) = k
<1> DEFINE L == {x \in Nat : k <= Rank(S, x) => \E i \in S : Rank(S, i) = k}
<1>1. 0 \in L
  <2>1. Rank(S, 0) = 0
    <3>1. 0 \in Int /\ 0 < 1
      OBVIOUS
    <3> QED BY <3>1, RankFacts
  <2> QED BY <2>1
<1>2. ASSUME NEW x \in Nat, x \in L  PROVE x + 1 \in L
  <2>1. SUFFICES ASSUME k <= Rank(S, x + 1)  PROVE \E i \in S : Rank(S, i) = k
    OBVIOUS
  <2>2. /\ x + 1 \in S => Rank(S, x + 1) = Rank(S, x) + 1
        /\ x + 1 \notin S => Rank(S, x + 1) = Rank(S, x)
        /\ Rank(S, x) \in Nat
    <3>1. x \in Int /\ x + 1 \in Int
      OBVIOUS
    <3> DEFINE y == x + 1
    <3> HIDE DEF y
    <3>2. /\ y \in S => Rank(S, y) = Rank(S, y - 1) + 1
          /\ y \notin S => Rank(S, y) = Rank(S, y - 1)
      BY <3>1, RankFacts DEF y
    <3>3. Rank(S, x) \in Nat
      BY <3>1, RankFacts
    <3>4. y - 1 = x
      BY DEF y
    <3> QED BY <3>2, <3>3, <3>4 DEF y
  <2> QED BY <1>2, <2>1, <2>2
<1>3. m \in L
  <2>1. m \in Nat
    BY PositionsAre
  <2> HIDE DEF L
  <2> QED BY <1>1, <1>2, <2>1, SetInduction
<1>4. m \in Nat /\ Rank(S, m) = Cardinality(S)
  <2>1. m \in Int /\ m >= m
    BY PositionsAre
  <2> QED BY <2>1, PositionsAre, RankFacts
<1>5. Cardinality(S) \in Nat
  BY PositionsFinite
<1> QED BY <1>3, <1>4, <1>5

LEMMA OrderFacts ==
  ASSUME NEW m, NEW S, Positions(S, m)
  PROVE  /\ InOrder(S) \in Seq(S) /\ Len(InOrder(S)) = Cardinality(S)
         /\ \A k \in 1 .. Cardinality(S) : InOrder(S)[k] \in S /\ Rank(S, InOrder(S)[k]) = k
         /\ \A i \in S : Rank(S, i) \in 1 .. Cardinality(S) /\ InOrder(S)[Rank(S, i)] = i
         /\ \A k, l \in 1 .. Cardinality(S) : k < l => InOrder(S)[k] < InOrder(S)[l]
<1> DEFINE c == Cardinality(S)
           o == InOrder(S)
<1>1. c \in Nat
  BY PositionsFinite
<1>2. DOMAIN o = 1 .. c /\ \A k \in 1 .. c : o[k] = CHOOSE i \in S : Rank(S, i) = k
  BY DEF InOrder, Rank
<1> HIDE DEF o, c
<1>3. \A k \in 1 .. c : o[k] \in S /\ Rank(S, o[k]) = k
  <2>1. \A k \in 1 .. c : \E i \in S : Rank(S, i) = k
    BY RankOnto DEF c
  <2> QED BY <1>2, <2>1
<1>4. o \in Seq(S) /\ Len(o) = c
  <2>1. o = [k \in 1 .. c |-> o[k]]
    BY <1>2 DEF o, InOrder, c
  <2> QED BY <1>1, <1>3, <2>1, IsASeq
<1>5. \A i \in S : Rank(S, i) \in 1 .. c
  <2>1. ASSUME NEW i \in S  PROVE Rank(S, i) \in 1 .. c
    <3>1. i \in Int /\ i - 1 \in Int
      BY PositionsAre
    <3>2. Rank(S, i) \in Nat /\ Rank(S, i) <= c /\ Rank(S, i) = Rank(S, i - 1) + 1 /\ Rank(S, i - 1) \in Nat
      BY <3>1, RankFacts DEF c
    <3> QED BY <1>1, <3>2
  <2> QED BY <2>1
<1>6. \A i, j \in S : Rank(S, i) = Rank(S, j) => i = j
  <2>1. ASSUME NEW i \in S, NEW j \in S, i < j  PROVE Rank(S, i) # Rank(S, j)
    <3>1. i \in Int /\ j \in Int
      BY PositionsAre
    <3>2. Rank(S, i) < Rank(S, j) /\ Rank(S, i) \in Int
      <4>1. Rank(S, i) < Rank(S, j)
        BY <2>1, <3>1, RankMonotone, Zenon
      <4>2. Rank(S, i) \in Nat
        BY <3>1, RankFacts, Zenon
      <4> QED BY <4>1, <4>2
    <3> QED BY <3>2
  <2>2. \A i, j \in S : i # j => i < j \/ j < i
    BY PositionsAre
  <2> QED BY <2>1, <2>2
<1>7. \A i \in S : o[Rank(S, i)] = i
  BY <1>3, <1>5, <1>6
<1>8. ASSUME NEW k \in 1 .. c, NEW l \in 1 .. c, k < l  PROVE o[k] < o[l]
  <2>1. o[k] \in S /\ o[l] \in S /\ Rank(S, o[k]) = k /\ Rank(S, o[l]) = l
    BY <1>3
  <2>2. o[k] \in Int /\ o[l] \in Int
    BY <2>1, PositionsAre
  <2>3. CASE o[l] < o[k]
    <3>1. Rank(S, o[l]) < Rank(S, o[k])
      BY <2>1, <2>2, <2>3, RankMonotone
    <3> QED BY <1>8, <2>1, <3>1
  <2>4. o[l] # o[k]
    BY <1>8, <2>1
  <2> QED BY <2>2, <2>3, <2>4
<1> QED BY <1>3, <1>4, <1>5, <1>7, <1>8 DEF o, c

(* A sequence that rises through all positions of S is the one in order. *)
LEMMA OrderUnique ==
  ASSUME NEW m, NEW S, Positions(S, m), NEW f \in Seq(S),
         \A k, l \in 1 .. Len(f) : k < l => f[k] < f[l],
         \A i \in S : \E k \in 1 .. Len(f) : f[k] = i
  PROVE  f = InOrder(S) /\ Len(f) = Cardinality(S)
<1> DEFINE n0 == Len(f)
<1>1. n0 \in Nat /\ \A k \in 1 .. n0 : f[k] \in S /\ f[k] \in Int
  BY PositionsAre
<1>2. \A k, l \in 1 .. n0 : f[k] <= f[l] <=> k <= l
  <2>1. ASSUME NEW k \in 1 .. n0, NEW l \in 1 .. n0  PROVE f[k] <= f[l] <=> k <= l
    <3>1. k \in Int /\ l \in Int /\ (k < l \/ k = l \/ l < k)
      BY <1>1
    <3>2. PICK x \in Int : x = f[k]
      BY <1>1
    <3>3. PICK y \in Int : y = f[l]
      BY <1>1
    <3>4. (k < l => x < y) /\ (l < k => y < x) /\ (k = l => x = y)
      BY <3>2, <3>3
    <3>5. x <= y <=> k <= l
      BY <3>1, <3>4
    <3> QED BY <3>2, <3>3, <3>5
  <2> QED BY <2>1
<1> HIDE DEF n0
<1>3. ASSUME NEW k \in 1 .. n0  PROVE Rank(S, f[k]) = k
  <2> DEFINE T == {j \in S : j <= f[k]}
             g == [l \in 1 .. k |-> f[l]]
  <2>1. ASSUME NEW l \in 1 .. k  PROVE l \in 1 .. n0 /\ f[l] \in T
    <3>1. l \in 1 .. n0 /\ l <= k
      BY <1>1
    <3>2. f[l] \in S /\ f[l] <= f[k]
      BY <1>1, <1>2, <3>1
    <3> QED BY <3>1, <3>2
  <2>2. \A j \in T : \E l \in 1 .. k : f[l] = j
    <3>1. SUFFICES ASSUME NEW j \in T  PROVE \E l \in 1 .. k : f[l] = j
      OBVIOUS
    <3>2. PICK l \in 1 .. n0 : f[l] = j
      BY <3>1 DEF n0
    <3>3. l <= k
      BY <1>2, <3>2
    <3> QED BY <3>2, <3>3
  <2>3. \A l, l2 \in 1 .. k : f[l] = f[l2] => l = l2
    <3>1. SUFFICES ASSUME NEW l \in 1 .. k, NEW l2 \in 1 .. k, f[l] = f[l2]  PROVE l = l2
      OBVIOUS
    <3>2. l \in 1 .. n0 /\ l2 \in 1 .. n0 /\ f[l] \in Int
      BY <1>1, <2>1
    <3>3. l <= l2 /\ l2 <= l
      BY <1>2, <3>1, <3>2
    <3> QED BY <3>3
  <2>4. g \in Bijection(1 .. k, T)
    <3> HIDE DEF T
    <3> QED BY <2>1, <2>2, <2>3 DEF Bijection, Injection, Surjection, IsInjective
  <2>5. Cardinality(T) = k
    <3>1. ExistsBijection(1 .. k, T)
      BY <2>4 DEF ExistsBijection
    <3>2. k \in Nat
      OBVIOUS
    <3> HIDE DEF T
    <3> QED BY <3>1, <3>2, FS_CountingElements
  <2> QED BY <2>5 DEF Rank, T
<1>4. Cardinality(S) = n0
  <2> DEFINE o == InOrder(S)
             c == Cardinality(S)
  <2>1. c \in Nat
    BY PositionsFinite
  <2>2. \A i \in S : Rank(S, i) \in 1 .. c
    BY OrderFacts
  <2>3. \A k \in 1 .. c : \E i \in S : Rank(S, i) = k
    BY RankOnto
  <2> HIDE DEF c
  <2>4. \A k \in 1 .. n0 : k \in 1 .. c
    BY <1>1, <1>3, <2>2
  <2>5. \A k \in 1 .. c : k \in 1 .. n0
    <3>1. SUFFICES ASSUME NEW k \in 1 .. c  PROVE k \in 1 .. n0
      OBVIOUS
    <3>2. PICK i \in S : Rank(S, i) = k
      BY <2>3
    <3>3. PICK l \in 1 .. n0 : f[l] = i
      BY <3>2 DEF n0
    <3> QED BY <1>3, <3>2, <3>3
  <2>6. c = n0
    <3>1. n0 > 0 => n0 \in 1 .. n0
      BY <1>1
    <3>2. c > 0 => c \in 1 .. c
      BY <2>1
    <3>3. n0 <= c
      BY <1>1, <2>1, <2>4, <3>1
    <3>4. c <= n0
      BY <1>1, <2>1, <2>5, <3>2
    <3> QED BY <1>1, <2>1, <3>3, <3>4
  <2> QED BY <2>6 DEF c
<1>5. \A k \in 1 .. n0 : f[k] = InOrder(S)[k]
  <2>1. ASSUME NEW k \in 1 .. n0  PROVE f[k] = InOrder(S)[k]
    <3>1. f[k] \in S /\ Rank(S, f[k]) = k
      BY <1>1, <1>3
    <3>2. \A i \in S : InOrder(S)[Rank(S, i)] = i
      BY OrderFacts
    <3> QED BY <3>1, <3>2
  <2> QED BY <2>1
<1>6. InOrder(S) \in Seq(S) /\ Len(InOrder(S)) = n0
  BY <1>4, OrderFacts
<1> QED BY <1>4, <1>5, <1>6, SeqEqual DEF n0

LEMMA PositionsRise ==
  ASSUME NEW m, NEW S, Positions(S, m), NEW l \in Nat, m <= l
  PROVE  Positions(S, l) /\ \A T \in SUBSET S : Positions(T, l)
<1>1. \A j \in S : j \in 1 .. l
  BY PositionsAre
<1> QED BY <1>1 DEF Positions

(* RemoveAt() closes the gap. *)
LEMMA RemoveFacts ==
  ASSUME NEW X, NEW s \in Seq(X), NEW p \in 1 .. Len(s)
  PROVE  /\ RemoveAt(s, p) \in Seq(X) /\ Len(RemoveAt(s, p)) = Len(s) - 1
         /\ \A k \in 1 .. Len(s) - 1 : RemoveAt(s, p)[k] = IF k < p THEN s[k] ELSE s[k + 1]
<1> DEFINE a == SubSeq(s, 1, p - 1)
           b == SubSeq(s, p + 1, Len(s))
<1>1. Len(s) \in Nat /\ p \in Int /\ 1 <= p /\ p <= Len(s)
  OBVIOUS
<1>2. a \in Seq(X) /\ Len(a) = p - 1 /\ \A k \in 1 .. p - 1 : a[k] = s[k]
  BY <1>1
<1>3. b \in Seq(X) /\ Len(b) = Len(s) - p /\ \A k \in 1 .. Len(s) - p : b[k] = s[p + k]
  BY <1>1
<1> HIDE DEF a, b
<1>4. /\ a \o b \in Seq(X) /\ Len(a \o b) = Len(s) - 1
      /\ \A k \in 1 .. Len(s) - 1 : (a \o b)[k] = IF k <= p - 1 THEN a[k] ELSE b[k - (p - 1)]
  <2>1. /\ a \o b \in Seq(X) /\ Len(a \o b) = Len(a) + Len(b)
        /\ \A k \in 1 .. Len(a) + Len(b) : (a \o b)[k] = IF k <= Len(a) THEN a[k] ELSE b[k - Len(a)]
    BY <1>2, <1>3, ConcatProperties
  <2> QED BY <1>1, <1>2, <1>3, <2>1
<1>5. ASSUME NEW k \in 1 .. Len(s) - 1
      PROVE  (a \o b)[k] = IF k < p THEN s[k] ELSE s[k + 1]
  <2>1. CASE k < p
    BY <1>1, <1>2, <1>4, <2>1
  <2>2. CASE ~(k < p)
    <3>1. k - (p - 1) \in 1 .. Len(s) - p /\ ~(k <= p - 1) /\ p + (k - (p - 1)) = k + 1
      BY <1>1, <2>2
    <3> QED BY <1>3, <1>4, <2>2, <3>1
  <2> QED BY <2>1, <2>2
<1> QED BY <1>4, <1>5 DEF RemoveAt, a, b

LEMMA OrderMore ==
  ASSUME NEW m, NEW S, Positions(S, m)
  PROVE  InOrder(S \cup {m + 1}) = Append(InOrder(S), m + 1)
<1> DEFINE o == InOrder(S)
           T == S \cup {m + 1}
           f == Append(o, m + 1)
           c == Cardinality(S)
<1>1. m \in Nat /\ m + 1 \in Nat /\ c \in Nat /\ \A j \in S : j \in Int /\ 1 <= j /\ j <= m
  BY PositionsAre, PositionsFinite
<1>2. Positions(T, m + 1)
  <2>1. \A j \in T : j \in 1 .. m + 1
    BY <1>1
  <2> HIDE DEF T
  <2> QED BY <1>1, <2>1 DEF Positions
<1>3. /\ o \in Seq(S) /\ Len(o) = c
      /\ \A k \in 1 .. c : o[k] \in S
      /\ \A k, l \in 1 .. c : k < l => o[k] < o[l]
      /\ \A i \in S : Rank(S, i) \in 1 .. c /\ o[Rank(S, i)] = i
  BY OrderFacts
<1> HIDE DEF o, c
<1>4. f \in Seq(T) /\ Len(f) = c + 1 /\ f[c + 1] = m + 1 /\ \A k \in 1 .. c : f[k] = o[k]
  <2>1. o \in Seq(T)
    BY <1>3
  <2>2. m + 1 \in T
    OBVIOUS
  <2> HIDE DEF T
  <2> QED BY <1>1, <1>3, <2>1, <2>2
<1> HIDE DEF f
<1>5. ASSUME NEW k \in 1 .. c + 1, NEW l \in 1 .. c + 1, k < l  PROVE f[k] < f[l]
  <2>1. k \in 1 .. c /\ f[k] = o[k] /\ o[k] \in S
    BY <1>1, <1>3, <1>4, <1>5
  <2>2. CASE l = c + 1
    BY <1>1, <1>4, <2>1, <2>2
  <2>3. CASE l \in 1 .. c
    <3>1. o[k] < o[l] /\ f[l] = o[l]
      BY <1>3, <1>4, <1>5, <2>1, <2>3
    <3> QED BY <2>1, <3>1
  <2> QED BY <1>1, <2>2, <2>3
<1>6. ASSUME NEW i \in T  PROVE \E k \in 1 .. c + 1 : f[k] = i
  <2>1. CASE i \in S
    BY <1>1, <1>3, <1>4, <2>1
  <2>2. CASE i = m + 1
    BY <1>1, <1>4, <2>2
  <2> QED BY <2>1, <2>2
<1>7. f = InOrder(T)
  <2> HIDE DEF T
  <2> QED BY <1>2, <1>4, <1>5, <1>6, OrderUnique
<1> QED BY <1>7 DEF f, o

LEMMA OrderLess ==
  ASSUME NEW m, NEW S, Positions(S, m), NEW q \in S
  PROVE  InOrder(S \ {q}) = RemoveAt(InOrder(S), Rank(S, q))
<1> DEFINE o == InOrder(S)
           T == S \ {q}
           c == Cardinality(S)
           p == Rank(S, q)
           f == RemoveAt(o, p)
<1>1. m \in Nat /\ c \in Nat
  BY PositionsAre, PositionsFinite
<1>2. Positions(T, m)
  BY <1>1, PositionsRise DEF Positions
<1>3. /\ o \in Seq(S) /\ Len(o) = c
      /\ \A k \in 1 .. c : o[k] \in S /\ Rank(S, o[k]) = k
      /\ \A k, l \in 1 .. c : k < l => o[k] < o[l]
      /\ \A i \in S : Rank(S, i) \in 1 .. c /\ o[Rank(S, i)] = i
  BY OrderFacts
<1>4. p \in 1 .. c /\ o[p] = q
  BY <1>3
<1> HIDE DEF o, c, p
<1>5. f \in Seq(S) /\ Len(f) = c - 1
      /\ \A k \in 1 .. c - 1 : f[k] = IF k < p THEN o[k] ELSE o[k + 1]
  <2>1. p \in 1 .. Len(o)
    BY <1>3, <1>4
  <2>2. /\ f \in Seq(S) /\ Len(f) = Len(o) - 1
        /\ \A k \in 1 .. Len(o) - 1 : f[k] = IF k < p THEN o[k] ELSE o[k + 1]
    <3>1. o \in Seq(S)
      BY <1>3
    <3> QED BY <2>1, <3>1, RemoveFacts, Zenon
  <2> QED BY <1>3, <2>2
<1> HIDE DEF f
<1>6. \A k \in 1 .. c - 1 : f[k] \in T
  <2>1. SUFFICES ASSUME NEW k \in 1 .. c - 1  PROVE f[k] \in S /\ f[k] # q
    OBVIOUS
  <2>2. PICK l \in 1 .. c : l # p /\ f[k] = o[l]
    <3>1. CASE k < p
      BY <1>1, <1>4, <1>5, <3>1
    <3>2. CASE ~(k < p)
      <4>1. k + 1 \in 1 .. c /\ k + 1 # p /\ f[k] = o[k + 1]
        BY <1>1, <1>4, <1>5, <3>2
      <4> QED BY <4>1
    <3> QED BY <3>1, <3>2
  <2>3. Rank(S, o[l]) = l /\ Rank(S, o[p]) = p
    BY <1>3, <1>4
  <2> QED BY <1>3, <1>4, <2>2, <2>3
<1>7. f \in Seq(T)
  <2>1. f \in [1 .. c - 1 -> S] /\ c - 1 \in Nat
    BY <1>1, <1>4, <1>5
  <2>2. f = [k \in 1 .. c - 1 |-> f[k]]
    BY <2>1
  <2> HIDE DEF T
  <2> QED BY <1>6, <2>1, <2>2, IsASeq
<1>8. ASSUME NEW k \in 1 .. c - 1, NEW l \in 1 .. c - 1, k < l  PROVE f[k] < f[l]
  <2> DEFINE a == IF k < p THEN k ELSE k + 1
             b == IF l < p THEN l ELSE l + 1
  <2>1. a \in 1 .. c /\ b \in 1 .. c /\ a < b
    BY <1>1, <1>4, <1>8
  <2>2. f[k] = o[a] /\ f[l] = o[b]
    BY <1>5
  <2> HIDE DEF a, b
  <2> QED BY <1>3, <2>1, <2>2
<1>9. ASSUME NEW i \in T  PROVE \E k \in 1 .. c - 1 : f[k] = i
  <2> DEFINE r == Rank(S, i)
  <2>1. r \in 1 .. c /\ o[r] = i /\ r # p
    BY <1>3, <1>4
  <2> HIDE DEF r
  <2>2. CASE r < p
    <3>1. r \in 1 .. c - 1 /\ f[r] = o[r]
      BY <1>1, <1>4, <1>5, <2>1, <2>2
    <3> QED BY <2>1, <3>1
  <2>3. CASE r > p
    <3>1. r - 1 \in 1 .. c - 1 /\ ~(r - 1 < p) /\ (r - 1) + 1 = r
      BY <1>1, <1>4, <2>1, <2>3
    <3>2. f[r - 1] = o[r]
      BY <1>5, <3>1
    <3> QED BY <2>1, <3>1, <3>2
  <2> QED BY <1>4, <2>1, <2>2, <2>3
<1>10. f = InOrder(T)
  <2> HIDE DEF T
  <2> QED BY <1>2, <1>5, <1>7, <1>8, <1>9, OrderUnique
<1> QED BY <1>10 DEF f, o, p
-----------------------------------------------------------------------------
(***************************************************************************)
(* The compiler's view of a command line.                                  *)
(***************************************************************************)
LEMMA OrderSet ==
  ASSUME NEW m, NEW S, Positions(S, m)
  PROVE  ToSet(InOrder(S)) = S
<1>1. DOMAIN InOrder(S) = 1 .. Cardinality(S)
  BY DEF InOrder
<1>2. /\ \A k \in 1 .. Cardinality(S) : InOrder(S)[k] \in S
      /\ \A i \in S : Rank(S, i) \in 1 .. Cardinality(S) /\ InOrder(S)[Rank(S, i)] = i
  BY OrderFacts
<1> HIDE DEF ToSet
<1> QED BY <1>1, <1>2 DEF ToSet

InputSet(argv) == {i \in DOMAIN argv : IsInput(argv, i)}

LEMMA InputFacts ==
  ASSUME NEW argv \in Seq(Args)
  PROVE  /\ Positions(InputSet(argv), Len(argv))
         /\ InputsOf(argv) = InOrder(InputSet(argv))
         /\ ToSet(InputsOf(argv)) = InputSet(argv)
<1>1. Positions(InputSet(argv), Len(argv))
  BY DEF Positions, InputSet
<1>2. InputsOf(argv) = InOrder(InputSet(argv))
  BY DEF InputsOf, InputSet
<1> QED BY <1>1, <1>2, OrderSet

(* What a word stands for: the words of a response file or itself. *)
Meant(a) == IF a \in DOMAIN Response THEN Response[a] ELSE <<a>>
Meaning == [a \in Args |-> Meant(a)]

LEMMA MeantType == \A a \in Args : Meant(a) \in Seq(Args)
<1>1. ASSUME NEW a \in Args  PROVE Meant(a) \in Seq(Args)
  <2>1. <<a>> \in Seq(Args)
    OBVIOUS
  <2> QED BY <2>1, CommandAssumption DEF Meant
<1> QED BY <1>1

LEMMA ExpandIs ==
  ASSUME NEW s \in Seq(Args)
  PROVE  Expand(s) = FlattenSeq(Image(Meaning, s)) /\ Image(Meaning, s) \in Seq(Seq(Args))
<1>1. \A i \in DOMAIN s : s[i] \in Args /\ Meaning[s[i]] = Meant(s[i])
  BY DEF Meaning
<1>2. Image(Meaning, s)
        = [i \in DOMAIN s |-> IF s[i] \in DOMAIN Response THEN Response[s[i]] ELSE <<s[i]>>]
  BY <1>1, Zenon DEF Image, Meant
<1>3. \A a \in Args : Meaning[a] \in Seq(Args)
  BY MeantType DEF Meaning
<1>4. Image(Meaning, s) \in Seq(Seq(Args))
  BY <1>3, ImageType
<1> QED BY <1>2, <1>4, Zenon DEF Expand

LEMMA ExpandType == \A s \in Seq(Args) : Expand(s) \in Seq(Args)
BY ExpandIs, FlattenType

LEMMA ExpandNothing == Expand(<<>>) = <<>>
<1>1. Image(Meaning, <<>>) = <<>>
  BY DEF Image
<1>2. FlattenSeq(<<>>) = <<>>
  BY DEF FlattenSeq
<1>3. <<>> \in Seq(Args)
  OBVIOUS
<1> QED BY <1>1, <1>2, <1>3, ExpandIs

LEMMA ExpandAppend ==
  ASSUME NEW s \in Seq(Args), NEW a \in Args
  PROVE  Expand(Append(s, a)) = Expand(s) \o Meant(a)
<1>1. Append(s, a) \in Seq(Args)
  OBVIOUS
<1>2. Expand(Append(s, a)) = FlattenSeq(Image(Meaning, Append(s, a)))
      /\ Expand(s) = FlattenSeq(Image(Meaning, s)) /\ Image(Meaning, s) \in Seq(Seq(Args))
  BY <1>1, ExpandIs
<1>3. Image(Meaning, Append(s, a)) = Append(Image(Meaning, s), Meant(a))
  <2>1. Image(Meaning, Append(s, a)) = Append(Image(Meaning, s), Meaning[a])
    BY ImageAppend
  <2> QED BY <2>1 DEF Meaning
<1>4. FlattenSeq(Image(Meaning, s)) \in Seq(Args) /\ Meant(a) \in Seq(Args)
  BY <1>2, FlattenType, MeantType
<1> QED BY <1>2, <1>3, <1>4, FlattenAppend

(* The lines of the compiler that the parser may come to. *)
GoodLine == {l \in LineType : l.tool = "input" => l.name \in Args}

LEMMA InputsHaveLanguage ==
  ASSUME NEW list \in Seq(Args), NEW cxx, NEW m, Build(list, cxx, m).ok, DOMAIN m = {},
         NEW i \in InputSet(Expand(list))
  PROVE  /\ Expand(list)[i] \in DOMAIN Native \ Generated
         /\ Accepts(Expand(list)[i], Language(Expand(list), cxx, i))
         /\ Language(Expand(list), cxx, i) \in Languages
<1> DEFINE argv == Expand(list)
<1>1. argv \in Seq(Args)
  BY ExpandType
<1> HIDE DEF argv
<1>2. ToSet(InputsOf(argv)) = InputSet(argv)
  BY <1>1, InputFacts
<1>3. /\ \A j \in ToSet(InputsOf(argv)) : Exists(argv[j], m)
      /\ ~Errs(argv, InputsOf(argv), cxx)
  <2>1. CASE (\E j \in ToSet(InputsOf(argv)) : ~Exists(argv[j], m)) \/ Errs(argv, InputsOf(argv), cxx)
    <3>1. Build(list, cxx, m) = Rejected
      BY <2>1 DEF Build, argv
    <3> QED BY <3>1 DEF Rejected
  <2> QED BY <2>1
<1>4. argv[i] \in DOMAIN Native \ Generated
  BY <1>2, <1>3 DEF Exists, argv
<1>5. Accepts(argv[i], Language(argv, cxx, i))
  BY <1>2, <1>3 DEF Errs, argv
<1>6. Language(argv, cxx, i) \in Languages
  BY <1>4, <1>5, DriverAssumption DEF Accepts, Languages
<1> QED BY <1>4, <1>5, <1>6 DEF argv

LEMMA ShortSequences ==
  ASSUME NEW X
  PROVE  <<>> \in Seq(X) /\ \A x \in X : <<x>> \in Seq(X)
OBVIOUS

LEMMA AppendType ==
  ASSUME NEW X, NEW s \in Seq(X), NEW x \in X
  PROVE  Append(s, x) \in Seq(X) /\ ToSet(Append(s, x)) = ToSet(s) \cup {x}
<1>1. Len(s) \in Nat /\ DOMAIN s = 1 .. Len(s)
  OBVIOUS
<1>2. /\ Append(s, x) \in Seq(X) /\ DOMAIN Append(s, x) = 1 .. Len(s) + 1
      /\ \A k \in 1 .. Len(s) + 1 : Append(s, x)[k] = IF k <= Len(s) THEN s[k] ELSE x
  OBVIOUS
<1>3. 1 .. Len(s) + 1 = (1 .. Len(s)) \cup {Len(s) + 1}
  BY <1>1
<1> DEFINE t == Append(s, x)
<1> HIDE DEF t
<1>4. ToSet(t) = {t[k] : k \in 1 .. Len(s)} \cup {t[Len(s) + 1]}
  BY <1>2, <1>3 DEF ToSet, t
<1>5. t[Len(s) + 1] = x /\ \A k \in 1 .. Len(s) : t[k] = s[k]
  BY <1>1, <1>2 DEF t
<1>6. {t[k] : k \in 1 .. Len(s)} = ToSet(s)
  BY <1>1, <1>5 DEF ToSet
<1> QED BY <1>2, <1>4, <1>5, <1>6 DEF t

LEMMA PhasesType ==
  ASSUME NEW list \in Seq(Args), NEW cxx, Build(list, cxx, <<>>).ok
  PROVE  Phases(list, cxx) \in Seq(GoodLine)
<1> DEFINE argv == Expand(list)
           ins == InputsOf(argv)
           each == [k \in DOMAIN ins |-> PhasesOf(argv, cxx, ins[k])]
<1>1. argv \in Seq(Args)
  BY ExpandType
<1>2. Line("warning", "", "") \in GoodLine /\ Line("compiler", "", "ir") \in GoodLine
      /\ Line("linker", "", "image") \in GoodLine
  BY DEF Line, GoodLine, LineType, Languages
<1>3. ASSUME NEW i \in InputSet(argv)  PROVE PhasesOf(argv, cxx, i) \in Seq(GoodLine)
  <2>1. argv[i] \in Args
    <3> HIDE DEF argv
    <3> QED BY <1>1 DEF InputSet
  <2>2. Language(argv, cxx, i) \in Languages
    <3>1. DOMAIN <<>> = {}
      OBVIOUS
    <3> QED BY <3>1, InputsHaveLanguage
  <2> HIDE DEF argv
  <2>3. Line("input", argv[i], Language(argv, cxx, i)) \in GoodLine
    BY <2>1, <2>2 DEF Line, GoodLine, LineType
  <2> DEFINE one == <<Line("input", argv[i], Language(argv, cxx, i))>>
             two == <<Line("compiler", "", "ir")>>
             rest == IF Language(argv, cxx, i) \in {"c", "c++"} THEN two ELSE <<>>
  <2>4. one \in Seq(GoodLine) /\ two \in Seq(GoodLine) /\ <<>> \in Seq(GoodLine)
    BY <1>2, <2>3, ShortSequences, Zenon
  <2>5. PhasesOf(argv, cxx, i) = one \o rest
    BY Zenon DEF PhasesOf
  <2> HIDE DEF one, two
  <2>6. rest \in Seq(GoodLine)
    BY <2>4
  <2> HIDE DEF rest
  <2> QED BY <2>4, <2>5, <2>6
<1> HIDE DEF argv
<1>4. ins \in Seq(InputSet(argv))
  <2>1. Positions(InputSet(argv), Len(argv)) /\ ins = InOrder(InputSet(argv))
    BY <1>1, InputFacts
  <2> HIDE DEF ins
  <2> QED BY <2>1, OrderFacts
<1> HIDE DEF ins
<1>5. each \in Seq(Seq(GoodLine))
  <2>1. DOMAIN ins = 1 .. Len(ins) /\ Len(ins) \in Nat /\ \A k \in 1 .. Len(ins) : ins[k] \in InputSet(argv)
    BY <1>4
  <2>2. \A k \in 1 .. Len(ins) : PhasesOf(argv, cxx, ins[k]) \in Seq(GoodLine)
    BY <1>3, <2>1
  <2> QED BY <2>1, <2>2, IsASeq
<1> HIDE DEF each
<1>6. FlattenSeq(each) \in Seq(GoodLine)
  BY <1>5, FlattenType
<1> DEFINE one == <<Line("warning", "", "")>>
           two == <<Line("linker", "", "image")>>
           rest == IF Mode(argv) = "link" THEN two ELSE <<>>
           mid == FlattenSeq(each)
<1>7. one \in Seq(GoodLine) /\ two \in Seq(GoodLine) /\ <<>> \in Seq(GoodLine)
  BY <1>2, ShortSequences, Zenon
<1>8. Phases(list, cxx) = one \o mid \o rest
  BY Zenon DEF Phases, argv, ins, each
<1> HIDE DEF one, two, mid
<1>9. rest \in Seq(GoodLine)
  BY <1>7
<1> HIDE DEF rest
<1>10. mid \in Seq(GoodLine)
  BY <1>6 DEF mid
<1> QED BY <1>7, <1>8, <1>9, <1>10
-----------------------------------------------------------------------------
(***************************************************************************)
(* Types, and the question to the compiler.                                *)
(***************************************************************************)
LEMMA WordsAreArgs ==
  /\ \A w \in Added \cup Internal : w \in Args
  /\ DeclarationC \in Args /\ DeclarationLl \in Args /\ RuntimeC \in Args /\ RuntimeO \in Args
BY CommandAssumption

(* The arguments arrive at the compiler behind the option that asks for phases. *)
LEMMA QueryArrives ==
  ASSUME NEW list \in Seq(Args)
  PROVE  LET command == Command(<<"-ccc-print-phases">> \o list)
         IN Understood(command) /\ Tail(ShellArgs(command)) = list
<1> DEFINE word == "-ccc-print-phases"
           all == <<word>> \o list
<1>1. word \in Args
  BY WordsAreArgs DEF Internal
<1> HIDE DEF word
<1>2. all \in Seq(Args) /\ Tail(all) = list
  <2>1. <<word>> \in Seq(Args) /\ Len(<<word>>) = 1
    BY <1>1
  <2> DEFINE one == <<word>>
  <2> HIDE DEF one
  <2>2. one \in Seq(Args) /\ Len(one) = 1
    BY <2>1 DEF one
  <2>3. all = one \o list
    BY DEF one
  <2>4. all \in Seq(Args) /\ Len(all) = 1 + Len(list)
        /\ \A k \in 1 .. 1 + Len(list) : all[k] = IF k <= 1 THEN one[k] ELSE list[k - 1]
    BY <2>2, <2>3, ConcatProperties
  <2> HIDE DEF all
  <2>5. Len(list) \in Nat
    OBVIOUS
  <2>6. Tail(all) \in Seq(Args) /\ Len(Tail(all)) = Len(list)
        /\ \A k \in 1 .. Len(list) : Tail(all)[k] = all[k + 1]
    BY <2>4, <2>5
  <2>7. \A k \in 1 .. Len(list) : all[k + 1] = list[k]
    BY <2>4, <2>5
  <2> QED BY <2>4, <2>6, <2>7, SeqEqual
<1> HIDE DEF all
<1>3. Understood(Command(all)) /\ ShellArgs(Command(all)) = all
  BY <1>2, ShellRoundTrip
<1> QED BY <1>2, <1>3 DEF all, word

LEMMA AdditionsType == Additions \in Seq(Args)
<1> DEFINE first == <<"-D", "ANDROID">>
           last == <<"--no-warnings", "-fPIC">>
           some == IF build.ndk THEN first ELSE <<>>
<1>1. first \in Seq(Args) /\ last \in Seq(Args) /\ <<>> \in Seq(Args)
  BY WordsAreArgs DEF Added
<1>2. Additions = some \o last
  BY DEF Additions
<1> HIDE DEF first, last
<1>3. some \in Seq(Args)
  BY <1>1
<1> HIDE DEF some
<1> QED BY <1>1, <1>2, <1>3

(* What TypeOK does not say of the states. *)
Typed ==
  /\ TypeOK
  /\ args \in Commands
  /\ lines \in Seq(GoodLine) /\ phases \in Seq(GoodLine)
  /\ Build(args, build.cxx, <<>>).ok

LEMMA TypedInit == Init => Typed
<1> SUFFICES ASSUME Init  PROVE Typed
  OBVIOUS
<1>1. args \in Seq(Args) /\ build \in Builds /\ pc = "query" /\ n = 1
  BY CommandAssumption DEF Init
<1>2. <<>> \in Seq(GoodLine) /\ <<>> \in Seq(LineType) /\ <<>> \in Seq(Args)
  BY ShortSequences
<1>3. DOMAIN made \subseteq Generated
  <2>1. made = <<>> /\ DOMAIN <<>> = {}
    BY DEF Init
  <2> QED BY <2>1
<1> QED BY <1>1, <1>2, <1>3 DEF Init, Typed, TypeOK, Stages

(* The loops of inputs, options and -std only append and remove. *)
LEMMA TypedStep == Typed /\ [Next]_vars => Typed'
<1> SUFFICES ASSUME Typed, [Next]_vars  PROVE Typed'
  OBVIOUS
<1> USE DEF Typed, TypeOK, Stages
<1>1. Seq(GoodLine) \subseteq Seq(LineType)
  BY DEF GoodLine
<1>2. CASE Query
  <2>1. /\ Understood(Command(<<"-ccc-print-phases">> \o args))
        /\ Tail(ShellArgs(Command(<<"-ccc-print-phases">> \o args))) = args
    BY QueryArrives
  <2>2. lines' = Phases(args, build.cxx) /\ pc' = "parse" /\ n' = 1
        /\ UNCHANGED <<args, build, phases, inputs, options, made, outcome>>
    BY <1>2, <2>1 DEF Query, Goto
  <2>3. lines' \in Seq(GoodLine)
    BY <2>2, PhasesType
  <2>4. Len(lines') \in Nat
    BY <2>3
  <2> QED BY <1>1, <2>2, <2>3, <2>4
<1>3. CASE ParsePhase
  <2>1. CASE Ends(lines)
    BY <1>3, <2>1 DEF ParsePhase, Goto, Ends
  <2>2. CASE ~Ends(lines)
    <3>1. n \in 1 .. Len(lines) /\ lines[n] \in GoodLine
      BY <1>3, <2>2 DEF ParsePhase, Ends
    <3>2. phases' \in Seq(GoodLine)
      <4>1. phases \in Seq(GoodLine) /\ Append(phases, lines[n]) \in Seq(GoodLine)
        BY <3>1, AppendType
      <4> QED BY <1>3, <2>2, <4>1 DEF ParsePhase
    <3> QED BY <1>1, <1>3, <2>2, <3>1, <3>2 DEF ParsePhase
  <2> QED BY <2>1, <2>2
<1>4. CASE GetInput
  <2>1. CASE Ends(phases)
    BY <1>4, <2>1 DEF GetInput, Goto, End
  <2>2. CASE ~Ends(phases)
    <3>1. n \in 1 .. Len(phases) /\ phases[n] \in GoodLine
      BY <1>4, <2>2 DEF GetInput, Ends
    <3>2. IsSource(phases[n]) => phases[n].name \in Args
      BY <3>1 DEF IsSource, GoodLine
    <3>3. CASE IsSource(phases[n]) /\ phases[n].name \in Piped
      BY <1>4, <2>2, <3>3 DEF GetInput, End
    <3>4. CASE ~(IsSource(phases[n]) /\ phases[n].name \in Piped)
      <4>1. inputs' \in Seq(Args)
        <5>1. inputs \in Seq(Args)
              /\ IsSource(phases[n]) => Append(inputs, phases[n].name) \in Seq(Args)
          BY <3>2, AppendType
        <5> QED BY <1>4, <2>2, <3>4, <5>1 DEF GetInput
      <4> QED BY <1>4, <2>2, <3>1, <3>4, <4>1 DEF GetInput
    <3> QED BY <3>3, <3>4
  <2> QED BY <2>1, <2>2
<1>5. CASE GetOption
  <2>1. CASE Ends(args)
    BY <1>5, <2>1 DEF GetOption, Goto
  <2>2. CASE ~Ends(args)
    <3>1. n \in 1 .. Len(args) /\ args[n] \in Args
      BY <1>5, <2>2 DEF GetOption, Ends
    <3>2. options' \in Seq(Args)
      <4>1. options \in Seq(Args) /\ Append(options, args[n]) \in Seq(Args)
        BY <3>1, AppendType
      <4> QED BY <1>5, <2>2, <4>1 DEF GetOption
    <3> QED BY <1>5, <2>2, <3>1, <3>2 DEF GetOption
  <2> QED BY <2>1, <2>2
<1>6. CASE RemoveStdc
  <2>1. n \in 1 .. Len(options) /\ Len(options) \in Nat
    BY <1>6 DEF RemoveStdc, Ends
  <2>4. UNCHANGED <<args, build, pc, lines, phases, inputs, made>> /\ pc = "stdc"
    BY <1>6 DEF RemoveStdc
  <2>5. (Build(args, build.cxx, <<>>).ok)'
    BY <2>4, Zenon
  <2>2. CASE options[n] \in StdC
    <3>1. options' \in Seq(Args) /\ Len(options') = Len(options) - 1
      BY <1>6, <2>1, <2>2, RemoveFacts DEF RemoveStdc
    <3>2. n' = n
      BY <1>6, <2>2 DEF RemoveStdc
    <3> QED BY <2>1, <2>4, <2>5, <3>1, <3>2
  <2>3. CASE options[n] \notin StdC
    <3>1. n' = n + 1 /\ options' = options
      BY <1>6, <2>3 DEF RemoveStdc
    <3> QED BY <2>1, <2>4, <2>5, <3>1
  <2> QED BY <2>2, <2>3
<1>7. CASE AddOptions
  <2>1. options' \in Seq(Args)
    <3>1. Additions \in Seq(Args)
      BY AdditionsType
    <3> QED BY <1>7, <3>1 DEF AddOptions
  <2>2. Len(inputs) \in Nat
    OBVIOUS
  <2> QED BY <1>7, <2>1, <2>2 DEF AddOptions, Goto
<1>8. CASE GenerateRuntime
  BY <1>8 DEF GenerateRuntime, Goto, End
<1>9. CASE GenerateLl
  <2>1. n \in 1 .. Len(inputs) /\ inputs[n] \in Args
    BY <1>9 DEF GenerateLl, Ends
  <2>2. inputs' \in Seq(Args) /\ Len(inputs') = Len(inputs) /\ DOMAIN made' \subseteq Generated
    <3>1. CASE UNCHANGED <<inputs, made>>
      BY <3>1
    <3>2. CASE ~UNCHANGED <<inputs, made>>
      <4> DEFINE unit == Build(LlCommand(inputs[n], Ll[inputs[n]]), build.cxx, made).units[1]
      <4>1. Ll[inputs[n]] # inputs[n] /\ made' = MadeAlso(Ll[inputs[n]], unit)
            /\ inputs' = [inputs EXCEPT ![n] = Ll[inputs[n]]]
        BY <1>9, <3>2, Zenon DEF GenerateLl
      <4> HIDE DEF unit
      <4>2. Ll[inputs[n]] \in Args /\ Ll[inputs[n]] \in Generated
        BY <2>1, <4>1, CommandAssumption
      <4>3. DOMAIN made' = DOMAIN made \cup {Ll[inputs[n]]}
        BY <4>1 DEF MadeAlso
      <4> QED BY <2>1, <4>1, <4>2, <4>3
    <3> QED BY <3>1, <3>2
  <2> QED BY <1>9, <2>1, <2>2 DEF GenerateLl
<1>10. CASE Final
  BY <1>10 DEF Final, End
<1>11. CASE UNCHANGED vars
  BY <1>11 DEF vars
<1> QED
  BY <1>2, <1>3, <1>4, <1>5, <1>6, <1>7, <1>8, <1>9, <1>10, <1>11 DEF Next

LEMMA AlwaysTyped == Spec => []Typed
BY TypedInit, TypedStep, PTL DEF Spec

(* The variables have their types, and no loop runs past its list. *)
THEOREM TypeCorrect == Spec => []TypeOK
<1>1. Typed => TypeOK
  BY DEF Typed
<1> QED BY <1>1, AlwaysTyped, PTL

(***************************************************************************)
(* The compiler accepts the question and answers it about the command line *)
(* of the user: get_phases() never fails where the user's command would    *)
(* not, and lines are the phases of that command.                          *)
(***************************************************************************)
THEOREM QuestionArrives == Spec => []Asked
<1>1. Init => Asked
  BY DEF Init, Asked
<1>2. Typed /\ Asked /\ [Next]_vars => Asked'
  <2> SUFFICES ASSUME Typed, Asked, [Next]_vars  PROVE Asked'
    OBVIOUS
  <2>1. CASE Query
    <3>1. args \in Seq(Args) /\ Build(args, build.cxx, <<>>).ok
      BY DEF Typed, TypeOK
    <3>2. /\ Understood(Command(<<"-ccc-print-phases">> \o args))
          /\ Tail(ShellArgs(Command(<<"-ccc-print-phases">> \o args))) = args
      BY <3>1, QueryArrives
    <3>3. lines' = Phases(args, build.cxx) /\ UNCHANGED <<args, build>>
      BY <2>1, <3>1, <3>2 DEF Query
    <3> QED BY <3>3 DEF Asked
  <2>2. CASE Next /\ ~Query
    <3>1. pc # "query" /\ UNCHANGED <<args, build, lines>>
      BY <2>2 DEF Next, ParsePhase, GetInput, GetOption, RemoveStdc, AddOptions, GenerateRuntime,
         GenerateLl, Final, vars
    <3> QED BY <3>1 DEF Asked
  <2>3. CASE UNCHANGED vars
    BY <2>3 DEF vars, Asked
  <2> QED BY <2>1, <2>2, <2>3
<1> QED BY <1>1, <1>2, AlwaysTyped, PTL DEF Spec
-----------------------------------------------------------------------------
(***************************************************************************)
(* The options.                                                            *)
(***************************************************************************)
LEMMA AtFacts ==
  ASSUME NEW X, NEW s \in Seq(X), NEW S, Positions(S, Len(s))
  PROVE  /\ At(s, S) \in Seq(X) /\ Len(At(s, S)) = Cardinality(S) /\ Cardinality(S) \in Nat
         /\ \A k \in 1 .. Cardinality(S) : InOrder(S)[k] \in S /\ At(s, S)[k] = s[InOrder(S)[k]]
         /\ \A i \in S : Rank(S, i) \in 1 .. Cardinality(S) /\ At(s, S)[Rank(S, i)] = s[i]
<1> DEFINE o == InOrder(S)
           c == Cardinality(S)
<1>1. /\ o \in Seq(S) /\ Len(o) = c /\ c \in Nat
      /\ \A k \in 1 .. c : o[k] \in S
      /\ \A i \in S : Rank(S, i) \in 1 .. c /\ o[Rank(S, i)] = i
  <2>1. c \in Nat
    BY PositionsFinite
  <2> QED BY <2>1, OrderFacts
<1>2. At(s, S) = [k \in DOMAIN o |-> s[o[k]]]
  BY DEF At
<1> HIDE DEF o, c
<1>3. DOMAIN o = 1 .. c
  BY <1>1
<1>4. \A i \in S : i \in 1 .. Len(s)
  BY PositionsAre
<1>5. \A k \in 1 .. c : s[o[k]] \in X
  BY <1>1, <1>4
<1>6. At(s, S) \in Seq(X) /\ Len(At(s, S)) = c
  BY <1>1, <1>2, <1>3, <1>5, IsASeq
<1> QED BY <1>1, <1>2, <1>3, <1>6 DEF o, c

LEMMA AtMore ==
  ASSUME NEW X, NEW s \in Seq(X), NEW m \in Nat, m < Len(s), NEW S, Positions(S, m)
  PROVE  At(s, S \cup {m + 1}) = Append(At(s, S), s[m + 1])
<1> DEFINE o == InOrder(S)
           c == Cardinality(S)
<1>1. InOrder(S \cup {m + 1}) = Append(o, m + 1)
  BY OrderMore
<1>2. o \in Seq(S) /\ Len(o) = c /\ c \in Nat
  <2>1. c \in Nat
    BY PositionsFinite
  <2> QED BY <2>1, OrderFacts
<1>3. At(s, S) = [k \in DOMAIN o |-> s[o[k]]]
  BY DEF At
<1>4. At(s, S \cup {m + 1}) = [k \in DOMAIN Append(o, m + 1) |-> s[Append(o, m + 1)[k]]]
  BY <1>1 DEF At
<1> HIDE DEF o, c
<1>5. DOMAIN Append(o, m + 1) = 1 .. c + 1 /\ DOMAIN o = 1 .. c
      /\ \A k \in 1 .. c + 1 : Append(o, m + 1)[k] = IF k <= c THEN o[k] ELSE m + 1
  BY <1>2
<1>6. \A i \in S : i \in 1 .. Len(s)
  <2>1. Positions(S, Len(s))
    BY PositionsRise
  <2> QED BY <2>1, PositionsAre
<1>7. At(s, S) \in Seq(X) /\ Len(At(s, S)) = c
  <2>1. \A k \in 1 .. c : s[o[k]] \in X
    BY <1>2, <1>6
  <2> QED BY <1>2, <1>3, <1>5, <2>1, IsASeq
<1>8. Append(At(s, S), s[m + 1]) = [k \in 1 .. c + 1 |-> IF k <= c THEN s[o[k]] ELSE s[m + 1]]
  <2>1. s[m + 1] \in X
    OBVIOUS
  <2> QED BY <1>2, <1>3, <1>5, <1>7, <2>1
<1>9. At(s, S \cup {m + 1}) = [k \in 1 .. c + 1 |-> IF k <= c THEN s[o[k]] ELSE s[m + 1]]
  <2>1. \A k \in 1 .. c + 1 : s[Append(o, m + 1)[k]] = IF k <= c THEN s[o[k]] ELSE s[m + 1]
    BY <1>5
  <2> QED BY <1>4, <1>5, <2>1
<1> QED BY <1>8, <1>9

LEMMA AtLess ==
  ASSUME NEW X, NEW s \in Seq(X), NEW S, Positions(S, Len(s)), NEW k \in 1 .. Cardinality(S)
  PROVE  At(s, S \ {InOrder(S)[k]}) = RemoveAt(At(s, S), k)
<1> DEFINE o == InOrder(S)
           c == Cardinality(S)
           q == o[k]
<1>1. /\ o \in Seq(S) /\ Len(o) = c /\ c \in Nat
      /\ q \in S /\ Rank(S, q) = k
  <2>1. c \in Nat
    BY PositionsFinite
  <2>2. o \in Seq(S) /\ Len(o) = c /\ \A j \in 1 .. c : o[j] \in S /\ Rank(S, o[j]) = j
    BY OrderFacts
  <2> QED BY <2>1, <2>2
<1>2. InOrder(S \ {q}) = RemoveAt(o, k)
  BY <1>1, OrderLess
<1>3. At(s, S) = [j \in DOMAIN o |-> s[o[j]]]
  BY DEF At
<1>4. At(s, S \ {q}) = [j \in DOMAIN RemoveAt(o, k) |-> s[RemoveAt(o, k)[j]]]
  BY <1>2 DEF At
<1>5. At(s, S) \in Seq(X) /\ Len(At(s, S)) = c
  BY AtFacts
<1>6. k \in 1 .. c
  OBVIOUS
<1> HIDE DEF o, c, q
<1>7. /\ RemoveAt(o, k) \in Seq(S) /\ Len(RemoveAt(o, k)) = c - 1
      /\ \A j \in 1 .. c - 1 : RemoveAt(o, k)[j] = IF j < k THEN o[j] ELSE o[j + 1]
  BY <1>1, <1>6, RemoveFacts
<1>8. /\ RemoveAt(At(s, S), k) \in Seq(X) /\ Len(RemoveAt(At(s, S), k)) = c - 1
      /\ \A j \in 1 .. c - 1 :
           RemoveAt(At(s, S), k)[j] = IF j < k THEN At(s, S)[j] ELSE At(s, S)[j + 1]
  BY <1>5, <1>6, RemoveFacts
<1>9. DOMAIN RemoveAt(o, k) = 1 .. c - 1 /\ DOMAIN RemoveAt(At(s, S), k) = 1 .. c - 1
      /\ DOMAIN o = 1 .. c
  BY <1>1, <1>7, <1>8
<1>10. \A j \in 1 .. c - 1 : s[RemoveAt(o, k)[j]] = RemoveAt(At(s, S), k)[j]
  <2>1. SUFFICES ASSUME NEW j \in 1 .. c - 1
                 PROVE  s[RemoveAt(o, k)[j]] = RemoveAt(At(s, S), k)[j]
    OBVIOUS
  <2>2. j \in 1 .. c /\ j + 1 \in 1 .. c
    BY <1>1
  <2> QED BY <1>3, <1>7, <1>8, <1>9, <2>2
<1>11. RemoveAt(At(s, S), k) = [j \in 1 .. c - 1 |-> RemoveAt(At(s, S), k)[j]]
  BY <1>8
<1> QED BY <1>4, <1>9, <1>10, <1>11 DEF q, o

(* The names of the sources among the first phases. *)
NamesTo(m) == {phases[k].name : k \in {l \in 1 .. m : IsSource(phases[l])}}

(* The arguments that are no source. *)
OptionPlaces(m) == {k \in 1 .. m : args[k] \notin SourceNames}

(***************************************************************************)
(* What is left of the arguments: all but sources, and for C++ but -std of *)
(* C that the loop has come past.                                          *)
(***************************************************************************)
LeftOf(S, m) ==
  /\ S \subseteq OptionPlaces(Len(args)) /\ options = At(args, S)
  /\ \A k \in OptionPlaces(Len(args)) \ S : build.cxx /\ args[k] \in StdC
  /\ \A j \in 1 .. m : options[j] \notin StdC

Kept ==
  /\ pc \in {"query", "parse"} => inputs = <<>>
  /\ pc \in {"query", "parse", "inputs"} => options = <<>>
  /\ pc = "inputs" => ToSet(inputs) = NamesTo(n - 1)
  /\ pc = "options" => /\ ToSet(inputs) = SourceNames
                       /\ options = At(args, OptionPlaces(n - 1))
  /\ pc = "stdc" => \E S : LeftOf(S, n - 1)
  /\ OptionsKept

LEMMA OptionPlacesAre == \A m \in Nat : Positions(OptionPlaces(m), m)
BY DEF OptionPlaces, Positions

(* No step before the next stage, and none but these, touches what Kept says. *)
LEMMA KeptStays ==
  ASSUME Kept, UNCHANGED <<args, build, phases, options>>,
         \/ UNCHANGED <<pc, n, inputs>>
         \/ pc \in {"generate", "runtime"} /\ pc' \in {"generate", "runtime", "done"}
         \/ pc' = "done"
  PROVE  Kept'
<1>1. SourceNames' = SourceNames /\ Additions' = Additions
  BY DEF SourceNames, IsSource, Additions
<1>2. OptionPlaces(n - 1)' = OptionPlaces(n' - 1) /\ NamesTo(n - 1)' = NamesTo(n' - 1)
      /\ OptionPlaces(Len(args))' = OptionPlaces(Len(args))
  BY <1>1 DEF OptionPlaces, NamesTo, IsSource
<1>3. CASE UNCHANGED <<pc, n, inputs>>
  <2>1. \A S : LeftOf(S, n - 1) => LeftOf(S, n - 1)'
    BY <1>2, <1>3 DEF LeftOf
  <2>2. OptionsKept'
    BY <1>1, <1>3 DEF Kept, OptionsKept
  <2> QED BY <1>1, <1>2, <1>3, <2>1, <2>2 DEF Kept
<1>4. CASE pc \in {"generate", "runtime"} /\ pc' \in {"generate", "runtime", "done"}
  <2>1. OptionsKept'
    BY <1>1, <1>4 DEF Kept, OptionsKept
  <2> QED BY <1>4, <2>1 DEF Kept
<1>5. CASE pc' = "done"
  BY <1>5 DEF Kept, OptionsKept
<1> QED BY <1>3, <1>4, <1>5

LEMMA KeptInit == Init => Kept
BY DEF Init, Kept, OptionsKept

LEMMA NothingAt == \A s : At(s, {}) = <<>>
<1>1. Positions({}, 0)
  BY DEF Positions
<1>2. InOrder({}) \in Seq({}) /\ Len(InOrder({})) = 0
  BY <1>1, OrderFacts, FS_EmptySet
<1>3. InOrder({}) = <<>>
  BY <1>2
<1> QED BY <1>3 DEF At

LEMMA KeptInputs == Typed /\ Kept /\ GetInput => Kept'
<1> SUFFICES ASSUME Typed, Kept, GetInput  PROVE Kept'
  OBVIOUS
<1>1. /\ pc = "inputs" /\ ToSet(inputs) = NamesTo(n - 1) /\ options = <<>>
      /\ n \in Nat /\ 1 <= n /\ n <= Len(phases) + 1
      /\ phases \in Seq(GoodLine) /\ inputs \in Seq(Args)
      /\ UNCHANGED <<args, build, phases, options>>
  BY DEF GetInput, Kept, Typed, TypeOK
<1>2. CASE Ends(phases)
  <2>1. pc' = "options" /\ n' = 1 /\ UNCHANGED inputs
    BY <1>1, <1>2 DEF GetInput, Goto
  <2>2. 1 .. n - 1 = DOMAIN phases
    BY <1>1, <1>2 DEF Ends
  <2>3. ToSet(inputs)' = SourceNames'
    BY <1>1, <2>1, <2>2 DEF SourceNames, NamesTo, IsSource
  <2>4. OptionPlaces(n - 1)' = {}
    BY <2>1 DEF OptionPlaces
  <2>5. At(args', OptionPlaces(n - 1)') = <<>>
    BY <2>4, NothingAt
  <2> QED BY <1>1, <2>1, <2>3, <2>5 DEF Kept, OptionsKept
<1>3. CASE ~Ends(phases) /\ IsSource(phases[n]) /\ phases[n].name \in Piped
  <2>1. pc' = "done"
    BY <1>1, <1>3 DEF GetInput, End
  <2> QED BY <1>1, <2>1 DEF Kept, OptionsKept
<1>4. CASE ~Ends(phases) /\ ~(IsSource(phases[n]) /\ phases[n].name \in Piped)
  <2>1. /\ pc' = "inputs" /\ n' = n + 1
        /\ inputs' = IF IsSource(phases[n]) THEN Append(inputs, phases[n].name) ELSE inputs
    BY <1>1, <1>4 DEF GetInput
  <2>2. n \in 1 .. Len(phases) /\ phases[n] \in GoodLine
    BY <1>1, <1>4 DEF Ends
  <2>3. IsSource(phases[n]) => phases[n].name \in Args
    BY <2>2 DEF IsSource, GoodLine
  <2>4. NamesTo(n - 1)' = NamesTo(n)
    BY <1>1, <2>1 DEF NamesTo, IsSource
  <2>5. NamesTo(n) = NamesTo(n - 1) \cup (IF IsSource(phases[n]) THEN {phases[n].name} ELSE {})
    <3>1. 1 .. n = (1 .. n - 1) \cup {n}
      BY <1>1
    <3> QED BY <3>1 DEF NamesTo
  <2>6. ToSet(inputs') = NamesTo(n)
    <3>1. CASE IsSource(phases[n])
      <4>1. ToSet(Append(inputs, phases[n].name)) = ToSet(inputs) \cup {phases[n].name}
        BY <1>1, <2>3, <3>1, AppendType
      <4> QED BY <1>1, <2>1, <2>5, <3>1, <4>1
    <3>2. CASE ~IsSource(phases[n])
      BY <1>1, <2>1, <2>5, <3>2
    <3> QED BY <3>1, <3>2
  <2> QED BY <1>1, <2>1, <2>4, <2>6 DEF Kept, OptionsKept
<1> QED BY <1>2, <1>3, <1>4

LEMMA KeptOptions == Typed /\ Kept /\ GetOption => Kept'
<1> SUFFICES ASSUME Typed, Kept, GetOption  PROVE Kept'
  OBVIOUS
<1>1. /\ pc = "options" /\ ToSet(inputs) = SourceNames /\ options = At(args, OptionPlaces(n - 1))
      /\ n \in Nat /\ 1 <= n /\ n <= Len(args) + 1
      /\ args \in Seq(Args) /\ Len(args) \in Nat
      /\ UNCHANGED <<args, build, phases, inputs>>
  BY DEF GetOption, Kept, Typed, TypeOK
<1>2. SourceNames' = SourceNames /\ ToSet(inputs)' = SourceNames
  BY <1>1 DEF SourceNames, IsSource
<1>3. CASE Ends(args)
  <2>1. pc' = "stdc" /\ n' = 1 /\ UNCHANGED options
    BY <1>1, <1>3 DEF GetOption, Goto
  <2>2. n - 1 = Len(args)
    BY <1>1, <1>3 DEF Ends
  <2>3. OptionPlaces(Len(args))' = OptionPlaces(Len(args))
    BY <1>1, <1>2 DEF OptionPlaces
  <2>4. LeftOf(OptionPlaces(Len(args)), n - 1)'
    BY <1>1, <2>1, <2>2, <2>3 DEF LeftOf
  <2> QED BY <2>1, <2>4 DEF Kept, OptionsKept
<1>4. CASE ~Ends(args)
  <2>1. /\ pc' = "options" /\ n' = n + 1
        /\ options' = IF Contains(inputs, args[n]) THEN options ELSE Append(options, args[n])
    BY <1>1, <1>4 DEF GetOption
  <2>2. n \in 1 .. Len(args) /\ n - 1 \in Nat /\ n - 1 < Len(args) /\ (n - 1) + 1 = n
    BY <1>1, <1>4 DEF Ends
  <2>3. Contains(inputs, args[n]) <=> args[n] \in SourceNames
    BY <1>1 DEF Contains, ToSet
  <2>4. OptionPlaces(n - 1)' = OptionPlaces(n)
    BY <1>1, <1>2, <2>1 DEF OptionPlaces
  <2>5. 1 .. n = (1 .. n - 1) \cup {n}
    BY <1>1
  <2>6. options' = At(args, OptionPlaces(n))
    <3>1. CASE args[n] \in SourceNames
      <4>1. OptionPlaces(n) = OptionPlaces(n - 1)
        BY <2>5, <3>1 DEF OptionPlaces
      <4> QED BY <1>1, <2>1, <2>3, <3>1, <4>1
    <3>2. CASE args[n] \notin SourceNames
      <4>1. OptionPlaces(n) = OptionPlaces(n - 1) \cup {(n - 1) + 1}
        BY <2>2, <2>5, <3>2 DEF OptionPlaces
      <4>2. Positions(OptionPlaces(n - 1), n - 1)
        BY <2>2, OptionPlacesAre
      <4>3. At(args, OptionPlaces(n - 1) \cup {(n - 1) + 1})
              = Append(At(args, OptionPlaces(n - 1)), args[(n - 1) + 1])
        BY <1>1, <2>2, <4>2, AtMore
      <4> QED BY <1>1, <2>1, <2>2, <2>3, <3>2, <4>1, <4>3
    <3> QED BY <3>1, <3>2
  <2> QED BY <1>1, <1>2, <2>1, <2>4, <2>6 DEF Kept, OptionsKept
<1> QED BY <1>3, <1>4

LEMMA KeptStdc == Typed /\ Kept /\ RemoveStdc => Kept'
<1> SUFFICES ASSUME Typed, Kept, RemoveStdc  PROVE Kept'
  OBVIOUS
<1>1. /\ pc = "stdc" /\ pc' = "stdc" /\ build.cxx /\ n \in Nat /\ 1 <= n
      /\ args \in Seq(Args) /\ Len(args) \in Nat
      /\ options \in Seq(Args) /\ n \in 1 .. Len(options) /\ Len(options) \in Nat
      /\ UNCHANGED <<args, build, phases, inputs>>
  BY DEF RemoveStdc, Typed, TypeOK, Ends
<1>2. PICK S : LeftOf(S, n - 1)
  BY <1>1 DEF Kept
<1> DEFINE all == OptionPlaces(Len(args))
<1>3. all' = all
  BY <1>1 DEF OptionPlaces, SourceNames, IsSource
<1>4. Positions(S, Len(args))
  <2>1. Positions(all, Len(args))
    BY <1>1, OptionPlacesAre
  <2>2. S \subseteq all
    BY <1>2 DEF LeftOf
  <2> HIDE DEF all
  <2> QED BY <1>1, <2>1, <2>2, PositionsRise
<1>5. Len(options) = Cardinality(S) /\ InOrder(S)[n] \in S /\ options[n] = args[InOrder(S)[n]]
      /\ n \in 1 .. Cardinality(S)
  <2>1. options = At(args, S)
    BY <1>2 DEF LeftOf
  <2> QED BY <1>1, <1>4, <2>1, AtFacts
<1>6. CASE options[n] \in StdC
  <2> DEFINE q == InOrder(S)[n]
  <2>1. options' = RemoveAt(options, n) /\ n' = n
    BY <1>1, <1>6 DEF RemoveStdc
  <2>2. options' = At(args, S \ {q})
    <3>1. options = At(args, S)
      BY <1>2 DEF LeftOf
    <3> QED BY <1>1, <1>4, <1>5, <2>1, <3>1, AtLess
  <2>3. q \in S /\ args[q] \in StdC
    BY <1>5, <1>6
  <2>4. \A j \in 1 .. n - 1 : options'[j] = options[j]
    <3>1. \A j \in 1 .. Len(options) - 1 :
            RemoveAt(options, n)[j] = IF j < n THEN options[j] ELSE options[j + 1]
      BY <1>1, RemoveFacts
    <3> QED BY <1>1, <2>1, <3>1
  <2> HIDE DEF q, all
  <2>5. S \ {q} \subseteq all /\ \A k \in all \ (S \ {q}) : build.cxx /\ args[k] \in StdC
    BY <1>1, <1>2, <2>3 DEF LeftOf, all
  <2>6. \A j \in 1 .. n - 1 : options'[j] \notin StdC
    BY <1>2, <2>4 DEF LeftOf
  <2> DEFINE T == S \ {q}
  <2>7. LeftOf(T, n - 1)'
    <3>1. T' = T /\ n' - 1 = n - 1 /\ args' = args /\ build' = build
      BY <1>1, <2>1 DEF q
    <3> HIDE DEF T
    <3>2. At(args, T)' = At(args, T)
      BY <3>1
    <3>3. (T \subseteq OptionPlaces(Len(args)))'
      BY <1>3, <2>5, <3>1 DEF T, all
    <3>4. (options = At(args, T))'
      BY <2>2, <3>1, <3>2 DEF T
    <3>5. (\A k \in OptionPlaces(Len(args)) \ T : build.cxx /\ args[k] \in StdC)'
      BY <1>3, <2>5, <3>1, Zenon DEF T, all
    <3>6. (\A j \in 1 .. n - 1 : options[j] \notin StdC)'
      BY <2>6, <3>1
    <3> QED BY <3>3, <3>4, <3>5, <3>6 DEF LeftOf
  <2> QED BY <1>1, <2>7 DEF Kept, OptionsKept
<1>7. CASE options[n] \notin StdC
  <2>1. options' = options /\ n' = n + 1
    BY <1>1, <1>7 DEF RemoveStdc
  <2>2. \A j \in 1 .. n : options[j] \notin StdC
    BY <1>1, <1>2, <1>7 DEF LeftOf
  <2>3. n' - 1 = n
    BY <1>1, <2>1
  <2>4. LeftOf(S, n - 1)'
    BY <1>1, <1>2, <1>3, <2>1, <2>2, <2>3 DEF LeftOf
  <2> QED BY <1>1, <2>4 DEF Kept, OptionsKept
<1> QED BY <1>6, <1>7

LEMMA KeptAdd == Typed /\ Kept /\ AddOptions => Kept'
<1> SUFFICES ASSUME Typed, Kept, AddOptions  PROVE Kept'
  OBVIOUS
<1>1. /\ pc = "stdc" /\ pc' \in {"runtime", "generate"} /\ options' = options \o Additions
      /\ args \in Seq(Args) /\ Len(args) \in Nat /\ options \in Seq(Args) /\ n \in Nat /\ 1 <= n
      /\ build.cxx => Len(options) <= n - 1
      /\ UNCHANGED <<args, build, phases>>
  BY DEF AddOptions, Typed, TypeOK, Ends, Goto
<1>2. PICK S : LeftOf(S, n - 1)
  BY <1>1 DEF Kept
<1> DEFINE all == OptionPlaces(Len(args))
           left == {k \in DOMAIN args : args[k] \notin SourceNames /\ ~(build.cxx /\ args[k] \in StdC)}
<1>3. S \subseteq all /\ options = At(args, S)
  BY <1>2 DEF LeftOf
<1>4. Positions(S, Len(args))
  <2>1. Positions(all, Len(args))
    BY <1>1, OptionPlacesAre
  <2> HIDE DEF all
  <2> QED BY <1>1, <1>3, <2>1, PositionsRise
<1>5. ASSUME build.cxx, NEW i \in S  PROVE args[i] \notin StdC
  <2>1. Rank(S, i) \in 1 .. Len(options) /\ options[Rank(S, i)] = args[i]
    BY <1>1, <1>3, <1>4, AtFacts
  <2>2. Rank(S, i) \in 1 .. n - 1
    BY <1>1, <1>5, <2>1
  <2> QED BY <1>2, <2>1, <2>2 DEF LeftOf
<1>6. DOMAIN args = 1 .. Len(args)
  BY <1>1
<1>7. S = left
  <2>1. \A k \in all \ S : build.cxx /\ args[k] \in StdC
    BY <1>2 DEF LeftOf
  <2> QED BY <1>3, <1>5, <1>6, <2>1 DEF OptionPlaces
<1>8. SourceNames' = SourceNames /\ Additions' = Additions
  BY <1>1 DEF SourceNames, IsSource, Additions
<1>9. OptionsKept'
  BY <1>1, <1>3, <1>7, <1>8 DEF OptionsKept
<1> QED BY <1>1, <1>9 DEF Kept

LEMMA KeptStep == Typed /\ Kept /\ [Next]_vars => Kept'
<1> SUFFICES ASSUME Typed, Kept, [Next]_vars  PROVE Kept'
  OBVIOUS
<1>1. CASE Query
  BY <1>1 DEF Query, Goto, End, Kept, OptionsKept
<1>2. CASE ParsePhase
  <2>1. CASE Ends(lines)
    <3>1. pc' = "inputs" /\ n' = 1 /\ inputs' = <<>> /\ options' = <<>>
      BY <1>2, <2>1 DEF ParsePhase, Goto, Kept
    <3>2. ToSet(inputs)' = NamesTo(n - 1)'
      BY <3>1 DEF ToSet, NamesTo
    <3> QED BY <3>1, <3>2 DEF Kept, OptionsKept
  <2>2. CASE ~Ends(lines)
    BY <1>2, <2>2 DEF ParsePhase, Kept, OptionsKept
  <2> QED BY <2>1, <2>2
<1>3. CASE GetInput
  BY <1>3, KeptInputs
<1>4. CASE GetOption
  BY <1>4, KeptOptions
<1>5. CASE RemoveStdc
  BY <1>5, KeptStdc
<1>6. CASE AddOptions
  BY <1>6, KeptAdd
<1>7. CASE GenerateRuntime \/ GenerateLl \/ Final
  <2>1. /\ UNCHANGED <<args, build, phases, options>>
        /\ pc \in {"generate", "runtime"} /\ pc' \in {"generate", "runtime", "done"}
    BY <1>7 DEF GenerateRuntime, GenerateLl, Final, Goto, End
  <2> QED BY <2>1, KeptStays
<1>8. CASE UNCHANGED vars
  BY <1>8, KeptStays DEF vars
<1> QED BY <1>1, <1>2, <1>3, <1>4, <1>5, <1>6, <1>7, <1>8 DEF Next

LEMMA AlwaysKept == Spec => []Kept
BY KeptInit, KeptStep, AlwaysTyped, PTL DEF Spec

(***************************************************************************)
(* Whatever get_options() and remove_stdc() erase while they count, the    *)
(* options are the user's arguments in their order without the sources     *)
(* and, for C++, without every -std of C.                                  *)
(***************************************************************************)
THEOREM OptionsAreKept == Spec => []OptionsKept
<1>1. Kept => OptionsKept
  BY DEF Kept
<1> QED BY <1>1, AlwaysKept, PTL
-----------------------------------------------------------------------------
(***************************************************************************)
(* Command lines one behind the other.                                     *)
(***************************************************************************)
(* Nothing behind s is the value of its last word. *)
Closed(s) == s = <<>> \/ s[Len(s)] \notin Valued


LEMMA ConcatIs ==
  ASSUME NEW X, NEW s \in Seq(X), NEW t \in Seq(X)
  PROVE  /\ s \o t \in Seq(X) /\ Len(s) \in Nat /\ Len(t) \in Nat
         /\ Len(s \o t) = Len(s) + Len(t) /\ DOMAIN (s \o t) = 1 .. Len(s) + Len(t)
         /\ \A p \in 1 .. Len(s) : (s \o t)[p] = s[p]
         /\ \A j \in 1 .. Len(t) : (s \o t)[Len(s) + j] = t[j]
         /\ \A p \in 1 .. Len(s) + Len(t) :
              p \in 1 .. Len(s) \/ (p - Len(s) \in 1 .. Len(t) /\ Len(s) + (p - Len(s)) = p)
<1>1. /\ s \o t \in Seq(X) /\ Len(s) \in Nat /\ Len(t) \in Nat
      /\ Len(s \o t) = Len(s) + Len(t)
      /\ \A p \in 1 .. Len(s) + Len(t) : (s \o t)[p] = IF p <= Len(s) THEN s[p] ELSE t[p - Len(s)]
  BY ConcatProperties
<1>2. DOMAIN (s \o t) = 1 .. Len(s) + Len(t)
  BY <1>1
<1>3. ASSUME NEW j \in 1 .. Len(t)  PROVE (s \o t)[Len(s) + j] = t[j]
  <2>1. Len(s) + j \in 1 .. Len(s) + Len(t) /\ ~(Len(s) + j <= Len(s)) /\ (Len(s) + j) - Len(s) = j
    BY <1>1
  <2> QED BY <1>1, <2>1
<1>4. \A p \in 1 .. Len(s) : (s \o t)[p] = s[p]
  BY <1>1
<1>5. \A p \in 1 .. Len(s) + Len(t) :
        p \in 1 .. Len(s) \/ (p - Len(s) \in 1 .. Len(t) /\ Len(s) + (p - Len(s)) = p)
  BY <1>1
<1> QED BY <1>1, <1>2, <1>3, <1>4, <1>5

LEMMA ConcatClosed ==
  ASSUME NEW s \in Seq(Args), NEW t \in Seq(Args), Closed(s), Closed(t)
  PROVE  Closed(s \o t)
<1>1. CASE t = <<>>
  BY <1>1 DEF Closed
<1>2. CASE t # <<>>
  <2>1. Len(t) \in 1 .. Len(t) /\ t[Len(t)] \notin Valued
    BY <1>2 DEF Closed
  <2>2. (s \o t)[Len(s \o t)] = t[Len(t)]
    BY <2>1, ConcatIs
  <2> QED BY <2>1, <2>2 DEF Closed
<1> QED BY <1>1, <1>2

LEMMA ConcatIsValue ==
  ASSUME NEW s \in Seq(Args), NEW t \in Seq(Args), Closed(s)
  PROVE  /\ \A p \in 1 .. Len(s) : IsValue(s \o t, p) <=> IsValue(s, p)
         /\ \A j \in 1 .. Len(t) : IsValue(s \o t, Len(s) + j) <=> IsValue(t, j)
<1> DEFINE u == s \o t
<1>1. /\ Len(s) \in Nat /\ Len(t) \in Nat
      /\ \A p \in 1 .. Len(s) : u[p] = s[p]
      /\ \A j \in 1 .. Len(t) : u[Len(s) + j] = t[j]
  BY ConcatIs
<1> HIDE DEF u
<1>2. ASSUME NEW p \in 1 .. Len(s)  PROVE IsValue(u, p) <=> IsValue(s, p)
  <2>1. p > 1 => u[p - 1] = s[p - 1]
    BY <1>1
  <2> QED BY <2>1 DEF IsValue
<1>3. ASSUME NEW j \in 1 .. Len(t)  PROVE IsValue(u, Len(s) + j) <=> IsValue(t, j)
  <2>1. CASE j > 1
    <3>1. j - 1 \in 1 .. Len(t) /\ Len(s) + j > 1 /\ (Len(s) + j) - 1 = Len(s) + (j - 1)
      BY <1>1, <2>1
    <3>2. u[(Len(s) + j) - 1] = t[j - 1]
      BY <1>1, <3>1
    <3> QED BY <2>1, <3>1, <3>2 DEF IsValue
  <2>2. CASE j = 1
    <3>1. ~IsValue(t, j)
      BY <2>2 DEF IsValue
    <3>2. CASE s = <<>>
      BY <2>2, <3>1, <3>2 DEF IsValue
    <3>3. CASE s # <<>>
      <4>1. Len(s) \in 1 .. Len(s) /\ (Len(s) + j) - 1 = Len(s)
        BY <1>1, <2>2, <3>3
      <4>2. u[(Len(s) + j) - 1] \notin Valued
        BY <1>1, <3>3, <4>1 DEF Closed
      <4> QED BY <3>1, <4>2 DEF IsValue
    <3> QED BY <3>2, <3>3
  <2> QED BY <1>1, <2>1, <2>2
<1> QED BY <1>2, <1>3 DEF u

LEMMA ConcatGiven ==
  ASSUME NEW s \in Seq(Args), NEW t \in Seq(Args), Closed(s), NEW ws
  PROVE  Given(s \o t, ws) = Given(s, ws) \cup {Len(s) + j : j \in Given(t, ws)}
<1> DEFINE u == s \o t
<1>1. /\ Len(s) \in Nat /\ Len(t) \in Nat /\ DOMAIN u = 1 .. Len(s) + Len(t)
      /\ \A p \in 1 .. Len(s) : u[p] = s[p]
      /\ \A j \in 1 .. Len(t) : u[Len(s) + j] = t[j]
      /\ \A p \in 1 .. Len(s) + Len(t) :
           p \in 1 .. Len(s) \/ (p - Len(s) \in 1 .. Len(t) /\ Len(s) + (p - Len(s)) = p)
  BY ConcatIs
<1>2. /\ \A p \in 1 .. Len(s) : IsValue(u, p) <=> IsValue(s, p)
      /\ \A j \in 1 .. Len(t) : IsValue(u, Len(s) + j) <=> IsValue(t, j)
  BY ConcatIsValue
<1>3. DOMAIN s = 1 .. Len(s) /\ DOMAIN t = 1 .. Len(t)
  OBVIOUS
<1> HIDE DEF u
<1>4. ASSUME NEW p \in Given(u, ws)
      PROVE  p \in Given(s, ws) \/ \E j \in Given(t, ws) : p = Len(s) + j
  <2>1. p \in 1 .. Len(s) + Len(t) /\ u[p] \in ws /\ ~IsValue(u, p)
    BY <1>1 DEF Given
  <2>2. CASE p \in 1 .. Len(s)
    BY <1>1, <1>2, <1>3, <2>1, <2>2 DEF Given
  <2>3. CASE p - Len(s) \in 1 .. Len(t) /\ Len(s) + (p - Len(s)) = p
    <3> DEFINE j == p - Len(s)
    <3>1. j \in 1 .. Len(t) /\ Len(s) + j = p
      BY <2>3
    <3> HIDE DEF j
    <3>2. j \in Given(t, ws)
      BY <1>1, <1>2, <1>3, <2>1, <3>1 DEF Given
    <3> QED BY <3>1, <3>2
  <2> QED BY <1>1, <2>1, <2>2, <2>3
<1>5. \A p \in Given(s, ws) : p \in Given(u, ws)
  BY <1>1, <1>2, <1>3 DEF Given
<1>6. \A j \in Given(t, ws) : Len(s) + j \in Given(u, ws)
  BY <1>1, <1>2, <1>3 DEF Given
<1> QED BY <1>4, <1>5, <1>6 DEF u

(***************************************************************************)
(* The value in force at a place.                                          *)
(***************************************************************************)
(* The last of these options before place z is at g. *)
Sets(s, ws, z, g) == g \in Given(s, ws) /\ g < z /\ \A h \in Given(s, ws) : h < z => h <= g

(* None of them stands before z. *)
Unset(s, ws, z) == \A h \in Given(s, ws) : ~(h < z)

LEMMA GivenAre ==
  ASSUME NEW s \in Seq(Args), NEW ws, NEW g \in Given(s, ws)
  PROVE  g \in 1 .. Len(s) /\ s[g] \in ws /\ ~IsValue(s, g)
BY DEF Given

LEMMA ValueIs ==
  ASSUME NEW s \in Seq(Args), NEW ws, NEW z \in Int, NEW d
  PROVE  /\ Unset(s, ws, z) => ValueBefore(s, ws, z, d) = d
         /\ \A g : Sets(s, ws, z, g) => ValueBefore(s, ws, z, d) = s[g + 1]
         /\ Unset(s, ws, z) \/ \E g : Sets(s, ws, z, g)
<1> DEFINE before == {i \in Given(s, ws) : i < z}
<1>1. ValueBefore(s, ws, z, d) = IF before = {} THEN d ELSE s[Max(before) + 1]
  BY DEF ValueBefore
<1>2. Unset(s, ws, z) <=> before = {}
  BY DEF Unset
<1>3. \A i \in before : i \in Int
  BY GivenAre
<1>4. ASSUME NEW g, Sets(s, ws, z, g)  PROVE ValueBefore(s, ws, z, d) = s[g + 1]
  <2>1. g \in before /\ \A h \in before : g >= h
    BY <1>3, <1>4 DEF Sets
  <2>2. Max(before) = g
    <3>1. \A x \in before : (\A y \in before : x >= y) => x = g
      BY <1>3, <2>1
    <3> QED BY <2>1, <3>1 DEF Max
  <2> QED BY <1>1, <2>1, <2>2
<1>5. ASSUME before # {}  PROVE \E g : Sets(s, ws, z, g)
  <2>1. Positions(before, Len(s))
    <3>1. \A i \in before : i \in 1 .. Len(s)
      BY GivenAre
    <3> QED BY <3>1 DEF Positions
  <2> DEFINE c == Cardinality(before)
             g == InOrder(before)[c]
  <2> HIDE DEF before
  <2>2. /\ c \in Nat
        /\ \A k \in 1 .. c : InOrder(before)[k] \in before
        /\ \A i \in before : Rank(before, i) \in 1 .. c /\ InOrder(before)[Rank(before, i)] = i
        /\ \A k, l \in 1 .. c : k < l => InOrder(before)[k] < InOrder(before)[l]
    <3>1. c \in Nat
      BY <2>1, PositionsFinite
    <3> QED BY <2>1, <3>1, OrderFacts
  <2>3. c \in 1 .. c
    BY <1>5, <2>2
  <2>4. g \in before
    BY <2>2, <2>3
  <2>5. ASSUME NEW h \in before  PROVE h <= g
    <3>1. PICK k \in 1 .. c : InOrder(before)[k] = h
      BY <2>2
    <3>2. k = c \/ k < c
      BY <2>2
    <3>3. h \in Int /\ g \in Int
      BY <1>3, <2>4
    <3> QED BY <2>2, <2>3, <3>1, <3>2, <3>3
  <2> QED BY <2>4, <2>5 DEF Sets, before
<1> QED BY <1>1, <1>2, <1>4, <1>5

(* The value in force in s \o t: that of s, and behind it that of t, if there is one. *)
ValueOfBoth(s, t, ws, d) ==
  /\ \A p \in 1 .. Len(s) + 1 : ValueBefore(s \o t, ws, p, d) = ValueBefore(s, ws, p, d)
  /\ \A j \in 1 .. Len(t) + 1 :
       ValueBefore(s \o t, ws, Len(s) + j, d)
         = ValueBefore(t, ws, j, ValueBefore(s, ws, Len(s) + 1, d))

LEMMA ConcatValue ==
  ASSUME NEW s \in Seq(Args), NEW t \in Seq(Args), Closed(s), Closed(t),
         NEW ws, ws \subseteq Valued, NEW d
  PROVE  ValueOfBoth(s, t, ws, d)
<1> DEFINE u == s \o t
<1>1. /\ u \in Seq(Args) /\ Len(s) \in Nat /\ Len(t) \in Nat
      /\ \A p \in 1 .. Len(s) : u[p] = s[p]
      /\ \A j \in 1 .. Len(t) : u[Len(s) + j] = t[j]
  BY ConcatIs
<1>2. Given(u, ws) = Given(s, ws) \cup {Len(s) + j : j \in Given(t, ws)}
  BY ConcatGiven
<1>3. \A g \in Given(s, ws) : g \in Int /\ 1 <= g /\ g < Len(s)
  <2>1. SUFFICES ASSUME NEW g \in Given(s, ws)  PROVE g \in Int /\ 1 <= g /\ g < Len(s)
    OBVIOUS
  <2>2. g \in 1 .. Len(s) /\ s[g] \in Valued
    BY GivenAre
  <2>3. g # Len(s)
    BY <2>2 DEF Closed
  <2> QED BY <1>1, <2>2, <2>3
<1>4. \A g \in Given(t, ws) : g \in Int /\ 1 <= g /\ g < Len(t)
  <2>1. SUFFICES ASSUME NEW g \in Given(t, ws)  PROVE g \in Int /\ 1 <= g /\ g < Len(t)
    OBVIOUS
  <2>2. g \in 1 .. Len(t) /\ t[g] \in Valued
    BY GivenAre
  <2>3. g # Len(t)
    BY <2>2 DEF Closed
  <2> QED BY <1>1, <2>2, <2>3
<1> HIDE DEF u
<1>5. ASSUME NEW p \in 1 .. Len(s) + 1
      PROVE  ValueBefore(u, ws, p, d) = ValueBefore(s, ws, p, d)
  <2>1. p \in Int
    OBVIOUS
  <2>2. CASE Unset(s, ws, p)
    <3>1. Unset(u, ws, p)
      BY <1>1, <1>2, <1>4, <2>2 DEF Unset
    <3> QED BY <1>1, <2>1, <2>2, <3>1, ValueIs
  <2>3. CASE \E g : Sets(s, ws, p, g)
    <3>1. PICK g : Sets(s, ws, p, g)
      BY <2>3
    <3>2. g \in Given(s, ws) /\ g + 1 \in 1 .. Len(s)
      BY <1>1, <1>3, <3>1 DEF Sets
    <3>3. Sets(u, ws, p, g)
      BY <1>1, <1>2, <1>4, <3>1 DEF Sets
    <3>4. u[g + 1] = s[g + 1]
      BY <1>1, <3>2
    <3> QED BY <1>1, <2>1, <3>1, <3>3, <3>4, ValueIs
  <2> QED BY <2>1, <2>2, <2>3, ValueIs
<1>6. ASSUME NEW j \in 1 .. Len(t) + 1
      PROVE  ValueBefore(u, ws, Len(s) + j, d)
               = ValueBefore(t, ws, j, ValueBefore(s, ws, Len(s) + 1, d))
  <2> DEFINE e == ValueBefore(s, ws, Len(s) + 1, d)
  <2>1. j \in Int /\ Len(s) + j \in Int /\ Len(s) + 1 \in Int
    BY <1>1
  <2>2. CASE Unset(t, ws, j) /\ Unset(s, ws, Len(s) + 1)
    <3>1. ValueBefore(t, ws, j, e) = e /\ e = d
      BY <2>1, <2>2, ValueIs
    <3>2. Unset(u, ws, Len(s) + j)
      BY <1>1, <1>2, <1>3, <1>4, <2>2 DEF Unset
    <3> QED BY <1>1, <2>1, <3>1, <3>2, ValueIs
  <2>3. CASE Unset(t, ws, j) /\ \E g : Sets(s, ws, Len(s) + 1, g)
    <3>1. PICK g : Sets(s, ws, Len(s) + 1, g)
      BY <2>3
    <3>2. ValueBefore(t, ws, j, e) = e /\ e = s[g + 1]
      BY <2>1, <2>3, <3>1, ValueIs
    <3>3. g \in Given(s, ws) /\ g + 1 \in 1 .. Len(s)
      BY <1>1, <1>3, <3>1 DEF Sets
    <3>4. Sets(u, ws, Len(s) + j, g)
      <4>1. g \in Given(u, ws) /\ g < Len(s) + j
        BY <1>1, <1>2, <1>3, <3>3
      <4>2. ASSUME NEW h \in Given(u, ws), h < Len(s) + j  PROVE h <= g
        <5>1. CASE h \in Given(s, ws)
          BY <1>1, <1>3, <3>1, <5>1 DEF Sets
        <5>2. ASSUME NEW k \in Given(t, ws), h = Len(s) + k  PROVE FALSE
          BY <1>1, <1>4, <2>3, <4>2, <5>2 DEF Unset
        <5> QED BY <1>2, <5>1, <5>2
      <4> QED BY <4>1, <4>2 DEF Sets
    <3>5. u[g + 1] = s[g + 1]
      BY <1>1, <3>3
    <3> QED BY <1>1, <2>1, <3>2, <3>4, <3>5, ValueIs
  <2>4. CASE \E g : Sets(t, ws, j, g)
    <3>1. PICK g : Sets(t, ws, j, g)
      BY <2>4
    <3>2. ValueBefore(t, ws, j, e) = t[g + 1]
      BY <2>1, <3>1, ValueIs
    <3>3. g \in Given(t, ws) /\ g \in Int /\ g + 1 \in 1 .. Len(t) /\ g < j
      BY <1>1, <1>4, <3>1 DEF Sets
    <3>4. Sets(u, ws, Len(s) + j, Len(s) + g)
      <4>1. Len(s) + g \in Given(u, ws) /\ Len(s) + g < Len(s) + j
        BY <1>1, <1>2, <3>3
      <4>2. ASSUME NEW h \in Given(u, ws), h < Len(s) + j  PROVE h <= Len(s) + g
        <5>1. CASE h \in Given(s, ws)
          BY <1>1, <1>3, <1>4, <3>3, <5>1
        <5>2. ASSUME NEW k \in Given(t, ws), h = Len(s) + k  PROVE h <= Len(s) + g
          <6>1. k < j => k <= g
            BY <3>1 DEF Sets
          <6> QED BY <1>1, <1>4, <3>3, <4>2, <5>2, <6>1
        <5> QED BY <1>2, <5>1, <5>2
      <4> QED BY <4>1, <4>2 DEF Sets
    <3>5. u[(Len(s) + g) + 1] = t[g + 1]
      <4>1. (Len(s) + g) + 1 = Len(s) + (g + 1)
        BY <1>1, <3>3
      <4> QED BY <1>1, <3>3, <4>1
    <3> QED BY <1>1, <2>1, <3>2, <3>4, <3>5, ValueIs
  <2> QED BY <2>1, <2>2, <2>3, <2>4, ValueIs
<1> QED BY <1>5, <1>6 DEF u, ValueOfBoth
-----------------------------------------------------------------------------
(***************************************************************************)
(* A command line from which words are dropped that neither are values nor *)
(* have one: what is left means what it meant.                             *)
(***************************************************************************)
Drops(w, R) ==
  /\ w \in Seq(Args) /\ R \subseteq 1 .. Len(w) /\ Closed(w)
  /\ \A i \in 1 .. Len(w) : i \notin R => w[i] \notin Valued /\ ~IsValue(w, i)

LEMMA DropsPlaces ==
  ASSUME NEW w, NEW R, Drops(w, R)
  PROVE  /\ w \in Seq(Args) /\ Len(w) \in Nat /\ Positions(R, Len(w)) /\ DOMAIN w = 1 .. Len(w)
         /\ \A i \in R : i \in Int /\ i \in 1 .. Len(w)
         /\ At(w, R) \in Seq(Args) /\ Len(At(w, R)) = Cardinality(R) /\ Cardinality(R) \in Nat
         /\ \A i \in R : Rank(R, i) \in 1 .. Cardinality(R) /\ At(w, R)[Rank(R, i)] = w[i]
         /\ \A p \in 1 .. Cardinality(R) :
              InOrder(R)[p] \in R /\ Rank(R, InOrder(R)[p]) = p /\ At(w, R)[p] = w[InOrder(R)[p]]
<1>1. w \in Seq(Args) /\ Len(w) \in Nat /\ DOMAIN w = 1 .. Len(w) /\ Positions(R, Len(w))
  BY DEF Drops, Positions
<1>2. \A i \in R : i \in Int /\ i \in 1 .. Len(w)
  BY <1>1, PositionsAre
<1>3. \A p \in 1 .. Cardinality(R) : Rank(R, InOrder(R)[p]) = p
  BY <1>1, OrderFacts
<1> QED BY <1>1, <1>2, <1>3, AtFacts

LEMMA RankStep ==
  ASSUME NEW m, NEW S, Positions(S, m), NEW x \in Int
  PROVE  /\ x \in S => Rank(S, x) = Rank(S, x - 1) + 1
         /\ x \notin S => Rank(S, x) = Rank(S, x - 1)
         /\ Rank(S, x) \in Nat /\ Rank(S, x - 1) \in Nat /\ Rank(S, x) <= Cardinality(S)
<1>1. x - 1 \in Int
  OBVIOUS
<1> QED BY <1>1, RankFacts

LEMMA RankUpTo ==
  ASSUME NEW m, NEW S, Positions(S, m), NEW x \in Int, NEW y \in Int, x <= y
  PROVE  Rank(S, x) <= Rank(S, y) /\ Rank(S, x) \in Nat /\ Rank(S, y) \in Nat
<1>1. Rank(S, x) \in Nat /\ Rank(S, y) \in Nat
  BY RankFacts
<1>2. CASE x < y
  BY <1>1, <1>2, RankMonotone
<1>3. CASE x = y
  BY <1>1, <1>3
<1> QED BY <1>1, <1>2, <1>3

LEMMA DropsValues ==
  ASSUME NEW w, NEW R, Drops(w, R)
  PROVE  /\ \A i \in R : IsValue(At(w, R), Rank(R, i)) <=> IsValue(w, i)
         /\ Closed(At(w, R))
<1> DEFINE K == At(w, R)
           c == Cardinality(R)
           o == InOrder(R)
<1>1. /\ w \in Seq(Args) /\ Len(w) \in Nat /\ Positions(R, Len(w)) /\ DOMAIN w = 1 .. Len(w)
      /\ \A i \in R : i \in Int /\ i \in 1 .. Len(w)
      /\ K \in Seq(Args) /\ Len(K) = c /\ c \in Nat
      /\ \A i \in R : Rank(R, i) \in 1 .. c /\ K[Rank(R, i)] = w[i]
      /\ \A p \in 1 .. c : o[p] \in R /\ Rank(R, o[p]) = p /\ K[p] = w[o[p]]
  BY DropsPlaces
<1>2. \A i \in 1 .. Len(w) : i \notin R => w[i] \notin Valued /\ ~IsValue(w, i)
  BY DEF Drops
<1> HIDE DEF K, c, o
<1>3. ASSUME NEW i \in R, IsValue(w, i)  PROVE IsValue(K, Rank(R, i))
  <2>1. i > 1 /\ w[i - 1] \in Valued /\ i - 1 \in 1 .. Len(w)
    BY <1>1, <1>3 DEF IsValue
  <2>2. i - 1 \in R
    BY <1>2, <2>1
  <2>3. Rank(R, i) = Rank(R, i - 1) + 1
    BY <1>1, RankStep
  <2>4. Rank(R, i - 1) \in 1 .. c /\ K[Rank(R, i - 1)] = w[i - 1]
    BY <1>1, <2>2
  <2>5. Rank(R, i) > 1 /\ Rank(R, i) - 1 = Rank(R, i - 1)
    BY <1>1, <2>3, <2>4
  <2> QED BY <2>1, <2>4, <2>5 DEF IsValue
<1>4. ASSUME NEW i \in R, IsValue(K, Rank(R, i))  PROVE IsValue(w, i)
  <2> DEFINE r == Rank(R, i)
             j == o[r - 1]
  <2>1. r \in 1 .. c /\ r > 1 /\ K[r - 1] \in Valued
    BY <1>1, <1>4 DEF IsValue
  <2>2. r - 1 \in 1 .. c
    BY <1>1, <2>1
  <2>3. j \in R /\ Rank(R, j) = r - 1 /\ w[j] \in Valued
    BY <1>1, <2>1, <2>2
  <2>4. j \in Int /\ i \in Int /\ 1 <= j /\ i <= Len(w)
    BY <1>1, <2>3
  <2> HIDE DEF j, r
  <2>5. j < i
    <3>1. i <= j => Rank(R, i) <= Rank(R, j)
      BY <1>1, <2>4, RankMonotone
    <3> QED BY <2>1, <2>3, <2>4, <3>1 DEF r
  <2>6. CASE j = i - 1
    BY <2>3, <2>4, <2>6 DEF IsValue
  <2>7. CASE j < i - 1
    <3>1. j + 1 \in 1 .. Len(w) /\ IsValue(w, j + 1)
      BY <1>1, <2>3, <2>4, <2>5 DEF IsValue
    <3>2. j + 1 \in R
      BY <1>2, <3>1
    <3>3. Rank(R, j + 1) = Rank(R, j) + 1
      <4>1. (j + 1) - 1 = j /\ j + 1 \in Int
        BY <2>4
      <4> QED BY <1>1, <3>2, <4>1, RankStep
    <3>4. Rank(R, i) = Rank(R, i - 1) + 1 /\ i - 1 \in Int
      BY <1>1, <2>4, RankStep
    <3>5. Rank(R, j + 1) <= Rank(R, i - 1) /\ Rank(R, i - 1) \in Nat
      <4>1. j + 1 \in Int /\ i - 1 \in Int /\ j + 1 <= i - 1
        BY <2>4, <2>7
      <4> QED BY <1>1, <4>1, RankUpTo
    <3>6. Rank(R, i - 1) \in Int /\ Rank(R, j) \in Int
      BY <1>1, <2>1, <2>3, <3>5
    <3> QED BY <2>3, <3>3, <3>4, <3>5, <3>6 DEF r
  <2> QED BY <2>4, <2>5, <2>6, <2>7
<1>5. ASSUME K # <<>>  PROVE K[c] \notin Valued
  <2>1. c \in 1 .. c
    BY <1>1, <1>5
  <2> DEFINE j == o[c]
  <2>2. j \in R /\ Rank(R, j) = c /\ K[c] = w[j] /\ j \in 1 .. Len(w)
    BY <1>1, <2>1
  <2> HIDE DEF j
  <2>3. CASE j = Len(w)
    <3>1. w # <<>>
      BY <1>1, <2>2
    <3> QED BY <2>2, <2>3, <3>1 DEF Drops, Closed
  <2>4. CASE j < Len(w)
    <3>1. SUFFICES ASSUME w[j] \in Valued  PROVE FALSE
      BY <2>2
    <3>2. j + 1 \in 1 .. Len(w) /\ IsValue(w, j + 1) /\ (j + 1) - 1 = j /\ j + 1 \in Int
      BY <1>1, <2>2, <2>4, <3>1 DEF IsValue
    <3>3. j + 1 \in R
      BY <1>2, <3>2
    <3>4. Rank(R, j + 1) = Rank(R, j) + 1
      BY <1>1, <3>2, <3>3, RankStep
    <3>5. Rank(R, j + 1) \in 1 .. c
      BY <1>1, <3>3
    <3> QED BY <1>1, <2>2, <3>4, <3>5
  <2>5. j = Len(w) \/ j < Len(w)
    <3>1. Len(w) \in Nat
      BY DEF Drops
    <3> QED BY <2>2, <3>1
  <2> QED BY <2>3, <2>4, <2>5
<1>6. Closed(K)
  BY <1>1, <1>5 DEF Closed
<1> QED BY <1>3, <1>4, <1>6 DEF K

LEMMA DropsGiven ==
  ASSUME NEW w, NEW R, Drops(w, R), NEW ws
  PROVE  /\ \A i \in R : Rank(R, i) \in Given(At(w, R), ws) <=> i \in Given(w, ws)
         /\ \A g \in Given(At(w, R), ws) : \E i \in Given(w, ws) : i \in R /\ Rank(R, i) = g
<1> DEFINE K == At(w, R)
           c == Cardinality(R)
           o == InOrder(R)
<1>1. /\ DOMAIN w = 1 .. Len(w) /\ \A i \in R : i \in Int /\ i \in 1 .. Len(w)
      /\ K \in Seq(Args) /\ Len(K) = c /\ c \in Nat
      /\ \A i \in R : Rank(R, i) \in 1 .. c /\ K[Rank(R, i)] = w[i]
      /\ \A p \in 1 .. c : o[p] \in R /\ Rank(R, o[p]) = p /\ K[p] = w[o[p]]
  BY DropsPlaces
<1>2. \A i \in R : IsValue(K, Rank(R, i)) <=> IsValue(w, i)
  BY DropsValues
<1>3. DOMAIN K = 1 .. c
  BY <1>1
<1> HIDE DEF K, c, o
<1>4. \A i \in R : Rank(R, i) \in Given(K, ws) <=> i \in Given(w, ws)
  BY <1>1, <1>2, <1>3 DEF Given
<1>5. ASSUME NEW g \in Given(K, ws)  PROVE \E i \in Given(w, ws) : i \in R /\ Rank(R, i) = g
  <2>1. g \in 1 .. c
    BY <1>3, <1>5 DEF Given
  <2>2. o[g] \in R /\ Rank(R, o[g]) = g
    BY <1>1, <2>1
  <2> QED BY <1>4, <1>5, <2>2
<1> QED BY <1>4, <1>5 DEF K

(* The options that have a value are all there, each before its value. *)
LEMMA DropsValue ==
  ASSUME NEW w, NEW R, Drops(w, R), NEW ws, ws \subseteq Valued, NEW d, NEW z \in 1 .. Len(w) + 1
  PROVE  ValueBefore(At(w, R), ws, Rank(R, z - 1) + 1, d) = ValueBefore(w, ws, z, d)
<1> DEFINE K == At(w, R)
           c == Cardinality(R)
           m == Rank(R, z - 1) + 1
<1>1. /\ w \in Seq(Args) /\ Len(w) \in Nat /\ Positions(R, Len(w)) /\ DOMAIN w = 1 .. Len(w)
      /\ \A i \in R : i \in Int /\ i \in 1 .. Len(w)
      /\ K \in Seq(Args) /\ Len(K) = c /\ c \in Nat
      /\ \A i \in R : Rank(R, i) \in 1 .. c /\ K[Rank(R, i)] = w[i]
  BY DropsPlaces
<1>2. \A i \in 1 .. Len(w) : i \notin R => w[i] \notin Valued /\ ~IsValue(w, i)
  BY DEF Drops
<1>3. /\ \A i \in R : Rank(R, i) \in Given(K, ws) <=> i \in Given(w, ws)
      /\ \A g \in Given(K, ws) : \E i \in Given(w, ws) : i \in R /\ Rank(R, i) = g
  BY DropsGiven
<1>4. z \in Int /\ z - 1 \in Int /\ Rank(R, z - 1) \in Nat /\ m \in Int
  <2>1. z \in Int /\ z - 1 \in Int
    BY <1>1
  <2>2. Rank(R, z - 1) \in Nat
    BY <1>1, <2>1, RankFacts
  <2> QED BY <2>1, <2>2
<1>5. \A i \in R : i < z <=> Rank(R, i) < m
  <2>1. SUFFICES ASSUME NEW i \in R  PROVE i < z <=> Rank(R, i) < m
    OBVIOUS
  <2>2. i \in Int /\ i - 1 \in Int /\ Rank(R, i) \in Nat /\ Rank(R, i - 1) \in Nat
        /\ Rank(R, i) = Rank(R, i - 1) + 1
    <3>1. i \in Int /\ i - 1 \in Int
      BY <1>1
    <3> QED BY <1>1, <3>1, RankStep
  <2>3. CASE i <= z - 1
    <3>1. Rank(R, i) <= Rank(R, z - 1)
      BY <1>1, <1>4, <2>2, <2>3, RankMonotone
    <3> QED BY <1>4, <2>2, <2>3, <3>1
  <2>4. CASE z - 1 <= i - 1
    <3>1. Rank(R, z - 1) <= Rank(R, i - 1)
      BY <1>1, <1>4, <2>2, <2>4, RankMonotone
    <3> QED BY <1>4, <2>2, <2>4, <3>1
  <2> QED BY <1>4, <2>2, <2>3, <2>4
<1> HIDE DEF K, c, m
<1>6. \A g \in Given(w, ws) : g \in R /\ g \in 1 .. Len(w) /\ g + 1 \in 1 .. Len(w) /\ g + 1 \in R
                              /\ Rank(R, g + 1) = Rank(R, g) + 1
  <2>1. SUFFICES ASSUME NEW g \in Given(w, ws)
                 PROVE  g \in R /\ g \in 1 .. Len(w) /\ g + 1 \in 1 .. Len(w) /\ g + 1 \in R
                        /\ Rank(R, g + 1) = Rank(R, g) + 1
    OBVIOUS
  <2>2. g \in 1 .. Len(w) /\ w[g] \in Valued
    BY <1>1, GivenAre
  <2>3. g # Len(w)
    <3>1. w # <<>>
      BY <2>2
    <3> QED BY <2>2, <3>1 DEF Drops, Closed
  <2>4. g \in R
    BY <1>2, <2>2
  <2>5. g + 1 \in 1 .. Len(w) /\ (g + 1) - 1 = g /\ g + 1 > 1 /\ g + 1 \in Int
    <3>1. g \in Int /\ 1 <= g /\ g < Len(w) /\ Len(w) \in Int
      BY <1>1, <2>2, <2>3
    <3> QED BY <3>1
  <2>6. IsValue(w, g + 1)
    BY <2>2, <2>5 DEF IsValue
  <2>7. g + 1 \in R
    BY <1>2, <2>5, <2>6
  <2>8. Rank(R, g + 1) = Rank(R, g) + 1
    BY <1>1, <2>5, <2>7, RankStep
  <2> QED BY <2>2, <2>4, <2>5, <2>7, <2>8
<1>7. CASE Unset(w, ws, z)
  <2>1. Unset(K, ws, m)
    <3>1. SUFFICES ASSUME NEW h \in Given(K, ws), h < m  PROVE FALSE
      BY DEF Unset
    <3>2. PICK i \in Given(w, ws) : i \in R /\ Rank(R, i) = h
      BY <1>3
    <3>3. i < z
      BY <1>5, <3>1, <3>2
    <3> QED BY <1>7, <3>2, <3>3 DEF Unset
  <2>2. ValueBefore(K, ws, m, d) = d /\ ValueBefore(w, ws, z, d) = d
    BY <1>1, <1>4, <1>7, <2>1, ValueIs
  <2> QED BY <2>2 DEF K, m
<1>8. ASSUME NEW g, Sets(w, ws, z, g)
      PROVE  ValueBefore(K, ws, m, d) = ValueBefore(w, ws, z, d)
  <2>1. g \in Given(w, ws) /\ g < z /\ g \in Int
    BY <1>1, <1>8, <1>6 DEF Sets
  <2>2. g \in R /\ g + 1 \in R /\ Rank(R, g + 1) = Rank(R, g) + 1
    BY <1>6, <2>1
  <2>3. Sets(K, ws, m, Rank(R, g))
    <3>1. Rank(R, g) \in Given(K, ws) /\ Rank(R, g) < m
      BY <1>3, <1>5, <2>1, <2>2
    <3>2. ASSUME NEW h \in Given(K, ws), h < m  PROVE h <= Rank(R, g)
      <4>1. PICK i \in Given(w, ws) : i \in R /\ Rank(R, i) = h
        BY <1>3
      <4>2. i < z /\ i \in Int
        BY <1>1, <1>5, <3>2, <4>1
      <4>3. i <= g
        BY <1>8, <4>1, <4>2 DEF Sets
      <4> QED BY <1>1, <2>1, <4>1, <4>2, <4>3, RankMonotone
    <3> QED BY <3>1, <3>2 DEF Sets
  <2>4. K[Rank(R, g) + 1] = w[g + 1]
    BY <1>1, <2>2
  <2>5. ValueBefore(K, ws, m, d) = K[Rank(R, g) + 1] /\ ValueBefore(w, ws, z, d) = w[g + 1]
    BY <1>1, <1>4, <1>8, <2>3, ValueIs
  <2> QED BY <2>4, <2>5
<1>9. Unset(w, ws, z) \/ \E g : Sets(w, ws, z, g)
  BY <1>1, <1>4, ValueIs
<1> QED BY <1>7, <1>8, <1>9 DEF K, m
-----------------------------------------------------------------------------
(***************************************************************************)
(* A command of the wrapper: what is left of the words, more options, and  *)
(* files.                                                                  *)
(***************************************************************************)
LEMMA Vocabulary ==
  /\ Valued \subseteq Options /\ \A f \in DOMAIN Native : f \notin Options /\ f \notin Valued
  /\ \A f \in Generated : f \in DOMAIN Native /\ f \notin Piped
  /\ {"-x", "--language"} \subseteq Valued /\ {"-o", "--output"} \subseteq Valued
  /\ {"--"} \subseteq Options
BY DriverAssumption

LEMMA PlainInput ==
  ASSUME NEW s \in Seq(Args), Given(s, {"--"}) = {}
  PROVE  \A i : i \in InputSet(s) <=> i \in 1 .. Len(s) /\ ~IsValue(s, i) /\ s[i] \notin Options
<1>1. DOMAIN s = 1 .. Len(s)
  OBVIOUS
<1> QED BY <1>1 DEF InputSet, IsInput

LEMMA DropsInputs ==
  ASSUME NEW w, NEW R, Drops(w, R), Given(w, {"--"}) = {}
  PROVE  /\ Given(At(w, R), {"--"}) = {}
         /\ \A i \in R : Rank(R, i) \in InputSet(At(w, R)) <=> i \in InputSet(w)
         /\ \A p \in InputSet(At(w, R)) : \E i \in InputSet(w) : i \in R /\ Rank(R, i) = p
<1> DEFINE K == At(w, R)
           c == Cardinality(R)
           o == InOrder(R)
<1>1. /\ w \in Seq(Args) /\ \A i \in R : i \in Int /\ i \in 1 .. Len(w)
      /\ K \in Seq(Args) /\ Len(K) = c /\ c \in Nat
      /\ \A i \in R : Rank(R, i) \in 1 .. c /\ K[Rank(R, i)] = w[i]
      /\ \A p \in 1 .. c : o[p] \in R /\ Rank(R, o[p]) = p /\ K[p] = w[o[p]]
  BY DropsPlaces
<1>2. \A i \in R : IsValue(K, Rank(R, i)) <=> IsValue(w, i)
  BY DropsValues
<1>3. Given(K, {"--"}) = {}
  <2>1. \A g \in Given(K, {"--"}) : \E i \in Given(w, {"--"}) : i \in R /\ Rank(R, i) = g
    BY DropsGiven
  <2> QED BY <2>1
<1> HIDE DEF K, c, o
<1>4. \A i : i \in InputSet(w) <=> i \in 1 .. Len(w) /\ ~IsValue(w, i) /\ w[i] \notin Options
  BY <1>1, PlainInput
<1>5. \A i : i \in InputSet(K) <=> i \in 1 .. c /\ ~IsValue(K, i) /\ K[i] \notin Options
  BY <1>1, <1>3, PlainInput
<1>6. \A i \in R : Rank(R, i) \in InputSet(K) <=> i \in InputSet(w)
  BY <1>1, <1>2, <1>4, <1>5
<1>7. ASSUME NEW p \in InputSet(K)  PROVE \E i \in InputSet(w) : i \in R /\ Rank(R, i) = p
  <2>1. o[p] \in R /\ Rank(R, o[p]) = p
    BY <1>1, <1>5
  <2> QED BY <1>6, <2>1
<1> QED BY <1>3, <1>6, <1>7 DEF K

LEMMA ConcatInputs ==
  ASSUME NEW s \in Seq(Args), NEW t \in Seq(Args), Closed(s),
         Given(s, {"--"}) = {}, Given(t, {"--"}) = {}
  PROVE  /\ Given(s \o t, {"--"}) = {}
         /\ InputSet(s \o t) = InputSet(s) \cup {Len(s) + j : j \in InputSet(t)}
<1> DEFINE u == s \o t
<1>1. /\ u \in Seq(Args) /\ Len(s) \in Nat /\ Len(t) \in Nat /\ Len(u) = Len(s) + Len(t)
      /\ \A p \in 1 .. Len(s) : u[p] = s[p]
      /\ \A j \in 1 .. Len(t) : u[Len(s) + j] = t[j]
      /\ \A p \in 1 .. Len(s) + Len(t) :
           p \in 1 .. Len(s) \/ (p - Len(s) \in 1 .. Len(t) /\ Len(s) + (p - Len(s)) = p)
  BY ConcatIs
<1>2. /\ \A p \in 1 .. Len(s) : IsValue(u, p) <=> IsValue(s, p)
      /\ \A j \in 1 .. Len(t) : IsValue(u, Len(s) + j) <=> IsValue(t, j)
  BY ConcatIsValue
<1>3. Given(u, {"--"}) = {}
  <2>1. Given(u, {"--"}) = Given(s, {"--"}) \cup {Len(s) + j : j \in Given(t, {"--"})}
    BY ConcatGiven
  <2> QED BY <2>1
<1> HIDE DEF u
<1>4. /\ \A i : i \in InputSet(s) <=> i \in 1 .. Len(s) /\ ~IsValue(s, i) /\ s[i] \notin Options
      /\ \A i : i \in InputSet(t) <=> i \in 1 .. Len(t) /\ ~IsValue(t, i) /\ t[i] \notin Options
      /\ \A i : i \in InputSet(u) <=> i \in 1 .. Len(u) /\ ~IsValue(u, i) /\ u[i] \notin Options
  BY <1>1, <1>3, PlainInput
<1>5. ASSUME NEW p \in InputSet(u)
      PROVE  p \in InputSet(s) \/ \E j \in InputSet(t) : p = Len(s) + j
  <2>1. CASE p \in 1 .. Len(s)
    BY <1>1, <1>2, <1>4, <2>1
  <2>2. CASE p - Len(s) \in 1 .. Len(t) /\ Len(s) + (p - Len(s)) = p
    <3> DEFINE j == p - Len(s)
    <3>1. j \in 1 .. Len(t) /\ Len(s) + j = p
      BY <2>2
    <3> HIDE DEF j
    <3>2. j \in InputSet(t)
      BY <1>1, <1>2, <1>4, <3>1
    <3> QED BY <3>1, <3>2
  <2> QED BY <1>1, <1>4, <2>1, <2>2
<1>6. \A p \in InputSet(s) : p \in InputSet(u)
  <2> SUFFICES ASSUME NEW p \in InputSet(s)  PROVE p \in InputSet(u)
    OBVIOUS
  <2>1. p \in 1 .. Len(s) /\ ~IsValue(s, p) /\ s[p] \notin Options
    BY <1>4, Zenon
  <2>2. p \in 1 .. Len(u)
    BY <1>1, <2>1
  <2>3. ~IsValue(u, p) /\ u[p] \notin Options
    BY <1>1, <1>2, <2>1, Zenon
  <2> QED BY <1>4, <2>2, <2>3, Zenon
<1>7. ASSUME NEW j \in InputSet(t)  PROVE Len(s) + j \in InputSet(u)
  <2>1. j \in 1 .. Len(t) /\ Len(s) + j \in 1 .. Len(u)
    BY <1>1, <1>4
  <2> QED BY <1>1, <1>2, <1>4, <2>1
<1> QED BY <1>3, <1>5, <1>6, <1>7 DEF u

(* Files: words that are inputs wherever they stand. *)
Files(Y) == Y \in Seq(Args) /\ \A j \in 1 .. Len(Y) : Y[j] \in DOMAIN Native

LEMMA FilesAre ==
  ASSUME NEW Y, Files(Y)
  PROVE  /\ Y \in Seq(Args) /\ Len(Y) \in Nat /\ Closed(Y) /\ \A j \in 1 .. Len(Y) : ~IsValue(Y, j)
         /\ \A ws \in SUBSET Options : Given(Y, ws) = {}
         /\ InputSet(Y) = 1 .. Len(Y)
         /\ \A d : \A ws \in SUBSET Options : \A j \in 1 .. Len(Y) + 1 : ValueBefore(Y, ws, j, d) = d
<1>1. Y \in Seq(Args) /\ Len(Y) \in Nat /\ DOMAIN Y = 1 .. Len(Y)
      /\ \A j \in 1 .. Len(Y) : Y[j] \in DOMAIN Native /\ Y[j] \notin Options /\ Y[j] \notin Valued
  BY Vocabulary DEF Files
<1>2. Closed(Y)
  BY <1>1 DEF Closed
<1>3. \A j \in 1 .. Len(Y) : ~IsValue(Y, j)
  BY <1>1 DEF IsValue
<1>4. \A ws \in SUBSET Options : Given(Y, ws) = {}
  BY <1>1 DEF Given
<1>5. InputSet(Y) = 1 .. Len(Y)
  <2>1. Given(Y, {"--"}) = {}
    BY <1>4, Vocabulary
  <2>2. \A i : i \in InputSet(Y) <=> i \in 1 .. Len(Y) /\ ~IsValue(Y, i) /\ Y[i] \notin Options
    BY <1>1, <2>1, PlainInput
  <2> QED BY <1>1, <1>3, <2>2
<1>6. ASSUME NEW ws \in SUBSET Options, NEW d, NEW j \in 1 .. Len(Y) + 1
      PROVE  ValueBefore(Y, ws, j, d) = d
  <2>1. Unset(Y, ws, j) /\ j \in Int
    BY <1>1, <1>4 DEF Unset
  <2> QED BY <1>1, <2>1, ValueIs
<1> QED BY <1>1, <1>2, <1>3, <1>4, <1>5, <1>6

(* Options of the wrapper, A, with their values. *)
Extra(X, A) ==
  /\ X \in Seq(Args) /\ X # <<>> /\ Closed(X) /\ A \subseteq Options
  /\ \A j \in 1 .. Len(X) : X[j] \notin DOMAIN Response /\ (IsValue(X, j) \/ X[j] \in A)

LEMMA ExtraGiven ==
  ASSUME NEW X, NEW A, Extra(X, A), NEW ws, ws \cap A = {}
  PROVE  /\ Given(X, ws) = {}
         /\ \A d : \A z \in Int : ValueBefore(X, ws, z, d) = d
<1>1. X \in Seq(Args) /\ DOMAIN X = 1 .. Len(X)
  BY DEF Extra
<1>2. Given(X, ws) = {}
  BY <1>1 DEF Given, Extra
<1>3. ASSUME NEW z \in Int, NEW d  PROVE ValueBefore(X, ws, z, d) = d
  <2>1. Unset(X, ws, z)
    BY <1>2 DEF Unset
  <2> QED BY <1>1, <2>1, ValueIs
<1> QED BY <1>2, <1>3

LEMMA ExtraInputs ==
  ASSUME NEW X, NEW A, Extra(X, A), "--" \notin A
  PROVE  Given(X, {"--"}) = {} /\ InputSet(X) = {}
<1>1. Given(X, {"--"}) = {}
  BY ExtraGiven
<1>2. X \in Seq(Args)
  BY DEF Extra
<1>3. \A i : i \in InputSet(X) <=> i \in 1 .. Len(X) /\ ~IsValue(X, i) /\ X[i] \notin Options
  BY <1>1, <1>2, PlainInput
<1> QED BY <1>1, <1>3 DEF Extra

LEMMA ExtraConcat ==
  ASSUME NEW X, NEW A, NEW Y, NEW B, Extra(X, A), Extra(Y, B)
  PROVE  Extra(X \o Y, A \cup B)
<1> DEFINE u == X \o Y
<1>1. X \in Seq(Args) /\ Y \in Seq(Args) /\ Closed(X) /\ Closed(Y) /\ Len(Y) > 0 /\ Len(Y) \in Nat
  BY DEF Extra
<1>2. /\ u \in Seq(Args) /\ Len(X) \in Nat /\ Len(u) = Len(X) + Len(Y)
      /\ \A p \in 1 .. Len(X) : u[p] = X[p]
      /\ \A j \in 1 .. Len(Y) : u[Len(X) + j] = Y[j]
      /\ \A p \in 1 .. Len(X) + Len(Y) :
           p \in 1 .. Len(X) \/ (p - Len(X) \in 1 .. Len(Y) /\ Len(X) + (p - Len(X)) = p)
  BY <1>1, ConcatIs
<1>3. /\ \A p \in 1 .. Len(X) : IsValue(u, p) <=> IsValue(X, p)
      /\ \A j \in 1 .. Len(Y) : IsValue(u, Len(X) + j) <=> IsValue(Y, j)
  BY <1>1, ConcatIsValue
<1>4. Closed(u)
  BY <1>1, ConcatClosed
<1> HIDE DEF u
<1>5. u # <<>>
  BY <1>1, <1>2
<1>6. ASSUME NEW p \in 1 .. Len(u)
      PROVE  u[p] \notin DOMAIN Response /\ (IsValue(u, p) \/ u[p] \in A \cup B)
  <2>1. CASE p \in 1 .. Len(X)
    BY <1>2, <1>3, <2>1 DEF Extra
  <2>2. CASE p - Len(X) \in 1 .. Len(Y) /\ Len(X) + (p - Len(X)) = p
    <3> DEFINE j == p - Len(X)
    <3>1. j \in 1 .. Len(Y) /\ Len(X) + j = p
      BY <2>2
    <3> HIDE DEF j
    <3> QED BY <1>2, <1>3, <3>1 DEF Extra
  <2> QED BY <1>2, <2>1, <2>2
<1>7. A \cup B \subseteq Options
  BY DEF Extra
<1> QED BY <1>2, <1>4, <1>5, <1>6, <1>7 DEF Extra, u

Joined(w, R, X, Y) == At(w, R) \o (X \o Y)

(* The place of the last word that is no file. *)
Before(R, X) == Cardinality(R) + Len(X)

LEMMA JoinedWords ==
  ASSUME NEW w, NEW R, Drops(w, R), NEW X, NEW A, Extra(X, A), NEW Y, Files(Y)
  PROVE  LET C == Joined(w, R, X, Y)
             b == Before(R, X)
         IN /\ C \in Seq(Args) /\ b \in Nat /\ Len(Y) \in Nat /\ Len(C) = b + Len(Y) /\ Closed(C)
            /\ \A i \in R : Rank(R, i) \in 1 .. b /\ C[Rank(R, i)] = w[i]
            /\ \A j \in 1 .. Len(Y) : C[b + j] = Y[j]
<1> DEFINE K == At(w, R)
           T == X \o Y
           C == K \o T
           b == Cardinality(R) + Len(X)
<1>1. /\ K \in Seq(Args) /\ Len(K) = Cardinality(R) /\ Cardinality(R) \in Nat
      /\ \A i \in R : Rank(R, i) \in 1 .. Cardinality(R) /\ K[Rank(R, i)] = w[i]
  BY DropsPlaces
<1>2. Closed(K)
  BY DropsValues
<1>3. X \in Seq(Args) /\ Closed(X) /\ Y \in Seq(Args) /\ Closed(Y)
  BY FilesAre DEF Extra
<1>4. T \in Seq(Args) /\ Closed(T) /\ Len(T) = Len(X) + Len(Y) /\ Len(X) \in Nat /\ Len(Y) \in Nat
      /\ \A j \in 1 .. Len(Y) : T[Len(X) + j] = Y[j]
  <2>1. Closed(T)
    BY <1>3, ConcatClosed
  <2> QED BY <1>3, <2>1, ConcatIs
<1> HIDE DEF K, T
<1>5. /\ C \in Seq(Args) /\ Closed(C) /\ Len(C) = Len(K) + Len(T)
      /\ \A p \in 1 .. Len(K) : C[p] = K[p]
      /\ \A j \in 1 .. Len(T) : C[Len(K) + j] = T[j]
  <2>1. Closed(C)
    BY <1>1, <1>2, <1>4, ConcatClosed
  <2>2. /\ C \in Seq(Args) /\ Len(C) = Len(K) + Len(T)
        /\ \A p \in 1 .. Len(K) : C[p] = K[p]
        /\ \A j \in 1 .. Len(T) : C[Len(K) + j] = T[j]
    <3>1. K \in Seq(Args) /\ T \in Seq(Args)
      BY <1>1, <1>4
    <3> HIDE <1>1, <1>4
    <3> QED BY <3>1, ConcatIs
  <2> QED BY <2>1, <2>2
<1> HIDE DEF C
<1>6. \A i \in R : Rank(R, i) \in 1 .. b /\ C[Rank(R, i)] = w[i]
  BY <1>1, <1>4, <1>5
<1>7. ASSUME NEW j \in 1 .. Len(Y)  PROVE C[b + j] = Y[j]
  <2>1. Len(X) + j \in 1 .. Len(T) /\ b + j = Len(K) + (Len(X) + j)
    BY <1>1, <1>4
  <2> QED BY <1>4, <1>5, <2>1
<1>8. b \in Nat /\ Len(Y) \in Nat /\ Len(C) = b + Len(Y)
  BY <1>1, <1>4, <1>5
<1> HIDE DEF b
<1>9. C = Joined(w, R, X, Y) /\ b = Before(R, X)
  BY DEF Joined, Before, C, K, T, b
<1> QED BY <1>5, <1>6, <1>7, <1>8, <1>9

LEMMA JoinedGiven ==
  ASSUME NEW w, NEW R, Drops(w, R), NEW X, NEW A, Extra(X, A), NEW Y, Files(Y),
         NEW ws, ws \subseteq Options
  PROVE  Given(Joined(w, R, X, Y), ws) = {} <=> Given(w, ws) \cap R = {} /\ Given(X, ws) = {}
<1> DEFINE K == At(w, R)
           T == X \o Y
<1>1. K \in Seq(Args) /\ Closed(K)
  BY DropsPlaces, DropsValues
<1>2. X \in Seq(Args) /\ Closed(X) /\ Y \in Seq(Args) /\ Closed(Y) /\ Given(Y, ws) = {}
  BY FilesAre DEF Extra
<1>3. T \in Seq(Args)
  BY <1>2, ConcatIs
<1>4. Given(T, ws) = Given(X, ws) \cup {Len(X) + j : j \in Given(Y, ws)}
  BY <1>2, ConcatGiven
<1>5. Given(K, ws) = {} <=> Given(w, ws) \cap R = {}
  BY DropsGiven
<1> HIDE DEF K, T
<1>6. Given(K \o T, ws) = Given(K, ws) \cup {Len(K) + j : j \in Given(T, ws)}
  BY <1>1, <1>3, ConcatGiven
<1>7. Given(K \o T, ws) = {} <=> Given(K, ws) = {} /\ Given(T, ws) = {}
  BY <1>6
<1>8. Given(T, ws) = {} <=> Given(X, ws) = {}
  BY <1>2, <1>4
<1> QED BY <1>5, <1>7, <1>8 DEF Joined, K, T

LEMMA JoinedInputs ==
  ASSUME NEW w, NEW R, Drops(w, R), NEW X, NEW A, Extra(X, A), NEW Y, Files(Y),
         Given(w, {"--"}) = {}, "--" \notin A
  PROVE  LET C == Joined(w, R, X, Y)
         IN /\ \A i \in R : Rank(R, i) \in InputSet(C) <=> i \in InputSet(w)
            /\ \A j \in 1 .. Len(Y) : Before(R, X) + j \in InputSet(C)
            /\ \A p \in InputSet(C) : \/ \E i \in InputSet(w) \cap R : p = Rank(R, i)
                                      \/ \E j \in 1 .. Len(Y) : p = Before(R, X) + j
<1> DEFINE K == At(w, R)
           T == X \o Y
<1>1. K \in Seq(Args) /\ Closed(K) /\ Len(K) = Cardinality(R) /\ Cardinality(R) \in Nat
      /\ \A i \in R : Rank(R, i) \in 1 .. Cardinality(R)
  BY DropsPlaces, DropsValues
<1>2. X \in Seq(Args) /\ Closed(X) /\ Y \in Seq(Args) /\ Len(X) \in Nat /\ Len(Y) \in Nat
      /\ Given(Y, {"--"}) = {} /\ InputSet(Y) = 1 .. Len(Y)
  BY FilesAre, Vocabulary DEF Extra
<1>3. Given(X, {"--"}) = {} /\ InputSet(X) = {}
  BY ExtraInputs
<1>4. T \in Seq(Args)
  BY <1>2, ConcatIs
<1>5. /\ Given(T, {"--"}) = {}
      /\ InputSet(T) = InputSet(X) \cup {Len(X) + j : j \in InputSet(Y)}
  BY <1>2, <1>3, ConcatInputs
<1>6. /\ Given(K, {"--"}) = {}
      /\ \A i \in R : Rank(R, i) \in InputSet(K) <=> i \in InputSet(w)
      /\ \A p \in InputSet(K) : \E i \in InputSet(w) : i \in R /\ Rank(R, i) = p
  BY DropsInputs
<1> HIDE DEF K, T
<1>7. InputSet(K \o T) = InputSet(K) \cup {Len(K) + j : j \in InputSet(T)}
  BY <1>1, <1>4, <1>5, <1>6, ConcatInputs
<1>8. \A j \in 1 .. Len(Y) : Len(X) + j \in InputSet(T) /\ Len(K) + (Len(X) + j) = Before(R, X) + j
  BY <1>1, <1>2, <1>5 DEF Before
<1>9. \A p \in InputSet(T) : p \in Int /\ p >= 1 /\ \E j \in 1 .. Len(Y) : p = Len(X) + j
  BY <1>2, <1>3, <1>5
<1>10. ASSUME NEW i \in R  PROVE Rank(R, i) \in InputSet(K \o T) <=> i \in InputSet(w)
  <2>1. \A j \in InputSet(T) : Rank(R, i) # Len(K) + j
    BY <1>1, <1>9
  <2> QED BY <1>6, <1>7, <2>1
<1>11. \A j \in 1 .. Len(Y) : Before(R, X) + j \in InputSet(K \o T)
  BY <1>7, <1>8
<1>12. ASSUME NEW p \in InputSet(K \o T)
       PROVE  \/ \E i \in InputSet(w) \cap R : p = Rank(R, i)
              \/ \E j \in 1 .. Len(Y) : p = Before(R, X) + j
  <2>1. CASE p \in InputSet(K)
    BY <1>6, <2>1
  <2>2. ASSUME NEW q \in InputSet(T), p = Len(K) + q
        PROVE  \E j \in 1 .. Len(Y) : p = Before(R, X) + j
    <3>1. PICK j \in 1 .. Len(Y) : q = Len(X) + j
      BY <1>9
    <3> QED BY <1>8, <2>2, <3>1
  <2> QED BY <1>7, <2>1, <2>2
<1> QED BY <1>10, <1>11, <1>12 DEF Joined, K, T

(* The value of an option where it was set before, and where the files are. *)
LEMMA JoinedValue ==
  ASSUME NEW w, NEW R, Drops(w, R), NEW X, NEW A, Extra(X, A), NEW Y, Files(Y),
         NEW ws, ws \subseteq Valued, NEW d
  PROVE  LET C == Joined(w, R, X, Y)
         IN /\ \A i \in R : ValueBefore(C, ws, Rank(R, i), d) = ValueBefore(w, ws, i, d)
            /\ \A j \in 1 .. Len(Y) + 1 :
                 ValueBefore(C, ws, Before(R, X) + j, d)
                   = ValueBefore(X, ws, Len(X) + 1, ValueBefore(w, ws, Len(w) + 1, d))
<1> DEFINE K == At(w, R)
           T == X \o Y
           e == ValueBefore(w, ws, Len(w) + 1, d)
<1>1. /\ K \in Seq(Args) /\ Closed(K) /\ Len(K) = Cardinality(R) /\ Cardinality(R) \in Nat
      /\ \A i \in R : Rank(R, i) \in 1 .. Cardinality(R) /\ i \in Int /\ i \in 1 .. Len(w)
      /\ Len(w) \in Nat /\ Positions(R, Len(w))
  BY DropsPlaces, DropsValues
<1>2. /\ X \in Seq(Args) /\ Closed(X) /\ Y \in Seq(Args) /\ Closed(Y)
      /\ Len(X) \in Nat /\ Len(Y) \in Nat
  BY FilesAre DEF Extra
<1>20. \A f : \A j \in 1 .. Len(Y) + 1 : ValueBefore(Y, ws, j, f) = f
  <2>1. ws \in SUBSET Options
    BY Vocabulary
  <2> QED BY <2>1, FilesAre
<1>3. T \in Seq(Args) /\ Closed(T) /\ Len(T) = Len(X) + Len(Y)
  BY <1>2, ConcatIs, ConcatClosed
<1>4. \A f : \A j \in 1 .. Len(Y) + 1 :
        ValueBefore(T, ws, Len(X) + j, f) = ValueBefore(X, ws, Len(X) + 1, f)
  <2>1. ASSUME NEW f, NEW j \in 1 .. Len(Y) + 1
        PROVE  ValueBefore(T, ws, Len(X) + j, f) = ValueBefore(X, ws, Len(X) + 1, f)
    <3>1. ValueBefore(T, ws, Len(X) + j, f)
            = ValueBefore(Y, ws, j, ValueBefore(X, ws, Len(X) + 1, f))
      <4>1. ValueOfBoth(X, Y, ws, f)
        BY <1>2, ConcatValue, Zenon
      <4> QED BY <4>1 DEF ValueOfBoth
    <3> QED BY <1>20, <3>1
  <2> QED BY <2>1
<1>5. \A z \in 1 .. Len(w) + 1 :
        ValueBefore(K, ws, Rank(R, z - 1) + 1, d) = ValueBefore(w, ws, z, d)
  BY DropsValue
<1> HIDE DEF K, T, e
<1>6. /\ \A p \in 1 .. Len(K) + 1 : ValueBefore(K \o T, ws, p, d) = ValueBefore(K, ws, p, d)
      /\ \A j \in 1 .. Len(T) + 1 :
           ValueBefore(K \o T, ws, Len(K) + j, d)
             = ValueBefore(T, ws, j, ValueBefore(K, ws, Len(K) + 1, d))
  <2>1. ValueOfBoth(K, T, ws, d)
    BY <1>1, <1>3, ConcatValue, Zenon
  <2> QED BY <2>1 DEF ValueOfBoth
<1>7. ValueBefore(K, ws, Len(K) + 1, d) = e
  <2>1. Len(w) + 1 \in 1 .. Len(w) + 1 /\ (Len(w) + 1) - 1 = Len(w)
    BY <1>1
  <2>2. Rank(R, Len(w)) = Cardinality(R)
    <3>1. Len(w) \in Int /\ Len(w) >= Len(w)
      BY <1>1
    <3> QED BY <1>1, <3>1, RankFacts
  <2> QED BY <1>1, <1>5, <2>1, <2>2 DEF e
<1>8. ASSUME NEW i \in R
      PROVE  ValueBefore(K \o T, ws, Rank(R, i), d) = ValueBefore(w, ws, i, d)
  <2>1. Rank(R, i) = Rank(R, i - 1) + 1
    BY <1>1, RankStep
  <2>2. i \in 1 .. Len(w) + 1 /\ Rank(R, i) \in 1 .. Len(K) + 1
    BY <1>1
  <2> QED BY <1>5, <1>6, <2>1, <2>2
<1>9. ASSUME NEW j \in 1 .. Len(Y) + 1
      PROVE  ValueBefore(K \o T, ws, Before(R, X) + j, d) = ValueBefore(X, ws, Len(X) + 1, e)
  <2>1. Len(X) + j \in 1 .. Len(T) + 1 /\ Before(R, X) + j = Len(K) + (Len(X) + j)
    BY <1>1, <1>2, <1>3 DEF Before
  <2> QED BY <1>4, <1>6, <1>7, <2>1
<1> QED BY <1>8, <1>9 DEF Joined, K, T, e
-----------------------------------------------------------------------------
(***************************************************************************)
(* A command of the wrapper and the user's command line w.  Ins are the    *)
(* inputs it instruments, R the places of the words that are left.         *)
(***************************************************************************)
InForce(w) == Forced(w, Len(w) + 1)

Settled(w, cxx, Ins, R) ==
  /\ Drops(w, R) /\ Given(w, {"--"}) = {}
  /\ Ins \subseteq InputSet(w) /\ \A i \in InputSet(w) : i \in R <=> i \notin Ins
  /\ \A i \in 1 .. Len(w) : i \notin R => i \in Ins \/ w[i] \in StdC
  /\ cxx => \A i \in R : w[i] \notin StdC
  /\ \A i \in InputSet(w) : /\ w[i] \in DOMAIN Native \ Generated
                            /\ Accepts(w[i], Language(w, cxx, i))
  /\ \A i \in Ins : /\ Forced(w, i) = InForce(w)
                    /\ Language(w, cxx, i) \in {"c", "c++", "ir"}

(* The options that the wrapper adds, which stop at no phase and force no language. *)
Neutral(A) ==
  A \cap ({"--", "-E", "-S", "--assemble", "-c", "--compile", "-o", "--output", "-x", "--language"}
            \cup StdC \cup StdCxx) = {}

LEMMA InputsAre ==
  ASSUME NEW w \in Seq(Args)
  PROVE  Positions(InputSet(w), Len(w)) /\ \A i \in InputSet(w) : i \in Int /\ i \in 1 .. Len(w)
<1>1. Positions(InputSet(w), Len(w))
  BY InputFacts
<1> QED BY <1>1, PositionsAre DEF InputSet

LanguagesJoined(w, R, X, Y, cxx) ==
  LET C == Joined(w, R, X, Y)
      b == Before(R, X)
  IN /\ \A i \in R : Language(C, cxx, Rank(R, i)) = Language(w, cxx, i)
     /\ \A j \in 1 .. Len(Y) :
          Forced(C, b + j) = ValueBefore(X, {"-x", "--language"}, Len(X) + 1, InForce(w))

LEMMA JoinedLanguage ==
  ASSUME NEW w, NEW R, Drops(w, R), NEW X, NEW A, Extra(X, A), NEW Y, Files(Y), NEW cxx
  PROVE  LanguagesJoined(w, R, X, Y, cxx)
<1> DEFINE C == Joined(w, R, X, Y)
           b == Before(R, X)
           ws == {"-x", "--language"}
<1>1. ws \subseteq Valued
  BY Vocabulary
<1>2. /\ \A i \in R : ValueBefore(C, ws, Rank(R, i), "none") = ValueBefore(w, ws, i, "none")
      /\ \A j \in 1 .. Len(Y) + 1 :
           ValueBefore(C, ws, b + j, "none")
             = ValueBefore(X, ws, Len(X) + 1, ValueBefore(w, ws, Len(w) + 1, "none"))
  <2> HIDE DEF ws
  <2> QED BY <1>1, JoinedValue
<1>3. /\ \A i \in R : C[Rank(R, i)] = w[i]
      /\ Len(Y) \in Nat
  BY JoinedWords
<1> HIDE DEF C, b
<1>4. \A i \in R : Language(C, cxx, Rank(R, i)) = Language(w, cxx, i)
  <2>1. \A i \in R : Forced(C, Rank(R, i)) = Forced(w, i)
    BY <1>2 DEF Forced
  <2> QED BY <1>3, <2>1, Zenon DEF Language
<1>5. \A j \in 1 .. Len(Y) : Forced(C, b + j) = ValueBefore(X, ws, Len(X) + 1, InForce(w))
  <2>1. \A j \in 1 .. Len(Y) : j \in 1 .. Len(Y) + 1
    BY <1>3
  <2> QED BY <1>2, <2>1 DEF Forced, InForce
<1> QED BY <1>4, <1>5 DEF C, b, LanguagesJoined

LEMMA OutputAtEnd ==
  ASSUME NEW s \in Seq(Args), Closed(s), NEW ws, ws \subseteq Valued, NEW d
  PROVE  ValueBefore(s, ws, Len(s), d) = ValueBefore(s, ws, Len(s) + 1, d)
<1>1. Len(s) \in Int /\ Len(s) + 1 \in Int
  OBVIOUS
<1>2. \A g \in Given(s, ws) : g \in Int /\ g < Len(s)
  <2>1. SUFFICES ASSUME NEW g \in Given(s, ws)  PROVE g \in Int /\ g < Len(s)
    OBVIOUS
  <2>2. g \in 1 .. Len(s) /\ s[g] \in Valued
    BY GivenAre
  <2>3. g # Len(s)
    BY <2>2 DEF Closed
  <2> QED BY <1>1, <2>2, <2>3
<1>3. Unset(s, ws, Len(s)) <=> Unset(s, ws, Len(s) + 1)
  BY <1>1, <1>2 DEF Unset
<1>4. \A g : Sets(s, ws, Len(s), g) => Sets(s, ws, Len(s) + 1, g)
  BY <1>1, <1>2 DEF Sets
<1>5. CASE Unset(s, ws, Len(s))
  BY <1>1, <1>3, <1>5, ValueIs
<1>6. ASSUME NEW g, Sets(s, ws, Len(s), g)
      PROVE  ValueBefore(s, ws, Len(s), d) = ValueBefore(s, ws, Len(s) + 1, d)
  <2>1. Sets(s, ws, Len(s) + 1, g)
    BY <1>4, <1>6
  <2> QED BY <1>1, <1>6, <2>1, ValueIs
<1> QED BY <1>1, <1>5, <1>6, ValueIs

(* The phase and the output are those of the user where only neutral options are added. *)
LEMMA JoinedMode ==
  ASSUME NEW w, NEW cxx, NEW Ins, NEW R, Settled(w, cxx, Ins, R),
         NEW X, NEW A, Extra(X, A), Neutral(A), NEW Y, Files(Y)
  PROVE  LET C == Joined(w, R, X, Y)
         IN Mode(C) = Mode(w) /\ Output(C) = Output(w)
<1> DEFINE C == Joined(w, R, X, Y)
           all == {"-E", "-S", "--assemble", "-c", "--compile"}
<1>1. Drops(w, R)
  BY DEF Settled
<1>2. w \in Seq(Args) /\ DOMAIN w = 1 .. Len(w) /\ Closed(w)
  BY <1>1, DropsPlaces DEF Drops
<1>3. \A i \in InputSet(w) : w[i] \notin Options
  BY Vocabulary DEF Settled
<1>4. all \subseteq Options
  BY DriverAssumption
<1>5. ASSUME NEW ws, ws \subseteq all  PROVE Given(C, ws) = {} <=> Given(w, ws) = {}
  <2>1. ws \subseteq Options /\ ws \cap A = {}
    BY <1>4, <1>5 DEF Neutral
  <2>2. Given(w, ws) \subseteq R
    <3>1. SUFFICES ASSUME NEW i \in Given(w, ws), i \notin R  PROVE FALSE
      OBVIOUS
    <3>2. i \in 1 .. Len(w) /\ w[i] \in all
      BY <1>2, <1>5, GivenAre
    <3>3. w[i] \in StdC \/ w[i] \notin Options
      BY <1>3, <3>1, <3>2 DEF Settled
    <3> QED BY <1>4, <3>2, <3>3 DEF StdC
  <2>3. Given(X, ws) = {}
    BY <2>1, ExtraGiven
  <2> HIDE DEF C
  <2>4. Given(C, ws) = {} <=> Given(w, ws) \cap R = {} /\ Given(X, ws) = {}
    BY <1>1, <2>1, JoinedGiven DEF C
  <2> QED BY <2>2, <2>3, <2>4
<1>6. Mode(C) = Mode(w)
  <2>1. Given(C, {"-E"}) = {} <=> Given(w, {"-E"}) = {}
    BY <1>5
  <2>2. Given(C, {"-S", "--assemble"}) = {} <=> Given(w, {"-S", "--assemble"}) = {}
    BY <1>5
  <2>3. Given(C, {"-c", "--compile"}) = {} <=> Given(w, {"-c", "--compile"}) = {}
    BY <1>5
  <2> HIDE DEF C
  <2> QED BY <2>1, <2>2, <2>3, Zenon DEF Mode
<1>7. Output(C) = Output(w)
  <2> DEFINE ws == {"-o", "--output"}
             e == ValueBefore(w, ws, Len(w) + 1, "none")
  <2>1. ws \subseteq Valued /\ ws \cap A = {}
    BY Vocabulary DEF Neutral
  <2>2. C \in Seq(Args) /\ Closed(C) /\ Len(C) + 1 = Before(R, X) + (Len(Y) + 1)
        /\ Len(Y) + 1 \in 1 .. Len(Y) + 1
    <3>1. C \in Seq(Args) /\ Closed(C) /\ Len(C) = Before(R, X) + Len(Y)
          /\ Before(R, X) \in Nat /\ Len(Y) \in Nat
      BY <1>1, JoinedWords
    <3> QED BY <3>1
  <2> HIDE DEF ws
  <2>3. ValueBefore(C, ws, Before(R, X) + (Len(Y) + 1), "none")
          = ValueBefore(X, ws, Len(X) + 1, ValueBefore(w, ws, Len(w) + 1, "none"))
    BY <1>1, <2>1, <2>2, JoinedValue
  <2>4. ValueBefore(X, ws, Len(X) + 1, e) = e
    <3>1. Len(X) + 1 \in Int
      BY DEF Extra
    <3> HIDE DEF e
    <3> QED BY <2>1, <3>1, ExtraGiven
  <2>5. ValueBefore(C, ws, Len(C), "none") = ValueBefore(C, ws, Len(C) + 1, "none")
    <3> HIDE DEF C
    <3> QED BY <2>1, <2>2, OutputAtEnd
  <2>6. ValueBefore(w, ws, Len(w), "none") = ValueBefore(w, ws, Len(w) + 1, "none")
    BY <1>2, <2>1, OutputAtEnd
  <2> HIDE DEF C, e
  <2>7. ValueBefore(C, ws, Len(C), "none") = ValueBefore(w, ws, Len(w), "none")
    BY <2>2, <2>3, <2>4, <2>5, <2>6 DEF e
  <2> QED BY <2>7 DEF Output, ws
<1> QED BY <1>6, <1>7 DEF C

(* No -std is given that the user did not give, and for C++ none of C. *)
LEMMA JoinedStd ==
  ASSUME NEW w, NEW cxx, NEW Ins, NEW R, Settled(w, cxx, Ins, R),
         NEW X, NEW A, Extra(X, A), A \cap (StdC \cup StdCxx) = {}, NEW Y, Files(Y)
  PROVE  LET C == Joined(w, R, X, Y)
         IN /\ cxx \/ Given(w, StdC) = {} => Given(C, StdC) = {}
            /\ Given(w, StdCxx) = {} => Given(C, StdCxx) = {}
<1>1. Drops(w, R)
  BY DEF Settled
<1>2. StdC \subseteq Options /\ StdCxx \subseteq Options
  BY DriverAssumption
<1>3. w \in Seq(Args)
  BY <1>1 DEF Drops
<1>4. Given(X, StdC) = {} /\ Given(X, StdCxx) = {}
  <2>1. StdC \cap A = {} /\ StdCxx \cap A = {}
    OBVIOUS
  <2> QED BY <2>1, ExtraGiven
<1>5. cxx \/ Given(w, StdC) = {} => Given(w, StdC) \cap R = {}
  BY <1>3, GivenAre DEF Settled
<1>6. /\ Given(Joined(w, R, X, Y), StdC) = {} <=> Given(w, StdC) \cap R = {} /\ Given(X, StdC) = {}
      /\ Given(Joined(w, R, X, Y), StdCxx) = {}
           <=> Given(w, StdCxx) \cap R = {} /\ Given(X, StdCxx) = {}
  BY <1>1, <1>2, JoinedGiven
<1> QED BY <1>4, <1>5, <1>6
-----------------------------------------------------------------------------
(***************************************************************************)
(* When the compiler accepts a command line, and what it makes then.       *)
(***************************************************************************)
CompSet(argv, cxx) == {i \in InputSet(argv) : Language(argv, cxx, i) # "object"}

(* The compiler has no objection to the input at i. *)
Fits(argv, cxx, i) ==
  /\ Accepts(argv[i], Language(argv, cxx, i))
  /\ Language(argv, cxx, i) = "c++" => Given(argv, StdC) = {}
  /\ Language(argv, cxx, i) = "c" => Given(argv, StdCxx) = {}

Works(argv, cxx, m) ==
  /\ InputSet(argv) # {} /\ argv[Len(argv)] \notin Valued
  /\ \A i \in InputSet(argv) : Exists(argv[i], m) /\ Fits(argv, cxx, i)
  /\ Mode(argv) = "link" \/ Output(argv) = "none" \/ Cardinality(CompSet(argv, cxx)) <= 1

Used(argv, cxx) == IF Mode(argv) = "link" THEN InputSet(argv) ELSE CompSet(argv, cxx)

UnitsMade(argv, cxx, m) ==
  [k \in 1 .. Cardinality(Used(argv, cxx)) |-> UnitOf(argv, cxx, InOrder(Used(argv, cxx))[k], m)]

Result(argv, cxx, m) ==
  [ok |-> TRUE, mode |-> Mode(argv), out |-> Output(argv), units |-> UnitsMade(argv, cxx, m)]

LEMMA CompiledIs ==
  ASSUME NEW argv \in Seq(Args), NEW cxx
  PROVE  /\ Positions(CompSet(argv, cxx), Len(argv))
         /\ Compiled(argv, cxx) = InOrder(CompSet(argv, cxx))
         /\ ToSet(Compiled(argv, cxx)) = CompSet(argv, cxx)
         /\ Len(Compiled(argv, cxx)) = Cardinality(CompSet(argv, cxx))
         /\ Cardinality(CompSet(argv, cxx)) \in Nat
<1>1. Positions(InputSet(argv), Len(argv)) /\ ToSet(InputsOf(argv)) = InputSet(argv)
  BY InputFacts
<1>2. Positions(CompSet(argv, cxx), Len(argv))
  BY <1>1 DEF Positions, CompSet
<1>3. Compiled(argv, cxx) = InOrder(CompSet(argv, cxx))
  BY <1>1 DEF Compiled, CompSet
<1>4. Len(InOrder(CompSet(argv, cxx))) = Cardinality(CompSet(argv, cxx))
  BY <1>2, OrderFacts
<1> QED BY <1>2, <1>3, <1>4, OrderSet, PositionsFinite

LEMMA WorksIs ==
  ASSUME NEW argv \in Seq(Args), NEW cxx, NEW m
  PROVE  Works(argv, cxx, m) <=>
           ~((\E i \in ToSet(InputsOf(argv)) : ~Exists(argv[i], m))
             \/ Errs(argv, InputsOf(argv), cxx))
<1> DEFINE I == InputSet(argv)
           bad == \E i \in I : \/ ~Accepts(argv[i], Language(argv, cxx, i))
                               \/ Language(argv, cxx, i) = "c++" /\ Given(argv, StdC) # {}
                               \/ Language(argv, cxx, i) = "c" /\ Given(argv, StdCxx) # {}
           many == Mode(argv) # "link" /\ Output(argv) # "none" /\ Len(Compiled(argv, cxx)) > 1
<1>1. ToSet(InputsOf(argv)) = I /\ InputsOf(argv) = InOrder(I) /\ Positions(I, Len(argv))
  BY InputFacts
<1>2. InputsOf(argv) = <<>> <=> I = {}
  <2>1. Len(InOrder(I)) = Cardinality(I) /\ InOrder(I) \in Seq(I)
    BY <1>1, OrderFacts
  <2>2. IsFiniteSet(I)
    BY <1>1, PositionsFinite
  <2>3. Cardinality(I) = 0 <=> I = {}
    BY <2>2, FS_EmptySet
  <2> HIDE DEF I
  <2> QED BY <1>1, <2>1, <2>3
<1>3. many <=> ~(Mode(argv) = "link" \/ Output(argv) = "none" \/ Cardinality(CompSet(argv, cxx)) <= 1)
  BY CompiledIs
<1>4. Errs(argv, InputsOf(argv), cxx)
        <=> InputsOf(argv) = <<>> \/ argv[Len(argv)] \in Valued \/ bad \/ many
  BY <1>1, Zenon DEF Errs
<1>5. bad <=> \E i \in I : ~Fits(argv, cxx, i)
  BY DEF Fits
<1> HIDE DEF bad, many
<1> QED BY <1>1, <1>2, <1>3, <1>4, <1>5 DEF Works

LEMMA BuildIs ==
  ASSUME NEW list \in Seq(Args), NEW cxx, NEW m
  PROVE  Build(list, cxx, m) = IF Works(Expand(list), cxx, m) THEN Result(Expand(list), cxx, m)
                               ELSE Rejected
<1> DEFINE argv == Expand(list)
           U == Used(argv, cxx)
           inputs0 == InputsOf(argv)
           used == IF Mode(argv) = "link" THEN inputs0 ELSE Compiled(argv, cxx)
           fails == (\E i \in ToSet(inputs0) : ~Exists(argv[i], m)) \/ Errs(argv, inputs0, cxx)
<1>1. argv \in Seq(Args)
  BY ExpandType
<1>2. Build(list, cxx, m) =
        IF fails THEN Rejected
        ELSE [ok |-> TRUE, mode |-> Mode(argv), out |-> Output(argv),
              units |-> [k \in DOMAIN used |-> UnitOf(argv, cxx, used[k], m)]]
  BY Zenon DEF Build
<1>3. fails <=> ~Works(argv, cxx, m)
  <2> HIDE DEF argv
  <2> QED BY <1>1, WorksIs
<1>4. used = InOrder(U) /\ DOMAIN used = 1 .. Cardinality(U)
  <2> HIDE DEF argv
  <2>1. used = InOrder(U)
    BY <1>1, InputFacts, CompiledIs DEF Used
  <2>2. DOMAIN InOrder(U) = 1 .. Cardinality(U)
    BY DEF InOrder
  <2> QED BY <2>1, <2>2
<1>5. [k \in DOMAIN used |-> UnitOf(argv, cxx, used[k], m)] = UnitsMade(argv, cxx, m)
  BY <1>4, Zenon DEF UnitsMade
<1> HIDE DEF argv, used, fails
<1>6. Build(list, cxx, m) = IF Works(argv, cxx, m) THEN Result(argv, cxx, m) ELSE Rejected
  BY <1>2, <1>3, <1>5, Zenon DEF Result
<1> QED BY <1>6 DEF argv

LEMMA BuildOk ==
  ASSUME NEW list \in Seq(Args), NEW cxx, NEW m
  PROVE  Build(list, cxx, m).ok <=> Works(Expand(list), cxx, m)
<1>1. Rejected.ok = FALSE
  BY DEF Rejected
<1>2. Result(Expand(list), cxx, m).ok = TRUE
  BY DEF Result
<1> QED BY <1>1, <1>2, BuildIs, Zenon
-----------------------------------------------------------------------------
(***************************************************************************)
(* What is left of a sequence without the words in D.                      *)
(***************************************************************************)
Left(s, D) == At(s, {k \in DOMAIN s : s[k] \notin D})

LEMMA LeftNothing == \A D : Left(<<>>, D) = <<>>
<1>1. \A D : {k \in DOMAIN <<>> : <<>>[k] \notin D} = {}
  OBVIOUS
<1> QED BY <1>1, NothingAt DEF Left

(* At() looks no further than its places. *)
LEMMA AtPrefix ==
  ASSUME NEW X, NEW s \in Seq(X), NEW t \in Seq(X), NEW S, Positions(S, Len(s)),
         \A k \in 1 .. Len(s) : t[k] = s[k]
  PROVE  At(t, S) = At(s, S)
<1> DEFINE o == InOrder(S)
<1>1. o \in Seq(S) /\ \A k \in S : k \in 1 .. Len(s)
  BY OrderFacts DEF Positions
<1>2. \A k \in DOMAIN o : t[o[k]] = s[o[k]]
  BY <1>1
<1> HIDE DEF o
<1>3. [k \in DOMAIN o |-> t[o[k]]] = [k \in DOMAIN o |-> s[o[k]]]
  BY <1>2
<1> QED BY <1>3 DEF At, o

LeftGrows(s, c, D) ==
  Left(Append(s, c), D) = IF c \in D THEN Left(s, D) ELSE Append(Left(s, D), c)

LEMMA LeftAppend ==
  ASSUME NEW X, NEW s \in Seq(X), NEW c \in X, NEW D
  PROVE  LeftGrows(s, c, D)
<1> DEFINE m == Len(s)
           t == Append(s, c)
           S == {k \in DOMAIN s : s[k] \notin D}
           T == {k \in DOMAIN t : t[k] \notin D}
<1>1. /\ m \in Nat /\ DOMAIN s = 1 .. m /\ t \in Seq(X) /\ Len(t) = m + 1 /\ DOMAIN t = 1 .. m + 1
      /\ t[m + 1] = c /\ \A k \in 1 .. m : t[k] = s[k]
  OBVIOUS
<1> HIDE DEF t, m
<1>2. Positions(S, m) /\ Positions(S, Len(s))
  BY <1>1 DEF Positions, m
<1>3. T = S \cup (IF c \in D THEN {} ELSE {m + 1})
  <2>1. 1 .. m + 1 = (1 .. m) \cup {m + 1}
    BY <1>1
  <2> QED BY <1>1, <2>1
<1>4. At(t, S) = At(s, S)
  <2> HIDE DEF S
  <2> QED BY <1>1, <1>2, AtPrefix DEF m
<1>5. Left(s, D) = At(s, S) /\ Left(t, D) = At(t, T)
  BY DEF Left
<1> HIDE DEF S, T
<1>6. At(s, S) \in Seq(X)
  BY <1>2, AtFacts
<1>7. CASE c \in D
  <2>1. T = S
    BY <1>3, <1>7
  <2> QED BY <1>4, <1>5, <1>6, <1>7, <2>1 DEF t, LeftGrows
<1>8. CASE c \notin D
  <2>1. T = S \cup {m + 1}
    BY <1>3, <1>8
  <2>2. At(t, S \cup {m + 1}) = Append(At(t, S), t[m + 1])
    <3>1. m < Len(t)
      BY <1>1
    <3> QED BY <1>1, <1>2, <3>1, AtMore
  <2> QED BY <1>1, <1>4, <1>5, <1>6, <1>8, <2>1, <2>2 DEF t, LeftGrows
<1> QED BY <1>7, <1>8

LEMMA LeftType ==
  ASSUME NEW X, NEW s \in Seq(X), NEW D
  PROVE  Left(s, D) \in Seq(X)
<1>1. Positions({k \in DOMAIN s : s[k] \notin D}, Len(s))
  BY DEF Positions
<1> QED BY <1>1, AtFacts DEF Left

LeftJoins(s, t, D) == Left(s \o t, D) = Left(s, D) \o Left(t, D)

LEMMA LeftConcat ==
  ASSUME NEW X, NEW s \in Seq(X), NEW t \in Seq(X), NEW D
  PROVE  LeftJoins(s, t, D)
<1> DEFINE S == {u \in Seq(X) : Left(s \o u, D) = Left(s, D) \o Left(u, D)}
<1>1. Left(s, D) \in Seq(X)
  BY LeftType
<1>2. <<>> \in S
  <2>1. s \o <<>> = s /\ Left(s, D) \o <<>> = Left(s, D) /\ <<>> \in Seq(X)
    BY <1>1
  <2> QED BY <2>1, LeftNothing
<1>3. ASSUME NEW u \in Seq(X), NEW c \in X, u \in S  PROVE Append(u, c) \in S
  <2>1. s \o Append(u, c) = Append(s \o u, c) /\ s \o u \in Seq(X) /\ Append(u, c) \in Seq(X)
    OBVIOUS
  <2>2. Left(s \o u, D) = Left(s, D) \o Left(u, D)
    BY <1>3
  <2>3. Left(u, D) \in Seq(X)
    BY LeftType
  <2>4. Left(Append(s \o u, c), D)
          = IF c \in D THEN Left(s \o u, D) ELSE Append(Left(s \o u, D), c)
    <3> DEFINE v == s \o u
    <3>1. v \in Seq(X)
      OBVIOUS
    <3> HIDE DEF v
    <3>2. Left(Append(v, c), D) = IF c \in D THEN Left(v, D) ELSE Append(Left(v, D), c)
      BY <3>1, LeftAppend DEF LeftGrows
    <3> QED BY <3>2 DEF v
  <2>5. Left(Append(u, c), D) = IF c \in D THEN Left(u, D) ELSE Append(Left(u, D), c)
    BY LeftAppend DEF LeftGrows
  <2>6. Append(Left(s, D) \o Left(u, D), c) = Left(s, D) \o Append(Left(u, D), c)
    <3>1. ASSUME NEW a \in Seq(X), NEW b \in Seq(X)  PROVE a \o Append(b, c) = Append(a \o b, c)
      OBVIOUS
    <3> QED BY <1>1, <2>3, <3>1
  <2>7. Left(s \o Append(u, c), D) = Left(s, D) \o Left(Append(u, c), D)
    <3>1. CASE c \in D
      BY <2>1, <2>2, <2>4, <2>5, <3>1
    <3>2. CASE c \notin D
      BY <2>1, <2>2, <2>4, <2>5, <2>6, <3>2
    <3> QED BY <3>1, <3>2
  <2> QED BY <2>1, <2>7
<1>4. Seq(X) \subseteq S
  <2> HIDE DEF S
  <2> QED BY <1>2, <1>3, SequenceInduction
<1> QED BY <1>4 DEF LeftJoins

(* All of a sequence that has no word in D. *)
LEMMA LeftAll ==
  ASSUME NEW X, NEW s \in Seq(X), NEW D, \A k \in 1 .. Len(s) : s[k] \notin D
  PROVE  Left(s, D) = s
<1> DEFINE S == {u \in Seq(X) : (\A k \in 1 .. Len(u) : u[k] \notin D) => Left(u, D) = u}
<1>1. <<>> \in S
  BY LeftNothing
<1>2. ASSUME NEW u \in Seq(X), NEW c \in X, u \in S  PROVE Append(u, c) \in S
  <2>1. /\ Append(u, c) \in Seq(X) /\ Len(u) \in Nat /\ Len(Append(u, c)) = Len(u) + 1
        /\ Append(u, c)[Len(u) + 1] = c
        /\ \A k \in 1 .. Len(u) : Append(u, c)[k] = u[k]
    OBVIOUS
  <2>2. SUFFICES ASSUME \A k \in 1 .. Len(u) + 1 : Append(u, c)[k] \notin D
                 PROVE  Left(Append(u, c), D) = Append(u, c)
    BY <2>1
  <2>3. c \notin D /\ \A k \in 1 .. Len(u) : u[k] \notin D
    BY <2>1, <2>2
  <2>4. Left(u, D) = u
    BY <1>2, <2>3
  <2>5. Left(Append(u, c), D) = IF c \in D THEN Left(u, D) ELSE Append(Left(u, D), c)
    BY LeftAppend DEF LeftGrows
  <2> QED BY <2>3, <2>4, <2>5
<1>3. Seq(X) \subseteq S
  <2> HIDE DEF S
  <2> QED BY <1>1, <1>2, SequenceInduction
<1> QED BY <1>3

(***************************************************************************)
(* What is left of the arguments, and of the words they stand for: what a  *)
(* response file holds is not dropped, and is no word in D.                *)
(***************************************************************************)
LEMMA ExpandConcat ==
  ASSUME NEW s \in Seq(Args), NEW t \in Seq(Args)
  PROVE  Expand(s \o t) = Expand(s) \o Expand(t)
<1> DEFINE S == {u \in Seq(Args) : Expand(s \o u) = Expand(s) \o Expand(u)}
<1>1. <<>> \in S
  <2>1. s \o <<>> = s /\ Expand(s) \in Seq(Args) /\ <<>> \in Seq(Args)
    BY ExpandType
  <2>2. Expand(s) \o <<>> = Expand(s)
    BY <2>1
  <2> QED BY <2>1, <2>2, ExpandNothing
<1>2. ASSUME NEW u \in Seq(Args), NEW c \in Args, u \in S  PROVE Append(u, c) \in S
  <2>1. s \o Append(u, c) = Append(s \o u, c) /\ s \o u \in Seq(Args) /\ Append(u, c) \in Seq(Args)
    OBVIOUS
  <2>2. Expand(Append(s \o u, c)) = Expand(s \o u) \o Meant(c)
        /\ Expand(Append(u, c)) = Expand(u) \o Meant(c)
    BY <2>1, ExpandAppend
  <2>3. Expand(s) \in Seq(Args) /\ Expand(u) \in Seq(Args) /\ Meant(c) \in Seq(Args)
    BY ExpandType, MeantType
  <2>4. (Expand(s) \o Expand(u)) \o Meant(c) = Expand(s) \o (Expand(u) \o Meant(c))
    BY <2>3, SMTT(30)
  <2> QED BY <1>2, <2>1, <2>2, <2>4
<1>3. Seq(Args) \subseteq S
  <2> HIDE DEF S
  <2> QED BY <1>1, <1>2, SequenceInduction
<1> QED BY <1>3

(* What has no response file stands for itself. *)
LEMMA ExpandPlain ==
  ASSUME NEW s \in Seq(Args), \A k \in 1 .. Len(s) : s[k] \notin DOMAIN Response
  PROVE  Expand(s) = s
<1> DEFINE Y == {a \in Args : a \notin DOMAIN Response}
           S == {u \in Seq(Y) : Expand(u) = u}
<1>1. <<>> \in S
  BY ExpandNothing
<1>2. ASSUME NEW u \in Seq(Y), NEW c \in Y, u \in S  PROVE Append(u, c) \in S
  <2>1. u \in Seq(Args) /\ Append(u, c) \in Seq(Y) /\ Append(u, c) = u \o <<c>>
    OBVIOUS
  <2>2. Expand(Append(u, c)) = Expand(u) \o Meant(c) /\ Meant(c) = <<c>>
    BY <2>1, ExpandAppend DEF Meant
  <2> QED BY <1>2, <2>1, <2>2
<1>3. Seq(Y) \subseteq S
  <2> HIDE DEF S
  <2> QED BY <1>1, <1>2, SequenceInduction
<1>4. s \in Seq(Y)
  OBVIOUS
<1> QED BY <1>3, <1>4

LEMMA ExpandLeft ==
  ASSUME NEW s \in Seq(Args), NEW D, D \cap DOMAIN Response = {},
         \A k \in 1 .. Len(s) : s[k] \in DOMAIN Response =>
           \A j \in 1 .. Len(Response[s[k]]) : Response[s[k]][j] \notin D
  PROVE  Expand(Left(s, D)) = Left(Expand(s), D)
<1> DEFINE Y == {a \in Args : a \in DOMAIN Response =>
                                 \A j \in 1 .. Len(Response[a]) : Response[a][j] \notin D}
           S == {u \in Seq(Y) : Expand(Left(u, D)) = Left(Expand(u), D)}
<1>1. <<>> \in S
  BY ExpandNothing, LeftNothing
<1>2. ASSUME NEW u \in Seq(Y), NEW c \in Y, u \in S  PROVE Append(u, c) \in S
  <2>1. u \in Seq(Args) /\ Append(u, c) \in Seq(Y) /\ c \in Args
    OBVIOUS
  <2>2. Expand(Append(u, c)) = Expand(u) \o Meant(c)
    BY <2>1, ExpandAppend
  <2>3. Expand(u) \in Seq(Args) /\ Meant(c) \in Seq(Args) /\ Left(u, D) \in Seq(Args)
    BY <2>1, ExpandType, MeantType, LeftType
  <2>4. Left(Expand(u) \o Meant(c), D) = Left(Expand(u), D) \o Left(Meant(c), D)
    <3>1. LeftJoins(Expand(u), Meant(c), D)
      BY <2>3, LeftConcat
    <3> QED BY <3>1 DEF LeftJoins
  <2>5. Left(Append(u, c), D) = IF c \in D THEN Left(u, D) ELSE Append(Left(u, D), c)
    <3>1. u \in Seq(Y) /\ c \in Y
      OBVIOUS
    <3> HIDE DEF Y
    <3>2. LeftGrows(u, c, D)
      BY <3>1, LeftAppend
    <3> QED BY <3>2, Zenon DEF LeftGrows
  <2>6. CASE c \in D
    <3>1. Meant(c) = <<c>>
      BY <2>6 DEF Meant
    <3>2. Left(<<c>>, D) = <<>>
      <4>1. Append(<<>>, c) = <<c>> /\ <<>> \in Seq(Args)
        OBVIOUS
      <4>2. Left(Append(<<>>, c), D) = Left(<<>>, D)
        BY <2>1, <2>6, <4>1, LeftAppend DEF LeftGrows
      <4> QED BY <4>1, <4>2, LeftNothing
    <3>3. Left(Expand(u), D) \in Seq(Args)
      BY <2>3, LeftType
    <3>4. Left(Expand(u), D) \o <<>> = Left(Expand(u), D)
      BY <3>3
    <3> QED BY <1>2, <2>1, <2>2, <2>4, <2>5, <2>6, <3>1, <3>2, <3>4
  <2>7. CASE c \notin D
    <3>1. \A k \in 1 .. Len(Meant(c)) : Meant(c)[k] \notin D
      <4>1. CASE c \in DOMAIN Response
        BY <4>1 DEF Meant
      <4>2. CASE c \notin DOMAIN Response
        BY <2>7, <4>2 DEF Meant
      <4> QED BY <4>1, <4>2
    <3>2. Left(Meant(c), D) = Meant(c)
      BY <2>3, <3>1, LeftAll
    <3>3. Expand(Append(Left(u, D), c)) = Expand(Left(u, D)) \o Meant(c)
      BY <2>1, <2>3, ExpandAppend
    <3> QED BY <1>2, <2>1, <2>2, <2>4, <2>5, <2>7, <3>2, <3>3
  <2> QED BY <2>6, <2>7
<1>3. Seq(Y) \subseteq S
  <2> HIDE DEF S
  <2> QED BY <1>1, <1>2, SequenceInduction
<1>4. s \in Seq(Y)
  OBVIOUS
<1> QED BY <1>3, <1>4
-----------------------------------------------------------------------------
(***************************************************************************)
(* What is made of places, one for one, in another order.                  *)
(***************************************************************************)
OneForOne(f, S, T) ==
  /\ f \in [S -> T] /\ \A x, y \in S : f[x] = f[y] => x = y
  /\ \A t \in T : \E x \in S : f[x] = t

LEMMA SameSize ==
  ASSUME NEW S, NEW T, IsFiniteSet(S), NEW f, OneForOne(f, S, T)
  PROVE  IsFiniteSet(T) /\ Cardinality(T) = Cardinality(S)
<1>1. f \in Bijection(S, T)
  BY DEF OneForOne, Bijection, Injection, Surjection, IsInjective
<1>2. ExistsBijection(S, T)
  BY <1>1 DEF ExistsBijection
<1> QED BY <1>2, FS_Bijection

LEMMA SameBag ==
  ASSUME NEW c \in Nat, NEW s, NEW t, DOMAIN s = 1 .. c, DOMAIN t = 1 .. c,
         NEW f, OneForOne(f, 1 .. c, 1 .. c), \A k \in 1 .. c : t[f[k]] = s[k]
  PROVE  ToBag(s) = ToBag(t)
<1> DEFINE A(x) == {i \in DOMAIN s : s[i] = x}
           B(x) == {i \in DOMAIN t : t[i] = x}
<1>1. /\ \A k \in 1 .. c : f[k] \in 1 .. c
      /\ \A j, k \in 1 .. c : f[j] = f[k] => j = k
      /\ \A l \in 1 .. c : \E k \in 1 .. c : f[k] = l
  BY DEF OneForOne
<1>2. Range(s) = Range(t)
  <2>1. ASSUME NEW x \in Range(s)  PROVE x \in Range(t)
    <3>1. PICK i \in 1 .. c : s[i] = x
      BY DEF Range
    <3>2. f[i] \in DOMAIN t /\ t[f[i]] = x
      BY <1>1, <3>1
    <3> QED BY <3>2 DEF Range
  <2>2. ASSUME NEW x \in Range(t)  PROVE x \in Range(s)
    <3>1. PICK l \in 1 .. c : t[l] = x
      BY DEF Range
    <3>2. PICK k \in 1 .. c : f[k] = l
      BY <1>1
    <3>3. k \in DOMAIN s /\ s[k] = x
      BY <3>1, <3>2
    <3> QED BY <3>3 DEF Range
  <2> QED BY <2>1, <2>2
<1>3. ASSUME NEW x  PROVE Cardinality(A(x)) = Cardinality(B(x))
  <2> DEFINE g == [k \in A(x) |-> f[k]]
  <2>1. \A k \in A(x) : k \in 1 .. c /\ s[k] = x /\ f[k] \in B(x)
    BY <1>1
  <2>2. ASSUME NEW l \in B(x)  PROVE \E k \in A(x) : f[k] = l
    <3>1. PICK k \in 1 .. c : f[k] = l
      BY <1>1
    <3>2. s[k] = x
      BY <3>1
    <3> QED BY <3>1, <3>2
  <2>3. IsFiniteSet(A(x))
    <3>1. IsFiniteSet(1 .. c) /\ A(x) \subseteq 1 .. c
      BY FS_Interval
    <3> HIDE DEF A
    <3> QED BY <3>1, FS_Subset
  <2> HIDE DEF A, B
  <2>4. OneForOne(g, A(x), B(x))
    BY <1>1, <2>1, <2>2 DEF OneForOne
  <2> HIDE DEF g
  <2> QED BY <2>3, <2>4, SameSize
<1>4. ToBag(s) = [x \in Range(s) |-> Cardinality(A(x))]
  BY DEF ToBag
<1>5. ToBag(t) = [x \in Range(t) |-> Cardinality(B(x))]
  BY DEF ToBag
<1> HIDE DEF A, B
<1> QED BY <1>2, <1>3, <1>4, <1>5

(* What u says of the places in S, from the first to the last. *)
Ordered(S, u) == [k \in 1 .. Cardinality(S) |-> u[InOrder(S)[k]]]

LEMMA Reordered ==
  ASSUME NEW m, NEW V, Positions(V, m), NEW l, NEW W, Positions(W, l),
         NEW f, OneForOne(f, V, W), NEW u, NEW p, \A i \in V : p[f[i]] = u[i]
  PROVE  /\ Cardinality(W) = Cardinality(V)
         /\ ToBag(Ordered(W, p)) = ToBag(Ordered(V, u))
         /\ (\A i, k \in V : i < k => f[i] < f[k]) => Ordered(W, p) = Ordered(V, u)
<1> DEFINE c == Cardinality(V)
           o == InOrder(V)
           q == InOrder(W)
<1>1. IsFiniteSet(V) /\ c \in Nat
  BY PositionsFinite
<1>2. Cardinality(W) = c
  BY <1>1, SameSize
<1>3. /\ \A k \in 1 .. c : o[k] \in V /\ Rank(V, o[k]) = k
      /\ \A i \in V : Rank(V, i) \in 1 .. c /\ o[Rank(V, i)] = i
      /\ \A j, k \in 1 .. c : j < k => o[j] < o[k]
  BY OrderFacts
<1>4. /\ \A k \in 1 .. c : q[k] \in W /\ Rank(W, q[k]) = k
      /\ \A i \in W : Rank(W, i) \in 1 .. c /\ q[Rank(W, i)] = i
  BY <1>2, OrderFacts
<1>5. /\ \A i \in V : f[i] \in W
      /\ \A i, j \in V : f[i] = f[j] => i = j
      /\ \A i \in W : \E j \in V : f[j] = i
  BY DEF OneForOne
<1>6. /\ Ordered(V, u) = [k \in 1 .. c |-> u[o[k]]]
      /\ Ordered(W, p) = [k \in 1 .. c |-> p[q[k]]]
  BY <1>2 DEF Ordered
<1> HIDE DEF c, o, q
<1>7. ToBag(Ordered(W, p)) = ToBag(Ordered(V, u))
  <2> DEFINE g == [k \in 1 .. c |-> Rank(W, f[o[k]])]
             s == [k \in 1 .. c |-> u[o[k]]]
             t == [k \in 1 .. c |-> p[q[k]]]
  <2>1. \A k \in 1 .. c : g[k] \in 1 .. c /\ q[g[k]] = f[o[k]]
    BY <1>3, <1>4, <1>5
  <2>2. \A j, k \in 1 .. c : g[j] = g[k] => j = k
    <3>1. SUFFICES ASSUME NEW j \in 1 .. c, NEW k \in 1 .. c, g[j] = g[k]  PROVE j = k
      OBVIOUS
    <3>2. f[o[j]] = f[o[k]]
      BY <2>1, <3>1
    <3>3. o[j] = o[k]
      BY <1>3, <1>5, <3>2
    <3> QED BY <1>3, <3>3
  <2>3. ASSUME NEW k \in 1 .. c  PROVE \E j \in 1 .. c : g[j] = k
    <3>1. PICK i \in V : f[i] = q[k]
      BY <1>4, <1>5
    <3>2. Rank(V, i) \in 1 .. c /\ o[Rank(V, i)] = i /\ Rank(W, q[k]) = k
      BY <1>3, <1>4
    <3>3. g[Rank(V, i)] = k
      BY <3>1, <3>2
    <3> QED BY <3>2, <3>3
  <2>4. g \in [1 .. c -> 1 .. c]
    BY <2>1
  <2> HIDE DEF g
  <2>5. OneForOne(g, 1 .. c, 1 .. c)
    BY <2>2, <2>3, <2>4 DEF OneForOne
  <2>6. \A k \in 1 .. c : t[g[k]] = s[k]
    <3>1. \A k \in 1 .. c : p[f[o[k]]] = u[o[k]]
      BY <1>3
    <3> QED BY <2>1, <3>1
  <2>7. DOMAIN s = 1 .. c /\ DOMAIN t = 1 .. c
    OBVIOUS
  <2>8. Ordered(V, u) = s /\ Ordered(W, p) = t
    BY <1>6
  <2> HIDE DEF s, t
  <2>9. ToBag(s) = ToBag(t)
    BY <1>1, <2>5, <2>6, <2>7, SameBag
  <2> QED BY <2>8, <2>9
<1>8. ASSUME \A i, k \in V : i < k => f[i] < f[k]
      PROVE  Ordered(W, p) = Ordered(V, u)
  <2> DEFINE h == [k \in 1 .. c |-> f[o[k]]]
  <2>1. \A k \in 1 .. c : h[k] = f[o[k]] /\ h[k] \in W
    BY <1>3, <1>5
  <2>2. h \in Seq(W) /\ Len(h) = c
    <3>1. h \in [1 .. c -> W]
      BY <2>1
    <3> HIDE DEF h
    <3> QED BY <1>1, <3>1
  <2> HIDE DEF h
  <2>3. \A j, k \in 1 .. Len(h) : j < k => h[j] < h[k]
    BY <1>3, <1>8, <2>1, <2>2
  <2>4. ASSUME NEW i \in W  PROVE \E k \in 1 .. Len(h) : h[k] = i
    <3>1. PICK j \in V : f[j] = i
      BY <1>5
    <3>2. Rank(V, j) \in 1 .. c /\ o[Rank(V, j)] = j
      BY <1>3
    <3> QED BY <2>1, <2>2, <3>1, <3>2
  <2>5. h = InOrder(W)
    BY <2>2, <2>3, <2>4, OrderUnique
  <2>6. \A k \in 1 .. c : p[q[k]] = u[o[k]]
    BY <1>3, <2>1, <2>5 DEF q
  <2> QED BY <1>6, <2>6
<1> QED BY <1>2, <1>7, <1>8 DEF c
-----------------------------------------------------------------------------
(***************************************************************************)
(* Where the inputs of the user stand in a command whose files begin with  *)
(* one for each of Ins.                                                    *)
(***************************************************************************)
Spots(w, Ins, R, X) ==
  [i \in InputSet(w) |-> IF i \in Ins THEN Before(R, X) + Rank(Ins, i) ELSE Rank(R, i)]

UserPlaces(w, Ins, R, X, Y) ==
  {p \in InputSet(Joined(w, R, X, Y)) : p <= Before(R, X) + Cardinality(Ins)}

(* What stands there, and its language. *)
SpotHas(w, cxx, Ins, R, X, Y, i) ==
  LET C == Joined(w, R, X, Y)
      p == Spots(w, Ins, R, X)[i]
  IN /\ i \in Ins => C[p] = Y[Rank(Ins, i)] /\ Forced(C, p) = InForce(w)
     /\ i \notin Ins => C[p] = w[i] /\ Language(C, cxx, p) = Language(w, cxx, i)

LEMMA SettledIs ==
  ASSUME NEW w, NEW cxx, NEW Ins, NEW R, Settled(w, cxx, Ins, R)
  PROVE  /\ Drops(w, R) /\ w \in Seq(Args) /\ Len(w) \in Nat /\ Given(w, {"--"}) = {}
         /\ Positions(Ins, Len(w)) /\ Positions(InputSet(w), Len(w)) /\ Positions(R, Len(w))
         /\ Cardinality(Ins) \in Nat /\ Ins \subseteq InputSet(w)
         /\ \A i \in InputSet(w) : i \in Int /\ (i \in R <=> i \notin Ins)
<1>1. Drops(w, R) /\ Ins \subseteq InputSet(w) /\ Given(w, {"--"}) = {}
      /\ \A i \in InputSet(w) : i \in R <=> i \notin Ins
  BY DEF Settled
<1>2. w \in Seq(Args) /\ Len(w) \in Nat /\ Positions(R, Len(w))
  BY <1>1, DropsPlaces
<1>3. Positions(InputSet(w), Len(w)) /\ \A i \in InputSet(w) : i \in Int
  BY <1>2, InputsAre
<1>4. Positions(Ins, Len(w))
  BY <1>1, <1>3 DEF Positions
<1>5. Cardinality(Ins) \in Nat
  BY <1>4, PositionsFinite
<1> QED BY <1>1, <1>2, <1>3, <1>4, <1>5

LEMMA SpotPlaces ==
  ASSUME NEW w, NEW cxx, NEW Ins, NEW R, Settled(w, cxx, Ins, R),
         NEW X, NEW A, Extra(X, A), Neutral(A), NEW Y, Files(Y), Cardinality(Ins) <= Len(Y)
  PROVE  /\ OneForOne(Spots(w, Ins, R, X), InputSet(w), UserPlaces(w, Ins, R, X, Y))
         /\ (\A i \in Ins, k \in InputSet(w) : i < k => k \in Ins)
              => \A i, k \in InputSet(w) : i < k => Spots(w, Ins, R, X)[i] < Spots(w, Ins, R, X)[k]
<1> DEFINE C == Joined(w, R, X, Y)
           b == Before(R, X)
           c == Cardinality(Ins)
           sp == Spots(w, Ins, R, X)
           W == UserPlaces(w, Ins, R, X, Y)
<1>1. /\ Drops(w, R) /\ w \in Seq(Args) /\ Len(w) \in Nat /\ Given(w, {"--"}) = {}
      /\ Positions(Ins, Len(w)) /\ Positions(InputSet(w), Len(w)) /\ Positions(R, Len(w))
      /\ c \in Nat /\ Ins \subseteq InputSet(w)
      /\ \A i \in InputSet(w) : i \in Int /\ (i \in R <=> i \notin Ins)
  BY SettledIs
<1>2. /\ \A i \in R : Rank(R, i) \in InputSet(C) <=> i \in InputSet(w)
      /\ \A j \in 1 .. Len(Y) : b + j \in InputSet(C)
      /\ \A p \in InputSet(C) : \/ \E i \in InputSet(w) \cap R : p = Rank(R, i)
                                \/ \E j \in 1 .. Len(Y) : p = b + j
  <2>1. "--" \notin A
    BY DEF Neutral
  <2> QED BY <1>1, <2>1, JoinedInputs
<1>3. /\ b \in Nat /\ Len(Y) \in Nat
      /\ \A i \in R : Rank(R, i) \in 1 .. b
  BY <1>1, JoinedWords
<1>4. /\ \A i \in Ins : Rank(Ins, i) \in 1 .. c /\ InOrder(Ins)[Rank(Ins, i)] = i
      /\ \A k \in 1 .. c : InOrder(Ins)[k] \in Ins /\ Rank(Ins, InOrder(Ins)[k]) = k
  BY <1>1, OrderFacts
<1>5. \A i \in R : InOrder(R)[Rank(R, i)] = i
  BY <1>1, OrderFacts
<1>6. /\ DOMAIN sp = InputSet(w)
      /\ \A i \in InputSet(w) : sp[i] = IF i \in Ins THEN b + Rank(Ins, i) ELSE Rank(R, i)
  BY DEF Spots
<1>7. \A p : p \in W <=> p \in InputSet(C) /\ p <= b + c
  BY DEF UserPlaces
<1>8. sp \in [InputSet(w) -> {sp[i] : i \in InputSet(w)}]
  BY DEF Spots
<1> HIDE DEF C, b, c, sp, W
<1>9. \A i \in InputSet(w) : \/ i \in Ins /\ sp[i] = b + Rank(Ins, i) /\ Rank(Ins, i) \in 1 .. c
                             \/ i \notin Ins /\ i \in R /\ sp[i] = Rank(R, i) /\ Rank(R, i) \in 1 .. b
  BY <1>1, <1>3, <1>4, <1>6
<1>10. \A i \in InputSet(w) : sp[i] \in W
  <2>1. SUFFICES ASSUME NEW i \in InputSet(w)  PROVE sp[i] \in W
    OBVIOUS
  <2>2. CASE i \in Ins
    <3>1. Rank(Ins, i) \in 1 .. Len(Y)
      BY <1>1, <1>3, <1>4, <2>2 DEF c
    <3> QED BY <1>1, <1>2, <1>3, <1>7, <1>9, <2>2, <3>1
  <2>3. CASE i \notin Ins
    BY <1>1, <1>2, <1>3, <1>7, <1>9, <2>3
  <2> QED BY <2>2, <2>3
<1>11. ASSUME NEW p \in W  PROVE \E i \in InputSet(w) : sp[i] = p
  <2>1. CASE \E i \in InputSet(w) \cap R : p = Rank(R, i)
    BY <1>1, <1>6, <2>1
  <2>2. ASSUME NEW j \in 1 .. Len(Y), p = b + j  PROVE \E i \in InputSet(w) : sp[i] = p
    <3>1. j \in 1 .. c
      BY <1>1, <1>3, <1>7, <1>11, <2>2
    <3>2. InOrder(Ins)[j] \in Ins /\ Rank(Ins, InOrder(Ins)[j]) = j
      BY <1>4, <3>1
    <3> QED BY <1>1, <1>6, <2>2, <3>2
  <2> QED BY <1>2, <1>7, <1>11, <2>1, <2>2
<1>12. ASSUME NEW i \in InputSet(w), NEW k \in InputSet(w), sp[i] = sp[k]  PROVE i = k
  <2>1. CASE i \in Ins /\ k \in Ins
    <3>1. Rank(Ins, i) = Rank(Ins, k)
      BY <1>1, <1>3, <1>9, <1>12, <2>1
    <3> QED BY <1>4, <2>1, <3>1
  <2>2. CASE i \notin Ins /\ k \notin Ins
    <3>1. Rank(R, i) = Rank(R, k) /\ i \in R /\ k \in R
      BY <1>9, <1>12, <2>2
    <3> QED BY <1>5, <3>1
  <2>3. ASSUME NEW x \in Ins, NEW y \in InputSet(w), y \notin Ins, sp[x] = sp[y]  PROVE FALSE
    <3>1. sp[x] = b + Rank(Ins, x) /\ Rank(Ins, x) \in 1 .. c
      BY <1>1, <1>9, <2>3
    <3>2. sp[y] \in 1 .. b
      BY <1>9, <2>3
    <3> QED BY <1>1, <1>3, <2>3, <3>1, <3>2
  <2> QED BY <1>12, <2>1, <2>2, <2>3
<1>13. OneForOne(sp, InputSet(w), W)
  <2>1. sp \in [InputSet(w) -> W]
    BY <1>8, <1>10
  <2> QED BY <1>11, <1>12, <2>1 DEF OneForOne
<1>14. ASSUME \A i \in Ins, k \in InputSet(w) : i < k => k \in Ins,
              NEW i \in InputSet(w), NEW k \in InputSet(w), i < k
       PROVE  sp[i] < sp[k]
  <2>1. i \in Int /\ k \in Int
    BY <1>1
  <2>2. CASE i \in Ins
    <3>1. k \in Ins
      BY <1>14, <2>2
    <3>2. Rank(Ins, i) < Rank(Ins, k)
      BY <1>1, <1>14, <2>1, <3>1, RankMonotone
    <3> QED BY <1>1, <1>3, <1>9, <2>2, <3>1, <3>2
  <2>3. CASE i \notin Ins /\ k \in Ins
    BY <1>1, <1>3, <1>9, <2>3
  <2>4. CASE i \notin Ins /\ k \notin Ins
    <3>1. k \in R
      BY <1>9, <2>4
    <3>2. Rank(R, i) < Rank(R, k)
      BY <1>1, <1>14, <2>1, <3>1, RankMonotone
    <3> QED BY <1>9, <2>4, <3>2
  <2> QED BY <2>2, <2>3, <2>4
<1> QED BY <1>13, <1>14 DEF sp, W

LEMMA NeutralForces ==
  ASSUME NEW X, NEW A, Extra(X, A), Neutral(A), NEW e
  PROVE  ValueBefore(X, {"-x", "--language"}, Len(X) + 1, e) = e
<1> DEFINE ws == {"-x", "--language"}
<1>1. ws \cap A = {}
  BY DEF Neutral
<1>2. Len(X) + 1 \in Int
  BY DEF Extra
<1> HIDE DEF ws
<1>3. \A d : \A z \in Int : ValueBefore(X, ws, z, d) = d
  BY <1>1, ExtraGiven
<1> QED BY <1>2, <1>3 DEF ws

LEMMA SpotContents ==
  ASSUME NEW w, NEW cxx, NEW Ins, NEW R, Settled(w, cxx, Ins, R),
         NEW X, NEW A, Extra(X, A), Neutral(A), NEW Y, Files(Y), Cardinality(Ins) <= Len(Y),
         NEW i \in InputSet(w)
  PROVE  SpotHas(w, cxx, Ins, R, X, Y, i)
<1> DEFINE C == Joined(w, R, X, Y)
           b == Before(R, X)
           c == Cardinality(Ins)
           p == Spots(w, Ins, R, X)[i]
           ws == {"-x", "--language"}
<1>1. /\ Drops(w, R) /\ Len(w) \in Nat /\ Positions(Ins, Len(w)) /\ c \in Nat
      /\ i \in R <=> i \notin Ins
  BY SettledIs
<1>2. /\ Len(Y) \in Nat
      /\ \A k \in R : C[Rank(R, k)] = w[k]
      /\ \A j \in 1 .. Len(Y) : C[b + j] = Y[j]
  BY <1>1, JoinedWords
<1>3. /\ \A k \in R : Language(C, cxx, Rank(R, k)) = Language(w, cxx, k)
      /\ \A j \in 1 .. Len(Y) : Forced(C, b + j) = ValueBefore(X, ws, Len(X) + 1, InForce(w))
  <2>1. LanguagesJoined(w, R, X, Y, cxx)
    BY <1>1, JoinedLanguage
  <2> QED BY <2>1 DEF LanguagesJoined
<1>4. ValueBefore(X, ws, Len(X) + 1, InForce(w)) = InForce(w)
  BY NeutralForces
<1>5. p = IF i \in Ins THEN b + Rank(Ins, i) ELSE Rank(R, i)
  BY DEF Spots
<1> HIDE DEF C, b, c, p, ws
<1>6. CASE i \in Ins
  <2>1. Rank(Ins, i) \in 1 .. c
    BY <1>1, <1>6, OrderFacts DEF c
  <2>2. Rank(Ins, i) \in 1 .. Len(Y)
    BY <1>1, <1>2, <2>1 DEF c
  <2>3. C[p] = Y[Rank(Ins, i)] /\ Forced(C, p) = InForce(w)
    BY <1>2, <1>3, <1>4, <1>5, <1>6, <2>2
  <2> QED BY <1>6, <2>3 DEF SpotHas, C, p
<1>7. CASE i \notin Ins
  <2>1. C[p] = w[i] /\ Language(C, cxx, p) = Language(w, cxx, i)
    BY <1>1, <1>2, <1>3, <1>5, <1>7
  <2> QED BY <1>7, <2>1 DEF SpotHas, C, p
<1> QED BY <1>6, <1>7
(* The file f is the input at i, or the instrumented IR that was made of it. *)
StandsFor(w, cxx, hooks, m, i, f) ==
  \/ f = w[i]
  \/ /\ hooks /\ f \in Generated /\ Native[f] = "ir"
     /\ f \in DOMAIN m /\ m[f] = <<w[i], Language(w, cxx, i)>>

(* The input at i is taken as the user's command takes it. *)
TakenAs(w, cxx, i, C, p, m) ==
  /\ Exists(C[p], m) /\ Fits(C, cxx, p)
  /\ UnitOf(C, cxx, p, m) = <<w[i], Language(w, cxx, i)>>
  /\ Language(C, cxx, p) = "object" <=> Language(w, cxx, i) = "object"

LEMMA SpotTaken ==
  ASSUME NEW w, NEW cxx, NEW Ins, NEW R, Settled(w, cxx, Ins, R),
         NEW m0, Works(w, cxx, m0), NEW hooks, hooks => InForce(w) = "none",
         NEW X, NEW A, Extra(X, A), Neutral(A), NEW Y, Files(Y), Cardinality(Ins) <= Len(Y),
         NEW i \in InputSet(w), NEW m,
         i \in Ins => StandsFor(w, cxx, hooks, m, i, Y[Rank(Ins, i)])
  PROVE  TakenAs(w, cxx, i, Joined(w, R, X, Y), Spots(w, Ins, R, X)[i], m)
<1> DEFINE C == Joined(w, R, X, Y)
           p == Spots(w, Ins, R, X)[i]
           f == Y[Rank(Ins, i)]
<1>1. /\ i \in Ins => C[p] = f /\ Forced(C, p) = InForce(w)
      /\ i \notin Ins => C[p] = w[i] /\ Language(C, cxx, p) = Language(w, cxx, i)
  BY SpotContents DEF SpotHas
<1>2. /\ w[i] \in DOMAIN Native \ Generated
      /\ i \in Ins => Forced(w, i) = InForce(w) /\ Language(w, cxx, i) \in {"c", "c++", "ir"}
  BY DEF Settled
<1>3. Fits(w, cxx, i)
  BY DEF Works
<1>4. /\ Given(w, StdC) = {} => Given(C, StdC) = {}
      /\ Given(w, StdCxx) = {} => Given(C, StdCxx) = {}
  <2>1. A \cap (StdC \cup StdCxx) = {}
    BY DEF Neutral
  <2> QED BY <2>1, JoinedStd
<1> HIDE DEF C, p, f
<1>5. CASE C[p] = w[i] /\ Language(C, cxx, p) = Language(w, cxx, i)
  <2>1. Exists(C[p], m)
    BY <1>2, <1>5 DEF Exists
  <2>2. Fits(C, cxx, p)
    BY <1>3, <1>4, <1>5 DEF Fits
  <2>3. UnitOf(C, cxx, p, m) = <<w[i], Language(w, cxx, i)>>
    BY <1>2, <1>5 DEF UnitOf
  <2> QED BY <1>5, <2>1, <2>2, <2>3 DEF TakenAs, C, p
<1>6. CASE i \in Ins /\ f = w[i]
  <2>1. C[p] = w[i] /\ Forced(C, p) = Forced(w, i)
    BY <1>1, <1>2, <1>6
  <2>2. Language(C, cxx, p) = Language(w, cxx, i)
    BY <2>1, Zenon DEF Language
  <2> QED BY <1>5, <2>1, <2>2
<1>7. CASE /\ i \in Ins /\ hooks /\ f \in Generated /\ Native[f] = "ir"
           /\ f \in DOMAIN m /\ m[f] = <<w[i], Language(w, cxx, i)>>
  <2>1. C[p] = f /\ Forced(C, p) = "none"
    BY <1>1, <1>7
  <2>2. Language(C, cxx, p) = "ir"
    BY <1>7, <2>1 DEF Language
  <2>3. Exists(C[p], m)
    BY <1>7, <2>1 DEF Exists
  <2>4. Fits(C, cxx, p)
    <3>1. f \notin Piped
      BY <1>7, Vocabulary
    <3> QED BY <1>7, <2>1, <2>2, <3>1 DEF Fits, Accepts
  <2>5. UnitOf(C, cxx, p, m) = <<w[i], Language(w, cxx, i)>>
    BY <1>7, <2>1 DEF UnitOf
  <2>6. Language(w, cxx, i) # "object"
    BY <1>2, <1>7
  <2> QED BY <2>2, <2>3, <2>4, <2>5, <2>6 DEF TakenAs, C, p
<1>8. CASE i \in Ins
  <2>1. StandsFor(w, cxx, hooks, m, i, f)
    BY <1>8 DEF f
  <2> QED BY <1>6, <1>7, <1>8, <2>1 DEF StandsFor
<1> QED BY <1>1, <1>5, <1>8
-----------------------------------------------------------------------------
(***************************************************************************)
(* The last command: the files that stand for the sources and, if it links *)
(* one, the runtime.                                                       *)
(***************************************************************************)
RuntimeUnit == <<RuntimeO, "object">>

(* The files Y of the last command are those of Ins and, if r, the runtime. *)
LastFiles(w, cxx, hooks, Ins, r, Y, m) ==
  /\ Files(Y) /\ hooks \in BOOLEAN /\ r \in BOOLEAN
  /\ Len(Y) = Cardinality(Ins) + (IF r THEN 1 ELSE 0)
  /\ \A i \in Ins : StandsFor(w, cxx, hooks, m, i, Y[Rank(Ins, i)])
  /\ r => /\ hooks /\ Mode(w) = "link" /\ Y[Cardinality(Ins) + 1] = RuntimeO
          /\ RuntimeO \in DOMAIN m /\ m[RuntimeO] = RuntimeUnit
  /\ hooks => InForce(w) = "none"

LEMMA OneForOnePart ==
  ASSUME NEW f, NEW S, NEW T, OneForOne(f, S, T), NEW S0, NEW T0, S0 \subseteq S, T0 \subseteq T,
         \A x \in S : x \in S0 <=> f[x] \in T0
  PROVE  OneForOne([x \in S0 |-> f[x]], S0, T0)
<1> DEFINE g == [x \in S0 |-> f[x]]
<1>1. /\ \A x \in S : f[x] \in T
      /\ \A x, y \in S : f[x] = f[y] => x = y
      /\ \A t \in T : \E x \in S : f[x] = t
  BY DEF OneForOne
<1>2. g \in [S0 -> T0]
  OBVIOUS
<1>3. \A x \in S0 : g[x] = f[x]
  OBVIOUS
<1> HIDE DEF g
<1>4. \A x, y \in S0 : g[x] = g[y] => x = y
  BY <1>1, <1>3
<1>5. ASSUME NEW t \in T0  PROVE \E x \in S0 : g[x] = t
  <2>1. PICK x \in S : f[x] = t
    BY <1>1
  <2>2. x \in S0
    BY <2>1
  <2> QED BY <1>3, <2>1, <2>2
<1>6. OneForOne(g, S0, T0)
  BY <1>2, <1>4, <1>5 DEF OneForOne
<1> QED BY <1>6 DEF g

(* The inputs of the last command. *)
LEMMA LastInputs ==
  ASSUME NEW w, NEW cxx, NEW Ins, NEW R, Settled(w, cxx, Ins, R),
         NEW X, NEW A, Extra(X, A), Neutral(A),
         NEW hooks, NEW r, NEW Y, NEW m, LastFiles(w, cxx, hooks, Ins, r, Y, m)
  PROVE  LET C == Joined(w, R, X, Y)
             q == Before(R, X) + Cardinality(Ins) + 1
         IN /\ C \in Seq(Args) /\ Closed(C) /\ q \in Nat
            /\ InputSet(C) = UserPlaces(w, Ins, R, X, Y) \cup (IF r THEN {q} ELSE {})
            /\ Positions(UserPlaces(w, Ins, R, X, Y), q - 1)
            /\ r => /\ Exists(C[q], m) /\ Fits(C, cxx, q) /\ UnitOf(C, cxx, q, m) = RuntimeUnit
                    /\ Language(C, cxx, q) = "object"
<1> DEFINE C == Joined(w, R, X, Y)
           b == Before(R, X)
           c == Cardinality(Ins)
           q == b + c + 1
           W == UserPlaces(w, Ins, R, X, Y)
<1>1. Files(Y) /\ r \in BOOLEAN /\ Len(Y) = c + (IF r THEN 1 ELSE 0)
  BY DEF LastFiles
<1>2. Drops(w, R) /\ c \in Nat /\ Given(w, {"--"}) = {} /\ "--" \notin A
  BY SettledIs DEF Neutral
<1>3. /\ C \in Seq(Args) /\ b \in Nat /\ Len(Y) \in Nat /\ Len(C) = b + Len(Y) /\ Closed(C)
      /\ \A i \in R : Rank(R, i) \in 1 .. b
      /\ \A j \in 1 .. Len(Y) : C[b + j] = Y[j]
  BY <1>1, <1>2, JoinedWords
<1>4. /\ \A j \in 1 .. Len(Y) : b + j \in InputSet(C)
      /\ \A p \in InputSet(C) : \/ \E i \in InputSet(w) \cap R : p = Rank(R, i)
                                \/ \E j \in 1 .. Len(Y) : p = b + j
  BY <1>1, <1>2, JoinedInputs
<1>5. \A j \in 1 .. Len(Y) : Forced(C, b + j) = InForce(w)
  <2>1. \A j \in 1 .. Len(Y) :
          Forced(C, b + j) = ValueBefore(X, {"-x", "--language"}, Len(X) + 1, InForce(w))
    <3>1. LanguagesJoined(w, R, X, Y, cxx)
      BY <1>1, <1>2, JoinedLanguage
    <3> QED BY <3>1 DEF LanguagesJoined
  <2> DEFINE e == InForce(w)
  <2>2. ValueBefore(X, {"-x", "--language"}, Len(X) + 1, e) = e
    <3> HIDE DEF e
    <3> QED BY NeutralForces
  <2> QED BY <2>1, <2>2
<1>6. \A p : p \in W <=> p \in InputSet(C) /\ p <= b + c
  BY DEF UserPlaces
<1>7. \A p \in InputSet(C) : p \in Int /\ p \in 1 .. Len(C)
  BY <1>3, InputsAre
<1> HIDE DEF C, b, c, W
<1>8. q \in Nat /\ q - 1 = b + c
  BY <1>2, <1>3 DEF c
<1>9. Positions(W, q - 1)
  <2>1. \A p \in W : p \in 1 .. b + c
    BY <1>2, <1>3, <1>6, <1>7
  <2>2. Positions(W, b + c)
    BY <1>2, <1>3, <2>1 DEF Positions, c
  <2> HIDE DEF q
  <2> QED BY <1>8, <2>2
<1>10. InputSet(C) = W \cup (IF r THEN {q} ELSE {})
  <2>1. ASSUME NEW p \in InputSet(C), p \notin W  PROVE r /\ p = q
    <3>1. ~(p <= b + c)
      BY <1>6, <2>1
    <3>2. PICK j \in 1 .. Len(Y) : p = b + j
      <4>1. ~ \E i \in InputSet(w) \cap R : p = Rank(R, i)
        BY <1>2, <1>3, <3>1 DEF c
      <4> QED BY <1>4, <4>1
    <3>3. j \in Int /\ j > c /\ j <= Len(Y)
      BY <1>2, <1>3, <3>1, <3>2 DEF c
    <3> QED BY <1>1, <1>2, <1>3, <3>2, <3>3, SMTT(30) DEF c
  <2>2. r => q \in InputSet(C)
    <3>1. r => c + 1 \in 1 .. Len(Y) /\ b + (c + 1) = q
      BY <1>1, <1>2, <1>3 DEF c
    <3> QED BY <1>4, <3>1
  <2>3. \A p \in W : p \in InputSet(C)
    BY <1>6
  <2> QED BY <1>1, <2>1, <2>2, <2>3
<1>11. ASSUME r
       PROVE  /\ Exists(C[q], m) /\ Fits(C, cxx, q) /\ UnitOf(C, cxx, q, m) = RuntimeUnit
              /\ Language(C, cxx, q) = "object"
  <2>1. c + 1 \in 1 .. Len(Y) /\ b + (c + 1) = q
    BY <1>1, <1>2, <1>3, <1>11 DEF c
  <2>2. /\ Y[c + 1] = RuntimeO /\ RuntimeO \in DOMAIN m /\ m[RuntimeO] = RuntimeUnit
        /\ InForce(w) = "none"
    BY <1>11 DEF LastFiles, c
  <2>3. C[q] = RuntimeO /\ Forced(C, q) = "none"
    BY <1>3, <1>5, <2>1, <2>2
  <2>4. RuntimeO \in Generated /\ Native[RuntimeO] = "object" /\ RuntimeO \notin Piped
    BY VocabularyAssumption, Vocabulary
  <2> HIDE DEF q
  <2>5. Language(C, cxx, q) = "object"
    BY <2>3, <2>4 DEF Language
  <2>6. Exists(C[q], m)
    BY <2>2, <2>3 DEF Exists
  <2>7. Fits(C, cxx, q)
    BY <2>3, <2>4, <2>5 DEF Fits, Accepts
  <2>8. UnitOf(C, cxx, q, m) = RuntimeUnit
    BY <2>2, <2>3, <2>4 DEF UnitOf
  <2> QED BY <2>5, <2>6, <2>7, <2>8
<1> QED BY <1>3, <1>8, <1>9, <1>10, <1>11 DEF C, b, c, W
LEMMA LastWorks ==
  ASSUME NEW w, NEW cxx, NEW Ins, NEW R, Settled(w, cxx, Ins, R), NEW m0, Works(w, cxx, m0),
         NEW X, NEW A, Extra(X, A), Neutral(A),
         NEW hooks, NEW r, NEW Y, NEW m, LastFiles(w, cxx, hooks, Ins, r, Y, m)
  PROVE  LET C == Joined(w, R, X, Y)
             sp == Spots(w, Ins, R, X)
             W == UserPlaces(w, Ins, R, X, Y)
         IN /\ Works(C, cxx, m) /\ Mode(C) = Mode(w) /\ Output(C) = Output(w)
            /\ \A i \in InputSet(w) : TakenAs(w, cxx, i, C, sp[i], m)
            /\ OneForOne(sp, InputSet(w), W)
            /\ CompSet(C, cxx) \subseteq W
            /\ OneForOne([i \in CompSet(w, cxx) |-> sp[i]], CompSet(w, cxx), CompSet(C, cxx))
<1> DEFINE C == Joined(w, R, X, Y)
           sp == Spots(w, Ins, R, X)
           W == UserPlaces(w, Ins, R, X, Y)
           q == Before(R, X) + Cardinality(Ins) + 1
<1>1. Files(Y) /\ r \in BOOLEAN /\ Len(Y) = Cardinality(Ins) + (IF r THEN 1 ELSE 0)
      /\ (hooks => InForce(w) = "none")
      /\ (\A i \in Ins : StandsFor(w, cxx, hooks, m, i, Y[Rank(Ins, i)]))
  BY DEF LastFiles
<1>2. Cardinality(Ins) \in Nat /\ w \in Seq(Args)
  BY SettledIs
<1>3. Cardinality(Ins) <= Len(Y)
  BY <1>1, <1>2
<1>4. /\ C \in Seq(Args) /\ Closed(C) /\ q \in Nat
      /\ InputSet(C) = W \cup (IF r THEN {q} ELSE {})
      /\ r => /\ Exists(C[q], m) /\ Fits(C, cxx, q) /\ UnitOf(C, cxx, q, m) = RuntimeUnit
              /\ Language(C, cxx, q) = "object"
  BY LastInputs
<1>5. OneForOne(sp, InputSet(w), W)
  BY <1>1, <1>3, SpotPlaces
<1>6. Mode(C) = Mode(w) /\ Output(C) = Output(w)
  BY <1>1, JoinedMode
<1>7. \A i \in InputSet(w) : TakenAs(w, cxx, i, C, sp[i], m)
  BY <1>1, <1>3, SpotTaken
<1> HIDE DEF C, sp, W, q
<1>8. /\ \A i \in InputSet(w) : sp[i] \in W
      /\ \A p \in W : \E i \in InputSet(w) : sp[i] = p
  BY <1>5 DEF OneForOne
<1>9. CompSet(C, cxx) \subseteq W
  BY <1>4 DEF CompSet
<1>10. \A i \in InputSet(w) : i \in CompSet(w, cxx) <=> sp[i] \in CompSet(C, cxx)
  <2>1. SUFFICES ASSUME NEW i \in InputSet(w)
                 PROVE  i \in CompSet(w, cxx) <=> sp[i] \in CompSet(C, cxx)
    OBVIOUS
  <2>2. Language(C, cxx, sp[i]) = "object" <=> Language(w, cxx, i) = "object"
    BY <1>7 DEF TakenAs
  <2>3. sp[i] \in InputSet(C)
    BY <1>4, <1>8
  <2> QED BY <2>2, <2>3 DEF CompSet
<1> DEFINE part == [i \in CompSet(w, cxx) |-> sp[i]]
<1>11. OneForOne(part, CompSet(w, cxx), CompSet(C, cxx))
  <2>1. CompSet(w, cxx) \subseteq InputSet(w)
    BY DEF CompSet
  <2> QED BY <1>5, <1>9, <1>10, <2>1, OneForOnePart
<1> HIDE DEF part
<1>12. Cardinality(CompSet(C, cxx)) = Cardinality(CompSet(w, cxx))
  <2>1. IsFiniteSet(CompSet(w, cxx))
    BY <1>2, CompiledIs, PositionsFinite
  <2> QED BY <1>11, <2>1, SameSize
<1>13. Works(C, cxx, m)
  <2>1. InputSet(w) # {}
    BY DEF Works
  <2>2. InputSet(C) # {}
    BY <1>4, <1>8, <2>1
  <2>3. C[Len(C)] \notin Valued
    <3>1. C # <<>>
      <4>1. \A p \in InputSet(C) : p \in 1 .. Len(C)
        BY <1>4, InputsAre
      <4>2. PICK p \in 1 .. Len(C) : TRUE
        BY <2>2, <4>1
      <4> QED BY <4>2
    <3> QED BY <1>4, <3>1 DEF Closed
  <2>4. ASSUME NEW p \in InputSet(C)  PROVE Exists(C[p], m) /\ Fits(C, cxx, p)
    <3>1. CASE p \in W
      <4>1. PICK i \in InputSet(w) : sp[i] = p
        BY <1>8, <3>1
      <4> QED BY <1>7, <4>1 DEF TakenAs
    <3>2. CASE r /\ p = q
      BY <1>4, <3>2
    <3> QED BY <1>4, <3>1, <3>2
  <2>5. Mode(C) = "link" \/ Output(C) = "none" \/ Cardinality(CompSet(C, cxx)) <= 1
    BY <1>6, <1>12 DEF Works
  <2> QED BY <2>2, <2>3, <2>4, <2>5 DEF Works
<1> QED BY <1>5, <1>6, <1>7, <1>9, <1>11, <1>13 DEF C, sp, W, part

(* What the last command makes is what the user's makes, and the runtime. *)
Makes(w, cxx, Ins, r, C, m, m0) ==
  LET made1 == UnitsMade(C, cxx, m)
      plain == UnitsMade(w, cxx, m0)
  IN /\ Works(C, cxx, m) /\ Mode(C) = Mode(w) /\ Output(C) = Output(w)
     /\ ToBag(Left(made1, {RuntimeUnit})) = ToBag(plain)
     /\ Contains(made1, RuntimeUnit) <=> r
     /\ (\A i \in Ins, k \in InputSet(w) : i < k => k \in Ins)
          => Left(made1, {RuntimeUnit}) = plain

LEMMA OrderedType ==
  ASSUME NEW l, NEW S, Positions(S, l), NEW u, NEW U, \A i \in S : u[i] \in U
  PROVE  /\ Ordered(S, u) \in Seq(U) /\ Len(Ordered(S, u)) = Cardinality(S)
         /\ \A k \in 1 .. Cardinality(S) : \E i \in S : Ordered(S, u)[k] = u[i]
<1> DEFINE c == Cardinality(S)
           s == Ordered(S, u)
<1>1. c \in Nat
  BY PositionsFinite
<1>2. \A k \in 1 .. c : InOrder(S)[k] \in S
  BY OrderFacts
<1>3. s = [k \in 1 .. c |-> u[InOrder(S)[k]]]
  BY DEF Ordered
<1> HIDE DEF c
<1>4. s \in Seq(U) /\ Len(s) = c
  BY <1>1, <1>2, <1>3, IsASeq
<1> QED BY <1>2, <1>3, <1>4 DEF c

LEMMA OrderedMore ==
  ASSUME NEW l, NEW S, Positions(S, l), NEW u
  PROVE  Ordered(S \cup {l + 1}, u) = Append(Ordered(S, u), u[l + 1])
<1> DEFINE o == InOrder(S)
           c == Cardinality(S)
           T == S \cup {l + 1}
<1>1. InOrder(T) = Append(o, l + 1)
  BY OrderMore
<1>2. o \in Seq(S) /\ Len(o) = c /\ c \in Nat
  <2>1. c \in Nat
    BY PositionsFinite
  <2> QED BY <2>1, OrderFacts
<1>3. Cardinality(T) = c + 1
  <2>1. IsFiniteSet(S) /\ l + 1 \notin S
    BY PositionsFinite, PositionsAre
  <2> QED BY <2>1, FS_AddElement
<1>4. Ordered(T, u) = [k \in 1 .. c + 1 |-> u[Append(o, l + 1)[k]]]
  BY <1>1, <1>3 DEF Ordered
<1>5. Ordered(S, u) = [k \in 1 .. c |-> u[o[k]]]
  BY DEF Ordered
<1> HIDE DEF o, c, T
<1> DEFINE s == Ordered(S, u)
           t == Append(s, u[l + 1])
           U == {u[i] : i \in S \cup {l + 1}}
<1>6. s \in Seq(U) /\ Len(s) = c
  <2>1. \A k \in 1 .. c : o[k] \in S
    BY <1>2
  <2>2. \A k \in 1 .. c : u[o[k]] \in U
    BY <2>1
  <2> HIDE DEF U
  <2> QED BY <1>2, <1>5, <2>2, IsASeq
<1>7. u[l + 1] \in U
  OBVIOUS
<1>8. \A k \in 1 .. c : s[k] = u[o[k]]
  BY <1>5
<1> HIDE DEF s, U
<1>9. /\ DOMAIN t = 1 .. c + 1 /\ t[c + 1] = u[l + 1] /\ t \in Seq(U)
      /\ \A k \in 1 .. c : t[k] = s[k]
  BY <1>2, <1>6, <1>7
<1>10. /\ Append(o, l + 1)[c + 1] = l + 1
       /\ \A k \in 1 .. c : Append(o, l + 1)[k] = o[k]
  <2>1. o \in Seq(S \cup {l + 1}) /\ l + 1 \in S \cup {l + 1}
    BY <1>2
  <2> QED BY <1>2, <2>1
<1>11. \A k \in 1 .. c + 1 : k \in 1 .. c \/ k = c + 1
  BY <1>2
<1> HIDE DEF t
<1>12. \A k \in 1 .. c + 1 : t[k] = u[Append(o, l + 1)[k]]
  BY <1>8, <1>9, <1>10, <1>11
<1>13. t = [k \in 1 .. c + 1 |-> t[k]]
  BY <1>2, <1>9
<1>14. t = Ordered(T, u)
  BY <1>4, <1>12, <1>13
<1> QED BY <1>14 DEF t, T, s
LEMMA UnitsAre ==
  ASSUME NEW argv \in Seq(Args), NEW cxx, NEW m, NEW S, Used(argv, cxx) = S
  PROVE  /\ Positions(S, Len(argv)) /\ S \subseteq InputSet(argv)
         /\ UnitsMade(argv, cxx, m) = Ordered(S, [p \in S |-> UnitOf(argv, cxx, p, m)])
<1> DEFINE u == [p \in S |-> UnitOf(argv, cxx, p, m)]
           c == Cardinality(S)
<1>1. Positions(S, Len(argv)) /\ S \subseteq InputSet(argv)
  BY InputsAre, CompiledIs DEF Used, CompSet
<1>2. \A k \in 1 .. c : InOrder(S)[k] \in S
  BY <1>1, OrderFacts
<1>3. \A k \in 1 .. c : u[InOrder(S)[k]] = UnitOf(argv, cxx, InOrder(S)[k], m)
  BY <1>2
<1> HIDE DEF u
<1>4. [k \in 1 .. c |-> u[InOrder(S)[k]]] = [k \in 1 .. c |-> UnitOf(argv, cxx, InOrder(S)[k], m)]
  BY <1>3
<1>5. UnitsMade(argv, cxx, m) = [k \in 1 .. c |-> UnitOf(argv, cxx, InOrder(S)[k], m)]
  BY DEF UnitsMade
<1>6. UnitsMade(argv, cxx, m) = Ordered(S, u)
  BY <1>4, <1>5 DEF Ordered
<1> QED BY <1>1, <1>6 DEF u

LEMMA LastMakes ==
  ASSUME NEW w, NEW cxx, NEW Ins, NEW R, Settled(w, cxx, Ins, R), NEW m0, Works(w, cxx, m0),
         NEW X, NEW A, Extra(X, A), Neutral(A),
         NEW hooks, NEW r, NEW Y, NEW m, LastFiles(w, cxx, hooks, Ins, r, Y, m)
  PROVE  Makes(w, cxx, Ins, r, Joined(w, R, X, Y), m, m0)
<1> DEFINE C == Joined(w, R, X, Y)
           sp == Spots(w, Ins, R, X)
           W == UserPlaces(w, Ins, R, X, Y)
           q == Before(R, X) + Cardinality(Ins) + 1
           V == Used(w, cxx)
           S == Used(C, cxx)
           U == S \cap W
           uw == [i \in V |-> UnitOf(w, cxx, i, m0)]
           us == [p \in S |-> UnitOf(C, cxx, p, m)]
           part == [i \in V |-> sp[i]]
<1>1. /\ Works(C, cxx, m) /\ Mode(C) = Mode(w) /\ Output(C) = Output(w)
      /\ \A i \in InputSet(w) : TakenAs(w, cxx, i, C, sp[i], m)
      /\ OneForOne(sp, InputSet(w), W)
      /\ CompSet(C, cxx) \subseteq W
      /\ OneForOne([i \in CompSet(w, cxx) |-> sp[i]], CompSet(w, cxx), CompSet(C, cxx))
  BY LastWorks
<1>2. /\ C \in Seq(Args) /\ q \in Nat
      /\ InputSet(C) = W \cup (IF r THEN {q} ELSE {})
      /\ Positions(W, q - 1)
      /\ r => UnitOf(C, cxx, q, m) = RuntimeUnit
  BY LastInputs
<1>3. (\A i \in Ins, k \in InputSet(w) : i < k => k \in Ins)
        => \A i, k \in InputSet(w) : i < k => sp[i] < sp[k]
  <2>1. Files(Y) /\ Cardinality(Ins) <= Len(Y)
    <3>1. Cardinality(Ins) \in Nat
      BY SettledIs
    <3> QED BY <3>1 DEF LastFiles
  <2> QED BY <2>1, SpotPlaces
<1>4. w \in Seq(Args) /\ \A i \in InputSet(w) : w[i] \in DOMAIN Native \ Generated
  BY SettledIs DEF Settled
<1>5. r \in BOOLEAN /\ (r => Mode(w) = "link")
  BY DEF LastFiles
<1> HIDE DEF C, sp, W, q
<1>6. /\ Positions(V, Len(w)) /\ V \subseteq InputSet(w)
      /\ UnitsMade(w, cxx, m0) = Ordered(V, uw)
  BY <1>4, UnitsAre
<1>7. /\ Positions(S, Len(C)) /\ S \subseteq InputSet(C)
      /\ UnitsMade(C, cxx, m) = Ordered(S, us)
  BY <1>2, UnitsAre
<1>8. S = U \cup (IF r THEN {q} ELSE {})
  <2>1. CASE Mode(C) = "link"
    BY <1>2, <2>1 DEF Used
  <2>2. CASE Mode(C) # "link"
    <3>1. ~r
      BY <1>1, <1>5, <2>2
    <3>2. S = CompSet(C, cxx)
      BY <2>2 DEF Used
    <3> HIDE DEF S
    <3> QED BY <1>1, <3>1, <3>2
  <2> QED BY <2>1, <2>2
<1>9. OneForOne(part, V, U)
  <2>1. CASE Mode(C) = "link"
    <3>1. V = InputSet(w) /\ U = W
      BY <1>1, <1>2, <2>1 DEF Used
    <3>2. \A i \in InputSet(w) : i \in V <=> sp[i] \in U
      BY <1>1, <3>1 DEF OneForOne
    <3> HIDE DEF V, U
    <3> QED BY <1>1, <3>1, <3>2, OneForOnePart
  <2>2. CASE Mode(C) # "link"
    <3>1. V = CompSet(w, cxx) /\ U = CompSet(C, cxx)
      BY <1>1, <2>2 DEF Used
    <3> HIDE DEF V, U
    <3> QED BY <1>1, <3>1
  <2> QED BY <2>1, <2>2
<1>10. Positions(U, q - 1) /\ U \subseteq S /\ U \subseteq W
  BY <1>2 DEF Positions
<1>11. \A i \in V : uw[i] = <<w[i], Language(w, cxx, i)>>
  BY <1>4, <1>6 DEF UnitOf
<1>12. \A i \in V : part[i] = sp[i] /\ part[i] \in U
  BY <1>9 DEF OneForOne
<1>13. \A i \in V : us[part[i]] = uw[i]
  <2>1. SUFFICES ASSUME NEW i \in V  PROVE us[part[i]] = uw[i]
    OBVIOUS
  <2>2. UnitOf(C, cxx, sp[i], m) = <<w[i], Language(w, cxx, i)>>
    BY <1>1, <1>6 DEF TakenAs
  <2>3. part[i] \in S
    BY <1>10, <1>12
  <2>4. us[part[i]] = UnitOf(C, cxx, part[i], m)
    <3> HIDE DEF S, part
    <3> QED BY <2>3
  <2> QED BY <1>11, <1>12, <2>2, <2>4
<1> HIDE DEF V, S, U, uw, us, part
<1>14. /\ ToBag(Ordered(U, us)) = ToBag(Ordered(V, uw))
       /\ (\A i, k \in V : i < k => part[i] < part[k]) => Ordered(U, us) = Ordered(V, uw)
  BY <1>6, <1>9, <1>10, <1>13, Reordered
<1>15. \A p \in U : us[p] # RuntimeUnit
  <2>1. SUFFICES ASSUME NEW p \in U  PROVE us[p] # RuntimeUnit
    OBVIOUS
  <2>2. PICK i \in V : part[i] = p
    BY <1>9 DEF OneForOne
  <2>3. us[p] = <<w[i], Language(w, cxx, i)>> /\ w[i] \notin Generated
    BY <1>4, <1>6, <1>11, <1>13, <2>2
  <2> QED BY <2>3, VocabularyAssumption DEF RuntimeUnit
<1> DEFINE T == {us[p] : p \in S}
           D == {RuntimeUnit}
           s == Ordered(U, us)
<1>16. /\ s \in Seq(T) /\ Len(s) \in Nat
       /\ \A k \in 1 .. Len(s) : s[k] \notin D
  <2>1. \A p \in U : us[p] \in T
    BY <1>10
  <2> HIDE DEF T
  <2>2. s \in Seq(T) /\ Len(s) = Cardinality(U)
        /\ \A k \in 1 .. Cardinality(U) : \E p \in U : s[k] = us[p]
    BY <1>10, <2>1, OrderedType
  <2> QED BY <1>15, <2>2
<1>17. Left(s, D) = s
  <2> HIDE DEF s, D, T
  <2> QED BY <1>16, LeftAll
<1>18. /\ Left(UnitsMade(C, cxx, m), D) = s
       /\ Contains(UnitsMade(C, cxx, m), RuntimeUnit) <=> r
  <2>1. CASE ~r
    <3>1. S = U
      BY <1>8, <2>1
    <3>2. UnitsMade(C, cxx, m) = s
      BY <1>7, <3>1
    <3> QED BY <1>16, <1>17, <2>1, <3>2 DEF Contains
  <2>2. CASE r
    <3>1. S = U \cup {(q - 1) + 1}
      BY <1>2, <1>8, <2>2
    <3>2. (q - 1) + 1 = q
      BY <1>2
    <3>3. UnitsMade(C, cxx, m) = Append(s, us[q])
      <4> HIDE DEF s
      <4>1. Ordered(U \cup {(q - 1) + 1}, us) = Append(Ordered(U, us), us[(q - 1) + 1])
        BY <1>10, OrderedMore
      <4> QED BY <1>7, <3>1, <3>2, <4>1 DEF s
    <3>4. us[q] = RuntimeUnit /\ us[q] \in T
      <4>1. q \in S
        BY <1>8, <2>2
      <4> QED BY <1>2, <2>2, <4>1 DEF us
    <3> HIDE DEF s, T
    <3>5. Left(Append(s, us[q]), D) = Left(s, D)
      <4>1. us[q] \in D
        BY <3>4
      <4> HIDE DEF D
      <4> DEFINE x == us[q]
      <4>2. x \in T /\ s \in Seq(T)
        BY <1>16, <3>4
      <4> HIDE DEF x
      <4>3. Left(Append(s, x), D) = IF x \in D THEN Left(s, D) ELSE Append(Left(s, D), x)
        BY <4>2, LeftAppend DEF LeftGrows
      <4> QED BY <4>1, <4>3 DEF x
    <3>6. Contains(Append(s, us[q]), RuntimeUnit)
      <4>1. Len(s) + 1 \in DOMAIN Append(s, us[q]) /\ Append(s, us[q])[Len(s) + 1] = us[q]
        BY <1>16, <3>4
      <4>2. Len(s) + 1 \in 1 .. Len(Append(s, us[q]))
        BY <1>16, <3>4
      <4> QED BY <3>4, <4>1, <4>2 DEF Contains
    <3> QED BY <1>17, <2>2, <3>3, <3>5, <3>6
  <2> QED BY <1>5, <2>1, <2>2
<1>19. (\A i \in Ins, k \in InputSet(w) : i < k => k \in Ins) => s = Ordered(V, uw)
  <2>1. SUFFICES ASSUME \A i \in Ins, k \in InputSet(w) : i < k => k \in Ins
                 PROVE  s = Ordered(V, uw)
    OBVIOUS
  <2>2. \A i, k \in V : i < k => part[i] < part[k]
    BY <1>3, <1>6, <1>12, <2>1
  <2> QED BY <1>14, <2>2
<1> QED BY <1>1, <1>6, <1>14, <1>18, <1>19 DEF Makes, C
-----------------------------------------------------------------------------
(***************************************************************************)
(* A command of the wrapper that compiles one file, where the sources are  *)
(* all that the user's command compiles.                                   *)
(***************************************************************************)
IsOne(Y, f) == Len(Y) = 1 /\ Y[1] = f

LEMMA OneFileIs ==
  ASSUME NEW w, NEW cxx, NEW Ins, NEW R, Settled(w, cxx, Ins, R), CompSet(w, cxx) = Ins,
         NEW X, NEW A, Extra(X, A), "--" \notin A, NEW f,
         NEW Y, Files(Y), IsOne(Y, f)
  PROVE  LET C == Joined(w, R, X, Y)
             q == Before(R, X) + 1
         IN /\ C \in Seq(Args) /\ Closed(C) /\ q \in InputSet(C) /\ C[q] = f
            /\ Forced(C, q) = ValueBefore(X, {"-x", "--language"}, Len(X) + 1, InForce(w))
            /\ \A p \in InputSet(C) : p # q =>
                 \E i \in InputSet(w) : /\ C[p] = w[i] /\ Language(C, cxx, p) = "object"
                                        /\ Language(w, cxx, i) = "object"
            /\ Language(C, cxx, q) # "object" => CompSet(C, cxx) = {q}
<1> DEFINE C == Joined(w, R, X, Y)
           b == Before(R, X)
           q == b + 1
<1>1. Drops(w, R) /\ Given(w, {"--"}) = {} /\ \A i \in InputSet(w) : i \in R <=> i \notin Ins
  BY SettledIs
<1>2. /\ C \in Seq(Args) /\ b \in Nat /\ Closed(C)
      /\ \A i \in R : Rank(R, i) \in 1 .. b /\ C[Rank(R, i)] = w[i]
      /\ \A j \in 1 .. Len(Y) : C[b + j] = Y[j]
  BY <1>1, JoinedWords
<1>3. /\ \A j \in 1 .. Len(Y) : b + j \in InputSet(C)
      /\ \A p \in InputSet(C) : \/ \E i \in InputSet(w) \cap R : p = Rank(R, i)
                                \/ \E j \in 1 .. Len(Y) : p = b + j
  BY <1>1, JoinedInputs
<1>4. /\ \A i \in R : Language(C, cxx, Rank(R, i)) = Language(w, cxx, i)
      /\ \A j \in 1 .. Len(Y) :
           Forced(C, b + j) = ValueBefore(X, {"-x", "--language"}, Len(X) + 1, InForce(w))
  <2>1. LanguagesJoined(w, R, X, Y, cxx)
    BY <1>1, JoinedLanguage
  <2> QED BY <2>1 DEF LanguagesJoined
<1> HIDE DEF C, b
<1>5. 1 \in 1 .. Len(Y) /\ \A j \in 1 .. Len(Y) : j = 1
  BY DEF IsOne
<1>6. /\ q \in InputSet(C) /\ C[q] = f
      /\ Forced(C, q) = ValueBefore(X, {"-x", "--language"}, Len(X) + 1, InForce(w))
  BY <1>2, <1>3, <1>4, <1>5 DEF IsOne
<1>7. ASSUME NEW p \in InputSet(C), p # q
      PROVE  \E i \in InputSet(w) : /\ C[p] = w[i] /\ Language(C, cxx, p) = "object"
                                    /\ Language(w, cxx, i) = "object"
  <2>1. PICK i \in InputSet(w) \cap R : p = Rank(R, i)
    BY <1>3, <1>5, <1>7
  <2>2. i \notin CompSet(w, cxx)
    BY <1>1, <2>1
  <2>3. Language(w, cxx, i) = "object"
    BY <2>1, <2>2 DEF CompSet
  <2> QED BY <1>2, <1>4, <2>1, <2>3
<1>8. Language(C, cxx, q) # "object" => CompSet(C, cxx) = {q}
  BY <1>6, <1>7 DEF CompSet
<1> HIDE DEF q
<1> QED BY <1>2, <1>6, <1>7, <1>8 DEF C, q, b

LEMMA OneFile ==
  ASSUME NEW w, NEW cxx, NEW Ins, NEW R, Settled(w, cxx, Ins, R), CompSet(w, cxx) = Ins,
         NEW X, NEW A, Extra(X, A), "--" \notin A, NEW f \in Args, f \in DOMAIN Native
  PROVE  LET C == Joined(w, R, X, <<f>>)
             q == Before(R, X) + 1
         IN /\ Files(<<f>>) /\ C \in Seq(Args) /\ Closed(C) /\ q \in InputSet(C) /\ C[q] = f
            /\ Forced(C, q) = ValueBefore(X, {"-x", "--language"}, Len(X) + 1, InForce(w))
            /\ \A p \in InputSet(C) : p # q =>
                 \E i \in InputSet(w) : /\ C[p] = w[i] /\ Language(C, cxx, p) = "object"
                                        /\ Language(w, cxx, i) = "object"
            /\ Language(C, cxx, q) # "object" => CompSet(C, cxx) = {q}
<1> DEFINE Y == <<f>>
<1>1. Files(Y) /\ IsOne(Y, f)
  BY DEF Files, IsOne
<1> HIDE DEF Y
<1> QED BY <1>1, OneFileIs DEF Y

(* The runtime compiles: it is C, and no option of the user stops it. *)
LEMMA RuntimeWorks ==
  ASSUME NEW w, NEW cxx \in BOOLEAN, NEW Ins, NEW R, Settled(w, cxx, Ins, R),
         CompSet(w, cxx) = Ins, Given(w, StdCxx) = {}, InForce(w) = "none",
         NEW X, NEW A, Extra(X, A), "--" \notin A, A \cap (StdC \cup StdCxx) = {},
         ValueBefore(X, {"-x", "--language"}, Len(X) + 1, "none") \in {"none", "c"},
         NEW f \in Args, f \in DOMAIN Native \ Generated, Native[f] = "c", NEW m
  PROVE  Works(Joined(w, R, X, <<f>>), cxx, m)
<1> DEFINE C == Joined(w, R, X, <<f>>)
           q == Before(R, X) + 1
<1>1. /\ Files(<<f>>) /\ C \in Seq(Args) /\ Closed(C) /\ q \in InputSet(C) /\ C[q] = f
      /\ Forced(C, q) = ValueBefore(X, {"-x", "--language"}, Len(X) + 1, InForce(w))
      /\ \A p \in InputSet(C) : p # q =>
           \E i \in InputSet(w) : /\ C[p] = w[i] /\ Language(C, cxx, p) = "object"
                                  /\ Language(w, cxx, i) = "object"
      /\ Language(C, cxx, q) # "object" => CompSet(C, cxx) = {q}
  BY OneFile
<1>2. /\ cxx \/ Given(w, StdC) = {} => Given(C, StdC) = {}
      /\ Given(w, StdCxx) = {} => Given(C, StdCxx) = {}
  BY <1>1, JoinedStd
<1> HIDE DEF C, q
<1>3. Forced(C, q) \in {"none", "c"}
  BY <1>1
<1>4. Language(C, cxx, q) \in {"c", "c++"} /\ (Language(C, cxx, q) = "c++" => cxx)
  BY <1>1, <1>3 DEF Language
<1>5. Fits(C, cxx, q)
  BY <1>1, <1>2, <1>4 DEF Fits, Accepts
<1>6. Exists(C[q], m)
  BY <1>1 DEF Exists
<1>7. ASSUME NEW p \in InputSet(C), p # q  PROVE Exists(C[p], m) /\ Fits(C, cxx, p)
  <2>1. PICK i \in InputSet(w) : /\ C[p] = w[i] /\ Language(C, cxx, p) = "object"
                                 /\ Language(w, cxx, i) = "object"
    BY <1>1, <1>7
  <2>2. w[i] \in DOMAIN Native \ Generated /\ Accepts(w[i], Language(w, cxx, i))
    BY DEF Settled
  <2> QED BY <2>1, <2>2 DEF Exists, Fits
<1>8. Cardinality(CompSet(C, cxx)) <= 1
  <2>1. CompSet(C, cxx) = {q}
    BY <1>1, <1>4
  <2>2. Cardinality({q}) = 1
    BY FS_Singleton
  <2> QED BY <2>1, <2>2
<1>9. C[Len(C)] \notin Valued
  <2>1. C # <<>>
    BY <1>1, InputsAre
  <2> QED BY <1>1, <2>1 DEF Closed
<1>10. Works(C, cxx, m)
  BY <1>1, <1>5, <1>6, <1>7, <1>8, <1>9 DEF Works
<1> QED BY <1>10 DEF C

(* The IR of a source is made of it in the language that it has for the user. *)
LEMMA IrOfSource ==
  ASSUME NEW w, NEW cxx, NEW Ins, NEW R, Settled(w, cxx, Ins, R), CompSet(w, cxx) = Ins,
         NEW X, NEW A, Extra(X, A), "--" \notin A,
         NEW i \in Ins, w[i] \in Args,
         ValueBefore(X, {"-x", "--language"}, Len(X) + 1, InForce(w)) = InForce(w), NEW m,
         Mode(Joined(w, R, X, <<w[i]>>)) = "assemble"
  PROVE  UnitsMade(Joined(w, R, X, <<w[i]>>), cxx, m)[1] = <<w[i], Language(w, cxx, i)>>
<1> DEFINE f == w[i]
           C == Joined(w, R, X, <<f>>)
           q == Before(R, X) + 1
<1>1. /\ f \in DOMAIN Native \ Generated /\ Forced(w, i) = InForce(w)
      /\ Language(w, cxx, i) \in {"c", "c++", "ir"}
  BY DEF Settled
<1>2. /\ C \in Seq(Args) /\ q \in InputSet(C) /\ C[q] = f
      /\ Forced(C, q) = ValueBefore(X, {"-x", "--language"}, Len(X) + 1, InForce(w))
      /\ Language(C, cxx, q) # "object" => CompSet(C, cxx) = {q}
  <2> HIDE DEF f
  <2> QED BY <1>1, OneFile DEF f
<1>3. Mode(C) = "assemble"
  OBVIOUS
<1> HIDE DEF C, q
<1>4. C[q] = w[i] /\ Forced(C, q) = Forced(w, i)
  BY <1>1, <1>2
<1>5. Language(C, cxx, q) = Language(w, cxx, i)
  BY <1>4, Zenon DEF Language
<1>6. Used(C, cxx) = {q}
  BY <1>1, <1>2, <1>3, <1>5 DEF Used
<1>7. UnitsMade(C, cxx, m)[1] = UnitOf(C, cxx, q, m)
  <2>1. Cardinality({q}) = 1 /\ Positions({q}, Len(C))
    BY <1>2, InputsAre, FS_Singleton DEF Positions
  <2>2. InOrder({q})[1] = q
    BY <2>1, OrderFacts
  <2> QED BY <1>6, <2>1, <2>2 DEF UnitsMade
<1>8. UnitOf(C, cxx, q, m) = <<w[i], Language(w, cxx, i)>>
  BY <1>1, <1>2, <1>5 DEF UnitOf
<1> QED BY <1>7, <1>8 DEF C
-----------------------------------------------------------------------------
(***************************************************************************)
(* The options that the wrapper puts into its commands.                    *)
(***************************************************************************)
(* A word that is no response file, as option or as value. *)
Word(a) == a \in Args /\ a \notin DOMAIN Response
Flag(a) == Word(a) /\ a \in Options /\ a \notin Valued

LEMMA ExtraMore ==
  ASSUME NEW X, NEW A, NEW B, Extra(X, A), A \subseteq B, B \subseteq Options
  PROVE  Extra(X, B)
BY DEF Extra

LEMMA ExtraPair ==
  ASSUME NEW v, Word(v), v \in Valued, NEW x, Word(x), x \notin Valued
  PROVE  Extra(<<v, x>>, {v})
<1> DEFINE X == <<v, x>>
<1>1. X \in Seq(Args) /\ Len(X) = 2 /\ X[1] = v /\ X[2] = x /\ X # <<>>
  BY DEF Word
<1>2. v \in Options
  BY Vocabulary
<1> HIDE DEF X
<1>3. Closed(X)
  BY <1>1 DEF Closed
<1>4. IsValue(X, 2)
  BY <1>1 DEF IsValue
<1>5. \A j \in 1 .. Len(X) : j = 1 \/ j = 2
  BY <1>1
<1>6. \A j \in 1 .. Len(X) : X[j] \notin DOMAIN Response /\ (IsValue(X, j) \/ X[j] \in {v})
  BY <1>1, <1>4, <1>5 DEF Word
<1>7. Extra(X, {v})
  BY <1>1, <1>2, <1>3, <1>6 DEF Extra
<1> QED BY <1>7 DEF X

LEMMA ExtraFlags ==
  ASSUME NEW a, Flag(a), NEW c, Flag(c)
  PROVE  Extra(<<a>>, {a}) /\ Extra(<<a, c>>, {a, c})
<1>1. Extra(<<a>>, {a})
  <2> DEFINE X == <<a>>
  <2>1. X \in Seq(Args) /\ Len(X) = 1 /\ X[1] = a /\ X # <<>>
    BY DEF Flag, Word
  <2> HIDE DEF X
  <2>2. Closed(X)
    BY <2>1 DEF Closed, Flag
  <2>3. \A j \in 1 .. Len(X) : j = 1
    BY <2>1
  <2>4. Extra(X, {a})
    BY <2>1, <2>2, <2>3 DEF Extra, Flag, Word
  <2> QED BY <2>4 DEF X
<1>2. Extra(<<a, c>>, {a, c})
  <2> DEFINE X == <<a, c>>
  <2>1. X \in Seq(Args) /\ Len(X) = 2 /\ X[1] = a /\ X[2] = c /\ X # <<>>
    BY DEF Flag, Word
  <2> HIDE DEF X
  <2>2. Closed(X)
    BY <2>1 DEF Closed, Flag
  <2>3. \A j \in 1 .. Len(X) : j = 1 \/ j = 2
    BY <2>1
  <2>4. Extra(X, {a, c})
    BY <2>1, <2>2, <2>3 DEF Extra, Flag, Word
  <2> QED BY <2>4 DEF X
<1> QED BY <1>1, <1>2

LEMMA WordsOfWrapper ==
  /\ \A a \in {"--no-warnings", "-fPIC", "-O0", "--debug", "-emit-llvm", "--assemble", "--compile"} :
       Flag(a)
  /\ \A a \in {"-D", "-Xclang", "--language", "--output"} : Word(a) /\ a \in Valued
  /\ \A a \in {"ANDROID", "c", "-disable-O0-optnone", "-no-opaque-pointers"} :
       Word(a) /\ a \notin Valued
  /\ \A f \in DOMAIN Native : f \in Args => Word(f) /\ f \notin Valued
<1>1. \A a \in Options \cup DOMAIN Native : a \notin DOMAIN Response
  BY DriverAssumption
<1>2. Valued \subseteq Options /\ {"--language", "--output"} \subseteq Valued
      /\ {"--assemble", "--compile"} \subseteq Options \ Valued
  BY DriverAssumption
<1>3. \A a \in {"--no-warnings", "-fPIC", "-O0", "--debug", "-emit-llvm", "--assemble", "--compile"} :
        a \in Args
  BY WordsAreArgs DEF Added, Internal
<1>4. \A a \in {"-D", "-Xclang", "--language", "--output"} : a \in Args
  BY WordsAreArgs DEF Added, Internal
<1>5. \A a \in {"ANDROID", "c", "-disable-O0-optnone", "-no-opaque-pointers"} : a \in Args
  BY WordsAreArgs DEF Added, Internal
<1>6. \A a \in {"--no-warnings", "-fPIC", "-O0", "--debug", "-emit-llvm", "--assemble", "--compile"} :
        Flag(a)
  BY <1>1, <1>2, <1>3, VocabularyAssumption DEF Flag, Word
<1>7. \A a \in {"-D", "-Xclang", "--language", "--output"} : Word(a) /\ a \in Valued
  BY <1>1, <1>2, <1>4, VocabularyAssumption DEF Word
<1>8. \A a \in {"ANDROID", "c", "-disable-O0-optnone", "-no-opaque-pointers"} :
        Word(a) /\ a \notin Valued
  BY <1>5, VocabularyAssumption DEF Word
<1>9. \A f \in DOMAIN Native : f \in Args => Word(f) /\ f \notin Valued
  BY <1>1, Vocabulary DEF Word
<1> QED BY <1>6, <1>7, <1>8, <1>9

AddedOptions == {"-D", "--no-warnings", "-fPIC"}

LEMMA AdditionsExtra == Extra(Additions, AddedOptions)
<1> DEFINE first == <<"-D", "ANDROID">>
           last == <<"--no-warnings", "-fPIC">>
<1>1. Extra(first, {"-D"})
  BY WordsOfWrapper, ExtraPair
<1>2. Extra(last, {"--no-warnings", "-fPIC"})
  BY WordsOfWrapper, ExtraFlags
<1>3. AddedOptions \subseteq Options
  BY WordsOfWrapper, Vocabulary DEF AddedOptions, Flag
<1>4. Additions = (IF build.ndk THEN first ELSE <<>>) \o last
  BY DEF Additions
<1> HIDE DEF first, last
<1>5. CASE build.ndk
  <2>1. Extra(first \o last, {"-D"} \cup {"--no-warnings", "-fPIC"})
    BY <1>1, <1>2, ExtraConcat
  <2>2. Additions = first \o last
    BY <1>4, <1>5
  <2>3. {"-D"} \cup {"--no-warnings", "-fPIC"} \subseteq AddedOptions
    BY DEF AddedOptions
  <2> QED BY <1>3, <2>1, <2>2, <2>3, ExtraMore
<1>6. CASE ~build.ndk
  <2>1. Additions = last
    <3>1. last \in Seq(Args)
      BY <1>2 DEF Extra
    <3>2. <<>> \o last = last
      BY <3>1
    <3> QED BY <1>4, <1>6, <3>2
  <2>2. {"--no-warnings", "-fPIC"} \subseteq AddedOptions
    BY DEF AddedOptions
  <2> QED BY <1>2, <1>3, <2>1, <2>2, ExtraMore
<1> QED BY <1>5, <1>6

LEMMA AddedNeutral == Neutral(AddedOptions)
BY DEF Neutral, AddedOptions, StdC, StdCxx

(* Between the additions and the file stands this. *)
BeforeOutput == Debuggable \o <<"-Xclang", "-no-opaque-pointers", "--assemble", "-emit-llvm">>
AsC(input) == IF build.cxx /\ Native[input] = "c" THEN <<"--language", "c">> ELSE <<>>
To(output) == <<"--output", output>>

IrOptions == {"-Xclang", "-O0", "--debug", "--assemble", "-emit-llvm"}

LEMMA FourWords ==
  ASSUME NEW v, Word(v), v \in Valued, NEW x, Word(x), x \notin Valued, NEW a, Flag(a), NEW c, Flag(c)
  PROVE  Extra(<<v, x, a, c>>, {v, a, c})
<1> DEFINE X == <<v, x, a, c>>
<1>1. /\ X \in Seq(Args) /\ Len(X) = 4 /\ X # <<>>
      /\ X[1] = v /\ X[2] = x /\ X[3] = a /\ X[4] = c
  BY DEF Word, Flag
<1>2. {v, a, c} \subseteq Options
  BY Vocabulary DEF Flag
<1> HIDE DEF X
<1>3. Closed(X)
  BY <1>1 DEF Closed, Flag
<1>4. IsValue(X, 2)
  BY <1>1 DEF IsValue
<1>5. \A j \in 1 .. Len(X) : j = 1 \/ j = 2 \/ j = 3 \/ j = 4
  BY <1>1
<1>6. \A j \in 1 .. Len(X) : X[j] \notin DOMAIN Response /\ (IsValue(X, j) \/ X[j] \in {v, a, c})
  BY <1>1, <1>4, <1>5 DEF Word, Flag
<1>7. Extra(X, {v, a, c})
  BY <1>1, <1>2, <1>3, <1>6 DEF Extra
<1> QED BY <1>7 DEF X

LEMMA DebuggableExtra == Extra(Debuggable, {"-Xclang", "-O0", "--debug"})
BY WordsOfWrapper, FourWords DEF Debuggable

LEMMA BeforeOutputExtra == Extra(BeforeOutput, IrOptions)
<1> DEFINE s == Debuggable
           t == <<"-Xclang", "-no-opaque-pointers", "--assemble", "-emit-llvm">>
<1>1. Extra(t, {"-Xclang", "--assemble", "-emit-llvm"})
  BY WordsOfWrapper, FourWords
<1> HIDE DEF s, t
<1>2. Extra(s \o t, {"-Xclang", "-O0", "--debug"} \cup {"-Xclang", "--assemble", "-emit-llvm"})
  BY <1>1, DebuggableExtra, ExtraConcat DEF s
<1>3. {"-Xclang", "-O0", "--debug"} \cup {"-Xclang", "--assemble", "-emit-llvm"} = IrOptions
  BY DEF IrOptions
<1> QED BY <1>2, <1>3 DEF BeforeOutput, s, t

(* Lists are joined in any order of the joins. *)
LEMMA Joins == ASSUME NEW s \in Seq(Args), NEW t \in Seq(Args) PROVE s \o t \in Seq(Args)
OBVIOUS

LEMMA Assoc ==
  ASSUME NEW s \in Seq(Args), NEW t \in Seq(Args), NEW u \in Seq(Args)
  PROVE  (s \o t) \o u = s \o (t \o u)
OBVIOUS

Regroups(k, a, t, y) == ((k \o a) \o t) \o y = k \o ((a \o t) \o y)

LEMMA Regroup ==
  ASSUME NEW k \in Seq(Args), NEW a \in Seq(Args), NEW t \in Seq(Args), NEW y \in Seq(Args)
  PROVE  Regroups(k, a, t, y)
<1>1. k \o a \in Seq(Args) /\ a \o t \in Seq(Args)
  BY Joins, Zenon
<1>2. (k \o a) \o t = k \o (a \o t)
  BY Assoc, Zenon
<1>3. (k \o (a \o t)) \o y = k \o ((a \o t) \o y)
  BY <1>1, Assoc, ZenonT(40)
<1> QED BY <1>2, <1>3, Zenon DEF Regroups

(* What the words of a command of the wrapper stand for. *)
LEMMA CommandStandsFor ==
  ASSUME NEW base \in Seq(Args), NEW w, NEW R, Expand(base) = At(w, R),
         NEW X, NEW A, Extra(X, A), NEW Y, Files(Y)
  PROVE  base \o (X \o Y) \in Seq(Args) /\ Expand(base \o (X \o Y)) = Joined(w, R, X, Y)
<1>1. X \in Seq(Args) /\ Y \in Seq(Args)
  BY DEF Extra, Files
<1>2. X \o Y \in Seq(Args)
  BY <1>1
<1>3. Expand(X) = X
  BY <1>1, ExpandPlain DEF Extra
<1>4. Expand(Y) = Y
  <2>1. \A j \in 1 .. Len(Y) : Y[j] \notin DOMAIN Response
    BY DriverAssumption DEF Files
  <2> QED BY <1>1, <2>1, ExpandPlain
<1>5. Expand(X \o Y) = X \o Y
  <2>1. Expand(X \o Y) = Expand(X) \o Expand(Y)
    BY <1>1, ExpandConcat, Zenon
  <2> QED BY <1>3, <1>4, <2>1
<1> DEFINE T == X \o Y
<1>6. T \in Seq(Args) /\ Expand(T) = T
  BY <1>2, <1>5
<1> HIDE DEF T
<1>7. Expand(base \o T) = Expand(base) \o Expand(T) /\ base \o T \in Seq(Args)
  BY <1>6, ExpandConcat, Joins, Zenon
<1>8. Expand(base \o T) = At(w, R) \o T /\ base \o T \in Seq(Args)
  BY <1>6, <1>7, Zenon
<1> QED BY <1>8, Zenon DEF Joined, T

LlExtra(input, output) == ((Additions \o BeforeOutput) \o AsC(input)) \o To(output)
OExtra(output) == (Additions \o Debuggable) \o <<"--compile", "--output", output>>
LlOptions == AddedOptions \cup IrOptions \cup {"--output"}

LEMMA LlIs ==
  ASSUME NEW base \in Seq(Args), options = base \o Additions,
         NEW input \in Args, NEW output \in Args
  PROVE  LlCommand(input, output) = base \o (LlExtra(input, output) \o <<input>>)
<1> DEFINE a == Additions
           d == Debuggable
           e == <<"-Xclang", "-no-opaque-pointers", "--assemble", "-emit-llvm">>
           l == AsC(input)
           o == To(output)
           y == <<input>>
<1>1. a \in Seq(Args) /\ d \in Seq(Args) /\ y \in Seq(Args) /\ o \in Seq(Args)
  BY AdditionsExtra, DebuggableExtra, WordsOfWrapper DEF Extra, To, Word
<1>2. l \in Seq(Args)
  BY WordsOfWrapper DEF AsC, Word
<1>3. e \in Seq(Args)
  BY WordsOfWrapper DEF Word, Flag
<1>4. LlCommand(input, output) = ((((options \o d) \o e) \o l) \o o) \o y
  BY DEF LlCommand, JoinArgs, AsC, To
<1>5. LlExtra(input, output) = ((a \o (d \o e)) \o l) \o o
  BY DEF LlExtra, BeforeOutput
<1>6. options = base \o a
  BY DEF a
<1> HIDE DEF a, d, e, l, o, y
<1>a. a \in Seq(Args)
  BY <1>1
<1>d. d \in Seq(Args)
  BY <1>1
<1>o. o \in Seq(Args)
  BY <1>1
<1>y. y \in Seq(Args)
  BY <1>1
<1>7. ((base \o a) \o d) \o e = base \o ((a \o d) \o e)
  <2>1. Regroups(base, a, d, e)
    BY <1>a, <1>d, <1>3, Regroup
  <2> QED BY <2>1, Zenon DEF Regroups
<1>8. (a \o d) \o e = a \o (d \o e)
  BY <1>a, <1>d, <1>3, Assoc, Zenon
<1> DEFINE g == a \o (d \o e)
           h == g \o l
<1>9. g \in Seq(Args) /\ h \in Seq(Args)
  BY <1>1, <1>2, <1>3, Joins, Zenon
<1>10. LlCommand(input, output) = (((base \o g) \o l) \o o) \o y
  BY <1>4, <1>6, <1>7, <1>8, Zenon
<1>11. LlExtra(input, output) = h \o o
  BY <1>5, Zenon
<1> HIDE DEF g
<1>12. (base \o g) \o l = base \o h
  BY <1>2, <1>9, Assoc, Zenon
<1> HIDE DEF h
<1>h. h \in Seq(Args)
  BY <1>9
<1>13. ((base \o h) \o o) \o y = base \o ((h \o o) \o y)
  <2>1. Regroups(base, h, o, y)
    BY <1>h, <1>o, <1>y, Regroup
  <2> QED BY <2>1, Zenon DEF Regroups
<1>14. LlCommand(input, output) = base \o (LlExtra(input, output) \o y)
  BY <1>10, <1>11, <1>12, <1>13, Zenon
<1> QED BY <1>14, Zenon DEF y

LEMMA OIs ==
  ASSUME NEW base \in Seq(Args), options = base \o Additions,
         NEW input \in Args, NEW output \in Args
  PROVE  OCommand(input, output) = base \o (OExtra(output) \o <<input>>)
<1> DEFINE a == Additions
           d == Debuggable
           t == <<"--compile", "--output", output>>
           y == <<input>>
<1>1. a \in Seq(Args) /\ d \in Seq(Args) /\ y \in Seq(Args)
  BY AdditionsExtra, DebuggableExtra DEF Extra
<1>2. t \in Seq(Args)
  BY WordsOfWrapper DEF Word, Flag
<1>3. OCommand(input, output) = ((options \o d) \o t) \o y /\ OExtra(output) = (a \o d) \o t
  BY DEF OCommand, JoinArgs, OExtra
<1>4. options = base \o a
  OBVIOUS
<1> HIDE DEF a, d, t, y
<1> DEFINE g == a \o d
<1>5. (base \o a) \o d = base \o g /\ g \in Seq(Args)
  BY <1>1, Assoc, Joins, Zenon
<1>6. OExtra(output) = g \o t
  BY <1>3, Zenon
<1> HIDE DEF g
<1>g. g \in Seq(Args)
  BY <1>5
<1>y. y \in Seq(Args)
  BY <1>1
<1>7. ((base \o g) \o t) \o y = base \o ((g \o t) \o y)
  <2>1. Regroups(base, g, t, y)
    BY <1>g, <1>2, <1>y, Regroup
  <2> QED BY <2>1, Zenon DEF Regroups
<1>8. OCommand(input, output) = base \o (OExtra(output) \o y)
  BY <1>3, <1>4, <1>5, <1>6, <1>7, Zenon
<1> QED BY <1>8, Zenon DEF y

(* The value at the end of two lists joined. *)
Forcing == {"-x", "--language"}
AtEnd(s, d) == ValueBefore(s, Forcing, Len(s) + 1, d)

LEMMA AtEndConcat ==
  ASSUME NEW s \in Seq(Args), NEW t \in Seq(Args), Closed(s), Closed(t), NEW d
  PROVE  AtEnd(s \o t, d) = AtEnd(t, AtEnd(s, d))
<1>1. Forcing \subseteq Valued
  BY Vocabulary DEF Forcing
<1>2. ValueOfBoth(s, t, Forcing, d)
  BY <1>1, ConcatValue
<1>3. /\ Len(s) \in Nat /\ Len(t) \in Nat /\ Len(s \o t) = Len(s) + Len(t)
      /\ Len(t) + 1 \in 1 .. Len(t) + 1
  OBVIOUS
<1> DEFINE e == ValueBefore(s, Forcing, Len(s) + 1, d)
<1>4. \A j \in 1 .. Len(t) + 1 :
        ValueBefore(s \o t, Forcing, Len(s) + j, d) = ValueBefore(t, Forcing, j, e)
  BY <1>2 DEF ValueOfBoth
<1> HIDE DEF e
<1>5. ValueBefore(s \o t, Forcing, Len(s) + (Len(t) + 1), d) = ValueBefore(t, Forcing, Len(t) + 1, e)
  BY <1>3, <1>4
<1>6. Len(s \o t) + 1 = Len(s) + (Len(t) + 1)
  BY <1>3
<1> QED BY <1>5, <1>6, Zenon DEF AtEnd, e

LEMMA AtEndExtra ==
  ASSUME NEW X, NEW A, Extra(X, A), Forcing \cap A = {}, NEW d
  PROVE  AtEnd(X, d) = d
<1>1. Len(X) + 1 \in Int
  BY DEF Extra
<1>2. \A e : \A z \in Int : ValueBefore(X, Forcing, z, e) = e
  BY ExtraGiven
<1> QED BY <1>1, <1>2 DEF AtEnd

LanguageC == <<"--language", "c">>

LEMMA LanguageCIs == Extra(LanguageC, {"--language"}) /\ \A d : AtEnd(LanguageC, d) = "c"
<1>1. Word("--language") /\ "--language" \in Valued /\ Word("c") /\ "c" \notin Valued
  BY WordsOfWrapper
<1>2. Extra(LanguageC, {"--language"})
  BY <1>1, ExtraPair DEF LanguageC
<1> DEFINE L == LanguageC
<1>3. /\ L \in Seq(Args) /\ Len(L) = 2 /\ DOMAIN L = 1 .. 2 /\ L[1] = "--language" /\ L[2] = "c"
  BY <1>1 DEF LanguageC, Word
<1> HIDE DEF L
<1>4. 1 \in Given(L, Forcing)
  BY <1>3 DEF Given, IsValue, Forcing
<1>5. \A h \in Given(L, Forcing) : h <= 1
  BY <1>3 DEF Given, Forcing
<1>6. Sets(L, Forcing, 3, 1)
  BY <1>4, <1>5 DEF Sets
<1>7. \A d : ValueBefore(L, Forcing, 3, d) = L[1 + 1]
  BY <1>3, <1>6, ValueIs
<1>8. \A d : AtEnd(L, d) = "c"
  BY <1>3, <1>7 DEF AtEnd
<1> QED BY <1>2, <1>8 DEF L

(* The options of the wrapper for the IR of a file. *)
LlExtraIs(input, output) ==
  /\ Extra(LlExtra(input, output), LlOptions \cup {"--language"})
  /\ \A d : AtEnd(LlExtra(input, output), d)
              = IF build.cxx /\ Native[input] = "c" THEN "c" ELSE d

LEMMA ToExtra ==
  ASSUME NEW output \in Args, output \in DOMAIN Native
  PROVE  Extra(To(output), {"--output"})
BY WordsOfWrapper, ExtraPair DEF To

LEMMA LlOptionsAre ==
  /\ LlOptions \cup {"--language"} \subseteq Options
  /\ Forcing \cap (AddedOptions \cup IrOptions) = {} /\ Forcing \cap {"--output"} = {}
  /\ Forcing \cap LlOptions = {}
<1>1. LlOptions \cup {"--language"} \subseteq Options
  <2>1. \A a \in {"--no-warnings", "-fPIC", "-O0", "--debug", "-emit-llvm", "--assemble"} : a \in Options
    BY WordsOfWrapper DEF Flag
  <2>2. \A a \in {"-D", "-Xclang", "--language", "--output"} : a \in Options
    BY WordsOfWrapper, Vocabulary
  <2> QED BY <2>1, <2>2 DEF LlOptions, AddedOptions, IrOptions
<1> QED BY <1>1 DEF LlOptions, AddedOptions, IrOptions, Forcing

LEMMA LlWords ==
  ASSUME NEW input, NEW output \in Args, output \in DOMAIN Native
  PROVE  LlExtraIs(input, output)
<1> DEFINE P == Additions \o BeforeOutput
           T == To(output)
           L == LanguageC
           B == AddedOptions \cup IrOptions
<1>1. Extra(P, B)
  BY AdditionsExtra, BeforeOutputExtra, ExtraConcat
<1>2. Extra(T, {"--output"})
  BY ToExtra
<1>3. Forcing \cap B = {} /\ Forcing \cap {"--output"} = {} /\ Forcing \cap (B \cup {"--output"}) = {}
  BY LlOptionsAre DEF LlOptions
<1>4. LlExtra(input, output)
        = (P \o IF build.cxx /\ Native[input] = "c" THEN L ELSE <<>>) \o T
  BY DEF LlExtra, AsC, LanguageC
<1> HIDE DEF P, T, L
<1>5. P \in Seq(Args) /\ T \in Seq(Args) /\ Closed(P) /\ Closed(T)
  BY <1>1, <1>2 DEF Extra
<1>6. CASE build.cxx /\ Native[input] = "c"
  <2>1. Extra(L, {"--language"}) /\ L \in Seq(Args) /\ Closed(L) /\ \A d : AtEnd(L, d) = "c"
    BY LanguageCIs DEF L, Extra
  <2>2. Extra(P \o L, B \cup {"--language"})
    BY <1>1, <2>1, ExtraConcat
  <2>3. Extra((P \o L) \o T, (B \cup {"--language"}) \cup {"--output"})
    BY <1>2, <2>2, ExtraConcat
  <2>4. (B \cup {"--language"}) \cup {"--output"} = LlOptions \cup {"--language"}
    BY DEF LlOptions
  <2> DEFINE Q == P \o L
  <2>5. Q \in Seq(Args) /\ Closed(Q)
    BY <2>2 DEF Extra
  <2>6. \A d : AtEnd(Q, d) = "c"
    BY <1>5, <2>1, AtEndConcat
  <2> HIDE DEF Q
  <2>7. \A d : AtEnd(Q \o T, d) = AtEnd(T, AtEnd(Q, d))
    BY <1>5, <2>5, AtEndConcat
  <2>8. \A d : AtEnd(T, d) = d
    BY <1>2, <1>3, AtEndExtra
  <2>9. \A d : AtEnd(Q \o T, d) = "c"
    BY <2>6, <2>7, <2>8
  <2>10. LlExtra(input, output) = Q \o T
    BY <1>4, <1>6 DEF Q
  <2>11. Extra(Q \o T, LlOptions \cup {"--language"})
    BY <2>3, <2>4 DEF Q
  <2> QED BY <1>6, <2>9, <2>10, <2>11 DEF LlExtraIs
<1>7. CASE ~(build.cxx /\ Native[input] = "c")
  <2>1. P \o <<>> = P
    BY <1>5
  <2>2. LlExtra(input, output) = P \o T
    BY <1>4, <1>7, <2>1
  <2>3. Extra(P \o T, B \cup {"--output"})
    BY <1>1, <1>2, ExtraConcat
  <2>4. \A d : AtEnd(P \o T, d) = d
    BY <1>3, <2>3, AtEndExtra
  <2>5. Extra(P \o T, LlOptions \cup {"--language"})
    BY <2>3, LlOptionsAre, ExtraMore DEF LlOptions
  <2> QED BY <1>7, <2>2, <2>4, <2>5 DEF LlExtraIs
<1> QED BY <1>6, <1>7

OOptions == AddedOptions \cup {"-Xclang", "-O0", "--debug"} \cup {"--compile", "--output"}

LEMMA OWords ==
  ASSUME NEW output \in Args, output \in DOMAIN Native
  PROVE  Extra(OExtra(output), OOptions) /\ \A d : AtEnd(OExtra(output), d) = d
<1> DEFINE T == To(output)
           c == <<"--compile">>
           t == <<"--compile", "--output", output>>
           P == Additions \o Debuggable
<1>1. Extra(c, {"--compile"})
  BY WordsOfWrapper, ExtraFlags
<1>2. Extra(T, {"--output"})
  BY ToExtra
<1>3. t = c \o T
  BY DEF To
<1>4. OExtra(output) = P \o t
  BY DEF OExtra
<1> HIDE DEF T, c, t
<1>5. Extra(t, {"--compile"} \cup {"--output"})
  BY <1>1, <1>2, <1>3, ExtraConcat
<1>6. Extra(P, AddedOptions \cup {"-Xclang", "-O0", "--debug"})
  BY AdditionsExtra, DebuggableExtra, ExtraConcat
<1> HIDE DEF P
<1>7. Extra(P \o t, (AddedOptions \cup {"-Xclang", "-O0", "--debug"}) \cup ({"--compile"} \cup {"--output"}))
  BY <1>5, <1>6, ExtraConcat
<1>8. (AddedOptions \cup {"-Xclang", "-O0", "--debug"}) \cup ({"--compile"} \cup {"--output"}) = OOptions
  BY DEF OOptions
<1>9. Extra(P \o t, OOptions)
  BY <1>7, <1>8
<1>10. Forcing \cap OOptions = {}
  BY DEF OOptions, AddedOptions, Forcing
<1>11. \A d : AtEnd(P \o t, d) = d
  BY <1>9, <1>10, AtEndExtra
<1> QED BY <1>4, <1>9, <1>11

(***************************************************************************)
(* The command line of the user, when it is a regular one.                 *)
(***************************************************************************)
Dropped == {Words[i] : i \in Instrumentable} \cup (IF build.cxx THEN StdC ELSE {})
Rest == {i \in DOMAIN Words : Words[i] \notin Dropped}
Base == Left(args, Dropped)

LEMMA WordsType ==
  ASSUME Typed
  PROVE  /\ args \in Seq(Args) /\ build.cxx \in BOOLEAN /\ build.hooks \in BOOLEAN
         /\ Words \in Seq(Args) /\ Len(Words) \in Nat /\ DOMAIN Words = 1 .. Len(Words)
         /\ Works(Words, build.cxx, <<>>)
         /\ ToSet(InputsOf(Words)) = InputSet(Words)
         /\ \A i \in InputSet(Words) : /\ Words[i] \in DOMAIN Native \ Generated
                                       /\ Accepts(Words[i], Language(Words, build.cxx, i))
<1>1. args \in Seq(Args) /\ build \in BuildType /\ Build(args, build.cxx, <<>>).ok
  BY CommandAssumption DEF Typed, TypeOK
<1>2. Words \in Seq(Args)
  BY <1>1, ExpandType DEF Words
<1>3. Works(Words, build.cxx, <<>>)
  BY <1>1, BuildOk DEF Words
<1>4. \A i \in InputSet(Words) : /\ Words[i] \in DOMAIN Native \ Generated
                                 /\ Accepts(Words[i], Language(Words, build.cxx, i))
  BY <1>1, InputsHaveLanguage DEF Words
<1>5. ToSet(InputsOf(Words)) = InputSet(Words)
  BY <1>2, InputFacts
<1>6. build.cxx \in BOOLEAN /\ build.hooks \in BOOLEAN
  BY <1>1 DEF BuildType
<1>7. Len(Words) \in Nat /\ DOMAIN Words = 1 .. Len(Words)
  BY <1>2
<1> QED BY <1>1, <1>2, <1>3, <1>4, <1>5, <1>6, <1>7

LEMMA SourcesAre ==
  ASSUME Typed
  PROVE  /\ \A i : i \in SourcesOf <=> /\ i \in InputSet(Words)
                                       /\ Language(Words, build.cxx, i) \in {"c", "c++", "ir"}
         /\ \A i : i \in Instrumentable <=> i \in SourcesOf /\ "quote" \notin ToSet(Text[Words[i]])
         /\ Instrumentable \subseteq InputSet(Words)
BY WordsType DEF SourcesOf, Instrumentable

LEMMA RegularSettled ==
  ASSUME Typed, Regular
  PROVE  Settled(Words, build.cxx, Instrumentable, Rest)
<1> DEFINE w == Words
           Ins == Instrumentable
           R == Rest
<1>1. /\ w \in Seq(Args) /\ Len(w) \in Nat /\ DOMAIN w = 1 .. Len(w)
      /\ \A i \in InputSet(w) : /\ w[i] \in DOMAIN Native \ Generated
                                /\ Accepts(w[i], Language(w, build.cxx, i))
  BY WordsType
<1>2. /\ Ins \subseteq InputSet(w)
      /\ \A i \in Ins : Language(w, build.cxx, i) \in {"c", "c++", "ir"}
  BY SourcesAre
<1>3. \A i \in InputSet(w) : i \in 1 .. Len(w) /\ ~IsValue(w, i)
  BY <1>1 DEF InputSet, IsInput
<1>4. /\ \A i \in 1 .. Len(w), k \in Ins : w[i] = w[k] => i \in Ins
      /\ build.cxx => \A i \in 1 .. Len(w) : w[i] \in StdC => ~IsValue(w, i)
  BY <1>1 DEF Regular, NamesApart
<1>5. \A i : i \in R <=> i \in 1 .. Len(w) /\ w[i] \notin Dropped
  BY <1>1 DEF Rest
<1>6. \A a : a \in Dropped <=> (\E k \in Ins : a = w[k]) \/ (build.cxx /\ a \in StdC)
  BY DEF Dropped
<1>7. Given(w, {"--"}) = {} /\ \A i \in Ins : Forced(w, i) = InForce(w)
  BY DEF Regular, Plainly, LanguageSettled, InForce
<1>8. \A a \in StdC : a \in Options /\ a \notin Valued
  BY DriverAssumption
<1>9. Closed(w)
  BY WordsType DEF Works, Closed
<1> HIDE DEF w, Ins, R
<1>10. \A i \in 1 .. Len(w) : i \notin R => i \in Ins \/ (build.cxx /\ w[i] \in StdC)
  BY <1>4, <1>5, <1>6
<1>11. \A i \in 1 .. Len(w) : i \notin R => w[i] \notin Valued /\ ~IsValue(w, i)
  BY <1>1, <1>2, <1>3, <1>4, <1>8, <1>10, Vocabulary
<1>12. Drops(w, R)
  BY <1>1, <1>5, <1>9, <1>11 DEF Drops
<1>13. \A i \in InputSet(w) : i \in R <=> i \notin Ins
  BY <1>1, <1>3, <1>4, <1>5, <1>6, <1>8, Vocabulary
<1>14. build.cxx => \A i \in R : w[i] \notin StdC
  BY <1>5, <1>6
<1>15. Settled(w, build.cxx, Ins, R)
  BY <1>1, <1>2, <1>7, <1>10, <1>12, <1>13, <1>14 DEF Settled
<1> QED BY <1>15 DEF w, Ins, R

LEMMA BaseStands ==
  ASSUME Typed, Regular
  PROVE  Base \in Seq(Args) /\ Expand(Base) = At(Words, Rest)
<1>1. args \in Seq(Args) /\ ToSet(args) = {args[k] : k \in 1 .. Len(args)}
  BY WordsType DEF ToSet
<1>2. Dropped \cap DOMAIN Response = {}
  <2>1. \A i \in Instrumentable : Words[i] \in DOMAIN Native
    BY WordsType, SourcesAre
  <2>2. \A a \in StdC : a \in Options
    BY DriverAssumption
  <2>3. \A a \in Options \cup DOMAIN Native : a \notin DOMAIN Response
    BY DriverAssumption
  <2> QED BY <2>1, <2>2, <2>3 DEF Dropped
<1>3. \A k \in 1 .. Len(args) : args[k] \in DOMAIN Response =>
        \A j \in 1 .. Len(Response[args[k]]) : Response[args[k]][j] \notin Dropped
  <2> SUFFICES ASSUME NEW k \in 1 .. Len(args), args[k] \in DOMAIN Response,
                      NEW j \in 1 .. Len(Response[args[k]])
               PROVE  Response[args[k]][j] \notin Dropped
    OBVIOUS
  <2> DEFINE t == Response[args[k]]
  <2>1. t \in Seq(Args)
    BY CommandAssumption
  <2>2. args[k] \in ToSet(args) \cap DOMAIN Response
    BY <1>1
  <2>3. \A x \in ToSet(t) : x \notin StdC /\ \A i \in Instrumentable : x # Words[i]
    BY <2>2 DEF Regular, Plainly
  <2>4. t[j] \in ToSet(t)
    BY <2>1 DEF ToSet
  <2> QED BY <2>3, <2>4 DEF Dropped
<1>4. Expand(Left(args, Dropped)) = Left(Expand(args), Dropped)
  BY <1>1, <1>2, <1>3, ExpandLeft
<1>5. Left(Words, Dropped) = At(Words, Rest)
  BY DEF Left, Rest
<1>6. Base \in Seq(Args)
  BY <1>1, LeftType DEF Base
<1> QED BY <1>4, <1>5, <1>6 DEF Base, Words

(* With a runtime nothing but the sources is compiled, and no -x is in force. *)
LEMMA RegularHooks ==
  ASSUME Typed, Regular, build.hooks
  PROVE  /\ CompSet(Words, build.cxx) = Instrumentable
         /\ Given(Words, StdCxx) = {} /\ InForce(Words) = "none"
         /\ \A i \in Instrumentable : ~(build.cxx /\ Native[Words[i]] = "c")
         /\ \A i, k \in Instrumentable : Ll[Words[i]] = Ll[Words[k]] => Words[i] = Words[k]
<1>1. ToSet(Compiled(Words, build.cxx)) = CompSet(Words, build.cxx)
  BY WordsType, CompiledIs
<1>2. InForce(Words) = "none"
  BY DEF Regular, LanguageSettled, InForce
<1>3. StemsApart /\ RuntimeCompiles
  BY DEF Regular
<1> QED BY <1>1, <1>2, <1>3 DEF StemsApart, RuntimeCompiles
-----------------------------------------------------------------------------
(***************************************************************************)
(* From the lines that the compiler prints to the inputs of the wrapper.   *)
(***************************************************************************)
Skipped == {l \in GoodLine : ~(Matches(l) /\ IsSource(l))}
NameOf == [l \in GoodLine |-> l.name]
Names == {l.name : l \in GoodLine}
NamesOf(s) == Image(NameOf, Left(s, Skipped))

Joining(f, s, t) == Image(f, s \o t) = Image(f, s) \o Image(f, t)

LEMMA ImageConcat ==
  ASSUME NEW X, NEW Y, NEW f, \A x \in X : f[x] \in Y, NEW s \in Seq(X), NEW t \in Seq(X)
  PROVE  Joining(f, s, t)
<1> DEFINE u == s \o t
           a == Image(f, s)
           b == Image(f, t)
           c == Image(f, u)
<1>1. /\ u \in Seq(X) /\ Len(u) = Len(s) + Len(t) /\ Len(s) \in Nat /\ Len(t) \in Nat
      /\ \A k \in 1 .. Len(u) : u[k] = IF k <= Len(s) THEN s[k] ELSE t[k - Len(s)]
      /\ DOMAIN u = 1 .. Len(u) /\ DOMAIN s = 1 .. Len(s) /\ DOMAIN t = 1 .. Len(t)
  OBVIOUS
<1> HIDE DEF u
<1>2. a \in Seq(Y) /\ Len(a) = Len(s) /\ b \in Seq(Y) /\ Len(b) = Len(t) /\ c \in Seq(Y) /\ Len(c) = Len(u)
  <2>1. /\ \A k \in 1 .. Len(s) : f[s[k]] \in Y
        /\ \A k \in 1 .. Len(t) : f[t[k]] \in Y
        /\ \A k \in 1 .. Len(u) : f[u[k]] \in Y
    BY <1>1
  <2>2. a \in Seq(Y) /\ Len(a) = Len(s)
    BY <1>1, <2>1, IsASeq DEF Image
  <2>3. b \in Seq(Y) /\ Len(b) = Len(t)
    BY <1>1, <2>1, IsASeq DEF Image
  <2>4. c \in Seq(Y) /\ Len(c) = Len(u)
    <3>1. Len(u) \in Nat
      BY <1>1
    <3> QED BY <1>1, <2>1, <3>1, IsASeq DEF Image
  <2> QED BY <2>2, <2>3, <2>4
<1>3. /\ \A k \in 1 .. Len(s) : a[k] = f[s[k]]
      /\ \A k \in 1 .. Len(t) : b[k] = f[t[k]]
      /\ \A k \in 1 .. Len(u) : c[k] = f[u[k]]
  BY <1>1 DEF Image
<1> HIDE DEF a, b, c
<1>4. /\ a \o b \in Seq(Y) /\ Len(a \o b) = Len(u)
      /\ \A k \in 1 .. Len(u) : (a \o b)[k] = IF k <= Len(s) THEN a[k] ELSE b[k - Len(s)]
  <2>1. a \in Seq(Y) /\ b \in Seq(Y) /\ Len(a) + Len(b) = Len(u) /\ Len(a) = Len(s)
    BY <1>1, <1>2
  <2>a. a \in Seq(Y)
    BY <2>1
  <2>b. b \in Seq(Y)
    BY <2>1
  <2>2. a \o b \in Seq(Y) /\ Len(a \o b) = Len(a) + Len(b)
    BY <2>a, <2>b
  <2>3. \A k \in 1 .. Len(a) + Len(b) : (a \o b)[k] = IF k <= Len(a) THEN a[k] ELSE b[k - Len(a)]
    BY <2>a, <2>b
  <2> QED BY <2>1, <2>2, <2>3
<1>5. \A k \in 1 .. Len(u) : (a \o b)[k] = c[k]
  <2> SUFFICES ASSUME NEW k \in 1 .. Len(u)  PROVE (a \o b)[k] = c[k]
    OBVIOUS
  <2>1. CASE k <= Len(s)
    <3>1. k \in 1 .. Len(s)
      BY <1>1, <2>1
    <3> QED BY <1>1, <1>3, <1>4, <2>1, <3>1, SMTT(30)
  <2>2. CASE ~(k <= Len(s))
    <3>1. k - Len(s) \in 1 .. Len(t)
      BY <1>1, <2>2
    <3>2. u[k] = t[k - Len(s)] /\ c[k] = f[u[k]] /\ b[k - Len(s)] = f[t[k - Len(s)]]
      BY <1>1, <1>3, <2>2, <3>1
    <3>3. (a \o b)[k] = b[k - Len(s)]
      BY <1>4, <2>2
    <3> QED BY <3>2, <3>3
  <2> QED BY <2>1, <2>2
<1>6. a \o b = c
  BY <1>2, <1>4, <1>5, SeqEqual
<1> QED BY <1>6 DEF Joining, a, b, c, u

LEMMA NamesType ==
  ASSUME NEW s \in Seq(GoodLine)
  PROVE  NamesOf(s) \in Seq(Names) /\ Left(s, Skipped) \in Seq(GoodLine)
<1>1. Left(s, Skipped) \in Seq(GoodLine)
  BY LeftType
<1>2. \A l \in GoodLine : NameOf[l] \in Names
  BY DEF NameOf, Names
<1> QED BY <1>1, <1>2, ImageType DEF NamesOf

LEMMA NamesConcat ==
  ASSUME NEW s \in Seq(GoodLine), NEW t \in Seq(GoodLine)
  PROVE  NamesOf(s \o t) = NamesOf(s) \o NamesOf(t)
<1> DEFINE a == Left(s, Skipped)
           b == Left(t, Skipped)
<1>1. a \in Seq(GoodLine) /\ b \in Seq(GoodLine)
  BY LeftType
<1>2. Left(s \o t, Skipped) = a \o b
  BY LeftConcat DEF LeftJoins
<1>3. \A l \in GoodLine : NameOf[l] \in Names
  BY DEF NameOf, Names
<1> HIDE DEF a, b
<1>4. Joining(NameOf, a, b)
  BY <1>1, <1>3, ImageConcat, Zenon
<1> QED BY <1>2, <1>4 DEF NamesOf, Joining, a, b

LEMMA NamesNothing == NamesOf(<<>>) = <<>>
BY LeftNothing DEF NamesOf, Image

LEMMA NamesAppend ==
  ASSUME NEW s \in Seq(GoodLine), NEW l \in GoodLine
  PROVE  NamesOf(Append(s, l))
           = IF Matches(l) /\ IsSource(l) THEN Append(NamesOf(s), l.name) ELSE NamesOf(s)
<1> DEFINE a == Left(s, Skipped)
<1>1. a \in Seq(GoodLine)
  BY LeftType
<1>2. Left(Append(s, l), Skipped) = IF l \in Skipped THEN a ELSE Append(a, l)
  BY LeftAppend DEF LeftGrows
<1>3. l \in Skipped <=> ~(Matches(l) /\ IsSource(l))
  BY DEF Skipped
<1> HIDE DEF a
<1>4. Image(NameOf, Append(a, l)) = Append(Image(NameOf, a), NameOf[l])
  BY <1>1, ImageAppend
<1>5. NameOf[l] = l.name
  BY DEF NameOf
<1> QED BY <1>2, <1>3, <1>4, <1>5 DEF NamesOf, a

LEMMA NamesOne ==
  ASSUME NEW l \in GoodLine
  PROVE  NamesOf(<<l>>) = IF Matches(l) /\ IsSource(l) THEN <<l.name>> ELSE <<>>
<1>1. <<>> \in Seq(GoodLine) /\ Append(<<>>, l) = <<l>>
  OBVIOUS
<1>2. NamesOf(Append(<<>>, l)) = IF Matches(l) /\ IsSource(l) THEN Append(<<>>, l.name) ELSE <<>>
  BY <1>1, NamesAppend, NamesNothing
<1>3. Append(<<>>, l.name) = <<l.name>>
  OBVIOUS
<1> QED BY <1>1, <1>2, <1>3

InstrOf(argv, cxx) ==
  {i \in InputSet(argv) : /\ Language(argv, cxx, i) \in {"c", "c++", "ir"}
                          /\ "quote" \notin ToSet(Text[argv[i]])}

(* The lines of one input. *)
Unlinked == {l \in GoodLine : l.tool # "linker"}
LinesOfOne(argv, cxx, i) ==
  /\ PhasesOf(argv, cxx, i) \in Seq(GoodLine) /\ PhasesOf(argv, cxx, i) \in Seq(Unlinked)
  /\ NamesOf(PhasesOf(argv, cxx, i)) = IF i \in InstrOf(argv, cxx) THEN <<argv[i]>> ELSE <<>>

LEMMA OneInput ==
  ASSUME NEW list \in Seq(Args), NEW cxx, Build(list, cxx, <<>>).ok,
         NEW i \in InputSet(Expand(list))
  PROVE  LinesOfOne(Expand(list), cxx, i)
<1> DEFINE argv == Expand(list)
           l == Line("input", argv[i], Language(argv, cxx, i))
           k == Line("compiler", "", "ir")
           rest == IF Language(argv, cxx, i) \in {"c", "c++"} THEN <<k>> ELSE <<>>
<1>1. argv \in Seq(Args)
  BY ExpandType
<1>2. Language(argv, cxx, i) \in Languages
  <2>1. DOMAIN <<>> = {}
    OBVIOUS
  <2> QED BY <2>1, InputsHaveLanguage
<1>3. i \in InputSet(argv)
  OBVIOUS
<1> HIDE DEF argv
<1>4. argv[i] \in Args
  BY <1>1, <1>3 DEF InputSet
<1>5. l \in GoodLine /\ k \in GoodLine
  BY <1>2, <1>4 DEF Line, GoodLine, LineType, Languages
<1>u. l \in Unlinked /\ k \in Unlinked
  BY <1>5 DEF Unlinked, Line
<1>6. /\ Matches(l) <=> "quote" \notin ToSet(Text[argv[i]])
      /\ IsSource(l) <=> Language(argv, cxx, i) \in {"c", "c++", "ir"}
      /\ l.name = argv[i] /\ ~IsSource(k)
  BY DEF Line, Matches, IsSource
<1>7. PhasesOf(argv, cxx, i) = <<l>> \o rest
  BY Zenon DEF PhasesOf
<1>8. i \in InstrOf(argv, cxx) <=> Matches(l) /\ IsSource(l)
  BY <1>3, <1>6 DEF InstrOf
<1> HIDE DEF l, k
<1>9. NamesOf(<<l>>) = IF i \in InstrOf(argv, cxx) THEN <<argv[i]>> ELSE <<>>
  BY <1>5, <1>6, <1>8, NamesOne
<1>10. NamesOf(<<k>>) = <<>>
  BY <1>5, <1>6, NamesOne
<1>11. <<l>> \in Seq(GoodLine) /\ <<k>> \in Seq(GoodLine) /\ <<>> \in Seq(GoodLine)
  BY <1>5, ShortSequences, Zenon
<1>12. rest \in Seq(GoodLine) /\ NamesOf(rest) = <<>>
  BY <1>10, <1>11, NamesNothing
<1> HIDE DEF rest
<1> DEFINE first == <<l>>
<1>13. first \in Seq(GoodLine)
  BY <1>11
<1>14. NamesOf(first) = IF i \in InstrOf(argv, cxx) THEN <<argv[i]>> ELSE <<>>
  BY <1>9
<1>15. PhasesOf(argv, cxx, i) = first \o rest
  BY <1>7
<1> HIDE DEF first
<1>16. first \o rest \in Seq(GoodLine)
  BY <1>12, <1>13
<1>17. NamesOf(first \o rest) = NamesOf(first) \o NamesOf(rest)
  BY <1>12, <1>13, NamesConcat
<1>18. NamesOf(first \o rest) = NamesOf(first)
  <2>1. NamesOf(first) \in Seq(Names)
    BY <1>13, NamesType
  <2>2. NamesOf(first) \o <<>> = NamesOf(first)
    BY <2>1
  <2> QED BY <1>12, <1>17, <2>2
<1>19. first \o rest \in Seq(Unlinked)
  <2>1. <<l>> \in Seq(Unlinked) /\ <<k>> \in Seq(Unlinked) /\ <<>> \in Seq(Unlinked)
    BY <1>u, ShortSequences, Zenon
  <2>2. first \in Seq(Unlinked)
    BY <2>1 DEF first
  <2>3. rest \in Seq(Unlinked)
    BY <2>1 DEF rest
  <2> QED BY <2>2, <2>3
<1>20. LinesOfOne(argv, cxx, i)
  BY <1>14, <1>15, <1>16, <1>18, <1>19 DEF LinesOfOne
<1> QED BY <1>20 DEF argv

(* The names of the sources that the lines of the inputs up to x have. *)
UpTo(S, x) == {i \in S : i <= x}

UpToGrows(m, S, x) ==
  /\ Positions(UpTo(S, x), x) /\ UpTo(S, 0) = {} /\ UpTo(S, m) = S
  /\ x + 1 \notin S => UpTo(S, x + 1) = UpTo(S, x)
  /\ x + 1 \in S => UpTo(S, x + 1) = UpTo(S, x) \cup {x + 1}

LEMMA UpToMore ==
  ASSUME NEW m, NEW S, Positions(S, m), NEW x \in Nat
  PROVE  UpToGrows(m, S, x)
<1>1. m \in Nat /\ \A j \in S : j \in Int /\ 1 <= j /\ j <= m
  BY PositionsAre
<1>2. \A j \in UpTo(S, x) : j \in 1 .. x
  BY <1>1 DEF UpTo
<1>3. Positions(UpTo(S, x), x)
  BY <1>2 DEF Positions
<1>4. UpTo(S, 0) = {} /\ UpTo(S, m) = S
  BY <1>1 DEF UpTo
<1>5. \A j \in S : j <= x + 1 <=> j <= x \/ j = x + 1
  BY <1>1
<1>6. /\ x + 1 \notin S => UpTo(S, x + 1) = UpTo(S, x)
      /\ x + 1 \in S => UpTo(S, x + 1) = UpTo(S, x) \cup {x + 1}
  BY <1>1, <1>5 DEF UpTo
<1> QED BY <1>3, <1>4, <1>6 DEF UpToGrows

LEMMA InputLines ==
  ASSUME NEW list \in Seq(Args), NEW cxx, Build(list, cxx, <<>>).ok,
         NEW argv, argv = Expand(list),
         NEW each, each = [k \in DOMAIN InputsOf(argv) |-> PhasesOf(argv, cxx, InputsOf(argv)[k])]
  PROVE  /\ FlattenSeq(each) \in Seq(GoodLine)
         /\ NamesOf(FlattenSeq(each)) = At(argv, InstrOf(argv, cxx))
<1> DEFINE V == InputSet(argv)
           I == InstrOf(argv, cxx)
           L == Len(argv)
           ph == [i \in V |-> PhasesOf(argv, cxx, i)]
           of(x) == Image(ph, InOrder(UpTo(V, x)))
           claim(x) == NamesOf(FlattenSeq(of(x))) = At(argv, UpTo(I, x))
           S == {x \in Nat : x <= L => claim(x)}
<1>1. argv \in Seq(Args) /\ L \in Nat
  BY ExpandType
<1>2. Positions(V, L) /\ InputsOf(argv) = InOrder(V)
  BY <1>1, InputFacts
<1>3. \A i \in V : LinesOfOne(argv, cxx, i)
  BY OneInput
<1>4. Positions(I, L) /\ I \subseteq V
  BY <1>2 DEF InstrOf, Positions
<1>5. \A i \in V : ph[i] \in Seq(GoodLine) /\ NamesOf(ph[i]) = IF i \in I THEN <<argv[i]>> ELSE <<>>
  BY <1>3 DEF LinesOfOne
<1>6. each = of(L) /\ UpTo(V, L) = V
  <2>1. UpTo(V, L) = V
    <3>1. UpToGrows(L, V, 0)
      BY <1>2, UpToMore
    <3> QED BY <3>1 DEF UpToGrows
  <2>2. InOrder(V) \in Seq(V)
    BY <1>2, OrderFacts
  <2>3. \A k \in DOMAIN InOrder(V) : InOrder(V)[k] \in V
    BY <2>2
  <2>4. Image(ph, InOrder(V)) = [k \in DOMAIN InOrder(V) |-> ph[InOrder(V)[k]]]
    BY DEF Image
  <2>5. \A k \in DOMAIN InOrder(V) : ph[InOrder(V)[k]] = PhasesOf(argv, cxx, InOrder(V)[k])
    BY <2>3
  <2>6. Image(ph, InOrder(V)) = [k \in DOMAIN InOrder(V) |-> PhasesOf(argv, cxx, InOrder(V)[k])]
    BY <2>4, <2>5, Zenon
  <2> QED BY <1>2, <2>1, <2>6, Zenon
<1>7. UpTo(I, L) = I
  <2>1. UpToGrows(L, I, 0)
    BY <1>4, UpToMore
  <2> QED BY <2>1 DEF UpToGrows
<1> HIDE DEF V, I, L, ph
<1>8. ASSUME NEW x \in Nat  PROVE of(x) \in Seq(Seq(GoodLine)) /\ InOrder(UpTo(V, x)) \in Seq(V)
  <2>1. Positions(UpTo(V, x), x)
    <3>1. UpToGrows(L, V, x)
      BY <1>2, UpToMore
    <3> QED BY <3>1 DEF UpToGrows
  <2>2. InOrder(UpTo(V, x)) \in Seq(UpTo(V, x)) /\ UpTo(V, x) \subseteq V
    BY <2>1, OrderFacts DEF UpTo
  <2> DEFINE o == InOrder(UpTo(V, x))
             T == Seq(GoodLine)
  <2>3. o \in Seq(V)
    BY <2>2
  <2>4. \A i \in V : ph[i] \in T
    BY <1>5
  <2> HIDE DEF o, T
  <2>5. Image(ph, o) \in Seq(T)
    BY <2>3, <2>4, ImageType
  <2> QED BY <2>3, <2>5 DEF o, T
<1>9. \A x \in Nat : of(x) \in Seq(Seq(GoodLine)) /\ FlattenSeq(of(x)) \in Seq(GoodLine)
  BY <1>8, FlattenType
<1>10. 0 \in S
  <2>1. UpTo(V, 0) = {} /\ UpTo(I, 0) = {}
    <3>1. UpToGrows(L, V, 0) /\ UpToGrows(L, I, 0)
      BY <1>2, <1>4, UpToMore
    <3> QED BY <3>1 DEF UpToGrows
  <2>2. InOrder({}) = <<>>
    BY FS_EmptySet DEF InOrder
  <2>3. of(0) = <<>>
    <3>1. of(0) = Image(ph, InOrder(UpTo(V, 0)))
      OBVIOUS
    <3> HIDE DEF of
    <3>2. of(0) = Image(ph, <<>>)
      BY <2>1, <2>2, <3>1
    <3>3. Image(ph, <<>>) = <<>>
      BY DEF Image
    <3> QED BY <3>2, <3>3
  <2>4. FlattenSeq(<<>>) = <<>>
    BY ExpandNothing DEF Expand
  <2> QED BY <2>1, <2>3, <2>4, NamesNothing, NothingAt
<1>11. ASSUME NEW x \in Nat, x \in S  PROVE x + 1 \in S
  <2> SUFFICES ASSUME x + 1 <= L  PROVE claim(x + 1)
    OBVIOUS
  <2>1. claim(x)
    BY <1>1, <1>11 DEF L
  <2>2. /\ x + 1 \notin V => UpTo(V, x + 1) = UpTo(V, x)
        /\ x + 1 \in V => UpTo(V, x + 1) = UpTo(V, x) \cup {x + 1}
        /\ x + 1 \notin I => UpTo(I, x + 1) = UpTo(I, x)
        /\ x + 1 \in I => UpTo(I, x + 1) = UpTo(I, x) \cup {x + 1}
        /\ Positions(UpTo(V, x), x) /\ Positions(UpTo(I, x), x)
    <3>1. /\ x + 1 \notin V => UpTo(V, x + 1) = UpTo(V, x)
          /\ x + 1 \in V => UpTo(V, x + 1) = UpTo(V, x) \cup {x + 1}
          /\ Positions(UpTo(V, x), x)
      <4>1. UpToGrows(L, V, x)
        BY <1>2, UpToMore
      <4> QED BY <4>1 DEF UpToGrows
    <3>2. /\ x + 1 \notin I => UpTo(I, x + 1) = UpTo(I, x)
          /\ x + 1 \in I => UpTo(I, x + 1) = UpTo(I, x) \cup {x + 1}
          /\ Positions(UpTo(I, x), x)
      <4>1. UpToGrows(L, I, x)
        BY <1>4, UpToMore
      <4> QED BY <4>1 DEF UpToGrows
    <3> QED BY <3>1, <3>2
  <2>3. CASE x + 1 \notin V
    <3>1. x + 1 \notin I
      BY <1>4, <2>3
    <3> QED BY <2>1, <2>2, <2>3, <3>1
  <2>4. CASE x + 1 \in V
    <3> DEFINE o == InOrder(UpTo(V, x))
               s == of(x)
               f == FlattenSeq(s)
               p == ph[x + 1]
    <3>1. o \in Seq(V) /\ s \in Seq(Seq(GoodLine)) /\ f \in Seq(GoodLine)
      BY <1>8, <1>9
    <3>2. p \in Seq(GoodLine) /\ NamesOf(p) = IF x + 1 \in I THEN <<argv[x + 1]>> ELSE <<>>
      BY <1>5, <2>4
    <3>3. InOrder(UpTo(V, x + 1)) = Append(o, x + 1)
      BY <2>2, <2>4, OrderMore
    <3>4. Image(ph, Append(o, x + 1)) = Append(Image(ph, o), p)
      BY <2>4, <3>1, ImageAppend
    <3>5. of(x + 1) = Append(s, p)
      BY <3>3, <3>4
    <3>6. claim(x) <=> NamesOf(f) = At(argv, UpTo(I, x))
      OBVIOUS
    <3>7. claim(x + 1) <=> NamesOf(FlattenSeq(Append(s, p))) = At(argv, UpTo(I, x + 1))
      BY <3>5
    <3>8. FlattenSeq(Append(s, p)) = f \o p
      BY <3>1, <3>2, FlattenAppend
    <3> HIDE DEF o, s, f, p, of, claim
    <3>9. NamesOf(f \o p) = NamesOf(f) \o NamesOf(p)
      BY <3>1, <3>2, NamesConcat
    <3> DEFINE a == At(argv, UpTo(I, x))
    <3>10. a \in Seq(Args) /\ x < L /\ argv[x + 1] \in Args
      <4>1. x < L /\ x + 1 \in 1 .. L
        BY <1>1 DEF L
      <4>2. Positions(UpTo(I, x), L)
        BY <1>1, <2>2, <4>1, PositionsRise DEF L
      <4>3. a \in Seq(Args)
        BY <1>1, <4>2, AtFacts DEF L
      <4> QED BY <1>1, <4>1, <4>3 DEF L
    <3>11. CASE x + 1 \in I
      <4>1. At(argv, UpTo(I, x) \cup {x + 1}) = Append(a, argv[x + 1])
        BY <1>1, <2>2, <3>10, AtMore DEF L
      <4>2. At(argv, UpTo(I, x + 1)) = Append(a, argv[x + 1])
        BY <2>2, <3>11, <4>1
      <4> HIDE DEF a
      <4>3. a \o <<argv[x + 1]>> = Append(a, argv[x + 1])
        BY <3>10
      <4> QED BY <2>1, <3>2, <3>6, <3>7, <3>8, <3>9, <3>11, <4>2, <4>3, Zenon DEF a
    <3>12. CASE x + 1 \notin I
      <4>1. At(argv, UpTo(I, x + 1)) = a
        BY <2>2, <3>12
      <4> HIDE DEF a
      <4>2. a \o <<>> = a
        BY <3>10
      <4> QED BY <2>1, <3>2, <3>6, <3>7, <3>8, <3>9, <3>12, <4>1, <4>2, Zenon DEF a
    <3> QED BY <3>11, <3>12
  <2> QED BY <2>3, <2>4
<1>12. Nat \subseteq S
  <2> HIDE DEF S
  <2> QED BY <1>10, <1>11, SetInduction
<1>13. claim(L)
  BY <1>1, <1>12 DEF L
<1>14. FlattenSeq(of(L)) \in Seq(GoodLine)
  BY <1>1, <1>9 DEF L
<1> QED BY <1>6, <1>7, <1>13, <1>14, Zenon DEF I

LEMMA EachUnlinked ==
  ASSUME NEW list \in Seq(Args), NEW cxx, Build(list, cxx, <<>>).ok,
         NEW argv, argv = Expand(list),
         NEW each, each = [k \in DOMAIN InputsOf(argv) |-> PhasesOf(argv, cxx, InputsOf(argv)[k])]
  PROVE  FlattenSeq(each) \in Seq(Unlinked)
<1>1. argv \in Seq(Args)
  BY ExpandType
<1>2. \A i \in InputSet(argv) : PhasesOf(argv, cxx, i) \in Seq(Unlinked)
  BY OneInput DEF LinesOfOne
<1> DEFINE ins == InputsOf(argv)
<1>3. ins \in Seq(InputSet(argv))
  <2>1. Positions(InputSet(argv), Len(argv)) /\ ins = InOrder(InputSet(argv))
    BY <1>1, InputFacts
  <2> HIDE DEF ins
  <2> QED BY <2>1, OrderFacts
<1>4. each = [k \in DOMAIN ins |-> PhasesOf(argv, cxx, ins[k])]
  OBVIOUS
<1> HIDE DEF ins
<1>5. DOMAIN ins = 1 .. Len(ins) /\ Len(ins) \in Nat /\ \A k \in 1 .. Len(ins) : ins[k] \in InputSet(argv)
  BY <1>3
<1>6. \A k \in 1 .. Len(ins) : PhasesOf(argv, cxx, ins[k]) \in Seq(Unlinked)
  BY <1>2, <1>5
<1>7. each \in Seq(Seq(Unlinked))
  BY <1>4, <1>5, <1>6, IsASeq
<1> QED BY <1>7, FlattenType

(* The lines name every source that can be instrumented, and say whether the linker runs. *)
Linked(s) == \E k \in DOMAIN s : s[k].tool = "linker"

LEMMA PhasesTell ==
  ASSUME NEW list \in Seq(Args), NEW cxx, Build(list, cxx, <<>>).ok,
         NEW argv, argv = Expand(list)
  PROVE  /\ NamesOf(Phases(list, cxx)) = At(argv, InstrOf(argv, cxx))
         /\ Linked(Phases(list, cxx)) <=> Mode(argv) = "link"
<1> DEFINE each == [k \in DOMAIN InputsOf(argv) |-> PhasesOf(argv, cxx, InputsOf(argv)[k])]
           first == <<Line("warning", "", "")>>
           last == <<Line("linker", "", "image")>>
           rest == IF Mode(argv) = "link" THEN last ELSE <<>>
           mid == FlattenSeq(each)
<1>1. mid \in Seq(GoodLine) /\ mid \in Seq(Unlinked) /\ NamesOf(mid) = At(argv, InstrOf(argv, cxx))
  BY InputLines, EachUnlinked
<1>2. Phases(list, cxx) = (first \o mid) \o rest
  BY Zenon DEF Phases
<1> DEFINE l == Line("warning", "", "")
           k == Line("linker", "", "image")
<1>3. l \in GoodLine /\ k \in GoodLine /\ ~IsSource(l) /\ ~IsSource(k)
      /\ l.tool # "linker" /\ k.tool = "linker"
  BY DEF Line, GoodLine, LineType, Languages, IsSource
<1>4. first = <<l>> /\ last = <<k>>
  OBVIOUS
<1> HIDE DEF l, k
<1>5. first \in Seq(GoodLine) /\ last \in Seq(GoodLine) /\ <<>> \in Seq(GoodLine)
  BY <1>3, <1>4, ShortSequences, Zenon
<1>6. NamesOf(<<l>>) = <<>> /\ NamesOf(<<k>>) = <<>>
  BY <1>3, NamesOne
<1>7. rest \in Seq(GoodLine) /\ NamesOf(rest) = <<>> /\ NamesOf(first) = <<>>
  BY <1>4, <1>5, <1>6, NamesNothing, Zenon
<1>8. /\ Len(first) = 1 /\ first[1].tool # "linker"
      /\ Mode(argv) = "link" => Len(rest) = 1 /\ rest[1].tool = "linker"
      /\ Mode(argv) # "link" => Len(rest) = 0
  <2>1. Len(<<l>>) = 1 /\ <<l>>[1] = l /\ Len(<<k>>) = 1 /\ <<k>>[1] = k /\ Len(<<>>) = 0
    OBVIOUS
  <2>2. Len(first) = 1 /\ first[1].tool # "linker"
    BY <1>3, <1>4, <2>1
  <2>3. CASE Mode(argv) = "link"
    <3>1. rest = <<k>>
      BY <1>4, <2>3
    <3> HIDE DEF rest
    <3> QED BY <1>3, <2>1, <2>2, <2>3, <3>1
  <2>4. CASE Mode(argv) # "link"
    <3>1. rest = <<>>
      BY <2>4
    <3> HIDE DEF rest
    <3> QED BY <2>1, <2>2, <2>4, <3>1
  <2> QED BY <2>3, <2>4
<1> HIDE DEF first, last, mid, rest, each
<1>9. NamesOf(first \o mid) = NamesOf(first) \o NamesOf(mid)
  BY <1>1, <1>5, NamesConcat
<1> DEFINE a == first \o mid
<1>10. a \in Seq(GoodLine) /\ Len(a) = Len(first) + Len(mid)
  BY <1>1, <1>5
<1>11. NamesOf(a \o rest) = NamesOf(a) \o NamesOf(rest)
  <2> HIDE DEF a
  <2> QED BY <1>7, <1>10, NamesConcat
<1>12. NamesOf(mid) \in Seq(Names)
  BY <1>1, NamesType
<1>13. <<>> \o NamesOf(mid) = NamesOf(mid) /\ NamesOf(mid) \o <<>> = NamesOf(mid)
  BY <1>12
<1>14. NamesOf(a \o rest) = NamesOf(mid)
  BY <1>7, <1>9, <1>11, <1>13, Zenon
<1>15. \A j \in 1 .. Len(a) : a[j].tool # "linker"
  <2>1. Len(first) \in Nat /\ Len(mid) \in Nat
    BY <1>1, <1>5
  <2>2. \A j \in 1 .. Len(mid) : mid[j].tool # "linker"
    <3>1. \A j \in 1 .. Len(mid) : mid[j] \in Unlinked
      BY <1>1
    <3> QED BY <3>1 DEF Unlinked
  <2>3. \A j \in 1 .. Len(a) : a[j] = IF j <= Len(first) THEN first[j] ELSE mid[j - Len(first)]
    BY <1>1, <1>5
  <2> SUFFICES ASSUME NEW j \in 1 .. Len(a)  PROVE a[j].tool # "linker"
    OBVIOUS
  <2>4. j = 1 \/ j - Len(first) \in 1 .. Len(mid)
    BY <1>8, <1>10, <2>1
  <2> HIDE DEF a
  <2>5. CASE j = 1
    BY <1>8, <2>3, <2>5
  <2>6. CASE j # 1 /\ j - Len(first) \in 1 .. Len(mid)
    <3>1. ~(j <= Len(first))
      BY <1>8, <2>1, <2>6
    <3> QED BY <2>2, <2>3, <2>6, <3>1
  <2> QED BY <2>4, <2>5, <2>6
<1> HIDE DEF a
<1> DEFINE s == a \o rest
<1>16. /\ Len(s) = Len(a) + Len(rest) /\ DOMAIN s = 1 .. Len(s) /\ Len(a) \in Nat
       /\ \A j \in 1 .. Len(s) : s[j] = IF j <= Len(a) THEN a[j] ELSE rest[j - Len(a)]
  BY <1>7, <1>10, SMTT(30)
<1>17. Linked(s) <=> Mode(argv) = "link"
  <2> HIDE DEF s
  <2>1. CASE Mode(argv) = "link"
    <3>1. Len(a) + 1 \in 1 .. Len(s) /\ ~(Len(a) + 1 <= Len(a)) /\ (Len(a) + 1) - Len(a) = 1
      BY <1>8, <1>16, <2>1
    <3>2. s[Len(a) + 1] = rest[1]
      BY <1>16, <3>1
    <3> QED BY <1>8, <1>16, <2>1, <3>1, <3>2 DEF Linked
  <2>2. CASE Mode(argv) # "link"
    <3>1. \A j \in 1 .. Len(s) : j \in 1 .. Len(a) /\ s[j] = a[j]
      BY <1>8, <1>16, <2>2
    <3> QED BY <1>15, <1>16, <2>2, <3>1 DEF Linked
  <2> QED BY <2>1, <2>2
<1>18. Phases(list, cxx) = s
  BY <1>2 DEF a
<1> QED BY <1>1, <1>14, <1>17, <1>18, Zenon

LEMMA NamesAre ==
  ASSUME NEW s \in Seq(GoodLine)
  PROVE  ToSet(NamesOf(s)) = {s[k].name : k \in {j \in DOMAIN s : Matches(s[j]) /\ IsSource(s[j])}}
<1> DEFINE S == {k \in DOMAIN s : s[k] \notin Skipped}
           a == Left(s, Skipped)
           c == Cardinality(S)
<1>1. DOMAIN s = 1 .. Len(s) /\ Len(s) \in Nat /\ \A k \in 1 .. Len(s) : s[k] \in GoodLine
  OBVIOUS
<1>2. Positions(S, Len(s)) /\ S \subseteq 1 .. Len(s)
  BY <1>1 DEF Positions
<1>3. \A k : k \in S <=> k \in {j \in DOMAIN s : Matches(s[j]) /\ IsSource(s[j])}
  BY <1>1 DEF Skipped
<1> HIDE DEF S
<1>4. /\ At(s, S) \in Seq(GoodLine) /\ Len(At(s, S)) = c
      /\ \A k \in 1 .. c : InOrder(S)[k] \in S /\ At(s, S)[k] = s[InOrder(S)[k]]
      /\ \A i \in S : Rank(S, i) \in 1 .. c /\ At(s, S)[Rank(S, i)] = s[i]
  BY <1>2, AtFacts
<1>5. a = At(s, S)
  BY DEF Left, S
<1> HIDE DEF a
<1>6. DOMAIN a = 1 .. c /\ \A k \in 1 .. c : a[k] \in GoodLine
  <2>1. a \in Seq(GoodLine) /\ Len(a) = c
    BY <1>4, <1>5
  <2> HIDE DEF c
  <2> QED BY <2>1
<1>7. NamesOf(s) = [k \in 1 .. c |-> a[k].name]
  <2>1. \A k \in 1 .. c : NameOf[a[k]] = a[k].name
    BY <1>6 DEF NameOf
  <2>2. NamesOf(s) = [k \in DOMAIN a |-> NameOf[a[k]]]
    BY DEF NamesOf, Image, a
  <2> QED BY <1>6, <2>1, <2>2
<1>8. \A x : x \in ToSet(NamesOf(s)) <=> \E k \in 1 .. c : x = a[k].name
  BY <1>7 DEF ToSet
<1>9. \A x : (\E k \in 1 .. c : x = a[k].name) <=> \E i \in S : x = s[i].name
  BY <1>4, <1>5
<1>10. \A x : x \in ToSet(NamesOf(s)) <=> x \in {s[k].name : k \in S}
  <2>1. \A x : x \in {s[k].name : k \in S} <=> \E i \in S : x = s[i].name
    OBVIOUS
  <2> QED BY <1>8, <1>9, <2>1, Zenon
<1>11. ToSet(NamesOf(s)) = {s[k].name : k \in S}
  BY <1>10
<1>12. S = {j \in DOMAIN s : Matches(s[j]) /\ IsSource(s[j])}
  BY <1>3
<1> QED BY <1>11, <1>12

(* The first m of a list. *)
FirstOf(s, m) == [k \in 1 .. m |-> s[k]]

LEMMA FirstsAre ==
  ASSUME NEW X, NEW s \in Seq(X)
  PROVE  /\ FirstOf(s, 0) = <<>> /\ FirstOf(s, Len(s)) = s
         /\ \A m \in Nat : m <= Len(s) => FirstOf(s, m) \in Seq(X)
         /\ \A m \in Nat : m < Len(s) => FirstOf(s, m + 1) = Append(FirstOf(s, m), s[m + 1])
<1>1. DOMAIN s = 1 .. Len(s) /\ Len(s) \in Nat /\ \A k \in 1 .. Len(s) : s[k] \in X
  OBVIOUS
<1>2. FirstOf(s, 0) = <<>>
  BY DEF FirstOf
<1>3. FirstOf(s, Len(s)) = s
  BY DEF FirstOf
<1>4. ASSUME NEW m \in Nat, m <= Len(s)  PROVE FirstOf(s, m) \in Seq(X)
  <2>1. \A k \in 1 .. m : s[k] \in X
    BY <1>1, <1>4
  <2> QED BY <2>1, IsASeq DEF FirstOf
<1>5. ASSUME NEW m \in Nat, m < Len(s)
      PROVE  FirstOf(s, m + 1) = Append(FirstOf(s, m), s[m + 1])
  <2> DEFINE a == FirstOf(s, m)
             b == FirstOf(s, m + 1)
             c == s[m + 1]
  <2>1. a \in Seq(X) /\ b \in Seq(X) /\ c \in X
    BY <1>1, <1>4, <1>5
  <2>2. Len(a) = m /\ Len(b) = m + 1 /\ \A k \in 1 .. m : a[k] = s[k] /\ b[k] = s[k]
    BY DEF FirstOf
  <2>3. b[m + 1] = c
    BY DEF FirstOf
  <2> HIDE DEF a, b, c
  <2>4. /\ Append(a, c) \in Seq(X) /\ Len(Append(a, c)) = m + 1
        /\ \A k \in 1 .. m : Append(a, c)[k] = a[k]
        /\ Append(a, c)[m + 1] = c
    BY <2>1, <2>2
  <2>5. \A k \in 1 .. m + 1 : Append(a, c)[k] = b[k]
    BY <2>2, <2>3, <2>4
  <2>6. b = Append(a, c)
    BY <2>1, <2>2, <2>4, <2>5, SeqEqual
  <2> QED BY <2>6 DEF a, b, c
<1> QED BY <1>2, <1>3, <1>4, <1>5

LEMMA LinkedAppend ==
  ASSUME NEW s \in Seq(GoodLine), NEW l \in GoodLine
  PROVE  Linked(Append(s, l)) <=> Linked(s) \/ l.tool = "linker"
<1>1. /\ DOMAIN s = 1 .. Len(s) /\ Len(s) \in Nat /\ DOMAIN Append(s, l) = 1 .. Len(s) + 1
      /\ \A k \in 1 .. Len(s) : Append(s, l)[k] = s[k]
      /\ Append(s, l)[Len(s) + 1] = l /\ Len(s) + 1 \in 1 .. Len(s) + 1
      /\ \A k \in 1 .. Len(s) + 1 : k \in 1 .. Len(s) \/ k = Len(s) + 1
      /\ \A k \in 1 .. Len(s) : k \in 1 .. Len(s) + 1
  OBVIOUS
<1> DEFINE t == Append(s, l)
<1> HIDE DEF t
<1> QED BY <1>1 DEF Linked, t

(***************************************************************************)
(* The invariant that says where the inputs come from: while the loops run *)
(* they are the sources of the lines or phases that have been read.        *)
(***************************************************************************)
Named ==
  /\ \A k \in DOMAIN phases : Matches(phases[k])
  /\ pc = "query" => phases = <<>>
  /\ pc = "parse" => /\ NamesOf(phases) = NamesOf(FirstOf(lines, n - 1))
                     /\ Linked(phases) <=> Linked(FirstOf(lines, n - 1))
  /\ pc \notin {"query", "parse"} => /\ NamesOf(phases) = NamesOf(lines)
                                     /\ Linked(phases) <=> Linked(lines)
  /\ pc = "inputs" => inputs = NamesOf(FirstOf(phases, n - 1))
  /\ pc \in {"options", "stdc", "runtime"} => inputs = NamesOf(phases)

LEMMA NamedInit == Init => Named
BY DEF Init, Named

LEMMA NamedQuery == Typed /\ Named /\ Query => Named' /\ pc' = "parse"
<1> SUFFICES ASSUME Typed, Named, Query  PROVE Named' /\ pc' = "parse"
  OBVIOUS
<1>1. args \in Seq(Args) /\ Build(args, build.cxx, <<>>).ok
  BY DEF Typed, TypeOK
<1>2. /\ Understood(Command(<<"-ccc-print-phases">> \o args))
      /\ Tail(ShellArgs(Command(<<"-ccc-print-phases">> \o args))) = args
  BY <1>1, QueryArrives
<1>3. pc' = "parse" /\ n' = 1 /\ UNCHANGED phases /\ phases = <<>>
  BY <1>1, <1>2 DEF Query, Goto, Named
<1>4. FirstOf(lines', n' - 1) = <<>>
  BY <1>3 DEF FirstOf
<1> QED BY <1>3, <1>4 DEF Named

LEMMA NamedParse == Typed /\ Kept /\ Named /\ ParsePhase => Named'
<1> SUFFICES ASSUME Typed, Kept, Named, ParsePhase  PROVE Named'
  OBVIOUS
<1>1. /\ pc = "parse" /\ UNCHANGED <<lines, inputs>> /\ inputs = <<>>
      /\ n \in Nat /\ 1 <= n /\ n <= Len(lines) + 1
      /\ lines \in Seq(GoodLine) /\ phases \in Seq(GoodLine)
      /\ NamesOf(phases) = NamesOf(FirstOf(lines, n - 1))
      /\ Linked(phases) <=> Linked(FirstOf(lines, n - 1))
      /\ \A k \in DOMAIN phases : Matches(phases[k])
  BY DEF ParsePhase, Named, Kept, Typed, TypeOK
<1>2. CASE Ends(lines)
  <2>1. pc' = "inputs" /\ n' = 1 /\ UNCHANGED phases
    BY <1>1, <1>2 DEF ParsePhase, Goto
  <2>2. n - 1 = Len(lines) /\ FirstOf(lines, Len(lines)) = lines
    BY <1>1, <1>2, FirstsAre DEF Ends
  <2>3. NamesOf(FirstOf(phases, n - 1)') = <<>>
    BY <2>1, NamesNothing DEF FirstOf
  <2> QED BY <1>1, <2>1, <2>2, <2>3 DEF Named
<1>3. CASE ~Ends(lines)
  <2> DEFINE l == lines[n]
             f == FirstOf(lines, n - 1)
  <2>1. /\ pc' = "parse" /\ n' = n + 1
        /\ phases' = IF Matches(l) THEN Append(phases, l) ELSE phases
    BY <1>1, <1>3 DEF ParsePhase
  <2>2. n - 1 \in Nat /\ n - 1 < Len(lines) /\ (n - 1) + 1 = n /\ l \in GoodLine /\ n' - 1 = n
    BY <1>1, <1>3, <2>1 DEF Ends
  <2>3. f \in Seq(GoodLine)
    BY <1>1, <2>2, FirstsAre
  <2>4. FirstOf(lines, n) = Append(f, l)
    <3>1. FirstOf(lines, (n - 1) + 1) = Append(FirstOf(lines, n - 1), lines[(n - 1) + 1])
      BY <1>1, <2>2, FirstsAre
    <3> QED BY <2>2, <3>1
  <2> HIDE DEF l, f
  <2>5. /\ NamesOf(Append(f, l)) = IF Matches(l) /\ IsSource(l) THEN Append(NamesOf(f), l.name) ELSE NamesOf(f)
        /\ NamesOf(Append(phases, l)) = IF Matches(l) /\ IsSource(l) THEN Append(NamesOf(phases), l.name)
                                        ELSE NamesOf(phases)
    BY <1>1, <2>2, <2>3, NamesAppend
  <2>6. /\ Linked(Append(f, l)) <=> Linked(f) \/ l.tool = "linker"
        /\ Linked(Append(phases, l)) <=> Linked(phases) \/ l.tool = "linker"
    BY <1>1, <2>2, <2>3, LinkedAppend
  <2>7. l.tool = "linker" => Matches(l)
    BY DEF Matches
  <2>8. NamesOf(phases') = NamesOf(Append(f, l)) /\ (Linked(phases') <=> Linked(Append(f, l)))
    <3>1. NamesOf(phases) = NamesOf(f) /\ (Linked(phases) <=> Linked(f))
      BY <1>1 DEF f
    <3> QED BY <2>1, <2>5, <2>6, <2>7, <3>1
  <2>9. \A k \in DOMAIN phases' : Matches(phases'[k])
    <3>1. CASE Matches(l)
      <4>1. phases' = Append(phases, l)
        BY <2>1, <3>1
      <4>2. \A k \in DOMAIN phases' : (k \in DOMAIN phases /\ phases'[k] = phases[k]) \/ phases'[k] = l
        BY <1>1, <2>2, <4>1
      <4> QED BY <1>1, <3>1, <4>2
    <3>2. CASE ~Matches(l)
      BY <1>1, <2>1, <3>2
    <3> QED BY <3>1, <3>2
  <2>10. FirstOf(lines, n - 1)' = Append(f, l)
    BY <1>1, <2>2, <2>4
  <2> QED BY <1>1, <2>1, <2>8, <2>9, <2>10 DEF Named
<1> QED BY <1>2, <1>3

LEMMA NamedInputs == Typed /\ Named /\ GetInput => Named'
<1> SUFFICES ASSUME Typed, Named, GetInput  PROVE Named'
  OBVIOUS
<1>1. /\ pc = "inputs" /\ UNCHANGED <<lines, phases>>
      /\ n \in Nat /\ 1 <= n /\ n <= Len(phases) + 1
      /\ phases \in Seq(GoodLine)
      /\ NamesOf(phases) = NamesOf(lines) /\ (Linked(phases) <=> Linked(lines))
      /\ inputs = NamesOf(FirstOf(phases, n - 1))
      /\ \A k \in DOMAIN phases : Matches(phases[k])
  BY DEF GetInput, Named, Typed, TypeOK
<1>2. CASE Ends(phases)
  <2>1. pc' = "options" /\ UNCHANGED inputs
    BY <1>1, <1>2 DEF GetInput, Goto
  <2>2. n - 1 = Len(phases) /\ FirstOf(phases, Len(phases)) = phases
    BY <1>1, <1>2, FirstsAre DEF Ends
  <2> QED BY <1>1, <2>1, <2>2 DEF Named
<1>3. CASE ~Ends(phases) /\ IsSource(phases[n]) /\ phases[n].name \in Piped
  <2>1. pc' = "done"
    BY <1>1, <1>3 DEF GetInput, End
  <2> QED BY <1>1, <2>1 DEF Named
<1>4. CASE ~Ends(phases) /\ ~(IsSource(phases[n]) /\ phases[n].name \in Piped)
  <2> DEFINE l == phases[n]
             f == FirstOf(phases, n - 1)
  <2>1. /\ pc' = "inputs" /\ n' = n + 1
        /\ inputs' = IF IsSource(l) THEN Append(inputs, l.name) ELSE inputs
    BY <1>1, <1>4 DEF GetInput
  <2>2. n - 1 \in Nat /\ n - 1 < Len(phases) /\ (n - 1) + 1 = n /\ l \in GoodLine /\ n' - 1 = n
        /\ Matches(l)
    BY <1>1, <1>4, <2>1 DEF Ends
  <2>3. f \in Seq(GoodLine)
    BY <1>1, <2>2, FirstsAre
  <2>4. FirstOf(phases, n) = Append(f, l)
    <3>1. FirstOf(phases, (n - 1) + 1) = Append(FirstOf(phases, n - 1), phases[(n - 1) + 1])
      BY <1>1, <2>2, FirstsAre
    <3> QED BY <2>2, <3>1
  <2>5. inputs = NamesOf(f)
    BY <1>1
  <2> HIDE DEF l, f
  <2>6. NamesOf(Append(f, l)) = IF Matches(l) /\ IsSource(l) THEN Append(NamesOf(f), l.name) ELSE NamesOf(f)
    BY <2>2, <2>3, NamesAppend
  <2>7. inputs' = NamesOf(Append(f, l))
    BY <2>1, <2>2, <2>5, <2>6
  <2>8. FirstOf(phases, n - 1)' = Append(f, l)
    BY <1>1, <2>2, <2>4
  <2> QED BY <1>1, <2>1, <2>7, <2>8 DEF Named
<1> QED BY <1>2, <1>3, <1>4

LEMMA NamedStep == Typed /\ Kept /\ Named /\ [Next]_vars => Named'
<1> SUFFICES ASSUME Typed, Kept, Named, [Next]_vars  PROVE Named'
  OBVIOUS
<1>1. CASE Query
  BY <1>1, NamedQuery
<1>2. CASE ParsePhase
  BY <1>2, NamedParse
<1>3. CASE GetInput
  BY <1>3, NamedInputs
<1>4. CASE GetOption \/ RemoveStdc \/ AddOptions
  <2>1. /\ pc \in {"options", "stdc"} /\ UNCHANGED <<lines, phases, inputs>>
        /\ pc' \in {"options", "stdc", "runtime", "generate"}
    BY <1>4 DEF GetOption, RemoveStdc, AddOptions, Goto
  <2> QED BY <2>1 DEF Named
<1>5. CASE GenerateRuntime \/ GenerateLl \/ Final
  <2>1. /\ pc \in {"runtime", "generate"} /\ UNCHANGED <<lines, phases>>
        /\ pc' \in {"generate", "done"}
    BY <1>5 DEF GenerateRuntime, GenerateLl, Final, Goto, End
  <2> QED BY <2>1 DEF Named
<1>6. CASE UNCHANGED vars
  BY <1>6 DEF vars, Named
<1> QED BY <1>1, <1>2, <1>3, <1>4, <1>5, <1>6 DEF Next

LEMMA AlwaysNamed == Spec => []Named
BY NamedInit, NamedStep, AlwaysTyped, AlwaysKept, PTL DEF Spec

(* The wrapper finds the sources and the link of the user's command line. *)
LEMMA SourcesFound ==
  ASSUME Typed, Asked, Named, pc \notin {"query", "parse"}
  PROVE  /\ NamesOf(phases) = At(Words, Instrumentable)
         /\ HasLinkStage <=> Mode(Words) = "link"
         /\ SourceNames = {Words[i] : i \in Instrumentable}
<1>1. args \in Seq(Args) /\ Build(args, build.cxx, <<>>).ok /\ phases \in Seq(GoodLine)
  BY DEF Typed, TypeOK
<1>2. lines = Phases(args, build.cxx)
  BY DEF Asked
<1>3. InstrOf(Words, build.cxx) = Instrumentable
  BY SourcesAre DEF InstrOf
<1>4. /\ NamesOf(Phases(args, build.cxx)) = At(Words, InstrOf(Words, build.cxx))
      /\ Linked(Phases(args, build.cxx)) <=> Mode(Words) = "link"
  BY <1>1, PhasesTell DEF Words
<1>5. NamesOf(phases) = NamesOf(lines) /\ (Linked(phases) <=> Linked(lines))
      /\ \A k \in DOMAIN phases : Matches(phases[k])
  BY DEF Named
<1>6. NamesOf(phases) = At(Words, Instrumentable)
  BY <1>2, <1>3, <1>4, <1>5
<1>7. HasLinkStage <=> Mode(Words) = "link"
  BY <1>2, <1>4, <1>5 DEF HasLinkStage, Linked
<1>8. ToSet(NamesOf(phases)) = SourceNames
  <2>1. {j \in DOMAIN phases : Matches(phases[j]) /\ IsSource(phases[j])}
          = {l \in DOMAIN phases : IsSource(phases[l])}
    BY <1>5
  <2> QED BY <1>1, <2>1, NamesAre DEF SourceNames
<1>9. ToSet(At(Words, Instrumentable)) = {Words[i] : i \in Instrumentable}
  <2> DEFINE a == At(Words, Instrumentable)
             c == Cardinality(Instrumentable)
  <2>1. Words \in Seq(Args) /\ Positions(Instrumentable, Len(Words))
    <3>1. Words \in Seq(Args) /\ Instrumentable \subseteq InputSet(Words)
      BY WordsType, SourcesAre
    <3>2. Positions(InputSet(Words), Len(Words))
      BY <3>1, InputsAre
    <3> QED BY <3>1, <3>2 DEF Positions
  <2>2. /\ a \in Seq(Args) /\ Len(a) = c
        /\ \A k \in 1 .. c : InOrder(Instrumentable)[k] \in Instrumentable
                             /\ a[k] = Words[InOrder(Instrumentable)[k]]
        /\ \A i \in Instrumentable : Rank(Instrumentable, i) \in 1 .. c
                                     /\ a[Rank(Instrumentable, i)] = Words[i]
    BY <2>1, AtFacts
  <2> HIDE DEF a, c
  <2>3. DOMAIN a = 1 .. c
    BY <2>2
  <2>4. \A x : x \in ToSet(a) <=> \E k \in 1 .. c : x = a[k]
    BY <2>3 DEF ToSet
  <2>5. \A x : (\E k \in 1 .. c : x = a[k]) <=> \E i \in Instrumentable : x = Words[i]
    BY <2>2
  <2>6. \A x : x \in {Words[i] : i \in Instrumentable} <=> \E i \in Instrumentable : x = Words[i]
    OBVIOUS
  <2>7. \A x : x \in ToSet(a) <=> x \in {Words[i] : i \in Instrumentable}
    BY <2>4, <2>5, <2>6, Zenon
  <2> QED BY <2>7 DEF a
<1> QED BY <1>6, <1>7, <1>8, <1>9

LEMMA OptionsAre ==
  ASSUME Typed, Asked, Kept, Named, pc \in {"runtime", "generate"}
  PROVE  options = Base \o Additions
<1>1. SourceNames = {Words[i] : i \in Instrumentable}
  BY SourcesFound
<1>2. options = At(args, {k \in DOMAIN args : args[k] \notin SourceNames
                                            /\ ~(build.cxx /\ args[k] \in StdC)}) \o Additions
  BY DEF Kept, OptionsKept
<1>3. \A a : a \in Dropped <=> a \in SourceNames \/ (build.cxx /\ a \in StdC)
  BY <1>1 DEF Dropped
<1>4. {k \in DOMAIN args : args[k] \notin SourceNames /\ ~(build.cxx /\ args[k] \in StdC)}
        = {k \in DOMAIN args : args[k] \notin Dropped}
  BY <1>3
<1> QED BY <1>2, <1>4 DEF Base, Left

(* The command that makes IR of a file, or the object of the runtime. *)
LEMMA LlStandsFor ==
  ASSUME Typed, Asked, Kept, Named, Regular, pc \in {"runtime", "generate"},
         NEW input \in Args, input \in DOMAIN Native,
         NEW output \in Args, output \in DOMAIN Native, NEW m
  PROVE  LET C == Joined(Words, Rest, LlExtra(input, output), <<input>>)
         IN Build(LlCommand(input, output), build.cxx, m)
              = IF Works(C, build.cxx, m) THEN Result(C, build.cxx, m) ELSE Rejected
<1> DEFINE X == LlExtra(input, output)
           y == <<input>>
           list == Base \o (X \o y)
<1>1. Base \in Seq(Args) /\ Expand(Base) = At(Words, Rest)
  BY BaseStands
<1>2. options = Base \o Additions
  BY OptionsAre
<1>3. LlCommand(input, output) = list
  BY <1>1, <1>2, LlIs
<1>4. Extra(X, LlOptions \cup {"--language"})
  BY LlWords DEF LlExtraIs
<1>5. Files(y)
  BY DEF Files
<1> HIDE DEF X, y
<1>6. list \in Seq(Args) /\ Expand(list) = Joined(Words, Rest, X, y)
  BY <1>1, <1>4, <1>5, CommandStandsFor
<1> HIDE DEF list
<1>7. Build(list, build.cxx, m)
        = IF Works(Expand(list), build.cxx, m) THEN Result(Expand(list), build.cxx, m) ELSE Rejected
  BY <1>6, BuildIs
<1> QED BY <1>3, <1>6, <1>7 DEF X, y

LEMMA OStandsFor ==
  ASSUME Typed, Asked, Kept, Named, Regular, pc \in {"runtime", "generate"},
         NEW input \in Args, input \in DOMAIN Native,
         NEW output \in Args, output \in DOMAIN Native, NEW m
  PROVE  LET C == Joined(Words, Rest, OExtra(output), <<input>>)
         IN Build(OCommand(input, output), build.cxx, m)
              = IF Works(C, build.cxx, m) THEN Result(C, build.cxx, m) ELSE Rejected
<1> DEFINE X == OExtra(output)
           y == <<input>>
           list == Base \o (X \o y)
<1>1. Base \in Seq(Args) /\ Expand(Base) = At(Words, Rest)
  BY BaseStands
<1>2. options = Base \o Additions
  BY OptionsAre
<1>3. OCommand(input, output) = list
  BY <1>1, <1>2, OIs
<1>4. Extra(X, OOptions)
  BY OWords
<1>5. Files(y)
  BY DEF Files
<1> HIDE DEF X, y
<1>6. list \in Seq(Args) /\ Expand(list) = Joined(Words, Rest, X, y)
  BY <1>1, <1>4, <1>5, CommandStandsFor
<1> HIDE DEF list
<1>7. Build(list, build.cxx, m)
        = IF Works(Expand(list), build.cxx, m) THEN Result(Expand(list), build.cxx, m) ELSE Rejected
  BY <1>6, BuildIs
<1> QED BY <1>3, <1>6, <1>7 DEF X, y
-----------------------------------------------------------------------------
(***************************************************************************)
(* What the wrapper makes of a regular command line.                       *)
(***************************************************************************)
LEMMA RuntimeFiles ==
  /\ \A f \in {DeclarationC, RuntimeC} :
       f \in Args /\ f \in DOMAIN Native \ Generated /\ Native[f] = "c" /\ f \in DOMAIN Native
  /\ \A f \in {DeclarationLl, RuntimeO} : f \in Args /\ f \in DOMAIN Native /\ f \in Generated
  /\ Native[RuntimeO] = "object"
BY WordsAreArgs, VocabularyAssumption, Vocabulary

(* generate_runtime() succeeds. *)
LEMMA RuntimeMade ==
  ASSUME Typed, Asked, Kept, Named, Regular, pc = "runtime", build.hooks
  PROVE  /\ Build(LlCommand(DeclarationC, DeclarationLl), build.cxx, made).ok
         /\ Build(OCommand(RuntimeC, RuntimeO), build.cxx, made).ok
<1>1. /\ Settled(Words, build.cxx, Instrumentable, Rest) /\ build.cxx \in BOOLEAN
      /\ CompSet(Words, build.cxx) = Instrumentable
      /\ Given(Words, StdCxx) = {} /\ InForce(Words) = "none"
  BY RegularSettled, RegularHooks, WordsType
<1>2. Works(Joined(Words, Rest, LlExtra(DeclarationC, DeclarationLl), <<DeclarationC>>),
            build.cxx, made)
  <2> DEFINE X == LlExtra(DeclarationC, DeclarationLl)
             A == LlOptions \cup {"--language"}
  <2>1. Extra(X, A) /\ \A d : AtEnd(X, d) \in {"c", d}
    <3>1. LlExtraIs(DeclarationC, DeclarationLl)
      BY RuntimeFiles, LlWords
    <3> QED BY <3>1 DEF LlExtraIs
  <2>2. "--" \notin A /\ A \cap (StdC \cup StdCxx) = {}
    BY DEF LlOptions, AddedOptions, IrOptions, StdC, StdCxx
  <2> HIDE DEF X, A
  <2>3. ValueBefore(X, {"-x", "--language"}, Len(X) + 1, "none") \in {"none", "c"}
    <3>1. AtEnd(X, "none") \in {"none", "c"}
      BY <2>1
    <3> QED BY <3>1 DEF AtEnd, Forcing
  <2>4. Works(Joined(Words, Rest, X, <<DeclarationC>>), build.cxx, made)
    BY <1>1, <2>1, <2>2, <2>3, RuntimeFiles, RuntimeWorks
  <2> QED BY <2>4 DEF X
<1>3. Works(Joined(Words, Rest, OExtra(RuntimeO), <<RuntimeC>>), build.cxx, made)
  <2> DEFINE X == OExtra(RuntimeO)
             A == OOptions
  <2>1. Extra(X, A) /\ \A d : AtEnd(X, d) = d
    BY RuntimeFiles, OWords
  <2>2. "--" \notin A /\ A \cap (StdC \cup StdCxx) = {}
    BY DEF OOptions, AddedOptions, StdC, StdCxx
  <2> HIDE DEF X, A
  <2>3. ValueBefore(X, {"-x", "--language"}, Len(X) + 1, "none") \in {"none", "c"}
    <3>1. AtEnd(X, "none") \in {"none", "c"}
      BY <2>1
    <3> QED BY <3>1 DEF AtEnd, Forcing
  <2>4. Works(Joined(Words, Rest, X, <<RuntimeC>>), build.cxx, made)
    BY <1>1, <2>1, <2>2, <2>3, RuntimeFiles, RuntimeWorks
  <2> QED BY <2>4 DEF X
<1>4. \A argv, m : Result(argv, build.cxx, m).ok
  BY DEF Result
<1>5. Build(LlCommand(DeclarationC, DeclarationLl), build.cxx, made).ok
  <2>1. Build(LlCommand(DeclarationC, DeclarationLl), build.cxx, made)
          = Result(Joined(Words, Rest, LlExtra(DeclarationC, DeclarationLl), <<DeclarationC>>),
                   build.cxx, made)
    BY <1>2, RuntimeFiles, LlStandsFor
  <2> QED BY <1>4, <2>1
<1>6. Build(OCommand(RuntimeC, RuntimeO), build.cxx, made).ok
  <2>1. Build(OCommand(RuntimeC, RuntimeO), build.cxx, made)
          = Result(Joined(Words, Rest, OExtra(RuntimeO), <<RuntimeC>>), build.cxx, made)
    BY <1>3, RuntimeFiles, OStandsFor
  <2> QED BY <1>4, <2>1
<1> QED BY <1>5, <1>6

LEMMA SameLine ==
  ASSUME UNCHANGED <<args, build>>
  PROVE  /\ Words' = Words /\ Instrumentable' = Instrumentable /\ Plain' = Plain
         /\ Regular' = Regular /\ SourcesLast' = SourcesLast
<1>1. Words' = Words
  BY DEF Words
<1>2. SourcesOf' = SourcesOf
  BY <1>1 DEF SourcesOf
<1>3. Instrumentable' = Instrumentable
  BY <1>1, <1>2 DEF Instrumentable
<1>4. Plain' = Plain
  BY DEF Plain
<1>5. /\ LanguageSettled' = LanguageSettled /\ NamesApart' = NamesApart /\ Plainly' = Plainly
      /\ StemsApart' = StemsApart /\ RuntimeCompiles' = RuntimeCompiles
  BY <1>1, <1>2, <1>3
     DEF LanguageSettled, NamesApart, Plainly, StemsApart, RuntimeCompiles
<1>6. Regular' = Regular
  BY <1>5 DEF Regular
<1>7. SourcesLast' = SourcesLast
  BY <1>1, <1>3 DEF SourcesLast
<1> QED BY <1>1, <1>3, <1>4, <1>6, <1>7

(***************************************************************************)
(* While the IR is generated, each input is the source it was or the IR of *)
(* that source, and what is still to come is as it was.                    *)
(***************************************************************************)
InputMade(i, f, m) ==
  \/ f = Words[i]
  \/ /\ build.hooks /\ f = Ll[Words[i]] /\ f \in Generated /\ Native[f] = "ir"
     /\ f \in DOMAIN m /\ m[f] = <<Words[i], Language(Words, build.cxx, i)>>

Replaced(list, next, m) ==
  /\ Len(list) = Cardinality(Instrumentable)
  /\ \A i \in Instrumentable :
       /\ Rank(Instrumentable, i) >= next => list[Rank(Instrumentable, i)] = Words[i]
       /\ InputMade(i, list[Rank(Instrumentable, i)], m)

Generating == Replaced(inputs, n, made)

Ready ==
  /\ pc = "runtime" => build.hooks
  /\ pc = "generate" /\ Regular => Generating
  /\ BuildsTheSame /\ LinksInOrder

LEMMA InstrumentableAre ==
  ASSUME Typed
  PROVE  /\ Words \in Seq(Args) /\ Positions(Instrumentable, Len(Words))
         /\ Cardinality(Instrumentable) \in Nat
         /\ \A i \in Instrumentable : Rank(Instrumentable, i) \in 1 .. Cardinality(Instrumentable)
         /\ \A k \in 1 .. Cardinality(Instrumentable) :
              \E i \in Instrumentable : Rank(Instrumentable, i) = k
         /\ \A i, k \in Instrumentable : Rank(Instrumentable, i) = Rank(Instrumentable, k) => i = k
         /\ \A i \in Instrumentable : Words[i] \in Args /\ Words[i] \in DOMAIN Native
<1>1. Words \in Seq(Args) /\ Instrumentable \subseteq InputSet(Words)
      /\ \A i \in InputSet(Words) : Words[i] \in DOMAIN Native
  BY WordsType, SourcesAre
<1>2. Positions(InputSet(Words), Len(Words)) /\ \A i \in InputSet(Words) : i \in 1 .. Len(Words)
  BY <1>1, InputsAre
<1>3. Positions(Instrumentable, Len(Words))
  BY <1>1, <1>2 DEF Positions
<1>4. /\ \A i \in Instrumentable : Rank(Instrumentable, i) \in 1 .. Cardinality(Instrumentable)
                                  /\ InOrder(Instrumentable)[Rank(Instrumentable, i)] = i
      /\ \A k \in 1 .. Cardinality(Instrumentable) :
           InOrder(Instrumentable)[k] \in Instrumentable /\ Rank(Instrumentable, InOrder(Instrumentable)[k]) = k
  BY <1>3, OrderFacts
<1>5. Cardinality(Instrumentable) \in Nat
  BY <1>3, PositionsFinite
<1>6. \A i, k \in Instrumentable : Rank(Instrumentable, i) = Rank(Instrumentable, k) => i = k
  BY <1>4
<1> QED BY <1>1, <1>2, <1>3, <1>4, <1>5, <1>6

LEMMA GeneratingStarts ==
  ASSUME Typed, Asked, Named, pc \in {"stdc", "runtime"}, UNCHANGED <<args, build, inputs>>
  PROVE  Generating'
<1>1. inputs = At(Words, Instrumentable)
  <2>1. inputs = NamesOf(phases)
    BY DEF Named
  <2> QED BY <2>1, SourcesFound
<1>2. Words \in Seq(Args) /\ Positions(Instrumentable, Len(Words))
  BY InstrumentableAre
<1>3. /\ Len(inputs) = Cardinality(Instrumentable)
      /\ \A i \in Instrumentable : inputs[Rank(Instrumentable, i)] = Words[i]
  BY <1>1, <1>2, AtFacts
<1> QED BY <1>3, SameLine DEF Generating, Replaced, InputMade

LEMMA SameReplaced ==
  ASSUME UNCHANGED <<args, build>>, Replaced(inputs', n', made')
  PROVE  Generating'
<1>1. Words' = Words /\ Instrumentable' = Instrumentable /\ build' = build
  BY SameLine
<1> QED BY <1>1 DEF Generating, Replaced, InputMade

(* The IR of a source is made from that source, in its language. *)
LEMMA IrMade ==
  ASSUME Typed, Asked, Kept, Named, Regular, pc = "generate", build.hooks,
         NEW i \in Instrumentable, NEW output, output = Ll[Words[i]], output # Words[i],
         NEW ll, ll = Build(LlCommand(Words[i], output), build.cxx, made),
         ll.ok, ll.mode = "assemble"
  PROVE  InputMade(i, output, MadeAlso(output, ll.units[1]))
<1> DEFINE w == Words
           f == Words[i]
           X == LlExtra(f, output)
           C == Joined(w, Rest, X, <<f>>)
           A == LlOptions \cup {"--language"}
<1>1. f \in Args /\ f \in DOMAIN Native
  BY InstrumentableAre
<1>2. output \in Args /\ output \in Generated /\ Native[output] = "ir" /\ output \in DOMAIN Native
  <2>1. Ll[f] \in Args /\ (Ll[f] = f \/ Ll[f] \in Generated)
    BY <1>1, CommandAssumption
  <2>2. Ll[f] # f => Native[Ll[f]] = "ir"
    BY <1>1, VocabularyAssumption
  <2> QED BY <2>1, <2>2, Vocabulary
<1>3. ll = IF Works(C, build.cxx, made) THEN Result(C, build.cxx, made) ELSE Rejected
  BY <1>1, <1>2, LlStandsFor
<1>4. Works(C, build.cxx, made)
  <2> HIDE DEF C
  <2> QED BY <1>3 DEF Rejected
<1>5. Mode(C) = "assemble" /\ ll.units = UnitsMade(C, build.cxx, made)
  <2> HIDE DEF C
  <2> QED BY <1>3, <1>4 DEF Result
<1>6. /\ Settled(w, build.cxx, Instrumentable, Rest) /\ CompSet(w, build.cxx) = Instrumentable
      /\ ~(build.cxx /\ Native[f] = "c")
  BY RegularSettled, RegularHooks
<1>7. Extra(X, A) /\ \A d : AtEnd(X, d) = d
  <2>1. LlExtraIs(f, output)
    BY <1>2, LlWords
  <2> QED BY <1>6, <2>1 DEF LlExtraIs
<1>8. "--" \notin A
  BY DEF LlOptions, AddedOptions, IrOptions
<1> HIDE DEF A
<1>9. ValueBefore(X, {"-x", "--language"}, Len(X) + 1, InForce(w)) = InForce(w)
  <2> HIDE DEF X
  <2>1. AtEnd(X, InForce(w)) = InForce(w)
    BY <1>7
  <2> QED BY <2>1 DEF AtEnd, Forcing
<1>10. UnitsMade(C, build.cxx, made)[1] = <<w[i], Language(w, build.cxx, i)>>
  <2> HIDE DEF X
  <2> QED BY <1>1, <1>5, <1>6, <1>7, <1>8, <1>9, IrOfSource
<1>11. /\ output \in DOMAIN MadeAlso(output, ll.units[1])
       /\ MadeAlso(output, ll.units[1])[output] = ll.units[1]
  BY DEF MadeAlso
<1> QED BY <1>2, <1>5, <1>10, <1>11 DEF InputMade

(* The IR of another input is still what it was. *)
LEMMA IrStays ==
  ASSUME Typed, Regular, build.hooks, NEW i \in Instrumentable, NEW k \in Instrumentable,
         NEW unit, NEW f, InputMade(k, f, made),
         InputMade(i, Ll[Words[i]], MadeAlso(Ll[Words[i]], unit)), Ll[Words[i]] # Words[i]
  PROVE  InputMade(k, f, MadeAlso(Ll[Words[i]], unit))
<1> DEFINE g == Ll[Words[i]]
           m == MadeAlso(g, unit)
<1>1. CASE f = Words[k]
  BY <1>1 DEF InputMade
<1>2. CASE f # Words[k]
  <2>1. /\ f = Ll[Words[k]] /\ f \in Generated /\ Native[f] = "ir" /\ f \in DOMAIN made
        /\ made[f] = <<Words[k], Language(Words, build.cxx, k)>>
    BY <1>2 DEF InputMade
  <2>2. f \in DOMAIN m /\ (f # g => m[f] = made[f])
    BY <2>1 DEF MadeAlso
  <2>3. CASE f # g
    BY <2>1, <2>2, <2>3 DEF InputMade
  <2>4. CASE f = g
    <3>1. Words[i] = Words[k]
      BY <2>1, <2>4, RegularHooks
    <3>2. m[g] = <<Words[i], Language(Words, build.cxx, i)>>
      BY DEF InputMade
    <3>3. Language(Words, build.cxx, i) = Language(Words, build.cxx, k)
      <4>1. \A j \in Instrumentable : Forced(Words, j) = "none"
        <5>1. \A j \in Instrumentable : Forced(Words, j) = InForce(Words)
          BY DEF Regular, LanguageSettled, InForce
        <5> QED BY <5>1, RegularHooks
      <4> QED BY <3>1, <4>1 DEF Language
    <3> QED BY <2>1, <2>2, <2>4, <3>1, <3>2, <3>3 DEF InputMade
  <2> QED BY <2>3, <2>4
<1> QED BY <1>1, <1>2

LEMMA GeneratingGoesOn ==
  ASSUME Typed, Asked, Kept, Named, Regular, pc = "generate", Generating, GenerateLl
  PROVE  Generating'
<1> DEFINE Ins == Instrumentable
           input == inputs[n]
           g == Ll[input]
           ll == Build(LlCommand(input, g), build.cxx, made)
<1>1. /\ n \in 1 .. Len(inputs) /\ Len(inputs) \in Nat /\ inputs \in Seq(Args) /\ n' = n + 1
      /\ UNCHANGED <<args, build>>
  BY DEF GenerateLl, Ends, Typed, TypeOK
<1>2. Replaced(inputs, n, made)
  BY DEF Generating
<1>3. PICK i \in Ins : Rank(Ins, i) = n
  BY <1>1, <1>2, InstrumentableAre DEF Replaced
<1>4. input = Words[i]
  BY <1>1, <1>2, <1>3 DEF Replaced
<1>5. \A k \in Ins : Rank(Ins, k) \in 1 .. Len(inputs) /\ (Rank(Ins, k) = n => k = i)
  BY <1>2, <1>3, InstrumentableAre DEF Replaced
<1>6. CASE UNCHANGED <<inputs, made>>
  <2>1. Replaced(inputs, n', made)
    BY <1>1, <1>2, <1>5 DEF Replaced
  <2> QED BY <1>1, <1>6, <2>1, SameReplaced
<1>7. CASE /\ build.hooks /\ g # input /\ ll.ok /\ ll.mode = "assemble"
           /\ made' = MadeAlso(g, ll.units[1])
           /\ inputs' = [inputs EXCEPT ![n] = g]
  <2> DEFINE m == MadeAlso(g, ll.units[1])
             new == [inputs EXCEPT ![n] = g]
  <2>1. InputMade(i, g, m)
    BY <1>4, <1>7, IrMade
  <2>2. ASSUME NEW k \in Ins  PROVE InputMade(k, inputs[Rank(Ins, k)], m)
    <3>1. InputMade(k, inputs[Rank(Ins, k)], made)
      BY <1>2 DEF Replaced
    <3>2. InputMade(i, Ll[Words[i]], MadeAlso(Ll[Words[i]], ll.units[1])) /\ Ll[Words[i]] # Words[i]
      BY <1>4, <1>7, <2>1
    <3> HIDE DEF ll
    <3>3. InputMade(k, inputs[Rank(Ins, k)], MadeAlso(Ll[Words[i]], ll.units[1]))
      BY <1>7, <3>1, <3>2, IrStays
    <3> QED BY <1>4, <3>3
  <2> HIDE DEF m
  <2>3. /\ Len(new) = Len(inputs) /\ new[n] = g
        /\ \A k \in 1 .. Len(inputs) : k # n => new[k] = inputs[k]
    BY <1>1
  <2> HIDE DEF new, g
  <2>4. ASSUME NEW k \in Ins
        PROVE  /\ Rank(Ins, k) >= n + 1 => new[Rank(Ins, k)] = Words[k]
               /\ InputMade(k, new[Rank(Ins, k)], m)
    <3>1. CASE k = i
      BY <1>1, <1>3, <2>1, <2>3, <3>1
    <3>2. CASE k # i
      <4>1. Rank(Ins, k) # n /\ Rank(Ins, k) \in 1 .. Len(inputs)
        BY <1>5, <3>2
      <4>2. new[Rank(Ins, k)] = inputs[Rank(Ins, k)]
        BY <2>3, <4>1
      <4>3. Rank(Ins, k) >= n => inputs[Rank(Ins, k)] = Words[k]
        BY <1>2 DEF Replaced
      <4> QED BY <1>1, <2>2, <4>1, <4>2, <4>3
    <3> QED BY <3>1, <3>2
  <2>5. Replaced(new, n + 1, m)
    BY <1>2, <2>3, <2>4 DEF Replaced
  <2>6. inputs' = new /\ made' = m
    BY <1>7 DEF new, m, g
  <2> QED BY <1>1, <2>5, <2>6, SameReplaced
<1> QED BY <1>6, <1>7 DEF GenerateLl

(* The files of the last command. *)
Linking == build.hooks /\ HasLinkStage
LastList == inputs \o (IF build.hooks /\ HasLinkStage THEN <<RuntimeO>> ELSE <<>>)
LastMade == MadeAlso(RuntimeO, <<RuntimeO, "object">>)

LEMMA LastListIs ==
  ASSUME Typed, Asked, Named, Regular, pc = "generate", Generating
  PROVE  LastFiles(Words, build.cxx, build.hooks, Instrumentable, Linking, LastList, LastMade)
<1> DEFINE Ins == Instrumentable
           c == Cardinality(Ins)
           tail == IF Linking THEN <<RuntimeO>> ELSE <<>>
           Y == LastList
           m == LastMade
<1>1. Replaced(inputs, n, made) /\ inputs \in Seq(Args) /\ Len(inputs) = c /\ c \in Nat
  BY InstrumentableAre DEF Generating, Replaced, Typed, TypeOK
<1>2. \A i \in Ins : Rank(Ins, i) \in 1 .. c /\ InputMade(i, inputs[Rank(Ins, i)], made)
  BY <1>1, InstrumentableAre DEF Replaced
<1>3. RuntimeO \in Args /\ RuntimeO \in DOMAIN Native /\ Native[RuntimeO] = "object"
  BY RuntimeFiles
<1>4. <<RuntimeO>> \in Seq(Args) /\ <<>> \in Seq(Args) /\ Len(<<RuntimeO>>) = 1 /\ Len(<<>>) = 0
      /\ <<RuntimeO>>[1] = RuntimeO
  BY <1>3
<1>5. tail \in Seq(Args) /\ Len(tail) = (IF Linking THEN 1 ELSE 0) /\ (Linking => tail[1] = RuntimeO)
  <2>1. CASE Linking
    <3>1. tail = <<RuntimeO>>
      BY <2>1
    <3> HIDE DEF tail
    <3> QED BY <1>4, <2>1, <3>1
  <2>2. CASE ~Linking
    <3>1. tail = <<>>
      BY <2>2
    <3> HIDE DEF tail
    <3> QED BY <1>4, <2>2, <3>1
  <2> QED BY <2>1, <2>2
<1>6. Y = inputs \o tail
  BY DEF LastList, Linking
<1>7. Linking \in BOOLEAN /\ build.hooks \in BOOLEAN
  BY WordsType DEF Linking, HasLinkStage
<1> HIDE DEF tail, Y, c
<1>8. /\ Y \in Seq(Args) /\ Len(Y) = c + (IF Linking THEN 1 ELSE 0)
      /\ \A j \in 1 .. c : Y[j] = inputs[j]
      /\ Linking => Y[c + 1] = RuntimeO
  <2>1. Y \in Seq(Args) /\ Len(Y) = Len(inputs) + Len(tail)
    BY <1>1, <1>5, <1>6
  <2>2. \A j \in 1 .. Len(inputs) : Y[j] = inputs[j]
    BY <1>1, <1>5, <1>6
  <2>3. \A j \in 1 .. Len(tail) : Y[Len(inputs) + j] = tail[j]
    BY <1>1, <1>5, <1>6
  <2>4. Linking => Y[c + 1] = RuntimeO
    <3>1. Linking => 1 \in 1 .. Len(tail)
      BY <1>5
    <3> QED BY <1>1, <1>5, <2>3, <3>1
  <2> QED BY <1>1, <1>5, <2>1, <2>2, <2>4
<1>9. \A i \in Ins : Words[i] \in DOMAIN Native
  BY InstrumentableAre
<1>10. \A j \in 1 .. c : inputs[j] \in DOMAIN Native
  <2> SUFFICES ASSUME NEW j \in 1 .. c  PROVE inputs[j] \in DOMAIN Native
    OBVIOUS
  <2>1. PICK i \in Ins : Rank(Ins, i) = j
    BY InstrumentableAre DEF c
  <2>2. InputMade(i, inputs[j], made)
    BY <1>2, <2>1
  <2> QED BY <1>9, <2>2, Vocabulary DEF InputMade
<1>11. Files(Y)
  <2>1. \A j \in 1 .. Len(Y) : j \in 1 .. c \/ (Linking /\ j = c + 1)
    BY <1>1, <1>8
  <2>2. \A j \in 1 .. Len(Y) : Y[j] \in DOMAIN Native
    BY <1>3, <1>8, <1>10, <2>1
  <2> QED BY <1>8, <2>2 DEF Files
<1>12. ASSUME NEW i \in Ins
       PROVE  StandsFor(Words, build.cxx, build.hooks, m, i, Y[Rank(Ins, i)])
  <2> DEFINE f == inputs[Rank(Ins, i)]
  <2>1. Y[Rank(Ins, i)] = f /\ InputMade(i, f, made)
    BY <1>2, <1>8
  <2> HIDE DEF f
  <2>2. CASE f = Words[i]
    BY <2>1, <2>2 DEF StandsFor
  <2>3. CASE f # Words[i]
    <3>1. /\ build.hooks /\ f \in Generated /\ Native[f] = "ir" /\ f \in DOMAIN made
          /\ made[f] = <<Words[i], Language(Words, build.cxx, i)>>
      BY <2>1, <2>3 DEF InputMade
    <3>2. f # RuntimeO
      BY <1>3, <3>1
    <3>3. f \in DOMAIN m /\ m[f] = made[f]
      BY <3>1, <3>2 DEF LastMade, MadeAlso
    <3> QED BY <2>1, <3>1, <3>3 DEF StandsFor
  <2> QED BY <2>2, <2>3
<1>13. RuntimeO \in DOMAIN m /\ m[RuntimeO] = RuntimeUnit
  BY DEF LastMade, MadeAlso, RuntimeUnit
<1>14. Linking => build.hooks /\ Mode(Words) = "link"
  BY SourcesFound DEF Linking
<1>15. build.hooks => InForce(Words) = "none"
  BY RegularHooks
<1> HIDE DEF m
<1>16. LastFiles(Words, build.cxx, build.hooks, Ins, Linking, Y, m)
  BY <1>7, <1>8, <1>11, <1>12, <1>13, <1>14, <1>15 DEF LastFiles, c
<1> QED BY <1>16 DEF Y, m

LEMMA LastCommand ==
  ASSUME Typed, Asked, Kept, Named, Regular, pc = "generate", Generating
  PROVE  LET C == Joined(Words, Rest, Additions, LastList)
         IN /\ Makes(Words, build.cxx, Instrumentable, Linking, C, LastMade, <<>>)
            /\ Build(JoinArgs(options, LastList), build.cxx, LastMade) = Result(C, build.cxx, LastMade)
<1> DEFINE Y == LastList
           X == Additions
           C == Joined(Words, Rest, X, Y)
           list == Base \o (X \o Y)
<1>1. LastFiles(Words, build.cxx, build.hooks, Instrumentable, Linking, Y, LastMade)
  BY LastListIs
<1>2. Files(Y) /\ Y \in Seq(Args)
  BY <1>1 DEF LastFiles, Files
<1>3. Extra(X, AddedOptions) /\ X \in Seq(Args)
  BY AdditionsExtra DEF Extra
<1>4. Settled(Words, build.cxx, Instrumentable, Rest) /\ Works(Words, build.cxx, <<>>)
  BY RegularSettled, WordsType
<1>5. Base \in Seq(Args) /\ Expand(Base) = At(Words, Rest)
  BY BaseStands
<1>6. options = Base \o X
  BY OptionsAre
<1> HIDE DEF X, Y, list
<1>7. Makes(Words, build.cxx, Instrumentable, Linking, C, LastMade, <<>>)
  BY <1>1, <1>3, <1>4, AddedNeutral, LastMakes
<1>8. list \in Seq(Args) /\ Expand(list) = C
  BY <1>2, <1>3, <1>5, CommandStandsFor DEF list
<1>9. JoinArgs(options, Y) = list
  <2>1. (Base \o X) \o Y = Base \o (X \o Y)
    BY <1>2, <1>3, <1>5, Assoc, Zenon
  <2> QED BY <1>6, <2>1 DEF JoinArgs, list
<1> HIDE DEF C
<1>10. Build(list, build.cxx, LastMade)
         = IF Works(Expand(list), build.cxx, LastMade) THEN Result(Expand(list), build.cxx, LastMade)
           ELSE Rejected
  BY <1>8, BuildIs
<1>11. Works(C, build.cxx, LastMade)
  BY <1>7 DEF Makes
<1> QED BY <1>7, <1>8, <1>9, <1>10, <1>11 DEF X, Y, C

LEMMA PlainIs ==
  ASSUME Typed
  PROVE  Plain = Result(Words, build.cxx, <<>>)
<1>1. args \in Seq(Args) /\ Works(Expand(args), build.cxx, <<>>)
  BY WordsType DEF Words
<1>2. Build(args, build.cxx, <<>>) = Result(Expand(args), build.cxx, <<>>)
  BY <1>1, BuildIs
<1> QED BY <1>2 DEF Plain, Words

LEMMA FinalBuilds ==
  ASSUME Typed, Asked, Kept, Named, Regular, Generating, Final
  PROVE  BuildsTheSame' /\ LinksInOrder'
<1> DEFINE C == Joined(Words, Rest, Additions, LastList)
           res == Result(C, build.cxx, LastMade)
           plain == Result(Words, build.cxx, <<>>)
<1>1. pc = "generate" /\ UNCHANGED <<args, build, phases>>
      /\ outcome' = [ended |-> "exit", result |-> Build(JoinArgs(options, LastList), build.cxx, LastMade)]
  BY DEF Final, End, LastList, LastMade
<1>2. /\ Makes(Words, build.cxx, Instrumentable, Linking, C, LastMade, <<>>)
      /\ Build(JoinArgs(options, LastList), build.cxx, LastMade) = res
  BY <1>1, LastCommand
<1>3. Plain = plain
  BY PlainIs
<1> HIDE DEF C
<1>4. outcome'.ended = "exit" /\ outcome'.result = res
  <2> HIDE DEF res
  <2> QED BY <1>1, <1>2
<1>5. /\ res.ok /\ res.mode = Mode(C) /\ res.out = Output(C)
      /\ res.units = UnitsMade(C, build.cxx, LastMade)
      /\ plain.mode = Mode(Words) /\ plain.out = Output(Words)
      /\ plain.units = UnitsMade(Words, build.cxx, <<>>)
  BY DEF Result
<1>6. Units(res) = Left(res.units, {RuntimeUnit})
  BY DEF Units, Left, RuntimeUnit
<1> HIDE DEF res, plain
<1>7. /\ res.mode = plain.mode /\ res.out = plain.out
      /\ ToBag(Units(res)) = ToBag(plain.units)
      /\ Contains(res.units, RuntimeUnit) <=> Linking
      /\ SourcesLast => Units(res) = plain.units
  <2>1. /\ Mode(C) = Mode(Words) /\ Output(C) = Output(Words)
        /\ ToBag(Left(res.units, {RuntimeUnit})) = ToBag(plain.units)
        /\ Contains(res.units, RuntimeUnit) <=> Linking
        /\ (\A i \in Instrumentable, k \in InputSet(Words) : i < k => k \in Instrumentable)
             => Left(res.units, {RuntimeUnit}) = plain.units
    BY <1>2, <1>5 DEF Makes
  <2>2. SourcesLast <=> \A i \in Instrumentable, k \in InputSet(Words) : i < k => k \in Instrumentable
    BY WordsType DEF SourcesLast
  <2> QED BY <1>5, <1>6, <2>1, <2>2
<1>8. Linking <=> build.hooks /\ plain.mode = "link"
  BY <1>1, <1>5, SourcesFound DEF Linking
<1>9. /\ Regular' = Regular /\ Plain' = Plain /\ SourcesLast' = SourcesLast /\ build' = build
  BY <1>1, SameLine
<1>10. Units(outcome'.result) = Units(res) /\ Units(outcome.result)' = Units(outcome'.result)
  BY <1>4 DEF Units
<1>11. BuildsTheSame'
  BY <1>3, <1>4, <1>5, <1>7, <1>8, <1>9, <1>10 DEF BuildsTheSame, RuntimeUnit
<1>12. LinksInOrder'
  BY <1>3, <1>7, <1>9, <1>10 DEF LinksInOrder
<1> QED BY <1>11, <1>12

LEMMA ReadyInit == Init => Ready
BY DEF Init, Ready, BuildsTheSame, LinksInOrder

LEMMA ReadyElsewhere ==
  ASSUME pc' \notin {"runtime", "generate", "done"}
  PROVE  Ready'
BY DEF Ready, BuildsTheSame, LinksInOrder

LEMMA ReadyGenerating ==
  ASSUME pc' = "generate", UNCHANGED <<args, build>>, Regular => Generating'
  PROVE  Ready'
BY SameLine DEF Ready, BuildsTheSame, LinksInOrder

LEMMA ReadyIrregular ==
  ASSUME ~Regular, UNCHANGED <<args, build>>, pc' # "runtime"
  PROVE  Ready'
BY SameLine DEF Ready, BuildsTheSame, LinksInOrder

LEMMA ReadyInputs == Typed /\ Asked /\ Named /\ GetInput => Ready'
<1> SUFFICES ASSUME Typed, Asked, Named, GetInput  PROVE Ready'
  OBVIOUS
<1>1. pc = "inputs" /\ UNCHANGED <<args, build>> /\ pc' \in {"inputs", "options", "done"}
  BY DEF GetInput, Goto, End
<1>2. CASE pc' # "done"
  BY <1>1, <1>2, ReadyElsewhere
<1>3. CASE pc' = "done"
  <2>1. /\ n \in 1 .. Len(phases) /\ phases \in Seq(GoodLine)
        /\ IsSource(phases[n]) /\ phases[n].name \in Piped
    BY <1>1, <1>3 DEF GetInput, Goto, Ends, Typed, TypeOK
  <2>2. phases[n].name \in SourceNames
    BY <2>1 DEF SourceNames
  <2>3. PICK i \in Instrumentable : phases[n].name = Words[i]
    BY <1>1, <2>2, SourcesFound
  <2>4. i \in SourcesOf
    BY SourcesAre
  <2>5. ~Regular
    BY <2>1, <2>3, <2>4 DEF Regular, Plainly
  <2> QED BY <1>1, <1>3, <2>5, ReadyIrregular
<1> QED BY <1>2, <1>3

LEMMA ReadyRuntime == Typed /\ Asked /\ Kept /\ Named /\ Ready /\ GenerateRuntime => Ready'
<1> SUFFICES ASSUME Typed, Asked, Kept, Named, Ready, GenerateRuntime  PROVE Ready'
  OBVIOUS
<1>1. pc = "runtime" /\ build.hooks /\ UNCHANGED <<args, build, inputs>> /\ pc' \in {"generate", "done"}
  BY DEF GenerateRuntime, Goto, End, Ready
<1>2. CASE pc' = "generate"
  <2>1. Generating'
    BY <1>1, GeneratingStarts
  <2> QED BY <1>1, <1>2, <2>1, ReadyGenerating
<1>3. CASE pc' = "done"
  <2>1. ~(/\ Build(LlCommand(DeclarationC, DeclarationLl), build.cxx, made).ok
          /\ Build(OCommand(RuntimeC, RuntimeO), build.cxx, made).ok)
    BY <1>3 DEF GenerateRuntime, Goto
  <2>2. ~Regular
    BY <1>1, <2>1, RuntimeMade
  <2> QED BY <1>1, <1>3, <2>2, ReadyIrregular
<1> QED BY <1>1, <1>2, <1>3

LEMMA ReadyStep == Typed /\ Asked /\ Kept /\ Named /\ Ready /\ [Next]_vars => Ready'
<1> SUFFICES ASSUME Typed, Asked, Kept, Named, Ready, [Next]_vars  PROVE Ready'
  OBVIOUS
<1>1. CASE Query
  BY <1>1, NamedQuery, ReadyElsewhere
<1>2. CASE ParsePhase \/ GetOption \/ RemoveStdc
  <2>1. pc' \in {"parse", "inputs", "options", "stdc"}
    BY <1>2 DEF ParsePhase, GetOption, RemoveStdc, Goto
  <2> QED BY <2>1, ReadyElsewhere
<1>3. CASE GetInput
  BY <1>3, ReadyInputs
<1>4. CASE AddOptions
  <2>1. /\ pc = "stdc" /\ UNCHANGED <<args, build, inputs>>
        /\ pc' = IF build.hooks THEN "runtime" ELSE "generate"
    BY <1>4 DEF AddOptions, Goto
  <2>2. Generating'
    BY <2>1, GeneratingStarts
  <2>3. CASE build.hooks
    BY <2>1, <2>3 DEF Ready, BuildsTheSame, LinksInOrder
  <2>4. CASE ~build.hooks
    BY <2>1, <2>2, <2>4, ReadyGenerating
  <2> QED BY <2>3, <2>4
<1>5. CASE GenerateRuntime
  BY <1>5, ReadyRuntime
<1>6. CASE GenerateLl
  <2>1. pc = "generate" /\ pc' = "generate" /\ UNCHANGED <<args, build>>
    BY <1>6 DEF GenerateLl
  <2>2. Regular => Generating'
    BY <1>6, <2>1, GeneratingGoesOn DEF Ready
  <2> QED BY <2>1, <2>2, ReadyGenerating
<1>7. CASE Final
  <2>1. pc = "generate" /\ pc' = "done" /\ UNCHANGED <<args, build>>
    BY <1>7 DEF Final, End
  <2>2. CASE Regular
    <3>1. BuildsTheSame' /\ LinksInOrder'
      BY <1>7, <2>1, <2>2, FinalBuilds DEF Ready
    <3> QED BY <2>1, <3>1 DEF Ready
  <2>3. CASE ~Regular
    BY <2>1, <2>3, ReadyIrregular
  <2> QED BY <2>2, <2>3
<1>8. CASE UNCHANGED vars
  <2>1. UNCHANGED <<args, build, pc, n, inputs, made, outcome>>
    BY <1>8 DEF vars
  <2>2. Regular' = Regular /\ Plain' = Plain /\ SourcesLast' = SourcesLast
        /\ Words' = Words /\ Instrumentable' = Instrumentable
    BY <2>1, SameLine
  <2>3. Generating' <=> Generating
    BY <2>1, <2>2 DEF Generating, Replaced, InputMade
  <2> QED BY <2>1, <2>2, <2>3 DEF Ready, BuildsTheSame, LinksInOrder, Units
<1> QED BY <1>1, <1>2, <1>3, <1>4, <1>5, <1>6, <1>7, <1>8 DEF Next

LEMMA AlwaysReady == Spec => []Ready
BY ReadyInit, ReadyStep, AlwaysTyped, QuestionArrives, AlwaysKept, AlwaysNamed, PTL DEF Spec

(***************************************************************************)
(* What the user asked for is made: the last command of the wrapper has    *)
(* the phase and the output of the user's own command line and takes each  *)
(* of its files in the language it has there, and the linker gets the      *)
(* runtime if and only if the tool has one.  This holds for every regular  *)
(* command line, however the arguments are ordered and whatever the        *)
(* generation of the IR does.                                              *)
(***************************************************************************)
THEOREM BuildsWhatWasAsked == Spec => []BuildsTheSame
<1>1. Ready => BuildsTheSame
  BY DEF Ready
<1> QED BY <1>1, AlwaysReady, PTL

(***************************************************************************)
(* If the sources stand behind all other inputs, the linker gets its files *)
(* in the order in which the user gave them.                               *)
(***************************************************************************)
THEOREM LinkOrderKept == Spec => []LinksInOrder
<1>1. Ready => LinksInOrder
  BY DEF Ready
<1> QED BY <1>1, AlwaysReady, PTL
=============================================================================
