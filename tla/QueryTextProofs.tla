--------------------------- MODULE QueryTextProofs ---------------------------
(***************************************************************************)
(* Proofs about QueryText: the parameters that the client writes into a    *)
(* form or a target are the parameters that the server reads, for any      *)
(* characters and codes and for texts of any length.  The induction over   *)
(* data that they rest on serves HttpMessagesProofs too.                   *)
(***************************************************************************)
EXTENDS QueryText, WellFoundedInduction, SequenceTheorems, FiniteSetTheorems, TLAPS

-----------------------------------------------------------------------------
(* Induction over data: the least number of a set, induction over the      *)
(* naturals, functions given by their first value and a step, and          *)
(* FlattenSeq as such a function.  Induction is over sets, from the fact   *)
(* that the naturals are well-founded.                                     *)

\* A set of naturals that is not empty has a least one.
LEMMA Least ==
    ASSUME NEW T \in SUBSET Nat, T # {}
    PROVE  \E n \in T : \A m \in T : n =< m
<1>. DEFINE R == OpToRel(<, Nat)
<1>1. IsWellFoundedOn(R, Nat)
  BY NatLessThanWellFounded
<1>2. R = {p \in Nat \X Nat : p[1] < p[2]}
  BY DEF OpToRel
<1>. HIDE DEF R
<1>3. PICK n \in T : \A m \in T : ~(<<m, n>> \in R)
  BY <1>1, WFMin
<1>4. ASSUME NEW m \in T PROVE n =< m
  <2>1. n \in Nat /\ m \in Nat
    OBVIOUS
  <2>2. <<m, n>> \in R <=> m < n
    BY <1>2, <2>1
  <2>. QED
    BY <1>3, <2>1, <2>2
<1>. QED
  BY <1>4

\* A set that holds 0 and what comes after each of its numbers is all of Nat.
LEMMA Induction ==
    ASSUME NEW S, 0 \in S, \A n \in Nat : n \in S => n + 1 \in S
    PROVE  Nat \subseteq S
<1>. SUFFICES ASSUME Nat \ S # {} PROVE FALSE
  OBVIOUS
<1>1. PICK n \in Nat \ S : \A m \in Nat \ S : n =< m
  BY Least
<1>2. n # 0 /\ n - 1 \in Nat
  BY <1>1
<1>3. n - 1 \in S
  BY <1>1, <1>2
<1>. QED
  BY <1>1, <1>2, <1>3

\* f is a function on the numbers up to n.
Over(f, n) == f = [i \in 0 .. n |-> f[i]]

\* Two functions that agree at 0, and at each number where they do before it.
LEMMA SameSteps ==
    ASSUME NEW n \in Nat, NEW f, NEW g,
           Over(f, n), Over(g, n),
           f[0] = g[0],
           \A i \in 1 .. n : f[i - 1] = g[i - 1] => f[i] = g[i]
    PROVE  f = g
<1>. DEFINE S == {i \in Nat : i \in 0 .. n => f[i] = g[i]}
<1>1. 0 \in S
  OBVIOUS
<1>2. ASSUME NEW i \in Nat, i \in S PROVE i + 1 \in S
  <2>. SUFFICES ASSUME i + 1 \in 0 .. n PROVE f[i + 1] = g[i + 1]
    OBVIOUS
  <2>1. (i + 1) - 1 = i /\ i \in 0 .. n /\ i + 1 \in 1 .. n
    OBVIOUS
  <2>2. f[i] = g[i]
    BY <1>2, <2>1
  <2>. QED
    BY <2>1, <2>2
<1>. HIDE DEF S
<1>3. Nat \subseteq S
  BY ONLY <1>1, <1>2, Induction
<1>4. \A i \in 0 .. n : f[i] = g[i]
  BY ONLY <1>3, n \in Nat DEF S
<1>5. [i \in 0 .. n |-> f[i]] = [i \in 0 .. n |-> g[i]]
  BY ONLY <1>4, Zenon
<1>. QED
  BY <1>5, Zenon DEF Over

\* What a function computes that is given by its value at 0 and by a step.
Steps(a, step, n, f) ==
    /\ Over(f, n)
    /\ f[0] = a
    /\ \A i \in 1 .. n : f[i] = step[<<i, f[i - 1]>>]

LEMMA StepsExist ==
    ASSUME NEW V, NEW a \in V, NEW bound \in Nat, NEW step \in [(1 .. bound) \X V -> V]
    PROVE  \A n \in 0 .. bound : \E f \in [0 .. n -> V] : Steps(a, step, n, f)
<1>. DEFINE S == {n \in Nat : n =< bound => \E f \in [0 .. n -> V] : Steps(a, step, n, f)}
<1>1. 0 \in S
  <2>. DEFINE f == [i \in 0 .. 0 |-> a]
  <2>1. f \in [0 .. 0 -> V] /\ f[0] = a
    OBVIOUS
  <2>2. Over(f, 0)
    BY DEF Over
  <2>3. \A i \in 1 .. 0 : f[i] = step[<<i, f[i - 1]>>]
    OBVIOUS
  <2>. HIDE DEF f
  <2>4. Steps(a, step, 0, f)
    BY ONLY <2>1, <2>2, <2>3, Zenon DEF Steps
  <2>5. \E g \in [0 .. 0 -> V] : Steps(a, step, 0, g)
    BY ONLY <2>1, <2>4
  <2>. QED
    BY <2>5
<1>2. ASSUME NEW n \in Nat, n \in S PROVE n + 1 \in S
  <2>. SUFFICES ASSUME n + 1 =< bound
                PROVE  \E g \in [0 .. n + 1 -> V] : Steps(a, step, n + 1, g)
    OBVIOUS
  <2>1. PICK f \in [0 .. n -> V] : Steps(a, step, n, f)
    BY <1>2
  <2>. DEFINE g == [i \in 0 .. n + 1 |-> IF i = n + 1 THEN step[<<i, f[n]>>] ELSE f[i]]
  <2>2. /\ f[n] \in V /\ f[0] = a /\ <<n + 1, f[n]>> \in (1 .. bound) \X V
        /\ \A i \in 1 .. n : f[i] = step[<<i, f[i - 1]>>]
    <3>1. f[0] = a /\ \A i \in 1 .. n : f[i] = step[<<i, f[i - 1]>>]
      BY <2>1, Zenon DEF Steps
    <3>2. f[n] \in V /\ n + 1 \in 1 .. bound
      BY ONLY f \in [0 .. n -> V], n \in Nat, bound \in Nat, n + 1 =< bound
    <3>. QED
      BY ONLY <3>1, <3>2
  <2>3. step[<<n + 1, f[n]>>] \in V
    BY <2>2
  <2>4. /\ g[n + 1] = step[<<n + 1, f[n]>>]
        /\ \A i \in 0 .. n : g[i] = f[i]
    OBVIOUS
  <2>5. g \in [0 .. n + 1 -> V]
    BY <2>1, <2>3
  <2>. HIDE DEF g
  <2>6. \A i \in 1 .. n + 1 : g[i] = step[<<i, g[i - 1]>>]
    <3>. TAKE i \in 1 .. n + 1
    <3>1. CASE i = n + 1
      <4>1. i - 1 = n /\ g[n] = f[n]
        BY <2>4, <3>1
      <4>. QED
        BY <2>4, <3>1, <4>1
    <3>2. CASE i # n + 1
      <4>1. i \in 1 .. n /\ i - 1 \in 0 .. n /\ i \in 0 .. n
        BY <3>2
      <4>. QED
        BY <2>2, <2>4, <4>1
    <3>. QED
      BY <3>1, <3>2
  <2>7. g[0] = a
    BY <2>2, <2>4
  <2>8. Over(g, n + 1)
    BY <2>5 DEF Over
  <2>. QED
    BY <2>5, <2>6, <2>7, <2>8 DEF Steps
<1>. HIDE DEF S
<1>3. Nat \subseteq S
  BY <1>1, <1>2, Induction
<1>. QED
  BY <1>3 DEF S

\* FlattenSeq, which computes a sequence step by step.
Flattening(seqs, n, f) ==
    f = [i \in 1 .. n |-> IF i = 1 THEN seqs[i] ELSE f[i - 1] \o seqs[i]]

LEMMA FlattenBySteps ==
    ASSUME NEW T, NEW seqs \in Seq(Seq(T)), NEW F, F[0] = <<>>,
           \A i \in 1 .. Len(seqs) : F[i] = F[i - 1] \o seqs[i]
    PROVE  FlattenSeq(seqs) = F[Len(seqs)]
<1>. DEFINE n == Len(seqs)
<1>1. n \in Nat /\ \A i \in 1 .. n : seqs[i] \in Seq(T)
  BY LenProperties, ElementOfSeq
<1>2. CASE n = 0
  <2>1. seqs = <<>>
    BY <1>2, EmptySeq
  <2>. QED
    BY <1>2, <2>1 DEF FlattenSeq
<1>3. CASE n # 0
  <2>. DEFINE g == [i \in 1 .. n |-> F[i]]
              f == CHOOSE h : Flattening(seqs, n, h)
  <2>. HIDE DEF n
  <2>1. ASSUME NEW i \in 1 .. n
        PROVE  g[i] = IF i = 1 THEN seqs[i] ELSE g[i - 1] \o seqs[i]
    <3>1. F[i] = F[i - 1] \o seqs[i] /\ seqs[i] \in Seq(T)
      BY <1>1 DEF n
    <3>2. CASE i = 1
      <4>1. F[i - 1] = <<>>
        BY <3>2
      <4>2. F[i] = seqs[i]
        BY <3>1, <4>1, ConcatEmptySeq
      <4>. QED
        BY <3>2, <4>2
    <3>3. CASE i # 1
      <4>1. i - 1 \in 1 .. n
        BY <1>1, <3>3
      <4>2. g[i - 1] = F[i - 1] /\ g[i] = F[i]
        BY <4>1
      <4>. HIDE DEF g
      <4>. QED
        BY <3>1, <3>3, <4>2
    <3>. QED
      BY <3>2, <3>3
  <2>2. Flattening(seqs, n, g)
    <3>1. [i \in 1 .. n |-> IF i = 1 THEN seqs[i] ELSE g[i - 1] \o seqs[i]]
            = [i \in 1 .. n |-> g[i]]
      <4>. HIDE DEF g
      <4>. QED  BY <2>1, Zenon
    <3>2. [i \in 1 .. n |-> g[i]] = g
      OBVIOUS
    <3>. HIDE DEF g
    <3>. QED
      BY <3>1, <3>2, Zenon DEF Flattening
  <2>. HIDE DEF g
  <2>3. Flattening(seqs, n, f)
    BY <2>2, Zenon
  <2>4. FlattenSeq(seqs) = f[n]
    BY <1>3, Zenon DEF FlattenSeq, Flattening, n
  <2>. HIDE DEF f
  <2>5. \A i \in 1 .. n : f[i] = IF i = 1 THEN seqs[i] ELSE f[i - 1] \o seqs[i]
    BY <2>3, Zenon DEF Flattening
  <2>. DEFINE S == {i \in Nat : i \in 1 .. n => f[i] = g[i]}
  <2>6. 0 \in S
    OBVIOUS
  <2>7. ASSUME NEW i \in Nat, i \in S PROVE i + 1 \in S
    <3>. SUFFICES ASSUME i + 1 \in 1 .. n PROVE f[i + 1] = g[i + 1]
      OBVIOUS
    <3>1. CASE i = 0
      <4>1. f[1] = seqs[1] /\ g[1] = seqs[1]
        BY <2>1, <2>5, <3>1
      <4>. QED
        BY <3>1, <4>1
    <3>2. CASE i # 0
      <4>1. f[i] = g[i] /\ i + 1 # 1 /\ (i + 1) - 1 = i
        BY <1>1, <2>7, <3>2
      <4>2. f[i + 1] = f[(i + 1) - 1] \o seqs[i + 1]
        BY <2>5, <4>1
      <4>3. g[i + 1] = g[(i + 1) - 1] \o seqs[i + 1]
        BY <2>1, <4>1
      <4>. QED
        BY <4>1, <4>2, <4>3
    <3>. QED
      BY <3>1, <3>2
  <2>. HIDE DEF S
  <2>8. n \in S
    BY <1>1, <2>6, <2>7, Induction
  <2>9. f[n] = g[n] /\ g[n] = F[n]
    BY <1>1, <1>3, <2>8 DEF S, g
  <2>. QED
    BY <2>4, <2>9 DEF n
<1>. QED
  BY <1>2, <1>3

LEMMA FlattenSteps ==
    ASSUME NEW T, NEW seqs \in Seq(Seq(T))
    PROVE  \E F \in [0 .. Len(seqs) -> Seq(T)] :
              /\ F[0] = <<>>
              /\ \A i \in 1 .. Len(seqs) : F[i] = F[i - 1] \o seqs[i]
              /\ FlattenSeq(seqs) = F[Len(seqs)]
<1>. DEFINE n == Len(seqs)
            step == [at \in (1 .. n) \X Seq(T) |-> at[2] \o seqs[at[1]]]
<1>1. n \in Nat /\ \A i \in 1 .. n : seqs[i] \in Seq(T)
  BY LenProperties, ElementOfSeq
<1>2. step \in [(1 .. n) \X Seq(T) -> Seq(T)]
  <2>. HIDE DEF n
  <2>1. \A i \in 1 .. n, s \in Seq(T) : s \o seqs[i] \in Seq(T)
    BY <1>1, ConcatProperties
  <2>2. \A at \in (1 .. n) \X Seq(T) : at[1] \in 1 .. n /\ at[2] \in Seq(T)
    OBVIOUS
  <2>. QED
    BY <2>1, <2>2
<1>3. \A i \in 1 .. n, s \in Seq(T) : step[<<i, s>>] = s \o seqs[i]
  <2>. HIDE DEF n
  <2>. QED
    OBVIOUS
<1>. HIDE DEF step
<1>4. PICK F \in [0 .. n -> Seq(T)] : Steps(<<>>, step, n, F)
  <2>. HIDE DEF n
  <2>1. <<>> \in Seq(T)
    OBVIOUS
  <2>2. n \in 0 .. n
    BY <1>1
  <2>. QED
    BY <1>1, <1>2, <2>1, <2>2, StepsExist
<1>. HIDE DEF n
<1>5. F[0] = <<>> /\ \A i \in 1 .. n : F[i] = step[<<i, F[i - 1]>>]
  BY <1>4, Zenon DEF Steps
<1>6. \A i \in 1 .. n : F[i] = F[i - 1] \o seqs[i]
  <2>1. \A i \in 1 .. n : i - 1 \in 0 .. n
    BY <1>1
  <2>2. \A i \in 1 .. n : F[i - 1] \in Seq(T)
    BY <2>1, <1>4
  <2>. QED
    BY <1>3, <1>5, <2>2
<1>7. FlattenSeq(seqs) = F[n]
  BY <1>5, <1>6, FlattenBySteps DEF n
<1>. QED
  BY <1>4, <1>5, <1>6, <1>7 DEF n

LEMMA FlattenAppend ==
    ASSUME NEW T, NEW seqs \in Seq(Seq(T)), NEW s \in Seq(T)
    PROVE  /\ FlattenSeq(seqs) \in Seq(T)
           /\ FlattenSeq(Append(seqs, s)) = FlattenSeq(seqs) \o s
<1>1. PICK n \in Nat : n = Len(seqs)
  BY LenProperties
<1>2. PICK F \in [0 .. n -> Seq(T)] :
        /\ F[0] = <<>> /\ \A i \in 1 .. n : F[i] = F[i - 1] \o seqs[i]
        /\ FlattenSeq(seqs) = F[n]
  BY <1>1, FlattenSteps
<1>3. PICK more : more = Append(seqs, s)
  OBVIOUS
<1>4. /\ more \in Seq(Seq(T)) /\ Len(more) = n + 1
      /\ more[n + 1] = s /\ \A i \in 1 .. n : more[i] = seqs[i]
  BY <1>1, <1>3, AppendProperties
<1>. DEFINE G == [i \in 0 .. n + 1 |-> IF i = n + 1 THEN F[n] \o s ELSE F[i]]
<1>5. G[n + 1] = F[n] \o s /\ \A i \in 0 .. n : G[i] = F[i]
  OBVIOUS
<1>. HIDE DEF G
<1>6. ASSUME NEW i \in 1 .. Len(more)
      PROVE  G[i] = G[i - 1] \o more[i]
  <2>1. CASE i = n + 1
    <3>1. i - 1 = n /\ G[n] = F[n]
      BY <1>5, <2>1
    <3>. QED
      BY <1>4, <1>5, <2>1, <3>1
  <2>2. CASE i # n + 1
    <3>1. i \in 1 .. n /\ i - 1 \in 0 .. n /\ i \in 0 .. n
      BY <1>4, <2>2
    <3>. QED
      BY <1>2, <1>4, <1>5, <3>1
  <2>. QED
    BY <2>1, <2>2
<1>7. G[0] = <<>>
  <2>1. 0 \in 0 .. n
    OBVIOUS
  <2>2. G[0] = F[0]
    BY ONLY <1>5, <2>1
  <2>. QED
    BY ONLY <1>2, <2>2
<1>8. FlattenSeq(more) = G[n + 1]
  <2>1. FlattenSeq(more) = G[Len(more)]
    BY <1>4, <1>6, <1>7, FlattenBySteps
  <2>. QED
    BY <1>4, <2>1
<1>. QED
  BY <1>2, <1>3, <1>5, <1>8

\* The length of a flattened sequence, counted step by step.
LEMMA FlattenLength ==
    ASSUME NEW T, NEW seqs \in Seq(Seq(T)), NEW sums,
           \A i \in 0 .. Len(seqs) : sums[i] \in Int,
           \A i \in 1 .. Len(seqs) : sums[i] = sums[i - 1] + Len(seqs[i])
    PROVE  Len(FlattenSeq(seqs)) = sums[Len(seqs)] - sums[0]
<1>1. PICK n \in Nat : n = Len(seqs)
  BY LenProperties
<1>2. PICK F \in [0 .. n -> Seq(T)] :
        /\ F[0] = <<>> /\ \A i \in 1 .. n : F[i] = F[i - 1] \o seqs[i]
        /\ FlattenSeq(seqs) = F[n]
  BY <1>1, FlattenSteps
<1>3. \A i \in 1 .. n : seqs[i] \in Seq(T)
  BY <1>1, ElementOfSeq
<1>. DEFINE S == {i \in Nat : i \in 0 .. n => Len(F[i]) = sums[i] - sums[0]}
<1>4. 0 \in S
  <2>1. Len(F[0]) = 0 /\ sums[0] \in Int
    BY <1>1, <1>2, EmptySeq
  <2>. QED
    BY <2>1
<1>5. ASSUME NEW i \in Nat, i \in S PROVE i + 1 \in S
  <2>. SUFFICES ASSUME i + 1 \in 0 .. n PROVE Len(F[i + 1]) = sums[i + 1] - sums[0]
    OBVIOUS
  <2>1. i \in 0 .. n /\ i + 1 \in 1 .. n /\ (i + 1) - 1 = i
    BY <1>1
  <2>2. F[i + 1] = F[i] \o seqs[i + 1] /\ F[i] \in Seq(T) /\ seqs[i + 1] \in Seq(T)
    BY <1>2, <1>3, <2>1
  <2>3. Len(F[i + 1]) = Len(F[i]) + Len(seqs[i + 1])
    BY ONLY <2>2, ConcatProperties
  <2>4. Len(F[i]) = sums[i] - sums[0]
    BY <1>5, <2>1
  <2>5. sums[i + 1] = sums[i] + Len(seqs[i + 1]) /\ Len(seqs[i + 1]) \in Nat
    BY <1>1, <2>1, <2>2, LenProperties
  <2>6. sums[i] \in Int /\ sums[0] \in Int
    BY <1>1, <2>1
  <2>. QED
    BY ONLY <2>3, <2>4, <2>5, <2>6
<1>. HIDE DEF S
<1>6. n \in S
  BY <1>4, <1>5, Induction
<1>. QED
  BY <1>1, <1>2, <1>6 DEF S

\* A sequence cut in two.
LEMMA Cut ==
    ASSUME NEW S, NEW s \in Seq(S), NEW n \in 0 .. Len(s)
    PROVE  /\ SubSeq(s, 1, n) \in Seq(S) /\ Len(SubSeq(s, 1, n)) = n
           /\ \A i \in 1 .. n : SubSeq(s, 1, n)[i] = s[i]
           /\ SubSeq(s, n + 1, Len(s)) \in Seq(S) /\ Len(SubSeq(s, n + 1, Len(s))) = Len(s) - n
           /\ \A i \in 1 .. Len(s) - n : SubSeq(s, n + 1, Len(s))[i] = s[n + i]
           /\ SubSeq(s, 1, n) \o SubSeq(s, n + 1, Len(s)) = s
<1>1. Len(s) \in Nat /\ n \in Nat /\ \A i \in 1 .. Len(s) : s[i] \in S
  BY LenProperties
<1>2. /\ SubSeq(s, 1, n) \in Seq(S)
      /\ Len(SubSeq(s, 1, n)) = IF 1 =< n THEN n - 1 + 1 ELSE 0
      /\ \A i \in 1 .. n - 1 + 1 : SubSeq(s, 1, n)[i] = s[1 + i - 1]
  <2>1. \A i \in 1 .. n : s[i] \in S
    BY <1>1
  <2>. QED
    BY <1>1, <2>1, SubSeqProperties
<1>3. PICK m \in Nat, e \in Nat : m = n + 1 /\ e = Len(s)
  BY <1>1
<1>4. /\ SubSeq(s, m, e) \in Seq(S)
      /\ Len(SubSeq(s, m, e)) = IF m =< e THEN e - m + 1 ELSE 0
      /\ \A i \in 1 .. e - m + 1 : SubSeq(s, m, e)[i] = s[m + i - 1]
  <2>1. \A i \in m .. e : s[i] \in S
    BY <1>1, <1>3
  <2>. QED
    BY <2>1, SubSeqProperties
<1>5. SubSeq(s, 1, n) \o SubSeq(s, n + 1, Len(s)) = s
  <2>0. 1 \in 1 .. Len(s) + 1 /\ n \in 1 - 1 .. Len(s) /\ Len(s) \in n .. Len(s)
    BY <1>1
  <2>1. SubSeq(s, 1, n) \o SubSeq(s, n + 1, Len(s)) = SubSeq(s, 1, Len(s))
    BY <2>0, ConcatAdjacentSubSeq
  <2>. QED
    BY <2>1, SubSeqFull
<1>6. /\ Len(SubSeq(s, 1, n)) = n
      /\ \A i \in 1 .. n : SubSeq(s, 1, n)[i] = s[i]
  <2>1. \A i \in 1 .. n : 1 + i - 1 = i /\ i \in 1 .. n - 1 + 1
    BY <1>1
  <2>. QED
    BY <1>1, <1>2, <2>1
<1>7. /\ Len(SubSeq(s, m, e)) = e - n
      /\ \A i \in 1 .. e - n : SubSeq(s, m, e)[i] = s[n + i]
  <2>1. /\ e - m + 1 = e - n /\ (m =< e <=> e - n >= 1) /\ e - n \in Nat
        /\ \A i \in 1 .. e - n : m + i - 1 = n + i
    BY <1>1, <1>3
  <2>2. Len(SubSeq(s, m, e)) = e - n
    BY ONLY <1>4, <2>1, n \in Nat, e \in Nat, m \in Nat
  <2>3. \A i \in 1 .. e - n : SubSeq(s, m, e)[i] = s[n + i]
    BY ONLY <1>4, <2>1, n \in Nat, e \in Nat, m \in Nat
  <2>. QED
    BY <2>2, <2>3
<1>. QED
  BY <1>2, <1>3, <1>4, <1>5, <1>6, <1>7

\* What two sequences share that, with something behind them, are the same.
LEMMA SplitAt ==
    ASSUME NEW S, NEW s \in Seq(S), NEW t \in Seq(S), NEW u \in Seq(S), NEW v \in Seq(S),
           s \o t = u \o v, Len(s) = Len(u)
    PROVE  s = u /\ t = v
<1>1. Len(s) \in Nat /\ Len(t) \in Nat /\ Len(v) \in Nat
  BY LenProperties
<1>2. \A i \in 1 .. Len(s) : s[i] = u[i]
  <2>1. \A i \in 1 .. Len(s) + Len(t) :
           (s \o t)[i] = IF i =< Len(s) THEN s[i] ELSE t[i - Len(s)]
    BY ConcatProperties
  <2>2. \A i \in 1 .. Len(u) + Len(v) :
           (u \o v)[i] = IF i =< Len(u) THEN u[i] ELSE v[i - Len(u)]
    BY ConcatProperties
  <2>. QED
    BY ONLY <1>1, <2>1, <2>2, s \o t = u \o v, Len(s) = Len(u)
<1>3. s = u
  BY <1>2, SeqEqual
<1>4. t = v
  <2>1. s \o t = s \o v
    BY <1>3
  <2>2. /\ Len(s \o t) = Len(s) + Len(t) /\ Len(s \o v) = Len(s) + Len(v)
        /\ \A i \in 1 .. Len(s) + Len(t) :
             (s \o t)[i] = IF i =< Len(s) THEN s[i] ELSE t[i - Len(s)]
    BY ConcatProperties
  <2>3. \A i \in 1 .. Len(s) + Len(v) :
             (s \o v)[i] = IF i =< Len(s) THEN s[i] ELSE v[i - Len(s)]
    BY ConcatProperties
  <2>4. Len(t) = Len(v)
    BY ONLY <1>1, <2>1, <2>2
  <2>5. ASSUME NEW i \in 1 .. Len(t) PROVE t[i] = v[i]
    <3>1. /\ Len(s) + i \in 1 .. Len(s) + Len(t) /\ Len(s) + i \in 1 .. Len(s) + Len(v)
          /\ ~(Len(s) + i =< Len(s)) /\ (Len(s) + i) - Len(s) = i
      BY <1>1, <2>4
    <3>. QED
      BY ONLY <2>1, <2>2, <2>3, <3>1
  <2>. QED
    BY <2>4, <2>5, SeqEqual
<1>. QED
  BY <1>3, <1>4

LEMMA SeqWidens ==
    ASSUME NEW A, NEW B, A \subseteq B, NEW s \in Seq(A)
    PROVE  s \in Seq(B)
<1>1. Len(s) \in Nat /\ s \in [1 .. Len(s) -> A]
  BY LenProperties
<1>2. s \in [1 .. Len(s) -> B]
  BY <1>1
<1>. QED
  BY ONLY <1>1, <1>2

-----------------------------------------------------------------------------
(* Parameters: induction over sequences, and FlattenSeq of what is longer. *)

\* A set that holds the empty sequence and whatever is one of its sequences and
\* an element more is all of Seq(T).
LEMMA SeqInduction ==
    ASSUME NEW T, NEW S, <<>> \in S,
           \A s \in Seq(T), c \in T : s \in S => Append(s, c) \in S
    PROVE  Seq(T) \subseteq S
<1>. DEFINE N == {n \in Nat : \A s \in Seq(T) : Len(s) = n => s \in S}
<1>1. 0 \in N
  BY EmptySeq
<1>2. ASSUME NEW n \in Nat, n \in N PROVE n + 1 \in N
  <2>. SUFFICES ASSUME NEW s \in Seq(T), Len(s) = n + 1 PROVE s \in S
    OBVIOUS
  <2>1. n \in 0 .. Len(s) /\ n + 1 \in 1 .. Len(s)
    OBVIOUS
  <2>0. /\ SubSeq(s, 1, n) \in Seq(T) /\ Len(SubSeq(s, 1, n)) = n
        /\ \A i \in 1 .. n : SubSeq(s, 1, n)[i] = s[i]
    BY ONLY <2>1, s \in Seq(T), Cut
  <2>2. PICK u \in Seq(T) : Len(u) = n /\ \A i \in 1 .. n : u[i] = s[i]
    BY ONLY <2>0
  <2>3. s[n + 1] \in T
    BY <2>1, ElementOfSeq
  <2>4. PICK v : v = Append(u, s[n + 1])
    OBVIOUS
  <2>5. /\ v \in Seq(T) /\ Len(v) = n + 1 /\ v[n + 1] = s[n + 1]
        /\ \A i \in 1 .. n : v[i] = u[i]
    BY <2>2, <2>3, <2>4, AppendProperties
  <2>6. \A i \in 1 .. n + 1 : v[i] = s[i]
    <3>1. \A i \in 1 .. n + 1 : i \in 1 .. n \/ i = n + 1
      OBVIOUS
    <3>. QED
      BY <2>2, <2>5, <3>1
  <2>7. v = s
    BY <2>5, <2>6, SeqEqual
  <2>8. u \in S
    BY <1>2, <2>2
  <2>. QED
    BY <2>2, <2>3, <2>4, <2>7, <2>8
<1>. HIDE DEF N
<1>3. Nat \subseteq N
  BY ONLY <1>1, <1>2, Induction
<1>. QED
  BY <1>3, LenProperties DEF N

\* A function on 1 .. n is a sequence.
LEMMA FunctionIsSeq ==
    ASSUME NEW S, NEW n \in Nat, NEW f \in [1 .. n -> S]
    PROVE  f \in Seq(S) /\ Len(f) = n
  OBVIOUS

LEMMA FlattenLonger ==
    ASSUME NEW T, NEW seqs \in Seq(Seq(T)), NEW more \in Seq(Seq(T)),
           Len(more) = Len(seqs) + 1, \A i \in 1 .. Len(seqs) : more[i] = seqs[i]
    PROVE  /\ FlattenSeq(seqs) \in Seq(T)
           /\ FlattenSeq(more) = FlattenSeq(seqs) \o more[Len(more)]
<1>1. PICK n \in Nat : n = Len(seqs)
  BY LenProperties
<1>2. PICK s \in Seq(T) : s = more[n + 1]
  BY <1>1, ElementOfSeq
<1>3. PICK longer : longer = Append(seqs, s)
  OBVIOUS
<1>4. /\ longer \in Seq(Seq(T)) /\ Len(longer) = n + 1 /\ longer[n + 1] = s
      /\ \A i \in 1 .. n : longer[i] = seqs[i]
  BY <1>1, <1>3, AppendProperties
<1>5. \A i \in 1 .. n + 1 : longer[i] = more[i]
  <2>1. \A i \in 1 .. n + 1 : i \in 1 .. n \/ i = n + 1
    OBVIOUS
  <2>. QED
    BY <1>1, <1>2, <1>4, <2>1
<1>6. longer = more
  BY <1>1, <1>4, <1>5, SeqEqual
<1>7. FlattenSeq(seqs) \in Seq(T) /\ FlattenSeq(longer) = FlattenSeq(seqs) \o s
  BY <1>3, FlattenAppend
<1>. QED
  BY <1>1, <1>2, <1>6, <1>7

LEMMA FlattenEmpty == FlattenSeq(<<>>) = <<>>
  BY EmptySeq DEF FlattenSeq

\* What comes behind and is empty adds nothing.
LEMMA FlattenExtends ==
    ASSUME NEW T, NEW seqs \in Seq(Seq(T)), NEW more \in Seq(Seq(T)),
           Len(more) >= Len(seqs) + 1, \A i \in 1 .. Len(seqs) : more[i] = seqs[i],
           \A i \in Len(seqs) + 2 .. Len(more) : more[i] = <<>>
    PROVE  FlattenSeq(more) = FlattenSeq(seqs) \o more[Len(seqs) + 1]
<1>1. PICK n \in Nat, m \in Nat : n = Len(seqs) /\ m = Len(more)
  BY LenProperties
<1>2. PICK s \in Seq(T) : s = more[n + 1]
  BY <1>1, ElementOfSeq
<1>3. PICK F : F = FlattenSeq(seqs) \o s
  OBVIOUS
<1>4. F \in Seq(T)
  BY <1>3, FlattenAppend, ConcatProperties
<1>. DEFINE P(k) == SubSeq(more, 1, n + 1 + k)
            N    == {k \in Nat : n + 1 + k =< m => FlattenSeq(P(k)) = F}
<1>5. \A k \in Nat : n + 1 + k =< m =>
        /\ P(k) \in Seq(Seq(T)) /\ Len(P(k)) = n + 1 + k
        /\ \A i \in 1 .. n + 1 + k : P(k)[i] = more[i]
  <2>. SUFFICES ASSUME NEW k \in Nat, n + 1 + k =< m
                PROVE  /\ P(k) \in Seq(Seq(T)) /\ Len(P(k)) = n + 1 + k
                       /\ \A i \in 1 .. n + 1 + k : P(k)[i] = more[i]
    OBVIOUS
  <2>1. n + 1 + k \in 0 .. Len(more)
    BY <1>1
  <2>. QED
    BY ONLY <2>1, more \in Seq(Seq(T)), Cut
<1>10. P(m - (n + 1)) = more
  <2>1. n + 1 + (m - (n + 1)) = m
    BY <1>1
  <2>. QED
    BY <1>1, <2>1, SubSeqFull
<1>. HIDE DEF P
<1>6. 0 \in N
  <2>. SUFFICES ASSUME n + 1 + 0 =< m PROVE FlattenSeq(P(0)) = F
    OBVIOUS
  <2>1. PICK u \in Seq(Seq(T)) :
          u = P(0) /\ Len(u) = n + 1 /\ \A i \in 1 .. n + 1 : u[i] = more[i]
    BY <1>5
  <2>2. Len(u) = Len(seqs) + 1 /\ \A i \in 1 .. Len(seqs) : u[i] = seqs[i]
    BY <1>1, <2>1
  <2>3. FlattenSeq(u) = FlattenSeq(seqs) \o u[Len(u)]
    BY ONLY <2>2, FlattenLonger, seqs \in Seq(Seq(T)), u \in Seq(Seq(T))
  <2>4. u[Len(u)] = s
    BY <1>2, <2>1
  <2>. QED
    BY ONLY <1>3, <2>1, <2>3, <2>4
<1>7. ASSUME NEW k \in Nat, k \in N PROVE k + 1 \in N
  <2>. SUFFICES ASSUME n + 1 + (k + 1) =< m PROVE FlattenSeq(P(k + 1)) = F
    OBVIOUS
  <2>1. PICK u \in Seq(Seq(T)) :
          u = P(k) /\ Len(u) = n + 1 + k /\ \A i \in 1 .. n + 1 + k : u[i] = more[i]
    BY <1>5
  <2>2. PICK v \in Seq(Seq(T)) :
          /\ v = P(k + 1) /\ Len(v) = n + 1 + (k + 1)
          /\ \A i \in 1 .. n + 1 + (k + 1) : v[i] = more[i]
    BY <1>5
  <2>3. v[Len(v)] = <<>>
    <3>1. n + 1 + (k + 1) \in n + 2 .. m /\ n + 1 + (k + 1) \in 1 .. n + 1 + (k + 1)
      BY ONLY n \in Nat, m \in Nat, k \in Nat, n + 1 + (k + 1) =< m
    <3>2. \A i \in n + 2 .. m : more[i] = <<>>
      BY <1>1
    <3>. QED
      BY ONLY <2>2, <3>1, <3>2
  <2>4. Len(v) = Len(u) + 1 /\ \A i \in 1 .. Len(u) : v[i] = u[i]
    <3>1. Len(v) = Len(u) + 1 /\ \A i \in 1 .. Len(u) : i \in 1 .. n + 1 + (k + 1)
      BY ONLY <2>1, <2>2, n \in Nat, k \in Nat
    <3>2. \A i \in 1 .. n + 1 + k : u[i] = more[i]
      BY <2>1
    <3>. QED
      BY ONLY <2>1, <2>2, <3>1, <3>2
  <2>5. FlattenSeq(v) = FlattenSeq(u) \o v[Len(v)]
    BY ONLY <2>4, FlattenLonger, u \in Seq(Seq(T)), v \in Seq(Seq(T))
  <2>6. FlattenSeq(u) = F
    BY <1>7, <2>1
  <2>7. F \o <<>> = F
    BY <1>4, ConcatEmptySeq
  <2>. QED
    BY ONLY <2>2, <2>3, <2>5, <2>6, <2>7
<1>. HIDE DEF N
<1>8. m - (n + 1) \in N
  <2>1. m - (n + 1) \in Nat
    BY <1>1
  <2>. QED
    BY ONLY <1>6, <1>7, <2>1, Induction
<1>9. FlattenSeq(P(m - (n + 1))) = F
  BY <1>1, <1>8 DEF N
<1>. QED
  BY ONLY <1>1, <1>2, <1>3, <1>9, <1>10

-----------------------------------------------------------------------------
(* What is encoded decodes to what it was.                                 *)

\* What one character becomes.
Sign(c, chars) == IF c \in chars THEN <<"%">> \o Code[c] ELSE <<c>>

LEMMA ThreeSigns ==
    ASSUME NEW T, NEW a \in T, NEW b \in T, NEW c \in T
    PROVE  /\ <<a>> \o <<b, c>> = <<a, b, c>> /\ <<a, b, c>> \in Seq(T) /\ <<a>> \in Seq(T)
           /\ \A s \in Seq(T) : s \o <<a>> = Append(s, a)
           /\ \A s \in Seq(T) : s \o <<a, b, c>> = Append(Append(Append(s, a), b), c)
<1>1. /\ <<a>> \in Seq(T) /\ <<b, c>> \in Seq(T) /\ <<a, b, c>> \in Seq(T)
      /\ Len(<<a>>) = 1 /\ Len(<<b, c>>) = 2 /\ Len(<<a, b, c>>) = 3
  OBVIOUS
<1>2. <<a>> \o <<b, c>> = <<a, b, c>>
  <2>1. PICK s \in Seq(T) : s = <<a>> \o <<b, c>>
    BY <1>1, ConcatProperties
  <2>2. Len(s) = 3 /\ s[1] = a /\ s[2] = b /\ s[3] = c
    BY <1>1, <2>1, ConcatProperties
  <2>3. \A i \in 1 .. 3 : s[i] = <<a, b, c>>[i]
    <3>1. \A i \in 1 .. 3 : i = 1 \/ i = 2 \/ i = 3
      OBVIOUS
    <3>. QED
      BY <2>2, <3>1
  <2>4. s = <<a, b, c>>
    BY <1>1, <2>2, <2>3, SeqEqual
  <2>. QED
    BY <2>1, <2>4
<1>3. ASSUME NEW s \in Seq(T) PROVE s \o <<a>> = Append(s, a)
  <2>n. PICK n \in Nat : n = Len(s)
    BY LenProperties
  <2>1. PICK u, v, x : n = Len(s) /\ u = s \o <<a>> /\ v = Append(s, a) /\ x = <<a>>
    BY <2>n
  <2>2. /\ u \in Seq(T) /\ Len(u) = n + 1
        /\ \A i \in 1 .. n + 1 : u[i] = IF i =< n THEN s[i] ELSE x[i - n]
    BY <1>1, <2>1, ConcatProperties
  <2>3. /\ v \in Seq(T) /\ Len(v) = n + 1 /\ v[n + 1] = a
        /\ \A i \in 1 .. n : v[i] = s[i]
    BY <2>1, AppendProperties
  <2>4. x[1] = a /\ (n + 1) - n = 1 /\ ~(n + 1 =< n) /\ n + 1 \in 1 .. n + 1
    BY <2>1
  <2>5. \A i \in 1 .. n + 1 : i # n + 1 => i \in 1 .. n /\ i =< n
    BY ONLY n \in Nat
  <2>6. \A i \in 1 .. n + 1 : u[i] = v[i]
    BY ONLY <2>2, <2>3, <2>4, <2>5
  <2>7. u = v
    BY <2>2, <2>3, <2>6, SeqEqual
  <2>. QED
    BY <2>1, <2>7
<1>4. ASSUME NEW s \in Seq(T) PROVE s \o <<a, b, c>> = Append(Append(Append(s, a), b), c)
  <2>n. PICK n \in Nat : n = Len(s)
    BY LenProperties
  <2>1. PICK u, v, x :
         /\ n = Len(s) /\ u = s \o <<a, b, c>> /\ v = Append(Append(Append(s, a), b), c) /\ x = <<a, b, c>>
    BY <2>n
  <2>2. /\ u \in Seq(T) /\ Len(u) = n + 3
        /\ \A i \in 1 .. n + 3 : u[i] = IF i =< n THEN s[i] ELSE x[i - n]
    BY <1>1, <2>1, ConcatProperties
  <2>3. PICK p, q : p = Append(s, a) /\ q = Append(p, b) /\ v = Append(q, c)
    BY <2>1
  <2>4. p \in Seq(T) /\ Len(p) = n + 1 /\ p[n + 1] = a /\ \A i \in 1 .. n : p[i] = s[i]
    BY <2>1, <2>3, AppendProperties
  <2>5. /\ q \in Seq(T) /\ Len(q) = n + 1 + 1 /\ q[n + 1 + 1] = b
        /\ \A i \in 1 .. n + 1 : q[i] = p[i]
    BY <2>3, <2>4, AppendProperties
  <2>6. /\ v \in Seq(T) /\ Len(v) = n + 1 + 1 + 1 /\ v[n + 1 + 1 + 1] = c
        /\ \A i \in 1 .. n + 1 + 1 : v[i] = q[i]
    BY <2>3, <2>5, AppendProperties
  <2>7. x[1] = a /\ x[2] = b /\ x[3] = c
    BY <2>1
  <2>8. \A i \in 1 .. n + 3 :
           \/ i \in 1 .. n /\ i \in 1 .. n + 1 /\ i \in 1 .. n + 1 + 1 /\ i =< n
           \/ i = n + 1 /\ i \in 1 .. n + 1 /\ i \in 1 .. n + 1 + 1 /\ ~(i =< n) /\ i - n = 1
           \/ i = n + 1 + 1 /\ i \in 1 .. n + 1 + 1 /\ ~(i =< n) /\ i - n = 2
           \/ i = n + 1 + 1 + 1 /\ ~(i =< n) /\ i - n = 3
    BY ONLY n \in Nat
  <2>9. \A i \in 1 .. n + 3 : u[i] = v[i]
    BY ONLY <2>2, <2>4, <2>5, <2>6, <2>7, <2>8
  <2>10. u = v
    <3>1. n + 1 + 1 + 1 = n + 3
      OBVIOUS
    <3>. QED
      BY <2>2, <2>6, <2>9, <3>1, SeqEqual
  <2>. QED
    BY <2>1, <2>10
<1>. QED
  BY <1>1, <1>2, <1>3, <1>4

LEMMA SignIs ==
    ASSUME NEW T, HexDigits \subseteq T, "%" \in T, NEW chars \in SUBSET Chars, NEW c \in T
    PROVE  /\ Sign(c, chars) \in Seq(T)
           /\ c \notin chars => Sign(c, chars) = <<c>>
           /\ c \in chars => \E g, h \in HexDigits : /\ Code[c] = <<g, h>>
                                                    /\ Sign(c, chars) = <<"%", g, h>>
<1>1. CASE c \notin chars
  <2>1. Sign(c, chars) = <<c>>
    BY <1>1 DEF Sign
  <2>. QED
    BY <1>1, <2>1
<1>2. CASE c \in chars
  <2>1. PICK g \in HexDigits, h \in HexDigits : Code[c] = <<g, h>>
    BY <1>2, CodeAssumption
  <2>2. Sign(c, chars) = <<"%">> \o <<g, h>>
    BY <1>2, <2>1 DEF Sign
  <2>3. Sign(c, chars) = <<"%", g, h>> /\ <<"%", g, h>> \in Seq(T)
    BY <2>2, ThreeSigns
  <2>. QED
    BY <1>2, <2>1, <2>3
<1>. QED
  BY <1>1, <1>2

LEMMA EncodedAppend ==
    ASSUME NEW T, HexDigits \subseteq T, "%" \in T, NEW chars \in SUBSET Chars
    PROVE  /\ Encoded(<<>>, chars) = <<>>
           /\ \A s \in Seq(T) : Encoded(s, chars) \in Seq(T)
           /\ \A s \in Seq(T), c \in T :
                Encoded(Append(s, c), chars) = Encoded(s, chars) \o Sign(c, chars)
<1>. DEFINE M(s) == [i \in DOMAIN s |-> IF s[i] \in chars THEN <<"%">> \o Code[s[i]] ELSE <<s[i]>>]
<1>1. \A s : Encoded(s, chars) = FlattenSeq(M(s))
  BY DEF Encoded
<1>2. ASSUME NEW s \in Seq(T)
      PROVE  /\ M(s) \in Seq(Seq(T)) /\ Len(M(s)) = Len(s)
             /\ \A i \in 1 .. Len(s) : M(s)[i] = Sign(s[i], chars)
  <2>1. PICK n \in Nat : n = Len(s) /\ DOMAIN s = 1 .. n
    BY LenProperties
  <2>2. PICK f : f = M(s)
    OBVIOUS
  <2>3. f = [i \in 1 .. n |-> Sign(s[i], chars)]
    BY <2>1, <2>2, Zenon DEF Sign
  <2>4. \A i \in 1 .. n : Sign(s[i], chars) \in Seq(T)
    BY <2>1, ElementOfSeq, SignIs
  <2>5. f \in [1 .. n -> Seq(T)] /\ \A i \in 1 .. n : f[i] = Sign(s[i], chars)
    BY ONLY <2>3, <2>4
  <2>6. f \in Seq(Seq(T)) /\ Len(f) = n
    BY ONLY <2>5, FunctionIsSeq, n \in Nat
  <2>. HIDE DEF M
  <2>. QED
    BY <2>1, <2>2, <2>5, <2>6
<1>3. M(<<>>) = <<>>
  OBVIOUS
<1>. HIDE DEF M
<1>4. ASSUME NEW s \in Seq(T)
      PROVE  Encoded(s, chars) \in Seq(T)
  <2>1. FlattenSeq(M(s)) \in Seq(T)
    <3>1. <<>> \in Seq(T)
      OBVIOUS
    <3>. QED
      BY <1>2, <3>1, FlattenAppend
  <2>. QED
    BY <1>1, <2>1
<1>5. ASSUME NEW s \in Seq(T), NEW c \in T
      PROVE  Encoded(Append(s, c), chars) = Encoded(s, chars) \o Sign(c, chars)
  <2>0. PICK u : u = Append(s, c)
    OBVIOUS
  <2>1. /\ u \in Seq(T) /\ Len(u) = Len(s) + 1 /\ u[Len(s) + 1] = c
        /\ \A i \in 1 .. Len(s) : u[i] = s[i]
    BY <2>0, AppendProperties
  <2>2. PICK f \in Seq(Seq(T)), g \in Seq(Seq(T)) : f = M(s) /\ g = M(u)
    BY <1>2, <2>1
  <2>3. /\ Len(f) = Len(s) /\ \A i \in 1 .. Len(s) : f[i] = Sign(s[i], chars)
        /\ Len(g) = Len(u) /\ \A i \in 1 .. Len(u) : g[i] = Sign(u[i], chars)
    BY <1>2, <2>1, <2>2
  <2>4. Len(s) \in Nat
    BY LenProperties
  <2>5. \A i \in 1 .. Len(s) : i \in 1 .. Len(u)
    BY ONLY <2>1, <2>4
  <2>6. Len(g) = Len(f) + 1 /\ \A i \in 1 .. Len(f) : g[i] = f[i]
    BY ONLY <2>1, <2>3, <2>5
  <2>7. g[Len(g)] = Sign(c, chars)
    BY ONLY <2>1, <2>3, <2>4
  <2>8. FlattenSeq(g) = FlattenSeq(f) \o g[Len(g)]
    BY ONLY <2>6, FlattenLonger, f \in Seq(Seq(T)), g \in Seq(Seq(T))
  <2>. QED
    BY <1>1, <2>0, <2>2, <2>7, <2>8
<1>6. Encoded(<<>>, chars) = <<>>
  BY <1>1, <1>3, FlattenEmpty
<1>. QED
  BY <1>4, <1>5, <1>6

\* What DecodeUrl can make of a text over T.
Made(T) == T \cup {" "} \cup {EscapedChar(p) : p \in HexDigits \X HexDigits}

\* No escape can begin near the end of x.
Closed(x) == \A i \in 1 .. Len(x) : i >= Len(x) - 1 => x[i] # "%"

Decodings(x) == [i \in DOMAIN x |-> Decoded(x, i)]

LEMMA DecodingsAre ==
    ASSUME NEW T, NEW x \in Seq(T)
    PROVE  /\ Decodings(x) \in Seq(Seq(Made(T))) /\ Len(Decodings(x)) = Len(x)
           /\ \A i \in 1 .. Len(x) : Decodings(x)[i] = Decoded(x, i)
           /\ DecodeUrl(x) = FlattenSeq(Decodings(x)) /\ DecodeUrl(x) \in Seq(Made(T))
<1>1. PICK n \in Nat : n = Len(x) /\ DOMAIN x = 1 .. n
  BY LenProperties
<1>2. ASSUME NEW i \in 1 .. n PROVE Decoded(x, i) \in Seq(Made(T))
  <2>1. \A w \in Made(T) : <<w>> \in Seq(Made(T))
    OBVIOUS
  <2>2. <<>> \in Seq(Made(T))
    OBVIOUS
  <2>3. CASE IsEscape(x, i)
    <3>1. x[i + 1] \in HexDigits /\ x[i + 2] \in HexDigits
      BY <2>3 DEF IsEscape
    <3>2. PICK p \in HexDigits \X HexDigits : p = <<x[i + 1], x[i + 2]>>
      BY <3>1
    <3>3. EscapedChar(p) \in Made(T)
      BY DEF Made
    <3>4. Decoded(x, i) = <<EscapedChar(p)>>
      BY <2>3, <3>2, Zenon DEF Decoded
    <3>. QED
      BY <2>1, <3>3, <3>4
  <2>4. CASE ~IsEscape(x, i) /\ (IsEscape(x, i - 1) \/ IsEscape(x, i - 2))
    <3>1. Decoded(x, i) = <<>>
      BY <2>4, Zenon DEF Decoded
    <3>. QED
      BY <2>2, <3>1
  <2>5. CASE ~IsEscape(x, i) /\ ~(IsEscape(x, i - 1) \/ IsEscape(x, i - 2))
    <3>1. PICK w : w = IF x[i] = "+" THEN " " ELSE x[i]
      OBVIOUS
    <3>2. Decoded(x, i) = <<w>>
      BY <2>5, <3>1, Zenon DEF Decoded
    <3>3. x[i] \in T
      BY <1>1, ElementOfSeq
    <3>4. w \in Made(T)
      BY <3>1, <3>3 DEF Made
    <3>. QED
      BY <2>1, <3>2, <3>4
  <2>. QED
    BY <2>3, <2>4, <2>5
<1>3. PICK f : f = Decodings(x)
  OBVIOUS
<1>4. f = [i \in 1 .. n |-> Decoded(x, i)]
  BY <1>1, <1>3, Zenon DEF Decodings
<1>5. f \in [1 .. n -> Seq(Made(T))] /\ \A i \in 1 .. n : f[i] = Decoded(x, i)
  BY ONLY <1>2, <1>4
<1>6. f \in Seq(Seq(Made(T))) /\ Len(f) = n
  BY ONLY <1>5, FunctionIsSeq, n \in Nat
<1>7. DecodeUrl(x) = FlattenSeq(f)
  BY <1>3, Zenon DEF DecodeUrl, Decodings
<1>8. FlattenSeq(f) \in Seq(Made(T))
  <2>1. <<>> \in Seq(Made(T))
    OBVIOUS
  <2>. QED
    BY ONLY <1>6, <2>1, FlattenAppend
<1>. QED
  BY ONLY <1>1, <1>3, <1>5, <1>6, <1>7, <1>8

LEMMA SameDecodings ==
    ASSUME NEW T, NEW x \in Seq(T), NEW y \in Seq(T), Closed(x),
           Len(y) >= Len(x), \A i \in 1 .. Len(x) : y[i] = x[i]
    PROVE  /\ \A i \in Int : i =< Len(x) => (IsEscape(y, i) <=> IsEscape(x, i))
           /\ \A i \in 1 .. Len(x) : Decoded(y, i) = Decoded(x, i)
<1>1. Len(x) \in Nat /\ Len(y) \in Nat
  BY LenProperties
<1>2. ASSUME NEW i \in Int, i =< Len(x) PROVE IsEscape(y, i) <=> IsEscape(x, i)
  <2>1. CASE i < 1
    BY <2>1 DEF IsEscape
  <2>2. CASE i >= 1 /\ i + 2 =< Len(x)
    <3>1. /\ i \in 1 .. Len(x) /\ i + 1 \in 1 .. Len(x) /\ i + 2 \in 1 .. Len(x)
          /\ i + 2 =< Len(y)
      BY <1>1, <2>2
    <3>2. y[i] = x[i] /\ y[i + 1] = x[i + 1] /\ y[i + 2] = x[i + 2]
      BY <3>1
    <3>. QED
      BY <2>2, <3>1, <3>2 DEF IsEscape
  <2>3. CASE i >= 1 /\ ~(i + 2 =< Len(x))
    <3>1. i \in 1 .. Len(x) /\ i >= Len(x) - 1
      BY <1>1, <1>2, <2>3
    <3>2. y[i] # "%"
      BY <3>1 DEF Closed
    <3>. QED
      BY <2>3, <3>2 DEF IsEscape
  <2>. QED
    BY <2>1, <2>2, <2>3
<1>3. ASSUME NEW i \in 1 .. Len(x) PROVE Decoded(y, i) = Decoded(x, i)
  <2>1. i \in Int /\ i =< Len(x) /\ i - 1 \in Int /\ i - 1 =< Len(x) /\ i - 2 \in Int /\ i - 2 =< Len(x)
    BY <1>1
  <2>2. /\ IsEscape(y, i) <=> IsEscape(x, i)
        /\ IsEscape(y, i - 1) <=> IsEscape(x, i - 1)
        /\ IsEscape(y, i - 2) <=> IsEscape(x, i - 2)
    BY <1>2, <2>1
  <2>3. y[i] = x[i]
    OBVIOUS
  <2>4. CASE IsEscape(x, i)
    <3>1. i + 2 =< Len(x) /\ i >= 1
      BY <2>4 DEF IsEscape
    <3>2. i + 1 \in 1 .. Len(x) /\ i + 2 \in 1 .. Len(x)
      BY <1>1, <3>1
    <3>3. y[i + 1] = x[i + 1] /\ y[i + 2] = x[i + 2]
      BY <3>2
    <3>. QED
      BY <2>2, <2>4, <3>3, Zenon DEF Decoded
  <2>5. CASE ~IsEscape(x, i)
    BY <2>2, <2>3, <2>5, Zenon DEF Decoded
  <2>. QED
    BY <2>4, <2>5
<1>. QED
  BY <1>2, <1>3

LEMMA DecodesKept ==
    ASSUME NEW T, NEW x \in Seq(T), Closed(x), NEW c \in T, c # "%", c # "+"
    PROVE  /\ DecodeUrl(Append(x, c)) = DecodeUrl(x) \o <<c>>
           /\ Closed(Append(x, c))
<1>n. PICK n \in Nat : n = Len(x)
  BY LenProperties
<1>1. PICK y : n = Len(x) /\ y = Append(x, c)
  BY <1>n
<1>2. y \in Seq(T) /\ Len(y) = n + 1 /\ y[n + 1] = c /\ \A i \in 1 .. n : y[i] = x[i]
  BY <1>1, AppendProperties
<1>3. /\ \A i \in Int : i =< n => (IsEscape(y, i) <=> IsEscape(x, i))
      /\ \A i \in 1 .. n : Decoded(y, i) = Decoded(x, i)
  <2>1. Len(y) >= Len(x) /\ \A i \in 1 .. Len(x) : y[i] = x[i]
    BY <1>1, <1>2
  <2>. QED
    BY ONLY <1>1, <1>2, <2>1, Closed(x), x \in Seq(T), SameDecodings
<1>4. Decoded(y, n + 1) = <<c>>
  <2>1. ~IsEscape(y, n + 1)
    BY <1>2 DEF IsEscape
  <2>2. ~IsEscape(x, n) /\ ~IsEscape(x, n - 1)
    BY <1>1 DEF IsEscape
  <2>3. ~IsEscape(y, (n + 1) - 1) /\ ~IsEscape(y, (n + 1) - 2)
    <3>1. (n + 1) - 1 = n /\ (n + 1) - 2 = n - 1 /\ n \in Int /\ n - 1 \in Int /\ n =< n /\ n - 1 =< n
      BY <1>1
    <3>. QED
      BY <1>3, <2>2, <3>1
  <2>. QED
    BY <1>2, <2>1, <2>3, Zenon DEF Decoded
<1>5. PICK f \in Seq(Seq(Made(T))), g \in Seq(Seq(Made(T))) :
         f = Decodings(x) /\ g = Decodings(y)
  BY <1>2, DecodingsAre
<1>6. /\ Len(f) = n /\ \A i \in 1 .. n : f[i] = Decoded(x, i)
      /\ Len(g) = n + 1 /\ \A i \in 1 .. n + 1 : g[i] = Decoded(y, i)
      /\ DecodeUrl(x) = FlattenSeq(f) /\ DecodeUrl(y) = FlattenSeq(g)
  BY <1>1, <1>2, <1>5, DecodingsAre
<1>7. g[n + 1] = <<c>> /\ \A i \in 1 .. n : g[i] = f[i]
  <2>1. n + 1 \in 1 .. n + 1 /\ \A i \in 1 .. n : i \in 1 .. n + 1
    BY <1>1
  <2>. QED
    BY ONLY <1>3, <1>4, <1>6, <2>1
<1>8. FlattenSeq(g) = FlattenSeq(f) \o g[n + 1]
  <2>1. Len(g) = Len(f) + 1 /\ Len(g) = n + 1 /\ \A i \in 1 .. Len(f) : g[i] = f[i]
    BY <1>6, <1>7
  <2>. QED
    BY ONLY <1>5, <2>1, FlattenLonger
<1>9. Closed(y)
  <2>1. \A i \in 1 .. n + 1 : i >= (n + 1) - 1 => y[i] # "%"
    <3>1. ASSUME NEW i \in 1 .. n + 1, i >= (n + 1) - 1 PROVE i = n + 1 \/ (i \in 1 .. n /\ i >= n - 1)
      BY <3>1
    <3>2. \A i \in 1 .. n : i >= n - 1 => y[i] # "%"
      BY <1>1, <1>2 DEF Closed
    <3>. QED
      BY <1>2, <3>1, <3>2
  <2>. QED
    BY <1>2, <2>1 DEF Closed
<1>. QED
  BY <1>1, <1>6, <1>7, <1>8, <1>9

LEMMA EscapedIs == \A c \in Chars : EscapedChar(Code[c]) = c
<1>. SUFFICES ASSUME NEW c \in Chars PROVE EscapedChar(Code[c]) = c
  OBVIOUS
<1>1. {d \in Chars : Code[d] = Code[c]} = {c}
  BY CodeAssumption
<1>2. (CHOOSE d \in {c} : TRUE) = c /\ {c} # {}
  OBVIOUS
<1>. QED
  BY <1>1, <1>2, Zenon DEF EscapedChar

\* Appended element by element, an escape.
Escaping(x, g, h) == Append(Append(Append(x, "%"), g), h)

LEMMA DecodesEscape ==
    ASSUME NEW T, HexDigits \subseteq T, "%" \in T, NEW x \in Seq(T), Closed(x),
           NEW c \in Chars, NEW g \in HexDigits, NEW h \in HexDigits, Code[c] = <<g, h>>
    PROVE  /\ DecodeUrl(Escaping(x, g, h)) = DecodeUrl(x) \o <<c>>
           /\ Closed(Escaping(x, g, h))
<1>n. PICK n \in Nat : n = Len(x)
  BY LenProperties
<1>1. PICK p, q, y :  n = Len(x) /\ p = Append(x, "%") /\ q = Append(p, g) /\ y = Append(q, h)
  BY <1>n
<1>2. y = Escaping(x, g, h)
  BY <1>1 DEF Escaping
<1>3. p \in Seq(T) /\ Len(p) = n + 1 /\ p[n + 1] = "%" /\ \A i \in 1 .. n : p[i] = x[i]
  BY <1>1, AppendProperties
<1>4. /\ q \in Seq(T) /\ Len(q) = n + 1 + 1 /\ q[n + 1 + 1] = g
      /\ \A i \in 1 .. n + 1 : q[i] = p[i]
  BY <1>1, <1>3, AppendProperties
<1>5. /\ y \in Seq(T) /\ Len(y) = n + 1 + 1 + 1 /\ y[n + 1 + 1 + 1] = h
      /\ \A i \in 1 .. n + 1 + 1 : y[i] = q[i]
  BY <1>1, <1>4, AppendProperties
<1>6. /\ Len(y) = n + 3 /\ y[n + 1] = "%" /\ y[n + 2] = g /\ y[n + 3] = h
      /\ \A i \in 1 .. n : y[i] = x[i]
  <2>1. /\ n + 1 + 1 + 1 = n + 3 /\ n + 1 + 1 = n + 2
        /\ n + 1 \in 1 .. n + 1 /\ n + 1 \in 1 .. n + 1 + 1 /\ n + 1 + 1 \in 1 .. n + 1 + 1
        /\ \A i \in 1 .. n : i \in 1 .. n + 1 /\ i \in 1 .. n + 1 + 1
    OBVIOUS
  <2>. QED
    BY ONLY <1>3, <1>4, <1>5, <2>1
<1>7. /\ \A i \in Int : i =< n => (IsEscape(y, i) <=> IsEscape(x, i))
      /\ \A i \in 1 .. n : Decoded(y, i) = Decoded(x, i)
  <2>1. Len(y) >= Len(x) /\ \A i \in 1 .. Len(x) : y[i] = x[i]
    BY <1>1, <1>6
  <2>. QED
    BY ONLY <1>1, <1>5, <2>1, Closed(x), x \in Seq(T), SameDecodings
<1>8. "%" \notin HexDigits
  BY CharsAssumption
<1>9. IsEscape(y, n + 1) /\ ~IsEscape(y, n + 2) /\ ~IsEscape(y, n + 3)
  <2>1. (n + 1) + 2 = n + 3 /\ (n + 1) + 1 = n + 2 /\ n + 1 >= 1 /\ n + 3 =< n + 3
    OBVIOUS
  <2>. QED
    BY ONLY <1>6, <1>8, <2>1, g \in HexDigits, h \in HexDigits DEF IsEscape
<1>10. Decoded(y, n + 1) = <<c>>
  <2>1. (n + 1) + 2 = n + 3 /\ (n + 1) + 1 = n + 2
    OBVIOUS
  <2>2. <<y[(n + 1) + 1], y[(n + 1) + 2]>> = Code[c]
    BY <1>6, <2>1
  <2>. QED
    BY <1>9, <2>2, EscapedIs, Zenon DEF Decoded
<1>11. Decoded(y, n + 2) = <<>> /\ Decoded(y, n + 3) = <<>>
  <2>1. (n + 2) - 1 = n + 1 /\ (n + 3) - 2 = n + 1
    OBVIOUS
  <2>2. IsEscape(y, (n + 2) - 1) /\ IsEscape(y, (n + 3) - 2)
    BY <1>9, <2>1
  <2>. QED
    BY <1>9, <2>2, Zenon DEF Decoded
<1>12. PICK f \in Seq(Seq(Made(T))), k \in Seq(Seq(Made(T))) :
         f = Decodings(x) /\ k = Decodings(y)
  BY <1>5, DecodingsAre
<1>13. /\ Len(f) = n /\ \A i \in 1 .. n : f[i] = Decoded(x, i)
       /\ Len(k) = n + 3 /\ \A i \in 1 .. n + 3 : k[i] = Decoded(y, i)
       /\ DecodeUrl(x) = FlattenSeq(f) /\ DecodeUrl(y) = FlattenSeq(k)
  <2>1. /\ Len(f) = Len(x) /\ \A i \in 1 .. Len(x) : f[i] = Decoded(x, i)
        /\ DecodeUrl(x) = FlattenSeq(f)
    BY <1>12, DecodingsAre
  <2>2. /\ Len(k) = Len(y) /\ \A i \in 1 .. Len(y) : k[i] = Decoded(y, i)
        /\ DecodeUrl(y) = FlattenSeq(k)
    BY <1>5, <1>12, DecodingsAre
  <2>. QED
    BY ONLY <1>1, <1>6, <2>1, <2>2
<1>14. /\ k[n + 1] = <<c>> /\ k[n + 2] = <<>> /\ k[n + 3] = <<>>
       /\ \A i \in 1 .. n : k[i] = f[i]
  <2>1. /\ n + 1 \in 1 .. n + 3 /\ n + 2 \in 1 .. n + 3 /\ n + 3 \in 1 .. n + 3
        /\ \A i \in 1 .. n : i \in 1 .. n + 3
    BY <1>1
  <2>. QED
    BY ONLY <1>7, <1>10, <1>11, <1>13, <2>1
<1>15. FlattenSeq(k) = FlattenSeq(f) \o k[n + 1]
  <2>1. Len(k) >= Len(f) + 1 /\ Len(f) + 1 = n + 1
    BY <1>13
  <2>2. \A i \in Len(f) + 2 .. Len(k) : k[i] = <<>>
    <3>1. \A i \in n + 2 .. n + 3 : i = n + 2 \/ i = n + 3
      OBVIOUS
    <3>. QED
      BY <1>13, <1>14, <3>1
  <2>3. \A i \in 1 .. Len(f) : k[i] = f[i]
    BY <1>13, <1>14
  <2>4. FlattenSeq(k) = FlattenSeq(f) \o k[Len(f) + 1]
    BY ONLY <1>12, <2>1, <2>2, <2>3, FlattenExtends
  <2>. QED
    BY <2>1, <2>4
<1>16. Closed(y)
  <2>1. \A i \in 1 .. n + 3 : i >= (n + 3) - 1 => i = n + 2 \/ i = n + 3
    OBVIOUS
  <2>2. g # "%" /\ h # "%"
    BY <1>8
  <2>. QED
    BY <1>6, <2>1, <2>2 DEF Closed
<1>. QED
  BY <1>2, <1>13, <1>14, <1>15, <1>16

\* What is encoded decodes to what it was, if every character that means
\* something to decode_url is encoded.
LEMMA DecodesEncoded ==
    ASSUME NEW V, NEW chars \in SUBSET Chars, \A c \in V : c \in chars \/ c \notin {"%", "+"},
           NEW v \in Seq(V)
    PROVE  DecodeUrl(Encoded(v, chars)) = v
<1>. DEFINE T == V \cup HexDigits \cup {"%"}
            S == {s \in Seq(V) : /\ Encoded(s, chars) \in Seq(T)
                                 /\ Closed(Encoded(s, chars))
                                 /\ DecodeUrl(Encoded(s, chars)) = s}
<1>0. HexDigits \subseteq T /\ "%" \in T /\ V \subseteq T
  OBVIOUS
<1>. HIDE DEF T
<1>1. <<>> \in S
  <2>1. Encoded(<<>>, chars) = <<>>
    BY <1>0, EncodedAppend
  <2>2. <<>> \in Seq(V) /\ <<>> \in Seq(T) /\ Len(<<>>) = 0
    BY EmptySeq
  <2>3. Closed(<<>>)
    BY <2>2 DEF Closed
  <2>4. DecodeUrl(<<>>) = <<>>
    <3>1. Len(Decodings(<<>>)) = 0 /\ Decodings(<<>>) \in Seq(Seq(Made(T)))
      BY <2>2, DecodingsAre
    <3>2. Decodings(<<>>) = <<>>
      BY <3>1, EmptySeq
    <3>. QED
      BY <2>2, <3>2, DecodingsAre, FlattenEmpty
  <2>. QED
    BY <2>1, <2>2, <2>3, <2>4
<1>2. ASSUME NEW s \in Seq(V), NEW c \in V, s \in S PROVE Append(s, c) \in S
  <2>1. PICK x \in Seq(T) : x = Encoded(s, chars) /\ Closed(x) /\ DecodeUrl(x) = s
    BY <1>2
  <2>2. PICK t : t = Append(s, c)
    OBVIOUS
  <2>3. t \in Seq(V) /\ t = s \o <<c>>
    <3>1. t \in Seq(V)
      BY <2>2, AppendProperties
    <3>2. s \o <<c>> = Append(s, c)
      BY ThreeSigns
    <3>. QED
      BY <2>2, <3>1, <3>2
  <2>4. c \in T /\ s \in Seq(T)
    BY <1>0, SeqWidens
  <2>5. PICK y : y = Encoded(t, chars) /\ y = x \o Sign(c, chars)
    <3>1. Encoded(Append(s, c), chars) = Encoded(s, chars) \o Sign(c, chars)
      BY ONLY <1>0, <2>4, chars \in SUBSET Chars, EncodedAppend
    <3>. QED
      BY <2>1, <2>2, <3>1
  <2>6. Closed(y) /\ DecodeUrl(y) = s \o <<c>>
    <3>1. CASE c \in chars
      <4>1. PICK g \in HexDigits, h \in HexDigits :
              Code[c] = <<g, h>> /\ Sign(c, chars) = <<"%", g, h>>
        BY ONLY <1>0, <2>4, <3>1, chars \in SUBSET Chars, SignIs
      <4>2. g \in T /\ h \in T /\ "%" \in T
        BY <1>0
      <4>3. x \o <<"%", g, h>> = Escaping(x, g, h)
        BY <4>2, ThreeSigns DEF Escaping
      <4>4. y = Escaping(x, g, h)
        BY <2>5, <4>1, <4>3
      <4>5. c \in Chars
        BY <3>1
      <4>6. /\ DecodeUrl(Escaping(x, g, h)) = DecodeUrl(x) \o <<c>>
            /\ Closed(Escaping(x, g, h))
        BY ONLY <1>0, <2>1, <4>1, <4>5, DecodesEscape
      <4>. QED
        BY <2>1, <4>4, <4>6
    <3>2. CASE c \notin chars
      <4>1. Sign(c, chars) = <<c>>
        BY <3>2 DEF Sign
      <4>2. x \o <<c>> = Append(x, c)
        BY <2>4, ThreeSigns
      <4>3. c # "%" /\ c # "+"
        BY <3>2
      <4>4. DecodeUrl(Append(x, c)) = DecodeUrl(x) \o <<c>> /\ Closed(Append(x, c))
        BY ONLY <2>1, <2>4, <4>3, DecodesKept
      <4>. QED
        BY <2>1, <2>5, <4>1, <4>2, <4>4
    <3>. QED
      BY <3>1, <3>2
  <2>7. y \in Seq(T)
    <3>1. t \in Seq(T)
      BY <1>0, <2>3, SeqWidens
    <3>. QED
      BY <1>0, <2>5, <3>1, EncodedAppend
  <2>. QED
    BY <2>2, <2>3, <2>5, <2>6, <2>7
<1>. HIDE DEF S
<1>3. Seq(V) \subseteq S
  BY ONLY <1>1, <1>2, SeqInduction
<1>. QED
  BY <1>3 DEF S

\* Every value: whatever it is made of, it comes out of its encoding again.
THEOREM EncodingSurvives ==
    ASSUME NEW v \in Seq(Chars)
    PROVE  DecodeUrl(EncodeQueryParam(v)) = v
<1>1. \A c \in Chars : c \in Chars \ Unreserved \/ c \notin {"%", "+"}
  BY CharsAssumption
<1>2. Chars \ Unreserved \in SUBSET Chars
  OBVIOUS
<1>. QED
  BY ONLY <1>1, <1>2, v \in Seq(Chars), DecodesEncoded DEF EncodeQueryParam

-----------------------------------------------------------------------------
(* Encoding what is put together, and what has been encoded.               *)

LEMMA AppendedIs ==
    ASSUME NEW T, NEW s \in Seq(T), NEW t \in Seq(T), NEW c \in T
    PROVE  /\ Append(s, c) = s \o <<c>> /\ <<c>> \in Seq(T)
           /\ s \o Append(t, c) = Append(s \o t, c) /\ s \o t \in Seq(T)
<1>1. <<c>> \in Seq(T)
  OBVIOUS
<1>2. s \o t \in Seq(T)
  BY ConcatProperties
<1>3. Append(s, c) = s \o <<c>> /\ Append(t, c) = t \o <<c>> /\ Append(s \o t, c) = (s \o t) \o <<c>>
  BY <1>2, ThreeSigns
<1>4. s \o (t \o <<c>>) = (s \o t) \o <<c>>
  BY <1>1, ConcatAssociative
<1>. QED
  BY ONLY <1>1, <1>2, <1>3, <1>4

LEMMA EncodedConcat ==
    ASSUME NEW T, HexDigits \subseteq T, "%" \in T, NEW chars \in SUBSET Chars,
           NEW s \in Seq(T), NEW t \in Seq(T)
    PROVE  Encoded(s \o t, chars) = Encoded(s, chars) \o Encoded(t, chars)
<1>. DEFINE S == {u \in Seq(T) : Encoded(s \o u, chars) = Encoded(s, chars) \o Encoded(u, chars)}
<1>0. /\ Encoded(<<>>, chars) = <<>>
      /\ \A u \in Seq(T) : Encoded(u, chars) \in Seq(T)
      /\ \A u \in Seq(T), c \in T :
           Encoded(Append(u, c), chars) = Encoded(u, chars) \o Sign(c, chars)
      /\ \A c \in T : Sign(c, chars) \in Seq(T)
  <2>1. HexDigits \subseteq T /\ "%" \in T
    OBVIOUS
  <2>2. \A c \in T : Sign(c, chars) \in Seq(T)
    BY ONLY <2>1, chars \in SUBSET Chars, SignIs
  <2>. QED
    BY ONLY <2>1, <2>2, chars \in SUBSET Chars, EncodedAppend
<1>1. <<>> \in S
  <2>1. <<>> \in Seq(T) /\ s \o <<>> = s /\ Encoded(s, chars) \o <<>> = Encoded(s, chars)
    BY <1>0, ConcatEmptySeq
  <2>. QED
    BY <1>0, <2>1
<1>2. ASSUME NEW u \in Seq(T), NEW c \in T, u \in S PROVE Append(u, c) \in S
  <2>1. PICK a \in Seq(T), b \in Seq(T), e \in Seq(T) :
          a = Encoded(s, chars) /\ b = Encoded(u, chars) /\ e = Sign(c, chars)
    BY <1>0
  <2>2. Encoded(s \o u, chars) = a \o b
    BY <1>2, <2>1
  <2>0. PICK su : su = s \o u
    OBVIOUS
  <2>3. su \in Seq(T) /\ s \o Append(u, c) = Append(su, c)
    BY <2>0, AppendedIs
  <2>4. Encoded(Append(su, c), chars) = (a \o b) \o e /\ Encoded(Append(u, c), chars) = b \o e
    <3>1. Encoded(Append(su, c), chars) = Encoded(su, chars) \o e
      BY ONLY <1>0, <2>1, <2>3, c \in T
    <3>2. Encoded(Append(u, c), chars) = b \o e
      BY ONLY <1>0, <2>1, u \in Seq(T), c \in T
    <3>. QED
      BY <2>0, <2>2, <3>1, <3>2
  <2>5. (a \o b) \o e = a \o (b \o e)
    BY ONLY a \in Seq(T), b \in Seq(T), e \in Seq(T), ConcatAssociative
  <2>6. Append(u, c) \in Seq(T)
    BY AppendProperties
  <2>. QED
    BY <2>1, <2>3, <2>4, <2>5, <2>6
<1>. HIDE DEF S
<1>3. Seq(T) \subseteq S
  BY ONLY <1>1, <1>2, SeqInduction
<1>. QED
  BY <1>3 DEF S

\* One character; texts of which nothing is encoded.
LEMMA EncodedPlain ==
    ASSUME NEW W, NEW chars \in SUBSET Chars
    PROVE  /\ \A c \in W : Encoded(<<c>>, chars) = Sign(c, chars)
           /\ W \cap chars = {} => \A s \in Seq(W) : Encoded(s, chars) = s
<1>. DEFINE T == W \cup HexDigits \cup {"%"}
            S == {s \in Seq(W) : Encoded(s, chars) = s}
<1>0. HexDigits \subseteq T /\ "%" \in T /\ W \subseteq T
  OBVIOUS
<1>. HIDE DEF T
<1>1. /\ Encoded(<<>>, chars) = <<>>
      /\ \A u \in Seq(T), c \in T :
           Encoded(Append(u, c), chars) = Encoded(u, chars) \o Sign(c, chars)
  BY ONLY <1>0, chars \in SUBSET Chars, EncodedAppend
<1>2. ASSUME NEW c \in W PROVE Encoded(<<c>>, chars) = Sign(c, chars)
  <2>1. <<>> \in Seq(T) /\ c \in T /\ Append(<<>>, c) = <<c>>
    BY <1>0
  <2>2. Sign(c, chars) \in Seq(T)
    BY ONLY <1>0, <2>1, chars \in SUBSET Chars, SignIs
  <2>3. <<>> \o Sign(c, chars) = Sign(c, chars)
    BY ONLY <2>2, ConcatEmptySeq
  <2>. QED
    BY ONLY <1>1, <2>1, <2>3
<1>3. ASSUME W \cap chars = {} PROVE Seq(W) \subseteq S
  <2>1. <<>> \in S
    BY <1>1
  <2>2. ASSUME NEW s \in Seq(W), NEW c \in W, s \in S PROVE Append(s, c) \in S
    <3>1. s \in Seq(T) /\ c \in T
      BY <1>0, SeqWidens
    <3>2. Sign(c, chars) = <<c>>
      BY <1>3 DEF Sign
    <3>3. Encoded(Append(s, c), chars) = s \o <<c>>
      BY <1>1, <2>2, <3>1, <3>2
    <3>4. Append(s, c) = s \o <<c>> /\ Append(s, c) \in Seq(W)
      BY AppendedIs, AppendProperties
    <3>. QED
      BY <3>3, <3>4
  <2>. HIDE DEF S
  <2>. QED
    BY ONLY <2>1, <2>2, SeqInduction
<1>. QED
  BY <1>2, <1>3 DEF S

\* Of what an encoded text is made, and how it begins.
LEMMA EncodedSigns ==
    ASSUME NEW V, NEW chars \in SUBSET Chars, NEW v \in Seq(V)
    PROVE  /\ Encoded(v, chars) \in Seq((V \ chars) \cup HexDigits \cup {"%"})
           /\ v # <<>> => /\ Encoded(v, chars) # <<>>
                          /\ Encoded(v, chars)[1] = IF v[1] \in chars THEN "%" ELSE v[1]
<1>. DEFINE T == V \cup HexDigits \cup {"%"}
            E == (V \ chars) \cup HexDigits \cup {"%"}
            Begun(s) == s # <<>> => /\ Encoded(s, chars) # <<>>
                                    /\ Encoded(s, chars)[1] = IF s[1] \in chars THEN "%" ELSE s[1]
            S == {s \in Seq(V) : Encoded(s, chars) \in Seq(E) /\ Begun(s)}
<1>0. /\ HexDigits \subseteq T /\ "%" \in T /\ V \subseteq T
      /\ HexDigits \subseteq E /\ "%" \in E /\ V \ chars \subseteq E
  OBVIOUS
<1>. HIDE DEF T, E
<1>1. /\ Encoded(<<>>, chars) = <<>>
      /\ \A u \in Seq(T), c \in T :
           Encoded(Append(u, c), chars) = Encoded(u, chars) \o Sign(c, chars)
  BY ONLY <1>0, chars \in SUBSET Chars, EncodedAppend
<1>2. <<>> \in S
  <2>1. <<>> \in Seq(V) /\ <<>> \in Seq(E)
    OBVIOUS
  <2>2. Begun(<<>>)
    OBVIOUS
  <2>. HIDE DEF Begun
  <2>. QED
    BY <1>1, <2>1, <2>2
<1>3. ASSUME NEW s \in Seq(V), NEW c \in V, s \in S PROVE Append(s, c) \in S
  <2>1. s \in Seq(T) /\ c \in T
    BY <1>0, SeqWidens
  <2>2. Sign(c, chars) \in Seq(E) /\ Len(Sign(c, chars)) >= 1
        /\ Sign(c, chars)[1] = IF c \in chars THEN "%" ELSE c
    <3>1. CASE c \in chars
      <4>0. HexDigits \subseteq T /\ "%" \in T /\ c \in T
        BY ONLY <1>0, <2>1
      <4>1. PICK g \in HexDigits, h \in HexDigits :
              Code[c] = <<g, h>> /\ Sign(c, chars) = <<"%", g, h>>
        <5>1. Sign(c, chars) \in Seq(T) /\ (c \in chars =>
                 \E g \in HexDigits, h \in HexDigits :
                    Code[c] = <<g, h>> /\ Sign(c, chars) = <<"%", g, h>>)
          BY ONLY <4>0, chars \in SUBSET Chars, SignIs
        <5>. QED
          BY ONLY <3>1, <5>1, Zenon
      <4>2. <<"%", g, h>> \in Seq(E) /\ Len(<<"%", g, h>>) = 3 /\ <<"%", g, h>>[1] = "%"
        <5>1. "%" \in E /\ g \in E /\ h \in E
          BY ONLY <1>0, g \in HexDigits, h \in HexDigits
        <5>. QED
          BY ONLY <5>1
      <4>. QED
        BY <3>1, <4>1, <4>2
    <3>2. CASE c \notin chars
      <4>1. Sign(c, chars) = <<c>>
        BY <3>2 DEF Sign
      <4>2. c \in E
        BY <1>0, <3>2
      <4>3. <<c>> \in Seq(E) /\ Len(<<c>>) = 1 /\ <<c>>[1] = c
        BY <4>2
      <4>. QED
        BY <3>2, <4>1, <4>3
    <3>. QED
      BY <3>1, <3>2
  <2>3. PICK a \in Seq(E), e \in Seq(E) : a = Encoded(s, chars) /\ e = Sign(c, chars)
    BY <1>3, <2>2
  <2>4. PICK t : t = Append(s, c)
    OBVIOUS
  <2>5. Encoded(t, chars) = a \o e
    BY <1>1, <2>1, <2>3, <2>4
  <2>6. t \in Seq(V) /\ Len(t) = Len(s) + 1 /\ t[Len(s) + 1] = c /\ \A i \in 1 .. Len(s) : t[i] = s[i]
    BY <2>4, AppendProperties
  <2>7. /\ a \o e \in Seq(E) /\ Len(a \o e) = Len(a) + Len(e)
        /\ \A i \in 1 .. Len(a) + Len(e) : (a \o e)[i] = IF i =< Len(a) THEN a[i] ELSE e[i - Len(a)]
    BY ConcatProperties
  <2>8. Len(e) >= 1 /\ e[1] = IF c \in chars THEN "%" ELSE c
    BY <2>2, <2>3
  <2>9. Len(a) \in Nat /\ Len(e) \in Nat /\ Len(s) \in Nat
    BY LenProperties
  <2>10. a \o e # <<>>
    <3>1. Len(a \o e) # 0
      BY ONLY <2>7, <2>8, <2>9
    <3>. QED
      BY <3>1, EmptySeq
  <2>11. (a \o e)[1] = IF t[1] \in chars THEN "%" ELSE t[1]
    <3>1. CASE s = <<>>
      <4>1. a = <<>> /\ Len(a) = 0 /\ Len(s) = 0
        BY <1>1, <2>3, <3>1, EmptySeq
      <4>2. t[1] = c
        BY <2>6, <4>1
      <4>3. (a \o e)[1] = e[1]
        BY ONLY <2>7, <2>8, <2>9, <4>1
      <4>. QED
        BY <2>8, <4>2, <4>3
    <3>2. CASE s # <<>>
      <4>1. a # <<>> /\ a[1] = IF s[1] \in chars THEN "%" ELSE s[1]
        BY <1>3, <2>3, <3>2
      <4>2. Len(a) # 0 /\ Len(s) # 0
        BY <3>2, <4>1, EmptySeq
      <4>3. (a \o e)[1] = a[1]
        BY ONLY <2>7, <2>8, <2>9, <4>2
      <4>4. t[1] = s[1]
        BY ONLY <2>6, <2>9, <4>2
      <4>. QED
        BY <4>1, <4>3, <4>4
    <3>. QED
      BY <3>1, <3>2
  <2>12. Begun(t)
    BY <2>5, <2>10, <2>11
  <2>. HIDE DEF Begun
  <2>. QED
    BY <2>4, <2>5, <2>6, <2>7, <2>12
<1>. HIDE DEF S, Begun
<1>4. Seq(V) \subseteq S
  BY ONLY <1>2, <1>3, SeqInduction
<1>. QED
  BY <1>4 DEF S, Begun, E

\* encode_url of a text without a NUL.
UrlEncoded(s) == Encoded(s, Escaped)

LEMMA EncodedTwice ==
    ASSUME NEW v \in Seq(Chars), NEW chars \in SUBSET Chars
    PROVE  UrlEncoded(Encoded(v, chars)) = Encoded(v, chars \cup Escaped)
<1>. DEFINE T == Chars \cup HexDigits \cup {"%"}
            both == chars \cup Escaped
            S == {s \in Seq(Chars) : Encoded(Encoded(s, chars), Escaped) = Encoded(s, both)}
<1>0. HexDigits \subseteq T /\ "%" \in T /\ Chars \subseteq T
  OBVIOUS
<1>1. Escaped \in SUBSET Chars /\ both \in SUBSET Chars
  BY CharsAssumption
<1>. HIDE DEF T
<1>2. \A cs \in SUBSET Chars :
        /\ Encoded(<<>>, cs) = <<>>
        /\ \A u \in Seq(T) : Encoded(u, cs) \in Seq(T)
        /\ \A u \in Seq(T), c \in T : Encoded(Append(u, c), cs) = Encoded(u, cs) \o Sign(c, cs)
  BY ONLY <1>0, EncodedAppend
<1>3. ASSUME NEW c \in Chars PROVE Encoded(Sign(c, chars), Escaped) = Sign(c, both)
  <2>1. CASE c \in chars
    <3>1. PICK g \in HexDigits, h \in HexDigits : Sign(c, chars) = <<"%", g, h>>
      BY ONLY <1>0, <2>1, c \in Chars, chars \in SUBSET Chars, SignIs
    <3>2. <<"%", g, h>> \in Seq(HexDigits \cup {"%"})
      OBVIOUS
    <3>3. (HexDigits \cup {"%"}) \cap Escaped = {}
      BY CharsAssumption
    <3>4. Encoded(<<"%", g, h>>, Escaped) = <<"%", g, h>>
      BY ONLY <1>1, <3>2, <3>3, EncodedPlain
    <3>5. Sign(c, both) = Sign(c, chars)
      BY <2>1 DEF Sign
    <3>. QED
      BY <3>1, <3>4, <3>5
  <2>2. CASE c \notin chars
    <3>1. Sign(c, chars) = <<c>>
      BY <2>2 DEF Sign
    <3>2. Encoded(<<c>>, Escaped) = Sign(c, Escaped)
      BY ONLY <1>1, c \in Chars, EncodedPlain
    <3>3. Sign(c, both) = Sign(c, Escaped)
      BY <2>2 DEF Sign
    <3>. QED
      BY <3>1, <3>2, <3>3
  <2>. QED
    BY <2>1, <2>2
<1>. HIDE DEF both
<1>4. <<>> \in S
  BY <1>1, <1>2
<1>5. ASSUME NEW s \in Seq(Chars), NEW c \in Chars, s \in S PROVE Append(s, c) \in S
  <2>1. s \in Seq(T) /\ c \in T
    BY <1>0, SeqWidens
  <2>2. PICK x \in Seq(T), e \in Seq(T) : x = Encoded(s, chars) /\ e = Sign(c, chars)
    <3>1. Sign(c, chars) \in Seq(T)
      BY ONLY <1>0, <2>1, chars \in SUBSET Chars, SignIs
    <3>. QED
      BY <1>2, <2>1, <3>1
  <2>3. Encoded(Append(s, c), chars) = x \o e
    BY <1>2, <2>1, <2>2
  <2>4. Encoded(x \o e, Escaped) = Encoded(x, Escaped) \o Encoded(e, Escaped)
    BY ONLY <1>0, <1>1, x \in Seq(T), e \in Seq(T), EncodedConcat
  <2>5. Encoded(x, Escaped) = Encoded(s, both) /\ Encoded(e, Escaped) = Sign(c, both)
    BY <1>3, <1>5, <2>2
  <2>6. Encoded(Append(s, c), both) = Encoded(s, both) \o Sign(c, both)
    BY <1>1, <1>2, <2>1
  <2>7. Append(s, c) \in Seq(Chars)
    BY AppendProperties
  <2>. QED
    BY <2>3, <2>4, <2>5, <2>6, <2>7
<1>. HIDE DEF S
<1>6. Seq(Chars) \subseteq S
  BY ONLY <1>4, <1>5, SeqInduction
<1>. QED
  BY <1>6 DEF S, both, UrlEncoded

-----------------------------------------------------------------------------
(* Texts divided and trimmed.                                              *)

LEMMA MinimumIs ==
    ASSUME NEW S \in SUBSET Int, NEW k \in S, \A j \in S : k =< j
    PROVE  Min(S) = k
<1>1. \A x \in S : (\A y \in S : x =< y) => x = k
  OBVIOUS
<1>. QED
  BY <1>1 DEF Min

LEMMA MaximumIs ==
    ASSUME NEW S \in SUBSET Int, NEW k \in S, \A j \in S : j =< k
    PROVE  Max(S) = k
<1>1. \A x \in S : (\A y \in S : x >= y) => x = k
  OBVIOUS
<1>. QED
  BY <1>1 DEF Max

\* Where by stands in s, and the end.
Places(s, by) == {i \in DOMAIN s : s[i] = by} \cup {Len(s) + 1}

LEMMA PlacesAre ==
    ASSUME NEW T, NEW s \in Seq(T), NEW by, NEW k \in 1 .. Len(s) + 1,
           \A i \in 1 .. Len(s) : i < k => s[i] # by, k =< Len(s) => s[k] = by
    PROVE  /\ Min(Places(s, by)) = k
           /\ Divided(s, by) = <<SubSeq(s, 1, k - 1), SubSeq(s, k + 1, Len(s))>>
<1>1. PICK n \in Nat : n = Len(s) /\ DOMAIN s = 1 .. n
  BY LenProperties
<1>2. PICK S : S = Places(s, by)
  OBVIOUS
<1>0. S = {i \in 1 .. n : s[i] = by} \cup {n + 1}
  BY <1>1, <1>2, Zenon DEF Places
<1>3. \A i : i \in S <=> (i = n + 1 \/ (i \in 1 .. n /\ s[i] = by))
  BY <1>0
<1>4. k \in S
  <2>1. k # n + 1 => k \in 1 .. n /\ k =< Len(s)
    BY <1>1
  <2>. QED
    BY <1>3, <2>1
<1>5. S \in SUBSET Int /\ \A i \in S : k =< i
  BY <1>1, <1>3
<1>6. Min(S) = k
  BY ONLY <1>4, <1>5, MinimumIs
<1>7. Divided(s, by) = <<SubSeq(s, 1, Min(S) - 1), SubSeq(s, Min(S) + 1, Len(s))>>
  BY <1>2, Zenon DEF Divided, Places
<1>. QED
  BY <1>2, <1>6, <1>7

\* Where a text is divided.
LEMMA FirstPlace ==
    ASSUME NEW T, NEW s \in Seq(T), NEW by
    PROVE  \E k \in 1 .. Len(s) + 1 : /\ \A i \in 1 .. Len(s) : i < k => s[i] # by
                                      /\ k =< Len(s) => s[k] = by
<1>1. PICK n \in Nat : n = Len(s)
  BY LenProperties
<1>. DEFINE P == {i \in Nat : (i \in 1 .. n /\ s[i] = by) \/ i = n + 1}
<1>2. P \in SUBSET Nat /\ n + 1 \in P
  OBVIOUS
<1>3. \A i : i \in P <=> (i \in 1 .. n /\ s[i] = by) \/ i = n + 1
  OBVIOUS
<1>. HIDE DEF P
<1>4. PICK k \in P : \A i \in P : k =< i
  BY ONLY <1>2, Least
<1>5. k \in 1 .. n + 1 /\ (k =< n => s[k] = by)
  BY <1>3, <1>4
<1>6. ASSUME NEW i \in 1 .. n, i < k PROVE s[i] # by
  BY <1>3, <1>4, <1>6
<1>. QED
  BY <1>1, <1>5, <1>6

LEMMA DividedIs ==
    ASSUME NEW T, NEW by \in T, NEW a \in Seq(T \ {by}), NEW b \in Seq(T)
    PROVE  /\ Divided(a, by) = <<a, <<>>>>
           /\ Divided(a \o (<<by>> \o b), by) = <<a, b>>
<1>n. PICK n \in Nat, m \in Nat : n = Len(a) /\ m = Len(b)
  BY LenProperties
<1>1. PICK c : n = Len(a) /\ m = Len(b) /\ c = <<by>> \o b
  BY <1>n
<1>2. \A i \in 1 .. n : a[i] # by
  BY <1>1, ElementOfSeq
<1>3. a \in Seq(T)
  <2>1. T \ {by} \subseteq T
    OBVIOUS
  <2>. QED
    BY <2>1, SeqWidens
<1>4. Divided(a, by) = <<a, <<>>>>
  <2>1. n + 1 \in 1 .. Len(a) + 1 /\ ~(n + 1 =< Len(a))
    BY <1>1
  <2>2. \A i \in 1 .. Len(a) : i < n + 1 => a[i] # by
    BY <1>1, <1>2
  <2>3. Divided(a, by) = <<SubSeq(a, 1, (n + 1) - 1), SubSeq(a, (n + 1) + 1, Len(a))>>
    BY ONLY <1>3, <2>1, <2>2, PlacesAre
  <2>4. SubSeq(a, 1, Len(a)) = a
    BY <1>3, SubSeqFull
  <2>5. (n + 1) - 1 = Len(a) /\ (n + 1) + 1 > Len(a) /\ (n + 1) + 1 \in Int /\ Len(a) \in Int
    BY <1>1
  <2>6. SubSeq(a, (n + 1) + 1, Len(a)) = <<>>
    BY ONLY <2>5, SubSeqEmpty
  <2>. QED
    BY <2>3, <2>4, <2>5, <2>6
<1>5. c \in Seq(T) /\ Len(c) = m + 1 /\ c[1] = by
  <2>1. <<by>> \in Seq(T) /\ Len(<<by>>) = 1 /\ <<by>>[1] = by
    OBVIOUS
  <2>. QED
    BY <1>1, <2>1, ConcatProperties
<1>6. PICK s : s = a \o c
  OBVIOUS
<1>7. /\ s \in Seq(T) /\ Len(s) = n + (m + 1)
      /\ \A i \in 1 .. n + (m + 1) : s[i] = IF i =< n THEN a[i] ELSE c[i - n]
  BY <1>1, <1>3, <1>5, <1>6, ConcatProperties
<1>8. Divided(s, by) = <<SubSeq(s, 1, (n + 1) - 1), SubSeq(s, (n + 1) + 1, Len(s))>>
  <2>1. n + 1 \in 1 .. Len(s) + 1
    BY <1>7
  <2>2. s[n + 1] = by
    <3>1. n + 1 \in 1 .. n + (m + 1) /\ ~(n + 1 =< n) /\ (n + 1) - n = 1
      OBVIOUS
    <3>. QED
      BY <1>5, <1>7, <3>1
  <2>3. \A i \in 1 .. Len(s) : i < n + 1 => s[i] # by
    <3>1. \A i \in 1 .. n + (m + 1) : i < n + 1 => i \in 1 .. n /\ i =< n
      OBVIOUS
    <3>. QED
      BY <1>2, <1>7, <3>1
  <2>. QED
    BY ONLY <1>7, <2>1, <2>2, <2>3, PlacesAre
<1>9. SubSeq(s, 1, (n + 1) - 1) = a
  <2>0. PICK p, q : p = SubSeq(s, 1, n) /\ q = SubSeq(s, n + 1, Len(s))
    OBVIOUS
  <2>1. n \in 0 .. Len(s)
    BY <1>7
  <2>2. p \in Seq(T) /\ q \in Seq(T) /\ Len(p) = n /\ p \o q = s
    BY ONLY <1>7, <2>0, <2>1, Cut
  <2>3. p \o q = a \o c /\ Len(p) = Len(a)
    BY <1>1, <1>6, <2>2
  <2>4. p = a
    BY ONLY <1>3, <1>5, <2>2, <2>3, SplitAt
  <2>5. (n + 1) - 1 = n
    OBVIOUS
  <2>. QED
    BY <2>0, <2>4, <2>5
<1>10. SubSeq(s, (n + 1) + 1, Len(s)) = b
  <2>0. PICK p, q, d : p = SubSeq(s, 1, n + 1) /\ q = SubSeq(s, (n + 1) + 1, Len(s)) /\ d = a \o <<by>>
    OBVIOUS
  <2>1. n + 1 \in 0 .. Len(s)
    BY <1>7
  <2>2. p \in Seq(T) /\ q \in Seq(T) /\ Len(p) = n + 1 /\ p \o q = s
    BY ONLY <1>7, <2>0, <2>1, Cut
  <2>3. <<by>> \in Seq(T) /\ Len(<<by>>) = 1
    OBVIOUS
  <2>4. d \in Seq(T) /\ Len(d) = n + 1
    BY ONLY <1>1, <1>3, <2>0, <2>3, ConcatProperties
  <2>5. d \o b = a \o (<<by>> \o b)
    BY ONLY <1>3, <2>0, <2>3, b \in Seq(T), ConcatAssociative
  <2>6. p \o q = d \o b /\ Len(p) = Len(d)
    BY <1>1, <1>6, <2>2, <2>4, <2>5
  <2>7. q = b
    BY ONLY <2>2, <2>4, <2>6, b \in Seq(T), SplitAt
  <2>. QED
    BY <2>0, <2>7
<1>. QED
  BY <1>1, <1>4, <1>6, <1>8, <1>9, <1>10

\* A text is divided where it was, whatever comes behind the next separator.
LEMMA DividedFront ==
    ASSUME NEW T, NEW by \in T, NEW u \in Seq(T), NEW c \in Seq(T), Len(c) >= 1, c[1] = by
    PROVE  Divided(u \o c, by)[1] = Divided(u, by)[1]
<1>n. PICK n \in Nat, m \in Nat : n = Len(u) /\ m = Len(c)
  BY LenProperties
<1>1. PICK s : n = Len(u) /\ m = Len(c) /\ s = u \o c
  BY <1>n
<1>2. /\ s \in Seq(T) /\ Len(s) = n + m
      /\ \A i \in 1 .. n + m : s[i] = IF i =< n THEN u[i] ELSE c[i - n]
  BY <1>1, ConcatProperties
<1>3. PICK k \in 1 .. Len(u) + 1 : /\ \A i \in 1 .. Len(u) : i < k => u[i] # by
                                   /\ k =< Len(u) => u[k] = by
  BY ONLY u \in Seq(T), FirstPlace
<1>4. k \in 1 .. n + 1 /\ k \in 1 .. Len(s) + 1
  BY <1>1, <1>2, <1>3
<1>5. s[k] = by
  <2>1. k \in 1 .. n + m
    BY <1>1, <1>4
  <2>2. CASE k =< n
    BY <1>1, <1>2, <1>3, <2>1, <2>2
  <2>3. CASE ~(k =< n)
    <3>1. k - n = 1
      BY <1>4, <2>3
    <3>. QED
      BY <1>2, <2>1, <2>3, <3>1
  <2>. QED
    BY <2>2, <2>3
<1>6. ASSUME NEW i \in 1 .. Len(s), i < k PROVE s[i] # by
  <2>1. i \in 1 .. n + m /\ i \in 1 .. n /\ i =< n
    BY <1>2, <1>4, <1>6
  <2>. QED
    BY <1>1, <1>2, <1>3, <1>6, <2>1
<1>7. Divided(u, by)[1] = SubSeq(u, 1, k - 1)
  <2>1. Divided(u, by) = <<SubSeq(u, 1, k - 1), SubSeq(u, k + 1, Len(u))>>
    BY ONLY <1>3, u \in Seq(T), PlacesAre
  <2>. QED
    BY <2>1
<1>8. Divided(s, by)[1] = SubSeq(s, 1, k - 1)
  <2>1. Divided(s, by) = <<SubSeq(s, 1, k - 1), SubSeq(s, k + 1, Len(s))>>
    BY ONLY <1>2, <1>4, <1>5, <1>6, PlacesAre
  <2>. QED
    BY <2>1
<1>9. SubSeq(u, 1, k - 1) = SubSeq(s, 1, k - 1)
  <2>0. PICK j \in Nat : j = k - 1
    BY <1>4
  <2>1. PICK p, q : p = SubSeq(u, 1, j) /\ q = SubSeq(s, 1, j)
    OBVIOUS
  <2>2. j \in 0 .. Len(u) /\ j \in 0 .. Len(s) /\ \A i \in 1 .. j : i \in 1 .. n + m /\ i =< n
    BY <1>1, <1>2, <1>4, <2>0
  <2>3. p \in Seq(T) /\ Len(p) = j /\ \A i \in 1 .. j : p[i] = u[i]
    BY ONLY <2>1, <2>2, u \in Seq(T), Cut
  <2>4. q \in Seq(T) /\ Len(q) = j /\ \A i \in 1 .. j : q[i] = s[i]
    BY ONLY <1>2, <2>1, <2>2, Cut
  <2>5. \A i \in 1 .. j : p[i] = q[i]
    BY ONLY <1>2, <2>2, <2>3, <2>4
  <2>6. p = q
    BY <2>3, <2>4, <2>5, SeqEqual
  <2>. QED
    BY <2>0, <2>1, <2>6
<1>. QED
  BY <1>1, <1>7, <1>8, <1>9

\* What neither begins nor ends with a blank is not trimmed.
LEMMA TrimmedIs ==
    ASSUME NEW T, NEW s \in Seq(T)
    PROVE  /\ s # <<>> /\ s[1] \notin Blanks /\ s[Len(s)] \notin Blanks => Trimmed(s) = s
           /\ s = <<>> => Trimmed(s) = <<>>
<1>1. PICK n \in Nat : n = Len(s) /\ DOMAIN s = 1 .. n
  BY LenProperties
<1>2. PICK S : S = {i \in DOMAIN s : s[i] \notin Blanks}
  OBVIOUS
<1>3. Trimmed(s) = IF S = {} THEN <<>> ELSE SubSeq(s, Min(S), Max(S))
  BY <1>2, Zenon DEF Trimmed
<1>4. CASE s = <<>>
  <2>1. S = {}
    BY <1>2, <1>4
  <2>. QED
    BY <1>3, <1>4, <2>1
<1>5. CASE s # <<>> /\ s[1] \notin Blanks /\ s[Len(s)] \notin Blanks
  <2>1. n # 0
    BY <1>1, <1>5, EmptySeq
  <2>2. 1 \in S /\ n \in S /\ S \in SUBSET Int /\ \A i \in S : 1 =< i /\ i =< n
    BY <1>1, <1>2, <1>5, <2>1
  <2>3. Min(S) = 1 /\ Max(S) = n
    BY ONLY <2>2, MinimumIs, MaximumIs
  <2>4. SubSeq(s, 1, Len(s)) = s
    BY SubSeqFull
  <2>. QED
    BY <1>1, <1>3, <1>5, <2>2, <2>3, <2>4
<1>. QED
  BY <1>4, <1>5

-----------------------------------------------------------------------------
(* The text of a parameter.                                                *)

\* In a key the characters X are encoded, in a value Y are.
Text(p, X, Y) == Encoded(p[1], X) \o (<<"=">> \o Encoded(p[2], Y))

KeyChars(X) == {c \in Chars : c \notin {"&", "=", "#", "%"} /\ (c = "+" => c \in X)}

\* The parameters that survive.
Surviving(X) == {p \in Seq(KeyChars(X)) \X Seq(Chars) :
                    p[1] # <<>> /\ (p[1][1] \in Blanks => p[1][1] \in X)}

TextChars == (Chars \cup HexDigits \cup {"%", "="}) \ {"&", "#"}

AreEncoded(X, Y) == X \in SUBSET Chars /\ Y \in SUBSET Chars /\ Chars \ Unreserved \subseteq Y

LEMMA TextIs ==
    ASSUME NEW X, NEW Y, AreEncoded(X, Y), NEW p \in Surviving(X)
    PROVE  /\ Text(p, X, Y) \in Seq(TextChars) /\ Text(p, X, Y) # <<>>
           /\ Trimmed(Text(p, X, Y)) = Text(p, X, Y)
           /\ Divided(Text(p, X, Y), "=") = <<Encoded(p[1], X), Encoded(p[2], Y)>>
           /\ Encoded(p[1], X) # <<>>
           /\ DecodeUrl(Encoded(p[1], X)) = p[1] /\ DecodeUrl(Encoded(p[2], Y)) = p[2]
<1>1. PICK key \in Seq(KeyChars(X)), value \in Seq(Chars) :
        /\ p = <<key, value>> /\ key # <<>> /\ (key[1] \in Blanks => key[1] \in X)
  BY DEF Surviving
<1>2. X \in SUBSET Chars /\ Y \in SUBSET Chars /\ Chars \ Unreserved \subseteq Y
  BY DEF AreEncoded
<1>3. PICK a, b : a = Encoded(key, X) /\ b = Encoded(value, Y)
  OBVIOUS
<1>4. /\ a \in Seq((KeyChars(X) \ X) \cup HexDigits \cup {"%"})
      /\ a # <<>> /\ a[1] = IF key[1] \in X THEN "%" ELSE key[1]
  BY ONLY <1>1, <1>2, <1>3, EncodedSigns
<1>5. b \in Seq((Chars \ Y) \cup HexDigits \cup {"%"})
  BY ONLY <1>1, <1>2, <1>3, EncodedSigns
<1>6. /\ (KeyChars(X) \ X) \cup HexDigits \cup {"%"} \subseteq TextChars \ {"="}
      /\ (Chars \ Y) \cup HexDigits \cup {"%"} \subseteq TextChars \ Blanks
      /\ TextChars \ Blanks \subseteq TextChars /\ TextChars \ {"="} \subseteq TextChars
      /\ "=" \in TextChars
  BY <1>2, CharsAssumption DEF KeyChars, TextChars, Blanks
<1>7. a \in Seq(TextChars \ {"="}) /\ b \in Seq(TextChars \ Blanks)
  <2>1. PICK A, B, C, D :
          /\ A = (KeyChars(X) \ X) \cup HexDigits \cup {"%"} /\ C = TextChars \ {"="}
          /\ B = (Chars \ Y) \cup HexDigits \cup {"%"} /\ D = TextChars \ Blanks
    OBVIOUS
  <2>2. a \in Seq(A) /\ b \in Seq(B) /\ A \subseteq C /\ B \subseteq D
    BY ONLY <1>4, <1>5, <1>6, <2>1
  <2>3. a \in Seq(C) /\ b \in Seq(D)
    BY ONLY <2>2, SeqWidens
  <2>. QED
    BY ONLY <2>1, <2>3
<1>8. a \in Seq(TextChars) /\ b \in Seq(TextChars)
  BY ONLY <1>6, <1>7, SeqWidens
<1>9. PICK c, t : c = <<"=">> \o b /\ t = a \o c
  OBVIOUS
<1>10. PICK n \in Nat, m \in Nat : n = Len(a) /\ m = Len(b)
  BY <1>8, LenProperties
<1>11. /\ c \in Seq(TextChars) /\ Len(c) = m + 1 /\ c[1] = "="
       /\ \A i \in 2 .. m + 1 : c[i] = b[i - 1]
  <2>1. <<"=">> \in Seq(TextChars) /\ Len(<<"=">>) = 1 /\ <<"=">>[1] = "="
    BY <1>6
  <2>2. /\ c \in Seq(TextChars) /\ Len(c) = 1 + m
        /\ \A i \in 1 .. 1 + m : c[i] = IF i =< 1 THEN <<"=">>[i] ELSE b[i - 1]
    BY ONLY <1>8, <1>9, <1>10, <2>1, ConcatProperties
  <2>3. 1 \in 1 .. 1 + m /\ \A i \in 2 .. m + 1 : i \in 1 .. 1 + m /\ ~(i =< 1)
    BY <1>10
  <2>. QED
    BY ONLY <1>10, <2>1, <2>2, <2>3
<1>12. /\ t \in Seq(TextChars) /\ Len(t) = n + (m + 1)
       /\ \A i \in 1 .. n + (m + 1) : t[i] = IF i =< n THEN a[i] ELSE c[i - n]
  BY ONLY <1>8, <1>9, <1>10, <1>11, ConcatProperties
<1>13. t = Text(p, X, Y) /\ a = Encoded(p[1], X) /\ b = Encoded(p[2], Y)
  BY <1>1, <1>3, <1>9 DEF Text
<1>14. n # 0 /\ t # <<>>
  <2>1. n # 0
    BY <1>4, <1>10, EmptySeq
  <2>2. Len(t) # 0
    BY ONLY <1>10, <1>12, <2>1
  <2>. QED
    BY <2>1, <2>2, EmptySeq
<1>15. t[1] \notin Blanks
  <2>1. t[1] = a[1]
    BY <1>10, <1>12, <1>14
  <2>. QED
    BY <1>1, <1>4, <2>1 DEF Blanks
<1>16. t[Len(t)] \notin Blanks
  <2>1. t[n + (m + 1)] = c[m + 1]
    <3>1. /\ n + (m + 1) \in 1 .. n + (m + 1) /\ ~(n + (m + 1) =< n)
          /\ (n + (m + 1)) - n = m + 1
      BY <1>10
    <3>. QED
      BY ONLY <1>12, <3>1
  <2>2. CASE m = 0
    <3>1. c[m + 1] = "="
      BY <1>11, <2>2
    <3>. QED
      BY <1>12, <2>1, <3>1 DEF Blanks
  <2>3. CASE m # 0
    <3>1. m + 1 \in 2 .. m + 1 /\ (m + 1) - 1 = m /\ m \in 1 .. m
      BY <1>10, <2>3
    <3>2. c[m + 1] = b[m]
      BY <1>11, <3>1
    <3>3. b[m] \in TextChars \ Blanks
      BY <1>7, <1>10, <3>1, ElementOfSeq
    <3>. QED
      BY <1>12, <2>1, <3>2, <3>3
  <2>. QED
    BY <2>2, <2>3
<1>17. Trimmed(t) = t
  BY ONLY <1>12, <1>14, <1>15, <1>16, TrimmedIs
<1>18. Divided(t, "=") = <<a, b>>
  <2>1. "=" \in TextChars
    BY <1>6
  <2>2. a \in Seq(TextChars \ {"="}) /\ b \in Seq(TextChars)
    BY <1>7, <1>8
  <2>3. Divided(a \o (<<"=">> \o b), "=") = <<a, b>>
    BY ONLY <2>1, <2>2, DividedIs
  <2>. QED
    BY ONLY <1>9, <2>3
<1>19. DecodeUrl(a) = key
  <2>1. \A c1 \in KeyChars(X) : c1 \in X \/ c1 \notin {"%", "+"}
    BY DEF KeyChars
  <2>. QED
    BY ONLY <1>1, <1>2, <1>3, <2>1, DecodesEncoded
<1>20. DecodeUrl(b) = value
  <2>1. \A c1 \in Chars : c1 \in Y \/ c1 \notin {"%", "+"}
    BY <1>2, CharsAssumption
  <2>. QED
    BY ONLY <1>1, <1>2, <1>3, <2>1, DecodesEncoded
<1>. QED
  BY ONLY <1>1, <1>4, <1>12, <1>13, <1>14, <1>17, <1>18, <1>19, <1>20

\* Different parameters have different texts.
LEMMA TextsDiffer ==
    ASSUME NEW X, NEW Y, AreEncoded(X, Y), NEW p \in Surviving(X), NEW q \in Surviving(X)
    PROVE  Text(p, X, Y) = Text(q, X, Y) <=> p = q
<1>1. ASSUME Text(p, X, Y) = Text(q, X, Y) PROVE p = q
  <2>1. <<Encoded(p[1], X), Encoded(p[2], Y)>> = <<Encoded(q[1], X), Encoded(q[2], Y)>>
    BY <1>1, TextIs
  <2>2. p[1] = q[1] /\ p[2] = q[2]
    <3>1. Encoded(p[1], X) = Encoded(q[1], X) /\ Encoded(p[2], Y) = Encoded(q[2], Y)
      BY <2>1
    <3>. QED
      BY <3>1, TextIs
  <2>3. p = <<p[1], p[2]>> /\ q = <<q[1], q[2]>>
    BY DEF Surviving
  <2>. QED
    BY <2>2, <2>3
<1>. QED
  BY <1>1

\* Texts with the sign by between them.
GrowsBy(T, by, texts, t) ==
    /\ Joined(texts, by) \in Seq(T) /\ Joined(<<>>, by) = <<>>
    /\ Joined(Append(texts, t), by)
         = IF texts = <<>> THEN t ELSE Joined(texts, by) \o (<<by>> \o t)

LEMMA JoinedAppend ==
    ASSUME NEW T, NEW by \in T, NEW texts \in Seq(Seq(T)), NEW t \in Seq(T)
    PROVE  GrowsBy(T, by, texts, t)
<1>. DEFINE M(s) == [i \in DOMAIN s |-> IF i = 1 THEN s[i] ELSE <<by>> \o s[i]]
<1>1. \A s : Joined(s, by) = FlattenSeq(M(s))
  BY DEF Joined
<1>2. \A s \in Seq(T) : <<by>> \o s \in Seq(T)
  <2>1. <<by>> \in Seq(T)
    OBVIOUS
  <2>. QED
    BY <2>1, ConcatProperties
<1>3. ASSUME NEW s \in Seq(Seq(T))
      PROVE  /\ M(s) \in Seq(Seq(T)) /\ Len(M(s)) = Len(s)
             /\ \A i \in 1 .. Len(s) : M(s)[i] = IF i = 1 THEN s[i] ELSE <<by>> \o s[i]
  <2>1. PICK n \in Nat : n = Len(s) /\ DOMAIN s = 1 .. n
    BY LenProperties
  <2>2. PICK f : f = M(s)
    OBVIOUS
  <2>3. f = [i \in 1 .. n |-> IF i = 1 THEN s[i] ELSE <<by>> \o s[i]]
    BY <2>1, <2>2, Zenon
  <2>4. \A i \in 1 .. n : s[i] \in Seq(T)
    BY <2>1, ElementOfSeq
  <2>5. \A i \in 1 .. n : (IF i = 1 THEN s[i] ELSE <<by>> \o s[i]) \in Seq(T)
    BY ONLY <1>2, <2>4
  <2>6. /\ f \in [1 .. n -> Seq(T)]
        /\ \A i \in 1 .. n : f[i] = IF i = 1 THEN s[i] ELSE <<by>> \o s[i]
    BY ONLY <2>3, <2>5
  <2>7. f \in Seq(Seq(T)) /\ Len(f) = n
    BY ONLY <2>6, FunctionIsSeq, n \in Nat
  <2>. HIDE DEF M
  <2>. QED
    BY <2>1, <2>2, <2>6, <2>7
<1>4. M(<<>>) = <<>>
  OBVIOUS
<1>. HIDE DEF M
<1>5. PICK u : u = Append(texts, t)
  OBVIOUS
<1>6. PICK n \in Nat : n = Len(texts)
  BY LenProperties
<1>7. /\ u \in Seq(Seq(T)) /\ Len(u) = n + 1 /\ u[n + 1] = t
      /\ \A i \in 1 .. n : u[i] = texts[i]
  BY <1>5, <1>6, AppendProperties
<1>8. PICK f \in Seq(Seq(T)), g \in Seq(Seq(T)) : f = M(texts) /\ g = M(u)
  BY <1>3, <1>7
<1>9. /\ Len(f) = n /\ Len(g) = n + 1
      /\ \A i \in 1 .. n : f[i] = IF i = 1 THEN texts[i] ELSE <<by>> \o texts[i]
      /\ \A i \in 1 .. n + 1 : g[i] = IF i = 1 THEN u[i] ELSE <<by>> \o u[i]
  <2>1. texts \in Seq(Seq(T)) /\ u \in Seq(Seq(T))
    BY <1>7
  <2>2. /\ Len(M(texts)) = Len(texts) /\ Len(M(u)) = Len(u)
        /\ \A i \in 1 .. Len(texts) :
             M(texts)[i] = IF i = 1 THEN texts[i] ELSE <<by>> \o texts[i]
        /\ \A i \in 1 .. Len(u) : M(u)[i] = IF i = 1 THEN u[i] ELSE <<by>> \o u[i]
    BY ONLY <1>3, <2>1
  <2>. QED
    BY ONLY <1>6, <1>7, <1>8, <2>2
<1>10. /\ \A i \in 1 .. n : g[i] = f[i]
       /\ g[n + 1] = IF n = 0 THEN t ELSE <<by>> \o t
  <2>1. n + 1 \in 1 .. n + 1 /\ (n + 1 = 1 <=> n = 0) /\ \A i \in 1 .. n : i \in 1 .. n + 1
    BY <1>6
  <2>2. g[n + 1] = IF n = 0 THEN t ELSE <<by>> \o t
    <3>1. g[n + 1] = IF n + 1 = 1 THEN u[n + 1] ELSE <<by>> \o u[n + 1]
      BY <1>9, <2>1
    <3>. QED
      BY <1>7, <2>1, <3>1
  <2>3. ASSUME NEW i \in 1 .. n PROVE g[i] = f[i]
    <3>1. u[i] = texts[i] /\ i \in 1 .. n + 1
      BY <1>7, <2>1
    <3>2. f[i] = IF i = 1 THEN texts[i] ELSE <<by>> \o texts[i]
      BY <1>9
    <3>3. g[i] = IF i = 1 THEN u[i] ELSE <<by>> \o u[i]
      BY <1>9, <3>1
    <3>. QED
      BY ONLY <3>1, <3>2, <3>3
  <2>. QED
    BY <2>2, <2>3
<1>11. FlattenSeq(f) \in Seq(T) /\ FlattenSeq(g) = FlattenSeq(f) \o g[n + 1]
  <2>1. Len(g) = Len(f) + 1 /\ \A i \in 1 .. Len(f) : g[i] = f[i]
    BY <1>9, <1>10
  <2>2. FlattenSeq(f) \in Seq(T) /\ FlattenSeq(g) = FlattenSeq(f) \o g[Len(g)]
    BY ONLY <2>1, f \in Seq(Seq(T)), g \in Seq(Seq(T)), FlattenLonger
  <2>. QED
    BY <1>9, <2>2
<1>12. CASE texts = <<>>
  <2>1. n = 0
    BY <1>6, <1>12, EmptySeq
  <2>2. FlattenSeq(f) = <<>>
    BY <1>4, <1>8, <1>12, FlattenEmpty
  <2>3. FlattenSeq(g) = t
    BY <1>10, <1>11, <2>1, <2>2, ConcatEmptySeq
  <2>. QED
    BY <1>1, <1>4, <1>5, <1>8, <1>11, <1>12, <2>3, FlattenEmpty DEF GrowsBy
<1>13. CASE texts # <<>>
  <2>1. n # 0
    BY <1>6, <1>13, EmptySeq
  <2>2. FlattenSeq(g) = FlattenSeq(f) \o (<<by>> \o t)
    BY <1>10, <1>11, <2>1
  <2>. QED
    BY <1>1, <1>4, <1>5, <1>8, <1>11, <1>13, <2>2, FlattenEmpty DEF GrowsBy
<1>. QED
  BY <1>12, <1>13

-----------------------------------------------------------------------------
(* The server takes the text of the parameters apart.                      *)

PiecesOf(s) == {Piece(s, "&", j) : j \in Begins(s, "&")}
ParamOf(t)  == <<DecodeUrl(Divided(t, "=")[1]), DecodeUrl(Divided(t, "=")[2])>>
Given(t)    == IF Divided(t, "=")[1] # <<>> THEN <<ParamOf(t)>> ELSE <<>>

IsNew(s, i) ==
    /\ i \in Begins(s, "&")
    /\ \A j \in Begins(s, "&") : j < i => Piece(s, "&", j) # Piece(s, "&", i)

LEMMA ParameterIs ==
    ASSUME NEW s, NEW i
    PROVE  Parameter(s, i) = IF IsNew(s, i) THEN Given(Piece(s, "&", i)) ELSE <<>>
<1>1. PICK pair : pair = Divided(Piece(s, "&", i), "=")
  OBVIOUS
<1>2. Parameter(s, i) = IF IsNew(s, i) /\ pair[1] # <<>>
                        THEN << <<DecodeUrl(pair[1]), DecodeUrl(pair[2])>> >> ELSE <<>>
  BY <1>1, Zenon DEF Parameter, IsNew
<1>3. Given(Piece(s, "&", i))
        = IF pair[1] # <<>> THEN << <<DecodeUrl(pair[1]), DecodeUrl(pair[2])>> >> ELSE <<>>
  BY <1>1, Zenon DEF Given, ParamOf
<1>. QED
  BY ONLY <1>2, <1>3, Zenon

\* ParseQueryText flattens f.
ParsedBy(s, W, f) ==
    /\ f \in Seq(Seq(W)) /\ Len(f) = Len(s) + 1 /\ ParseQueryText(s) = FlattenSeq(f)
    /\ \A i \in 1 .. Len(s) + 1 : f[i] = Parameter(s, i)

AllIn(s, W) == \A i \in 1 .. Len(s) + 1 : ParamOf(Piece(s, "&", i)) \in W

LEMMA ParametersAre ==
    ASSUME NEW T, NEW s \in Seq(T), NEW W, AllIn(s, W)
    PROVE  \E f : ParsedBy(s, W, f)
<1>0. PICK n \in Nat : n = Len(s)
  BY LenProperties
<1>1. ASSUME NEW i \in 1 .. n + 1 PROVE Parameter(s, i) \in Seq(W)
  <2>1. PICK w \in W : w = ParamOf(Piece(s, "&", i))
    BY <1>0 DEF AllIn
  <2>2. <<>> \in Seq(W) /\ <<w>> \in Seq(W)
    OBVIOUS
  <2>3. Parameter(s, i) = <<>> \/ Parameter(s, i) = <<w>>
    BY <2>1, ParameterIs, Zenon DEF Given
  <2>. QED
    BY <2>2, <2>3
<1>2. PICK f : f = [i \in 1 .. n + 1 |-> Parameter(s, i)]
  OBVIOUS
<1>3. f \in [1 .. n + 1 -> Seq(W)] /\ \A i \in 1 .. n + 1 : f[i] = Parameter(s, i)
  BY ONLY <1>1, <1>2
<1>4. n + 1 \in Nat
  OBVIOUS
<1>5. f \in Seq(Seq(W)) /\ Len(f) = n + 1
  BY ONLY <1>3, <1>4, FunctionIsSeq
<1>6. ParseQueryText(s) = FlattenSeq(f)
  BY <1>0, <1>2, Zenon DEF ParseQueryText
<1>. QED
  BY <1>0, <1>3, <1>5, <1>6 DEF ParsedBy

\* A text without a separator is one piece.
LEMMA ParseFirst ==
    ASSUME NEW T, "&" \in T, NEW t \in Seq(T \ {"&"}), Trimmed(t) = t
    PROVE  ParseQueryText(t) = Given(t) /\ PiecesOf(t) = {t}
<1>1. PICK n \in Nat : n = Len(t)
  BY LenProperties
<1>2. Begins(t, "&") = {1}
  <2>1. \A i \in 1 .. n : t[i] # "&"
    BY <1>1, ElementOfSeq
  <2>2. Begins(t, "&") = {i \in 1 .. n + 1 : i = 1 \/ t[i - 1] = "&"}
    BY <1>1, Zenon DEF Begins
  <2>3. \A i \in 1 .. n + 1 : i # 1 => i - 1 \in 1 .. n
    OBVIOUS
  <2>4. 1 \in 1 .. n + 1
    OBVIOUS
  <2>. QED
    BY ONLY <2>1, <2>2, <2>3, <2>4
<1>3. Piece(t, "&", 1) = t
  <2>1. SubSeq(t, 1, Len(t)) = t
    BY SubSeqFull
  <2>2. Divided(t, "&") = <<t, <<>>>>
    <3>1. <<>> \in Seq(T)
      OBVIOUS
    <3>. QED
      BY ONLY <3>1, "&" \in T, t \in Seq(T \ {"&"}), DividedIs
  <2>3. Divided(t, "&")[1] = t
    BY <2>2
  <2>. QED
    BY <2>1, <2>3, Trimmed(t) = t, Zenon DEF Piece
<1>4. PICK W : W = {ParamOf(Piece(t, "&", i)) : i \in 1 .. n + 1}
  OBVIOUS
<1>5. PICK f \in Seq(Seq(W)) : /\ Len(f) = n + 1 /\ ParseQueryText(t) = FlattenSeq(f)
                               /\ \A i \in 1 .. n + 1 : f[i] = Parameter(t, i)
  <2>1. AllIn(t, W)
    BY <1>1, <1>4 DEF AllIn
  <2>2. PICK f : ParsedBy(t, W, f)
    BY ONLY t \in Seq(T \ {"&"}), <2>1, ParametersAre
  <2>. QED
    BY <1>1, <2>2 DEF ParsedBy
<1>6. f[1] = Given(t)
  <2>1. 1 \in Begins(t, "&") /\ \A j \in Begins(t, "&") : ~(j < 1)
    BY <1>2
  <2>2. IsNew(t, 1)
    BY <2>1 DEF IsNew
  <2>3. Parameter(t, 1) = Given(Piece(t, "&", 1))
    BY <2>2, ParameterIs, Zenon
  <2>4. 1 \in 1 .. n + 1
    OBVIOUS
  <2>. QED
    BY <1>3, <1>5, <2>3, <2>4
<1>7. ASSUME NEW i \in 2 .. n + 1 PROVE f[i] = <<>>
  <2>1. i \notin Begins(t, "&") /\ i \in 1 .. n + 1
    BY <1>2
  <2>2. ~IsNew(t, i)
    BY <2>1 DEF IsNew
  <2>3. Parameter(t, i) = <<>>
    BY <2>2, ParameterIs, Zenon
  <2>. QED
    BY <1>5, <2>1, <2>3
<1>8. FlattenSeq(f) = f[1]
  <2>1. PICK none : none = <<>>
    OBVIOUS
  <2>2. none \in Seq(Seq(W)) /\ Len(none) = 0
    BY <2>1
  <2>3. /\ Len(f) >= Len(none) + 1 /\ \A i \in 1 .. Len(none) : f[i] = none[i]
        /\ \A i \in Len(none) + 2 .. Len(f) : f[i] = <<>>
    BY <1>5, <1>7, <2>2
  <2>4. FlattenSeq(f) = FlattenSeq(none) \o f[Len(none) + 1]
    BY ONLY <2>2, <2>3, f \in Seq(Seq(W)), FlattenExtends
  <2>5. f[1] \in Seq(W)
    <3>1. 1 \in 1 .. Len(f)
      BY <1>5
    <3>. QED
      BY <3>1, ElementOfSeq
  <2>6. <<>> \o f[1] = f[1]
    BY ONLY <2>5, ConcatEmptySeq
  <2>7. Len(none) + 1 = 1
    BY <2>2
  <2>. QED
    BY <2>1, <2>4, <2>6, <2>7, FlattenEmpty
<1>. QED
  BY <1>2, <1>3, <1>5, <1>6, <1>8 DEF PiecesOf

\* What stands behind a position, in a text that has got something behind it.
LEMMA BehindIs ==
    ASSUME NEW T, NEW s \in Seq(T), NEW c \in Seq(T), NEW i \in 1 .. Len(s) + 1
    PROVE  SubSeq(s \o c, i, Len(s \o c)) = SubSeq(s, i, Len(s)) \o c
<1>1. PICK j \in Nat : i = j + 1 /\ j \in 0 .. Len(s)
  <2>1. i - 1 \in Nat /\ i = (i - 1) + 1 /\ i - 1 \in 0 .. Len(s)
    BY LenProperties
  <2>. QED
    BY <2>1
<1>2. PICK y : y = s \o c
  OBVIOUS
<1>3. y \in Seq(T) /\ Len(y) = Len(s) + Len(c) /\ Len(s) \in Nat /\ Len(c) \in Nat
  BY <1>2, ConcatProperties, LenProperties
<1>4. PICK a, b, p, q : /\ a = SubSeq(s, 1, j) /\ b = SubSeq(s, j + 1, Len(s))
                        /\ p = SubSeq(y, 1, j) /\ q = SubSeq(y, j + 1, Len(y))
  OBVIOUS
<1>5. a \in Seq(T) /\ b \in Seq(T) /\ Len(a) = j /\ a \o b = s
  BY ONLY <1>1, <1>4, s \in Seq(T), Cut
<1>6. p \in Seq(T) /\ q \in Seq(T) /\ Len(p) = j /\ p \o q = y
  <2>1. j \in 0 .. Len(y)
    BY <1>1, <1>3
  <2>. QED
    BY ONLY <1>3, <1>4, <2>1, Cut
<1>7. b \o c \in Seq(T)
  BY <1>5, ConcatProperties
<1>8. (a \o b) \o c = a \o (b \o c)
  <2>1. a \in Seq(T) /\ b \in Seq(T) /\ c \in Seq(T)
    BY <1>5
  <2>. QED
    BY ONLY <2>1, ConcatAssociative
<1>9. p \o q = a \o (b \o c) /\ Len(p) = Len(a)
  BY <1>2, <1>5, <1>6, <1>8
<1>10. q = b \o c
  BY ONLY <1>5, <1>6, <1>7, <1>9, SplitAt
<1>. QED
  BY <1>1, <1>2, <1>4, <1>10

\* One text more, behind the separator c begins with.
IsMore(T, s, t, c, y) ==
    /\ "&" \in T /\ s \in Seq(T) /\ t \in Seq(T \ {"&"}) /\ Trimmed(t) = t
    /\ c = <<"&">> \o t /\ y = s \o c

LEMMA BeginsMore ==
    ASSUME NEW T, NEW s, NEW t, NEW c, NEW y, IsMore(T, s, t, c, y)
    PROVE  /\ y \in Seq(T) /\ Len(y) = Len(s) + Len(t) + 1
           /\ \A i \in 1 .. Len(s) + 1 : /\ i \in Begins(y, "&") <=> i \in Begins(s, "&")
                                         /\ Piece(y, "&", i) = Piece(s, "&", i)
           /\ Len(s) + 2 \in Begins(y, "&") /\ Piece(y, "&", Len(s) + 2) = t
           /\ \A i \in Begins(y, "&") : i \in 1 .. Len(s) + 1 \/ i = Len(s) + 2
<1>0. /\ "&" \in T /\ s \in Seq(T) /\ t \in Seq(T \ {"&"}) /\ Trimmed(t) = t
      /\ c = <<"&">> \o t /\ y = s \o c
  BY DEF IsMore
<1>. USE <1>0
<1>1. PICK n \in Nat, m \in Nat : n = Len(s) /\ m = Len(t)
  BY LenProperties
<1>2. t \in Seq(T)
  <2>1. T \ {"&"} \subseteq T
    OBVIOUS
  <2>. QED
    BY ONLY <2>1, <1>0, SeqWidens
<1>3. /\ c \in Seq(T) /\ Len(c) = 1 + m /\ c[1] = "&"
      /\ \A i \in 2 .. 1 + m : c[i] # "&"
  <2>1. <<"&">> \in Seq(T) /\ Len(<<"&">>) = 1 /\ <<"&">>[1] = "&"
    OBVIOUS
  <2>2. /\ c \in Seq(T) /\ Len(c) = 1 + m
        /\ \A i \in 1 .. 1 + m : c[i] = IF i =< 1 THEN <<"&">>[i] ELSE t[i - 1]
    BY ONLY <1>1, <1>2, <2>1, <1>0, ConcatProperties
  <2>3. \A i \in 1 .. m : t[i] # "&"
    BY <1>1, ElementOfSeq
  <2>4. 1 \in 1 .. 1 + m /\ \A i \in 2 .. 1 + m : i \in 1 .. 1 + m /\ ~(i =< 1) /\ i - 1 \in 1 .. m
    BY <1>1
  <2>. QED
    BY ONLY <2>1, <2>2, <2>3, <2>4
<1>4. /\ y \in Seq(T) /\ Len(y) = n + (1 + m)
      /\ \A i \in 1 .. n + (1 + m) : y[i] = IF i =< n THEN s[i] ELSE c[i - n]
  <2>1. c \in Seq(T)
    BY <1>3
  <2>2. /\ s \o c \in Seq(T) /\ Len(s \o c) = Len(s) + Len(c)
        /\ \A i \in 1 .. Len(s) + Len(c) :
             (s \o c)[i] = IF i =< Len(s) THEN s[i] ELSE c[i - Len(s)]
    BY ONLY <2>1, <1>0, ConcatProperties
  <2>3. n = Len(s) /\ Len(c) = 1 + m /\ y = s \o c
    BY <1>1, <1>3
  <2>. QED
    BY ONLY <2>2, <2>3
<1>5. PICK k \in Nat : k = n + (1 + m)
  OBVIOUS
<1>6. Begins(y, "&") = {i \in 1 .. k + 1 : i = 1 \/ y[i - 1] = "&"}
  BY <1>4, <1>5, Zenon DEF Begins
<1>7. Begins(s, "&") = {i \in 1 .. n + 1 : i = 1 \/ s[i - 1] = "&"}
  BY <1>1, Zenon DEF Begins
<1>8. ASSUME NEW i \in 1 .. n + 1 PROVE i \in Begins(y, "&") <=> i \in Begins(s, "&")
  <2>1. i \in 1 .. k + 1
    BY <1>5
  <2>2. CASE i = 1
    BY <1>6, <1>7, <2>1, <2>2
  <2>3. CASE i # 1
    <3>1. i - 1 \in 1 .. n + (1 + m) /\ i - 1 =< n
      BY <2>3
    <3>2. y[i - 1] = s[i - 1]
      BY <1>4, <3>1
    <3>. QED
      BY <1>6, <1>7, <2>1, <3>2
  <2>. QED
    BY <2>2, <2>3
<1>9. ASSUME NEW i \in 1 .. n + 1 PROVE Piece(y, "&", i) = Piece(s, "&", i)
  <2>1. PICK u : u = SubSeq(s, i, Len(s))
    OBVIOUS
  <2>2. u \in Seq(T)
    <3>1. PICK j \in 0 .. Len(s) : i = j + 1
      <4>1. i - 1 \in 0 .. Len(s) /\ i = (i - 1) + 1
        BY <1>1
      <4>. QED
        BY <4>1
    <3>. QED
      BY ONLY <2>1, <3>1, <1>0, Cut
  <2>3. SubSeq(y, i, Len(y)) = u \o c
    <3>1. i \in 1 .. Len(s) + 1
      BY <1>1
    <3>. QED
      BY ONLY <1>3, <2>1, <3>1, <1>0, BehindIs
  <2>4. Divided(u \o c, "&")[1] = Divided(u, "&")[1]
    <3>1. Len(c) >= 1
      BY <1>3
    <3>. QED
      BY ONLY <1>3, <2>2, <3>1, <1>0, DividedFront
  <2>. QED
    BY <2>1, <2>3, <2>4, Zenon DEF Piece
<1>10. n + 2 \in Begins(y, "&")
  <2>1. n + 2 \in 1 .. k + 1
    BY <1>5
  <2>2. /\ (n + 2) - 1 \in 1 .. n + (1 + m) /\ ~((n + 2) - 1 =< n) /\ ((n + 2) - 1) - n = 1
    OBVIOUS
  <2>3. y[(n + 2) - 1] = "&"
    BY <1>3, <1>4, <2>2
  <2>. QED
    BY <1>6, <2>1, <2>3
<1>11. Piece(y, "&", n + 2) = t
  <2>0. PICK d, u : d = s \o <<"&">> /\ u = SubSeq(t, 1, Len(t))
    OBVIOUS
  <2>1. <<"&">> \in Seq(T) /\ Len(<<"&">>) = 1
    OBVIOUS
  <2>2. d \in Seq(T) /\ Len(d) = n + 1
    BY ONLY <1>1, <2>0, <2>1, <1>0, ConcatProperties
  <2>3. y = d \o t
    <3>1. d \o t = s \o (<<"&">> \o t)
      BY ONLY <1>2, <2>0, <2>1, <1>0, ConcatAssociative
    <3>. QED
      BY <3>1
  <2>4. SubSeq(y, n + 2, Len(y)) = SubSeq(d, n + 2, Len(d)) \o t
    <3>1. n + 2 \in 1 .. Len(d) + 1
      BY <2>2
    <3>. QED
      BY ONLY <1>2, <2>2, <2>3, <3>1, BehindIs
  <2>5. SubSeq(d, n + 2, Len(d)) = <<>>
    <3>1. n + 2 \in Int /\ Len(d) \in Int /\ Len(d) < n + 2
      BY <2>2
    <3>. QED
      BY ONLY <3>1, SubSeqEmpty
  <2>6. SubSeq(y, n + 2, Len(y)) = t
    BY <1>2, <2>4, <2>5, ConcatEmptySeq
  <2>7. Divided(t, "&") = <<t, <<>>>>
    <3>1. <<>> \in Seq(T)
      OBVIOUS
    <3>. QED
      BY ONLY <3>1, <1>0, DividedIs
  <2>8. Divided(t, "&")[1] = t
    BY <2>7
  <2>. QED
    BY <2>6, <2>8, <1>0, Zenon DEF Piece
<1>12. ASSUME NEW i \in Begins(y, "&") PROVE i \in 1 .. n + 1 \/ i = n + 2
  <2>1. i \in 1 .. k + 1 /\ (i = 1 \/ y[i - 1] = "&")
    BY <1>6
  <2>2. ASSUME i > n + 2 PROVE FALSE
    <3>1. /\ i - 1 \in 1 .. n + (1 + m) /\ ~(i - 1 =< n)
          /\ (i - 1) - n \in 2 .. 1 + m /\ i # 1
      BY <1>5, <2>1, <2>2
    <3>2. y[i - 1] = c[(i - 1) - n]
      BY <1>4, <3>1
    <3>. QED
      BY <1>3, <2>1, <3>1, <3>2
  <2>. QED
    BY <2>1, <2>2
<1>13. Len(y) = n + m + 1
  BY <1>4
<1>. QED
  BY <1>1, <1>4, <1>8, <1>9, <1>10, <1>11, <1>12, <1>13

LEMMA ParseMore ==
    ASSUME NEW T, NEW s, NEW t, NEW c, NEW y, IsMore(T, s, t, c, y)
    PROVE  /\ ParseQueryText(y)
                = ParseQueryText(s) \o (IF t \in PiecesOf(s) THEN <<>> ELSE Given(t))
           /\ PiecesOf(y) = PiecesOf(s) \cup {t} /\ y \in Seq(T)
<1>0. /\ "&" \in T /\ s \in Seq(T) /\ t \in Seq(T \ {"&"}) /\ Trimmed(t) = t
      /\ c = <<"&">> \o t /\ y = s \o c
  BY DEF IsMore
<1>1. PICK n \in Nat, m \in Nat : n = Len(s) /\ m = Len(t)
  BY <1>0, LenProperties
<1>2. /\ y \in Seq(T) /\ Len(y) = n + m + 1
      /\ \A i \in 1 .. n + 1 : /\ i \in Begins(y, "&") <=> i \in Begins(s, "&")
                               /\ Piece(y, "&", i) = Piece(s, "&", i)
      /\ n + 2 \in Begins(y, "&") /\ Piece(y, "&", n + 2) = t
      /\ \A i \in Begins(y, "&") : i \in 1 .. n + 1 \/ i = n + 2
  <2>2. /\ y \in Seq(T) /\ Len(y) = Len(s) + Len(t) + 1
        /\ \A i \in 1 .. Len(s) + 1 : /\ i \in Begins(y, "&") <=> i \in Begins(s, "&")
                                      /\ Piece(y, "&", i) = Piece(s, "&", i)
        /\ Len(s) + 2 \in Begins(y, "&") /\ Piece(y, "&", Len(s) + 2) = t
        /\ \A i \in Begins(y, "&") : i \in 1 .. Len(s) + 1 \/ i = Len(s) + 2
    BY ONLY IsMore(T, s, t, c, y), BeginsMore
  <2>. QED
    BY ONLY <1>1, <2>2
<1>3. \A i \in Begins(s, "&") : i \in 1 .. n + 1
  BY <1>1, Zenon DEF Begins
<1>4. PiecesOf(y) = PiecesOf(s) \cup {t}
  <2>1. ASSUME NEW x PROVE x \in PiecesOf(y) <=> x \in PiecesOf(s) \cup {t}
    <3>1. x \in PiecesOf(y) <=> \E i \in Begins(y, "&") : x = Piece(y, "&", i)
      BY DEF PiecesOf
    <3>2. x \in PiecesOf(s) <=> \E i \in Begins(s, "&") : x = Piece(s, "&", i)
      BY DEF PiecesOf
    <3>. QED
      BY <1>2, <1>3, <3>1, <3>2
  <2>. QED
    BY <2>1
<1>5. ASSUME NEW i \in 1 .. n + 1 PROVE Parameter(y, i) = Parameter(s, i)
  <2>1. IsNew(y, i) <=> IsNew(s, i)
    <3>1. \A j \in Begins(y, "&") : j < i => j \in 1 .. n + 1
      BY <1>2
    <3>. QED
      BY <1>2, <1>3, <3>1 DEF IsNew
  <2>2. Piece(y, "&", i) = Piece(s, "&", i)
    BY <1>2
  <2>. QED
    BY <2>1, <2>2, ParameterIs, Zenon
<1>6. Parameter(y, n + 2) = IF t \in PiecesOf(s) THEN <<>> ELSE Given(t)
  <2>1. IsNew(y, n + 2) <=> t \notin PiecesOf(s)
    <3>1. t \in PiecesOf(s) <=> \E j \in Begins(s, "&") : Piece(s, "&", j) = t
      BY DEF PiecesOf
    <3>2. IsNew(y, n + 2) <=> \A j \in Begins(y, "&") : j < n + 2 => Piece(y, "&", j) # t
      BY <1>2 DEF IsNew
    <3>3. \A j \in 1 .. n + 1 : j < n + 2
      OBVIOUS
    <3>. QED
      BY <1>2, <1>3, <3>1, <3>2, <3>3
  <2>. QED
    BY <1>2, <2>1, ParameterIs, Zenon
<1>7. ASSUME NEW i \in n + 3 .. Len(y) + 1 PROVE Parameter(y, i) = <<>>
  <2>1. i \notin Begins(y, "&")
    BY <1>2
  <2>2. ~IsNew(y, i)
    BY <2>1 DEF IsNew
  <2>. QED
    BY <2>2, ParameterIs, Zenon
<1>8. PICK W : /\ \A i \in 1 .. Len(s) + 1 : ParamOf(Piece(s, "&", i)) \in W
               /\ \A i \in 1 .. Len(y) + 1 : ParamOf(Piece(y, "&", i)) \in W
  <2>. DEFINE W1 == {ParamOf(Piece(s, "&", i)) : i \in 1 .. Len(s) + 1}
              W2 == {ParamOf(Piece(y, "&", i)) : i \in 1 .. Len(y) + 1}
  <2>1. /\ \A i \in 1 .. Len(s) + 1 : ParamOf(Piece(s, "&", i)) \in W1 \cup W2
        /\ \A i \in 1 .. Len(y) + 1 : ParamOf(Piece(y, "&", i)) \in W1 \cup W2
    OBVIOUS
  <2>. QED
    BY <2>1
<1>9. PICK f : ParsedBy(s, W, f)
  <2>1. AllIn(s, W)
    BY <1>8 DEF AllIn
  <2>. QED
    BY ONLY <1>0, <2>1, ParametersAre
<1>10. PICK g : ParsedBy(y, W, g)
  <2>1. AllIn(y, W)
    BY <1>8 DEF AllIn
  <2>. QED
    BY ONLY <1>2, <2>1, ParametersAre
<1>11. /\ f \in Seq(Seq(W)) /\ Len(f) = n + 1 /\ ParseQueryText(s) = FlattenSeq(f)
       /\ \A i \in 1 .. n + 1 : f[i] = Parameter(s, i)
  BY <1>1, <1>9 DEF ParsedBy
<1>12. /\ g \in Seq(Seq(W)) /\ Len(g) = (n + m + 1) + 1 /\ ParseQueryText(y) = FlattenSeq(g)
       /\ \A i \in 1 .. (n + m + 1) + 1 : g[i] = Parameter(y, i)
  BY <1>2, <1>10 DEF ParsedBy
<1>13. FlattenSeq(g) = FlattenSeq(f) \o g[n + 2]
  <2>1. Len(g) >= Len(f) + 1 /\ Len(f) + 1 = n + 2
    BY <1>11, <1>12
  <2>2. \A i \in 1 .. Len(f) : g[i] = f[i]
    <3>1. \A i \in 1 .. n + 1 : i \in 1 .. (n + m + 1) + 1
      OBVIOUS
    <3>. QED
      BY <1>5, <1>11, <1>12, <3>1
  <2>3. \A i \in Len(f) + 2 .. Len(g) : g[i] = <<>>
    <3>1. \A i \in n + 3 .. (n + m + 1) + 1 : i \in 1 .. (n + m + 1) + 1
      OBVIOUS
    <3>2. \A i \in n + 3 .. (n + m + 1) + 1 : g[i] = <<>>
      BY <1>2, <1>7, <1>12, <3>1
    <3>3. Len(f) + 2 = n + 3
      BY <1>11
    <3>. QED
      BY <1>12, <3>2, <3>3
  <2>4. FlattenSeq(g) = FlattenSeq(f) \o g[Len(f) + 1]
    <3>1. f \in Seq(Seq(W)) /\ g \in Seq(Seq(W))
      BY <1>11, <1>12
    <3>. QED
      BY ONLY <2>1, <2>2, <2>3, <3>1, FlattenExtends
  <2>. QED
    BY <2>1, <2>4
<1>14. g[n + 2] = Parameter(y, n + 2)
  <2>1. n + 2 \in 1 .. (n + m + 1) + 1
    OBVIOUS
  <2>. QED
    BY <1>12, <2>1
<1>. QED
  BY ONLY <1>2, <1>4, <1>6, <1>11, <1>12, <1>13, <1>14

LEMMA FirstsAppend ==
    ASSUME NEW P, NEW ps \in Seq(P), NEW p \in P
    PROVE  /\ Firsts(<<>>) = <<>> /\ Firsts(ps) \in Seq(P)
           /\ Firsts(Append(ps, p))
                = Firsts(ps) \o (IF \E j \in 1 .. Len(ps) : ps[j] = p THEN <<>> ELSE <<p>>)
<1>. DEFINE Kept(s, i) == IF \E j \in 1 .. i - 1 : s[j] = s[i] THEN <<>> ELSE <<s[i]>>
            M(s)       == [i \in DOMAIN s |-> Kept(s, i)]
<1>1. \A s : Firsts(s) = FlattenSeq(M(s))
  BY DEF Firsts
<1>2. \A s \in Seq(P) : \A i \in 1 .. Len(s) : Kept(s, i) \in Seq(P)
  <2>. SUFFICES ASSUME NEW s \in Seq(P), NEW i \in 1 .. Len(s) PROVE Kept(s, i) \in Seq(P)
    OBVIOUS
  <2>1. <<>> \in Seq(P)
    OBVIOUS
  <2>2. s[i] \in P
    BY ElementOfSeq
  <2>3. <<s[i]>> \in Seq(P)
    BY <2>2
  <2>. QED
    BY <2>1, <2>3
<1>3. M(<<>>) = <<>>
  OBVIOUS
<1>4. ASSUME NEW s \in Seq(P)
      PROVE  /\ M(s) \in Seq(Seq(P)) /\ Len(M(s)) = Len(s)
             /\ \A i \in 1 .. Len(s) : M(s)[i] = Kept(s, i)
  <2>1. PICK n \in Nat : n = Len(s) /\ DOMAIN s = 1 .. n
    BY LenProperties
  <2>2. PICK f : f = M(s)
    OBVIOUS
  <2>3. f = [i \in 1 .. n |-> Kept(s, i)]
    BY <2>1, <2>2, Zenon
  <2>. HIDE DEF M, Kept
  <2>4. f \in [1 .. n -> Seq(P)] /\ \A i \in 1 .. n : f[i] = Kept(s, i)
    BY <1>2, <2>1, <2>3
  <2>5. f \in Seq(Seq(P)) /\ Len(f) = n
    BY ONLY <2>4, FunctionIsSeq, n \in Nat
  <2>. QED
    BY <2>1, <2>2, <2>4, <2>5
<1>n. PICK n \in Nat : n = Len(ps)
  BY LenProperties
<1>5. PICK u : n = Len(ps) /\ u = Append(ps, p)
  BY <1>n
<1>6. u \in Seq(P) /\ Len(u) = n + 1 /\ u[n + 1] = p /\ \A i \in 1 .. n : u[i] = ps[i]
  BY <1>5, AppendProperties
<1>7. Kept(u, n + 1) = IF \E j \in 1 .. n : ps[j] = p THEN <<>> ELSE <<p>>
  <2>1. (n + 1) - 1 = n
    OBVIOUS
  <2>2. (\E j \in 1 .. (n + 1) - 1 : u[j] = u[n + 1]) <=> \E j \in 1 .. n : ps[j] = p
    BY <1>6, <2>1
  <2>. QED
    BY <1>6, <2>2, Zenon
<1>8. ASSUME NEW i \in 1 .. n PROVE Kept(u, i) = Kept(ps, i)
  <2>1. \A j \in 1 .. i - 1 : j \in 1 .. n
    OBVIOUS
  <2>2. (\E j \in 1 .. i - 1 : u[j] = u[i]) <=> (\E j \in 1 .. i - 1 : ps[j] = ps[i])
    BY <1>6, <2>1
  <2>3. u[i] = ps[i]
    BY <1>6
  <2>. QED
    BY <2>2, <2>3, Zenon
<1>. HIDE DEF M, Kept
<1>9. PICK f \in Seq(Seq(P)), g \in Seq(Seq(P)) : f = M(ps) /\ g = M(u)
  BY <1>4, <1>6
<1>10. /\ Len(f) = n /\ \A i \in 1 .. n : f[i] = Kept(ps, i)
       /\ Len(g) = n + 1 /\ \A i \in 1 .. n + 1 : g[i] = Kept(u, i)
  <2>1. Len(f) = Len(ps) /\ \A i \in 1 .. Len(ps) : f[i] = Kept(ps, i)
    BY <1>4, <1>9
  <2>2. Len(g) = Len(u) /\ \A i \in 1 .. Len(u) : g[i] = Kept(u, i)
    BY <1>4, <1>6, <1>9
  <2>. QED
    BY ONLY <1>5, <1>6, <2>1, <2>2
<1>11. FlattenSeq(f) \in Seq(P) /\ FlattenSeq(g) = FlattenSeq(f) \o g[n + 1]
  <2>1. \A i \in 1 .. n : i \in 1 .. n + 1
    OBVIOUS
  <2>2. Len(g) = Len(f) + 1 /\ \A i \in 1 .. Len(f) : g[i] = f[i]
    BY <1>8, <1>10, <2>1
  <2>3. FlattenSeq(f) \in Seq(P) /\ FlattenSeq(g) = FlattenSeq(f) \o g[Len(g)]
    BY ONLY <2>2, f \in Seq(Seq(P)), g \in Seq(Seq(P)), FlattenLonger
  <2>. QED
    BY <1>10, <2>3
<1>12. g[n + 1] = Kept(u, n + 1)
  <2>1. n + 1 \in 1 .. n + 1
    OBVIOUS
  <2>. QED
    BY <1>10, <2>1
<1>13. Firsts(ps) = FlattenSeq(f) /\ Firsts(u) = FlattenSeq(g) /\ Firsts(<<>>) = <<>>
  BY <1>1, <1>3, <1>9, FlattenEmpty
<1>. QED
  BY ONLY <1>5, <1>7, <1>11, <1>12, <1>13

\* The texts of parameters with separators between them.
Query(params, X, Y) == Joined([i \in DOMAIN params |-> Text(params[i], X, Y)], "&")

TextSigns == TextChars \cup {"&"}

TextsIn(P, X, Y, Z) == "&" \in Z /\ \A p \in P : Text(p, X, Y) \in Seq(Z)

QueryGrows(ps, p, X, Y, Z) ==
    /\ Query(<<>>, X, Y) = <<>> /\ Query(ps, X, Y) \in Seq(Z)
    /\ Query(Append(ps, p), X, Y)
         = IF ps = <<>> THEN Text(p, X, Y) ELSE Query(ps, X, Y) \o (<<"&">> \o Text(p, X, Y))

LEMMA QueryAppend ==
    ASSUME NEW X, NEW Y, NEW Z, NEW P, TextsIn(P, X, Y, Z), NEW ps \in Seq(P), NEW p \in P
    PROVE  QueryGrows(ps, p, X, Y, Z)
<1>. DEFINE M(s) == [i \in DOMAIN s |-> Text(s[i], X, Y)]
<1>1. \A s : Query(s, X, Y) = Joined(M(s), "&")
  BY DEF Query
<1>2. "&" \in Z /\ \A q \in P : Text(q, X, Y) \in Seq(Z)
  BY DEF TextsIn
<1>3. ASSUME NEW s \in Seq(P)
      PROVE  /\ M(s) \in Seq(Seq(Z)) /\ Len(M(s)) = Len(s)
             /\ \A i \in 1 .. Len(s) : M(s)[i] = Text(s[i], X, Y)
  <2>1. PICK n \in Nat : n = Len(s) /\ DOMAIN s = 1 .. n
    BY LenProperties
  <2>2. PICK f : f = M(s)
    OBVIOUS
  <2>3. f = [i \in 1 .. n |-> Text(s[i], X, Y)]
    BY <2>1, <2>2, Zenon
  <2>4. \A i \in 1 .. n : s[i] \in P
    BY <2>1, ElementOfSeq
  <2>5. f \in [1 .. n -> Seq(Z)] /\ \A i \in 1 .. n : f[i] = Text(s[i], X, Y)
    BY ONLY <1>2, <2>3, <2>4
  <2>6. f \in Seq(Seq(Z)) /\ Len(f) = n
    BY ONLY <2>5, FunctionIsSeq, n \in Nat
  <2>. HIDE DEF M
  <2>. QED
    BY <2>1, <2>2, <2>5, <2>6
<1>4. M(<<>>) = <<>>
  OBVIOUS
<1>. HIDE DEF M
<1>n. PICK n \in Nat : n = Len(ps)
  BY LenProperties
<1>5. PICK u : n = Len(ps) /\ u = Append(ps, p)
  BY <1>n
<1>6. /\ u \in Seq(P) /\ Len(u) = n + 1 /\ u[n + 1] = p
      /\ \A i \in 1 .. n : u[i] = ps[i]
  BY <1>5, AppendProperties
<1>7. PICK f \in Seq(Seq(Z)), g \in Seq(Seq(Z)) : f = M(ps) /\ g = M(u)
  BY <1>3, <1>6
<1>8. PICK t \in Seq(Z) : t = Text(p, X, Y)
  BY <1>2
<1>9. g = Append(f, t)
  <2>1. Len(f) = Len(ps) /\ \A i \in 1 .. Len(ps) : f[i] = Text(ps[i], X, Y)
    BY <1>3, <1>7
  <2>2. Len(g) = Len(u) /\ \A i \in 1 .. Len(u) : g[i] = Text(u[i], X, Y)
    BY <1>3, <1>6, <1>7
  <2>3. PICK h : h = Append(f, t)
    OBVIOUS
  <2>4. /\ h \in Seq(Seq(Z)) /\ Len(h) = n + 1 /\ h[n + 1] = t
        /\ \A i \in 1 .. n : h[i] = f[i]
    <3>1. Len(f) = n
      BY <1>5, <2>1
    <3>2. f \in Seq(Seq(Z)) /\ t \in Seq(Z)
      OBVIOUS
    <3>3. PICK W : W = Seq(Z)
      OBVIOUS
    <3>4. f \in Seq(W) /\ t \in W
      BY <3>2, <3>3
    <3>5. /\ h \in Seq(W) /\ Len(h) = n + 1 /\ h[n + 1] = t
          /\ \A i \in 1 .. n : h[i] = f[i]
      BY ONLY <2>3, <3>1, <3>4, AppendProperties
    <3>. QED
      BY <3>3, <3>5
  <2>5. \A i \in 1 .. n + 1 : i # n + 1 => i \in 1 .. n
    OBVIOUS
  <2>6. \A i \in 1 .. n : g[i] = f[i]
    <3>1. \A i \in 1 .. n : i \in 1 .. n + 1
      OBVIOUS
    <3>. QED
      BY ONLY <1>5, <1>6, <2>1, <2>2, <3>1
  <2>7. g[n + 1] = t
    <3>1. n + 1 \in 1 .. n + 1
      OBVIOUS
    <3>. QED
      BY ONLY <1>6, <1>8, <2>2, <3>1
  <2>8. \A i \in 1 .. n + 1 : g[i] = h[i]
    BY <2>4, <2>5, <2>6, <2>7
  <2>9. g = h
    <3>1. PICK W : W = Seq(Z)
      OBVIOUS
    <3>2. g \in Seq(W) /\ h \in Seq(W) /\ Len(g) = Len(h) /\ Len(g) = n + 1
      BY <1>6, <2>2, <2>4, <3>1
    <3>3. \A i \in 1 .. Len(g) : g[i] = h[i]
      BY ONLY <2>8, <3>2
    <3>. QED
      BY ONLY <3>2, <3>3, SeqEqual
  <2>. QED
    BY <2>3, <2>9
<1>10. /\ Joined(f, "&") \in Seq(Z) /\ Joined(<<>>, "&") = <<>>
       /\ Joined(Append(f, t), "&")
            = IF f = <<>> THEN t ELSE Joined(f, "&") \o (<<"&">> \o t)
  <2>2. PICK by : by = "&"
    OBVIOUS
  <2>3. f \in Seq(Seq(Z)) /\ t \in Seq(Z) /\ by \in Z
    BY <1>2, <2>2
  <2>4. GrowsBy(Z, by, f, t)
    BY ONLY <2>3, JoinedAppend
  <2>. QED
    BY <2>2, <2>4 DEF GrowsBy
<1>11. f = <<>> <=> ps = <<>>
  <2>1. Len(f) = Len(ps)
    BY <1>3, <1>7
  <2>. QED
    BY <2>1, EmptySeq
<1>12. /\ Query(ps, X, Y) = Joined(f, "&") /\ Query(u, X, Y) = Joined(g, "&")
       /\ Query(<<>>, X, Y) = Joined(<<>>, "&")
  BY <1>1, <1>4, <1>7
<1>. QED
  BY ONLY <1>5, <1>8, <1>9, <1>10, <1>11, <1>12 DEF QueryGrows

\* What comes of parsing them.
LEMMA QueryParsed ==
    ASSUME NEW X, NEW Y, AreEncoded(X, Y), NEW params \in Seq(Surviving(X))
    PROVE  /\ ParseQueryText(Query(params, X, Y)) = Firsts(params)
           /\ Query(params, X, Y) \in Seq(TextSigns)
<1>. DEFINE P == Surviving(X)
            T == TextSigns
            Q(ps) == Query(ps, X, Y)
            Right(ps) == /\ ParseQueryText(Q(ps)) = Firsts(ps)
                         /\ ps # <<>> =>
                              PiecesOf(Q(ps)) = {Text(ps[i], X, Y) : i \in 1 .. Len(ps)}
            S == {ps \in Seq(P) : Right(ps)}
<1>0. /\ Q(<<>>) = <<>> /\ \A ps \in Seq(P) : Q(ps) \in Seq(T)
      /\ \A ps \in Seq(P), p \in P :
           Q(Append(ps, p)) = IF ps = <<>> THEN Text(p, X, Y)
                              ELSE Q(ps) \o (<<"&">> \o Text(p, X, Y))
  <2>1. \A ps \in Seq(P), p \in P :
          /\ Q(ps) \in Seq(T)
          /\ Q(Append(ps, p)) = IF ps = <<>> THEN Text(p, X, Y)
                                ELSE Q(ps) \o (<<"&">> \o Text(p, X, Y))
    <3>1. \A q \in P : Text(q, X, Y) \in Seq(T)
      <4>1. ASSUME NEW q \in Surviving(X) PROVE Text(q, X, Y) \in Seq(TextSigns)
        <5>1. Text(q, X, Y) \in Seq(TextChars)
          BY TextIs
        <5>2. TextChars \subseteq TextSigns
          BY DEF TextSigns
        <5>. QED
          BY ONLY <5>1, <5>2, SeqWidens
      <4>. QED
        BY ONLY <4>1
    <3>2. TextsIn(P, X, Y, T)
      BY <3>1 DEF TextSigns, TextsIn
    <3>. HIDE DEF P, T
    <3>3. \A ps \in Seq(P), p \in P : QueryGrows(ps, p, X, Y, T)
      BY ONLY <3>2, QueryAppend
    <3>. QED
      BY <3>3 DEF QueryGrows
  <2>2. Q(<<>>) = <<>>
    BY EmptySeq DEF Query, Joined, FlattenSeq
  <2>3. ASSUME NEW ps \in Seq(P) PROVE Q(ps) \in Seq(T)
    <3>1. CASE ps = <<>>
      <4>1. <<>> \in Seq(T)
        OBVIOUS
      <4>. HIDE DEF Q
      <4>. QED
        BY <2>2, <3>1, <4>1
    <3>2. CASE ps # <<>>
      <4>1. Len(ps) # 0 /\ Len(ps) \in Nat
        BY <3>2, EmptySeq, LenProperties
      <4>2. 1 \in 1 .. Len(ps)
        BY <4>1
      <4>3. ps[1] \in P
        BY <4>2, ElementOfSeq
      <4>. QED
        BY <2>1, <4>3
    <3>. QED
      BY <3>1, <3>2
  <2>. HIDE DEF Q
  <2>. QED
    BY <2>1, <2>2, <2>3
<1>. HIDE DEF Q, P
<1>1. ASSUME NEW p \in P
      PROVE  /\ Text(p, X, Y) \in Seq(T \ {"&"}) /\ Trimmed(Text(p, X, Y)) = Text(p, X, Y)
             /\ Given(Text(p, X, Y)) = <<p>>
  <2>0. p \in Surviving(X)
    BY DEF P
  <2>1. /\ Text(p, X, Y) \in Seq(TextChars) /\ Trimmed(Text(p, X, Y)) = Text(p, X, Y)
        /\ Divided(Text(p, X, Y), "=") = <<Encoded(p[1], X), Encoded(p[2], Y)>>
        /\ Encoded(p[1], X) # <<>>
        /\ DecodeUrl(Encoded(p[1], X)) = p[1] /\ DecodeUrl(Encoded(p[2], Y)) = p[2]
    BY ONLY <2>0, AreEncoded(X, Y), TextIs
  <2>2. TextChars \subseteq T \ {"&"}
    BY DEF TextSigns, TextChars
  <2>3. Text(p, X, Y) \in Seq(T \ {"&"})
    BY ONLY <2>1, <2>2, SeqWidens
  <2>4. p = <<p[1], p[2]>>
    BY <2>0 DEF Surviving
  <2>5. /\ Divided(Text(p, X, Y), "=")[1] = Encoded(p[1], X)
        /\ Divided(Text(p, X, Y), "=")[2] = Encoded(p[2], Y)
    BY <2>1
  <2>6. ParamOf(Text(p, X, Y)) = <<p[1], p[2]>>
    BY ONLY <2>1, <2>5 DEF ParamOf
  <2>7. Given(Text(p, X, Y)) = <<p>>
    BY ONLY <2>1, <2>4, <2>5, <2>6 DEF Given
  <2>. QED
    BY <2>1, <2>3, <2>7
<1>2. "&" \in T
  BY DEF TextSigns
<1>. HIDE DEF T
<1>3. <<>> \in S
  <2>1. <<>> \in Seq(T \ {"&"}) /\ <<>> \in Seq(T)
    OBVIOUS
  <2>2. Trimmed(<<>>) = <<>>
    BY ONLY <2>1, TrimmedIs
  <2>3. ParseQueryText(<<>>) = Given(<<>>)
    BY ONLY <1>2, <2>1, <2>2, ParseFirst
  <2>4. Divided(<<>>, "=") = << <<>>, <<>> >>
    <3>1. <<>> \in Seq({"="} \ {"="}) /\ <<>> \in Seq({"="}) /\ "=" \in {"="}
      OBVIOUS
    <3>. QED
      BY ONLY <3>1, DividedIs
  <2>5. Divided(<<>>, "=")[1] = <<>>
    BY <2>4
  <2>6. Given(<<>>) = <<>>
    BY <2>5, Zenon DEF Given
  <2>7. Firsts(<<>>) = <<>>
    BY FlattenEmpty DEF Firsts
  <2>8. <<>> \in Seq(P)
    OBVIOUS
  <2>. QED
    BY <1>0, <2>3, <2>6, <2>7, <2>8
<1>4. ASSUME NEW ps \in Seq(P), NEW p \in P, ps \in S PROVE Append(ps, p) \in S
  <2>n. PICK n \in Nat : n = Len(ps)
    BY LenProperties
  <2>1. PICK u, t : n = Len(ps) /\ u = Append(ps, p) /\ t = Text(p, X, Y)
    BY <2>n
  <2>2. u \in Seq(P) /\ Len(u) = n + 1 /\ u[n + 1] = p /\ \A i \in 1 .. n : u[i] = ps[i]
    BY <2>1, AppendProperties
  <2>3. u # <<>>
    <3>1. Len(u) # 0
      BY <2>2
    <3>. QED
      BY <3>1, EmptySeq
  <2>4. Firsts(u) = Firsts(ps) \o (IF \E j \in 1 .. n : ps[j] = p THEN <<>> ELSE <<p>>)
    BY ONLY <2>1, ps \in Seq(P), p \in P, FirstsAppend
  <2>5. t \in Seq(T \ {"&"}) /\ Trimmed(t) = t /\ Given(t) = <<p>>
    BY <1>1, <2>1
  <2>6. \A x : x \in {Text(u[i], X, Y) : i \in 1 .. Len(u)}
                 <=> (x \in {Text(ps[i], X, Y) : i \in 1 .. n} \/ x = t)
    <3>1. \A i \in 1 .. n + 1 : i \in 1 .. n \/ i = n + 1
      OBVIOUS
    <3>2. n + 1 \in 1 .. n + 1 /\ \A i \in 1 .. n : i \in 1 .. n + 1
      OBVIOUS
    <3>3. /\ \A i \in 1 .. n : Text(u[i], X, Y) = Text(ps[i], X, Y)
          /\ Text(u[n + 1], X, Y) = t
      BY <2>1, <2>2
    <3>. QED
      BY <2>2, <3>1, <3>2, <3>3
  <2>7. ParseQueryText(Q(u)) = Firsts(u) /\ PiecesOf(Q(u)) = {Text(u[i], X, Y) : i \in 1 .. Len(u)}
    <3>1. CASE ps = <<>>
      <4>1. Q(u) = t
        BY <1>0, <2>1, <3>1
      <4>2. ParseQueryText(t) = <<p>> /\ PiecesOf(t) = {t}
        BY ONLY <1>2, <2>5, ParseFirst
      <4>3. n = 0
        BY <2>1, <3>1, EmptySeq
      <4>4. {Text(u[i], X, Y) : i \in 1 .. Len(u)} = {t}
        BY <2>6, <4>3
      <4>5. Firsts(u) = <<p>>
        <5>1. Firsts(ps) = <<>>
          BY <3>1, FlattenEmpty DEF Firsts
        <5>2. ~\E j \in 1 .. n : ps[j] = p
          BY <4>3
        <5>3. Firsts(u) = <<>> \o <<p>>
          BY <2>4, <5>1, <5>2
        <5>4. <<p>> \in Seq(P)
          OBVIOUS
        <5>. QED
          BY <5>3, <5>4, ConcatEmptySeq
      <4>. QED
        BY <4>1, <4>2, <4>4, <4>5
    <3>2. CASE ps # <<>>
      <4>1. PICK s \in Seq(T) : s = Q(ps)
        BY <1>0
      <4>2. PICK y, c : y = Q(u) /\ y = s \o c /\ c = <<"&">> \o t
        BY <1>0, <2>1, <3>2, <4>1
      <4>0. IsMore(T, s, t, c, y)
        BY ONLY <1>2, <2>5, <4>1, <4>2 DEF IsMore
      <4>3. /\ ParseQueryText(y)
                 = ParseQueryText(s) \o (IF t \in PiecesOf(s) THEN <<>> ELSE Given(t))
            /\ PiecesOf(y) = PiecesOf(s) \cup {t}
        BY ONLY <4>0, ParseMore
      <4>4. /\ ParseQueryText(s) = Firsts(ps)
            /\ PiecesOf(s) = {Text(ps[i], X, Y) : i \in 1 .. n}
        BY <1>4, <2>1, <3>2, <4>1
      <4>5. t \in PiecesOf(s) <=> \E j \in 1 .. n : ps[j] = p
        <5>1. \A j \in 1 .. n : ps[j] \in P
          BY <2>1, ElementOfSeq
        <5>2. \A j \in 1 .. n : Text(ps[j], X, Y) = t <=> ps[j] = p
          BY <2>1, <5>1, TextsDiffer DEF P
        <5>. QED
          BY <4>4, <5>2
      <4>6. PiecesOf(y) = {Text(u[i], X, Y) : i \in 1 .. Len(u)}
        BY <2>6, <4>3, <4>4
      <4>7. ParseQueryText(y) = Firsts(u)
        BY ONLY <2>4, <2>5, <4>3, <4>4, <4>5, Zenon
      <4>. QED
        BY <4>2, <4>6, <4>7
    <3>. QED
      BY <3>1, <3>2
  <2>. QED
    BY <2>1, <2>2, <2>7
<1>. HIDE DEF S, Right
<1>5. Seq(P) \subseteq S
  BY ONLY <1>3, <1>4, SeqInduction
<1>. QED
  BY <1>0, <1>5 DEF S, Right, Q, P, T

-----------------------------------------------------------------------------
(* What the client writes, in a form and in a target.                      *)

Pairs == Seq(Chars) \X Seq(Chars)
Signs  == Chars \cup HexDigits \cup {"%", "=", "&"}

LEMMA TwoSigns ==
    ASSUME NEW T, NEW a \in T, NEW b \in T
    PROVE  <<a, b>> \in Seq(T) /\ <<a>> \in Seq(T) /\ <<b>> \in Seq(T) /\ <<a>> \o <<b>> = <<a, b>>
<1>1. /\ <<a>> \in Seq(T) /\ <<b>> \in Seq(T) /\ <<a, b>> \in Seq(T)
      /\ Len(<<a>>) = 1 /\ Len(<<b>>) = 1 /\ Len(<<a, b>>) = 2
  OBVIOUS
<1>2. PICK s \in Seq(T) : s = <<a>> \o <<b>>
  BY <1>1, ConcatProperties
<1>3. Len(s) = 2 /\ s[1] = a /\ s[2] = b
  BY <1>1, <1>2, ConcatProperties
<1>4. \A i \in 1 .. 2 : s[i] = <<a, b>>[i]
  BY <1>3
<1>. QED
  BY <1>1, <1>2, <1>3, <1>4, SeqEqual

LEMMA TextSignsAre ==
    ASSUME NEW X \in SUBSET Chars, NEW Y \in SUBSET Chars, NEW p \in Pairs
    PROVE  Text(p, X, Y) \in Seq(Signs)
<1>1. PICK key \in Seq(Chars), value \in Seq(Chars) : p[1] = key /\ p[2] = value
  BY DEF Pairs
<1>2. HexDigits \subseteq Signs /\ "%" \in Signs /\ Chars \subseteq Signs /\ "=" \in Signs
  BY DEF Signs
<1>3. key \in Seq(Signs) /\ value \in Seq(Signs)
  BY ONLY <1>2, key \in Seq(Chars), value \in Seq(Chars), SeqWidens
<1>4. PICK a \in Seq(Signs), b \in Seq(Signs) : a = Encoded(key, X) /\ b = Encoded(value, Y)
  <2>1. Encoded(key, X) \in Seq(Signs)
    BY ONLY <1>2, <1>3, X \in SUBSET Chars, EncodedAppend
  <2>2. Encoded(value, Y) \in Seq(Signs)
    BY ONLY <1>2, <1>3, Y \in SUBSET Chars, EncodedAppend
  <2>. QED
    BY <2>1, <2>2
<1>5. <<"=">> \in Seq(Signs)
  BY <1>2
<1>6. <<"=">> \o b \in Seq(Signs)
  BY ONLY <1>5, b \in Seq(Signs), ConcatProperties
<1>7. a \o (<<"=">> \o b) \in Seq(Signs)
  BY ONLY <1>6, a \in Seq(Signs), ConcatProperties
<1>. QED
  BY <1>1, <1>4, <1>7 DEF Text

\* In a form keys are left as they are.
LEMMA QueryStrIs ==
    ASSUME NEW params \in Seq(Pairs)
    PROVE  ParamsToQueryStr(params) = Query(params, {}, Chars \ Unreserved)
<1>. DEFINE Y == Chars \ Unreserved
<1>0. Y \in SUBSET Chars /\ {} \in SUBSET Chars
  OBVIOUS
<1>1. ASSUME NEW p \in Pairs
      PROVE  p[1] \o <<"=">> \o EncodeQueryParam(p[2]) = Text(p, {}, Y)
  <2>1. PICK key \in Seq(Chars), value \in Seq(Chars) : p[1] = key /\ p[2] = value
    BY DEF Pairs
  <2>2. Encoded(key, {}) = key
    <3>1. Chars \cap {} = {}
      OBVIOUS
    <3>. QED
      BY ONLY <1>0, <3>1, key \in Seq(Chars), EncodedPlain
  <2>3. HexDigits \subseteq Signs /\ "%" \in Signs /\ Chars \subseteq Signs /\ "=" \in Signs
    BY DEF Signs
  <2>4. key \in Seq(Signs) /\ value \in Seq(Signs)
    BY ONLY <2>3, key \in Seq(Chars), value \in Seq(Chars), SeqWidens
  <2>5. PICK b \in Seq(Signs) : b = Encoded(value, Y)
    <3>1. Encoded(value, Y) \in Seq(Signs)
      BY ONLY <1>0, <2>3, <2>4, EncodedAppend
    <3>. QED
      BY <3>1
  <2>6. <<"=">> \in Seq(Signs)
    BY <2>3
  <2>7. (key \o <<"=">>) \o b = key \o (<<"=">> \o b)
    BY ONLY <2>4, <2>6, b \in Seq(Signs), ConcatAssociative
  <2>8. EncodeQueryParam(p[2]) = b
    BY <2>1, <2>5 DEF EncodeQueryParam
  <2>9. Text(p, {}, Y) = key \o (<<"=">> \o b)
    BY ONLY <2>1, <2>2, <2>5 DEF Text
  <2>. QED
    BY ONLY <2>1, <2>7, <2>8, <2>9
<1>2. PICK n \in Nat : n = Len(params) /\ DOMAIN params = 1 .. n
  BY LenProperties
<1>3. \A i \in 1 .. n : params[i] \in Pairs
  BY <1>2, ElementOfSeq
<1>. HIDE DEF Y
<1>4. PICK f, g : /\ f = [i \in 1 .. n |-> params[i][1] \o <<"=">> \o EncodeQueryParam(params[i][2])]
                  /\ g = [i \in 1 .. n |-> Text(params[i], {}, Y)]
  OBVIOUS
<1>5. f = g
  <2>1. \A i \in 1 .. n : params[i][1] \o <<"=">> \o EncodeQueryParam(params[i][2])
                            = Text(params[i], {}, Y)
    BY ONLY <1>1, <1>3
  <2>. QED
    BY <1>4, <2>1, Zenon
<1>6. ParamsToQueryStr(params) = Joined(f, "&") /\ Query(params, {}, Y) = Joined(g, "&")
  BY <1>2, <1>4, Zenon DEF ParamsToQueryStr, Query
<1>. QED
  BY <1>5, <1>6 DEF Y

\* In a target they are encoded, as far as encode_url does.
LEMMA EncodedText ==
    ASSUME NEW Y \in SUBSET Chars, NEW p \in Pairs
    PROVE  UrlEncoded(Text(p, {}, Y)) = Text(p, Escaped, Y \cup Escaped)
<1>1. PICK key \in Seq(Chars), value \in Seq(Chars) : p[1] = key /\ p[2] = value
  BY DEF Pairs
<1>2. /\ HexDigits \subseteq Signs /\ "%" \in Signs /\ Chars \subseteq Signs /\ "=" \in Signs
      /\ Escaped \in SUBSET Chars /\ {} \in SUBSET Chars
  BY CharsAssumption DEF Signs
<1>3. key \in Seq(Signs) /\ value \in Seq(Signs)
  BY ONLY <1>2, key \in Seq(Chars), value \in Seq(Chars), SeqWidens
<1>4. PICK a \in Seq(Signs), b \in Seq(Signs) : a = Encoded(key, {}) /\ b = Encoded(value, Y)
  <2>1. Encoded(key, {}) \in Seq(Signs)
    BY ONLY <1>2, <1>3, EncodedAppend
  <2>2. Encoded(value, Y) \in Seq(Signs)
    BY ONLY <1>2, <1>3, Y \in SUBSET Chars, EncodedAppend
  <2>. QED
    BY <2>1, <2>2
<1>5. Encoded(a, Escaped) = Encoded(key, Escaped) /\ Encoded(b, Escaped) = Encoded(value, Y \cup Escaped)
  <2>1. PICK none, all : none = {} /\ all = Y \cup Escaped
    OBVIOUS
  <2>2. none \in SUBSET Chars /\ none \cup Escaped = Escaped
    BY <2>1
  <2>3. UrlEncoded(Encoded(key, none)) = Encoded(key, none \cup Escaped)
    BY ONLY <2>2, key \in Seq(Chars), EncodedTwice
  <2>4. UrlEncoded(Encoded(value, Y)) = Encoded(value, Y \cup Escaped)
    BY ONLY Y \in SUBSET Chars, value \in Seq(Chars), EncodedTwice
  <2>5. UrlEncoded(a) = Encoded(a, Escaped) /\ UrlEncoded(b) = Encoded(b, Escaped)
    BY DEF UrlEncoded
  <2>6. UrlEncoded(a) = Encoded(key, Escaped)
    BY ONLY <1>4, <2>1, <2>2, <2>3
  <2>7. UrlEncoded(b) = Encoded(value, Y \cup Escaped)
    BY ONLY <1>4, <2>4
  <2>. QED
    BY ONLY <2>5, <2>6, <2>7
<1>6. PICK e : e = <<"=">> /\ e \in Seq(Signs) /\ e \in Seq({"="})
  <2>1. PICK T : T = {"="} /\ "=" \in T
    OBVIOUS
  <2>2. "=" \in Signs
    BY <1>2
  <2>3. <<"=">> \in Seq(Signs) /\ <<"=">> \in Seq(T)
    BY ONLY <2>1, <2>2, TwoSigns
  <2>. QED
    BY <2>1, <2>3
<1>7. Encoded(e, Escaped) = e
  <2>1. {"="} \cap Escaped = {}
    BY CharsAssumption
  <2>. QED
    BY ONLY <1>2, <1>6, <2>1, EncodedPlain
<1>8. PICK c \in Seq(Signs) : c = e \o b
  BY <1>6, ConcatProperties
<1>9. Encoded(c, Escaped) = Encoded(e, Escaped) \o Encoded(b, Escaped)
  BY ONLY <1>2, <1>6, <1>8, b \in Seq(Signs), EncodedConcat
<1>10. Encoded(a \o c, Escaped) = Encoded(a, Escaped) \o Encoded(c, Escaped)
  BY ONLY <1>2, a \in Seq(Signs), c \in Seq(Signs), EncodedConcat
<1>11. Text(p, {}, Y) = a \o c
  BY ONLY <1>1, <1>4, <1>6, <1>8 DEF Text
<1>12. Text(p, Escaped, Y \cup Escaped) = Encoded(key, Escaped) \o (e \o Encoded(value, Y \cup Escaped))
  BY ONLY <1>1, <1>6 DEF Text
<1>. QED
  BY ONLY <1>5, <1>7, <1>9, <1>10, <1>11, <1>12 DEF UrlEncoded

LEMMA QuerySigns ==
    ASSUME NEW Y \in SUBSET Chars, NEW params \in Seq(Pairs)
    PROVE  Query(params, {}, Y) \in Seq(Signs)
<1>1. TextsIn(Pairs, {}, Y, Signs)
  BY TextSignsAre DEF TextsIn, Signs
<1>2. \A p \in Pairs : QueryGrows(params, p, {}, Y, Signs)
  BY ONLY <1>1, params \in Seq(Pairs), QueryAppend
<1>3. << <<>>, <<>> >> \in Pairs
  <2>1. <<>> \in Seq(Chars)
    OBVIOUS
  <2>. QED
    BY <2>1 DEF Pairs
<1>. QED
  BY ONLY <1>2, <1>3 DEF QueryGrows

LEMMA EncodedQuery ==
    ASSUME NEW Y \in SUBSET Chars, NEW params \in Seq(Pairs)
    PROVE  UrlEncoded(Query(params, {}, Y)) = Query(params, Escaped, Y \cup Escaped)
<1>. DEFINE Z == Y \cup Escaped
            S == {ps \in Seq(Pairs) : UrlEncoded(Query(ps, {}, Y)) = Query(ps, Escaped, Z)}
<1>1. /\ HexDigits \subseteq Signs /\ "%" \in Signs /\ Chars \subseteq Signs /\ "&" \in Signs
      /\ Escaped \in SUBSET Chars /\ {} \in SUBSET Chars /\ Z \in SUBSET Chars
  BY CharsAssumption DEF Signs
<1>. HIDE DEF Z
<1>2. \A p \in Pairs : Text(p, {}, Y) \in Seq(Signs) /\ Text(p, Escaped, Z) \in Seq(Signs)
  BY <1>1, TextSignsAre
<1>3. ASSUME NEW ps \in Seq(Pairs), NEW p \in Pairs
      PROVE  /\ Query(ps, {}, Y) \in Seq(Signs)
             /\ Query(Append(ps, p), {}, Y)
                  = IF ps = <<>> THEN Text(p, {}, Y) ELSE Query(ps, {}, Y) \o (<<"&">> \o Text(p, {}, Y))
             /\ Query(Append(ps, p), Escaped, Z)
                  = IF ps = <<>> THEN Text(p, Escaped, Z)
                    ELSE Query(ps, Escaped, Z) \o (<<"&">> \o Text(p, Escaped, Z))
  <2>1. TextsIn(Pairs, {}, Y, Signs) /\ TextsIn(Pairs, Escaped, Z, Signs)
    BY <1>1, <1>2 DEF TextsIn
  <2>2. QueryGrows(ps, p, {}, Y, Signs) /\ QueryGrows(ps, p, Escaped, Z, Signs)
    BY ONLY <2>1, ps \in Seq(Pairs), p \in Pairs, QueryAppend
  <2>. QED
    BY <2>2 DEF QueryGrows
<1>4. <<>> \in S
  <2>1. \A X, W : Query(<<>>, X, W) = <<>>
    BY FlattenEmpty DEF Query, Joined
  <2>2. UrlEncoded(<<>>) = <<>>
    BY FlattenEmpty DEF UrlEncoded, Encoded
  <2>3. <<>> \in Seq(Pairs)
    OBVIOUS
  <2>. QED
    BY <2>1, <2>2, <2>3
<1>5. ASSUME NEW ps \in Seq(Pairs), NEW p \in Pairs, ps \in S PROVE Append(ps, p) \in S
  <2>1. PICK q, t, z : q = Query(ps, {}, Y) /\ t = Text(p, {}, Y) /\ z = <<"&">>
    OBVIOUS
  <2>2. q \in Seq(Signs) /\ t \in Seq(Signs) /\ z \in Seq(Signs) /\ z \in Seq({"&"})
    BY <1>1, <1>2, <1>3, <2>1
  <2>3. PICK c \in Seq(Signs) : c = z \o t
    BY <2>2, ConcatProperties
  <2>4. Encoded(z, Escaped) = z
    <3>1. {"&"} \cap Escaped = {}
      BY CharsAssumption
    <3>. QED
      BY ONLY <1>1, <2>2, <3>1, EncodedPlain
  <2>5. Encoded(c, Escaped) = Encoded(z, Escaped) \o Encoded(t, Escaped)
    BY ONLY <1>1, <2>2, <2>3, EncodedConcat
  <2>6. Encoded(q \o c, Escaped) = Encoded(q, Escaped) \o Encoded(c, Escaped)
    BY ONLY <1>1, <2>2, c \in Seq(Signs), EncodedConcat
  <2>7. Encoded(t, Escaped) = Text(p, Escaped, Z)
    BY <2>1, EncodedText DEF Z, UrlEncoded
  <2>8. Encoded(q, Escaped) = Query(ps, Escaped, Z)
    BY <1>5, <2>1 DEF UrlEncoded
  <2>9. Append(ps, p) \in Seq(Pairs)
    BY AppendProperties
  <2>10. Encoded(Query(Append(ps, p), {}, Y), Escaped) = Query(Append(ps, p), Escaped, Z)
    <3>1. CASE ps = <<>>
      BY ONLY <1>3, <2>1, <2>7, <3>1, ps \in Seq(Pairs), p \in Pairs
    <3>2. CASE ps # <<>>
      <4>1. Query(Append(ps, p), {}, Y) = q \o c
        BY ONLY <1>3, <2>1, <2>3, <3>2, ps \in Seq(Pairs), p \in Pairs
      <4>2. Query(Append(ps, p), Escaped, Z) = Encoded(q, Escaped) \o (z \o Encoded(t, Escaped))
        BY ONLY <1>3, <2>1, <2>7, <2>8, <3>2, ps \in Seq(Pairs), p \in Pairs
      <4>. QED
        BY ONLY <2>4, <2>5, <2>6, <4>1, <4>2
    <3>. QED
      BY <3>1, <3>2
  <2>. QED
    BY <2>9, <2>10 DEF UrlEncoded
<1>. HIDE DEF S
<1>6. Seq(Pairs) \subseteq S
  BY ONLY <1>4, <1>5, SeqInduction
<1>. QED
  BY <1>6 DEF S, Z

-----------------------------------------------------------------------------
(* The server gets the parameters.                                         *)

LEMMA SeqNarrows ==
    ASSUME NEW T, NEW K, NEW s \in Seq(T), \A i \in DOMAIN s : s[i] \in K
    PROVE  s \in Seq(K)
<1>1. PICK n \in Nat : n = Len(s) /\ DOMAIN s = 1 .. n
  BY LenProperties
<1>2. s \in [1 .. n -> T]
  BY <1>1, LenProperties
<1>3. s \in [1 .. n -> K]
  BY <1>1, <1>2
<1>. QED
  BY ONLY <1>3, n \in Nat, FunctionIsSeq

LEMMA KeysSurvive ==
    ASSUME NEW params \in Seq(Pairs)
    PROVE  /\ (\A i \in DOMAIN params : KeySurvives(params[i][1])) => params \in Seq(Surviving(Escaped))
           /\ (\A i \in DOMAIN params : KeySurvivesForm(params[i][1])) => params \in Seq(Surviving({}))
<1>1. \A i \in DOMAIN params : params[i] \in Pairs
  <2>1. DOMAIN params = 1 .. Len(params)
    BY LenProperties
  <2>. QED
    BY <2>1, ElementOfSeq
<1>2. ASSUME NEW p \in Pairs, KeySurvives(p[1]) PROVE p \in Surviving(Escaped)
  <2>1. PICK key \in Seq(Chars), value \in Seq(Chars) : p = <<key, value>>
    BY DEF Pairs
  <2>2. /\ key # <<>> /\ key[1] # "TAB"
        /\ \A i \in DOMAIN key : key[i] \notin {"&", "=", "%", "#", "NUL"}
    BY <1>2, <2>1 DEF KeySurvives
  <2>3. DOMAIN key = 1 .. Len(key) /\ \A i \in 1 .. Len(key) : key[i] \in Chars
    BY LenProperties, ElementOfSeq
  <2>4. \A i \in DOMAIN key : key[i] \in KeyChars(Escaped)
    BY <2>2, <2>3, CharsAssumption DEF KeyChars
  <2>5. key \in Seq(KeyChars(Escaped))
    BY ONLY <2>4, key \in Seq(Chars), SeqNarrows
  <2>6. key[1] \in Blanks => key[1] \in Escaped
    BY <2>2, CharsAssumption DEF Blanks
  <2>. QED
    BY <2>1, <2>2, <2>5, <2>6 DEF Surviving
<1>3. ASSUME NEW p \in Pairs, KeySurvivesForm(p[1]) PROVE p \in Surviving({})
  <2>1. PICK key \in Seq(Chars), value \in Seq(Chars) : p = <<key, value>>
    BY DEF Pairs
  <2>2. /\ key # <<>> /\ key[1] # "TAB" /\ key[1] # " "
        /\ \A i \in DOMAIN key : key[i] \notin {"&", "=", "%", "#", "NUL"} /\ key[i] # "+"
    BY <1>3, <2>1 DEF KeySurvivesForm, KeySurvives
  <2>3. DOMAIN key = 1 .. Len(key) /\ \A i \in 1 .. Len(key) : key[i] \in Chars
    BY LenProperties, ElementOfSeq
  <2>4. \A i \in DOMAIN key : key[i] \in KeyChars({})
    BY <2>2, <2>3 DEF KeyChars
  <2>5. key \in Seq(KeyChars({}))
    BY ONLY <2>4, key \in Seq(Chars), SeqNarrows
  <2>6. key[1] \notin Blanks
    BY <2>2 DEF Blanks
  <2>. QED
    BY <2>1, <2>2, <2>5, <2>6 DEF Surviving
<1>4. (\A i \in DOMAIN params : KeySurvives(params[i][1]))
        => \A i \in DOMAIN params : params[i] \in Surviving(Escaped)
  BY <1>1, <1>2
<1>5. (\A i \in DOMAIN params : KeySurvivesForm(params[i][1]))
        => \A i \in DOMAIN params : params[i] \in Surviving({})
  BY <1>1, <1>3
<1>. QED
  BY <1>4, <1>5, SeqNarrows

\* The parameters whose keys have no NUL make a text without one, which
\* encode_url goes through to its end.
PlainKeys == Seq(Chars \ {"NUL"}) \X Seq(Chars)

LEMMA WithoutNul ==
    ASSUME NEW params \in Seq(PlainKeys), NEW pm, pm = <<"p", "?">>
    PROVE  EncodeUrl(pm \o Query(params, {}, Chars \ Unreserved))
             = UrlEncoded(pm \o Query(params, {}, Chars \ Unreserved))
<1>1. PICK Y, Z : Y = Chars \ Unreserved /\ Z = Signs \ {"NUL"}
  OBVIOUS
<1>2. /\ HexDigits \cup {"%", "=", "&"} \subseteq Z /\ Chars \ {"NUL"} \subseteq Z
      /\ Y \in SUBSET Chars /\ {} \in SUBSET Chars /\ Chars \ Y \subseteq Z
  BY <1>1, CharsAssumption DEF Signs
<1>3. ASSUME NEW p \in PlainKeys PROVE Text(p, {}, Y) \in Seq(Z)
  <2>1. PICK key \in Seq(Chars \ {"NUL"}), value \in Seq(Chars) : p[1] = key /\ p[2] = value
    BY DEF PlainKeys
  <2>2. PICK a, b : a = Encoded(key, {}) /\ b = Encoded(value, Y)
    OBVIOUS
  <2>3. PICK A, B : /\ A = ((Chars \ {"NUL"}) \ {}) \cup HexDigits \cup {"%"}
                    /\ B = (Chars \ Y) \cup HexDigits \cup {"%"}
    OBVIOUS
  <2>4. Chars \ {"NUL"} \subseteq Chars
    OBVIOUS
  <2>5. a \in Seq(A)
    BY ONLY <1>2, <2>2, <2>3, <2>4, key \in Seq(Chars \ {"NUL"}), EncodedSigns
  <2>6. b \in Seq(B)
    BY ONLY <1>2, <2>2, <2>3, value \in Seq(Chars), EncodedSigns
  <2>7. A \subseteq Z /\ B \subseteq Z
    BY ONLY <1>2, <2>3
  <2>8. a \in Seq(Z) /\ b \in Seq(Z)
    BY ONLY <2>5, <2>6, <2>7, SeqWidens
  <2>9. <<"=">> \in Seq(Z)
    BY <1>2
  <2>10. <<"=">> \o b \in Seq(Z)
    BY ONLY <2>8, <2>9, ConcatProperties
  <2>11. a \o (<<"=">> \o b) \in Seq(Z)
    BY ONLY <2>8, <2>10, ConcatProperties
  <2>. QED
    BY <2>1, <2>2, <2>11 DEF Text
<1>4. Query(params, {}, Y) \in Seq(Z)
  <2>1. TextsIn(PlainKeys, {}, Y, Z)
    BY <1>2, <1>3 DEF TextsIn
  <2>2. \A p \in PlainKeys : QueryGrows(params, p, {}, Y, Z)
    BY ONLY <2>1, params \in Seq(PlainKeys), QueryAppend
  <2>3. << <<>>, <<>> >> \in PlainKeys
    <3>1. <<>> \in Seq(Chars) /\ <<>> \in Seq(Chars \ {"NUL"})
      OBVIOUS
    <3>. QED
      BY <3>1 DEF PlainKeys
  <2>. QED
    BY ONLY <2>2, <2>3 DEF QueryGrows
<1>5. PICK T, x : T = Z \cup {"p", "?", "NUL"} /\ x = Query(params, {}, Y)
  OBVIOUS
<1>6. /\ Z \subseteq T \ {"NUL"} /\ "p" \in T \ {"NUL"} /\ "?" \in T \ {"NUL"}
      /\ "NUL" \in T
  BY <1>1, <1>5
<1>7. pm \o x \in Seq(T \ {"NUL"})
  <2>1. x \in Seq(T \ {"NUL"})
    BY ONLY <1>4, <1>5, <1>6, SeqWidens
  <2>2. pm \in Seq(T \ {"NUL"})
    BY ONLY <1>6, TwoSigns, pm = <<"p", "?">>
  <2>. QED
    BY ONLY <2>1, <2>2, ConcatProperties
<1>8. Divided(pm \o x, "NUL")[1] = pm \o x
  <2>1. Divided(pm \o x, "NUL") = <<pm \o x, <<>>>>
    <3>1. <<>> \in Seq(T)
      OBVIOUS
    <3>. QED
      BY ONLY <1>6, <1>7, <3>1, DividedIs
  <2>. QED
    BY <2>1
<1>. QED
  BY ONLY <1>1, <1>5, <1>8 DEF EncodeUrl, UrlEncoded

\* The parameters of a target are what stands behind its question mark.
LEMMA TargetDivided ==
    ASSUME NEW q \in Seq(TextSigns)
    PROVE  LET target == UrlEncoded(<<"p", "?">>) \o q
           IN  Divided(Divided(target, "#")[1], "?")[2] = q
<1>1. PICK p, m, pm : p = <<"p">> /\ m = <<"?">> /\ pm = <<"p", "?">>
  OBVIOUS
<1>2. UrlEncoded(pm) = pm
  <2>0. PICK T : T = {"p", "?"}
    OBVIOUS
  <2>1. T \cap Escaped = {} /\ Escaped \in SUBSET Chars /\ pm \in Seq(T)
    <3>1. "p" \in T /\ "?" \in T
      BY <2>0
    <3>. QED
      BY <1>1, <2>0, <3>1, TwoSigns, CharsAssumption
  <2>2. Encoded(pm, Escaped) = pm
    BY ONLY <2>1, EncodedPlain
  <2>. QED
    BY <2>2 DEF UrlEncoded
<1>3. PICK T : T = TextSigns \cup {"p", "?", "#"}
  OBVIOUS
<1>4. /\ TextSigns \subseteq T \ {"#"} /\ T \ {"#"} \subseteq T
      /\ {"p", "?"} \subseteq T \ {"#"} /\ "#" \in T /\ "?" \in T /\ "p" \in T \ {"?"}
  BY <1>3 DEF TextSigns, TextChars
<1>5. q \in Seq(T \ {"#"}) /\ pm \in Seq(T \ {"#"}) /\ m \in Seq(T \ {"#"}) /\ p \in Seq(T \ {"#"})
  <2>1. q \in Seq(T \ {"#"})
    BY ONLY <1>4, q \in Seq(TextSigns), SeqWidens
  <2>. QED
    BY <1>1, <1>4, <2>1
<1>6. PICK c, y : c = m \o q /\ y = pm \o q
  OBVIOUS
<1>7. c \in Seq(T \ {"#"}) /\ y \in Seq(T \ {"#"})
  BY ONLY <1>5, <1>6, ConcatProperties
<1>8. y = p \o c
  <2>1. p \o m = pm
    <3>1. "p" \in T /\ "?" \in T
      BY <1>4
    <3>2. <<"p">> \o <<"?">> = <<"p", "?">>
      BY ONLY <3>1, TwoSigns
    <3>. QED
      BY <1>1, <3>2
  <2>2. (p \o m) \o q = p \o (m \o q)
    BY ONLY <1>5, ConcatAssociative
  <2>. QED
    BY <1>6, <2>1, <2>2
<1>9. Divided(y, "#")[1] = y
  <2>1. Divided(y, "#") = <<y, <<>>>>
    <3>1. <<>> \in Seq(T)
      OBVIOUS
    <3>. QED
      BY ONLY <1>4, <1>7, <3>1, DividedIs
  <2>. QED
    BY <2>1
<1>10. Divided(y, "?")[2] = q
  <2>1. q \in Seq(T)
    BY ONLY <1>4, <1>5, SeqWidens
  <2>2. p \in Seq(T \ {"?"})
    BY <1>1, <1>4
  <2>3. Divided(p \o (<<"?">> \o q), "?") = <<p, q>>
    BY ONLY <1>4, <2>1, <2>2, DividedIs
  <2>4. Divided(y, "?") = <<p, q>>
    BY ONLY <1>1, <1>6, <1>8, <2>3
  <2>. QED
    BY <2>4
<1>. QED
  BY <1>1, <1>2, <1>6, <1>9, <1>10

\* The parameters that the client is given are the parameters that the server
\* gets, in a target and in a form, whatever characters their values are made
\* of: what encode_query_param, params_to_query_str and encode_url write is
\* what divide, split, trim, decode_url and parse_query_text read.
THEOREM ParametersAsMeant ==
    ASSUME NEW params \in Seq(Seq(Chars) \X Seq(Chars))
    PROVE  ParamsSurvive(params)
<1>0. params \in Seq(Pairs)
  BY DEF Pairs
<1>1. PICK Y \in SUBSET Chars : Y = Chars \ Unreserved
  OBVIOUS
<1>2. AreEncoded({}, Y) /\ AreEncoded(Escaped, Y \cup Escaped)
  BY <1>1, CharsAssumption DEF AreEncoded
<1>3. ParamsToQueryStr(params) = Query(params, {}, Y)
  BY <1>0, <1>1, QueryStrIs
<1>4. ASSUME \A i \in DOMAIN params : KeySurvivesForm(params[i][1])
      PROVE  ParseQueryText(ParamsToQueryStr(params)) = Firsts(params)
  <2>1. params \in Seq(Surviving({}))
    BY <1>0, <1>4, KeysSurvive
  <2>2. ParseQueryText(Query(params, {}, Y)) = Firsts(params)
    BY ONLY <1>2, <2>1, QueryParsed
  <2>. QED
    BY <1>3, <2>2
<1>5. ASSUME \A i \in DOMAIN params : KeySurvives(params[i][1])
      PROVE  ParamsOfTarget(Target(params)) = Firsts(params)
  <2>1. params \in Seq(Surviving(Escaped))
    BY <1>0, <1>5, KeysSurvive
  <2>2. PICK q : q = Query(params, Escaped, Y \cup Escaped)
    OBVIOUS
  <2>3. ParseQueryText(q) = Firsts(params) /\ q \in Seq(TextSigns)
    BY ONLY <1>2, <2>1, <2>2, QueryParsed
  <2>4. PICK pm, x : pm = <<"p", "?">> /\ x = Query(params, {}, Y)
    OBVIOUS
  <2>5. UrlEncoded(x) = q
    BY ONLY <1>0, <2>2, <2>4, Y \in SUBSET Chars, EncodedQuery
  <2>6. UrlEncoded(pm \o x) = UrlEncoded(pm) \o UrlEncoded(x)
    <3>1. PICK T : T = Signs \cup {"p", "?"}
      OBVIOUS
    <3>2. /\ HexDigits \subseteq T /\ "%" \in T /\ Signs \subseteq T /\ pm \in Seq(T)
          /\ Escaped \in SUBSET Chars
      <4>1. "p" \in T /\ "?" \in T
        BY <3>1
      <4>2. pm \in Seq(T)
        BY ONLY <2>4, <4>1, TwoSigns
      <4>. QED
        BY <3>1, <4>2, CharsAssumption DEF Signs
    <3>3. x \in Seq(Signs)
      BY ONLY <1>0, <2>4, Y \in SUBSET Chars, QuerySigns
    <3>4. x \in Seq(T)
      BY ONLY <3>2, <3>3, SeqWidens
    <3>5. Encoded(pm \o x, Escaped) = Encoded(pm, Escaped) \o Encoded(x, Escaped)
      BY ONLY <3>2, <3>4, EncodedConcat
    <3>. QED
      BY <3>5 DEF UrlEncoded
  <2>7. Target(params) = UrlEncoded(<<"p", "?">>) \o q
    <3>1. ASSUME NEW i \in DOMAIN params PROVE params[i] \in PlainKeys
      <4>1. params[i] \in Pairs /\ KeySurvives(params[i][1])
        BY <1>0, <1>5, LenProperties, ElementOfSeq
      <4>2. PICK key \in Seq(Chars), value \in Seq(Chars) : params[i] = <<key, value>>
        BY <4>1 DEF Pairs
      <4>3. \A j \in DOMAIN key : key[j] \in Chars \ {"NUL"}
        <5>1. DOMAIN key = 1 .. Len(key) /\ \A j \in 1 .. Len(key) : key[j] \in Chars
          BY LenProperties, ElementOfSeq
        <5>. QED
          BY <4>1, <4>2, <5>1 DEF KeySurvives
      <4>4. key \in Seq(Chars \ {"NUL"})
        BY ONLY <4>3, key \in Seq(Chars), SeqNarrows
      <4>. QED
        BY <4>2, <4>4 DEF PlainKeys
    <3>2. params \in Seq(PlainKeys)
      BY ONLY <1>0, <3>1, SeqNarrows
    <3>3. EncodeUrl(pm \o x) = UrlEncoded(pm \o x)
      BY ONLY <1>1, <2>4, <3>2, WithoutNul
    <3>. QED
      BY <1>3, <2>4, <2>5, <2>6, <3>3 DEF Target
  <2>8. Divided(Divided(UrlEncoded(<<"p", "?">>) \o q, "#")[1], "?")[2] = q
    BY ONLY <2>3, TargetDivided
  <2>9. ParamsOfTarget(Target(params)) = ParseQueryText(q)
    BY ONLY <2>7, <2>8 DEF ParamsOfTarget
  <2>. QED
    BY <2>3, <2>9
<1>. QED
  BY <1>4, <1>5 DEF ParamsSurvive
=============================================================================
