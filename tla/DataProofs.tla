------------------------------ MODULE DataProofs ------------------------------
(***************************************************************************)
(* Facts about the data of the models that need an induction: over the     *)
(* natural numbers, over a function that is defined by recursion, and over *)
(* finite sets.  An induction is one over a set, the set of the numbers    *)
(* for which the fact holds.                                               *)
(***************************************************************************)
EXTENDS Integers, Sequences, FiniteSetTheorems, SequenceTheorems,
        WellFoundedInduction, TLAPS

(* A set of numbers has a smallest one.                                    *)
LEMMA SmallestNat ==
  ASSUME NEW S \in SUBSET Nat, S # {}
  PROVE  \E n \in S : \A m \in S : n <= m
<1>1. IsWellFoundedOn(OpToRel(<, Nat), Nat)
  BY NatLessThanWellFounded
<1>2. PICK n \in S : \A m \in S : <<m, n>> \notin OpToRel(<, Nat)
  BY <1>1, WFMin
<1>3. \A m \in S : ~(m < n)
  BY <1>2 DEF OpToRel
<1> QED
  BY <1>3

(* Induction.                                                              *)
LEMMA Induction ==
  ASSUME NEW S, 0 \in S, \A n \in Nat : n \in S => n + 1 \in S
  PROVE  Nat \subseteq S
<1> SUFFICES ASSUME Nat \ S # {} PROVE FALSE
  OBVIOUS
<1>1. PICK n \in Nat \ S : \A m \in Nat \ S : n <= m
  BY SmallestNat
<1>2. n # 0 /\ n - 1 \in Nat /\ n - 1 \in S
  BY <1>1
<1> QED
  BY <1>1, <1>2

(* Induction up to a number.                                               *)
LEMMA BoundedInduction ==
  ASSUME NEW n \in Nat, NEW S, 0 \in S, \A i \in 0..n : i \in S /\ i < n => i + 1 \in S
  PROVE  0..n \subseteq S
<1> DEFINE T == {i \in Nat : i <= n => i \in S}
<1>1. 0 \in T /\ \A i \in Nat : i \in T => i + 1 \in T
  OBVIOUS
<1> HIDE DEF T
<1>2. Nat \subseteq T
  BY <1>1, Induction
<1> QED
  BY <1>2 DEF T

(* f is the function on 0..n that is base at 0 and follows the steps from  *)
(* there.                                                                  *)
Recurses(f, n, V, base, steps) ==
  /\ f \in [0..n -> V] /\ f[0] = base
  /\ \A i \in 1..n : f[i] = steps[i][f[i - 1]]

(* There is such a function.                                               *)
LEMMA Recursion ==
  ASSUME NEW n \in Nat, NEW V, NEW base \in V, NEW steps \in [1..n -> [V -> V]]
  PROVE  \E f : Recurses(f, n, V, base, steps)
<1> DEFINE S == {k \in 0..n : \E f : Recurses(f, k, V, base, steps)}
<1>1. 0 \in S
  <2>1. Recurses([i \in 0..0 |-> base], 0, V, base, steps)
    BY DEF Recurses
  <2> QED
    BY <2>1
<1>2. ASSUME NEW k \in 0..n, k \in S, k < n PROVE k + 1 \in S
  <2>1. PICK f : Recurses(f, k, V, base, steps)
    BY <1>2
  <2> DEFINE g == [i \in 0..(k + 1) |-> IF i <= k THEN f[i] ELSE steps[k + 1][f[k]]]
  <2>2. k + 1 \in 1..n /\ f \in [0..k -> V] /\ f[k] \in V /\ steps[k + 1][f[k]] \in V
    BY <1>2, <2>1 DEF Recurses
  <2>3. g \in [0..(k + 1) -> V]
    BY <2>2
  <2>4. g[k] = f[k] /\ g[k + 1] = steps[k + 1][g[k]] /\ g[0] = base
    BY <2>1, <2>2 DEF Recurses
  <2>5. ASSUME NEW i \in 1..k PROVE g[i] = steps[i][g[i - 1]]
    <3>1. i - 1 \in 0..k /\ i \in 0..k /\ i <= k /\ i - 1 <= k /\ i # k + 1
      OBVIOUS
    <3> QED
      BY <2>1, <3>1 DEF Recurses
  <2>6. \A i \in 1..(k + 1) : i \in 1..k \/ (i = k + 1 /\ i - 1 = k)
    OBVIOUS
  <2> HIDE DEF g
  <2>7. Recurses(g, k + 1, V, base, steps)
    BY <2>3, <2>4, <2>5, <2>6 DEF Recurses
  <2> QED
    BY <1>2, <2>7
<1>3. 0..n \subseteq S
  <2> HIDE DEF S
  <2> QED
    BY <1>1, <1>2, BoundedInduction
<1> QED
  BY <1>3

(* What a recursion reaches.                                               *)
LEMMA RecursionStays ==
  ASSUME NEW n \in Nat, NEW V, NEW g, g[0] \in V, \A i \in 1..n : g[i - 1] \in V => g[i] \in V
  PROVE  \A i \in 0..n : g[i] \in V
<1> DEFINE S == {i \in 0..n : g[i] \in V}
<1>1. 0 \in S
  OBVIOUS
<1>2. ASSUME NEW i \in 0..n, i \in S, i < n PROVE i + 1 \in S
  <2>1. i + 1 \in 1..n /\ (i + 1) - 1 = i
    BY <1>2
  <2> QED
    BY <1>2, <2>1
<1>3. 0..n \subseteq S
  <2> HIDE DEF S
  <2> QED
    BY <1>1, <1>2, BoundedInduction
<1> QED
  BY <1>3

-----------------------------------------------------------------------------
(* c is the concatenation of the sequences s[1], s[2], ..., piece by piece.*)
Concatenates(c, s, n, V) ==
  /\ c \in [0..n -> Seq(V)] /\ c[0] = <<>>
  /\ \A i \in 1..n : c[i] = c[i - 1] \o s[i]

LEMMA Concatenation ==
  ASSUME NEW n \in Nat, NEW V, NEW s \in [1..n -> Seq(V)]
  PROVE  \E c : Concatenates(c, s, n, V)
<1> DEFINE steps == [i \in 1..n |-> [t \in Seq(V) |-> t \o s[i]]]
<1>1. <<>> \in Seq(V) /\ steps \in [1..n -> [Seq(V) -> Seq(V)]]
  OBVIOUS
<1>2. \E c : Recurses(c, n, Seq(V), <<>>, steps)
  <2> HIDE DEF steps
  <2> QED
    BY <1>1, Recursion
<1>3. PICK c : Recurses(c, n, Seq(V), <<>>, steps)
  BY <1>2
<1>4. ASSUME NEW i \in 1..n PROVE c[i] = c[i - 1] \o s[i]
  <2>1. c[i - 1] \in Seq(V)
    BY <1>3 DEF Recurses
  <2> QED
    BY <1>3, <2>1 DEF Recurses
<1>5. Concatenates(c, s, n, V)
  BY <1>3, <1>4 DEF Concatenates, Recurses
<1> QED
  BY <1>5

(* What the library's FlattenSeq computes.                                 *)
Flattened(s, n) == (CHOOSE g : g = [i \in 1..n |-> IF i = 1 THEN s[i] ELSE g[i - 1] \o s[i]])[n]

LEMMA FlattenedIs ==
  ASSUME NEW V, NEW n \in Nat \ {0}, NEW s \in [1..n -> Seq(V)], NEW c, Concatenates(c, s, n, V)
  PROVE  Flattened(s, n) = c[n]
<1> DEFINE Body(g) == [i \in 1..n |-> IF i = 1 THEN s[i] ELSE g[i - 1] \o s[i]]
           flat == CHOOSE g : g = Body(g)
           d == [i \in 1..n |-> c[i]]
<1>1. Flattened(s, n) = flat[n]
  BY DEF Flattened
<1>2. d = Body(d)
  <2>1. ASSUME NEW i \in 1..n PROVE d[i] = IF i = 1 THEN s[i] ELSE d[i - 1] \o s[i]
    <3>1. c[i] = c[i - 1] \o s[i] /\ d[i] = c[i]
      BY DEF Concatenates
    <3>2. CASE i = 1
      <4>1. i - 1 = 0 /\ c[0] = <<>> /\ s[i] \in Seq(V)
        BY <3>2 DEF Concatenates
      <4>2. <<>> \o s[i] = s[i]
        BY <4>1, ConcatEmptySeq
      <4> QED
        BY <3>1, <3>2, <4>1, <4>2
    <3>3. CASE i # 1
      <4>1. i - 1 \in 1..n
        BY <3>3
      <4> QED
        BY <3>1, <3>3, <4>1
    <3> QED
      BY <3>2, <3>3
  <2> QED
    BY <2>1
<1>3. flat = Body(flat)
  <2> HIDE DEF Body, d
  <2> QED
    BY <1>2
<1>4. ASSUME NEW i \in 1..n PROVE flat[i] = IF i = 1 THEN s[i] ELSE flat[i - 1] \o s[i]
  <2> HIDE DEF flat
  <2>1. flat[i] = Body(flat)[i]
    BY <1>3
  <2> QED
    BY <2>1
<1> HIDE DEF flat, Body, d
<1> DEFINE S == {i \in 0..n : i # 0 => flat[i] = c[i]}
<1>5. 0 \in S
  OBVIOUS
<1>6. ASSUME NEW i \in 0..n, i \in S, i < n PROVE i + 1 \in S
  <2> DEFINE j == i + 1
  <2>1. j \in 1..n /\ j - 1 = i
    BY <1>6
  <2>2. c[j] = c[i] \o s[j] /\ s[j] \in Seq(V)
    BY <2>1 DEF Concatenates
  <2>3. flat[j] = IF j = 1 THEN s[j] ELSE flat[i] \o s[j]
    BY <1>4, <2>1
  <2>4. flat[j] = c[j] => j \in S
    BY <2>1
  <2> SUFFICES flat[j] = c[j]
    BY <2>4
  <2> HIDE DEF j, S
  <2>5. CASE j = 1
    <3>1. c[i] = <<>> /\ <<>> \o s[j] = s[j]
      BY <2>1, <2>2, <2>5, ConcatEmptySeq DEF Concatenates
    <3> QED
      BY <2>1, <2>2, <2>3, <2>5, <3>1
  <2>6. CASE j # 1
    <3>1. i # 0
      BY <2>1, <2>6
    <3>2. flat[i] = c[i]
      BY <1>6, <3>1 DEF S
    <3> QED
      BY <2>2, <2>3, <2>6, <3>2
  <2> QED
    BY <2>5, <2>6
<1>7. 0..n \subseteq S
  <2> HIDE DEF S
  <2> QED
    BY <1>5, <1>6, BoundedInduction
<1>8. n \in S
  BY <1>7
<1> QED
  BY <1>1, <1>8

LEMMA AppendedLast ==
  ASSUME NEW V, NEW s \in Seq(V), NEW t \in Seq(V), NEW x \in V
  PROVE  s \o Append(t, x) = Append(s \o t, x)
<1>1. <<x>> \in Seq(V) /\ s \o t \in Seq(V)
  OBVIOUS
<1>2. s \o (t \o <<x>>) = (s \o t) \o <<x>>
  BY <1>1, ConcatAssociative
<1> QED
  BY <1>1, <1>2, AppendIsConcat

(* Nothing is the concatenation of nothing.                                *)
LEMMA EmptyConcatenation ==
  ASSUME NEW n \in Nat, NEW V, NEW s, NEW c, Concatenates(c, s, n, V),
         \A i \in 1..n : s[i] = <<>>
  PROVE  c[n] = <<>>
<1>1. c[0] \in {<<>>} /\ \A i \in 1..n : c[i - 1] \in {<<>>} => c[i] \in {<<>>}
  <2>1. c[0] = <<>>
    BY DEF Concatenates
  <2>2. ASSUME NEW i \in 1..n, c[i - 1] = <<>> PROVE c[i] = <<>>
    <3>1. c[i] = c[i - 1] \o s[i] /\ s[i] = <<>>
      BY DEF Concatenates
    <3>2. c[i] = <<>> \o <<>>
      BY <2>2, <3>1
    <3> QED
      BY <3>2
  <2> QED
    BY <2>1, <2>2
<1>2. \A i \in 0..n : c[i] \in {<<>>}
  <2> DEFINE V0 == {<<>>}
  <2>1. c[0] \in V0 /\ \A i \in 1..n : c[i - 1] \in V0 => c[i] \in V0
    BY <1>1
  <2> HIDE DEF V0
  <2>2. \A i \in 0..n : c[i] \in V0
    BY <2>1, RecursionStays
  <2> QED
    BY <2>2 DEF V0
<1> QED
  BY <1>2

(* t is s, except that x is appended to s[k], which only empty sequences   *)
(* follow.                                                                 *)
AppendedAt(s, t, n, k, x) ==
  /\ t[k] = Append(s[k], x)
  /\ \A i \in 1..n : /\ i # k => t[i] = s[i]
                     /\ i > k => s[i] = <<>>

(* The concatenation c is b with x appended.                               *)
LastAppended(b, c, n, x) == c[n] = Append(b[n], x)

(* What is appended to a sequence that only empty ones follow is appended  *)
(* to the concatenation.                                                   *)
LEMMA AppendedConcatenation ==
  ASSUME NEW n \in Nat, NEW V, NEW s \in [1..n -> Seq(V)], NEW t \in [1..n -> Seq(V)],
         NEW b, NEW c, Concatenates(b, s, n, V), Concatenates(c, t, n, V),
         NEW k \in 1..n, NEW x \in V, AppendedAt(s, t, n, k, x)
  PROVE  LastAppended(b, c, n, x)
<1>1. b \in [0..n -> Seq(V)] /\ c \in [0..n -> Seq(V)] /\ c[0] = <<>> /\ b[0] = <<>>
  BY DEF Concatenates
<1>2. ASSUME NEW i \in 1..n PROVE /\ c[i] = c[i - 1] \o t[i] /\ b[i] = b[i - 1] \o s[i]
                                  /\ b[i - 1] \in Seq(V) /\ s[i] \in Seq(V)
  <2>1. i - 1 \in 0..n
    OBVIOUS
  <2>2. b[i - 1] \in Seq(V)
    BY <1>1, <2>1
  <2> QED
    BY <2>2 DEF Concatenates
<1> DEFINE S == {i \in 0..n : /\ i < k => c[i] = b[i]
                              /\ i >= k => c[i] = Append(b[i], x)}
<1>3. 0 \in S
  BY <1>1
<1>4. ASSUME NEW i \in 0..n, i \in S, i < n PROVE i + 1 \in S
  <2> DEFINE j == i + 1
  <2>1. j \in 1..n /\ j - 1 = i
    BY <1>4
  <2>2. /\ t[k] = Append(s[k], x)
        /\ j # k => t[j] = s[j]
        /\ j > k => s[j] = <<>>
    BY <2>1 DEF AppendedAt
  <2>3. /\ c[j] = c[i] \o t[j] /\ b[j] = b[i] \o s[j]
        /\ b[i] \in Seq(V) /\ s[j] \in Seq(V)
    BY <1>2, <2>1
  <2>4. i < k => c[i] = b[i]
    BY <1>4
  <2>5. i >= k => c[i] = Append(b[i], x)
    BY <1>4
  <2>6. i < k <=> j <= k
    OBVIOUS
  <2> HIDE DEF j
  <2>7. ASSUME j < k PROVE c[j] = b[j]
    <3>1. c[i] = b[i] /\ t[j] = s[j]
      BY <2>1, <2>2, <2>4, <2>6, <2>7
    <3> QED
      BY <2>3, <3>1
  <2>8. ASSUME j = k PROVE c[j] = Append(b[j], x)
    <3>1. c[i] = b[i] /\ t[j] = Append(s[j], x)
      BY <2>2, <2>4, <2>6, <2>8
    <3>2. b[i] \o Append(s[j], x) = Append(b[i] \o s[j], x)
      <4>1. \A u, w \in Seq(V) : u \o Append(w, x) = Append(u \o w, x)
        BY AppendedLast
      <4> QED
        BY <2>3, <4>1, Zenon
    <3> QED
      BY <2>3, <3>1, <3>2
  <2>9. ASSUME j > k PROVE c[j] = Append(b[j], x)
    <3>1. i >= k /\ j # k
      BY <2>1, <2>6, <2>9
    <3>2. c[i] = Append(b[i], x) /\ t[j] = <<>> /\ s[j] = <<>>
      BY <2>1, <2>2, <2>5, <2>9, <3>1
    <3>3. b[j] = b[i]
      BY <2>3, <3>2
    <3>4. Append(b[i], x) \in Seq(V)
      BY <2>3
    <3>5. c[j] = Append(b[i], x) \o <<>>
      BY <2>3, <3>2
    <3> QED
      BY <3>3, <3>4, <3>5
  <2>10. j \in S
    BY <2>1, <2>7, <2>8, <2>9
  <2> QED
    BY <2>10 DEF j
<1>5. 0..n \subseteq S
  <2> HIDE DEF S
  <2> QED
    BY <1>3, <1>4, BoundedInduction
<1>6. n \in S /\ n >= k
  BY <1>5
<1> QED
  BY <1>6 DEF LastAppended

-----------------------------------------------------------------------------
(* Sums over finite sets.  A fold takes the elements in the order in which *)
(* CHOOSE picks them; the sum does not depend on it.                       *)
Pick(s) == CHOOSE x \in s : TRUE

(* g is the function that a fold defines, on the subsets of U.             *)
Unfolds(g, w, U) ==
  /\ g[{}] = 0
  /\ \A s \in SUBSET U : s # {} => g[s] = w[Pick(s)] + g[s \ {Pick(s)}]

(* G sums w up on the subsets of U, whatever the order.                    *)
Adds(G, w, U) ==
  /\ G[{}] = 0
  /\ \A s \in SUBSET U : G[s] \in Nat
  /\ \A s \in SUBSET U : \A x \in U \ s : G[s \cup {x}] = G[s] + w[x]

LEMMA Picked ==
  ASSUME NEW s, s # {}
  PROVE  Pick(s) \in s
BY DEF Pick

LEMMA OneLess ==
  ASSUME NEW s, IsFiniteSet(s), s # {}
  PROVE  /\ Cardinality(s) \in Nat \ {0}
         /\ IsFiniteSet(s \ {Pick(s)}) /\ Cardinality(s \ {Pick(s)}) = Cardinality(s) - 1
BY Picked, FS_CardinalityType, FS_EmptySet, FS_RemoveElement

(* There is such a function.                                               *)
LEMMA UnfoldingExists ==
  ASSUME NEW U, IsFiniteSet(U), NEW w, \A x \in U : w[x] \in Nat
  PROVE  \E g : Unfolds(g, w, U) /\ \A s \in SUBSET U : g[s] \in Nat
<1> DEFINE V == [SUBSET U -> Nat]
           n == Cardinality(U)
           base == [s \in SUBSET U |-> 0]
           step == [h \in V |-> [s \in SUBSET U |->
                      IF s = {} THEN 0 ELSE w[Pick(s)] + h[s \ {Pick(s)}]]]
           steps == [i \in 1..n |-> step]
<1>1. n \in Nat /\ base \in V
  BY FS_CardinalityType
<1>2. step \in [V -> V]
  <2>1. ASSUME NEW h \in V, NEW s \in SUBSET U, s # {} PROVE w[Pick(s)] + h[s \ {Pick(s)}] \in Nat
    <3>1. Pick(s) \in U /\ s \ {Pick(s)} \in SUBSET U
      BY <2>1, Picked
    <3>2. w[Pick(s)] \in Nat /\ h[s \ {Pick(s)}] \in Nat
      BY <3>1
    <3> QED
      BY <3>2
  <2> QED
    BY <2>1
<1>3. steps \in [1..n -> [V -> V]]
  BY <1>2
<1>4. \E c : Recurses(c, n, V, base, steps)
  <2> HIDE DEF V, n, base, steps
  <2> QED
    BY <1>1, <1>3, Recursion
<1>5. PICK c : Recurses(c, n, V, base, steps)
  BY <1>4
<1> DEFINE g == [s \in SUBSET U |-> c[Cardinality(s)][s]]
<1>6. ASSUME NEW s \in SUBSET U
      PROVE  IsFiniteSet(s) /\ Cardinality(s) \in 0..n
  BY FS_Subset, FS_CardinalityType
<1>7. g[{}] = 0
  <2>1. Cardinality({}) = 0 /\ {} \in SUBSET U
    BY FS_EmptySet
  <2> QED
    BY <1>5, <2>1 DEF Recurses
<1>8. ASSUME NEW s \in SUBSET U, s # {} PROVE g[s] = w[Pick(s)] + g[s \ {Pick(s)}]
  <2> DEFINE k == Cardinality(s)
             t == s \ {Pick(s)}
  <2>1. k \in 1..n /\ k - 1 \in 0..n /\ Cardinality(t) = k - 1 /\ t \in SUBSET U
    BY <1>1, <1>6, <1>8, OneLess
  <2>2. c[k - 1] \in V
    BY <1>5, <2>1 DEF Recurses
  <2>3. c[k] = step[c[k - 1]]
    <3>1. c[k] = steps[k][c[k - 1]]
      BY <1>5, <2>1 DEF Recurses
    <3> QED
      BY <2>1, <3>1
  <2>4. c[k][s] = w[Pick(s)] + c[k - 1][t]
    BY <1>8, <2>2, <2>3
  <2> QED
    BY <2>1, <2>4
<1>9. ASSUME NEW s \in SUBSET U PROVE g[s] \in Nat
  <2>1. c[Cardinality(s)] \in V
    BY <1>5, <1>6 DEF Recurses
  <2> QED
    BY <2>1
<1> HIDE DEF g
<1>10. Unfolds(g, w, U)
  BY <1>7, <1>8 DEF Unfolds
<1> QED
  BY <1>9, <1>10

(* The order does not matter.                                              *)
LEMMA UnfoldingAdds ==
  ASSUME NEW U, IsFiniteSet(U), NEW w, \A x \in U : w[x] \in Nat, NEW g, Unfolds(g, w, U),
         \A s \in SUBSET U : g[s] \in Nat
  PROVE  Adds(g, w, U)
<1> DEFINE S == {n \in Nat : \A s \in SUBSET U : Cardinality(s) = n =>
                   \A x \in U \ s : g[s \cup {x}] = g[s] + w[x]}
<1>1. ASSUME NEW s \in SUBSET U PROVE IsFiniteSet(s) /\ Cardinality(s) \in Nat
  BY FS_Subset, FS_CardinalityType
<1>2. ASSUME NEW s \in SUBSET U, NEW x \in U \ s,
             \A t \in SUBSET U : Cardinality(t) < Cardinality(s) =>
               \A y \in U \ t : g[t \cup {y}] = g[t] + w[y]
      PROVE  g[s \cup {x}] = g[s] + w[x]
  <2> DEFINE t == s \cup {x}
             p == Pick(t)
             r == s \ {p}
  <2>1. p \in t /\ g[t] = w[p] + g[t \ {p}] /\ t \in SUBSET U
    BY Picked DEF Unfolds
  <2>2. w[p] \in Nat /\ w[x] \in Nat /\ g[s] \in Nat
    BY <2>1
  <2>3. CASE p = x
    <3>1. t \ {p} = s
      BY <2>3
    <3>2. g[t] = w[x] + g[s]
      <4> HIDE DEF t, p
      <4> QED
        BY <2>1, <2>3, <3>1
    <3> QED
      BY <2>2, <3>2
  <2>4. CASE p # x
    <3>1. p \in s /\ r \in SUBSET U /\ t \ {p} = r \cup {x} /\ s = r \cup {p}
          /\ x \in U \ r /\ p \in U \ r
      BY <2>1, <2>4
    <3>2. Cardinality(r) < Cardinality(s)
      <4>1. Cardinality(r) = Cardinality(s) - 1
        <5> HIDE DEF p
        <5>1. p \in s /\ IsFiniteSet(s)
          BY <1>1, <3>1
        <5> QED
          BY <5>1, FS_RemoveElement
      <4> QED
        BY <1>1, <4>1
    <3>3. g[r \cup {x}] = g[r] + w[x] /\ g[r \cup {p}] = g[r] + w[p] /\ g[r] \in Nat
      BY <1>2, <3>1, <3>2
    <3> HIDE DEF t, p, r
    <3>4. g[t] = w[p] + (g[r] + w[x]) /\ g[s] = g[r] + w[p]
      BY <2>1, <3>1, <3>3
    <3> QED
      BY <2>2, <3>3, <3>4 DEF t
  <2> QED
    BY <2>3, <2>4
<1> DEFINE B == {n \in Nat : \A m \in 0..n : m \in S}
<1>3. 0 \in B
  <2>1. 0 \in S
    <3>1. ASSUME NEW s \in SUBSET U, Cardinality(s) = 0, NEW x \in U \ s
          PROVE  g[s \cup {x}] = g[s] + w[x]
      <4>1. \A t \in SUBSET U : ~(Cardinality(t) < 0)
        BY <1>1
      <4> QED
        BY <1>2, <3>1, <4>1
    <3> QED
      BY <3>1
  <2> QED
    BY <2>1
<1>4. ASSUME NEW n \in Nat, n \in B PROVE n + 1 \in B
  <2>1. n + 1 \in S
    <3>1. ASSUME NEW s \in SUBSET U, Cardinality(s) = n + 1, NEW x \in U \ s
          PROVE  g[s \cup {x}] = g[s] + w[x]
      <4>1. ASSUME NEW t \in SUBSET U, Cardinality(t) < Cardinality(s), NEW y \in U \ t
            PROVE  g[t \cup {y}] = g[t] + w[y]
        <5>1. Cardinality(t) \in 0..n
          BY <1>1, <3>1, <4>1
        <5>2. Cardinality(t) \in S
          BY <1>4, <5>1
        <5> QED
          BY <5>2
      <4> QED
        BY <1>2, <4>1
    <3>2. n + 1 \in Nat
      OBVIOUS
    <3> QED
      BY <3>1, <3>2
  <2>2. \A m \in 0..(n + 1) : m \in 0..n \/ m = n + 1
    OBVIOUS
  <2> HIDE DEF S
  <2> QED
    BY <1>4, <2>1, <2>2
<1>5. Nat \subseteq B
  <2> HIDE DEF B
  <2> QED
    BY <1>3, <1>4, Induction
<1>6. ASSUME NEW s \in SUBSET U, NEW x \in U \ s PROVE g[s \cup {x}] = g[s] + w[x]
  <2>1. Cardinality(s) \in S
    <3>1. Cardinality(s) \in B
      BY <1>1, <1>5
    <3>2. Cardinality(s) \in 0..Cardinality(s)
      BY <1>1
    <3> QED
      BY <3>1, <3>2
  <2> QED
    BY <2>1
<1> QED
  BY <1>6 DEF Adds, Unfolds

(* A sum on the subsets of U is one on those of a subset of it.            *)
LEMMA AddsLess ==
  ASSUME NEW U, NEW w, NEW G, Adds(G, w, U), NEW T \in SUBSET U
  PROVE  Adds(G, w, T)
BY DEF Adds

(* Two functions that a fold defines agree.                                *)
LEMMA UnfoldingsAgree ==
  ASSUME NEW U, IsFiniteSet(U), NEW w, NEW g, NEW h, Unfolds(g, w, U), Unfolds(h, w, U)
  PROVE  \A s \in SUBSET U : g[s] = h[s]
<1> DEFINE S == {n \in Nat : \A s \in SUBSET U : Cardinality(s) = n => g[s] = h[s]}
<1>1. ASSUME NEW s \in SUBSET U PROVE IsFiniteSet(s) /\ Cardinality(s) \in Nat
  BY FS_Subset, FS_CardinalityType
<1>2. 0 \in S
  <2>1. ASSUME NEW s \in SUBSET U, Cardinality(s) = 0 PROVE g[s] = h[s]
    <3>1. s = {}
      BY <1>1, <2>1, FS_EmptySet
    <3> QED
      BY <3>1 DEF Unfolds
  <2> QED
    BY <2>1
<1>3. ASSUME NEW n \in Nat, n \in S PROVE n + 1 \in S
  <2>1. ASSUME NEW s \in SUBSET U, Cardinality(s) = n + 1 PROVE g[s] = h[s]
    <3>1. s # {}
      BY <2>1, FS_EmptySet
    <3>2. Cardinality(s \ {Pick(s)}) = n /\ s \ {Pick(s)} \in SUBSET U
      BY <1>1, <2>1, <3>1, OneLess
    <3>3. g[s \ {Pick(s)}] = h[s \ {Pick(s)}]
      BY <1>3, <3>2
    <3> QED
      BY <3>1, <3>3 DEF Unfolds
  <2> QED
    BY <2>1
<1>4. Nat \subseteq S
  <2> HIDE DEF S
  <2> QED
    BY <1>2, <1>3, Induction
<1> QED
  BY <1>1, <1>4

LEMMA AddsUnfolds ==
  ASSUME NEW U, NEW w, \A x \in U : w[x] \in Nat, NEW G, Adds(G, w, U)
  PROVE  Unfolds(G, w, U)
<1>1. ASSUME NEW s \in SUBSET U, s # {} PROVE G[s] = w[Pick(s)] + G[s \ {Pick(s)}]
  <2> DEFINE p == Pick(s)
             r == s \ {p}
  <2>1. p \in U \ r /\ r \in SUBSET U /\ r \cup {p} = s
    BY <1>1, Picked
  <2> HIDE DEF p, r
  <2>2. G[r \cup {p}] = G[r] + w[p] /\ G[r] \in Nat /\ w[p] \in Nat
    BY <2>1 DEF Adds
  <2>3. G[s] = G[r \cup {p}]
    BY <2>1
  <2>4. G[s] = w[p] + G[r]
    BY <2>2, <2>3
  <2> QED
    BY <2>4 DEF p, r
<1> QED
  BY <1>1 DEF Unfolds, Adds

(* n is the sum of w over S.                                               *)
IsTotal(n, w, S) == \E G : Adds(G, w, S) /\ n = G[S]

Total(w, S) == CHOOSE n : IsTotal(n, w, S)

LEMMA SumExists ==
  ASSUME NEW U, IsFiniteSet(U), NEW w, \A x \in U : w[x] \in Nat
  PROVE  \E G : Adds(G, w, U)
BY UnfoldingExists, UnfoldingAdds

(* Any function that a fold defines on S gives the sum.                    *)
LEMMA TotalIs ==
  ASSUME NEW S, IsFiniteSet(S), NEW w, \A x \in S : w[x] \in Nat, NEW g, Unfolds(g, w, S)
  PROVE  g[S] = Total(w, S)
<1>1. IsTotal(Total(w, S), w, S)
  BY SumExists DEF Total, IsTotal
<1>2. PICK G : Adds(G, w, S) /\ Total(w, S) = G[S]
  BY <1>1 DEF IsTotal
<1> QED
  BY <1>2, AddsUnfolds, UnfoldingsAgree

LEMMA AddsTotals ==
  ASSUME NEW U, IsFiniteSet(U), NEW w, \A x \in U : w[x] \in Nat, NEW G, Adds(G, w, U), NEW S \in SUBSET U
  PROVE  Total(w, S) = G[S]
<1>1. IsFiniteSet(S) /\ Adds(G, w, S)
  BY FS_Subset, AddsLess
<1>2. IsTotal(Total(w, S), w, S)
  BY <1>1 DEF Total, IsTotal
<1>3. PICK H : Adds(H, w, S) /\ Total(w, S) = H[S]
  BY <1>2 DEF IsTotal
<1>4. Unfolds(G, w, S) /\ Unfolds(H, w, S)
  BY <1>1, <1>3, AddsUnfolds
<1> QED
  BY <1>1, <1>3, <1>4, UnfoldingsAgree

(* What the sum of a finite set is, is with one element more, and is       *)
(* at least.                                                               *)
LEMMA TotalNat ==
  ASSUME NEW S, IsFiniteSet(S), NEW w, \A x \in S : w[x] \in Nat
  PROVE  Total(w, S) \in Nat /\ Total(w, {}) = 0
<1>1. PICK G : Adds(G, w, S)
  BY SumExists
<1>2. S \in SUBSET S /\ {} \in SUBSET S
  OBVIOUS
<1>3. Total(w, S) = G[S] /\ Total(w, {}) = G[{}]
  BY <1>1, <1>2, AddsTotals
<1> QED
  BY <1>1, <1>2, <1>3 DEF Adds

LEMMA TotalInserted ==
  ASSUME NEW S, IsFiniteSet(S), NEW x, x \notin S, NEW w,
         \A y \in S \cup {x} : w[y] \in Nat
  PROVE  Total(w, S \cup {x}) = Total(w, S) + w[x]
<1> DEFINE U == S \cup {x}
<1>1. IsFiniteSet(U) /\ \A y \in U : w[y] \in Nat
  BY FS_AddElement
<1>2. S \in SUBSET U /\ U \in SUBSET U /\ x \in U \ S
  OBVIOUS
<1>3. U = S \cup {x}
  OBVIOUS
<1> HIDE DEF U
<1>4. PICK G : Adds(G, w, U)
  BY <1>1, SumExists
<1>5. Total(w, U) = G[U] /\ Total(w, S) = G[S]
  BY <1>1, <1>2, <1>4, AddsTotals
<1>6. G[S \cup {x}] = G[S] + w[x]
  BY <1>2, <1>4 DEF Adds
<1> QED
  BY <1>3, <1>5, <1>6

LEMMA TotalRemoved ==
  ASSUME NEW S, IsFiniteSet(S), NEW x \in S, NEW w, \A y \in S : w[y] \in Nat
  PROVE  /\ Total(w, S) = Total(w, S \ {x}) + w[x]
         /\ Total(w, S \ {x}) \in Nat /\ IsFiniteSet(S \ {x})
<1> DEFINE T == S \ {x}
<1>1. IsFiniteSet(T) /\ x \notin T /\ T \cup {x} = S /\ \A y \in T : w[y] \in Nat
  BY FS_RemoveElement
<1> HIDE DEF T
<1>2. Total(w, T \cup {x}) = Total(w, T) + w[x] /\ Total(w, T) \in Nat
  BY <1>1, TotalInserted, TotalNat
<1> QED
  BY <1>1, <1>2 DEF T

LEMMA TotalMonotone ==
  ASSUME NEW S, IsFiniteSet(S), NEW w, \A x \in S : w[x] \in Nat, NEW T \in SUBSET S
  PROVE  Total(w, T) <= Total(w, S)
<1> DEFINE P == {n \in Nat : \A R \in SUBSET S : Cardinality(S \ R) = n =>
                   Total(w, R) <= Total(w, S)}
<1>1. ASSUME NEW R \in SUBSET S
      PROVE  /\ IsFiniteSet(S \ R) /\ Cardinality(S \ R) \in Nat
             /\ IsFiniteSet(R) /\ Total(w, R) \in Nat
  <2>1. IsFiniteSet(S \ R)
    BY FS_Subset
  <2>2. IsFiniteSet(R) /\ \A x \in R : w[x] \in Nat
    BY FS_Subset
  <2> QED
    BY <2>1, <2>2, FS_CardinalityType, TotalNat
<1>2. 0 \in P
  <2>1. ASSUME NEW R \in SUBSET S, Cardinality(S \ R) = 0 PROVE Total(w, R) <= Total(w, S)
    <3>1. S \ R = {}
      BY <1>1, <2>1, FS_EmptySet
    <3>2. R = S
      BY <3>1
    <3>3. Total(w, R) = Total(w, S) /\ Total(w, S) \in Nat
      BY <1>1, <3>2, TotalNat
    <3> QED
      BY <3>3
  <2> QED
    BY <2>1
<1>3. ASSUME NEW n \in Nat, n \in P PROVE n + 1 \in P
  <2>1. ASSUME NEW R \in SUBSET S, Cardinality(S \ R) = n + 1
        PROVE  Total(w, R) <= Total(w, S)
    <3>1. PICK x \in S : x \notin R
      <4>1. Cardinality(S \ R) # 0
        BY <2>1
      <4>2. S \ R # {}
        BY <4>1, FS_EmptySet
      <4> QED
        BY <4>2
    <3> DEFINE Q == R \cup {x}
    <3>2. Q \in SUBSET S /\ S \ Q = (S \ R) \ {x} /\ x \in S \ R
      BY <3>1
    <3>3. Cardinality((S \ R) \ {x}) = n
      <4> DEFINE D == S \ R
      <4>1. IsFiniteSet(D) /\ x \in D /\ Cardinality(D) = n + 1
        BY <1>1, <2>1, <3>2
      <4> HIDE DEF D
      <4>2. Cardinality(D \ {x}) = Cardinality(D) - 1
        BY <4>1, FS_RemoveElement
      <4>3. Cardinality(D \ {x}) = n
        BY <4>1, <4>2
      <4> QED
        BY <4>3 DEF D
    <3>4. Total(w, Q) <= Total(w, S)
      <4> HIDE DEF Q
      <4> QED
        BY <1>3, <3>2, <3>3
    <3>5. Total(w, Q) = Total(w, R) + w[x] /\ w[x] \in Nat
      <4>1. \A y \in R \cup {x} : w[y] \in Nat
        OBVIOUS
      <4> QED
        BY <1>1, <3>1, <4>1, TotalInserted
    <3>6. Total(w, R) \in Nat /\ Total(w, S) \in Nat
      BY <1>1, TotalNat
    <3> HIDE DEF Q
    <3> QED
      BY <3>4, <3>5, <3>6
  <2>2. n + 1 \in Nat
    OBVIOUS
  <2> QED
    BY <2>1, <2>2
<1>4. Nat \subseteq P
  <2> HIDE DEF P
  <2> QED
    BY <1>2, <1>3, Induction
<1>5. Cardinality(S \ T) \in P
  <2> HIDE DEF P
  <2> QED
    BY <1>1, <1>4
<1> QED
  BY <1>5
-----------------------------------------------------------------------------
(* p goes through a set of numbers from the lowest to the highest.         *)
Ascends(p, S) ==
  /\ p \in [1..Cardinality(S) -> S]
  /\ \A k, l \in 1..Cardinality(S) : k < l => p[k] < p[l]

LEMMA AscentExists ==
  ASSUME NEW n \in Nat, NEW S \in SUBSET (1..n)
  PROVE  IsFiniteSet(S) /\ \E p : Ascends(p, S)
<1> DEFINE T == {m \in 0..n : \A R \in SUBSET (1..m) : \E p : Ascends(p, R)}
<1>1. 0 \in T
  <2>1. \A R \in SUBSET (1..0) : R = {}
    OBVIOUS
  <2>2. Ascends([k \in 1..0 |-> k], {})
    <3>1. Cardinality({}) = 0
      BY FS_EmptySet
    <3> QED
      BY <3>1 DEF Ascends
  <2>3. \A R \in SUBSET (1..0) : \E p : Ascends(p, R)
    BY <2>1, <2>2
  <2> QED
    BY <2>3
<1>2. ASSUME NEW m \in 0..n, m \in T, m < n PROVE m + 1 \in T
  <2>1. ASSUME NEW R \in SUBSET (1..(m + 1)) PROVE \E p : Ascends(p, R)
    <3> DEFINE Q == R \ {m + 1}
               c == Cardinality(Q)
    <3>1. IsFiniteSet(R) /\ IsFiniteSet(Q) /\ c \in Nat
      <4>1. IsFiniteSet(1..(m + 1))
        BY FS_Interval
      <4>2. IsFiniteSet(R)
        BY <4>1, FS_Subset
      <4>3. IsFiniteSet(Q)
        BY <4>2, FS_RemoveElement
      <4> QED
        BY <4>2, <4>3, FS_CardinalityType
    <3>2. Q \in SUBSET (1..m)
      OBVIOUS
    <3>3. PICK q : Ascends(q, Q)
      BY <1>2, <3>2
    <3>4. CASE m + 1 \notin R
      <4>1. Q = R
        BY <3>4
      <4> QED
        BY <3>3, <4>1
    <3>5. CASE m + 1 \in R
      <4>1. Cardinality(R) = c + 1
        <5>1. R = Q \cup {m + 1} /\ m + 1 \notin Q
          BY <3>5
        <5> QED
          BY <3>1, <5>1, FS_AddElement
      <4>2. /\ \A k \in 1..c : q[k] \in Q /\ q[k] < m + 1
            /\ \A k, l \in 1..c : k < l => q[k] < q[l]
        <5>1. q \in [1..c -> Q] /\ \A k, l \in 1..c : k < l => q[k] < q[l]
          BY <3>3 DEF Ascends
        <5>2. \A x \in Q : x < m + 1
          BY <3>2
        <5> HIDE DEF c, Q
        <5> QED
          BY <5>1, <5>2
      <4> DEFINE p == [k \in 1..(c + 1) |-> IF k = c + 1 THEN m + 1 ELSE q[k]]
      <4>3. p \in [1..(c + 1) -> R]
        BY <3>1, <3>5, <4>2
      <4>4. ASSUME NEW k \in 1..(c + 1), NEW l \in 1..(c + 1), k < l PROVE p[k] < p[l]
        BY <3>1, <4>2, <4>4
      <4> HIDE DEF p, c
      <4> QED
        BY <4>1, <4>3, <4>4 DEF Ascends
    <3> QED
      BY <3>4, <3>5
  <2> QED
    BY <1>2, <2>1
<1>3. 0..n \subseteq T
  <2> HIDE DEF T
  <2> QED
    BY <1>1, <1>2, BoundedInduction
<1>4. IsFiniteSet(S)
  <2>1. IsFiniteSet(1..n)
    BY FS_Interval
  <2> QED
    BY <2>1, FS_Subset
<1> QED
  BY <1>3, <1>4

(* It leaves nothing out.                                                  *)
LEMMA AscentCovers ==
  ASSUME NEW S, IsFiniteSet(S), S \subseteq Nat, NEW p, Ascends(p, S)
  PROVE  \A x \in S : \E k \in 1..Cardinality(S) : p[k] = x
<1> DEFINE n == Cardinality(S)
<1>1. n \in Nat /\ IsFiniteSet(1..n) /\ Cardinality(1..n) = n
  BY FS_CardinalityType, FS_Interval
<1>2. ASSUME NEW k \in 1..n, NEW l \in 1..n, p[k] = p[l] PROVE k = l
  <2>1. p[k] \in Nat /\ p[l] \in Nat
    BY DEF Ascends
  <2>2. ~(k < l) /\ ~(l < k)
    BY <1>2, <2>1 DEF Ascends
  <2> QED
    BY <1>1, <2>2
<1>3. p \in Injection(1..n, S)
  BY <1>2 DEF Ascends, Injection, IsInjective
<1>4. p \in Surjection(1..n, S)
  <2>1. IsFiniteSet(1..n) /\ Cardinality(1..n) = Cardinality(S)
    BY <1>1
  <2> HIDE DEF n
  <2> QED
    BY <1>3, <2>1, FS_Injection
<1> QED
  BY <1>4 DEF Surjection

-----------------------------------------------------------------------------
(* A fold over a sequence from the left, as the library defines it: a      *)
(* function on sets of indices, that takes the highest last.               *)
Top(s) == CHOOSE x \in s : \A y \in s : x >= y

LEMMA TopIs ==
  ASSUME NEW S \in SUBSET Nat, IsFiniteSet(S), S # {}
  PROVE  Top(S) \in S /\ \A y \in S : Top(S) >= y
<1>1. PICK n \in Nat : \A y \in S : y <= n
  <2> DEFINE Bounded(R) == \E b \in Nat : \A y \in R : y <= b
             T == {m \in Nat : \A R \in SUBSET Nat :
                                  IsFiniteSet(R) /\ Cardinality(R) = m => Bounded(R)}
  <2>1. 0 \in T
    BY FS_EmptySet
  <2>2. ASSUME NEW m \in Nat, m \in T PROVE m + 1 \in T
    <3>1. ASSUME NEW R \in SUBSET Nat, IsFiniteSet(R), Cardinality(R) = m + 1
          PROVE  Bounded(R)
      <4>1. PICK x \in R : TRUE
        <5>1. R # {}
          BY <3>1, FS_EmptySet
        <5> QED
          BY <5>1
      <4>2. IsFiniteSet(R \ {x}) /\ Cardinality(R \ {x}) = m
        <5>1. IsFiniteSet(R \ {x}) /\ Cardinality(R \ {x}) = Cardinality(R) - 1
          BY <3>1, <4>1, FS_RemoveElement
        <5> QED
          BY <3>1, <5>1
      <4>3. PICK b \in Nat : \A y \in R \ {x} : y <= b
        BY <2>2, <4>2
      <4>4. b + x \in Nat /\ \A y \in R : y <= b + x
        BY <4>1, <4>3
      <4> QED
        BY <4>4
    <3> HIDE DEF Bounded
    <3> QED
      BY <3>1
  <2>3. Nat \subseteq T
    <3> HIDE DEF T
    <3> QED
      BY <2>1, <2>2, Induction
  <2>4. Cardinality(S) \in T
    BY <2>3, FS_CardinalityType
  <2> QED
    BY <2>4
<1> DEFINE D == {n - y : y \in S}
<1>2. D \in SUBSET Nat /\ D # {}
  <2>1. \A y \in S : n - y \in Nat
    BY <1>1
  <2>2. PICK y \in S : TRUE
    OBVIOUS
  <2>3. n - y \in D
    BY <2>2
  <2> QED
    BY <2>1, <2>3
<1>3. PICK d \in D : \A e \in D : d <= e
  BY <1>2, SmallestNat
<1>4. PICK x \in S : d = n - x
  BY <1>3
<1>5. ASSUME NEW y \in S PROVE x >= y
  <2>1. d <= n - y /\ x \in Nat /\ y \in Nat
    BY <1>3
  <2> QED
    BY <1>1, <1>4, <2>1
<1> QED
  BY <1>4, <1>5 DEF Top

LEMMA TopOfInterval ==
  ASSUME NEW k \in Nat \ {0}
  PROVE  Top(1..k) = k /\ (1..k) \ {k} = 1..(k - 1) /\ 1..k # {}
<1>1. k \in 1..k /\ IsFiniteSet(1..k)
  BY FS_Interval
<1>2. Top(1..k) \in 1..k /\ Top(1..k) >= k
  BY <1>1, TopIs
<1> QED
  BY <1>1, <1>2

LEMMA TopOfIndices ==
  ASSUME NEW n \in Nat, NEW s \in SUBSET (1..n), s # {}
  PROVE  Top(s) \in s /\ Top(s) \in 1..n
<1>1. IsFiniteSet(1..n)
  BY FS_Interval
<1>2. IsFiniteSet(s)
  BY <1>1, FS_Subset
<1>3. s \in SUBSET Nat
  OBVIOUS
<1> QED
  BY <1>2, <1>3, TopIs

IsFold(g, n, V, base, steps) ==
  /\ g[{}] = base
  /\ \A s \in SUBSET (1..n) :
       s # {} /\ g[s \ {Top(s)}] \in V => g[s] = steps[Top(s)][g[s \ {Top(s)}]]

LEMMA FoldExists ==
  ASSUME NEW n \in Nat, NEW V, NEW base \in V, NEW steps \in [1..n -> [V -> V]]
  PROVE  \E g \in [SUBSET (1..n) -> V] : IsFold(g, n, V, base, steps)
<1> DEFINE U == SUBSET (1..n)
           W == [U -> V]
           none == [s \in U |-> base]
           step == [h \in W |-> [s \in U |-> IF s = {} THEN base ELSE steps[Top(s)][h[s \ {Top(s)}]]]]
           again == [i \in 1..n |-> step]
<1>1. none \in W
  OBVIOUS
<1>2. ASSUME NEW s \in U
      PROVE  /\ IsFiniteSet(s) /\ Cardinality(s) \in 0..n
             /\ s = {} <=> Cardinality(s) = 0
             /\ s # {} => /\ Top(s) \in 1..n /\ s \ {Top(s)} \in U
                          /\ Cardinality(s \ {Top(s)}) = Cardinality(s) - 1
  <2>1. IsFiniteSet(1..n) /\ Cardinality(1..n) = n
    BY FS_Interval
  <2>2. IsFiniteSet(s) /\ Cardinality(s) \in Nat /\ Cardinality(s) <= n
    <3>1. IsFiniteSet(s) /\ Cardinality(s) <= Cardinality(1..n)
      BY <2>1, FS_Subset
    <3> QED
      BY <2>1, <3>1, FS_CardinalityType
  <2>3. s # {} => Top(s) \in s
    BY <2>2, TopIs
  <2>4. s # {} => Cardinality(s \ {Top(s)}) = Cardinality(s) - 1
    BY <2>2, <2>3, FS_RemoveElement
  <2>5. s = {} <=> Cardinality(s) = 0
    BY <2>2, FS_EmptySet
  <2>6. Cardinality(s) \in 0..n
    BY <2>2
  <2>7. s # {} => Top(s) \in 1..n /\ s \ {Top(s)} \in U
    BY <2>3
  <2> QED
    BY <2>2, <2>4, <2>5, <2>6, <2>7
<1>3. ASSUME NEW h \in W, NEW s \in U, s # {} PROVE steps[Top(s)][h[s \ {Top(s)}]] \in V
  <2>1. steps[Top(s)] \in [V -> V] /\ h[s \ {Top(s)}] \in V
    BY <1>2, <1>3
  <2> QED
    BY <2>1
<1>4. again \in [1..n -> [W -> W]]
  BY <1>3
<1>5. PICK c : Recurses(c, n, W, none, again)
  <2> HIDE DEF W, none, again
  <2> QED
    BY <1>1, <1>4, Recursion
<1> DEFINE g == [s \in U |-> c[Cardinality(s)][s]]
<1>6. ASSUME NEW s \in U PROVE c[Cardinality(s)] \in W
  BY <1>2, <1>5 DEF Recurses
<1>7. g \in [U -> V]
  BY <1>6
<1>8. ASSUME NEW s \in U PROVE g[s] = IF s = {} THEN base ELSE steps[Top(s)][g[s \ {Top(s)}]]
  <2>1. CASE s = {}
    <3>1. Cardinality(s) = 0
      BY <1>2, <2>1
    <3>2. c[0] = none
      BY <1>5 DEF Recurses
    <3>3. g[s] = none[s]
      BY <3>1, <3>2
    <3> QED
      BY <2>1, <3>3
  <2>2. CASE s # {}
    <3> DEFINE k == Cardinality(s)
               t == s \ {Top(s)}
    <3>1. k \in 1..n /\ t \in U /\ Cardinality(t) = k - 1 /\ k - 1 \in 0..n
      <4>1. k \in 0..n /\ k # 0 /\ t \in U /\ Cardinality(t) = k - 1
        <5> HIDE DEF U
        <5> QED
          BY <1>2, <2>2
      <4> HIDE DEF k
      <4>2. k \in 1..n /\ k - 1 \in 0..n
        BY <4>1
      <4> QED
        BY <4>1, <4>2
    <3>2. c[k] = step[c[k - 1]] /\ c[k - 1] \in W
      <4> HIDE DEF W, none, step, k
      <4>1. c[k] = again[k][c[k - 1]] /\ c[k - 1] \in W
        BY <1>5, <3>1 DEF Recurses
      <4> QED
        BY <3>1, <4>1
    <3>3. c[k][s] = steps[Top(s)][c[k - 1][t]]
      BY <2>2, <3>2
    <3>4. g[t] = c[k - 1][t] /\ g[s] = c[k][s]
      BY <3>1
    <3> QED
      BY <2>2, <3>3, <3>4
  <2> QED
    BY <2>1, <2>2
<1> HIDE DEF g, U
<1> QED
  BY <1>7, <1>8 DEF IsFold, U

-----------------------------------------------------------------------------
(* t is s, with e in front of what was at here.                            *)
Inserted(t, s, l, V, here, e) ==
  /\ t \in Seq(V) /\ Len(t) = l + 1
  /\ \A k \in 1..(l + 1) :
       t[k] = IF k < here THEN s[k] ELSE IF k = here THEN e ELSE s[k - 1]

LEMMA InsertedIs ==
  ASSUME NEW V, NEW s \in Seq(V), NEW l, NEW here \in 1..(l + 1), NEW e \in V, l = Len(s)
  PROVE  Inserted(SubSeq(s, 1, here - 1) \o <<e>> \o SubSeq(s, here, l), s, l, V, here, e)
<1> DEFINE a == SubSeq(s, 1, here - 1)
           b == SubSeq(s, here, l)
           c == a \o <<e>>
           t == c \o b
<1>1. l \in Nat /\ \A i \in 1..l : s[i] \in V
  OBVIOUS
<1>2. a \in Seq(V) /\ Len(a) = here - 1 /\ \A k \in 1..(here - 1) : a[k] = s[k]
  <2>1. \A i \in 1..(here - 1) : s[i] \in V
    BY <1>1
  <2>2. /\ a \in Seq(V) /\ Len(a) = (IF 1 <= here - 1 THEN here - 1 - 1 + 1 ELSE 0)
        /\ \A k \in 1..(here - 1 - 1 + 1) : a[k] = s[1 + k - 1]
    BY <2>1, SubSeqProperties
  <2> HIDE DEF a
  <2> QED
    BY <1>1, <2>2
<1>3. /\ b \in Seq(V) /\ Len(b) = l - here + 1
      /\ \A k \in 1..(l - here + 1) : b[k] = s[here + k - 1]
  <2>1. \A i \in here..l : s[i] \in V
    BY <1>1
  <2>2. /\ b \in Seq(V) /\ Len(b) = (IF here <= l THEN l - here + 1 ELSE 0)
        /\ \A k \in 1..(l - here + 1) : b[k] = s[here + k - 1]
    BY <1>1, <2>1, SubSeqProperties
  <2> HIDE DEF b
  <2> QED
    BY <1>1, <2>2
<1>4. <<e>> \in Seq(V) /\ Len(<<e>>) = 1 /\ <<e>>[1] = e
  OBVIOUS
<1> HIDE DEF a
<1>5. /\ c \in Seq(V) /\ Len(c) = here /\ \A k \in 1..(here - 1) : c[k] = s[k]
      /\ c[here] = e
  <2>1. /\ c \in Seq(V) /\ Len(c) = Len(a) + Len(<<e>>)
        /\ \A k \in 1..(Len(a) + Len(<<e>>)) :
             c[k] = IF k <= Len(a) THEN a[k] ELSE <<e>>[k - Len(a)]
    BY <1>2, <1>4, ConcatProperties
  <2> HIDE DEF c
  <2>2. Len(c) = here /\ here \in 1..here
    BY <1>2, <1>4, <2>1
  <2>3. c[here] = e
    BY <1>2, <1>4, <2>1
  <2>4. ASSUME NEW k \in 1..(here - 1) PROVE c[k] = s[k]
    BY <1>2, <1>4, <2>1
  <2> QED
    BY <2>1, <2>2, <2>3, <2>4
<1> HIDE DEF b, c
<1>6. /\ t \in Seq(V) /\ Len(t) = Len(c) + Len(b)
      /\ \A k \in 1..(Len(c) + Len(b)) : t[k] = IF k <= Len(c) THEN c[k] ELSE b[k - Len(c)]
  BY <1>3, <1>5, ConcatProperties
<1> HIDE DEF t
<1>7. Len(t) = l + 1 /\ Len(c) + Len(b) = l + 1
  BY <1>1, <1>3, <1>5, <1>6
<1>8. ASSUME NEW k \in 1..(l + 1)
      PROVE  t[k] = IF k < here THEN s[k] ELSE IF k = here THEN e ELSE s[k - 1]
  <2>1. t[k] = IF k <= here THEN c[k] ELSE b[k - here]
    BY <1>5, <1>6, <1>7
  <2>2. CASE k < here
    <3>1. c[k] = s[k]
      BY <1>5, <2>2
    <3> QED
      BY <2>1, <2>2, <3>1
  <2>3. CASE k = here
    BY <1>5, <2>1, <2>3
  <2>4. CASE k > here
    <3>1. k - here \in 1..(l - here + 1) /\ here + (k - here) - 1 = k - 1
      BY <1>1, <2>4
    <3>2. b[k - here] = s[k - 1]
      BY <1>3, <3>1
    <3> QED
      BY <2>1, <2>4, <3>2
  <2> QED
    BY <2>2, <2>3, <2>4
<1> QED
  BY <1>6, <1>7, <1>8 DEF Inserted, a, b, c, t

(* g follows the steps on the indices up to k.                             *)
LEMMA FoldRecurses ==
  ASSUME NEW n \in Nat, NEW V, NEW base \in V, NEW steps \in [1..n -> [V -> V]],
         NEW g, IsFold(g, n, V, base, steps)
  PROVE  \E c : Recurses(c, n, V, base, steps) /\ c[n] = g[1..n]
<1> DEFINE c == [k \in 0..n |-> g[1..k]]
<1>1. c[0] = base
  <2>1. 1..0 = {} /\ {} \in SUBSET (1..n)
    OBVIOUS
  <2>2. g[{}] = base
    BY <2>1 DEF IsFold
  <2> QED
    BY <2>1, <2>2
<1>2. ASSUME NEW k \in 1..n, c[k - 1] \in V PROVE c[k] = steps[k][c[k - 1]]
  <2>1. Top(1..k) = k /\ (1..k) \ {k} = 1..(k - 1) /\ 1..k # {}
    <3>1. k \in Nat \ {0}
      OBVIOUS
    <3> QED
      BY <3>1, TopOfInterval
  <2>2. 1..k \in SUBSET (1..n) /\ k - 1 \in 0..n /\ k \in 0..n
    OBVIOUS
  <2>3. g[1..k] = steps[Top(1..k)][g[(1..k) \ {Top(1..k)}]]
    <3>1. g[(1..k) \ {Top(1..k)}] \in V
      BY <1>2, <2>1, <2>2
    <3> QED
      BY <2>1, <2>2, <3>1 DEF IsFold
  <2>4. g[1..k] = steps[k][g[1..(k - 1)]]
    BY <2>1, <2>3
  <2> QED
    BY <2>2, <2>4
<1>3. \A k \in 1..n : c[k - 1] \in V => c[k] \in V
  <2> HIDE DEF c
  <2>1. ASSUME NEW k \in 1..n, c[k - 1] \in V PROVE c[k] \in V
    <3>1. steps[k] \in [V -> V]
      OBVIOUS
    <3> QED
      BY <1>2, <2>1, <3>1
  <2> QED
    BY <2>1
<1>4. \A k \in 0..n : c[k] \in V
  <2> HIDE DEF c
  <2> QED
    BY <1>1, <1>3, RecursionStays
<1>5. c \in [0..n -> V]
  BY <1>4
<1>6. Recurses(c, n, V, base, steps)
  <2> HIDE DEF c
  <2>1. \A k \in 1..n : c[k] = steps[k][c[k - 1]]
    BY <1>2, <1>4
  <2> QED
    BY <1>1, <1>5, <2>1 DEF Recurses
<1>7. c[n] = g[1..n]
  OBVIOUS
<1> QED
  BY <1>6, <1>7

-----------------------------------------------------------------------------
(* Two sets between which a function is one to one have as many elements.  *)
LEMMA SameNumber ==
  ASSUME NEW S, NEW T, NEW f \in [S -> T], IsFiniteSet(S),
         \A x, y \in S : f[x] = f[y] => x = y,
         \A z \in T : \E x \in S : f[x] = z
  PROVE  IsFiniteSet(T) /\ Cardinality(T) = Cardinality(S)
<1>1. f \in Injection(S, T)
  BY DEF Injection, IsInjective
<1>2. f \in Surjection(S, T)
  BY DEF Surjection
<1> QED
  BY <1>1, <1>2, FS_Surjection

-----------------------------------------------------------------------------
(* Short sequences, sequences that are joined, and sequences of one value. *)
LEMMA Joined == ASSUME NEW a, NEW d PROVE <<a>> \o <<d>> = <<a, d>>
<1> DEFINE p == <<a>> \o <<d>>
           q == <<a, d>>
<1>1. /\ <<a>> \in Seq({a, d}) /\ <<d>> \in Seq({a, d})
      /\ q \in Seq({a, d}) /\ Len(q) = 2 /\ q[1] = a /\ q[2] = d
  OBVIOUS
<1>2. p \in Seq({a, d}) /\ Len(p) = 2 /\ p[1] = a /\ p[2] = d
  BY <1>1
<1>3. \A i \in 1..2 : i = 1 \/ i = 2
  OBVIOUS
<1> HIDE DEF p, q
<1>4. \A i \in 1..Len(p) : p[i] = q[i]
  BY <1>1, <1>2, <1>3
<1>5. p = q
  BY <1>1, <1>2, <1>4, SeqEqual
<1> QED
  BY <1>5 DEF p, q

Given(g, x, v) == [g EXCEPT ![x] = v]

IsGiven(h, g, x, v, S, T) ==
  h \in [S -> T] /\ \A y \in S : h[y] = IF y = x THEN v ELSE g[y]

LEMMA GivenIs ==
  ASSUME NEW S, NEW T, NEW g \in [S -> T], NEW x \in S, NEW v \in T
  PROVE  IsGiven(Given(g, x, v), g, x, v, S, T)
BY DEF Given, IsGiven

LEMMA Repeated ==
  ASSUME NEW x
  PROVE  [i \in 1..0 |-> x] = <<>> /\ [i \in 1..1 |-> x] = <<x>>
<1>1. 1..0 = {} /\ 1..1 = {1}
  OBVIOUS
<1> QED
  BY <1>1

LEMMA LastRepeated ==
  ASSUME NEW k \in Nat, NEW e
  PROVE  [i \in 1..(k + 1) |-> e] = [i \in 1..k |-> e] \o <<e>>
<1> DEFINE p == [i \in 1..(k + 1) |-> e]
           q == [i \in 1..k |-> e]
<1>1. /\ p \in Seq({e}) /\ Len(p) = k + 1 /\ \A i \in 1..(k + 1) : p[i] = e
      /\ q \in Seq({e}) /\ Len(q) = k /\ \A i \in 1..k : q[i] = e
      /\ <<e>> \in Seq({e}) /\ Len(<<e>>) = 1 /\ <<e>>[1] = e
  OBVIOUS
<1> HIDE DEF p, q
<1>2. q \o <<e>> \in Seq({e}) /\ Len(q \o <<e>>) = k + 1
  BY <1>1
<1>3. \A i \in 1..(k + 1) : (q \o <<e>>)[i] = e
  BY <1>2
<1>4. p = q \o <<e>>
  BY <1>1, <1>2, <1>3, SeqEqual
<1> QED
  BY <1>4 DEF p, q

AreJoined(a, p, q, S) ==
  /\ a \in Seq(S) /\ DOMAIN a = 1..(Len(p) + Len(q)) /\ Len(p) \in Nat /\ Len(q) \in Nat
  /\ \A i \in 1..Len(p) : i \in DOMAIN a /\ a[i] = p[i]
  /\ \A i \in 1..Len(q) : Len(p) + i \in DOMAIN a /\ a[Len(p) + i] = q[i]

LEMMA TwoJoined ==
  ASSUME NEW S, NEW p \in Seq(S), NEW q \in Seq(S)
  PROVE  AreJoined(p \o q, p, q, S)
BY DEF AreJoined

LEMMA TotalSame ==
  ASSUME NEW S, IsFiniteSet(S), NEW w, NEW v, \A x \in S : w[x] \in Nat /\ v[x] = w[x]
  PROVE  Total(v, S) = Total(w, S)
<1>1. PICK G : Adds(G, w, S)
  BY SumExists
<1>2. Adds(G, v, S)
  BY <1>1 DEF Adds
<1>3. S \in SUBSET S /\ \A x \in S : v[x] \in Nat
  OBVIOUS
<1>4. Total(w, S) = G[S]
  BY <1>1, <1>3, AddsTotals
<1>5. Total(v, S) = G[S]
  BY <1>2, <1>3, AddsTotals
<1> QED
  BY <1>4, <1>5

IsList(q) == q = [i \in 1..Len(q) |-> q[i]] /\ Len(q) \in Nat

LEMMA ListsAre == IsList(<<>>) /\ \A e : IsList(<<e>>)
BY DEF IsList

LEMMA RepeatedIsList ==
  ASSUME NEW e, NEW k \in Nat
  PROVE  IsList([i \in 1..k |-> e])
<1>1. [i \in 1..k |-> e] \in Seq({e}) /\ Len([i \in 1..k |-> e]) = k
  OBVIOUS
<1> QED
  BY <1>1 DEF IsList

LEMMA ListIs ==
  ASSUME NEW q, IsList(q)
  PROVE  \E V : q \in Seq(V)
<1> DEFINE V == {q[i] : i \in 1..Len(q)}
<1>1. q \in [1..Len(q) -> V] /\ Len(q) \in Nat
  BY DEF IsList
<1> HIDE DEF V
<1> QED
  BY <1>1

LEMMA ListsJoined ==
  ASSUME NEW q, NEW p, IsList(q), IsList(p)
  PROVE  IsList(q \o p)
<1>1. PICK U, V : q \in Seq(U) /\ p \in Seq(V)
  BY ListIs
<1> DEFINE W == U \cup V
<1>2. q \in Seq(W) /\ p \in Seq(W)
  BY <1>1
<1> HIDE DEF W
<1>3. q \o p \in Seq(W)
  BY <1>2
<1> DEFINE a == q \o p
<1>4. a \in Seq(W)
  BY <1>3
<1> HIDE DEF a
<1>5. IsList(a)
  BY <1>4 DEF IsList
<1> QED
  BY <1>5 DEF a
=============================================================================
