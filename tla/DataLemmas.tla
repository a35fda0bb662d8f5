----------------------------- MODULE DataLemmas -----------------------------
(***************************************************************************)
(* What the proofs share about numbers, finite sets and sequences.         *)
(* Induction is stated of the set of the numbers that have a property: the *)
(* library's theorems take the property as an operator, which the provers  *)
(* cannot instantiate, but its theorem on minimal elements (WFMin) takes a *)
(* set.                                                                    *)
(***************************************************************************)
EXTENDS Integers, Sequences, FiniteSets, SequencesExt, SequenceTheorems,
        FiniteSetTheorems, WellFoundedInduction, TLAPS

(* A set of numbers that is not empty has a least member. *)
LEMMA NatMin ==
    ASSUME NEW T, T \subseteq Nat, T # {}
    PROVE  \E m \in T : \A n \in T : m <= n
<1>. DEFINE R == {ss \in Nat \X Nat : ss[1] < ss[2]}
<1>1. IsWellFoundedOn(R, Nat)
  BY NatLessThanWellFounded DEF OpToRel
<1>2. \E x \in T : \A y \in T : ~ (<<y, x>> \in R)
  <2>. HIDE DEF R
  <2>. QED BY <1>1, WFMin
<1>3. PICK x \in T : \A y \in T : ~ (<<y, x>> \in R) BY <1>2
<1>4. ASSUME NEW y \in T PROVE x <= y
  <2>1. x \in Nat /\ y \in Nat OBVIOUS
  <2>2. <<y, x>> \in Nat \X Nat /\ <<y, x>>[1] = y /\ <<y, x>>[2] = x BY <2>1
  <2>3. ~(y < x) BY <1>3, <2>2
  <2>. QED BY <2>1, <2>3
<1>. QED BY <1>4

(* Induction, stated of the set of the numbers that have a property. *)
LEMMA SetInduction ==
    ASSUME NEW P, 0 \in P, \A n \in Nat : n \in P => n + 1 \in P
    PROVE  Nat \subseteq P
<1>. SUFFICES ASSUME Nat \ P # {} PROVE FALSE OBVIOUS
<1>1. PICK m \in Nat \ P : \A n \in Nat \ P : m <= n BY NatMin
<1>2. m # 0 /\ m - 1 \in Nat OBVIOUS
<1>3. m - 1 \in P BY <1>1, <1>2
<1>. QED BY <1>2, <1>3

(* A finite set of numbers has a k-th member for every k up to its size.   *)
LEMMA Ranks ==
    ASSUME NEW S \in SUBSET Nat, IsFiniteSet(S), NEW k \in 1 .. Cardinality(S)
    PROVE  \E i \in S : Cardinality({j \in S : j <= i}) = k
<1>. DEFINE upTo(i) == {j \in S : j <= i}
            c == Cardinality(S)
            rank == [i \in S |-> Cardinality(upTo(i))]
<1>1. c \in Nat /\ IsFiniteSet(1 .. c) /\ Cardinality(1 .. c) = c
  <2>1. c \in Nat BY FS_CardinalityType
  <2>. QED BY <2>1, FS_Interval
<1>2. ASSUME NEW i \in S
      PROVE  IsFiniteSet(upTo(i)) /\ Cardinality(upTo(i)) \in 1 .. c
  <2>1. upTo(i) \in SUBSET S /\ i \in upTo(i) OBVIOUS
  <2>2. IsFiniteSet(upTo(i)) /\ Cardinality(upTo(i)) <= c BY <2>1, FS_Subset
  <2>3. Cardinality(upTo(i)) \in Nat BY <2>2, FS_CardinalityType
  <2>4. Cardinality(upTo(i)) # 0 BY <2>1, <2>2, FS_EmptySet
  <2>. QED BY <1>1, <2>2, <2>3, <2>4
<1>3. ASSUME NEW i \in S, NEW h \in S, i < h PROVE rank[i] # rank[h]
  <2>0. i \in Nat /\ h \in Nat /\ ~(h <= i) BY <1>3
  <2>a. h \in upTo(h) /\ h \notin upTo(i) BY <2>0
  <2>b. \A j \in S : j <= i => j <= h BY <2>0
  <2>1. upTo(i) \in SUBSET upTo(h) /\ upTo(i) # upTo(h) BY <2>a, <2>b
  <2>2. Cardinality(upTo(h)) # Cardinality(upTo(i)) BY <1>2, <2>1, FS_Subset
  <2>. QED BY <2>2
<1>4. rank \in Injection(S, 1 .. c)
  <2>1. rank \in [S -> 1 .. c] BY <1>2
  <2>2. ASSUME NEW i \in S, NEW h \in S, rank[i] = rank[h] PROVE i = h
    <3>1. i < h \/ h < i \/ i = h OBVIOUS
    <3>. QED BY <1>3, <2>2, <3>1
  <2>. QED BY <2>1, <2>2 DEF Injection, IsInjective
<1>5. rank \in Surjection(S, 1 .. c)
  <2>. HIDE DEF rank
  <2>. QED BY <1>1, <1>4, FS_Injection
<1>6. PICK i \in S : rank[i] = k BY <1>5 DEF Surjection
<1>. QED BY <1>6

-----------------------------------------------------------------------------
(* Sequences of consecutive numbers, which the rows of a publisher are     *)
(* wherever they are: in the message writer, the queue or the stream.      *)

(* s counts on from first. *)
Numbered(s, first) == \A k \in 1 .. Len(s) : s[k] = first + k - 1

(* The next number may be appended. *)
LEMMA AppendNumbered ==
    ASSUME NEW s \in Seq(Nat), NEW first \in Nat, Numbered(s, first)
    PROVE  /\ Append(s, first + Len(s)) \in Seq(Nat)
           /\ Len(Append(s, first + Len(s))) = Len(s) + 1
           /\ Numbered(Append(s, first + Len(s)), first)
<1>. DEFINE n == first + Len(s)
<1>1. n \in Nat OBVIOUS
<1>2. /\ Append(s, n) \in Seq(Nat) /\ Len(Append(s, n)) = Len(s) + 1
      /\ \A k \in 1 .. Len(s) : Append(s, n)[k] = s[k]
      /\ Append(s, n)[Len(s) + 1] = n
      BY <1>1, AppendProperties
<1>3. Len(s) \in Nat OBVIOUS
<1>4. ASSUME NEW k \in 1 .. Len(s) + 1 PROVE Append(s, n)[k] = first + k - 1
  <2>1. CASE k \in 1 .. Len(s) BY <1>2, <2>1 DEF Numbered
  <2>2. CASE k = Len(s) + 1 BY <1>2, <2>2, <1>3
  <2>. QED BY <2>1, <2>2, <1>3
<1>. QED BY <1>2, <1>4 DEF Numbered

(* The first one may be taken. *)
LEMMA TailNumbered ==
    ASSUME NEW s \in Seq(Nat), NEW first \in Nat, Numbered(s, first), s # <<>>
    PROVE  /\ Head(s) = first
           /\ Tail(s) \in Seq(Nat) /\ Len(Tail(s)) = Len(s) - 1 /\ Len(s) > 0
           /\ Numbered(Tail(s), first + 1)
<1>1. /\ Head(s) = s[1] /\ Tail(s) \in Seq(Nat) /\ Len(Tail(s)) = Len(s) - 1
      /\ \A k \in 1 .. Len(Tail(s)) : Tail(s)[k] = s[k + 1]
      BY HeadTailProperties
<1>2. Len(s) \in Nat /\ Len(s) > 0 BY EmptySeq
<1>. QED BY <1>1, <1>2 DEF Numbered

(* A continuation may be put behind it. *)
LEMMA ConcatNumbered ==
    ASSUME NEW s \in Seq(Nat), NEW t \in Seq(Nat), Numbered(s, 0), Numbered(t, Len(s))
    PROVE  /\ s \o t \in Seq(Nat) /\ Len(s \o t) = Len(s) + Len(t)
           /\ Numbered(s \o t, 0)
           /\ t = [j \in 1 .. Len(t) |-> Len(s) + j - 1]
<1>1. /\ s \o t \in Seq(Nat) /\ Len(s \o t) = Len(s) + Len(t)
      /\ \A k \in 1 .. Len(s) + Len(t) :
            (s \o t)[k] = IF k <= Len(s) THEN s[k] ELSE t[k - Len(s)]
      BY ConcatProperties
<1>2. Len(s) \in Nat /\ Len(t) \in Nat OBVIOUS
<1>3. ASSUME NEW k \in 1 .. Len(s) + Len(t) PROVE (s \o t)[k] = 0 + k - 1
  <2>1. CASE k <= Len(s)
    <3>1. k \in 1 .. Len(s) BY <2>1, <1>2
    <3>. QED BY <1>1, <2>1, <3>1 DEF Numbered
  <2>2. CASE ~(k <= Len(s))
    <3>1. k - Len(s) \in 1 .. Len(t) BY <2>2, <1>2
    <3>2. t[k - Len(s)] = Len(s) + (k - Len(s)) - 1 BY <3>1 DEF Numbered
    <3>. QED BY <1>1, <1>2, <2>2, <3>2
  <2>. QED BY <2>1, <2>2
<1>4. t = [j \in 1 .. Len(t) |-> t[j]] BY SeqDef
<1>5. \A j \in 1 .. Len(t) : t[j] = Len(s) + j - 1 BY DEF Numbered
<1>. QED BY <1>1, <1>3, <1>4, <1>5 DEF Numbered

-----------------------------------------------------------------------------
(* The remainder by a positive divisor. *)
LEMMA ModRange ==
    ASSUME NEW a \in Nat, NEW b \in Nat \ {0}
    PROVE  a % b \in 0 .. b - 1
OBVIOUS

(* From one number to the next the remainder grows by one, or falls from   *)
(* the largest to zero.                                                    *)
LEMMA ModNext ==
    ASSUME NEW a \in Nat, NEW b \in Nat \ {0}
    PROVE  /\ (a + 1) % b = 0 => a % b = b - 1
           /\ (a + 1) % b # 0 => (a + 1) % b = (a % b) + 1
<1>. DEFINE q == a \div b   r == a % b   p == (a + 1) \div b   t == (a + 1) % b
<1>1. /\ q \in Nat /\ r \in 0 .. b - 1 /\ a = b * q + r
      /\ p \in Nat /\ t \in 0 .. b - 1 /\ a + 1 = b * p + t
      OBVIOUS
<1>. HIDE DEF q, r, p, t
<1>2. b * p - b * q = r + 1 - t BY <1>1
<1>3. CASE p = q BY <1>1, <1>2, <1>3 DEF r, t
<1>4. CASE p = q + 1
  <2>1. b * p = b * q + b BY <1>1, <1>4
  <2>2. r + 1 - t = b BY <1>1, <1>2, <2>1
  <2>. QED BY <1>1, <2>2 DEF r, t
<1>5. ASSUME p < q PROVE FALSE
  <2>1. b * q >= b * p + b BY <1>1, <1>5
  <2>. QED BY <1>1, <1>2, <2>1
<1>6. ASSUME p > q + 1 PROVE FALSE
  <2>1. b * p >= b * q + b + b BY <1>1, <1>6
  <2>. QED BY <1>1, <1>2, <2>1
<1>. QED BY <1>1, <1>3, <1>4, <1>5, <1>6

-----------------------------------------------------------------------------
(* There is a function with the first value v0 and the steps of G. *)
Recurs(V, v0, G) ==
    \E f \in [Nat -> V] : f[0] = v0 /\ \A n \in Nat : f[n + 1] = G[<<f[n], n>>]

(* A function on the numbers is defined by its first value and by a step   *)
(* from each value to the next.                                            *)
LEMMA Recursion ==
    ASSUME NEW V, NEW v0 \in V, NEW G \in [V \X Nat -> V]
    PROVE  Recurs(V, v0, G)
<1>. DEFINE Upto(n) == {g \in [0 .. n -> V] :
                           /\ g[0] = v0
                           /\ \A k \in 0 .. n - 1 : g[k + 1] = G[<<g[k], k>>]}
            Exists == {n \in Nat : Upto(n) # {}}
            f == [n \in Nat |-> (CHOOSE g \in Upto(n) : TRUE)[n]]
<1>1. Nat \subseteq Exists
  <2>1. 0 \in Exists
    <3>1. [k \in 0 .. 0 |-> v0] \in Upto(0) OBVIOUS
    <3>. QED BY <3>1
  <2>2. ASSUME NEW n \in Nat, n \in Exists PROVE n + 1 \in Exists
    <3>1. PICK g \in Upto(n) : TRUE BY <2>2
    <3>2. g[n] \in V OBVIOUS
    <3>. DEFINE h == [k \in 0 .. n + 1 |-> IF k = n + 1 THEN G[<<g[n], n>>] ELSE g[k]]
    <3>3. \A k \in 0 .. n : h[k] = g[k] OBVIOUS
    <3>4. h[n + 1] = G[<<g[n], n>>] OBVIOUS
    <3>5. h \in [0 .. n + 1 -> V] BY <3>2
    <3>6. ASSUME NEW k \in 0 .. n PROVE h[k + 1] = G[<<h[k], k>>]
      <4>1. CASE k = n BY <3>3, <3>4, <4>1
      <4>2. CASE k # n
        <5>1. k \in 0 .. n - 1 /\ k + 1 \in 0 .. n BY <4>2
        <5>. QED BY <3>3, <5>1
      <4>. QED BY <4>1, <4>2
    <3>7. h[0] = v0 BY <3>3
    <3>. HIDE DEF h
    <3>8. h \in Upto(n + 1) BY <3>5, <3>6, <3>7
    <3>. QED BY <3>8
  <2>. HIDE DEF Exists
  <2>. QED BY <2>1, <2>2, SetInduction
<1>2. ASSUME NEW n \in Nat, NEW g \in Upto(n), NEW m \in Nat, NEW h \in Upto(m)
      PROVE  \A k \in Nat : k <= n /\ k <= m => g[k] = h[k]
  <2>. DEFINE Same == {k \in Nat : k <= n /\ k <= m => g[k] = h[k]}
  <2>1. 0 \in Same OBVIOUS
  <2>2. ASSUME NEW k \in Nat, k \in Same PROVE k + 1 \in Same
    <3>1. CASE k + 1 <= n /\ k + 1 <= m
      <4>1. k \in 0 .. n - 1 /\ k \in 0 .. m - 1 /\ g[k] = h[k] BY <2>2, <3>1
      <4>2. g[k + 1] = G[<<g[k], k>>] BY <4>1
      <4>3. h[k + 1] = G[<<h[k], k>>] BY <4>1
      <4>4. g[k + 1] = h[k + 1] BY <4>1, <4>2, <4>3
      <4>. QED BY <4>4
    <3>2. CASE ~(k + 1 <= n /\ k + 1 <= m) BY <3>2
    <3>. QED BY <3>1, <3>2
  <2>3. Nat \subseteq Same
    <3>. HIDE DEF Same
    <3>. QED BY <2>1, <2>2, SetInduction
  <2>. QED BY <2>3
<1>3. ASSUME NEW n \in Nat PROVE (CHOOSE g \in Upto(n) : TRUE) \in Upto(n)
  <2>1. \E g \in Upto(n) : TRUE BY <1>1
  <2>. HIDE DEF Upto
  <2>. QED BY <2>1
<1>4. f \in [Nat -> V]
  <2>1. ASSUME NEW n \in Nat PROVE (CHOOSE g \in Upto(n) : TRUE)[n] \in V
    <3>1. PICK g \in Upto(n) : g = CHOOSE gg \in Upto(n) : TRUE BY <1>3
    <3>2. g[n] \in V OBVIOUS
    <3>. HIDE DEF Upto
    <3>. QED BY <3>1, <3>2
  <2>. HIDE DEF Upto
  <2>. QED BY <2>1
<1>5. f[0] = v0
  <2>1. PICK g \in Upto(0) : g = CHOOSE gg \in Upto(0) : TRUE BY <1>3
  <2>2. g[0] = v0 OBVIOUS
  <2>. HIDE DEF Upto
  <2>. QED BY <2>1, <2>2
<1>6. ASSUME NEW n \in Nat PROVE f[n + 1] = G[<<f[n], n>>]
  <2>1. PICK g \in Upto(n) : g = CHOOSE gg \in Upto(n) : TRUE BY <1>3
  <2>2. n + 1 \in Nat OBVIOUS
  <2>3. PICK h \in Upto(n + 1) : h = CHOOSE gg \in Upto(n + 1) : TRUE BY <1>3, <2>2
  <2>4. g[n] = h[n]
    <3>1. n <= n /\ n <= n + 1 OBVIOUS
    <3>. HIDE DEF Upto
    <3>. QED BY <1>2, <2>2, <3>1
  <2>5. h[n + 1] = G[<<h[n], n>>] BY <2>2
  <2>. HIDE DEF Upto
  <2>6. f[n] = g[n] /\ f[n + 1] = h[n + 1] BY <2>1, <2>2, <2>3
  <2>. QED BY <2>4, <2>5, <2>6
<1>. HIDE DEF f
<1>. QED BY <1>4, <1>5, <1>6 DEF Recurs

-----------------------------------------------------------------------------
(* FlattenSeq of the community modules, piece by piece.                    *)
Flattens(S, s) ==
    \E f \in [1 .. Len(s) -> Seq(S)] :
        /\ FlattenSeq(s) = f[Len(s)]
        /\ f[1] = s[1]
        /\ \A i \in 2 .. Len(s) : f[i] = f[i - 1] \o s[i]

LEMMA FlattenSteps ==
    ASSUME NEW S, NEW s \in Seq(Seq(S)), s # <<>>
    PROVE  Flattens(S, s)
<1>. DEFINE n == Len(s)
            V == Seq(S)
            G == [p \in V \X Nat |-> IF p[2] + 1 \in 1 .. n THEN p[1] \o s[p[2] + 1] ELSE p[1]]
            Is(f) == f = [i \in 1 .. n |-> IF i = 1 THEN s[i] ELSE f[i - 1] \o s[i]]
<1>1. n \in Nat /\ n > 0 /\ \A i \in 1 .. n : s[i] \in V BY EmptySeq, ElementOfSeq
<1>2. <<>> \in V BY EmptySeq
<1>. HIDE DEF n
<1>3. G \in [V \X Nat -> V]
  <2>1. ASSUME NEW p \in V \X Nat, p[2] + 1 \in 1 .. n PROVE p[1] \o s[p[2] + 1] \in V
    <3>1. p[1] \in V /\ s[p[2] + 1] \in V BY <1>1, <2>1
    <3>. QED BY <3>1, ConcatProperties
  <2>. QED BY <2>1
<1>4. PICK g \in [Nat -> V] : g[0] = <<>> /\ \A k \in Nat : g[k + 1] = G[<<g[k], k>>]
  <2>. DEFINE v0 == <<>>
  <2>1. v0 \in V BY <1>2
  <2>. HIDE DEF G, V, v0
  <2>2. Recurs(V, v0, G) BY <1>3, <2>1, Recursion
  <2>. QED BY <2>2 DEF v0, Recurs
<1>5. ASSUME NEW i \in 1 .. n PROVE g[i] = g[i - 1] \o s[i]
  <2>1. i - 1 \in Nat /\ (i - 1) + 1 = i BY <1>1
  <2>2. <<g[i - 1], i - 1>> \in V \X Nat BY <2>1
  <2>3. g[i] = G[<<g[i - 1], i - 1>>] BY <1>4, <2>1
  <2>. HIDE DEF V
  <2>. QED BY <2>1, <2>2, <2>3
<1>. HIDE DEF G
<1>a. g[1] = s[1]
  <2>1. 1 \in 1 .. n /\ 1 - 1 = 0 BY <1>1
  <2>2. g[1] = g[0] \o s[1] BY <1>5, <2>1
  <2>3. g[1] = <<>> \o s[1] BY <1>4, <2>2
  <2>4. <<>> \o s[1] = s[1] BY <1>1, <2>1, ConcatEmptySeq
  <2>. QED BY <2>3, <2>4
<1>. DEFINE h == [i \in 1 .. n |-> g[i]]
<1>6. Is(h)
  <2>1. ASSUME NEW i \in 1 .. n PROVE h[i] = IF i = 1 THEN s[i] ELSE h[i - 1] \o s[i]
    <3>1. CASE i = 1 BY <1>a, <3>1
    <3>2. CASE i # 1
      <4>1. i - 1 \in 1 .. n BY <1>1, <3>2
      <4>2. h[i] = g[i] /\ h[i - 1] = g[i - 1] BY <4>1
      <4>. QED BY <1>5, <3>2, <4>2
    <3>. QED BY <3>1, <3>2
  <2>2. h = [i \in 1 .. n |-> h[i]] OBVIOUS
  <2>. HIDE DEF h
  <2>. QED BY <2>1, <2>2
<1>. DEFINE f == CHOOSE f : Is(f)
<1>7. Is(f)
  <2>. HIDE DEF h, Is
  <2>. QED BY <1>6
<1>8. FlattenSeq(s) = f[n] BY <1>1 DEF FlattenSeq, n
<1>. HIDE DEF f
<1>9. \A i \in 1 .. n : f[i] = IF i = 1 THEN s[i] ELSE f[i - 1] \o s[i] BY <1>7
<1>10. ASSUME NEW i \in 1 .. n PROVE f[i] = g[i]
  <2>. DEFINE Same == {k \in Nat : k + 1 \in 1 .. n => f[k + 1] = g[k + 1]}
  <2>1. 0 \in Same
    <3>1. f[1] = s[1] BY <1>1, <1>9
    <3>. QED BY <1>a, <3>1
  <2>2. ASSUME NEW k \in Nat, k \in Same PROVE k + 1 \in Same
    <3>1. CASE k + 1 + 1 \in 1 .. n
      <4>1. k + 1 \in 1 .. n /\ k + 2 \in 1 .. n /\ (k + 2) - 1 = k + 1 /\ k + 1 + 1 = k + 2
            BY <1>1, <3>1
      <4>2. f[k + 1] = g[k + 1] BY <2>2, <4>1
      <4>3. g[k + 2] = g[k + 1] \o s[k + 2] BY <1>5, <4>1
      <4>4. f[k + 2] = f[k + 1] \o s[k + 2]
        <5>1. k + 2 # 1 OBVIOUS
        <5>2. f[k + 2] = f[(k + 2) - 1] \o s[k + 2] BY <1>9, <4>1, <5>1
        <5>. QED BY <4>1, <5>2
      <4>5. f[k + 1 + 1] = g[k + 1 + 1] BY <4>1, <4>2, <4>3, <4>4
      <4>. QED BY <4>5
    <3>. QED BY <3>1
  <2>3. Nat \subseteq Same
    <3>. HIDE DEF Same
    <3>. QED BY <2>1, <2>2, SetInduction
  <2>4. i - 1 \in Nat /\ (i - 1) + 1 = i BY <1>1
  <2>. QED BY <2>3, <2>4
<1>11. h \in [1 .. n -> Seq(S)] BY <1>4
<1>12. FlattenSeq(s) = h[n] BY <1>1, <1>8, <1>10
<1>13. h[1] = s[1] BY <1>1, <1>6
<1>14. ASSUME NEW i \in 2 .. n PROVE h[i] = h[i - 1] \o s[i]
  <2>1. i \in 1 .. n /\ i - 1 \in 1 .. n BY <1>1
  <2>2. h[i] = g[i] /\ h[i - 1] = g[i - 1] BY <2>1
  <2>. QED BY <1>5, <2>1, <2>2
<1>. HIDE DEF h
<1>. QED BY <1>11, <1>12, <1>13, <1>14 DEF n, Flattens

LEMMA FlattenEmpty == FlattenSeq(<<>>) = <<>>
BY EmptySeq DEF FlattenSeq

LEMMA FlattenType ==
    ASSUME NEW S, NEW s \in Seq(Seq(S))
    PROVE  FlattenSeq(s) \in Seq(S)
<1>1. CASE s = <<>> BY <1>1, FlattenEmpty, EmptySeq
<1>2. CASE s # <<>>
  <2>1. PICK f \in [1 .. Len(s) -> Seq(S)] : FlattenSeq(s) = f[Len(s)]
        BY <1>2, FlattenSteps DEF Flattens
  <2>2. Len(s) \in 1 .. Len(s) BY <1>2, EmptySeq
  <2>. QED BY <2>1, <2>2
<1>. QED BY <1>1, <1>2

(* One more sequence is put behind the others. *)
LEMMA FlattenAppend ==
    ASSUME NEW S, NEW s \in Seq(Seq(S)), NEW e \in Seq(S)
    PROVE  FlattenSeq(Append(s, e)) = FlattenSeq(s) \o e
<1>. DEFINE n == Len(s)   t == Append(s, e)
<1>1. /\ t \in Seq(Seq(S)) /\ t # <<>> /\ Len(t) = n + 1 /\ n \in Nat
      /\ \A i \in 1 .. n : t[i] = s[i]
      /\ t[n + 1] = e
      BY AppendProperties, LenProperties
<1>. HIDE DEF n, t
<1>2. PICK g \in [1 .. n + 1 -> Seq(S)] :
         /\ FlattenSeq(t) = g[n + 1] /\ g[1] = t[1]
         /\ \A i \in 2 .. n + 1 : g[i] = g[i - 1] \o t[i]
  <2>1. Flattens(S, t) BY ONLY <1>1, FlattenSteps
  <2>2. Len(t) = n + 1 BY <1>1
  <2>. QED BY ONLY <2>1, <2>2 DEF Flattens
<1>3. CASE s = <<>>
  <2>1. n = 0 BY <1>3, EmptySeq DEF n
  <2>2. FlattenSeq(t) = e BY <1>1, <1>2, <2>1
  <2>3. <<>> \o e = e BY ConcatEmptySeq
  <2>. QED BY <1>3, <2>2, <2>3, FlattenEmpty DEF t
<1>4. CASE s # <<>>
  <2>1. PICK f \in [1 .. n -> Seq(S)] :
           /\ FlattenSeq(s) = f[n] /\ f[1] = s[1]
           /\ \A i \in 2 .. n : f[i] = f[i - 1] \o s[i]
        BY <1>4, FlattenSteps DEF n, Flattens
  <2>2. n > 0 BY <1>4, EmptySeq DEF n
  <2>3. g[1] = s[1]
    <3>1. 1 \in 1 .. n BY <1>1, <2>2
    <3>. QED BY <1>1, <1>2, <3>1
  <2>4. ASSUME NEW i \in 2 .. n PROVE g[i] = g[i - 1] \o s[i]
    <3>1. i \in 1 .. n /\ i \in 2 .. n + 1 BY <1>1
    <3>2. t[i] = s[i] BY <1>1, <3>1
    <3>3. g[i] = g[i - 1] \o t[i] BY <1>2, <3>1
    <3>. QED BY <3>2, <3>3
  <2>5. f[n] = g[n]
    <3>. DEFINE Same == {k \in Nat : k + 1 \in 1 .. n => f[k + 1] = g[k + 1]}
    <3>1. 0 \in Same BY <2>1, <2>3
    <3>2. ASSUME NEW k \in Nat, k \in Same PROVE k + 1 \in Same
      <4>1. CASE k + 2 \in 1 .. n
        <5>1. /\ k + 2 \in 2 .. n /\ k + 1 \in 1 .. n /\ (k + 2) - 1 = k + 1
              /\ k + 1 + 1 = k + 2
              BY <1>1, <4>1
        <5>2. f[k + 1] = g[k + 1] BY <3>2, <5>1
        <5>3. f[k + 2] = f[(k + 2) - 1] \o s[k + 2] BY <2>1, <5>1
        <5>4. g[k + 2] = g[(k + 2) - 1] \o s[k + 2] BY <2>4, <5>1
        <5>5. f[k + 1 + 1] = g[k + 1 + 1] BY <5>1, <5>2, <5>3, <5>4
        <5>. QED BY <5>5
      <4>2. CASE k + 2 \notin 1 .. n
        <5>1. k + 1 + 1 \notin 1 .. n BY <1>1, <4>2
        <5>. QED BY <5>1
      <4>. QED BY <4>1, <4>2
    <3>3. Nat \subseteq Same
      <4>. HIDE DEF Same
      <4>. QED BY <3>1, <3>2, SetInduction
    <3>4. n - 1 \in Nat /\ (n - 1) + 1 = n /\ n \in 1 .. n BY <1>1, <2>2
    <3>. QED BY <3>3, <3>4
  <2>6. n + 1 \in 2 .. n + 1 /\ (n + 1) - 1 = n BY <1>1, <2>2
  <2>7. g[n + 1] = g[n] \o e BY <1>1, <1>2, <2>6
  <2>8. g[n + 1] = f[n] \o e BY <2>5, <2>7
  <2>. QED BY <1>2, <2>1, <2>8 DEF t
<1>. QED BY <1>3, <1>4

(* Append on the right of a concatenation. *)
LEMMA AppendOfConcat ==
    ASSUME NEW S, NEW s \in Seq(S), NEW t \in Seq(S), NEW e \in S
    PROVE  s \o Append(t, e) = Append(s \o t, e)
<1>1. Append(t, e) = t \o <<e>> BY AppendIsConcat
<1>2. s \o t \in Seq(S) /\ <<e>> \in Seq(S) BY ConcatProperties
<1>3. Append(s \o t, e) = (s \o t) \o <<e>> BY <1>2, AppendIsConcat
<1>. QED BY <1>1, <1>2, <1>3, ConcatAssociative

(* Flattening is a homomorphism. *)
LEMMA FlattenConcat ==
    ASSUME NEW S, NEW s \in Seq(Seq(S)), NEW t \in Seq(Seq(S))
    PROVE  FlattenSeq(s \o t) = FlattenSeq(s) \o FlattenSeq(t)
<1>. DEFINE P == {n \in Nat : \A u \in Seq(Seq(S)) : Len(u) = n =>
                     FlattenSeq(s \o u) = FlattenSeq(s) \o FlattenSeq(u)}
<1>1. 0 \in P
  <2>1. ASSUME NEW u \in Seq(Seq(S)), Len(u) = 0
        PROVE  FlattenSeq(s \o u) = FlattenSeq(s) \o FlattenSeq(u)
    <3>1. u = <<>> BY <2>1, EmptySeq
    <3>2. s \o u = s BY <3>1, ConcatEmptySeq
    <3>3. FlattenSeq(s) \in Seq(S) BY FlattenType
    <3>4. FlattenSeq(s) \o <<>> = FlattenSeq(s) BY <3>3, ConcatEmptySeq
    <3>. QED BY <3>1, <3>2, <3>4, FlattenEmpty
  <2>. QED BY <2>1
<1>2. ASSUME NEW n \in Nat, n \in P PROVE n + 1 \in P
  <2>1. ASSUME NEW u \in Seq(Seq(S)), Len(u) = n + 1
        PROVE  FlattenSeq(s \o u) = FlattenSeq(s) \o FlattenSeq(u)
    <3>1. u # <<>> BY <2>1, EmptySeq
    <3>2. PICK v \in Seq(Seq(S)), e \in Seq(S) : u = Append(v, e)
          BY <3>1, SequenceEmptyOrAppend
    <3>3. Len(v) = n
      <4>1. Len(v) \in Nat /\ Len(u) = Len(v) + 1 BY <3>2, AppendProperties, LenProperties
      <4>. QED BY <2>1, <4>1
    <3>4. FlattenSeq(s \o v) = FlattenSeq(s) \o FlattenSeq(v) BY <1>2, <3>3
    <3>5. s \o v \in Seq(Seq(S)) BY ConcatProperties
    <3>6. s \o u = Append(s \o v, e) BY <3>2, AppendOfConcat
    <3>7. FlattenSeq(s \o u) = FlattenSeq(s \o v) \o e BY <3>5, <3>6, FlattenAppend
    <3>8. FlattenSeq(u) = FlattenSeq(v) \o e BY <3>2, FlattenAppend
    <3>9. FlattenSeq(s) \in Seq(S) /\ FlattenSeq(v) \in Seq(S) BY FlattenType
    <3>10. (FlattenSeq(s) \o FlattenSeq(v)) \o e = FlattenSeq(s) \o (FlattenSeq(v) \o e)
      <4>1. e \in Seq(S) OBVIOUS
      <4>. QED BY <3>9, <4>1, ConcatAssociative, SMTT(30)
    <3>. QED BY <3>4, <3>7, <3>8, <3>10
  <2>. QED BY <2>1
<1>3. Nat \subseteq P
  <2>. HIDE DEF P
  <2>. QED BY <1>1, <1>2, SetInduction
<1>4. Len(t) \in Nat BY LenProperties
<1>. QED BY <1>3, <1>4

-----------------------------------------------------------------------------
(* What the values of F at the elements of s are, one after the other. *)
Mapped(F, s)  == [i \in DOMAIN s |-> F[s[i]]]
FlatMap(F, s) == FlattenSeq(Mapped(F, s))
Maps(F, A, S) == F \in [A -> Seq(S)]

(* Induction on sequences, stated of a set of them. *)
LEMMA SeqInduction ==
    ASSUME NEW S, NEW P, <<>> \in P,
           \A s \in Seq(S), e \in S : s \in P => Append(s, e) \in P
    PROVE  Seq(S) \subseteq P
<1>. DEFINE Q == {n \in Nat : \A s \in Seq(S) : Len(s) = n => s \in P}
<1>1. 0 \in Q BY EmptySeq
<1>2. ASSUME NEW n \in Nat, n \in Q PROVE n + 1 \in Q
  <2>1. ASSUME NEW s \in Seq(S), Len(s) = n + 1 PROVE s \in P
    <3>1. s # <<>> BY <2>1, EmptySeq
    <3>2. PICK u \in Seq(S), e \in S : s = Append(u, e) BY <3>1, SequenceEmptyOrAppend
    <3>3. Len(u) \in Nat /\ Len(s) = Len(u) + 1 BY <3>2, AppendProperties, LenProperties
    <3>4. Len(u) = n BY <2>1, <3>3
    <3>. QED BY <1>2, <3>2, <3>4
  <2>. QED BY <2>1
<1>3. Nat \subseteq Q
  <2>. HIDE DEF Q
  <2>. QED BY <1>1, <1>2, SetInduction
<1>4. \A s \in Seq(S) : Len(s) \in Nat BY LenProperties
<1>. QED BY <1>3, <1>4

LEMMA MapType ==
    ASSUME NEW A, NEW S, NEW F, Maps(F, A, S), NEW s \in Seq(A)
    PROVE  Mapped(F, s) \in Seq(Seq(S)) /\ Len(Mapped(F, s)) = Len(s)
<1>1. DOMAIN s = 1 .. Len(s) /\ Len(s) \in Nat /\ \A i \in 1 .. Len(s) : s[i] \in A
      BY LenProperties, ElementOfSeq
<1>2. \A i \in 1 .. Len(s) : F[s[i]] \in Seq(S) BY <1>1 DEF Maps
<1>3. [i \in 1 .. Len(s) |-> F[s[i]]] \in [1 .. Len(s) -> Seq(S)] BY <1>2
<1>. QED BY <1>1, <1>3, SeqDef, LenProperties DEF Mapped

LEMMA FlatMapEmpty == ASSUME NEW F PROVE FlatMap(F, <<>>) = <<>>
<1>1. [i \in DOMAIN <<>> |-> F[<<>>[i]]] = <<>>
  <2>. DEFINE m == [i \in DOMAIN <<>> |-> F[<<>>[i]]]
  <2>1. DOMAIN <<>> = 1 .. 0 /\ 0 \in Nat OBVIOUS
  <2>2. m \in [1 .. 0 -> {}] BY <2>1
  <2>3. m \in Seq({}) BY <2>1, <2>2, SeqDef
  <2>4. Len(m) = 0
    <3>1. DOMAIN m = 1 .. 0 BY <2>2
    <3>. HIDE DEF m
    <3>. QED BY <2>1, <2>3, <3>1, LenProperties
  <2>. HIDE DEF m
  <2>. QED BY <2>3, <2>4, EmptySeq
<1>. QED BY <1>1, FlattenEmpty DEF FlatMap, Mapped

LEMMA FlatMapType ==
    ASSUME NEW A, NEW S, NEW F, Maps(F, A, S), NEW s \in Seq(A)
    PROVE  FlatMap(F, s) \in Seq(S)
BY MapType, FlattenType DEF FlatMap

LEMMA FlatMapAppend ==
    ASSUME NEW A, NEW S, NEW F, Maps(F, A, S), NEW s \in Seq(A), NEW e \in A
    PROVE  FlatMap(F, Append(s, e)) = FlatMap(F, s) \o F[e]
<1>. DEFINE m == Mapped(F, s)
            t == Append(s, e)
            k == Mapped(F, t)
<1>1. /\ t \in Seq(A) /\ Len(t) = Len(s) + 1 /\ Len(s) \in Nat
      /\ \A i \in 1 .. Len(s) : t[i] = s[i]
      /\ t[Len(s) + 1] = e
      BY AppendProperties, LenProperties
<1>2. m \in Seq(Seq(S)) /\ Len(m) = Len(s) /\ F[e] \in Seq(S)
  <2>1. m \in Seq(Seq(S)) /\ Len(m) = Len(s) BY MapType
  <2>. QED BY <2>1 DEF Maps
<1>3. k \in Seq(Seq(S)) /\ Len(k) = Len(s) + 1
  <2>. HIDE DEF t
  <2>. QED BY <1>1, MapType
<1>4. /\ Append(m, F[e]) \in Seq(Seq(S)) /\ Len(Append(m, F[e])) = Len(s) + 1
      /\ \A i \in 1 .. Len(s) : Append(m, F[e])[i] = m[i]
      /\ Append(m, F[e])[Len(s) + 1] = F[e]
  <2>. HIDE DEF m
  <2>. QED BY <1>2, AppendProperties
<1>5. ASSUME NEW i \in 1 .. Len(s) + 1 PROVE k[i] = Append(m, F[e])[i]
  <2>0. DOMAIN s = 1 .. Len(s) /\ DOMAIN t = 1 .. Len(s) + 1
    <3>. HIDE DEF t
    <3>. QED BY <1>1, LenProperties
  <2>1. CASE i \in 1 .. Len(s)
    <3>1. k[i] = F[t[i]] /\ m[i] = F[s[i]] BY <2>0, <2>1 DEF Mapped
    <3>2. t[i] = s[i] /\ Append(m, F[e])[i] = m[i] BY <1>1, <1>4, <2>1
    <3>. QED BY <3>1, <3>2
  <2>2. CASE i = Len(s) + 1
    <3>1. k[i] = F[t[i]] BY <2>0 DEF Mapped
    <3>. QED BY <1>1, <1>4, <2>2, <3>1
  <2>3. i \in 1 .. Len(s) \/ i = Len(s) + 1 BY <1>1
  <2>. QED BY <2>1, <2>2, <2>3
<1>6. k = Append(m, F[e])
  <2>. HIDE DEF k, m, t
  <2>. QED BY <1>3, <1>4, <1>5, SeqEqual
<1>7. FlattenSeq(Append(m, F[e])) = FlattenSeq(m) \o F[e]
  <2>. HIDE DEF m
  <2>. QED BY <1>2, FlattenAppend
<1>. QED BY <1>6, <1>7 DEF FlatMap

LEMMA FlatMapConcat ==
    ASSUME NEW A, NEW S, NEW F, Maps(F, A, S), NEW s \in Seq(A), NEW t \in Seq(A)
    PROVE  FlatMap(F, s \o t) = FlatMap(F, s) \o FlatMap(F, t)
<1>. DEFINE P == {u \in Seq(A) : FlatMap(F, s \o u) = FlatMap(F, s) \o FlatMap(F, u)}
<1>0. \A u \in Seq(A) : FlatMap(F, u) \in Seq(S) BY FlatMapType
<1>1. <<>> \in P
  <2>1. s \o <<>> = s /\ FlatMap(F, s) \o <<>> = FlatMap(F, s) BY <1>0, ConcatEmptySeq
  <2>. QED BY <2>1, FlatMapEmpty, EmptySeq
<1>2. ASSUME NEW u \in Seq(A), NEW e \in A, u \in P PROVE Append(u, e) \in P
  <2>1. s \o u \in Seq(A) /\ Append(u, e) \in Seq(A) BY ConcatProperties, AppendProperties
  <2>2. s \o Append(u, e) = Append(s \o u, e) BY AppendOfConcat
  <2>3. FlatMap(F, Append(s \o u, e)) = FlatMap(F, s \o u) \o F[e]
    <3>1. PICK w \in Seq(A) : w = s \o u BY <2>1
    <3>2. FlatMap(F, Append(w, e)) = FlatMap(F, w) \o F[e] BY FlatMapAppend
    <3>. QED BY <3>1, <3>2
  <2>4. FlatMap(F, Append(u, e)) = FlatMap(F, u) \o F[e] BY FlatMapAppend
  <2>5. FlatMap(F, s) \in Seq(S) /\ FlatMap(F, u) \in Seq(S) /\ F[e] \in Seq(S)
        BY <1>0 DEF Maps
  <2>6. (FlatMap(F, s) \o FlatMap(F, u)) \o F[e] = FlatMap(F, s) \o (FlatMap(F, u) \o F[e])
    <3>1. PICK x \in Seq(S), y \in Seq(S), z \in Seq(S) :
             x = FlatMap(F, s) /\ y = FlatMap(F, u) /\ z = F[e]
          BY <2>5
    <3>2. (x \o y) \o z = x \o (y \o z) BY ConcatAssociative
    <3>. QED BY <3>1, <3>2
  <2>7. FlatMap(F, s \o u) = FlatMap(F, s) \o FlatMap(F, u) BY <1>2
  <2>. QED BY <2>1, <2>2, <2>3, <2>4, <2>6, <2>7
<1>3. Seq(A) \subseteq P
  <2>. HIDE DEF P
  <2>. QED BY <1>1, <1>2, SeqInduction
<1>. QED BY <1>3

(* One sequence, and the first of several. *)
LEMMA FlatMapOne ==
    ASSUME NEW A, NEW S, NEW F, Maps(F, A, S), NEW e \in A
    PROVE  FlatMap(F, <<e>>) = F[e]
<1>1. <<>> \in Seq(A) /\ F[e] \in Seq(S) BY EmptySeq DEF Maps
<1>2. FlatMap(F, Append(<<>>, e)) = FlatMap(F, <<>>) \o F[e] BY <1>1, FlatMapAppend
<1>3. Append(<<>>, e) = <<e>> OBVIOUS
<1>. QED BY <1>1, <1>2, <1>3, FlatMapEmpty, ConcatEmptySeq

LEMMA HeadAndTail ==
    ASSUME NEW A, NEW s \in Seq(A), s # <<>>
    PROVE  /\ Head(s) \in A /\ Tail(s) \in Seq(A) /\ <<Head(s)>> \in Seq(A)
           /\ s = <<Head(s)>> \o Tail(s)
<1>1. /\ Head(s) \in A /\ Tail(s) \in Seq(A) /\ Len(Tail(s)) = Len(s) - 1 /\ Head(s) = s[1]
      /\ \A i \in 1 .. Len(Tail(s)) : Tail(s)[i] = s[i + 1]
      BY HeadTailProperties, EmptySeq
<1>2. PICK h \in A : h = Head(s) BY <1>1
<1>3. <<h>> \in Seq(A) /\ Len(<<h>>) = 1 /\ <<h>>[1] = h OBVIOUS
<1>4. PICK r \in Seq(A) : r = Tail(s) BY <1>1
<1>5. /\ <<h>> \o r \in Seq(A) /\ Len(<<h>> \o r) = Len(<<h>>) + Len(r)
      /\ \A i \in 1 .. Len(<<h>>) + Len(r) :
            (<<h>> \o r)[i] = IF i <= Len(<<h>>) THEN <<h>>[i] ELSE r[i - Len(<<h>>)]
      BY <1>3, ConcatProperties
<1>6. Len(s) \in Nat /\ Len(s) > 0 /\ Len(r) = Len(s) - 1 BY <1>1, <1>4, EmptySeq, LenProperties
<1>7. ASSUME NEW i \in 1 .. Len(s) PROVE s[i] = (<<h>> \o r)[i]
  <2>1. CASE i = 1 BY <1>1, <1>2, <1>3, <1>5, <1>6, <2>1
  <2>2. CASE i > 1
    <3>1. i - 1 \in 1 .. Len(r) /\ (i - 1) + 1 = i /\ i \in 1 .. 1 + Len(r) BY <1>6, <2>2
    <3>2. r[i - 1] = s[i] BY <1>1, <1>4, <3>1
    <3>. QED BY <1>3, <1>5, <2>2, <3>1, <3>2
  <2>. QED BY <1>6, <2>1, <2>2
<1>8. Len(s) = Len(<<h>> \o r) BY <1>3, <1>5, <1>6
<1>9. s = <<h>> \o r BY <1>5, <1>7, <1>8, SeqEqual
<1>. QED BY <1>1, <1>2, <1>3, <1>4, <1>9

LEMMA FlatMapHead ==
    ASSUME NEW A, NEW S, NEW F, Maps(F, A, S), NEW s \in Seq(A), s # <<>>
    PROVE  FlatMap(F, s) = F[Head(s)] \o FlatMap(F, Tail(s))
<1>1. PICK h \in A, r \in Seq(A) : h = Head(s) /\ r = Tail(s) /\ s = <<h>> \o r
      BY HeadAndTail
<1>0. <<h>> \in Seq(A) OBVIOUS
<1>2. PICK q \in Seq(A) : q = <<h>> BY <1>0
<1>3. FlatMap(F, q \o r) = FlatMap(F, q) \o FlatMap(F, r) BY FlatMapConcat
<1>4. FlatMap(F, q) = F[h] BY <1>2, FlatMapOne
<1>. QED BY <1>1, <1>2, <1>3, <1>4

-----------------------------------------------------------------------------
(* The sum of a function over a finite set, as the community modules fold  *)
(* it: g gives it for each subset, taking one element after the other.     *)
One(s) == CHOOSE x \in s : TRUE

Sums(S, f, g) ==
    g = [s \in SUBSET S |-> IF s = {} THEN 0 ELSE f[One(s)] + g[s \ {One(s)}]]

LEMMA SubsetSize ==
    ASSUME NEW S, IsFiniteSet(S), NEW s \in SUBSET S
    PROVE  IsFiniteSet(s) /\ Cardinality(s) \in Nat /\ (Cardinality(s) = 0 <=> s = {})
<1>1. IsFiniteSet(s) BY FS_Subset
<1>. QED BY <1>1, FS_CardinalityType, FS_EmptySet

LEMMA OneLess ==
    ASSUME NEW S, IsFiniteSet(S), NEW s \in SUBSET S, s # {}
    PROVE  /\ One(s) \in s /\ s \ {One(s)} \in SUBSET S
           /\ Cardinality(s) = Cardinality(s \ {One(s)}) + 1
           /\ Cardinality(s \ {One(s)}) \in Nat
<1>1. IsFiniteSet(s) /\ Cardinality(s) \in Nat BY SubsetSize
<1>2. One(s) \in s BY DEF One
<1>3. s \ {One(s)} \in SUBSET S OBVIOUS
<1>4. Cardinality(s \ {One(s)}) = Cardinality(s) - 1 BY <1>1, <1>2, FS_RemoveElement
<1>5. Cardinality(s \ {One(s)}) \in Nat BY <1>3, SubsetSize
<1>. QED BY <1>1, <1>2, <1>3, <1>4, <1>5

LEMMA SumExists ==
    ASSUME NEW S, IsFiniteSet(S), NEW f \in [S -> Int]
    PROVE  \E g : Sums(S, f, g)
<1>. DEFINE V == [SUBSET S -> Int]
            v0 == [s \in SUBSET S |-> 0]
            Better(g) == [s \in SUBSET S |-> IF s = {} THEN 0 ELSE f[One(s)] + g[s \ {One(s)}]]
            G == [p \in V \X Nat |-> Better(p[1])]
<1>1. v0 \in V OBVIOUS
<1>2. ASSUME NEW g \in V PROVE Better(g) \in V
  <2>1. ASSUME NEW s \in SUBSET S, s # {} PROVE f[One(s)] + g[s \ {One(s)}] \in Int
    <3>1. One(s) \in S /\ s \ {One(s)} \in SUBSET S BY <2>1, OneLess
    <3>2. f[One(s)] \in Int /\ g[s \ {One(s)}] \in Int BY <3>1
    <3>. QED BY <3>2
  <2>. QED BY <2>1
<1>3. G \in [V \X Nat -> V]
  <2>. HIDE DEF V, Better
  <2>. QED BY <1>2
<1>4. PICK h \in [Nat -> V] : h[0] = v0 /\ \A n \in Nat : h[n + 1] = G[<<h[n], n>>]
  <2>. HIDE DEF V, v0, G
  <2>1. Recurs(V, v0, G) BY <1>1, <1>3, Recursion
  <2>. QED BY <2>1 DEF Recurs
<1>5. ASSUME NEW n \in Nat PROVE h[n + 1] = Better(h[n])
  <2>1. <<h[n], n>> \in V \X Nat BY <1>4
  <2>2. h[n + 1] = G[<<h[n], n>>] BY <1>4
  <2>. HIDE DEF V, Better
  <2>. QED BY <2>1, <2>2
<1>. DEFINE g == [s \in SUBSET S |-> h[Cardinality(s)][s]]
<1>6. ASSUME NEW s \in SUBSET S
      PROVE  g[s] = IF s = {} THEN 0 ELSE f[One(s)] + g[s \ {One(s)}]
  <2>1. CASE s = {}
    <3>1. Cardinality({}) = 0 BY FS_EmptySet
    <3>. QED BY <1>4, <2>1, <3>1
  <2>2. CASE s # {}
    <3>1. /\ s \ {One(s)} \in SUBSET S /\ Cardinality(s) = Cardinality(s \ {One(s)}) + 1
          /\ Cardinality(s \ {One(s)}) \in Nat
          BY <2>2, OneLess
    <3>2. PICK n \in Nat : n = Cardinality(s \ {One(s)}) BY <3>1
    <3>3. h[n + 1] = Better(h[n]) BY <1>5
    <3>4. h[n + 1][s] = f[One(s)] + h[n][s \ {One(s)}] BY <2>2, <3>3
    <3>5. g[s] = h[n + 1][s] /\ g[s \ {One(s)}] = h[n][s \ {One(s)}] BY <3>1, <3>2
    <3>. QED BY <2>2, <3>4, <3>5
  <2>. QED BY <2>1, <2>2
<1>7. g = [s \in SUBSET S |-> g[s]] OBVIOUS
<1>. HIDE DEF g
<1>8. Sums(S, f, g) BY <1>6, <1>7 DEF Sums
<1>. QED BY <1>8

(* ... of all values of a function. *)
SumOf(f) == FoldFunction(+, 0, f)

LEMMA SumIsTaken ==
    ASSUME NEW S, IsFiniteSet(S), NEW f \in [S -> Int]
    PROVE  \E g : Sums(S, f, g) /\ SumOf(f) = g[S]
<1>. DEFINE Is(g) == g = [s \in SUBSET S |-> IF s = {} THEN 0
                                             ELSE f[CHOOSE x \in s : TRUE]
                                                      + g[s \ {CHOOSE x \in s : TRUE}]]
            g == CHOOSE g : Is(g)
<1>1. \E k : Is(k)
  <2>1. PICK k : Sums(S, f, k) BY SumExists
  <2>2. Is(k) BY <2>1 DEF Sums, One
  <2>. HIDE DEF Is
  <2>. QED BY <2>2
<1>2. Is(g)
  <2>. HIDE DEF Is
  <2>. QED BY <1>1
<1>3. SumOf(f) = g[S]
  <2>1. DOMAIN f = S OBVIOUS
  <2>. QED BY <2>1 DEF SumOf, FoldFunction, FoldFunctionOnSet, MapThenFoldSet
<1>. HIDE DEF g
<1>4. Sums(S, f, g) BY <1>2 DEF Sums, One
<1>. QED BY <1>3, <1>4

(* Sums are numbers, and differ by as much as one value does. *)
Differ(S, g, h, c, d) ==
    \A s \in SUBSET S : /\ g[s] \in Int /\ h[s] \in Int
                        /\ h[s] = IF c \in s THEN g[s] + d ELSE g[s]

LEMMA SumDiffers ==
    ASSUME NEW S, IsFiniteSet(S), NEW f \in [S -> Int], NEW e \in [S -> Int],
           NEW c \in S, \A x \in S \ {c} : e[x] = f[x],
           NEW g, Sums(S, f, g), NEW h, Sums(S, e, h)
    PROVE  Differ(S, g, h, c, e[c] - f[c])
<1>. DEFINE Right(s) == /\ g[s] \in Int /\ h[s] \in Int
                        /\ h[s] = IF c \in s THEN g[s] + (e[c] - f[c]) ELSE g[s]
            P == {n \in Nat : \A s \in SUBSET S : Cardinality(s) = n => Right(s)}
<1>e. g[{}] = 0 /\ h[{}] = 0 BY DEF Sums
<1>1. 0 \in P
  <2>1. \A s \in SUBSET S : Cardinality(s) = 0 => s = {} BY SubsetSize
  <2>2. Right({}) BY <1>e
  <2>. HIDE DEF Right
  <2>. QED BY <2>1, <2>2
<1>2. ASSUME NEW n \in Nat, n \in P PROVE n + 1 \in P
  <2>1. ASSUME NEW s \in SUBSET S, Cardinality(s) = n + 1 PROVE Right(s)
    <3>1. s # {}
      <4>1. Cardinality({}) = 0 BY FS_EmptySet
      <4>2. n + 1 # 0 OBVIOUS
      <4>. QED BY <2>1, <4>1, <4>2
    <3>2. PICK x \in s : x = One(s) BY <3>1, OneLess
    <3>3. PICK t \in SUBSET S : t = s \ {x} OBVIOUS
    <3>4. Cardinality(t) = n
      <4>1. Cardinality(s \ {One(s)}) \in Nat /\ Cardinality(s) = Cardinality(s \ {One(s)}) + 1
            BY <3>1, OneLess
      <4>2. Cardinality(t) \in Nat /\ Cardinality(t) + 1 = n + 1 BY <2>1, <3>2, <3>3, <4>1
      <4>. QED BY <4>2
    <3>5. Right(t) BY <1>2, <3>4
    <3>6. g[s] = f[x] + g[t] BY <3>1, <3>2, <3>3 DEF Sums
    <3>7. h[s] = e[x] + h[t] BY <3>1, <3>2, <3>3 DEF Sums
    <3>8. x \in S /\ f[x] \in Int /\ e[x] \in Int /\ f[c] \in Int /\ e[c] \in Int BY <3>2
    <3>9. CASE x = c
      <4>1. c \in s /\ c \notin t BY <3>2, <3>3, <3>9
      <4>. QED BY <3>5, <3>6, <3>7, <3>8, <3>9, <4>1
    <3>10. CASE x # c
      <4>1. e[x] = f[x] /\ (c \in s <=> c \in t) BY <3>3, <3>8, <3>10
      <4>. QED BY <3>5, <3>6, <3>7, <3>8, <4>1
    <3>. QED BY <3>9, <3>10
  <2>. HIDE DEF Right
  <2>. QED BY <2>1
<1>3. Nat \subseteq P
  <2>. HIDE DEF P
  <2>. QED BY <1>1, <1>2, SetInduction
<1>4. ASSUME NEW s \in SUBSET S PROVE Right(s)
  <2>1. Cardinality(s) \in Nat BY SubsetSize
  <2>. HIDE DEF Right
  <2>. QED BY <1>3, <2>1
<1>. QED BY <1>4 DEF Differ

(* When a value changes, the sum changes as much. *)
LEMMA SumOfChanged ==
    ASSUME NEW S, IsFiniteSet(S), NEW f \in [S -> Int], NEW e \in [S -> Int], NEW c \in S,
           \A x \in S \ {c} : e[x] = f[x]
    PROVE  SumOf(f) \in Int /\ SumOf(e) = SumOf(f) + (e[c] - f[c])
<1>1. PICK g : Sums(S, f, g) /\ SumOf(f) = g[S] BY SumIsTaken
<1>2. PICK h : Sums(S, e, h) /\ SumOf(e) = h[S] BY SumIsTaken
<1>3. Differ(S, g, h, c, e[c] - f[c]) BY <1>1, <1>2, SumDiffers
<1>4. g[S] \in Int /\ h[S] = g[S] + (e[c] - f[c]) BY <1>3 DEF Differ
<1>. QED BY <1>1, <1>2, <1>4

(* The sum of nothing but zeros. *)
LEMMA SumOfZero ==
    ASSUME NEW S, IsFiniteSet(S)
    PROVE  SumOf([x \in S |-> 0]) = 0
<1>. DEFINE z == [x \in S |-> 0]
<1>1. z \in [S -> Int] /\ \A x \in S : z[x] = 0 OBVIOUS
<1>. HIDE DEF z
<1>2. PICK g : Sums(S, z, g) /\ SumOf(z) = g[S] BY <1>1, SumIsTaken
<1>. DEFINE P == {n \in Nat : \A s \in SUBSET S : Cardinality(s) = n => g[s] = 0}
<1>3. 0 \in P
  <2>1. g[{}] = 0 BY <1>2 DEF Sums
  <2>2. \A s \in SUBSET S : Cardinality(s) = 0 => s = {} BY SubsetSize
  <2>. QED BY <2>1, <2>2
<1>4. ASSUME NEW n \in Nat, n \in P PROVE n + 1 \in P
  <2>1. ASSUME NEW s \in SUBSET S, Cardinality(s) = n + 1 PROVE g[s] = 0
    <3>1. s # {}
      <4>1. Cardinality({}) = 0 BY FS_EmptySet
      <4>2. n + 1 # 0 OBVIOUS
      <4>. QED BY <2>1, <4>1, <4>2
    <3>2. PICK x \in s : x = One(s) BY <3>1, OneLess
    <3>3. PICK t \in SUBSET S : t = s \ {x} OBVIOUS
    <3>4. Cardinality(t) = n
      <4>1. Cardinality(s \ {One(s)}) \in Nat /\ Cardinality(s) = Cardinality(s \ {One(s)}) + 1
            BY <3>1, OneLess
      <4>2. Cardinality(t) \in Nat /\ Cardinality(t) + 1 = n + 1 BY <2>1, <3>2, <3>3, <4>1
      <4>. QED BY <4>2
    <3>5. g[t] = 0 BY <1>4, <3>4
    <3>6. g[s] = z[x] + g[t] BY <1>2, <3>1, <3>2, <3>3 DEF Sums
    <3>7. z[x] = 0 BY <1>1
    <3>. QED BY <3>5, <3>6, <3>7
  <2>. QED BY <2>1
<1>5. Nat \subseteq P
  <2>. HIDE DEF P
  <2>. QED BY <1>3, <1>4, SetInduction
<1>6. Cardinality(S) \in Nat BY FS_CardinalityType
<1>7. g[S] = 0 BY <1>5, <1>6
<1>. QED BY <1>2, <1>7 DEF z

(* A sum of natural numbers is at least each of them. *)
LEMMA SumOfNat ==
    ASSUME NEW S, IsFiniteSet(S), NEW f \in [S -> Nat]
    PROVE  SumOf(f) \in Nat
<1>1. f \in [S -> Int] /\ \A x \in S : f[x] \in Nat OBVIOUS
<1>2. PICK g : Sums(S, f, g) /\ SumOf(f) = g[S] BY <1>1, SumIsTaken
<1>. DEFINE P == {n \in Nat : \A s \in SUBSET S : Cardinality(s) = n => g[s] \in Nat}
<1>3. 0 \in P
  <2>1. g[{}] = 0 BY <1>2 DEF Sums
  <2>2. \A s \in SUBSET S : Cardinality(s) = 0 => s = {} BY SubsetSize
  <2>. QED BY <2>1, <2>2
<1>4. ASSUME NEW n \in Nat, n \in P PROVE n + 1 \in P
  <2>1. ASSUME NEW s \in SUBSET S, Cardinality(s) = n + 1 PROVE g[s] \in Nat
    <3>1. s # {}
      <4>1. Cardinality({}) = 0 BY FS_EmptySet
      <4>2. n + 1 # 0 OBVIOUS
      <4>. QED BY <2>1, <4>1, <4>2
    <3>2. PICK x \in s : x = One(s) BY <3>1, OneLess
    <3>3. PICK t \in SUBSET S : t = s \ {x} OBVIOUS
    <3>4. Cardinality(t) = n
      <4>1. Cardinality(s \ {One(s)}) \in Nat /\ Cardinality(s) = Cardinality(s \ {One(s)}) + 1
            BY <3>1, OneLess
      <4>2. Cardinality(t) \in Nat /\ Cardinality(t) + 1 = n + 1 BY <2>1, <3>2, <3>3, <4>1
      <4>. QED BY <4>2
    <3>5. g[t] \in Nat BY <1>4, <3>4
    <3>6. g[s] = f[x] + g[t] BY <1>2, <3>1, <3>2, <3>3 DEF Sums
    <3>7. f[x] \in Nat BY <1>1
    <3>. QED BY <3>5, <3>6, <3>7
  <2>. QED BY <2>1
<1>5. Nat \subseteq P
  <2>. HIDE DEF P
  <2>. QED BY <1>3, <1>4, SetInduction
<1>6. Cardinality(S) \in Nat BY FS_CardinalityType
<1>7. g[S] \in Nat BY <1>5, <1>6
<1>. QED BY <1>2, <1>7

LEMMA SumOfBounds ==
    ASSUME NEW S, IsFiniteSet(S), NEW f \in [S -> Nat], NEW c \in S
    PROVE  f[c] <= SumOf(f)
<1>. DEFINE e == [f EXCEPT ![c] = 0]
<1>1. /\ f[c] \in Nat /\ f \in [S -> Int] /\ e \in [S -> Nat] /\ e \in [S -> Int]
      /\ e[c] = 0 /\ \A x \in S \ {c} : e[x] = f[x]
      OBVIOUS
<1>. HIDE DEF e
<1>2. SumOf(f) \in Int /\ SumOf(e) = SumOf(f) + (e[c] - f[c]) BY <1>1, SumOfChanged
<1>3. SumOf(e) \in Nat BY <1>1, SumOfNat
<1>. QED BY <1>1, <1>2, <1>3
=============================================================================
