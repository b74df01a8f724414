----------------------------- MODULE SumLemmas ------------------------------
(***************************************************************************)
(* What the library's sum over a finite set is worth, proved from its      *)
(* definition, which chooses the order of the members: it is a natural     *)
(* number, any member may be taken out of it first, and a part is no more  *)
(* than the whole.  The costs of a search, the totals of a mandate and     *)
(* those of a portfolio are such sums.  And what a total order makes of a  *)
(* finite set: every place is taken by one member.                         *)
(*                                                                         *)
(* The inductions are over a set of naturals that holds 0 and the          *)
(* successor of each of its members.                                       *)
(***************************************************************************)
EXTENDS Integers, FiniteSets, FiniteSetsExt, WellFoundedInduction, FiniteSetTheorems, TLAPS

\* A set of naturals has a least.
LEMMA NatHasAFirst ==
    ASSUME NEW T \in SUBSET Nat, T # {}
    PROVE  \E x \in T : \A y \in T : x <= y
<1>1. \E x \in T : \A y \in T : ~ (<<y, x>> \in OpToRel(<, Nat))
  BY NatLessThanWellFounded, WFMin, Zenon
<1>2. PICK x \in T : \A y \in T : ~ (<<y, x>> \in OpToRel(<, Nat))
  BY <1>1, Zenon
<1>3. ASSUME NEW y \in T PROVE x <= y
  <2>1. <<y, x>> \in Nat \X Nat /\ <<y, x>>[1] = y /\ <<y, x>>[2] = x
    OBVIOUS
  <2>2. <<y, x>> \notin {ss \in Nat \X Nat : ss[1] < ss[2]}
    BY <1>2, Zenon DEF OpToRel
  <2>3. ~(y < x)
    BY <2>1, <2>2
  <2> QED BY <2>3
<1> QED BY <1>3

\* Induction over the naturals, of a set in the place of a predicate.
LEMMA SetInduction ==
    ASSUME NEW P \in SUBSET Nat, 0 \in P, \A n \in P : n + 1 \in P
    PROVE  P = Nat
<1> SUFFICES ASSUME Nat \ P # {} PROVE FALSE
  OBVIOUS
<1>1. PICK x \in Nat \ P : \A y \in Nat \ P : x <= y
  BY NatHasAFirst
<1>2. x # 0 /\ x - 1 \in Nat
  BY <1>1
<1>3. x - 1 \in P
  BY <1>1, <1>2
<1>4. (x - 1) + 1 \in P
  BY <1>3
<1> QED BY <1>1, <1>4

\* A finite set of naturals has a greatest: by induction on how many there are.
LEMMA FiniteHasALast ==
    ASSUME NEW T \in SUBSET Nat, IsFiniteSet(T), T # {}
    PROVE  \E m \in T : \A x \in T : m >= x
<1>. DEFINE HasLast(S) == \E m \in S : \A x \in S : m >= x
            P == {k \in Nat : \A S \in SUBSET Nat :
                     IsFiniteSet(S) /\ Cardinality(S) = k + 1 => HasLast(S)}
<1>1. 0 \in P
  <2>. SUFFICES ASSUME NEW S \in SUBSET Nat, IsFiniteSet(S), Cardinality(S) = 0 + 1
                PROVE  HasLast(S)
    OBVIOUS
  <2>0. Cardinality(S) = 1
    OBVIOUS
  <2>1. PICK x : S = {x}
    BY <2>0, FS_Singleton
  <2>. QED  BY <2>1
<1>2. ASSUME NEW k \in P PROVE k + 1 \in P
  <2>. SUFFICES ASSUME NEW S \in SUBSET Nat, IsFiniteSet(S),
                       Cardinality(S) = k + 1 + 1
                PROVE  HasLast(S)
    OBVIOUS
  <2>1. S # {}
    BY FS_EmptySet
  <2>2. PICK x \in S : TRUE
    BY <2>1
  <2>3. IsFiniteSet(S \ {x}) /\ Cardinality(S \ {x}) = k + 1
    BY <2>2, FS_RemoveElement, FS_CardinalityType
  <2>4. HasLast(S \ {x})
    BY <2>3
  <2>5. PICK m \in S \ {x} : \A y \in S \ {x} : m >= y
    BY <2>4
  <2>6. CASE m >= x
    BY <2>5, <2>6
  <2>7. CASE ~(m >= x)
    <3>1. \A y \in S : x >= y
      BY <2>5, <2>7
    <3>. QED  BY <3>1
  <2>. QED  BY <2>6, <2>7
<1>3. P = Nat
  <2>. HIDE DEF P
  <2>1. P \in SUBSET Nat
    BY DEF P
  <2>. QED  BY <1>1, <1>2, <2>1, SetInduction
<1>4. Cardinality(T) \in Nat /\ Cardinality(T) # 0
  BY FS_CardinalityType, FS_EmptySet
<1>5. Cardinality(T) - 1 \in P
  BY <1>3, <1>4
<1>. QED  BY <1>4, <1>5

\* Induction over the subsets of a finite set, a member at a time.
LEMMA SubsetInduction ==
    ASSUME NEW S, IsFiniteSet(S), NEW P \in SUBSET (SUBSET S), {} \in P,
           \A s \in P : \A x \in S \ s : s \cup {x} \in P
    PROVE  P = SUBSET S
<1>. DEFINE Q == {k \in Nat : \A s \in SUBSET S : Cardinality(s) = k => s \in P}
<1>1. ASSUME NEW s \in SUBSET S
      PROVE  IsFiniteSet(s) /\ Cardinality(s) \in Nat /\ (Cardinality(s) = 0 <=> s = {})
  BY FS_Subset, FS_CardinalityType, FS_EmptySet
<1>2. 0 \in Q
  BY <1>1
<1>3. ASSUME NEW k \in Q PROVE k + 1 \in Q
  <2>. SUFFICES ASSUME NEW s \in SUBSET S, Cardinality(s) = k + 1 PROVE s \in P
    OBVIOUS
  <2>1. PICK x \in s : TRUE
    BY <1>1
  <2>2. s \ {x} \in SUBSET S /\ Cardinality(s \ {x}) = k
    BY <1>1, <2>1, FS_RemoveElement
  <2>3. s \ {x} \in P /\ x \in S \ (s \ {x}) /\ (s \ {x}) \cup {x} = s
    BY <2>1, <2>2
  <2>4. (s \ {x}) \cup {x} \in P
    BY <2>3
  <2>. QED  BY <2>3, <2>4
<1>4. Q = Nat
  <2>. HIDE DEF Q
  <2>1. Q \in SUBSET Nat
    BY DEF Q
  <2>. QED  BY <1>2, <1>3, <2>1, SetInduction
<1>. QED  BY <1>1, <1>4

\* g starts somewhere in T, and every value follows from the one before.
Follows(g, n, T, start, next) ==
    /\ g \in [0 .. n -> T] /\ g[0] = start
    /\ \A i \in 1 .. n : g[i] = next[<<i, g[i - 1]>>]

\* A recursive function over the first n numbers exists.
LEMMA RecursionExists ==
    ASSUME NEW n \in Nat, NEW T, NEW start \in T, NEW next,
           \A i \in 1 .. n : \A v \in T : next[<<i, v>>] \in T
    PROVE  \E g : Follows(g, n, T, start, next)
<1>. DEFINE Upto(g, k) == Follows(g, k, T, start, next)
            P == {k \in Nat : k <= n => \E g : Upto(g, k)}
<1>1. 0 \in P
  <2>1. Upto([i \in 0 .. 0 |-> start], 0)
    BY DEF Follows
  <2>. QED  BY <2>1
<1>2. ASSUME NEW k \in P PROVE k + 1 \in P
  <2>. SUFFICES ASSUME k + 1 <= n PROVE \E g : Upto(g, k + 1)
    OBVIOUS
  <2>1. PICK g : Upto(g, k)
    OBVIOUS
  <2>. DEFINE h == [i \in 0 .. k + 1 |-> IF i = k + 1 THEN next[<<k + 1, g[k]>>] ELSE g[i]]
  <2>2. k \in Nat /\ g[k] \in T /\ next[<<k + 1, g[k]>>] \in T
    <3>1. k \in Nat /\ k + 1 \in 1 .. n /\ k \in 0 .. k
      OBVIOUS
    <3>2. g[k] \in T
      BY <2>1, <3>1 DEF Follows
    <3>. HIDE DEF P
    <3>. QED  BY <3>1, <3>2
  <2>3. h \in [0 .. k + 1 -> T] /\ h[0] = start
    BY <2>1, <2>2 DEF Follows
  <2>4. ASSUME NEW i \in 1 .. k + 1 PROVE h[i] = next[<<i, h[i - 1]>>]
    <3>1. h[i - 1] = g[i - 1]
      BY <2>2
    <3>2. CASE i = k + 1
      <4>1. h[i] = next[<<i, g[k]>>] /\ i - 1 = k
        BY <2>2, <3>2
      <4>. HIDE DEF h
      <4>. QED  BY <3>1, <4>1
    <3>3. CASE i # k + 1
      <4>1. i \in 1 .. k /\ h[i] = g[i]
        BY <2>2, <3>3
      <4>. QED  BY <2>1, <3>1, <4>1 DEF Follows
    <3>. QED  BY <3>2, <3>3
  <2>. HIDE DEF h
  <2>. QED  BY <2>3, <2>4 DEF Follows
<1>3. P = Nat
  <2>. HIDE DEF P
  <2>1. P \in SUBSET Nat
    BY DEF P
  <2>. QED  BY <1>1, <1>2, <2>1, SetInduction
<1>4. n \in P
  BY <1>3
<1>. QED  BY <1>4

-----------------------------------------------------------------------------
(* Sums over a finite set, which the library folds by choosing a member.    *)

\* The sum of f over S, as the library has it.
SumOf(f, S) == SumFunctionOnSet(f, S)

\* The member that is taken out of s first, and what it makes of the sum.
FirstOf(s) == CHOOSE x \in s : TRUE

Summed(f, sum, s) == IF s = {} THEN 0 ELSE f[FirstOf(s)] + sum[s \ {FirstOf(s)}]

\* What the recursion over the subsets of S defines.
Sums(f, S, sum) == sum = [s \in SUBSET S |-> Summed(f, sum, s)]

\* The library chooses one of them.
LEMMA SumOfIsASum ==
    ASSUME NEW f, NEW S
    PROVE  SumOf(f, S) = (CHOOSE sum : Sums(f, S, sum))[S]
  BY DEF SumOf, SumFunctionOnSet, FoldFunctionOnSet, MapThenFoldSet, Sums, Summed, FirstOf

\* The member taken first is one.
LEMMA FirstOfIsIn ==
    ASSUME NEW s, s # {}
    PROVE  FirstOf(s) \in s
  BY DEF FirstOf

\* Such a function exists: as far as subsets of k members, for every k.
LEMMA SumsExist ==
    ASSUME NEW f, NEW S, IsFiniteSet(S)
    PROVE  \E sum : Sums(f, S, sum)
<1>. DEFINE UpTo(g, k) == g = [s \in SUBSET S |->
                                  IF Cardinality(s) <= k THEN Summed(f, g, s) ELSE 0]
            P == {k \in Nat : \E g : UpTo(g, k)}
<1>1. ASSUME NEW s \in SUBSET S
      PROVE  IsFiniteSet(s) /\ Cardinality(s) \in Nat
             /\ (Cardinality(s) = 0 <=> s = {}) /\ Cardinality(s) <= Cardinality(S)
  BY FS_Subset, FS_CardinalityType, FS_EmptySet
<1>2. ASSUME NEW s \in SUBSET S, s # {}
      PROVE  s \ {FirstOf(s)} \in SUBSET S
             /\ Cardinality(s \ {FirstOf(s)}) = Cardinality(s) - 1
  BY <1>1, <1>2, FirstOfIsIn, FS_RemoveElement
<1>3. 0 \in P
  <2>. DEFINE g == [s \in SUBSET S |-> 0]
  <2>1. ASSUME NEW s \in SUBSET S, Cardinality(s) <= 0 PROVE Summed(f, g, s) = 0
    BY <1>1, <2>1 DEF Summed
  <2>2. UpTo(g, 0)
    BY <2>1
  <2>. QED  BY <2>2
<1>4. ASSUME NEW k \in P PROVE k + 1 \in P
  <2>1. PICK g : UpTo(g, k)
    BY <1>4
  <2>. DEFINE h == [s \in SUBSET S |->
                       IF Cardinality(s) <= k + 1 THEN Summed(f, g, s) ELSE 0]
  <2>2. ASSUME NEW s \in SUBSET S, Cardinality(s) <= k + 1
        PROVE  Summed(f, h, s) = Summed(f, g, s)
    <3>1. CASE s = {}
      BY <3>1 DEF Summed
    <3>2. CASE s # {}
      <4>. DEFINE t == s \ {FirstOf(s)}
      <4>1. t \in SUBSET S /\ Cardinality(t) <= k /\ Cardinality(t) <= k + 1
        BY <1>1, <1>2, <2>2, <3>2
      <4>2. h[t] = g[t]
        <5>1. h[t] = Summed(f, g, t)
          BY <4>1
        <5>2. g[t] = Summed(f, g, t)
          BY <2>1, <4>1
        <5>. QED  BY <5>1, <5>2
      <4>. HIDE DEF h
      <4>. QED  BY <3>2, <4>2 DEF Summed
    <3>. QED  BY <3>1, <3>2
  <2>3. h = [s \in SUBSET S |-> IF Cardinality(s) <= k + 1 THEN Summed(f, g, s) ELSE 0]
    OBVIOUS
  <2>. HIDE DEF h
  <2>4. UpTo(h, k + 1)
    BY <2>2, <2>3
  <2>. QED  BY <2>4
<1>5. P = Nat
  <2>. HIDE DEF P
  <2>1. P \in SUBSET Nat
    BY DEF P
  <2>. QED  BY <1>3, <1>4, <2>1, SetInduction
<1>6. Cardinality(S) \in P
  BY <1>5, FS_CardinalityType
<1>7. PICK g : UpTo(g, Cardinality(S))
  BY <1>6
<1>8. Sums(f, S, g)
  BY <1>1, <1>7 DEF Sums
<1>. QED  BY <1>8

\* What is summed is an integer.
Integral(f, S) == \A x \in S : f[x] \in Int

\* What every sum does: it gives an integer to each subset, whichever
\* member is taken out of it first.
LEMMA SumsAdd ==
    ASSUME NEW f, NEW S, IsFiniteSet(S), Integral(f, S),
           NEW sum, Sums(f, S, sum)
    PROVE  /\ sum[{}] = 0
           /\ \A s \in SUBSET S : sum[s] \in Int
           /\ \A s \in SUBSET S : \A x \in s : sum[s] = f[x] + sum[s \ {x}]
<1>. DEFINE Adds(s) == sum[s] \in Int /\ \A x \in s : sum[s] = f[x] + sum[s \ {x}]
            P == {k \in Nat : \A s \in SUBSET S : Cardinality(s) <= k => Adds(s)}
<1>1. ASSUME NEW s \in SUBSET S
      PROVE  IsFiniteSet(s) /\ Cardinality(s) \in Nat
             /\ (Cardinality(s) = 0 <=> s = {}) /\ Cardinality(s) <= Cardinality(S)
  BY FS_Subset, FS_CardinalityType, FS_EmptySet
<1>2. ASSUME NEW s \in SUBSET S, NEW x \in s
      PROVE  s \ {x} \in SUBSET S /\ Cardinality(s \ {x}) = Cardinality(s) - 1
  BY <1>1, FS_RemoveElement
<1>3. sum[{}] = 0
  BY DEF Sums, Summed
<1>4. ASSUME NEW s \in SUBSET S, s # {}
      PROVE  FirstOf(s) \in s /\ sum[s] = f[FirstOf(s)] + sum[s \ {FirstOf(s)}]
  BY <1>4, FirstOfIsIn DEF Sums, Summed
<1>5. 0 \in P
  <2>1. ASSUME NEW s \in SUBSET S, Cardinality(s) <= 0 PROVE Adds(s)
    <3>1. s = {}
      BY <1>1, <2>1
    <3>. QED  BY <1>3, <3>1
  <2>. QED  BY <2>1
<1>6. ASSUME NEW k \in P PROVE k + 1 \in P
  <2>. SUFFICES ASSUME NEW s \in SUBSET S, Cardinality(s) <= k + 1
                PROVE  Adds(s)
    OBVIOUS
  <2>1. CASE s = {}
    BY <1>3, <2>1
  <2>2. CASE s # {}
    <3>. DEFINE c == FirstOf(s)
    <3>1. c \in s /\ sum[s] = f[c] + sum[s \ {c}]
      BY <1>4, <2>2
    <3>2. ASSUME NEW x \in s PROVE Adds(s \ {x})
      <4>1. s \ {x} \in SUBSET S /\ Cardinality(s \ {x}) <= k
        BY <1>1, <1>2
      <4>. QED  BY <4>1
    <3>. HIDE DEF c
    <3>3. sum[s] \in Int
      <4>1. f[c] \in Int /\ sum[s \ {c}] \in Int
        BY <3>1, <3>2 DEF Integral
      <4>. QED  BY <3>1, <4>1
    <3>4. ASSUME NEW x \in s, x # c PROVE sum[s] = f[x] + sum[s \ {x}]
      <4>1. x \in s \ {c} /\ c \in s \ {x} /\ (s \ {c}) \ {x} = (s \ {x}) \ {c}
        BY <3>1, <3>4
      <4>. DEFINE rest == sum[(s \ {x}) \ {c}]
      <4>2. sum[s \ {c}] = f[x] + rest
        BY <3>1, <3>2, <4>1
      <4>3. sum[s \ {x}] = f[c] + rest
        BY <3>2, <4>1
      <4>4. f[x] \in Int /\ f[c] \in Int
        BY <3>1 DEF Integral
      <4>5. rest \in Int
        <5>1. Cardinality(s \ {x}) <= k /\ s \ {x} \in SUBSET S
          BY <1>1, <1>2
        <5>2. (s \ {x}) \ {c} \in SUBSET S
              /\ Cardinality((s \ {x}) \ {c}) = Cardinality(s \ {x}) - 1
              /\ Cardinality(s \ {x}) \in Nat
          BY <1>1, <1>2, <4>1, <5>1
        <5>3. Cardinality((s \ {x}) \ {c}) <= k
          BY <5>1, <5>2
        <5>. QED  BY <5>2, <5>3
      <4>. HIDE DEF rest
      <4>. QED  BY <3>1, <4>2, <4>3, <4>4, <4>5
    <3>. QED  BY <3>1, <3>3, <3>4
  <2>. QED  BY <2>1, <2>2
<1>7. P = Nat
  <2>. HIDE DEF P
  <2>1. P \in SUBSET Nat
    BY DEF P
  <2>. QED  BY <1>5, <1>6, <2>1, SetInduction
<1>8. Cardinality(S) \in P
  <2>. HIDE DEF P
  <2>. QED  BY <1>7, FS_CardinalityType
<1>9. \A s \in SUBSET S : Adds(s)
  BY <1>1, <1>8
<1>. QED  BY <1>3, <1>9

\* Two of them agree where both are defined.
LEMMA SumsAgree ==
    ASSUME NEW f, NEW g, NEW S, IsFiniteSet(S), NEW T \in SUBSET S,
           Integral(f, S), \A x \in T : g[x] = f[x],
           NEW sum, Sums(f, S, sum), NEW part, Sums(g, T, part)
    PROVE  \A s \in SUBSET T : part[s] = sum[s]
<1>. DEFINE P == {k \in Nat : \A s \in SUBSET T :
                     Cardinality(s) <= k => part[s] = sum[s]}
<1>0. IsFiniteSet(T) /\ Integral(g, T)
  BY FS_Subset DEF Integral
<1>1. ASSUME NEW s \in SUBSET T
      PROVE  IsFiniteSet(s) /\ Cardinality(s) \in Nat
             /\ (Cardinality(s) = 0 <=> s = {}) /\ Cardinality(s) <= Cardinality(T)
  BY <1>0, FS_Subset, FS_CardinalityType, FS_EmptySet
<1>2. /\ part[{}] = 0 /\ sum[{}] = 0
      /\ \A s \in SUBSET T : \A x \in s :
            part[s] = g[x] + part[s \ {x}] /\ sum[s] = f[x] + sum[s \ {x}]
  BY <1>0, SumsAdd
<1>3. 0 \in P
  <2>1. ASSUME NEW s \in SUBSET T, Cardinality(s) <= 0 PROVE part[s] = sum[s]
    <3>1. s = {}
      BY <1>1, <2>1
    <3>. QED  BY <1>2, <3>1
  <2>. QED  BY <2>1
<1>4. ASSUME NEW k \in P PROVE k + 1 \in P
  <2>. SUFFICES ASSUME NEW s \in SUBSET T, Cardinality(s) <= k + 1
                PROVE  part[s] = sum[s]
    OBVIOUS
  <2>0. CASE s = {}
    BY <1>2, <2>0
  <2>. SUFFICES ASSUME s # {} PROVE part[s] = sum[s]
    BY <2>0
  <2>1. PICK x \in s : TRUE
    OBVIOUS
  <2>2. s \ {x} \in SUBSET T /\ Cardinality(s \ {x}) <= k
    <3>1. IsFiniteSet(s) /\ Cardinality(s) \in Nat
      BY <1>1
    <3>2. Cardinality(s \ {x}) = Cardinality(s) - 1
      BY <2>1, <3>1, FS_RemoveElement
    <3>. QED  BY <3>1, <3>2
  <2>3. part[s \ {x}] = sum[s \ {x}]
    BY <2>2
  <2>. QED  BY <1>2, <2>1, <2>3
<1>5. P = Nat
  <2>. HIDE DEF P
  <2>1. P \in SUBSET Nat
    BY DEF P
  <2>. QED  BY <1>3, <1>4, <2>1, SetInduction
<1>6. Cardinality(T) \in P
  BY <1>0, <1>5, FS_CardinalityType
<1>. QED  BY <1>1, <1>6

\* The library's own sum of a part is what any of them gives it.
LEMMA SumOfAPart ==
    ASSUME NEW f, NEW g, NEW S, IsFiniteSet(S), NEW T \in SUBSET S,
           Integral(f, S), \A x \in T : g[x] = f[x],
           NEW sum, Sums(f, S, sum)
    PROVE  SumOf(g, T) = sum[T]
<1>. DEFINE part == CHOOSE p : Sums(g, T, p)
<1>1. IsFiniteSet(T)
  BY FS_Subset
<1>2. Sums(g, T, part)
  BY <1>1, SumsExist
<1>. HIDE DEF part
<1>3. \A s \in SUBSET T : part[s] = sum[s]
  BY <1>2, SumsAgree
<1>. QED  BY <1>3, SumOfIsASum DEF part

\* What a sum is: 0 of nothing, an integer, and any member may be added last.
LEMMA SumOfAdds ==
    ASSUME NEW f, NEW S, IsFiniteSet(S), Integral(f, S)
    PROVE  /\ SumOf(f, {}) = 0
           /\ \A s \in SUBSET S : SumOf(f, s) \in Int
           /\ \A s \in SUBSET S : \A x \in s : SumOf(f, s) = f[x] + SumOf(f, s \ {x})
<1>1. PICK sum : Sums(f, S, sum)
  BY SumsExist
<1>. DEFINE Agrees(g) == \A s \in SUBSET S : SumOf(g, s) = sum[s]
<1>2. ASSUME NEW g, \A x \in S : g[x] = f[x] PROVE Agrees(g)
  BY <1>1, <1>2, SumOfAPart
<1>. HIDE DEF Agrees
<1>3. Agrees(f)
  BY <1>2
<1>4. /\ sum[{}] = 0
      /\ \A s \in SUBSET S : sum[s] \in Int
      /\ \A s \in SUBSET S : \A x \in s : sum[s] = f[x] + sum[s \ {x}]
  BY <1>1, SumsAdd
<1>. QED  BY <1>3, <1>4 DEF Agrees

\* The same, of a member that is put in.
LEMMA SumOfOneMore ==
    ASSUME NEW f, NEW S, IsFiniteSet(S), Integral(f, S),
           NEW s \in SUBSET S, NEW x \in S \ s
    PROVE  /\ SumOf(f, s \cup {x}) = f[x] + SumOf(f, s)
           /\ f[x] \in Int /\ SumOf(f, s) \in Int
<1>1. s \cup {x} \in SUBSET S /\ x \in s \cup {x} /\ (s \cup {x}) \ {x} = s
  OBVIOUS
<1>2. SumOf(f, s \cup {x}) = f[x] + SumOf(f, (s \cup {x}) \ {x})
  BY <1>1, SumOfAdds
<1>3. SumOf(f, s) \in Int /\ f[x] \in Int
  BY SumOfAdds DEF Integral
<1>. QED  BY <1>1, <1>2, <1>3

\* Two functions that agree on a set have the same sum over it.
LEMMA SumOfTheSame ==
    ASSUME NEW f, NEW g, NEW S, IsFiniteSet(S), Integral(f, S),
           \A x \in S : g[x] = f[x]
    PROVE  SumOf(g, S) = SumOf(f, S)
<1>. DEFINE sum == CHOOSE p : Sums(f, S, p)
<1>1. Sums(f, S, sum)
  BY SumsExist
<1>. HIDE DEF sum
<1>2. SumOf(g, S) = sum[S]
  BY <1>1, SumOfAPart
<1>. QED  BY <1>2, SumOfIsASum DEF sum

\* What is summed is a natural number.
Natural(f, S) == \A x \in S : f[x] \in Nat

\* Then so are the sums, and more members do not cost less.
LEMMA SumOfGrows ==
    ASSUME NEW f, NEW S, IsFiniteSet(S), Natural(f, S)
    PROVE  \A s \in SUBSET S : SumOf(f, s) \in Nat
                /\ \A t \in SUBSET s : SumOf(f, t) <= SumOf(f, s)
<1>. DEFINE Grows(s) == SumOf(f, s) \in Nat /\ \A t \in SUBSET s : SumOf(f, t) <= SumOf(f, s)
            P == {s \in SUBSET S : Grows(s)}
<1>1. Integral(f, S)
  BY DEF Natural, Integral
<1>2. {} \in P
  <2>1. SumOf(f, {}) = 0
    BY <1>1, SumOfAdds
  <2>. QED  BY <2>1
<1>3. ASSUME NEW s \in P, NEW x \in S \ s PROVE s \cup {x} \in P
  <2>1. SumOf(f, s \cup {x}) = f[x] + SumOf(f, s) /\ SumOf(f, s) \in Nat /\ f[x] \in Nat
    BY <1>1, SumOfOneMore DEF Natural
  <2>2. ASSUME NEW t \in SUBSET (s \cup {x}) PROVE SumOf(f, t) <= SumOf(f, s \cup {x})
    <3>. DEFINE rest == t \ {x}
    <3>1. rest \in SUBSET s /\ x \in S \ rest /\ rest \in SUBSET S
      OBVIOUS
    <3>2. SumOf(f, rest) <= SumOf(f, s) /\ SumOf(f, rest) \in Int
      BY <1>1, <3>1, SumOfAdds
    <3>3. CASE x \in t
      <4>1. rest \cup {x} = t
        BY <3>3
      <4>. HIDE DEF rest
      <4>2. SumOf(f, rest \cup {x}) = f[x] + SumOf(f, rest)
        BY <1>1, <3>1, SumOfOneMore
      <4>. QED  BY <2>1, <3>2, <4>1, <4>2
    <3>4. CASE x \notin t
      <4>1. rest = t
        BY <3>4
      <4>. HIDE DEF rest
      <4>. QED  BY <2>1, <3>2, <4>1
    <3>. QED  BY <3>3, <3>4
  <2>3. SumOf(f, s \cup {x}) \in Nat
    BY <2>1
  <2>. QED  BY <2>2, <2>3
<1>4. P = SUBSET S
  <2>. HIDE DEF P
  <2>1. P \in SUBSET (SUBSET S)
    BY DEF P
  <2>. QED  BY <1>2, <1>3, <2>1, SubsetInduction
<1>. QED  BY <1>4

\* A sum of natural numbers is nought where each of them is, and nowhere else.
LEMMA SumOfNoughts ==
    ASSUME NEW f, NEW S, IsFiniteSet(S), Natural(f, S)
    PROVE  SumOf(f, S) = 0 <=> \A x \in S : f[x] = 0
<1>1. Integral(f, S)
  BY DEF Natural, Integral
<1>2. ASSUME SumOf(f, S) = 0, NEW x \in S PROVE f[x] = 0
  <2>1. SumOf(f, S) = f[x] + SumOf(f, S \ {x})
    BY <1>1, SumOfAdds
  <2>2. SumOf(f, S \ {x}) \in Nat
    BY SumOfGrows
  <2>3. f[x] \in Nat
    BY DEF Natural
  <2>. QED  BY <1>2, <2>1, <2>2, <2>3
<1>3. ASSUME \A x \in S : f[x] = 0 PROVE SumOf(f, S) = 0
  <2>. DEFINE P == {s \in SUBSET S : SumOf(f, s) = 0}
  <2>1. {} \in P
    BY <1>1, SumOfAdds
  <2>2. ASSUME NEW s \in P, NEW x \in S \ s PROVE s \cup {x} \in P
    BY <1>1, <1>3, SumOfOneMore
  <2>3. P = SUBSET S
    <3>. HIDE DEF P
    <3>1. P \in SUBSET (SUBSET S)
      BY DEF P
    <3>. QED  BY <2>1, <2>2, <3>1, SubsetInduction
  <2>. QED  BY <2>3
<1>. QED  BY <1>2, <1>3

\* What holds between the multiples of two figures holds between their sums.
LEMMA SumOfBounds ==
    ASSUME NEW f, NEW g, NEW S, IsFiniteSet(S), Integral(f, S), Integral(g, S),
           NEW k \in Nat, NEW n \in Nat, \A x \in S : k * f[x] <= n * g[x]
    PROVE  k * SumOf(f, S) <= n * SumOf(g, S)
<1>. DEFINE P == {s \in SUBSET S : k * SumOf(f, s) <= n * SumOf(g, s)}
<1>1. {} \in P
  BY SumOfAdds
<1>2. ASSUME NEW s \in P, NEW x \in S \ s PROVE s \cup {x} \in P
  <2>1. /\ SumOf(f, s \cup {x}) = f[x] + SumOf(f, s)
        /\ SumOf(g, s \cup {x}) = g[x] + SumOf(g, s)
        /\ f[x] \in Int /\ SumOf(f, s) \in Int /\ g[x] \in Int /\ SumOf(g, s) \in Int
    BY SumOfOneMore
  <2>2. k * f[x] <= n * g[x] /\ k * SumOf(f, s) <= n * SumOf(g, s)
    OBVIOUS
  <2>3. /\ k * (f[x] + SumOf(f, s)) = k * f[x] + k * SumOf(f, s)
        /\ n * (g[x] + SumOf(g, s)) = n * g[x] + n * SumOf(g, s)
    BY <2>1
  <2>4. k * f[x] \in Int /\ k * SumOf(f, s) \in Int /\ n * g[x] \in Int /\ n * SumOf(g, s) \in Int
    BY <2>1
  <2>. QED  BY <2>1, <2>2, <2>3, <2>4
<1>3. P = SUBSET S
  <2>. HIDE DEF P
  <2>1. P \in SUBSET (SUBSET S)
    BY DEF P
  <2>. QED  BY <1>1, <1>2, <2>1, SubsetInduction
<1>. QED  BY <1>3

\* A sum is the sum over the classes of its members.
LEMMA SumOfClasses ==
    ASSUME NEW f, NEW S, IsFiniteSet(S), Integral(f, S),
           NEW C, IsFiniteSet(C), NEW class \in [S -> C]
    PROVE  SumOf([c \in C |-> SumOf(f, {x \in S : class[x] = c})], C) = SumOf(f, S)
<1>. DEFINE In(s, c) == {x \in s : class[x] = c}
            ByClass(s) == [c \in C |-> SumOf(f, In(s, c))]
            P == {s \in SUBSET S : SumOf(ByClass(s), C) = SumOf(f, s)}
<1>1. ASSUME NEW s \in SUBSET S, NEW c \in C
      PROVE  In(s, c) \in SUBSET S /\ SumOf(f, In(s, c)) \in Int
             /\ ByClass(s)[c] = SumOf(f, In(s, c))
  <2>1. In(s, c) \in SUBSET S
    OBVIOUS
  <2>. HIDE DEF In
  <2>. QED  BY <2>1, SumOfAdds
<1>2. ASSUME NEW s \in SUBSET S PROVE Integral(ByClass(s), C)
  BY <1>1 DEF Integral
<1>3. {} \in P
  <2>1. \A c \in C : ByClass({})[c] = 0
    <3>1. ASSUME NEW c \in C PROVE ByClass({})[c] = 0
      <4>1. In({}, c) = {}
        OBVIOUS
      <4>2. ByClass({})[c] = SumOf(f, In({}, c))
        BY <1>1
      <4>. QED  BY <4>1, <4>2, SumOfAdds
    <3>. QED  BY <3>1
  <2>2. SumOf(ByClass({}), C) = 0
    <3>. HIDE DEF ByClass
    <3>1. Natural(ByClass({}), C)
      BY <2>1 DEF Natural
    <3>. QED  BY <2>1, <3>1, SumOfNoughts
  <2>. QED  BY <2>2, SumOfAdds
<1>4. ASSUME NEW s \in P, NEW x \in S \ s PROVE s \cup {x} \in P
  <2>. DEFINE t == s \cup {x}
              d == class[x]
              before == ByClass(s)
              after == ByClass(t)
  <2>0. t \in SUBSET S /\ s \in SUBSET S /\ d \in C /\ x \in S /\ x \notin s
    OBVIOUS
  <2>1. ASSUME NEW c \in C, c # d PROVE after[c] = before[c]
    <3>1. In(t, c) = In(s, c)
      BY <2>1
    <3>. QED  BY <1>1, <2>0, <3>1
  <2>2. after[d] = f[x] + before[d]
    <3>1. In(t, d) = In(s, d) \cup {x} /\ In(s, d) \in SUBSET S /\ x \in S \ In(s, d)
      OBVIOUS
    <3>2. after[d] = SumOf(f, In(t, d)) /\ before[d] = SumOf(f, In(s, d))
      BY <1>1, <2>0
    <3>. HIDE DEF In, after, before
    <3>3. SumOf(f, In(s, d) \cup {x}) = f[x] + SumOf(f, In(s, d))
      BY <3>1, SumOfOneMore
    <3>. QED  BY <3>1, <3>2, <3>3
  <2>3. Integral(before, C) /\ Integral(after, C)
    BY <1>2, <2>0
  <2>4. SumOf(f, t) = f[x] + SumOf(f, s) /\ f[x] \in Int
    BY <2>0, SumOfOneMore DEF Integral
  <2>5. SumOf(before, C) = SumOf(f, s)
    OBVIOUS
  <2>. HIDE DEF before, after, t, d
  <2>6. /\ SumOf(after, C) = after[d] + SumOf(after, C \ {d})
        /\ SumOf(before, C) = before[d] + SumOf(before, C \ {d})
        /\ SumOf(before, C \ {d}) \in Int /\ before[d] \in Int
    <3>1. /\ SumOf(after, C) = after[d] + SumOf(after, C \ {d})
          /\ SumOf(before, C) = before[d] + SumOf(before, C \ {d})
          /\ SumOf(before, C \ {d}) \in Int
      BY <2>0, <2>3, SumOfAdds
    <3>2. before[d] \in Int
      BY <2>0, <2>3 DEF Integral
    <3>. QED  BY <3>1, <3>2
  <2>7. SumOf(after, C \ {d}) = SumOf(before, C \ {d})
    <3>1. IsFiniteSet(C \ {d}) /\ Integral(before, C \ {d})
      BY <2>3, FS_Subset DEF Integral
    <3>. QED  BY <2>1, <3>1, SumOfTheSame
  <2>8. SumOf(after, C) = SumOf(f, t)
    BY <2>2, <2>4, <2>5, <2>6, <2>7
  <2>. QED  BY <2>0, <2>8 DEF after, t
<1>5. P = SUBSET S
  <2>. HIDE DEF P
  <2>1. P \in SUBSET (SUBSET S)
    BY DEF P
  <2>. QED  BY <1>3, <1>4, <2>1, SubsetInduction
<1>. QED  BY <1>5

\* Two figures of each member can be summed together or apart.
LEMMA SumOfBoth ==
    ASSUME NEW f, NEW g, NEW h, NEW S, IsFiniteSet(S), Integral(f, S), Integral(g, S),
           \A x \in S : h[x] = f[x] + g[x]
    PROVE  SumOf(h, S) = SumOf(f, S) + SumOf(g, S)
<1>. DEFINE P == {s \in SUBSET S : SumOf(h, s) = SumOf(f, s) + SumOf(g, s)}
<1>0. Integral(h, S)
  BY DEF Integral
<1>1. {} \in P
  BY <1>0, SumOfAdds
<1>2. ASSUME NEW s \in P, NEW x \in S \ s PROVE s \cup {x} \in P
  <2>1. /\ SumOf(f, s \cup {x}) = f[x] + SumOf(f, s)
        /\ SumOf(g, s \cup {x}) = g[x] + SumOf(g, s)
        /\ SumOf(h, s \cup {x}) = h[x] + SumOf(h, s)
        /\ f[x] \in Int /\ SumOf(f, s) \in Int /\ g[x] \in Int /\ SumOf(g, s) \in Int
    BY <1>0, SumOfOneMore
  <2>2. SumOf(h, s) = SumOf(f, s) + SumOf(g, s) /\ h[x] = f[x] + g[x]
    OBVIOUS
  <2>. QED  BY <2>1, <2>2
<1>3. P = SUBSET S
  <2>. HIDE DEF P
  <2>1. P \in SUBSET (SUBSET S)
    BY DEF P
  <2>. QED  BY <1>1, <1>2, <2>1, SubsetInduction
<1>. QED  BY <1>3

\* The sum of multiples is the multiple of the sum.
LEMMA SumOfMultiples ==
    ASSUME NEW f, NEW g, NEW S, IsFiniteSet(S), Integral(g, S), NEW k \in Nat,
           \A x \in S : f[x] = k * g[x]
    PROVE  SumOf(f, S) = k * SumOf(g, S)
<1>1. Integral(f, S)
  BY DEF Integral
<1>2. \A x \in S : 1 * f[x] <= k * g[x] /\ k * g[x] <= 1 * f[x]
  BY <1>1 DEF Integral
<1>3. 1 * SumOf(f, S) <= k * SumOf(g, S) /\ k * SumOf(g, S) <= 1 * SumOf(f, S)
  BY <1>1, <1>2, SumOfBounds
<1>4. SumOf(f, S) \in Int /\ SumOf(g, S) \in Int
  BY <1>1, SumOfAdds
<1>5. k * SumOf(g, S) \in Int
  BY <1>4
<1>. QED  BY <1>3, <1>4, <1>5

\* e takes the members of K to those of S, one to one.
Matches(e, K, S) ==
    /\ \A k \in K : e[k] \in S
    /\ \A j, k \in K : e[j] = e[k] => j = k
    /\ \A x \in S : \E k \in K : e[k] = x

\* Then they are as many.
LEMMA MatchedSets ==
    ASSUME NEW K, IsFiniteSet(K), NEW S, NEW e, Matches(e, K, S)
    PROVE  IsFiniteSet(S) /\ Cardinality(S) = Cardinality(K)
<1>. DEFINE h == [k \in K |-> e[k]]
<1>1. h \in Surjection(K, S) /\ h \in Injection(K, S)
  BY DEF Matches, Surjection, Injection, IsInjective
<1>. HIDE DEF h
<1>. QED  BY <1>1, FS_Surjection

\* A sum may be taken over another set, member for member.
LEMMA SumsCorrespond ==
    ASSUME NEW K, IsFiniteSet(K), NEW S, NEW e, Matches(e, K, S),
           NEW f, Integral(f, S), NEW g, \A k \in K : g[k] = f[e[k]]
    PROVE  IsFiniteSet(S) /\ SumOf(g, K) = SumOf(f, S)
<1>. DEFINE image(s) == {e[k] : k \in s}
            P == {s \in SUBSET K : SumOf(g, s) = SumOf(f, image(s))}
<1>1. /\ \A k \in K : e[k] \in S
      /\ \A j, k \in K : e[j] = e[k] => j = k
      /\ \A x \in S : \E k \in K : e[k] = x
  BY DEF Matches
<1>2. IsFiniteSet(S)
  BY MatchedSets
<1>3. Integral(g, K)
  BY <1>1 DEF Integral
<1>4. {} \in P
  <2>1. image({}) = {}
    OBVIOUS
  <2>. HIDE DEF image
  <2>. QED  BY <1>2, <1>3, <2>1, SumOfAdds
<1>5. ASSUME NEW s \in P, NEW x \in K \ s PROVE s \cup {x} \in P
  <2>1. image(s \cup {x}) = image(s) \cup {e[x]}
    OBVIOUS
  <2>2. image(s) \in SUBSET S /\ e[x] \in S \ image(s)
    BY <1>1
  <2>3. SumOf(g, s) = SumOf(f, image(s))
    OBVIOUS
  <2>. HIDE DEF image
  <2>4. SumOf(f, image(s) \cup {e[x]}) = f[e[x]] + SumOf(f, image(s))
    BY <1>2, <2>2, SumOfOneMore
  <2>5. SumOf(g, s \cup {x}) = g[x] + SumOf(g, s)
    BY <1>3, SumOfOneMore
  <2>. QED  BY <2>1, <2>3, <2>4, <2>5
<1>6. P = SUBSET K
  <2>. HIDE DEF P
  <2>1. P \in SUBSET (SUBSET K)
    BY DEF P
  <2>. QED  BY <1>4, <1>5, <2>1, SubsetInduction
<1>7. image(K) = S
  BY <1>1
<1>. HIDE DEF image
<1>8. SumOf(g, K) = SumOf(f, image(K))
  BY <1>6
<1>. QED  BY <1>2, <1>7, <1>8

\* A table may be summed by rows or by columns.
LEMMA SumsSwap ==
    ASSUME NEW S, IsFiniteSet(S), NEW T, IsFiniteSet(T),
           NEW f, \A x \in S : Integral(f[x], T)
    PROVE  SumOf([x \in S |-> SumOf(f[x], T)], S)
              = SumOf([y \in T |-> SumOf([x \in S |-> f[x][y]], S)], T)
<1>. DEFINE row == [x \in S |-> SumOf(f[x], T)]
            column(y) == [x \in S |-> f[x][y]]
            below(s) == [y \in T |-> SumOf(column(y), s)]
            P == {s \in SUBSET S : SumOf(row, s) = SumOf(below(s), T)}
<1>1. \A y \in T : Integral(column(y), S)
  BY DEF Integral
<1>2. Integral(row, S)
  BY SumOfAdds DEF Integral
<1>3. \A s \in SUBSET S : Integral(below(s), T)
  <2>. HIDE DEF column
  <2>. QED  BY <1>1, SumOfAdds DEF Integral
<1>4. {} \in P
  <2>1. \A y \in T : below({})[y] = 0
    <3>. HIDE DEF column
    <3>. QED  BY <1>1, SumOfAdds
  <2>. HIDE DEF below, row
  <2>2. Natural(below({}), T)
    BY <2>1 DEF Natural
  <2>. QED  BY <1>2, <2>1, <2>2, SumOfNoughts, SumOfAdds
<1>5. ASSUME NEW s \in P, NEW x \in S \ s PROVE s \cup {x} \in P
  <2>. DEFINE t == s \cup {x}
  <2>1. \A y \in T : below(t)[y] = f[x][y] + below(s)[y]
    <3>1. ASSUME NEW y \in T PROVE below(t)[y] = f[x][y] + below(s)[y]
      <4>1. column(y)[x] = f[x][y]
        OBVIOUS
      <4>. HIDE DEF column
      <4>2. SumOf(column(y), t) = column(y)[x] + SumOf(column(y), s)
        BY <1>1, SumOfOneMore
      <4>. QED  BY <4>1, <4>2
    <3>. QED  BY <3>1
  <2>2. row[x] = SumOf(f[x], T)
    OBVIOUS
  <2>3. SumOf(row, s) = SumOf(below(s), T) /\ t \in SUBSET S
    OBVIOUS
  <2>. HIDE DEF row, below
  <2>4. SumOf(below(t), T) = SumOf(f[x], T) + SumOf(below(s), T)
    BY <1>3, <2>1, SumOfBoth
  <2>5. SumOf(row, t) = row[x] + SumOf(row, s)
    BY <1>2, SumOfOneMore
  <2>. QED  BY <2>2, <2>3, <2>4, <2>5
<1>6. P = SUBSET S
  <2>. HIDE DEF P
  <2>1. P \in SUBSET (SUBSET S)
    BY DEF P
  <2>. QED  BY <1>4, <1>5, <2>1, SubsetInduction
<1>. QED  BY <1>6

-----------------------------------------------------------------------------
(* Quotients.                                                              *)

\* What a quotient rounded down is.
LEMMA DivBounds ==
    ASSUME NEW a \in Int, NEW b \in Nat \ {0}
    PROVE  a \div b \in Int /\ b * (a \div b) <= a /\ a < b * (a \div b) + b
  OBVIOUS

\* It is no more than what the whole is no more than a multiple of,
LEMMA DivAtMost ==
    ASSUME NEW a \in Int, NEW b \in Nat \ {0}, NEW n \in Int, a <= n * b
    PROVE  a \div b <= n
<1>. DEFINE q == a \div b
<1>1. q \in Int /\ b * q <= a
  BY DivBounds
<1>. HIDE DEF q
<1>2. CASE q >= n + 1
  <2>1. b * (n + 1) <= b * q
    BY <1>1, <1>2
  <2>. QED  BY <1>1, <2>1
<1>. QED  BY <1>1, <1>2

\* no less than what it is no less than a multiple of,
LEMMA DivAtLeast ==
    ASSUME NEW a \in Int, NEW b \in Nat \ {0}, NEW n \in Int, n * b <= a
    PROVE  n <= a \div b
<1>. DEFINE q == a \div b
<1>1. q \in Int /\ a < b * q + b
  BY DivBounds
<1>. HIDE DEF q
<1>2. CASE q + 1 <= n
  <2>1. b * (q + 1) <= b * n
    BY <1>1, <1>2
  <2>. QED  BY <1>1, <2>1
<1>. QED  BY <1>1, <1>2

\* and more of the whole does not make it less.
LEMMA DivGrows ==
    ASSUME NEW a \in Int, NEW c \in Int, a <= c, NEW b \in Nat \ {0}
    PROVE  a \div b <= c \div b
<1>. DEFINE q == a \div b
<1>1. q \in Int /\ b * q <= a
  BY DivBounds
<1>. HIDE DEF q
<1>2. q * b <= c
  BY <1>1
<1>3. q <= c \div b
  BY <1>1, <1>2, DivAtLeast
<1>. QED BY <1>3 DEF q

\* Nor does a multiple get less.
LEMMA TimesGrows ==
    ASSUME NEW w \in Nat, NEW a \in Int, NEW b \in Int, a <= b
    PROVE w * a <= w * b
  OBVIOUS

\* What divides without a remainder is a multiple.
LEMMA DivExact ==
    ASSUME NEW b \in Nat \ {0}
    PROVE  /\ \A a \in Int : a % b = 0 => a = b * (a \div b) /\ a \div b \in Int
           /\ \A q \in Int : (b * q) \div b = q /\ (b * q) % b = 0
<1>1. ASSUME NEW a \in Int, a % b = 0 PROVE a = b * (a \div b) /\ a \div b \in Int
  BY <1>1
<1>2. ASSUME NEW q \in Int PROVE (b * q) \div b = q /\ (b * q) % b = 0
  BY <1>2
<1>. QED  BY <1>1, <1>2

\* A factor that is not nought can be taken from both sides.
LEMMA Cancels ==
    ASSUME NEW a \in Int, NEW b \in Int, NEW o \in Nat \ {0}
    PROVE  /\ a * o <= b * o => a <= b
           /\ a * o = b * o => a = b
<1>1. ASSUME a > b PROVE a * o > b * o
  <2>1. (a - b) * o > 0
    BY <1>1
  <2>2. (a - b) * o = a * o - b * o
    OBVIOUS
  <2>3. a * o \in Int /\ b * o \in Int
    OBVIOUS
  <2>. QED  BY <2>1, <2>2, <2>3
<1>2. ASSUME a < b PROVE a * o < b * o
  <2>1. (b - a) * o > 0
    BY <1>2
  <2>2. (b - a) * o = b * o - a * o
    OBVIOUS
  <2>3. a * o \in Int /\ b * o \in Int
    OBVIOUS
  <2>. QED  BY <2>1, <2>2, <2>3
<1>3. a * o \in Int /\ b * o \in Int
  OBVIOUS
<1>. QED  BY <1>1, <1>2, <1>3

-----------------------------------------------------------------------------
(* Orders.  A sort is a ranking, and in a total order of a finite set every *)
(* rank has one member.                                                    *)

\* x is under y in the relation.
Beneath(R, S, x) == {y \in S : <<y, x>> \in R}

\* A total order of a finite set: no member is under itself.
Orders(R, S) ==
    /\ \A x \in S : <<x, x>> \notin R
    /\ \A x, y, z \in S : <<x, y>> \in R /\ <<y, z>> \in R => <<x, z>> \in R
    /\ \A x, y \in S : x = y \/ <<x, y>> \in R \/ <<y, x>> \in R

\* What is under the lower of two is less.
LEMMA LowerHasFewer ==
    ASSUME NEW S, IsFiniteSet(S), NEW R, Orders(R, S),
           NEW x \in S, NEW y \in S, <<x, y>> \in R
    PROVE  Cardinality(Beneath(R, S, x)) < Cardinality(Beneath(R, S, y))
<1>1. Beneath(R, S, x) \in SUBSET Beneath(R, S, y) /\ Beneath(R, S, x) # Beneath(R, S, y)
  BY DEF Beneath, Orders
<1>2. IsFiniteSet(Beneath(R, S, y))
  BY FS_Subset DEF Beneath
<1>3. /\ Cardinality(Beneath(R, S, x)) <= Cardinality(Beneath(R, S, y))
      /\ Cardinality(Beneath(R, S, x)) # Cardinality(Beneath(R, S, y))
  BY <1>1, <1>2, FS_Subset
<1>4. Cardinality(Beneath(R, S, x)) \in Nat /\ Cardinality(Beneath(R, S, y)) \in Nat
  BY <1>1, <1>2, FS_Subset, FS_CardinalityType
<1>. QED  BY <1>3, <1>4

\* The member of S with n - 1 members under it.
InPlace(R, S, n) == CHOOSE x \in S : Cardinality(Beneath(R, S, x)) = n - 1

\* In a total order of a finite set every place has one member.
LEMMA EveryPlaceIsTaken ==
    ASSUME NEW S, IsFiniteSet(S), NEW R, Orders(R, S)
    PROVE  /\ \A n \in 1 .. Cardinality(S) : InPlace(R, S, n) \in S
           /\ \A x \in S : \E n \in 1 .. Cardinality(S) : InPlace(R, S, n) = x
           /\ \A n, m \in 1 .. Cardinality(S) :
                 n < m => <<InPlace(R, S, n), InPlace(R, S, m)>> \in R
<1>. DEFINE N == Cardinality(S)
            place == [x \in S |-> Cardinality(Beneath(R, S, x)) + 1]
<1>1. N \in Nat
  BY FS_CardinalityType
<1>2. ASSUME NEW x \in S PROVE Cardinality(Beneath(R, S, x)) \in 0 .. N - 1
  <2>1. Beneath(R, S, x) \in SUBSET S /\ Beneath(R, S, x) # S
    BY DEF Beneath, Orders
  <2>2. Cardinality(Beneath(R, S, x)) \in Nat
    BY <2>1, FS_Subset, FS_CardinalityType
  <2>3. Cardinality(Beneath(R, S, x)) <= N /\ Cardinality(Beneath(R, S, x)) # N
    BY <2>1, FS_Subset
  <2>. QED  BY <1>1, <2>2, <2>3
<1>3. place \in [S -> 1 .. N]
  BY <1>1, <1>2
<1>4. ASSUME NEW x \in S, NEW y \in S, <<x, y>> \in R PROVE place[x] < place[y]
  BY <1>2, <1>4, LowerHasFewer
<1>. HIDE DEF place
<1>5. ASSUME NEW x \in S, NEW y \in S, place[x] = place[y] PROVE x = y
  <2>1. place[x] \in Int /\ place[y] \in Int
    BY <1>1, <1>3
  <2>2. <<x, y>> \notin R /\ <<y, x>> \notin R
    BY <1>4, <1>5, <2>1
  <2>. QED  BY <2>2 DEF Orders
<1>6. place \in Injection(S, 1 .. N)
  BY <1>3, <1>5 DEF Injection, IsInjective
<1>7. IsFiniteSet(1 .. N) /\ Cardinality(1 .. N) = N
  BY <1>1, FS_Interval
<1>8. place \in Surjection(S, 1 .. N)
  BY <1>6, <1>7, FS_Injection
<1>9. \A n \in 1 .. N : \E x \in S : place[x] = n
  BY <1>8 DEF Surjection
<1>10. ASSUME NEW n \in 1 .. N PROVE InPlace(R, S, n) \in S /\ place[InPlace(R, S, n)] = n
  <2>1. PICK x \in S : place[x] = n
    BY <1>9
  <2>2. Cardinality(Beneath(R, S, x)) = n - 1
    BY <1>2, <2>1 DEF place
  <2>3. /\ InPlace(R, S, n) \in S
        /\ Cardinality(Beneath(R, S, InPlace(R, S, n))) = n - 1
    BY <2>2 DEF InPlace
  <2>. QED  BY <2>3 DEF place
<1>11. ASSUME NEW x \in S PROVE \E n \in 1 .. N : InPlace(R, S, n) = x
  <2>1. place[x] \in 1 .. N
    BY <1>3
  <2>. QED  BY <1>5, <1>10, <2>1
<1>12. ASSUME NEW n \in 1 .. N, NEW m \in 1 .. N, n < m
       PROVE  <<InPlace(R, S, n), InPlace(R, S, m)>> \in R
  <2>1. /\ InPlace(R, S, n) \in S /\ place[InPlace(R, S, n)] = n
        /\ InPlace(R, S, m) \in S /\ place[InPlace(R, S, m)] = m
    BY <1>10
  <2>2. InPlace(R, S, n) # InPlace(R, S, m) /\ ~(m < n)
    BY <1>1, <1>12, <2>1
  <2>3. <<InPlace(R, S, m), InPlace(R, S, n)>> \notin R
    BY <1>4, <2>1, <2>2
  <2>. QED  BY <2>1, <2>2, <2>3 DEF Orders
<1>. QED  BY <1>10, <1>11, <1>12

\* The numbers of a finite set, lowest first.
InOrder(S) ==
    [n \in 1 .. Cardinality(S) |->
        CHOOSE i \in S : Cardinality({j \in S : j < i}) = n - 1]

\* N places hold the numbers of S, each once, and grow.
Enumerates(row, N, S) ==
    /\ \A n \in 1 .. N : row[n] \in S
    /\ \A i \in S : \E n \in 1 .. N : row[n] = i
    /\ \A n, m \in 1 .. N : n < m => row[n] < row[m]

\* The members in their order do.
LEMMA NumbersInOrder ==
    ASSUME NEW S \in SUBSET Int, IsFiniteSet(S)
    PROVE  /\ Cardinality(S) \in Nat
           /\ DOMAIN InOrder(S) = 1 .. Cardinality(S)
           /\ Enumerates(InOrder(S), Cardinality(S), S)
<1>. DEFINE R == {p \in S \X S : p[1] < p[2]}
<1>1. \A i, j \in S : <<i, j>> \in R <=> i < j
  OBVIOUS
<1>. HIDE DEF R
<1>2. Orders(R, S)
  BY <1>1 DEF Orders
<1>3. Cardinality(S) \in Nat
  BY FS_CardinalityType
<1>4. \A i \in S : {j \in S : j < i} = Beneath(R, S, i)
  BY <1>1 DEF Beneath
<1>5. InOrder(S) = [n \in 1 .. Cardinality(S) |-> InPlace(R, S, n)]
  <2>1. ASSUME NEW n \in 1 .. Cardinality(S)
        PROVE  (CHOOSE i \in S : Cardinality({j \in S : j < i}) = n - 1) = InPlace(R, S, n)
    BY <1>4, Zenon DEF InPlace
  <2>. QED  BY <2>1, Zenon DEF InOrder
<1>6. /\ \A n \in 1 .. Cardinality(S) : InPlace(R, S, n) \in S
      /\ \A i \in S : \E n \in 1 .. Cardinality(S) : InPlace(R, S, n) = i
      /\ \A n, m \in 1 .. Cardinality(S) :
            n < m => <<InPlace(R, S, n), InPlace(R, S, m)>> \in R
  BY <1>2, EveryPlaceIsTaken
<1>7. /\ DOMAIN InOrder(S) = 1 .. Cardinality(S)
      /\ \A n \in 1 .. Cardinality(S) : InOrder(S)[n] = InPlace(R, S, n)
  BY <1>5
<1>8. ASSUME NEW n \in 1 .. Cardinality(S), NEW m \in 1 .. Cardinality(S), n < m
      PROVE  InOrder(S)[n] < InOrder(S)[m]
  <2>1. <<InOrder(S)[n], InOrder(S)[m]>> \in R /\ InOrder(S)[n] \in S /\ InOrder(S)[m] \in S
    BY <1>6, <1>7, <1>8
  <2>. QED  BY <1>1, <2>1
<1>. QED  BY <1>3, <1>6, <1>7, <1>8 DEF Enumerates

\* A finite set of integers has ends.
LEMMA NumbersHaveEnds ==
    ASSUME NEW S \in SUBSET Int, IsFiniteSet(S), S # {}
    PROVE  /\ Max(S) \in S /\ Max(S) \in Int /\ \A x \in S : x <= Max(S)
           /\ Min(S) \in S /\ Min(S) \in Int /\ \A x \in S : Min(S) <= x
<1>. DEFINE row == InOrder(S)
            N == Cardinality(S)
<1>1. N \in Nat /\ Enumerates(row, N, S)
  BY NumbersInOrder
<1>2. N # 0
  BY FS_EmptySet
<1>. HIDE DEF row, N
<1>3. 1 \in 1 .. N /\ N \in 1 .. N
  BY <1>1, <1>2
<1>4. ASSUME NEW x \in S PROVE row[1] <= x /\ x <= row[N]
  <2>1. PICK n \in 1 .. N : row[n] = x
    BY <1>1 DEF Enumerates
  <2>2. row[1] \in Int /\ row[N] \in Int /\ x \in Int
    BY <1>1, <1>3 DEF Enumerates
  <2>3. n = 1 \/ row[1] < row[n]
    BY <1>1, <1>3 DEF Enumerates
  <2>4. n = N \/ row[n] < row[N]
    BY <1>1, <1>3 DEF Enumerates
  <2>. QED  BY <2>1, <2>2, <2>3, <2>4
<1>5. row[1] \in S /\ row[N] \in S
  BY <1>1, <1>3 DEF Enumerates
<1>6. Max(S) \in S /\ \A x \in S : Max(S) >= x
  <2>1. \E y \in S : \A x \in S : y >= x
    BY <1>4, <1>5
  <2>. QED  BY <2>1 DEF Max
<1>7. Min(S) \in S /\ \A x \in S : Min(S) <= x
  <2>1. \E y \in S : \A x \in S : y <= x
    BY <1>4, <1>5
  <2>. QED  BY <2>1 DEF Min
<1>. QED  BY <1>6, <1>7

\* There is one way to do so.
LEMMA OneOrder ==
    ASSUME NEW S \in SUBSET Int, NEW N \in Nat,
           NEW a, Enumerates(a, N, S), NEW b, Enumerates(b, N, S)
    PROVE  \A n \in 1 .. N : a[n] = b[n]
<1>. DEFINE Q == {n \in Nat : \A k \in 1 .. N : k <= n => a[k] = b[k]}
<1>1. 0 \in Q
  OBVIOUS
<1>2. ASSUME NEW n \in Q PROVE n + 1 \in Q
  <2>. SUFFICES ASSUME n + 1 \in 1 .. N PROVE a[n + 1] = b[n + 1]
    OBVIOUS
  <2>1. \A k \in 1 .. N : k < n + 1 => a[k] = b[k]
    OBVIOUS
  <2>2. /\ \A k, m \in 1 .. N : k < m => a[k] < a[m] /\ b[k] < b[m]
        /\ \A k \in 1 .. N : a[k] \in Int /\ b[k] \in Int
    BY DEF Enumerates
  <2>3. PICK m \in 1 .. N : b[m] = a[n + 1]
    BY DEF Enumerates
  <2>4. PICK k \in 1 .. N : a[k] = b[n + 1]
    BY DEF Enumerates
  <2>. HIDE DEF Q
  <2>5. ~(m < n + 1) /\ ~(k < n + 1)
    <3>1. n + 1 \in Nat /\ m \in Nat /\ k \in Nat
      OBVIOUS
    <3>2. m < n + 1 => a[m] < a[n + 1] /\ a[m] = a[n + 1]
      BY <2>1, <2>2, <2>3
    <3>3. k < n + 1 => b[k] < b[n + 1] /\ b[k] = b[n + 1]
      BY <2>1, <2>2, <2>4
    <3>. QED  BY <2>2, <3>2, <3>3
  <2>6. b[n + 1] <= b[m] /\ a[n + 1] <= a[k]
    BY <2>2, <2>5
  <2>. QED  BY <2>2, <2>3, <2>4, <2>6
<1>3. Q = Nat
  <2>. HIDE DEF Q
  <2>1. Q \in SUBSET Nat
    BY DEF Q
  <2>. QED  BY <1>1, <1>2, <2>1, SetInduction
<1>4. N \in Q
  BY <1>3
<1>. QED  BY <1>4

\* Numbers that grow with their places are in order themselves: the n-th of
\* them stands in the n-th place.
LEMMA SameOrder ==
    ASSUME NEW K \in SUBSET Int, IsFiniteSet(K), NEW S \in SUBSET Int,
           NEW e, \A k \in K : e[k] \in S, \A x \in S : \E k \in K : e[k] = x,
           \A j, k \in K : j < k => e[j] < e[k]
    PROVE  /\ Matches(e, K, S)
           /\ IsFiniteSet(S) /\ Cardinality(S) = Cardinality(K)
           /\ \A n \in 1 .. Cardinality(K) : InOrder(S)[n] = e[InOrder(K)[n]]
<1>. DEFINE f == [k \in K |-> e[k]]
            N == Cardinality(K)
            b == [n \in 1 .. N |-> e[InOrder(K)[n]]]
<1>1. f \in Bijection(K, S)
  <2>1. f \in [K -> S]
    OBVIOUS
  <2>2. ASSUME NEW j \in K, NEW k \in K, f[j] = f[k] PROVE j = k
    <3>1. e[j] = e[k] /\ e[j] \in Int /\ j \in Int /\ k \in Int
      BY <2>2
    <3>2. ~(j < k) /\ ~(k < j)
      BY <3>1
    <3>. QED  BY <3>1, <3>2
  <2>3. \A x \in S : \E k \in K : f[k] = x
    OBVIOUS
  <2>. QED  BY <2>1, <2>2, <2>3 DEF Bijection, Injection, IsInjective, Surjection
<1>2. IsFiniteSet(S) /\ Cardinality(S) = N
  <2>1. f \in Surjection(K, S) /\ f \in Injection(K, S)
    BY <1>1 DEF Bijection
  <2>. HIDE DEF f
  <2>. QED  BY <2>1, FS_Surjection
<1>3. N \in Nat /\ Enumerates(InOrder(K), N, K)
  BY NumbersInOrder
<1>4. Enumerates(InOrder(S), N, S)
  BY <1>2, NumbersInOrder
<1>5. Enumerates(b, N, S)
  <2>. HIDE DEF N
  <2>1. \A n \in 1 .. N : b[n] \in S
    BY <1>3 DEF Enumerates
  <2>2. \A i \in S : \E n \in 1 .. N : b[n] = i
    BY <1>3 DEF Enumerates
  <2>3. \A n, m \in 1 .. N : n < m => b[n] < b[m]
    BY <1>3 DEF Enumerates
  <2>. QED  BY <2>1, <2>2, <2>3 DEF Enumerates
<1>6. \A n \in 1 .. N : InOrder(S)[n] = b[n]
  <2>. HIDE DEF N, b
  <2>. QED  BY <1>3, <1>4, <1>5, OneOrder
<1>7. Matches(e, K, S)
  <2>1. \A j, k \in K : e[j] = e[k] => f[j] = f[k]
    OBVIOUS
  <2>2. \A j, k \in K : f[j] = f[k] => j = k
    BY <1>1 DEF Bijection, Injection, IsInjective
  <2>. HIDE DEF f
  <2>. QED  BY <2>1, <2>2 DEF Matches
<1>. HIDE DEF f, b, N
<1>. QED  BY <1>2, <1>6, <1>7 DEF b, N
=============================================================================
