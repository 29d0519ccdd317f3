---------------------------- MODULE BillingProofs ----------------------------
(***************************************************************************)
(* What the billing arithmetic guarantees for every number of installments *)
(* and every amount.  A loop that uses up money slot after slot is the     *)
(* recursive function Left: that it exists, and that nothing is lost on    *)
(* the way, is shown by induction over the slots.                          *)
(*                                                                         *)
(* First come the lemmas the other proofs share: sums of integer functions *)
(* over finite sets, as the community module Functions computes them       *)
(* (SumFunctionOnSet), and induction over the natural numbers in a form    *)
(* that needs no operator parameter: a property is the set of the numbers  *)
(* that have it.                                                           *)
(***************************************************************************)
EXTENDS Billing, FiniteSetTheorems, WellFoundedInduction, TLAPS

-----------------------------------------------------------------------------
(***************************************************************************)
(* Induction, and sums.                                                    *)
(***************************************************************************)

\* Induction: a set with 0 and the successor of each of its members holds
\* every natural number.
LEMMA SetInduction ==
  ASSUME NEW S, 0 \in S, \A n \in Nat : n \in S => n + 1 \in S
  PROVE  Nat \subseteq S
<1>1. SUFFICES ASSUME Nat \ S # {} PROVE FALSE
  OBVIOUS
<1>2. PICK m \in Nat \ S : \A y \in Nat \ S : ~ (<<y, m>> \in OpToRel(<, Nat))
  BY <1>1, NatLessThanWellFounded, WFMin
<1>3. m # 0 /\ m \in Nat
  BY <1>2
<1>4. m - 1 \in Nat
  BY <1>3
<1>5. m - 1 \notin S
  <2>1. m = (m - 1) + 1
    BY <1>3
  <2> QED BY <1>2, <1>4, <2>1
<1>6. <<m - 1, m>> \in OpToRel(<, Nat)
  BY <1>4, <1>3 DEF OpToRel
<1> QED BY <1>2, <1>4, <1>5, <1>6

\* A finite set of natural numbers with a member has a greatest one.
LEMMA GreatestExists ==
  ASSUME NEW T \in SUBSET Nat, IsFiniteSet(T), T # {}
  PROVE  \E x \in T : \A y \in T : x >= y
<1> DEFINE G == {n \in Nat : \A U \in SUBSET Nat : IsFiniteSet(U) /\ Cardinality(U) = n /\ U # {}
                                => \E x \in U : \A y \in U : x >= y}
<1>1. 0 \in G
  BY FS_EmptySet
<1>2. ASSUME NEW n \in Nat, n \in G PROVE n + 1 \in G
  <2>1. SUFFICES ASSUME NEW U \in SUBSET Nat, IsFiniteSet(U), Cardinality(U) = n + 1, U # {}
                 PROVE  \E x \in U : \A y \in U : x >= y
    OBVIOUS
  <2>2. PICK u \in U : TRUE
    BY <2>1
  <2>3. IsFiniteSet(U \ {u}) /\ Cardinality(U \ {u}) = n
    <3>1. IsFiniteSet(U \ {u}) /\ Cardinality(U \ {u}) = Cardinality(U) - 1
      BY <2>1, <2>2, FS_RemoveElement
    <3> QED BY <2>1, <3>1
  <2>4. CASE U \ {u} = {}
    BY <2>4
  <2>5. CASE U \ {u} # {}
    <3>1. PICK x \in U \ {u} : \A y \in U \ {u} : x >= y
      BY <1>2, <2>3, <2>5
    <3>2. CASE x >= u
      BY <3>1, <3>2
    <3>3. CASE ~(x >= u)
      BY <3>1, <3>3
    <3> QED BY <3>2, <3>3
  <2> QED BY <2>4, <2>5
<1>3. Nat \subseteq G
  <2> HIDE DEF G
  <2> QED BY <1>1, <1>2, SetInduction
<1>4. Cardinality(T) \in Nat
  BY FS_CardinalityType
<1> QED BY <1>3, <1>4

-----------------------------------------------------------------------------
\* The member of a set that the sum takes first.
Pick(s) == CHOOSE x \in s : TRUE

\* iter is the recursive function by which f is summed over the subsets of S.
IsSumming(iter, f, S) ==
  iter = [s \in SUBSET S |-> IF s = {} THEN 0 ELSE f[Pick(s)] + iter[s \ {Pick(s)}]]

\* The member taken is a member.
LEMMA PickMember ==
  ASSUME NEW s, s # {}
  PROVE  Pick(s) \in s
BY DEF Pick

\* The sum of the community module is the one below, written out.
LEMMA SumDefinition ==
  ASSUME NEW f, NEW S
  PROVE  SumFunctionOnSet(f, S) = (CHOOSE iter : IsSumming(iter, f, S))[S]
BY DEF SumFunctionOnSet, FoldFunctionOnSet, MapThenFoldSet, IsSumming, Pick

\* What the recursion computes for each subset.
LEMMA SummingStep ==
  ASSUME NEW iter, NEW f, NEW S, IsSumming(iter, f, S), NEW s \in SUBSET S
  PROVE  /\ s = {} => iter[s] = 0
         /\ s # {} => iter[s] = f[Pick(s)] + iter[s \ {Pick(s)}]
<1> DEFINE body == [t \in SUBSET S |-> IF t = {} THEN 0 ELSE f[Pick(t)] + iter[t \ {Pick(t)}]]
<1>1. body[s] = IF s = {} THEN 0 ELSE f[Pick(s)] + iter[s \ {Pick(s)}]
  OBVIOUS
<1>2. iter = body
  BY DEF IsSumming
<1> QED BY <1>1, <1>2, Zenon

\* Such a function exists for a finite set: it is built size by size.
LEMMA SummingExists ==
  ASSUME NEW f, NEW S, IsFiniteSet(S)
  PROVE  \E iter : IsSumming(iter, f, S)
<1> DEFINE Step(h, s) == IF s = {} THEN 0 ELSE f[Pick(s)] + h[s \ {Pick(s)}]
           Upto(n, h) == \A s \in SUBSET S : Cardinality(s) <= n => h[s] = Step(h, s)
           Sizes == {n \in Nat : \E h : Upto(n, h)}
<1>1. ASSUME NEW s \in SUBSET S
      PROVE  /\ IsFiniteSet(s) /\ Cardinality(s) \in Nat
             /\ s = {} <=> Cardinality(s) = 0
             /\ s # {} => /\ Cardinality(s \ {Pick(s)}) = Cardinality(s) - 1
                          /\ s \ {Pick(s)} \in SUBSET S
  <2>1. IsFiniteSet(s)
    BY FS_Subset
  <2>2. Cardinality(s) \in Nat /\ (s = {} <=> Cardinality(s) = 0)
    BY <2>1, FS_CardinalityType, FS_EmptySet
  <2>3. s # {} => Cardinality(s \ {Pick(s)}) = Cardinality(s) - 1
    BY <2>1, FS_RemoveElement, PickMember
  <2> QED BY <2>1, <2>2, <2>3
<1>2. 0 \in Sizes
  <2> DEFINE h == [s \in SUBSET S |-> 0]
  <2>1. ASSUME NEW s \in SUBSET S, Cardinality(s) <= 0 PROVE h[s] = Step(h, s)
    <3>1. Cardinality(s) \in Nat /\ (Cardinality(s) = 0 => s = {})
      BY <1>1
    <3>2. s = {}
      BY <3>1, <2>1
    <3> QED BY <3>2
  <2>2. Upto(0, h)
    BY <2>1
  <2> HIDE DEF Upto, h
  <2> QED BY <2>2
<1>3. ASSUME NEW n \in Nat, n \in Sizes PROVE n + 1 \in Sizes
  <2>1. PICK h : Upto(n, h)
    BY <1>3
  <2> DEFINE g == [s \in SUBSET S |-> IF Cardinality(s) <= n THEN h[s] ELSE Step(h, s)]
  <2>2. ASSUME NEW s \in SUBSET S, Cardinality(s) <= n + 1
        PROVE  g[s] = Step(g, s)
    <3>1. CASE s = {}
      BY <3>1, <2>1, <1>1
    <3>2. CASE s # {}
      <4> DEFINE r == s \ {Pick(s)}
      <4>1. r \in SUBSET S /\ Cardinality(r) <= n
        BY <3>2, <2>2, <1>1
      <4>2. g[r] = h[r]
        BY <4>1
      <4>3. g[s] = Step(h, s)
        BY <2>1
      <4> QED BY <4>2, <4>3, <3>2
    <3> QED BY <3>1, <3>2
  <2>3. Upto(n + 1, g)
    BY <2>2
  <2>4. \E k : Upto(n + 1, k)
    <3> HIDE DEF Upto, g
    <3> QED BY <2>3
  <2> HIDE DEF Upto, g
  <2> QED BY <2>4
<1>4. Nat \subseteq Sizes
  <2> HIDE DEF Sizes
  <2> QED BY <1>2, <1>3, SetInduction
<1>5. PICK h : Upto(Cardinality(S), h)
  BY <1>4, FS_CardinalityType
<1> DEFINE iter == [s \in SUBSET S |-> h[s]]
<1>6. ASSUME NEW s \in SUBSET S PROVE iter[s] = Step(iter, s)
  <2>1. Cardinality(s) <= Cardinality(S)
    BY FS_Subset
  <2> QED BY <2>1, <1>5, <1>1
<1>7. IsSumming(iter, f, S)
  BY <1>6 DEF IsSumming
<1> QED BY <1>7

\* What SumFunctionOnSet computes, one member at a time.
LEMMA SumIsSumming ==
  ASSUME NEW f, NEW S, IsFiniteSet(S)
  PROVE  \E iter : IsSumming(iter, f, S) /\ SumFunctionOnSet(f, S) = iter[S]
<1> DEFINE iter == CHOOSE g : IsSumming(g, f, S)
<1>1. IsSumming(iter, f, S)
  BY SummingExists
<1>2. SumFunctionOnSet(f, S) = iter[S]
  BY SumDefinition
<1> HIDE DEF iter
<1> QED BY <1>1, <1>2

\* The sums over a set and over a subset of it agree on the smaller one.
LEMMA SummingAgree ==
  ASSUME NEW f, NEW S, IsFiniteSet(S), NEW T \in SUBSET S,
         NEW g, IsSumming(g, f, S), NEW h, IsSumming(h, f, T)
  PROVE  g[T] = h[T]
<1> DEFINE Sizes == {n \in Nat : \A s \in SUBSET T : Cardinality(s) = n => g[s] = h[s]}
<1>1. ASSUME NEW s \in SUBSET T
      PROVE  /\ s \in SUBSET S /\ IsFiniteSet(s)
             /\ Cardinality(s) = 0 => s = {}
             /\ s # {} => /\ Cardinality(s \ {Pick(s)}) = Cardinality(s) - 1
                          /\ s \ {Pick(s)} \in SUBSET T
  <2>1. s \in SUBSET S /\ IsFiniteSet(s)
    BY FS_Subset
  <2>2. Cardinality(s) = 0 => s = {}
    BY <2>1, FS_EmptySet
  <2>3. s # {} => Cardinality(s \ {Pick(s)}) = Cardinality(s) - 1
    BY <2>1, FS_RemoveElement, PickMember
  <2> QED BY <2>1, <2>2, <2>3
<1>2. 0 \in Sizes
  <2>1. ASSUME NEW s \in SUBSET T, Cardinality(s) = 0 PROVE g[s] = h[s]
    <3>1. s = {} /\ s \in SUBSET S
      BY <1>1, <2>1
    <3>2. g[s] = 0 /\ h[s] = 0
      BY <3>1, SummingStep
    <3> QED BY <3>2
  <2> QED BY <2>1
<1>3. ASSUME NEW n \in Nat, n \in Sizes PROVE n + 1 \in Sizes
  <2>1. ASSUME NEW s \in SUBSET T, Cardinality(s) = n + 1 PROVE g[s] = h[s]
    <3> DEFINE r == s \ {Pick(s)}
    <3>1. s # {}
      BY <2>1, FS_EmptySet
    <3>2. s \in SUBSET S /\ r \in SUBSET T /\ Cardinality(r) = n
      BY <3>1, <2>1, <1>1
    <3>3. g[r] = h[r]
      BY <3>2, <1>3
    <3>4. g[s] = f[Pick(s)] + g[r] /\ h[s] = f[Pick(s)] + h[r]
      BY <3>1, <3>2, SummingStep
    <3> QED BY <3>3, <3>4
  <2>2. n + 1 \in Nat
    OBVIOUS
  <2> QED BY <2>1, <2>2
<1>4. Nat \subseteq Sizes
  <2> HIDE DEF Sizes
  <2> QED BY <1>2, <1>3, SetInduction
<1>5. IsFiniteSet(T) /\ Cardinality(T) \in Nat
  BY FS_Subset, FS_CardinalityType
<1> QED BY <1>4, <1>5

\* The sum over no members is zero.
LEMMA SumEmpty ==
  ASSUME NEW f
  PROVE  SumFunctionOnSet(f, {}) = 0
<1>1. PICK iter : IsSumming(iter, f, {}) /\ SumFunctionOnSet(f, {}) = iter[{}]
  BY SumIsSumming, FS_EmptySet
<1> QED BY <1>1, SummingStep

\* The sum over a set is one member plus the sum over the others.
LEMMA SumPick ==
  ASSUME NEW f, NEW S, IsFiniteSet(S), S # {}
  PROVE  SumFunctionOnSet(f, S) = f[Pick(S)] + SumFunctionOnSet(f, S \ {Pick(S)})
<1> DEFINE T == S \ {Pick(S)}
<1>1. IsFiniteSet(T) /\ T \in SUBSET S
  BY FS_Subset
<1>2. PICK g : IsSumming(g, f, S) /\ SumFunctionOnSet(f, S) = g[S]
  BY SumIsSumming
<1>3. PICK h : IsSumming(h, f, T) /\ SumFunctionOnSet(f, T) = h[T]
  BY SumIsSumming, <1>1
<1>4. g[T] = h[T]
  BY <1>1, <1>2, <1>3, SummingAgree
<1>5. g[S] = f[Pick(S)] + g[T]
  BY <1>2, SummingStep
<1> QED BY <1>2, <1>3, <1>4, <1>5

-----------------------------------------------------------------------------
\* What the sizes of the subsets of a finite set are, for the inductions below.
LEMMA SubsetSizes ==
  ASSUME NEW S, IsFiniteSet(S), NEW s \in SUBSET S
  PROVE  /\ IsFiniteSet(s) /\ Cardinality(s) \in Nat
         /\ Cardinality(s) = 0 => s = {}
         /\ \A x \in s : /\ Cardinality(s \ {x}) = Cardinality(s) - 1
                         /\ s \ {x} \in SUBSET S
<1>1. IsFiniteSet(s)
  BY FS_Subset
<1>2. Cardinality(s) \in Nat /\ (Cardinality(s) = 0 => s = {})
  BY <1>1, FS_EmptySet, FS_CardinalityType
<1>3. \A x \in s : Cardinality(s \ {x}) = Cardinality(s) - 1
  BY <1>1, FS_RemoveElement
<1> QED BY <1>1, <1>2, <1>3

\* A subset of n + 1 members has members, and n of them are left without any one.
LEMMA SmallerSubset ==
  ASSUME NEW S, IsFiniteSet(S), NEW s \in SUBSET S,
         NEW n \in Nat, Cardinality(s) = n + 1
  PROVE  /\ s # {} /\ IsFiniteSet(s)
         /\ \A x \in s : s \ {x} \in SUBSET S /\ Cardinality(s \ {x}) = n
<1>1. IsFiniteSet(s)
  BY FS_Subset
<1>2. s # {}
  BY FS_EmptySet
<1>3. ASSUME NEW x \in s PROVE Cardinality(s \ {x}) = n
  <2>1. Cardinality(s \ {x}) = Cardinality(s) - 1
    BY <1>1, FS_RemoveElement
  <2> QED BY <2>1
<1> QED BY <1>1, <1>2, <1>3

\* A sum of integers is an integer.
LEMMA SumInt ==
  ASSUME NEW f, NEW S, IsFiniteSet(S), \A x \in S : f[x] \in Int
  PROVE  SumFunctionOnSet(f, S) \in Int
<1> DEFINE Sum(s) == SumFunctionOnSet(f, s)
           Sizes == {n \in Nat : \A s \in SUBSET S : Cardinality(s) = n => Sum(s) \in Int}
<1> HIDE DEF Sum
<1>1. 0 \in Sizes
  BY SumEmpty, SubsetSizes DEF Sum
<1>2. ASSUME NEW n \in Nat, n \in Sizes PROVE n + 1 \in Sizes
  <2>1. ASSUME NEW s \in SUBSET S, Cardinality(s) = n + 1 PROVE Sum(s) \in Int
    <3>1. s # {} /\ Pick(s) \in s /\ IsFiniteSet(s)
      BY <2>1, FS_EmptySet, PickMember, SubsetSizes
    <3>2. Sum(s \ {Pick(s)}) \in Int
      BY <3>1, <2>1, <1>2, SmallerSubset
    <3>3. Sum(s) = f[Pick(s)] + Sum(s \ {Pick(s)})
      BY <3>1, SumPick DEF Sum
    <3>4. f[Pick(s)] \in Int
      BY <3>1
    <3> QED BY <3>2, <3>3, <3>4
  <2>2. n + 1 \in Nat
    OBVIOUS
  <2> QED BY <2>1, <2>2
<1>3. Nat \subseteq Sizes
  <2> HIDE DEF Sizes
  <2> QED BY <1>1, <1>2, SetInduction
<1> QED BY <1>3, SubsetSizes DEF Sum

\* Any member of the set may be taken out of the sum first.
LEMMA SumRemove ==
  ASSUME NEW f, NEW S, IsFiniteSet(S), \A x \in S : f[x] \in Int, NEW y \in S
  PROVE  SumFunctionOnSet(f, S) = f[y] + SumFunctionOnSet(f, S \ {y})
<1> DEFINE Sum(s) == SumFunctionOnSet(f, s)
           Good(s) == \A x \in s : Sum(s) = f[x] + Sum(s \ {x})
           Sizes == {n \in Nat : \A s \in SUBSET S : Cardinality(s) = n => Good(s)}
<1>1. \A s \in SUBSET S : Sum(s) \in Int
  BY SumInt, SubsetSizes
<1> HIDE DEF Sum
<1>2. 0 \in Sizes
  BY SubsetSizes
<1>3. ASSUME NEW n \in Nat, n \in Sizes PROVE n + 1 \in Sizes
  <2>1. ASSUME NEW s \in SUBSET S, Cardinality(s) = n + 1, NEW x \in s
        PROVE  Sum(s) = f[x] + Sum(s \ {x})
    <3> DEFINE c == Pick(s)
    <3>1. c \in s /\ IsFiniteSet(s)
      BY PickMember, SubsetSizes
    <3>2. Sum(s) = f[c] + Sum(s \ {c})
      BY <3>1, SumPick DEF Sum
    <3> HIDE DEF c
    <3>3. CASE x = c
      BY <3>3, <3>2
    <3>4. CASE x # c
      <4> DEFINE both == s \ {c, x}
      <4>1. x \in s \ {c} /\ c \in s \ {x}
        BY <3>4, <3>1
      <4>2. (s \ {c}) \ {x} = both /\ (s \ {x}) \ {c} = both /\ both \in SUBSET S
        OBVIOUS
      <4>3. \A z \in s : s \ {z} \in SUBSET S /\ Cardinality(s \ {z}) = n
        BY <2>1, SmallerSubset
      <4>4. Good(s \ {c}) /\ Good(s \ {x})
        <5> HIDE DEF Good
        <5> QED BY <4>3, <3>1, <1>3
      <4> HIDE DEF both
      <4>5. Sum(s \ {c}) = f[x] + Sum(both) /\ Sum(s \ {x}) = f[c] + Sum(both)
        BY <4>1, <4>2, <4>4
      <4>6. Sum(both) \in Int /\ f[x] \in Int /\ f[c] \in Int
        BY <4>2, <3>1, <1>1
      <4> QED BY <4>5, <4>6, <3>2
    <3> QED BY <3>3, <3>4
  <2>2. n + 1 \in Nat
    OBVIOUS
  <2> QED BY <2>1, <2>2
<1>4. Nat \subseteq Sizes
  <2> HIDE DEF Sizes
  <2> QED BY <1>2, <1>3, SetInduction
<1>5. Good(S)
  <2>1. Cardinality(S) \in Nat
    BY FS_CardinalityType
  <2> HIDE DEF Good
  <2> QED BY <1>4, <2>1
<1> QED BY <1>5 DEF Sum

\* Functions that agree on the set have the same sum.
LEMMA SumAgree ==
  ASSUME NEW f, NEW g, NEW S, IsFiniteSet(S),
         \A x \in S : f[x] \in Int /\ f[x] = g[x]
  PROVE  SumFunctionOnSet(f, S) = SumFunctionOnSet(g, S)
<1> DEFINE F(s) == SumFunctionOnSet(f, s)
           G(s) == SumFunctionOnSet(g, s)
           Sizes == {n \in Nat : \A s \in SUBSET S : Cardinality(s) = n => F(s) = G(s)}
<1> HIDE DEF F, G
<1>1. 0 \in Sizes
  <2>1. F({}) = 0 /\ G({}) = 0
    BY SumEmpty DEF F, G
  <2> QED BY <2>1, SubsetSizes
<1>2. ASSUME NEW n \in Nat, n \in Sizes PROVE n + 1 \in Sizes
  <2>1. ASSUME NEW s \in SUBSET S, Cardinality(s) = n + 1 PROVE F(s) = G(s)
    <3>1. s # {} /\ IsFiniteSet(s)
      BY <2>1, FS_EmptySet, SubsetSizes
    <3>2. PICK x \in s : TRUE
      BY <3>1
    <3>3. F(s \ {x}) = G(s \ {x})
      <4>1. s \ {x} \in SUBSET S /\ Cardinality(s \ {x}) = n
        BY <2>1, SmallerSubset
      <4> QED BY <4>1, <1>2
    <3>4. F(s) = f[x] + F(s \ {x}) /\ G(s) = g[x] + G(s \ {x})
      BY <3>1, SumRemove DEF F, G
    <3>5. f[x] = g[x]
      OBVIOUS
    <3> QED BY <3>3, <3>4, <3>5
  <2>2. n + 1 \in Nat
    OBVIOUS
  <2> QED BY <2>1, <2>2
<1>3. Nat \subseteq Sizes
  <2> HIDE DEF Sizes
  <2> QED BY <1>1, <1>2, SetInduction
<1> QED BY <1>3, SubsetSizes DEF F, G

\* When the functions differ at one member only, their sums differ by as much.
LEMMA SumChange ==
  ASSUME NEW S, IsFiniteSet(S), NEW f, NEW g, NEW y \in S,
         \A x \in S : f[x] \in Int /\ g[x] \in Int,
         \A x \in S \ {y} : f[x] = g[x]
  PROVE  /\ SumFunctionOnSet(f, S) \in Int
         /\ SumFunctionOnSet(g, S) = SumFunctionOnSet(f, S) - f[y] + g[y]
<1>1. S \ {y} \in SUBSET S /\ IsFiniteSet(S \ {y})
  BY FS_Subset
<1>2. SumFunctionOnSet(f, S \ {y}) = SumFunctionOnSet(g, S \ {y})
  BY <1>1, SumAgree
<1>3. /\ SumFunctionOnSet(f, S) = f[y] + SumFunctionOnSet(f, S \ {y})
      /\ SumFunctionOnSet(g, S) = g[y] + SumFunctionOnSet(g, S \ {y})
  BY SumRemove
<1>4. SumFunctionOnSet(f, S \ {y}) \in Int
  BY <1>1, SumInt
<1> QED BY <1>2, <1>3, <1>4

\* A sum of natural numbers is one, no less than any of its terms.
LEMMA SumNat ==
  ASSUME NEW f, NEW S, IsFiniteSet(S), \A x \in S : f[x] \in Nat
  PROVE  /\ SumFunctionOnSet(f, S) \in Nat
         /\ \A x \in S : f[x] <= SumFunctionOnSet(f, S)
<1> DEFINE Sum(s) == SumFunctionOnSet(f, s)
           Sizes == {n \in Nat : \A s \in SUBSET S : Cardinality(s) = n => Sum(s) \in Nat}
<1>1. \A x \in S : f[x] \in Int
  OBVIOUS
<1>2. ASSUME NEW s \in SUBSET S, NEW x \in s PROVE Sum(s) = f[x] + Sum(s \ {x})
  <2>1. IsFiniteSet(s)
    BY SubsetSizes
  <2> QED BY <1>1, <2>1, SumRemove
<1> HIDE DEF Sum
<1>3. 0 \in Sizes
  BY SumEmpty, SubsetSizes DEF Sum
<1>4. ASSUME NEW n \in Nat, n \in Sizes PROVE n + 1 \in Sizes
  <2>1. ASSUME NEW s \in SUBSET S, Cardinality(s) = n + 1 PROVE Sum(s) \in Nat
    <3>1. s # {}
      BY <2>1, FS_EmptySet
    <3>2. PICK x \in s : TRUE
      BY <3>1
    <3>3. Sum(s \ {x}) \in Nat
      <4>1. s \ {x} \in SUBSET S /\ Cardinality(s \ {x}) = n
        BY <2>1, SmallerSubset
      <4> QED BY <4>1, <1>4
    <3> QED BY <3>3, <1>2
  <2>2. n + 1 \in Nat
    OBVIOUS
  <2> QED BY <2>1, <2>2
<1>5. Nat \subseteq Sizes
  <2> HIDE DEF Sizes
  <2> QED BY <1>3, <1>4, SetInduction
<1>6. \A s \in SUBSET S : Sum(s) \in Nat
  BY <1>5, SubsetSizes
<1>7. \A x \in S : f[x] <= Sum(S)
  <2> TAKE x \in S
  <2>1. Sum(S \ {x}) \in Nat /\ Sum(S) = f[x] + Sum(S \ {x})
    BY <1>6, <1>2
  <2>2. f[x] \in Nat
    OBVIOUS
  <2> QED BY <2>1, <2>2
<1> QED BY <1>6, <1>7 DEF Sum

\* A sum of zeros is zero.
LEMMA SumZero ==
  ASSUME NEW f, NEW S, IsFiniteSet(S), \A x \in S : f[x] \in Int,
         \A x \in S : f[x] = 0
  PROVE  SumFunctionOnSet(f, S) = 0
<1> DEFINE Sum(s) == SumFunctionOnSet(f, s)
           Sizes == {n \in Nat : \A s \in SUBSET S : Cardinality(s) = n => Sum(s) = 0}
<1>1. ASSUME NEW s \in SUBSET S, NEW x \in s PROVE Sum(s) = f[x] + Sum(s \ {x})
  <2>1. IsFiniteSet(s)
    BY SubsetSizes
  <2> QED BY <2>1, SumRemove
<1> HIDE DEF Sum
<1>2. 0 \in Sizes
  BY SumEmpty, SubsetSizes DEF Sum
<1>3. ASSUME NEW n \in Nat, n \in Sizes PROVE n + 1 \in Sizes
  <2>1. ASSUME NEW s \in SUBSET S, Cardinality(s) = n + 1 PROVE Sum(s) = 0
    <3>1. s # {}
      BY <2>1, FS_EmptySet
    <3>2. PICK x \in s : TRUE
      BY <3>1
    <3>3. Sum(s \ {x}) = 0 /\ f[x] = 0
      <4>1. s \ {x} \in SUBSET S /\ Cardinality(s \ {x}) = n
        BY <2>1, SmallerSubset
      <4> QED BY <4>1, <1>3
    <3> QED BY <3>3, <1>1
  <2>2. n + 1 \in Nat
    OBVIOUS
  <2> QED BY <2>1, <2>2
<1>4. Nat \subseteq Sizes
  <2> HIDE DEF Sizes
  <2> QED BY <1>2, <1>3, SetInduction
<1> QED BY <1>4, SubsetSizes DEF Sum

\* The sum of a function that is the sum of two others at each member.
LEMMA SumPlus ==
  ASSUME NEW S, IsFiniteSet(S), NEW f, NEW g, NEW h,
         \A x \in S : f[x] \in Int /\ g[x] \in Int /\ h[x] = f[x] + g[x]
  PROVE  SumFunctionOnSet(h, S) = SumFunctionOnSet(f, S) + SumFunctionOnSet(g, S)
<1> DEFINE F(s) == SumFunctionOnSet(f, s)
           G(s) == SumFunctionOnSet(g, s)
           H(s) == SumFunctionOnSet(h, s)
           Sizes == {n \in Nat : \A s \in SUBSET S : Cardinality(s) = n => H(s) = F(s) + G(s)}
<1>1. ASSUME NEW s \in SUBSET S
      PROVE  /\ F(s) \in Int /\ G(s) \in Int
             /\ \A x \in s : /\ F(s) = f[x] + F(s \ {x})
                             /\ G(s) = g[x] + G(s \ {x})
                             /\ H(s) = h[x] + H(s \ {x})
  <2>1. IsFiniteSet(s)
    BY SubsetSizes
  <2> QED BY <2>1, SumInt, SumRemove
<1>2. F({}) = 0 /\ G({}) = 0 /\ H({}) = 0
  BY SumEmpty
<1> HIDE DEF F, G, H
<1>0. ASSUME NEW s \in SUBSET S
      PROVE  /\ Cardinality(s) = 0 <=> s = {}
             /\ \A x \in s : /\ Cardinality(s \ {x}) = Cardinality(s) - 1
                             /\ s \ {x} \in SUBSET S
  BY SubsetSizes, FS_EmptySet
<1>3. 0 \in Sizes
  <2>1. ASSUME NEW s \in SUBSET S, Cardinality(s) = 0 PROVE H(s) = F(s) + G(s)
    <3>1. s = {}
      BY <1>0, <2>1
    <3> QED BY <3>1, <1>2
  <2> QED BY <2>1
<1>4. ASSUME NEW n \in Nat, n \in Sizes PROVE n + 1 \in Sizes
  <2>1. ASSUME NEW s \in SUBSET S, Cardinality(s) = n + 1 PROVE H(s) = F(s) + G(s)
    <3>1. s # {}
      BY <2>1, <1>0
    <3>2. PICK x \in s : TRUE
      BY <3>1
    <3> DEFINE r == s \ {x}
    <3>3. r \in SUBSET S /\ H(r) = F(r) + G(r)
      <4>1. r \in SUBSET S /\ Cardinality(r) = n
        BY <2>1, SmallerSubset
      <4> QED BY <4>1, <1>4
    <3> HIDE DEF r
    <3>4. F(s) = f[x] + F(r) /\ G(s) = g[x] + G(r) /\ H(s) = h[x] + H(r)
      BY <1>1 DEF r
    <3>5. F(r) \in Int /\ G(r) \in Int
      BY <3>3, <1>1
    <3> QED BY <3>3, <3>4, <3>5
  <2>2. n + 1 \in Nat
    OBVIOUS
  <2> QED BY <2>1, <2>2
<1>5. Nat \subseteq Sizes
  <2> HIDE DEF Sizes
  <2> QED BY <1>3, <1>4, SetInduction
<1>6. Cardinality(S) \in Nat
  BY FS_CardinalityType
<1>7. H(S) = F(S) + G(S)
  BY <1>5, <1>6
<1> QED BY <1>7 DEF F, G, H

\* One member apart: T is S without y.
LEMMA SumWithout ==
  ASSUME NEW f, NEW S, IsFiniteSet(S), \A x \in S : f[x] \in Int,
         NEW y \in S, NEW T, T = S \ {y}
  PROVE  /\ SumFunctionOnSet(f, S) = f[y] + SumFunctionOnSet(f, T)
         /\ SumFunctionOnSet(f, T) \in Int
<1>1. IsFiniteSet(T) /\ \A x \in T : f[x] \in Int
  BY FS_Subset
<1> QED BY <1>1, SumRemove, SumInt

\* Some of the terms of a sum of natural numbers sum to no more than all of them.
LEMMA SumSubset ==
  ASSUME NEW f, NEW S, IsFiniteSet(S), \A x \in S : f[x] \in Nat, NEW T \in SUBSET S
  PROVE  SumFunctionOnSet(f, T) <= SumFunctionOnSet(f, S)
<1> DEFINE Sum(s) == SumFunctionOnSet(f, s)
           Sizes == {n \in Nat : \A s \in SUBSET S :
                                  Cardinality(s) = n => Sum(s \cap T) <= Sum(s)}
<1>1. ASSUME NEW s \in SUBSET S
      PROVE  Sum(s) \in Nat /\ \A x \in s : Sum(s) = f[x] + Sum(s \ {x})
  <2>1. IsFiniteSet(s) /\ (\A x \in s : f[x] \in Nat) /\ (\A x \in s : f[x] \in Int)
    BY SubsetSizes
  <2> QED BY <2>1, SumNat, SumRemove
<1> HIDE DEF Sum
<1>2. 0 \in Sizes
  <2>1. ASSUME NEW s \in SUBSET S, Cardinality(s) = 0 PROVE Sum(s \cap T) <= Sum(s)
    <3>1. s = {} /\ s \cap T = s
      BY <2>1, SubsetSizes
    <3>2. Sum(s) \in Nat
      BY <1>1
    <3> QED BY <3>1, <3>2
  <2> QED BY <2>1
<1>3. ASSUME NEW n \in Nat, n \in Sizes PROVE n + 1 \in Sizes
  <2>1. ASSUME NEW s \in SUBSET S, Cardinality(s) = n + 1 PROVE Sum(s \cap T) <= Sum(s)
    <3>1. s # {}
      BY <2>1, FS_EmptySet
    <3>2. PICK x \in s : TRUE
      BY <3>1
    <3> DEFINE rest == s \ {x}
    <3>3. rest \in SUBSET S /\ Cardinality(rest) = n
      BY <2>1, SmallerSubset
    <3>4. Sum(rest \cap T) <= Sum(rest)
      BY <1>3, <3>3
    <3>5. Sum(rest \cap T) \in Nat /\ Sum(rest) \in Nat /\ Sum(s) = f[x] + Sum(rest)
          /\ f[x] \in Nat
      BY <1>1, <3>3
    <3>6. CASE x \in T
      <4>1. s \cap T \in SUBSET S /\ x \in s \cap T /\ (s \cap T) \ {x} = rest \cap T
        BY <3>6
      <4>2. Sum(s \cap T) = f[x] + Sum(rest \cap T)
        BY <1>1, <4>1
      <4> QED BY <3>4, <3>5, <4>2
    <3>7. CASE x \notin T
      <4>1. s \cap T = rest \cap T
        BY <3>7
      <4> QED BY <3>4, <3>5, <4>1
    <3> QED BY <3>6, <3>7
  <2>2. n + 1 \in Nat
    OBVIOUS
  <2> QED BY <2>1, <2>2
<1>4. Nat \subseteq Sizes
  <2> HIDE DEF Sizes
  <2> QED BY <1>2, <1>3, SetInduction
<1>5. Sum(S \cap T) <= Sum(S) /\ S \cap T = T
  BY <1>4, SubsetSizes
<1> QED BY <1>5 DEF Sum

-----------------------------------------------------------------------------
(***************************************************************************)
(* Loops over the installments.                                            *)
(***************************************************************************)

\* An invoice has finitely many installments.
LEMMA NumbersFinite == IsFiniteSet(Numbers)
BY NAssumption, FS_Interval DEF Numbers

\* The total of whole numbers is a whole number, of natural numbers a natural
\* number that is no less than any of them.
LEMMA TotalType ==
  /\ \A f \in [Numbers -> Int] : Total(f) \in Int
  /\ \A f \in [Numbers -> Nat] : Total(f) \in Nat /\ \A i \in Numbers : f[i] <= Total(f)
BY NumbersFinite, SumInt, SumNat DEF Total

\* The total of a sum, slot by slot, is the sum of the totals.
LEMMA TotalPlus ==
  ASSUME NEW f \in [Numbers -> Int], NEW g \in [Numbers -> Int],
         NEW h \in [Numbers -> Int], \A i \in Numbers : h[i] = f[i] + g[i]
  PROVE  Total(h) = Total(f) + Total(g)
<1>1. IsFiniteSet(Numbers)
  BY NumbersFinite
<1>2. SumFunctionOnSet(h, Numbers)
        = SumFunctionOnSet(f, Numbers) + SumFunctionOnSet(g, Numbers)
  BY <1>1, SumPlus
<1> QED BY <1>2 DEF Total

\* What one slot takes is within what is left, and within its room.
LEMMA TakeBounds ==
  ASSUME NEW room \in Int, NEW left \in Nat
  PROVE  /\ Take(room, left) \in Nat
         /\ left - Take(room, left) \in Nat
         /\ Take(room, left) <= Positive(room)
         /\ room \in Nat => Take(room, left) <= room
BY DEF Take, Positive

\* One step of the loop at a time: Left starts with the money, and each slot
\* takes its part of what the slots before left.
LEMMA LeftRecursion ==
  ASSUME NEW room \in [Numbers -> Int], NEW money \in Nat
  PROVE  /\ Left(room, money) \in [0..N -> Nat]
         /\ Left(room, money)[0] = money
         /\ \A i \in Numbers :
              Left(room, money)[i]
                = Left(room, money)[i-1] - Take(room[i], Left(room, money)[i-1])
<1> DEFINE Body(h, i) == IF i = 0 THEN money ELSE h[i-1] - Take(room[i], h[i-1])
           Trace(k, f) == /\ f \in [0..k -> Nat]
                          /\ f[0] = money
                          /\ \A i \in 1..k : f[i] = f[i-1] - Take(room[i], f[i-1])
           Steps == {k \in Nat : k <= N => \E f : Trace(k, f)}
<1> USE DEF Numbers
<1>1. 0 \in Steps
  <2>1. Trace(0, [i \in 0..0 |-> money])
    OBVIOUS
  <2> QED BY <2>1
<1>2. ASSUME NEW n \in Nat, n \in Steps PROVE n + 1 \in Steps
  <2>1. SUFFICES ASSUME n + 1 <= N PROVE \E f : Trace(n+1, f)
    <3>1. n + 1 \in Nat
      OBVIOUS
    <3> QED BY <3>1
  <2>2. PICK f : Trace(n, f)
    <3>1. n <= N
      BY <2>1, NAssumption
    <3> HIDE DEF Trace
    <3> QED BY <1>2, <3>1
  <2> DEFINE g == [i \in 0..(n+1) |-> IF i <= n THEN f[i]
                                        ELSE f[n] - Take(room[n+1], f[n])]
  <2>3. f[n] - Take(room[n+1], f[n]) \in Nat
    BY <2>1, <2>2, NAssumption DEF Take
  <2>4. g \in [0..(n+1) -> Nat]
    BY <2>3, <2>2
  <2>5. g[0] = money
    BY <2>2
  <2>6. ASSUME NEW i \in 1..(n+1) PROVE g[i] = g[i-1] - Take(room[i], g[i-1])
    <3>1. CASE i <= n
      BY <3>1, <2>2
    <3>2. CASE i = n+1
      BY <3>2, <2>2
    <3> QED BY <3>1, <3>2, <2>6
  <2> QED BY <2>4, <2>5, <2>6
<1>3. Nat \subseteq Steps
  <2> HIDE DEF Steps
  <2> QED BY <1>1, <1>2, SetInduction
<1>4. PICK f : Trace(N, f)
  <2>1. N \in Steps /\ N <= N
    <3> HIDE DEF Steps
    <3> QED BY <1>3, NAssumption
  <2> HIDE DEF Trace
  <2> QED BY <2>1
<1>5. f = [i \in 0..N |-> Body(f, i)]
  BY <1>4, NAssumption
<1> DEFINE left == CHOOSE h : h = [i \in 0..N |-> Body(h, i)]
<1>6. left = [i \in 0..N |-> Body(left, i)]
  BY <1>5
<1>7. Left(room, money) = left
  BY DEF Left
<1> HIDE DEF left
<1>8. /\ left[0] = money
      /\ \A i \in 1..N : left[i] = left[i-1] - Take(room[i], left[i-1])
  <2>1. ASSUME NEW i \in 0..N PROVE left[i] = Body(left, i)
    <3> DEFINE body == [j \in 0..N |-> Body(left, j)]
    <3>1. body[i] = Body(left, i)
      OBVIOUS
    <3> QED BY <3>1, <1>6, Zenon
  <2>2. 0 \in 0..N /\ \A i \in 1..N : i \in 0..N /\ i # 0
    BY NAssumption
  <2> QED BY <2>1, <2>2, Zenon
<1>9. left \in [0..N -> Nat]
  <2> DEFINE T == {k \in Nat : k <= N => left[k] \in Nat}
  <2>1. 0 \in T
    BY <1>8, NAssumption
  <2>2. ASSUME NEW n \in Nat, n \in T PROVE n + 1 \in T
    <3>1. SUFFICES ASSUME n + 1 <= N PROVE left[n+1] \in Nat
      <4>1. n + 1 \in Nat
        OBVIOUS
      <4> QED BY <4>1
    <3>2. left[n] \in Nat
      BY <2>2, <3>1, NAssumption
    <3>3. left[n+1] = left[n] - Take(room[n+1], left[n])
      BY <1>8, <3>1, NAssumption
    <3> QED BY <3>2, <3>3, <3>1, NAssumption DEF Take
  <2>3. Nat \subseteq T
    <3> HIDE DEF T
    <3> QED BY <2>1, <2>2, SetInduction
  <2>4. \A k \in 0..N : left[k] \in Nat
    BY <2>3, NAssumption
  <2> QED BY <2>4, <1>6
<1> QED BY <1>7, <1>8, <1>9

\* Nobody takes more than its room.
LEMMA TakesBounds ==
  ASSUME NEW room \in [Numbers -> Int], NEW money \in Nat
  PROVE  /\ Takes(room, money) \in [Numbers -> Nat]
         /\ \A i \in Numbers : Takes(room, money)[i] <= Positive(room[i])
<1>1. ASSUME NEW i \in Numbers
      PROVE  /\ Take(room[i], Left(room, money)[i-1]) \in Nat
             /\ Take(room[i], Left(room, money)[i-1]) <= Positive(room[i])
  <2>1. Left(room, money)[i-1] \in Nat /\ room[i] \in Int
    BY LeftRecursion, NAssumption DEF Numbers
  <2> QED BY <2>1, TakeBounds
<1> QED BY <1>1 DEF Takes

\* What the slots take and what is left add up to the money.
LEMMA TakesAccount ==
  ASSUME NEW room \in [Numbers -> Int], NEW money \in Nat
  PROVE  Total(Takes(room, money)) + Left(room, money)[N] = money
<1> DEFINE takes == Takes(room, money)
           left == Left(room, money)
           Sum(s) == SumFunctionOnSet(takes, s)
           Steps == {i \in Nat : i <= N => Sum(1..i) + left[i] = money}
<1>1. takes \in [Numbers -> Nat] /\ left \in [0..N -> Nat] /\ left[0] = money
  BY TakesBounds, LeftRecursion
<1>2. \A i \in Numbers : left[i] = left[i-1] - takes[i]
  BY LeftRecursion DEF Takes
<1>3. Sum({}) = 0
  BY SumEmpty
<1>4. ASSUME NEW i \in Numbers
      PROVE  Sum(1..i) = takes[i] + Sum(1..(i-1)) /\ Sum(1..(i-1)) \in Int
  <2> DEFINE S == 1..i
             T == 1..(i-1)
  <2>1. i \in Int /\ 1 <= i /\ i <= N
    BY NAssumption DEF Numbers
  <2>2. IsFiniteSet(S)
    BY <2>1, FS_Interval
  <2>3. i \in S /\ T = S \ {i}
    BY <2>1
  <2>4. \A j \in S : takes[j] \in Int
    <3> HIDE DEF takes
    <3> QED BY <1>1, <2>1, NAssumption DEF Numbers
  <2> HIDE DEF takes, S, T
  <2>5. Sum(S) = takes[i] + Sum(T) /\ Sum(T) \in Int
    BY <2>2, <2>3, <2>4, SumWithout
  <2> QED BY <2>5 DEF S, T
<1> HIDE DEF takes, left, Sum
<1>5. 0 \in Steps
  <2>1. 1..0 = {}
    OBVIOUS
  <2> QED BY <2>1, <1>1, <1>3
<1>6. ASSUME NEW n \in Nat, n \in Steps PROVE n + 1 \in Steps
  <2>1. SUFFICES ASSUME n + 1 <= N PROVE Sum(1..(n+1)) + left[n+1] = money
    <3>1. n + 1 \in Nat
      OBVIOUS
    <3> QED BY <3>1
  <2>2. n + 1 \in Numbers /\ (n + 1) - 1 = n /\ n \in 0..N /\ n + 1 \in 0..N
    BY <2>1, NAssumption DEF Numbers
  <2>3. Sum(1..(n+1)) = takes[n+1] + Sum(1..n) /\ Sum(1..n) \in Int
    BY <2>2, <1>4
  <2>4. left[n+1] = left[n] - takes[n+1]
    BY <2>2, <1>2
  <2>5. Sum(1..n) + left[n] = money
    BY <2>2, <1>6
  <2>6. takes[n+1] \in Nat /\ left[n] \in Nat
    BY <2>2, <1>1
  <2> QED BY <2>3, <2>4, <2>5, <2>6
<1>7. Nat \subseteq Steps
  <2> HIDE DEF Steps
  <2> QED BY <1>5, <1>6, SetInduction
<1>8. Sum(1..N) + left[N] = money
  BY <1>7, NAssumption
<1> QED BY <1>8 DEF Sum, takes, left, Total, Numbers

-----------------------------------------------------------------------------
\* Seen from the other end, a schedule has the same total.
LEMMA TotalMirror ==
  ASSUME NEW f \in [Numbers -> Int]
  PROVE  Total(Mirror(f)) = Total(f)
<1> DEFINE g == Mirror(f)
           F(s) == SumFunctionOnSet(f, s)
           G(s) == SumFunctionOnSet(g, s)
           Steps == {i \in Nat : i <= N => G(1..i) = F((N + 1 - i)..N)}
<1>1. g \in [Numbers -> Int] /\ \A i \in Numbers : g[i] = f[N + 1 - i]
  BY NAssumption DEF Mirror, Numbers
<1>2. F({}) = 0 /\ G({}) = 0
  BY SumEmpty
<1> HIDE DEF g
<1>3. ASSUME NEW i \in Numbers
      PROVE  /\ G(1..i) = g[i] + G(1..(i-1))
             /\ F((N + 1 - i)..N) = f[N + 1 - i] + F((N + 1 - (i-1))..N)
  <2> DEFINE S == 1..i
             T == 1..(i-1)
             U == (N + 1 - i)..N
             V == (N + 1 - (i-1))..N
             j == N + 1 - i
  <2>1. i \in Int /\ 1 <= i /\ i <= N /\ N \in Int /\ j \in Int
    BY NAssumption DEF Numbers
  <2>2. IsFiniteSet(S) /\ IsFiniteSet(U)
    BY <2>1, FS_Interval
  <2>3. i \in S /\ T = S \ {i} /\ j \in U /\ V = U \ {j}
    BY <2>1
  <2>4. \A k \in S : g[k] \in Int
    BY <1>1, <2>1 DEF Numbers
  <2>5. \A k \in U : f[k] \in Int
    BY <2>1 DEF Numbers
  <2> HIDE DEF F, G, S, T, U, V, j
  <2>6. G(S) = g[i] + G(T)
    BY <2>2, <2>3, <2>4, SumWithout DEF G
  <2>7. F(U) = f[j] + F(V)
    BY <2>2, <2>3, <2>5, SumWithout DEF F
  <2> QED BY <2>6, <2>7 DEF S, T, U, V, j
<1> HIDE DEF F, G
<1>4. 0 \in Steps
  <2>1. 1..0 = {} /\ (N + 1 - 0)..N = {}
    BY NAssumption
  <2> QED BY <2>1, <1>2
<1>5. ASSUME NEW n \in Nat, n \in Steps PROVE n + 1 \in Steps
  <2>1. SUFFICES ASSUME n + 1 <= N PROVE G(1..(n+1)) = F((N + 1 - (n+1))..N)
    <3>1. n + 1 \in Nat
      OBVIOUS
    <3> QED BY <3>1
  <2>2. n + 1 \in Numbers /\ (n + 1) - 1 = n /\ n <= N
    BY <2>1, NAssumption DEF Numbers
  <2>3. G(1..(n+1)) = g[n+1] + G(1..n)
    BY <2>2, <1>3
  <2>4. F((N + 1 - (n+1))..N) = f[N + 1 - (n+1)] + F((N + 1 - n)..N)
    BY <2>2, <1>3
  <2>5. G(1..n) = F((N + 1 - n)..N)
    BY <2>2, <1>5
  <2>6. g[n+1] = f[N + 1 - (n+1)]
    BY <2>2, <1>1
  <2> QED BY <2>3, <2>4, <2>5, <2>6
<1>6. Nat \subseteq Steps
  <2> HIDE DEF Steps
  <2> QED BY <1>4, <1>5, SetInduction
<1>7. G(1..N) = F((N + 1 - N)..N)
  BY <1>6, NAssumption
<1>8. (N + 1 - N)..N = 1..N
  BY NAssumption
<1>9. G(1..N) = F(1..N)
  BY <1>7, <1>8
<1> QED BY <1>9 DEF F, G, g, Total, Numbers

\* Mirroring keeps the type and exchanges the slots.
LEMMA MirrorType ==
  ASSUME NEW D, NEW f \in [Numbers -> D]
  PROVE  /\ Mirror(f) \in [Numbers -> D]
         /\ \A i \in Numbers : /\ N + 1 - i \in Numbers
                               /\ Mirror(f)[i] = f[N + 1 - i]
                               /\ Mirror(f)[N + 1 - i] = f[i]
<1>1. \A i \in Numbers : N + 1 - i \in Numbers /\ N + 1 - (N + 1 - i) = i
  BY NAssumption DEF Numbers
<1> QED BY <1>1 DEF Mirror

-----------------------------------------------------------------------------
(***************************************************************************)
(* The operations of the source.                                           *)
(***************************************************************************)

\* The columns of a schedule.
LEMMA ScheduleTypes ==
  ASSUME NEW s \in Schedules
  PROVE  /\ Amounts(s) \in [Numbers -> Nat]
         /\ Paids(s) \in [Numbers -> Nat]
         /\ Balances(s) \in [Numbers -> Int]
         /\ \A i \in Numbers : /\ Amounts(s)[i] = s[i].amount
                               /\ Paids(s)[i] = s[i].paid
                               /\ Balances(s)[i] = s[i].amount - s[i].paid
BY DEF Schedules, Amounts, Paids, Balances

\* Raising one installment raises the total by as much.
LEMMA TotalRaised ==
  ASSUME NEW s \in Schedules, NEW new \in Schedules, NEW i \in Numbers, NEW d \in Int,
         \A j \in Numbers \ {i} : new[j].amount = s[j].amount,
         new[i].amount = s[i].amount + d
  PROVE  Total(Amounts(new)) = Total(Amounts(s)) + d
<1> DEFINE f == Amounts(s)
           g == Amounts(new)
<1>1. \A j \in Numbers : /\ f[j] \in Int /\ f[j] = s[j].amount
                         /\ g[j] \in Int /\ g[j] = new[j].amount
  BY ScheduleTypes
<1> HIDE DEF f, g
<1>2. \A j \in Numbers : f[j] \in Int /\ g[j] \in Int
  BY <1>1
<1>3. \A j \in Numbers \ {i} : f[j] = g[j]
  BY <1>1
<1>4. g[i] = f[i] + d
  BY <1>1
<1>5. IsFiniteSet(Numbers)
  BY NumbersFinite
<1>6. /\ SumFunctionOnSet(f, Numbers) \in Int
      /\ SumFunctionOnSet(g, Numbers) = SumFunctionOnSet(f, Numbers) - f[i] + g[i]
  <2> DEFINE rest == Numbers \ {i}
  <2>1. IsFiniteSet(rest)
    BY <1>5, FS_Subset
  <2>2. \A j \in rest : f[j] \in Int /\ f[j] = g[j]
    BY <1>2, <1>3
  <2>3. \A j \in Numbers : f[j] \in Int
    BY <1>2
  <2>4. \A j \in Numbers : g[j] \in Int
    BY <1>2
  <2>5. rest = Numbers \ {i}
    OBVIOUS
  <2> HIDE DEF rest
  <2>6. SumFunctionOnSet(f, rest) = SumFunctionOnSet(g, rest)
    BY <2>1, <2>2, SumAgree
  <2>7. /\ SumFunctionOnSet(f, Numbers) = f[i] + SumFunctionOnSet(f, rest)
        /\ SumFunctionOnSet(f, rest) \in Int
    BY <1>5, <2>3, <2>5, SumWithout
  <2>8. SumFunctionOnSet(g, Numbers) = g[i] + SumFunctionOnSet(g, rest)
    BY <1>5, <2>4, <2>5, SumWithout
  <2> QED BY <1>2, <2>6, <2>7, <2>8
<1>7. Total(g) = Total(f) + d
  BY <1>2, <1>4, <1>6 DEF Total
<1> QED BY <1>7 DEF f, g

\* allocatePayment (billing.ts:347): for every schedule and every payment, what
\* is allocated and the excess add up to the payment, and no installment is
\* paid beyond what it still owes.
THEOREM AllocationComplete ==
  ASSUME NEW s \in Schedules, NEW payment \in Nat
  PROVE  LET paid == allocatePayment(s, payment)
         IN  /\ paid.allocations \in [Numbers -> Nat]
             /\ paid.excess \in Nat
             /\ \A i \in Numbers :
                  paid.allocations[i] <= Positive(s[i].amount - s[i].paid)
             /\ Total(paid.allocations) + paid.excess = payment
<1>1. Balances(s) \in [Numbers -> Int]
      /\ \A i \in Numbers : Balances(s)[i] = s[i].amount - s[i].paid
  BY ScheduleTypes
<1>2. /\ Takes(Balances(s), payment) \in [Numbers -> Nat]
      /\ \A i \in Numbers : Takes(Balances(s), payment)[i] <= Positive(Balances(s)[i])
  BY <1>1, TakesBounds
<1>3. Left(Balances(s), payment)[N] \in Nat
  BY <1>1, LeftRecursion, NAssumption
<1>4. Total(Takes(Balances(s), payment)) + Left(Balances(s), payment)[N] = payment
  BY <1>1, TakesAccount
<1> QED BY <1>1, <1>2, <1>3, <1>4 DEF allocatePayment

\* reverseAllocations (billing.ts:409): no allocation is reversed beyond its
\* amount, and a reversal that does not throw takes back exactly the refund.
THEOREM ReversalExact ==
  ASSUME NEW allocated \in [Numbers -> Nat], NEW refund \in Nat
  PROVE  LET reversal == reverseAllocations(allocated, refund)
         IN  /\ reversal \in [Numbers -> Nat]
             /\ \A i \in Numbers : reversal[i] <= allocated[i]
             /\ CanReverse(allocated, refund) => Total(reversal) = refund
<1> DEFINE room == Mirror(allocated)
           takes == Takes(room, refund)
<1>1. room \in [Numbers -> Nat] /\ room \in [Numbers -> Int]
  BY MirrorType
<1>2. /\ takes \in [Numbers -> Nat]
      /\ \A i \in Numbers : takes[i] <= Positive(room[i])
  BY <1>1, TakesBounds
<1>3. Total(takes) + Left(room, refund)[N] = refund
  BY <1>1, TakesAccount
<1>4. Left(room, refund)[N] \in Nat
  <2>1. Left(room, refund) \in [0..N -> Nat]
    BY <1>1, LeftRecursion
  <2> QED BY <2>1, NAssumption
<1>5. Total(takes) \in Int /\ Total(Mirror(takes)) = Total(takes)
  BY <1>2, TotalType, TotalMirror
<1>6. CanReverse(allocated, refund) => Total(Mirror(takes)) = refund
  BY <1>3, <1>4, <1>5 DEF CanReverse
<1>7. Mirror(takes) \in [Numbers -> Nat]
  BY <1>2, MirrorType
<1>8. ASSUME NEW i \in Numbers PROVE Mirror(takes)[i] <= allocated[i]
  <2>1. N + 1 - i \in Numbers /\ Mirror(takes)[i] = takes[N + 1 - i]
    BY <1>2, MirrorType
  <2>2. room[N + 1 - i] = allocated[i] /\ allocated[i] \in Nat
    BY MirrorType
  <2> HIDE DEF takes, room
  <2> QED BY <2>1, <2>2, <1>2 DEF Positive
<1> QED BY <1>6, <1>7, <1>8 DEF reverseAllocations

\* applyDelta (billing.ts:312): a correction that does not throw changes what
\* is owed by exactly its amount, leaves what is paid alone, and keeps every
\* installment at or above what is paid on it.
THEOREM DeltaExact ==
  ASSUME NEW s \in Schedules, NEW delta \in Int, CanApplyDelta(s, delta)
  PROVE  LET new == applyDelta(s, delta)
         IN  /\ new \in Schedules
             /\ \A i \in Numbers :
                  /\ new[i].paid = s[i].paid
                  /\ s[i].paid <= s[i].amount => new[i].paid <= new[i].amount
             /\ Total(Amounts(new)) = Total(Amounts(s)) + delta
<1> DEFINE new == applyDelta(s, delta)
<1>1. Amounts(s) \in [Numbers -> Int] /\ Total(Amounts(s)) \in Int
  <2>1. Amounts(s) \in [Numbers -> Int]
    BY ScheduleTypes
  <2> QED BY <2>1, TotalType
<1>2. CASE delta >= 0
  <2> DEFINE raise == [i \in Numbers |-> IF i = N THEN delta ELSE 0]
  <2>1. new = [s EXCEPT ![N].amount = @ + delta]
    BY <1>2 DEF applyDelta
  <2>2. N \in Numbers /\ delta \in Nat
    BY <1>2, NAssumption DEF Numbers
  <2> HIDE DEF new
  <2>3. /\ new \in Schedules
        /\ \A i \in Numbers : /\ new[i].paid = s[i].paid
                              /\ new[i].amount = s[i].amount + raise[i]
    BY <2>1, <2>2 DEF Schedules
  <2>4. Total(Amounts(new)) = Total(Amounts(s)) + delta
    <3>1. raise[N] = delta /\ \A j \in Numbers \ {N} : raise[j] = 0
      BY <2>2
    <3>2. \A j \in Numbers : s[j].amount \in Nat
      BY DEF Schedules
    <3> HIDE DEF raise
    <3>3. new[N].amount = s[N].amount + delta
      BY <2>2, <2>3, <3>1
    <3>4. \A j \in Numbers \ {N} : new[j].amount = s[j].amount
      BY <2>3, <3>1, <3>2
    <3> QED BY <2>2, <2>3, <3>3, <3>4, TotalRaised
  <2>5. \A i \in Numbers : s[i].paid <= s[i].amount => new[i].paid <= new[i].amount
    <3> TAKE i \in Numbers
    <3>1. s[i].paid \in Nat /\ s[i].amount \in Nat /\ raise[i] \in Nat
      BY <2>2 DEF Schedules
    <3> HIDE DEF raise
    <3> QED BY <3>1, <2>3
  <2> QED BY <2>3, <2>4, <2>5 DEF new
<1>3. CASE ~(delta >= 0)
  <2> DEFINE room == Mirror(Balances(s))
             takes == Takes(room, -delta)
             cut == Mirror(takes)
  <2>1. new = [i \in Numbers |-> [s[i] EXCEPT !.amount = @ - cut[i]]]
    BY <1>3 DEF applyDelta
  <2>2. -delta \in Nat
    BY <1>3
  <2>3. room \in [Numbers -> Int]
    BY ScheduleTypes, MirrorType
  <2>4. /\ takes \in [Numbers -> Nat]
        /\ \A i \in Numbers : takes[i] <= Positive(room[i])
    BY <2>2, <2>3, TakesBounds
  <2>5. Total(takes) = -delta
    <3>1. Total(takes) + Left(room, -delta)[N] = -delta
      BY <2>2, <2>3, TakesAccount
    <3>2. Left(room, -delta)[N] \in Nat
      <4>1. Left(room, -delta) \in [0..N -> Nat]
        BY <2>2, <2>3, LeftRecursion
      <4> QED BY <4>1, NAssumption
    <3>3. Left(room, -delta)[N] <= 0
      BY <1>3 DEF CanApplyDelta
    <3>4. Total(takes) \in Int
      BY <2>4, TotalType
    <3> HIDE DEF takes, room
    <3> QED BY <3>1, <3>2, <3>3, <3>4
  <2>6. Total(cut) = -delta
    <3>1. takes \in [Numbers -> Int]
      BY <2>4
    <3> HIDE DEF takes
    <3> QED BY <3>1, <2>5, TotalMirror
  <2>7. cut \in [Numbers -> Nat]
    BY <2>4, MirrorType
  <2>8. ASSUME NEW i \in Numbers
        PROVE  /\ s[i] \in [amount : Nat, paid : Nat]
               /\ cut[i] \in Nat
               /\ cut[i] <= Positive(s[i].amount - s[i].paid)
    <3>1. N + 1 - i \in Numbers /\ cut[i] = takes[N + 1 - i]
      BY <2>4, MirrorType
    <3>2. room[N + 1 - i] = s[i].amount - s[i].paid
      <4>1. Balances(s) \in [Numbers -> Int]
        BY ScheduleTypes
      <4>2. Balances(s)[i] = s[i].amount - s[i].paid
        BY ScheduleTypes
      <4>3. room[N + 1 - i] = Balances(s)[i]
        BY <4>1, MirrorType
      <4> HIDE DEF room
      <4> QED BY <4>2, <4>3
    <3>3. takes[N + 1 - i] <= Positive(room[N + 1 - i])
      BY <3>1, <2>4
    <3>4. s[i] \in [amount : Nat, paid : Nat]
      BY DEF Schedules
    <3> HIDE DEF cut, takes, room
    <3> QED BY <3>1, <3>2, <3>3, <3>4, <2>7
  <2> HIDE DEF cut, takes, room, new
  <2>9. ASSUME NEW i \in Numbers
        PROVE  /\ new[i] \in [amount : Nat, paid : Nat]
               /\ new[i].paid = s[i].paid
               /\ s[i].amount = new[i].amount + cut[i]
               /\ s[i].paid <= s[i].amount => new[i].paid <= new[i].amount
    <3>1. new[i] = [s[i] EXCEPT !.amount = @ - cut[i]]
      BY <2>1
    <3>2. /\ s[i].amount \in Nat /\ s[i].paid \in Nat /\ cut[i] \in Nat
          /\ cut[i] <= Positive(s[i].amount - s[i].paid)
      BY <2>8
    <3>3. s[i].amount - cut[i] \in Nat
      BY <3>2 DEF Positive
    <3>4. new[i] = [amount |-> s[i].amount - cut[i], paid |-> s[i].paid]
      BY <3>1, <2>8
    <3> QED BY <3>2, <3>3, <3>4 DEF Positive
  <2>10. new \in Schedules
    BY <2>1, <2>9 DEF Schedules
  <2>11. Total(Amounts(s)) = Total(Amounts(new)) + Total(cut)
    <3>1. Amounts(new) \in [Numbers -> Int] /\ cut \in [Numbers -> Int]
      BY <2>7, <2>10, ScheduleTypes
    <3>2. \A i \in Numbers : Amounts(s)[i] = Amounts(new)[i] + cut[i]
      BY <2>9, <2>10, ScheduleTypes
    <3> QED BY <3>1, <3>2, <1>1, TotalPlus
  <2>12. Total(Amounts(new)) \in Int
    <3>1. Amounts(new) \in [Numbers -> Int]
      BY <2>10, ScheduleTypes
    <3> QED BY <3>1, TotalType
  <2> QED BY <2>6, <2>9, <2>10, <2>11, <2>12, <1>1 DEF new
<1> QED BY <1>2, <1>3

-----------------------------------------------------------------------------
(***************************************************************************)
(* How money fills the slots.                                              *)
(***************************************************************************)

\* A function whose values are no greater has no greater total, and is the same
\* function when the total is the same.
LEMMA TotalMonotone ==
  ASSUME NEW f \in [Numbers -> Nat], NEW g \in [Numbers -> Nat],
         \A i \in Numbers : f[i] <= g[i]
  PROVE  /\ Total(f) <= Total(g)
         /\ Total(f) = Total(g) => f = g
<1> DEFINE gap == [i \in Numbers |-> g[i] - f[i]]
<1>1. gap \in [Numbers -> Nat] /\ \A i \in Numbers : g[i] = f[i] + gap[i]
  OBVIOUS
<1> HIDE DEF gap
<1>2. Total(g) = Total(f) + Total(gap)
  BY <1>1, TotalPlus
<1>3. /\ Total(f) \in Nat /\ Total(gap) \in Nat
      /\ \A i \in Numbers : gap[i] <= Total(gap)
  BY <1>1, TotalType
<1>4. ASSUME Total(f) = Total(g) PROVE f = g
  <2>1. \A i \in Numbers : gap[i] = 0
    BY <1>1, <1>2, <1>3, <1>4
  <2> QED BY <1>1, <2>1
<1> QED BY <1>2, <1>3, <1>4

\* What is left gets less from slot to slot.
LEMMA LeftDecreases ==
  ASSUME NEW room \in [Numbers -> Nat], NEW money \in Nat
  PROVE  \A i, j \in 0..N : i <= j => Left(room, money)[j] <= Left(room, money)[i]
<1> DEFINE left == Left(room, money)
           Steps == {k \in Nat : k <= N => \A i \in 0..k : left[k] <= left[i]}
<1>1. left \in [0..N -> Nat]
  BY LeftRecursion
<1>2. ASSUME NEW k \in Nat, k + 1 <= N PROVE left[k+1] <= left[k]
  <2>1. k + 1 \in Numbers /\ (k + 1) - 1 = k
    BY <1>2, NAssumption DEF Numbers
  <2>2. left[k+1] = left[k] - Take(room[k+1], left[k])
    BY <2>1, LeftRecursion
  <2>3. k \in 0..N /\ left[k] \in Nat /\ room[k+1] \in Int
    BY <1>1, <1>2, <2>1, NAssumption
  <2> HIDE DEF left
  <2>4. Take(room[k+1], left[k]) \in Nat
    BY <2>3, TakeBounds
  <2> QED BY <2>2, <2>3, <2>4
<1> HIDE DEF left
<1>3. 0 \in Steps
  BY <1>1, NAssumption
<1>4. ASSUME NEW k \in Nat, k \in Steps PROVE k + 1 \in Steps
  <2>1. SUFFICES ASSUME k + 1 <= N, NEW i \in 0..(k+1) PROVE left[k+1] <= left[i]
    OBVIOUS
  <2>2. left[k+1] <= left[k] /\ left[k] \in Nat /\ left[k+1] \in Nat /\ left[i] \in Nat
    BY <1>1, <1>2, <2>1, NAssumption
  <2>3. CASE i = k + 1
    BY <2>2, <2>3
  <2>4. CASE i # k + 1
    <3>1. i \in 0..k
      BY <2>4
    <3>2. left[k] <= left[i]
      BY <1>4, <2>1, <3>1, NAssumption
    <3> QED BY <2>2, <3>2
  <2> QED BY <2>3, <2>4
<1>5. Nat \subseteq Steps
  <2> HIDE DEF Steps
  <2> QED BY <1>3, <1>4, SetInduction
<1>6. \A j \in 0..N : \A i \in 0..j : left[j] <= left[i]
  BY <1>5, NAssumption
<1> QED BY <1>6, NAssumption DEF left

\* A slot is only passed over when it is full.
LEMMA TakesInOrder ==
  ASSUME NEW room \in [Numbers -> Nat], NEW money \in Nat
  PROVE  LET takes == Takes(room, money)
         IN  /\ \A i, j \in Numbers : i < j /\ takes[j] > 0 => takes[i] = room[i]
             /\ Left(room, money)[N] > 0 => takes = room
<1> DEFINE takes == Takes(room, money)
           left == Left(room, money)
<1>1. /\ left \in [0..N -> Nat] /\ takes \in [Numbers -> Nat]
      /\ \A i \in Numbers : takes[i] = Take(room[i], left[i-1]) /\ left[i] = left[i-1] - takes[i]
  BY LeftRecursion, TakesBounds DEF Takes
<1>2. \A i, j \in 0..N : i <= j => left[j] <= left[i]
  BY LeftDecreases
<1>3. N \in Nat /\ \A i \in Numbers : i \in 1..N /\ i \in 0..N /\ i - 1 \in 0..N
  BY NAssumption DEF Numbers
<1> HIDE DEF takes, left
<1>4. ASSUME NEW i \in Numbers, left[i] > 0 PROVE takes[i] = room[i]
  <2>1. left[i-1] \in Nat /\ room[i] \in Nat
    BY <1>1, <1>3
  <2>2. Take(room[i], left[i-1]) = room[i]
    BY <1>1, <1>4, <2>1 DEF Take
  <2> QED BY <1>1, <2>2
<1>5. ASSUME NEW i \in Numbers, NEW j \in Numbers, i < j, takes[j] > 0
      PROVE  takes[i] = room[i]
  <2>1. left[j-1] \in Nat /\ takes[j] <= left[j-1]
    <3>1. left[j-1] \in Nat /\ room[j] \in Int /\ left[j] \in Nat
      BY <1>1, <1>3
    <3> QED BY <1>1, <3>1
  <2>2. i \in 0..N /\ j - 1 \in 0..N /\ i <= j - 1
    BY <1>3, <1>5
  <2>3. left[j-1] <= left[i] /\ left[i] \in Nat
    BY <1>1, <1>2, <2>2
  <2>4. left[i] > 0
    BY <1>1, <1>5, <2>1, <2>3
  <2> QED BY <1>4, <2>4
<1>6. ASSUME left[N] > 0 PROVE takes = room
  <2>1. \A i \in Numbers : left[i] > 0
    BY <1>1, <1>2, <1>3, <1>6
  <2> QED BY <1>1, <1>4, <2>1
<1> QED BY <1>5, <1>6 DEF takes, left

\* All that fits is used, and the rest is left.
LEMMA TakesTotal ==
  ASSUME NEW room \in [Numbers -> Nat], NEW money \in Nat
  PROVE  /\ Total(Takes(room, money)) = Least(money, Total(room))
         /\ Left(room, money)[N] = money - Least(money, Total(room))
<1> DEFINE takes == Takes(room, money)
           rest == Left(room, money)[N]
<1>1. takes \in [Numbers -> Nat] /\ \A i \in Numbers : takes[i] <= room[i]
  <2>1. takes \in [Numbers -> Nat] /\ \A i \in Numbers : takes[i] <= Positive(room[i])
    BY TakesBounds
  <2>2. \A i \in Numbers : Positive(room[i]) = room[i]
    BY DEF Positive
  <2> QED BY <2>1, <2>2
<1>2. Total(takes) + rest = money
  BY TakesAccount
<1>3. rest \in Nat
  <2>1. Left(room, money) \in [0..N -> Nat]
    BY LeftRecursion
  <2> QED BY <2>1, NAssumption
<1>4. rest > 0 => takes = room
  BY TakesInOrder
<1> HIDE DEF takes, rest
<1>5. Total(takes) <= Total(room) /\ Total(takes) \in Nat /\ Total(room) \in Nat
  BY <1>1, TotalMonotone, TotalType
<1> QED BY <1>2, <1>3, <1>4, <1>5 DEF Least, takes, rest

\* There is one way only to use so much money slot after slot.
LEMMA OneWaterfall ==
  ASSUME NEW room, NEW f \in [Numbers -> Nat], NEW g \in [Numbers -> Nat],
         \A i \in Numbers : room[i] \in Nat /\ f[i] <= room[i] /\ g[i] <= room[i],
         \A i, j \in Numbers : i < j /\ f[j] > 0 => f[i] = room[i],
         \A i, j \in Numbers : i < j /\ g[j] > 0 => g[i] = room[i],
         Total(f) = Total(g)
  PROVE  f = g
<1>1. CASE \A i \in Numbers : f[i] <= g[i]
  BY <1>1, TotalMonotone
<1>2. CASE \E i \in Numbers : f[i] > g[i]
  <2>1. PICK i \in Numbers : f[i] > g[i]
    BY <1>2
  <2>2. ASSUME NEW j \in Numbers PROVE g[j] <= f[j]
    <3>1. i \in Int /\ j \in Int /\ \A k \in {i, j} : f[k] \in Nat /\ g[k] \in Nat
      BY NAssumption DEF Numbers
    <3>2. CASE i < j
      BY <2>1, <3>1, <3>2
    <3>3. CASE j < i
      BY <2>1, <3>1, <3>3
    <3>4. CASE i = j
      BY <2>1, <3>1, <3>4
    <3> QED BY <3>1, <3>2, <3>3, <3>4
  <2> QED BY <2>2, TotalMonotone
<1> QED BY <1>1, <1>2

-----------------------------------------------------------------------------
\* The values of a loop: what step makes of each value is the next one.
IsLoop(f, S, first, step, n) ==
  /\ f \in [0..n -> S] /\ f[0] = first
  /\ \A i \in 1..n : f[i] = step[<<i, f[i-1]>>]

LEMMA RecursionExists ==
  ASSUME NEW S, NEW first \in S, NEW n \in Nat, NEW step \in [(1..n) \X S -> S]
  PROVE  \E f : IsLoop(f, S, first, step, n)
<1> USE DEF IsLoop
<1> DEFINE Trace(k, f) == IsLoop(f, S, first, step, k)
           Steps == {k \in Nat : k <= n => \E f : Trace(k, f)}
<1>1. 0 \in Steps
  <2>1. Trace(0, [i \in 0..0 |-> first])
    OBVIOUS
  <2> QED BY <2>1
<1>2. ASSUME NEW k \in Nat, k \in Steps PROVE k + 1 \in Steps
  <2>1. SUFFICES ASSUME k + 1 <= n PROVE \E f : Trace(k + 1, f)
    <3>1. k + 1 \in Nat
      OBVIOUS
    <3> QED BY <3>1
  <2>2. PICK f : Trace(k, f)
    <3>1. k <= n
      BY <2>1
    <3> HIDE DEF Trace
    <3> QED BY <1>2, <3>1
  <2> DEFINE g == [i \in 0..(k+1) |-> IF i <= k THEN f[i] ELSE step[<<k + 1, f[k]>>]]
  <2>3. step[<<k + 1, f[k]>>] \in S
    BY <2>1, <2>2
  <2>4. g \in [0..(k+1) -> S] /\ g[0] = first
    BY <2>2, <2>3
  <2>5. ASSUME NEW i \in 1..(k+1) PROVE g[i] = step[<<i, g[i-1]>>]
    <3>1. CASE i <= k
      BY <3>1, <2>2
    <3>2. CASE i = k + 1
      <4>1. g[k + 1] = step[<<k + 1, f[k]>>] /\ g[k] = f[k]
        OBVIOUS
      <4>2. i - 1 = k
        BY <3>2
      <4> HIDE DEF g
      <4> QED BY <3>2, <4>1, <4>2
    <3> QED BY <3>1, <3>2, <2>5
  <2>6. Trace(k + 1, g)
    BY <2>4, <2>5
  <2> HIDE DEF Trace, g
  <2> QED BY <2>6
<1>3. Nat \subseteq Steps
  <2> HIDE DEF Steps
  <2> QED BY <1>1, <1>2, SetInduction
<1>4. \E f : Trace(n, f)
  <2>1. n \in Steps /\ n <= n
    <3> HIDE DEF Steps
    <3> QED BY <1>3
  <2> HIDE DEF Trace
  <2> QED BY <2>1
<1> QED BY <1>4

\* A multiple of every term sums to that multiple of the sum.
LEMMA SumTimes ==
  ASSUME NEW c \in Int, NEW S, IsFiniteSet(S), NEW f, NEW g,
         \A x \in S : f[x] \in Int /\ g[x] = c * f[x]
  PROVE  SumFunctionOnSet(g, S) = c * SumFunctionOnSet(f, S)
<1> DEFINE F(s) == SumFunctionOnSet(f, s)
           G(s) == SumFunctionOnSet(g, s)
           Sizes == {n \in Nat : \A s \in SUBSET S : Cardinality(s) = n => G(s) = c * F(s)}
<1>1. ASSUME NEW s \in SUBSET S
      PROVE  /\ F(s) \in Int
             /\ \A x \in s : /\ F(s) = f[x] + F(s \ {x})
                             /\ G(s) = g[x] + G(s \ {x})
  <2>1. IsFiniteSet(s)
    BY SubsetSizes
  <2>2. \A x \in s : f[x] \in Int /\ g[x] \in Int
    OBVIOUS
  <2> QED BY <2>1, <2>2, SumInt, SumRemove
<1> HIDE DEF F, G
<1>2. 0 \in Sizes
  <2>1. F({}) = 0 /\ G({}) = 0 /\ c * 0 = 0
    BY SumEmpty DEF F, G
  <2>2. ASSUME NEW s \in SUBSET S, Cardinality(s) = 0 PROVE G(s) = c * F(s)
    <3>1. s = {}
      BY <2>2, SubsetSizes
    <3>2. G(s) = 0 /\ F(s) = 0
      BY <2>1, <3>1
    <3> QED BY <2>1, <3>2
  <2> QED BY <2>2
<1>3. ASSUME NEW n \in Nat, n \in Sizes PROVE n + 1 \in Sizes
  <2>1. ASSUME NEW s \in SUBSET S, Cardinality(s) = n + 1 PROVE G(s) = c * F(s)
    <3>1. PICK x \in s : TRUE
      BY <2>1, FS_EmptySet
    <3>2. s \ {x} \in SUBSET S /\ Cardinality(s \ {x}) = n
      BY <2>1, SmallerSubset
    <3>3. G(s \ {x}) = c * F(s \ {x})
      BY <1>3, <3>2
    <3>4. /\ F(s) = f[x] + F(s \ {x}) /\ G(s) = c * f[x] + G(s \ {x})
          /\ f[x] \in Int /\ F(s \ {x}) \in Int
      BY <1>1, <3>2
    <3>5. \A a, b \in Int : c * (a + b) = c * a + c * b
      OBVIOUS
    <3> QED BY <3>3, <3>4, <3>5
  <2>2. n + 1 \in Nat
    OBVIOUS
  <2> QED BY <2>1, <2>2
<1>4. Nat \subseteq Sizes
  <2> HIDE DEF Sizes
  <2> QED BY <1>2, <1>3, SetInduction
<1>5. G(S) = c * F(S)
  BY <1>4, SubsetSizes
<1> QED BY <1>5 DEF F, G

\* Equal terms sum to a product.
LEMMA SumConstant ==
  ASSUME NEW c \in Int, NEW S, IsFiniteSet(S), NEW f, \A x \in S : f[x] = c
  PROVE  SumFunctionOnSet(f, S) = c * Cardinality(S)
<1> DEFINE F(s) == SumFunctionOnSet(f, s)
           Sizes == {n \in Nat : \A s \in SUBSET S : Cardinality(s) = n => F(s) = c * n}
<1>1. ASSUME NEW s \in SUBSET S, NEW x \in s PROVE F(s) = f[x] + F(s \ {x})
  <2>1. IsFiniteSet(s)
    BY SubsetSizes
  <2> QED BY <2>1, SumRemove
<1> HIDE DEF F
<1>2. 0 \in Sizes
  <2>1. F({}) = 0 /\ c * 0 = 0
    BY SumEmpty DEF F
  <2>2. \A s \in SUBSET S : Cardinality(s) = 0 => F(s) = c * 0
    BY <2>1, SubsetSizes
  <2> QED BY <2>2
<1>3. ASSUME NEW n \in Nat, n \in Sizes PROVE n + 1 \in Sizes
  <2>1. ASSUME NEW s \in SUBSET S, Cardinality(s) = n + 1 PROVE F(s) = c * (n + 1)
    <3>1. PICK x \in s : TRUE
      BY <2>1, FS_EmptySet
    <3>2. s \ {x} \in SUBSET S /\ Cardinality(s \ {x}) = n
      BY <2>1, SmallerSubset
    <3>3. F(s) = c + F(s \ {x}) /\ F(s \ {x}) = c * n
      BY <1>1, <1>3, <3>2
    <3> QED BY <3>3
  <2>2. n + 1 \in Nat
    OBVIOUS
  <2> QED BY <2>1, <2>2
<1>4. Nat \subseteq Sizes
  <2> HIDE DEF Sizes
  <2> QED BY <1>2, <1>3, SetInduction
<1>5. F(S) = c * Cardinality(S)
  BY <1>4, SubsetSizes
<1> QED BY <1>5 DEF F

\* A rounded share is a part of the whole, and parts of the share are no more.
LEMMA Quotient ==
  ASSUME NEW a \in Nat, NEW b \in Nat \ {0}
  PROVE  a \div b \in Nat /\ b * (a \div b) <= a
OBVIOUS

-----------------------------------------------------------------------------
\* equalSplit loses nothing, and nobody owes less than nothing.
LEMMA EqualSplitExact ==
  ASSUME NEW total \in Nat, NEW first \in Numbers
  PROVE  /\ equalSplit(total, first) \in [first..N -> Nat]
         /\ SumFunctionOnSet(equalSplit(total, first), first..N) = total
<1> DEFINE slots == N - first + 1
           base == total \div slots
           split == equalSplit(total, first)
           others == first..(N - 1)
<1>1. /\ first \in Nat /\ first >= 1 /\ first <= N /\ N \in Nat /\ slots \in Nat \ {0}
      /\ N \in first..N /\ others = (first..N) \ {N} /\ slots - 1 \in Nat
  BY NAssumption DEF Numbers
<1>2. split = [i \in first..N |-> IF i = N THEN total - base * (slots - 1) ELSE base]
  BY DEF equalSplit
<1>3. base \in Nat /\ slots * base <= total
  BY <1>1, Quotient
<1> HIDE DEF split, base
<1>4. base * (slots - 1) = slots * base - base /\ base * (slots - 1) \in Nat
  <2> HIDE DEF slots
  <2> QED BY <1>1, <1>3
<1>5. total - base * (slots - 1) \in Nat
  BY <1>3, <1>4, <1>1
<1>6. split \in [first..N -> Nat]
  BY <1>2, <1>3, <1>5
<1>7. IsFiniteSet(others) /\ Cardinality(others) = slots - 1 /\ IsFiniteSet(first..N)
  <2>1. first \in Int /\ N - 1 \in Int /\ N \in Int
    BY <1>1
  <2> QED BY <1>1, <2>1, FS_Interval
<1>8. SumFunctionOnSet(split, others) = base * (slots - 1)
  <2>1. \A i \in others : split[i] = base
    BY <1>1, <1>2
  <2>2. SumFunctionOnSet(split, others) = base * Cardinality(others)
    <3> HIDE DEF others
    <3> QED BY <1>3, <1>7, <2>1, SumConstant
  <2> QED BY <1>7, <2>2
<1>9. SumFunctionOnSet(split, first..N) = split[N] + SumFunctionOnSet(split, others)
  <2>1. \A i \in first..N : split[i] \in Int
    BY <1>6
  <2> HIDE DEF others
  <2> QED BY <1>1, <1>7, <2>1, SumWithout
<1>10. split[N] = total - base * (slots - 1)
  BY <1>1, <1>2
<1> HIDE DEF slots, others
<1> QED BY <1>4, <1>6, <1>8, <1>9, <1>10 DEF split

-----------------------------------------------------------------------------
(***************************************************************************)
(* Sums in parts, and sums of sums.                                        *)
(***************************************************************************)

\* A sum is what it is over a part of the set and over the rest.
LEMMA SumParts ==
  ASSUME NEW f, NEW S, IsFiniteSet(S), \A x \in S : f[x] \in Int,
         NEW T \in SUBSET S, NEW R, R = S \ T
  PROVE  SumFunctionOnSet(f, S) = SumFunctionOnSet(f, T) + SumFunctionOnSet(f, R)
<1> DEFINE Sum(s) == SumFunctionOnSet(f, s)
           Sizes == {n \in Nat : \A s \in SUBSET S :
                       Cardinality(s) = n => Sum(s) = Sum(s \cap T) + Sum(s \ T)}
<1>1. ASSUME NEW s \in SUBSET S
      PROVE  Sum(s) \in Int /\ \A x \in s : Sum(s) = f[x] + Sum(s \ {x})
  <2>1. IsFiniteSet(s) /\ (\A x \in s : f[x] \in Int)
    BY SubsetSizes
  <2> QED BY <2>1, SumInt, SumRemove
<1>2. Sum({}) = 0
  BY SumEmpty
<1> HIDE DEF Sum
<1>3. 0 \in Sizes
  <2>1. ASSUME NEW s \in SUBSET S, Cardinality(s) = 0
        PROVE  Sum(s) = Sum(s \cap T) + Sum(s \ T)
    <3>1. s = {} /\ s \cap T = {} /\ s \ T = {}
      BY <2>1, SubsetSizes
    <3> QED BY <1>2, <3>1
  <2> QED BY <2>1
<1>4. ASSUME NEW n \in Nat, n \in Sizes PROVE n + 1 \in Sizes
  <2>1. ASSUME NEW s \in SUBSET S, Cardinality(s) = n + 1
        PROVE  Sum(s) = Sum(s \cap T) + Sum(s \ T)
    <3>1. s # {}
      BY <2>1, FS_EmptySet
    <3>2. PICK x \in s : TRUE
      BY <3>1
    <3> DEFINE rest == s \ {x}
    <3>3. rest \in SUBSET S /\ Cardinality(rest) = n
      BY <2>1, SmallerSubset
    <3>4. Sum(rest) = Sum(rest \cap T) + Sum(rest \ T)
      BY <1>4, <3>3
    <3>5. /\ Sum(rest \cap T) \in Int /\ Sum(rest \ T) \in Int
          /\ Sum(s) = f[x] + Sum(rest) /\ f[x] \in Int
      BY <1>1, <3>3
    <3>6. CASE x \in T
      <4>1. s \cap T \in SUBSET S /\ x \in s \cap T /\ (s \cap T) \ {x} = rest \cap T
            /\ s \ T = rest \ T
        BY <3>6
      <4>2. Sum(s \cap T) = f[x] + Sum(rest \cap T)
        BY <1>1, <4>1
      <4>3. Sum(s \ T) = Sum(rest \ T)
        BY <4>1
      <4> QED BY <3>4, <3>5, <4>2, <4>3
    <3>7. CASE x \notin T
      <4>1. s \ T \in SUBSET S /\ x \in s \ T /\ (s \ T) \ {x} = rest \ T
            /\ s \cap T = rest \cap T
        BY <3>7
      <4>2. Sum(s \ T) = f[x] + Sum(rest \ T)
        BY <1>1, <4>1
      <4>3. Sum(s \cap T) = Sum(rest \cap T)
        BY <4>1
      <4> QED BY <3>4, <3>5, <4>2, <4>3
    <3> QED BY <3>6, <3>7
  <2>2. n + 1 \in Nat
    OBVIOUS
  <2> QED BY <2>1, <2>2
<1>5. Nat \subseteq Sizes
  <2> HIDE DEF Sizes
  <2> QED BY <1>3, <1>4, SetInduction
<1>6. Sum(S) = Sum(S \cap T) + Sum(S \ T) /\ S \cap T = T
  BY <1>5, SubsetSizes
<1> QED BY <1>6 DEF Sum

\* Terms that are zero may be left out.
LEMMA SumRestrict ==
  ASSUME NEW f, NEW S, IsFiniteSet(S), \A x \in S : f[x] \in Int, NEW T \in SUBSET S,
         \A x \in S \ T : f[x] = 0
  PROVE  SumFunctionOnSet(f, S) = SumFunctionOnSet(f, T)
<1>1. PICK R : R = S \ T
  OBVIOUS
<1>2. IsFiniteSet(R) /\ \A x \in R : f[x] = 0 /\ f[x] \in Int
  BY <1>1, FS_Subset
<1>3. SumFunctionOnSet(f, R) = 0
  BY <1>2, SumZero
<1>4. SumFunctionOnSet(f, S) = SumFunctionOnSet(f, T) + SumFunctionOnSet(f, R)
  BY <1>1, SumParts
<1>5. SumFunctionOnSet(f, T) \in Int
  <2>1. IsFiniteSet(T) /\ \A x \in T : f[x] \in Int
    BY FS_Subset
  <2> QED BY <2>1, SumInt
<1> QED BY <1>3, <1>4, <1>5

\* Tables are added up by rows or by columns.
LEMMA SumExchange ==
  ASSUME NEW S, IsFiniteSet(S), NEW a \in [S -> [Numbers -> Int]]
  PROVE  Total([i \in Numbers |-> SumFunctionOnSet([t \in S |-> a[t][i]], S)])
           = SumFunctionOnSet([t \in S |-> Total(a[t])], S)
<1> DEFINE column(i) == [t \in S |-> a[t][i]]
           totals == [t \in S |-> Total(a[t])]
           Row(s) == [i \in Numbers |-> SumFunctionOnSet(column(i), s)]
           Down(s) == Total(Row(s))
           Across(s) == SumFunctionOnSet(totals, s)
           Sizes == {n \in Nat : \A s \in SUBSET S : Cardinality(s) = n => Down(s) = Across(s)}
<1>1. \A t \in S : a[t] \in [Numbers -> Int] /\ totals[t] = Total(a[t]) /\ totals[t] \in Int
  BY TotalType
<1>2. \A i \in Numbers, t \in S : column(i)[t] = a[t][i] /\ column(i)[t] \in Int
  OBVIOUS
<1> HIDE DEF column, totals
<1>3. ASSUME NEW s \in SUBSET S, NEW x \in s
      PROVE  Down(s) = totals[x] + Down(s \ {x}) /\ Across(s) = totals[x] + Across(s \ {x})
  <2>1. IsFiniteSet(s) /\ IsFiniteSet(s \ {x})
    BY SubsetSizes, FS_Subset
  <2>2. ASSUME NEW i \in Numbers
        PROVE  /\ SumFunctionOnSet(column(i), s)
                    = column(i)[x] + SumFunctionOnSet(column(i), s \ {x})
               /\ SumFunctionOnSet(column(i), s) \in Int
               /\ SumFunctionOnSet(column(i), s \ {x}) \in Int
    <3>1. \A t \in s : column(i)[t] \in Int
      BY <1>2
    <3>2. \A t \in s \ {x} : column(i)[t] \in Int
      BY <1>2
    <3>3. /\ SumFunctionOnSet(column(i), s) \in Int
          /\ SumFunctionOnSet(column(i), s \ {x}) \in Int
      BY <2>1, <3>1, <3>2, SumInt
    <3>4. SumFunctionOnSet(column(i), s)
            = column(i)[x] + SumFunctionOnSet(column(i), s \ {x})
      BY <2>1, <3>1, SumRemove
    <3> QED BY <3>3, <3>4
  <2>3. /\ Row(s) \in [Numbers -> Int] /\ Row(s \ {x}) \in [Numbers -> Int]
        /\ \A i \in Numbers : Row(s)[i] = a[x][i] + Row(s \ {x})[i]
    BY <1>2, <2>2
  <2>4. Down(s) = totals[x] + Down(s \ {x})
    <3>1. a[x] \in [Numbers -> Int] /\ totals[x] = Total(a[x])
      BY <1>1
    <3> DEFINE all  == Row(s)
               rest == Row(s \ {x})
               own  == a[x]
    <3>2. /\ all \in [Numbers -> Int] /\ rest \in [Numbers -> Int] /\ own \in [Numbers -> Int]
          /\ \A i \in Numbers : all[i] = own[i] + rest[i]
      BY <2>3, <3>1
    <3> HIDE DEF all, rest, own, Row
    <3>3. Total(all) = Total(own) + Total(rest)
      BY <3>2, TotalPlus
    <3> QED BY <3>1, <3>3 DEF all, rest, own
  <2>5. Across(s) = totals[x] + Across(s \ {x})
    BY <1>1, <2>1, SumRemove
  <2> QED BY <2>4, <2>5
<1>4. Down({}) = 0 /\ Across({}) = 0
  <2>1. \A i \in Numbers : Row({})[i] = 0 /\ Row({})[i] \in Int
    BY SumEmpty
  <2> HIDE DEF Row
  <2>2. Down({}) = 0
    BY <2>1, NumbersFinite, SumZero DEF Total
  <2>3. Across({}) = 0
    BY SumEmpty
  <2> QED BY <2>2, <2>3
<1> HIDE DEF Down, Across
<1>5. 0 \in Sizes
  BY <1>4, SubsetSizes
<1>6. ASSUME NEW n \in Nat, n \in Sizes PROVE n + 1 \in Sizes
  <2>1. ASSUME NEW s \in SUBSET S, Cardinality(s) = n + 1 PROVE Down(s) = Across(s)
    <3>1. s # {}
      BY <2>1, FS_EmptySet
    <3>2. PICK x \in s : TRUE
      BY <3>1
    <3>3. s \ {x} \in SUBSET S /\ Cardinality(s \ {x}) = n
      BY <2>1, SmallerSubset
    <3>4. Down(s \ {x}) = Across(s \ {x})
      BY <1>6, <3>3
    <3> QED BY <1>3, <3>4
  <2>2. n + 1 \in Nat
    OBVIOUS
  <2> QED BY <2>1, <2>2
<1>7. Nat \subseteq Sizes
  <2> HIDE DEF Sizes
  <2> QED BY <1>5, <1>6, SetInduction
<1>8. Down(S) = Across(S)
  BY <1>7, SubsetSizes
<1> QED BY <1>8 DEF Down, Across, Row, column, totals
==============================================================================
