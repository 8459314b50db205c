-------------------------------- MODULE Sums --------------------------------
(***************************************************************************)
(* What SumFunctionOnSet computes: the sum of a function over a finite set *)
(* does not depend on the order in which the fold takes the elements.      *)
(*                                                                         *)
(* Induction is stated with a set of the numbers, or of the sets, for      *)
(* which a claim holds in the place of a predicate.                        *)
(***************************************************************************)
EXTENDS Integers, FiniteSets, Functions, FiniteSetTheorems, WellFoundedInduction, TLAPS

-----------------------------------------------------------------------------
(* Induction *)

\* A set of numbers that holds one holds a least one.
LEMMA NatLeast ==
  ASSUME NEW T, T \subseteq Nat, T # {}
  PROVE  \E x \in T : \A y \in T : x <= y
<1> DEFINE R == {ss \in Nat \X Nat : ss[1] < ss[2]}
<1>1. IsWellFoundedOn(R, Nat)
  BY NatLessThanWellFounded DEF OpToRel
<1>2. PICK x \in T : \A y \in T : ~(<<y, x>> \in R)
  <2> HIDE DEF R
  <2> QED
    BY <1>1, WFMin
<1>3. ASSUME NEW y \in T PROVE x <= y
  <2>1. x \in Nat /\ y \in Nat /\ ~(<<y, x>> \in R)
    BY <1>2
  <2> QED
    BY <2>1
<1> QED
  BY <1>3

\* A set of numbers that holds 0 and is closed under successor holds them all.
LEMMA NatSteps ==
  ASSUME NEW P, 0 \in P, \A n \in Nat : n \in P => n + 1 \in P
  PROVE  \A n \in Nat : n \in P
<1> SUFFICES ASSUME Nat \ P # {} PROVE FALSE
  OBVIOUS
<1>1. PICK n \in Nat \ P : \A m \in Nat \ P : n <= m
  BY NatLeast, Nat \ P \subseteq Nat
<1>2. n # 0
  BY <1>1
<1>3. n - 1 \in Nat /\ n = (n - 1) + 1 /\ ~(n <= n - 1)
  BY <1>1, <1>2
<1>4. n - 1 \in P
  BY <1>1, <1>3
<1> QED
  BY <1>1, <1>3, <1>4

\* A set of sets that holds the empty one, and with a set every set of one element
\* more, holds every finite set.
LEMMA SetSteps ==
  ASSUME NEW S, IsFiniteSet(S), NEW P, {} \in P,
         \A T \in SUBSET S, x \in S : T \in P => T \cup {x} \in P
  PROVE  S \in P
<1> DEFINE Sized == {n \in Nat : \A T \in SUBSET S : Cardinality(T) = n => T \in P}
<1>1. ASSUME NEW T \in SUBSET S
      PROVE  IsFiniteSet(T) /\ Cardinality(T) \in Nat
  BY FS_Subset, FS_CardinalityType
<1>2. 0 \in Sized
  BY <1>1, FS_EmptySet
<1>3. ASSUME NEW n \in Nat, n \in Sized PROVE n + 1 \in Sized
  <2> SUFFICES ASSUME NEW T \in SUBSET S, Cardinality(T) = n + 1 PROVE T \in P
    OBVIOUS
  <2>0. n + 1 # 0
    OBVIOUS
  <2>1. T # {}
    BY <2>0, FS_EmptySet
  <2>2. PICK x \in T : TRUE
    BY <2>1
  <2>3. Cardinality(T \ {x}) = Cardinality(T) - 1
    BY <1>1, FS_RemoveElement
  <2>4. T \ {x} \in P
    BY <1>3, <2>3
  <2>5. T = (T \ {x}) \cup {x}
    BY <2>2
  <2> QED
    BY <2>2, <2>4, <2>5
<1>4. \A n \in Nat : n \in Sized
  <2> HIDE DEF Sized
  <2> QED
    BY <1>2, <1>3, NatSteps
<1>5. Cardinality(S) \in Sized
  BY <1>1, <1>4
<1> QED
  BY <1>5

-----------------------------------------------------------------------------
(* The recursion behind the sum has a solution, and one only *)

Chosen(T) == CHOOSE x \in T : TRUE
Sum1(f, g, T) == IF T = {} THEN 0 ELSE f[Chosen(T)] + g[T \ {Chosen(T)}]
\* g sums f over each set of sets
Sums(f, g, sets) == g = [T \in sets |-> Sum1(f, g, T)]

LEMMA SumIsChosen ==
  ASSUME NEW f, NEW S
  PROVE  SumFunctionOnSet(f, S) = (CHOOSE g : Sums(f, g, SUBSET S))[S]
BY DEF SumFunctionOnSet, FoldFunctionOnSet, MapThenFoldSet, Sums, Sum1, Chosen

\* A set with its chosen element taken away is one smaller.
LEMMA OneLess ==
  ASSUME NEW T, IsFiniteSet(T), T # {}
  PROVE  /\ Chosen(T) \in T /\ IsFiniteSet(T \ {Chosen(T)})
         /\ Cardinality(T) \in Nat /\ Cardinality(T \ {Chosen(T)}) \in Nat
         /\ Cardinality(T) = Cardinality(T \ {Chosen(T)}) + 1
<1>1. Chosen(T) \in T
  BY DEF Chosen
<1>2. /\ IsFiniteSet(T \ {Chosen(T)})
      /\ Cardinality(T \ {Chosen(T)}) = Cardinality(T) - 1
  BY <1>1, FS_RemoveElement
<1>3. Cardinality(T) \in Nat /\ Cardinality(T \ {Chosen(T)}) \in Nat
  BY <1>2, FS_CardinalityType
<1> QED
  BY <1>1, <1>2, <1>3

LEMMA SumsExist ==
  ASSUME NEW f, NEW S, IsFiniteSet(S)
  PROVE  \E g : Sums(f, g, SUBSET S)
<1> DEFINE Upto(n) == {T \in SUBSET S : Cardinality(T) <= n}
           Good == {n \in Nat : \E g : Sums(f, g, Upto(n))}
<1>0. ASSUME NEW T \in SUBSET S
      PROVE  IsFiniteSet(T) /\ Cardinality(T) \in Nat /\ Cardinality(T) <= Cardinality(S)
  BY FS_Subset, FS_CardinalityType
<1>1. 0 \in Good
  <2>1. Sums(f, [T \in Upto(0) |-> 0], Upto(0))
    <3>1. \A T \in Upto(0) : T = {}
      BY <1>0, FS_EmptySet
    <3> QED
      BY <3>1 DEF Sums, Sum1
  <2> QED
    BY <2>1
<1>2. ASSUME NEW n \in Nat, n \in Good PROVE n + 1 \in Good
  <2>1. PICK g : Sums(f, g, Upto(n))
    BY <1>2
  <2> DEFINE h == [T \in Upto(n + 1) |-> Sum1(f, g, T)]
  <2>2. ASSUME NEW T \in Upto(n + 1), T # {}
        PROVE  T \ {Chosen(T)} \in Upto(n)
    BY <1>0, <2>2, OneLess
  <2>3. ASSUME NEW T \in Upto(n) PROVE T \in Upto(n + 1) /\ h[T] = g[T]
    <3>1. T \in Upto(n + 1)
      BY <1>0
    <3> QED
      BY <3>1, <2>1 DEF Sums
  <2>4. ASSUME NEW T \in Upto(n + 1) PROVE h[T] = Sum1(f, h, T)
    <3> HIDE DEF Upto
    <3> QED
      BY <2>2, <2>3 DEF Sum1
  <2>5. Sums(f, h, Upto(n + 1))
    <3> HIDE DEF Upto
    <3> QED
      BY <2>4 DEF Sums
  <2>6. \E h1 : Sums(f, h1, Upto(n + 1))
    <3> HIDE DEF h, Upto
    <3> QED
      BY <2>5
  <2> QED
    BY <2>6
<1>3. \A n \in Nat : n \in Good
  <2> HIDE DEF Good
  <2> QED
    BY <1>1, <1>2, NatSteps
<1>4. Upto(Cardinality(S)) = SUBSET S
  BY <1>0
<1>5. Cardinality(S) \in Good
  BY <1>0, <1>3
<1> QED
  BY <1>4, <1>5

LEMMA SumsAgree ==
  ASSUME NEW f, NEW S, IsFiniteSet(S), NEW T \in SUBSET S, NEW g, NEW h,
         Sums(f, g, SUBSET S), Sums(f, h, SUBSET T)
  PROVE  g[T] = h[T]
<1> DEFINE Same == {n \in Nat : \A U \in SUBSET T : Cardinality(U) = n => g[U] = h[U]}
<1>0. ASSUME NEW U \in SUBSET T
      PROVE  IsFiniteSet(U) /\ Cardinality(U) \in Nat
  BY FS_Subset, FS_CardinalityType
<1>1. ASSUME NEW U \in SUBSET T PROVE g[U] = Sum1(f, g, U) /\ h[U] = Sum1(f, h, U)
  BY DEF Sums
<1>2. 0 \in Same
  <2>1. \A U \in SUBSET T : Cardinality(U) = 0 => U = {}
    BY <1>0, FS_EmptySet
  <2> QED
    BY <1>1, <2>1 DEF Sum1
<1>3. ASSUME NEW n \in Nat, n \in Same PROVE n + 1 \in Same
  <2> SUFFICES ASSUME NEW U \in SUBSET T, Cardinality(U) = n + 1 PROVE g[U] = h[U]
    OBVIOUS
  <2>0. n + 1 # 0
    OBVIOUS
  <2>1. U # {}
    BY <2>0, FS_EmptySet
  <2>2. U \ {Chosen(U)} \in SUBSET T /\ Cardinality(U \ {Chosen(U)}) = n
    BY <1>0, <2>1, OneLess
  <2>3. g[U \ {Chosen(U)}] = h[U \ {Chosen(U)}]
    BY <1>3, <2>2
  <2> QED
    BY <1>1, <2>1, <2>3 DEF Sum1
<1>4. \A n \in Nat : n \in Same
  <2> HIDE DEF Same
  <2> QED
    BY <1>2, <1>3, NatSteps
<1> QED
  BY <1>0, <1>4

-----------------------------------------------------------------------------
(* Sums *)

\* The sum over no element is 0.
LEMMA SumEmpty == ASSUME NEW f PROVE SumFunctionOnSet(f, {}) = 0
<1>1. PICK g : Sums(f, g, SUBSET {})
  BY SumsExist, FS_EmptySet
<1>2. Sums(f, CHOOSE g1 : Sums(f, g1, SUBSET {}), SUBSET {})
  BY <1>1
<1> QED
  BY <1>2, SumIsChosen DEF Sums, Sum1

\* The sum over other sets, as the fold computes it.
LEMMA SumChosen ==
  ASSUME NEW f, NEW S, IsFiniteSet(S), S # {}
  PROVE  SumFunctionOnSet(f, S) = f[Chosen(S)] + SumFunctionOnSet(f, S \ {Chosen(S)})
<1> DEFINE T == S \ {Chosen(S)}
           g == CHOOSE g1 : Sums(f, g1, SUBSET S)
           h == CHOOSE h1 : Sums(f, h1, SUBSET T)
<1>1. Sums(f, g, SUBSET S)
  BY SumsExist
<1>2. IsFiniteSet(T) /\ T \in SUBSET S
  BY OneLess
<1>3. Sums(f, h, SUBSET T)
  BY <1>2, SumsExist
<1>4. SumFunctionOnSet(f, S) = g[S] /\ SumFunctionOnSet(f, T) = h[T]
  BY SumIsChosen
<1>5. g[S] = f[Chosen(S)] + g[T]
  BY <1>1 DEF Sums, Sum1
<1>6. g[T] = h[T]
  <2> HIDE DEF g, h, T
  <2> QED
    BY <1>1, <1>2, <1>3, SumsAgree
<1> QED
  BY <1>4, <1>5, <1>6

\* Numbers add up to a number.
LEMMA SumNat ==
  ASSUME NEW f, NEW S, IsFiniteSet(S), \A x \in S : f[x] \in Nat
  PROVE  SumFunctionOnSet(f, S) \in Nat
<1> DEFINE Good == {n \in Nat : \A T \in SUBSET S :
                     Cardinality(T) = n => SumFunctionOnSet(f, T) \in Nat}
<1>0. ASSUME NEW T \in SUBSET S
      PROVE  IsFiniteSet(T) /\ Cardinality(T) \in Nat
  BY FS_Subset, FS_CardinalityType
<1>1. 0 \in Good
  BY <1>0, FS_EmptySet, SumEmpty
<1>2. ASSUME NEW n \in Nat, n \in Good PROVE n + 1 \in Good
  <2> SUFFICES ASSUME NEW T \in SUBSET S, Cardinality(T) = n + 1
               PROVE  SumFunctionOnSet(f, T) \in Nat
    OBVIOUS
  <2>0. n + 1 # 0
    OBVIOUS
  <2>1. T # {}
    BY <2>0, FS_EmptySet
  <2>2. Chosen(T) \in T /\ Cardinality(T \ {Chosen(T)}) = n
    BY <1>0, <2>1, OneLess
  <2>3. f[Chosen(T)] \in Nat /\ SumFunctionOnSet(f, T \ {Chosen(T)}) \in Nat
    BY <1>2, <2>2
  <2>4. SumFunctionOnSet(f, T) = f[Chosen(T)] + SumFunctionOnSet(f, T \ {Chosen(T)})
    BY <1>0, <2>1, SumChosen
  <2> QED
    BY <2>3, <2>4
<1>3. \A n \in Nat : n \in Good
  <2> HIDE DEF Good
  <2> QED
    BY <1>1, <1>2, NatSteps
<1> QED
  BY <1>0, <1>3

\* Any element may be taken first.
LEMMA SumTake ==
  ASSUME NEW f, NEW S, IsFiniteSet(S), \A x \in S : f[x] \in Nat, NEW e \in S
  PROVE  SumFunctionOnSet(f, S) = f[e] + SumFunctionOnSet(f, S \ {e})
<1> DEFINE Good == {n \in Nat : \A T \in SUBSET S : Cardinality(T) = n =>
              \A x \in T : SumFunctionOnSet(f, T) = f[x] + SumFunctionOnSet(f, T \ {x})}
<1>0. ASSUME NEW T \in SUBSET S
      PROVE  IsFiniteSet(T) /\ Cardinality(T) \in Nat /\ SumFunctionOnSet(f, T) \in Nat
  <2>1. IsFiniteSet(T) /\ \A x \in T : f[x] \in Nat
    BY FS_Subset
  <2> QED
    BY <2>1, FS_CardinalityType, SumNat
<1>1. 0 \in Good
  BY <1>0, FS_EmptySet
<1>2. ASSUME NEW n \in Nat, n \in Good PROVE n + 1 \in Good
  <2> SUFFICES ASSUME NEW T \in SUBSET S, Cardinality(T) = n + 1, NEW x \in T
               PROVE  SumFunctionOnSet(f, T) = f[x] + SumFunctionOnSet(f, T \ {x})
    OBVIOUS
  <2> DEFINE c == Chosen(T)
  <2>1. c \in T /\ Cardinality(T \ {c}) = n
    BY <1>0, OneLess
  <2>2. SumFunctionOnSet(f, T) = f[c] + SumFunctionOnSet(f, T \ {c})
    BY <1>0, SumChosen
  <2>3. CASE x = c
    BY <2>2, <2>3
  <2>4. CASE x # c
    <3>1. x \in T \ {c} /\ T \ {c} \in SUBSET S
      BY <2>4
    <3>2. SumFunctionOnSet(f, T \ {c}) = f[x] + SumFunctionOnSet(f, (T \ {c}) \ {x})
      BY <1>2, <2>1, <3>1
    <3>3. Cardinality(T \ {x}) = n
      <4>1. Cardinality(T \ {x}) = Cardinality(T) - 1
        BY <1>0, FS_RemoveElement
      <4> QED
        BY <4>1
    <3>4. c \in T \ {x} /\ T \ {x} \in SUBSET S
      BY <2>1, <2>4
    <3>5. SumFunctionOnSet(f, T \ {x}) = f[c] + SumFunctionOnSet(f, (T \ {x}) \ {c})
      BY <1>2, <3>3, <3>4
    <3>6. (T \ {x}) \ {c} = (T \ {c}) \ {x} /\ (T \ {c}) \ {x} \in SUBSET S
      OBVIOUS
    <3>7. /\ f[x] \in Nat /\ f[c] \in Nat
          /\ SumFunctionOnSet(f, (T \ {c}) \ {x}) \in Nat
      BY <1>0, <2>1, <3>6
    <3> QED
      BY <2>2, <3>2, <3>5, <3>6, <3>7
  <2> QED
    BY <2>3, <2>4
<1>3. \A n \in Nat : n \in Good
  <2> HIDE DEF Good
  <2> QED
    BY <1>1, <1>2, NatSteps
<1> QED
  BY <1>0, <1>3

\* One element more adds its value.
LEMMA SumAdd ==
  ASSUME NEW f, NEW S, IsFiniteSet(S), NEW e, e \notin S,
         \A x \in S \cup {e} : f[x] \in Nat
  PROVE  SumFunctionOnSet(f, S \cup {e}) = SumFunctionOnSet(f, S) + f[e]
<1>1. IsFiniteSet(S \cup {e}) /\ (S \cup {e}) \ {e} = S
  BY FS_AddElement
<1>2. SumFunctionOnSet(f, S \cup {e}) = f[e] + SumFunctionOnSet(f, S)
  <2>1. e \in S \cup {e}
    OBVIOUS
  <2>2. SumFunctionOnSet(f, S \cup {e}) = f[e] + SumFunctionOnSet(f, (S \cup {e}) \ {e})
    BY <1>1, <2>1, SumTake
  <2> QED
    BY <1>1, <2>2
<1>3. SumFunctionOnSet(f, S) \in Nat /\ f[e] \in Nat
  BY SumNat
<1> QED
  BY <1>2, <1>3

\* Where one function is nowhere below another, neither is its sum.
LEMMA SumMonotone ==
  ASSUME NEW f, NEW g, NEW S, IsFiniteSet(S),
         \A x \in S : f[x] \in Nat /\ g[x] \in Nat /\ f[x] <= g[x]
  PROVE  SumFunctionOnSet(f, S) <= SumFunctionOnSet(g, S)
<1> DEFINE P == {T \in SUBSET S : SumFunctionOnSet(f, T) <= SumFunctionOnSet(g, T)}
<1>1. {} \in P
  BY SumEmpty
<1>2. ASSUME NEW T \in SUBSET S, NEW x \in S, T \in P PROVE T \cup {x} \in P
  <2>1. CASE x \in T
    <3>1. T \cup {x} = T
      BY <2>1
    <3> QED
      BY <1>2, <3>1
  <2>2. CASE x \notin T
    <3>1. /\ IsFiniteSet(T)
          /\ \A y \in T \cup {x} : f[y] \in Nat /\ g[y] \in Nat
      BY FS_Subset
    <3>2. /\ SumFunctionOnSet(f, T \cup {x}) = SumFunctionOnSet(f, T) + f[x]
          /\ SumFunctionOnSet(g, T \cup {x}) = SumFunctionOnSet(g, T) + g[x]
      BY <2>2, <3>1, SumAdd
    <3>3. SumFunctionOnSet(f, T) \in Nat /\ SumFunctionOnSet(g, T) \in Nat
      BY <3>1, SumNat
    <3>4. f[x] \in Nat /\ g[x] \in Nat /\ f[x] <= g[x]
      OBVIOUS
    <3>5. SumFunctionOnSet(f, T) <= SumFunctionOnSet(g, T)
      BY <1>2
    <3> QED
      BY <3>2, <3>3, <3>4, <3>5
  <2> QED
    BY <2>1, <2>2
<1>3. S \in P
  <2> HIDE DEF P
  <2> QED
    BY <1>1, <1>2, SetSteps
<1> QED
  BY <1>3

\* Functions that agree on a set have the same sum over it.
LEMMA SumSame ==
  ASSUME NEW f, NEW g, NEW S, IsFiniteSet(S),
         \A x \in S : f[x] \in Nat /\ f[x] = g[x]
  PROVE  SumFunctionOnSet(f, S) = SumFunctionOnSet(g, S)
<1>1. /\ SumFunctionOnSet(f, S) <= SumFunctionOnSet(g, S)
      /\ SumFunctionOnSet(g, S) <= SumFunctionOnSet(f, S)
  BY SumMonotone
<1>2. SumFunctionOnSet(f, S) \in Nat /\ SumFunctionOnSet(g, S) \in Nat
  BY SumNat
<1> QED
  BY <1>1, <1>2

\* The sum over a subset is no greater.
LEMMA SumSubset ==
  ASSUME NEW f, NEW S, IsFiniteSet(S), NEW T \in SUBSET S, \A x \in S : f[x] \in Nat
  PROVE  SumFunctionOnSet(f, T) <= SumFunctionOnSet(f, S)
<1> DEFINE P == {U \in SUBSET (S \ T) :
                   SumFunctionOnSet(f, T) <= SumFunctionOnSet(f, T \cup U)}
           Rest == S \ T
<1>0. ASSUME NEW U \in SUBSET S
      PROVE  IsFiniteSet(U) /\ SumFunctionOnSet(f, U) \in Nat
  <2>1. IsFiniteSet(U) /\ \A x \in U : f[x] \in Nat
    BY FS_Subset
  <2> QED
    BY <2>1, SumNat
<1>1. {} \in P
  <2>1. T \cup {} = T /\ SumFunctionOnSet(f, T) \in Nat
    BY <1>0
  <2> QED
    BY <2>1
<1>2. ASSUME NEW U \in SUBSET Rest, NEW x \in Rest, U \in P PROVE U \cup {x} \in P
  <2>1. CASE x \in U
    <3>1. U \cup {x} = U
      BY <2>1
    <3> QED
      BY <1>2, <3>1
  <2>2. CASE x \notin U
    <3>1. /\ T \cup U \in SUBSET S /\ x \notin T \cup U /\ f[x] \in Nat
          /\ \A y \in (T \cup U) \cup {x} : f[y] \in Nat
          /\ T \cup (U \cup {x}) = (T \cup U) \cup {x}
      BY <2>2
    <3>2. SumFunctionOnSet(f, (T \cup U) \cup {x}) = SumFunctionOnSet(f, T \cup U) + f[x]
      BY <1>0, <3>1, SumAdd
    <3>3. SumFunctionOnSet(f, T \cup U) \in Nat /\ SumFunctionOnSet(f, T) \in Nat
      BY <1>0, <3>1
    <3>4. SumFunctionOnSet(f, T) <= SumFunctionOnSet(f, T \cup U)
      BY <1>2
    <3>5. SumFunctionOnSet(f, T) <= SumFunctionOnSet(f, T \cup U) + f[x]
      BY <3>1, <3>3, <3>4
    <3>6. SumFunctionOnSet(f, T \cup (U \cup {x})) = SumFunctionOnSet(f, T \cup U) + f[x]
      BY <3>1, <3>2
    <3> QED
      BY <3>5, <3>6
  <2> QED
    BY <2>1, <2>2
<1>3. Rest \in P
  <2>1. IsFiniteSet(Rest)
    BY <1>0
  <2> HIDE DEF P, Rest
  <2> QED
    BY <1>1, <1>2, <2>1, SetSteps
<1>4. T \cup Rest = S
  OBVIOUS
<1> QED
  BY <1>3, <1>4
=============================================================================
