----------------------------- MODULE SetInduction -----------------------------
(***************************************************************************)
(* Induction over the natural numbers and finite sets, stated with a set   *)
(* where the library's theorems take a predicate, and what it gives: the   *)
(* fold of a function by + is the sum of its values, in any order.         *)
(***************************************************************************)
EXTENDS Integers, Functions, FiniteSetTheorems, WellFoundedInduction, TLAPS

\* A set of natural numbers that is not empty has a least element.
LEMMA LeastOfSet ==
    ASSUME NEW T, T \subseteq Nat, T # {}
    PROVE  \E x \in T : \A y \in T : x <= y
<1> DEFINE R == OpToRel(<, Nat)
<1>1. IsWellFoundedOn(R, Nat)
  BY NatLessThanWellFounded
<1>2. \A x, y \in Nat : y < x => <<y, x>> \in R
  BY DEF OpToRel
<1> HIDE DEF R
<1>3. PICK x \in T : \A y \in T : <<y, x>> \notin R
  BY <1>1, WFMin
<1>4. ASSUME NEW y \in T PROVE x <= y
  <2>1. x \in Nat /\ y \in Nat
    OBVIOUS
  <2>2. ~(y < x)
    BY <1>2, <1>3, <2>1
  <2>3. QED
    BY <2>1, <2>2
<1>5. QED
  BY <1>4

\* A set that holds 0, and with a number the next one, holds every number.
LEMMA InductionOnSet ==
    ASSUME NEW S, 0 \in S, \A n \in Nat : n \in S => n + 1 \in S
    PROVE  \A n \in Nat : n \in S
<1> DEFINE T == Nat \ S
<1>1. SUFFICES ASSUME T # {} PROVE FALSE
  OBVIOUS
<1>2. PICK x \in T : \A y \in T : x <= y
  <2>1. T \subseteq Nat
    OBVIOUS
  <2> HIDE DEF T
  <2>2. QED
    BY <1>1, <2>1, LeastOfSet
<1>3. x # 0 /\ x \in Nat
  OBVIOUS
<1>4. x - 1 \in Nat /\ x - 1 \notin T
  BY <1>2, <1>3
<1>5. QED
  BY <1>3, <1>4

-----------------------------------------------------------------------------
\* Induction over the subsets of a finite set.
LEMMA SubsetInduction ==
    ASSUME NEW S, IsFiniteSet(S), NEW P, {} \in P,
           \A T \in SUBSET S, x \in S : T \in P /\ x \notin T => T \cup {x} \in P
    PROVE  S \in P
<1> DEFINE N == {n \in Nat : \A T \in SUBSET S : Cardinality(T) = n => T \in P}
<1>1. \A T \in SUBSET S : IsFiniteSet(T) /\ Cardinality(T) \in Nat
  BY FS_Subset, FS_CardinalityType
<1>2. 0 \in N
  BY <1>1, FS_EmptySet
<1>3. ASSUME NEW n \in Nat, n \in N PROVE n + 1 \in N
  <2>1. SUFFICES ASSUME NEW T \in SUBSET S, Cardinality(T) = n + 1 PROVE T \in P
    OBVIOUS
  <2>2. T # {} /\ IsFiniteSet(T)
    <3>1. n + 1 # 0
      OBVIOUS
    <3>2. QED
      BY <1>1, <2>1, <3>1, FS_EmptySet
  <2>3. PICK x \in T : TRUE
    BY <2>2
  <2>4. Cardinality(T \ {x}) = n
    <3>1. Cardinality(T \ {x}) = Cardinality(T) - 1
      BY <2>3, <2>2, FS_RemoveElement
    <3>2. QED
      BY <2>1, <3>1
  <2>5. T \ {x} \in P /\ T = (T \ {x}) \cup {x}
    BY <1>3, <2>3, <2>4
  <2>6. QED
    BY <2>3, <2>5
<1> HIDE DEF N
<1>4. \A n \in Nat : n \in N
  BY <1>2, <1>3, InductionOnSet
<1>5. QED
  BY <1>1, <1>4 DEF N

-----------------------------------------------------------------------------
\* Sums.
\* The sum of f over S, and the element the fold takes first.
SumOver(f, S) == FoldFunctionOnSet(+, 0, f, S)

Picked(S) == CHOOSE x \in S : TRUE

\* g is the function by which the fold is defined.
Recursion(f, S, g) ==
    g = [s \in SUBSET S |-> IF s = {} THEN 0 ELSE f[Picked(s)] + g[s \ {Picked(s)}]]

LEMMA PickedIn == \A S : S # {} => Picked(S) \in S
  BY DEF Picked

\* There is such a function, by induction on how many elements there are.
LEMMA RecursionExists ==
    ASSUME NEW f, NEW S, IsFiniteSet(S)
    PROVE  \E g : Recursion(f, S, g)
<1> DEFINE Body(g, s) == IF s = {} THEN 0 ELSE f[Picked(s)] + g[s \ {Picked(s)}]
           N == {n \in Nat : \E g : \A s \in SUBSET S : Cardinality(s) <= n => g[s] = Body(g, s)}
<1>1. \A T \in SUBSET S : IsFiniteSet(T) /\ Cardinality(T) \in Nat
  BY FS_Subset, FS_CardinalityType
<1>2. 0 \in N
  <2> DEFINE g == [s \in SUBSET S |-> 0]
  <2>1. ASSUME NEW s \in SUBSET S, Cardinality(s) <= 0
        PROVE  g[s] = Body(g, s)
    <3>1. Cardinality(s) = 0
      BY <1>1, <2>1
    <3>2. s = {}
      BY <1>1, <3>1, FS_EmptySet
    <3>3. QED
      BY <3>2
  <2>2. QED
    BY <2>1
<1>3. ASSUME NEW n \in Nat, n \in N PROVE n + 1 \in N
  <2>1. PICK g : \A s \in SUBSET S : Cardinality(s) <= n => g[s] = Body(g, s)
    BY <1>3
  <2> DEFINE h == [s \in SUBSET S |-> IF Cardinality(s) <= n THEN g[s] ELSE Body(g, s)]
  <2>2. ASSUME NEW s \in SUBSET S, Cardinality(s) <= n + 1
        PROVE  h[s] = Body(h, s)
    <3>1. CASE s = {}
      <4>1. Cardinality(s) <= n /\ h[s] = g[s]
        BY <3>1, FS_EmptySet
      <4>2. QED
        BY <2>1, <3>1, <4>1
    <3>2. CASE s # {}
      <4> DEFINE t == s \ {Picked(s)}
      <4>1. Picked(s) \in s /\ t \in SUBSET S
        BY <3>2, PickedIn
      <4>2. Cardinality(t) = Cardinality(s) - 1
        BY <1>1, <4>1, FS_RemoveElement
      <4>3. Cardinality(t) <= n /\ Cardinality(s) \in Nat
        BY <1>1, <2>2, <4>2
      <4>4. h[t] = g[t]
        BY <4>1, <4>3
      <4>5. h[s] = Body(g, s)
        BY <2>1
      <4>6. QED
        BY <3>2, <4>4, <4>5
    <3>3. QED
      BY <3>1, <3>2
  <2> HIDE DEF h
  <2> HIDE DEF Body
  <2>3. n + 1 \in Nat /\ \E k : \A s \in SUBSET S : Cardinality(s) <= n + 1 => k[s] = Body(k, s)
    BY <2>2
  <2>4. QED
    BY <2>3
<1> HIDE DEF N
<1>4. \A n \in Nat : n \in N
  BY <1>2, <1>3, InductionOnSet
<1>5. Cardinality(S) \in N
  BY <1>1, <1>4
<1>6. PICK g : \A s \in SUBSET S : Cardinality(s) <= Cardinality(S) => g[s] = Body(g, s)
  BY <1>5 DEF N
<1>7. \A s \in SUBSET S : Cardinality(s) <= Cardinality(S)
  BY FS_Subset
<1> DEFINE h == [s \in SUBSET S |-> g[s]]
<1>8. ASSUME NEW s \in SUBSET S
      PROVE  h[s] = Body(h, s)
  <2>1. s \ {Picked(s)} \in SUBSET S
    OBVIOUS
  <2>2. QED
    BY <1>6, <1>7, <2>1
<1>9. h = [s \in SUBSET S |-> Body(h, s)]
  <2>1. h = [s \in SUBSET S |-> h[s]]
    OBVIOUS
  <2> HIDE DEF h, Body
  <2>2. QED
    BY <1>8, <2>1
<1> HIDE DEF h
<1>10. QED
  BY <1>9 DEF Recursion

\* Two of them agree where both are defined.
LEMMA RecursionUnique ==
    ASSUME NEW f, NEW S, NEW T, IsFiniteSet(S), NEW g, NEW h,
           Recursion(f, S, g), Recursion(f, T, h), T \subseteq S
    PROVE  g[T] = h[T]
<1> DEFINE N == {n \in Nat : \A s \in SUBSET T : Cardinality(s) = n => g[s] = h[s]}
<1>1. \A s \in SUBSET T : IsFiniteSet(s) /\ Cardinality(s) \in Nat
  BY FS_Subset, FS_CardinalityType
<1>2. \A s \in SUBSET T :
         /\ g[s] = IF s = {} THEN 0 ELSE f[Picked(s)] + g[s \ {Picked(s)}]
         /\ h[s] = IF s = {} THEN 0 ELSE f[Picked(s)] + h[s \ {Picked(s)}]
  BY DEF Recursion
<1>3. 0 \in N
  <2>1. ASSUME NEW s \in SUBSET T, Cardinality(s) = 0
        PROVE  g[s] = h[s]
    BY <1>1, <1>2, <2>1, FS_EmptySet
  <2>2. QED
    BY <2>1
<1>4. ASSUME NEW n \in Nat, n \in N PROVE n + 1 \in N
  <2>1. SUFFICES ASSUME NEW s \in SUBSET T, Cardinality(s) = n + 1
                 PROVE  g[s] = h[s]
    OBVIOUS
  <2>2. s # {}
    BY <2>1, FS_EmptySet
  <2>3. Picked(s) \in s
    BY <2>2, PickedIn
  <2>4. Cardinality(s \ {Picked(s)}) = n
    BY <1>1, <2>1, <2>3, FS_RemoveElement
  <2>5. g[s \ {Picked(s)}] = h[s \ {Picked(s)}]
    BY <1>4, <2>4
  <2>6. QED
    BY <1>2, <2>5
<1> HIDE DEF N
<1>5. \A n \in Nat : n \in N
  BY <1>3, <1>4, InductionOnSet
<1>6. IsFiniteSet(T)
  BY FS_Subset
<1>7. QED
  BY <1>1, <1>5, <1>6 DEF N

\* The fold chooses one of them.
LEMMA SumIsRecursive ==
    ASSUME NEW f, NEW S, IsFiniteSet(S)
    PROVE  \E g : Recursion(f, S, g) /\ SumOver(f, S) = g[S]
<1> DEFINE g == CHOOSE h : Recursion(f, S, h)
<1>1. Recursion(f, S, g)
  BY RecursionExists
<1>2. SumOver(f, S) = g[S]
  BY DEF SumOver, FoldFunctionOnSet, MapThenFoldSet, Recursion, Picked
<1>3. QED
  BY <1>1, <1>2

\* Unfolding a sum once.
LEMMA SumStep ==
    ASSUME NEW f, NEW S, IsFiniteSet(S)
    PROVE  SumOver(f, S) =
              IF S = {} THEN 0 ELSE f[Picked(S)] + SumOver(f, S \ {Picked(S)})
<1> DEFINE T == S \ {Picked(S)}
<1>1. IsFiniteSet(T) /\ T \subseteq S
  BY FS_Subset
<1>2. PICK g : Recursion(f, S, g) /\ SumOver(f, S) = g[S]
  BY SumIsRecursive
<1>3. PICK h : Recursion(f, T, h) /\ SumOver(f, T) = h[T]
  BY <1>1, SumIsRecursive
<1>4. g[T] = h[T]
  BY <1>1, <1>2, <1>3, RecursionUnique
<1>5. g[S] = IF S = {} THEN 0 ELSE f[Picked(S)] + g[T]
  BY <1>2 DEF Recursion
<1>6. QED
  BY <1>2, <1>3, <1>4, <1>5

\* The fold of a function is the sum over its domain.
LEMMA SumOfFold == \A f : FoldFunction(+, 0, f) = SumOver(f, DOMAIN f)
  BY DEF FoldFunction, SumOver

LEMMA SumEmpty == \A f : SumOver(f, {}) = 0
  BY SumStep, FS_EmptySet

\* Sums of integers and of natural numbers.
LEMMA SumType ==
    ASSUME NEW f, NEW S, IsFiniteSet(S)
    PROVE  /\ (\A x \in S : f[x] \in Int) => SumOver(f, S) \in Int
           /\ (\A x \in S : f[x] \in Nat) => SumOver(f, S) \in Nat
<1> DEFINE N == {n \in Nat : \A T \in SUBSET S : Cardinality(T) = n =>
                     /\ (\A x \in S : f[x] \in Int) => SumOver(f, T) \in Int
                     /\ (\A x \in S : f[x] \in Nat) => SumOver(f, T) \in Nat}
<1>1. \A T \in SUBSET S : IsFiniteSet(T) /\ Cardinality(T) \in Nat
  BY FS_Subset, FS_CardinalityType
<1>2. 0 \in N
  <2>1. \A T \in SUBSET S : Cardinality(T) = 0 => T = {}
    BY <1>1, FS_EmptySet
  <2>2. SumOver(f, {}) = 0
    BY SumEmpty
  <2>3. QED
    BY <2>1, <2>2
<1>3. ASSUME NEW n \in Nat, n \in N PROVE n + 1 \in N
  <2>1. SUFFICES ASSUME NEW T \in SUBSET S, Cardinality(T) = n + 1
                 PROVE  /\ (\A x \in S : f[x] \in Int) => SumOver(f, T) \in Int
                        /\ (\A x \in S : f[x] \in Nat) => SumOver(f, T) \in Nat
    OBVIOUS
  <2>2. T # {} /\ IsFiniteSet(T)
    <3>1. n + 1 # 0
      OBVIOUS
    <3>2. QED
      BY <1>1, <2>1, <3>1, FS_EmptySet
  <2> DEFINE x == Picked(T)
  <2>3. x \in T /\ T \ {x} \in SUBSET S
    BY <2>2, PickedIn
  <2>4. SumOver(f, T) = f[x] + SumOver(f, T \ {x})
    BY <2>2, SumStep
  <2> HIDE DEF x
  <2>5. Cardinality(T \ {x}) = Cardinality(T) - 1
    BY <2>2, <2>3, FS_RemoveElement
  <2>6. Cardinality(T \ {x}) = n
    BY <2>1, <2>5
  <2>7. /\ (\A y \in S : f[y] \in Int) => SumOver(f, T \ {x}) \in Int
        /\ (\A y \in S : f[y] \in Nat) => SumOver(f, T \ {x}) \in Nat
    BY <1>3, <2>3, <2>6
  <2>8. QED
    BY <2>3, <2>4, <2>7
<1> HIDE DEF N
<1>4. \A n \in Nat : n \in N
  BY <1>2, <1>3, InductionOnSet
<1>5. QED
  BY <1>1, <1>4 DEF N

\* An element more adds its value, whichever is picked first.
LEMMA SumAdd ==
    ASSUME NEW f, NEW S, IsFiniteSet(S), NEW y, y \notin S,
           \A x \in S \cup {y} : f[x] \in Int
    PROVE  SumOver(f, S \cup {y}) = f[y] + SumOver(f, S)
<1> DEFINE U == S \cup {y}
           N == {n \in Nat : \A T \in SUBSET U, z \in U : Cardinality(T) = n /\ z \notin T =>
                     SumOver(f, T \cup {z}) = f[z] + SumOver(f, T)}
<1>0. IsFiniteSet(U)
  BY FS_AddElement
<1>1. \A T \in SUBSET U : IsFiniteSet(T) /\ Cardinality(T) \in Nat /\ SumOver(f, T) \in Int
  BY <1>0, FS_Subset, FS_CardinalityType, SumType
<1>2. 0 \in N
  <2>1. ASSUME NEW T \in SUBSET U, NEW z \in U, Cardinality(T) = 0
        PROVE  SumOver(f, T \cup {z}) = f[z] + SumOver(f, T)
    <3>1. T = {}
      BY <1>1, <2>1, FS_EmptySet
    <3>2. Picked({z}) = z /\ IsFiniteSet({z}) /\ {z} \ {z} = {} /\ {z} # {}
      BY FS_Singleton DEF Picked
    <3>3. SumOver(f, {z}) = f[z] + SumOver(f, {})
      BY <3>2, SumStep
    <3>4. QED
      BY <3>1, <3>3
  <2>2. QED
    BY <2>1
<1>3. ASSUME NEW n \in Nat, n \in N PROVE n + 1 \in N
  <2>1. SUFFICES ASSUME NEW T \in SUBSET U, NEW z \in U, Cardinality(T) = n + 1, z \notin T
                 PROVE  SumOver(f, T \cup {z}) = f[z] + SumOver(f, T)
    OBVIOUS
  <2> DEFINE V == T \cup {z}
             x == Picked(V)
  <2>2. V \in SUBSET U /\ V # {} /\ x \in V /\ IsFiniteSet(V)
    <3>1. V \in SUBSET U /\ V # {}
      OBVIOUS
    <3> HIDE DEF V
    <3>2. QED
      BY <1>1, <3>1, PickedIn
  <2>3. SumOver(f, V) = f[x] + SumOver(f, V \ {x})
    <3> HIDE DEF V
    <3>1. QED
      BY <2>2, SumStep
  <2> HIDE DEF x
  <2>4. CASE x = z
    <3>1. V \ {x} = T
      BY <2>1, <2>4
    <3>2. QED
      BY <2>3, <2>4, <3>1
  <2>5. CASE x \in T
    <3> DEFINE W == T \ {x}
    <3>1. W \in SUBSET U /\ z \notin W /\ x \notin W /\ x \in U
          /\ V \ {x} = W \cup {z} /\ T = W \cup {x}
      BY <2>1, <2>5
    <3>2. Cardinality(W) = n
      <4>1. Cardinality(W) = Cardinality(T) - 1
        BY <1>1, <2>5, FS_RemoveElement
      <4>2. QED
        BY <2>1, <4>1
    <3> HIDE DEF W
    <3>3. SumOver(f, W \cup {z}) = f[z] + SumOver(f, W)
      BY <1>3, <3>1, <3>2
    <3>4. SumOver(f, W \cup {x}) = f[x] + SumOver(f, W)
      BY <1>3, <3>1, <3>2
    <3>5. SumOver(f, W) \in Int /\ f[x] \in Int /\ f[z] \in Int
      BY <1>1, <3>1
    <3>6. SumOver(f, V) = f[x] + (f[z] + SumOver(f, W))
      BY <2>3, <3>1, <3>3
    <3>7. SumOver(f, T) = f[x] + SumOver(f, W)
      BY <3>1, <3>4
    <3>8. QED
      BY <3>5, <3>6, <3>7
  <2>6. QED
    BY <2>2, <2>4, <2>5
<1> HIDE DEF N
<1>4. \A n \in Nat : n \in N
  BY <1>2, <1>3, InductionOnSet
<1>5. S \in SUBSET U /\ y \in U /\ Cardinality(S) \in N
  BY <1>1, <1>4
<1>6. QED
  BY <1>5 DEF N

\* Any element can be taken out first.
LEMMA SumRemove ==
    ASSUME NEW f, NEW S, IsFiniteSet(S), NEW y \in S, \A x \in S : f[x] \in Int
    PROVE  SumOver(f, S) = f[y] + SumOver(f, S \ {y})
<1>1. IsFiniteSet(S \ {y}) /\ y \notin S \ {y} /\ S = (S \ {y}) \cup {y}
  BY FS_Subset
<1>2. SumOver(f, (S \ {y}) \cup {y}) = f[y] + SumOver(f, S \ {y})
  BY <1>1, SumAdd
<1>3. QED
  BY <1>1, <1>2

\* A number is not larger than the sum of it with others.
LEMMA SumBounds ==
    ASSUME NEW f, NEW S, IsFiniteSet(S), NEW y \in S, \A x \in S : f[x] \in Nat
    PROVE  f[y] <= SumOver(f, S)
<1>1. SumOver(f, S) = f[y] + SumOver(f, S \ {y})
  BY SumRemove
<1>2. SumOver(f, S \ {y}) \in Nat
  BY SumType, FS_Subset
<1>3. QED
  BY <1>1, <1>2

\* Sums of the same values under other names.
LEMMA SumRenamed ==
    ASSUME NEW f, NEW g, NEW S, IsFiniteSet(S), NEW p,
           \A x \in S : f[x] = g[p[x]] /\ f[x] \in Int,
           \A x, y \in S : p[x] = p[y] => x = y
    PROVE  SumOver(g, {p[x] : x \in S}) = SumOver(f, S)
<1> DEFINE P == {T \in SUBSET S : /\ IsFiniteSet({p[x] : x \in T})
                                  /\ SumOver(g, {p[x] : x \in T}) = SumOver(f, T)}
<1>1. {} \in P
  <2>1. {p[x] : x \in {}} = {}
    OBVIOUS
  <2>2. QED
    BY <2>1, SumEmpty, FS_EmptySet
<1>2. ASSUME NEW T \in SUBSET S, NEW x \in S, T \in P, x \notin T
      PROVE  T \cup {x} \in P
  <2> DEFINE I == {p[z] : z \in T}
  <2>1. IsFiniteSet(T) /\ IsFiniteSet(I)
    BY <1>2, FS_Subset
  <2>2. {p[z] : z \in T \cup {x}} = I \cup {p[x]} /\ p[x] \notin I
    BY <1>2
  <2>3. /\ \A z \in T \cup {x} : f[z] \in Int
        /\ \A i \in I \cup {p[x]} : g[i] \in Int
    OBVIOUS
  <2>4. SumOver(g, I) = SumOver(f, T) /\ g[p[x]] = f[x]
    BY <1>2
  <2>5. SumOver(f, T \cup {x}) = f[x] + SumOver(f, T)
    BY <1>2, <2>1, <2>3, SumAdd
  <2> HIDE DEF I
  <2>6. SumOver(g, I \cup {p[x]}) = g[p[x]] + SumOver(g, I)
    BY <2>1, <2>2, <2>3, SumAdd
  <2>7. SumOver(g, {p[z] : z \in T \cup {x}}) = SumOver(f, T \cup {x})
    BY <2>2, <2>4, <2>5, <2>6
  <2>8. IsFiniteSet(I \cup {p[x]})
    BY <2>1, FS_AddElement
  <2>9. QED
    BY <2>2, <2>7, <2>8
<1> HIDE DEF P
<1>3. S \in P
  BY <1>1, <1>2, SubsetInduction
<1>4. QED
  BY <1>3 DEF P

\* Functions with the same values have the same sum.
LEMMA SumSame ==
    ASSUME NEW f, NEW g, NEW S, IsFiniteSet(S), \A x \in S : f[x] = g[x] /\ f[x] \in Int
    PROVE  SumOver(g, S) = SumOver(f, S)
<1> DEFINE p == [x \in S |-> x]
<1>1. {p[x] : x \in S} = S
  OBVIOUS
<1>2. SumOver(g, {p[x] : x \in S}) = SumOver(f, S)
  <2>1. (\A x \in S : f[x] = g[p[x]] /\ f[x] \in Int) /\ \A x, y \in S : p[x] = p[y] => x = y
    OBVIOUS
  <2> HIDE DEF p
  <2>2. QED
    BY <2>1, SumRenamed
<1>3. QED
  BY <1>1, <1>2

\* A sum is that of a part and the rest.
LEMMA SumSplit ==
    ASSUME NEW f, NEW S, IsFiniteSet(S), NEW T, T \subseteq S, \A x \in S : f[x] \in Int
    PROVE  SumOver(f, S) = SumOver(f, T) + SumOver(f, S \ T)
<1> DEFINE P == {R \in SUBSET T : SumOver(f, S) = SumOver(f, R) + SumOver(f, S \ R)}
<1>0. IsFiniteSet(T)
  BY FS_Subset
<1>1. {} \in P
  <2>1. S \ {} = S /\ SumOver(f, {}) = 0 /\ SumOver(f, S) \in Int
    BY SumEmpty, SumType
  <2>2. SumOver(f, S) = SumOver(f, {}) + SumOver(f, S \ {})
    BY <2>1
  <2>3. QED
    BY <2>2
<1>2. ASSUME NEW R \in SUBSET T, NEW x \in T, R \in P, x \notin R
      PROVE  R \cup {x} \in P
  <2> DEFINE Q == S \ (R \cup {x})
  <2>1. IsFiniteSet(R) /\ IsFiniteSet(Q) /\ IsFiniteSet(S \ R)
    BY FS_Subset
  <2>2. x \notin Q /\ S \ R = Q \cup {x}
    BY <1>2
  <2>3. SumOver(f, R) \in Int /\ SumOver(f, Q) \in Int /\ f[x] \in Int
    BY <2>1, SumType
  <2>4. SumOver(f, R \cup {x}) = f[x] + SumOver(f, R)
    BY <1>2, <2>1, SumAdd
  <2>5. SumOver(f, Q \cup {x}) = f[x] + SumOver(f, Q)
    <3>1. \A z \in Q \cup {x} : f[z] \in Int
      OBVIOUS
    <3> HIDE DEF Q
    <3>2. QED
      BY <2>1, <2>2, <3>1, SumAdd
  <2>6. SumOver(f, S) = SumOver(f, R) + SumOver(f, S \ R)
    BY <1>2
  <2>7. SumOver(f, S) = SumOver(f, R \cup {x}) + SumOver(f, Q)
    <3> HIDE DEF Q
    <3>1. SumOver(f, S \ R) = f[x] + SumOver(f, Q)
      BY <2>2, <2>5
    <3>2. QED
      BY <2>3, <2>4, <2>6, <3>1
  <2>8. QED
    BY <2>7
<1> HIDE DEF P
<1>3. T \in P
  BY <1>0, <1>1, <1>2, SubsetInduction
<1>4. QED
  BY <1>3 DEF P

\* Nothing adds up to nothing.
LEMMA SumZero ==
    ASSUME NEW f, NEW S, IsFiniteSet(S), \A x \in S : f[x] = 0
    PROVE  SumOver(f, S) = 0
<1> DEFINE P == {T \in SUBSET S : SumOver(f, T) = 0}
<1>1. {} \in P
  BY SumEmpty
<1>2. ASSUME NEW T \in SUBSET S, NEW x \in S, T \in P, x \notin T
      PROVE  T \cup {x} \in P
  <2>1. IsFiniteSet(T) /\ \A z \in T \cup {x} : f[z] \in Int
    BY FS_Subset
  <2>2. SumOver(f, T \cup {x}) = f[x] + SumOver(f, T)
    BY <1>2, <2>1, SumAdd
  <2>3. f[x] = 0 /\ SumOver(f, T) = 0
    BY <1>2
  <2>4. QED
    BY <2>2, <2>3
<1> HIDE DEF P
<1>3. S \in P
  BY <1>1, <1>2, SubsetInduction
<1>4. QED
  BY <1>3 DEF P
===============================================================================
