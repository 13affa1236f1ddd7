---------------------------- MODULE SumTheorems ----------------------------
(***************************************************************************)
(* Sums over finite sets: what SumFunctionOnSet of the community modules   *)
(* returns.  It picks the elements in an order nobody knows; the lemmas    *)
(* say that the order does not matter.  Induction is by the least counter- *)
(* example, which exists because < is well founded on Nat.                 *)
(***************************************************************************)
EXTENDS Integers, FiniteSets, Functions, FiniteSetTheorems,
        WellFoundedInduction, TLAPS

LEMMA LeastNumber ==
  ASSUME NEW T \in SUBSET Nat, T # {}
  PROVE  \E n \in T : \A m \in T : n <= m
<1>1. PICK n \in T : \A m \in T : ~(<<m, n>> \in OpToRel(<, Nat))
  BY NatLessThanWellFounded, WFMin
<1>2. \A m \in T : ~(m < n)
  BY <1>1 DEF OpToRel
<1>. QED BY <1>2

(* The element a sum over T begins with. *)
First(T) == CHOOSE x \in T : TRUE

(* g[T] is the sum over T, if g gives the sums over the smaller sets. *)
Summed(F, g, T) == IF T = {} THEN 0 ELSE F[First(T)] + g[T \ {First(T)}]

Sums(F, S) == CHOOSE g : g = [T \in SUBSET S |-> Summed(F, g, T)]

LEMMA SumUnfolds ==
  ASSUME NEW F, NEW S
  PROVE  SumFunctionOnSet(F, S) = Sums(F, S)[S]
BY DEF SumFunctionOnSet, FoldFunctionOnSet, MapThenFoldSet, Sums, Summed, First

LEMMA FirstRemoved ==
  ASSUME NEW T, IsFiniteSet(T), T # {}
  PROVE  /\ First(T) \in T
         /\ IsFiniteSet(T \ {First(T)})
         /\ Cardinality(T) \in Nat
         /\ Cardinality(T \ {First(T)}) = Cardinality(T) - 1
BY FS_RemoveElement, FS_CardinalityType DEF First

LEMMA SumsExist ==
  ASSUME NEW F, NEW S, IsFiniteSet(S)
  PROVE  \E g : g = [T \in SUBSET S |-> Summed(F, g, T)]
<1>. DEFINE Upto(g, k) == \A T \in SUBSET S :
                            Cardinality(T) <= k => g[T] = Summed(F, g, T)
            Bad == {k \in Nat : ~ \E g : Upto(g, k)}
<1>1. \A T \in SUBSET S : IsFiniteSet(T) /\ Cardinality(T) \in Nat
                          /\ Cardinality(T) <= Cardinality(S)
  BY FS_Subset, FS_CardinalityType
<1>2. Bad = {}
  <2>. SUFFICES ASSUME Bad # {} PROVE FALSE
    OBVIOUS
  <2>1. PICK m \in Bad : \A k \in Bad : m <= k
    BY LeastNumber
  <2>2. CASE m = 0
    <3>1. Upto([T \in SUBSET S |-> 0], 0)
      BY <1>1, FS_EmptySet DEF Summed
    <3>. QED BY <2>1, <2>2, <3>1
  <2>3. CASE m # 0
    <3>1. m - 1 \in Nat /\ m - 1 \notin Bad
      BY <2>1, <2>3
    <3>2. PICK g : Upto(g, m - 1)
      BY <3>1
    <3>. DEFINE h == [T \in SUBSET S |-> IF Cardinality(T) <= m - 1 THEN g[T]
                                         ELSE Summed(F, g, T)]
    <3>3. ASSUME NEW T \in SUBSET S, Cardinality(T) <= m
          PROVE  h[T] = Summed(F, h, T)
      <4>1. h[T] = Summed(F, g, T)
        BY <3>2
      <4>2. T # {} => h[T \ {First(T)}] = g[T \ {First(T)}]
        <5>. SUFFICES ASSUME T # {} PROVE h[T \ {First(T)}] = g[T \ {First(T)}]
          OBVIOUS
        <5>1. Cardinality(T \ {First(T)}) <= m - 1
          BY <1>1, <3>1, <3>3, FirstRemoved
        <5>. QED BY <5>1
      <4>. QED BY <4>1, <4>2 DEF Summed
    <3>4. Upto(h, m)
      BY <3>3
    <3>. QED BY <2>1, <3>4
  <2>. QED BY <2>2, <2>3
<1>3. Cardinality(S) \in Nat
  BY <1>1
<1>4. PICK g : Upto(g, Cardinality(S))
  BY <1>2, <1>3
<1>. DEFINE r == [T \in SUBSET S |-> g[T]]
<1>5. ASSUME NEW T \in SUBSET S
      PROVE  r[T] = Summed(F, r, T)
  <2>1. g[T] = Summed(F, g, T)
    BY <1>1, <1>4
  <2>2. T # {} => r[T \ {First(T)}] = g[T \ {First(T)}]
    OBVIOUS
  <2>. QED BY <2>1, <2>2 DEF Summed
<1>6. r = [T \in SUBSET S |-> Summed(F, r, T)]
  BY <1>5
<1>. QED BY <1>6

LEMMA SumsAreSummed ==
  ASSUME NEW F, NEW S, IsFiniteSet(S), NEW T \in SUBSET S
  PROVE  Sums(F, S)[T] = Summed(F, Sums(F, S), T)
<1>1. Sums(F, S) = [U \in SUBSET S |-> Summed(F, Sums(F, S), U)]
  BY SumsExist DEF Sums
<1>. DEFINE g == Sums(F, S)
<1>2. g = [U \in SUBSET S |-> Summed(F, g, U)]
  BY <1>1
<1>. HIDE DEF g
<1>3. g[T] = Summed(F, g, T)
  BY <1>2
<1>. QED BY <1>3 DEF g

(* A sum does not depend on the set it is taken as a part of. *)
LEMMA SumOfPart ==
  ASSUME NEW F, NEW S, IsFiniteSet(S), NEW R \in SUBSET S
  PROVE  Sums(F, S)[R] = SumFunctionOnSet(F, R)
<1>. DEFINE g == Sums(F, S)
            h == Sums(F, R)
            Bad == {k \in Nat : \E T \in SUBSET R : Cardinality(T) = k /\ g[T] # h[T]}
<1>1. IsFiniteSet(R) /\ \A T \in SUBSET R : IsFiniteSet(T) /\ Cardinality(T) \in Nat
  BY FS_Subset, FS_CardinalityType
<1>2. \A T \in SUBSET R : g[T] = Summed(F, g, T) /\ h[T] = Summed(F, h, T)
  BY <1>1, SumsAreSummed
<1>. HIDE DEF g, h
<1>3. Bad = {}
  <2>. SUFFICES ASSUME Bad # {} PROVE FALSE
    OBVIOUS
  <2>1. PICK m \in Bad : \A k \in Bad : m <= k
    BY LeastNumber
  <2>2. PICK T \in SUBSET R : Cardinality(T) = m /\ g[T] # h[T]
    BY <2>1
  <2>3. T # {}
    BY <1>2, <2>2 DEF Summed
  <2>. DEFINE U == T \ {First(T)}
  <2>4. U \in SUBSET R /\ Cardinality(U) \in Nat /\ Cardinality(U) < m
    BY <1>1, <2>2, <2>3, FirstRemoved
  <2>5. Cardinality(U) \notin Bad
    BY <2>1, <2>4
  <2>6. g[U] = h[U]
    BY <2>4, <2>5
  <2>. QED BY <1>2, <2>2, <2>3, <2>6 DEF Summed
<1>4. g[R] = h[R]
  BY <1>1, <1>3
<1>. QED BY <1>4, SumUnfolds DEF g, h

LEMMA SumEmpty ==
  ASSUME NEW F
  PROVE  SumFunctionOnSet(F, {}) = 0
BY SumUnfolds, SumsAreSummed, FS_EmptySet DEF Summed

LEMMA SumFirst ==
  ASSUME NEW F, NEW S, IsFiniteSet(S), S # {}
  PROVE  SumFunctionOnSet(F, S) =
           F[First(S)] + SumFunctionOnSet(F, S \ {First(S)})
<1>1. Sums(F, S)[S] = Summed(F, Sums(F, S), S)
  BY SumsAreSummed
<1>2. Sums(F, S)[S \ {First(S)}] = SumFunctionOnSet(F, S \ {First(S)})
  BY SumOfPart
<1>. QED BY <1>1, <1>2, SumUnfolds DEF Summed

(* A sum of natural numbers is one. *)
LEMMA SumType ==
  ASSUME NEW F, NEW S, IsFiniteSet(S), \A x \in S : F[x] \in Nat
  PROVE  SumFunctionOnSet(F, S) \in Nat
<1>. DEFINE Bad == {k \in Nat : \E T \in SUBSET S : Cardinality(T) = k
                                   /\ SumFunctionOnSet(F, T) \notin Nat}
<1>1. \A T \in SUBSET S : IsFiniteSet(T) /\ Cardinality(T) \in Nat
  BY FS_Subset, FS_CardinalityType
<1>2. Bad = {}
  <2>. SUFFICES ASSUME Bad # {} PROVE FALSE
    OBVIOUS
  <2>1. PICK m \in Bad : \A k \in Bad : m <= k
    BY LeastNumber
  <2>2. PICK T \in SUBSET S : Cardinality(T) = m /\ SumFunctionOnSet(F, T) \notin Nat
    BY <2>1
  <2>3. T # {}
    BY <2>2, SumEmpty
  <2>. DEFINE U == T \ {First(T)}
  <2>4. /\ U \in SUBSET S /\ Cardinality(U) \in Nat /\ Cardinality(U) < m
        /\ First(T) \in S
    BY <1>1, <2>2, <2>3, FirstRemoved
  <2>5. SumFunctionOnSet(F, U) \in Nat
    BY <2>1, <2>4
  <2>6. SumFunctionOnSet(F, T) = F[First(T)] + SumFunctionOnSet(F, U)
    BY <1>1, <2>3, SumFirst
  <2>. QED BY <2>2, <2>4, <2>5, <2>6
<1>. QED BY <1>1, <1>2

(* A sum of nothing but zeros is zero. *)
LEMMA SumOfNone ==
  ASSUME NEW F, NEW S, IsFiniteSet(S), \A x \in S : F[x] = 0
  PROVE  SumFunctionOnSet(F, S) = 0
<1>. DEFINE Bad == {k \in Nat : \E T \in SUBSET S : Cardinality(T) = k
                                   /\ SumFunctionOnSet(F, T) # 0}
<1>1. \A T \in SUBSET S : IsFiniteSet(T) /\ Cardinality(T) \in Nat
  BY FS_Subset, FS_CardinalityType
<1>2. Bad = {}
  <2>. SUFFICES ASSUME Bad # {} PROVE FALSE
    OBVIOUS
  <2>1. PICK m \in Bad : \A k \in Bad : m <= k
    BY LeastNumber
  <2>2. PICK T \in SUBSET S : Cardinality(T) = m /\ SumFunctionOnSet(F, T) # 0
    BY <2>1
  <2>3. T # {}
    BY <2>2, SumEmpty
  <2>. DEFINE U == T \ {First(T)}
  <2>4. /\ U \in SUBSET S /\ Cardinality(U) \in Nat /\ Cardinality(U) < m
        /\ First(T) \in S
    BY <1>1, <2>2, <2>3, FirstRemoved
  <2>5. SumFunctionOnSet(F, U) = 0
    BY <2>1, <2>4
  <2>6. SumFunctionOnSet(F, T) = F[First(T)] + SumFunctionOnSet(F, U)
    BY <1>1, <2>3, SumFirst
  <2>. QED BY <2>2, <2>4, <2>5, <2>6
<1>. QED BY <1>1, <1>2

(* Any element may be taken out first. *)
LEMMA SumRemove ==
  ASSUME NEW F, NEW S, IsFiniteSet(S), \A y \in S : F[y] \in Nat, NEW x \in S
  PROVE  SumFunctionOnSet(F, S) = F[x] + SumFunctionOnSet(F, S \ {x})
<1>. DEFINE Sum(T) == SumFunctionOnSet(F, T)
            Bad == {k \in Nat : \E T \in SUBSET S : Cardinality(T) = k
                      /\ \E y \in T : Sum(T) # F[y] + Sum(T \ {y})}
<1>1. \A T \in SUBSET S : /\ IsFiniteSet(T) /\ Cardinality(T) \in Nat
                          /\ Sum(T) \in Nat
  <2>1. \A T \in SUBSET S : IsFiniteSet(T) /\ Cardinality(T) \in Nat
    BY FS_Subset, FS_CardinalityType
  <2>. QED BY <2>1, SumType
<1>2. Bad = {}
  <2>. SUFFICES ASSUME Bad # {} PROVE FALSE
    OBVIOUS
  <2>1. PICK m \in Bad : \A k \in Bad : m <= k
    BY LeastNumber
  <2>0. \A k \in Nat : k < m => k \notin Bad
    <3>. HIDE DEF Bad
    <3>1. m \in Nat
      BY DEF Bad
    <3>. QED BY <2>1, <3>1
  <2>2. PICK T \in SUBSET S : Cardinality(T) = m /\ \E y \in T : Sum(T) # F[y] + Sum(T \ {y})
    BY <2>1
  <2>3. PICK y \in T : Sum(T) # F[y] + Sum(T \ {y})
    BY <2>2
  <2>. DEFINE c == First(T)
              U == T \ {c}
              V == T \ {y}
              W == U \ {y}
  <2>4. /\ c \in T /\ U \in SUBSET S /\ Cardinality(U) \in Nat /\ Cardinality(U) < m
    BY <1>1, <2>2, FirstRemoved
  <2>5. Sum(T) = F[c] + Sum(U)
    BY <1>1, SumFirst
  <2>6. c # y
    BY <2>3, <2>5
  <2>7. Sum(U) = F[y] + Sum(W)
    <3>1. Cardinality(U) \notin Bad
      <4>. HIDE DEF Bad
      <4>. QED BY <2>0, <2>4
    <3>2. y \in U
      BY <2>6
    <3>. QED BY <2>4, <3>1, <3>2
  <2>8. Sum(V) = F[c] + Sum(W)
    <3>1. Cardinality(V) \in Nat /\ Cardinality(V) < m /\ V \in SUBSET S
      BY <1>1, <2>2, FS_RemoveElement
    <3>2. Cardinality(V) \notin Bad
      <4>. HIDE DEF Bad
      <4>. QED BY <2>0, <3>1
    <3>3. c \in V /\ V \ {c} = W
      BY <2>4, <2>6
    <3>4. Sum(V) = F[c] + Sum(V \ {c})
      BY <3>1, <3>2, <3>3
    <3>. QED BY <3>3, <3>4
  <2>9. F[c] \in Nat /\ F[y] \in Nat /\ Sum(W) \in Nat
    BY <1>1, <2>4
  <2>. HIDE DEF Sum, c, U, V, W
  <2>10. Sum(T) = F[y] + Sum(V)
    BY <2>5, <2>7, <2>8, <2>9
  <2>. QED BY <2>3, <2>10 DEF V
<1>. QED BY <1>1, <1>2

LEMMA SumAdd ==
  ASSUME NEW F, NEW S, IsFiniteSet(S), NEW x, x \notin S,
         \A y \in S \cup {x} : F[y] \in Nat
  PROVE  SumFunctionOnSet(F, S \cup {x}) = SumFunctionOnSet(F, S) + F[x]
<1>1. IsFiniteSet(S \cup {x}) /\ (S \cup {x}) \ {x} = S
  BY FS_AddElement
<1>2. SumFunctionOnSet(F, S \cup {x}) = F[x] + SumFunctionOnSet(F, (S \cup {x}) \ {x})
  BY <1>1, SumRemove
<1>3. SumFunctionOnSet(F, S) \in Nat
  BY SumType
<1>4. SumFunctionOnSet(F, S \cup {x}) = F[x] + SumFunctionOnSet(F, S)
  BY <1>1, <1>2
<1>. QED BY <1>3, <1>4

(* A part sums up to no more than the whole. *)
LEMMA SumMonotone ==
  ASSUME NEW F, NEW S, IsFiniteSet(S), \A y \in S : F[y] \in Nat,
         NEW T \in SUBSET S
  PROVE  SumFunctionOnSet(F, T) <= SumFunctionOnSet(F, S)
<1>. DEFINE Sum(U) == SumFunctionOnSet(F, U)
            Bad == {k \in Nat : \E U \in SUBSET S : Cardinality(U) = k
                      /\ T \subseteq U /\ ~(Sum(T) <= Sum(U))}
<1>1. \A U \in SUBSET S : /\ IsFiniteSet(U) /\ Cardinality(U) \in Nat
                          /\ Sum(U) \in Nat
  <2>1. \A U \in SUBSET S : IsFiniteSet(U) /\ Cardinality(U) \in Nat
    BY FS_Subset, FS_CardinalityType
  <2>. QED BY <2>1, SumType
<1>2. Bad = {}
  <2>. SUFFICES ASSUME Bad # {} PROVE FALSE
    OBVIOUS
  <2>1. PICK m \in Bad : \A k \in Bad : m <= k
    BY LeastNumber
  <2>2. PICK U \in SUBSET S : Cardinality(U) = m /\ T \subseteq U /\ ~(Sum(T) <= Sum(U))
    BY <2>1
  <2>3. PICK x \in U : x \notin T
    BY <1>1, <2>2
  <2>. DEFINE V == U \ {x}
  <2>4. V \in SUBSET S /\ T \subseteq V /\ Cardinality(V) \in Nat /\ Cardinality(V) < m
    BY <1>1, <2>2, <2>3, FS_RemoveElement
  <2>5. Sum(T) <= Sum(V)
    BY <2>1, <2>4
  <2>6. Sum(U) = F[x] + Sum(V)
    BY <1>1, SumRemove
  <2>7. Sum(T) \in Nat /\ Sum(U) \in Nat /\ Sum(V) \in Nat /\ F[x] \in Nat
    BY <1>1, <2>4
  <2>. HIDE DEF Sum
  <2>. QED BY <2>2, <2>5, <2>6, <2>7
<1>3. Cardinality(S) \notin Bad /\ Cardinality(S) \in Nat
  BY <1>1, <1>2
<1>. QED BY <1>3

(* Only the values on the set matter. *)
LEMMA SumOfEqual ==
  ASSUME NEW F, NEW G, NEW S, IsFiniteSet(S), \A y \in S : F[y] = G[y]
  PROVE  SumFunctionOnSet(F, S) = SumFunctionOnSet(G, S)
<1>. DEFINE Bad == {k \in Nat : \E T \in SUBSET S : Cardinality(T) = k
                      /\ SumFunctionOnSet(F, T) # SumFunctionOnSet(G, T)}
<1>1. \A T \in SUBSET S : IsFiniteSet(T) /\ Cardinality(T) \in Nat
  BY FS_Subset, FS_CardinalityType
<1>2. Bad = {}
  <2>. SUFFICES ASSUME Bad # {} PROVE FALSE
    OBVIOUS
  <2>1. PICK m \in Bad : \A k \in Bad : m <= k
    BY LeastNumber
  <2>2. PICK T \in SUBSET S : /\ Cardinality(T) = m
                             /\ SumFunctionOnSet(F, T) # SumFunctionOnSet(G, T)
    BY <2>1
  <2>3. T # {}
    BY <2>2, SumEmpty
  <2>. DEFINE c == First(T)
              U == T \ {c}
  <2>4. /\ c \in T /\ U \in SUBSET S /\ Cardinality(U) \in Nat /\ Cardinality(U) < m
    BY <1>1, <2>2, <2>3, FirstRemoved
  <2>5. SumFunctionOnSet(F, U) = SumFunctionOnSet(G, U)
    BY <2>1, <2>4
  <2>6. /\ SumFunctionOnSet(F, T) = F[c] + SumFunctionOnSet(F, U)
        /\ SumFunctionOnSet(G, T) = G[c] + SumFunctionOnSet(G, U)
    BY <1>1, <2>3, SumFirst
  <2>7. F[c] = G[c]
    BY <2>4
  <2>. HIDE DEF c, U
  <2>. QED BY <2>2, <2>5, <2>6, <2>7
<1>3. Cardinality(S) \notin Bad /\ Cardinality(S) \in Nat
  BY <1>1, <1>2
<1>. QED BY <1>3

(* One value changed changes the sum by as much. *)
LEMMA SumChanged ==
  ASSUME NEW F, NEW G, NEW S, IsFiniteSet(S), NEW x \in S,
         \A y \in S : F[y] \in Nat /\ G[y] \in Nat,
         \A y \in S \ {x} : F[y] = G[y]
  PROVE  SumFunctionOnSet(G, S) + F[x] = SumFunctionOnSet(F, S) + G[x]
<1>1. IsFiniteSet(S \ {x})
  BY FS_RemoveElement
<1>2. /\ SumFunctionOnSet(F, S) = F[x] + SumFunctionOnSet(F, S \ {x})
      /\ SumFunctionOnSet(G, S) = G[x] + SumFunctionOnSet(G, S \ {x})
  BY SumRemove
<1>3. SumFunctionOnSet(F, S \ {x}) = SumFunctionOnSet(G, S \ {x})
  BY <1>1, SumOfEqual
<1>4. SumFunctionOnSet(F, S \ {x}) \in Nat
  BY <1>1, SumType
<1>. QED BY <1>2, <1>3, <1>4

(* Values that are no larger make a sum that is no larger. *)
LEMMA SumBelow ==
  ASSUME NEW F, NEW G, NEW S, IsFiniteSet(S),
         \A y \in S : F[y] \in Nat /\ G[y] \in Nat /\ F[y] <= G[y]
  PROVE  SumFunctionOnSet(F, S) <= SumFunctionOnSet(G, S)
<1>. DEFINE Bad == {k \in Nat : \E T \in SUBSET S : Cardinality(T) = k
                      /\ ~(SumFunctionOnSet(F, T) <= SumFunctionOnSet(G, T))}
<1>1. \A T \in SUBSET S : /\ IsFiniteSet(T) /\ Cardinality(T) \in Nat
                          /\ SumFunctionOnSet(F, T) \in Nat
                          /\ SumFunctionOnSet(G, T) \in Nat
  <2>1. \A T \in SUBSET S : IsFiniteSet(T) /\ Cardinality(T) \in Nat
    BY FS_Subset, FS_CardinalityType
  <2>. QED BY <2>1, SumType
<1>2. Bad = {}
  <2>. SUFFICES ASSUME Bad # {} PROVE FALSE
    OBVIOUS
  <2>1. PICK m \in Bad : \A k \in Bad : m <= k
    BY LeastNumber
  <2>2. PICK T \in SUBSET S : /\ Cardinality(T) = m
                             /\ ~(SumFunctionOnSet(F, T) <= SumFunctionOnSet(G, T))
    BY <2>1
  <2>3. T # {}
    BY <2>2, SumEmpty
  <2>. DEFINE c == First(T)
              U == T \ {c}
  <2>4. /\ c \in T /\ U \in SUBSET S /\ Cardinality(U) \in Nat /\ Cardinality(U) < m
    BY <1>1, <2>2, <2>3, FirstRemoved
  <2>5. SumFunctionOnSet(F, U) <= SumFunctionOnSet(G, U)
    BY <2>1, <2>4
  <2>6. /\ SumFunctionOnSet(F, T) = F[c] + SumFunctionOnSet(F, U)
        /\ SumFunctionOnSet(G, T) = G[c] + SumFunctionOnSet(G, U)
    BY <1>1, <2>3, SumFirst
  <2>7. F[c] \in Nat /\ G[c] \in Nat /\ F[c] <= G[c]
    BY <2>4
  <2>8. SumFunctionOnSet(F, U) \in Nat /\ SumFunctionOnSet(G, U) \in Nat
    BY <1>1, <2>4
  <2>. HIDE DEF c, U
  <2>. QED BY <2>2, <2>5, <2>6, <2>7, <2>8
<1>3. Cardinality(S) \notin Bad /\ Cardinality(S) \in Nat
  BY <1>1, <1>2
<1>. QED BY <1>1, <1>3

=============================================================================
