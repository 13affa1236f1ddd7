------------------------ MODULE Observations_proofs ------------------------
(***************************************************************************)
(* Theorems of Observations, for every value of its constants: of each of  *)
(* the components an inductive invariant, which that component's steps     *)
(* keep and the others' leave alone.                                       *)
(***************************************************************************)
EXTENDS Observations, SumTheorems

-----------------------------------------------------------------------------
(* Folds over finite sets: they exist, and what holds of the empty set and *)
(* is kept by one more element holds of all.                               *)

LEMMA SetInduction ==
  ASSUME NEW S, IsFiniteSet(S), NEW P, {} \in P,
         \A T \in SUBSET S : T # {} /\ T \notin P => \E x \in T : T \ {x} \notin P
  PROVE  \A T \in SUBSET S : T \in P
<1> DEFINE Bad == {k \in Nat : \E T \in SUBSET S : Cardinality(T) = k /\ T \notin P}
<1> SUFFICES ASSUME NEW T \in SUBSET S, T \notin P PROVE FALSE
  OBVIOUS
<1>1. \A U \in SUBSET S : IsFiniteSet(U) /\ Cardinality(U) \in Nat
  BY FS_Subset, FS_CardinalityType
<1>2. Cardinality(T) \in Bad
  BY <1>1
<1>3. PICK m \in Bad : \A k \in Bad : m <= k
  BY <1>2, LeastNumber
<1>4. PICK U \in SUBSET S : Cardinality(U) = m /\ U \notin P
  BY <1>3
<1>5. PICK x \in U : U \ {x} \notin P
  BY <1>4
<1>6. Cardinality(U \ {x}) = m - 1
  BY <1>1, <1>4, FS_RemoveElement
<1>7. U \ {x} \in SUBSET S
  OBVIOUS
<1>8. m - 1 \in Bad
  BY <1>1, <1>5, <1>6, <1>7
<1> QED
  BY <1>3, <1>8

LEMMA NumberInduction ==
  ASSUME NEW n \in Nat, NEW P, 0 \in P, \A k \in 1 .. n : k - 1 \in P => k \in P
  PROVE  \A k \in 0 .. n : k \in P
<1> DEFINE Bad == {k \in 0 .. n : k \notin P}
<1> SUFFICES ASSUME Bad # {} PROVE FALSE
  OBVIOUS
<1>0. Bad \in SUBSET Nat /\ Bad # {}
  OBVIOUS
<1> HIDE DEF Bad
<1>1. PICK m \in Bad : \A k \in Bad : m <= k
  BY <1>0, LeastNumber
<1> USE DEF Bad
<1>2. m \in 1 .. n
  BY <1>1
<1>3. m - 1 \notin Bad
  BY <1>1, <1>2
<1> QED
  BY <1>1, <1>2, <1>3

Folded(step, pick, base, T, g) ==
  IF T = {} THEN base ELSE step[pick[T]][g[T \ {pick[T]}]]
IsFold(step, pick, base, S, g) == \A T \in SUBSET S : g[T] = Folded(step, pick, base, T, g)
Picks(pick, S) == \A T \in SUBSET S : T # {} => pick[T] \in T

LEMMA FoldsExist ==
  ASSUME NEW S, IsFiniteSet(S), NEW step, NEW base, NEW pick, Picks(pick, S)
  PROVE  \E g : IsFold(step, pick, base, S, g)
<1> DEFINE Upto(g, k) == \A T \in SUBSET S :
                           Cardinality(T) <= k => g[T] = Folded(step, pick, base, T, g)
           Has(k) == \E g : Upto(g, k)
           P == {k \in Nat : Has(k)}
<1>1. \A T \in SUBSET S : IsFiniteSet(T) /\ Cardinality(T) \in Nat
                          /\ Cardinality(T) <= Cardinality(S)
  BY FS_Subset, FS_CardinalityType
<1>2. Cardinality(S) \in Nat
  BY <1>1
<1>3. 0 \in P
  <2>1. Upto([T \in SUBSET S |-> base], 0)
    BY <1>1, FS_EmptySet DEF Folded
  <2> QED
    BY <2>1
<1>4. ASSUME NEW k \in 1 .. Cardinality(S), k - 1 \in P
      PROVE  k \in P
  <2>1. PICK g : Upto(g, k - 1)
    BY <1>4
  <2> DEFINE h == [T \in SUBSET S |-> IF Cardinality(T) <= k - 1 THEN g[T]
                                      ELSE Folded(step, pick, base, T, g)]
  <2>2. ASSUME NEW T \in SUBSET S, Cardinality(T) <= k
        PROVE  h[T] = Folded(step, pick, base, T, h)
    <3>1. h[T] = Folded(step, pick, base, T, g)
      BY <2>1
    <3>2. ASSUME T # {}
          PROVE  h[T \ {pick[T]}] = g[T \ {pick[T]}]
      <4>1. pick[T] \in T /\ IsFiniteSet(T) /\ Cardinality(T) \in Nat
        BY <1>1, <3>2 DEF Picks
      <4>2. Cardinality(T \ {pick[T]}) = Cardinality(T) - 1
        BY <4>1, FS_RemoveElement
      <4>3. Cardinality(T \ {pick[T]}) <= k - 1
        BY <1>2, <2>2, <4>1, <4>2
      <4> QED
        BY <4>3
    <3> QED
      BY <3>1, <3>2 DEF Folded
  <2>3. \E f : Upto(f, k)
    <3>1. Upto(h, k)
      BY <2>2
    <3> HIDE DEF h
    <3> QED
      BY <3>1
  <2> QED
    BY <1>2, <2>3
<1> HIDE DEF P
<1>5. Cardinality(S) \in P
  BY <1>2, <1>3, <1>4, NumberInduction
<1>6. PICK g : Upto(g, Cardinality(S))
  BY <1>5 DEF P
<1>7. IsFold(step, pick, base, S, g)
  BY <1>1, <1>6 DEF IsFold
<1> QED
  BY <1>7

(* A fold whose steps stay in A.                                           *)
LEMMA FoldsStay ==
  ASSUME NEW S, IsFiniteSet(S), NEW A, NEW step \in [S -> [A -> A]], NEW base \in A, NEW pick,
         Picks(pick, S)
  PROVE  \E g \in [SUBSET S -> A] : IsFold(step, pick, base, S, g)
<1>0. PICK f : IsFold(step, pick, base, S, f)
  BY FoldsExist
<1>1. \A T \in SUBSET S : f[T] = Folded(step, pick, base, T, f)
  BY <1>0 DEF IsFold
<1> DEFINE P == {T \in SUBSET S : f[T] \in A}
<1>2. {} \in P
  BY <1>1 DEF Folded
<1>3. ASSUME NEW T \in SUBSET S, T # {}, T \notin P
      PROVE  \E x \in T : T \ {x} \notin P
  <2>1. pick[T] \in T /\ pick[T] \in S
    BY <1>3 DEF Picks
  <2>2. f[T] = step[pick[T]][f[T \ {pick[T]}]]
    BY <1>1, <1>3 DEF Folded
  <2>3. f[T \ {pick[T]}] \notin A
    BY <1>3, <2>1, <2>2
  <2> QED
    BY <2>1, <2>3
<1> HIDE DEF P
<1>4. \A T \in SUBSET S : T \in P
  BY <1>2, <1>3, SetInduction
<1>5. \A T \in SUBSET S : f[T] \in A
  BY <1>4 DEF P
<1> DEFINE g == [T \in SUBSET S |-> f[T]]
<1>6. g \in [SUBSET S -> A]
  BY <1>5
<1>7. ASSUME NEW T \in SUBSET S
      PROVE  g[T] = Folded(step, pick, base, T, g)
  <2>1. f[T] = Folded(step, pick, base, T, f)
    BY <1>1
  <2>2. g[T \ {pick[T]}] = f[T \ {pick[T]}]
    OBVIOUS
  <2> HIDE DEF g
  <2>3. g[T] = f[T]
    BY DEF g
  <2> QED
    BY <2>1, <2>2, <2>3 DEF Folded
<1>8. IsFold(step, pick, base, S, g)
  BY <1>7 DEF IsFold
<1> QED
  BY <1>6, <1>8

-----------------------------------------------------------------------------
(* Dashboards. *)

(* A finite set of numbers has a least and a greatest element.             *)
LEMMA BoundedMax ==
  ASSUME NEW S \in SUBSET Int, NEW x \in S, NEW b \in Int, \A y \in S : y <= b
  PROVE  \E m \in S : \A y \in S : y <= m
<1> DEFINE T == {n \in Nat : b - n \in S}
<1>1. b - x \in T
  OBVIOUS
<1>2. PICK n \in T : \A m \in T : n <= m
  BY <1>1, LeastNumber
<1>3. \A y \in S : b - y \in T
  OBVIOUS
<1>4. ASSUME NEW y \in S
      PROVE  y <= b - n
  <2>1. y \in Int /\ b - y \in T /\ n \in Nat
    BY <1>2, <1>3
  <2>2. n <= b - y
    BY <1>2, <2>1
  <2> QED
    BY <2>1, <2>2
<1>5. b - n \in S
  BY <1>2
<1> QED
  BY <1>4, <1>5

LEMMA NextOrderAbove ==
  ASSUME NEW k \in Nat, \A d \in Boards!Boards : board[d].order \in 0 .. k - 1, NEW e
  PROVE  /\ Boards!NextOrder(e) \in 0 .. k
         /\ \A d \in Boards!Boards : board[d].order < Boards!NextOrder(e)
<1> DEFINE S == {-1} \cup {board[d].order : d \in Boards!Boards}
<1>1. S \in SUBSET Int /\ -1 \in S /\ \A y \in S : y <= k - 1
  OBVIOUS
<1> HIDE DEF S
<1>2. \E m \in S : \A y \in S : m >= y
  <2>1. k - 1 \in Int
    OBVIOUS
  <2>2. \E m \in S : \A y \in S : y <= m
    BY <1>1, <2>1, BoundedMax
  <2> QED
    BY <1>1, <2>2
<1>3. Boards!Max(S) \in S /\ \A y \in S : Boards!Max(S) >= y
  BY <1>2 DEF Boards!Max
<1>4. Boards!Max(S) \in Int /\ -1 <= Boards!Max(S) /\ Boards!Max(S) <= k - 1
  BY <1>1, <1>3
<1>5. Boards!NextOrder(e) = 1 + Boards!Max(S)
  BY DEF S, Boards!NextOrder
<1>6. \A d \in Boards!Boards : board[d].order <= Boards!Max(S)
  BY <1>1, <1>3 DEF S
<1> QED
  BY <1>4, <1>5, <1>6

LEMMA BoardsLibrary == \A S : Boards!Cardinality(S) = Cardinality(S)
<1> TAKE S
<1> QED
  BY DEF Boards!Cardinality, Cardinality

(* IInv of Dashboards but for the requests in progress. *)
BoardsCore ==
  /\ DOMAIN board \subseteq used /\ used \subseteq BoardIds
  /\ board \in [DOMAIN board -> Boards!Board]
  /\ active \in BoardIds \cup {Boards!Nobody}
  /\ Boards!Boards # {} => \E d \in Boards!Boards : Boards!Defaults = {d}
  /\ Boards!ActiveIsThere /\ Boards!OneIsKept /\ Boards!OrderIsTotal
  /\ \A d \in Boards!Boards : board[d].order < Cardinality(used)

LEMMA BoardsParts ==
  Boards!IInv <=> BoardsCore /\ dashboardsThread \in [BoardRequests -> Boards!Thread]
<1>1. Boards!IInv => BoardsCore
  BY BoardsLibrary DEF Boards!IInv, Boards!TypeOK, BoardsCore
<1>2. Boards!IInv => dashboardsThread \in [BoardRequests -> Boards!Thread]
  BY DEF Boards!IInv, Boards!TypeOK
<1>3. BoardsCore /\ dashboardsThread \in [BoardRequests -> Boards!Thread] => Boards!IInv
  BY BoardsLibrary DEF Boards!IInv, Boards!TypeOK, BoardsCore
<1> QED
  BY <1>1, <1>2, <1>3

LEMMA BoardsPartsNext ==
  ASSUME BoardsCore', (dashboardsThread \in [BoardRequests -> Boards!Thread])'
  PROVE  Boards!IInv'
BY BoardsLibrary DEF Boards!IInv, Boards!TypeOK, BoardsCore

(* INSERT takes a place of its own at the end, as the default only if      *)
(* there is none.                                                          *)
LEMMA CreateKeepsBoards ==
  ASSUME BoardsCore, NEW name \in Labels \cup {Boards!First}, NEW default \in BOOLEAN,
         NEW look \in Boards!Looks, NEW makeActive \in BOOLEAN,
         Boards!CreateDashboard(name, default, look, makeActive)
  PROVE  BoardsCore'
<1> DEFINE B == Boards!Boards
           isDefault == default \/ B = {}
<1>1. CASE UNCHANGED <<board, active, used>>
  BY <1>1 DEF BoardsCore, Boards!Boards, Boards!Defaults, Boards!ActiveIsThere,
     Boards!OneIsKept, Boards!OrderIsTotal
<1>2. ASSUME NEW d \in BoardIds \ used, isDefault => Boards!Defaults = {},
             used' = used \cup {d},
             board' = [e \in B \cup {d} |-> IF e = d
               THEN [name |-> name, order |-> Boards!NextOrder(d), default |-> isDefault,
                     look |-> look] ELSE board[e]],
             active' = IF makeActive \/ B = {} THEN d ELSE active
      PROVE  BoardsCore'
  <2> DEFINE k == Cardinality(used)
             row == [name |-> name, order |-> Boards!NextOrder(d), default |-> isDefault,
                     look |-> look]
  <2>1. /\ IsFiniteSet(used) /\ IsFiniteSet(BoardIds) /\ k \in Nat
        /\ Cardinality(used') = k + 1 /\ k + 1 <= Cardinality(BoardIds)
        /\ Cardinality(BoardIds) \in Nat
    <3>1. used \cup {d} \subseteq BoardIds
      BY DEF BoardsCore
    <3> QED
      BY <1>2, <3>1, BoardsAssumption, FS_Subset, FS_AddElement, FS_CardinalityType
  <2>2. \A e \in B : board[e].order \in 0 .. k - 1
    BY <2>1, BoardsLibrary DEF BoardsCore, Boards!Boards, Boards!Board
  <2>3. /\ Boards!NextOrder(d) \in 0 .. k
        /\ \A e \in B : board[e].order < Boards!NextOrder(d)
    BY <2>1, <2>2, NextOrderAbove
  <2>4. /\ DOMAIN board' = B \cup {d} /\ Boards!Boards' = B \cup {d} /\ d \notin B
        /\ board'[d] = row /\ \A e \in B : board'[e] = board[e]
    BY <1>2 DEF Boards!Boards, BoardsCore
  <2>5. row \in Boards!Board
    BY <2>1, <2>3, BoardsLibrary DEF Boards!Board
  <2>6. board' \in [DOMAIN board' -> Boards!Board]
    BY <1>2, <2>4, <2>5 DEF BoardsCore, Boards!Boards
  <2>7. DOMAIN board' \subseteq used' /\ used' \subseteq BoardIds
        /\ active' \in BoardIds \cup {Boards!Nobody}
    BY <1>2, <2>4 DEF BoardsCore, Boards!Boards
  <2>8. \E e \in Boards!Boards' : Boards!Defaults' = {e}
    <3>1. CASE isDefault
      <4>1. \A e \in B : ~board[e].default
        BY <1>2, <3>1 DEF Boards!Defaults
      <4>4. board'[d].default = isDefault
        BY <2>4
      <4>5. isDefault = TRUE
        BY <3>1
      <4>2. board'[d].default /\ \A e \in B : ~board'[e].default
        BY <2>4, <4>1, <4>4, <4>5
      <4>3. Boards!Defaults' = {d}
        BY <2>4, <4>2 DEF Boards!Defaults
      <4> QED
        BY <2>4, <4>3
    <3>2. CASE ~isDefault
      <4>1. PICK e \in B : Boards!Defaults = {e}
        BY <3>2 DEF BoardsCore
      <4> QED
        BY <2>4, <3>2, <4>1 DEF Boards!Defaults
    <3> QED
      BY <3>1, <3>2
  <2>9. Boards!ActiveIsThere'
    BY <1>2, <2>4 DEF BoardsCore, Boards!ActiveIsThere, Boards!Boards
  <2>10. Boards!OneIsKept'
    BY <2>4 DEF Boards!OneIsKept
  <2>11. Boards!OrderIsTotal'
    BY <2>2, <2>3, <2>4 DEF BoardsCore, Boards!OrderIsTotal
  <2>12. \A e \in Boards!Boards' : board'[e].order < Cardinality(used')
    BY <2>1, <2>2, <2>3, <2>4
  <2> QED
    BY <2>6, <2>7, <2>8, <2>9, <2>10, <2>11, <2>12 DEF BoardsCore
<1> QED
  BY <1>1, <1>2 DEF Boards!CreateDashboard, Boards!Allowed

(* Writing the name or the look leaves what the order and the default are. *)
LEMMA WriteKeepsBoards ==
  ASSUME BoardsCore, UNCHANGED <<active, used>>,
         board' \in [DOMAIN board -> Boards!Board],
         \A d \in Boards!Boards : /\ board'[d].order = board[d].order
                                  /\ board'[d].default = board[d].default
  PROVE  BoardsCore'
<1>1. DOMAIN board' = DOMAIN board /\ Boards!Boards' = Boards!Boards
  BY DEF Boards!Boards
<1>2. Boards!Defaults' = Boards!Defaults
  BY <1>1 DEF Boards!Defaults
<1>3. Boards!ActiveIsThere' /\ Boards!OneIsKept'
  BY <1>1 DEF BoardsCore, Boards!ActiveIsThere, Boards!OneIsKept
<1>4. Boards!OrderIsTotal'
  BY <1>1 DEF BoardsCore, Boards!OrderIsTotal
<1>5. \A d \in Boards!Boards' : board'[d].order < Cardinality(used')
  BY <1>1 DEF BoardsCore
<1> QED
  BY <1>1, <1>2, <1>3, <1>4, <1>5 DEF BoardsCore

LEMMA DefaultMoves ==
  ASSUME BoardsCore, UNCHANGED <<active, used>>, NEW e \in Boards!Boards,
         board' = [d \in Boards!Boards |-> [board[d] EXCEPT !.default = d = e]]
  PROVE  BoardsCore'
<1>1. DOMAIN board' = DOMAIN board /\ Boards!Boards' = Boards!Boards
  BY DEF Boards!Boards
<1>2. ASSUME NEW d \in Boards!Boards
      PROVE  /\ board'[d] \in Boards!Board /\ board'[d].order = board[d].order
             /\ board'[d].default <=> d = e
  <2>1. board[d] \in Boards!Board /\ board'[d] = [board[d] EXCEPT !.default = d = e]
    BY DEF BoardsCore, Boards!Boards
  <2> QED
    BY <2>1 DEF Boards!Board
<1>3. board' \in [DOMAIN board' -> Boards!Board]
  BY <1>1, <1>2 DEF Boards!Boards
<1>4. Boards!Defaults' = {e}
  BY <1>1, <1>2 DEF Boards!Defaults
<1>5. Boards!ActiveIsThere' /\ Boards!OneIsKept'
  BY <1>1 DEF BoardsCore, Boards!ActiveIsThere, Boards!OneIsKept
<1>6. Boards!OrderIsTotal'
  BY <1>1, <1>2 DEF BoardsCore, Boards!OrderIsTotal
<1>7. \A d \in Boards!Boards' : board'[d].order < Cardinality(used')
  BY <1>1, <1>2 DEF BoardsCore
<1> QED
  BY <1>1, <1>3, <1>4, <1>5, <1>6, <1>7 DEF BoardsCore

(* The fallback is there: the default, or else the first in order.         *)
LEMMA FallbackIsOneOfTheRest ==
  ASSUME BoardsCore, NEW rest \in SUBSET Boards!Boards, rest # {}
  PROVE  /\ Boards!Fallback(rest) \in rest
         /\ \A d \in rest : board[d].default => Boards!Fallback(rest) = d
<1> DEFINE Better(d, e) ==
      \/ board[d].default /\ ~board[e].default
      \/ board[d].default = board[e].default /\ Boards!Before(d, e)
<1>1. PICK f \in Boards!Boards : Boards!Defaults = {f}
  BY DEF BoardsCore
<1>2. \A d \in Boards!Boards : /\ board[d].default \in BOOLEAN /\ board[d].order \in Nat
                               /\ board[d].default <=> d = f
  <2>1. \A d \in Boards!Boards : board[d] \in Boards!Board
    BY DEF BoardsCore, Boards!Boards
  <2>2. Boards!Cardinality(BoardIds) \in Nat
    BY BoardsLibrary, BoardsAssumption, FS_CardinalityType
  <2> QED
    BY <1>1, <2>1, <2>2 DEF Boards!Board, Boards!Defaults
<1>3. \E d \in rest : \A e \in rest \ {d} : Better(d, e)
  <2>1. CASE f \in rest
    BY <1>2, <2>1
  <2>2. CASE f \notin rest
    <3> DEFINE T == {board[d].order : d \in rest}
    <3>1. T \in SUBSET Nat /\ T # {}
      BY <1>2
    <3>2. PICK n \in T : \A m \in T : n <= m
      BY <3>1, LeastNumber
    <3>3. PICK d \in rest : board[d].order = n
      OBVIOUS
    <3>4. ASSUME NEW e \in rest \ {d}
          PROVE  Better(d, e)
      <4>1. board[d].order # board[e].order
        BY DEF BoardsCore, Boards!OrderIsTotal
      <4>2. board[d].order <= board[e].order
        BY <3>2, <3>3
      <4>3. board[d].order \in Nat /\ board[e].order \in Nat
        BY <1>2
      <4>4. Boards!Before(d, e)
        BY <4>1, <4>2, <4>3 DEF Boards!Before
      <4>5. board[d].default = board[e].default
        BY <1>2, <2>2
      <4> QED
        BY <4>4, <4>5
    <3> QED
      BY <3>4
  <2> QED
    BY <2>1, <2>2
<1>4. /\ Boards!Fallback(rest) \in rest
      /\ \A e \in rest \ {Boards!Fallback(rest)} : Better(Boards!Fallback(rest), e)
  BY <1>3 DEF Boards!Fallback
<1> QED
  BY <1>2, <1>4

LEMMA DeleteKeepsBoards ==
  ASSUME BoardsCore, NEW d \in BoardIds, Boards!DeleteDashboard(d)
  PROVE  BoardsCore'
<1> DEFINE rest == Boards!Boards \ {d}
           f == Boards!Fallback(rest)
<1>1. d \in Boards!Boards /\ rest # {} /\ UNCHANGED used
  <2>1. /\ d \in Boards!Boards /\ Cardinality(Boards!Boards) > 1 /\ UNCHANGED used
        /\ IsFiniteSet(Boards!Boards)
    BY BoardsLibrary, BoardsAssumption, FS_Subset
       DEF Boards!DeleteDashboard, Boards!CanDelete, BoardsCore, Boards!Boards
  <2>2. rest # {}
    <3>1. rest = {} => Boards!Boards = {d}
      BY <2>1
    <3> QED
      BY <2>1, <3>1, FS_Singleton
  <2> QED
    BY <2>1, <2>2
<1>2. f \in rest /\ \A e \in rest : board[e].default => f = e
  BY <1>1, FallbackIsOneOfTheRest
<1>3. /\ board' = [Boards!Rows(rest) EXCEPT ![f].default = @ \/ board[d].default]
      /\ active' = IF active \in {d, Boards!Nobody} THEN f ELSE active
  BY <1>1 DEF Boards!DeleteDashboard, Boards!Promoted
<1> HIDE DEF f, rest
<1>4. \A e \in Boards!Boards : board[e] \in Boards!Board
  BY DEF BoardsCore, Boards!Boards
<1>5. rest = Boards!Boards \ {d}
  BY DEF rest
<1>6. /\ DOMAIN board' = rest /\ Boards!Boards' = rest
      /\ \A e \in rest : /\ board'[e] \in Boards!Board /\ board'[e].order = board[e].order
                         /\ board'[e].default <=> board[e].default \/ (e = f /\ board[d].default)
  BY <1>2, <1>3, <1>4, <1>5 DEF Boards!Rows, Boards!Boards, Boards!Board
<1>7. board' \in [DOMAIN board' -> Boards!Board]
  BY <1>3, <1>6 DEF Boards!Rows
<1>8. \E e \in Boards!Boards' : Boards!Defaults' = {e}
  <2>1. PICK e \in Boards!Boards : Boards!Defaults = {e}
    BY <1>1 DEF BoardsCore
  <2>2. \A x \in Boards!Boards : board[x].default <=> x = e
    BY <2>1 DEF Boards!Defaults
  <2>3. \A x \in rest : board'[x].default <=> x = f
    BY <1>1, <1>2, <1>5, <1>6, <2>2
  <2> QED
    BY <1>2, <1>6, <2>3 DEF Boards!Defaults
<1>9. Boards!ActiveIsThere' /\ Boards!OneIsKept' /\ active' \in BoardIds
  BY <1>1, <1>2, <1>3, <1>5, <1>6
     DEF BoardsCore, Boards!ActiveIsThere, Boards!OneIsKept, Boards!Boards
<1>10. Boards!OrderIsTotal'
  BY <1>5, <1>6 DEF BoardsCore, Boards!OrderIsTotal
<1>11. \A e \in Boards!Boards' : board'[e].order < Cardinality(used')
  BY <1>1, <1>5, <1>6 DEF BoardsCore
<1>12. DOMAIN board' \subseteq used' /\ used' \subseteq BoardIds
  BY <1>1, <1>5, <1>6 DEF BoardsCore, Boards!Boards
<1> QED
  BY <1>7, <1>8, <1>9, <1>10, <1>11, <1>12 DEF BoardsCore

LEMMA BoardsSteps ==
  ASSUME Boards!IInv, Boards!Next
  PROVE  Boards!IInv'
<1> DEFINE Typed == dashboardsThread \in [BoardRequests -> Boards!Thread]
           Same == UNCHANGED <<board, active, used>>
<1> USE DEF Boards!Goals
<1>0. BoardsCore /\ Typed
  BY BoardsParts
<1>1. Same => BoardsCore'
  BY <1>0 DEF BoardsCore, Boards!Boards, Boards!Defaults, Boards!ActiveIsThere,
     Boards!OneIsKept, Boards!OrderIsTotal
<1>2. ASSUME NEW t \in BoardRequests, NEW v \in Boards!Thread, Boards!Goes(t, v)
      PROVE  Typed'
  BY <1>0, <1>2 DEF Boards!Goes
<1>3. \A t \in BoardRequests : Boards!Ends(t) => Typed'
  BY <1>0 DEF Boards!Ends, Boards!Thread
<1>4. \A d \in Boards!Boards : d \in BoardIds /\ board[d].look \in Boards!Looks
  BY <1>0 DEF BoardsCore, Boards!Boards, Boards!Board
<1>5. ASSUME NEW t \in BoardRequests, NEW d \in Boards!Boards,
             dashboardsThread[t].goal \in Boards!Goals
      PROVE  Boards!Reached(t, d) \in Boards!Thread
  BY <1>4, <1>5 DEF Boards!Reached, Boards!Thread, Boards!Looks
<1>6. ASSUME NEW t \in BoardRequests
      PROVE  /\ dashboardsThread[t].at \in {"preference", "first", "again"} =>
                  dashboardsThread[t].goal \in Boards!Goals
             /\ dashboardsThread[t].at \in {"create", "put"} =>
                  dashboardsThread[t].look \in Boards!Looks
             /\ dashboardsThread[t].at \in {"preference", "put", "active", "upsert", "default"} =>
                  dashboardsThread[t].id \in BoardIds
             /\ dashboardsThread[t].at = "first" =>
                  [dashboardsThread[t] EXCEPT !.at = "again"] \in Boards!Thread
  BY <1>0 DEF Boards!Thread, Boards!Idle
<1>7. ASSUME NEW t \in BoardRequests, NEW goal \in Boards!Goals, Boards!Begin(t, goal)
      PROVE  Boards!IInv'
  <2>1. Boards!Goes(t, IF active = Boards!Nobody THEN [at |-> "first", goal |-> goal]
                       ELSE [at |-> "preference", goal |-> goal, id |-> active]) /\ Same
    BY <1>7 DEF Boards!Begin
  <2>2. active # Boards!Nobody => active \in BoardIds
    BY <1>0 DEF BoardsCore
  <2>3. (IF active = Boards!Nobody THEN [at |-> "first", goal |-> goal]
         ELSE [at |-> "preference", goal |-> goal, id |-> active]) \in Boards!Thread
    BY <2>2 DEF Boards!Thread
  <2> QED
    BY <1>1, <1>2, <2>1, <2>3, BoardsPartsNext
<1>8. ASSUME NEW t \in BoardRequests, Boards!ReadPreference(t)
      PROVE  Boards!IInv'
  <2> DEFINE d == dashboardsThread[t].id
             v == IF d \in Boards!Boards THEN Boards!Reached(t, d)
                  ELSE [at |-> "first", goal |-> dashboardsThread[t].goal]
  <2>1. Boards!Goes(t, v) /\ Same /\ dashboardsThread[t].goal \in Boards!Goals
    BY <1>6, <1>8 DEF Boards!ReadPreference
  <2>2. v \in Boards!Thread
    BY <1>5, <2>1 DEF Boards!Thread
  <2> QED
    BY <1>1, <1>2, <2>1, <2>2, BoardsPartsNext
<1>9. ASSUME NEW t \in BoardRequests, Boards!CreateFirst(t)
      PROVE  Boards!IInv'
  <2>1. /\ Boards!CreateDashboard(Boards!First, TRUE, "plain", TRUE)
        /\ Boards!Goes(t, [dashboardsThread[t] EXCEPT !.at = "again"])
        /\ [dashboardsThread[t] EXCEPT !.at = "again"] \in Boards!Thread
    BY <1>6, <1>9 DEF Boards!CreateFirst
  <2>2. BoardsCore'
    BY <1>0, <2>1, CreateKeepsBoards DEF Boards!Looks
  <2> QED
    BY <1>2, <2>1, <2>2, BoardsPartsNext
<1>10. ASSUME NEW t \in BoardRequests, Boards!ReadAgain(t)
       PROVE  Boards!IInv'
  <2> DEFINE v == IF active \in Boards!Boards THEN Boards!Reached(t, active) ELSE Boards!Idle
  <2>1. Boards!Goes(t, v) /\ Same /\ dashboardsThread[t].goal \in Boards!Goals
    BY <1>6, <1>10 DEF Boards!ReadAgain
  <2>2. v \in Boards!Thread
    BY <1>5, <2>1 DEF Boards!Thread
  <2> QED
    BY <1>1, <1>2, <2>1, <2>2, BoardsPartsNext
<1>11. ASSUME NEW t \in BoardRequests, NEW d \in BoardIds,
              \/ Boards!ReadSource(t, d) \/ Boards!ReadForPut(t, d) \/ Boards!CheckActive(t, d)
       PROVE  Boards!IInv'
  <2>1. \E v \in Boards!Thread : Boards!Goes(t, v) /\ Same
    <3>1. CASE Boards!ReadSource(t, d)
      <4>1. [at |-> "create", look |-> board[d].look] \in Boards!Thread
        BY <1>4, <3>1 DEF Boards!ReadSource, Boards!Thread
      <4> QED
        BY <3>1, <4>1 DEF Boards!ReadSource
    <3>2. CASE Boards!ReadForPut(t, d)
      <4>1. [at |-> "put", id |-> d, look |-> board[d].look] \in Boards!Thread
        BY <1>4, <3>2 DEF Boards!ReadForPut, Boards!Thread
      <4> QED
        BY <3>2, <4>1 DEF Boards!ReadForPut
    <3>3. CASE Boards!CheckActive(t, d)
      <4>1. [at |-> "upsert", id |-> d] \in Boards!Thread /\ Boards!Idle \in Boards!Thread
        BY DEF Boards!Thread
      <4> QED
        BY <3>3, <4>1 DEF Boards!CheckActive
    <3> QED
      BY <1>11, <3>1, <3>2, <3>3
  <2> QED
    BY <1>1, <1>2, <2>1, BoardsPartsNext
<1>12. ASSUME NEW t \in BoardRequests, NEW name \in Labels, NEW makeActive \in BOOLEAN,
              Boards!Create(t, name, makeActive)
       PROVE  Boards!IInv'
  <2>1. /\ Boards!CreateDashboard(name, FALSE, dashboardsThread[t].look, makeActive)
        /\ Boards!Ends(t) /\ dashboardsThread[t].look \in Boards!Looks
    BY <1>6, <1>12 DEF Boards!Create
  <2>2. BoardsCore'
    BY <1>0, <2>1, CreateKeepsBoards
  <2> QED
    BY <1>3, <2>1, <2>2, BoardsPartsNext
<1>13. ASSUME NEW t \in BoardRequests, NEW look \in Boards!Looks \cup {"as read"},
              Boards!PutDashboard(t, look)
       PROVE  Boards!IInv'
  <2> DEFINE d == dashboardsThread[t].id
             new == IF look = "as read" THEN dashboardsThread[t].look ELSE look
  <2>1. /\ board' = IF d \notin Boards!Boards THEN board ELSE [board EXCEPT ![d].look = new]
        /\ Boards!Ends(t) /\ UNCHANGED <<active, used>> /\ new \in Boards!Looks
    BY <1>6, <1>13 DEF Boards!PutDashboard
  <2>2. CASE d \notin Boards!Boards
    BY <1>1, <1>3, <2>1, <2>2, BoardsPartsNext
  <2>3. CASE d \in Boards!Boards
    <3> HIDE DEF d, new
    <3>1. /\ board' \in [DOMAIN board -> Boards!Board]
          /\ \A e \in Boards!Boards : /\ board'[e].order = board[e].order
                                      /\ board'[e].default = board[e].default
      BY <1>0, <2>1, <2>3 DEF BoardsCore, Boards!Boards, Boards!Board
    <3>2. BoardsCore'
      BY <1>0, <2>1, <3>1, WriteKeepsBoards
    <3> QED
      BY <1>3, <2>1, <3>2, BoardsPartsNext
  <2> QED
    BY <2>2, <2>3
<1>14. ASSUME NEW t \in BoardRequests, NEW d \in BoardIds, NEW name \in Labels,
              Boards!RenameDashboard(t, d, name)
       PROVE  Boards!IInv'
  <2>1. CASE Same /\ UNCHANGED dashboardsThread
    BY <1>0, <1>1, <2>1, BoardsPartsNext
  <2>2. CASE /\ d \in Boards!Boards /\ board' = [board EXCEPT ![d].name = name]
             /\ Boards!Goes(t, [at |-> "active", id |-> d]) /\ UNCHANGED <<active, used>>
    <3>1. /\ board' \in [DOMAIN board -> Boards!Board]
          /\ \A e \in Boards!Boards : /\ board'[e].order = board[e].order
                                      /\ board'[e].default = board[e].default
      BY <1>0, <2>2 DEF BoardsCore, Boards!Boards, Boards!Board
    <3>2. BoardsCore'
      BY <1>0, <2>2, <3>1, WriteKeepsBoards
    <3>3. [at |-> "active", id |-> d] \in Boards!Thread
      BY DEF Boards!Thread
    <3> QED
      BY <1>2, <2>2, <3>2, <3>3, BoardsPartsNext
  <2> QED
    BY <1>14, <2>1, <2>2 DEF Boards!RenameDashboard
<1>15. ASSUME NEW t \in BoardRequests, Boards!SetActiveDashboard(t)
       PROVE  Boards!IInv'
  <2> DEFINE d == dashboardsThread[t].id
  <2>1. /\ active' = (IF d \in Boards!Boards THEN d ELSE active) /\ UNCHANGED <<board, used>>
        /\ Boards!Goes(t, [at |-> "default", id |-> d]) /\ d \in BoardIds
    BY <1>6, <1>15 DEF Boards!SetActiveDashboard, Boards!Upserted
  <2>2. BoardsCore'
    BY <1>0, <2>1 DEF BoardsCore, Boards!Boards, Boards!Defaults, Boards!ActiveIsThere,
       Boards!OneIsKept, Boards!OrderIsTotal
  <2>3. [at |-> "default", id |-> d] \in Boards!Thread
    BY <2>1 DEF Boards!Thread
  <2> QED
    BY <1>2, <2>1, <2>2, <2>3, BoardsPartsNext
<1>16. ASSUME NEW t \in BoardRequests, Boards!SetDefaultDashboard(t)
       PROVE  Boards!IInv'
  <2> DEFINE d == dashboardsThread[t].id
  <2>1. /\ Boards!Ends(t) /\ UNCHANGED <<active, used>>
        /\ board' = IF d \in Boards!Boards
                    THEN [e \in Boards!Boards |-> [board[e] EXCEPT !.default = e = d]] ELSE board
    BY <1>16 DEF Boards!SetDefaultDashboard
  <2>2. BoardsCore'
    BY <1>0, <1>1, <2>1, DefaultMoves
  <2> QED
    BY <1>3, <2>1, <2>2, BoardsPartsNext
<1>17. ASSUME NEW t \in BoardRequests, Boards!PatchEnds(t)
       PROVE  Boards!IInv'
  BY <1>1, <1>3, <1>17, BoardsPartsNext DEF Boards!PatchEnds
<1>18. ASSUME NEW d \in BoardIds, Boards!DeleteDashboard(d)
       PROVE  Boards!IInv'
  <2>1. BoardsCore'
    BY <1>0, <1>18, DeleteKeepsBoards
  <2>2. UNCHANGED dashboardsThread
    BY <1>18 DEF Boards!DeleteDashboard
  <2> QED
    BY <1>0, <2>1, <2>2, BoardsPartsNext
<1> QED
  BY <1>7, <1>8, <1>9, <1>10, <1>11, <1>12, <1>13, <1>14, <1>15, <1>16, <1>17, <1>18
     DEF Boards!Next

LEMMA BoardsInitially == Init => Boards!IInv
<1> SUFFICES ASSUME Boards!Init PROVE Boards!IInv
  BY DEF Init
<1>1. dashboardsThread \in [BoardRequests -> Boards!Thread]
  BY DEF Boards!Init, Boards!Thread
<1>2. Boards!Boards = {} /\ used = {} /\ active = Boards!Nobody
  BY DEF Boards!Init, Boards!Boards
<1>3. board \in [DOMAIN board -> Boards!Board]
  BY DEF Boards!Init
<1>4. BoardsCore
  BY <1>2, <1>3 DEF BoardsCore, Boards!Boards, Boards!ActiveIsThere, Boards!OneIsKept,
     Boards!OrderIsTotal
<1> QED
  BY <1>1, <1>4, BoardsParts

(* However the requests of several pages overlap - the first dashboard is  *)
(* made by two at once, the active one deleted between two reads, the last *)
(* two deleted at once - a job that had a dashboard has one, exactly one   *)
(* is the default, the active one is there and no two share a place        *)
(* (CreateDashboard, DeleteDashboard, SetActiveDashboard,                  *)
(* SetDefaultDashboard of internal/store/dashboards.go).                   *)
THEOREM DashboardsStayConsistent == Spec => []DashboardsAreConsistent
<1>1. ASSUME Boards!IInv, [Next]_vars
      PROVE  Boards!IInv'
  <2>1. CASE part = "dashboards" /\ Boards!Next
    BY <1>1, <2>1, BoardsSteps
  <2>2. CASE UNCHANGED dashboardsVars
    BY <1>1, <2>2 DEF dashboardsVars, Boards!IInv, Boards!TypeOK, Boards!Boards,
       Boards!Defaults, Boards!ActiveIsThere, Boards!OneIsKept, Boards!OrderIsTotal
  <2> QED
    BY <1>1, <2>1, <2>2 DEF Next, vars
<1>2. ASSUME Boards!IInv
      PROVE  DashboardsAreConsistent
  <2>1. Boards!OneDefault
    <3>1. ASSUME Boards!Boards # {}
          PROVE  Boards!Cardinality(Boards!Defaults) = 1
      <4>1. PICK d \in Boards!Boards : Boards!Defaults = {d}
        BY <1>2, <3>1 DEF Boards!IInv
      <4> QED
        BY <4>1, BoardsLibrary, FS_Singleton
    <3> QED
      BY <3>1 DEF Boards!OneDefault
  <2> QED
    BY <1>2, <2>1 DEF DashboardsAreConsistent, Boards!IInv
<1> QED
  BY BoardsInitially, <1>1, <1>2, PTL DEF Spec

-----------------------------------------------------------------------------
(* Telemetry. *)

LEMMA ResourcesLibrary == \A S : Resources!Cardinality(S) = Cardinality(S)
<1> TAKE S
<1> QED
  BY DEF Resources!Cardinality, Cardinality

LEMMA StartOfBucket ==
  ASSUME NEW t \in Nat
  PROVE  /\ Resources!StartOf(t) \in Nat
         /\ Resources!StartOf(t) <= t /\ t < Resources!StartOf(t) + Bucket
<1> DEFINE q == t \div Bucket
<1>1. Bucket \in Nat /\ Bucket > 0
  BY TelemetryAssumption
<1>2. q \in Nat /\ q * Bucket <= t /\ t < q * Bucket + Bucket
  <2>1. q \in Int
    BY <1>1
  <2>2. Bucket * q <= t
    BY <1>1
  <2>3. t < Bucket * q + Bucket
    BY <1>1
  <2> HIDE DEF q
  <2>4. q * Bucket = Bucket * q
    BY <1>1, <2>1
  <2>5. q >= 0
    BY <1>1, <2>1, <2>3
  <2> QED
    BY <1>1, <2>1, <2>2, <2>3, <2>4, <2>5
<1> QED
  BY <1>1, <1>2 DEF Resources!StartOf

(* A bucket holds as many samples as it is long, and no more.              *)
LEMMA BucketHolds ==
  ASSUME NEW some \in SUBSET Nat, NEW b \in Nat
  PROVE  /\ IsFiniteSet(Resources!InBucket(some, b))
         /\ Cardinality(Resources!InBucket(some, b)) \in 0 .. Bucket
<1>1. Resources!InBucket(some, b) \subseteq b .. b + Bucket - 1
  <2> SUFFICES ASSUME NEW t \in Nat, Resources!StartOf(t) = b
               PROVE  t \in b .. b + Bucket - 1
    BY DEF Resources!InBucket
  <2> QED
    BY StartOfBucket, TelemetryAssumption
<1>2. IsFiniteSet(b .. b + Bucket - 1) /\ Cardinality(b .. b + Bucket - 1) = Bucket
  BY TelemetryAssumption, FS_Interval
<1>3. /\ IsFiniteSet(Resources!InBucket(some, b))
      /\ Cardinality(Resources!InBucket(some, b)) <= Bucket
  BY <1>1, <1>2, FS_Subset
<1> QED
  BY <1>3, TelemetryAssumption, FS_CardinalityType

LEMMA SampleKeepsResources ==
  ASSUME Resources!IInv, Resources!AppendResourceSample
  PROVE  Resources!IInv'
<1> USE TelemetryAssumption
<1> DEFINE In(some, b) == Resources!InBucket(some, b)
<1>1. /\ telemetryNow \in 0 .. RunTime /\ telemetryNow \notin stored
      /\ raw' = raw \cup {telemetryNow} /\ stored' = stored \cup {telemetryNow}
      /\ UNCHANGED <<telemetryNow, average, cutoff>>
      /\ raw \subseteq stored /\ stored \subseteq 0 .. telemetryNow
  BY DEF Resources!IInv, Resources!TypeOK, Resources!Times, Resources!AppendResourceSample
<1>2. Resources!TypeOK'
  BY <1>1 DEF Resources!IInv, Resources!TypeOK, Resources!Times
<1>3. Resources!NoSampleCountedTwice'
  <2> SUFFICES ASSUME NEW b \in Resources!Times
               PROVE  average[b] + Cardinality(In(raw', b)) <= Cardinality(In(stored', b))
    BY <1>1, ResourcesLibrary DEF Resources!NoSampleCountedTwice, Resources!InBucket,
       Resources!StartOf, Resources!Times
  <2>1. /\ IsFiniteSet(In(raw, b)) /\ IsFiniteSet(In(stored, b))
        /\ Cardinality(In(raw, b)) \in Nat /\ Cardinality(In(stored, b)) \in Nat
        /\ average[b] \in Nat
    BY <1>1, BucketHolds DEF Resources!IInv, Resources!TypeOK, Resources!Times
  <2>2. average[b] + Cardinality(In(raw, b)) <= Cardinality(In(stored, b))
    BY ResourcesLibrary DEF Resources!IInv, Resources!NoSampleCountedTwice
  <2>3. CASE Resources!StartOf(telemetryNow) = b
    <3>1. In(raw', b) = In(raw, b) \cup {telemetryNow}
      BY <1>1, <2>3 DEF Resources!InBucket
    <3>2. In(stored', b) = In(stored, b) \cup {telemetryNow}
      BY <1>1, <2>3 DEF Resources!InBucket
    <3>3. telemetryNow \notin In(raw, b) /\ telemetryNow \notin In(stored, b)
      BY <1>1 DEF Resources!InBucket
    <3> HIDE DEF In
    <3>4. /\ Cardinality(In(raw', b)) = Cardinality(In(raw, b)) + 1
          /\ Cardinality(In(stored', b)) = Cardinality(In(stored, b)) + 1
      BY <2>1, <3>1, <3>2, <3>3, FS_AddElement
    <3> QED
      BY <2>1, <2>2, <3>4
  <2>4. CASE Resources!StartOf(telemetryNow) # b
    <3>1. In(raw', b) = In(raw, b) /\ In(stored', b) = In(stored, b)
      BY <1>1, <2>4 DEF Resources!InBucket
    <3> QED
      BY <2>2, <3>1
  <2> QED
    BY <2>3, <2>4
<1>4. Resources!RecentIsRaw' /\ Resources!NoGap'
  BY <1>1 DEF Resources!IInv, Resources!RecentIsRaw, Resources!NoGap, Resources!RawCutoff,
     Resources!StartOf
<1> QED
  BY <1>1, <1>2, <1>3, <1>4 DEF Resources!IInv

(* An old sample is counted in its average in the statement before the one *)
(* that deletes it; an average is written once and never again.            *)
LEMMA CompactionKeepsResources ==
  ASSUME Resources!IInv, Resources!MaintainResourceTelemetry
  PROVE  Resources!IInv'
<1> USE TelemetryAssumption
<1> DEFINE In(some, b) == Resources!InBucket(some, b)
           R == Resources!RawCutoff
           E == Resources!RetentionCutoff
<1>1. /\ telemetryNow \in 0 .. RunTime /\ raw \subseteq stored
      /\ stored \subseteq 0 .. telemetryNow /\ cutoff \in 0 .. RunTime
      /\ average \in [0 .. RunTime -> 0 .. Bucket]
      /\ R = telemetryNow - RawRetention /\ E = telemetryNow - Retention
      /\ R \in Int /\ E \in Int /\ E <= R /\ E <= telemetryNow
  BY DEF Resources!IInv, Resources!TypeOK, Resources!Times, Resources!RawCutoff,
     Resources!RetentionCutoff
<1>2. /\ UNCHANGED <<telemetryNow, stored>>
      /\ raw' = {t \in raw : t >= R /\ ~(t < E)}
      /\ average' = [b \in 0 .. RunTime |-> IF b < E THEN 0 ELSE Resources!Compacted(b)]
      /\ cutoff' = Resources!Max({cutoff, E})
  BY DEF Resources!MaintainResourceTelemetry, Resources!KeptRaw, Resources!Forgotten,
     Resources!Times
<1>3. Resources!Old = {t \in raw : t < R /\ t >= E}
  BY DEF Resources!Old
<1> HIDE DEF R, E
<1>4. /\ cutoff' \in 0 .. RunTime /\ cutoff' >= E /\ cutoff' >= cutoff
      /\ cutoff' \in {cutoff, E}
  <2> DEFINE S == {cutoff, E}
  <2>1. \E m \in S : \A y \in S : m >= y
    BY <1>1
  <2>2. Resources!Max(S) \in S /\ \A y \in S : Resources!Max(S) >= y
    BY <2>1 DEF Resources!Max
  <2>3. cutoff' = Resources!Max(S)
    BY <1>2
  <2> QED
    BY <1>1, <2>2, <2>3
<1>5. ASSUME NEW b \in 0 .. RunTime
      PROVE  /\ Resources!Compacted(b) \in 0 .. Bucket
             /\ average'[b] \in 0 .. Bucket
             /\ average'[b] = IF b < E THEN 0 ELSE Resources!Compacted(b)
             /\ Resources!Compacted(b) =
                  IF average[b] # 0 THEN average[b] ELSE Cardinality(In(Resources!Old, b))
             /\ Cardinality(In(Resources!Old, b)) \in 0 .. Bucket
             /\ IsFiniteSet(In(Resources!Old, b))
  <2>1. Resources!Old \subseteq Nat
    <3>1. Resources!Old \subseteq raw
      BY <1>3
    <3> QED
      BY <1>1, <3>1
  <2>2. /\ Cardinality(In(Resources!Old, b)) \in 0 .. Bucket
        /\ IsFiniteSet(In(Resources!Old, b))
    BY <2>1, BucketHolds
  <2>3. Resources!Compacted(b) =
          IF average[b] # 0 THEN average[b] ELSE Cardinality(In(Resources!Old, b))
    BY ResourcesLibrary DEF Resources!Compacted
  <2>4. average[b] \in 0 .. Bucket
    BY <1>1
  <2>5. average'[b] = IF b < E THEN 0 ELSE Resources!Compacted(b)
    BY <1>2
  <2> HIDE DEF In
  <2> QED
    BY <2>2, <2>3, <2>4, <2>5
<1>6. Resources!TypeOK'
  <2>1. average' \in [0 .. RunTime -> 0 .. Bucket]
    <3>1. average' = [b \in 0 .. RunTime |-> average'[b]]
      BY <1>2
    <3> QED
      BY <1>5, <3>1
  <2>2. raw' \subseteq 0 .. RunTime /\ stored' \subseteq 0 .. RunTime
    <3>1. raw' \subseteq raw
      BY <1>2
    <3>2. stored \subseteq 0 .. RunTime
      BY <1>1
    <3>3. stored' = stored
      BY <1>2
    <3> QED
      BY <1>1, <3>1, <3>2, <3>3
  <2> QED
    BY <1>1, <1>2, <1>4, <2>1, <2>2 DEF Resources!TypeOK, Resources!Times
<1>7. Resources!NoSampleCountedTwice'
  <2> SUFFICES ASSUME NEW b \in 0 .. RunTime
               PROVE  average'[b] + Cardinality(In(raw', b)) <= Cardinality(In(stored, b))
    BY <1>2, ResourcesLibrary DEF Resources!NoSampleCountedTwice, Resources!InBucket,
       Resources!StartOf, Resources!Times
  <2> DEFINE old == In(Resources!Old, b)
             kept == In(raw', b)
             now == In(raw, b)
  <2>1. raw \subseteq Nat /\ raw' \subseteq raw /\ stored \subseteq Nat
    BY <1>1, <1>2
  <2>2. /\ old \subseteq now /\ kept \subseteq now /\ old \cap kept = {}
    <3>1. old \subseteq now /\ kept \subseteq now
      BY <1>2, <1>3 DEF Resources!InBucket
    <3>2. ASSUME NEW t \in old, t \in kept
          PROVE  FALSE
      BY <1>1, <1>2, <1>3, <2>1, <3>2 DEF Resources!InBucket
    <3> QED
      BY <3>1, <3>2
  <2>3. /\ IsFiniteSet(now) /\ Cardinality(now) \in Nat
        /\ Cardinality(In(stored, b)) \in Nat
    BY <2>1, BucketHolds
  <2>4. average[b] + Cardinality(now) <= Cardinality(In(stored, b)) /\ average[b] \in Nat
    BY <1>1, ResourcesLibrary
       DEF Resources!IInv, Resources!NoSampleCountedTwice, Resources!Times
  <2>5. average'[b] = 0 \/ average'[b] = average[b] \/ average'[b] = Cardinality(old)
    BY <1>5
  <2> HIDE DEF old, kept, now, In
  <2>6. /\ IsFiniteSet(old) /\ IsFiniteSet(kept) /\ Cardinality(kept) <= Cardinality(now)
        /\ Cardinality(old) \in Nat /\ Cardinality(kept) \in Nat
    BY <2>2, <2>3, FS_Subset, FS_CardinalityType
  <2>7. Cardinality(old) + Cardinality(kept) <= Cardinality(now)
    <3>1. Cardinality(old \cup kept) = Cardinality(old) + Cardinality(kept)
      <4>1. Cardinality(old \cap kept) = 0
        BY <2>2, FS_EmptySet
      <4>2. Cardinality(old \cup kept)
              = Cardinality(old) + Cardinality(kept) - Cardinality(old \cap kept)
        BY <2>6, FS_Union
      <4> QED
        BY <2>6, <4>1, <4>2
    <3>2. Cardinality(old \cup kept) <= Cardinality(now)
      BY <2>2, <2>3, FS_Subset
    <3> QED
      BY <3>1, <3>2
  <2>8. average'[b] + Cardinality(kept) <= Cardinality(In(stored, b))
    BY <2>3, <2>4, <2>5, <2>6, <2>7
  <2> QED
    BY <2>8 DEF kept
<1>8. Resources!RecentIsRaw'
  <2> SUFFICES ASSUME NEW t \in stored, t >= R
               PROVE  t \in raw'
    BY <1>1, <1>2 DEF Resources!RecentIsRaw, Resources!RawCutoff
  <2>1. t \in raw /\ t \in Nat
    BY <1>1 DEF Resources!IInv, Resources!RecentIsRaw, R
  <2> QED
    BY <1>1, <1>2, <2>1
<1>9. Resources!NoGap'
  <2> SUFFICES ASSUME NEW t \in stored, Resources!StartOf(t) >= cutoff', t \notin raw'
               PROVE  average'[Resources!StartOf(t)] # 0
    BY <1>2 DEF Resources!NoGap, Resources!StartOf
  <2> DEFINE b == Resources!StartOf(t)
  <2>1. t \in 0 .. RunTime /\ b \in 0 .. RunTime /\ b <= t /\ ~(b < E)
    <3>1. t \in 0 .. RunTime /\ t \in Nat
      BY <1>1
    <3>2. b \in Nat /\ b <= t
      BY <3>1, StartOfBucket
    <3> HIDE DEF b
    <3>3. b >= cutoff'
      BY DEF b
    <3> QED
      BY <1>1, <1>4, <3>1, <3>2, <3>3
  <2>2. t \in raw \/ average[b] # 0
    BY <1>1, <1>4, <2>1 DEF Resources!IInv, Resources!NoGap
  <2>3. average'[b] = Resources!Compacted(b)
    BY <1>5, <2>1
  <2>4. CASE average[b] # 0
    BY <1>5, <2>1, <2>3, <2>4
  <2>5. CASE t \in raw
    <3>1. t \in In(Resources!Old, b)
      BY <1>1, <1>2, <1>3, <2>1, <2>5 DEF Resources!InBucket
    <3>2. /\ IsFiniteSet(In(Resources!Old, b)) /\ b \in 0 .. RunTime
      BY <1>5, <2>1
    <3>3. Cardinality(In(Resources!Old, b)) # 0
      BY <3>1, <3>2, FS_EmptySet
    <3>4. Resources!Compacted(b) =
            IF average[b] # 0 THEN average[b] ELSE Cardinality(In(Resources!Old, b))
      BY <1>5, <3>2
    <3> HIDE DEF In, b
    <3>5. average'[b] # 0
      BY <2>3, <3>3, <3>4
    <3> QED
      BY <3>5 DEF b
  <2> QED
    BY <2>2, <2>4, <2>5
<1> QED
  BY <1>1, <1>2, <1>6, <1>7, <1>8, <1>9 DEF Resources!IInv

LEMMA ResourcesInitially == Init => Resources!IInv
<1> SUFFICES ASSUME Resources!Init PROVE Resources!IInv
  BY DEF Init
<1> USE TelemetryAssumption DEF Resources!Init
<1>1. Resources!TypeOK
  BY DEF Resources!TypeOK, Resources!Times
<1>2. Resources!NoSampleCountedTwice
  <2>1. \A b : Resources!InBucket({}, b) = {}
    BY DEF Resources!InBucket
  <2>2. Resources!Cardinality({}) = 0
    BY ResourcesLibrary, FS_EmptySet
  <2> SUFFICES ASSUME NEW b \in Resources!Times
               PROVE  average[b] + Resources!Cardinality(Resources!InBucket(raw, b))
                        <= Resources!Cardinality(Resources!InBucket(stored, b))
    BY DEF Resources!NoSampleCountedTwice
  <2>3. average[b] = 0 /\ raw = {} /\ stored = {}
    OBVIOUS
  <2>4. Resources!InBucket(raw, b) = {} /\ Resources!InBucket(stored, b) = {}
    BY <2>1, <2>3
  <2> QED
    BY <2>2, <2>3, <2>4
<1> QED
  BY <1>1, <1>2 DEF Resources!IInv, Resources!RecentIsRaw, Resources!NoGap

(* Whenever the server averages and forgets, and however often: no sample  *)
(* is both in an average and beside it, a young one is there as itself,    *)
(* and an older one is at least in the five minutes of an average          *)
(* (MaintainResourceTelemetry of internal/store/telemetry.go).             *)
THEOREM SamplesStaySomewhere == Spec => []EverySampleIsSomewhere
<1>1. ASSUME Resources!IInv, [Next]_vars
      PROVE  Resources!IInv'
  <2>1. CASE UNCHANGED telemetryVars
    BY <1>1, <2>1 DEF telemetryVars, Resources!IInv, Resources!TypeOK,
       Resources!NoSampleCountedTwice, Resources!RecentIsRaw, Resources!RawCutoff,
       Resources!NoGap, Resources!InBucket
  <2>2. CASE Resources!Tick
    BY <1>1, <2>2, TelemetryAssumption DEF Resources!Tick, Resources!IInv,
       Resources!TypeOK, Resources!Times, Resources!NoSampleCountedTwice,
       Resources!RecentIsRaw, Resources!RawCutoff, Resources!NoGap, Resources!InBucket
  <2> QED
    BY <1>1, <2>1, <2>2, SampleKeepsResources, CompactionKeepsResources
       DEF Next, vars, Resources!Next
<1>2. Resources!IInv => EverySampleIsSomewhere
  BY DEF EverySampleIsSomewhere, Resources!IInv
<1> QED
  BY ResourcesInitially, <1>1, <1>2, PTL DEF Spec

-----------------------------------------------------------------------------
(* Series. *)

(* Of a finite set in a strict order, the elements with less than a number *)
(* of others beyond them: no more than that number, and exactly it when    *)
(* any is left out, each of which all of these are beyond.                 *)
InOrder(S, R) ==
  /\ \A p \in S : <<p, p>> \notin R
  /\ \A p, q \in S : p # q => <<p, q>> \in R \/ <<q, p>> \in R
  /\ \A p, q, r \in S : <<p, q>> \in R /\ <<q, r>> \in R => <<p, r>> \in R
Least(m, S, R) == m \in S /\ \A q \in S : q = m \/ <<m, q>> \in R
Topmost(S, R, n) == {p \in S : Cardinality({q \in S : <<p, q>> \in R}) < n}

LEMMA LeastInOrder ==
  ASSUME NEW S, IsFiniteSet(S), NEW R, InOrder(S, R)
  PROVE  \A U \in SUBSET S : U # {} => \E m \in U : Least(m, U, R)
<1> DEFINE P == {U \in SUBSET S : U # {} => \E m \in U : Least(m, U, R)}
<1>1. {} \in P
  OBVIOUS
<1>2. ASSUME NEW U \in SUBSET S, U # {}, U \notin P
      PROVE  \E x \in U : U \ {x} \notin P
  <2>1. PICK x \in U : TRUE
    BY <1>2
  <2>2. SUFFICES ASSUME U \ {x} \in P PROVE FALSE
    BY <2>1
  <2>3. CASE U \ {x} = {}
    <3>1. Least(x, U, R)
      BY <2>1, <2>3 DEF Least
    <3> QED
      BY <1>2, <2>1, <3>1
  <2>4. CASE U \ {x} # {}
    <3>1. PICK m \in U \ {x} : Least(m, U \ {x}, R)
      BY <2>2, <2>4
    <3>2. <<m, x>> \in R \/ <<x, m>> \in R
      BY <2>1, <3>1 DEF InOrder
    <3>3. CASE <<m, x>> \in R
      BY <1>2, <2>1, <3>1, <3>3 DEF Least
    <3>4. CASE <<x, m>> \in R
      <4>1. \A q \in U : q = x \/ <<x, q>> \in R
        BY <2>1, <3>1, <3>4 DEF Least, InOrder
      <4> QED
        BY <1>2, <2>1, <4>1 DEF Least
    <3> QED
      BY <3>2, <3>3, <3>4
  <2> QED
    BY <2>3, <2>4
<1> HIDE DEF P
<1>3. \A U \in SUBSET S : U \in P
  BY <1>1, <1>2, SetInduction
<1> QED
  BY <1>3 DEF P

LEMMA TopmostOf ==
  ASSUME NEW S, IsFiniteSet(S), NEW R, InOrder(S, R), NEW n \in Nat
  PROVE  /\ Topmost(S, R, n) \subseteq S
         /\ Cardinality(Topmost(S, R, n)) <= n
         /\ \A p \in S \ Topmost(S, R, n) :
              /\ Cardinality(Topmost(S, R, n)) = n
              /\ \A q \in Topmost(S, R, n) : <<p, q>> \in R
<1> DEFINE Beyond(p) == {q \in S : <<p, q>> \in R}
           Upper(U) == \A p \in S \ U, q \in U : <<p, q>> \in R
           Sizes == {k \in Nat : n <= k /\ \E U \in SUBSET S : Upper(U) /\ Cardinality(U) = k}
<1>1. \A U \in SUBSET S : IsFiniteSet(U) /\ Cardinality(U) \in Nat
  BY FS_Subset, FS_CardinalityType
<1>2. \A U, V \in SUBSET S : U \subseteq V => Cardinality(U) <= Cardinality(V)
  BY <1>1, FS_Subset
<1>3. \A U \in SUBSET S : \A x \in U : Cardinality(U \ {x}) = Cardinality(U) - 1
  BY <1>1, FS_RemoveElement
<1>4. CASE Cardinality(S) <= n
  <2>1. ASSUME NEW p \in S PROVE Cardinality(Beyond(p)) < n
    <3>1. Beyond(p) \subseteq S \ {p}
      BY DEF InOrder
    <3>2. Cardinality(Beyond(p)) <= Cardinality(S \ {p})
      BY <1>2, <3>1
    <3>3. /\ Cardinality(S \ {p}) = Cardinality(S) - 1
          /\ Cardinality(S) \in Nat /\ Cardinality(Beyond(p)) \in Nat
      BY <1>1, <1>3
    <3> QED
      BY <1>4, <3>2, <3>3
  <2>2. Topmost(S, R, n) = S
    BY <2>1 DEF Topmost
  <2> QED
    BY <1>4, <2>2
<1>5. CASE Cardinality(S) > n
  <2>1. Cardinality(S) \in Sizes
    BY <1>1, <1>5
  <2>2. Sizes \in SUBSET Nat
    OBVIOUS
  <2> HIDE DEF Sizes
  <2>3. PICK k \in Sizes : \A l \in Sizes : k <= l
    BY <2>1, <2>2, LeastNumber
  <2> USE DEF Sizes
  <2>4. PICK U \in SUBSET S : Upper(U) /\ Cardinality(U) = k
    BY <2>3
  <2>5. k = n
    <3>1. SUFFICES ASSUME k > n PROVE FALSE
      BY <2>3
    <3>2. U # {}
      BY <2>4, <3>1, FS_EmptySet
    <3>3. PICK m \in U : Least(m, U, R)
      BY <3>2, LeastInOrder
    <3>4. Upper(U \ {m})
      BY <2>4, <3>3 DEF Least
    <3>5. Cardinality(U \ {m}) = k - 1
      BY <1>3, <2>4, <3>3
    <3>6. k - 1 \in Sizes
      BY <2>3, <3>1, <3>4, <3>5
    <3> QED
      BY <2>3, <3>6
  <2>6. ASSUME NEW p \in U PROVE Cardinality(Beyond(p)) < n
    <3>1. Beyond(p) \subseteq U \ {p}
      BY <2>4 DEF InOrder
    <3>2. Cardinality(Beyond(p)) <= Cardinality(U \ {p}) /\ Cardinality(Beyond(p)) \in Nat
      BY <1>1, <1>2, <3>1
    <3>3. Cardinality(U \ {p}) = n - 1
      BY <1>3, <2>4, <2>5
    <3> QED
      BY <3>2, <3>3
  <2>7. ASSUME NEW p \in S \ U PROVE ~(Cardinality(Beyond(p)) < n)
    <3>1. U \subseteq Beyond(p)
      BY <2>4
    <3>2. Cardinality(U) <= Cardinality(Beyond(p)) /\ Cardinality(Beyond(p)) \in Nat
      BY <1>1, <1>2, <3>1
    <3> QED
      BY <2>4, <2>5, <3>2
  <2>8. Topmost(S, R, n) = U
    BY <2>6, <2>7 DEF Topmost
  <2> QED
    BY <2>4, <2>5, <2>8
<1> QED
  <2>1. Cardinality(S) \in Nat
    BY <1>1
  <2> QED
    BY <1>4, <1>5, <2>1

SeriesPair == Nat \X Nat

LEMMA PairsInOrder ==
  ASSUME NEW S \in SUBSET SeriesPair
  PROVE  /\ InOrder(S, {r \in S \X S : SeriesOf!Before(r[1], r[2])})
         /\ InOrder(S, {r \in S \X S : SeriesOf!Before(r[2], r[1])})
<1>1. \A p \in S : p \in SeriesPair /\ p = <<p[1], p[2]>> /\ p[1] \in Nat /\ p[2] \in Nat
  BY DEF SeriesPair
<1>2. \A p \in S : ~SeriesOf!Before(p, p)
  BY <1>1 DEF SeriesOf!Before
<1>3. \A p, q \in S : p # q => SeriesOf!Before(p, q) \/ SeriesOf!Before(q, p)
  <2> SUFFICES ASSUME NEW p \in S, NEW q \in S, p # q
               PROVE  SeriesOf!Before(p, q) \/ SeriesOf!Before(q, p)
    OBVIOUS
  <2>1. p[1] # q[1] \/ p[2] # q[2]
    BY <1>1
  <2> QED
    BY <1>1, <2>1 DEF SeriesOf!Before
<1>4. \A p, q, r \in S : SeriesOf!Before(p, q) /\ SeriesOf!Before(q, r) => SeriesOf!Before(p, r)
  BY <1>1 DEF SeriesOf!Before
<1>5. \A p, q \in S :
        /\ <<p, q>> \in {r \in S \X S : SeriesOf!Before(r[1], r[2])} <=> SeriesOf!Before(p, q)
        /\ <<p, q>> \in {r \in S \X S : SeriesOf!Before(r[2], r[1])} <=> SeriesOf!Before(q, p)
  OBVIOUS
<1> QED
  BY <1>2, <1>3, <1>4, <1>5, Zenon DEF InOrder

LEMMA SeriesLibrary == \A S : SeriesOf!Cardinality(S) = Cardinality(S)
<1> TAKE S
<1> QED
  BY DEF SeriesOf!Cardinality, Cardinality

(* What a splice leaves of a series.                                       *)
LEMMA NewestOf ==
  ASSUME NEW S \in SUBSET SeriesPair, IsFiniteSet(S)
  PROVE  SeriesOf!AreNewest(SeriesOf!Newest(S), S)
<1> DEFINE R == {r \in S \X S : SeriesOf!Before(r[1], r[2])}
<1>1. \A p, q \in S : <<p, q>> \in R <=> SeriesOf!Before(p, q)
  OBVIOUS
<1>2. InOrder(S, R)
  BY PairsInOrder
<1> HIDE DEF R
<1>3. \A p \in S : {q \in S : <<p, q>> \in R} = {q \in S : SeriesOf!Before(p, q)}
  BY <1>1
<1>4. Topmost(S, R, SeriesLimit) = SeriesOf!Newest(S)
  BY <1>3, SeriesLibrary DEF Topmost, SeriesOf!Newest
<1>5. SeriesLimit \in Nat
  BY SeriesAssumption
<1> DEFINE N == Topmost(S, R, SeriesLimit)
<1>6. /\ N \subseteq S /\ Cardinality(N) <= SeriesLimit
      /\ \A p \in S \ N : /\ Cardinality(N) = SeriesLimit
                          /\ \A q \in N : <<p, q>> \in R
  BY <1>2, <1>5, TopmostOf
<1> HIDE DEF N
<1> QED
  BY <1>1, <1>4, <1>6, SeriesLibrary DEF SeriesOf!AreNewest, N

(* A query returns no more rows than its limit; and all, if there are no   *)
(* more.                                                                   *)
LEMMA OldestOf ==
  ASSUME NEW S \in SUBSET SeriesPair, IsFiniteSet(S)
  PROVE  /\ SeriesOf!Oldest(S) \subseteq S
         /\ Cardinality(SeriesOf!Oldest(S)) <= SeriesLimit
         /\ ~(Cardinality(S) > SeriesLimit) => SeriesOf!Oldest(S) = S
<1> DEFINE R == {r \in S \X S : SeriesOf!Before(r[2], r[1])}
<1>1. \A p, q \in S : <<p, q>> \in R <=> SeriesOf!Before(q, p)
  OBVIOUS
<1>2. InOrder(S, R)
  BY PairsInOrder
<1> HIDE DEF R
<1>3. \A p \in S : {q \in S : <<p, q>> \in R} = {q \in S : SeriesOf!Before(q, p)}
  BY <1>1
<1>4. Topmost(S, R, SeriesLimit) = SeriesOf!Oldest(S)
  BY <1>3, SeriesLibrary DEF Topmost, SeriesOf!Oldest
<1>5. SeriesLimit \in Nat /\ Cardinality(S) \in Nat
  BY SeriesAssumption, FS_CardinalityType
<1> DEFINE N == Topmost(S, R, SeriesLimit)
<1>6. /\ N \subseteq S /\ Cardinality(N) <= SeriesLimit
      /\ \A p \in S \ N : Cardinality(N) = SeriesLimit
  BY <1>2, <1>5, TopmostOf
<1> HIDE DEF N
<1>7. ASSUME ~(Cardinality(S) > SeriesLimit), N # S PROVE FALSE
  <2>1. Cardinality(N) = SeriesLimit
    BY <1>6, <1>7
  <2>2. /\ IsFiniteSet(N) /\ Cardinality(N) <= Cardinality(S)
        /\ Cardinality(S) = Cardinality(N) => S = N
    BY <1>6, FS_Subset
  <2> QED
    BY <1>5, <1>7, <2>1, <2>2
<1> QED
  BY <1>4, <1>6, <1>7 DEF N

(* Points put behind all of a series, and its first ones taken off.        *)
LEMMA NewestGrow ==
  ASSUME NEW kept, NEW all, NEW more, IsFiniteSet(all), IsFiniteSet(more),
         all \subseteq SeriesPair, more \subseteq SeriesPair,
         SeriesOf!AreNewest(kept, all), \A p \in all, q \in more : SeriesOf!Before(p, q)
  PROVE  SeriesOf!AreNewest(SeriesOf!Newest(kept \cup more), all \cup more)
<1> DEFINE X == kept \cup more
           N == SeriesOf!Newest(X)
<1>1. /\ kept \subseteq all /\ Cardinality(kept) <= SeriesLimit
      /\ \A p \in all \ kept : /\ Cardinality(kept) = SeriesLimit
                               /\ \A q \in kept : SeriesOf!Before(p, q)
  BY SeriesLibrary DEF SeriesOf!AreNewest
<1>2. IsFiniteSet(kept) /\ IsFiniteSet(X) /\ X \in SUBSET SeriesPair
  BY <1>1, FS_Subset, FS_Union
<1> HIDE DEF X
<1>3. SeriesOf!AreNewest(N, X)
  BY <1>2, NewestOf
<1> HIDE DEF N
<1>4. /\ N \subseteq X /\ Cardinality(N) <= SeriesLimit
      /\ \A p \in X \ N : /\ Cardinality(N) = SeriesLimit
                          /\ \A q \in N : SeriesOf!Before(p, q)
  BY <1>3, SeriesLibrary DEF SeriesOf!AreNewest
<1>5. ASSUME NEW p \in all \ kept, p \notin more
      PROVE  Cardinality(N) = SeriesLimit /\ \A q \in N : SeriesOf!Before(p, q)
  <2>1. \A q \in N : SeriesOf!Before(p, q)
    BY <1>1, <1>4, <1>5 DEF X
  <2>2. CASE N = X
    <3>1. kept \in SUBSET N /\ IsFiniteSet(N)
      BY <1>2, <2>2 DEF X
    <3>2. Cardinality(kept) <= Cardinality(N) /\ Cardinality(N) \in Nat
      BY <3>1, FS_Subset, FS_CardinalityType
    <3>3. Cardinality(kept) = SeriesLimit /\ SeriesLimit \in Nat
      BY <1>1, <1>5, SeriesAssumption
    <3> QED
      BY <1>4, <2>1, <3>2, <3>3
  <2>3. CASE N # X
    BY <1>4, <2>1, <2>3
  <2> QED
    BY <2>2, <2>3
<1>6. ASSUME NEW p \in (all \cup more) \ N
      PROVE  Cardinality(N) = SeriesLimit /\ \A q \in N : SeriesOf!Before(p, q)
  BY <1>4, <1>5, <1>6 DEF X
<1>7. N \subseteq all \cup more
  BY <1>1, <1>4 DEF X
<1> QED
  BY <1>4, <1>6, <1>7, SeriesLibrary DEF SeriesOf!AreNewest, N, X

(* IInv of Series but for what the page was given.                         *)
SeriesCut(k) == SeriesOf!Cardinality(SeriesOf!Rows(k)) > SeriesLimit
SeriesShape ==
  /\ SeriesOf!TypeOK /\ seriesNow >= SeriesOf!Begin /\ Len(updates) <= MaxBatches
  /\ \A k \in SeriesOf!Kinds :
       /\ query[k].cursor <= Len(updates)
       /\ query[k].at # "wait" => query[k].to # SeriesOf!Never
       /\ query[k].at = "end" => (query[k].truncated <=> SeriesCut(k))
       /\ \A l \in SeriesOf!Kinds : query[k].to = query[l].to
       /\ stream.at # "off" => query[k].at = "end" /\ stream.from <= query[k].cursor
  /\ stream.from <= stream.after /\ stream.after <= Len(updates)
SeriesPoints(n) == {SeriesOf!PointOf(s) : s \in {x \in SeriesOf!Given : SeriesOf!Name(x) = n}}
SeriesCounts == \A s \in DOMAIN shown : shown[s] = IF s \in SeriesOf!Given THEN 1 ELSE 0
SeriesDrawn ==
  \A n \in SeriesOf!Names : SeriesOf!AreNewest(chart[n], SeriesPoints(n))
SeriesChart == SeriesCounts /\ SeriesDrawn

SeriesDomain == (1 .. MaxBatches) \X (0 .. SeriesTime + 1)
SeriesPlaces == (0 .. MaxBatches) \X (0 .. SeriesTime + 1)
SeriesRow == [name : SeriesOf!Names, times : SUBSET (0 .. SeriesTime + 1)]
SeriesQuery == [at : {"wait", "cursor", "end"}, to : {-1} \cup 0 .. SeriesTime + 1,
                cursor : Nat, truncated : BOOLEAN]

LEMMA SeriesTypes ==
  SeriesOf!TypeOK <=>
    /\ seriesNow \in 0 .. SeriesTime
    /\ updates \in Seq(SeriesRow)
    /\ query \in [{"metrics", "resources"} -> SeriesQuery]
    /\ stream \in [at : {"off", "on", "broken"}, from : Nat, after : Nat]
    /\ shown \in [SeriesDomain -> 0 .. 2]
    /\ chart \in [SeriesOf!Names -> SUBSET SeriesPlaces]
    /\ faults \in 0 .. MaxBroken
BY DEF SeriesOf!TypeOK, SeriesDomain, SeriesRow, SeriesQuery, SeriesPlaces,
   SeriesOf!Kinds, SeriesOf!Times, SeriesOf!Never

LEMMA SeriesTypesNext ==
  SeriesOf!TypeOK' <=>
    /\ seriesNow' \in 0 .. SeriesTime
    /\ updates' \in Seq(SeriesRow)
    /\ query' \in [{"metrics", "resources"} -> SeriesQuery]
    /\ stream' \in [at : {"off", "on", "broken"}, from : Nat, after : Nat]
    /\ shown' \in [SeriesDomain -> 0 .. 2]
    /\ chart' \in [SeriesOf!Names -> SUBSET SeriesPlaces]
    /\ faults' \in 0 .. MaxBroken
BY DEF SeriesOf!TypeOK, SeriesDomain, SeriesRow, SeriesQuery, SeriesPlaces,
   SeriesOf!Kinds, SeriesOf!Times, SeriesOf!Never

LEMMA SeriesParts == SeriesOf!IInv <=> SeriesShape /\ SeriesChart
BY DEF SeriesOf!IInv, SeriesShape, SeriesChart, SeriesCounts, SeriesDrawn, SeriesPoints,
   SeriesCut

LEMMA SeriesPartsNext == SeriesOf!IInv' <=> SeriesShape' /\ SeriesChart'
BY DEF SeriesOf!IInv, SeriesShape, SeriesChart, SeriesCounts, SeriesDrawn, SeriesPoints,
   SeriesCut

LEMMA SeriesKinds ==
  /\ SeriesOf!Kinds = {"metrics", "resources"} /\ SeriesOf!Never = -1
  /\ \A n \in SeriesOf!Names : SeriesOf!Kind(n) \in SeriesOf!Kinds
BY DEF SeriesOf!Kinds, SeriesOf!Kind, SeriesOf!Never

LEMMA SamplesAre ==
  ASSUME SeriesShape, NEW s \in SeriesOf!Samples
  PROVE  /\ s \in SeriesDomain /\ s[1] \in 1 .. Len(updates) /\ s[2] \in 0 .. SeriesTime + 1
         /\ s = <<s[1], s[2]>> /\ s[1] \in 1 .. MaxBatches
         /\ SeriesOf!Name(s) \in SeriesOf!Names
         /\ SeriesOf!Kind(SeriesOf!Name(s)) \in SeriesOf!Kinds
         /\ query[SeriesOf!Kind(SeriesOf!Name(s))].cursor \in Nat
         /\ query[SeriesOf!Kind(SeriesOf!Name(s))] \in SeriesQuery
<1>1. /\ updates \in Seq(SeriesRow) /\ DOMAIN shown = SeriesDomain
      /\ query \in [{"metrics", "resources"} -> SeriesQuery]
  BY SeriesTypes DEF SeriesShape
<1>2. s \in SeriesDomain /\ s[1] \in 1 .. Len(updates)
  BY <1>1 DEF SeriesOf!Samples, SeriesOf!IsSample
<1>3. updates[s[1]] \in SeriesRow
  BY <1>1, <1>2
<1>4. SeriesOf!Name(s) \in SeriesOf!Names
  BY <1>3 DEF SeriesOf!Name, SeriesRow
<1>5. query[SeriesOf!Kind(SeriesOf!Name(s))] \in SeriesQuery
  BY <1>1, <1>4, SeriesKinds
<1>6. query[SeriesOf!Kind(SeriesOf!Name(s))].cursor \in Nat
  BY <1>5 DEF SeriesQuery
<1> QED
  BY <1>2, <1>4, <1>5, <1>6, SeriesKinds DEF SeriesDomain

LEMMA SnapshotsAre ==
  ASSUME SeriesShape, NEW k \in SeriesOf!Kinds, NEW s \in SeriesOf!SeriesAt(k)
  PROVE  /\ s \in SeriesOf!Samples /\ SeriesOf!Kind(SeriesOf!Name(s)) = k
         /\ s[1] <= query[k].cursor /\ SeriesOf!InWindow(k, s)
         /\ ~SeriesOf!Averaged(k) /\ ~SeriesOf!Applied(s)
<1>1. /\ s \in SeriesOf!Samples /\ SeriesOf!Kind(SeriesOf!Name(s)) = k
      /\ s[1] <= query[k].cursor /\ SeriesOf!InWindow(k, s) /\ ~SeriesOf!Averaged(k)
  BY DEF SeriesOf!SeriesAt, SeriesOf!Window
<1>2. s[1] \in Nat /\ query[k].cursor \in Nat
  BY <1>1, SamplesAre
<1> QED
  BY <1>1, <1>2 DEF SeriesOf!Applied

LEMMA GivenAre ==
  \A s : s \in SeriesOf!Given <=>
    \/ \E k \in SeriesOf!Kinds : query[k].at = "end" /\ s \in SeriesOf!SeriesAt(k)
    \/ s \in SeriesOf!Samples /\ SeriesOf!InTail(s)
<1> TAKE s
<1> QED
  BY DEF SeriesOf!Given

LEMMA GivenAreNext ==
  \A s : s \in SeriesOf!Given' <=>
    \/ \E k \in SeriesOf!Kinds : query'[k].at = "end" /\ s \in SeriesOf!SeriesAt(k)'
    \/ s \in SeriesOf!Samples' /\ SeriesOf!InTail(s)'
<1> TAKE s
<1> QED
  BY DEF SeriesOf!Given

LEMMA GivenAreSamples ==
  ASSUME SeriesShape, NEW s \in SeriesOf!Given
  PROVE  /\ s \in SeriesOf!Samples
         /\ query[SeriesOf!Kind(SeriesOf!Name(s))].at = "end"
<1>1. CASE \E k \in SeriesOf!Kinds : query[k].at = "end" /\ s \in SeriesOf!SeriesAt(k)
  BY <1>1, SnapshotsAre
<1>2. CASE s \in SeriesOf!Samples /\ SeriesOf!InTail(s)
  BY <1>2, SamplesAre DEF SeriesShape, SeriesOf!InTail
<1> QED
  BY <1>1, <1>2, GivenAre

(* A bucket is a length of at least a second, and begins no later than     *)
(* what is in it.                                                          *)
LEMMA BucketsAre ==
  ASSUME NEW k, NEW s, s[2] \in 0 .. SeriesTime + 1
  PROVE  SeriesOf!BucketOf(k, s) \in 0 .. SeriesTime + 1
<1> DEFINE lengths == {1, 5, 15, 60, 300, 900, 3600, 21600, 86400}
<1>1. ASSUME NEW x PROVE SeriesOf!niceResolution(x) \in lengths
  <2> DEFINE S == {r \in lengths : x <= r} \cup {86400}
  <2>1. S \in SUBSET Nat /\ S # {} /\ S \subseteq lengths
    OBVIOUS
  <2>2. SeriesOf!niceResolution(x) = SeriesOf!Min(S)
    BY DEF SeriesOf!niceResolution
  <2> HIDE DEF S
  <2>3. \E m \in S : \A y \in S : m <= y
    BY <2>1, LeastNumber
  <2>4. SeriesOf!Min(S) \in S
    BY <2>3 DEF SeriesOf!Min
  <2> HIDE DEF lengths
  <2>5. SeriesOf!Min(S) \in lengths
    BY <2>1, <2>4
  <2> QED
    BY <2>2, <2>5
<1>2. SeriesOf!metricResolution \in lengths
  BY <1>1 DEF SeriesOf!metricResolution
<1>3. SeriesTime \in Nat
  BY SeriesAssumption
<1>4. ASSUME NEW r \in lengths PROVE s[2] \div r \in 0 .. SeriesTime + 1
  <2>1. /\ s[2] \div 1 \in 0 .. SeriesTime + 1 /\ s[2] \div 5 \in 0 .. SeriesTime + 1
        /\ s[2] \div 15 \in 0 .. SeriesTime + 1 /\ s[2] \div 60 \in 0 .. SeriesTime + 1
        /\ s[2] \div 300 \in 0 .. SeriesTime + 1 /\ s[2] \div 900 \in 0 .. SeriesTime + 1
        /\ s[2] \div 3600 \in 0 .. SeriesTime + 1 /\ s[2] \div 21600 \in 0 .. SeriesTime + 1
        /\ s[2] \div 86400 \in 0 .. SeriesTime + 1
    BY <1>3
  <2> QED
    BY <1>4, <2>1
<1> QED
  BY <1>2, <1>4 DEF SeriesOf!BucketOf

LEMMA PlacesAreFinite ==
  /\ IsFiniteSet(SeriesPlaces) /\ IsFiniteSet(SeriesDomain)
  /\ SeriesPlaces \subseteq SeriesPair /\ SeriesDomain \subseteq SeriesPlaces
<1>1. SeriesTime \in Nat /\ MaxBatches \in Nat
  BY SeriesAssumption
<1>2. /\ IsFiniteSet(0 .. MaxBatches) /\ IsFiniteSet(1 .. MaxBatches)
      /\ IsFiniteSet(0 .. SeriesTime + 1)
  BY <1>1, FS_Interval
<1>3. IsFiniteSet(SeriesPlaces)
  BY <1>2, FS_Product DEF SeriesPlaces
<1>4. IsFiniteSet(SeriesDomain)
  BY <1>2, FS_Product DEF SeriesDomain
<1> QED
  BY <1>1, <1>3, <1>4 DEF SeriesPlaces, SeriesDomain, SeriesPair

LEMMA PointsArePlaces ==
  ASSUME SeriesShape, NEW s \in SeriesOf!Samples
  PROVE  SeriesOf!PointOf(s) \in SeriesPlaces
<1>1. s \in SeriesPlaces /\ s[2] \in 0 .. SeriesTime + 1
  BY SamplesAre, PlacesAreFinite
<1>2. SeriesOf!BucketOf(SeriesOf!Kind(SeriesOf!Name(s)), s) \in 0 .. SeriesTime + 1
  BY <1>1, BucketsAre
<1>3. 0 \in 0 .. MaxBatches
  BY SeriesAssumption
<1> QED
  BY <1>1, <1>2, <1>3 DEF SeriesOf!PointOf, SeriesPlaces

(* A query that stays as it was has the same answer, whatever is stored    *)
(* behind its cursor.                                                      *)
UpdatesKept ==
  /\ \A i \in DOMAIN updates : i \in DOMAIN updates' /\ updates'[i] = updates[i]
  /\ \A i \in DOMAIN updates' : i \in Nat /\ (i \notin DOMAIN updates => i > Len(updates))
  /\ DOMAIN shown' = DOMAIN shown
LEMMA SnapshotStays ==
  ASSUME SeriesShape, UpdatesKept, NEW k \in SeriesOf!Kinds,
         query'[k].cursor = query[k].cursor, query'[k].to = query[k].to
  PROVE  /\ SeriesOf!SeriesAt(k)' = SeriesOf!SeriesAt(k)
         /\ SeriesOf!Rows(k)' = SeriesOf!Rows(k)
         /\ \A s : SeriesOf!BucketOf(k, s)' = SeriesOf!BucketOf(k, s)
         /\ SeriesOf!Averaged(k)' = SeriesOf!Averaged(k)
<1>1. /\ DOMAIN updates = 1 .. Len(updates) /\ query[k].cursor \in Nat
      /\ query[k].cursor <= Len(updates) /\ Len(updates) \in Nat
  BY SeriesTypes, SeriesKinds DEF SeriesShape, SeriesQuery
<1>2. /\ SeriesOf!Averaged(k)' = SeriesOf!Averaged(k)
      /\ \A s : SeriesOf!BucketOf(k, s)' = SeriesOf!BucketOf(k, s)
  <2>1. CASE k = "metrics"
    BY <2>1 DEF SeriesOf!Averaged, SeriesOf!BucketOf, SeriesOf!metricResolution, SeriesOf!Seconds
  <2>2. CASE k = "resources"
    BY <2>2 DEF SeriesOf!Averaged, SeriesOf!BucketOf, SeriesOf!resourceResolutionIsRaw,
       SeriesOf!Seconds
  <2> QED
    BY <2>1, <2>2, SeriesKinds
<1>3. ASSUME NEW s
      PROVE  s \in SeriesOf!Window(k)' <=> s \in SeriesOf!Window(k)
  <2>1. s \in SeriesOf!Window(k)' <=>
          /\ s \in DOMAIN shown /\ s[1] \in DOMAIN updates' /\ s[2] \in updates'[s[1]].times
          /\ SeriesOf!Kind(updates'[s[1]].name) = k /\ s[1] <= query[k].cursor
          /\ SeriesOf!Begin <= s[2] /\ s[2] <= query[k].to
    BY DEF UpdatesKept, SeriesOf!Window, SeriesOf!Samples, SeriesOf!IsSample, SeriesOf!Name,
       SeriesOf!InWindow, SeriesOf!Kind, SeriesOf!Begin
  <2>2. s \in SeriesOf!Window(k) <=>
          /\ s \in DOMAIN shown /\ s[1] \in DOMAIN updates /\ s[2] \in updates[s[1]].times
          /\ SeriesOf!Kind(updates[s[1]].name) = k /\ s[1] <= query[k].cursor
          /\ SeriesOf!Begin <= s[2] /\ s[2] <= query[k].to
    BY DEF SeriesOf!Window, SeriesOf!Samples, SeriesOf!IsSample, SeriesOf!Name,
       SeriesOf!InWindow, SeriesOf!Kind, SeriesOf!Begin
  <2>3. s[1] \in DOMAIN updates' /\ s[1] <= query[k].cursor => s[1] \in DOMAIN updates
    BY <1>1 DEF UpdatesKept
  <2>4. s[1] \in DOMAIN updates => s[1] \in DOMAIN updates' /\ updates'[s[1]] = updates[s[1]]
    BY DEF UpdatesKept
  <2> QED
    BY <2>1, <2>2, <2>3, <2>4
<1>4. SeriesOf!Window(k)' = SeriesOf!Window(k)
  BY <1>3, Zenon
<1>5. ASSUME NEW s \in SeriesOf!Window(k)
      PROVE  SeriesOf!Row(k, s)' = SeriesOf!Row(k, s)
  <2>1. s[1] \in DOMAIN updates
    BY DEF SeriesOf!Window, SeriesOf!Samples, SeriesOf!IsSample
  <2>2. updates'[s[1]] = updates[s[1]]
    BY <2>1 DEF UpdatesKept
  <2> QED
    BY <1>2, <2>2 DEF SeriesOf!Row, SeriesOf!Name
<1>6. SeriesOf!Rows(k)' = SeriesOf!Rows(k)
  <2>1. SeriesOf!Rows(k) = {SeriesOf!Row(k, s) : s \in {x \in SeriesOf!Window(k) : ~SeriesOf!Averaged(k)}}
    BY DEF SeriesOf!Rows
  <2>2. SeriesOf!Rows(k)' =
          {SeriesOf!Row(k, s)' : s \in {x \in SeriesOf!Window(k) : ~SeriesOf!Averaged(k)}}
    BY <1>2, <1>4 DEF SeriesOf!Rows
  <2> QED
    BY <1>5, <2>1, <2>2
<1>7. SeriesOf!SeriesAt(k)' = SeriesOf!SeriesAt(k)
  <2>1. SeriesOf!SeriesAt(k) = {s \in SeriesOf!Window(k) :
          ~SeriesOf!Averaged(k) /\ SeriesOf!Row(k, s) \in SeriesOf!Oldest(SeriesOf!Rows(k))}
    BY DEF SeriesOf!SeriesAt
  <2>2. SeriesOf!SeriesAt(k)' = {s \in SeriesOf!Window(k) :
          ~SeriesOf!Averaged(k) /\ SeriesOf!Row(k, s)' \in SeriesOf!Oldest(SeriesOf!Rows(k))}
    BY <1>2, <1>4, <1>6 DEF SeriesOf!SeriesAt, SeriesOf!Oldest, SeriesOf!Before
  <2> QED
    BY <1>5, <2>1, <2>2
<1> QED
  BY <1>2, <1>6, <1>7

(* A step that neither ends a request nor moves the stream on gives the    *)
(* page nothing.                                                           *)
TailKept ==
  /\ UpdatesKept
  /\ \A k \in SeriesOf!Kinds :
       /\ query'[k].at = "end" => query[k].at = "end"
       /\ query[k].at = "end" => query'[k] = query[k]
  /\ \A s : s \in SeriesOf!Samples' /\ SeriesOf!InTail(s)' <=>
              s \in SeriesOf!Samples /\ SeriesOf!InTail(s)
LEMMA ChartUnchanged ==
  ASSUME SeriesShape, SeriesChart, UNCHANGED <<shown, chart>>, TailKept
  PROVE  /\ SeriesChart'
         /\ \A k \in SeriesOf!Kinds : query[k].at = "end" => (SeriesCut(k)' <=> SeriesCut(k))
<1>1. ASSUME NEW k \in SeriesOf!Kinds, query[k].at = "end"
      PROVE  /\ SeriesOf!SeriesAt(k)' = SeriesOf!SeriesAt(k)
             /\ SeriesOf!Rows(k)' = SeriesOf!Rows(k)
             /\ \A s : SeriesOf!BucketOf(k, s)' = SeriesOf!BucketOf(k, s)
             /\ query'[k] = query[k]
  BY <1>1, SnapshotStays DEF TailKept
<1>2. \A k \in SeriesOf!Kinds : query[k].at = "end" => (SeriesCut(k)' <=> SeriesCut(k))
  BY <1>1, SeriesLibrary DEF SeriesCut
<1>3. \A k \in SeriesOf!Kinds : query'[k].at = "end" <=> query[k].at = "end"
  BY DEF TailKept
<1>4. ASSUME NEW s PROVE s \in SeriesOf!Given' <=> s \in SeriesOf!Given
  BY <1>1, <1>3, GivenAre, GivenAreNext DEF TailKept
<1>5. SeriesOf!Given' = SeriesOf!Given
  BY <1>4, Zenon
<1>6. ASSUME NEW s \in SeriesOf!Given
      PROVE  SeriesOf!Name(s)' = SeriesOf!Name(s) /\ SeriesOf!PointOf(s)' = SeriesOf!PointOf(s)
  <2>1. /\ s[1] \in DOMAIN updates /\ SeriesOf!Kind(SeriesOf!Name(s)) \in SeriesOf!Kinds
        /\ query[SeriesOf!Kind(SeriesOf!Name(s))].at = "end"
    BY GivenAreSamples, SamplesAre DEF SeriesOf!Samples, SeriesOf!IsSample
  <2>2. SeriesOf!Name(s)' = SeriesOf!Name(s)
    BY <2>1 DEF SeriesOf!Name, TailKept, UpdatesKept
  <2>3. SeriesOf!Kind(SeriesOf!Name(s))' = SeriesOf!Kind(SeriesOf!Name(s))
    BY <2>2 DEF SeriesOf!Kind
  <2>4. SeriesOf!Applied(s)' <=> SeriesOf!Applied(s)
    BY <1>1, <2>1, <2>3 DEF SeriesOf!Applied
  <2>5. SeriesOf!BucketOf(SeriesOf!Kind(SeriesOf!Name(s)), s)' =
          SeriesOf!BucketOf(SeriesOf!Kind(SeriesOf!Name(s)), s)
    <3> DEFINE k == SeriesOf!Kind(SeriesOf!Name(s))
    <3>1. SeriesOf!BucketOf(k, s)' = (IF k = "metrics" THEN s[2] \div SeriesOf!metricResolution' ELSE s[2])
      BY <2>3 DEF SeriesOf!BucketOf
    <3>2. ASSUME k = "metrics"
          PROVE  SeriesOf!metricResolution' = SeriesOf!metricResolution
      BY <1>1, <2>1, <3>2 DEF SeriesOf!metricResolution, SeriesOf!Seconds
    <3> QED
      BY <3>1, <3>2 DEF SeriesOf!BucketOf
  <2> QED
    BY <2>2, <2>4, <2>5 DEF SeriesOf!PointOf
<1>7. SeriesCounts'
  BY <1>5 DEF SeriesChart, SeriesCounts
<1>8. ASSUME NEW n \in SeriesOf!Names PROVE SeriesPoints(n)' = SeriesPoints(n)
  <2>1. SeriesPoints(n)' =
          {SeriesOf!PointOf(s)' : s \in {x \in SeriesOf!Given : SeriesOf!Name(x)' = n}}
    BY <1>5 DEF SeriesPoints
  <2>2. {x \in SeriesOf!Given : SeriesOf!Name(x)' = n} = {x \in SeriesOf!Given : SeriesOf!Name(x) = n}
    BY <1>6
  <2> QED
    BY <1>6, <2>1, <2>2 DEF SeriesPoints
<1>9. SeriesDrawn'
  BY <1>8, SeriesLibrary DEF SeriesChart, SeriesDrawn, SeriesOf!AreNewest, SeriesOf!Before,
     SeriesOf!Names
<1> QED
  BY <1>2, <1>7, <1>9 DEF SeriesChart

(* A step that gives the page samples it did not have.                     *)
LEMMA SamplesGiven ==
  ASSUME SeriesShape, SeriesCounts, NEW some, SeriesOf!Show(some),
         SeriesOf!Given' = SeriesOf!Given \cup some, SeriesOf!Given \cap some = {}
  PROVE  SeriesCounts' /\ shown' \in [SeriesDomain -> 0 .. 2]
<1>1. DOMAIN shown = SeriesDomain
  BY SeriesTypes DEF SeriesShape
<1>2. shown' = [s \in SeriesDomain |->
        IF s \in some THEN SeriesOf!Min({2, shown[s] + 1}) ELSE shown[s]]
  BY <1>1 DEF SeriesOf!Show
<1>3. SeriesOf!Min({2, 0 + 1}) = 1
  <2>1. \E m \in {2, 0 + 1} : \A y \in {2, 0 + 1} : m <= y
    OBVIOUS
  <2>2. /\ SeriesOf!Min({2, 0 + 1}) \in {2, 0 + 1}
        /\ \A y \in {2, 0 + 1} : SeriesOf!Min({2, 0 + 1}) <= y
    BY <2>1 DEF SeriesOf!Min
  <2> QED
    BY <2>2
<1>4. ASSUME NEW s \in SeriesDomain
      PROVE  shown'[s] = (IF s \in SeriesOf!Given' THEN 1 ELSE 0) /\ shown'[s] \in 0 .. 2
  <2>1. shown[s] = IF s \in SeriesOf!Given THEN 1 ELSE 0
    BY <1>1 DEF SeriesCounts
  <2>2. CASE s \in some
    <3>1. shown[s] = 0 /\ s \in SeriesOf!Given'
      BY <2>1, <2>2
    <3>2. shown'[s] = SeriesOf!Min({2, 0 + 1})
      BY <1>2, <2>2, <3>1
    <3> QED
      BY <1>3, <3>1, <3>2
  <2>3. CASE s \notin some
    <3>1. shown'[s] = shown[s]
      BY <1>2, <2>3
    <3> QED
      BY <2>1, <2>3, <3>1
  <2> QED
    BY <2>2, <2>3
<1>5. DOMAIN shown' = SeriesDomain
  BY <1>2
<1>6. SeriesCounts'
  BY <1>4, <1>5 DEF SeriesCounts
<1>7. shown' \in [SeriesDomain -> 0 .. 2]
  <2>1. shown' = [s \in SeriesDomain |-> shown'[s]]
    BY <1>2
  <2> QED
    BY <1>4, <2>1
<1> QED
  BY <1>6, <1>7

LEMMA RowsAre ==
  ASSUME SeriesShape, NEW k
  PROVE  SeriesOf!Rows(k) \in SUBSET SeriesPair /\ IsFiniteSet(SeriesOf!Rows(k))
<1>1. ASSUME NEW s \in SeriesOf!Window(k)
      PROVE  SeriesOf!Row(k, s) \in (0 .. 2) \X (0 .. SeriesTime + 1)
  <2>1. s \in SeriesOf!Samples
    BY DEF SeriesOf!Window
  <2>2. SeriesOf!Name(s) \in 0 .. 2 /\ s[2] \in 0 .. SeriesTime + 1
    BY <2>1, SamplesAre DEF SeriesOf!Names
  <2>3. SeriesOf!BucketOf(k, s) \in 0 .. SeriesTime + 1
    BY <2>2, BucketsAre
  <2> QED
    BY <2>2, <2>3 DEF SeriesOf!Row
<1>2. SeriesOf!Rows(k) \in SUBSET ((0 .. 2) \X (0 .. SeriesTime + 1))
  BY <1>1 DEF SeriesOf!Rows
<1>3. IsFiniteSet(0 .. 2) /\ IsFiniteSet(0 .. SeriesTime + 1)
  <2>1. SeriesTime + 1 \in Int /\ 0 \in Int /\ 2 \in Int
    BY SeriesAssumption
  <2>2. IsFiniteSet(0 .. 2)
    BY <2>1, FS_Interval
  <2>3. IsFiniteSet(0 .. SeriesTime + 1)
    BY <2>1, FS_Interval
  <2> QED
    BY <2>2, <2>3
<1>4. IsFiniteSet((0 .. 2) \X (0 .. SeriesTime + 1))
  BY <1>3, FS_Product
<1>5. (0 .. 2) \X (0 .. SeriesTime + 1) \subseteq SeriesPair
  BY SeriesAssumption DEF SeriesPair
<1> QED
  BY <1>2, <1>4, <1>5, FS_Subset

LEMMA BatchKeepsSeries ==
  ASSUME SeriesOf!IInv, NEW row \in SeriesRow, Len(updates) < MaxBatches,
         updates' = Append(updates, row),
         UNCHANGED <<seriesNow, query, stream, shown, chart, faults>>
  PROVE  SeriesOf!IInv'
<1>1. SeriesShape /\ SeriesChart
  BY SeriesParts
<1>2. updates \in Seq(SeriesRow) /\ Len(updates) \in Nat /\ MaxBatches \in Nat
  BY <1>1, SeriesTypes, SeriesAssumption DEF SeriesShape
<1>3. /\ updates' \in Seq(SeriesRow) /\ Len(updates') = Len(updates) + 1
      /\ \A i \in 1 .. Len(updates) : updates'[i] = updates[i]
      /\ DOMAIN updates = 1 .. Len(updates) /\ DOMAIN updates' = 1 .. Len(updates) + 1
  BY <1>2
<1>4. UpdatesKept
  BY <1>2, <1>3 DEF UpdatesKept
<1>5. \A k \in SeriesOf!Kinds : query[k].cursor \in Nat /\ query[k].cursor <= Len(updates)
  BY <1>1, SeriesTypes, SeriesKinds DEF SeriesShape, SeriesQuery
<1>6. stream.after \in Nat /\ stream.after <= Len(updates)
  BY <1>1, SeriesTypes DEF SeriesShape
<1>7. ASSUME NEW s
      PROVE  s \in SeriesOf!Samples' /\ SeriesOf!InTail(s)' <=>
               s \in SeriesOf!Samples /\ SeriesOf!InTail(s)
  <2>1. CASE s[1] \in 1 .. Len(updates)
    BY <1>3, <2>1 DEF SeriesOf!Samples, SeriesOf!IsSample, SeriesOf!InTail,
       SeriesOf!Applied, SeriesOf!Name, SeriesOf!Kind
  <2>2. CASE s[1] \notin 1 .. Len(updates)
    <3>1. s \notin SeriesOf!Samples
      BY <1>3, <2>2 DEF SeriesOf!Samples, SeriesOf!IsSample
    <3>2. ASSUME s \in SeriesOf!Samples' PROVE ~SeriesOf!InTail(s)'
      <4>1. s[1] = Len(updates) + 1
        BY <1>2, <1>3, <2>2, <3>2 DEF SeriesOf!Samples, SeriesOf!IsSample
      <4> QED
        BY <1>2, <1>6, <4>1 DEF SeriesOf!InTail
    <3> QED
      BY <3>1, <3>2
  <2> QED
    BY <2>1, <2>2
<1>8. TailKept
  BY <1>4, <1>7 DEF TailKept
<1>9. /\ SeriesChart'
      /\ \A k \in SeriesOf!Kinds : query[k].at = "end" => (SeriesCut(k)' <=> SeriesCut(k))
  BY <1>1, <1>8, ChartUnchanged
<1>10. SeriesShape'
  <2>1. SeriesOf!TypeOK'
    BY <1>1, <1>3, SeriesTypes, SeriesTypesNext DEF SeriesShape
  <2>2. \A k \in SeriesOf!Kinds : query[k].cursor <= Len(updates)'
    BY <1>2, <1>3, <1>5
  <2>3. stream.after <= Len(updates)' /\ Len(updates)' <= MaxBatches
    BY <1>2, <1>3, <1>6
  <2> QED
    BY <1>1, <1>9, <2>1, <2>2, <2>3, SeriesKinds DEF SeriesShape, SeriesOf!Begin, SeriesOf!Kinds,
       SeriesOf!Never
<1> QED
  BY <1>9, <1>10, SeriesPartsNext

LEMMA BatchesKeepSeries ==
  ASSUME SeriesOf!IInv,
         \/ SeriesOf!AppendResourceSample
         \/ SeriesOf!AppendMetricSamples(1, {seriesNow - 1, seriesNow + 1})
         \/ SeriesOf!AppendMetricSamples(2, {seriesNow})
  PROVE  SeriesOf!IInv'
<1>1. seriesNow \in 1 .. SeriesTime
  BY SeriesParts, SeriesTypes DEF SeriesShape, SeriesOf!Begin
<1>2. CASE SeriesOf!AppendResourceSample
  <2>1. [name |-> 0, times |-> {seriesNow}] \in SeriesRow
    BY <1>1, SeriesAssumption DEF SeriesRow, SeriesOf!Names
  <2> QED
    BY <1>2, <2>1, BatchKeepsSeries DEF SeriesOf!AppendResourceSample
<1>3. ASSUME NEW name \in {1, 2}, NEW times \in SUBSET (0 .. SeriesTime + 1),
             SeriesOf!AppendMetricSamples(name, times)
      PROVE  SeriesOf!IInv'
  <2>1. [name |-> name, times |-> times] \in SeriesRow
    BY DEF SeriesRow, SeriesOf!Names
  <2> QED
    BY <1>3, <2>1, BatchKeepsSeries DEF SeriesOf!AppendMetricSamples
<1>4. /\ {seriesNow} \in SUBSET (0 .. SeriesTime + 1)
      /\ {seriesNow - 1, seriesNow + 1} \in SUBSET (0 .. SeriesTime + 1)
  BY <1>1, SeriesAssumption
<1> QED
  BY <1>2, <1>3, <1>4

(* Opening the page and taking a cursor give nothing: no stream is on.     *)
LEMMA RequestsKeepSeries ==
  ASSUME SeriesOf!IInv,
         SeriesOf!OpenPage \/ \E k \in SeriesOf!Kinds : SeriesOf!ParseSeriesWindow(k)
  PROVE  SeriesOf!IInv'
<1>1. SeriesShape /\ SeriesChart
  BY SeriesParts
<1>2. /\ Len(updates) \in Nat /\ SeriesOf!Kinds = {"metrics", "resources"}
      /\ query \in [{"metrics", "resources"} -> SeriesQuery] /\ SeriesOf!Never = -1
      /\ DOMAIN updates = 1 .. Len(updates)
  BY <1>1, SeriesTypes, SeriesKinds DEF SeriesShape
<1>3. /\ UNCHANGED <<seriesNow, updates, stream, shown, chart, faults>> /\ stream.at = "off"
      /\ query' \in [{"metrics", "resources"} -> SeriesQuery]
      /\ \A k \in SeriesOf!Kinds :
           /\ query'[k].cursor <= Len(updates)
           /\ query'[k].at # "wait" => query'[k].to # SeriesOf!Never
           /\ \A l \in SeriesOf!Kinds : query'[k].to = query'[l].to
           /\ query[k].at # "end" \/ query'[k] = query[k]
           /\ query'[k].at = "end" => query[k].at = "end"
  <2>1. CASE SeriesOf!OpenPage
    <3>1. /\ query["metrics"].to = -1
          /\ query' = [k \in {"metrics", "resources"} |-> [query[k] EXCEPT !.to = seriesNow]]
          /\ UNCHANGED <<seriesNow, updates, stream, shown, chart, faults>>
      BY <1>2, <2>1 DEF SeriesOf!OpenPage
    <3>2. \A k \in {"metrics", "resources"} :
            /\ query[k].at = "wait" /\ query[k].cursor \in Nat
            /\ query[k].cursor <= Len(updates)
      BY <1>1, <1>2, <3>1 DEF SeriesShape, SeriesQuery
    <3>3. seriesNow \in 0 .. SeriesTime + 1 /\ seriesNow # -1
      BY <1>1, SeriesTypes, SeriesAssumption DEF SeriesShape
    <3>4. \A k \in {"metrics", "resources"} :
            /\ query'[k].at = "wait" /\ query'[k].to = seriesNow
            /\ query'[k].cursor = query[k].cursor
            /\ query'[k] \in SeriesQuery
      BY <1>2, <3>1, <3>2, <3>3 DEF SeriesQuery
    <3>5. query' \in [{"metrics", "resources"} -> SeriesQuery]
      BY <3>1, <3>4
    <3>6. stream.at = "off"
      BY <1>1, <1>2, <3>2 DEF SeriesShape
    <3> QED
      BY <1>2, <3>1, <3>2, <3>3, <3>4, <3>5, <3>6
  <2>2. ASSUME NEW k \in SeriesOf!Kinds, SeriesOf!ParseSeriesWindow(k)
        PROVE  <1>3!:
    <3>1. /\ query[k].at = "wait" /\ query[k].to # -1
          /\ query' = [query EXCEPT ![k] = [query[k] EXCEPT !.at = "cursor", !.cursor = Len(updates)]]
          /\ UNCHANGED <<seriesNow, updates, stream, shown, chart, faults>>
      BY <1>2, <2>2 DEF SeriesOf!ParseSeriesWindow, SeriesOf!LatestSeriesCursor
    <3>2. /\ query'[k].at = "cursor" /\ query'[k].cursor = Len(updates)
          /\ query'[k].to = query[k].to
          /\ query'[k] \in SeriesQuery
          /\ \A l \in SeriesOf!Kinds : l # k => query'[l] = query[l]
      BY <1>2, <3>1 DEF SeriesQuery
    <3>3. stream.at = "off"
      BY <1>1, <3>1 DEF SeriesShape
    <3>4. query' \in [{"metrics", "resources"} -> SeriesQuery]
      BY <1>2, <3>1, <3>2
    <3>5. ASSUME NEW l \in SeriesOf!Kinds
          PROVE  /\ query'[l].cursor <= Len(updates)
                 /\ query'[l].at # "wait" => query'[l].to # SeriesOf!Never
                 /\ query'[l].to = query[l].to
                 /\ query[l].at # "end" \/ query'[l] = query[l]
                 /\ query'[l].at = "end" => query[l].at = "end"
      BY <1>1, <1>2, <3>1, <3>2 DEF SeriesShape
    <3>6. \A l, m \in SeriesOf!Kinds : query[l].to = query[m].to
      BY <1>1 DEF SeriesShape
    <3>7. \A l, m \in SeriesOf!Kinds : query'[l].to = query'[m].to
      BY <3>5, <3>6
    <3> QED
      BY <3>1, <3>3, <3>4, <3>5, <3>7
  <2> QED
    BY <1>1, <2>1, <2>2
<1>4. TailKept
  <2>1. UpdatesKept
    BY <1>2, <1>3 DEF UpdatesKept
  <2>2. \A s : ~SeriesOf!InTail(s) /\ ~SeriesOf!InTail(s)'
    BY <1>3 DEF SeriesOf!InTail
  <2>3. \A k \in SeriesOf!Kinds :
          /\ query'[k].at = "end" => query[k].at = "end"
          /\ query[k].at = "end" => query'[k] = query[k]
    BY <1>3
  <2> QED
    BY <2>1, <2>2, <2>3 DEF TailKept
<1>5. /\ SeriesChart'
      /\ \A k \in SeriesOf!Kinds : query[k].at = "end" => (SeriesCut(k)' <=> SeriesCut(k))
  BY <1>1, <1>3, <1>4, ChartUnchanged
<1>6. SeriesShape'
  <2>1. SeriesOf!TypeOK'
    BY <1>1, <1>3, SeriesTypes, SeriesTypesNext DEF SeriesShape
  <2>2. \A k \in SeriesOf!Kinds : query'[k].at = "end" => (query'[k].truncated <=> SeriesCut(k)')
    BY <1>1, <1>3, <1>5 DEF SeriesShape
  <2> QED
    BY <1>1, <1>3, <2>1, <2>2 DEF SeriesShape, SeriesOf!Begin, SeriesOf!Kinds, SeriesOf!Never
<1> QED
  BY <1>5, <1>6, SeriesPartsNext

(* A snapshot gives what it has read: nothing of it was given before.      *)
LEMMA SnapshotKeepsSeries ==
  ASSUME SeriesOf!IInv, NEW k \in SeriesOf!Kinds, SeriesOf!ReadSeries(k)
  PROVE  SeriesOf!IInv'
<1> DEFINE some == SeriesOf!SeriesAt(k)
<1>1. SeriesShape /\ SeriesChart
  BY SeriesParts
<1>2. /\ Len(updates) \in Nat /\ SeriesOf!Kinds = {"metrics", "resources"}
      /\ query \in [SeriesOf!Kinds -> SeriesQuery] /\ DOMAIN shown = SeriesDomain
      /\ DOMAIN updates = 1 .. Len(updates)
  BY <1>1, SeriesTypes, SeriesKinds DEF SeriesShape
<1>3. /\ query[k].at = "cursor"
      /\ query' = [query EXCEPT ![k] = [query[k] EXCEPT !.at = "end", !.truncated = SeriesCut(k)]]
      /\ SeriesOf!Show(some) /\ UNCHANGED <<seriesNow, updates, stream, faults>>
      /\ chart' = [n \in SeriesOf!Names |->
           IF SeriesOf!Kind(n) = k
           THEN {<<0, SeriesOf!BucketOf(k, s)>> : s \in {x \in some : SeriesOf!Name(x) = n}}
           ELSE chart[n]]
  BY DEF SeriesOf!ReadSeries, SeriesCut
<1>4. stream.at = "off"
  BY <1>1, <1>3 DEF SeriesShape
<1>5. /\ query'[k].at = "end" /\ query'[k].to = query[k].to
      /\ query'[k].cursor = query[k].cursor /\ query'[k] \in SeriesQuery
      /\ query'[k].truncated <=> SeriesCut(k)
      /\ \A l \in SeriesOf!Kinds : l # k => query'[l] = query[l]
  <2>1. query[k] \in SeriesQuery
    BY <1>2
  <2>2. query'[k] = [query[k] EXCEPT !.at = "end", !.truncated = SeriesCut(k)]
    BY <1>2, <1>3
  <2>3. SeriesCut(k) \in BOOLEAN
    BY DEF SeriesCut
  <2> QED
    BY <1>2, <1>3, <2>1, <2>2, <2>3 DEF SeriesQuery
<1>6. UpdatesKept
  <2>1. DOMAIN shown' = DOMAIN shown
    BY <1>3 DEF SeriesOf!Show
  <2> QED
    BY <1>2, <1>3, <2>1 DEF UpdatesKept
<1>7. ASSUME NEW l \in SeriesOf!Kinds
      PROVE  /\ SeriesOf!SeriesAt(l)' = SeriesOf!SeriesAt(l)
             /\ SeriesCut(l)' <=> SeriesCut(l)
             /\ \A s : SeriesOf!BucketOf(l, s)' = SeriesOf!BucketOf(l, s)
             /\ query'[l].cursor = query[l].cursor /\ query'[l].to = query[l].to
  <2>1. query'[l].cursor = query[l].cursor /\ query'[l].to = query[l].to
    BY <1>5
  <2> QED
    BY <1>1, <1>6, <2>1, SnapshotStays, SeriesLibrary DEF SeriesCut
<1>8. \A s : ~SeriesOf!InTail(s) /\ ~SeriesOf!InTail(s)'
  BY <1>3, <1>4 DEF SeriesOf!InTail
<1>9. SeriesOf!Given' = SeriesOf!Given \cup some
  <2>1. ASSUME NEW s PROVE s \in SeriesOf!Given' <=> s \in SeriesOf!Given \/ s \in some
    <3>1. \A l \in SeriesOf!Kinds : query'[l].at = "end" <=> query[l].at = "end" \/ l = k
      BY <1>5
    <3> QED
      BY <1>7, <1>8, <3>1, GivenAre, GivenAreNext
  <2> QED
    BY <2>1, Zenon
<1>10. /\ \A s \in some : SeriesOf!Kind(SeriesOf!Name(s)) = k
       /\ \A s \in SeriesOf!Given : SeriesOf!Kind(SeriesOf!Name(s)) # k
  BY <1>1, <1>3, SnapshotsAre, GivenAreSamples
<1>11. SeriesCounts' /\ shown' \in [SeriesDomain -> 0 .. 2]
  <2>1. SeriesOf!Given \cap some = {}
    BY <1>10
  <2> HIDE DEF some
  <2> QED
    BY <1>1, <1>3, <1>9, <2>1, SamplesGiven DEF SeriesChart
<1>12. ASSUME NEW s \in SeriesOf!Given \cup some
       PROVE  /\ SeriesOf!Name(s)' = SeriesOf!Name(s)
              /\ SeriesOf!PointOf(s)' = SeriesOf!PointOf(s)
              /\ SeriesOf!PointOf(s) \in SeriesPlaces
  <2>1. s \in SeriesOf!Samples
    BY <1>1, GivenAreSamples, SnapshotsAre
  <2>2. SeriesOf!Name(s)' = SeriesOf!Name(s)
    BY <1>3 DEF SeriesOf!Name
  <2> DEFINE l == SeriesOf!Kind(SeriesOf!Name(s))
  <2>3. l \in SeriesOf!Kinds
    BY <1>1, <2>1, SamplesAre
  <2>4. SeriesOf!Kind(SeriesOf!Name(s))' = l
    BY <2>2 DEF SeriesOf!Kind
  <2>5. SeriesOf!Applied(s)' <=> SeriesOf!Applied(s)
    BY <1>7, <2>3, <2>4 DEF SeriesOf!Applied
  <2>6. SeriesOf!BucketOf(SeriesOf!Kind(SeriesOf!Name(s)), s)' = SeriesOf!BucketOf(l, s)
    <3>1. SeriesOf!BucketOf(SeriesOf!Kind(SeriesOf!Name(s)), s)' =
            (IF l = "metrics" THEN s[2] \div SeriesOf!metricResolution' ELSE s[2])
      BY <2>4 DEF SeriesOf!BucketOf
    <3>2. ASSUME l = "metrics"
          PROVE  SeriesOf!metricResolution' = SeriesOf!metricResolution
      BY <1>7, <2>3, <3>2 DEF SeriesOf!metricResolution, SeriesOf!Seconds
    <3> QED
      BY <3>1, <3>2 DEF SeriesOf!BucketOf
  <2> QED
    BY <1>1, <2>1, <2>2, <2>5, <2>6, PointsArePlaces DEF SeriesOf!PointOf
<1>13. ASSUME NEW n \in SeriesOf!Names
       PROVE  SeriesPoints(n)' = IF SeriesOf!Kind(n) = k THEN chart'[n] ELSE SeriesPoints(n)
  <2>1. SeriesPoints(n)' = {SeriesOf!PointOf(s)' :
                              s \in {x \in SeriesOf!Given \cup some : SeriesOf!Name(x)' = n}}
    BY <1>9 DEF SeriesPoints
  <2>2. SeriesPoints(n)' = {SeriesOf!PointOf(s) :
                              s \in {x \in SeriesOf!Given \cup some : SeriesOf!Name(x) = n}}
    <3>1. {x \in SeriesOf!Given \cup some : SeriesOf!Name(x)' = n}
            = {x \in SeriesOf!Given \cup some : SeriesOf!Name(x) = n}
      BY <1>12
    <3> QED
      BY <1>12, <2>1, <3>1
  <2>3. CASE SeriesOf!Kind(n) = k
    <3>1. {x \in SeriesOf!Given \cup some : SeriesOf!Name(x) = n}
            = {x \in some : SeriesOf!Name(x) = n}
      BY <1>10, <2>3
    <3>2. \A s \in some : SeriesOf!PointOf(s) = <<0, SeriesOf!BucketOf(k, s)>>
      BY <1>1, <1>10, SnapshotsAre DEF SeriesOf!PointOf
    <3>3. SeriesPoints(n)' = {<<0, SeriesOf!BucketOf(k, s)>> : s \in {x \in some : SeriesOf!Name(x) = n}}
      BY <2>2, <3>1, <3>2
    <3>4. chart'[n] = {<<0, SeriesOf!BucketOf(k, s)>> : s \in {x \in some : SeriesOf!Name(x) = n}}
      BY <1>3, <2>3
    <3> QED
      BY <2>3, <3>3, <3>4
  <2>4. CASE SeriesOf!Kind(n) # k
    <3>1. {x \in SeriesOf!Given \cup some : SeriesOf!Name(x) = n}
            = {x \in SeriesOf!Given : SeriesOf!Name(x) = n}
      BY <1>10, <2>4
    <3> QED
      BY <2>2, <2>4, <3>1 DEF SeriesPoints
  <2> QED
    BY <2>3, <2>4
<1>14. ASSUME NEW n \in SeriesOf!Names, SeriesOf!Kind(n) = k
       PROVE  Cardinality(chart'[n]) <= SeriesLimit /\ chart'[n] \in SUBSET SeriesPlaces
  <2> DEFINE O == SeriesOf!Oldest(SeriesOf!Rows(k))
             f == [r \in O |-> <<0, r[2]>>]
             T == {<<0, r[2]>> : r \in O}
  <2>1. SeriesOf!Rows(k) \in SUBSET SeriesPair /\ IsFiniteSet(SeriesOf!Rows(k))
    BY <1>1, RowsAre
  <2>2. O \subseteq SeriesOf!Rows(k) /\ Cardinality(O) <= SeriesLimit
    BY <2>1, OldestOf
  <2>3. IsFiniteSet(O) /\ Cardinality(O) \in Nat
    BY <2>1, <2>2, FS_Subset, FS_CardinalityType
  <2> HIDE DEF O
  <2>4. f \in Surjection(O, T)
    BY DEF Surjection
  <2>5. IsFiniteSet(T) /\ Cardinality(T) <= Cardinality(O) /\ Cardinality(T) \in Nat
    BY <2>3, <2>4, FS_Surjection, FS_CardinalityType
  <2>6. ASSUME NEW s \in some, SeriesOf!Name(s) = n
        PROVE  <<0, SeriesOf!BucketOf(k, s)>> \in T /\ <<0, SeriesOf!BucketOf(k, s)>> \in SeriesPlaces
    <3>1. SeriesOf!Row(k, s) \in O
      BY DEF O, SeriesOf!SeriesAt
    <3>2. SeriesOf!Row(k, s)[2] = SeriesOf!BucketOf(k, s)
      BY DEF SeriesOf!Row
    <3>3. SeriesOf!PointOf(s) = <<0, SeriesOf!BucketOf(k, s)>>
      BY <1>1, <1>10, SnapshotsAre DEF SeriesOf!PointOf
    <3> QED
      BY <1>12, <3>1, <3>2, <3>3
  <2>7. chart'[n] = {<<0, SeriesOf!BucketOf(k, s)>> : s \in {x \in some : SeriesOf!Name(x) = n}}
    BY <1>3, <1>14
  <2> HIDE DEF some, T
  <2>8. chart'[n] \in SUBSET T /\ chart'[n] \in SUBSET SeriesPlaces
    BY <2>6, <2>7
  <2>9. Cardinality(chart'[n]) <= Cardinality(T) /\ Cardinality(chart'[n]) \in Nat
    BY <2>5, <2>8, FS_Subset, FS_CardinalityType
  <2>10. SeriesLimit \in Nat
    BY SeriesAssumption
  <2> QED
    BY <2>2, <2>3, <2>5, <2>8, <2>9, <2>10
<1>15. SeriesDrawn'
  <2>1. ASSUME NEW n \in SeriesOf!Names
        PROVE  SeriesOf!AreNewest(chart'[n], SeriesPoints(n)')
    <3>1. CASE SeriesOf!Kind(n) = k
      <4>1. SeriesPoints(n)' = chart'[n]
        BY <1>13, <3>1
      <4> QED
        BY <1>14, <3>1, <4>1, SeriesLibrary DEF SeriesOf!AreNewest
    <3>2. CASE SeriesOf!Kind(n) # k
      <4>1. chart'[n] = chart[n] /\ SeriesPoints(n)' = SeriesPoints(n)
        BY <1>3, <1>13, <3>2
      <4> QED
        BY <1>1, <4>1 DEF SeriesChart, SeriesDrawn
    <3> QED
      BY <3>1, <3>2
  <2> QED
    BY <2>1, SeriesLibrary DEF SeriesDrawn, SeriesOf!Names, SeriesOf!AreNewest, SeriesOf!Before
<1> HIDE DEF some
<1>16. chart' \in [SeriesOf!Names -> SUBSET SeriesPlaces]
  <2>1. \A n \in SeriesOf!Names : chart'[n] \in SUBSET SeriesPlaces
    BY <1>1, <1>3, <1>14, SeriesTypes DEF SeriesShape
  <2> QED
    BY <1>3, <2>1
<1>17. SeriesShape'
  <2>1. query' \in [SeriesOf!Kinds -> SeriesQuery]
    BY <1>2, <1>3, <1>5
  <2>2. SeriesOf!TypeOK'
    BY <1>1, <1>2, <1>3, <1>11, <1>16, <2>1, SeriesTypes, SeriesTypesNext DEF SeriesShape
  <2>3. \A l \in SeriesOf!Kinds :
          /\ query'[l].cursor = query[l].cursor /\ query'[l].to = query[l].to
          /\ query'[l].at # "wait" => query[l].at # "wait"
    BY <1>3, <1>5
  <2>4. \A l \in SeriesOf!Kinds : query'[l].at = "end" => (query'[l].truncated <=> SeriesCut(l)')
    BY <1>1, <1>5, <1>7 DEF SeriesShape
  <2> QED
    BY <1>1, <1>3, <1>4, <2>2, <2>3, <2>4 DEF SeriesShape, SeriesOf!Begin, SeriesOf!Kinds,
       SeriesOf!Never
<1> QED
  BY <1>11, <1>15, <1>17, SeriesPartsNext DEF SeriesChart

(* A stream goes on where it was: behind both snapshots at first, and      *)
(* behind the last event it has sent when it was broken.                   *)
LEMMA OpeningKeepsSeries ==
  ASSUME SeriesOf!IInv, SeriesOf!OpenStream
  PROVE  SeriesOf!IInv'
<1>1. SeriesShape /\ SeriesChart
  BY SeriesParts
<1>2. /\ Len(updates) \in Nat /\ SeriesOf!Kinds = {"metrics", "resources"}
      /\ \A k \in SeriesOf!Kinds :
           /\ query[k].at = "end" /\ query[k].cursor \in Nat
           /\ query[k].cursor <= Len(updates)
      /\ stream \in [at : {"off", "on", "broken"}, from : Nat, after : Nat]
      /\ UNCHANGED <<seriesNow, updates, query, shown, chart, faults>>
      /\ stream.from <= stream.after /\ stream.after <= Len(updates)
  BY <1>1, SeriesTypes, SeriesKinds DEF SeriesShape, SeriesOf!OpenStream, SeriesQuery
<1>3. /\ stream' \in [at : {"off", "on", "broken"}, from : Nat, after : Nat]
      /\ stream'.at = "on" /\ stream'.from <= stream'.after /\ stream'.after <= Len(updates)
      /\ \A k \in SeriesOf!Kinds : stream'.from <= query[k].cursor
      /\ \/ stream.at = "off" /\ stream'.after = stream'.from
         \/ stream.at = "broken" /\ stream'.after = stream.after
  <2>1. CASE stream.at = "off"
    <3> DEFINE S == {query[k].cursor : k \in SeriesOf!Kinds}
               least == SeriesOf!Min(S)
    <3>1. S \subseteq Nat /\ S # {} /\ \A k \in SeriesOf!Kinds : query[k].cursor \in S
      BY <1>2
    <3>2. stream' = [at |-> "on", from |-> least, after |-> least]
      BY <2>1 DEF SeriesOf!OpenStream
    <3>3. \A x \in S : x <= Len(updates)
      BY <1>2
    <3> HIDE DEF S
    <3>4. \E m \in S : \A y \in S : m <= y
      <4>1. PICK m \in S : \A y \in S : m <= y
        BY <3>1, LeastNumber
      <4> QED
        BY <4>1
    <3>5. least \in S /\ \A y \in S : least <= y
      BY <3>4 DEF SeriesOf!Min
    <3> HIDE DEF least
    <3>6. least \in Nat /\ least <= Len(updates) /\ \A k \in SeriesOf!Kinds : least <= query[k].cursor
      BY <3>1, <3>3, <3>5
    <3> QED
      BY <2>1, <3>2, <3>6
  <2>2. CASE stream.at = "broken"
    <3> DEFINE S == {stream.from, stream.after}
    <3>1. \E m \in S : \A y \in S : m >= y
      BY <1>2
    <3>2. SeriesOf!Max(S) \in S /\ \A y \in S : SeriesOf!Max(S) >= y
      BY <3>1 DEF SeriesOf!Max
    <3>3. SeriesOf!ParseSeriesCursor(stream.after) = stream.after
      BY <1>2, <3>2 DEF SeriesOf!ParseSeriesCursor
    <3>4. stream' = [stream EXCEPT !.at = "on", !.after = stream.after]
      BY <2>2, <3>3 DEF SeriesOf!OpenStream
    <3>5. \A k \in SeriesOf!Kinds : stream.from <= query[k].cursor
      BY <1>1, <2>2 DEF SeriesShape
    <3> QED
      BY <1>2, <2>2, <3>4, <3>5
  <2> QED
    BY <2>1, <2>2 DEF SeriesOf!OpenStream
<1>4. TailKept
  <2>1. UpdatesKept
    <3>1. DOMAIN updates = 1 .. Len(updates)
      BY <1>1, SeriesTypes DEF SeriesShape
    <3> QED
      BY <1>2, <3>1 DEF UpdatesKept
  <2>2. SeriesOf!Samples' = SeriesOf!Samples
    BY <1>2 DEF SeriesOf!Samples, SeriesOf!IsSample
  <2>3. ASSUME NEW s \in SeriesOf!Samples
        PROVE  SeriesOf!InTail(s)' <=> SeriesOf!InTail(s)
    <3>1. /\ s[1] \in Nat /\ SeriesOf!Kind(SeriesOf!Name(s)) \in SeriesOf!Kinds
          /\ query[SeriesOf!Kind(SeriesOf!Name(s))].cursor \in Nat
      BY <1>1, SamplesAre
    <3>2. SeriesOf!Applied(s)' <=> SeriesOf!Applied(s)
      BY <1>2 DEF SeriesOf!Applied, SeriesOf!Name
    <3>3. CASE stream.at = "off" /\ stream'.after = stream'.from
      <4>1. ~SeriesOf!InTail(s)
        BY <3>3 DEF SeriesOf!InTail
      <4>2. stream'.after <= query[SeriesOf!Kind(SeriesOf!Name(s))].cursor /\ stream'.after \in Nat
        BY <1>3, <3>1, <3>3
      <4>3. ~(s[1] <= stream'.after /\ SeriesOf!Applied(s))
        BY <3>1, <4>2 DEF SeriesOf!Applied
      <4> QED
        BY <3>2, <4>1, <4>3 DEF SeriesOf!InTail
    <3>4. CASE stream.at = "broken" /\ stream'.after = stream.after
      BY <1>3, <3>2, <3>4 DEF SeriesOf!InTail
    <3> QED
      BY <1>3, <3>3, <3>4
  <2> QED
    BY <1>2, <2>1, <2>2, <2>3 DEF TailKept
<1>5. /\ SeriesChart'
      /\ \A k \in SeriesOf!Kinds : query[k].at = "end" => (SeriesCut(k)' <=> SeriesCut(k))
  BY <1>1, <1>2, <1>4, ChartUnchanged
<1>6. SeriesShape'
  <2>1. SeriesOf!TypeOK'
    BY <1>1, <1>2, <1>3, SeriesTypes, SeriesTypesNext DEF SeriesShape
  <2> QED
    BY <1>1, <1>2, <1>3, <1>5, <2>1 DEF SeriesShape, SeriesOf!Begin, SeriesOf!Kinds,
       SeriesOf!Never
<1> QED
  BY <1>5, <1>6, SeriesPartsNext

(* What a poll brings lies behind all the page has: its points do too.     *)
LEMMA PollKeepsSeries ==
  ASSUME SeriesOf!IInv, NEW upTo \in 0 .. MaxBatches, SeriesOf!Poll(upTo)
  PROVE  SeriesOf!IInv'
<1> DEFINE some == SeriesOf!Arrived(upTo)
           someOf(n) == {s \in some : SeriesOf!Name(s) = n}
<1>1. SeriesShape /\ SeriesChart
  BY SeriesParts
<1>2. /\ Len(updates) \in Nat /\ upTo \in Nat /\ faults \in 0 .. MaxBroken
      /\ stream \in [at : {"off", "on", "broken"}, from : Nat, after : Nat]
      /\ stream.from <= stream.after /\ stream.after <= Len(updates)
      /\ stream.at = "on" /\ DOMAIN shown = SeriesDomain
      /\ DOMAIN updates = 1 .. Len(updates)
  BY <1>1, SeriesTypes, SeriesAssumption DEF SeriesShape, SeriesOf!Poll
<1>3. /\ SeriesOf!Show(some) /\ UNCHANGED <<seriesNow, updates, query>>
      /\ faults' \in 0 .. MaxBroken
      /\ \/ stream' = [stream EXCEPT !.after = upTo]
         \/ stream' = [stream EXCEPT !.at = "broken", !.after = upTo]
      /\ chart' = [n \in SeriesOf!Names |-> SeriesOf!Newest(chart[n] \cup someOf(n))]
  BY <1>2, SeriesAssumption DEF SeriesOf!Poll
<1>4. stream.after <= upTo /\ upTo <= Len(updates)
  <2>1. upTo \in SeriesOf!SeriesUpdates \cup {stream.after}
    BY DEF SeriesOf!Poll
  <2>2. CASE upTo \in SeriesOf!SeriesUpdates
    <3>1. upTo \in DOMAIN updates /\ stream.after < upTo
      BY <2>2 DEF SeriesOf!SeriesUpdates
    <3> QED
      BY <1>2, <3>1
  <2> QED
    BY <1>2, <2>1, <2>2
<1>5. /\ stream' \in [at : {"off", "on", "broken"}, from : Nat, after : Nat]
      /\ stream'.after = upTo /\ stream'.at # "off" /\ stream'.from = stream.from
  BY <1>2, <1>3
<1>6. UpdatesKept
  <2>1. DOMAIN shown' = DOMAIN shown
    BY <1>3 DEF SeriesOf!Show
  <2> QED
    BY <1>2, <1>3, <2>1 DEF UpdatesKept
<1>7. ASSUME NEW k \in SeriesOf!Kinds
      PROVE  /\ SeriesOf!SeriesAt(k)' = SeriesOf!SeriesAt(k)
             /\ SeriesCut(k)' <=> SeriesCut(k)
             /\ \A s : SeriesOf!BucketOf(k, s)' = SeriesOf!BucketOf(k, s)
  BY <1>1, <1>3, <1>6, SnapshotStays, SeriesLibrary DEF SeriesCut
<1>8. ASSUME NEW s
      PROVE  /\ SeriesOf!Name(s)' = SeriesOf!Name(s)
             /\ SeriesOf!Applied(s)' <=> SeriesOf!Applied(s)
             /\ SeriesOf!PointOf(s)' = SeriesOf!PointOf(s)
  <2>1. SeriesOf!Name(s)' = SeriesOf!Name(s)
    BY <1>3 DEF SeriesOf!Name
  <2>2. SeriesOf!Applied(s)' <=> SeriesOf!Applied(s)
    BY <1>3, <2>1 DEF SeriesOf!Applied, SeriesOf!Kind
  <2>3. SeriesOf!metricResolution' = SeriesOf!metricResolution
    BY <1>3 DEF SeriesOf!metricResolution, SeriesOf!Seconds
  <2>4. SeriesOf!BucketOf(SeriesOf!Kind(SeriesOf!Name(s)), s)' =
          SeriesOf!BucketOf(SeriesOf!Kind(SeriesOf!Name(s)), s)
    BY <2>1, <2>3 DEF SeriesOf!BucketOf, SeriesOf!Kind
  <2> QED
    BY <2>1, <2>2, <2>4 DEF SeriesOf!PointOf
<1>9. SeriesOf!Samples' = SeriesOf!Samples
  BY <1>2, <1>3, <1>6 DEF SeriesOf!Samples, SeriesOf!IsSample, UpdatesKept
<1>10. ASSUME NEW s \in SeriesOf!Samples
       PROVE  /\ SeriesOf!InTail(s)' <=> SeriesOf!InTail(s) \/ s \in some
              /\ s \in some => ~SeriesOf!InTail(s)
  <2>1. s[1] \in Nat
    BY <1>1, SamplesAre
  <2>2. SeriesOf!InTail(s) <=> s[1] <= stream.after /\ SeriesOf!Applied(s)
    BY <1>2 DEF SeriesOf!InTail
  <2>3. SeriesOf!InTail(s)' <=> s[1] <= upTo /\ SeriesOf!Applied(s)
    BY <1>5, <1>8 DEF SeriesOf!InTail
  <2>4. s \in some <=> stream.after < s[1] /\ s[1] <= upTo /\ SeriesOf!Applied(s)
    BY DEF SeriesOf!Arrived
  <2> HIDE DEF some
  <2> QED
    BY <1>2, <1>4, <2>1, <2>2, <2>3, <2>4
<1>11. some \subseteq SeriesOf!Samples /\ \A s \in some : SeriesOf!Applied(s) /\ s[1] > stream.after
  <2>1. \A s \in some : s \in SeriesOf!Samples /\ SeriesOf!Applied(s) /\ stream.after < s[1]
    BY DEF SeriesOf!Arrived
  <2>2. \A s \in SeriesOf!Samples : s[1] \in Nat
    BY <1>1, SamplesAre
  <2> HIDE DEF some
  <2> QED
    BY <1>2, <2>1, <2>2
<1> HIDE DEF some
<1>12. SeriesOf!Given' = SeriesOf!Given \cup some
  <2>1. ASSUME NEW s PROVE s \in SeriesOf!Given' <=> s \in SeriesOf!Given \/ s \in some
    BY <1>3, <1>7, <1>9, <1>10, <1>11, GivenAre, GivenAreNext
  <2> QED
    BY <2>1, Zenon
<1>13. SeriesOf!Given \cap some = {}
  <2>1. ASSUME NEW s \in SeriesOf!Given, s \in some PROVE FALSE
    <3>1. CASE \E k \in SeriesOf!Kinds : query[k].at = "end" /\ s \in SeriesOf!SeriesAt(k)
      BY <1>1, <1>11, <2>1, <3>1, SnapshotsAre
    <3>2. CASE s \in SeriesOf!Samples /\ SeriesOf!InTail(s)
      BY <1>10, <2>1, <3>2
    <3> QED
      BY <2>1, <3>1, <3>2, GivenAre
  <2> QED
    BY <2>1
<1>14. SeriesCounts' /\ shown' \in [SeriesDomain -> 0 .. 2]
  BY <1>1, <1>3, <1>12, <1>13, SamplesGiven DEF SeriesChart
<1>15. ASSUME NEW n \in SeriesOf!Names
       PROVE  /\ SeriesPoints(n)' = SeriesPoints(n) \cup someOf(n)
              /\ SeriesPoints(n) \in SUBSET SeriesPlaces /\ someOf(n) \in SUBSET SeriesPlaces
              /\ \A p \in SeriesPoints(n), q \in someOf(n) : SeriesOf!Before(p, q)
  <2>1. SeriesPoints(n)' = {SeriesOf!PointOf(s) :
                              s \in {x \in SeriesOf!Given \cup some : SeriesOf!Name(x) = n}}
    BY <1>8, <1>12 DEF SeriesPoints
  <2>2. \A s \in some : SeriesOf!PointOf(s) = s
    BY <1>11 DEF SeriesOf!PointOf
  <2>3. SeriesPoints(n)' = SeriesPoints(n) \cup someOf(n)
    BY <2>1, <2>2 DEF SeriesPoints
  <2>4. SeriesPoints(n) \in SUBSET SeriesPlaces
    BY <1>1, GivenAreSamples, PointsArePlaces DEF SeriesPoints
  <2>5. someOf(n) \in SUBSET SeriesPlaces
    BY <1>1, <1>11, SamplesAre, PlacesAreFinite
  <2>6. ASSUME NEW s \in SeriesOf!Given, NEW q \in some
        PROVE  SeriesOf!Before(SeriesOf!PointOf(s), q)
    <3>1. q[1] \in Nat /\ q[1] > stream.after /\ stream.after \in Nat
      BY <1>1, <1>2, <1>11, SamplesAre
    <3>2. CASE ~SeriesOf!Applied(s)
      <4>1. SeriesOf!PointOf(s)[1] = 0
        BY <3>2 DEF SeriesOf!PointOf
      <4> QED
        BY <3>1, <4>1 DEF SeriesOf!Before
    <3>3. CASE SeriesOf!Applied(s)
      <4>1. s \in SeriesOf!Samples /\ SeriesOf!InTail(s)
        BY <1>1, <3>3, GivenAre, SnapshotsAre
      <4>2. s[1] <= stream.after /\ s[1] \in Nat
        BY <1>1, <4>1, SamplesAre DEF SeriesOf!InTail
      <4>3. SeriesOf!PointOf(s) = s
        BY <3>3 DEF SeriesOf!PointOf
      <4> QED
        BY <3>1, <4>2, <4>3 DEF SeriesOf!Before
    <3> QED
      BY <3>2, <3>3
  <2> QED
    BY <2>3, <2>4, <2>5, <2>6 DEF SeriesPoints
<1> HIDE DEF someOf
<1>16. ASSUME NEW n \in SeriesOf!Names
       PROVE  /\ SeriesOf!AreNewest(chart'[n], SeriesPoints(n)')
              /\ chart'[n] \in SUBSET SeriesPlaces
  <2>1. SeriesOf!AreNewest(chart[n], SeriesPoints(n))
    BY <1>1 DEF SeriesChart, SeriesDrawn
  <2>2. /\ IsFiniteSet(SeriesPoints(n)) /\ IsFiniteSet(someOf(n))
        /\ SeriesPoints(n) \subseteq SeriesPair /\ someOf(n) \subseteq SeriesPair
    BY <1>15, PlacesAreFinite, FS_Subset
  <2>3. SeriesOf!AreNewest(SeriesOf!Newest(chart[n] \cup someOf(n)), SeriesPoints(n) \cup someOf(n))
    BY <1>15, <2>1, <2>2, NewestGrow
  <2>4. chart'[n] = SeriesOf!Newest(chart[n] \cup someOf(n))
    BY <1>3
  <2>5. chart'[n] \subseteq SeriesPoints(n) \cup someOf(n)
    BY <2>3, <2>4 DEF SeriesOf!AreNewest
  <2> QED
    BY <1>15, <2>3, <2>4, <2>5
<1>17. SeriesDrawn'
  BY <1>16, SeriesLibrary DEF SeriesDrawn, SeriesOf!Names, SeriesOf!AreNewest, SeriesOf!Before
<1>18. chart' \in [SeriesOf!Names -> SUBSET SeriesPlaces]
  BY <1>3, <1>16
<1>19. SeriesShape'
  <2>1. SeriesOf!TypeOK'
    BY <1>1, <1>3, <1>5, <1>14, <1>18, SeriesTypes, SeriesTypesNext DEF SeriesShape
  <2>2. stream'.from <= stream'.after /\ stream'.after <= Len(updates)
    BY <1>2, <1>4, <1>5
  <2> QED
    BY <1>1, <1>2, <1>3, <1>5, <1>7, <2>1, <2>2 DEF SeriesShape, SeriesOf!Begin, SeriesOf!Kinds,
       SeriesOf!Never
<1> QED
  BY <1>14, <1>17, <1>19, SeriesPartsNext DEF SeriesChart

LEMMA SeriesInitially == Init => SeriesOf!IInv
<1> SUFFICES ASSUME SeriesOf!Init PROVE SeriesOf!IInv
  BY DEF Init
<1>1. SeriesShape
  <2>1. SeriesOf!TypeOK
    BY SeriesAssumption, SeriesTypes
       DEF SeriesOf!Init, SeriesOf!Begin, SeriesOf!Never, SeriesOf!Kinds, SeriesOf!Times,
           SeriesQuery, SeriesDomain
  <2> QED
    BY <2>1, SeriesAssumption
       DEF SeriesShape, SeriesOf!Init, SeriesOf!Begin, SeriesOf!Never, SeriesOf!Kinds
<1>2. SeriesOf!Samples = {}
  BY DEF SeriesOf!Samples, SeriesOf!IsSample, SeriesOf!Init
<1>3. SeriesOf!Given = {}
  <2>1. \A s : s \notin SeriesOf!Given
    BY <1>1, <1>2, GivenAreSamples
  <2> QED
    BY <2>1
<1>4. SeriesCounts
  BY <1>3 DEF SeriesCounts, SeriesOf!Init, SeriesOf!Times
<1>5. SeriesDrawn
  <2>1. Cardinality({}) <= SeriesLimit
    BY SeriesAssumption, FS_EmptySet
  <2>2. \A n \in SeriesOf!Names : chart[n] = {} /\ SeriesPoints(n) = {}
    BY <1>3 DEF SeriesOf!Init, SeriesPoints
  <2> QED
    BY <2>1, <2>2, SeriesLibrary DEF SeriesDrawn, SeriesOf!AreNewest
<1> QED
  BY <1>1, <1>4, <1>5, SeriesParts DEF SeriesChart

(* However the samples, the two snapshots and any number of streams that   *)
(* break interleave: the page is given no sample twice, and a chart draws  *)
(* all of its window that the stream has passed, but for what newer points *)
(* have replaced, and the snapshots that are cut or of compacted rows      *)
(* (metricSeries and resourceSamples of internal/store, jobSeriesStream of *)
(* internal/httpapi/series.go, web/src/lib/series.ts).                     *)
THEOREM ChartsAreComplete == Spec => []ChartIsComplete
<1>1. ASSUME SeriesOf!IInv, [Next]_vars
      PROVE  SeriesOf!IInv'
  <2>1. ASSUME UNCHANGED <<updates, query, stream, shown, chart, faults>>,
               seriesNow' \in 0 .. SeriesTime, seriesNow' >= seriesNow
        PROVE  SeriesOf!IInv'
    <3>1. SeriesShape /\ SeriesChart
      BY <1>1, SeriesParts
    <3>2. TailKept
      <4>1. DOMAIN updates = 1 .. Len(updates)
        BY <3>1, SeriesTypes DEF SeriesShape
      <4>2. UpdatesKept
        BY <2>1, <4>1 DEF UpdatesKept
      <4>3. \A s : /\ s \in SeriesOf!Samples' <=> s \in SeriesOf!Samples
                   /\ SeriesOf!InTail(s)' <=> SeriesOf!InTail(s)
        BY <2>1 DEF SeriesOf!Samples, SeriesOf!IsSample, SeriesOf!InTail, SeriesOf!Applied,
           SeriesOf!Name, SeriesOf!Kind
      <4> QED
        BY <2>1, <4>2, <4>3 DEF TailKept
    <3>3. /\ SeriesChart'
          /\ \A k \in SeriesOf!Kinds : query[k].at = "end" => (SeriesCut(k)' <=> SeriesCut(k))
      BY <2>1, <3>1, <3>2, ChartUnchanged
    <3>4. SeriesShape'
      <4>1. SeriesOf!TypeOK'
        BY <2>1, <3>1, SeriesTypes, SeriesTypesNext DEF SeriesShape
      <4>2. seriesNow' >= SeriesOf!Begin
        BY <2>1, <3>1, SeriesTypes, SeriesAssumption DEF SeriesShape, SeriesOf!Begin
      <4> QED
        BY <2>1, <3>1, <3>3, <4>1, <4>2 DEF SeriesShape, SeriesOf!Begin, SeriesOf!Kinds,
           SeriesOf!Never
    <3> QED
      BY <3>3, <3>4, SeriesPartsNext
  <2>2. seriesNow \in 0 .. SeriesTime
    BY <1>1, SeriesParts, SeriesTypes DEF SeriesShape
  <2>3. CASE UNCHANGED seriesVars
    BY <2>1, <2>2, <2>3 DEF seriesVars
  <2>4. CASE SeriesOf!Tick
    BY <2>1, <2>2, <2>4, SeriesAssumption DEF SeriesOf!Tick
  <2>5. CASE SeriesOf!Next
    BY <1>1, <2>4, <2>5, BatchesKeepSeries, RequestsKeepSeries, SnapshotKeepsSeries,
       OpeningKeepsSeries, PollKeepsSeries DEF SeriesOf!Next
  <2> QED
    BY <1>1, <2>3, <2>5 DEF Next, vars
<1>2. ASSUME SeriesOf!IInv
      PROVE  ChartIsComplete
  <2>1. SeriesShape /\ SeriesChart /\ DOMAIN shown = SeriesDomain
    BY <1>2, SeriesParts, SeriesTypes DEF SeriesShape
  <2>2. SeriesOf!NothingTwice
    BY <2>1 DEF SeriesOf!NothingTwice, SeriesChart, SeriesCounts
  <2>3. ASSUME NEW s \in SeriesOf!Passed,
               \/ SeriesOf!InWindow(SeriesOf!Kind(SeriesOf!Name(s)), s)
               \/ SeriesOf!Applied(s)
        PROVE  \/ /\ shown[s] = 1
                  /\ SeriesOf!AreNewest(chart[SeriesOf!Name(s)],
                                        chart[SeriesOf!Name(s)] \cup {SeriesOf!PointOf(s)})
               \/ /\ ~SeriesOf!Applied(s)
                  /\ \/ query[SeriesOf!Kind(SeriesOf!Name(s))].truncated
                     \/ SeriesOf!Averaged(SeriesOf!Kind(SeriesOf!Name(s)))
    <3> DEFINE n == SeriesOf!Name(s)
               k == SeriesOf!Kind(SeriesOf!Name(s))
    <3>1. s \in SeriesOf!Samples /\ stream.at # "off" /\ s[1] <= stream.after
      BY <2>3 DEF SeriesOf!Passed
    <3>2. /\ s \in SeriesDomain /\ n \in SeriesOf!Names /\ k \in SeriesOf!Kinds
          /\ s[1] \in Nat /\ query[k].cursor \in Nat
      BY <2>1, <3>1, SamplesAre
    <3>3. query[k].at = "end"
      BY <2>1, <3>1, <3>2 DEF SeriesShape
    <3>4. ASSUME s \in SeriesOf!Given
          PROVE  shown[s] = 1 /\ SeriesOf!AreNewest(chart[n], chart[n] \cup {SeriesOf!PointOf(s)})
      <4>1. shown[s] = 1
        BY <2>1, <3>2, <3>4 DEF SeriesChart, SeriesCounts
      <4>2. SeriesOf!PointOf(s) \in SeriesPoints(n)
        BY <3>4 DEF SeriesPoints
      <4>3. SeriesOf!AreNewest(chart[n], SeriesPoints(n))
        BY <2>1, <3>2 DEF SeriesChart, SeriesDrawn
      <4> QED
        BY <4>1, <4>2, <4>3 DEF SeriesOf!AreNewest
    <3>5. CASE SeriesOf!Applied(s)
      BY <3>1, <3>4, <3>5, GivenAre DEF SeriesOf!InTail
    <3>6. CASE ~SeriesOf!Applied(s) /\ ~query[k].truncated /\ ~SeriesOf!Averaged(k)
      <4>1. s \in SeriesOf!Window(k)
        BY <2>3, <3>1, <3>2, <3>6 DEF SeriesOf!Window, SeriesOf!Applied
      <4>2. ~(Cardinality(SeriesOf!Rows(k)) > SeriesLimit)
        BY <2>1, <3>2, <3>3, <3>6, SeriesLibrary DEF SeriesShape, SeriesCut
      <4>3. SeriesOf!Row(k, s) \in SeriesOf!Rows(k)
        BY <3>6, <4>1 DEF SeriesOf!Rows
      <4>4. SeriesOf!Oldest(SeriesOf!Rows(k)) = SeriesOf!Rows(k)
        BY <2>1, <3>2, <4>2, RowsAre, OldestOf
      <4>5. s \in SeriesOf!SeriesAt(k)
        BY <3>6, <4>1, <4>3, <4>4 DEF SeriesOf!SeriesAt
      <4> QED
        BY <3>2, <3>3, <3>4, <4>5, GivenAre
    <3> QED
      BY <2>3, <3>5, <3>6
  <2> QED
    BY <1>2, <2>2, <2>3 DEF ChartIsComplete, SeriesOf!NothingInWindowMissed
<1> QED
  BY SeriesInitially, <1>1, <1>2, PTL DEF Spec

-----------------------------------------------------------------------------
(* Observables. *)

ObservedTable == SourcesOf!Partial(SourceNames, SourcesOf!Given)
Declarations == SourcesOf!Partial(SourceNames, SourcesOf!Sources)

LEMMA PartialFunctions ==
  ASSUME NEW D, NEW R, NEW f
  PROVE  f \in SourcesOf!Partial(D, R) <=> DOMAIN f \subseteq D /\ f \in [DOMAIN f -> R]
<1>1. ASSUME f \in SourcesOf!Partial(D, R)
      PROVE  DOMAIN f \subseteq D /\ f \in [DOMAIN f -> R]
  <2>1. PICK S \in SUBSET D : f \in [S -> R]
    BY <1>1 DEF SourcesOf!Partial
  <2>2. DOMAIN f = S
    BY <2>1
  <2> QED
    BY <2>1, <2>2
<1>2. ASSUME DOMAIN f \subseteq D, f \in [DOMAIN f -> R]
      PROVE  f \in SourcesOf!Partial(D, R)
  <2>1. DOMAIN f \in SUBSET D
    BY <1>2
  <2>2. [DOMAIN f -> R] \in {[S -> R] : S \in SUBSET D}
    BY <2>1
  <2> QED
    BY <1>2, <2>2 DEF SourcesOf!Partial
<1> QED
  BY <1>1, <1>2

(* A sample leaves a descriptor of its metric, with the unit it had if it  *)
(* had one.                                                                *)
LEMMA DescribedMetric ==
  ASSUME declared \in Declarations, NEW table \in ObservedTable,
         NEW sample \in SourcesOf!Samples
  PROVE  LET n == sample.name
             after == SourcesOf!Described(table, sample)
         IN  /\ after \in ObservedTable
             /\ DOMAIN after = DOMAIN table \cup {n}
             /\ \A m \in DOMAIN table \ {n} : after[m] = table[m]
             /\ after[n] = IF n \in DOMAIN table /\ table[n] # ""
                           THEN table[n] ELSE SourcesOf!Inherited(sample)
             /\ n \in SourceNames /\ sample.unit \in SourcesOf!Given
             /\ SourcesOf!Inherited(sample) \in SourcesOf!Given
<1> DEFINE n == sample.name
           value == IF n \in DOMAIN table /\ table[n] # ""
                    THEN table[n] ELSE SourcesOf!Inherited(sample)
           after == [m \in DOMAIN table \cup {n} |-> IF m = n THEN value ELSE table[m]]
<1>1. n \in SourceNames /\ sample.unit \in SourcesOf!Given
  BY DEF SourcesOf!Samples
<1>2. DOMAIN table \subseteq SourceNames /\ table \in [DOMAIN table -> SourcesOf!Given]
  BY PartialFunctions DEF ObservedTable
<1>3. SourcesOf!Inherited(sample) \in SourcesOf!Given
  <2>1. ASSUME n \in DOMAIN declared
        PROVE  declared[n].unit \in SourcesOf!Given
    <3>1. declared \in [DOMAIN declared -> SourcesOf!Sources]
      BY PartialFunctions DEF Declarations
    <3> QED
      BY <2>1, <3>1 DEF SourcesOf!Sources
  <2> QED
    BY <1>1, <2>1 DEF SourcesOf!Inherited
<1>4. SourcesOf!Described(table, sample) = after
  BY DEF SourcesOf!Described, SourcesOf!With
<1>5. value \in SourcesOf!Given
  BY <1>2, <1>3
<1> HIDE DEF value
<1>6. DOMAIN after \subseteq SourceNames /\ after \in [DOMAIN after -> SourcesOf!Given]
  BY <1>1, <1>2, <1>5
<1>7. after \in ObservedTable
  BY <1>6, PartialFunctions DEF ObservedTable
<1>8. DOMAIN after = DOMAIN table \cup {n} /\ after[n] = value
      /\ \A m \in DOMAIN table \ {n} : after[m] = table[m]
  OBVIOUS
<1> HIDE DEF after
<1> QED
  BY <1>1, <1>3, <1>4, <1>7, <1>8 DEF value

(* The descriptors as a batch changes them, one sample after the other.    *)
AfterIter(batch, S, g) ==
  g = [T \in SUBSET S |->
        IF T = {} THEN metric
        ELSE SourcesOf!Described(g[T \ {SourcesOf!Max(T)}], batch[SourcesOf!Max(T)])]

LEMMA LargestIsThere ==
  ASSUME NEW n \in Nat, NEW T \in SUBSET (1 .. n), T # {}
  PROVE  SourcesOf!Max(T) \in T /\ \A y \in T : SourcesOf!Max(T) >= y
<1>1. PICK x : x \in T
  OBVIOUS
<1>2. T \in SUBSET Int /\ n \in Int /\ \A y \in T : y <= n
  OBVIOUS
<1>3. \E m \in T : \A y \in T : y <= m
  BY <1>1, <1>2, BoundedMax
<1>4. \E m \in T : \A y \in T : m >= y
  BY <1>2, <1>3
<1> QED
  BY <1>4 DEF SourcesOf!Max

LEMMA LargestUpTo ==
  ASSUME NEW k \in Nat, k # 0
  PROVE  SourcesOf!Max(1 .. k) = k /\ (1 .. k) \ {k} = 1 .. k - 1
<1>0. 1 .. k \in SUBSET (1 .. k) /\ k \in 1 .. k
  OBVIOUS
<1>1. SourcesOf!Max(1 .. k) \in 1 .. k /\ \A y \in 1 .. k : SourcesOf!Max(1 .. k) >= y
  BY <1>0, LargestIsThere
<1> QED
  BY <1>1

LEMMA AfterUnfolds ==
  ASSUME NEW n \in Nat, NEW batch \in [1 .. n -> SourcesOf!Samples], NEW i \in 0 .. n
  PROVE  SourcesOf!After(batch, i) = (CHOOSE g : AfterIter(batch, 1 .. i, g))[1 .. i]
<1> DEFINE s == SubSeq(batch, 1, i)
           Iter(g) == g = [T \in SUBSET (1 .. i) |->
             IF T = {} THEN metric
             ELSE SourcesOf!Described(g[T \ {SourcesOf!Max(T)}], s[SourcesOf!Max(T)])]
<1>1. DOMAIN s = 1 .. i /\ \A j \in 1 .. i : s[j] = batch[j]
  <2>1. batch \in Seq(SourcesOf!Samples) /\ Len(batch) = n
    OBVIOUS
  <2> QED
    BY <2>1
<1> HIDE DEF s
<1>2. SourcesOf!FoldLeft(SourcesOf!Described, metric, s) = (CHOOSE g : Iter(g))[1 .. i]
  BY <1>1 DEF SourcesOf!FoldLeft, SourcesOf!MapThenFoldSet
<1>3. SourcesOf!After(batch, i) = SourcesOf!FoldLeft(SourcesOf!Described, metric, s)
  BY DEF SourcesOf!After, s
<1>4. ASSUME NEW g
      PROVE  Iter(g) <=> AfterIter(batch, 1 .. i, g)
  <2>1. ASSUME NEW T \in SUBSET (1 .. i), T # {}
        PROVE  s[SourcesOf!Max(T)] = batch[SourcesOf!Max(T)]
    <3>1. i \in Nat
      OBVIOUS
    <3>2. SourcesOf!Max(T) \in T
      BY <2>1, <3>1, LargestIsThere
    <3> QED
      BY <1>1, <3>2
  <2> QED
    BY <2>1 DEF AfterIter
<1>5. (CHOOSE g : Iter(g)) = CHOOSE g : AfterIter(batch, 1 .. i, g)
  BY <1>4
<1> QED
  BY <1>2, <1>3, <1>5

(* What the fold goes through, for any part of the batch.                  *)
LEMMA AfterIterates ==
  ASSUME declared \in Declarations, metric \in ObservedTable,
         NEW n \in Nat, NEW batch \in [1 .. n -> SourcesOf!Samples], NEW i \in 0 .. n
  PROVE  \E g : /\ AfterIter(batch, 1 .. i, g)
                /\ SourcesOf!After(batch, i) = g[1 .. i]
<1> DEFINE S == 1 .. i
           A == ObservedTable
           step == [j \in S |-> [table \in A |-> SourcesOf!Described(table, batch[j])]]
           pick == [T \in SUBSET S |-> SourcesOf!Max(T)]
<1>1. IsFiniteSet(S) /\ i \in Nat /\ \A j \in S : batch[j] \in SourcesOf!Samples
  BY FS_Interval
<1>2. step \in [S -> [A -> A]]
  BY <1>1, DescribedMetric
<1>3. Picks(pick, S)
  <2>1. \A T \in SUBSET S : T # {} => SourcesOf!Max(T) \in T
    BY <1>1, LargestIsThere
  <2> QED
    BY <2>1 DEF Picks
<1>4. \A j \in S, table \in A : step[j][table] = SourcesOf!Described(table, batch[j])
  OBVIOUS
<1>5. \A T \in SUBSET S : pick[T] = SourcesOf!Max(T)
  OBVIOUS
<1> HIDE DEF step, pick, S, A
<1>6. metric \in A
  BY DEF A
<1>7. PICK g \in [SUBSET S -> A] : IsFold(step, pick, metric, S, g)
  BY <1>1, <1>2, <1>3, <1>6, FoldsStay
<1>8. ASSUME NEW T \in SUBSET S
      PROVE  g[T] = IF T = {} THEN metric
                    ELSE SourcesOf!Described(g[T \ {SourcesOf!Max(T)}], batch[SourcesOf!Max(T)])
  <2>1. g[T] = Folded(step, pick, metric, T, g)
    BY <1>7 DEF IsFold
  <2>2. CASE T = {}
    BY <2>1, <2>2 DEF Folded
  <2>3. CASE T # {}
    <3>1. pick[T] = SourcesOf!Max(T) /\ pick[T] \in T /\ pick[T] \in S
      BY <1>3, <1>5, <2>3 DEF Picks
    <3>2. g[T \ {pick[T]}] \in A
      BY <1>7
    <3>3. g[T] = step[pick[T]][g[T \ {pick[T]}]]
      BY <2>1, <2>3 DEF Folded
    <3> QED
      BY <1>4, <2>3, <3>1, <3>2, <3>3
  <2> QED
    BY <2>2, <2>3
<1>9. AfterIter(batch, S, g)
  BY <1>7, <1>8 DEF AfterIter
<1>10. AfterIter(batch, S, CHOOSE f : AfterIter(batch, S, f))
  BY <1>9
<1> QED
  BY <1>10, AfterUnfolds DEF S

(* The stages of a batch, whatever part of it is folded.                   *)
LEMMA BatchInStages ==
  ASSUME declared \in Declarations, metric \in ObservedTable,
         NEW n \in Nat, NEW batch \in [1 .. n -> SourcesOf!Samples]
  PROVE  \E stage \in [0 .. n -> ObservedTable] :
           /\ stage[0] = metric
           /\ \A i \in 1 .. n : stage[i] = SourcesOf!Described(stage[i - 1], batch[i])
           /\ \A i \in 0 .. n : SourcesOf!After(batch, i) = stage[i]
<1> DEFINE stage == [i \in 0 .. n |-> SourcesOf!After(batch, i)]
<1>1. ASSUME NEW i \in 0 .. n, NEW g, AfterIter(batch, 1 .. i, g)
      PROVE  /\ g[{}] = metric
             /\ \A k \in 1 .. i : g[1 .. k] = SourcesOf!Described(g[1 .. k - 1], batch[k])
  <2>1. g[{}] = metric
    <3>1. {} \in SUBSET (1 .. i)
      OBVIOUS
    <3> QED
      BY <1>1, <3>1 DEF AfterIter
  <2>2. ASSUME NEW k \in 1 .. i
        PROVE  g[1 .. k] = SourcesOf!Described(g[1 .. k - 1], batch[k])
    <3> DEFINE T == 1 .. k
    <3>0. i \in Nat /\ k \in Nat /\ 1 <= k /\ k <= i /\ 1 \in T
      OBVIOUS
    <3>1. T \in SUBSET (1 .. i) /\ T # {} /\ k \in Nat /\ k # 0
      <4>1. \A x \in T : x \in 1 .. i
        BY <3>0
      <4> HIDE DEF T
      <4> QED
        BY <3>0, <4>1
    <3>2. SourcesOf!Max(T) = k /\ T \ {k} = 1 .. k - 1
      BY <3>1, LargestUpTo
    <3> HIDE DEF T
    <3>3. g[T] = SourcesOf!Described(g[T \ {SourcesOf!Max(T)}], batch[SourcesOf!Max(T)])
      BY <1>1, <3>1 DEF AfterIter
    <3>4. g[T] = SourcesOf!Described(g[1 .. k - 1], batch[k])
      BY <3>2, <3>3
    <3> QED
      BY <3>4 DEF T
  <2> QED
    BY <2>1, <2>2
<1>2. stage[0] = metric
  <2>1. PICK g : AfterIter(batch, 1 .. 0, g) /\ SourcesOf!After(batch, 0) = g[1 .. 0]
    <3>1. 0 \in 0 .. n
      OBVIOUS
    <3> QED
      BY <3>1, AfterIterates
  <2>2. 0 \in 0 .. n /\ 1 .. 0 = {}
    OBVIOUS
  <2> QED
    BY <1>1, <2>1, <2>2
<1>3. ASSUME NEW i \in 1 .. n
      PROVE  stage[i] = SourcesOf!Described(stage[i - 1], batch[i])
  <2>0. i \in 0 .. n /\ i - 1 \in 0 .. n /\ i \in 1 .. i /\ i \in Nat /\ i - 1 \in Nat
    OBVIOUS
  <2>1. PICK g : AfterIter(batch, 1 .. i, g) /\ SourcesOf!After(batch, i) = g[1 .. i]
    BY <2>0, AfterIterates
  <2>2. PICK h : /\ AfterIter(batch, 1 .. i - 1, h)
                 /\ SourcesOf!After(batch, i - 1) = h[1 .. i - 1]
    BY <2>0, AfterIterates
  <2> DEFINE P == {k \in 0 .. i - 1 : g[1 .. k] = h[1 .. k]}
  <2>3. 0 \in P
    <3>1. g[{}] = metric /\ h[{}] = metric
      BY <1>1, <2>0, <2>1, <2>2
    <3>2. 1 .. 0 = {}
      OBVIOUS
    <3> QED
      BY <2>0, <3>1, <3>2
  <2>4. ASSUME NEW k \in 1 .. i - 1, k - 1 \in P
        PROVE  k \in P
    <3>1. k \in 1 .. i
      BY <2>0
    <3>2. g[1 .. k] = SourcesOf!Described(g[1 .. k - 1], batch[k])
      BY <1>1, <2>0, <2>1, <3>1
    <3>3. h[1 .. k] = SourcesOf!Described(h[1 .. k - 1], batch[k])
      BY <1>1, <2>0, <2>2
    <3>4. g[1 .. k - 1] = h[1 .. k - 1]
      BY <2>4
    <3>5. k \in 0 .. i - 1
      BY <2>0
    <3> QED
      BY <3>2, <3>3, <3>4, <3>5
  <2> HIDE DEF P
  <2>5. \A k \in 0 .. i - 1 : k \in P
    BY <2>0, <2>3, <2>4, NumberInduction
  <2>6. g[1 .. i - 1] = h[1 .. i - 1]
    BY <2>0, <2>5 DEF P
  <2>7. g[1 .. i] = SourcesOf!Described(g[1 .. i - 1], batch[i])
    BY <1>1, <2>0, <2>1
  <2> QED
    BY <2>0, <2>1, <2>2, <2>6, <2>7
<1>4. stage \in [0 .. n -> ObservedTable]
  <2> DEFINE P == {k \in 0 .. n : stage[k] \in ObservedTable}
  <2>1. 0 \in P
    BY <1>2
  <2>2. ASSUME NEW k \in 1 .. n, k - 1 \in P
        PROVE  k \in P
    <3>1. stage[k - 1] \in ObservedTable /\ batch[k] \in SourcesOf!Samples /\ k \in 0 .. n
      BY <2>2
    <3>2. stage[k] = SourcesOf!Described(stage[k - 1], batch[k])
      BY <1>3
    <3> HIDE DEF stage
    <3>3. stage[k] \in ObservedTable
      BY <3>1, <3>2, DescribedMetric
    <3> QED
      BY <3>1, <3>3
  <2> HIDE DEF P
  <2>3. \A k \in 0 .. n : k \in P
    BY <2>1, <2>2, NumberInduction
  <2>4. \A k \in 0 .. n : stage[k] \in ObservedTable
    BY <2>3 DEF P
  <2> QED
    BY <2>4
<1>5. \A i \in 0 .. n : SourcesOf!After(batch, i) = stage[i]
  OBVIOUS
<1> HIDE DEF stage
<1> QED
  BY <1>2, <1>3, <1>4, <1>5

(* A table of descriptors that says what the samples said, and nothing     *)
(* against the declarations.                                               *)
Agrees(table) ==
  \A n \in DOMAIN table \cap DOMAIN declared :
    declared[n].type = "metric" /\ ~SourcesOf!Conflict(declared[n].unit, table[n])
Says(table, some) ==
  \A s \in some : s.unit # "" => s.name \in DOMAIN table /\ table[s.name] = s.unit
Keeps(table, before) ==
  \A n \in DOMAIN before : n \in DOMAIN table /\ (before[n] # "" => table[n] = before[n])

LEMMA FittingSample ==
  ASSUME declared \in Declarations, NEW table \in ObservedTable, NEW before, NEW some,
         NEW sample \in SourcesOf!Samples, SourcesOf!Fits(table, sample),
         Agrees(table), Says(table, some), Keeps(table, before)
  PROVE  /\ Agrees(SourcesOf!Described(table, sample))
         /\ Says(SourcesOf!Described(table, sample), some \cup {sample})
         /\ Keeps(SourcesOf!Described(table, sample), before)
<1> DEFINE n == sample.name
           value == IF n \in DOMAIN table /\ table[n] # ""
                    THEN table[n] ELSE SourcesOf!Inherited(sample)
<1>1. PICK after : /\ after = SourcesOf!Described(table, sample)
                   /\ DOMAIN after = DOMAIN table \cup {n}
                   /\ \A m \in DOMAIN table \ {n} : after[m] = table[m]
                   /\ after[n] = value
  BY DescribedMetric
<1>2. n \in DOMAIN declared => /\ declared[n].type = "metric"
                               /\ ~SourcesOf!Conflict(sample.unit, declared[n].unit)
  BY DEF SourcesOf!Fits
<1>3. n \in DOMAIN table => ~SourcesOf!Conflict(SourcesOf!Inherited(sample), table[n])
  BY DEF SourcesOf!Fits
<1>4. SourcesOf!Inherited(sample) =
        IF sample.unit = "" /\ n \in DOMAIN declared THEN declared[n].unit ELSE sample.unit
  BY DEF SourcesOf!Inherited
<1>5. Agrees(after)
  <2> SUFFICES ASSUME NEW m \in DOMAIN after \cap DOMAIN declared
               PROVE  declared[m].type = "metric" /\ ~SourcesOf!Conflict(declared[m].unit, after[m])
    BY DEF Agrees
  <2>1. CASE m = n
    <3>1. after[m] = value
      BY <1>1, <2>1
    <3> HIDE DEF n
    <3> QED
      BY <1>2, <1>4, <2>1, <3>1 DEF Agrees, SourcesOf!Conflict
  <2>2. CASE m # n
    BY <1>1, <2>2 DEF Agrees
  <2> QED
    BY <2>1, <2>2
<1>6. Says(after, some \cup {sample})
  <2> SUFFICES ASSUME NEW s \in some \cup {sample}, s.unit # ""
               PROVE  s.name \in DOMAIN after /\ after[s.name] = s.unit
    BY DEF Says
  <2>1. CASE s \in some
    <3>1. s.name \in DOMAIN table /\ table[s.name] = s.unit
      BY <2>1 DEF Says
    <3> QED
      BY <1>1, <3>1
  <2>2. CASE s = sample
    BY <1>1, <1>3, <1>4, <2>2 DEF SourcesOf!Conflict
  <2> QED
    BY <2>1, <2>2
<1>7. Keeps(after, before)
  BY <1>1 DEF Keeps
<1> QED
  BY <1>1, <1>5, <1>6, <1>7

(* A batch is refused for one sample that does not fit, so what is taken   *)
(* fits the descriptors it leaves.                                         *)
LEMMA FittingBatch ==
  ASSUME declared \in Declarations, metric \in ObservedTable,
         NEW n \in Nat, NEW batch \in [1 .. n -> SourcesOf!Samples],
         SourcesOf!Accepted(batch), Agrees(metric), Says(metric, samples)
  PROVE  LET after == SourcesOf!After(batch, n)
         IN  /\ after \in ObservedTable /\ Agrees(after) /\ Keeps(after, metric)
             /\ Says(after, samples \cup {batch[i] : i \in 1 .. n})
<1>1. PICK stage \in [0 .. n -> ObservedTable] :
        /\ stage[0] = metric
        /\ \A i \in 1 .. n : stage[i] = SourcesOf!Described(stage[i - 1], batch[i])
        /\ \A i \in 0 .. n : SourcesOf!After(batch, i) = stage[i]
  BY BatchInStages
<1> DEFINE given(k) == samples \cup {batch[i] : i \in 1 .. k}
           P == {k \in 0 .. n : /\ Agrees(stage[k]) /\ Keeps(stage[k], metric)
                                /\ Says(stage[k], given(k))}
<1>2. 0 \in P
  <2>1. given(0) = samples
    OBVIOUS
  <2>2. Keeps(metric, metric)
    BY DEF Keeps
  <2> HIDE DEF given
  <2>3. Agrees(stage[0]) /\ Keeps(stage[0], metric) /\ Says(stage[0], given(0))
    BY <1>1, <2>1, <2>2
  <2> QED
    BY <2>3
<1>3. ASSUME NEW k \in 1 .. n, k - 1 \in P
      PROVE  k \in P
  <2>1. /\ batch[k] \in SourcesOf!Samples /\ stage[k - 1] \in ObservedTable
        /\ k \in 0 .. n /\ k - 1 \in 0 .. n /\ k \in DOMAIN batch
    OBVIOUS
  <2>2. SourcesOf!Fits(stage[k - 1], batch[k])
    BY <1>1, <2>1 DEF SourcesOf!Accepted
  <2>3. stage[k] = SourcesOf!Described(stage[k - 1], batch[k])
    BY <1>1
  <2>4. Agrees(stage[k - 1]) /\ Keeps(stage[k - 1], metric) /\ Says(stage[k - 1], given(k - 1))
    BY <1>3
  <2>5. given(k) = given(k - 1) \cup {batch[k]}
    <3>1. 1 .. k = (1 .. k - 1) \cup {k}
      OBVIOUS
    <3> QED
      BY <3>1
  <2> HIDE DEF given
  <2>6. Agrees(stage[k]) /\ Keeps(stage[k], metric) /\ Says(stage[k], given(k))
    <3>1. PICK table, sample : table = stage[k - 1] /\ sample = batch[k]
      OBVIOUS
    <3>2. PICK some : some = given(k - 1)
      OBVIOUS
    <3>3. /\ Agrees(SourcesOf!Described(table, sample))
          /\ Says(SourcesOf!Described(table, sample), some \cup {sample})
          /\ Keeps(SourcesOf!Described(table, sample), metric)
      BY <2>1, <2>2, <2>4, <3>1, <3>2, FittingSample
    <3> QED
      BY <2>3, <2>5, <3>1, <3>2, <3>3
  <2> QED
    BY <2>1, <2>6
<1> HIDE DEF P
<1>4. \A k \in 0 .. n : k \in P
  BY <1>2, <1>3, NumberInduction
<1>5. n \in 0 .. n
  OBVIOUS
<1> QED
  BY <1>1, <1>4, <1>5 DEF P

SourcesTyped ==
  /\ declared \in Declarations /\ phase \in SourcesOf!Partial(Phases, Titles)
  /\ metric \in ObservedTable /\ matrix \in ObservedTable /\ samples \subseteq SourcesOf!Samples
(* What is declared fits what was observed, and the other way round.       *)
SourcesAgree ==
  /\ Agrees(metric) /\ Says(metric, samples)
  /\ \A n \in DOMAIN matrix \cap DOMAIN declared : declared[n].type = "matrix"

LEMMA SourcesParts == SourcesOf!IInv <=> SourcesTyped /\ SourcesAgree
<1>1. SourcesOf!TypeOK <=> SourcesTyped
  BY DEF SourcesOf!TypeOK, SourcesTyped, ObservedTable, Declarations
<1>2. SourcesOf!RetriesAreAccepted <=>
        /\ Agrees(metric)
        /\ \A n \in DOMAIN matrix \cap DOMAIN declared : declared[n].type = "matrix"
  BY DEF SourcesOf!RetriesAreAccepted, SourcesOf!Declarable, SourcesOf!Compatible, Agrees
<1> QED
  BY <1>1, <1>2 DEF SourcesOf!IInv, SourcesAgree, Says

LEMMA SourcesPartsNext ==
  ASSUME SourcesTyped', SourcesAgree'
  PROVE  SourcesOf!IInv'
<1>1. SourcesOf!TypeOK'
  BY DEF SourcesOf!TypeOK, SourcesTyped, ObservedTable, Declarations
<1>2. SourcesOf!RetriesAreAccepted'
  BY DEF SourcesOf!RetriesAreAccepted, SourcesOf!Declarable, SourcesOf!Compatible, Agrees,
     SourcesAgree
<1> QED
  BY <1>1, <1>2 DEF SourcesOf!IInv, SourcesAgree, Says

Completes(merged, table, entries) ==
  /\ DOMAIN merged = DOMAIN table \cup DOMAIN entries
  /\ \A n \in DOMAIN table : merged[n] = table[n]
  /\ \A n \in DOMAIN entries \ DOMAIN table : merged[n] = entries[n]

LEMMA MergedTable ==
  ASSUME NEW D, NEW R, NEW table \in SourcesOf!Partial(D, R),
         NEW entries \in SourcesOf!Partial(D, R)
  PROVE  /\ SourcesOf!Merged(table, entries) \in SourcesOf!Partial(D, R)
         /\ Completes(SourcesOf!Merged(table, entries), table, entries)
<1> DEFINE merged == [n \in DOMAIN table \cup DOMAIN entries |->
                       IF n \in DOMAIN table THEN table[n] ELSE entries[n]]
<1>1. merged = SourcesOf!Merged(table, entries)
  BY DEF SourcesOf!Merged
<1>2. /\ DOMAIN table \subseteq D /\ table \in [DOMAIN table -> R]
      /\ DOMAIN entries \subseteq D /\ entries \in [DOMAIN entries -> R]
  BY PartialFunctions
<1>3. DOMAIN merged \subseteq D /\ merged \in [DOMAIN merged -> R]
  BY <1>2
<1>4. merged \in SourcesOf!Partial(D, R)
  BY <1>3, PartialFunctions
<1>5. Completes(merged, table, entries)
  BY DEF Completes
<1> HIDE DEF merged
<1> QED
  BY <1>1, <1>4, <1>5

LEMMA ManifestKeepsSources ==
  ASSUME SourcesTyped, SourcesAgree, NEW sources \in Declarations,
         NEW phases \in SourcesOf!Partial(Phases, Titles),
         SourcesOf!ApplyObservabilityManifest(sources, phases)
  PROVE  /\ SourcesTyped' /\ SourcesAgree'
         /\ \A n \in DOMAIN declared : n \in DOMAIN declared' /\ declared'[n] = declared[n]
<1>1. /\ \A n \in DOMAIN sources : SourcesOf!Declarable(n, sources[n])
      /\ declared' = SourcesOf!Merged(declared, sources)
      /\ phase' = SourcesOf!Merged(phase, phases)
      /\ UNCHANGED <<metric, matrix, samples>>
  BY DEF SourcesOf!ApplyObservabilityManifest
<1>2. /\ declared' \in Declarations /\ DOMAIN declared' = DOMAIN declared \cup DOMAIN sources
      /\ \A n \in DOMAIN declared : declared'[n] = declared[n]
      /\ \A n \in DOMAIN sources \ DOMAIN declared : declared'[n] = sources[n]
  <2>1. /\ declared \in SourcesOf!Partial(SourceNames, SourcesOf!Sources)
        /\ sources \in SourcesOf!Partial(SourceNames, SourcesOf!Sources)
    BY DEF SourcesTyped, Declarations
  <2>2. /\ SourcesOf!Merged(declared, sources)
             \in SourcesOf!Partial(SourceNames, SourcesOf!Sources)
        /\ Completes(SourcesOf!Merged(declared, sources), declared, sources)
    BY <2>1, MergedTable
  <2> QED
    BY <1>1, <2>2 DEF Declarations, Completes
<1>3. phase' \in SourcesOf!Partial(Phases, Titles)
  BY <1>1, MergedTable DEF SourcesTyped
<1>4. SourcesTyped'
  BY <1>1, <1>2, <1>3 DEF SourcesTyped, ObservedTable, Declarations, SourcesOf!Partial,
     SourcesOf!Given, SourcesOf!Sources, SourcesOf!Samples, SourcesOf!Types
<1>5. \A n \in DOMAIN sources : SourcesOf!Compatible(n, sources[n])
  BY <1>1 DEF SourcesOf!Declarable
<1>6. Agrees(metric)'
  <2> SUFFICES ASSUME NEW n \in DOMAIN metric \cap DOMAIN declared'
               PROVE  /\ declared'[n].type = "metric"
                      /\ ~SourcesOf!Conflict(declared'[n].unit, metric[n])
    BY <1>1 DEF Agrees, SourcesOf!Conflict
  <2>1. CASE n \in DOMAIN declared
    BY <1>2, <2>1 DEF SourcesAgree, Agrees
  <2>2. CASE n \in DOMAIN sources \ DOMAIN declared
    BY <1>2, <1>5, <2>2 DEF SourcesOf!Compatible
  <2> QED
    BY <1>2, <2>1, <2>2
<1>7. \A n \in DOMAIN matrix \cap DOMAIN declared' : declared'[n].type = "matrix"
  <2> SUFFICES ASSUME NEW n \in DOMAIN matrix \cap DOMAIN declared'
               PROVE  declared'[n].type = "matrix"
    OBVIOUS
  <2>1. CASE n \in DOMAIN declared
    BY <1>2, <2>1 DEF SourcesAgree
  <2>2. CASE n \in DOMAIN sources \ DOMAIN declared
    BY <1>2, <1>5, <2>2 DEF SourcesOf!Compatible
  <2> QED
    BY <1>2, <2>1, <2>2
<1>8. SourcesAgree'
  BY <1>1, <1>6, <1>7 DEF SourcesAgree, Says
<1> QED
  BY <1>2, <1>4, <1>8

LEMMA SamplesKeepSources ==
  ASSUME SourcesTyped, SourcesAgree, NEW n \in Nat, NEW batch \in [1 .. n -> SourcesOf!Samples],
         SourcesOf!AppendMetricSamples(batch)
  PROVE  SourcesTyped' /\ SourcesAgree' /\ Keeps(metric', metric) /\ declared' = declared
<1>1. /\ SourcesOf!Accepted(batch) /\ metric' = SourcesOf!After(batch, n)
      /\ samples' = samples \cup {batch[i] : i \in 1 .. n}
      /\ UNCHANGED <<declared, phase, matrix>>
  <2>1. Len(batch) = n /\ DOMAIN batch = 1 .. n
    OBVIOUS
  <2> QED
    BY <2>1 DEF SourcesOf!AppendMetricSamples, SourcesOf!ToSet
<1>2. /\ metric' \in ObservedTable /\ Agrees(metric') /\ Keeps(metric', metric)
      /\ Says(metric', samples \cup {batch[i] : i \in 1 .. n})
  BY <1>1, FittingBatch DEF SourcesTyped, SourcesAgree
<1>3. SourcesTyped'
  BY <1>1, <1>2 DEF SourcesTyped, ObservedTable, Declarations, SourcesOf!Partial,
     SourcesOf!Given, SourcesOf!Sources, SourcesOf!Samples, SourcesOf!Types
<1>4. SourcesAgree'
  BY <1>1, <1>2 DEF SourcesAgree, Agrees, Says, SourcesOf!Conflict
<1> QED
  BY <1>1, <1>2, <1>3, <1>4

LEMMA MatrixKeepsSources ==
  ASSUME SourcesTyped, SourcesAgree, NEW name \in SourceNames, NEW unit \in SourcesOf!Given,
         SourcesOf!AppendMatrix(name, unit)
  PROVE  SourcesTyped' /\ SourcesAgree' /\ UNCHANGED <<metric, declared>>
<1>1. /\ name \in DOMAIN declared => declared[name].type = "matrix"
      /\ matrix' = [n \in DOMAIN matrix \cup {name} |-> IF n = name THEN unit ELSE matrix[n]]
      /\ UNCHANGED <<declared, phase, metric, samples>>
  BY DEF SourcesOf!AppendMatrix, SourcesOf!MatrixFits, SourcesOf!With
<1>2. matrix' \in ObservedTable
  <2>1. DOMAIN matrix \subseteq SourceNames /\ matrix \in [DOMAIN matrix -> SourcesOf!Given]
    BY PartialFunctions DEF SourcesTyped, ObservedTable
  <2>2. DOMAIN matrix' \subseteq SourceNames /\ matrix' \in [DOMAIN matrix' -> SourcesOf!Given]
    BY <1>1, <2>1
  <2> QED
    BY <2>2, PartialFunctions DEF ObservedTable
<1>3. SourcesTyped'
  BY <1>1, <1>2 DEF SourcesTyped, ObservedTable, Declarations, SourcesOf!Partial,
     SourcesOf!Given, SourcesOf!Sources, SourcesOf!Samples, SourcesOf!Types
<1>4. \A n \in DOMAIN matrix' \cap DOMAIN declared : declared[n].type = "matrix"
  BY <1>1 DEF SourcesAgree
<1>5. SourcesAgree'
  BY <1>1, <1>4 DEF SourcesAgree, Agrees, Says, SourcesOf!Conflict
<1> QED
  BY <1>1, <1>3, <1>5

(* What every step of the component does to descriptors and declarations.  *)
SourcesKept ==
  /\ SourcesTyped' /\ SourcesAgree' /\ Keeps(metric', metric)
  /\ \A n \in DOMAIN declared : n \in DOMAIN declared' /\ declared'[n] = declared[n]

LEMMA SourcesStep ==
  ASSUME SourcesOf!IInv, part = "observables", SourcesOf!Next
  PROVE  SourcesKept
<1>0. SourcesTyped /\ SourcesAgree
  BY SourcesParts
<1>1. Keeps(metric, metric)
  BY DEF Keeps
<1>2. ASSUME NEW sources \in Declarations, NEW phases \in SourcesOf!Partial(Phases, Titles),
             SourcesOf!ApplyObservabilityManifest(sources, phases)
      PROVE  SourcesKept
  <2>1. metric' = metric
    BY <1>2 DEF SourcesOf!ApplyObservabilityManifest
  <2> QED
    BY <1>0, <1>1, <1>2, <2>1, ManifestKeepsSources DEF SourcesKept
<1>3. ASSUME NEW n \in 1 .. MaxBatch, NEW batch \in [1 .. n -> SourcesOf!Samples],
             SourcesOf!AppendMetricSamples(batch)
      PROVE  SourcesKept
  <2>1. n \in Nat
    OBVIOUS
  <2> QED
    BY <1>0, <1>3, <2>1, SamplesKeepSources DEF SourcesKept
<1>4. ASSUME NEW name \in SourceNames, NEW unit \in SourcesOf!Given,
             SourcesOf!AppendMatrix(name, unit)
      PROVE  SourcesKept
  BY <1>0, <1>1, <1>4, MatrixKeepsSources DEF SourcesKept
<1> QED
  BY <1>2, <1>3, <1>4 DEF SourcesOf!Next, Declarations

LEMMA SourcesInitially == Init => SourcesOf!IInv
<1> SUFFICES ASSUME SourcesOf!Init PROVE SourcesOf!IInv
  BY DEF Init
<1>1. /\ DOMAIN declared = {} /\ DOMAIN phase = {} /\ DOMAIN metric = {} /\ DOMAIN matrix = {}
      /\ declared = [n \in {} |-> n] /\ phase = [n \in {} |-> n]
      /\ metric = [n \in {} |-> n] /\ matrix = [n \in {} |-> n] /\ samples = {}
  BY DEF SourcesOf!Init
<1>2. \A R, f : f = [n \in {} |-> n] => f \in [{} -> R]
  OBVIOUS
<1>3. SourcesTyped
  BY <1>1, <1>2, PartialFunctions DEF SourcesTyped, ObservedTable, Declarations
<1>4. SourcesAgree
  BY <1>1 DEF SourcesAgree, Agrees, Says
<1> QED
  BY <1>3, <1>4, SourcesParts

LEMMA SourcesSteps ==
  ASSUME SourcesOf!IInv, [Next]_vars
  PROVE  SourcesOf!IInv' /\ (SourcesKept \/ UNCHANGED observablesVars)
<1>1. CASE part = "observables" /\ SourcesOf!Next
  <2>1. SourcesKept
    BY <1>1, SourcesStep
  <2> QED
    BY <2>1, SourcesPartsNext DEF SourcesKept
<1>2. CASE UNCHANGED observablesVars
  <2>1. SourcesTyped /\ SourcesAgree
    BY SourcesParts
  <2>2. SourcesTyped' /\ SourcesAgree'
    BY <1>2, <2>1 DEF observablesVars, SourcesTyped, SourcesAgree, ObservedTable,
       Declarations, SourcesOf!Partial, SourcesOf!Given, SourcesOf!Sources,
       SourcesOf!Samples, SourcesOf!Types, Agrees, Says, SourcesOf!Conflict
  <2> QED
    BY <1>2, <2>2, SourcesPartsNext
<1> QED
  BY <1>1, <1>2 DEF Next, vars

(* Whatever comes first - samples, a declaration, a batch whose samples    *)
(* give more and more - no sample is stored with another unit than the     *)
(* catalog shows, and what was declared can be declared again              *)
(* (AppendMetricSamples of internal/store/metrics.go,                      *)
(* ApplyObservabilityManifest of internal/store/observability_manifest.go).*)
THEOREM SamplesAlwaysFit == Spec => []SamplesFitTheirMetric
<1>1. SourcesOf!IInv => SamplesFitTheirMetric
  <2> SUFFICES ASSUME SourcesOf!IInv PROVE SamplesFitTheirMetric
    OBVIOUS
  <2>1. SourcesOf!SamplesFitTheirMetric
    BY DEF SourcesOf!IInv, SourcesOf!SamplesFitTheirMetric, SourcesOf!Shown
  <2> QED
    BY <2>1 DEF SamplesFitTheirMetric, SourcesOf!IInv
<1> QED
  BY SourcesInitially, SourcesSteps, <1>1, PTL DEF Spec

(* The catalog never shows another unit for a metric than it has shown.    *)
THEOREM MeaningStays == Spec => MeaningIsStable
<1>1. ASSUME SourcesOf!IInv, SourcesOf!IInv', [Next]_vars,
             NEW n \in SourceNames, SourcesOf!Shown(metric, "metric", declared, n) # ""
      PROVE  SourcesOf!Shown(metric', "metric", declared', n)
               = SourcesOf!Shown(metric, "metric", declared, n)
  <2>1. CASE UNCHANGED observablesVars
    BY <2>1 DEF observablesVars, SourcesOf!Shown
  <2>2. CASE SourcesKept
    <3>1. CASE n \in DOMAIN metric /\ metric[n] # ""
      <4>1. n \in DOMAIN metric' /\ metric'[n] = metric[n]
        BY <2>2, <3>1 DEF SourcesKept, Keeps
      <4> QED
        BY <3>1, <4>1 DEF SourcesOf!Shown
    <3>2. CASE ~(n \in DOMAIN metric /\ metric[n] # "")
      <4>1. /\ n \in DOMAIN declared /\ declared[n].type = "metric" /\ declared[n].unit # ""
            /\ SourcesOf!Shown(metric, "metric", declared, n) = declared[n].unit
        BY <1>1, <3>2 DEF SourcesOf!Shown
      <4>2. n \in DOMAIN declared' /\ declared'[n] = declared[n]
        BY <2>2, <4>1 DEF SourcesKept
      <4>3. n \in DOMAIN metric' /\ metric'[n] # "" => metric'[n] = declared[n].unit
        BY <2>2, <4>1, <4>2 DEF SourcesKept, SourcesAgree, Agrees, SourcesOf!Conflict
      <4> QED
        BY <4>1, <4>2, <4>3 DEF SourcesOf!Shown
    <3> QED
      BY <3>1, <3>2
  <2> QED
    BY <1>1, <2>1, <2>2, SourcesSteps
<1>2. ASSUME SourcesOf!IInv, SourcesOf!IInv', [Next]_vars
      PROVE  [\A n \in SourceNames :
                LET before == SourcesOf!Shown(metric, "metric", declared, n) IN
                before # "" => SourcesOf!Shown(metric', "metric", declared', n) = before
             ]_observablesVars
  BY <1>1, <1>2
<1> QED
  BY SourcesInitially, SourcesSteps, <1>2, PTL
     DEF Spec, MeaningIsStable, SourcesOf!MeaningIsStable, SourcesOf!vars, observablesVars

-----------------------------------------------------------------------------
(* Progress. *)

ProgressThread ==
  {ProgressOf!Idle} \cup [at : {"define"}, items : ProgressOf!Definitions, clean : BOOLEAN]
                    \cup [at : {"report"}, report : ProgressOf!Report]

LEMMA ProgressTypes ==
  ProgressOf!IInv =>
    /\ milestones \in ProgressOf!Definitions /\ reports \in Seq(ProgressOf!Report)
    /\ Len(reports) <= MaxReports /\ raced \in BOOLEAN
    /\ progressThread \in [Reporters -> ProgressThread]
    /\ \A t \in Reporters :
         /\ progressThread[t].at = "define" => progressThread[t].clean
         /\ progressThread[t].at = "report" /\ progressThread[t].report.kind # "simple" =>
              progressThread[t].report.name \in DOMAIN milestones \/ raced
    /\ \A i \in DOMAIN reports :
         reports[i].kind # "simple" => reports[i].name \in DOMAIN milestones \/ raced
BY DEF ProgressOf!IInv, ProgressOf!TypeOK, ProgressOf!ReportedIsDefinedUnlessRaced,
   ProgressThread

(* One thread goes on; what its step does to the others' requests is given. *)
LEMMA ProgressKept ==
  ASSUME ProgressOf!IInv, NEW t \in Reporters, NEW request \in ProgressThread,
         progressThread' = [progressThread EXCEPT ![t] = request],
         milestones' \in ProgressOf!Definitions, reports' \in Seq(ProgressOf!Report),
         Len(reports') <= MaxReports, raced' \in BOOLEAN,
         request.at = "define" => request.clean,
         request.at = "report" /\ request.report.kind # "simple" =>
           request.report.name \in DOMAIN milestones' \/ raced',
         \A u \in Reporters \ {t} :
           progressThread[u].at = "report" /\ progressThread[u].report.kind # "simple" =>
             progressThread[u].report.name \in DOMAIN milestones' \/ raced',
         \A i \in DOMAIN reports' :
           reports'[i].kind # "simple" => reports'[i].name \in DOMAIN milestones' \/ raced'
  PROVE  ProgressOf!IInv'
<1>1. progressThread \in [Reporters -> ProgressThread]
  BY ProgressTypes
<1>2. progressThread' \in [Reporters -> ProgressThread]
  BY <1>1
<1>3. /\ progressThread'[t] = request
      /\ \A u \in Reporters \ {t} : progressThread'[u] = progressThread[u]
  BY <1>1
<1>4. ProgressOf!TypeOK'
  BY <1>2 DEF ProgressOf!TypeOK, ProgressThread, ProgressOf!Definitions, ProgressOf!Report,
     ProgressOf!Kinds, ProgressOf!NoName, ProgressOf!Idle
<1>5. ProgressOf!ReportedIsDefinedUnlessRaced'
  BY DEF ProgressOf!ReportedIsDefinedUnlessRaced
<1>6. ASSUME NEW u \in Reporters
      PROVE  /\ progressThread'[u].at = "define" => progressThread'[u].clean
             /\ progressThread'[u].at = "report" /\ progressThread'[u].report.kind # "simple" =>
                  progressThread'[u].report.name \in DOMAIN milestones' \/ raced'
  <2>1. CASE u = t
    BY <1>3, <2>1
  <2>2. CASE u # t
    <3>1. progressThread'[u] = progressThread[u]
      BY <1>3, <2>2
    <3>2. progressThread[u].at = "define" => progressThread[u].clean
      BY ProgressTypes
    <3> QED
      BY <2>2, <3>1, <3>2
  <2> QED
    BY <2>1, <2>2
<1> QED
  BY <1>4, <1>5, <1>6 DEF ProgressOf!IInv

LEMMA ProgressSteps ==
  ASSUME ProgressOf!IInv, ProgressOf!Next
  PROVE  ProgressOf!IInv'
<1>0. PICK t \in Reporters :
        \/ \E items \in ProgressOf!Definitions : ProgressOf!CheckMilestones(t, items)
        \/ \E r \in ProgressOf!Report : ProgressOf!CheckReport(t, r)
        \/ ProgressOf!DefineMilestones(t) \/ ProgressOf!AppendProgress(t) \/ ProgressOf!Fails(t)
  BY DEF ProgressOf!Next
<1> DEFINE known(name) == name \in DOMAIN milestones \/ raced
<1>1. /\ milestones \in ProgressOf!Definitions /\ reports \in Seq(ProgressOf!Report)
      /\ Len(reports) <= MaxReports /\ raced \in BOOLEAN
      /\ progressThread \in [Reporters -> ProgressThread]
      /\ \A u \in Reporters :
           /\ progressThread[u].at = "define" => progressThread[u].clean
           /\ progressThread[u].at = "report" /\ progressThread[u].report.kind # "simple" =>
                known(progressThread[u].report.name)
      /\ \A i \in DOMAIN reports : reports[i].kind # "simple" => known(reports[i].name)
  BY ProgressTypes
<1>2. /\ ProgressOf!Idle.at = "idle" /\ ProgressOf!Idle \in ProgressThread
  BY DEF ProgressOf!Idle, ProgressThread
<1>3. ASSUME NEW items \in ProgressOf!Definitions, ProgressOf!CheckMilestones(t, items)
      PROVE  ProgressOf!IInv'
  <2> DEFINE request == [at |-> "define", items |-> items, clean |-> reports = <<>>]
  <2>1. /\ progressThread' = [progressThread EXCEPT ![t] = request]
        /\ reports = <<>> /\ UNCHANGED <<milestones, reports, raced>>
    BY <1>3 DEF ProgressOf!CheckMilestones, ProgressOf!NothingReported
  <2>2. request \in ProgressThread /\ request.at = "define" /\ request.clean
    BY <2>1 DEF ProgressThread
  <2> HIDE DEF request
  <2> QED
    BY <1>1, <2>1, <2>2, ProgressKept
<1>4. ASSUME NEW r \in ProgressOf!Report, ProgressOf!CheckReport(t, r)
      PROVE  ProgressOf!IInv'
  <2> DEFINE request == [at |-> "report", report |-> r]
  <2>1. /\ progressThread' = [progressThread EXCEPT ![t] = request]
        /\ r.kind = "simple" \/ r.name \in DOMAIN milestones
        /\ UNCHANGED <<milestones, reports, raced>>
    BY <1>4 DEF ProgressOf!CheckReport
  <2>2. request \in ProgressThread /\ request.at = "report" /\ request.report = r
    BY DEF ProgressThread
  <2> HIDE DEF request
  <2> QED
    BY <1>1, <2>1, <2>2, ProgressKept
<1>5. CASE ProgressOf!DefineMilestones(t)
  <2> DEFINE late == reports # <<>> \/ \E u \in Reporters : progressThread[u].at = "report"
  <2>1. /\ progressThread[t].at = "define" /\ progressThread[t].clean
        /\ milestones' = progressThread[t].items
        /\ raced' = (raced \/ (progressThread[t].clean /\ late))
        /\ progressThread' = [progressThread EXCEPT ![t] = ProgressOf!Idle]
        /\ UNCHANGED reports
    BY <1>1, <1>5 DEF ProgressOf!DefineMilestones
  <2>2. milestones' \in ProgressOf!Definitions
    <3>1. progressThread[t] \in ProgressThread
      BY <1>1
    <3> QED
      BY <2>1, <3>1 DEF ProgressThread, ProgressOf!Idle
  <2>3. late => raced'
    BY <2>1
  <2>4. raced' \in BOOLEAN
    BY <1>1, <2>1
  <2>5. \A i \in DOMAIN reports' : late
    BY <1>1, <2>1
  <2>6. \A u \in Reporters : progressThread[u].at = "report" => late
    OBVIOUS
  <2> HIDE DEF late
  <2> QED
    BY <1>1, <1>2, <2>1, <2>2, <2>3, <2>4, <2>5, <2>6, ProgressKept
<1>6. CASE ProgressOf!AppendProgress(t)
  <2>1. /\ progressThread[t].at = "report" /\ Len(reports) < MaxReports
        /\ reports' = Append(reports, progressThread[t].report)
        /\ progressThread' = [progressThread EXCEPT ![t] = ProgressOf!Idle]
        /\ UNCHANGED <<milestones, raced>>
    BY <1>6 DEF ProgressOf!AppendProgress
  <2>2. PICK r : r = progressThread[t].report
    OBVIOUS
  <2>3. r \in ProgressOf!Report /\ (r.kind # "simple" => known(r.name))
    <3>1. progressThread[t] \in ProgressThread
      BY <1>1
    <3> QED
      BY <1>1, <2>1, <2>2, <3>1 DEF ProgressThread, ProgressOf!Idle
  <2>4. /\ reports' \in Seq(ProgressOf!Report) /\ Len(reports') <= MaxReports
        /\ \A i \in DOMAIN reports' :
             reports'[i] = r \/ (i \in DOMAIN reports /\ reports'[i] = reports[i])
    <3>1. reports \in Seq(ProgressOf!Report) /\ reports' = Append(reports, r)
      BY <1>1, <2>1, <2>2
    <3>2. /\ reports' \in Seq(ProgressOf!Report) /\ Len(reports') = Len(reports) + 1
          /\ Len(reports) \in Nat /\ DOMAIN reports' = 1 .. Len(reports) + 1
          /\ DOMAIN reports = 1 .. Len(reports) /\ reports'[Len(reports) + 1] = r
          /\ \A i \in 1 .. Len(reports) : reports'[i] = reports[i]
      BY <2>3, <3>1
    <3>3. Len(reports') <= MaxReports
      BY <2>1, <3>2, ProgressAssumption
    <3>4. \A i \in 1 .. Len(reports) + 1 : i \in 1 .. Len(reports) \/ i = Len(reports) + 1
      BY <3>2
    <3> QED
      BY <3>2, <3>3, <3>4
  <2>5. \A i \in DOMAIN reports' : reports'[i].kind # "simple" => known(reports'[i].name)
    BY <1>1, <2>3, <2>4
  <2> QED
    BY <1>1, <1>2, <2>1, <2>4, <2>5, ProgressKept
<1>7. CASE ProgressOf!Fails(t)
  BY <1>1, <1>2, <1>7, ProgressKept DEF ProgressOf!Fails
<1> QED
  BY <1>0, <1>3, <1>4, <1>5, <1>6, <1>7

LEMMA ProgressInitially == Init => ProgressOf!IInv
<1> SUFFICES ASSUME ProgressOf!Init PROVE ProgressOf!IInv
  BY DEF Init
<1>1. milestones = [n \in {} |-> 0] /\ reports = <<>> /\ raced = FALSE
      /\ progressThread = [t \in Reporters |-> ProgressOf!Idle]
  BY DEF ProgressOf!Init, ProgressOf!NoMilestones
<1>2. milestones \in ProgressOf!Definitions
  <2>1. milestones \in [{} -> Weights]
    BY <1>1
  <2>2. [{} -> Weights] \in {[some -> Weights] : some \in SUBSET MilestoneNames}
    OBVIOUS
  <2> QED
    BY <2>1, <2>2 DEF ProgressOf!Definitions
<1>3. ProgressOf!TypeOK
  <2>1. reports \in Seq(ProgressOf!Report) /\ Len(reports) = 0
    BY <1>1
  <2>2. progressThread \in [Reporters -> ProgressThread]
    BY <1>1 DEF ProgressThread
  <2>3. Len(reports) <= MaxReports
    BY <2>1, ProgressAssumption
  <2>4. raced \in BOOLEAN
    BY <1>1
  <2> QED
    BY <1>2, <2>1, <2>2, <2>3, <2>4 DEF ProgressOf!TypeOK, ProgressThread
<1>4. \A t \in Reporters : progressThread[t].at = "idle"
  BY <1>1 DEF ProgressOf!Idle
<1> QED
  BY <1>1, <1>3, <1>4 DEF ProgressOf!IInv, ProgressOf!ReportedIsDefinedUnlessRaced

(* Of the reports of a kind one is the newest.                             *)
LEMMA NewestIsThere ==
  ASSUME reports \in Seq(ProgressOf!Report), NEW kind, ProgressOf!Of(kind) # {}
  PROVE  /\ ProgressOf!Newest(kind) \in ProgressOf!Of(kind)
         /\ \A j \in ProgressOf!Of(kind) : reports[ProgressOf!Newest(kind)].at >= reports[j].at
<1> DEFINE O == ProgressOf!Of(kind)
           Stamps == {reports[i].at : i \in O}
<1>1. Len(reports) \in Int /\ O \subseteq 1 .. Len(reports) /\ ReportTime \in Int
      /\ \A i \in O : reports[i].at \in 1 .. ReportTime /\ reports[i].at \in Int
  <2>1. Len(reports) \in Nat /\ O \subseteq 1 .. Len(reports)
    BY DEF ProgressOf!Of
  <2>2. \A i \in O : reports[i] \in ProgressOf!Report
    BY <2>1
  <2>3. \A r \in ProgressOf!Report : r.at \in 1 .. ReportTime
    BY DEF ProgressOf!Report
  <2> QED
    BY <2>1, <2>2, <2>3, ProgressAssumption
<1>2. PICK i0 \in O : TRUE
  OBVIOUS
<1> HIDE DEF O
<1>3. PICK m \in Stamps : \A y \in Stamps : y <= m
  <2>1. Stamps \in SUBSET Int /\ reports[i0].at \in Stamps /\ \A y \in Stamps : y <= ReportTime
    BY <1>1, <1>2
  <2> HIDE DEF Stamps
  <2>2. \E x : x \in Stamps
    BY <2>1
  <2> QED
    BY <1>1, <2>1, <2>2, BoundedMax
<1> DEFINE Last == {i \in O : reports[i].at = m}
<1>4. PICK i \in Last : \A j \in Last : j <= i
  <2>1. \E i \in Last : TRUE
    BY <1>3
  <2>2. Last \in SUBSET Int /\ \A y \in Last : y <= Len(reports)
    <3>1. \A y \in O : y \in Int /\ y <= Len(reports)
      BY <1>1
    <3> QED
      BY <3>1
  <2> HIDE DEF Last
  <2> QED
    BY <1>1, <2>1, <2>2, BoundedMax
<1>5. \A j \in O \ {i} : ProgressOf!Later(i, j)
  <2> SUFFICES ASSUME NEW j \in O, j # i PROVE ProgressOf!Later(i, j)
    OBVIOUS
  <2>1. reports[j].at <= m /\ reports[i].at = m /\ reports[j].at \in Int /\ m \in Int
        /\ i \in Int /\ j \in Int
    BY <1>1, <1>3, <1>4
  <2>2. CASE reports[j].at = m
    <3>1. j <= i
      BY <1>4, <2>2
    <3> QED
      BY <2>1, <2>2, <3>1 DEF ProgressOf!Later
  <2>3. CASE reports[j].at # m
    BY <2>1, <2>3 DEF ProgressOf!Later
  <2> QED
    BY <2>2, <2>3
<1>6. ProgressOf!Newest(kind) \in O
      /\ \A j \in O \ {ProgressOf!Newest(kind)} : ProgressOf!Later(ProgressOf!Newest(kind), j)
  BY <1>4, <1>5 DEF ProgressOf!Newest, O
<1>7. ASSUME NEW j \in O
      PROVE  reports[ProgressOf!Newest(kind)].at >= reports[j].at
  <2>1. reports[ProgressOf!Newest(kind)].at \in Int /\ reports[j].at \in Int
    BY <1>1, <1>6
  <2>2. CASE j = ProgressOf!Newest(kind)
    BY <2>1, <2>2
  <2>3. CASE j # ProgressOf!Newest(kind)
    <3>1. ProgressOf!Later(ProgressOf!Newest(kind), j)
      BY <1>6, <2>3
    <3> QED
      BY <2>1, <3>1 DEF ProgressOf!Later
  <2> QED
    BY <2>2, <2>3
<1> QED
  BY <1>6, <1>7 DEF O

LEMMA WeightIsSum ==
  \A some : ProgressOf!Weight(some) = SumFunctionOnSet(milestones, some)
<1> TAKE some
<1>1. ProgressOf!Weight(some) = Sums(milestones, some)[some]
  BY DEF ProgressOf!Weight, ProgressOf!MapThenSumSet, ProgressOf!MapThenFoldSet, Sums, Summed,
     First
<1> QED
  BY <1>1, SumUnfolds

(* What is left out of a sum of weights is missing from it.                *)
LEMMA WeightMissing ==
  ASSUME NEW M, IsFiniteSet(M), \A y \in M : milestones[y] \in Nat,
         NEW K \in SUBSET M, NEW some \in SUBSET (M \ K), IsFiniteSet(some),
         NEW x \in some
  PROVE  /\ ProgressOf!Weight(K) \in Nat /\ ProgressOf!Weight(M) \in Nat
         /\ ProgressOf!Weight(K) + milestones[x] <= ProgressOf!Weight(M)
         /\ \A y \in some \ {x} :
              ProgressOf!Weight(K) + milestones[x] + milestones[y] <= ProgressOf!Weight(M)
<1> DEFINE W(S) == SumFunctionOnSet(milestones, S)
<1>1. IsFiniteSet(K) /\ IsFiniteSet(M \ {x}) /\ K \subseteq M \ {x}
      /\ (\A y \in K : milestones[y] \in Nat) /\ \A y \in M \ {x} : milestones[y] \in Nat
  BY FS_Subset, FS_RemoveElement
<1>2. W(K) \in Nat /\ W(M) \in Nat /\ W(M \ {x}) \in Nat
  BY <1>1, SumType
<1>3. W(M) = milestones[x] + W(M \ {x})
  BY SumRemove
<1>4. W(K) <= W(M \ {x})
  BY <1>1, SumMonotone
<1>5. ASSUME NEW y \in some \ {x}
      PROVE  W(K) + milestones[x] + milestones[y] <= W(M)
  <2> DEFINE N == M \ {x}
             L == N \ {y}
  <2>1. y \in N /\ IsFiniteSet(N) /\ (\A z \in N : milestones[z] \in Nat) /\ K \subseteq L
        /\ \A z \in L : milestones[z] \in Nat
    BY <1>1
  <2>2. IsFiniteSet(L)
    BY <1>1, FS_RemoveElement
  <2> HIDE DEF N
  <2>3. W(N) = milestones[y] + W(L)
    BY <2>1, SumRemove
  <2>4. W(K) <= W(L) /\ W(L) \in Nat
    BY <2>1, <2>2, SumMonotone, SumType
  <2>5. W(M) = milestones[x] + W(N)
    BY <1>3 DEF N
  <2>6. milestones[x] \in Nat /\ milestones[y] \in Nat
    OBVIOUS
  <2> HIDE DEF W
  <2> QED
    BY <1>2, <2>3, <2>4, <2>5, <2>6
<1>6. milestones[x] \in Nat
  OBVIOUS
<1> HIDE DEF W
<1>7. W(K) + milestones[x] <= W(M)
  BY <1>2, <1>3, <1>4, <1>6
<1> QED
  BY <1>2, <1>5, <1>7, WeightIsSum DEF W

(* The newest segment counts for no more than the weight of its milestone, *)
(* and for nothing once that was reached.                                  *)
LEMMA CurrentCounts ==
  ASSUME milestones \in ProgressOf!Definitions, reports \in Seq(ProgressOf!Report),
         ProgressOf!OfCurrent # 0
  PROVE  /\ ProgressOf!Of("segment") # {}
         /\ reports[ProgressOf!Newest("segment")].name \in DOMAIN milestones \ ProgressOf!Reached
         /\ reports[ProgressOf!Newest("segment")].value \in 0 .. Half
         /\ ProgressOf!OfCurrent = milestones[reports[ProgressOf!Newest("segment")].name]
                                     * reports[ProgressOf!Newest("segment")].value
<1>1. ProgressOf!Of("segment") # {}
  BY DEF ProgressOf!OfCurrent
<1>2. PICK current : current = reports[ProgressOf!Newest("segment")]
  OBVIOUS
<1>3. current \in ProgressOf!Report
  <2>1. ProgressOf!Newest("segment") \in DOMAIN reports
    BY <1>1, NewestIsThere DEF ProgressOf!Of
  <2> QED
    BY <1>2, <2>1
<1>4. current.name \notin ProgressOf!Reached /\ current.name \in DOMAIN milestones
      /\ ProgressOf!OfCurrent = milestones[current.name] * current.value
  BY <1>1, <1>2 DEF ProgressOf!OfCurrent
<1>5. current.value \in 0 .. Half
  BY <1>3 DEF ProgressOf!Report
<1> QED
  BY <1>1, <1>2, <1>4, <1>5

LEMMA FullOnlyAlone ==
  ASSUME NEW w \in Nat, NEW v \in 0 .. Half, NEW done \in Nat, NEW total \in Nat,
         Half * done + w * v >= Half * total
  PROVE  /\ done + w <= total /\ w > 0 => v = Half
         /\ \A u \in Nat : u > 0 => ~(done + w + u <= total)
<1>1. Half \in Nat /\ Half > 0 /\ v \in Nat /\ v <= Half
  BY ProgressAssumption
<1>2. w * v <= w * Half
  BY <1>1
<1>3. Half * (done + w) = Half * done + w * Half
  BY <1>1
<1>4. ASSUME done + w <= total, w > 0
      PROVE  v = Half
  <2>1. Half * (done + w) <= Half * total
    BY <1>1, <1>4
  <2>2. w * Half <= w * v
    BY <1>1, <1>3, <2>1
  <2>3. Half <= v
    <3>1. SUFFICES ASSUME v + 1 <= Half PROVE FALSE
      BY <1>1
    <3>2. w * (v + 1) <= w * Half
      BY <1>1, <3>1
    <3>3. w * (v + 1) = w * v + w
      BY <1>1
    <3> QED
      BY <1>1, <1>4, <2>2, <3>2, <3>3
  <2> QED
    BY <1>1, <2>3
<1>5. ASSUME NEW u \in Nat, u > 0, done + w + u <= total
      PROVE  FALSE
  <2>1. Half * (done + w + u) <= Half * total
    BY <1>1, <1>5
  <2>2. Half * (done + w + u) = Half * done + w * Half + Half * u
    BY <1>1
  <2>3. Half * u > 0
    BY <1>1, <1>5
  <2> QED
    BY <1>1, <1>2, <2>1, <2>2, <2>3
<1> QED
  BY <1>4, <1>5

(* 100% of a state is all of its milestones, or all but one in the making. *)
LEMMA CompleteIsReached ==
  ASSUME ProgressOf!IInv
  PROVE  ProgressOf!CompleteMeansReached
<1> SUFFICES ASSUME ProgressOf!HasGlobal, ProgressOf!Done = ProgressOf!All
             PROVE  LET missing == DOMAIN milestones \ ProgressOf!Reached IN
                    \/ missing = {}
                    \/ /\ ProgressOf!Of("segment") # {}
                       /\ missing = {reports[ProgressOf!Newest("segment")].name}
                       /\ reports[ProgressOf!Newest("segment")].value = Half
  BY DEF ProgressOf!CompleteMeansReached
<1> DEFINE M == DOMAIN milestones
           K == ProgressOf!Reached \cap M
           missing == M \ ProgressOf!Reached
           done == ProgressOf!Weight(K)
           total == ProgressOf!Weight(M)
           extra == ProgressOf!OfCurrent
           newest == ProgressOf!Newest("segment")
<1>1. milestones \in ProgressOf!Definitions /\ reports \in Seq(ProgressOf!Report)
  BY ProgressTypes
<1>2. /\ IsFiniteSet(M) /\ \A n \in M : milestones[n] \in Nat /\ milestones[n] > 0
  <2>1. PICK some \in SUBSET MilestoneNames : milestones \in [some -> Weights]
    BY <1>1 DEF ProgressOf!Definitions
  <2>2. M = some /\ IsFiniteSet(some) /\ \A n \in some : milestones[n] \in Weights
    BY <2>1, ProgressAssumption, FS_Subset
  <2> QED
    BY <2>2, ProgressAssumption DEF ProgressOf!HasGlobal
<1>3. K \in SUBSET M /\ missing \in SUBSET (M \ K) /\ IsFiniteSet(missing)
      /\ \A n \in M : milestones[n] \in Nat
  BY <1>2, FS_Subset
<1>4. IsFiniteSet(K) /\ \A n \in K : milestones[n] \in Nat
  BY <1>2, FS_Subset
<1>5. done \in Nat /\ total \in Nat
  BY <1>3, <1>2, <1>4, SumType, WeightIsSum
<1>6. extra \in Nat
  <2>1. CASE extra = 0
    BY <2>1
  <2>2. CASE extra # 0
    <3>1. PICK n \in M, v \in 0 .. Half : extra = milestones[n] * v
      BY <1>1, <2>2, CurrentCounts
    <3>2. milestones[n] \in Nat /\ v \in Nat
      BY <1>2
    <3> QED
      BY <3>1, <3>2
  <2> QED
    BY <2>1, <2>2
<1>7. Half * done + extra >= Half * total
  <2> DEFINE S == {Half * total, Half * done + extra}
  <2>1. Half * total \in Int /\ Half * done + extra \in Int
    BY <1>5, <1>6, ProgressAssumption
  <2>2. \E m \in S : \A y \in S : m <= y
    BY <2>1
  <2>3. ProgressOf!Min(S) \in S /\ \A y \in S : ProgressOf!Min(S) <= y
    BY <2>2 DEF ProgressOf!Min
  <2>4. ProgressOf!Min(S) = Half * total
    BY DEF ProgressOf!Done, ProgressOf!All
  <2> QED
    BY <2>1, <2>3, <2>4
<1> HIDE DEF done, total, extra, K, M
<1>8. ASSUME NEW x \in missing
      PROVE  /\ done + milestones[x] <= total
             /\ \A y \in missing \ {x} : done + milestones[x] + milestones[y] <= total
  BY <1>2, <1>3, <1>8, WeightMissing DEF done, total
<1>9. CASE missing = {}
  BY <1>9 DEF M
<1>10. CASE missing # {}
  <2>1. PICK x \in missing : TRUE
    BY <1>10
  <2>2. milestones[x] \in Nat /\ milestones[x] > 0 /\ done + milestones[x] <= total
    BY <1>2, <1>8
  <2>3. extra # 0
    <3> SUFFICES ASSUME extra = 0 PROVE FALSE
      OBVIOUS
    <3>1. /\ 0 \in Nat /\ 0 \in 0 .. Half /\ Half * done + 0 * 0 >= Half * total
      BY <1>5, <1>7, ProgressAssumption
    <3>2. ~(done + 0 + milestones[x] <= total)
      BY <1>5, <2>2, <3>1, FullOnlyAlone
    <3> QED
      BY <1>5, <2>2, <3>2
  <2>4. PICK c, v : c = reports[newest].name /\ v = reports[newest].value
    OBVIOUS
  <2>5. /\ ProgressOf!Of("segment") # {} /\ c \in missing /\ v \in 0 .. Half
        /\ extra = milestones[c] * v
    BY <1>1, <2>3, <2>4, CurrentCounts DEF extra, M
  <2>6. milestones[c] \in Nat /\ milestones[c] > 0 /\ done + milestones[c] <= total
    BY <1>2, <1>8, <2>5
  <2>7. Half * done + milestones[c] * v >= Half * total
    BY <1>7, <2>5
  <2>8. v = Half
    BY <1>5, <2>5, <2>6, <2>7, FullOnlyAlone
  <2>9. ASSUME NEW y \in missing, y # c
        PROVE  FALSE
    <3>1. done + milestones[c] + milestones[y] <= total
      BY <1>8, <2>5, <2>9
    <3>2. milestones[y] \in Nat /\ milestones[y] > 0
      BY <1>2
    <3> QED
      BY <1>5, <2>5, <2>6, <2>7, <3>1, <3>2, FullOnlyAlone
  <2>10. missing = {c}
    BY <2>5, <2>9
  <2> QED
    BY <2>4, <2>5, <2>8, <2>10 DEF M
<1> QED
  BY <1>9, <1>10

LEMMA ProgressInductive ==
  ASSUME ProgressOf!IInv, [Next]_vars
  PROVE  ProgressOf!IInv'
<1>1. CASE UNCHANGED progressVars
  BY <1>1 DEF progressVars, ProgressOf!IInv, ProgressOf!TypeOK,
     ProgressOf!ReportedIsDefinedUnlessRaced
<1> QED
  BY <1>1, ProgressSteps DEF Next, vars

(* However segments, milestones and definitions of several threads overlap,*)
(* with stamps of their own: a job that shows 100% has reached every       *)
(* milestone but one that is complete, and none is weighed twice           *)
(* (calculateGlobalProgress of internal/store/observations.go).            *)
THEOREM CompleteWasReached == Spec => []CompleteMeansReached
<1>1. ProgressOf!IInv => CompleteMeansReached
  BY CompleteIsReached DEF CompleteMeansReached, ProgressOf!IInv
<1> QED
  BY ProgressInitially, ProgressInductive, <1>1, PTL DEF Spec

NewestIsNewest ==
  \A kind \in {"simple", "segment"} : ProgressOf!Of(kind) # {} =>
    \A j \in ProgressOf!Of(kind) : reports[ProgressOf!Newest(kind)].at >= reports[j].at

(* Reports are shown by their stamps: one that arrives late does not take  *)
(* the place of a newer one.                                               *)
THEOREM ProgressOnlyAdvances == Spec => ProgressNeverGoesBack
<1>0. ProgressOf!IInv => NewestIsNewest
  BY ProgressTypes, NewestIsThere DEF NewestIsNewest
<1>1. ASSUME ProgressOf!IInv, NewestIsNewest', [Next]_vars,
             NEW kind \in {"simple", "segment"}, ProgressOf!Of(kind) # {}
      PROVE  reports'[ProgressOf!Newest(kind)'].at >= reports[ProgressOf!Newest(kind)].at
  <2> DEFINE i == ProgressOf!Newest(kind)
  <2>1. reports \in Seq(ProgressOf!Report)
    BY <1>1, ProgressTypes
  <2>2. i \in ProgressOf!Of(kind) /\ i \in DOMAIN reports
    BY <1>1, <2>1, NewestIsThere DEF ProgressOf!Of
  <2>3. \/ reports' = reports
        \/ \E r : reports' = Append(reports, r)
    BY <1>1 DEF Next, vars, progressVars, ProgressOf!Next, ProgressOf!CheckMilestones,
       ProgressOf!DefineMilestones, ProgressOf!CheckReport, ProgressOf!AppendProgress,
       ProgressOf!Fails
  <2>4. i \in DOMAIN reports' /\ reports'[i] = reports[i]
    BY <2>1, <2>2, <2>3
  <2>5. i \in ProgressOf!Of(kind)'
    BY <2>2, <2>4 DEF ProgressOf!Of
  <2>6. \A j \in ProgressOf!Of(kind)' : reports'[ProgressOf!Newest(kind)'].at >= reports'[j].at
    BY <1>1, <2>5 DEF NewestIsNewest
  <2> QED
    BY <2>4, <2>5, <2>6
<1>2. ASSUME ProgressOf!IInv, NewestIsNewest', [Next]_vars
      PROVE  [\A kind \in {"simple", "segment"} : ProgressOf!Of(kind) # {} =>
                reports'[ProgressOf!Newest(kind)'].at >= reports[ProgressOf!Newest(kind)].at
             ]_progressVars
  BY <1>1, <1>2
<1> QED
  BY ProgressInitially, ProgressInductive, <1>0, <1>2, PTL
     DEF Spec, ProgressNeverGoesBack, ProgressOf!ProgressNeverGoesBack, ProgressOf!vars,
         progressVars

-----------------------------------------------------------------------------
(* Tables: the pages. *)

LEMMA TablesLibrary == \A S : TablesOf!Cardinality(S) = Cardinality(S)
<1> TAKE S
<1> QED
  BY DEF TablesOf!Cardinality, Cardinality

(* A finite set has an element of the greatest weight. *)
LEMMA FiniteHasGreatest ==
  ASSUME NEW S, IsFiniteSet(S), S # {}, NEW w, \A x \in S : w[x] \in Nat
  PROVE  \E m \in S : \A y \in S : w[y] <= w[m]
<1> DEFINE P == {T \in SUBSET S : T # {} => \E m \in T : \A y \in T : w[y] <= w[m]}
<1>1. {} \in P
  OBVIOUS
<1>2. ASSUME NEW T \in SUBSET S, T # {}, T \notin P
      PROVE  \E x \in T : T \ {x} \notin P
  <2>1. PICK x \in T : TRUE
    BY <1>2
  <2>2. ASSUME T \ {x} \in P PROVE FALSE
    <3>1. CASE T \ {x} = {}
      <4>1. \A y \in T : w[y] <= w[x]
        BY <3>1, <2>1
      <4> QED
        BY <1>2, <2>1, <4>1
    <3>2. CASE T \ {x} # {}
      <4>1. PICK m \in T \ {x} : \A y \in T \ {x} : w[y] <= w[m]
        BY <2>2, <3>2
      <4>2. w[m] \in Nat /\ w[x] \in Nat
        BY <2>1, <4>1
      <4>3. CASE w[x] <= w[m]
        <5>1. \A y \in T : w[y] <= w[m]
          BY <4>1, <4>3
        <5> QED
          BY <1>2, <4>1, <5>1
      <4>4. CASE ~(w[x] <= w[m])
        <5>1. \A y \in T : w[y] \in Nat
          OBVIOUS
        <5>2. \A y \in T : w[y] <= w[x]
          BY <4>1, <4>2, <4>4, <5>1
        <5> QED
          BY <1>2, <2>1, <5>2
      <4> QED
        BY <4>3, <4>4
    <3> QED
      BY <3>1, <3>2
  <2> QED
    BY <2>1, <2>2
<1> HIDE DEF P
<1>3. \A T \in SUBSET S : T \in P
  BY <1>1, <1>2, SetInduction
<1> USE DEF P
<1> QED
  BY <1>3

(* An upload gives ids behind all there were, and brings none back.        *)
LEMMA AppendIsBehind ==
  ASSUME TablesOf!TypeOK, NEW kind \in {"table", "hierarchy"}, NEW count \in Nat,
         NEW replace \in BOOLEAN, TablesOf!AppendTable(kind, count, replace)
  PROVE  /\ subtype' = kind /\ last' \in 0 .. MaxRows /\ last <= last'
         /\ rows' \subseteq 1 .. last'
         /\ \A id \in rows' : id <= last => id \in rows
<1>1. last \in 0 .. MaxRows /\ rows \subseteq 1 .. last /\ MaxRows \in Nat
  BY TablesAssumption DEF TablesOf!TypeOK
<1>2. PICK kept : /\ kept \subseteq rows
                  /\ rows' = kept \cup last + 1 .. last + count
                  /\ last + count <= MaxRows
                  /\ last' = TablesOf!Max({last, last + count})
                  /\ subtype' = kind
  <2> DEFINE kept == IF replace \/ kind = "hierarchy" THEN {} ELSE rows
  <2>1. kept \subseteq rows
    OBVIOUS
  <2>2. last + 1 + count - 1 = last + count
    BY <1>1
  <2>3. rows' = kept \cup last + 1 .. last + count
    BY <2>2 DEF TablesOf!AppendTable, TablesOf!FirstId
  <2> QED
    BY <2>1, <2>2, <2>3 DEF TablesOf!AppendTable, TablesOf!FirstId
<1>3. last' = last + count
  <2> DEFINE S == {last, last + count}
  <2>1. \A y \in S : y <= last + count
    BY <1>1
  <2>2. \E m \in S : \A y \in S : m >= y
    BY <1>1, <2>1
  <2>3. TablesOf!Max(S) \in S /\ \A y \in S : TablesOf!Max(S) >= y
    BY <2>2 DEF TablesOf!Max
  <2> QED
    BY <1>1, <1>2, <2>3
<1>4. last' \in 0 .. MaxRows /\ last <= last'
  BY <1>1, <1>2, <1>3
<1>5. ASSUME NEW id \in rows'
      PROVE  id \in 1 .. last' /\ (id <= last => id \in rows)
  <2>1. CASE id \in kept
    <3>1. id \in rows /\ id \in 1 .. last
      BY <1>1, <1>2, <2>1
    <3> QED
      BY <1>1, <1>3, <3>1
  <2>2. CASE id \in last + 1 .. last + count
    BY <1>1, <1>3, <2>2
  <2> QED
    BY <1>2, <1>5, <2>1, <2>2
<1> QED
  BY <1>2, <1>4, <1>5

(* What a reader's record is and holds. *)
ReaderKeeps ==
  /\ reader.after <= last /\ reader.upTo <= last
  /\ reader.at = "off" => reader.got = {} /\ ~reader.twice /\ reader.after = 0
  /\ ~reader.sample =>
       /\ ~reader.twice
       /\ reader.at = "on" => \A id \in reader.got : id <= reader.after
       /\ reader.at = "on" => \A id \in rows : id <= reader.after => id \in reader.got
       /\ reader.at = "end" => \A id \in rows : id <= reader.upTo => id \in reader.got

LEMMA UploadsKeepReaders ==
  ASSUME TablesOf!IInv, NEW kind \in {"table", "hierarchy"}, NEW count \in Nat,
         NEW replace \in BOOLEAN, TablesOf!AppendTable(kind, count, replace), UNCHANGED reader
  PROVE  ReaderKeeps'
<1>1. /\ last' \in 0 .. MaxRows /\ last <= last' /\ last \in 0 .. MaxRows
      /\ \A id \in rows' : id <= last => id \in rows
      /\ rows' \subseteq 1 .. last'
  BY AppendIsBehind DEF TablesOf!IInv, TablesOf!TypeOK
<1>2. reader.after \in Nat /\ reader.upTo \in Nat /\ MaxRows \in Nat
  BY TablesAssumption DEF TablesOf!IInv, TablesOf!TypeOK
<1> QED
  BY <1>1, <1>2 DEF TablesOf!IInv, ReaderKeeps

(* The first rows behind the cursor have a last one, in either order. *)
LEMMA PageHasLast ==
  ASSUME TablesOf!TypeOK, NEW items \in SUBSET TablesOf!Found, items # {}
  PROVE  /\ TablesOf!LastOf(items) \in items
         /\ \A j \in items \ {TablesOf!LastOf(items)} :
              TablesOf!Before(j, TablesOf!LastOf(items))
<1>1. items \subseteq 1 .. MaxRows /\ MaxRows \in Nat
  <2>1. MaxRows \in Nat /\ last \in 0 .. MaxRows /\ rows \subseteq 1 .. last /\ items \subseteq rows
    BY TablesAssumption DEF TablesOf!TypeOK, TablesOf!Found
  <2>2. \A id \in 1 .. last : id \in 1 .. MaxRows
    BY <2>1
  <2> QED
    BY <2>1, <2>2
<1>2. \E i \in items : \A j \in items \ {i} : TablesOf!Before(j, i)
  <2>1. CASE reader.sample
    <3>1. /\ \A i \in 1 .. MaxRows : Scattered[i] \in Nat
          /\ \A i, j \in 1 .. MaxRows : Scattered[i] = Scattered[j] => i = j
      BY TablesAssumption
    <3>2. IsFiniteSet(1 .. MaxRows)
      BY <1>1, FS_Interval
    <3>3. IsFiniteSet(items)
      BY <1>1, <3>2, FS_Subset
    <3>4. \A i \in items : Scattered[i] \in Nat
      BY <1>1, <3>1
    <3>6. PICK i \in items : \A j \in items : Scattered[j] <= Scattered[i]
      BY <3>3, <3>4, FiniteHasGreatest
    <3>7. ASSUME NEW j \in items \ {i} PROVE TablesOf!Before(j, i)
      <4>1. Scattered[j] # Scattered[i] /\ Scattered[j] \in Nat /\ Scattered[i] \in Nat
        BY <1>1, <3>1
      <4>2. Scattered[j] <= Scattered[i]
        BY <3>6
      <4> QED
        BY <2>1, <4>1, <4>2 DEF TablesOf!Before
    <3> QED
      BY <3>7
  <2>2. CASE ~reader.sample
    <3>1. PICK x \in items : TRUE
      OBVIOUS
    <3>2. items \in SUBSET Int /\ MaxRows \in Int /\ \A y \in items : y <= MaxRows
      BY <1>1
    <3>3. PICK i \in items : \A j \in items : j <= i
      BY <3>1, <3>2, BoundedMax
    <3>4. ASSUME NEW j \in items \ {i} PROVE TablesOf!Before(j, i)
      <4>1. j \in Int /\ i \in Int /\ j # i /\ j <= i
        BY <3>2, <3>3
      <4> QED
        BY <2>2, <4>1 DEF TablesOf!Before
    <3> QED
      BY <3>4
  <2> QED
    BY <2>1, <2>2
<1> QED
  BY <1>2 DEF TablesOf!LastOf

LEMMA NextPageKeepsReader ==
  ASSUME TablesOf!IInv, TablesOf!NextPage
  PROVE  TablesOf!IInv'
<1>1. /\ last \in Nat /\ last <= MaxRows /\ MaxRows \in Nat /\ rows \subseteq 1 .. last
      /\ reader.after \in Nat /\ reader.got \subseteq 1 .. MaxRows
      /\ reader.twice \in BOOLEAN /\ reader.sample \in BOOLEAN
      /\ RowsPage \in Nat \ {0}
      /\ reader \in [at : {"off", "on", "end"}, sample : BOOLEAN, after : 0 .. MaxRows,
           got : SUBSET (1 .. MaxRows), twice : BOOLEAN, upTo : 0 .. MaxRows]
  BY TablesAssumption DEF TablesOf!IInv, TablesOf!TypeOK
<1>2. PICK items \in SUBSET TablesOf!Found :
        /\ TablesOf!IsPage(items)
        /\ reader' = [reader EXCEPT !.at = IF Cardinality(items) = RowsPage THEN "on" ELSE "end",
                        !.after = IF Cardinality(items) = RowsPage THEN TablesOf!LastOf(items) ELSE @,
                        !.got = @ \cup items,
                        !.twice = @ \/ items \cap reader.got # {},
                        !.upTo = last]
  BY TablesLibrary DEF TablesOf!NextPage
<1>3. items \subseteq rows /\ \A i \in items : i > reader.after
  BY DEF TablesOf!Found, TablesOf!Behind
<1>10. \A id \in rows : id \in Int /\ 1 <= id /\ id <= last /\ id <= MaxRows /\ id \in 1 .. MaxRows
  <2>1. \A id \in 1 .. last : id \in Int /\ 1 <= id /\ id <= last
    BY <1>1
  <2>2. \A id \in 1 .. last : id <= MaxRows /\ id \in 1 .. MaxRows
    BY <1>1
  <2> QED
    BY <1>1, <2>1, <2>2
<1>4. reader.at = "on" /\ UNCHANGED <<subtype, rows, last, verdict>>
  BY DEF TablesOf!NextPage
<1> DEFINE more == Cardinality(items) = RowsPage
           m == TablesOf!LastOf(items)
<1>5. ASSUME more
      PROVE  m \in items /\ \A j \in items \ {m} : TablesOf!Before(j, m)
  <2>1. items # {}
    BY <1>1, <1>5, FS_EmptySet
  <2> QED
    BY <2>1, PageHasLast DEF TablesOf!IInv
<1>6. /\ reader'.at = (IF more THEN "on" ELSE "end")
      /\ reader'.after = (IF more THEN m ELSE reader.after)
      /\ reader'.got = reader.got \cup items
      /\ reader'.twice = (reader.twice \/ items \cap reader.got # {})
      /\ reader'.upTo = last /\ reader'.sample = reader.sample
  BY <1>1, <1>2
<1>7. reader' \in [at : {"off", "on", "end"}, sample : BOOLEAN, after : 0 .. MaxRows,
           got : SUBSET (1 .. MaxRows), twice : BOOLEAN, upTo : 0 .. MaxRows]
  <2>0. reader.after \in 0 .. MaxRows
    BY <1>1
  <2>1. (IF more THEN m ELSE reader.after) \in 0 .. MaxRows
    <3>1. CASE more
      <4>1. m \in rows
        BY <1>3, <1>5, <3>1
      <4>2. m \in 1 .. MaxRows
        BY <1>10, <4>1
      <4> QED
        BY <1>1, <3>1, <4>2
    <3> QED
      BY <2>0, <3>1
  <2>2. reader.got \cup items \in SUBSET (1 .. MaxRows) /\ last \in 0 .. MaxRows
    <3>1. \A id \in items : id \in 1 .. MaxRows
      BY <1>3, <1>10
    <3>2. last \in 0 .. MaxRows
      BY <1>1
    <3> QED
      BY <1>1, <3>1, <3>2
  <2>3. (reader.twice \/ items \cap reader.got # {}) \in BOOLEAN
    OBVIOUS
  <2> QED
    BY <1>1, <1>2, <2>1, <2>2, <2>3
<1>8. TablesOf!TypeOK'
  BY <1>4, <1>7 DEF TablesOf!IInv, TablesOf!TypeOK
<1>9. ReaderKeeps'
  <2>1. reader'.after <= last' /\ reader'.upTo <= last' /\ reader'.at # "off"
    <3>1. CASE more
      <4>1. m \in rows
        BY <1>3, <1>5, <3>1
      <4>2. m <= last /\ last <= last
        <5> HIDE DEF m
        <5> QED
          BY <1>1, <1>10, <4>1
      <4> QED
        BY <1>4, <1>6, <3>1, <4>2
    <3>2. CASE ~more
      <4>1. reader.after <= last /\ last <= last
        BY <1>1 DEF TablesOf!IInv
      <4> QED
        BY <1>4, <1>6, <3>2, <4>1
    <3> QED
      BY <3>1, <3>2
  <2>2. ASSUME ~reader.sample
        PROVE  /\ ~reader'.twice
               /\ reader'.at = "on" => \A id \in reader'.got : id <= reader'.after
               /\ reader'.at = "on" => \A id \in rows' : id <= reader'.after => id \in reader'.got
               /\ reader'.at = "end" => \A id \in rows' : id <= reader'.upTo => id \in reader'.got
    <3>1. /\ ~reader.twice /\ \A id \in reader.got : id <= reader.after
          /\ \A id \in rows : id <= reader.after => id \in reader.got
      BY <1>4, <2>2 DEF TablesOf!IInv
    <3>2. items \cap reader.got = {}
      BY <1>1, <1>3, <3>1
    <3>3. \A i, j : TablesOf!Before(i, j) <=> i < j
      BY <2>2 DEF TablesOf!Before
    <3>4. \A id \in rows : id \in items \/ id <= reader.after \/ id \in TablesOf!Found \ items
      BY <1>1 DEF TablesOf!Found, TablesOf!Behind
    <3>5. /\ items = TablesOf!Found \/ more
          /\ \A i \in items, j \in TablesOf!Found \ items : i < j
      BY <1>2, <3>3, TablesLibrary DEF TablesOf!IsPage
    <3>6. CASE more
      <4>1. m \in items /\ \A j \in items : j <= m
        <5>1. m \in items /\ \A j \in items \ {m} : j < m
          BY <1>5, <3>3, <3>6
        <5>2. \A j \in items : j \in Int
          BY <1>3, <1>10
        <5> HIDE DEF m
        <5>3. ASSUME NEW j \in items PROVE j <= m
          BY <5>1, <5>2
        <5> QED
          BY <5>1, <5>3
      <4>0. m \in Int /\ m > reader.after
        BY <1>3, <1>10, <4>1
      <4>2. \A id \in reader.got \cup items : id <= m
        <5>1. ASSUME NEW id \in reader.got PROVE id <= m
          <6>1. id \in 1 .. MaxRows /\ id <= reader.after
            BY <1>1, <3>1
          <6> QED
            BY <1>1, <4>0, <6>1
        <5> QED
          BY <4>1, <5>1
      <4>3. ASSUME NEW id \in rows, id <= m PROVE id \in reader.got \cup items
        <5>1. id \in Int /\ m \in Int
          BY <1>10, <4>0
        <5>2. id \notin TablesOf!Found \ items
          BY <3>5, <4>1, <4>3, <5>1
        <5> QED
          BY <3>1, <3>4, <5>2
      <4> QED
        BY <1>4, <1>6, <3>1, <3>2, <3>6, <4>2, <4>3
    <3>7. CASE ~more
      <4>1. \A id \in rows : id \in reader.got \cup items
        BY <3>1, <3>4, <3>5, <3>7
      <4> QED
        BY <1>4, <1>6, <3>1, <3>2, <3>7, <4>1
    <3> QED
      BY <3>6, <3>7
  <2> QED
    BY <1>6, <2>1, <2>2 DEF ReaderKeeps
<1> QED
  BY <1>8, <1>9 DEF TablesOf!IInv, ReaderKeeps

LEMMA VerdictIsTyped ==
  ASSUME NEW parents \in TablesOf!Hierarchies
  PROVE  [parents |-> parents, taken |-> TablesOf!validSpecialTable(parents)]
           \in [parents : TablesOf!Hierarchies, taken : BOOLEAN]
<1>1. TablesOf!validSpecialTable(parents) \in BOOLEAN
  BY Zenon DEF TablesOf!validSpecialTable
<1> QED
  BY <1>1

LEMMA HierarchyIsFinite ==
  ASSUME NEW parents \in TablesOf!Hierarchies
  PROVE  /\ DOMAIN parents \subseteq Nodes /\ DOMAIN parents # {}
         /\ parents \in [DOMAIN parents -> Nodes \cup {Root}]
         /\ IsFiniteSet(DOMAIN parents) /\ Cardinality(DOMAIN parents) \in Nat
<1>1. /\ DOMAIN parents \subseteq Nodes /\ DOMAIN parents # {}
      /\ parents \in [DOMAIN parents -> Nodes \cup {Root}]
  <2>1. PICK some \in (SUBSET Nodes) \ {{}} : parents \in [some -> Nodes \cup {Root}]
    BY DEF TablesOf!Hierarchies
  <2>2. DOMAIN parents = some
    BY <2>1, Zenon
  <2>3. some \subseteq Nodes /\ some # {}
    OBVIOUS
  <2> QED
    BY <2>1, <2>2, <2>3, Zenon
<1> QED
  BY <1>1, TablesAssumption, FS_Subset, FS_CardinalityType

LEMMA TablesInitially == Init => TablesOf!IInv
BY TablesAssumption DEF Init, TablesOf!Init, TablesOf!IInv, TablesOf!TypeOK

LEMMA TablesSteps ==
  ASSUME TablesOf!IInv, TablesOf!Next
  PROVE  TablesOf!IInv'
<1>1. ASSUME NEW count \in 1 .. 2, NEW replace \in BOOLEAN, TablesOf!SdkTable(count, replace)
      PROVE  TablesOf!IInv'
  <2>1. TablesOf!AppendTable("table", count, replace) /\ UNCHANGED <<verdict, reader>>
    BY <1>1 DEF TablesOf!SdkTable
  <2>2. ReaderKeeps'
    BY <2>1, UploadsKeepReaders
  <2>3. TablesOf!TypeOK'
    BY <2>1, AppendIsBehind DEF TablesOf!IInv, TablesOf!TypeOK
  <2> QED
    BY <2>2, <2>3 DEF TablesOf!IInv, ReaderKeeps
<1>2. ASSUME NEW parents \in TablesOf!Hierarchies, TablesOf!SdkHierarchy(parents)
      PROVE  TablesOf!IInv'
  <2>1. Cardinality(DOMAIN parents) \in Nat
    BY HierarchyIsFinite
  <2>2. verdict' \in [parents : TablesOf!Hierarchies, taken : BOOLEAN] /\ UNCHANGED reader
    BY <1>2, VerdictIsTyped DEF TablesOf!SdkHierarchy
  <2>3. CASE TablesOf!AppendTable("hierarchy", Cardinality(DOMAIN parents), TRUE)
    <3>1. ReaderKeeps'
      BY <2>1, <2>2, <2>3, UploadsKeepReaders
    <3>2. TablesOf!TypeOK'
      BY <2>1, <2>2, <2>3, AppendIsBehind DEF TablesOf!IInv, TablesOf!TypeOK
    <3> QED
      BY <3>1, <3>2 DEF TablesOf!IInv, ReaderKeeps
  <2>4. CASE UNCHANGED <<subtype, rows, last>>
    BY <2>2, <2>4 DEF TablesOf!IInv, TablesOf!TypeOK
  <2> QED
    BY <1>2, <2>3, <2>4, TablesLibrary DEF TablesOf!SdkHierarchy
<1>3. ASSUME NEW sample \in BOOLEAN, TablesOf!Open(sample)
      PROVE  TablesOf!IInv'
  <2>1. reader.at = "off" /\ reader' = [reader EXCEPT !.at = "on", !.sample = sample]
        /\ UNCHANGED <<subtype, rows, last, verdict>>
    BY <1>3 DEF TablesOf!Open
  <2>2. /\ reader'.at = "on" /\ reader'.got = {} /\ ~reader'.twice /\ reader'.after = 0
        /\ reader'.upTo = reader.upTo
    BY <2>1 DEF TablesOf!IInv, TablesOf!TypeOK
  <2>3. TablesOf!TypeOK'
    BY <2>1 DEF TablesOf!IInv, TablesOf!TypeOK
  <2>4. \A id \in rows' : ~(id <= 0)
    BY <2>1 DEF TablesOf!IInv, TablesOf!TypeOK
  <2> QED
    BY <2>1, <2>2, <2>3, <2>4, TablesAssumption DEF TablesOf!IInv
<1> QED
  BY <1>1, <1>2, <1>3, NextPageKeepsReader DEF TablesOf!Next

LEMMA TablesInductive ==
  ASSUME TablesOf!IInv, [Next]_vars
  PROVE  TablesOf!IInv'
<1>1. CASE UNCHANGED tablesVars
  BY <1>1 DEF tablesVars, TablesOf!IInv, TablesOf!TypeOK
<1> QED
  BY <1>1, TablesSteps DEF Next, vars

-----------------------------------------------------------------------------
(* Tables: the search for a cycle. *)

(* Parents among the nodes themselves. *)
IsClosed(parents) ==
  \A n \in DOMAIN parents : parents[n] \in DOMAIN parents \cup {Root}
HasCycle(parents) ==
  \E C \in SUBSET DOMAIN parents : C # {} /\ \A n \in C : parents[n] \in C

Marks(parents) == [DOMAIN parents -> 0 .. 2]
(* What a visit of id returns if visits behave as g. *)
Step(parents, g, state, id) ==
  IF state[id] # 0 THEN [cyclic |-> state[id] = 1, state |-> state]
  ELSE LET up == IF parents[id] = Root
                 THEN [cyclic |-> FALSE, state |-> TablesOf!Mark(state, id)]
                 ELSE g[TablesOf!Mark(state, id)][parents[id]]
       IN  IF up.cyclic THEN up ELSE [up EXCEPT !.state[id] = 2]
Visits(parents, g) ==
  g = [state \in Marks(parents) |-> [id \in DOMAIN parents |-> Step(parents, g, state, id)]]

LEMMA VisitUnfolds ==
  ASSUME NEW parents
  PROVE  TablesOf!Visit(parents) = CHOOSE g : Visits(parents, g)
BY DEF TablesOf!Visit, Visits, Step, Marks

Zeros(parents, state) == {n \in DOMAIN parents : state[n] = 0}

LEMMA MarkedState ==
  ASSUME NEW parents, NEW state \in Marks(parents), NEW id \in DOMAIN parents, state[id] = 0,
         IsFiniteSet(DOMAIN parents)
  PROVE  /\ TablesOf!Mark(state, id) \in Marks(parents)
         /\ TablesOf!Mark(state, id)[id] = 1
         /\ \A n \in DOMAIN parents \ {id} : TablesOf!Mark(state, id)[n] = state[n]
         /\ Cardinality(Zeros(parents, state)) \in Nat
         /\ Cardinality(Zeros(parents, TablesOf!Mark(state, id))) \in Nat
         /\ Cardinality(Zeros(parents, TablesOf!Mark(state, id)))
              = Cardinality(Zeros(parents, state)) - 1
<1>1. /\ TablesOf!Mark(state, id) \in Marks(parents)
      /\ TablesOf!Mark(state, id)[id] = 1
      /\ \A n \in DOMAIN parents \ {id} : TablesOf!Mark(state, id)[n] = state[n]
  BY DEF TablesOf!Mark, Marks
<1>2. Zeros(parents, TablesOf!Mark(state, id)) = Zeros(parents, state) \ {id}
  BY <1>1 DEF Zeros
<1>3. id \in Zeros(parents, state) /\ IsFiniteSet(Zeros(parents, state))
  BY FS_Subset DEF Zeros
<1> QED
  BY <1>1, <1>2, <1>3, FS_RemoveElement, FS_CardinalityType

LEMMA ZerosAreFew ==
  ASSUME NEW parents, NEW state, IsFiniteSet(DOMAIN parents)
  PROVE  /\ Cardinality(DOMAIN parents) \in Nat
         /\ Cardinality(Zeros(parents, state)) \in 0 .. Cardinality(DOMAIN parents)
<1>1. Zeros(parents, state) \subseteq DOMAIN parents
  BY DEF Zeros
<1> QED
  BY <1>1, FS_Subset, FS_CardinalityType

SameVisit(parents, g, h, state, id) ==
  state[id] = 0 /\ parents[id] # Root =>
    g[TablesOf!Mark(state, id)][parents[id]] = h[TablesOf!Mark(state, id)][parents[id]]

LEMMA StepOfSame ==
  ASSUME NEW parents, NEW g, NEW h, NEW state, NEW id, SameVisit(parents, g, h, state, id)
  PROVE  Step(parents, g, state, id) = Step(parents, h, state, id)
BY DEF Step, SameVisit

(* The recursion ends: every visit marks a node that was not marked. *)
LEMMA VisitsExist ==
  ASSUME NEW parents, IsFiniteSet(DOMAIN parents), IsClosed(parents)
  PROVE  \E g : Visits(parents, g)
<1> DEFINE D == DOMAIN parents
           Upto(g, k) == \A state \in Marks(parents) :
              Cardinality(Zeros(parents, state)) <= k =>
                \A id \in D : g[state][id] = Step(parents, g, state, id)
           P == {k \in Nat : \E g : Upto(g, k)}
<1>0. Cardinality(D) \in Nat
  BY ZerosAreFew
<1>1. 0 \in P
  <2> DEFINE h == [state \in Marks(parents) |-> [id \in D |-> Step(parents, {}, state, id)]]
  <2>1. ASSUME NEW state \in Marks(parents), Cardinality(Zeros(parents, state)) <= 0, NEW id \in D
        PROVE  h[state][id] = Step(parents, h, state, id)
    <3>1. state[id] # 0
      <4>1. SUFFICES ASSUME state[id] = 0 PROVE FALSE
        OBVIOUS
      <4> QED
        BY <2>1, <4>1, MarkedState
    <3>2. SameVisit(parents, {}, h, state, id)
      BY <3>1 DEF SameVisit
    <3>3. Step(parents, {}, state, id) = Step(parents, h, state, id)
      BY <3>2, StepOfSame
    <3> QED
      BY <3>3
  <2>2. Upto(h, 0)
    BY <2>1
  <2> HIDE DEF h
  <2> QED
    BY <2>2
<1>2. ASSUME NEW k \in 1 .. Cardinality(D), k - 1 \in P
      PROVE  k \in P
  <2>1. PICK g : Upto(g, k - 1)
    BY <1>2
  <2> DEFINE h == [state \in Marks(parents) |-> [id \in D |-> Step(parents, g, state, id)]]
  <2>2. ASSUME NEW state \in Marks(parents), Cardinality(Zeros(parents, state)) <= k, NEW id \in D
        PROVE  h[state][id] = Step(parents, h, state, id)
    <3>1. ASSUME state[id] = 0, parents[id] # Root
          PROVE  g[TablesOf!Mark(state, id)][parents[id]] = h[TablesOf!Mark(state, id)][parents[id]]
      <4>1. parents[id] \in D
        BY <3>1 DEF IsClosed
      <4>2. PICK m \in Marks(parents) : /\ m = TablesOf!Mark(state, id)
                                        /\ Cardinality(Zeros(parents, m)) \in Nat
                                        /\ Cardinality(Zeros(parents, state)) \in Nat
                                        /\ Cardinality(Zeros(parents, m))
                                             = Cardinality(Zeros(parents, state)) - 1
        BY <3>1, MarkedState
      <4>3. Cardinality(Zeros(parents, m)) <= k - 1
        BY <1>0, <2>2, <4>2
      <4>4. g[m][parents[id]] = Step(parents, g, m, parents[id])
        BY <2>1, <4>1, <4>3
      <4>5. h[m][parents[id]] = Step(parents, g, m, parents[id])
        BY <4>1
      <4> QED
        BY <4>2, <4>4, <4>5
    <3>2. SameVisit(parents, g, h, state, id)
      BY <3>1 DEF SameVisit
    <3>3. Step(parents, g, state, id) = Step(parents, h, state, id)
      BY <3>2, StepOfSame
    <3> QED
      BY <3>3
  <2>3. \E f : Upto(f, k)
    <3>1. Upto(h, k)
      BY <2>2
    <3> HIDE DEF h
    <3> QED
      BY <3>1
  <2> QED
    BY <1>0, <2>3
<1> HIDE DEF P
<1>3. Cardinality(D) \in P
  <2> HIDE DEF D
  <2>1. \A k \in 0 .. Cardinality(D) : k \in P
    BY <1>0, <1>1, <1>2, NumberInduction
  <2> QED
    BY <1>0, <2>1
<1>4. PICK g : Upto(g, Cardinality(D))
  BY <1>3 DEF P
<1> DEFINE f == [state \in Marks(parents) |-> [id \in D |-> g[state][id]]]
<1>5. ASSUME NEW state \in Marks(parents), NEW id \in D
      PROVE  f[state][id] = Step(parents, f, state, id)
  <2>1. f[state][id] = Step(parents, g, state, id)
    BY <1>0, <1>4, ZerosAreFew
  <2>2. ASSUME state[id] = 0, parents[id] # Root
        PROVE  g[TablesOf!Mark(state, id)][parents[id]] = f[TablesOf!Mark(state, id)][parents[id]]
    <3>1. parents[id] \in D /\ TablesOf!Mark(state, id) \in Marks(parents)
      BY <2>2, MarkedState DEF IsClosed
    <3> QED
      BY <3>1
  <2>3. SameVisit(parents, g, f, state, id)
    BY <2>2 DEF SameVisit
  <2> QED
    BY <2>1, <2>3, StepOfSame
<1>6. f = [state \in Marks(parents) |-> [id \in D |-> Step(parents, f, state, id)]]
  <2>1. f = [state \in Marks(parents) |-> [id \in D |-> f[state][id]]]
    OBVIOUS
  <2> HIDE DEF f
  <2> QED
    BY <1>5, <2>1
<1>7. Visits(parents, f)
  BY <1>6 DEF Visits
<1> HIDE DEF f
<1> QED
  BY <1>7

LEMMA VisitSteps ==
  ASSUME NEW parents, IsFiniteSet(DOMAIN parents), IsClosed(parents),
         NEW state \in Marks(parents), NEW id \in DOMAIN parents
  PROVE  TablesOf!Visit(parents)[state][id] = Step(parents, TablesOf!Visit(parents), state, id)
<1>1. Visits(parents, TablesOf!Visit(parents))
  BY VisitsExist, VisitUnfolds
<1> QED
  BY <1>1 DEF Visits

Found(parents) == [cyclic : BOOLEAN, state : Marks(parents)]

(* What is done has no cycle and no way into what is not done.             *)
IsDone(parents, state) ==
  /\ \A n \in DOMAIN parents : state[n] = 2 => parents[n] = Root \/ state[parents[n]] = 2
  /\ \A C \in SUBSET DOMAIN parents :
       C # {} /\ (\A n \in C : state[n] = 2) => \E n \in C : parents[n] \notin C

(* What is being visited goes on to id. *)
LeadsTo(parents, state, id) ==
  \A n \in DOMAIN parents : state[n] = 1 =>
    parents[n] \in DOMAIN parents /\ (state[parents[n]] = 1 \/ parents[n] = id)

Visited(parents, state, id, found) ==
  IF found.cyclic THEN HasCycle(parents)
  ELSE /\ IsDone(parents, found.state) /\ found.state[id] = 2
       /\ \A n \in DOMAIN parents : /\ found.state[n] = 1 <=> state[n] = 1
                                    /\ state[n] = 2 => found.state[n] = 2

IsRight(parents, state, id, found) ==
  /\ found \in Found(parents)
  /\ IsDone(parents, state) /\ LeadsTo(parents, state, id) => Visited(parents, state, id, found)

LEMMA DoneGrows ==
  ASSUME NEW parents, Root \notin DOMAIN parents, NEW state \in Marks(parents),
         IsDone(parents, state), NEW id \in DOMAIN parents, state[id] # 2,
         parents[id] = Root \/ (parents[id] \in DOMAIN parents /\ state[parents[id]] = 2)
  PROVE  IsDone(parents, [state EXCEPT ![id] = 2])
<1> DEFINE after == [state EXCEPT ![id] = 2]
<1>1. after[id] = 2 /\ \A n \in DOMAIN parents \ {id} : after[n] = state[n]
  BY DEF Marks
<1> HIDE DEF after
<1>2. ASSUME NEW n \in DOMAIN parents, after[n] = 2
      PROVE  parents[n] = Root \/ after[parents[n]] = 2
  <2>1. CASE n = id
    <3>1. CASE parents[id] = Root
      BY <2>1, <3>1
    <3>2. CASE parents[id] # Root
      <4>1. parents[id] \in DOMAIN parents /\ state[parents[id]] = 2 /\ parents[id] # id
        BY <3>2
      <4> QED
        BY <1>1, <2>1, <4>1
    <3> QED
      BY <3>1, <3>2
  <2>2. CASE n # id
    <3>1. state[n] = 2
      BY <1>1, <1>2, <2>2
    <3>2. parents[n] = Root \/ state[parents[n]] = 2
      BY <3>1 DEF IsDone
    <3>3. CASE parents[n] = Root
      BY <3>3
    <3>4. CASE parents[n] # Root
      <4>1. CASE parents[n] \in DOMAIN parents
        BY <1>1, <3>2, <3>4, <4>1
      <4>2. CASE parents[n] \notin DOMAIN parents
        <5>1. after[parents[n]] = state[parents[n]]
          BY <4>2 DEF after
        <5> QED
          BY <3>2, <3>4, <5>1
      <4> QED
        BY <4>1, <4>2
    <3> QED
      BY <3>3, <3>4
  <2> QED
    BY <2>1, <2>2
<1>3. ASSUME NEW C \in SUBSET DOMAIN parents, C # {}, \A n \in C : after[n] = 2,
             \A n \in C : parents[n] \in C
      PROVE  FALSE
  <2>1. CASE id \notin C
    <3>1. \A n \in C : state[n] = 2
      BY <1>1, <1>3, <2>1
    <3> QED
      BY <1>3, <3>1 DEF IsDone
  <2>2. CASE id \in C
    <3>1. parents[id] \in DOMAIN parents /\ state[parents[id]] = 2 /\ parents[id] \in C
          /\ parents[id] # id
      BY <1>3, <2>2
    <3>2. \A n \in C \ {id} : state[n] = 2 /\ parents[n] \in DOMAIN parents
      BY <1>1, <1>3
    <3>3. \A n \in C \ {id} : state[parents[n]] = 2
      BY <3>2 DEF IsDone
    <3>4. \A n \in C \ {id} : parents[n] \in C \ {id}
      BY <1>3, <3>3
    <3>5. C \ {id} # {} /\ C \ {id} \in SUBSET DOMAIN parents
      BY <3>1
    <3> QED
      BY <3>2, <3>4, <3>5 DEF IsDone
  <2> QED
    BY <2>1, <2>2
<1> QED
  BY <1>2, <1>3 DEF IsDone, after

(* A visit that has only nodes below it that are done is right. *)
LEMMA VisitIsRight ==
  ASSUME NEW parents, IsFiniteSet(DOMAIN parents), IsClosed(parents), Root \notin DOMAIN parents,
         NEW g, NEW state \in Marks(parents), NEW id \in DOMAIN parents,
         state[id] = 0 /\ parents[id] # Root =>
           IsRight(parents, TablesOf!Mark(state, id), parents[id],
                   g[TablesOf!Mark(state, id)][parents[id]])
  PROVE  IsRight(parents, state, id, Step(parents, g, state, id))
<1>1. CASE state[id] # 0
  <2>1. Step(parents, g, state, id) = [cyclic |-> state[id] = 1, state |-> state]
    BY <1>1 DEF Step
  <2>2. [cyclic |-> state[id] = 1, state |-> state] \in Found(parents)
    <3>1. (state[id] = 1) \in BOOLEAN
      OBVIOUS
    <3> QED
      BY <3>1 DEF Found
  <2>3. ASSUME IsDone(parents, state), LeadsTo(parents, state, id), state[id] = 1
        PROVE  HasCycle(parents)
    <3> DEFINE C == {n \in DOMAIN parents : state[n] = 1}
    <3>1. id \in C /\ C \in SUBSET DOMAIN parents
      BY <2>3
    <3>2. \A n \in C : parents[n] \in C
      BY <2>3 DEF LeadsTo
    <3> QED
      BY <3>1, <3>2 DEF HasCycle
  <2>4. ASSUME IsDone(parents, state), state[id] # 1
        PROVE  state[id] = 2
    BY <1>1, <2>4 DEF Marks
  <2> DEFINE r == [cyclic |-> state[id] = 1, state |-> state]
  <2>5. (r.cyclic <=> state[id] = 1) /\ r.state = state
    OBVIOUS
  <2> HIDE DEF r
  <2>6. Step(parents, g, state, id) = r /\ r \in Found(parents)
    BY <2>1, <2>2 DEF r
  <2>7. ASSUME IsDone(parents, state), LeadsTo(parents, state, id)
        PROVE  Visited(parents, state, id, r)
    BY <2>3, <2>4, <2>5, <2>7 DEF Visited
  <2> QED
    BY <2>6, <2>7 DEF IsRight
<1>2. CASE state[id] = 0
  <2>0. PICK m \in Marks(parents) :
          /\ m = TablesOf!Mark(state, id) /\ m[id] = 1
          /\ \A n \in DOMAIN parents \ {id} : m[n] = state[n]
    BY <1>2, MarkedState
  <2>1. ASSUME IsDone(parents, state)
        PROVE  IsDone(parents, m)
    <3>1. \A n \in DOMAIN parents : m[n] = 2 <=> state[n] = 2
      BY <1>2, <2>0
    <3>2. \A n \in DOMAIN parents : parents[n] # Root => parents[n] \in DOMAIN parents
      BY DEF IsClosed
    <3> QED
      BY <2>1, <3>1, <3>2 DEF IsDone
  <2>2. CASE parents[id] = Root
    <3>1. Step(parents, g, state, id)
            = [[cyclic |-> FALSE, state |-> m] EXCEPT !.state[id] = 2]
      BY <1>2, <2>0, <2>2 DEF Step
    <3>2. Step(parents, g, state, id) = [cyclic |-> FALSE, state |-> [m EXCEPT ![id] = 2]]
      BY <3>1
    <3>3. [m EXCEPT ![id] = 2] \in Marks(parents)
      BY DEF Marks
    <3>4. [m EXCEPT ![id] = 2][id] = 2
          /\ \A n \in DOMAIN parents \ {id} : [m EXCEPT ![id] = 2][n] = state[n]
      BY <2>0 DEF Marks
    <3>5. ASSUME IsDone(parents, state) PROVE IsDone(parents, [m EXCEPT ![id] = 2])
      <4>1. IsDone(parents, m) /\ m[id] # 2
        BY <2>0, <2>1, <3>5
      <4> QED
        BY <2>2, <4>1, DoneGrows
    <3>6. Step(parents, g, state, id) \in Found(parents)
      BY <3>2, <3>3 DEF Found
    <3>7. \A n \in DOMAIN parents : /\ [m EXCEPT ![id] = 2][n] = 1 <=> state[n] = 1
                                    /\ state[n] = 2 => [m EXCEPT ![id] = 2][n] = 2
      BY <1>2, <3>4
    <3> QED
      BY <3>2, <3>4, <3>5, <3>6, <3>7 DEF IsRight, Visited
  <2>3. CASE parents[id] # Root
    <3>1. PICK up : up = g[m][parents[id]]
      OBVIOUS
    <3>2. IsRight(parents, m, parents[id], up)
      BY <1>2, <2>0, <2>3, <3>1
    <3>3. Step(parents, g, state, id) = IF up.cyclic THEN up ELSE [up EXCEPT !.state[id] = 2]
      BY <1>2, <2>0, <2>3, <3>1 DEF Step
    <3>4. parents[id] \in DOMAIN parents
      BY <2>3 DEF IsClosed
    <3>5. ASSUME LeadsTo(parents, state, id) PROVE LeadsTo(parents, m, parents[id])
      <4>1. ASSUME NEW n \in DOMAIN parents, m[n] = 1
            PROVE  parents[n] \in DOMAIN parents /\ (m[parents[n]] = 1 \/ parents[n] = parents[id])
        <5>1. CASE n = id
          BY <3>4, <5>1
        <5>2. CASE n # id
          <6>1. state[n] = 1
            BY <2>0, <4>1, <5>2
          <6>2. parents[n] \in DOMAIN parents /\ (state[parents[n]] = 1 \/ parents[n] = id)
            BY <3>5, <6>1 DEF LeadsTo
          <6> QED
            BY <2>0, <6>2
        <5> QED
          BY <5>1, <5>2
      <4> QED
        BY <4>1 DEF LeadsTo
    <3>6. up \in Found(parents) /\ up.cyclic \in BOOLEAN /\ up.state \in Marks(parents)
      BY <3>2 DEF IsRight, Found
    <3>7. CASE up.cyclic
      <4>1. ASSUME IsDone(parents, state), LeadsTo(parents, state, id)
            PROVE  HasCycle(parents)
        BY <2>1, <3>2, <3>5, <3>7, <4>1 DEF IsRight, Visited
      <4> QED
        BY <3>3, <3>6, <3>7, <4>1 DEF IsRight, Visited
    <3>8. CASE ~up.cyclic
      <4>1. PICK t \in Marks(parents) : t = up.state
        BY <3>6
      <4>2. Step(parents, g, state, id) = [cyclic |-> FALSE, state |-> [t EXCEPT ![id] = 2]]
        BY <3>3, <3>6, <3>8, <4>1 DEF Found
      <4>3. [t EXCEPT ![id] = 2] \in Marks(parents)
        BY DEF Marks
      <4>4. [t EXCEPT ![id] = 2][id] = 2
            /\ \A n \in DOMAIN parents \ {id} : [t EXCEPT ![id] = 2][n] = t[n]
        BY DEF Marks
      <4>5. ASSUME IsDone(parents, state), LeadsTo(parents, state, id)
            PROVE  /\ IsDone(parents, [t EXCEPT ![id] = 2])
                   /\ \A n \in DOMAIN parents : /\ [t EXCEPT ![id] = 2][n] = 1 <=> state[n] = 1
                                                /\ state[n] = 2 => [t EXCEPT ![id] = 2][n] = 2
        <5>1. /\ IsDone(parents, t) /\ t[parents[id]] = 2
              /\ \A n \in DOMAIN parents : (t[n] = 1 <=> m[n] = 1) /\ (m[n] = 2 => t[n] = 2)
          BY <2>1, <3>2, <3>5, <3>8, <4>1, <4>5 DEF IsRight, Visited
        <5>2. t[id] = 1
          BY <2>0, <5>1
        <5>3. IsDone(parents, [t EXCEPT ![id] = 2])
          BY <3>4, <5>1, <5>2, DoneGrows
        <5>4. \A n \in DOMAIN parents : /\ [t EXCEPT ![id] = 2][n] = 1 <=> state[n] = 1
                                        /\ state[n] = 2 => [t EXCEPT ![id] = 2][n] = 2
          BY <1>2, <2>0, <4>4, <5>1
        <5> QED
          BY <5>3, <5>4
      <4>6. Step(parents, g, state, id) \in Found(parents)
        BY <4>2, <4>3 DEF Found
      <4> QED
        BY <4>2, <4>4, <4>5, <4>6 DEF IsRight, Visited
    <3> QED
      BY <3>6, <3>7, <3>8
  <2> QED
    BY <2>2, <2>3
<1> QED
  BY <1>1, <1>2 DEF Marks

LEMMA EveryVisitIsRight ==
  ASSUME NEW parents, IsFiniteSet(DOMAIN parents), IsClosed(parents), Root \notin DOMAIN parents
  PROVE  \A state \in Marks(parents), id \in DOMAIN parents :
           IsRight(parents, state, id, TablesOf!Visit(parents)[state][id])
<1> DEFINE N == Cardinality(DOMAIN parents)
           V == TablesOf!Visit(parents)
           RightUpto(k) == \A state \in Marks(parents) :
              Cardinality(Zeros(parents, state)) <= k =>
                \A id \in DOMAIN parents : IsRight(parents, state, id, V[state][id])
           P == {k \in Nat : RightUpto(k)}
<1>0. N \in Nat
  BY ZerosAreFew
<1>1. ASSUME NEW state \in Marks(parents), NEW id \in DOMAIN parents,
             state[id] = 0 /\ parents[id] # Root =>
               IsRight(parents, TablesOf!Mark(state, id), parents[id],
                       V[TablesOf!Mark(state, id)][parents[id]])
      PROVE  IsRight(parents, state, id, V[state][id])
  <2>1. V[state][id] = Step(parents, V, state, id)
    BY VisitSteps
  <2> HIDE DEF V
  <2>2. IsRight(parents, state, id, Step(parents, V, state, id))
    BY <1>1, VisitIsRight
  <2> QED
    BY <2>1, <2>2
<1> HIDE DEF V
<1>2. 0 \in P
  <2>1. ASSUME NEW state \in Marks(parents), Cardinality(Zeros(parents, state)) <= 0,
               NEW id \in DOMAIN parents
        PROVE  IsRight(parents, state, id, V[state][id])
    <3>1. ASSUME state[id] = 0 PROVE FALSE
      BY <2>1, <3>1, MarkedState
    <3> QED
      BY <1>1, <3>1
  <2> QED
    BY <2>1
<1>3. ASSUME NEW k \in 1 .. N, k - 1 \in P
      PROVE  k \in P
  <2>1. ASSUME NEW state \in Marks(parents), Cardinality(Zeros(parents, state)) <= k,
               NEW id \in DOMAIN parents
        PROVE  IsRight(parents, state, id, V[state][id])
    <3>1. ASSUME state[id] = 0, parents[id] # Root
          PROVE  IsRight(parents, TablesOf!Mark(state, id), parents[id],
                         V[TablesOf!Mark(state, id)][parents[id]])
      <4>1. parents[id] \in DOMAIN parents
        BY <3>1 DEF IsClosed
      <4>2. PICK m \in Marks(parents) : /\ m = TablesOf!Mark(state, id)
                                        /\ Cardinality(Zeros(parents, m)) \in Nat
                                        /\ Cardinality(Zeros(parents, state)) \in Nat
                                        /\ Cardinality(Zeros(parents, m))
                                             = Cardinality(Zeros(parents, state)) - 1
        BY <3>1, MarkedState
      <4>3. Cardinality(Zeros(parents, m)) <= k - 1
        BY <1>0, <2>1, <4>2
      <4>4. IsRight(parents, m, parents[id], V[m][parents[id]])
        BY <1>3, <4>1, <4>3
      <4> QED
        BY <4>2, <4>4
    <3> QED
      BY <1>1, <3>1
  <2> QED
    BY <1>0, <2>1
<1>4. N \in P
  <2> HIDE DEF P, N
  <2>1. \A k \in 0 .. N : k \in P
    BY <1>0, <1>2, <1>3, NumberInduction
  <2> QED
    BY <1>0, <2>1
<1>5. \A state \in Marks(parents) : Cardinality(Zeros(parents, state)) <= N
  BY <1>0, ZerosAreFew
<1> QED
  BY <1>4, <1>5 DEF V

(* What the search has found when it has begun at the nodes of T. *)
Further(parents, id, found) ==
  IF found.cyclic THEN found ELSE TablesOf!Visit(parents)[found.state][id]
Searched(parents, g, T) ==
  IF T = {} THEN TablesOf!Unvisited(parents) ELSE Further(parents, First(T), g[T \ {First(T)}])
Searches(parents, g) == g = [T \in SUBSET DOMAIN parents |-> Searched(parents, g, T)]

LEMMA SearchUnfolds ==
  ASSUME NEW parents
  PROVE  TablesOf!IsCyclic(parents)
           <=> (CHOOSE g : Searches(parents, g))[DOMAIN parents].cyclic
BY DEF TablesOf!IsCyclic, TablesOf!FoldSet, TablesOf!MapThenFoldSet, Searches, Searched, Further,
   First

LEMMA SearchesExist ==
  ASSUME NEW parents, IsFiniteSet(DOMAIN parents), IsClosed(parents), Root \notin DOMAIN parents
  PROVE  \E g : Searches(parents, g)
<1> DEFINE D == DOMAIN parents
           A == Found(parents)
           step == [id \in D |-> [found \in A |-> Further(parents, id, found)]]
           pick == [T \in SUBSET D |-> First(T)]
           base == TablesOf!Unvisited(parents)
<1>1. base \in A
  BY DEF TablesOf!Unvisited, Found, Marks
<1>2. ASSUME NEW id \in D, NEW found \in A
      PROVE  Further(parents, id, found) \in A
  <2>1. found.state \in Marks(parents)
    BY DEF Found
  <2>2. TablesOf!Visit(parents)[found.state][id] \in Found(parents)
    BY <2>1, EveryVisitIsRight DEF IsRight
  <2> QED
    BY <2>2 DEF Further
<1>3. step \in [D -> [A -> A]]
  BY <1>2
<1>4. \A T \in SUBSET D : T # {} => First(T) \in T
  BY DEF First
<1>5. Picks(pick, D)
  BY <1>4 DEF Picks
<1> HIDE DEF A, step, pick, base
<1>6. PICK g \in [SUBSET D -> A] : IsFold(step, pick, base, D, g)
  BY <1>1, <1>3, <1>5, FoldsStay
<1>7. ASSUME NEW T \in SUBSET D
      PROVE  g[T] = Searched(parents, g, T)
  <2>1. g[T] = Folded(step, pick, base, T, g)
    BY <1>6 DEF IsFold
  <2>2. CASE T = {}
    BY <2>1, <2>2 DEF Folded, Searched, base
  <2>3. CASE T # {}
    <3>1. First(T) \in T /\ pick[T] = First(T) /\ T \ {First(T)} \in SUBSET D
      BY <1>4, <2>3 DEF pick
    <3>2. g[T \ {First(T)}] \in A
      BY <3>1
    <3>3. step[First(T)][g[T \ {First(T)}]] = Further(parents, First(T), g[T \ {First(T)}])
      BY <3>1, <3>2 DEF step
    <3> QED
      BY <2>1, <2>3, <3>1, <3>3 DEF Folded, Searched
  <2> QED
    BY <2>2, <2>3
<1>8. Searches(parents, g)
  BY <1>7 DEF Searches
<1> QED
  BY <1>8

(* Begun anywhere, in any order: what is found is right. *)
SearchedIsRight(parents, T, found) ==
  IF found.cyclic THEN HasCycle(parents)
  ELSE /\ found.state \in Marks(parents) /\ IsDone(parents, found.state)
       /\ \A n \in DOMAIN parents : found.state[n] # 1
       /\ \A n \in T : found.state[n] = 2

LEMMA SearchIsRight ==
  ASSUME NEW parents, IsFiniteSet(DOMAIN parents), IsClosed(parents), Root \notin DOMAIN parents
  PROVE  TablesOf!IsCyclic(parents) <=> HasCycle(parents)
<1> DEFINE D == DOMAIN parents
           g == CHOOSE h : Searches(parents, h)
           P == {T \in SUBSET D : SearchedIsRight(parents, T, g[T])}
<1>1. Searches(parents, g)
  BY SearchesExist
<1> HIDE DEF g
<1>2. \A T \in SUBSET D : g[T] = Searched(parents, g, T)
  BY <1>1 DEF Searches
<1>3. {} \in P
  <2>1. g[{}] = TablesOf!Unvisited(parents)
    BY <1>2 DEF Searched
  <2>2. SearchedIsRight(parents, {}, TablesOf!Unvisited(parents))
    BY DEF SearchedIsRight, TablesOf!Unvisited, Marks, IsDone
  <2> QED
    BY <2>1, <2>2
<1>4. ASSUME NEW T \in SUBSET D, T # {}, T \notin P
      PROVE  \E x \in T : T \ {x} \notin P
  <2>1. First(T) \in T /\ First(T) \in D
    BY <1>4 DEF First
  <2>2. PICK x \in T : x = First(T)
    BY <2>1
  <2>3. g[T] = Further(parents, x, g[T \ {x}])
    BY <1>2, <1>4, <2>2 DEF Searched
  <2>4. ASSUME SearchedIsRight(parents, T \ {x}, g[T \ {x}])
        PROVE  SearchedIsRight(parents, T, g[T])
    <3>1. PICK found : found = g[T \ {x}]
      OBVIOUS
    <3>2. CASE found.cyclic
      BY <2>3, <2>4, <3>1, <3>2 DEF SearchedIsRight, Further
    <3>3. CASE ~found.cyclic
      <4>1. /\ found.state \in Marks(parents) /\ IsDone(parents, found.state)
            /\ \A n \in D : found.state[n] # 1
            /\ \A n \in T \ {x} : found.state[n] = 2
        BY <2>4, <3>1, <3>3 DEF SearchedIsRight
      <4>2. PICK r : r = TablesOf!Visit(parents)[found.state][x]
        OBVIOUS
      <4>3. g[T] = r
        BY <2>3, <3>1, <3>3, <4>2 DEF Further
      <4>4. IsRight(parents, found.state, x, r)
        BY <2>1, <2>2, <4>1, <4>2, EveryVisitIsRight
      <4>5. LeadsTo(parents, found.state, x)
        BY <4>1 DEF LeadsTo
      <4>6. r \in Found(parents) /\ Visited(parents, found.state, x, r)
        BY <4>1, <4>4, <4>5 DEF IsRight
      <4>7. r.state \in Marks(parents)
        BY <4>6 DEF Found
      <4>8. CASE r.cyclic
        BY <4>3, <4>6, <4>8 DEF SearchedIsRight, Visited
      <4>9. CASE ~r.cyclic
        <5>1. /\ IsDone(parents, r.state) /\ r.state[x] = 2
              /\ \A n \in D : /\ r.state[n] = 1 <=> found.state[n] = 1
                              /\ found.state[n] = 2 => r.state[n] = 2
          BY <4>6, <4>9 DEF Visited
        <5>2. \A n \in T : r.state[n] = 2
          BY <4>1, <5>1
        <5> QED
          BY <4>1, <4>3, <4>7, <4>9, <5>1, <5>2 DEF SearchedIsRight
      <4> QED
        BY <4>8, <4>9
    <3> QED
      BY <3>2, <3>3
  <2>5. T \ {x} \notin P
    BY <1>4, <2>4
  <2> QED
    BY <2>5
<1> HIDE DEF P
<1>5. \A T \in SUBSET D : T \in P
  BY <1>3, <1>4, SetInduction
<1>6. SearchedIsRight(parents, D, g[D])
  BY <1>5 DEF P
<1>7. TablesOf!IsCyclic(parents) <=> g[D].cyclic
  BY SearchUnfolds DEF g
<1>8. CASE g[D].cyclic
  BY <1>6, <1>7, <1>8 DEF SearchedIsRight
<1>9. CASE ~g[D].cyclic
  <2>1. IsDone(parents, g[D].state) /\ \A n \in D : g[D].state[n] = 2
    BY <1>6, <1>9 DEF SearchedIsRight
  <2>2. ~HasCycle(parents)
    BY <2>1 DEF IsDone, HasCycle
  <2> QED
    BY <1>7, <1>9, <2>2
<1> QED
  BY <1>8, <1>9

LEMMA TakenIffForest ==
  ASSUME NEW parents \in TablesOf!Hierarchies
  PROVE  TablesOf!validSpecialTable(parents) <=>
           /\ \A n \in DOMAIN parents : parents[n] \in DOMAIN parents \cup {Root}
           /\ \A some \in (SUBSET DOMAIN parents) \ {{}} : \E n \in some : parents[n] \notin some
<1>1. /\ IsFiniteSet(DOMAIN parents) /\ DOMAIN parents # {} /\ Root \notin DOMAIN parents
  BY HierarchyIsFinite, TablesAssumption
<1>2. HasCycle(parents) <=>
        ~ \A some \in (SUBSET DOMAIN parents) \ {{}} : \E n \in some : parents[n] \notin some
  BY DEF HasCycle
<1>3. CASE ~IsClosed(parents)
  BY <1>3 DEF IsClosed, TablesOf!validSpecialTable
<1>4. CASE IsClosed(parents)
  <2>1. TablesOf!IsCyclic(parents) <=> HasCycle(parents)
    BY <1>1, <1>4, SearchIsRight
  <2>2. ~HasCycle(parents) => \E n \in DOMAIN parents : parents[n] = Root
    <3>1. DOMAIN parents \in SUBSET DOMAIN parents
      OBVIOUS
    <3> QED
      BY <1>1, <1>4, <3>1 DEF HasCycle, IsClosed
  <2> QED
    BY <1>2, <1>4, <2>1, <2>2 DEF IsClosed, TablesOf!validSpecialTable
<1> QED
  BY <1>3, <1>4

LEMMA TablesPaged ==
  TablesOf!IInv => TablesOf!NoRowTwice /\ TablesOf!PagesAreComplete
BY DEF TablesOf!IInv, TablesOf!NoRowTwice, TablesOf!PagesAreComplete

LEMMA ForestInitially == Init => TablesOf!HierarchyTakenIffForest
BY DEF Init, TablesOf!Init, TablesOf!HierarchyTakenIffForest, TablesOf!NoVerdict

LEMMA ForestInductive ==
  ASSUME TablesOf!HierarchyTakenIffForest, [Next]_vars
  PROVE  TablesOf!HierarchyTakenIffForest'
<1>1. CASE UNCHANGED verdict
  BY <1>1 DEF TablesOf!HierarchyTakenIffForest
<1>2. ASSUME NEW parents \in TablesOf!Hierarchies, TablesOf!SdkHierarchy(parents)
      PROVE  TablesOf!HierarchyTakenIffForest'
  <2>1. verdict'.parents = parents
        /\ (verdict'.taken <=> TablesOf!validSpecialTable(parents))
    BY <1>2 DEF TablesOf!SdkHierarchy
  <2> QED
    BY <2>1, TakenIffForest DEF TablesOf!HierarchyTakenIffForest
<1>3. CASE TablesOf!Next
  BY <1>1, <1>2, <1>3 DEF TablesOf!Next, TablesOf!SdkTable, TablesOf!Open, TablesOf!NextPage
<1> QED
  BY <1>1, <1>3 DEF Next, vars, tablesVars

(* Whatever is uploaded between the pages, a reader is given every row of  *)
(* the table and none twice (Table of internal/store/tables.go); and the   *)
(* depth-first search that lets a hierarchy in takes exactly the forests   *)
(* (validSpecialTable of internal/httpapi/tables.go).                      *)
THEOREM PagesStayTheTable == Spec => []PagesAreTheTable
<1>1. Init => TablesOf!IInv /\ TablesOf!HierarchyTakenIffForest
  BY TablesInitially, ForestInitially
<1>2. TablesOf!IInv /\ TablesOf!HierarchyTakenIffForest /\ [Next]_vars
        => TablesOf!IInv' /\ TablesOf!HierarchyTakenIffForest'
  BY TablesInductive, ForestInductive
<1>3. TablesOf!IInv /\ TablesOf!HierarchyTakenIffForest => PagesAreTheTable
  BY TablesPaged DEF PagesAreTheTable
<1> QED
  BY <1>1, <1>2, <1>3, PTL DEF Spec

-----------------------------------------------------------------------------
(* Templates: the layout. *)

Sizes == [columns : 1 .. Width, rows : Nat \ {0}]
Spots == [widget : Nat, x : Nat, y : Nat, size : Sizes]
CellsOf(spot) == Resolving!Cells(spot.x, spot.y, spot.size)

LEMMA TemplateNumbers == Width \in Nat /\ MaxResolves \in Nat /\ IsFiniteSet(ObservedSources)
BY TemplatesAssumption, Zenon

LEMMA TemplateIsValid ==
  ASSUME template \in TemplateDefinitions, NEW w \in DOMAIN template
  PROVE  /\ w \in Nat \ {0} /\ template[w].size \in Sizes /\ template[w].position \in [x : Nat, y : Nat]
         /\ IsFiniteSet(DOMAIN template)
         /\ \A s \in DOMAIN template[w].slots :
              /\ template[w].slots[s].min \in Nat /\ template[w].slots[s].max \in Nat
              /\ IsFiniteSet(template[w].slots[s].optional)
              /\ template[w].slots[s].onMissing \in {"", "error", "omit_slot", "omit_widget"}
              /\ template[w].slots[s].onAmbiguous \in {"", "error", "omit_slot", "omit_widget"}
<1>1. Len(template) \in Nat /\ DOMAIN template = 1 .. Len(template)
  BY TemplatesAssumption
<1>2. IsFiniteSet(1 .. Len(template))
  BY <1>1, FS_Interval
<1>3. w \in Nat \ {0} /\ IsFiniteSet(DOMAIN template)
  BY <1>1, <1>2
<1>4. template[w].size \in Sizes /\ template[w].position \in [x : Nat, y : Nat]
  BY TemplatesAssumption DEF Sizes
<1>5. ASSUME NEW s \in DOMAIN template[w].slots
      PROVE  /\ template[w].slots[s].min \in Nat /\ template[w].slots[s].max \in Nat
             /\ IsFiniteSet(template[w].slots[s].optional)
             /\ template[w].slots[s].onMissing \in {"", "error", "omit_slot", "omit_widget"}
             /\ template[w].slots[s].onAmbiguous \in {"", "error", "omit_slot", "omit_widget"}
  BY TemplatesAssumption
<1> QED
  BY <1>3, <1>4, <1>5

(* A finite set that is ordered has a last element. *)
LEMMA FiniteHasLast ==
  ASSUME NEW S, IsFiniteSet(S), S # {}, NEW R,
         \A x, y \in S : x # y => <<x, y>> \in R \/ <<y, x>> \in R,
         \A x, y, z \in S : <<x, y>> \in R /\ <<y, z>> \in R => <<x, z>> \in R
  PROVE  \E m \in S : \A y \in S \ {m} : <<y, m>> \in R
<1> DEFINE P == {T \in SUBSET S : T # {} => \E m \in T : \A y \in T \ {m} : <<y, m>> \in R}
<1>1. {} \in P
  OBVIOUS
<1>2. ASSUME NEW T \in SUBSET S, T # {}, T \notin P
      PROVE  \E x \in T : T \ {x} \notin P
  <2>1. PICK x \in T : TRUE
    BY <1>2
  <2>2. ASSUME T \ {x} \in P PROVE FALSE
    <3>1. CASE T \ {x} = {}
      BY <1>2, <3>1, <2>1
    <3>2. CASE T \ {x} # {}
      <4>1. PICK m \in T \ {x} : \A y \in (T \ {x}) \ {m} : <<y, m>> \in R
        BY <2>2, <3>2
      <4>2. CASE <<x, m>> \in R
        <5>1. \A y \in T \ {m} : <<y, m>> \in R
          BY <4>1, <4>2
        <5> QED
          BY <1>2, <4>1, <5>1
      <4>3. CASE <<m, x>> \in R
        <5>1. \A y \in T \ {x} : <<y, x>> \in R
          BY <4>1, <4>3
        <5> QED
          BY <1>2, <5>1
      <4> QED
        BY <4>1, <4>2, <4>3
    <3> QED
      BY <3>1, <3>2
  <2> QED
    BY <2>1, <2>2
<1> HIDE DEF P
<1>3. \A T \in SUBSET S : T \in P
  BY <1>1, <1>2, SetInduction
<1>4. S \in P
  BY <1>3
<1> QED
  BY <1>4 DEF P

LEMMA LowestIsThere ==
  ASSUME template \in TemplateDefinitions, NEW some \in SUBSET DOMAIN template, some # {}
  PROVE  Resolving!LowestOf(some) \in some
<1> DEFINE R == {pair \in some \X some : Resolving!Above(pair[1], pair[2])}
<1>1. \A w \in some : /\ w \in Nat /\ template[w].position.x \in Nat /\ template[w].position.y \in Nat
                      /\ template[w].position \in [x : Nat, y : Nat]
  BY TemplateIsValid
<1>2. \A w, v \in some : template[w].position.x = template[v].position.x
                         /\ template[w].position.y = template[v].position.y
                           => template[w].position = template[v].position
  BY <1>1
<1>3. \A w, v \in some : w # v => Resolving!Above(w, v) \/ Resolving!Above(v, w)
  BY <1>1, <1>2 DEF Resolving!Above
<1>4. \A w, v, u \in some : Resolving!Above(w, v) /\ Resolving!Above(v, u) => Resolving!Above(w, u)
  BY <1>1, <1>2 DEF Resolving!Above
<1>5. \A w, v \in some : <<w, v>> \in R <=> Resolving!Above(w, v)
  OBVIOUS
<1>6. IsFiniteSet(some)
  <2>1. PICK w \in some : TRUE
    OBVIOUS
  <2> QED
    BY <2>1, TemplateIsValid, FS_Subset
<1> HIDE DEF R
<1>7. \E m \in some : \A y \in some \ {m} : <<y, m>> \in R
  BY <1>3, <1>4, <1>5, <1>6, FiniteHasLast
<1>8. \E m \in some : \A y \in some \ {m} : Resolving!Above(y, m)
  BY <1>5, <1>7
<1> QED
  BY <1>8 DEF Resolving!LowestOf

LEMMA SpotParts ==
  ASSUME NEW spot \in Spots
  PROVE  /\ spot.widget \in Nat /\ spot.x \in Nat /\ spot.y \in Nat /\ spot.size \in Sizes
         /\ spot.size.columns \in 1 .. Width /\ spot.size.rows \in Nat
BY DEF Spots, Sizes

LEMMA BottomIsBelow ==
  ASSUME NEW placed \in Seq(Spots)
  PROVE  /\ Resolving!Bottom(placed) \in Nat
         /\ \A i \in DOMAIN placed : placed[i].y + placed[i].size.rows <= Resolving!Bottom(placed)
<1> DEFINE w == [i \in DOMAIN placed |-> placed[i].y + placed[i].size.rows]
           S == {0} \cup {placed[i].y + placed[i].size.rows : i \in DOMAIN placed}
<1>1. ASSUME NEW i \in DOMAIN placed PROVE w[i] \in Nat
  <2>1. placed[i] \in Spots
    OBVIOUS
  <2>2. placed[i].y \in Nat /\ placed[i].size.rows \in Nat
    BY <2>1, SpotParts
  <2> QED
    BY <2>2
<1>2. IsFiniteSet(DOMAIN placed)
  <2>1. Len(placed) \in Nat /\ DOMAIN placed = 1 .. Len(placed)
    OBVIOUS
  <2> QED
    BY <2>1, FS_Interval
<1>3. S = {0} \cup {w[i] : i \in DOMAIN placed}
  OBVIOUS
<1>4. \E m \in S : \A y \in S : m >= y
  <2>1. CASE DOMAIN placed = {}
    BY <1>3, <2>1
  <2>2. CASE DOMAIN placed # {}
    <3> HIDE DEF w
    <3>1. PICK m \in DOMAIN placed : \A i \in DOMAIN placed : w[i] <= w[m]
      BY <1>1, <1>2, <2>2, FiniteHasGreatest
    <3>2. w[m] \in S /\ w[m] \in Nat
      BY <1>1, <1>3
    <3> HIDE DEF S
    <3>3. \A y \in S : w[m] >= y
      BY <1>1, <1>3, <3>1, <3>2
    <3> QED
      BY <3>2, <3>3
  <2> QED
    BY <2>1, <2>2
<1>5. Resolving!Bottom(placed) \in S /\ \A y \in S : Resolving!Bottom(placed) >= y
  BY <1>4 DEF Resolving!Bottom, Resolving!Max
<1>6. S \in SUBSET Nat
  BY <1>1
<1> QED
  BY <1>1, <1>5, <1>6

(* Places of a row and a column have a first one. *)
LEMMA HasFirst ==
  ASSUME NEW free \in SUBSET (Nat \X Nat), free # {}
  PROVE  \E c \in free : \A d \in free : c[2] < d[2] \/ (c[2] = d[2] /\ c[1] <= d[1])
<1> DEFINE Rows == {d[2] : d \in free}
<1>1. \A d \in free : d[1] \in Nat /\ d[2] \in Nat
  OBVIOUS
<1>2. PICK y \in Rows : \A z \in Rows : y <= z
  <2>1. Rows \in SUBSET Nat /\ Rows # {}
    BY <1>1
  <2> HIDE DEF Rows
  <2> QED
    BY <2>1, LeastNumber
<1> DEFINE Columns == {d[1] : d \in {e \in free : e[2] = y}}
<1>3. PICK x \in Columns : \A z \in Columns : x <= z
  <2>1. Columns \in SUBSET Nat /\ Columns # {}
    BY <1>1, <1>2
  <2> HIDE DEF Columns
  <2> QED
    BY <2>1, LeastNumber
<1>4. PICK c \in free : c[1] = x /\ c[2] = y
  BY <1>3
<1>5. ASSUME NEW d \in free
      PROVE  c[2] < d[2] \/ (c[2] = d[2] /\ c[1] <= d[1])
  <2>1. c[2] <= d[2] /\ c[2] \in Nat /\ d[2] \in Nat
    BY <1>1, <1>2, <1>4
  <2>2. d[2] = y => c[1] <= d[1]
    BY <1>3, <1>4
  <2> QED
    BY <1>4, <2>1, <2>2
<1> QED
  BY <1>5

LEMMA PlaceIsFree ==
  ASSUME template \in TemplateDefinitions, NEW w \in DOMAIN template, NEW placed \in Seq(Spots)
  PROVE  \E spot \in Spots :
           /\ Resolving!Place(w, placed) = Append(placed, spot)
           /\ spot.widget = w /\ spot.x + spot.size.columns <= Width
           /\ \A i \in DOMAIN placed : CellsOf(spot) \cap CellsOf(placed[i]) = {}
<1> DEFINE size == template[w].size
           free == {c \in (0 .. Width - size.columns) \X (0 .. Resolving!Bottom(placed)) :
                      Resolving!Cells(c[1], c[2], size) \cap Resolving!Occupied(placed) = {}}
           first == CHOOSE c \in free : \A d \in free : c[2] < d[2] \/ (c[2] = d[2] /\ c[1] <= d[1])
           spot == [widget |-> w, x |-> first[1], y |-> first[2], size |-> size]
           bottom == Resolving!Bottom(placed)
<1>1. /\ w \in Nat /\ size \in Sizes /\ Width \in Nat
      /\ size.columns \in Nat /\ size.columns <= Width /\ size.rows \in Nat
  <2>1. w \in Nat /\ size \in Sizes /\ Width \in Nat
    BY TemplateIsValid, TemplateNumbers
  <2>2. size.columns \in 1 .. Width /\ size.rows \in Nat \ {0}
    <3> HIDE DEF size
    <3> QED
      BY <2>1 DEF Sizes
  <2> QED
    BY <2>1, <2>2
<1>2. bottom \in Nat /\ \A i \in DOMAIN placed : placed[i].y + placed[i].size.rows <= bottom
  BY BottomIsBelow
<1>3. ASSUME NEW i \in DOMAIN placed PROVE placed[i].y \in Nat /\ placed[i].size.rows \in Nat
  <2>1. placed[i] \in Spots
    OBVIOUS
  <2> QED
    BY <2>1, SpotParts
<1> HIDE DEF bottom
<1>4. Resolving!Cells(0, bottom, size) \cap Resolving!Occupied(placed) = {}
  <2>1. SUFFICES ASSUME NEW cell \in Resolving!Cells(0, bottom, size), NEW i \in DOMAIN placed,
                        cell \in Resolving!Cells(placed[i].x, placed[i].y, placed[i].size)
                 PROVE  FALSE
    BY DEF Resolving!Occupied
  <2>2. cell[2] \in bottom .. bottom + size.rows - 1
    BY DEF Resolving!Cells
  <2>3. cell[2] \in placed[i].y .. placed[i].y + placed[i].size.rows - 1
    BY <2>1 DEF Resolving!Cells
  <2> HIDE DEF size
  <2>4. cell[2] \in Int /\ bottom <= cell[2] /\ cell[2] <= placed[i].y + placed[i].size.rows - 1
    BY <1>1, <1>2, <1>3, <2>2, <2>3
  <2>5. placed[i].y + placed[i].size.rows <= bottom
    BY <1>2
  <2> QED
    BY <1>2, <1>3, <2>4, <2>5
<1>5. <<0, bottom>> \in free
  <2>1. <<0, bottom>> \in (0 .. Width - size.columns) \X (0 .. bottom)
    BY <1>1, <1>2
  <2> QED
    BY <1>4, <2>1 DEF bottom
<1>6. free \in SUBSET (Nat \X Nat)
  <2>1. free \subseteq (0 .. Width - size.columns) \X (0 .. bottom)
    BY DEF bottom
  <2>2. \A k \in 0 .. Width - size.columns : k \in Nat
    OBVIOUS
  <2>3. \A k \in 0 .. bottom : k \in Nat
    OBVIOUS
  <2> QED
    BY <2>1, <2>2, <2>3
<1>7. first \in free
  <2> HIDE DEF free
  <2>1. \E c \in free : \A d \in free : c[2] < d[2] \/ (c[2] = d[2] /\ c[1] <= d[1])
    BY <1>5, <1>6, HasFirst
  <2> QED
    BY <2>1
<1>8. /\ first[1] \in 0 .. Width - size.columns /\ first[2] \in 0 .. bottom
      /\ Resolving!Cells(first[1], first[2], size) \cap Resolving!Occupied(placed) = {}
  <2> HIDE DEF first
  <2> QED
    BY <1>7 DEF bottom
<1>9. Resolving!Place(w, placed) = Append(placed, spot)
  BY DEF Resolving!Place
<1> HIDE DEF first, free, size
<1>10. spot \in Spots /\ spot.widget = w /\ spot.x + spot.size.columns <= Width
  <2>1. first[1] \in Nat /\ first[2] \in Nat /\ first[1] + size.columns <= Width
    BY <1>1, <1>2, <1>8
  <2> QED
    BY <1>1, <2>1 DEF Spots
<1>11. ASSUME NEW i \in DOMAIN placed PROVE CellsOf(spot) \cap CellsOf(placed[i]) = {}
  BY <1>8 DEF CellsOf, Resolving!Occupied
<1> HIDE DEF spot
<1> QED
  BY <1>9, <1>10, <1>11

WidgetsOf(placed) == {placed[i].widget : i \in DOMAIN placed}
IsLegal(placed) ==
  /\ placed \in Seq(Spots)
  /\ \A i \in DOMAIN placed : placed[i].x + placed[i].size.columns <= Width
  /\ \A i, j \in DOMAIN placed : i # j =>
       /\ placed[i].widget # placed[j].widget
       /\ CellsOf(placed[i]) \cap CellsOf(placed[j]) = {}

LEMMA OneMoreIsLegal ==
  ASSUME NEW placed, IsLegal(placed), NEW spot \in Spots,
         spot.x + spot.size.columns <= Width, spot.widget \notin WidgetsOf(placed),
         \A i \in DOMAIN placed : CellsOf(spot) \cap CellsOf(placed[i]) = {}
  PROVE  /\ IsLegal(Append(placed, spot))
         /\ WidgetsOf(Append(placed, spot)) = WidgetsOf(placed) \cup {spot.widget}
<1> DEFINE more == Append(placed, spot)
           n == Len(placed)
<1>0. placed \in Seq(Spots)
  BY DEF IsLegal
<1>1. /\ n \in Nat /\ DOMAIN placed = 1 .. n /\ DOMAIN more = 1 .. n + 1
      /\ \A i \in 1 .. n : more[i] = placed[i]
      /\ more[n + 1] = spot /\ more \in Seq(Spots)
  BY <1>0
<1>2. \A i \in DOMAIN more : i \in DOMAIN placed \/ i = n + 1
  BY <1>1
<1>3. DOMAIN placed \subseteq DOMAIN more /\ n + 1 \in DOMAIN more /\ n + 1 \notin DOMAIN placed
  BY <1>1
<1>4. \A i \in DOMAIN placed : more[i] = placed[i]
  BY <1>1
<1>10. more[n + 1] = spot /\ more \in Seq(Spots)
  BY <1>1
<1> HIDE DEF more, n
<1>5. \A i \in DOMAIN more : more[i].x + more[i].size.columns <= Width
  BY <1>2, <1>4, <1>10 DEF IsLegal
<1>6. ASSUME NEW i \in DOMAIN more, NEW j \in DOMAIN more, i # j
      PROVE  /\ more[i].widget # more[j].widget
             /\ CellsOf(more[i]) \cap CellsOf(more[j]) = {}
  <2>1. CASE i \in DOMAIN placed /\ j \in DOMAIN placed
    BY <1>4, <1>6, <2>1 DEF IsLegal
  <2>2. CASE i = n + 1
    <3>1. j \in DOMAIN placed
      BY <1>2, <1>6, <2>2
    <3> QED
      BY <1>4, <1>10, <2>2, <3>1 DEF WidgetsOf
  <2>3. CASE j = n + 1
    <3>1. i \in DOMAIN placed
      BY <1>2, <1>6, <2>3
    <3> QED
      BY <1>4, <1>10, <2>3, <3>1 DEF WidgetsOf
  <2> QED
    BY <1>2, <2>1, <2>2, <2>3
<1>7. WidgetsOf(more) = WidgetsOf(placed) \cup {spot.widget}
  BY <1>2, <1>3, <1>4, <1>10 DEF WidgetsOf
<1> QED
  BY <1>5, <1>6, <1>7, <1>10 DEF IsLegal, more

(* The places given to the lowest widgets of T last. *)
Compacted(g, T) ==
  IF T = {} THEN <<>>
  ELSE Resolving!Place(Resolving!LowestOf(T), g[T \ {Resolving!LowestOf(T)}])
Compacts(kept, g) == g = [T \in SUBSET kept |-> Compacted(g, T)]

LEMMA CompactUnfolds ==
  ASSUME NEW kept
  PROVE  Resolving!compactDashboardWidgets(kept) = (CHOOSE g : Compacts(kept, g))[kept]
BY DEF Resolving!compactDashboardWidgets, Resolving!MapThenFoldSet, Compacts, Compacted

LEMMA CompactsExist ==
  ASSUME template \in TemplateDefinitions, NEW kept \in SUBSET DOMAIN template
  PROVE  IsFiniteSet(kept) /\ \E g : Compacts(kept, g)
<1> DEFINE A == Seq(Spots)
           step == [w \in kept |-> [placed \in A |-> Resolving!Place(w, placed)]]
           pick == [T \in SUBSET kept |-> Resolving!LowestOf(T)]
<1>0. IsFiniteSet(kept)
  <2>1. CASE kept = {}
    BY <2>1, FS_EmptySet
  <2>2. CASE kept # {}
    BY <2>2, TemplateIsValid, FS_Subset
  <2> QED
    BY <2>1, <2>2
<1>1. <<>> \in A
  OBVIOUS
<1>2. ASSUME NEW w \in kept, NEW placed \in A
      PROVE  Resolving!Place(w, placed) \in A
  <2>1. PICK spot \in Spots : Resolving!Place(w, placed) = Append(placed, spot)
    BY PlaceIsFree
  <2> QED
    BY <2>1
<1>3. step \in [kept -> [A -> A]]
  BY <1>2
<1>4. ASSUME NEW T \in SUBSET kept, T # {}
      PROVE  Resolving!LowestOf(T) \in T
  <2>1. T \in SUBSET DOMAIN template
    OBVIOUS
  <2> QED
    BY <1>4, <2>1, LowestIsThere
<1>5. Picks(pick, kept)
  BY <1>4 DEF Picks
<1> HIDE DEF A, step, pick
<1>6. PICK g \in [SUBSET kept -> A] : IsFold(step, pick, <<>>, kept, g)
  BY <1>0, <1>1, <1>3, <1>5, FoldsStay
<1>7. ASSUME NEW T \in SUBSET kept
      PROVE  g[T] = Compacted(g, T)
  <2>1. g[T] = Folded(step, pick, <<>>, T, g)
    BY <1>6 DEF IsFold
  <2>2. CASE T = {}
    BY <2>1, <2>2 DEF Folded, Compacted
  <2>3. CASE T # {}
    <3>1. PICK w \in T : w = Resolving!LowestOf(T) /\ pick[T] = w
      BY <1>4, <2>3 DEF pick
    <3>2. g[T \ {w}] \in A
      OBVIOUS
    <3>3. step[w][g[T \ {w}]] = Resolving!Place(w, g[T \ {w}])
      BY <3>2 DEF step
    <3> QED
      BY <2>1, <2>3, <3>1, <3>3 DEF Folded, Compacted
  <2> QED
    BY <2>2, <2>3
<1>8. Compacts(kept, g)
  BY <1>7 DEF Compacts
<1> QED
  BY <1>0, <1>8

LEMMA CompactIsLegal ==
  ASSUME template \in TemplateDefinitions, NEW kept \in SUBSET DOMAIN template
  PROVE  /\ IsLegal(Resolving!compactDashboardWidgets(kept))
         /\ WidgetsOf(Resolving!compactDashboardWidgets(kept)) = kept
<1> DEFINE g == CHOOSE h : Compacts(kept, h)
           P == {T \in SUBSET kept : IsLegal(g[T]) /\ WidgetsOf(g[T]) = T}
<1>1. Compacts(kept, g) /\ IsFiniteSet(kept)
  BY CompactsExist
<1> HIDE DEF g
<1>2. \A T \in SUBSET kept : g[T] = Compacted(g, T)
  BY <1>1 DEF Compacts
<1>3. {} \in P
  <2>1. g[{}] = <<>>
    BY <1>2 DEF Compacted
  <2>2. IsLegal(<<>>) /\ WidgetsOf(<<>>) = {}
    BY DEF IsLegal, WidgetsOf
  <2> QED
    BY <2>1, <2>2
<1>4. ASSUME NEW T \in SUBSET kept, T # {}, T \notin P
      PROVE  \E x \in T : T \ {x} \notin P
  <2>1. T \in SUBSET DOMAIN template
    OBVIOUS
  <2>2. PICK w \in T : w = Resolving!LowestOf(T)
    BY <1>4, <2>1, LowestIsThere
  <2>3. PICK before : before = g[T \ {w}]
    OBVIOUS
  <2>4. g[T] = Resolving!Place(w, before)
    BY <1>2, <1>4, <2>2, <2>3 DEF Compacted
  <2>5. ASSUME T \ {w} \in P PROVE FALSE
    <3>1. IsLegal(before) /\ WidgetsOf(before) = T \ {w} /\ before \in Seq(Spots)
      BY <2>3, <2>5 DEF IsLegal
    <3>2. PICK spot \in Spots :
           /\ Resolving!Place(w, before) = Append(before, spot)
           /\ spot.widget = w /\ spot.x + spot.size.columns <= Width
           /\ \A i \in DOMAIN before : CellsOf(spot) \cap CellsOf(before[i]) = {}
      BY <2>1, <3>1, PlaceIsFree
    <3>3. spot.widget \notin WidgetsOf(before)
      BY <3>1, <3>2
    <3>4. /\ IsLegal(Append(before, spot))
          /\ WidgetsOf(Append(before, spot)) = WidgetsOf(before) \cup {spot.widget}
      BY <3>1, <3>2, <3>3, OneMoreIsLegal
    <3>5. WidgetsOf(before) \cup {spot.widget} = T
      BY <3>1, <3>2
    <3> QED
      BY <1>4, <2>4, <3>2, <3>4, <3>5
  <2> QED
    BY <2>5
<1> HIDE DEF P
<1>5. \A T \in SUBSET kept : T \in P
  BY <1>1, <1>3, <1>4, SetInduction
<1>6. IsLegal(g[kept]) /\ WidgetsOf(g[kept]) = kept
  BY <1>5 DEF P
<1> QED
  BY <1>6, CompactUnfolds DEF g

-----------------------------------------------------------------------------
(* Templates: what is selected. *)

LEMMA TemplatesLibrary ==
  /\ \A S : Resolving!Cardinality(S) = Cardinality(S)
<1>1. ASSUME NEW S PROVE Resolving!Cardinality(S) = Cardinality(S)
  BY DEF Resolving!Cardinality, Cardinality
<1> QED
  BY <1>1

Statuses == {"resolved", "missing", "ambiguous", "incompatible"}
LEMMA StatusMeans ==
  ASSUME NEW slot
  PROVE  LET n == Cardinality(Resolving!Candidates(slot))
             resolution == Resolving!resolveDashboardTemplateSlot(slot) IN
         /\ resolution.status \in Statuses
         /\ resolution.status = "resolved" => resolution.selected = Resolving!Candidates(slot)
                                              /\ n # 0 /\ ~(n > slot.max)
         /\ resolution.status # "resolved" => resolution.selected = {}
BY TemplatesLibrary DEF Resolving!resolveDashboardTemplateSlot, Resolving!Status, Statuses

(* What a user may choose instead. *)
IsOverride(override) ==
  \/ override = Resolving!NoOverride
  \/ \E w \in DOMAIN template : \E s \in DOMAIN template[w].slots :
       \E sources \in Resolving!Overrides(w, s) :
         override = [widget |-> w, slot |-> s, sources |-> sources]

LEMMA ResolutionMeans ==
  ASSUME template \in TemplateDefinitions, NEW override, IsOverride(override),
         NEW w \in DOMAIN template, NEW s \in DOMAIN template[w].slots
  PROVE  /\ Resolving!Resolution(w, s, override).status \in Statuses
         /\ Resolving!Resolution(w, s, override).status = "resolved"
              <=> Resolving!Resolution(w, s, override).selected # {}
         /\ override = Resolving!NoOverride =>
              Resolving!Resolution(w, s, override)
                = Resolving!resolveDashboardTemplateSlot(template[w].slots[s])
<1>1. CASE override.widget = w /\ override.slot = s
  <2>1. Resolving!Resolution(w, s, override)
          = [status |-> "resolved", selected |-> override.sources]
    BY <1>1 DEF Resolving!Resolution
  <2>2. w # 0
    BY TemplateIsValid
  <2>3. override # Resolving!NoOverride
    BY <1>1, <2>2 DEF Resolving!NoOverride
  <2>4. PICK sources \in Resolving!Overrides(w, s) :
          override = [widget |-> w, slot |-> s, sources |-> sources]
    BY <1>1, <2>3 DEF IsOverride
  <2>5. Cardinality(sources)
          \in Resolving!Max({1, template[w].slots[s].min}) .. template[w].slots[s].max
    BY <2>4, TemplatesLibrary DEF Resolving!Overrides
  <2>6. sources # {}
    <3> DEFINE S == {1, template[w].slots[s].min}
    <3>1. template[w].slots[s].min \in Nat /\ template[w].slots[s].max \in Nat
      BY TemplateIsValid
    <3>2. \E m \in S : \A y \in S : m >= y
      BY <3>1
    <3>3. Resolving!Max(S) \in S /\ \A y \in S : Resolving!Max(S) >= y
      BY <3>2 DEF Resolving!Max
    <3>4. Resolving!Max(S) \in Nat /\ Resolving!Max(S) >= 1
      BY <3>1, <3>3
    <3>5. Cardinality(sources) # 0
      BY <2>5, <3>1, <3>4
    <3> QED
      BY <3>5, FS_EmptySet
  <2> QED
    BY <2>1, <2>3, <2>4, <2>6 DEF Statuses
<1>2. CASE ~(override.widget = w /\ override.slot = s)
  <2>1. Resolving!Resolution(w, s, override)
          = Resolving!resolveDashboardTemplateSlot(template[w].slots[s])
    BY <1>2 DEF Resolving!Resolution
  <2>2. PICK slot : slot = template[w].slots[s]
    OBVIOUS
  <2>3. Cardinality(Resolving!Candidates(slot)) # 0 => Resolving!Candidates(slot) # {}
    BY FS_EmptySet
  <2> QED
    BY <2>1, <2>2, <2>3, StatusMeans
<1> QED
  BY <1>1, <1>2

LEMMA BehaviorIsKnown ==
  ASSUME template \in TemplateDefinitions, NEW w \in DOMAIN template,
         NEW s \in DOMAIN template[w].slots, NEW status
  PROVE  Resolving!Behavior(template[w].slots[s], status)
           \in {"error", "omit_slot", "omit_widget"}
<1>1. PICK missing, ambiguous : /\ missing = template[w].slots[s].onMissing
                                /\ ambiguous = template[w].slots[s].onAmbiguous
  OBVIOUS
<1>2. missing \in {"", "error", "omit_slot", "omit_widget"}
      /\ ambiguous \in {"", "error", "omit_slot", "omit_widget"}
  BY <1>1, TemplateIsValid
<1> QED
  BY <1>1, <1>2 DEF Resolving!Behavior

(* The resolution of every slot of w. *)
AreResolutions(w, slots) ==
  /\ DOMAIN slots = DOMAIN template[w].slots
  /\ \A s \in DOMAIN slots : /\ slots[s].status \in Statuses
                             /\ slots[s].status = "resolved" <=> slots[s].selected # {}

LEMMA ResolvedWidget ==
  ASSUME template \in TemplateDefinitions, NEW w \in DOMAIN template, NEW slots,
         AreResolutions(w, slots)
  PROVE  /\ Resolving!WidgetStatus(w, slots) = "resolved" =>
              \A s \in DOMAIN slots : slots[s].selected # {}
         /\ Resolving!WidgetStatus(w, slots) \in {"resolved", "partial"}
            /\ (\A s \in DOMAIN slots : slots[s].selected # {})
              => Resolving!WidgetStatus(w, slots) = "resolved"
<1> DEFINE B == Resolving!Behaviors(w, slots)
           empty == \A s \in DOMAIN slots : slots[s].selected = {}
<1>1. B \subseteq {"error", "omit_slot", "omit_widget"}
  BY BehaviorIsKnown DEF Resolving!Behaviors, AreResolutions
<1>2. B = {} <=> \A s \in DOMAIN slots : slots[s].selected # {}
  BY DEF Resolving!Behaviors, AreResolutions
<1>3. Resolving!WidgetStatus(w, slots)
        = IF "error" \in B THEN "unresolved"
          ELSE IF "omit_widget" \in B \/ empty THEN "omitted"
          ELSE IF "omit_slot" \in B THEN "partial" ELSE "resolved"
  BY DEF Resolving!WidgetStatus
<1> HIDE DEF B, empty
<1>4. Resolving!WidgetStatus(w, slots) = "resolved" => B = {}
  BY <1>1, <1>3
<1>5. B = {} /\ Resolving!WidgetStatus(w, slots) \in {"resolved", "partial"}
        => Resolving!WidgetStatus(w, slots) = "resolved"
  BY <1>3
<1> QED
  BY <1>2, <1>4, <1>5

(* What is carried: the template is one of the definitions, and its last   *)
(* resolution is legal and says of itself what it is.                      *)
TemplatesIInv ==
  /\ Resolving!TypeOK /\ template \in TemplateDefinitions
  /\ Resolving!LayoutIsLegal /\ Resolving!CompatibleMeansWhole

LEMMA TemplatesInitially ==
  ASSUME Init
  PROVE  Resolving!TypeOK /\ Resolving!LayoutIsLegal /\ Resolving!CompatibleMeansWhole
         /\ template \in TemplateDefinitions
<1>1. result = Resolving!NoResult /\ resolves = 0 /\ catalog \subseteq ObservedSources
      /\ template \in TemplateDefinitions
  BY DEF Init, Resolving!Init
<1>2. DOMAIN result.widgets = {} /\ DOMAIN result.slots = {} /\ result.compatibility = "none"
  BY <1>1 DEF Resolving!NoResult
<1> QED
  BY <1>1, <1>2, TemplateNumbers
     DEF Resolving!TypeOK, Resolving!LayoutIsLegal, Resolving!CompatibleMeansWhole

LEMMA ResolvingIsRight ==
  ASSUME TemplatesIInv, NEW override, IsOverride(override),
         Resolving!ResolveDashboardTemplate(override)
  PROVE  TemplatesIInv'
<1> DEFINE slots == [w \in DOMAIN template |->
                       [s \in DOMAIN template[w].slots |-> Resolving!Resolution(w, s, override)]]
           statuses == [w \in DOMAIN template |-> Resolving!WidgetStatus(w, slots[w])]
           kept == {w \in DOMAIN template : statuses[w] \in {"resolved", "partial"}}
           placed == Resolving!compactDashboardWidgets(kept)
<1>1. /\ resolves < MaxResolves /\ resolves' = resolves + 1 /\ UNCHANGED <<template, catalog>>
      /\ result' = [compatibility |-> Resolving!Compatibility(statuses), slots |-> slots,
                    override |-> override, widgets |-> placed]
  BY DEF Resolving!ResolveDashboardTemplate
<1>2. template \in TemplateDefinitions
  BY DEF TemplatesIInv
<1>3. ASSUME NEW w \in DOMAIN template PROVE AreResolutions(w, slots[w])
  BY <1>2, <1>3, ResolutionMeans DEF AreResolutions
<1>4. kept \in SUBSET DOMAIN template
  OBVIOUS
<1>5. /\ IsLegal(placed) /\ WidgetsOf(placed) = kept
  <2> HIDE DEF kept
  <2> QED
    BY <1>2, <1>4, CompactIsLegal
<1>6. \A w \in DOMAIN template : DOMAIN slots[w] = DOMAIN template[w].slots
  OBVIOUS
<1>7. DOMAIN slots = DOMAIN template
  OBVIOUS
<1>8. /\ \A w \in DOMAIN template : statuses[w] = Resolving!WidgetStatus(w, slots[w])
      /\ DOMAIN statuses = DOMAIN template
      /\ \A w : w \in kept <=> w \in DOMAIN template /\ statuses[w] \in {"resolved", "partial"}
  OBVIOUS
<1> HIDE DEF slots, statuses, kept, placed
<1>9. /\ result'.compatibility = Resolving!Compatibility(statuses)
      /\ result'.slots = slots /\ result'.widgets = placed
  BY <1>1
<1>10. Resolving!Compatibility(statuses) \in {"compatible", "partially_compatible", "incompatible"}
       /\ (Resolving!Compatibility(statuses) = "compatible"
             <=> \A w \in DOMAIN template : statuses[w] = "resolved")
  BY <1>8 DEF Resolving!Compatibility
<1>11. Resolving!TypeOK'
  <2>1. resolves' \in 0 .. MaxResolves
    <3>1. resolves \in 0 .. MaxResolves /\ MaxResolves \in Nat
      BY TemplateNumbers DEF TemplatesIInv, Resolving!TypeOK
    <3> QED
      BY <1>1, <3>1
  <2>2. \A w \in DOMAIN slots : \A s \in DOMAIN slots[w] : slots[w][s].status \in Statuses
    BY <1>3, <1>7 DEF AreResolutions
  <2>3. catalog' \subseteq ObservedSources
    BY <1>1 DEF TemplatesIInv, Resolving!TypeOK
  <2>4. result'.compatibility \in {"none", "compatible", "partially_compatible", "incompatible"}
    BY <1>9, <1>10
  <2> QED
    BY <1>9, <2>1, <2>2, <2>3, <2>4 DEF Resolving!TypeOK, Statuses
<1>12. Resolving!LayoutIsLegal'
  <2>1. ASSUME NEW i \in DOMAIN placed
        PROVE  placed[i].x >= 0 /\ placed[i].x + placed[i].size.columns <= Width
    <3>1. placed[i] \in Spots
      BY <1>5 DEF IsLegal
    <3>2. placed[i].x \in Nat
      BY <3>1, SpotParts
    <3> QED
      BY <1>5, <3>2 DEF IsLegal
  <2>2. \A i, j \in DOMAIN placed : i # j =>
          /\ placed[i].widget # placed[j].widget
          /\ Resolving!Cells(placed[i].x, placed[i].y, placed[i].size)
               \cap Resolving!Cells(placed[j].x, placed[j].y, placed[j].size) = {}
    BY <1>5 DEF IsLegal, CellsOf
  <2> QED
    BY <1>9, <2>1, <2>2 DEF Resolving!LayoutIsLegal, Resolving!Cells
<1>13. Resolving!CompatibleMeansWhole'
  <2>1. Resolving!Kept' = kept
    BY <1>5, <1>9 DEF Resolving!Kept, WidgetsOf
  <2>2. \A w \in DOMAIN template : statuses[w] = "resolved" =>
          w \in kept /\ \A s \in DOMAIN slots[w] : slots[w][s].selected # {}
    BY <1>2, <1>3, <1>8, ResolvedWidget
  <2>3. \A w \in kept : (\A s \in DOMAIN slots[w] : slots[w][s].selected # {})
          => statuses[w] = "resolved"
    BY <1>2, <1>3, <1>8, ResolvedWidget
  <2>4. (\A w \in DOMAIN template : statuses[w] = "resolved") <=>
          /\ kept = DOMAIN template
          /\ \A w \in DOMAIN template : \A s \in DOMAIN slots[w] : slots[w][s].selected # {}
    BY <1>4, <2>2, <2>3
  <2>5. template' = template
    BY <1>1
  <2> QED
    BY <1>9, <1>10, <2>1, <2>4, <2>5 DEF Resolving!CompatibleMeansWhole
<1> QED
  BY <1>1, <1>2, <1>11, <1>12, <1>13 DEF TemplatesIInv

LEMMA TemplatesUnmoved ==
  ASSUME TemplatesIInv, UNCHANGED <<template, result, resolves>>, catalog' \subseteq ObservedSources
  PROVE  TemplatesIInv'
BY DEF TemplatesIInv, Resolving!TypeOK, Resolving!LayoutIsLegal, Resolving!CompatibleMeansWhole,
   Resolving!Kept, Resolving!Cells

(* A step resolves the template, as it is or with an override, or observes.*)
LEMMA TemplatesMove ==
  ASSUME [Next]_vars
  PROVE  \/ UNCHANGED templatesVars
         \/ \E source \in ObservedSources : Resolving!Observe(source)
         \/ \E override : IsOverride(override) /\ Resolving!ResolveDashboardTemplate(override)
BY DEF Next, vars, templatesVars, Resolving!Next, IsOverride

LEMMA TemplatesInductive ==
  ASSUME TemplatesIInv, [Next]_vars
  PROVE  TemplatesIInv'
<1>1. CASE UNCHANGED templatesVars
  BY <1>1, TemplatesUnmoved DEF templatesVars, TemplatesIInv, Resolving!TypeOK
<1>2. ASSUME NEW source \in ObservedSources, Resolving!Observe(source)
      PROVE  TemplatesIInv'
  BY <1>2, TemplatesUnmoved DEF TemplatesIInv, Resolving!TypeOK, Resolving!Observe
<1> QED
  BY <1>1, <1>2, TemplatesMove, ResolvingIsRight

(* What is resolved has no two widgets on the same cell and none outside   *)
(* the grid, and is called compatible exactly when every widget is there   *)
(* with a source in every slot (resolveDashboardTemplateWithOverrides and  *)
(* compactDashboardWidgets of internal/httpapi/dashboard_templates.go).    *)
THEOREM ResolvedStaysWhole == Spec => []ResolvedIsWhole
<1>1. Init => TemplatesIInv
  BY TemplatesInitially DEF TemplatesIInv
<1>2. TemplatesIInv => ResolvedIsWhole
  BY DEF TemplatesIInv, ResolvedIsWhole
<1> QED
  BY <1>1, TemplatesInductive, <1>2, PTL DEF Spec

LEMMA CandidatesAreBest ==
  ASSUME template \in TemplateDefinitions, catalog \subseteq ObservedSources,
         NEW w \in DOMAIN template, NEW s \in DOMAIN template[w].slots
  PROVE  LET slot == template[w].slots[s] IN
         /\ Cardinality(Resolving!Candidates(slot)) \in Nat
         /\ \A source \in Resolving!Candidates(slot), other \in catalog :
              (slot.required \subseteq other.tags /\ other.kind \in slot.kinds
                /\ Resolving!Score(slot, other) >= Resolving!Score(slot, source))
              => other \in Resolving!Candidates(slot)
<1> DEFINE slot == template[w].slots[s]
<1>1. IsFiniteSet(slot.optional)
  BY TemplateIsValid
<1> HIDE DEF slot
<1>2. \A source : Resolving!Score(slot, source) \in Nat
  <2> TAKE source
  <2>1. slot.optional \cap source.tags \subseteq slot.optional
    OBVIOUS
  <2>2. Cardinality(slot.optional \cap source.tags) \in Nat
    BY <1>1, <2>1, FS_Subset, FS_CardinalityType
  <2> QED
    BY <2>2, TemplatesLibrary DEF Resolving!Score
<1>3. Resolving!Candidates(slot) \subseteq ObservedSources
  BY DEF Resolving!Candidates, Resolving!Eligible, Resolving!TagMatches
<1>4. Cardinality(Resolving!Candidates(slot)) \in Nat
  BY <1>3, TemplateNumbers, FS_Subset, FS_CardinalityType
<1>5. ASSUME NEW source \in Resolving!Candidates(slot), NEW other \in catalog,
             slot.required \subseteq other.tags, other.kind \in slot.kinds,
             Resolving!Score(slot, other) >= Resolving!Score(slot, source)
      PROVE  other \in Resolving!Candidates(slot)
  <2>1. other \in Resolving!Eligible(slot)
    BY <1>5 DEF Resolving!Eligible, Resolving!TagMatches
  <2>2. \A third \in Resolving!Eligible(slot) :
          Resolving!Score(slot, source) >= Resolving!Score(slot, third)
    BY DEF Resolving!Candidates
  <2>3. \A third \in Resolving!Eligible(slot) :
          Resolving!Score(slot, other) >= Resolving!Score(slot, third)
    BY <1>2, <1>5, <2>2
  <2> QED
    BY <2>1, <2>3 DEF Resolving!Candidates
<1> QED
  BY <1>4, <1>5 DEF slot

(* Without an override a slot gets all of the sources that fit it best, or *)
(* none (resolveDashboardTemplateSlot).                                    *)
THEOREM AllOrNoneIsChosen == Spec => NothingSilentlyChosen
<1>1. ASSUME TemplatesIInv, [Next]_vars, resolves' # resolves,
             result'.override = Resolving!NoOverride,
             NEW w \in DOMAIN template, NEW s \in DOMAIN template[w].slots
      PROVE  LET slot == template[w].slots[s]  selected == result'.slots[w][s].selected IN
             /\ Cardinality(selected) <= slot.max
             /\ \A source \in selected, other \in catalog :
                  (slot.required \subseteq other.tags /\ other.kind \in slot.kinds
                    /\ Resolving!Score(slot, other) >= Resolving!Score(slot, source))
                  => other \in selected
  <2>1. PICK override : IsOverride(override) /\ Resolving!ResolveDashboardTemplate(override)
    BY <1>1, TemplatesMove DEF templatesVars, Resolving!Observe
  <2>2. override = Resolving!NoOverride
    BY <1>1, <2>1 DEF Resolving!ResolveDashboardTemplate
  <2>3. template \in TemplateDefinitions /\ catalog \subseteq ObservedSources
    BY <1>1 DEF TemplatesIInv, Resolving!TypeOK
  <2>4. result'.slots[w][s] = Resolving!Resolution(w, s, override)
    BY <2>1 DEF Resolving!ResolveDashboardTemplate
  <2>5. PICK slot : slot = template[w].slots[s]
    OBVIOUS
  <2>6. result'.slots[w][s] = Resolving!resolveDashboardTemplateSlot(slot)
    BY <2>1, <2>2, <2>3, <2>4, <2>5, ResolutionMeans
  <2>7. PICK selected : selected = result'.slots[w][s].selected
    OBVIOUS
  <2>8. \/ selected = {}
        \/ /\ selected = Resolving!Candidates(slot)
           /\ ~(Cardinality(Resolving!Candidates(slot)) > slot.max)
    BY <2>6, <2>7, StatusMeans
  <2>9. slot.max \in Nat /\ Cardinality(Resolving!Candidates(slot)) \in Nat
    BY <2>3, <2>5, TemplateIsValid, CandidatesAreBest
  <2>10. Cardinality(selected) <= slot.max
    BY <2>8, <2>9, FS_EmptySet
  <2>11. \A source \in selected, other \in catalog :
           (slot.required \subseteq other.tags /\ other.kind \in slot.kinds
             /\ Resolving!Score(slot, other) >= Resolving!Score(slot, source))
           => other \in selected
    BY <2>3, <2>5, <2>8, CandidatesAreBest
  <2> QED
    BY <2>5, <2>7, <2>10, <2>11
<1>2. ASSUME TemplatesIInv, [Next]_vars
      PROVE  [resolves' # resolves /\ result'.override = Resolving!NoOverride =>
                \A w \in DOMAIN template : \A s \in DOMAIN template[w].slots :
                  LET slot == template[w].slots[s]  selected == result'.slots[w][s].selected IN
                  /\ Resolving!Cardinality(selected) <= slot.max
                  /\ \A source \in selected, other \in catalog :
                       (slot.required \subseteq other.tags /\ other.kind \in slot.kinds
                         /\ Resolving!Score(slot, other) >= Resolving!Score(slot, source))
                       => other \in selected]_templatesVars
  BY <1>1, <1>2, TemplatesLibrary
<1>3. Init => TemplatesIInv
  BY TemplatesInitially DEF TemplatesIInv
<1> QED
  BY <1>2, <1>3, TemplatesInductive, PTL
     DEF Spec, NothingSilentlyChosen, Resolving!NothingSilentlyChosen, Resolving!vars, templatesVars

=============================================================================
