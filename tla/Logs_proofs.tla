----------------------------- MODULE Logs_proofs -----------------------------
(***************************************************************************)
(* Theorems of Attempt about the log of an attempt: what of it is hidden,  *)
(* and its way from the container to the combined log on the server.       *)
(***************************************************************************)
EXTENDS Attempt, SumTheorems

-----------------------------------------------------------------------------
(* Logs: the combined log, order record by order record. *)

JoinedFiles(files, g, S) ==
  IF S = {} THEN <<>>
  ELSE g[S \ {Logs!Max(S)}] \o Logs!Shown(files, files["order"][Logs!Max(S)])
JoinedUpTo(files, n, g) == g = [S \in SUBSET (1 .. n) |-> JoinedFiles(files, g, S)]

LEMMA CombinedFolds ==
  ASSUME NEW files, NEW n, DOMAIN files["order"] = 1 .. n
  PROVE  Logs!Combined(files) = (CHOOSE g : JoinedUpTo(files, n, g))[1 .. n]
BY DEF Logs!Combined, Logs!FoldLeft, Logs!MapThenFoldSet, JoinedFiles, JoinedUpTo

LEMMA LastIsMax ==
  ASSUME NEW m \in Nat, NEW S \in SUBSET (1 .. m), m \in S
  PROVE  Logs!Max(S) = m
<1>1. \A y \in S : m >= y
  OBVIOUS
<1>2. \A x \in S : (\A y \in S : x >= y) => x = m
  OBVIOUS
<1> QED
  BY <1>1, <1>2 DEF Logs!Max

LEMMA JoinExists ==
  ASSUME NEW files, NEW n \in Nat
  PROVE  \E g : JoinedUpTo(files, n, g)
<1> DEFINE Has(k) == \E g : JoinedUpTo(files, k, g)
           Bad == {k \in Nat : ~ Has(k)}
<1>1. Bad = {}
  <2> SUFFICES ASSUME Bad # {} PROVE FALSE
    OBVIOUS
  <2> HIDE DEF Has
  <2>1. PICK m \in Bad : \A k \in Bad : m <= k
    BY LeastNumber
  <2>2. CASE m = 0
    <3> DEFINE g == [S \in SUBSET (1 .. 0) |-> <<>>]
    <3>1. ASSUME NEW S \in SUBSET (1 .. 0)
          PROVE  JoinedFiles(files, g, S) = <<>>
      <4>1. S = {}
        OBVIOUS
      <4> QED
        BY <4>1 DEF JoinedFiles
    <3>2. JoinedUpTo(files, 0, g)
      BY <3>1 DEF JoinedUpTo
    <3>3. Has(0)
      BY <3>2 DEF Has
    <3> QED
      BY <2>1, <2>2, <3>3
  <2>3. CASE m # 0
    <3>1. m - 1 \in Nat /\ m - 1 \notin Bad
      BY <2>1, <2>3
    <3>2. PICK f : JoinedUpTo(files, m - 1, f)
      BY <3>1 DEF Has
    <3> DEFINE Last == Logs!Shown(files, files["order"][m])
               h == [S \in SUBSET (1 .. m) |->
                      IF m \in S THEN f[S \ {m}] \o Last ELSE f[S]]
    <3>3. ASSUME NEW S \in SUBSET (1 .. m)
          PROVE  h[S] = JoinedFiles(files, h, S)
      <4> DEFINE x == Logs!Max(S)
      <4>1. CASE m \in S
        <5>1. x = m
          BY <2>1, <4>1, LastIsMax
        <5>2. h[S \ {m}] = f[S \ {m}]
          OBVIOUS
        <5>3. h[S] = f[S \ {m}] \o Last
          BY <4>1
        <5> HIDE DEF h, Last, x
        <5>4. h[S] = h[S \ {x}] \o Last
          BY <5>1, <5>2, <5>3
        <5> QED
          BY <4>1, <5>1, <5>4 DEF JoinedFiles, Last, x
      <4>2. CASE m \notin S
        <5>1. S \in SUBSET (1 .. m - 1)
          BY <2>1, <4>2
        <5> HIDE DEF x
        <5>2. h[S] = f[S] /\ h[S \ {x}] = f[S \ {x}]
          BY <4>2
        <5>3. f[S] = JoinedFiles(files, f, S)
          BY <3>2, <5>1 DEF JoinedUpTo
        <5> HIDE DEF h
        <5> QED
          BY <5>2, <5>3 DEF JoinedFiles, x
      <4> QED
        BY <4>1, <4>2
    <3>4. JoinedUpTo(files, m, h)
      BY <3>3 DEF JoinedUpTo
    <3>5. Has(m)
      BY <3>4 DEF Has
    <3> QED
      BY <2>1, <3>5
  <2> QED
    BY <2>2, <2>3
<1>2. Has(n)
  BY <1>1
<1> QED
  BY <1>2

JoinStages(files, m) ==
  /\ m[0] = <<>>
  /\ \A k \in 1 .. Len(files["order"]) :
       m[k] = m[k - 1] \o Logs!Shown(files, files["order"][k])
  /\ Logs!Combined(files) = m[Len(files["order"])]

LEMMA JoinSteps ==
  ASSUME NEW files, Len(files["order"]) \in Nat,
         DOMAIN files["order"] = 1 .. Len(files["order"])
  PROVE  \E m : JoinStages(files, m)
<1> DEFINE n == Len(files["order"])
           g == CHOOSE g : JoinedUpTo(files, n, g)
           m == [k \in 0 .. n |-> g[1 .. k]]
<1>1. JoinedUpTo(files, n, g)
  BY JoinExists
<1>2. Logs!Combined(files) = g[1 .. n]
  BY CombinedFolds
<1> HIDE DEF g
<1>3. m[0] = <<>>
  <2>1. 1 .. 0 = {} /\ {} \in SUBSET (1 .. n)
    OBVIOUS
  <2>2. g[{}] = JoinedFiles(files, g, {})
    BY <1>1, <2>1 DEF JoinedUpTo
  <2> QED
    BY <2>1, <2>2 DEF JoinedFiles
<1>4. ASSUME NEW k \in 1 .. n
      PROVE  m[k] = m[k - 1] \o Logs!Shown(files, files["order"][k])
  <2> DEFINE S == 1 .. k
  <2>1. S \in SUBSET (1 .. n) /\ k \in S /\ S \ {k} = 1 .. k - 1 /\ k \in Nat
    OBVIOUS
  <2> HIDE DEF S
  <2>2. g[S] = JoinedFiles(files, g, S)
    BY <1>1, <2>1 DEF JoinedUpTo
  <2>3. Logs!Max(S) = k
    BY <2>1, LastIsMax DEF S
  <2>4. g[S] = g[S \ {k}] \o Logs!Shown(files, files["order"][k])
    BY <2>1, <2>2, <2>3 DEF JoinedFiles
  <2>5. m[k] = g[S] /\ m[k - 1] = g[1 .. k - 1]
    BY DEF S
  <2> HIDE DEF m
  <2> QED
    BY <2>1, <2>4, <2>5
<1>5. m[n] = g[1 .. n]
  OBVIOUS
<1> HIDE DEF m
<1>6. JoinStages(files, m)
  BY <1>2, <1>3, <1>4, <1>5 DEF JoinStages
<1> QED
  BY <1>6

(* Where the ranges hold the same, the combined logs are the same.         *)
AlikeUpTo(a, b, n) ==
  /\ n \in Nat /\ Len(a["order"]) \in Nat /\ Len(b["order"]) \in Nat
  /\ n <= Len(a["order"]) /\ n <= Len(b["order"])
  /\ \A k \in 1 .. n : Logs!Shown(a, a["order"][k]) = Logs!Shown(b, b["order"][k])

SameAt(l, m, n) == l[n] = m[n]

LEMMA StagesAgree ==
  ASSUME NEW a, NEW b, NEW n, NEW l, NEW m, AlikeUpTo(a, b, n),
         JoinStages(a, l), JoinStages(b, m)
  PROVE  SameAt(l, m, n)
<1> USE DEF AlikeUpTo, SameAt
<1> DEFINE Bad == {k \in Nat : k <= n /\ l[k] # m[k]}
<1>1. Bad = {}
  <2> SUFFICES ASSUME Bad # {} PROVE FALSE
    OBVIOUS
  <2>1. PICK k \in Bad : \A i \in Bad : k <= i
    BY LeastNumber
  <2>2. k # 0
    BY <2>1 DEF JoinStages
  <2>3. l[k - 1] = m[k - 1]
    <3>1. k - 1 \in Nat /\ k - 1 <= n
      BY <2>1, <2>2
    <3> QED
      BY <2>1, <3>1
  <2>4. /\ l[k] = l[k - 1] \o Logs!Shown(a, a["order"][k])
        /\ m[k] = m[k - 1] \o Logs!Shown(b, b["order"][k])
        /\ Logs!Shown(a, a["order"][k]) = Logs!Shown(b, b["order"][k])
    <3>1. k \in 1 .. n /\ k \in 1 .. Len(a["order"]) /\ k \in 1 .. Len(b["order"])
      BY <2>1, <2>2
    <3> QED
      BY <3>1 DEF JoinStages
  <2> QED
    BY <2>1, <2>3, <2>4
<1> QED
  BY <1>1

(* One range more is the old log and the new range; with the same ranges   *)
(* it is the same log.                                                     *)
LEMMA CombinedSame ==
  ASSUME NEW a, NEW b, Len(a["order"]) \in Nat, DOMAIN a["order"] = 1 .. Len(a["order"]),
         b["order"] = a["order"],
         \A k \in 1 .. Len(a["order"]) :
           Logs!Shown(a, a["order"][k]) = Logs!Shown(b, a["order"][k])
  PROVE  Logs!Combined(a) = Logs!Combined(b)
<1>1. PICK l : JoinStages(a, l)
  BY JoinSteps
<1>2. PICK m : JoinStages(b, m)
  BY JoinSteps
<1>3. AlikeUpTo(a, b, Len(a["order"]))
  BY DEF AlikeUpTo
<1>4. SameAt(l, m, Len(a["order"]))
  BY <1>1, <1>2, <1>3, StagesAgree
<1> QED
  BY <1>1, <1>2, <1>4 DEF JoinStages, SameAt

OneRangeMore(a, b, n) ==
  /\ n = Len(a["order"]) /\ n \in Nat
  /\ DOMAIN a["order"] = 1 .. n /\ DOMAIN b["order"] = 1 .. n + 1
  /\ Len(b["order"]) = n + 1
  /\ \A k \in 1 .. n : Logs!Shown(a, a["order"][k]) = Logs!Shown(b, b["order"][k])

LEMMA CombinedLonger ==
  ASSUME NEW a, NEW b, NEW n, OneRangeMore(a, b, n)
  PROVE  Logs!Combined(b) = Logs!Combined(a) \o Logs!Shown(b, b["order"][n + 1])
<1> USE DEF OneRangeMore
<1>1. PICK l : JoinStages(a, l)
  BY JoinSteps
<1>2. PICK m : JoinStages(b, m)
  BY JoinSteps
<1>0. AlikeUpTo(a, b, n)
  BY DEF AlikeUpTo
<1>3. SameAt(l, m, n)
  BY <1>0, <1>1, <1>2, StagesAgree
<1>4. n + 1 \in 1 .. Len(b["order"]) /\ (n + 1) - 1 = n
  OBVIOUS
<1>5. m[n + 1] = m[n] \o Logs!Shown(b, b["order"][n + 1])
  BY <1>2, <1>4 DEF JoinStages
<1> QED
  BY <1>1, <1>2, <1>3, <1>5 DEF JoinStages, SameAt

(* A log of frames is one if each of its ranges is. *)
LEMMA CombinedType ==
  ASSUME NEW files, NEW F, Len(files["order"]) \in Nat,
         DOMAIN files["order"] = 1 .. Len(files["order"]),
         \A k \in 1 .. Len(files["order"]) : Logs!Shown(files, files["order"][k]) \in Seq(F)
  PROVE  Logs!Combined(files) \in Seq(F)
<1>1. PICK m : JoinStages(files, m)
  BY JoinSteps
<1> DEFINE n == Len(files["order"])
           Bad == {k \in Nat : k <= n /\ m[k] \notin Seq(F)}
<1>2. Bad = {}
  <2> SUFFICES ASSUME Bad # {} PROVE FALSE
    OBVIOUS
  <2>1. PICK k \in Bad : \A i \in Bad : k <= i
    BY LeastNumber
  <2>2. k # 0
    <3>1. m[0] = <<>> /\ <<>> \in Seq(F)
      BY <1>1 DEF JoinStages
    <3> QED
      BY <2>1, <3>1
  <2>3. k - 1 \in Nat /\ k \in 1 .. n /\ m[k - 1] \in Seq(F)
    BY <2>1, <2>2
  <2>4. m[k] = m[k - 1] \o Logs!Shown(files, files["order"][k])
    BY <1>1, <2>3 DEF JoinStages
  <2> DEFINE q == Logs!Shown(files, files["order"][k])
             r == m[k - 1]
  <2>5. q \in Seq(F) /\ r \in Seq(F)
    BY <2>3
  <2>6. m[k] = r \o q
    BY <2>4
  <2> HIDE DEF q, r
  <2>7. r \o q \in Seq(F)
    BY <2>5
  <2> QED
    BY <2>1, <2>6, <2>7
<1> QED
  BY <1>1, <1>2 DEF JoinStages

-----------------------------------------------------------------------------
(* Logs: sequences of frames. *)

LEMMA LogsLibrary ==
  /\ \A s : Logs!ToSet(s) = {s[i] : i \in DOMAIN s}
  /\ \A s, t : Logs!IsPrefix(s, t) <=>
       Len(s) <= Len(t) /\ SubSeq(s, 1, Len(s)) = SubSeq(t, 1, Len(s))
BY DEF Logs!ToSet, Logs!IsPrefix

LEMMA LesserOf ==
  ASSUME NEW a \in Nat, NEW b \in Nat
  PROVE  Logs!Min({a, b}) = IF a <= b THEN a ELSE b
BY DEF Logs!Min

LEMMA Pieces ==
  ASSUME NEW F, NEW s \in Seq(F), NEW i \in Nat, NEW j \in Nat, i >= 1, j <= Len(s)
  PROVE  /\ SubSeq(s, i, j) \in Seq(F)
         /\ Len(SubSeq(s, i, j)) = IF j < i THEN 0 ELSE j - i + 1
         /\ \A k \in 1 .. Len(SubSeq(s, i, j)) : SubSeq(s, i, j)[k] = s[i + k - 1]
<1>1. CASE j < i
  BY <1>1
<1>2. CASE i <= j
  <2>1. \A k \in i .. j : s[k] \in F
    BY <1>2
  <2> QED
    BY <1>2, <2>1
<1> QED
  BY <1>1, <1>2

LEMMA Concatenated ==
  ASSUME NEW F, NEW a \in Seq(F), NEW b \in Seq(F)
  PROVE  /\ a \o b \in Seq(F) /\ Len(a \o b) = Len(a) + Len(b)
         /\ \A k \in 1 .. Len(a) : (a \o b)[k] = a[k]
         /\ \A k \in 1 .. Len(b) : (a \o b)[Len(a) + k] = b[k]
         /\ Len(a) \in Nat /\ Len(b) \in Nat
OBVIOUS

LEMMA SameSequence ==
  ASSUME NEW F, NEW a \in Seq(F), NEW b \in Seq(F), Len(a) = Len(b),
         \A k \in 1 .. Len(a) : a[k] = b[k]
  PROVE  a = b
OBVIOUS

LEMMA CutAndJoined ==
  ASSUME NEW F, NEW s \in Seq(F), NEW c \in Nat, c <= Len(s)
  PROVE  SubSeq(s, 1, c) \o SubSeq(s, c + 1, Len(s)) = s
<1> DEFINE a == SubSeq(s, 1, c)
           b == SubSeq(s, c + 1, Len(s))
<1>1. /\ a \in Seq(F) /\ Len(a) = c /\ \A k \in 1 .. c : a[k] = s[k]
  BY Pieces
<1>2. /\ b \in Seq(F) /\ Len(b) = Len(s) - c /\ \A k \in 1 .. Len(b) : b[k] = s[c + k]
  <2>1. c + 1 \in Nat /\ c + 1 >= 1 /\ Len(s) \in Nat
    OBVIOUS
  <2> QED
    BY <2>1, Pieces
<1> HIDE DEF a, b
<1>0. a \in Seq(F) /\ b \in Seq(F) /\ Len(s) \in Nat
  BY <1>1, <1>2
<1>3. /\ a \o b \in Seq(F) /\ Len(a \o b) = Len(s)
      /\ \A k \in 1 .. c : (a \o b)[k] = s[k]
      /\ \A k \in 1 .. Len(b) : (a \o b)[c + k] = s[c + k]
  <2>1. /\ a \o b \in Seq(F) /\ Len(a \o b) = Len(a) + Len(b)
        /\ \A k \in 1 .. Len(a) : (a \o b)[k] = a[k]
        /\ \A k \in 1 .. Len(b) : (a \o b)[Len(a) + k] = b[k]
    BY <1>0, Concatenated
  <2>2. Len(a \o b) = Len(s)
    BY <1>0, <1>1, <1>2, <2>1
  <2>3. \A k \in 1 .. c : (a \o b)[k] = s[k]
    BY <1>1, <2>1
  <2>4. \A k \in 1 .. Len(b) : (a \o b)[c + k] = s[c + k]
    BY <1>1, <1>2, <2>1
  <2> QED
    BY <2>1, <2>2, <2>3, <2>4
<1>4. \A k \in 1 .. Len(s) : k \in 1 .. c \/ (k - c \in 1 .. Len(b) /\ c + (k - c) = k)
  BY <1>2
<1>5. \A k \in 1 .. Len(s) : (a \o b)[k] = s[k]
  BY <1>3, <1>4
<1>6. a \o b = s
  BY <1>3, <1>5, SameSequence
<1> QED
  BY <1>6 DEF a, b

LEMMA SetOfJoined ==
  ASSUME NEW F, NEW a \in Seq(F), NEW b \in Seq(F)
  PROVE  Logs!ToSet(a \o b) = Logs!ToSet(a) \cup Logs!ToSet(b)
<1> DEFINE c == a \o b
           m == Len(a)
           n == Len(b)
<1>1. /\ DOMAIN a = 1 .. m /\ DOMAIN b = 1 .. n /\ DOMAIN c = 1 .. m + n
      /\ m \in Nat /\ n \in Nat
      /\ \A k \in 1 .. m : c[k] = a[k]
      /\ \A k \in 1 .. n : c[m + k] = b[k]
  BY Concatenated
<1> HIDE DEF c, m, n
<1>2. /\ Logs!ToSet(a) = {a[k] : k \in 1 .. m} /\ Logs!ToSet(b) = {b[k] : k \in 1 .. n}
      /\ Logs!ToSet(c) = {c[k] : k \in 1 .. m + n}
  BY <1>1, LogsLibrary
<1>3. \A k \in 1 .. m + n :
        k \in 1 .. m \/ (k - m \in 1 .. n /\ m + (k - m) = k)
  BY <1>1
<1>4. \A k \in 1 .. m + n : c[k] \in {a[i] : i \in 1 .. m} \cup {b[i] : i \in 1 .. n}
  BY <1>1, <1>3
<1>5. \A k \in 1 .. m : a[k] \in {c[i] : i \in 1 .. m + n}
  BY <1>1
<1>6. \A k \in 1 .. n : b[k] \in {c[i] : i \in 1 .. m + n}
  <2>1. \A k \in 1 .. n : m + k \in 1 .. m + n
    BY <1>1
  <2> QED
    BY <1>1, <2>1
<1> QED
  BY <1>2, <1>4, <1>5, <1>6 DEF c

(* The order of frames, after what e says of their streams.                *)
OrderIn(e, q) ==
  \A i, j \in DOMAIN q : i < j /\ e[q[i]] = e[q[j]] => q[i] < q[j]
Before(e, a, b) ==
  \A x \in Logs!ToSet(a), y \in Logs!ToSet(b) : e[x] = e[y] => x < y

(* The order of a concatenation is that of its parts and between them.     *)
LEMMA OrderOfJoined ==
  ASSUME NEW e, NEW F, NEW a \in Seq(F), NEW b \in Seq(F)
  PROVE  OrderIn(e, a \o b) <=>
           OrderIn(e, a) /\ OrderIn(e, b) /\ Before(e, a, b)
<1> DEFINE c == a \o b
           m == Len(a)
           n == Len(b)
<1>1. /\ DOMAIN a = 1 .. m /\ DOMAIN b = 1 .. n /\ DOMAIN c = 1 .. m + n
      /\ m \in Nat /\ n \in Nat
      /\ \A k \in 1 .. m : c[k] = a[k]
      /\ \A k \in 1 .. n : c[m + k] = b[k]
  BY Concatenated
<1> HIDE DEF c, m, n
<1>2. ASSUME OrderIn(e, c) PROVE OrderIn(e, a)
  BY <1>1, <1>2 DEF OrderIn
<1>3. ASSUME OrderIn(e, c) PROVE OrderIn(e, b)
  <2> SUFFICES ASSUME NEW i \in 1 .. n, NEW j \in 1 .. n, i < j,
                      e[b[i]] = e[b[j]]
               PROVE  b[i] < b[j]
    BY <1>1 DEF OrderIn
  <2>1. m + i \in 1 .. m + n /\ m + j \in 1 .. m + n /\ m + i < m + j
    BY <1>1
  <2>2. c[m + i] = b[i] /\ c[m + j] = b[j]
    BY <1>1
  <2>3. e[c[m + i]] = e[c[m + j]] => c[m + i] < c[m + j]
    BY <1>1, <1>3, <2>1 DEF OrderIn
  <2> QED
    BY <2>2, <2>3
<1>4. ASSUME OrderIn(e, c) PROVE Before(e, a, b)
  <2> SUFFICES ASSUME NEW i \in 1 .. m, NEW j \in 1 .. n,
                      e[a[i]] = e[b[j]]
               PROVE  a[i] < b[j]
    <3>1. /\ Logs!ToSet(a) = {a[k] : k \in 1 .. m} /\ Logs!ToSet(b) = {b[k] : k \in 1 .. n}
      BY <1>1, LogsLibrary
    <3> QED
      BY <3>1 DEF Before
  <2>1. i \in 1 .. m + n /\ m + j \in 1 .. m + n /\ i < m + j
    BY <1>1
  <2>2. c[i] = a[i] /\ c[m + j] = b[j]
    BY <1>1
  <2> QED
    BY <1>1, <1>4, <2>1, <2>2 DEF OrderIn
<1>5. ASSUME OrderIn(e, a), OrderIn(e, b), Before(e, a, b) PROVE OrderIn(e, c)
  <2> SUFFICES ASSUME NEW i \in 1 .. m + n, NEW j \in 1 .. m + n, i < j,
                      e[c[i]] = e[c[j]]
               PROVE  c[i] < c[j]
    BY <1>1 DEF OrderIn
  <2>1. CASE j \in 1 .. m
    <3>1. i \in 1 .. m
      BY <1>1, <2>1
    <3> QED
      BY <1>1, <1>5, <2>1, <3>1 DEF OrderIn
  <2>2. CASE i \in 1 .. m /\ j \notin 1 .. m
    <3>1. j - m \in 1 .. n /\ m + (j - m) = j
      BY <1>1, <2>2
    <3>2. c[j] = b[j - m] /\ c[i] = a[i]
      BY <1>1, <2>2, <3>1
    <3>3. a[i] \in Logs!ToSet(a) /\ b[j - m] \in Logs!ToSet(b)
      BY <1>1, <2>2, <3>1, LogsLibrary
    <3> QED
      BY <1>5, <3>2, <3>3 DEF Before
  <2>3. CASE i \notin 1 .. m
    <3>1. /\ i - m \in 1 .. n /\ j - m \in 1 .. n /\ i - m < j - m
          /\ m + (i - m) = i /\ m + (j - m) = j
      BY <1>1, <2>3
    <3>2. c[j] = b[j - m] /\ c[i] = b[i - m]
      BY <1>1, <3>1
    <3>3. e[b[i - m]] = e[b[j - m]] => b[i - m] < b[j - m]
      BY <1>1, <1>5, <3>1 DEF OrderIn
    <3> QED
      BY <3>2, <3>3
  <2> QED
    BY <2>1, <2>2, <2>3
<1> QED
  BY <1>2, <1>3, <1>4, <1>5 DEF c

-----------------------------------------------------------------------------
(* Logs: what the agent, its journal and the files are. *)

Frames == 1 .. MaxFrames
AgentPoints ==
  {"off", "follow", "write", "note", "stream", "order", "tail", "last", "done"}
AgentRow ==
  [at : AgentPoints, round : 0 .. 2, pos : 0 .. MaxFrames, stream : Logs!Stream,
   safe : Seq(Frames), held : [Logs!Stream -> Seq(Frames)]]
RecordRow == [offset : [Logs!File -> Nat], sequence : Nat]
LogFiles ==
  {f \in [Logs!File -> Seq(Frames) \cup Seq(Logs!OrderRecord)] :
     /\ \A s \in Logs!Stream : f[s] \in Seq(Frames)
     /\ f["order"] \in Seq(Logs!OrderRecord)}
LogTypes ==
  /\ emitted \in Seq(Logs!Stream) /\ Len(emitted) <= MaxFrames /\ running \in BOOLEAN
  /\ keep \in 0 .. 1 /\ logsAgent \in AgentRow
  /\ record \in RecordRow /\ logsJournal \in RecordRow
  /\ local \in LogFiles /\ server \in LogFiles
  /\ logsOwner \in BOOLEAN /\ logsFaults \in 0 .. Faults["logs"]
  /\ logsCrashes \in 0 .. Crashes["logs"]
  /\ \A f \in Logs!File : /\ logsJournal.offset[f] <= record.offset[f]
                          /\ record.offset[f] <= Len(server[f])

LEMMA FilesOf ==
  Logs!File = Logs!Stream \cup {"order"} /\ "order" \notin Logs!Stream
BY DEF Logs!File, Logs!Stream

LEMMA FilesAreTyped ==
  ASSUME NEW f
  PROVE  f \in LogFiles <=>
           /\ f = [g \in Logs!File |-> f[g]]
           /\ \A s \in Logs!Stream : f[s] \in Seq(1 .. MaxFrames)
           /\ f["order"] \in Seq(Logs!OrderRecord)
BY FilesOf DEF LogFiles, Frames

LEMMA LogTypesAre ==
  /\ Logs!TypeOK <=> LogTypes
  /\ Logs!TypeOK' <=> LogTypes'
<1>1. Logs!TypeOK <=> LogTypes
  <2>1. local \in LogFiles <=>
          /\ local = [g \in Logs!File |-> local[g]]
          /\ \A s \in Logs!Stream : local[s] \in Seq(1 .. MaxFrames)
          /\ local["order"] \in Seq(Logs!OrderRecord)
    BY FilesAreTyped
  <2>2. server \in LogFiles <=>
          /\ server = [g \in Logs!File |-> server[g]]
          /\ \A s \in Logs!Stream : server[s] \in Seq(1 .. MaxFrames)
          /\ server["order"] \in Seq(Logs!OrderRecord)
    BY FilesAreTyped
  <2> QED
    BY <2>1, <2>2 DEF Logs!TypeOK, LogTypes, AgentRow, AgentPoints, RecordRow, Frames
<1>2. Logs!TypeOK' <=> LogTypes'
  <2>1. local' \in LogFiles <=>
          /\ local' = [g \in Logs!File |-> local'[g]]
          /\ \A s \in Logs!Stream : local'[s] \in Seq(1 .. MaxFrames)
          /\ local'["order"] \in Seq(Logs!OrderRecord)
    BY FilesAreTyped
  <2>2. server' \in LogFiles <=>
          /\ server' = [g \in Logs!File |-> server'[g]]
          /\ \A s \in Logs!Stream : server'[s] \in Seq(1 .. MaxFrames)
          /\ server'["order"] \in Seq(Logs!OrderRecord)
    BY FilesAreTyped
  <2> QED
    BY <2>1, <2>2 DEF Logs!TypeOK, LogTypes, AgentRow, AgentPoints, RecordRow, Frames
<1> QED
  BY <1>1, <1>2

LEMMA AgentParts ==
  ASSUME NEW a \in AgentRow
  PROVE  /\ a.at \in AgentPoints /\ a.round \in 0 .. 2 /\ a.pos \in Nat
         /\ a.pos <= MaxFrames /\ a.stream \in Logs!Stream /\ a.safe \in Seq(Frames)
         /\ a.held \in [Logs!Stream -> Seq(Frames)]
         /\ \A s \in Logs!Stream : a.held[s] \in Seq(Frames)
BY LogsAssumption DEF AgentRow

LEMMA FileParts ==
  ASSUME NEW f \in LogFiles
  PROVE  /\ DOMAIN f = Logs!File
         /\ \A s \in Logs!Stream : f[s] \in Seq(Frames)
         /\ f["order"] \in Seq(Logs!OrderRecord)
         /\ \A g \in Logs!File : Len(f[g]) \in Nat /\ DOMAIN f[g] = 1 .. Len(f[g])
BY FilesOf DEF LogFiles

(* The updates of the agent's state.                                       *)
Goes(a, at) == [a EXCEPT !.at = at]
GoesIn(a, at, round) == [a EXCEPT !.at = at, !.round = round]
TakesUp(a, pos, stream, out, held, at) ==
  [a EXCEPT !.pos = pos, !.stream = stream, !.safe = out, !.held[stream] = held, !.at = at]
Lets(a, stream, out, at) ==
  [a EXCEPT !.stream = stream, !.safe = out, !.held[stream] = <<>>, !.at = at]
Notes(a) == [a EXCEPT !.at = "stream", !.safe = <<>>]

LEMMA AgentGoes ==
  ASSUME NEW a \in AgentRow, NEW at \in AgentPoints
  PROVE  /\ Goes(a, at) \in AgentRow /\ Goes(a, at).at = at
         /\ Goes(a, at).round = a.round /\ Goes(a, at).pos = a.pos
         /\ Goes(a, at).stream = a.stream /\ Goes(a, at).safe = a.safe
         /\ Goes(a, at).held = a.held
BY DEF AgentRow, Goes

LEMMA AgentGoesIn ==
  ASSUME NEW a \in AgentRow, NEW at \in AgentPoints, NEW round \in 0 .. 2
  PROVE  /\ GoesIn(a, at, round) \in AgentRow /\ GoesIn(a, at, round).at = at
         /\ GoesIn(a, at, round).round = round /\ GoesIn(a, at, round).pos = a.pos
         /\ GoesIn(a, at, round).stream = a.stream /\ GoesIn(a, at, round).safe = a.safe
         /\ GoesIn(a, at, round).held = a.held
BY DEF AgentRow, GoesIn

LEMMA AgentTakesUp ==
  ASSUME NEW a \in AgentRow, NEW pos \in 0 .. MaxFrames, NEW s \in Logs!Stream,
         NEW out \in Seq(Frames), NEW held \in Seq(Frames), NEW at \in AgentPoints
  PROVE  LET b == TakesUp(a, pos, s, out, held, at)
         IN  /\ b \in AgentRow /\ b.at = at /\ b.round = a.round /\ b.pos = pos
             /\ b.stream = s /\ b.safe = out /\ b.held = [a.held EXCEPT ![s] = held]
<1> DEFINE h == [a.held EXCEPT ![s] = held]
<1>1. h \in [Logs!Stream -> Seq(Frames)]
  BY AgentParts
<1> HIDE DEF h
<1>2. LET b == [a EXCEPT !.pos = pos, !.stream = s, !.safe = out, !.held = h, !.at = at]
      IN  /\ b \in AgentRow /\ b.at = at /\ b.round = a.round /\ b.pos = pos
          /\ b.stream = s /\ b.safe = out /\ b.held = h
  BY <1>1 DEF AgentRow
<1> QED
  BY <1>2 DEF h, TakesUp

LEMMA AgentLets ==
  ASSUME NEW a \in AgentRow, NEW s \in Logs!Stream,
         NEW out \in Seq(Frames), NEW at \in AgentPoints
  PROVE  LET b == Lets(a, s, out, at)
         IN  /\ b \in AgentRow /\ b.at = at /\ b.round = a.round /\ b.pos = a.pos
             /\ b.stream = s /\ b.safe = out /\ b.held = [a.held EXCEPT ![s] = <<>>]
<1> DEFINE h == [a.held EXCEPT ![s] = <<>>]
<1>1. h \in [Logs!Stream -> Seq(Frames)]
  BY AgentParts
<1> HIDE DEF h
<1>2. LET b == [a EXCEPT !.stream = s, !.safe = out, !.held = h, !.at = at]
      IN  /\ b \in AgentRow /\ b.at = at /\ b.round = a.round /\ b.pos = a.pos
          /\ b.stream = s /\ b.safe = out /\ b.held = h
  BY <1>1 DEF AgentRow
<1> QED
  BY <1>2 DEF h, Lets

LEMMA AgentNotes ==
  ASSUME NEW a \in AgentRow
  PROVE  /\ Notes(a) \in AgentRow /\ Notes(a).at = "stream" /\ Notes(a).round = a.round
         /\ Notes(a).pos = a.pos /\ Notes(a).stream = a.stream /\ Notes(a).safe = <<>>
         /\ Notes(a).held = a.held
<1>1. "stream" \in AgentPoints /\ <<>> \in Seq(Frames)
  BY DEF AgentPoints
<1> QED
  BY <1>1 DEF AgentRow, Notes

LEMMA AgentOff ==
  /\ Logs!Off \in AgentRow /\ Logs!Off.at = "off" /\ Logs!Off.round = 0
  /\ Logs!Off.pos = 0 /\ Logs!Off.safe = <<>>
<1>1. /\ "off" \in AgentPoints /\ 0 \in 0 .. MaxFrames /\ "stdout" \in Logs!Stream
      /\ <<>> \in Seq(Frames) /\ [s \in Logs!Stream |-> <<>>] \in [Logs!Stream -> Seq(Frames)]
  BY LogsAssumption DEF AgentPoints, Logs!Stream
<1> QED
  BY <1>1 DEF AgentRow, Logs!Off

(* The updates of a file.                                                  *)
Wrote(f, g, v) == [f EXCEPT ![g] = v]
LEMMA FileWritten ==
  ASSUME NEW f \in LogFiles, NEW g \in Logs!File, NEW v,
         g = "order" => v \in Seq(Logs!OrderRecord),
         g # "order" => v \in Seq(Frames)
  PROVE  /\ Wrote(f, g, v) \in LogFiles /\ Wrote(f, g, v)[g] = v
         /\ \A i \in Logs!File : i # g => Wrote(f, g, v)[i] = f[i]
BY FilesOf DEF LogFiles, Wrote

-----------------------------------------------------------------------------
(* Logs: what the server makes of a chunk. *)

Begins(v, l) == Len(v) <= Len(l) /\ \A k \in 1 .. Len(v) : v[k] = l[k]

LEMMA PrefixBegins ==
  ASSUME NEW F, NEW v \in Seq(F), NEW l \in Seq(F)
  PROVE  Logs!IsPrefix(v, l) <=> Begins(v, l)
<1> DEFINE a == SubSeq(v, 1, Len(v))
           b == SubSeq(l, 1, Len(v))
<1>1. Len(v) \in Nat /\ Len(l) \in Nat
  OBVIOUS
<1>2. a \in Seq(F) /\ Len(a) = Len(v) /\ \A k \in 1 .. Len(v) : a[k] = v[k]
  BY <1>1, Pieces
<1>3. Len(v) <= Len(l) =>
        b \in Seq(F) /\ Len(b) = Len(v) /\ \A k \in 1 .. Len(v) : b[k] = l[k]
  BY <1>1, Pieces
<1> HIDE DEF a, b
<1>4. ASSUME Logs!IsPrefix(v, l) PROVE Begins(v, l)
  <2>1. Len(v) <= Len(l) /\ a = b
    BY <1>4, LogsLibrary DEF a, b
  <2> QED
    BY <1>2, <1>3, <2>1 DEF Begins
<1>5. ASSUME Begins(v, l) PROVE Logs!IsPrefix(v, l)
  <2>1. a = b
    BY <1>2, <1>3, <1>5, SameSequence DEF Begins
  <2> QED
    BY <1>5, <2>1, LogsLibrary DEF Begins, a, b
<1> QED
  BY <1>4, <1>5

(* A piece of what is missing keeps the prefix one. *)
Takes(l, v, n, m, chunk, file) ==
  /\ chunk = SubSeq(SubSeq(l, Len(v) + 1, Len(l)), 1, n)
  /\ file = v \o SubSeq(chunk, 1, m)

LEMMA BeginsLonger ==
  ASSUME NEW F, NEW l \in Seq(F), NEW v \in Seq(F), NEW n \in Nat, NEW m \in Nat,
         Begins(v, l), n <= Len(l) - Len(v), m <= n,
         NEW chunk, NEW file, Takes(l, v, n, m, chunk, file)
  PROVE  /\ file \in Seq(F) /\ Len(file) = Len(v) + m /\ Begins(file, l)
         /\ Begins(v, file) /\ Len(chunk) = n
<1> DEFINE a == SubSeq(l, Len(v) + 1, Len(l))
           b == SubSeq(a, 1, n)
           c == SubSeq(b, 1, m)
           w == v \o c
<1>1. Len(v) \in Nat /\ Len(l) \in Nat /\ Len(v) <= Len(l) /\ Len(v) + 1 \in Nat
      /\ Len(v) + 1 >= 1
  BY DEF Begins
<1>2. /\ a \in Seq(F) /\ Len(a) = Len(l) - Len(v)
      /\ \A k \in 1 .. Len(a) : a[k] = l[Len(v) + k]
  BY <1>1, Pieces
<1> HIDE DEF a
<1>3. b \in Seq(F) /\ Len(b) = n /\ \A k \in 1 .. n : b[k] = a[k]
  BY <1>2, Pieces
<1> HIDE DEF b
<1>4. c \in Seq(F) /\ Len(c) = m /\ \A k \in 1 .. m : c[k] = b[k]
  BY <1>3, Pieces
<1> HIDE DEF c
<1>5. ASSUME NEW k \in 1 .. m PROVE c[k] = l[Len(v) + k]
  <2>1. k \in 1 .. n /\ k \in 1 .. Len(a)
    BY <1>1, <1>2
  <2>2. c[k] = b[k] /\ b[k] = a[k] /\ a[k] = l[Len(v) + k]
    BY <1>2, <1>3, <1>4, <2>1
  <2> QED
    BY <2>2
<1>0. v \in Seq(F) /\ c \in Seq(F)
  BY <1>4
<1>6. Len(c) = m
  BY <1>4
<1>7. /\ w \in Seq(F) /\ Len(w) = Len(v) + Len(c)
      /\ \A k \in 1 .. Len(v) : w[k] = v[k]
      /\ \A k \in 1 .. Len(c) : w[Len(v) + k] = c[k]
  <2> HIDE <1>1, <1>2, <1>3, <1>4, <1>5, <1>6
  <2> QED
    BY <1>0, Concatenated
<1> HIDE DEF w
<1>8. Begins(v, w)
  BY <1>1, <1>6, <1>7 DEF Begins
<1>9. Begins(w, l)
  <2>1. Len(w) <= Len(l)
    BY <1>1, <1>6, <1>7
  <2>2. ASSUME NEW k \in 1 .. Len(w) PROVE w[k] = l[k]
    <3>1. CASE k \in 1 .. Len(v)
      BY <1>7, <3>1 DEF Begins
    <3>2. CASE k \notin 1 .. Len(v)
      <4>1. k - Len(v) \in 1 .. m /\ Len(v) + (k - Len(v)) = k
        BY <1>1, <1>6, <1>7, <3>2
      <4> QED
        BY <1>5, <1>6, <1>7, <4>1
    <3> QED
      BY <3>1, <3>2
  <2> QED
    BY <2>1, <2>2 DEF Begins
<1> QED
  BY <1>3, <1>6, <1>7, <1>8, <1>9 DEF w, c, b, a, Takes

LEMMA FilesOfOneKind ==
  ASSUME LogTypes, NEW f \in Logs!File
  PROVE  \E F : /\ server[f] \in Seq(F) /\ local[f] \in Seq(F)
                /\ \A v \in Seq(F) :
                     (f = "order" => v \in Seq(Logs!OrderRecord))
                     /\ (f # "order" => v \in Seq(Frames))
<1>1. CASE f = "order"
  BY <1>1, FileParts DEF LogTypes
<1>2. CASE f # "order"
  BY <1>2, FileParts, FilesOf DEF LogTypes
<1> QED
  BY <1>1, <1>2

Total(f) == Len(f["stdout"]) + Len(f["stderr"]) + Len(f["order"])

LEMMA UsedIs ==
  Logs!Used = Total(server) /\ Logs!Used' = Total(server')
BY DEF Logs!Used, Total

LEMMA TotalOf ==
  ASSUME NEW f \in LogFiles
  PROVE  Total(f) \in Nat
<1>1. "stdout" \in Logs!File /\ "stderr" \in Logs!File /\ "order" \in Logs!File
  BY DEF Logs!File, Logs!Stream
<1>2. PICK x, y, z : x = Len(f["stdout"]) /\ y = Len(f["stderr"]) /\ z = Len(f["order"])
  OBVIOUS
<1>3. x \in Nat /\ y \in Nat /\ z \in Nat
  BY <1>1, <1>2, FileParts
<1>4. Total(f) = x + y + z
  BY <1>2 DEF Total
<1> QED
  BY <1>3, <1>4

(* The reply to a chunk, from where the agent believes the file to end.    *)
Chunk(f, n) == SubSeq(Logs!Pending(f), 1, n)
Reply(f, n) == Logs!appendLog(f, record.offset[f], Chunk(f, n))

(* What a chunk makes of the server's file, which grows to w.              *)
LEMMA ServerGrows ==
  ASSUME LogTypes, NEW f \in Logs!File, NEW w,
         f = "order" => w \in Seq(Logs!OrderRecord),
         f # "order" => w \in Seq(Frames),
         server' = Wrote(server, f, w)
  PROVE  /\ server' \in LogFiles /\ server'[f] = w
         /\ \A g \in Logs!File : g # f => server'[g] = server[g]
         /\ Logs!Used \in Nat
         /\ Logs!Used' = (Logs!Used - Len(server[f])) + Len(w)
<1>1. /\ server' \in LogFiles /\ server'[f] = w
      /\ \A g \in Logs!File : g # f => server'[g] = server[g]
  BY FileWritten DEF LogTypes
<1>2. /\ f \in {"stdout", "stderr", "order"} /\ "stdout" \in Logs!File
      /\ "stderr" \in Logs!File /\ "order" \in Logs!File
  BY DEF Logs!File, Logs!Stream
<1> DEFINE x == Len(server["stdout"])
           y == Len(server["stderr"])
           z == Len(server["order"])
           k == Len(w)
<1>3. x \in Nat /\ y \in Nat /\ z \in Nat
  BY <1>2, FileParts DEF LogTypes
<1>4. k \in Nat
  BY <1>1, FileParts
<1>5. Logs!Used = x + y + z
  BY UsedIs DEF Total
<1>6. /\ f = "stdout" => Logs!Used' = k + y + z /\ Len(server[f]) = x
      /\ f = "stderr" => Logs!Used' = x + k + z /\ Len(server[f]) = y
      /\ f = "order" => Logs!Used' = x + y + k /\ Len(server[f]) = z
  BY <1>1, <1>2, UsedIs DEF Total
<1> HIDE DEF x, y, z, k
<1>7. Logs!Used' = (Logs!Used - Len(server[f])) + k
  <2>1. PICK before, after, old :
          before = Logs!Used /\ after = Logs!Used' /\ old = Len(server[f])
    OBVIOUS
  <2>2. \/ after = k + y + z /\ old = x
        \/ after = x + k + z /\ old = y
        \/ after = x + y + k /\ old = z
    BY <1>2, <1>6, <2>1
  <2>3. before = x + y + z
    BY <1>5, <2>1
  <2>4. after = (before - old) + k
    BY <1>3, <1>4, <2>2, <2>3
  <2> QED
    BY <2>1, <2>4
<1> QED
  BY <1>1, <1>3, <1>5, <1>7 DEF k

(* Taken or not, the server's file stays a prefix, and the limit is kept;  *)
(* what is cut fills the limit up.                                         *)
LEMMA ServerTakes ==
  ASSUME LogTypes, Logs!LogLimitKept, NEW f \in Logs!File,
         NEW n \in 1 .. Len(Logs!Pending(f)),
         Logs!IsPrefix(server[f], local[f]),
         server' = [server EXCEPT ![f] = Reply(f, n).file]
  PROVE  /\ server' \in LogFiles /\ Logs!IsPrefix(server'[f], local[f])
         /\ \A g \in Logs!File : g # f => server'[g] = server[g]
         /\ Begins(server[f], server'[f])
         /\ Logs!LogLimitKept' /\ Logs!Used' >= Logs!Used
         /\ Reply(f, n).ok => /\ Len(server[f]) = record.offset[f]
                              /\ Len(server'[f]) = record.offset[f] + n
         /\ Logs!Used < Limit["logs"] /\ Len(server[f]) = record.offset[f]
              /\ logsOwner /\ ~Reply(f, n).ok => Logs!Used' >= Limit["logs"]
<1>1. PICK F : /\ server[f] \in Seq(F) /\ local[f] \in Seq(F)
               /\ \A v \in Seq(F) : (f = "order" => v \in Seq(Logs!OrderRecord))
                                    /\ (f # "order" => v \in Seq(Frames))
  BY FilesOfOneKind
<1>2. PICK v, l : v = server[f] /\ l = local[f]
  OBVIOUS
<1>3. PICK Z, U : Z = Limit["logs"] /\ U = Logs!Used
  OBVIOUS
<1>4. v \in Seq(F) /\ l \in Seq(F) /\ Begins(v, l) /\ Len(v) \in Nat /\ Len(l) \in Nat
  BY <1>1, <1>2, PrefixBegins
<1>5. Z \in Nat /\ U \in Nat /\ U <= Z
  BY <1>3, LogsAssumption, UsedIs, TotalOf DEF Logs!LogLimitKept, LogTypes
<1>6. record.offset[f] \in Nat /\ n \in Nat
  BY DEF LogTypes, RecordRow
<1>7. ASSUME NEW w \in Seq(F), server' = Wrote(server, f, w)
      PROVE  /\ server' \in LogFiles /\ server'[f] = w
             /\ \A g \in Logs!File : g # f => server'[g] = server[g]
             /\ Logs!Used' = (U - Len(v)) + Len(w)
  BY <1>1, <1>2, <1>3, <1>7, ServerGrows
<1>8. CASE Reply(f, n).file = v /\ ~Reply(f, n).ok
           /\ (~logsOwner \/ Len(v) # record.offset[f] \/ Z - U <= 0)
  <2>1. server' = Wrote(server, f, v)
    BY <1>8 DEF Wrote
  <2>2. /\ server' \in LogFiles /\ server'[f] = v
        /\ \A g \in Logs!File : g # f => server'[g] = server[g]
        /\ Logs!Used' = (U - Len(v)) + Len(v)
    BY <1>4, <1>7, <2>1
  <2>3. Logs!Used' = U
    BY <1>4, <1>5, <2>2
  <2>4. Begins(server[f], server'[f])
    BY <1>2, <1>4, <2>2 DEF Begins
  <2>5. Logs!LogLimitKept' /\ Logs!Used' >= Logs!Used
    BY <1>3, <1>5, <2>3 DEF Logs!LogLimitKept
  <2>6. Logs!IsPrefix(server'[f], local[f])
    BY <1>2, <2>2
  <2> QED
    BY <1>2, <1>3, <1>5, <1>8, <2>2, <2>4, <2>5, <2>6
<1>9. CASE /\ logsOwner /\ Len(v) = record.offset[f] /\ Z - U > 0
           /\ Reply(f, n).file = v \o Logs!Take(Chunk(f, n), Z - U)
           /\ Reply(f, n).ok <=> Len(Chunk(f, n)) <= Z - U
  <2>0. PICK p, c : p = Logs!Pending(f) /\ c = Chunk(f, n)
    OBVIOUS
  <2>1. p = SubSeq(l, Len(v) + 1, Len(l)) /\ c = SubSeq(p, 1, n)
    BY <1>2, <1>9, <2>0 DEF Chunk, Logs!Pending
  <2>2. n <= Len(l) - Len(v)
    <3>1. Len(v) + 1 \in Nat /\ Len(v) + 1 >= 1 /\ Len(v) <= Len(l)
      BY <1>4 DEF Begins
    <3>2. Len(SubSeq(l, Len(v) + 1, Len(l))) = Len(l) - Len(v)
      BY <1>4, <3>1, Pieces
    <3> QED
      BY <2>0, <2>1, <3>2
  <2>3. PICK m \in Nat : m <= n /\ (Z - U <= n => m = Z - U) /\ (~(Z - U <= n) => m = n)
    <3>1. CASE Z - U <= n
      <4>1. Z - U \in Nat
        BY <1>5
      <4> QED
        BY <3>1, <4>1
    <3>2. CASE ~(Z - U <= n)
      BY <1>6, <3>2
    <3> QED
      BY <3>1, <3>2
  <2>4. PICK w : w = v \o SubSeq(c, 1, m)
    OBVIOUS
  <2>5. /\ w \in Seq(F) /\ Len(w) = Len(v) + m /\ Begins(w, l) /\ Begins(v, w)
        /\ Len(c) = n
    <3>1. Takes(l, v, n, m, c, w)
      BY <2>1, <2>4 DEF Takes
    <3> QED
      BY <1>4, <1>6, <2>2, <2>3, <3>1, BeginsLonger
  <2>6. Reply(f, n).file = w
    <3>0. Z - U \in Nat /\ Len(c) = n
      BY <1>5, <2>5
    <3>1. Logs!Min({Z - U, Len(c)}) = m
      <4>1. Logs!Min({Z - U, n}) = IF Z - U <= n THEN Z - U ELSE n
        BY <1>6, <3>0, LesserOf
      <4> QED
        BY <2>3, <3>0, <4>1
    <3>2. Logs!Take(c, Z - U) = SubSeq(c, 1, m)
      BY <3>1 DEF Logs!Take
    <3> QED
      BY <1>9, <2>0, <2>4, <3>2
  <2>7. /\ server' \in LogFiles /\ server'[f] = w
        /\ \A g \in Logs!File : g # f => server'[g] = server[g]
        /\ Logs!Used' = (U - Len(v)) + Len(w)
    <3>1. server' = Wrote(server, f, w)
      BY <2>6 DEF Wrote
    <3> QED
      BY <1>7, <2>5, <3>1
  <2>8. Logs!Used' = U + m
    BY <1>4, <1>5, <2>5, <2>7
  <2>9. Logs!IsPrefix(server'[f], local[f])
    BY <1>2, <1>4, <2>5, <2>7, PrefixBegins
  <2>10. Begins(server[f], server'[f])
    BY <1>2, <2>5, <2>7
  <2>11. Logs!LogLimitKept' /\ Logs!Used' >= Logs!Used
    <3>1. U + m <= Z /\ U + m >= U
      BY <1>5, <1>6, <1>9, <2>3
    <3> QED
      BY <1>3, <2>8, <3>1 DEF Logs!LogLimitKept
  <2>12. ASSUME Reply(f, n).ok PROVE Len(server'[f]) = record.offset[f] + n
    <3>1. n <= Z - U
      BY <1>9, <2>0, <2>5, <2>12
    <3>2. m = n
      BY <1>5, <1>6, <2>3, <3>1
    <3> QED
      BY <1>9, <2>5, <2>7, <3>2
  <2>13. ASSUME ~Reply(f, n).ok PROVE Logs!Used' >= Z
    <3>1. ~(n <= Z - U)
      BY <1>9, <2>0, <2>5, <2>13
    <3>2. m = Z - U
      BY <1>5, <1>6, <2>3, <3>1
    <3> QED
      BY <1>5, <2>8, <3>2
  <2> QED
    BY <1>2, <1>3, <1>9, <2>7, <2>9, <2>10, <2>11, <2>12, <2>13
<1>10. ~(~logsOwner \/ Len(v) # record.offset[f] \/ Z - U <= 0) =>
        logsOwner /\ Len(v) = record.offset[f] /\ Z - U > 0
  BY <1>5
<1>11. Logs!Room = Z - U
  BY <1>3 DEF Logs!Room
<1>12. IF ~logsOwner \/ Len(v) # record.offset[f] \/ Z - U <= 0
       THEN Reply(f, n) = [file |-> v, ok |-> FALSE]
       ELSE Reply(f, n) = [file |-> v \o Logs!Take(Chunk(f, n), Z - U),
                           ok |-> Len(Chunk(f, n)) <= Z - U]
  BY <1>2, <1>11 DEF Reply, Logs!appendLog
<1>13. CASE ~logsOwner \/ Len(v) # record.offset[f] \/ Z - U <= 0
  <2>1. Reply(f, n) = [file |-> v, ok |-> FALSE]
    BY <1>12, <1>13
  <2>2. Reply(f, n).file = v /\ ~Reply(f, n).ok
    BY <2>1
  <2> QED
    BY <1>8, <1>13, <2>2
<1>14. CASE ~(~logsOwner \/ Len(v) # record.offset[f] \/ Z - U <= 0)
  <2>1. Reply(f, n) = [file |-> v \o Logs!Take(Chunk(f, n), Z - U),
                       ok |-> Len(Chunk(f, n)) <= Z - U]
    BY <1>12, <1>14
  <2>2. Reply(f, n).file = v \o Logs!Take(Chunk(f, n), Z - U)
    BY <2>1
  <2>3. Reply(f, n).ok = (Len(Chunk(f, n)) <= Z - U)
    BY <2>1
  <2> QED
    BY <1>9, <1>10, <1>14, <2>2, <2>3
<1> QED
  BY <1>13, <1>14

-----------------------------------------------------------------------------
(* Logs: where the frames are. *)

LEMMA NoFrames ==
  /\ Logs!ToSet(<<>>) = {}
  /\ \A e : OrderIn(e, <<>>)
  /\ \A e, q : Before(e, <<>>, q) /\ Before(e, q, <<>>)
BY LogsLibrary DEF OrderIn, Before

LEMMA BeforeJoined ==
  ASSUME NEW e, NEW F, NEW a \in Seq(F), NEW b \in Seq(F), NEW c
  PROVE  /\ Before(e, a \o b, c) <=> Before(e, a, c) /\ Before(e, b, c)
         /\ Before(e, c, a \o b) <=> Before(e, c, a) /\ Before(e, c, b)
BY SetOfJoined DEF Before

(* The order depends on the streams of the frames in it alone.             *)
LEMMA OrderStays ==
  ASSUME NEW e, NEW f, NEW q, OrderIn(e, q), \A x \in Logs!ToSet(q) : f[x] = e[x]
  PROVE  OrderIn(f, q)
<1>1. \A i \in DOMAIN q : q[i] \in Logs!ToSet(q)
  BY LogsLibrary
<1> QED
  BY <1>1 DEF OrderIn

LEMMA BeforeStays ==
  ASSUME NEW e, NEW f, NEW a, NEW b, Before(e, a, b),
         \A x \in Logs!ToSet(a) \cup Logs!ToSet(b) : f[x] = e[x]
  PROVE  Before(f, a, b)
BY DEF Before

(* What FramesKeepTheirOrder says, of streams e, a combined log c, local   *)
(* files l, the agent a and what the redactors keep.                       *)
Sent(e, c, a, s) ==
  {x \in Logs!ToSet(c) \cup (IF a.at = "note" THEN Logs!ToSet(a.safe) ELSE {}) : e[x] = s}
Held(a) == UNION {Logs!ToSet(a.held[s]) : s \in Logs!Stream}
StreamOrder(e, c, l, a, k, s) ==
  /\ OrderIn(e, a.held[s]) /\ \A x \in Logs!ToSet(a.held[s]) : e[x] = s
  /\ Before(e, c, a.held[s]) /\ Before(e, a.safe, a.held[s])
  /\ Logs!ToSet(l[s]) = Sent(e, c, a, s) /\ OrderIn(e, l[s])
  /\ k = 0 => a.held[s] = <<>>
FrameOrder(e, c, l, a, k) ==
  /\ Logs!ToSet(c) \cup Logs!ToSet(a.safe) \cup Held(a) = 1 .. a.pos
  /\ OrderIn(e, c) /\ OrderIn(e, a.safe) /\ Before(e, c, a.safe)
  /\ \A x \in Logs!ToSet(a.safe) : e[x] = a.stream
  /\ \A s \in Logs!Stream : StreamOrder(e, c, l, a, k, s)
  /\ k = 0 => c \o a.safe = [i \in 1 .. a.pos |-> i]

LEMMA FramesAre ==
  /\ Logs!FramesKeepTheirOrder <=>
       (Logs!Clean => FrameOrder(emitted, Logs!Combined(local), local, logsAgent, keep))
  /\ Logs!FramesKeepTheirOrder' <=>
       (Logs!Clean' =>
          FrameOrder(emitted', Logs!Combined(local'), local', logsAgent', keep'))
<1>1. Logs!FramesKeepTheirOrder <=>
        (Logs!Clean => FrameOrder(emitted, Logs!Combined(local), local, logsAgent, keep))
  BY DEF Logs!FramesKeepTheirOrder, FrameOrder, StreamOrder, Held, Sent, OrderIn, Before,
         Logs!InOrder, Logs!Precede, Logs!Written
<1>2. Logs!FramesKeepTheirOrder' <=>
        (Logs!Clean' =>
           FrameOrder(emitted', Logs!Combined(local'), local', logsAgent', keep'))
  BY DEF Logs!FramesKeepTheirOrder, FrameOrder, StreamOrder, Held, Sent, OrderIn, Before,
         Logs!InOrder, Logs!Precede, Logs!Written
<1> QED
  BY <1>1, <1>2


(* What holds of the sequences in it.                                      *)
LEMMA FrameTypes ==
  ASSUME NEW a \in AgentRow, NEW l \in LogFiles, NEW e, NEW k,
         NEW c \in Seq(Frames), FrameOrder(e, c, l, a, k)
  PROVE  /\ Logs!ToSet(c) \subseteq 1 .. a.pos /\ Logs!ToSet(a.safe) \subseteq 1 .. a.pos
         /\ \A s \in Logs!Stream : /\ Logs!ToSet(a.held[s]) \subseteq 1 .. a.pos
                                   /\ Logs!ToSet(l[s]) \subseteq 1 .. a.pos
                                   /\ StreamOrder(e, c, l, a, k, s)
BY DEF FrameOrder, StreamOrder, Held, Sent

(* The container writes on. *)
LEMMA FramesOnWrite ==
  ASSUME NEW a \in AgentRow, NEW l \in LogFiles, NEW e, NEW k,
         NEW c \in Seq(Frames), FrameOrder(e, c, l, a, k),
         NEW f, \A x \in 1 .. a.pos : f[x] = e[x]
  PROVE  FrameOrder(f, c, l, a, k)
<1>1. /\ Logs!ToSet(c) \subseteq 1 .. a.pos /\ Logs!ToSet(a.safe) \subseteq 1 .. a.pos
  BY FrameTypes
<1>2. ASSUME NEW s \in Logs!Stream PROVE StreamOrder(f, c, l, a, k, s)
  <2>1. /\ Logs!ToSet(a.held[s]) \subseteq 1 .. a.pos
        /\ Logs!ToSet(l[s]) \subseteq 1 .. a.pos
        /\ StreamOrder(e, c, l, a, k, s)
    BY FrameTypes
  <2>2. OrderIn(f, a.held[s]) /\ OrderIn(f, l[s])
    BY <2>1, OrderStays DEF StreamOrder
  <2>3. Before(f, c, a.held[s]) /\ Before(f, a.safe, a.held[s])
    BY <1>1, <2>1, BeforeStays DEF StreamOrder
  <2>4. Sent(f, c, a, s) = Sent(e, c, a, s)
    BY <1>1 DEF Sent
  <2>5. \A x \in Logs!ToSet(a.held[s]) : f[x] = s
    BY <2>1 DEF StreamOrder
  <2> QED
    BY <2>1, <2>2, <2>3, <2>4, <2>5 DEF StreamOrder
<1>3. OrderIn(f, c) /\ OrderIn(f, a.safe) /\ Before(f, c, a.safe)
  BY <1>1, OrderStays, BeforeStays DEF FrameOrder
<1>4. \A x \in Logs!ToSet(a.safe) : f[x] = a.stream
  BY <1>1 DEF FrameOrder
<1> QED
  BY <1>2, <1>3, <1>4 DEF FrameOrder

(* The agent moves on without them. *)
SameFrames(a, b) ==
  /\ b.pos = a.pos /\ b.stream = a.stream /\ b.safe = a.safe /\ b.held = a.held
  /\ a.at = "note" <=> b.at = "note"
LEMMA FramesStay ==
  ASSUME NEW a, NEW l, NEW e, NEW k, NEW c, FrameOrder(e, c, l, a, k),
         NEW b, SameFrames(a, b)
  PROVE  FrameOrder(e, c, l, b, k)
<1>1. Held(b) = Held(a)
  BY DEF Held, SameFrames
<1>2. ASSUME NEW s \in Logs!Stream PROVE StreamOrder(e, c, l, b, k, s)
  <2>1. Sent(e, c, b, s) = Sent(e, c, a, s)
    BY DEF Sent, SameFrames
  <2> QED
    BY <2>1 DEF StreamOrder, SameFrames, FrameOrder
<1> QED
  BY <1>1, <1>2 DEF FrameOrder, SameFrames


(* A redactor takes up a frame, or none when it is flushed: what it gives  *)
(* and what it holds back are together what it held and the frame.         *)
TakenUp(e, c, a, k, s, v, h, new, b) ==
  /\ a.safe = <<>> /\ a.at # "note" /\ b.at # "note"
  /\ b.stream = s /\ b.safe = v /\ b.held = [a.held EXCEPT ![s] = h]
  /\ OrderIn(e, v \o h) /\ Before(e, c, v \o h)
  /\ \A x \in Logs!ToSet(v \o h) : e[x] = s
  /\ Logs!ToSet(v \o h) = Logs!ToSet(a.held[s]) \cup new
  /\ 1 .. b.pos = (1 .. a.pos) \cup new
  /\ k = 0 => h = <<>> /\ c \o v = [i \in 1 .. b.pos |-> i]

LEMMA FramesTaken ==
  ASSUME NEW a \in AgentRow, NEW l \in LogFiles, NEW e, NEW k,
         NEW c \in Seq(Frames), FrameOrder(e, c, l, a, k),
         NEW s \in Logs!Stream, NEW v \in Seq(Frames), NEW h \in Seq(Frames),
         NEW new, NEW b, TakenUp(e, c, a, k, s, v, h, new, b)
  PROVE  FrameOrder(e, c, l, b, k)
<1> USE DEF TakenUp
<1>1. Logs!ToSet(v \o h) = Logs!ToSet(v) \cup Logs!ToSet(h)
  BY SetOfJoined
<1>2. /\ OrderIn(e, v) /\ OrderIn(e, h) /\ Before(e, v, h)
      /\ Before(e, c, v) /\ Before(e, c, h)
  <2>1. OrderIn(e, v \o h) /\ Before(e, c, v \o h)
    OBVIOUS
  <2>2. OrderIn(e, v) /\ OrderIn(e, h) /\ Before(e, v, h)
    BY ONLY <2>1, OrderOfJoined, v \in Seq(Frames), h \in Seq(Frames)
  <2>3. Before(e, c, v) /\ Before(e, c, h)
    BY ONLY <2>1, BeforeJoined, v \in Seq(Frames), h \in Seq(Frames)
  <2> QED
    BY <2>2, <2>3
<1>3. a.held \in [Logs!Stream -> Seq(Frames)]
  BY AgentParts
<1>4. /\ b.held[s] = h
      /\ \A t \in Logs!Stream : t # s => b.held[t] = a.held[t]
  BY <1>3
<1>5. Logs!ToSet(c) \cup Logs!ToSet(b.safe) \cup Held(b) = 1 .. b.pos
  <2>0. PICK rest : rest = UNION {Logs!ToSet(a.held[t]) : t \in Logs!Stream \ {s}}
    OBVIOUS
  <2>1. Held(a) = Logs!ToSet(a.held[s]) \cup rest
    BY <2>0 DEF Held
  <2>2. Held(b) = Logs!ToSet(h) \cup rest
    BY <1>4, <2>0 DEF Held
  <2>3. Logs!ToSet(c) \cup Held(a) = 1 .. a.pos
    BY NoFrames DEF FrameOrder
  <2> QED
    BY <1>1, <2>1, <2>2, <2>3
<1>6. ASSUME NEW t \in Logs!Stream PROVE StreamOrder(e, c, l, b, k, t)
  <2>1. StreamOrder(e, c, l, a, k, t)
    BY DEF FrameOrder
  <2>2. Sent(e, c, b, t) = Sent(e, c, a, t)
    BY DEF Sent
  <2>3. CASE t = s
    <3>1. \A x \in Logs!ToSet(h) : e[x] = t
      BY <1>1, <2>3
    <3>2. k = 0 => h = <<>>
      OBVIOUS
    <3>3. b.held[t] = h /\ b.safe = v
      BY <1>4, <2>3
    <3> QED
      BY <1>2, <2>1, <2>2, <3>1, <3>2, <3>3 DEF StreamOrder
  <2>4. CASE t # s
    <3>1. b.held[t] = a.held[t]
      BY <1>4, <2>4
    <3>2. Before(e, v, a.held[t])
      <4>1. /\ \A x \in Logs!ToSet(v) : e[x] = s
            /\ \A x \in Logs!ToSet(a.held[t]) : e[x] = t
        BY <1>1, <2>1 DEF StreamOrder
      <4> QED
        BY <2>4, <4>1 DEF Before
    <3> QED
      BY <2>1, <2>2, <3>1, <3>2 DEF StreamOrder
  <2> QED
    BY <2>3, <2>4
<1>7. \A x \in Logs!ToSet(b.safe) : e[x] = b.stream
  BY <1>1
<1>8. OrderIn(e, c)
  BY DEF FrameOrder
<1>9. k = 0 => c \o b.safe = [i \in 1 .. b.pos |-> i]
  OBVIOUS
<1> QED
  BY <1>2, <1>5, <1>6, <1>7, <1>8, <1>9 DEF FrameOrder

(* What is given is written to its stream's file, *)
LEMMA FramesWritten ==
  ASSUME NEW a \in AgentRow, NEW l \in LogFiles, NEW e, NEW k,
         NEW c \in Seq(Frames), FrameOrder(e, c, l, a, k), a.at # "note",
         NEW m, m[a.stream] = l[a.stream] \o a.safe,
         \A s \in Logs!Stream : s # a.stream => m[s] = l[s],
         NEW b, b.at = "note", b.pos = a.pos, b.stream = a.stream, b.safe = a.safe,
         b.held = a.held
  PROVE  FrameOrder(e, c, m, b, k)
<1>1. Held(b) = Held(a)
  BY DEF Held
<1>2. ASSUME NEW s \in Logs!Stream PROVE StreamOrder(e, c, m, b, k, s)
  <2>1. StreamOrder(e, c, l, a, k, s)
    BY DEF FrameOrder
  <2>2. \A x \in Logs!ToSet(a.safe) : e[x] = a.stream
    BY DEF FrameOrder
  <2>3. CASE s = a.stream
    <3>1. Sent(e, c, b, s) = Sent(e, c, a, s) \cup Logs!ToSet(a.safe)
      BY <2>2, <2>3 DEF Sent
    <3>0. PICK x, y : x = l[s] /\ y = a.safe
      OBVIOUS
    <3>2. x \in Seq(Frames) /\ y \in Seq(Frames) /\ m[s] = x \o y
      BY <2>3, <3>0, FileParts, AgentParts
    <3>6. /\ Logs!ToSet(x \o y) = Logs!ToSet(x) \cup Logs!ToSet(y)
          /\ OrderIn(e, x \o y) <=> OrderIn(e, x) /\ OrderIn(e, y) /\ Before(e, x, y)
      BY <3>2, SetOfJoined, OrderOfJoined
    <3>3. Logs!ToSet(m[s]) = Logs!ToSet(l[s]) \cup Logs!ToSet(a.safe)
      BY <3>0, <3>2, <3>6
    <3>4. Before(e, l[s], a.safe)
      <4>1. Logs!ToSet(l[s]) \subseteq Logs!ToSet(c)
        BY <2>1 DEF StreamOrder, Sent
      <4> QED
        BY <4>1 DEF Before, FrameOrder
    <3>5. OrderIn(e, m[s])
      BY <2>1, <3>0, <3>2, <3>4, <3>6 DEF StreamOrder, FrameOrder
    <3> QED
      BY <2>1, <3>1, <3>3, <3>5 DEF StreamOrder
  <2>4. CASE s # a.stream
    <3>1. Sent(e, c, b, s) = Sent(e, c, a, s)
      BY <2>2, <2>4 DEF Sent
    <3> QED
      BY <2>1, <2>4, <3>1 DEF StreamOrder
  <2> QED
    BY <2>3, <2>4
<1> QED
  BY <1>1, <1>2 DEF FrameOrder

(* and shown once the order record is there. *)
LEMMA FramesShown ==
  ASSUME NEW a \in AgentRow, NEW l \in LogFiles, NEW e, NEW k,
         NEW c \in Seq(Frames), FrameOrder(e, c, l, a, k), a.at = "note",
         NEW m, \A s \in Logs!Stream : m[s] = l[s],
         NEW d, d = c \o a.safe,
         NEW b, b.at # "note", b.pos = a.pos, b.stream = a.stream, b.safe = <<>>,
         b.held = a.held
  PROVE  FrameOrder(e, d, m, b, k)
<1>0. a.safe \in Seq(Frames)
  BY AgentParts
<1>1. Held(b) = Held(a)
  BY DEF Held
<1>2. /\ d \in Seq(Frames)
      /\ Logs!ToSet(d) = Logs!ToSet(c) \cup Logs!ToSet(a.safe)
  BY <1>0, SetOfJoined, Concatenated
<1>3. OrderIn(e, d)
  BY <1>0, OrderOfJoined DEF FrameOrder
<1>4. ASSUME NEW s \in Logs!Stream PROVE StreamOrder(e, d, m, b, k, s)
  <2>1. StreamOrder(e, c, l, a, k, s)
    BY DEF FrameOrder
  <2>2. Sent(e, d, b, s) = Sent(e, c, a, s)
    BY <1>2 DEF Sent
  <2>3. Before(e, d, a.held[s])
    BY <1>0, <2>1, BeforeJoined DEF StreamOrder
  <2> QED
    BY <2>1, <2>2, <2>3, NoFrames DEF StreamOrder
<1>5. d \o <<>> = d
  BY <1>2
<1>6. \A x \in Logs!ToSet(b.safe) : e[x] = b.stream
  BY NoFrames
<1>7. Logs!ToSet(d) \cup Logs!ToSet(b.safe) \cup Held(b) = 1 .. b.pos
  BY <1>1, <1>2, NoFrames DEF FrameOrder
<1>8. k = 0 => d \o b.safe = [i \in 1 .. b.pos |-> i]
  BY <1>5 DEF FrameOrder
<1>9. OrderIn(e, b.safe) /\ Before(e, d, b.safe)
  BY NoFrames
<1> QED
  BY <1>3, <1>4, <1>6, <1>7, <1>8, <1>9 DEF FrameOrder


LEMMA OneMore ==
  ASSUME NEW q \in Seq(Frames), NEW x \in Frames
  PROVE  /\ Append(q, x) = q \o <<x>> /\ <<x>> \in Seq(Frames) /\ Append(q, x) \in Seq(Frames)
         /\ Len(Append(q, x)) = Len(q) + 1
         /\ Logs!ToSet(<<x>>) = {x} /\ \A e : OrderIn(e, <<x>>)
<1>1. <<x>> \in Seq(Frames) /\ DOMAIN <<x>> = {1} /\ <<x>>[1] = x
  OBVIOUS
<1>2. Logs!ToSet(<<x>>) = {x}
  BY <1>1, LogsLibrary
<1>3. \A e : OrderIn(e, <<x>>)
  BY <1>1 DEF OrderIn
<1>4. Append(q, x) \in Seq(Frames) /\ q \o <<x>> \in Seq(Frames)
      /\ Len(Append(q, x)) = Len(q) + 1 /\ Len(q \o <<x>>) = Len(q) + 1
  BY <1>1
<1>5. \A i \in 1 .. Len(q) + 1 : Append(q, x)[i] = (q \o <<x>>)[i]
  BY <1>1
<1>6. Append(q, x) = q \o <<x>>
  BY <1>4, <1>5, SameSequence
<1> QED
  BY <1>1, <1>2, <1>3, <1>4, <1>6

(* The redactor gives all but what it keeps.                               *)
Pushes(a, k, s, v, h) ==
  LET all == Append(a.held[s], a.pos + 1)
      cut == IF Len(all) > k THEN Len(all) - k ELSE 0
  IN v = SubSeq(all, 1, cut) /\ h = SubSeq(all, cut + 1, Len(all))
LEMMA PushTakes ==
  ASSUME NEW a \in AgentRow, NEW l \in LogFiles, NEW e, NEW k \in 0 .. 1,
         NEW c \in Seq(Frames), FrameOrder(e, c, l, a, k),
         a.safe = <<>>, a.at # "note", a.pos + 1 \in Frames,
         NEW s \in Logs!Stream, e[a.pos + 1] = s,
         NEW v, NEW h, Pushes(a, k, s, v, h),
         NEW b, b.at # "note", b.pos = a.pos + 1, b.stream = s, b.safe = v,
         b.held = [a.held EXCEPT ![s] = h]
  PROVE  /\ v \in Seq(Frames) /\ h \in Seq(Frames)
         /\ TakenUp(e, c, a, k, s, v, h, {a.pos + 1}, b)
<1>1. PICK p, q : p = a.pos + 1 /\ q = a.held[s]
  OBVIOUS
<1>2. p \in Frames /\ a.pos \in Nat /\ q \in Seq(Frames)
  BY <1>1, AgentParts
<1>3. PICK all, r : all = Append(q, p) /\ r = <<p>>
  OBVIOUS
<1>4. /\ all = q \o r /\ r \in Seq(Frames) /\ all \in Seq(Frames)
      /\ Len(all) = Len(q) + 1 /\ Logs!ToSet(r) = {p} /\ OrderIn(e, r)
      /\ Len(q) \in Nat
  BY <1>2, <1>3, OneMore
<1>5. PICK cut : cut = IF Len(all) > k THEN Len(all) - k ELSE 0
  OBVIOUS
<1>6. cut \in Nat /\ cut <= Len(all) /\ Len(all) \in Nat /\ cut + 1 \in Nat /\ cut + 1 >= 1
      /\ k \in Nat
  BY <1>4, <1>5
<1>7. v = SubSeq(all, 1, cut) /\ h = SubSeq(all, cut + 1, Len(all))
  BY <1>1, <1>3, <1>5 DEF Pushes
<1>8. v \in Seq(Frames) /\ h \in Seq(Frames) /\ v \o h = all
  <2>1. v \in Seq(Frames)
    BY <1>4, <1>6, <1>7, Pieces
  <2>2. h \in Seq(Frames)
    BY <1>4, <1>6, <1>7, Pieces
  <2>3. v \o h = all
    BY <1>4, <1>6, <1>7, CutAndJoined
  <2> QED
    BY <2>1, <2>2, <2>3
<1>9. /\ StreamOrder(e, c, l, a, k, s) /\ Logs!ToSet(q) \subseteq 1 .. a.pos
      /\ Logs!ToSet(c) \subseteq 1 .. a.pos
  BY <1>1, FrameTypes
<1>10. Logs!ToSet(all) = Logs!ToSet(q) \cup {p}
  BY <1>2, <1>4, SetOfJoined
<1>11. \A x \in 1 .. a.pos : x < p
  BY <1>1, <1>2
<1>12. Before(e, q, r) /\ Before(e, c, r)
  BY <1>4, <1>9, <1>11 DEF Before
<1>13. OrderIn(e, all)
  BY <1>1, <1>2, <1>4, <1>9, <1>12, OrderOfJoined DEF StreamOrder
<1>14. Before(e, c, all)
  <2>1. Before(e, c, q)
    BY <1>1, <1>9 DEF StreamOrder
  <2>2. Before(e, c, q \o r) <=> Before(e, c, q) /\ Before(e, c, r)
    BY <1>2, <1>4, BeforeJoined
  <2> QED
    BY <1>4, <1>12, <2>1, <2>2
<1>15. \A x \in Logs!ToSet(all) : e[x] = s
  BY <1>1, <1>9, <1>10 DEF StreamOrder
<1>16. 1 .. b.pos = (1 .. a.pos) \cup {p}
  BY <1>1, <1>2
<1>17. ASSUME k = 0 PROVE h = <<>> /\ c \o v = [i \in 1 .. b.pos |-> i]
  <2>1. q = <<>>
    BY <1>1, <1>9, <1>17 DEF StreamOrder
  <2>2. Len(all) = 1 /\ cut = 1
    BY <1>4, <1>5, <1>17, <2>1
  <2>3. Len(h) = 0 /\ h = <<>>
    <3>1. Len(SubSeq(all, 2, 1)) = 0
      BY <1>4, <2>2, Pieces
    <3>2. Len(h) = 0
      BY <1>7, <2>2, <3>1
    <3> QED
      BY <1>8, <3>2
  <2>4. v = r
    <3>1. Len(r) = 1 /\ r[1] = p
      BY <1>3
    <3>2. Len(SubSeq(all, 1, 1)) = 1 /\ \A i \in 1 .. 1 : SubSeq(all, 1, 1)[i] = all[i]
      BY <1>4, <2>2, Pieces
    <3>3. all[1] = p
      BY <1>2, <1>3, <2>1
    <3>4. Len(v) = 1 /\ v[1] = p
      BY <1>7, <2>2, <3>2, <3>3
    <3> QED
      BY <1>4, <1>8, <3>1, <3>4, SameSequence
  <2>5. c = [i \in 1 .. a.pos |-> i]
    <3>1. c \o <<>> = c
      OBVIOUS
    <3> QED
      BY <1>17, <3>1 DEF FrameOrder
  <2>6. Len(c) = a.pos
    BY <1>2, <2>5
  <2>7. PICK w : w = c \o r
    OBVIOUS
  <2>8. /\ w \in Seq(Frames) /\ Len(w) = Len(c) + Len(r)
        /\ \A i \in 1 .. Len(c) : w[i] = c[i]
        /\ \A i \in 1 .. Len(r) : w[Len(c) + i] = r[i]
    BY <1>4, <2>7, Concatenated
  <2>10. Len(r) = 1 /\ r[1] = p
    BY <1>3
  <2>11. \A i \in 1 .. a.pos : w[i] = i
    BY <2>5, <2>6, <2>8
  <2>12. w[p] = p
    BY <1>1, <2>6, <2>8, <2>10
  <2>13. Len(w) = p
    BY <1>1, <2>6, <2>8, <2>10
  <2>14. \A i \in 1 .. p : i \in 1 .. a.pos \/ i = p
    BY <1>1, <1>2
  <2>15. w = [i \in 1 .. p |-> w[i]]
    BY <2>8, <2>13
  <2>9. c \o v = [i \in 1 .. p |-> i]
    BY <2>4, <2>7, <2>11, <2>12, <2>14, <2>15
  <2> QED
    BY <1>1, <2>3, <2>9
<1>18. TakenUp(e, c, a, k, s, v, h, {p}, b)
  BY <1>1, <1>8, <1>10, <1>13, <1>14, <1>15, <1>16, <1>17 DEF TakenUp
<1> QED
  BY <1>1, <1>8, <1>18

(* The flush gives all.                                                    *)
LEMMA FlushTakes ==
  ASSUME NEW a \in AgentRow, NEW l \in LogFiles, NEW e, NEW k,
         NEW c \in Seq(Frames), FrameOrder(e, c, l, a, k),
         a.safe = <<>>, a.at # "note", NEW s \in Logs!Stream,
         NEW b, b.at # "note", b.pos = a.pos, b.stream = s, b.safe = a.held[s],
         b.held = [a.held EXCEPT ![s] = <<>>]
  PROVE  TakenUp(e, c, a, k, s, a.held[s], <<>>, {}, b)
<1>1. PICK q : q = a.held[s]
  OBVIOUS
<1>2. q \in Seq(Frames)
  BY <1>1, AgentParts
<1>3. q \o <<>> = q
  BY <1>2
<1>4. StreamOrder(e, c, l, a, k, s)
  BY FrameTypes
<1>5. k = 0 => c \o q = [i \in 1 .. b.pos |-> i]
  BY <1>1, <1>4 DEF StreamOrder, FrameOrder
<1>6. TakenUp(e, c, a, k, s, q, <<>>, {}, b)
  BY <1>1, <1>3, <1>4, <1>5 DEF TakenUp, StreamOrder
<1> QED
  BY <1>1, <1>6


-----------------------------------------------------------------------------
(* Logs: the steps. *)

RangesInFiles(l) ==
  \A i \in DOMAIN l["order"] : l["order"][i].next <= Len(l[l["order"][i].stream])

LEMMA RangesAre ==
  /\ Logs!RangesAreWritten <=>
       RangesInFiles(local) /\ (logsAgent.at = "note" =>
          Logs!Order.start >= 0 /\ Logs!Shown(local, Logs!Order) = logsAgent.safe)
  /\ Logs!RangesAreWritten' <=>
       RangesInFiles(local') /\ (logsAgent'.at = "note" =>
          Logs!Order'.start >= 0 /\ Logs!Shown(local', Logs!Order') = logsAgent'.safe)
BY DEF Logs!RangesAreWritten, RangesInFiles

LEMMA CombinedFrames ==
  ASSUME NEW l \in LogFiles, RangesInFiles(l)
  PROVE  /\ Logs!Combined(l) \in Seq(Frames)
         /\ Len(l["order"]) \in Nat /\ DOMAIN l["order"] = 1 .. Len(l["order"])
         /\ \A k \in 1 .. Len(l["order"]) :
              /\ l["order"][k] \in Logs!OrderRecord /\ l["order"][k].stream \in Logs!Stream
              /\ l["order"][k].start \in Nat /\ l["order"][k].next \in Nat
              /\ l["order"][k].next <= Len(l[l["order"][k].stream])
<1>1. l["order"] \in Seq(Logs!OrderRecord)
  BY FileParts
<1>2. Len(l["order"]) \in Nat /\ DOMAIN l["order"] = 1 .. Len(l["order"])
  BY <1>1
<1>3. ASSUME NEW k \in 1 .. Len(l["order"])
      PROVE  /\ l["order"][k] \in Logs!OrderRecord /\ l["order"][k].stream \in Logs!Stream
             /\ l["order"][k].start \in Nat /\ l["order"][k].next \in Nat
             /\ l["order"][k].next <= Len(l[l["order"][k].stream])
             /\ Logs!Shown(l, l["order"][k]) \in Seq(Frames)
  <2>1. PICK r : r = l["order"][k]
    OBVIOUS
  <2>2. r \in Logs!OrderRecord
    BY <1>1, <2>1
  <2>3. r.stream \in Logs!Stream /\ r.start \in Nat /\ r.next \in Nat
    BY <2>2 DEF Logs!OrderRecord
  <2>4. r.next <= Len(l[r.stream])
    BY <1>2, <2>1 DEF RangesInFiles
  <2>5. l[r.stream] \in Seq(Frames) /\ r.start + 1 \in Nat /\ r.start + 1 >= 1
    BY <2>3, FileParts
  <2>6. Logs!Shown(l, r) \in Seq(Frames)
    BY <2>3, <2>4, <2>5, Pieces DEF Logs!Shown
  <2> QED
    BY <2>1, <2>2, <2>3, <2>4, <2>6
<1>4. Logs!Combined(l) \in Seq(Frames)
  BY <1>2, <1>3, CombinedType
<1> QED
  BY <1>2, <1>3, <1>4

LEMMA InvariantParts ==
  ASSUME Logs!IInv
  PROVE  /\ LogTypes /\ Logs!ServerHasPrefix /\ Logs!LogLimitKept /\ Logs!AnnouncedIsReadable
         /\ Logs!RedactorsAreFlushed /\ Logs!RangesAreWritten /\ Logs!SyncedInTurn
         /\ RangesInFiles(local) /\ Logs!Combined(local) \in Seq(Frames)
         /\ logsAgent \in AgentRow /\ record \in RecordRow /\ logsJournal \in RecordRow
         /\ local \in LogFiles /\ server \in LogFiles
         /\ Logs!Clean => FrameOrder(emitted, Logs!Combined(local), local, logsAgent, keep)
<1>1. /\ LogTypes /\ Logs!ServerHasPrefix /\ Logs!LogLimitKept /\ Logs!AnnouncedIsReadable
      /\ Logs!RedactorsAreFlushed /\ Logs!RangesAreWritten /\ Logs!SyncedInTurn
      /\ Logs!FramesKeepTheirOrder
  BY LogTypesAre DEF Logs!IInv
<1>2. /\ logsAgent \in AgentRow /\ record \in RecordRow /\ logsJournal \in RecordRow
      /\ local \in LogFiles /\ server \in LogFiles
  BY <1>1 DEF LogTypes
<1>3. RangesInFiles(local)
  BY <1>1, RangesAre
<1>4. Logs!Combined(local) \in Seq(Frames)
  BY <1>2, <1>3, CombinedFrames
<1> QED
  BY <1>1, <1>2, <1>3, <1>4, FramesAre

(* It gets no cleaner. *)
LEMMA CleanBefore ==
  ASSUME LogTypes, LogTypes', logsFaults' >= logsFaults, logsCrashes' >= logsCrashes,
         Logs!Used' >= Logs!Used, Logs!Clean'
  PROVE  Logs!Clean
<1>1. PICK before, after : before = Logs!Used /\ after = Logs!Used'
  OBVIOUS
<1>2. before \in Nat
  BY <1>1, UsedIs, TotalOf DEF LogTypes
<1>3. after \in Nat
  <2>1. server' \in LogFiles
    BY DEF LogTypes
  <2> QED
    BY <1>1, <2>1, UsedIs, TotalOf
<1>4. /\ logsFaults \in Nat /\ logsCrashes \in Nat /\ logsFaults' \in Nat
      /\ logsCrashes' \in Nat /\ Limit["logs"] \in Nat
  BY LogsAssumption DEF LogTypes
<1>5. logsFaults' = 0 /\ logsCrashes' = 0 /\ after < Limit["logs"]
  BY <1>1 DEF Logs!Clean
<1>6. logsFaults = 0 /\ logsCrashes = 0 /\ before < Limit["logs"]
  BY <1>1, <1>2, <1>3, <1>4, <1>5
<1> QED
  BY <1>1, <1>6 DEF Logs!Clean

(* While the files stay, so does what is said of them. *)
LEMMA FilesStay ==
  ASSUME Logs!IInv, LogTypes', local' = local, server' = server,
         logsFaults' >= logsFaults, logsCrashes' >= logsCrashes
  PROVE  /\ Logs!ServerHasPrefix' /\ Logs!LogLimitKept' /\ Logs!AnnouncedIsReadable'
         /\ RangesInFiles(local') /\ Logs!Combined(local') = Logs!Combined(local)
         /\ Logs!Clean' => Logs!Clean
<1>1. /\ LogTypes /\ Logs!ServerHasPrefix /\ Logs!LogLimitKept /\ Logs!AnnouncedIsReadable
      /\ RangesInFiles(local)
  BY InvariantParts
<1>2. Logs!Used' = Logs!Used /\ Logs!Used \in Nat
  BY <1>1, UsedIs, TotalOf DEF LogTypes
<1>3. Logs!Clean' => Logs!Clean
  BY <1>1, <1>2, CleanBefore
<1>4. Logs!ServerHasPrefix'
  BY <1>1 DEF Logs!ServerHasPrefix
<1>5. Logs!LogLimitKept'
  BY <1>1, <1>2 DEF Logs!LogLimitKept
<1>6. Logs!AnnouncedIsReadable'
  BY <1>1, <1>3 DEF Logs!AnnouncedIsReadable, Logs!Readable
<1> QED
  BY <1>1, <1>3, <1>4, <1>5, <1>6

(* The parts of the invariant together. *)
LEMMA InvariantAgain ==
  ASSUME LogTypes', Logs!ServerHasPrefix', Logs!LogLimitKept', Logs!AnnouncedIsReadable',
         Logs!RedactorsAreFlushed', RangesInFiles(local'), Logs!SyncedInTurn',
         logsAgent'.at = "note" =>
           Logs!Order'.start >= 0 /\ Logs!Shown(local', Logs!Order') = logsAgent'.safe,
         Logs!Clean' =>
           FrameOrder(emitted', Logs!Combined(local'), local', logsAgent', keep')
  PROVE  Logs!IInv'
<1>1. Logs!TypeOK'
  BY LogTypesAre
<1>2. Logs!RangesAreWritten'
  BY RangesAre
<1>3. Logs!FramesKeepTheirOrder'
  BY FramesAre
<1> QED
  BY <1>1, <1>2, <1>3 DEF Logs!IInv


(* What SyncedInTurn says, of the agent a, local files l and the server's. *)
InTurn(a, l, v) ==
  \A f \in Logs!File : CASE a.at = "note" -> f # a.stream => v[f] = l[f]
                         [] a.at = "stream" -> f \notin {a.stream, "order"} => v[f] = l[f]
                         [] a.at = "order" -> f # "order" => v[f] = l[f]
                         [] OTHER -> v[f] = l[f]
Turns(e, n, o, r, a, l, v) ==
  /\ o /\ a.at # "off" /\ \A f \in Logs!File : Len(v[f]) = r.offset[f]
  /\ InTurn(a, l, v)
  /\ a.round # 0 => a.pos = Len(e) /\ ~n

LEMMA TurnsAre ==
  /\ Logs!SyncedInTurn <=>
       (Logs!Clean => Turns(emitted, running, logsOwner, record, logsAgent, local, server))
  /\ Logs!SyncedInTurn' <=>
       (Logs!Clean' =>
          Turns(emitted', running', logsOwner', record', logsAgent', local', server'))
<1>1. Logs!SyncedInTurn <=>
        (Logs!Clean => Turns(emitted, running, logsOwner, record, logsAgent, local, server))
  BY DEF Logs!SyncedInTurn, Turns, InTurn, Logs!InSync
<1>2. Logs!SyncedInTurn' <=>
       (Logs!Clean' =>
          Turns(emitted', running', logsOwner', record', logsAgent', local', server'))
  BY DEF Logs!SyncedInTurn, Turns, InTurn, Logs!InSync
<1> QED
  BY <1>1, <1>2

LEMMA WriteKeeps ==
  ASSUME Logs!IInv, NEW s \in Logs!Stream, Logs!Write(s)
  PROVE  Logs!IInv'
<1>1. /\ emitted' = Append(emitted, s) /\ Len(emitted) < MaxFrames /\ running
      /\ UNCHANGED <<running, keep, logsAgent, record, logsJournal, local, server,
                     logsOwner, logsFaults, logsCrashes>>
  BY DEF Logs!Write
<1>2. LogTypes /\ emitted \in Seq(Logs!Stream)
  BY InvariantParts DEF LogTypes
<1>3. /\ emitted' \in Seq(Logs!Stream) /\ Len(emitted') = Len(emitted) + 1
      /\ Len(emitted) \in Nat
      /\ \A x \in 1 .. Len(emitted) : emitted'[x] = emitted[x]
  BY <1>1, <1>2
<1>4. LogTypes'
  <2>1. Len(emitted') <= MaxFrames
    BY <1>1, <1>3, LogsAssumption
  <2> QED
    BY <1>1, <1>2, <1>3, <2>1 DEF LogTypes
<1>5. logsAgent \in AgentRow /\ logsAgent.pos \in Nat /\ logsAgent.pos <= Len(emitted)
      /\ Logs!RedactorsAreFlushed /\ Logs!RangesAreWritten
  BY InvariantParts, AgentParts DEF Logs!RedactorsAreFlushed
<1>6. /\ Logs!ServerHasPrefix' /\ Logs!LogLimitKept' /\ Logs!AnnouncedIsReadable'
      /\ RangesInFiles(local') /\ Logs!Combined(local') = Logs!Combined(local)
      /\ Logs!Clean' => Logs!Clean
  BY <1>1, <1>2, <1>4, FilesStay DEF LogTypes
<1>7. Logs!RedactorsAreFlushed'
  <2>1. logsAgent.pos <= Len(emitted')
    BY <1>3, <1>5
  <2> QED
    BY <1>1, <1>5, <2>1 DEF Logs!RedactorsAreFlushed
<1>8. Logs!SyncedInTurn'
  <2> SUFFICES ASSUME Logs!Clean'
               PROVE  Turns(emitted', running', logsOwner', record', logsAgent', local', server')
    BY TurnsAre
  <2>1. Turns(emitted, running, logsOwner, record, logsAgent, local, server)
    BY <1>6, InvariantParts, TurnsAre
  <2> QED
    BY <1>1, <2>1 DEF Turns
<1>9. ASSUME logsAgent'.at = "note"
      PROVE  Logs!Order'.start >= 0 /\ Logs!Shown(local', Logs!Order') = logsAgent'.safe
  BY <1>1, <1>5, <1>9, RangesAre DEF Logs!Order
<1>10. ASSUME Logs!Clean'
       PROVE  FrameOrder(emitted', Logs!Combined(local'), local', logsAgent', keep')
  <2>1. \A x \in 1 .. logsAgent.pos : emitted'[x] = emitted[x]
    BY <1>3, <1>5
  <2>2. FrameOrder(emitted, Logs!Combined(local), local, logsAgent, keep)
    BY <1>6, <1>10, InvariantParts
  <2>3. Logs!Combined(local) \in Seq(Frames) /\ logsAgent \in AgentRow /\ local \in LogFiles
    BY InvariantParts
  <2>4. FrameOrder(emitted', Logs!Combined(local), local, logsAgent, keep)
    BY <2>1, <2>2, <2>3, FramesOnWrite
  <2> QED
    BY <1>1, <1>6, <2>4
<1> QED
  BY <1>4, <1>6, <1>7, <1>8, <1>9, <1>10, InvariantAgain

LEMMA ExitKeeps ==
  ASSUME Logs!IInv, Logs!Exit
  PROVE  Logs!IInv'
<1>1. /\ running' = FALSE
      /\ UNCHANGED <<emitted, keep, logsAgent, record, logsJournal, local, server,
                     logsOwner, logsFaults, logsCrashes>>
  BY DEF Logs!Exit
<1>2. LogTypes
  BY InvariantParts
<1>3. LogTypes'
  BY <1>1, <1>2 DEF LogTypes
<1>4. logsAgent \in AgentRow /\ Logs!RedactorsAreFlushed /\ Logs!RangesAreWritten
  BY InvariantParts
<1>5. /\ Logs!ServerHasPrefix' /\ Logs!LogLimitKept' /\ Logs!AnnouncedIsReadable'
      /\ RangesInFiles(local') /\ Logs!Combined(local') = Logs!Combined(local)
      /\ Logs!Clean' => Logs!Clean
  BY <1>1, <1>2, <1>3, FilesStay DEF LogTypes
<1>6. Logs!RedactorsAreFlushed'
  BY <1>1, <1>4 DEF Logs!RedactorsAreFlushed
<1>7. Logs!SyncedInTurn'
  <2> SUFFICES ASSUME Logs!Clean'
               PROVE  Turns(emitted', running', logsOwner', record', logsAgent', local', server')
    BY TurnsAre
  <2>1. Turns(emitted, running, logsOwner, record, logsAgent, local, server)
    BY <1>5, InvariantParts, TurnsAre
  <2> QED
    BY <1>1, <2>1 DEF Turns
<1>8. ASSUME logsAgent'.at = "note"
      PROVE  Logs!Order'.start >= 0 /\ Logs!Shown(local', Logs!Order') = logsAgent'.safe
  BY <1>1, <1>4, <1>8, RangesAre DEF Logs!Order
<1>9. Logs!Clean' =>
        FrameOrder(emitted', Logs!Combined(local'), local', logsAgent', keep')
  BY <1>1, <1>5, InvariantParts
<1> QED
  BY <1>3, <1>5, <1>6, <1>7, <1>8, <1>9, InvariantAgain


LEMMA FaultsCount ==
  ASSUME LogTypes, \/ logsFaults' = logsFaults + 1 \/ logsCrashes' = logsCrashes + 1
  PROVE  ~Logs!Clean'
<1>1. logsFaults \in Nat /\ logsCrashes \in Nat
  BY LogsAssumption DEF LogTypes
<1>2. logsFaults + 1 # 0 /\ logsCrashes + 1 # 0
  BY <1>1
<1> QED
  BY <1>2 DEF Logs!Clean

(* Once something has failed, little is promised. *)
LEMMA UncleanAgain ==
  ASSUME LogTypes', Logs!ServerHasPrefix', Logs!LogLimitKept',
         Logs!RedactorsAreFlushed', RangesInFiles(local'), ~Logs!Clean',
         logsAgent'.at = "note" =>
           Logs!Order'.start >= 0 /\ Logs!Shown(local', Logs!Order') = logsAgent'.safe
  PROVE  Logs!IInv'
<1>1. Logs!AnnouncedIsReadable'
  BY DEF Logs!AnnouncedIsReadable
<1>2. Logs!SyncedInTurn'
  BY TurnsAre
<1> QED
  BY <1>1, <1>2, InvariantAgain

LEMMA SupersededKeeps ==
  ASSUME Logs!IInv, Logs!Superseded
  PROVE  Logs!IInv'
<1>1. /\ logsOwner' = FALSE /\ logsFaults < Faults["logs"] /\ logsFaults' = logsFaults + 1
      /\ UNCHANGED <<emitted, running, keep, logsAgent, record, logsJournal, local, server,
                     logsCrashes>>
  BY DEF Logs!Superseded
<1>2. LogTypes /\ logsFaults \in Nat /\ logsCrashes \in Nat
  BY InvariantParts, LogsAssumption DEF LogTypes
<1>3. logsFaults' \in 0 .. Faults["logs"] /\ logsFaults' >= logsFaults
      /\ logsCrashes' >= logsCrashes
  BY <1>1, <1>2, LogsAssumption
<1>4. LogTypes'
  BY <1>1, <1>2, <1>3 DEF LogTypes
<1>5. /\ Logs!ServerHasPrefix' /\ Logs!LogLimitKept' /\ RangesInFiles(local')
  BY <1>1, <1>3, <1>4, FilesStay
<1>6. Logs!RedactorsAreFlushed'
  BY <1>1, InvariantParts DEF Logs!RedactorsAreFlushed
<1>7. ASSUME logsAgent'.at = "note"
      PROVE  Logs!Order'.start >= 0 /\ Logs!Shown(local', Logs!Order') = logsAgent'.safe
  BY <1>1, <1>7, InvariantParts, RangesAre DEF Logs!Order
<1>8. ~Logs!Clean'
  BY <1>1, <1>2, FaultsCount
<1> QED
  BY <1>4, <1>5, <1>6, <1>7, <1>8, UncleanAgain

LEMMA CrashKeeps ==
  ASSUME Logs!IInv, Logs!Crash
  PROVE  Logs!IInv'
<1>1. /\ logsAgent' = Logs!Off /\ record' = logsJournal
      /\ logsCrashes < Crashes["logs"] /\ logsCrashes' = logsCrashes + 1
      /\ UNCHANGED <<emitted, running, keep, logsJournal, local, server, logsOwner,
                     logsFaults>>
  BY DEF Logs!Crash
<1>2. LogTypes /\ logsFaults \in Nat /\ logsCrashes \in Nat
  BY InvariantParts, LogsAssumption DEF LogTypes
<1>3. logsCrashes' \in 0 .. Crashes["logs"] /\ logsFaults' >= logsFaults
      /\ logsCrashes' >= logsCrashes
  BY <1>1, <1>2, LogsAssumption
<1>4. \A f \in Logs!File : logsJournal.offset[f] <= Len(server[f])
  <2> SUFFICES ASSUME NEW f \in Logs!File PROVE logsJournal.offset[f] <= Len(server[f])
    OBVIOUS
  <2>1. PICK i, j, n : /\ i = logsJournal.offset[f] /\ j = record.offset[f]
                       /\ n = Len(server[f])
    OBVIOUS
  <2>2. i \in Nat /\ j \in Nat
    BY <1>2, <2>1 DEF LogTypes, RecordRow
  <2>3. n \in Nat
    BY <1>2, <2>1, FileParts DEF LogTypes
  <2>4. i <= j /\ j <= n
    BY <1>2, <2>1 DEF LogTypes
  <2> QED
    BY <2>1, <2>2, <2>3, <2>4
<1>5. \A f \in Logs!File : logsJournal.offset[f] <= logsJournal.offset[f]
  BY <1>2 DEF LogTypes, RecordRow
<1>6. LogTypes'
  BY <1>1, <1>2, <1>3, <1>4, <1>5, AgentOff DEF LogTypes
<1>7. /\ Logs!ServerHasPrefix' /\ Logs!LogLimitKept' /\ RangesInFiles(local')
  BY <1>1, <1>3, <1>6, FilesStay
<1>8. Logs!RedactorsAreFlushed'
  <2>1. Len(emitted) \in Nat /\ 0 <= Len(emitted)
    BY <1>2 DEF LogTypes
  <2> QED
    BY <1>1, <2>1, AgentOff DEF Logs!RedactorsAreFlushed
<1>9. logsAgent'.at # "note"
  BY <1>1, AgentOff
<1>10. ~Logs!Clean'
  BY <1>1, <1>2, FaultsCount
<1> QED
  BY <1>6, <1>7, <1>8, <1>9, <1>10, UncleanAgain

LEMMA RestartKeeps ==
  ASSUME Logs!IInv, Logs!Restart
  PROVE  Logs!IInv'
<1>1. /\ logsAgent.at = "off" /\ logsAgent' = Goes(Logs!Off, "follow")
      /\ UNCHANGED <<emitted, running, keep, record, logsJournal, local, server, logsOwner,
                     logsFaults, logsCrashes>>
  BY DEF Logs!Restart, Goes
<1>2. LogTypes /\ logsFaults \in Nat /\ logsCrashes \in Nat
  BY InvariantParts, LogsAssumption DEF LogTypes
<1>3. /\ logsAgent' \in AgentRow /\ logsAgent'.at = "follow" /\ logsAgent'.round = 0
      /\ logsAgent'.pos = 0 /\ logsAgent'.safe = <<>>
  BY <1>1, AgentOff, AgentGoes DEF AgentPoints
<1>4. logsFaults' >= logsFaults /\ logsCrashes' >= logsCrashes
  BY <1>1, <1>2
<1>5. LogTypes'
  BY <1>1, <1>2, <1>3 DEF LogTypes
<1>6. /\ Logs!ServerHasPrefix' /\ Logs!LogLimitKept' /\ RangesInFiles(local')
      /\ Logs!Clean' => Logs!Clean
  BY <1>1, <1>4, <1>5, FilesStay
<1>7. Logs!RedactorsAreFlushed'
  <2>1. Len(emitted) \in Nat /\ 0 <= Len(emitted)
    BY <1>2 DEF LogTypes
  <2> QED
    BY <1>1, <1>3, <2>1 DEF Logs!RedactorsAreFlushed
<1>8. ~Logs!Clean'
  <2>1. Logs!Clean => logsAgent.at # "off"
    BY InvariantParts, TurnsAre DEF Turns
  <2> QED
    BY <1>1, <1>6, <2>1
<1> QED
  BY <1>3, <1>5, <1>6, <1>7, <1>8, UncleanAgain

LEMMA FollowEndsKeeps ==
  ASSUME Logs!IInv, Logs!FollowEnds
  PROVE  Logs!IInv'
<1>1. /\ logsAgent.at = "follow" /\ logsAgent' = GoesIn(logsAgent, "tail", 1)
      /\ UNCHANGED <<emitted, running, keep, record, logsJournal, local, server, logsOwner,
                     logsCrashes>>
  BY DEF Logs!FollowEnds, GoesIn
<1>2. \/ logsAgent.pos = Len(emitted) /\ ~running /\ logsFaults' = logsFaults
      \/ logsFaults < Faults["logs"] /\ logsFaults' = logsFaults + 1
  BY DEF Logs!FollowEnds
<1>3. LogTypes /\ logsFaults \in Nat /\ logsCrashes \in Nat /\ logsAgent \in AgentRow
  BY InvariantParts, LogsAssumption DEF LogTypes
<1>4. logsFaults' \in 0 .. Faults["logs"] /\ logsFaults' >= logsFaults
      /\ logsCrashes' >= logsCrashes
  BY <1>1, <1>2, <1>3, LogsAssumption DEF LogTypes
<1>5. /\ logsAgent' \in AgentRow /\ logsAgent'.at = "tail" /\ logsAgent'.round = 1
      /\ logsAgent'.pos = logsAgent.pos /\ logsAgent'.safe = logsAgent.safe
      /\ logsAgent'.stream = logsAgent.stream /\ logsAgent'.held = logsAgent.held
  BY <1>1, <1>3, AgentGoesIn DEF AgentPoints
<1>6. LogTypes'
  BY <1>1, <1>3, <1>4, <1>5 DEF LogTypes
<1>7. /\ Logs!ServerHasPrefix' /\ Logs!LogLimitKept' /\ Logs!AnnouncedIsReadable'
      /\ RangesInFiles(local') /\ Logs!Combined(local') = Logs!Combined(local)
      /\ Logs!Clean' => Logs!Clean
  BY <1>1, <1>4, <1>6, FilesStay
<1>8. Logs!RedactorsAreFlushed'
  BY <1>1, <1>5, InvariantParts DEF Logs!RedactorsAreFlushed
<1>9. Logs!SyncedInTurn'
  <2> SUFFICES ASSUME Logs!Clean'
               PROVE  Turns(emitted', running', logsOwner', record', logsAgent', local', server')
    BY TurnsAre
  <2>1. Turns(emitted, running, logsOwner, record, logsAgent, local, server)
    BY <1>7, InvariantParts, TurnsAre
  <2>2. logsAgent.pos = Len(emitted) /\ ~running
    BY <1>2, <1>3, FaultsCount
  <2>3. InTurn(logsAgent', local, server)
    BY <1>1, <1>5, <2>1 DEF Turns, InTurn
  <2> QED
    BY <1>1, <1>5, <2>1, <2>2, <2>3 DEF Turns
<1>10. ASSUME Logs!Clean'
       PROVE  FrameOrder(emitted', Logs!Combined(local'), local', logsAgent', keep')
  <2>1. FrameOrder(emitted, Logs!Combined(local), local, logsAgent, keep)
    BY <1>7, <1>10, InvariantParts
  <2>2. SameFrames(logsAgent, logsAgent')
    BY <1>1, <1>5 DEF SameFrames
  <2>3. FrameOrder(emitted, Logs!Combined(local), local, logsAgent', keep)
    BY <2>1, <2>2, FramesStay
  <2> QED
    BY <1>1, <1>7, <2>3
<1> QED
  BY <1>5, <1>6, <1>7, <1>8, <1>9, <1>10, InvariantAgain


CutUp(q, p, k, all, cut, v, h) ==
  /\ all = Append(q, p)
  /\ cut = IF Len(all) > k THEN Len(all) - k ELSE 0
  /\ v = SubSeq(all, 1, cut) /\ h = SubSeq(all, cut + 1, Len(all))
LEMMA PushTypes ==
  ASSUME NEW q \in Seq(Frames), NEW p \in Frames, NEW k \in 0 .. 1,
         NEW all, NEW cut, NEW v, NEW h, CutUp(q, p, k, all, cut, v, h)
  PROVE  v \in Seq(Frames) /\ h \in Seq(Frames) /\ (v = <<>> <=> cut = 0)
<1> USE DEF CutUp
<1>1. all \in Seq(Frames) /\ Len(all) \in Nat /\ Len(all) = Len(q) + 1
  BY OneMore
<1>2. cut \in Nat /\ cut <= Len(all) /\ cut + 1 \in Nat /\ cut + 1 >= 1
  BY <1>1
<1>3. v \in Seq(Frames) /\ Len(v) = IF cut < 1 THEN 0 ELSE (cut - 1) + 1
  BY <1>1, <1>2, Pieces
<1>4. h \in Seq(Frames)
  BY <1>1, <1>2, Pieces
<1> QED
  BY <1>2, <1>3, <1>4

LEMMA PushKeeps ==
  ASSUME Logs!IInv, Logs!Push
  PROVE  Logs!IInv'
<1>1. /\ logsAgent.at = "follow" /\ logsAgent.pos < Len(emitted)
      /\ UNCHANGED <<emitted, running, keep, record, logsJournal, local, server, logsOwner,
                     logsFaults, logsCrashes>>
  BY DEF Logs!Push
<1>2. PICK s, p : s = emitted[logsAgent.pos + 1] /\ p = logsAgent.pos + 1
  OBVIOUS
<1>3. PICK all : all = Append(logsAgent.held[s], p)
  OBVIOUS
<1>4. PICK cut : cut = IF Len(all) > keep THEN Len(all) - keep ELSE 0
  OBVIOUS
<1>5. PICK v, h : v = SubSeq(all, 1, cut) /\ h = SubSeq(all, cut + 1, Len(all))
  OBVIOUS
<1>6. PICK at : at = IF cut = 0 THEN "follow" ELSE "write"
  OBVIOUS
<1>7. logsAgent' = TakesUp(logsAgent, p, s, v, h, at)
  BY <1>2, <1>3, <1>4, <1>5, <1>6 DEF Logs!Push, TakesUp
<1>8. LogTypes /\ logsFaults \in Nat /\ logsCrashes \in Nat /\ logsAgent \in AgentRow
      /\ keep \in 0 .. 1
  BY InvariantParts, LogsAssumption DEF LogTypes
<1>9. /\ logsAgent.pos \in Nat /\ p \in 1 .. Len(emitted) /\ p \in Frames
      /\ p \in 0 .. MaxFrames /\ s \in Logs!Stream /\ logsAgent.held[s] \in Seq(Frames)
  <2>1. logsAgent.pos \in Nat /\ Len(emitted) \in Nat /\ Len(emitted) <= MaxFrames
        /\ emitted \in Seq(Logs!Stream)
    BY <1>8, AgentParts DEF LogTypes
  <2>2. p \in 1 .. Len(emitted)
    BY <1>1, <1>2, <2>1
  <2>3. p \in Frames /\ p \in 0 .. MaxFrames
    BY <2>1, <2>2, LogsAssumption DEF Frames
  <2>4. s \in Logs!Stream
    BY <1>2, <2>1, <2>2
  <2> QED
    BY <1>8, <2>1, <2>2, <2>3, <2>4, AgentParts
<1>10. v \in Seq(Frames) /\ h \in Seq(Frames) /\ (v = <<>> <=> cut = 0)
  <2>1. PICK q, k : q = logsAgent.held[s] /\ k = keep
    OBVIOUS
  <2>2. q \in Seq(Frames) /\ all = Append(q, p) /\ k \in 0 .. 1
        /\ cut = IF Len(all) > k THEN Len(all) - k ELSE 0
    BY <1>3, <1>4, <1>8, <1>9, <2>1
  <2>3. p \in Frames
    BY <1>9
  <2>4. CutUp(q, p, k, all, cut, v, h)
    BY <1>5, <2>2 DEF CutUp
  <2> QED
    BY <2>2, <2>3, <2>4, PushTypes
<1>11. /\ logsAgent' \in AgentRow /\ logsAgent'.at = at /\ logsAgent'.round = logsAgent.round
       /\ logsAgent'.pos = p /\ logsAgent'.stream = s /\ logsAgent'.safe = v
       /\ logsAgent'.held = [logsAgent.held EXCEPT ![s] = h]
  <2>1. at \in AgentPoints
    BY <1>6 DEF AgentPoints
  <2> QED
    BY <1>7, <1>8, <1>9, <1>10, <2>1, AgentTakesUp
<1>12. LogTypes'
  BY <1>1, <1>8, <1>11 DEF LogTypes
<1>13. /\ Logs!ServerHasPrefix' /\ Logs!LogLimitKept' /\ Logs!AnnouncedIsReadable'
       /\ RangesInFiles(local') /\ Logs!Combined(local') = Logs!Combined(local)
       /\ Logs!Clean' => Logs!Clean
  BY <1>1, <1>8, <1>12, FilesStay
<1>14. logsAgent.safe = <<>> /\ logsAgent.round = 0
  BY <1>1, InvariantParts DEF Logs!RedactorsAreFlushed
<1>15. Logs!RedactorsAreFlushed'
  <2>1. p <= Len(emitted)
    BY <1>9
  <2>2. v # <<>> <=> at \in {"write", "note"}
    BY <1>6, <1>10
  <2> QED
    BY <1>1, <1>6, <1>11, <1>14, <2>1, <2>2 DEF Logs!RedactorsAreFlushed
<1>16. Logs!SyncedInTurn'
  <2> SUFFICES ASSUME Logs!Clean'
               PROVE  Turns(emitted', running', logsOwner', record', logsAgent', local', server')
    BY TurnsAre
  <2>0. Logs!Clean
    BY <1>13
  <2>1. Turns(emitted, running, logsOwner, record, logsAgent, local, server)
    BY <2>0, InvariantParts, TurnsAre
  <2>2. InTurn(logsAgent', local, server)
    BY <1>1, <1>6, <1>11, <2>1 DEF Turns, InTurn
  <2> QED
    BY <1>1, <1>6, <1>11, <1>14, <2>1, <2>2 DEF Turns
<1>17. ASSUME Logs!Clean'
       PROVE  FrameOrder(emitted', Logs!Combined(local'), local', logsAgent', keep')
  <2>1. PICK c : c = Logs!Combined(local)
    OBVIOUS
  <2>2. FrameOrder(emitted, c, local, logsAgent, keep) /\ c \in Seq(Frames)
        /\ local \in LogFiles
    <3>1. Logs!Clean
      BY <1>13, <1>17
    <3> QED
      BY <2>1, <3>1, InvariantParts
  <2>3. Pushes(logsAgent, keep, s, v, h)
    BY <1>2, <1>3, <1>4, <1>5 DEF Pushes
  <2>4. PICK b : b = logsAgent'
    OBVIOUS
  <2>5. /\ b.at # "note" /\ b.pos = logsAgent.pos + 1 /\ b.stream = s /\ b.safe = v
        /\ b.held = [logsAgent.held EXCEPT ![s] = h]
    BY <1>2, <1>6, <1>11, <2>4
  <2>6. logsAgent.at # "note" /\ logsAgent.pos + 1 \in Frames
        /\ emitted[logsAgent.pos + 1] = s
    BY <1>1, <1>2, <1>9
  <2>7. TakenUp(emitted, c, logsAgent, keep, s, v, h, {logsAgent.pos + 1}, b)
    BY <1>8, <1>9, <1>14, <2>2, <2>3, <2>5, <2>6, PushTakes
  <2>8. FrameOrder(emitted, c, local, b, keep)
    BY <1>8, <1>9, <1>10, <2>2, <2>7, FramesTaken
  <2> QED
    BY <1>1, <1>13, <2>1, <2>4, <2>8
<1>18. logsAgent'.at # "note"
  BY <1>6, <1>11
<1> QED
  BY <1>12, <1>13, <1>15, <1>16, <1>17, <1>18, InvariantAgain

LEMMA FlushKeeps ==
  ASSUME Logs!IInv, Logs!FlushNext
  PROVE  Logs!IInv'
<1>1. /\ logsAgent.at = "tail"
      /\ UNCHANGED <<emitted, running, keep, record, logsJournal, local, server, logsOwner,
                     logsFaults, logsCrashes>>
  BY DEF Logs!FlushNext
<1>2. PICK s : s = IF logsAgent.round = 1 THEN "stdout" ELSE "stderr"
  OBVIOUS
<1>3. PICK v, at : v = logsAgent.held[s] /\ at = IF v = <<>> THEN "last" ELSE "write"
  OBVIOUS
<1>4. logsAgent' = Lets(logsAgent, s, v, at)
  BY <1>2, <1>3 DEF Logs!FlushNext, Logs!Flush, Lets
<1>5. LogTypes /\ logsFaults \in Nat /\ logsCrashes \in Nat /\ logsAgent \in AgentRow
  BY InvariantParts, LogsAssumption DEF LogTypes
<1>6. s \in Logs!Stream /\ v \in Seq(Frames) /\ at \in AgentPoints
      /\ Logs!Stream = {"stdout", "stderr"}
  <2>1. s \in Logs!Stream
    BY <1>2 DEF Logs!Stream
  <2>2. at \in AgentPoints
    BY <1>3 DEF AgentPoints
  <2> QED
    BY <1>3, <1>5, <2>1, <2>2, AgentParts DEF Logs!Stream
<1>7. /\ logsAgent' \in AgentRow /\ logsAgent'.at = at /\ logsAgent'.round = logsAgent.round
      /\ logsAgent'.pos = logsAgent.pos /\ logsAgent'.stream = s /\ logsAgent'.safe = v
      /\ logsAgent'.held = [logsAgent.held EXCEPT ![s] = <<>>]
  <2>1. PICK a : a = logsAgent
    OBVIOUS
  <2>2. a \in AgentRow /\ logsAgent' = Lets(a, s, v, at)
    BY <1>4, <1>5, <2>1
  <2>3. LET b == Lets(a, s, v, at)
        IN  /\ b \in AgentRow /\ b.at = at /\ b.round = a.round /\ b.pos = a.pos
            /\ b.stream = s /\ b.safe = v /\ b.held = [a.held EXCEPT ![s] = <<>>]
    <3>1. s \in Logs!Stream /\ v \in Seq(Frames) /\ at \in AgentPoints
      BY <1>6
    <3> QED
      BY <2>2, <3>1, AgentLets
  <2> QED
    BY <2>1, <2>2, <2>3
<1>8. LogTypes'
  BY <1>1, <1>5, <1>7 DEF LogTypes
<1>9. /\ Logs!ServerHasPrefix' /\ Logs!LogLimitKept' /\ Logs!AnnouncedIsReadable'
      /\ RangesInFiles(local') /\ Logs!Combined(local') = Logs!Combined(local)
      /\ Logs!Clean' => Logs!Clean
  BY <1>1, <1>5, <1>8, FilesStay
<1>10. logsAgent.safe = <<>> /\ logsAgent.round \in {1, 2}
  BY <1>1, <1>5, InvariantParts, AgentParts DEF Logs!RedactorsAreFlushed
<1>11. Logs!RedactorsAreFlushed'
  <2>1. /\ logsAgent'.held[s] = <<>>
        /\ \A t \in Logs!Stream : t # s => logsAgent'.held[t] = logsAgent.held[t]
    BY <1>5, <1>6, <1>7, AgentParts
  <2>2. logsAgent.round = 2 => logsAgent.held["stdout"] = <<>>
    BY <1>1, InvariantParts DEF Logs!RedactorsAreFlushed
  <2>3. logsAgent'.held["stdout"] = <<>>
    BY <1>2, <1>6, <1>10, <2>1, <2>2
  <2>4. logsAgent.round = 2 => logsAgent'.held["stderr"] = <<>>
    BY <1>2, <1>6, <2>1
  <2>5. v # <<>> <=> at \in {"write", "note"}
    BY <1>3
  <2>6. logsAgent.pos <= Len(emitted) /\ logsAgent.round # 0
    BY <1>1, InvariantParts DEF Logs!RedactorsAreFlushed
  <2> QED
    BY <1>1, <1>3, <1>7, <2>3, <2>4, <2>5, <2>6 DEF Logs!RedactorsAreFlushed
<1>12. Logs!SyncedInTurn'
  <2> SUFFICES ASSUME Logs!Clean'
               PROVE  Turns(emitted', running', logsOwner', record', logsAgent', local', server')
    BY TurnsAre
  <2>1. Turns(emitted, running, logsOwner, record, logsAgent, local, server)
    BY <1>9, InvariantParts, TurnsAre
  <2>2. InTurn(logsAgent', local, server)
    BY <1>1, <1>3, <1>7, <2>1 DEF Turns, InTurn
  <2> QED
    BY <1>1, <1>3, <1>7, <2>1, <2>2 DEF Turns
<1>13. ASSUME Logs!Clean'
       PROVE  FrameOrder(emitted', Logs!Combined(local'), local', logsAgent', keep')
  <2>1. PICK c, b : c = Logs!Combined(local) /\ b = logsAgent'
    OBVIOUS
  <2>2. FrameOrder(emitted, c, local, logsAgent, keep) /\ c \in Seq(Frames)
        /\ local \in LogFiles
    BY <1>9, <1>13, <2>1, InvariantParts
  <2>3. /\ b.at # "note" /\ b.pos = logsAgent.pos /\ b.stream = s
        /\ b.safe = logsAgent.held[s] /\ b.held = [logsAgent.held EXCEPT ![s] = <<>>]
        /\ logsAgent.at # "note"
    BY <1>1, <1>3, <1>7, <2>1
  <2>4. TakenUp(emitted, c, logsAgent, keep, s, logsAgent.held[s], <<>>, {}, b)
    BY <1>5, <1>6, <1>10, <2>2, <2>3, FlushTakes
  <2>5. <<>> \in Seq(Frames) /\ logsAgent.held[s] \in Seq(Frames)
    BY <1>3, <1>6
  <2>6. FrameOrder(emitted, c, local, b, keep)
    BY <1>5, <1>6, <2>2, <2>4, <2>5, FramesTaken
  <2> QED
    BY <1>1, <1>9, <2>1, <2>6
<1>14. logsAgent'.at # "note"
  BY <1>3, <1>7
<1> QED
  BY <1>8, <1>9, <1>11, <1>12, <1>13, <1>14, InvariantAgain


(* Sequences that grow at their end. *)
LEMMA GrowsAtItsEnd ==
  ASSUME NEW F, NEW x \in Seq(F), NEW y \in Seq(F)
  PROVE  /\ \A v \in Seq(F) : Begins(v, x) => Begins(v, x \o y)
         /\ SubSeq(x \o y, Len(x) + 1, Len(x) + Len(y)) = y
<1>1. PICK z : z = x \o y
  OBVIOUS
<1>2. /\ z \in Seq(F) /\ Len(z) = Len(x) + Len(y)
      /\ \A k \in 1 .. Len(x) : z[k] = x[k]
      /\ \A k \in 1 .. Len(y) : z[Len(x) + k] = y[k]
      /\ Len(x) \in Nat /\ Len(y) \in Nat
  BY <1>1, Concatenated
<1>3. ASSUME NEW v \in Seq(F), Begins(v, x) PROVE Begins(v, z)
  <2>1. Len(v) \in Nat
    BY <1>3
  <2>2. Len(v) <= Len(z) /\ \A k \in 1 .. Len(v) : k \in 1 .. Len(x)
    BY <1>2, <1>3, <2>1 DEF Begins
  <2> QED
    BY <1>2, <1>3, <2>2 DEF Begins
<1>4. SubSeq(z, Len(x) + 1, Len(x) + Len(y)) = y
  <2>1. PICK i, j, t : i = Len(x) + 1 /\ j = Len(x) + Len(y) /\ t = SubSeq(z, i, j)
    OBVIOUS
  <2>2. i \in Nat /\ j \in Nat /\ i >= 1 /\ j <= Len(z)
    BY <1>2, <2>1
  <2>3. /\ t \in Seq(F) /\ Len(t) = IF j < i THEN 0 ELSE j - i + 1
        /\ \A k \in 1 .. Len(t) : t[k] = z[i + k - 1]
    BY <1>2, <2>1, <2>2, Pieces
  <2>4. Len(t) = Len(y)
    BY <1>2, <2>1, <2>2, <2>3
  <2>5. ASSUME NEW k \in 1 .. Len(t) PROVE t[k] = y[k]
    <3>1. i + k - 1 = Len(x) + k /\ k \in 1 .. Len(y)
      BY <1>2, <2>1, <2>4
    <3> QED
      BY <1>2, <2>3, <3>1
  <2>6. t = y
    BY <2>3, <2>4, <2>5, SameSequence
  <2> QED
    BY <2>1, <2>6
<1> QED
  BY <1>1, <1>3, <1>4

LEMMA PieceStays ==
  ASSUME NEW F, NEW x \in Seq(F), NEW y \in Seq(F), NEW i \in Nat, NEW j \in Nat,
         i >= 1, j <= Len(x)
  PROVE  SubSeq(x \o y, i, j) = SubSeq(x, i, j)
<1>1. PICK z, s, t : z = x \o y /\ s = SubSeq(x, i, j) /\ t = SubSeq(z, i, j)
  OBVIOUS
<1>2. /\ z \in Seq(F) /\ Len(z) = Len(x) + Len(y)
      /\ \A k \in 1 .. Len(x) : z[k] = x[k]
      /\ Len(x) \in Nat /\ Len(y) \in Nat
  BY <1>1, Concatenated
<1>3. j <= Len(z)
  BY <1>2
<1>4. /\ s \in Seq(F) /\ Len(s) = IF j < i THEN 0 ELSE j - i + 1
      /\ \A k \in 1 .. Len(s) : s[k] = x[i + k - 1]
  BY <1>1, Pieces
<1>5. /\ t \in Seq(F) /\ Len(t) = IF j < i THEN 0 ELSE j - i + 1
      /\ \A k \in 1 .. Len(t) : t[k] = z[i + k - 1]
  BY <1>1, <1>2, <1>3, Pieces
<1>6. ASSUME NEW k \in 1 .. Len(s) PROVE s[k] = t[k]
  <2>1. i + k - 1 \in 1 .. Len(x) /\ k \in 1 .. Len(t)
    BY <1>2, <1>4, <1>5
  <2> QED
    BY <1>2, <1>4, <1>5, <2>1
<1>7. Len(s) = Len(t)
  BY <1>4, <1>5
<1>8. s = t
  BY <1>4, <1>5, <1>6, <1>7, SameSequence
<1> QED
  BY <1>1, <1>8

LEMMA AppendedBegins ==
  ASSUME NEW F, NEW q \in Seq(F), NEW x \in F
  PROVE  /\ \A v \in Seq(F) : Begins(v, q) => Begins(v, Append(q, x))
         /\ Append(q, x) \in Seq(F) /\ Len(Append(q, x)) = Len(q) + 1 /\ Len(q) \in Nat
         /\ \A k \in 1 .. Len(q) : Append(q, x)[k] = q[k]
         /\ Append(q, x)[Len(q) + 1] = x
<1>1. /\ Append(q, x) \in Seq(F) /\ Len(Append(q, x)) = Len(q) + 1 /\ Len(q) \in Nat
      /\ \A k \in 1 .. Len(q) : Append(q, x)[k] = q[k]
      /\ Append(q, x)[Len(q) + 1] = x
  OBVIOUS
<1>2. ASSUME NEW v \in Seq(F), Begins(v, q) PROVE Begins(v, Append(q, x))
  <2>1. Len(v) \in Nat
    BY <1>2
  <2>2. Len(v) <= Len(Append(q, x)) /\ \A k \in 1 .. Len(v) : k \in 1 .. Len(q)
    BY <1>1, <1>2, <2>1 DEF Begins
  <2> QED
    BY <1>1, <1>2, <2>2 DEF Begins
<1> QED
  BY <1>1, <1>2

(* A stream's file grows: the ranges in it stay.                           *)
Grown(l, s, y, m) == m = Wrote(l, s, l[s] \o y)
LEMMA StreamGrows ==
  ASSUME NEW l \in LogFiles, RangesInFiles(l), NEW s \in Logs!Stream,
         NEW y \in Seq(Frames), NEW m, Grown(l, s, y, m)
  PROVE  /\ m \in LogFiles /\ m[s] = l[s] \o y /\ Len(m[s]) = Len(l[s]) + Len(y)
         /\ Len(l[s]) \in Nat /\ Len(y) \in Nat
         /\ \A f \in Logs!File : f # s => m[f] = l[f]
         /\ \A v \in Seq(Frames) : Begins(v, l[s]) => Begins(v, m[s])
         /\ SubSeq(m[s], Len(l[s]) + 1, Len(l[s]) + Len(y)) = y
         /\ RangesInFiles(m) /\ Logs!Combined(m) = Logs!Combined(l)
<1>1. PICK x, z : x = l[s] /\ z = x \o y
  OBVIOUS
<1>2. x \in Seq(Frames) /\ s \in Logs!File /\ s # "order"
  BY <1>1, FileParts, FilesOf
<1>3. z \in Seq(Frames) /\ Len(z) = Len(x) + Len(y) /\ Len(x) \in Nat /\ Len(y) \in Nat
  BY <1>1, <1>2, Concatenated
<1>4. m \in LogFiles /\ m[s] = z /\ \A f \in Logs!File : f # s => m[f] = l[f]
  <2>1. m = Wrote(l, s, z)
    BY <1>1 DEF Grown
  <2> QED
    BY <1>2, <1>3, <2>1, FileWritten
<1>5. /\ \A v \in Seq(Frames) : Begins(v, x) => Begins(v, z)
      /\ SubSeq(z, Len(x) + 1, Len(x) + Len(y)) = y
  BY <1>1, <1>2, GrowsAtItsEnd
<1>6. m["order"] = l["order"]
  BY <1>2, <1>4, FilesOf
<1>7. ASSUME NEW k \in 1 .. Len(l["order"])
      PROVE  /\ m["order"][k].next <= Len(m[m["order"][k].stream])
             /\ Logs!Shown(l, l["order"][k]) = Logs!Shown(m, l["order"][k])
  <2>1. PICK r : r = l["order"][k]
    OBVIOUS
  <2>2. r.stream \in Logs!Stream /\ r.start \in Nat /\ r.next \in Nat
        /\ r.next <= Len(l[r.stream])
    BY <2>1, CombinedFrames
  <2>3. CASE r.stream = s
    <3>1. r.next <= Len(x) /\ r.next <= Len(z)
      BY <1>1, <1>3, <2>2, <2>3
    <3>2. r.start + 1 \in Nat /\ r.start + 1 >= 1
      BY <2>2
    <3>3. SubSeq(x \o y, r.start + 1, r.next) = SubSeq(x, r.start + 1, r.next)
      BY <1>2, <2>2, <3>1, <3>2, PieceStays
    <3> QED
      BY <1>1, <1>4, <1>6, <2>1, <2>3, <3>1, <3>3 DEF Logs!Shown
  <2>4. CASE r.stream # s
    <3>1. m[r.stream] = l[r.stream]
      BY <1>4, <2>2, <2>4, FilesOf
    <3> QED
      BY <1>6, <2>1, <2>2, <3>1 DEF Logs!Shown
  <2> QED
    BY <2>3, <2>4
<1>8. Len(l["order"]) \in Nat /\ DOMAIN l["order"] = 1 .. Len(l["order"])
  BY CombinedFrames
<1>9. RangesInFiles(m)
  BY <1>6, <1>7, <1>8 DEF RangesInFiles
<1>10. Logs!Combined(l) = Logs!Combined(m)
  BY <1>6, <1>7, <1>8, CombinedSame
<1> QED
  BY <1>1, <1>3, <1>4, <1>5, <1>9, <1>10


LEMMA PrefixesAre ==
  ASSUME LogTypes
  PROVE  Logs!ServerHasPrefix <=> \A f \in Logs!File : Begins(server[f], local[f])
<1>1. ASSUME NEW f \in Logs!File
      PROVE  Logs!IsPrefix(server[f], local[f]) <=> Begins(server[f], local[f])
  <2>1. PICK F : server[f] \in Seq(F) /\ local[f] \in Seq(F)
    BY FilesOfOneKind
  <2> QED
    BY <2>1, PrefixBegins
<1> QED
  BY <1>1 DEF Logs!ServerHasPrefix

LEMMA AppendLocalKeeps ==
  ASSUME Logs!IInv, Logs!AppendLocal
  PROVE  Logs!IInv'
<1>1. PICK a, s, y : a = logsAgent /\ s = a.stream /\ y = a.safe
  OBVIOUS
<1>2. /\ a.at = "write" /\ local' = Wrote(local, s, local[s] \o y)
      /\ logsAgent' = Goes(a, "note")
      /\ UNCHANGED <<emitted, running, keep, record, logsJournal, server, logsOwner,
                     logsFaults, logsCrashes>>
  BY <1>1 DEF Logs!AppendLocal, Wrote, Goes
<1>3. LogTypes /\ logsFaults \in Nat /\ logsCrashes \in Nat /\ a \in AgentRow
      /\ local \in LogFiles /\ server \in LogFiles /\ RangesInFiles(local)
  BY <1>1, InvariantParts, LogsAssumption DEF LogTypes
<1>4. s \in Logs!Stream /\ y \in Seq(Frames) /\ s # "order" /\ s \in Logs!File
  BY <1>1, <1>3, AgentParts, FilesOf
<1>5. PICK m : m = local'
  OBVIOUS
<1>6. /\ m \in LogFiles /\ m[s] = local[s] \o y /\ Len(m[s]) = Len(local[s]) + Len(y)
      /\ Len(local[s]) \in Nat /\ Len(y) \in Nat
      /\ \A f \in Logs!File : f # s => m[f] = local[f]
      /\ \A v \in Seq(Frames) : Begins(v, local[s]) => Begins(v, m[s])
      /\ SubSeq(m[s], Len(local[s]) + 1, Len(local[s]) + Len(y)) = y
      /\ RangesInFiles(m) /\ Logs!Combined(m) = Logs!Combined(local)
  <2>1. Grown(local, s, y, m)
    BY <1>2, <1>5 DEF Grown
  <2> QED
    BY <1>3, <1>4, <2>1, StreamGrows
<1>7. /\ logsAgent' \in AgentRow /\ logsAgent'.at = "note" /\ logsAgent'.round = a.round
      /\ logsAgent'.pos = a.pos /\ logsAgent'.stream = s /\ logsAgent'.safe = y
      /\ logsAgent'.held = a.held
  BY <1>1, <1>2, <1>3, AgentGoes DEF AgentPoints
<1>8. LogTypes'
  BY <1>2, <1>3, <1>5, <1>6, <1>7 DEF LogTypes
<1>9. Logs!Used' = Logs!Used /\ Logs!Used \in Nat
  BY <1>2, <1>3, UsedIs, TotalOf
<1>10. Logs!Clean' => Logs!Clean
  BY <1>2, <1>3, <1>8, <1>9, CleanBefore
<1>11. Logs!LogLimitKept'
  BY <1>9, InvariantParts DEF Logs!LogLimitKept
<1>12. Logs!AnnouncedIsReadable'
  BY <1>2, <1>10, InvariantParts DEF Logs!AnnouncedIsReadable, Logs!Readable
<1>13. Logs!ServerHasPrefix'
  <2>1. ASSUME NEW f \in Logs!File PROVE Logs!IsPrefix(server'[f], local'[f])
    <3>1. CASE f # s
      BY <1>2, <1>5, <1>6, <3>1, InvariantParts DEF Logs!ServerHasPrefix
    <3>2. CASE f = s
      <4>1. server[s] \in Seq(Frames) /\ m[s] \in Seq(Frames)
        BY <1>3, <1>4, <1>6, FileParts
      <4>2. Begins(server[s], local[s])
        BY <1>3, <1>4, InvariantParts, PrefixesAre
      <4>3. Begins(server[s], m[s])
        BY <1>6, <4>1, <4>2
      <4>4. Logs!IsPrefix(server[s], m[s])
        BY <4>1, <4>3, PrefixBegins
      <4> QED
        BY <1>2, <1>5, <3>2, <4>4
    <3> QED
      BY <3>1, <3>2
  <2> QED
    BY <2>1 DEF Logs!ServerHasPrefix
<1>14. Logs!RedactorsAreFlushed'
  BY <1>1, <1>2, <1>7, InvariantParts DEF Logs!RedactorsAreFlushed
<1>15. Logs!Order'.start >= 0 /\ Logs!Shown(local', Logs!Order') = logsAgent'.safe
  <2>1. /\ Logs!Order'.start = Len(m[s]) - Len(y) /\ Logs!Order'.next = Len(m[s])
        /\ Logs!Order'.stream = s
    BY <1>5, <1>7 DEF Logs!Order
  <2>2. Logs!Order'.start = Len(local[s]) /\ Logs!Order'.next = Len(local[s]) + Len(y)
    BY <1>6, <2>1
  <2>3. Logs!Shown(local', Logs!Order') = y
    BY <1>5, <1>6, <2>1, <2>2 DEF Logs!Shown
  <2> QED
    BY <1>6, <1>7, <2>2, <2>3
<1>16. Logs!SyncedInTurn'
  <2> SUFFICES ASSUME Logs!Clean'
               PROVE  Turns(emitted', running', logsOwner', record', logsAgent', local', server')
    BY TurnsAre
  <2>0. Logs!Clean
    BY <1>10
  <2>1. Turns(emitted, running, logsOwner, record, a, local, server)
    BY <1>1, <2>0, InvariantParts, TurnsAre
  <2>2. InTurn(logsAgent', m, server)
    BY <1>2, <1>6, <1>7, <2>1 DEF Turns, InTurn
  <2> QED
    BY <1>2, <1>5, <1>7, <2>1, <2>2 DEF Turns
<1>17. ASSUME Logs!Clean'
       PROVE  FrameOrder(emitted', Logs!Combined(local'), local', logsAgent', keep')
  <2>0. Logs!Clean
    BY <1>10, <1>17
  <2>1. PICK c, b : c = Logs!Combined(local) /\ b = logsAgent'
    OBVIOUS
  <2>2. FrameOrder(emitted, c, local, a, keep) /\ c \in Seq(Frames)
    BY <1>1, <2>0, <2>1, InvariantParts
  <2>3. /\ a.at # "note" /\ m[a.stream] = local[a.stream] \o a.safe
        /\ \A t \in Logs!Stream : t # a.stream => m[t] = local[t]
        /\ b.at = "note" /\ b.pos = a.pos /\ b.stream = a.stream /\ b.safe = a.safe
        /\ b.held = a.held
    BY <1>1, <1>2, <1>6, <1>7, <2>1, FilesOf
  <2>4. FrameOrder(emitted, c, m, b, keep)
    BY <1>3, <2>2, <2>3, FramesWritten
  <2> QED
    BY <1>2, <1>5, <1>6, <2>1, <2>4
<1> QED
  BY <1>5, <1>6, <1>8, <1>11, <1>12, <1>13, <1>14, <1>15, <1>16, <1>17, InvariantAgain

LEMMA AppendOrderKeeps ==
  ASSUME Logs!IInv, Logs!AppendOrder
  PROVE  Logs!IInv'
<1>1. PICK a, s, r : a = logsAgent /\ s = a.stream /\ r = Logs!Order
  OBVIOUS
<1>2. /\ a.at = "note" /\ local' = Wrote(local, "order", Append(local["order"], r))
      /\ logsAgent' = Notes(a) /\ record' = [record EXCEPT !.sequence = @ + 1]
      /\ UNCHANGED <<emitted, running, keep, logsJournal, server, logsOwner,
                     logsFaults, logsCrashes>>
  BY <1>1 DEF Logs!AppendOrder, Wrote, Notes
<1>3. LogTypes /\ logsFaults \in Nat /\ logsCrashes \in Nat /\ a \in AgentRow
      /\ local \in LogFiles /\ server \in LogFiles /\ RangesInFiles(local)
      /\ record \in RecordRow
  BY <1>1, InvariantParts, LogsAssumption DEF LogTypes
<1>4. s \in Logs!Stream /\ s # "order" /\ s \in Logs!File /\ "order" \in Logs!File
      /\ a.safe \in Seq(Frames)
  BY <1>1, <1>3, AgentParts, FilesOf
<1>5. /\ r.start >= 0 /\ Logs!Shown(local, r) = a.safe
  BY <1>1, <1>2, InvariantParts, RangesAre
<1>6. r \in Logs!OrderRecord /\ r.stream = s /\ r.next = Len(local[s])
  <2>1. r = [sequence |-> record.sequence + 1, stream |-> s,
             start |-> Len(local[s]) - Len(a.safe), next |-> Len(local[s])]
    BY <1>1 DEF Logs!Order
  <2>2. Len(local[s]) \in Nat /\ Len(a.safe) \in Nat /\ record.sequence \in Nat
    BY <1>3, <1>4, FileParts DEF RecordRow
  <2>3. record.sequence + 1 \in Nat /\ Len(local[s]) - Len(a.safe) \in Nat
    <3>1. r.start = Len(local[s]) - Len(a.safe)
      BY <2>1
    <3>2. Len(local[s]) - Len(a.safe) >= 0
      BY <1>5, <3>1
    <3> QED
      BY <2>2, <3>2
  <2> QED
    BY <1>4, <2>1, <2>2, <2>3 DEF Logs!OrderRecord
<1>7. PICK m, q, n : m = local' /\ q = local["order"] /\ n = Len(q)
  OBVIOUS
<1>8. q \in Seq(Logs!OrderRecord) /\ n \in Nat /\ DOMAIN q = 1 .. n
  BY <1>3, <1>7, FileParts
<1>9. /\ \A v \in Seq(Logs!OrderRecord) : Begins(v, q) => Begins(v, Append(q, r))
      /\ Append(q, r) \in Seq(Logs!OrderRecord) /\ Len(Append(q, r)) = n + 1
      /\ \A k \in 1 .. n : Append(q, r)[k] = q[k]
      /\ Append(q, r)[n + 1] = r
  BY <1>6, <1>7, <1>8, AppendedBegins
<1>10. /\ m \in LogFiles /\ m["order"] = Append(q, r)
       /\ \A f \in Logs!File : f # "order" => m[f] = local[f]
  <2>1. PICK w, l : w = Append(q, r) /\ l = local
    OBVIOUS
  <2>2. m = Wrote(l, "order", w) /\ w \in Seq(Logs!OrderRecord) /\ l \in LogFiles
    BY <1>2, <1>3, <1>7, <1>9, <2>1
  <2>3. m \in LogFiles /\ m["order"] = w /\ \A f \in Logs!File : f # "order" => m[f] = l[f]
    BY <1>4, <2>2, FileWritten
  <2> QED
    BY <2>1, <2>3
<1>11. /\ logsAgent' \in AgentRow /\ logsAgent'.at = "stream" /\ logsAgent'.round = a.round
       /\ logsAgent'.pos = a.pos /\ logsAgent'.stream = s /\ logsAgent'.safe = <<>>
       /\ logsAgent'.held = a.held
  BY <1>1, <1>2, <1>3, AgentNotes
<1>12. record' \in RecordRow /\ record'.offset = record.offset
  BY <1>2, <1>3 DEF RecordRow
<1>13. LogTypes'
  BY <1>2, <1>3, <1>7, <1>10, <1>11, <1>12 DEF LogTypes
<1>14. Logs!Used' = Logs!Used /\ Logs!Used \in Nat
  BY <1>2, <1>3, UsedIs, TotalOf
<1>15. Logs!Clean' => Logs!Clean
  BY <1>2, <1>3, <1>13, <1>14, CleanBefore
<1>16. Logs!LogLimitKept'
  BY <1>14, InvariantParts DEF Logs!LogLimitKept
<1>17. Logs!AnnouncedIsReadable'
  BY <1>2, <1>15, InvariantParts DEF Logs!AnnouncedIsReadable, Logs!Readable
<1>18. Logs!ServerHasPrefix'
  <2>1. ASSUME NEW f \in Logs!File PROVE Logs!IsPrefix(server'[f], local'[f])
    <3>1. CASE f # "order"
      BY <1>2, <1>7, <1>10, <3>1, InvariantParts DEF Logs!ServerHasPrefix
    <3>2. CASE f = "order"
      <4>1. server["order"] \in Seq(Logs!OrderRecord)
        BY <1>3, FileParts
      <4>2. Begins(server["order"], q)
        BY <1>3, <1>4, <1>7, InvariantParts, PrefixesAre
      <4>3. Begins(server["order"], m["order"])
        BY <1>9, <1>10, <4>1, <4>2
      <4>4. Logs!IsPrefix(server["order"], m["order"])
        BY <1>9, <1>10, <4>1, <4>3, PrefixBegins
      <4> QED
        BY <1>2, <1>7, <3>2, <4>4
    <3> QED
      BY <3>1, <3>2
  <2> QED
    BY <2>1 DEF Logs!ServerHasPrefix
<1>19. Logs!RedactorsAreFlushed'
  BY <1>1, <1>2, <1>11, InvariantParts DEF Logs!RedactorsAreFlushed
<1>20. ASSUME NEW k \in 1 .. n
       PROVE  /\ m["order"][k].next <= Len(m[m["order"][k].stream])
              /\ Logs!Shown(local, q[k]) = Logs!Shown(m, m["order"][k])
  <2>1. PICK t : t = q[k]
    OBVIOUS
  <2>2. t.stream \in Logs!Stream /\ t.next <= Len(local[t.stream])
    BY <1>3, <1>7, <2>1, CombinedFrames
  <2>3. m[t.stream] = local[t.stream] /\ m["order"][k] = t
    BY <1>9, <1>10, <2>1, <2>2, FilesOf
  <2> QED
    BY <2>1, <2>2, <2>3 DEF Logs!Shown
<1>21. m[s] = local[s] /\ m["order"][n + 1] = r /\ Logs!Shown(m, r) = a.safe
  <2>1. m[s] = local[s] /\ m["order"][n + 1] = r
    BY <1>4, <1>9, <1>10
  <2> QED
    BY <1>5, <1>6, <2>1 DEF Logs!Shown
<1>22. Len(m["order"]) = n + 1 /\ DOMAIN m["order"] = 1 .. n + 1
  BY <1>8, <1>9, <1>10
<1>23. RangesInFiles(m)
  <2>1. m["order"][n + 1].next <= Len(m[m["order"][n + 1].stream])
    <3>1. Len(local[s]) \in Nat
      BY <1>3, <1>4, FileParts
    <3> QED
      BY <1>6, <1>21, <3>1
  <2>2. \A k \in 1 .. n + 1 : k \in 1 .. n \/ k = n + 1
    BY <1>8
  <2> QED
    BY <1>20, <1>22, <2>1, <2>2 DEF RangesInFiles
<1>24. Logs!SyncedInTurn'
  <2> SUFFICES ASSUME Logs!Clean'
               PROVE  Turns(emitted', running', logsOwner', record', logsAgent', local', server')
    BY TurnsAre
  <2>0. Logs!Clean
    BY <1>15
  <2>1. Turns(emitted, running, logsOwner, record, a, local, server)
    BY <1>1, <2>0, InvariantParts, TurnsAre
  <2>2. InTurn(logsAgent', m, server)
    BY <1>1, <1>2, <1>10, <1>11, <2>1 DEF Turns, InTurn
  <2> QED
    BY <1>2, <1>7, <1>11, <1>12, <2>1, <2>2 DEF Turns
<1>25. ASSUME Logs!Clean'
       PROVE  FrameOrder(emitted', Logs!Combined(local'), local', logsAgent', keep')
  <2>0. Logs!Clean
    BY <1>15, <1>25
  <2>1. PICK c, d, b : c = Logs!Combined(local) /\ d = Logs!Combined(m) /\ b = logsAgent'
    OBVIOUS
  <2>2. FrameOrder(emitted, c, local, a, keep) /\ c \in Seq(Frames)
    BY <1>1, <2>0, <2>1, InvariantParts
  <2>3. d = c \o a.safe
    <3>1. Logs!Combined(m) = Logs!Combined(local) \o Logs!Shown(m, m["order"][n + 1])
      <4>1. OneRangeMore(local, m, n)
        BY <1>7, <1>8, <1>20, <1>22 DEF OneRangeMore
      <4> QED
        BY <4>1, CombinedLonger
    <3> QED
      BY <1>21, <2>1, <3>1
  <2>4. /\ b.at # "note" /\ b.pos = a.pos /\ b.stream = a.stream /\ b.safe = <<>>
        /\ b.held = a.held /\ \A t \in Logs!Stream : m[t] = local[t]
    BY <1>1, <1>10, <1>11, <2>1, FilesOf
  <2>5. FrameOrder(emitted, d, m, b, keep)
    BY <1>2, <1>3, <2>2, <2>3, <2>4, FramesShown
  <2> QED
    BY <1>2, <1>7, <2>1, <2>5
<1>26. logsAgent'.at # "note"
  BY <1>11
<1> QED
  BY <1>7, <1>13, <1>16, <1>17, <1>18, <1>19, <1>23, <1>24, <1>25, <1>26, InvariantAgain


(* What comes after a file is synced, or could not be.                     *)
Proceeds(a) ==
  IF a.at = "last" THEN IF a.round = 1 THEN GoesIn(a, "tail", 2) ELSE Goes(a, "done")
  ELSE IF a.at = "stream" THEN Goes(a, "order")
  ELSE IF a.round # 0 THEN Goes(a, "last") ELSE Goes(a, "follow")
GivesUp(a) ==
  IF a.at = "last" THEN IF a.round = 1 THEN GoesIn(a, "tail", 2) ELSE Goes(a, "done")
  ELSE IF a.round # 0 THEN Goes(a, "last") ELSE GoesIn(a, "tail", 1)

LEMMA AfterIs ==
  ASSUME logsAgent.at \in {"stream", "order", "last"}
  PROVE  Logs!After(TRUE) = Proceeds(logsAgent) /\ Logs!After(FALSE) = GivesUp(logsAgent)
<1>1. Logs!After(TRUE) = Proceeds(logsAgent)
  BY DEF Logs!After, Proceeds, Goes, GoesIn
<1>2. Logs!After(FALSE) = GivesUp(logsAgent)
  BY DEF Logs!After, GivesUp, Goes, GoesIn
<1> QED
  BY <1>1, <1>2

(* Either way the flush comes after the log, and stderr after stdout.      *)
FollowsUp(a, b) ==
  /\ b \in AgentRow /\ SameFrames(a, b)
  /\ b.at \in {"order", "follow", "last", "tail", "done"}
  /\ \/ b.at = "order" /\ a.at = "stream" /\ b.round = a.round
     \/ b.at = "follow" /\ b.round = 0 /\ a.round = 0
     \/ b.at = "last" /\ b.round = a.round /\ a.round # 0 /\ a.at # "last"
     \/ b.at = "tail" /\ b.round = 1 /\ a.round = 0 /\ a.at # "last"
     \/ b.at = "tail" /\ b.round = 2 /\ a.round = 1 /\ a.at = "last"
     \/ b.at = "done" /\ b.round = a.round /\ a.round # 1 /\ a.at = "last"

LEMMA GoesFollowsUp ==
  ASSUME NEW a \in AgentRow, a.at \in {"stream", "order", "last"}, NEW b,
         \/ b = Goes(a, "order") /\ a.at = "stream"
         \/ b = Goes(a, "follow") /\ a.round = 0
         \/ b = Goes(a, "last") /\ a.round # 0 /\ a.at # "last"
         \/ b = GoesIn(a, "tail", 1) /\ a.round = 0 /\ a.at # "last"
         \/ b = GoesIn(a, "tail", 2) /\ a.round = 1 /\ a.at = "last"
         \/ b = Goes(a, "done") /\ a.round # 1 /\ a.at = "last"
  PROVE  FollowsUp(a, b)
<1>1. /\ "order" \in AgentPoints /\ "follow" \in AgentPoints /\ "last" \in AgentPoints
      /\ "tail" \in AgentPoints /\ "done" \in AgentPoints
  BY DEF AgentPoints
<1>3. CASE b = Goes(a, "order") /\ a.at = "stream"
  BY <1>1, <1>3, AgentGoes DEF FollowsUp, SameFrames
<1>4. CASE b = Goes(a, "follow") /\ a.round = 0
  BY <1>1, <1>4, AgentGoes DEF FollowsUp, SameFrames
<1>5. CASE b = Goes(a, "last") /\ a.round # 0 /\ a.at # "last"
  BY <1>1, <1>5, AgentGoes DEF FollowsUp, SameFrames
<1>6. CASE b = GoesIn(a, "tail", 1) /\ a.round = 0 /\ a.at # "last"
  <2>1. /\ b \in AgentRow /\ b.at = "tail" /\ b.round = 1 /\ b.pos = a.pos
        /\ b.stream = a.stream /\ b.safe = a.safe /\ b.held = a.held
    <3>1. PICK r : r = 1
      OBVIOUS
    <3>2. r \in 0 .. 2 /\ "tail" \in AgentPoints
      BY <1>1, <3>1
    <3>3. b = GoesIn(a, "tail", r)
      BY <1>6, <3>1
    <3>4. /\ b \in AgentRow /\ b.at = "tail" /\ b.round = r /\ b.pos = a.pos
          /\ b.stream = a.stream /\ b.safe = a.safe /\ b.held = a.held
      BY <3>2, <3>3, AgentGoesIn
    <3> QED
      BY <3>1, <3>4
  <2> QED
    BY <1>6, <2>1 DEF FollowsUp, SameFrames
<1>7. CASE b = GoesIn(a, "tail", 2) /\ a.round = 1 /\ a.at = "last"
  <2>1. /\ b \in AgentRow /\ b.at = "tail" /\ b.round = 2 /\ b.pos = a.pos
        /\ b.stream = a.stream /\ b.safe = a.safe /\ b.held = a.held
    <3>1. PICK r : r = 2
      OBVIOUS
    <3>2. r \in 0 .. 2 /\ "tail" \in AgentPoints
      BY <1>1, <3>1
    <3>3. b = GoesIn(a, "tail", r)
      BY <1>7, <3>1
    <3>4. /\ b \in AgentRow /\ b.at = "tail" /\ b.round = r /\ b.pos = a.pos
          /\ b.stream = a.stream /\ b.safe = a.safe /\ b.held = a.held
      BY <3>2, <3>3, AgentGoesIn
    <3> QED
      BY <3>1, <3>4
  <2> QED
    BY <1>7, <2>1 DEF FollowsUp, SameFrames
<1>8. CASE b = Goes(a, "done") /\ a.round # 1 /\ a.at = "last"
  BY <1>1, <1>8, AgentGoes DEF FollowsUp, SameFrames
<1> QED
  BY <1>3, <1>4, <1>5, <1>6, <1>7, <1>8

LEMMA AfterFollowsUp ==
  ASSUME NEW a \in AgentRow, a.at \in {"stream", "order", "last"}
  PROVE  /\ FollowsUp(a, Proceeds(a)) /\ FollowsUp(a, GivesUp(a))
         /\ a.at = "stream" => Proceeds(a).at = "order"
         /\ a.round = 0 /\ a.at # "last" => Proceeds(a).round = 0
<1>1. ASSUME NEW b, b = Proceeds(a)
      PROVE  /\ FollowsUp(a, b) /\ (a.at = "stream" => b.at = "order")
             /\ a.round = 0 /\ a.at # "last" => b.round = 0
  <2>1. \/ b = Goes(a, "order") /\ a.at = "stream"
        \/ b = Goes(a, "follow") /\ a.round = 0 /\ a.at # "stream"
        \/ b = Goes(a, "last") /\ a.round # 0 /\ a.at # "last" /\ a.at # "stream"
        \/ b = GoesIn(a, "tail", 2) /\ a.round = 1 /\ a.at = "last"
        \/ b = Goes(a, "done") /\ a.round # 1 /\ a.at = "last"
    <3>1. CASE a.at = "stream"
      BY <1>1, <3>1 DEF Proceeds
    <3>2. CASE a.at = "order"
      <4>1. CASE a.round = 0
        <5>1. b = Goes(a, "follow")
          BY <1>1, <3>2, <4>1 DEF Proceeds
        <5> QED
          BY <3>2, <4>1, <5>1
      <4>2. CASE a.round # 0
        <5>1. b = Goes(a, "last")
          BY <1>1, <3>2, <4>2 DEF Proceeds
        <5> QED
          BY <3>2, <4>2, <5>1
      <4> QED
        BY <4>1, <4>2
    <3>3. CASE a.at = "last"
      BY <1>1, <3>3 DEF Proceeds
    <3> QED
      BY <3>1, <3>2, <3>3
  <2>2. FollowsUp(a, b)
    BY <2>1, GoesFollowsUp
  <2>3. ASSUME a.at = "stream" PROVE b.at = "order"
    <3>1. b = Goes(a, "order") /\ "order" \in AgentPoints
      BY <2>1, <2>3 DEF AgentPoints
    <3> QED
      BY <3>1, AgentGoes
  <2>4. ASSUME a.round = 0, a.at # "last" PROVE b.round = 0
    <3>1. b = Goes(a, "order") \/ b = Goes(a, "follow")
      BY <2>1, <2>4
    <3>2. "order" \in AgentPoints /\ "follow" \in AgentPoints
      BY DEF AgentPoints
    <3> QED
      BY <2>4, <3>1, <3>2, AgentGoes
  <2> QED
    BY <2>2, <2>3, <2>4
<1>2. ASSUME NEW b, b = GivesUp(a) PROVE FollowsUp(a, b)
  <2>1. \/ b = GoesIn(a, "tail", 1) /\ a.round = 0 /\ a.at # "last"
        \/ b = Goes(a, "last") /\ a.round # 0 /\ a.at # "last"
        \/ b = GoesIn(a, "tail", 2) /\ a.round = 1 /\ a.at = "last"
        \/ b = Goes(a, "done") /\ a.round # 1 /\ a.at = "last"
    <3>1. CASE a.at \in {"stream", "order"}
      <4>1. CASE a.round = 0
        <5>1. b = GoesIn(a, "tail", 1)
          BY <1>2, <3>1, <4>1 DEF GivesUp
        <5> QED
          BY <3>1, <4>1, <5>1
      <4>2. CASE a.round # 0
        <5>1. b = Goes(a, "last")
          BY <1>2, <3>1, <4>2 DEF GivesUp
        <5> QED
          BY <3>1, <4>2, <5>1
      <4> QED
        BY <4>1, <4>2
    <3>2. CASE a.at = "last"
      BY <1>2, <3>2 DEF GivesUp
    <3> QED
      BY <3>1, <3>2
  <2> QED
    BY <2>1, GoesFollowsUp
<1> QED
  BY <1>1, <1>2

LEMMA FlushedAfter ==
  ASSUME Logs!IInv, logsAgent.at \in {"stream", "order", "last"},
         FollowsUp(logsAgent, logsAgent'), emitted' = emitted
  PROVE  Logs!RedactorsAreFlushed'
<1>1. PICK a, b : a = logsAgent /\ b = logsAgent'
  OBVIOUS
<1>2. a \in AgentRow /\ a.round \in {0, 1, 2}
  BY <1>1, InvariantParts, AgentParts
<1>3. FollowsUp(a, b)
  BY <1>1
<1>4. /\ a.pos <= Len(emitted) /\ a.safe = <<>>
      /\ a.at = "last" => a.round # 0
      /\ a.round \in {1, 2} => a.held["stdout"] = <<>>
      /\ a.round = 2 => a.held["stderr"] = <<>>
  BY <1>1, InvariantParts DEF Logs!RedactorsAreFlushed
<1>5. b.pos <= Len(emitted) /\ b.safe = <<>> /\ b.held = a.held
  BY <1>3, <1>4 DEF FollowsUp, SameFrames
<1>6. /\ b.at = "follow" => b.round = 0
      /\ b.at \in {"tail", "last", "done"} => b.round # 0
      /\ b.at = "done" => b.round = 2
      /\ (b.round = 1 /\ b.at # "tail") \/ b.round = 2 => a.held["stdout"] = <<>>
      /\ b.round = 2 /\ b.at # "tail" => a.held["stderr"] = <<>>
  BY <1>2, <1>3, <1>4 DEF FollowsUp
<1>7. b.at \notin {"write", "note"}
  BY <1>3 DEF FollowsUp
<1> QED
  BY <1>1, <1>5, <1>6, <1>7 DEF Logs!RedactorsAreFlushed

LEMMA TargetIs ==
  ASSUME LogTypes, Logs!Syncing
  PROVE  /\ Logs!Target \in Logs!File /\ logsAgent.at \in {"stream", "order", "last"}
         /\ logsAgent.at = "stream" => Logs!Target = logsAgent.stream
         /\ logsAgent.at = "order" => Logs!Target = "order"
         /\ logsAgent.at = "last" => Logs!Target \in Logs!Stream
<1>1. logsAgent.at \in {"stream", "order", "last"} /\ logsAgent.stream \in Logs!Stream
  BY AgentParts DEF LogTypes, Logs!Syncing
<1> QED
  BY <1>1 DEF Logs!Target, Logs!File, Logs!Stream

(* Nothing is pending of a file that is in sync, and only of such a one.   *)
LEMMA NothingPending ==
  ASSUME LogTypes, Logs!ServerHasPrefix, NEW f \in Logs!File,
         Len(server[f]) = record.offset[f]
  PROVE  Logs!Pending(f) = <<>> <=> server[f] = local[f]
<1>1. PICK F : server[f] \in Seq(F) /\ local[f] \in Seq(F)
  BY FilesOfOneKind
<1>2. PICK v, l, p, o : /\ v = server[f] /\ l = local[f] /\ p = Logs!Pending(f)
                        /\ o = record.offset[f]
  OBVIOUS
<1>3. v \in Seq(F) /\ l \in Seq(F) /\ Begins(v, l) /\ Len(v) = o
  BY <1>1, <1>2, PrefixesAre
<1>4. o \in Nat /\ Len(l) \in Nat /\ o <= Len(l)
  BY <1>3 DEF Begins
<1>5. p = SubSeq(l, o + 1, Len(l))
  BY <1>2 DEF Logs!Pending
<1>6. p \in Seq(F) /\ Len(p) = Len(l) - o
  <2>1. o + 1 \in Nat /\ o + 1 >= 1
    BY <1>4
  <2>2. Len(SubSeq(l, o + 1, Len(l))) = IF Len(l) < o + 1 THEN 0 ELSE Len(l) - (o + 1) + 1
    BY <1>3, <1>4, <2>1, Pieces
  <2>3. SubSeq(l, o + 1, Len(l)) \in Seq(F)
    BY <1>3, <1>4, <2>1, Pieces
  <2> QED
    BY <1>4, <1>5, <2>2, <2>3
<1>7. ASSUME p = <<>> PROVE v = l
  <2>1. Len(v) = Len(l)
    BY <1>3, <1>4, <1>6, <1>7
  <2> QED
    BY <1>3, <2>1, SameSequence DEF Begins
<1>8. ASSUME v = l PROVE p = <<>>
  BY <1>3, <1>4, <1>6, <1>8
<1> QED
  BY <1>2, <1>7, <1>8

LEMMA SyncedKeeps ==
  ASSUME Logs!IInv, Logs!Synced
  PROVE  Logs!IInv'
<1>1. PICK a, t : a = logsAgent /\ t = Logs!Target
  OBVIOUS
<1>2. /\ Logs!Syncing /\ Logs!Pending(t) = <<>> /\ logsAgent' = Proceeds(a)
      /\ UNCHANGED <<emitted, running, keep, record, logsJournal, local, server, logsOwner,
                     logsFaults, logsCrashes>>
  BY <1>1, AfterIs DEF Logs!Synced, Logs!Syncing
<1>3. LogTypes /\ logsFaults \in Nat /\ logsCrashes \in Nat /\ a \in AgentRow
      /\ Logs!ServerHasPrefix
  BY <1>1, InvariantParts, LogsAssumption DEF LogTypes
<1>4. /\ t \in Logs!File /\ a.at \in {"stream", "order", "last"}
      /\ a.at = "stream" => t = a.stream
      /\ a.at = "order" => t = "order"
  BY <1>1, <1>2, <1>3, TargetIs
<1>5. PICK b : b = logsAgent'
  OBVIOUS
<1>0. FollowsUp(a, b) /\ (a.at = "stream" => b.at = "order")
  BY <1>2, <1>3, <1>4, <1>5, AfterFollowsUp
<1>6. /\ b \in AgentRow /\ SameFrames(a, b)
      /\ b.at \in {"order", "follow", "last", "tail", "done"}
      /\ b.at = "order" => a.at = "stream"
  BY <1>0 DEF FollowsUp
<1>7. LogTypes'
  BY <1>2, <1>3, <1>5, <1>6 DEF LogTypes
<1>8. /\ Logs!ServerHasPrefix' /\ Logs!LogLimitKept' /\ Logs!AnnouncedIsReadable'
      /\ RangesInFiles(local') /\ Logs!Combined(local') = Logs!Combined(local)
      /\ Logs!Clean' => Logs!Clean
  BY <1>2, <1>3, <1>7, FilesStay
<1>9. Logs!RedactorsAreFlushed'
  BY <1>0, <1>1, <1>2, <1>4, <1>5, FlushedAfter
<1>10. Logs!SyncedInTurn'
  <2> SUFFICES ASSUME Logs!Clean'
               PROVE  Turns(emitted', running', logsOwner', record', logsAgent', local', server')
    BY TurnsAre
  <2>0. Logs!Clean
    BY <1>8
  <2>1. Turns(emitted, running, logsOwner, record, a, local, server)
    BY <1>1, <2>0, InvariantParts, TurnsAre
  <2>2. server[t] = local[t]
    BY <1>2, <1>3, <1>4, <2>1, NothingPending DEF Turns
  <2>3. InTurn(b, local, server)
    <3>1. CASE a.at = "last"
      BY <1>4, <1>6, <2>1, <3>1 DEF Turns, InTurn
    <3>2. CASE a.at = "order"
      BY <1>4, <1>6, <2>1, <2>2, <3>2 DEF Turns, InTurn
    <3>3. CASE a.at = "stream"
      <4>1. b.at = "order"
        BY <1>0, <3>3
      <4> QED
        BY <1>4, <2>1, <2>2, <3>3, <4>1 DEF Turns, InTurn
    <3> QED
      BY <1>4, <3>1, <3>2, <3>3
  <2>4. b.at # "off" /\ (b.round # 0 => b.pos = Len(emitted) /\ ~running)
    <3>1. b.round # 0 => a.round # 0
      <4>1. a.at = "last" => a.round # 0
        BY <1>1, InvariantParts DEF Logs!RedactorsAreFlushed
      <4> QED
        BY <1>2, <1>3, <1>4, <1>5, <4>1, AfterFollowsUp
    <3> QED
      BY <1>6, <2>1, <3>1 DEF Turns, SameFrames
  <2> QED
    BY <1>2, <1>5, <2>1, <2>3, <2>4 DEF Turns
<1>11. ASSUME Logs!Clean'
       PROVE  FrameOrder(emitted', Logs!Combined(local'), local', logsAgent', keep')
  <2>0. Logs!Clean
    BY <1>8, <1>11
  <2>1. FrameOrder(emitted, Logs!Combined(local), local, a, keep)
    BY <1>1, <2>0, InvariantParts
  <2>2. FrameOrder(emitted, Logs!Combined(local), local, b, keep)
    BY <1>6, <2>1, FramesStay
  <2> QED
    BY <1>2, <1>5, <1>8, <2>2
<1>12. logsAgent'.at # "note"
  BY <1>5, <1>6
<1> QED
  BY <1>7, <1>8, <1>9, <1>10, <1>11, <1>12, InvariantAgain


(* What a reply leaves of the invariant, taken or not.                     *)
LEMMA UploadedTypes ==
  ASSUME Logs!IInv, NEW f \in Logs!File, NEW n \in 1 .. Len(Logs!Pending(f)),
         server' = [server EXCEPT ![f] = Reply(f, n).file], local' = local,
         UNCHANGED <<emitted, running, keep, logsOwner, logsCrashes>>,
         logsAgent' \in AgentRow, logsFaults' \in 0 .. Faults["logs"],
         logsFaults' >= logsFaults,
         \/ record' = record /\ logsJournal' = logsJournal
         \/ /\ Reply(f, n).ok /\ logsJournal' = record'
            /\ record' = [record EXCEPT !.offset[f] = record.offset[f] + n]
  PROVE  /\ LogTypes' /\ Logs!ServerHasPrefix' /\ Logs!LogLimitKept' /\ RangesInFiles(local')
         /\ Logs!Combined(local') = Logs!Combined(local)
         /\ Logs!Clean' => Logs!Clean
         /\ \A g \in Logs!File : g # f => server'[g] = server[g]
         /\ Reply(f, n).ok => /\ Len(server[f]) = record.offset[f]
                              /\ Len(server'[f]) = record.offset[f] + n
         /\ Logs!Used < Limit["logs"] /\ Len(server[f]) = record.offset[f]
              /\ logsOwner /\ ~Reply(f, n).ok => Logs!Used' >= Limit["logs"]
         /\ Begins(server[f], server'[f])
<1>1. /\ LogTypes /\ Logs!LogLimitKept /\ Logs!ServerHasPrefix /\ RangesInFiles(local)
      /\ logsCrashes \in Nat /\ record \in RecordRow /\ logsJournal \in RecordRow
      /\ server \in LogFiles
  BY InvariantParts, LogsAssumption DEF LogTypes
<1>2. Logs!IsPrefix(server[f], local[f])
  BY <1>1 DEF Logs!ServerHasPrefix
<1>3. /\ server' \in LogFiles /\ Logs!IsPrefix(server'[f], local[f])
      /\ \A g \in Logs!File : g # f => server'[g] = server[g]
      /\ Begins(server[f], server'[f])
      /\ Logs!LogLimitKept' /\ Logs!Used' >= Logs!Used
      /\ Reply(f, n).ok => /\ Len(server[f]) = record.offset[f]
                           /\ Len(server'[f]) = record.offset[f] + n
      /\ Logs!Used < Limit["logs"] /\ Len(server[f]) = record.offset[f]
           /\ logsOwner /\ ~Reply(f, n).ok => Logs!Used' >= Limit["logs"]
  BY <1>1, <1>2, ServerTakes
<1>4. Logs!ServerHasPrefix'
  BY <1>1, <1>3 DEF Logs!ServerHasPrefix
<1>5. \A g \in Logs!File : Len(server[g]) <= Len(server'[g]) /\ Len(server'[g]) \in Nat
                           /\ Len(server[g]) \in Nat
  BY <1>1, <1>3, FileParts DEF Begins
<1>6. record' \in RecordRow /\ logsJournal' \in RecordRow
  <2>1. CASE record' = record /\ logsJournal' = logsJournal
    BY <1>1, <2>1
  <2>2. CASE logsJournal' = record'
             /\ record' = [record EXCEPT !.offset[f] = record.offset[f] + n]
    <3>1. record.offset[f] + n \in Nat
      BY <1>1 DEF RecordRow
    <3> QED
      BY <1>1, <2>2, <3>1 DEF RecordRow
  <2> QED
    BY <2>1, <2>2
<1>7. ASSUME NEW g \in Logs!File
      PROVE  /\ logsJournal'.offset[g] <= record'.offset[g]
             /\ record'.offset[g] <= Len(server'[g])
  <2>1. PICK i, j, k, l : /\ i = logsJournal.offset[g] /\ j = record.offset[g]
                          /\ k = Len(server[g]) /\ l = Len(server'[g])
    OBVIOUS
  <2>2. i \in Nat /\ j \in Nat /\ k \in Nat /\ l \in Nat /\ i <= j /\ j <= k /\ k <= l
    BY <1>1, <1>5, <2>1 DEF LogTypes, RecordRow
  <2>3. CASE record' = record /\ logsJournal' = logsJournal
    BY <2>1, <2>2, <2>3
  <2>4. CASE Reply(f, n).ok /\ logsJournal' = record'
             /\ record' = [record EXCEPT !.offset[f] = record.offset[f] + n]
    <3>1. record'.offset[g] = IF g = f THEN record.offset[f] + n ELSE j
      BY <1>1, <2>1, <2>4 DEF RecordRow
    <3>2. record'.offset[g] \in Nat
      BY <1>6 DEF RecordRow
    <3>3. record'.offset[g] <= l
      <4>1. CASE g = f
        BY <1>3, <2>1, <2>2, <2>4, <3>1, <4>1
      <4>2. CASE g # f
        BY <2>2, <3>1, <4>2
      <4> QED
        BY <4>1, <4>2
    <3> QED
      BY <2>1, <2>4, <3>2, <3>3
  <2> QED
    BY <2>3, <2>4
<1>8. LogTypes'
  BY <1>1, <1>3, <1>6, <1>7 DEF LogTypes
<1>9. Logs!Clean' => Logs!Clean
  BY <1>1, <1>3, <1>8, CleanBefore
<1> QED
  BY <1>1, <1>3, <1>4, <1>8, <1>9

LEMMA UploadFailsKeeps ==
  ASSUME Logs!IInv, Logs!UploadFails
  PROVE  Logs!IInv'
<1>1. PICK a, t : a = logsAgent /\ t = Logs!Target
  OBVIOUS
<1>2. /\ Logs!Syncing /\ logsAgent' = GivesUp(a)
      /\ logsFaults < Faults["logs"] /\ logsFaults' = logsFaults + 1
      /\ UNCHANGED <<emitted, running, keep, record, logsJournal, local, logsOwner,
                     logsCrashes>>
  BY <1>1, AfterIs DEF Logs!UploadFails, Logs!Syncing
<1>3. LogTypes /\ logsFaults \in Nat /\ logsCrashes \in Nat /\ a \in AgentRow
  BY <1>1, InvariantParts, LogsAssumption DEF LogTypes
<1>4. t \in Logs!File /\ a.at \in {"stream", "order", "last"}
  BY <1>1, <1>2, <1>3, TargetIs
<1>5. logsFaults' \in 0 .. Faults["logs"] /\ logsFaults' >= logsFaults
      /\ logsCrashes' >= logsCrashes
  BY <1>2, <1>3, LogsAssumption
<1>6. FollowsUp(a, logsAgent')
  BY <1>2, <1>3, <1>4, AfterFollowsUp
<1>7. logsAgent' \in AgentRow /\ logsAgent'.at # "note"
  BY <1>6 DEF FollowsUp
<1>8. LogTypes' /\ Logs!ServerHasPrefix' /\ Logs!LogLimitKept' /\ RangesInFiles(local')
  <2>1. PICK n \in 0 .. Len(Logs!Pending(t)) :
          server' = IF n = 0 THEN server ELSE [server EXCEPT ![t] = Reply(t, n).file]
    BY <1>1 DEF Logs!UploadFails, Reply, Chunk
  <2>2. CASE n = 0
    <3>1. server' = server
      BY <2>1, <2>2
    <3>2. LogTypes'
      BY <1>2, <1>3, <1>5, <1>7, <3>1 DEF LogTypes
    <3> QED
      BY <1>2, <1>5, <3>1, <3>2, FilesStay
  <2>3. CASE n # 0
    <3>1. n \in 1 .. Len(Logs!Pending(t)) /\ server' = [server EXCEPT ![t] = Reply(t, n).file]
      BY <2>1, <2>3
    <3> QED
      BY <1>2, <1>4, <1>5, <1>7, <3>1, UploadedTypes
  <2> QED
    BY <2>2, <2>3
<1>9. Logs!RedactorsAreFlushed'
  BY <1>1, <1>2, <1>4, <1>6, FlushedAfter
<1>10. ~Logs!Clean'
  BY <1>2, <1>3, FaultsCount
<1> QED
  BY <1>7, <1>8, <1>9, <1>10, UncleanAgain

LEMMA UploadKeeps ==
  ASSUME Logs!IInv, Logs!Upload
  PROVE  Logs!IInv'
<1>1. PICK a, t : a = logsAgent /\ t = Logs!Target
  OBVIOUS
<1>2. /\ Logs!Syncing /\ Logs!Pending(t) # <<>>
      /\ UNCHANGED <<emitted, running, keep, local, logsOwner, logsFaults, logsCrashes>>
  BY <1>1 DEF Logs!Upload
<1>3. LogTypes /\ logsFaults \in Nat /\ logsCrashes \in Nat /\ a \in AgentRow
      /\ record \in RecordRow /\ logsFaults \in 0 .. Faults["logs"]
      /\ Logs!ServerHasPrefix
  BY <1>1, InvariantParts, LogsAssumption DEF LogTypes
<1>4. /\ t \in Logs!File /\ a.at \in {"stream", "order", "last"}
      /\ a.at = "stream" => t = a.stream
      /\ a.at = "order" => t = "order"
      /\ a.at = "last" => t \in Logs!Stream
  BY <1>1, <1>2, <1>3, TargetIs
<1>5. PICK n \in 1 .. Len(Logs!Pending(t)) :
        /\ server' = [server EXCEPT ![t] = Reply(t, n).file]
        /\ record' = [record EXCEPT !.offset[t] =
                        IF Reply(t, n).ok THEN record.offset[t] + n ELSE record.offset[t]]
        /\ IF Reply(t, n).ok THEN logsJournal' = record' /\ logsAgent' = logsAgent
           ELSE logsAgent' = Logs!After(FALSE) /\ logsJournal' = logsJournal
  BY <1>1 DEF Logs!Upload, Logs!NextOffset, Reply, Chunk
<1>6. logsFaults' >= logsFaults
  BY <1>2, <1>3
<1>7. CASE ~Reply(t, n).ok
  <2>1. record' = record
    BY <1>3, <1>5, <1>7 DEF RecordRow
  <2>2. logsAgent' = GivesUp(a) /\ logsJournal' = logsJournal
    BY <1>1, <1>4, <1>5, <1>7, AfterIs
  <2>3. FollowsUp(a, logsAgent')
    BY <1>3, <1>4, <2>2, AfterFollowsUp
  <2>4. logsAgent' \in AgentRow /\ logsAgent'.at # "note"
    BY <2>3 DEF FollowsUp
  <2>5. /\ LogTypes' /\ Logs!ServerHasPrefix' /\ Logs!LogLimitKept' /\ RangesInFiles(local')
        /\ Logs!Clean' => Logs!Clean
        /\ Logs!Used < Limit["logs"] /\ Len(server[t]) = record.offset[t]
              /\ logsOwner /\ ~Reply(t, n).ok => Logs!Used' >= Limit["logs"]
    BY <1>2, <1>3, <1>4, <1>5, <1>6, <2>1, <2>2, <2>4, UploadedTypes
  <2>6. Logs!RedactorsAreFlushed'
    BY <1>1, <1>2, <1>4, <2>3, FlushedAfter
  <2>7. ~Logs!Clean'
    <3> SUFFICES ASSUME Logs!Clean' PROVE FALSE
      OBVIOUS
    <3>1. Logs!Clean /\ Logs!Used < Limit["logs"]
      BY <2>5 DEF Logs!Clean
    <3>2. Len(server[t]) = record.offset[t] /\ logsOwner
      BY <1>4, <3>1, InvariantParts, TurnsAre DEF Turns
    <3>3. Logs!Used' >= Limit["logs"]
      BY <1>7, <2>5, <3>1, <3>2
    <3>4. Logs!Used' < Limit["logs"]
      BY DEF Logs!Clean
    <3>5. PICK u, z : u = Logs!Used' /\ z = Limit["logs"]
      OBVIOUS
    <3>6. u \in Nat /\ z \in Nat
      <4>1. server' \in LogFiles
        BY <2>5 DEF LogTypes
      <4> QED
        BY <3>5, <4>1, UsedIs, TotalOf, LogsAssumption
    <3> QED
      BY <3>3, <3>4, <3>5, <3>6
  <2> QED
    BY <2>4, <2>5, <2>6, <2>7, UncleanAgain
<1>8. CASE Reply(t, n).ok
  <2>1. record' = [record EXCEPT !.offset[t] = record.offset[t] + n]
    BY <1>5, <1>8
  <2>2. logsAgent' = logsAgent /\ logsJournal' = record'
    BY <1>5, <1>8
  <2>3. logsAgent' \in AgentRow
    BY <1>1, <1>3, <2>2
  <2>4. /\ LogTypes' /\ Logs!ServerHasPrefix' /\ Logs!LogLimitKept' /\ RangesInFiles(local')
        /\ Logs!Combined(local') = Logs!Combined(local)
        /\ Logs!Clean' => Logs!Clean
        /\ \A g \in Logs!File : g # t => server'[g] = server[g]
        /\ Len(server[t]) = record.offset[t] /\ Len(server'[t]) = record.offset[t] + n
        /\ Begins(server[t], server'[t])
    BY <1>2, <1>3, <1>4, <1>5, <1>6, <1>8, <2>1, <2>2, <2>3, UploadedTypes
  <2>5. Logs!RedactorsAreFlushed'
    BY <1>2, <2>2, InvariantParts DEF Logs!RedactorsAreFlushed
  <2>6. ASSUME Logs!Clean'
        PROVE  /\ Turns(emitted, running, logsOwner, record, a, local, server)
               /\ a.at \in {"stream", "order"}
    <3>1. Turns(emitted, running, logsOwner, record, a, local, server)
      BY <1>1, <2>4, <2>6, InvariantParts, TurnsAre
    <3>2. a.at # "last"
      <4> SUFFICES ASSUME a.at = "last" PROVE FALSE
        OBVIOUS
      <4>1. server[t] = local[t]
        BY <1>4, <3>1 DEF Turns, InTurn
      <4> QED
        BY <1>2, <1>3, <1>4, <2>4, <4>1, NothingPending
    <3> QED
      BY <1>4, <3>1, <3>2
  <2>7. Logs!SyncedInTurn'
    <3> SUFFICES ASSUME Logs!Clean'
                 PROVE  Turns(emitted', running', logsOwner', record', logsAgent', local', server')
      BY TurnsAre
    <3>1. /\ Turns(emitted, running, logsOwner, record, a, local, server)
          /\ a.at \in {"stream", "order"}
      BY <2>6
    <3>2. \A g \in Logs!File : Len(server'[g]) = record'.offset[g]
      <4>1. \A g \in Logs!File :
              record'.offset[g] = IF g = t THEN record.offset[t] + n ELSE record.offset[g]
        BY <1>3, <1>4, <2>1 DEF RecordRow
      <4> QED
        BY <2>4, <3>1, <4>1 DEF Turns
    <3>3. InTurn(a, local, server')
      BY <1>4, <2>4, <3>1 DEF Turns, InTurn
    <3> QED
      BY <1>1, <1>2, <2>2, <3>1, <3>2, <3>3 DEF Turns
  <2>8. Logs!AnnouncedIsReadable'
    <3> SUFFICES ASSUME Logs!Clean', NEW i \in DOMAIN server'["order"]
                 PROVE  server'["order"][i].next <= Len(server'[server'["order"][i].stream])
      BY DEF Logs!AnnouncedIsReadable, Logs!Readable
    <3>1. /\ Turns(emitted, running, logsOwner, record, a, local, server)
          /\ a.at \in {"stream", "order"} /\ Logs!Clean
      BY <2>4, <2>6
    <3>2. server \in LogFiles /\ server' \in LogFiles /\ local \in LogFiles
          /\ "order" \in Logs!File
      BY <1>3, <2>4, FilesOf DEF LogTypes
    <3>3. PICK r : r = server'["order"][i]
      OBVIOUS
    <3>4. r \in Logs!OrderRecord /\ r.stream \in Logs!Stream /\ r.next \in Nat
      <4>1. server'["order"] \in Seq(Logs!OrderRecord)
        BY <3>2, FileParts
      <4>2. r \in Logs!OrderRecord
        BY <3>3, <4>1
      <4> QED
        BY <4>2 DEF Logs!OrderRecord
    <3>5. CASE a.at = "stream"
      <4>1. t = a.stream /\ t # "order"
        BY <1>3, <1>4, <3>5, AgentParts, FilesOf
      <4>2. server'["order"] = server["order"]
        BY <2>4, <3>2, <4>1
      <4>3. r.next <= Len(server[r.stream])
        BY <3>1, <3>3, <4>2, InvariantParts DEF Logs!AnnouncedIsReadable, Logs!Readable
      <4>4. Len(server[r.stream]) <= Len(server'[r.stream])
        <5>1. CASE r.stream = t
          BY <2>4, <5>1 DEF Begins
        <5>2. CASE r.stream # t
          BY <2>4, <3>2, <3>4, <5>2, FileParts, FilesOf
        <5> QED
          BY <5>1, <5>2
      <4>5. Len(server[r.stream]) \in Nat /\ Len(server'[r.stream]) \in Nat
        BY <3>2, <3>4, FileParts, FilesOf
      <4> QED
        BY <3>3, <3>4, <4>3, <4>4, <4>5
    <3>6. CASE a.at = "order"
      <4>1. server[r.stream] = local[r.stream] /\ server'[r.stream] = server[r.stream]
        BY <1>4, <2>4, <3>1, <3>4, <3>6, FilesOf DEF Turns, InTurn
      <4>2. Begins(server'["order"], local["order"])
        <5>1. /\ server'["order"] \in Seq(Logs!OrderRecord)
              /\ local["order"] \in Seq(Logs!OrderRecord)
          BY <3>2, FileParts
        <5>2. Logs!IsPrefix(server'["order"], local["order"])
          BY <1>2, <2>4, <3>2 DEF Logs!ServerHasPrefix
        <5> QED
          BY <5>1, <5>2, PrefixBegins
      <4>3. i \in 1 .. Len(server'["order"]) /\ i \in DOMAIN local["order"]
        <5>1. DOMAIN server'["order"] = 1 .. Len(server'["order"])
              /\ DOMAIN local["order"] = 1 .. Len(local["order"])
              /\ Len(server'["order"]) \in Nat /\ Len(local["order"]) \in Nat
          BY <3>2, FileParts
        <5> QED
          BY <4>2, <5>1 DEF Begins
      <4>4. r = local["order"][i]
        BY <3>3, <4>2, <4>3 DEF Begins
      <4>5. r.next <= Len(local[r.stream])
        BY <4>3, <4>4, InvariantParts DEF RangesInFiles
      <4> QED
        BY <3>3, <4>1, <4>5
    <3> QED
      BY <3>1, <3>5, <3>6
  <2>9. ASSUME Logs!Clean'
        PROVE  FrameOrder(emitted', Logs!Combined(local'), local', logsAgent', keep')
    BY <1>2, <2>2, <2>4, <2>9, InvariantParts
  <2>10. logsAgent'.at # "note"
    BY <1>1, <1>4, <2>2
  <2> QED
    BY <2>4, <2>5, <2>7, <2>8, <2>9, <2>10, InvariantAgain
<1> QED
  BY <1>7, <1>8


LEMMA LogsStutter ==
  ASSUME Logs!IInv, UNCHANGED logsVars
  PROVE  Logs!IInv'
<1>1. UNCHANGED <<emitted, running, keep, logsAgent, record, logsJournal, local, server,
                  logsOwner, logsFaults, logsCrashes>>
  BY DEF logsVars
<1>2. LogTypes /\ logsFaults \in Nat /\ logsCrashes \in Nat
  BY InvariantParts, LogsAssumption DEF LogTypes
<1>3. LogTypes'
  BY <1>1, <1>2 DEF LogTypes
<1>4. logsFaults' >= logsFaults /\ logsCrashes' >= logsCrashes
  BY <1>1, <1>2
<1>5. /\ Logs!ServerHasPrefix' /\ Logs!LogLimitKept' /\ Logs!AnnouncedIsReadable'
      /\ RangesInFiles(local') /\ Logs!Combined(local') = Logs!Combined(local)
      /\ Logs!Clean' => Logs!Clean
  BY <1>1, <1>3, <1>4, FilesStay
<1>6. Logs!RedactorsAreFlushed'
  BY <1>1, InvariantParts DEF Logs!RedactorsAreFlushed
<1>7. Logs!SyncedInTurn'
  BY <1>1, <1>5, InvariantParts, TurnsAre
<1>8. logsAgent'.at = "note" =>
        Logs!Order'.start >= 0 /\ Logs!Shown(local', Logs!Order') = logsAgent'.safe
  <2>1. Logs!Order' = Logs!Order
    BY <1>1 DEF Logs!Order
  <2> QED
    BY <1>1, <2>1, InvariantParts, RangesAre
<1>9. Logs!Clean' => FrameOrder(emitted', Logs!Combined(local'), local', logsAgent', keep')
  BY <1>1, <1>5, InvariantParts
<1> QED
  BY <1>3, <1>5, <1>6, <1>7, <1>8, <1>9, InvariantAgain

-----------------------------------------------------------------------------
(* Logs: at first, and in the end. *)

LEMMA NothingIs ==
  /\ Logs!Nothing \in LogFiles /\ \A f \in Logs!File : Logs!Nothing[f] = <<>>
  /\ Total(Logs!Nothing) = 0 /\ Logs!Combined(Logs!Nothing) = <<>>
<1>1. \A f \in Logs!File : Logs!Nothing[f] = <<>>
  BY DEF Logs!Nothing
<1>2. /\ "stdout" \in Logs!File /\ "stderr" \in Logs!File /\ "order" \in Logs!File
      /\ \A s \in Logs!Stream : s \in Logs!File
  BY FilesOf DEF Logs!Stream
<1>3. /\ <<>> \in Seq(Frames) /\ <<>> \in Seq(Logs!OrderRecord) /\ Len(<<>>) = 0
      /\ DOMAIN <<>> = 1 .. 0
  OBVIOUS
<1>4. Logs!Nothing \in [Logs!File -> Seq(Frames) \cup Seq(Logs!OrderRecord)]
  BY <1>3 DEF Logs!Nothing
<1>5. Logs!Nothing \in LogFiles
  BY <1>1, <1>2, <1>3, <1>4 DEF LogFiles
<1>6. Total(Logs!Nothing) = 0
  <2>1. /\ Len(Logs!Nothing["stdout"]) = 0 /\ Len(Logs!Nothing["stderr"]) = 0
        /\ Len(Logs!Nothing["order"]) = 0
    BY <1>1, <1>2, <1>3
  <2>2. 0 + 0 + 0 = 0
    OBVIOUS
  <2> QED
    BY <2>1, <2>2 DEF Total
<1>7. Logs!Combined(Logs!Nothing) = <<>>
  <2>1. PICK n : n = Logs!Nothing
    OBVIOUS
  <2>2. Len(n["order"]) = 0 /\ DOMAIN n["order"] = 1 .. Len(n["order"])
    BY <1>1, <1>2, <1>3, <2>1
  <2>3. PICK m : JoinStages(n, m)
    BY <2>2, JoinSteps
  <2> QED
    BY <2>1, <2>2, <2>3 DEF JoinStages
<1> QED
  BY <1>1, <1>5, <1>6, <1>7

LEMMA LogsInitially ==
  ASSUME Logs!Init
  PROVE  Logs!IInv
<1>1. PICK a, n : a = logsAgent /\ n = Logs!Nothing
  OBVIOUS
<1>2. /\ emitted = <<>> /\ running = TRUE /\ keep \in 0 .. 1 /\ a = Goes(Logs!Off, "follow")
      /\ record = [offset |-> [f \in Logs!File |-> 0], sequence |-> 0]
      /\ logsJournal = record /\ local = n /\ server = n /\ logsOwner = TRUE
      /\ logsFaults = 0 /\ logsCrashes = 0
  BY <1>1 DEF Logs!Init, Goes
<1>3. /\ a \in AgentRow /\ a.at = "follow" /\ a.round = 0 /\ a.pos = 0 /\ a.safe = <<>>
      /\ \A s \in Logs!Stream : a.held[s] = <<>>
  BY <1>2, AgentOff, AgentGoes DEF AgentPoints, Logs!Off
<1>4. /\ n \in LogFiles /\ \A f \in Logs!File : n[f] = <<>> /\ Len(n[f]) = 0
      /\ Total(n) = 0 /\ Logs!Combined(n) = <<>>
  BY <1>1, NothingIs
<1>5. record \in RecordRow /\ \A f \in Logs!File : record.offset[f] = 0
  BY <1>2 DEF RecordRow
<1>6. LogTypes
  <2>1. /\ <<>> \in Seq(Logs!Stream) /\ Len(<<>>) = 0
        /\ 0 \in 0 .. Faults["logs"] /\ 0 \in 0 .. Crashes["logs"]
    BY LogsAssumption
  <2>2. \A f \in Logs!File : /\ logsJournal.offset[f] <= record.offset[f]
                             /\ record.offset[f] <= Len(server[f])
    BY <1>2, <1>4, <1>5
  <2> QED
    BY <1>1, <1>2, <1>3, <1>4, <1>5, <2>1, <2>2, LogsAssumption DEF LogTypes
<1>7. Logs!ServerHasPrefix
  <2>1. \A f \in Logs!File : Begins(server[f], local[f])
    BY <1>2, <1>4 DEF Begins
  <2> QED
    BY <1>6, <2>1, PrefixesAre
<1>8. Logs!LogLimitKept
  BY <1>2, <1>4, UsedIs, LogsAssumption DEF Logs!LogLimitKept
<1>9. DOMAIN n["order"] = {}
  BY <1>4, FilesOf
<1>10. Logs!AnnouncedIsReadable /\ Logs!RangesAreWritten
  <2>1. RangesInFiles(local)
    BY <1>2, <1>9 DEF RangesInFiles
  <2> QED
    BY <1>1, <1>2, <1>3, <1>9, <2>1, RangesAre DEF Logs!AnnouncedIsReadable
<1>11. Logs!RedactorsAreFlushed
  BY <1>1, <1>2, <1>3 DEF Logs!RedactorsAreFlushed
<1>12. Logs!SyncedInTurn
  <2>1. InTurn(a, local, server)
    BY <1>2, <1>3 DEF InTurn
  <2>2. \A f \in Logs!File : Len(server[f]) = record.offset[f]
    BY <1>2, <1>4, <1>5
  <2>3. Turns(emitted, running, logsOwner, record, a, local, server)
    BY <1>2, <1>3, <2>1, <2>2 DEF Turns
  <2> QED
    BY <1>1, <2>3, TurnsAre
<1>13. Logs!FramesKeepTheirOrder
  <2>1. 1 .. 0 = {} /\ Held(a) = {}
    BY <1>3, NoFrames DEF Held
  <2>2. ASSUME NEW s \in Logs!Stream PROVE StreamOrder(emitted, <<>>, n, a, keep, s)
    <3>1. n[s] = <<>>
      BY <1>4, FilesOf
    <3> QED
      BY <1>3, <3>1, NoFrames DEF StreamOrder, Sent
  <2>3. <<>> \o <<>> = [i \in 1 .. 0 |-> i]
    OBVIOUS
  <2>4. FrameOrder(emitted, <<>>, n, a, keep)
    BY <1>3, <2>1, <2>2, <2>3, NoFrames DEF FrameOrder
  <2> QED
    BY <1>1, <1>2, <1>4, <2>4, FramesAre
<1>14. Logs!TypeOK
  BY <1>6, LogTypesAre
<1> QED
  BY <1>7, <1>8, <1>10, <1>11, <1>12, <1>13, <1>14 DEF Logs!IInv

(* Once the log has ended everything is synced and nothing held back.      *)
LEMMA LogsInTheEnd ==
  ASSUME Logs!IInv
  PROVE  Logs!CombinedLogIsComplete
<1> SUFFICES ASSUME logsAgent.at = "done", Logs!Clean
             PROVE  LET combined == Logs!Combined(server)
                    IN /\ Logs!ToSet(combined) = 1 .. Len(emitted)
                       /\ Logs!InOrder(combined)
                       /\ keep = 0 => combined = [i \in 1 .. Len(emitted) |-> i]
                       /\ \A s \in Logs!Stream :
                            /\ Logs!ToSet(server[s]) = {i \in 1 .. Len(emitted) : emitted[i] = s}
                            /\ Logs!InOrder(server[s])
  BY DEF Logs!CombinedLogIsComplete
<1>1. PICK a, c, n : a = logsAgent /\ c = Logs!Combined(local) /\ n = Len(emitted)
  OBVIOUS
<1>2. /\ LogTypes /\ a \in AgentRow /\ local \in LogFiles /\ server \in LogFiles
      /\ c \in Seq(Frames) /\ FrameOrder(emitted, c, local, a, keep)
      /\ Turns(emitted, running, logsOwner, record, a, local, server)
  BY <1>1, InvariantParts, TurnsAre
<1>3. a.at = "done" /\ a.round = 2 /\ a.safe = <<>>
  BY <1>1, InvariantParts DEF Logs!RedactorsAreFlushed
<1>4. a.held["stdout"] = <<>> /\ a.held["stderr"] = <<>> /\ a.pos = n
  BY <1>1, <1>2, <1>3, InvariantParts DEF Logs!RedactorsAreFlushed, Turns
<1>5. \A s \in Logs!Stream : a.held[s] = <<>>
  BY <1>4 DEF Logs!Stream
<1>6. server = local
  <2>1. \A f \in Logs!File : server[f] = local[f]
    BY <1>2, <1>3 DEF Turns, InTurn
  <2> QED
    BY <1>2, <2>1 DEF LogFiles
<1>7. Logs!ToSet(c) = 1 .. n
  <2>1. Held(a) = {}
    BY <1>5, NoFrames DEF Held
  <2> QED
    BY <1>2, <1>3, <1>4, <2>1, NoFrames DEF FrameOrder
<1>8. OrderIn(emitted, c)
  BY <1>2 DEF FrameOrder
<1>9. keep = 0 => c = [i \in 1 .. n |-> i]
  <2>1. c \o <<>> = c
    BY <1>2
  <2> QED
    BY <1>2, <1>3, <1>4, <2>1 DEF FrameOrder
<1>10. ASSUME NEW s \in Logs!Stream
       PROVE  /\ Logs!ToSet(local[s]) = {i \in 1 .. n : emitted[i] = s}
              /\ OrderIn(emitted, local[s])
  BY <1>2, <1>3, <1>7 DEF FrameOrder, StreamOrder, Sent
<1> QED
  BY <1>1, <1>6, <1>7, <1>8, <1>9, <1>10 DEF Logs!InOrder, OrderIn

(* The server's copy of a log has no hole, no repetition and not more than *)
(* the limit, what the order file announces can be read, and in the end    *)
(* the combined log is the container's, frame for frame (streamLogs,       *)
(* appendOrderedLog, syncLog, putLog, appendLog, tailCombinedLogs).        *)
THEOREM LogIsComplete == Spec => []LogIsTheContainers
<1>1. ASSUME Init
      PROVE  Logs!IInv
  BY <1>1, LogsInitially DEF Init
<1>2. ASSUME Logs!IInv, [Next]_vars
      PROVE  Logs!IInv'
  <2>1. CASE part = "logs" /\ Logs!Next
    BY <1>2, <2>1, WriteKeeps, ExitKeeps, PushKeeps, FollowEndsKeeps, FlushKeeps,
       AppendLocalKeeps, AppendOrderKeeps, SyncedKeeps, UploadKeeps, UploadFailsKeeps,
       SupersededKeeps, CrashKeeps, RestartKeeps DEF Logs!Next
  <2>2. CASE UNCHANGED logsVars
    BY <1>2, <2>2, LogsStutter
  <2> QED
    BY <1>2, <2>1, <2>2 DEF Next, vars
<1>3. Logs!IInv => LogIsTheContainers
  BY LogsInTheEnd DEF LogIsTheContainers, Logs!IInv
<1> QED
  BY <1>1, <1>2, <1>3, PTL DEF Spec

-----------------------------------------------------------------------------
(* Redaction: where a secret is found.                                     *)

(* The number Found gives for position i, from the one for the position    *)
(* before.                                                                 *)
NextFound(s, data, before, i) ==
  IF /\ Redaction!Occurs(s, data, i)
     /\ before = 0 \/ before + Len(s) <= i
  THEN i ELSE before

FoundUpTo(s, data, n, f) ==
  f = [i \in 0 .. n |-> IF i = 0 THEN 0 ELSE NextFound(s, data, f[i - 1], i)]

LEMMA FoundExists ==
  ASSUME NEW s, NEW data, NEW n \in Nat
  PROVE  \E f : FoundUpTo(s, data, n, f)
<1> USE DEF FoundUpTo
<1> DEFINE Upto(f, k) == FoundUpTo(s, data, k, f)
           Has(k) == \E f : Upto(f, k)
           Bad == {k \in Nat : ~ Has(k)}
<1>1. Bad = {}
  <2> SUFFICES ASSUME Bad # {} PROVE FALSE
    OBVIOUS
  <2> HIDE DEF Has
  <2>1. PICK m \in Bad : \A k \in Bad : m <= k
    BY LeastNumber
  <2>2. CASE m = 0
    <3> DEFINE f == [i \in 0 .. 0 |-> 0]
    <3>1. Upto(f, 0)
      OBVIOUS
    <3>2. Has(0)
      BY <3>1 DEF Has
    <3> QED
      BY <2>1, <2>2, <3>2
  <2>3. CASE m # 0
    <3>1. m - 1 \in Nat /\ m - 1 \notin Bad
      BY <2>1, <2>3
    <3>2. PICK f : Upto(f, m - 1)
      BY <3>1 DEF Has
    <3> DEFINE h == [i \in 0 .. m |-> IF i <= m - 1 THEN f[i]
                                      ELSE NextFound(s, data, f[i - 1], i)]
    <3>3. ASSUME NEW i \in 0 .. m
          PROVE  h[i] = IF i = 0 THEN 0 ELSE NextFound(s, data, h[i - 1], i)
      <4>1. CASE i = 0
        BY <3>1, <3>2, <4>1
      <4>2. CASE i # 0
        <5>1. i - 1 \in 0 .. m - 1 /\ h[i - 1] = f[i - 1]
          BY <2>1, <3>1, <4>2
        <5>2. h[i] = NextFound(s, data, f[i - 1], i)
          BY <2>1, <3>1, <3>2, <4>2
        <5> QED
          BY <4>2, <5>1, <5>2
      <4> QED
        BY <4>1, <4>2
    <3>4. Upto(h, m)
      BY <3>3
    <3>5. Has(m)
      BY <3>4 DEF Has
    <3> QED
      BY <2>1, <3>5
  <2> QED
    BY <2>2, <2>3
<1>2. Has(n)
  BY <1>1
<1> QED
  BY <1>2

LEMMA FoundUnfolds ==
  ASSUME NEW s, NEW data, Len(data) \in Nat
  PROVE  LET F == Redaction!Found(s, data)
         IN /\ F[0] = 0
            /\ \A i \in 1 .. Len(data) : F[i] = NextFound(s, data, F[i - 1], i)
<1> DEFINE Is(f) == FoundUpTo(s, data, Len(data), f)
           F == Redaction!Found(s, data)
<1>1. F = CHOOSE f : Is(f)
  BY DEF Redaction!Found, NextFound, FoundUpTo
<1>2. \E f : Is(f)
  BY FoundExists
<1> HIDE DEF F
<1>3. Is(F)
  BY <1>1, <1>2
<1>4. F[0] = 0
  BY <1>3 DEF FoundUpTo
<1>5. ASSUME NEW i \in 1 .. Len(data)
      PROVE  F[i] = NextFound(s, data, F[i - 1], i)
  BY <1>3 DEF FoundUpTo
<1> QED
  BY <1>4, <1>5 DEF F

LEMMA FoundRange ==
  ASSUME NEW s, Len(s) \in Nat, NEW data, Len(data) \in Nat, NEW i \in 0 .. Len(data)
  PROVE  LET F == Redaction!Found(s, data)
         IN /\ F[i] \in 0 .. i
            /\ F[i] # 0 => Redaction!Occurs(s, data, F[i])
<1> DEFINE F == Redaction!Found(s, data)
           Good(j) == F[j] \in 0 .. j /\ (F[j] # 0 => Redaction!Occurs(s, data, F[j]))
           Bad == {j \in 0 .. Len(data) : ~ Good(j)}
<1>1. /\ F[0] = 0
      /\ \A j \in 1 .. Len(data) : F[j] = NextFound(s, data, F[j - 1], j)
  BY FoundUnfolds
<1> HIDE DEF F
<1>2. Bad = {}
  <2> SUFFICES ASSUME Bad # {} PROVE FALSE
    OBVIOUS
  <2>1. PICK m \in Bad : \A k \in Bad : m <= k
    <3>1. Bad \in SUBSET Nat
      OBVIOUS
    <3> HIDE DEF Bad
    <3> QED
      BY <3>1, LeastNumber
  <2>2. m # 0
    BY <1>1, <2>1
  <2>3. m - 1 \in 0 .. Len(data) /\ m - 1 \notin Bad /\ m \in 1 .. Len(data)
    BY <2>1, <2>2
  <2>4. Good(m - 1)
    BY <2>3
  <2>5. F[m] = F[m - 1] \/ (F[m] = m /\ Redaction!Occurs(s, data, m))
    BY <1>1, <2>3 DEF NextFound
  <2>6. Good(m)
    BY <2>3, <2>4, <2>5
  <2> QED
    BY <2>1, <2>6
<1> QED
  BY <1>2 DEF F

(* What a redactor works on. *)
Shown == Seq(Bytes \cup {Mask})

LEMMA MaskOneParts ==
  ASSUME NEW s, NEW data \in Shown
  PROVE  /\ Redaction!MaskOne(s, data) \in Shown
         /\ Len(Redaction!MaskOne(s, data)) = Len(data)
         /\ \A i \in 1 .. Len(data) :
              Redaction!MaskOne(s, data)[i] =
                IF Redaction!Found(s, data)[i] # 0 /\ i < Redaction!Found(s, data)[i] + Len(s)
                THEN Mask ELSE data[i]
<1> DEFINE F == Redaction!Found(s, data)
           M == [i \in 1 .. Len(data) |->
                  IF F[i] # 0 /\ i < F[i] + Len(s) THEN Mask ELSE data[i]]
<1>1. Redaction!MaskOne(s, data) = M
  BY DEF Redaction!MaskOne
<1> HIDE DEF F
<1>2. \A i \in 1 .. Len(data) : M[i] \in Bytes \cup {Mask}
  BY DEF Shown
<1>3. M \in Shown /\ Len(M) = Len(data)
  BY <1>2 DEF Shown
<1> QED
  BY <1>1, <1>3 DEF F

(* d is e with nothing but Mask written over some of it. *)
Hides(e, d) ==
  Len(d) = Len(e) /\ \A i \in 1 .. Len(e) : d[i] = e[i] \/ d[i] = Mask
Secret(s) == s \in Seq(Bytes \ {Mask}) /\ s # <<>>
NoneOf(s, data) == \A i \in 1 .. Len(data) : ~Redaction!Occurs(s, data, i)

(* What occurs in hidden data occurred before.                             *)
LEMMA OccurredBefore ==
  ASSUME NEW s, Secret(s), NEW e, NEW d, Len(e) \in Nat, Hides(e, d), NEW i \in 1 .. Len(e),
         Redaction!Occurs(s, d, i)
  PROVE  Redaction!Occurs(s, e, i)
<1>1. /\ Len(s) \in Nat /\ DOMAIN s = 1 .. Len(s)
      /\ \A k \in DOMAIN s : s[k] # Mask
  BY DEF Secret
<1>2. i + Len(s) - 1 <= Len(e) /\ \A k \in DOMAIN s : d[i + k - 1] = s[k]
  BY DEF Hides, Redaction!Occurs
<1>3. \A k \in DOMAIN s : i + k - 1 \in 1 .. Len(e)
  BY <1>1, <1>2
<1>4. \A k \in DOMAIN s : e[i + k - 1] = s[k]
  BY <1>1, <1>2, <1>3 DEF Hides
<1> QED
  BY <1>2, <1>4 DEF Redaction!Occurs

LEMMA MaskOneHides ==
  ASSUME NEW s, Secret(s), NEW data \in Shown
  PROVE  /\ Hides(data, Redaction!MaskOne(s, data))
         /\ NoneOf(s, Redaction!MaskOne(s, data))
         /\ \A i \in 1 .. Len(data) : Redaction!MaskOne(s, data)[i] # data[i] =>
              \E k \in 1 .. i : Redaction!Occurs(s, data, k) /\ i < k + Len(s)
<1> DEFINE F == Redaction!Found(s, data)
           M == Redaction!MaskOne(s, data)
<1>1. /\ Len(data) \in Nat /\ Len(M) = Len(data)
      /\ \A i \in 1 .. Len(data) :
           M[i] = IF F[i] # 0 /\ i < F[i] + Len(s) THEN Mask ELSE data[i]
  <2>1. Len(data) \in Nat
    BY DEF Shown
  <2> QED
    BY <2>1, MaskOneParts
<1>2. Len(s) \in Nat /\ Len(s) # 0
  BY DEF Secret
<1>3. \A i \in 1 .. Len(data) : F[i] = NextFound(s, data, F[i - 1], i)
  BY <1>1, FoundUnfolds
<1>4. \A i \in 0 .. Len(data) : F[i] \in 0 .. i /\ (F[i] # 0 => Redaction!Occurs(s, data, F[i]))
  BY <1>1, <1>2, FoundRange
<1> HIDE DEF F, M
<1>5. Hides(data, M)
  BY <1>1 DEF Hides
<1>6. NoneOf(s, M)
  <2> SUFFICES ASSUME NEW i \in 1 .. Len(data), Redaction!Occurs(s, M, i)
               PROVE  FALSE
    BY <1>1 DEF NoneOf
  <2>1. Redaction!Occurs(s, data, i)
    BY <1>1, <1>5, OccurredBefore
  <2>2. M[i] = s[1] /\ s[1] # Mask
    <3>1. 1 \in DOMAIN s /\ s[1] # Mask
      BY <1>2 DEF Secret
    <3>2. M[i + 1 - 1] = s[1]
      BY <3>1 DEF Redaction!Occurs
    <3> QED
      BY <3>1, <3>2
  <2>3. F[i - 1] \in 0 .. i - 1
    BY <1>1, <1>4
  <2>4. F[i] = i \/ (F[i] # 0 /\ i < F[i] + Len(s))
    BY <1>2, <1>3, <2>1, <2>3 DEF NextFound
  <2>5. M[i] = Mask
    BY <1>1, <1>2, <2>4
  <2> QED
    BY <2>2, <2>5
<1>7. ASSUME NEW i \in 1 .. Len(data), M[i] # data[i]
      PROVE  \E k \in 1 .. i : Redaction!Occurs(s, data, k) /\ i < k + Len(s)
  <2>1. F[i] # 0 /\ i < F[i] + Len(s)
    BY <1>1, <1>7
  <2>2. F[i] \in 1 .. i /\ Redaction!Occurs(s, data, F[i])
    BY <1>1, <1>4, <2>1
  <2> QED
    BY <2>1, <2>2
<1> QED
  BY <1>5, <1>6, <1>7 DEF M


-----------------------------------------------------------------------------
(* Redaction: one secret after the other.                                  *)

Folded(data, g, S) ==
  IF S = {} THEN data
  ELSE Redaction!MaskOne(secrets[Redaction!Max(S)], g[S \ {Redaction!Max(S)}])
FoldedUpTo(data, n, g) == g = [S \in SUBSET (1 .. n) |-> Folded(data, g, S)]

LEMMA MaskFolds ==
  ASSUME NEW data, NEW n, DOMAIN secrets = 1 .. n
  PROVE  Redaction!mask(data) = (CHOOSE g : FoldedUpTo(data, n, g))[1 .. n]
BY DEF Redaction!mask, Redaction!FoldLeft, Redaction!MapThenFoldSet, Folded, FoldedUpTo

LEMMA LastOf ==
  ASSUME NEW m \in Nat, NEW S \in SUBSET (1 .. m), m \in S
  PROVE  Redaction!Max(S) = m
<1>1. \A y \in S : m >= y
  OBVIOUS
<1>2. \A x \in S : (\A y \in S : x >= y) => x = m
  OBVIOUS
<1> QED
  BY <1>1, <1>2 DEF Redaction!Max

LEMMA FoldExists ==
  ASSUME NEW data, NEW n \in Nat
  PROVE  \E g : FoldedUpTo(data, n, g)
<1> DEFINE Has(k) == \E g : FoldedUpTo(data, k, g)
           Bad == {k \in Nat : ~ Has(k)}
<1>1. Bad = {}
  <2> SUFFICES ASSUME Bad # {} PROVE FALSE
    OBVIOUS
  <2> HIDE DEF Has
  <2>1. PICK m \in Bad : \A k \in Bad : m <= k
    BY LeastNumber
  <2>2. CASE m = 0
    <3> DEFINE g == [S \in SUBSET (1 .. 0) |-> data]
    <3>1. ASSUME NEW S \in SUBSET (1 .. 0)
          PROVE  Folded(data, g, S) = data
      <4>1. S = {}
        OBVIOUS
      <4> QED
        BY <4>1 DEF Folded
    <3>2. FoldedUpTo(data, 0, g)
      BY <3>1 DEF FoldedUpTo
    <3>3. Has(0)
      BY <3>2 DEF Has
    <3> QED
      BY <2>1, <2>2, <3>3
  <2>3. CASE m # 0
    <3>1. m - 1 \in Nat /\ m - 1 \notin Bad
      BY <2>1, <2>3
    <3>2. PICK f : FoldedUpTo(data, m - 1, f)
      BY <3>1 DEF Has
    <3> DEFINE h == [S \in SUBSET (1 .. m) |->
                      IF m \in S THEN Redaction!MaskOne(secrets[m], f[S \ {m}]) ELSE f[S]]
    <3>3. ASSUME NEW S \in SUBSET (1 .. m)
          PROVE  h[S] = Folded(data, h, S)
      <4> DEFINE x == Redaction!Max(S)
      <4>1. CASE m \in S
        <5>1. x = m
          BY <2>1, <4>1, LastOf
        <5>2. h[S \ {m}] = f[S \ {m}]
          OBVIOUS
        <5>3. h[S] = Redaction!MaskOne(secrets[m], f[S \ {m}])
          BY <4>1
        <5> QED
          BY <4>1, <5>1, <5>2, <5>3 DEF Folded
      <4>2. CASE m \notin S
        <5>1. S \in SUBSET (1 .. m - 1)
          BY <2>1, <4>2
        <5> HIDE DEF x
        <5>2. h[S] = f[S] /\ h[S \ {x}] = f[S \ {x}]
          BY <4>2
        <5>3. f[S] = Folded(data, f, S)
          BY <3>2, <5>1 DEF FoldedUpTo
        <5> QED
          BY <5>2, <5>3 DEF Folded, x
      <4> QED
        BY <4>1, <4>2
    <3>4. FoldedUpTo(data, m, h)
      BY <3>3 DEF FoldedUpTo
    <3>5. Has(m)
      BY <3>4 DEF Has
    <3> QED
      BY <2>1, <3>5
  <2> QED
    BY <2>2, <2>3
<1>2. Has(n)
  BY <1>1
<1> QED
  BY <1>2

(* mask goes through the secrets in their order.                           *)
MaskStages(data, m) ==
  /\ m[0] = data
  /\ \A k \in 1 .. Len(secrets) : m[k] = Redaction!MaskOne(secrets[k], m[k - 1])
  /\ Redaction!mask(data) = m[Len(secrets)]

LEMMA MaskSteps ==
  ASSUME NEW data, Len(secrets) \in Nat, DOMAIN secrets = 1 .. Len(secrets)
  PROVE  \E m : MaskStages(data, m)
<1> DEFINE g == CHOOSE g : FoldedUpTo(data, Len(secrets), g)
           m == [k \in 0 .. Len(secrets) |-> g[1 .. k]]
<1>1. FoldedUpTo(data, Len(secrets), g)
  BY FoldExists
<1>2. Redaction!mask(data) = g[1 .. Len(secrets)]
  BY MaskFolds
<1> HIDE DEF g
<1>3. m[0] = data
  <2>1. 1 .. 0 = {} /\ {} \in SUBSET (1 .. Len(secrets))
    OBVIOUS
  <2>2. g[{}] = Folded(data, g, {})
    BY <1>1, <2>1 DEF FoldedUpTo
  <2> QED
    BY <2>1, <2>2 DEF Folded
<1>4. ASSUME NEW k \in 1 .. Len(secrets)
      PROVE  m[k] = Redaction!MaskOne(secrets[k], m[k - 1])
  <2> DEFINE S == 1 .. k
  <2>1. S \in SUBSET (1 .. Len(secrets)) /\ k \in S /\ S \ {k} = 1 .. k - 1 /\ k \in Nat
    OBVIOUS
  <2> HIDE DEF S
  <2>2. g[S] = Folded(data, g, S)
    BY <1>1, <2>1 DEF FoldedUpTo
  <2>3. Redaction!Max(S) = k
    BY <2>1, LastOf DEF S
  <2>4. g[S] = Redaction!MaskOne(secrets[k], g[S \ {k}])
    BY <2>1, <2>2, <2>3 DEF Folded
  <2>5. m[k] = g[S] /\ m[k - 1] = g[1 .. k - 1]
    BY DEF S
  <2> QED
    BY <2>1, <2>4, <2>5
<1>5. m[Len(secrets)] = g[1 .. Len(secrets)]
  OBVIOUS
<1>6. MaskStages(data, m)
  BY <1>2, <1>3, <1>4, <1>5 DEF MaskStages
<1> QED
  BY <1>6

SecretsAre ==
  /\ Len(secrets) \in Nat /\ DOMAIN secrets = 1 .. Len(secrets)
  /\ \A i \in 1 .. Len(secrets) : Secret(secrets[i])

(* A position of data is in a secret. *)
InSecret(data, i) ==
  \E s \in Redaction!ToSet(secrets), k \in 1 .. i :
    Redaction!Occurs(s, data, k) /\ i < k + Len(s)

LEMMA SecretsListed ==
  ASSUME SecretsAre
  PROVE  /\ \A i \in 1 .. Len(secrets) : secrets[i] \in Redaction!ToSet(secrets)
         /\ \A s \in Redaction!ToSet(secrets) :
              Secret(s) /\ \E i \in 1 .. Len(secrets) : s = secrets[i]
BY DEF SecretsAre, Redaction!ToSet

LEMMA MaskHides ==
  ASSUME SecretsAre, NEW data \in Shown
  PROVE  /\ Redaction!mask(data) \in Shown
         /\ Hides(data, Redaction!mask(data))
         /\ \A s \in Redaction!ToSet(secrets) : NoneOf(s, Redaction!mask(data))
         /\ \A i \in 1 .. Len(data) :
              Redaction!mask(data)[i] # data[i] => InSecret(data, i)
<1>1. PICK m : MaskStages(data, m)
  BY MaskSteps DEF SecretsAre
<1> DEFINE n == Len(secrets)
           Good(k) ==
             /\ m[k] \in Shown /\ Hides(data, m[k])
             /\ \A i \in 1 .. k : NoneOf(secrets[i], m[k])
             /\ \A i \in 1 .. Len(data) : m[k][i] # data[i] => InSecret(data, i)
           Bad == {k \in 0 .. n : ~ Good(k)}
<1>2. n \in Nat /\ Len(data) \in Nat
  BY DEF SecretsAre, Shown
<1>3. Good(0)
  BY <1>1, <1>2 DEF MaskStages, Hides
<1>4. ASSUME NEW k \in 1 .. n, Good(k - 1)
      PROVE  Good(k)
  <2> DEFINE s == secrets[k]
             e == m[k - 1]
             d == m[k]
  <2>1. d = Redaction!MaskOne(s, e) /\ Secret(s) /\ s \in Redaction!ToSet(secrets)
    BY <1>1, <1>2, SecretsListed DEF MaskStages, SecretsAre
  <2>2. e \in Shown /\ Hides(data, e) /\ Len(e) = Len(data)
    BY <1>4 DEF Hides
  <2>3. \A i \in 1 .. k - 1 : NoneOf(secrets[i], e)
    BY <1>4
  <2>4. \A i \in 1 .. Len(data) : e[i] # data[i] => InSecret(data, i)
    BY <1>4
  <2> HIDE DEF s, e, d, Good
  <2>5. /\ Hides(e, d) /\ NoneOf(s, d)
        /\ \A i \in 1 .. Len(e) : d[i] # e[i] =>
             \E j \in 1 .. i : Redaction!Occurs(s, e, j) /\ i < j + Len(s)
    BY <2>1, <2>2, MaskOneHides
  <2>6. d \in Shown
    BY <2>1, <2>2, MaskOneParts
  <2>7. Hides(data, d)
    BY <2>2, <2>5 DEF Hides
  <2>8. ASSUME NEW i \in 1 .. k
        PROVE  NoneOf(secrets[i], d)
    <3>1. CASE i = k
      BY <2>5, <3>1 DEF s
    <3>2. CASE i # k
      <4>1. i \in 1 .. k - 1 /\ i \in 1 .. n
        BY <1>2, <3>2
      <4>2. NoneOf(secrets[i], e) /\ Secret(secrets[i])
        BY <2>3, <4>1 DEF SecretsAre
      <4> QED
        BY <1>2, <2>2, <2>5, <2>7, <4>2, OccurredBefore DEF NoneOf, Hides
    <3> QED
      BY <3>1, <3>2
  <2>9. ASSUME NEW i \in 1 .. Len(data), d[i] # data[i]
        PROVE  InSecret(data, i)
    <3>1. CASE e[i] # data[i]
      BY <2>4, <3>1
    <3>2. CASE d[i] # e[i]
      <4>1. PICK j \in 1 .. i : Redaction!Occurs(s, e, j) /\ i < j + Len(s)
        BY <2>2, <2>5, <3>2
      <4>2. Redaction!Occurs(s, data, j)
        BY <1>2, <2>1, <2>2, <4>1, OccurredBefore
      <4> QED
        BY <2>1, <4>1, <4>2 DEF InSecret
    <3> QED
      BY <2>9, <3>1, <3>2
  <2> QED
    BY <2>6, <2>7, <2>8, <2>9 DEF Good, d
<1> HIDE DEF Good
<1>5. Bad = {}
  <2> SUFFICES ASSUME Bad # {} PROVE FALSE
    OBVIOUS
  <2>1. PICK l \in Bad : \A k \in Bad : l <= k
    <3>1. Bad \in SUBSET Nat
      BY <1>2
    <3> HIDE DEF Bad
    <3> QED
      BY <3>1, LeastNumber
  <2>2. l \in 1 .. n /\ l - 1 \in 0 .. n /\ l - 1 \notin Bad
    BY <1>2, <1>3, <2>1
  <2> QED
    BY <1>4, <2>1, <2>2
<1>6. Good(n)
  BY <1>2, <1>5
<1>7. Redaction!mask(data) = m[n]
  BY <1>1 DEF MaskStages
<1>8. \A s \in Redaction!ToSet(secrets) : NoneOf(s, m[n])
  BY <1>6, SecretsListed DEF Good
<1> QED
  BY <1>6, <1>7, <1>8 DEF Good


-----------------------------------------------------------------------------
(* Redaction: what is held back, and what joining two pieces does.         *)

LEMMA RedactionLibrary ==
  \A S : Redaction!Cardinality(S) = Cardinality(S)
<1> TAKE S
<1> QED
  BY DEF Redaction!Cardinality, Cardinality

LEMMA SecretTypes ==
  ASSUME secrets \in UNION {Redaction!SetToSeqs(S) : S \in SecretsOfJobs}
  PROVE  SecretsAre
<1>1. PICK S \in SecretsOfJobs : secrets \in Redaction!SetToSeqs(S)
  OBVIOUS
<1>2. IsFiniteSet(S) /\ \A s \in S : Secret(s)
  BY SecretsAssumption DEF Secret
<1>3. Redaction!Cardinality(S) \in Nat
  BY <1>2, RedactionLibrary, FS_CardinalityType
<1>4. secrets \in [1 .. Redaction!Cardinality(S) -> S]
  BY <1>1 DEF Redaction!SetToSeqs
<1>5. /\ Len(secrets) = Redaction!Cardinality(S)
      /\ DOMAIN secrets = 1 .. Redaction!Cardinality(S)
      /\ \A i \in 1 .. Redaction!Cardinality(S) : secrets[i] \in S
  BY <1>3, <1>4
<1> QED
  BY <1>2, <1>3, <1>5 DEF SecretsAre

(* The longest secret.                                                     *)
LEMMA BoundExists ==
  ASSUME SecretsAre
  PROVE  \E b \in Nat : \A i \in 1 .. Len(secrets) : Len(secrets[i]) <= b
<1> DEFINE n == Len(secrets)
           Has(k) == \E b \in Nat : \A i \in 1 .. k : Len(secrets[i]) <= b
           Bad == {k \in 0 .. n : ~ Has(k)}
<1>1. n \in Nat /\ \A i \in 1 .. n : Len(secrets[i]) \in Nat
  BY DEF SecretsAre, Secret
<1>2. Bad = {}
  <2> SUFFICES ASSUME Bad # {} PROVE FALSE
    OBVIOUS
  <2> HIDE DEF Has
  <2>1. PICK m \in Bad : \A k \in Bad : m <= k
    <3>1. Bad \in SUBSET Nat
      BY <1>1
    <3> HIDE DEF Bad
    <3> QED
      BY <3>1, LeastNumber
  <2>2. Has(0)
    <3>1. 0 \in Nat /\ 1 .. 0 = {}
      OBVIOUS
    <3> QED
      BY <3>1 DEF Has
  <2>3. m \in 1 .. n /\ m - 1 \in 0 .. n /\ m - 1 \notin Bad
    BY <1>1, <2>1, <2>2
  <2>4. PICK b \in Nat : \A i \in 1 .. m - 1 : Len(secrets[i]) <= b
    BY <2>3 DEF Has
  <2>5. PICK c \in Nat : c >= b /\ c >= Len(secrets[m])
    BY <1>1, <2>3, <2>4
  <2>6. \A i \in 1 .. m : Len(secrets[i]) <= c
    BY <1>1, <2>3, <2>4, <2>5
  <2>7. Has(m)
    BY <2>6 DEF Has
  <2> QED
    BY <2>1, <2>7
<1>3. Has(n)
  <2> HIDE DEF Has
  <2>1. n \in 0 .. n
    BY <1>1
  <2> QED
    BY <1>2, <2>1
<1> QED
  BY <1>3

LEMMA KeepIsEnough ==
  ASSUME SecretsAre
  PROVE  /\ Redaction!keep \in Nat
         /\ \A s \in Redaction!ToSet(secrets) : Len(s) <= Redaction!keep + 1
         /\ Len(secrets) = 1 => Redaction!keep = Len(secrets[1]) - 1
<1> DEFINE T == {Len(s) : s \in Redaction!ToSet(secrets)}
           n == Len(secrets)
<1>1. /\ n \in Nat /\ DOMAIN secrets = 1 .. n
      /\ \A i \in 1 .. n : Len(secrets[i]) \in Nat \ {0}
  BY DEF SecretsAre, Secret
<1>2. T = {Len(secrets[i]) : i \in 1 .. n}
  BY <1>1 DEF Redaction!ToSet
<1>3. CASE n = 0
  <2>1. secrets = <<>>
    BY <1>1, <1>3
  <2>2. Redaction!ToSet(secrets) = {}
    BY <1>1, <1>3 DEF Redaction!ToSet
  <2> QED
    BY <1>3, <2>1, <2>2 DEF Redaction!keep, Redaction!max
<1>4. CASE n # 0
  <2> DEFINE B == {b \in Nat : \A x \in T : x <= b}
  <2>1. T \subseteq Nat \ {0} /\ T # {}
    BY <1>1, <1>2, <1>4
  <2>2. B # {}
    <3>1. PICK b \in Nat : \A i \in 1 .. n : Len(secrets[i]) <= b
      BY BoundExists
    <3>2. b \in B
      BY <1>2, <3>1
    <3> QED
      BY <3>2
  <2> HIDE DEF T
  <2>3. PICK b \in B : \A c \in B : b <= c
    <3>1. B \in SUBSET Nat
      OBVIOUS
    <3> HIDE DEF B
    <3> QED
      BY <2>2, <3>1, LeastNumber
  <2>4. b \in T
    <3> SUFFICES ASSUME b \notin T PROVE FALSE
      OBVIOUS
    <3>1. \A x \in T : x < b
      BY <2>1, <2>3
    <3>2. PICK x \in T : TRUE
      BY <2>1
    <3>3. b - 1 \in Nat /\ \A y \in T : y <= b - 1
      BY <2>1, <2>3, <3>1, <3>2
    <3>4. b - 1 \in B
      BY <3>3
    <3> QED
      BY <2>3, <3>4
  <2>5. Redaction!Max(T) \in T /\ \A x \in T : Redaction!Max(T) >= x
    BY <2>1, <2>3, <2>4 DEF Redaction!Max
  <2>6. secrets # <<>>
    BY <1>4
  <2>7. Redaction!max = Redaction!Max(T)
    BY <2>6 DEF Redaction!max, T
  <2>8. Redaction!max \in Nat \ {0} /\ Redaction!keep = Redaction!max - 1
    BY <2>1, <2>5, <2>7 DEF Redaction!keep
  <2>9. \A s \in Redaction!ToSet(secrets) : Len(s) \in T
    BY DEF T
  <2>10. ASSUME n = 1
         PROVE  Redaction!max = Len(secrets[1])
    BY <1>2, <2>5, <2>7, <2>10
  <2> QED
    BY <2>1, <2>5, <2>7, <2>8, <2>9, <2>10
<1> QED
  BY <1>1, <1>3, <1>4

LEMMA Joined ==
  ASSUME NEW a \in Shown, NEW b \in Shown
  PROVE  /\ a \o b \in Shown /\ Len(a \o b) = Len(a) + Len(b)
         /\ Len(a) \in Nat /\ Len(b) \in Nat
         /\ \A i \in 1 .. Len(a) : (a \o b)[i] = a[i]
         /\ \A i \in 1 .. Len(b) : (a \o b)[Len(a) + i] = b[i]
         /\ \A i \in 1 .. Len(a) + Len(b) :
              i > Len(a) => i - Len(a) \in 1 .. Len(b) /\ (a \o b)[i] = b[i - Len(a)]
BY DEF Shown

LEMMA JoinedThrice ==
  ASSUME NEW a \in Shown, NEW b \in Shown, NEW c \in Shown
  PROVE  (a \o b) \o c = a \o (b \o c)
BY DEF Shown

LEMMA SameShown ==
  ASSUME NEW a \in Shown, NEW b \in Shown, Len(a) = Len(b),
         \A i \in 1 .. Len(a) : a[i] = b[i]
  PROVE  a = b
BY DEF Shown

(* An occurrence in a part is one in the whole.                            *)
LEMMA OccursAfter ==
  ASSUME NEW s, Secret(s), NEW a \in Shown, NEW b \in Shown, NEW i \in 1 .. Len(b)
  PROVE  Redaction!Occurs(s, a \o b, Len(a) + i) <=> Redaction!Occurs(s, b, i)
<1>1. /\ Len(a \o b) = Len(a) + Len(b) /\ Len(a) \in Nat /\ Len(b) \in Nat
      /\ \A j \in 1 .. Len(b) : (a \o b)[Len(a) + j] = b[j]
  BY Joined
<1>2. Len(s) \in Nat /\ DOMAIN s = 1 .. Len(s)
  BY DEF Secret
<1>3. Len(a) + i + Len(s) - 1 <= Len(a \o b) <=> i + Len(s) - 1 <= Len(b)
  BY <1>1, <1>2
<1>4. ASSUME i + Len(s) - 1 <= Len(b), NEW k \in DOMAIN s
      PROVE  (a \o b)[Len(a) + i + k - 1] = b[i + k - 1]
  <2>1. i + k - 1 \in 1 .. Len(b) /\ Len(a) + i + k - 1 = Len(a) + (i + k - 1)
    BY <1>1, <1>2, <1>4
  <2> QED
    BY <1>1, <2>1
<1> QED
  BY <1>3, <1>4 DEF Redaction!Occurs

LEMMA OccursBegun ==
  ASSUME NEW s, Secret(s), NEW a \in Shown, NEW b \in Shown, NEW i \in 1 .. Len(a),
         i + Len(s) - 1 <= Len(a)
  PROVE  Redaction!Occurs(s, a \o b, i) <=> Redaction!Occurs(s, a, i)
<1>1. /\ Len(a \o b) = Len(a) + Len(b) /\ Len(a) \in Nat /\ Len(b) \in Nat
      /\ \A j \in 1 .. Len(a) : (a \o b)[j] = a[j]
  BY Joined
<1>2. Len(s) \in Nat /\ DOMAIN s = 1 .. Len(s)
  BY DEF Secret
<1>3. ASSUME NEW k \in DOMAIN s
      PROVE  (a \o b)[i + k - 1] = a[i + k - 1]
  <2>1. i + k - 1 \in 1 .. Len(a)
    BY <1>1, <1>2
  <2> QED
    BY <1>1, <2>1
<1>4. i + Len(s) - 1 <= Len(a \o b)
  BY <1>1, <1>2
<1> QED
  BY <1>3, <1>4 DEF Redaction!Occurs


(* d is e with nothing hidden but what is in a secret.                     *)
HidesSecrets(e, d) ==
  Hides(e, d) /\ \A i \in 1 .. Len(e) : d[i] # e[i] => InSecret(e, i)

LEMMA HidesTwice ==
  ASSUME SecretsAre, NEW e \in Shown, NEW d \in Shown, NEW c \in Shown,
         HidesSecrets(e, d), HidesSecrets(d, c)
  PROVE  HidesSecrets(e, c)
<1>1. Len(e) \in Nat /\ Len(d) = Len(e) /\ Len(c) = Len(e)
  BY DEF Shown, HidesSecrets, Hides
<1>2. Hides(e, c)
  BY <1>1 DEF HidesSecrets, Hides
<1>3. ASSUME NEW i \in 1 .. Len(e), InSecret(d, i)
      PROVE  InSecret(e, i)
  <2>1. PICK s \in Redaction!ToSet(secrets), k \in 1 .. i :
          Redaction!Occurs(s, d, k) /\ i < k + Len(s)
    BY <1>3 DEF InSecret
  <2>2. Redaction!Occurs(s, e, k)
    BY <1>1, <2>1, SecretsListed, OccurredBefore DEF HidesSecrets
  <2> QED
    BY <2>1, <2>2 DEF InSecret
<1> QED
  BY <1>1, <1>2, <1>3 DEF HidesSecrets

LEMMA HidesMore ==
  ASSUME SecretsAre, NEW e \in Shown, NEW d \in Shown, NEW x \in Shown, HidesSecrets(e, d)
  PROVE  HidesSecrets(e \o x, d \o x)
<1>1. /\ Len(e) \in Nat /\ Len(x) \in Nat /\ Len(d) = Len(e)
      /\ Len(e \o x) = Len(e) + Len(x) /\ Len(d \o x) = Len(e) + Len(x)
  BY Joined DEF HidesSecrets, Hides
<1>2. \A i \in 1 .. Len(e) : (e \o x)[i] = e[i] /\ (d \o x)[i] = d[i]
  BY <1>1, Joined
<1>3. \A i \in 1 .. Len(e) + Len(x) : i \notin 1 .. Len(e) => (e \o x)[i] = (d \o x)[i]
  <2> TAKE i \in 1 .. Len(e) + Len(x)
  <2>1. i \notin 1 .. Len(e) => (e \o x)[i] = x[i - Len(e)]
    BY <1>1, Joined
  <2>2. i \notin 1 .. Len(e) => (d \o x)[i] = x[i - Len(d)]
    <3>1. i \in 1 .. Len(d) + Len(x) /\ (i \notin 1 .. Len(e) => i > Len(d))
      BY <1>1
    <3> QED
      BY <3>1, Joined
  <2> QED
    BY <1>1, <2>1, <2>2
<1>4. Hides(e \o x, d \o x)
  BY <1>1, <1>2, <1>3 DEF HidesSecrets, Hides
<1>5. ASSUME NEW i \in 1 .. Len(e), InSecret(e, i)
      PROVE  InSecret(e \o x, i)
  <2>1. PICK s \in Redaction!ToSet(secrets), k \in 1 .. i :
          Redaction!Occurs(s, e, k) /\ i < k + Len(s)
    BY <1>5 DEF InSecret
  <2>2. k \in 1 .. Len(e) /\ k + Len(s) - 1 <= Len(e) /\ Secret(s)
    BY <1>1, <2>1, SecretsListed DEF Redaction!Occurs
  <2>3. Redaction!Occurs(s, e \o x, k)
    BY <2>1, <2>2, OccursBegun
  <2> QED
    BY <2>1, <2>3 DEF InSecret
<1>6. ASSUME NEW i \in 1 .. Len(e) + Len(x), (d \o x)[i] # (e \o x)[i]
      PROVE  InSecret(e \o x, i)
  <2>1. i \in 1 .. Len(e) /\ d[i] # e[i]
    BY <1>2, <1>3, <1>6
  <2> QED
    BY <1>5, <2>1 DEF HidesSecrets
<1> QED
  BY <1>1, <1>4, <1>6 DEF HidesSecrets

LEMMA HidesBehind ==
  ASSUME SecretsAre, NEW a \in Shown, NEW q \in Shown
  PROVE  HidesSecrets(a \o q, a \o Redaction!mask(q))
<1> DEFINE m == Redaction!mask(q)
<1>1. /\ m \in Shown /\ Hides(q, m)
      /\ \A i \in 1 .. Len(q) : m[i] # q[i] => InSecret(q, i)
  BY MaskHides
<1> HIDE DEF m
<1>2. /\ Len(a) \in Nat /\ Len(q) \in Nat /\ Len(m) = Len(q)
      /\ Len(a \o q) = Len(a) + Len(q) /\ Len(a \o m) = Len(a) + Len(q)
  BY <1>1, Joined DEF Hides
<1>3. \A i \in 1 .. Len(a) : (a \o q)[i] = a[i] /\ (a \o m)[i] = a[i]
  BY <1>1, Joined
<1>4. \A i \in 1 .. Len(a) + Len(q) : i \notin 1 .. Len(a) =>
        /\ i - Len(a) \in 1 .. Len(q)
        /\ (a \o q)[i] = q[i - Len(a)] /\ (a \o m)[i] = m[i - Len(a)]
  BY <1>1, <1>2, Joined
<1>5. Hides(a \o q, a \o m)
  BY <1>1, <1>2, <1>3, <1>4 DEF Hides
<1>6. ASSUME NEW i \in 1 .. Len(a) + Len(q), (a \o m)[i] # (a \o q)[i]
      PROVE  InSecret(a \o q, i)
  <2> DEFINE j == i - Len(a)
  <2>1. j \in 1 .. Len(q) /\ InSecret(q, j) /\ i = Len(a) + j
    BY <1>1, <1>2, <1>3, <1>4, <1>6
  <2> HIDE DEF j
  <2>2. PICK s \in Redaction!ToSet(secrets), k \in 1 .. j :
          Redaction!Occurs(s, q, k) /\ j < k + Len(s)
    BY <2>1 DEF InSecret
  <2>3. Secret(s) /\ Len(s) \in Nat /\ k \in 1 .. Len(q)
    BY <1>2, <2>1, <2>2, SecretsListed DEF Secret
  <2>4. Redaction!Occurs(s, a \o q, Len(a) + k)
    BY <2>2, <2>3, OccursAfter
  <2>5. Len(a) + k \in 1 .. i /\ i < Len(a) + k + Len(s)
    BY <1>2, <2>1, <2>2, <2>3
  <2> QED
    BY <2>2, <2>4, <2>5 DEF InSecret
<1> QED
  BY <1>2, <1>5, <1>6 DEF HidesSecrets, m

(* Masking what was held back together with what came leaves no secret,    *)
(* if none was left and enough was held back.                              *)
LEMMA NoneLeftBehind ==
  ASSUME SecretsAre, NEW a \in Shown, NEW p \in Shown, NEW x \in Shown,
         NEW s \in Redaction!ToSet(secrets),
         \/ a = <<>>
         \/ Len(p) = Redaction!keep /\ NoneOf(s, a \o p)
  PROVE  NoneOf(s, a \o Redaction!mask(p \o x))
<1> DEFINE q == p \o x
           m == Redaction!mask(q)
           u == a \o m
           v == a \o q
<1>1. /\ q \in Shown /\ m \in Shown /\ NoneOf(s, m) /\ Len(m) = Len(q) /\ Secret(s)
      /\ Len(s) \in Nat
  <2>1. q \in Shown
    BY Joined
  <2> HIDE DEF q
  <2>2. m \in Shown /\ NoneOf(s, m) /\ Hides(q, m)
    BY <2>1, MaskHides
  <2> HIDE DEF m
  <2>3. Secret(s) /\ Len(s) \in Nat
    BY SecretsListed DEF Secret
  <2> QED
    BY <2>1, <2>2, <2>3 DEF Hides
<1>2. v \in Shown /\ Len(v) \in Nat /\ Hides(v, u) /\ v = (a \o p) \o x
  <2>1. v = (a \o p) \o x
    BY JoinedThrice
  <2> HIDE DEF q
  <2>2. v \in Shown /\ Len(v) \in Nat
    BY <1>1, Joined DEF Shown
  <2>3. HidesSecrets(v, u)
    BY <1>1, HidesBehind
  <2> HIDE DEF u, v
  <2> QED
    BY <2>1, <2>2, <2>3 DEF HidesSecrets
<1> HIDE DEF q, m
<1>3. /\ Len(a) \in Nat /\ Len(m) \in Nat /\ Len(u) = Len(a) + Len(m) /\ Len(v) = Len(u)
  <2>1. Len(u) = Len(a) + Len(m) /\ Len(a) \in Nat /\ Len(m) \in Nat
    BY <1>1, Joined
  <2>2. Len(v) = Len(a) + Len(q)
    BY <1>1, Joined
  <2> QED
    BY <1>1, <2>1, <2>2
<1> HIDE DEF u, v
<1> SUFFICES ASSUME NEW i \in 1 .. Len(u), Redaction!Occurs(s, u, i)
             PROVE  FALSE
  BY DEF NoneOf, u, m, q
<1>4. CASE i \in 1 .. Len(a)
  <2>1. a # <<>>
    BY <1>4
  <2>2. /\ Len(p) = Redaction!keep /\ NoneOf(s, a \o p)
        /\ Len(a \o p) = Len(a) + Len(p) /\ a \o p \in Shown /\ Len(p) \in Nat
    BY <2>1, Joined
  <2>3. Redaction!Occurs(s, v, i)
    BY <1>1, <1>2, <1>3, OccurredBefore
  <2>4. i \in 1 .. Len(a \o p) /\ i + Len(s) - 1 <= Len(a \o p)
    BY <1>1, <1>3, <1>4, <2>2, KeepIsEnough
  <2>5. Redaction!Occurs(s, a \o p, i)
    BY <1>1, <1>2, <2>2, <2>3, <2>4, OccursBegun
  <2> QED
    BY <2>2, <2>4, <2>5 DEF NoneOf
<1>5. CASE i \notin 1 .. Len(a)
  <2>1. i - Len(a) \in 1 .. Len(m) /\ i = Len(a) + (i - Len(a))
    BY <1>3, <1>5
  <2>2. Redaction!Occurs(s, m, i - Len(a))
    BY <1>1, <2>1, OccursAfter DEF u
  <2> QED
    BY <1>1, <2>1, <2>2 DEF NoneOf
<1> QED
  BY <1>4, <1>5


(* With one secret, masking again what was masked and what came since is   *)
(* masking everything at once: as much as one element less than the secret *)
(* is held back, an occurrence that begins before is all there.            *)
HeldBackOf(s, w, a, p) ==
  a \o p = Redaction!MaskOne(s, w) /\ Len(p) = Len(s) - 1
MaskedAtOnce(s, w, a, p, x) ==
  a \o Redaction!MaskOne(s, p \o x) = Redaction!MaskOne(s, w \o x)

LEMMA MaskAgain ==
  ASSUME NEW s, Secret(s), NEW w \in Shown, NEW a \in Shown, NEW p \in Shown, NEW x \in Shown,
         HeldBackOf(s, w, a, p)
  PROVE  MaskedAtOnce(s, w, a, p, x)
<1> DEFINE n == Len(s)
           L == Len(a)
           y == p \o x
           z == w \o x
           W == Redaction!Found(s, w)
           Y == Redaction!Found(s, y)
           Z == Redaction!Found(s, z)
           My == Redaction!MaskOne(s, y)
           Mz == Redaction!MaskOne(s, z)
<1>0. a \o p = Redaction!MaskOne(s, w) /\ Len(p) = Len(s) - 1
  BY DEF HeldBackOf
<1>1. /\ n \in Nat \ {0} /\ DOMAIN s = 1 .. n /\ s[1] # Mask /\ L \in Nat
  BY DEF Secret, Shown
<1>2. /\ Len(w) = L + n - 1 /\ Len(w) \in Nat
      /\ \A i \in 1 .. Len(w) : Redaction!MaskOne(s, w)[i] =
           IF W[i] # 0 /\ i < W[i] + n THEN Mask ELSE w[i]
  <2>1. Len(a \o p) = L + Len(p)
    BY Joined
  <2> QED
    BY <1>0, <1>1, <2>1, MaskOneParts DEF Shown
<1>3. /\ y \in Shown /\ Len(y) = n - 1 + Len(x) /\ Len(x) \in Nat
      /\ \A j \in 1 .. n - 1 : y[j] = p[j]
      /\ \A j \in 1 .. n - 1 + Len(x) : j > n - 1 => y[j] = x[j - (n - 1)]
  <2>1. /\ y \in Shown /\ Len(y) = Len(p) + Len(x) /\ Len(x) \in Nat
        /\ \A j \in 1 .. Len(p) : y[j] = p[j]
        /\ \A j \in 1 .. Len(p) + Len(x) : j > Len(p) => y[j] = x[j - Len(p)]
    BY Joined
  <2> HIDE DEF y
  <2> QED
    BY <1>0, <2>1
<1>4. /\ z \in Shown /\ Len(z) = L + n - 1 + Len(x)
      /\ \A i \in 1 .. L + n - 1 : z[i] = w[i]
      /\ \A i \in 1 .. L + n - 1 + Len(x) : i > L + n - 1 => z[i] = x[i - (L + n - 1)]
  <2>1. /\ z \in Shown /\ Len(z) = Len(w) + Len(x)
        /\ \A i \in 1 .. Len(w) : z[i] = w[i]
        /\ \A i \in 1 .. Len(w) + Len(x) : i > Len(w) => z[i] = x[i - Len(w)]
    BY Joined
  <2> HIDE DEF z
  <2> QED
    BY <1>2, <2>1
<1>5. /\ \A i \in 1 .. L : a[i] = Redaction!MaskOne(s, w)[i]
      /\ \A j \in 1 .. n - 1 : p[j] = Redaction!MaskOne(s, w)[L + j]
  <2>1. /\ \A i \in 1 .. L : (a \o p)[i] = a[i]
        /\ \A j \in 1 .. Len(p) : (a \o p)[L + j] = p[j]
    BY Joined
  <2> QED
    BY <1>0, <2>1
<1>6. /\ W[0] = 0 /\ \A i \in 1 .. Len(w) : W[i] = NextFound(s, w, W[i - 1], i)
      /\ Y[0] = 0 /\ \A i \in 1 .. Len(y) : Y[i] = NextFound(s, y, Y[i - 1], i)
      /\ Z[0] = 0 /\ \A i \in 1 .. Len(z) : Z[i] = NextFound(s, z, Z[i - 1], i)
  <2>1. Len(w) \in Nat /\ Len(y) \in Nat /\ Len(z) \in Nat
    BY <1>1, <1>2, <1>3, <1>4
  <2>2. W[0] = 0 /\ \A i \in 1 .. Len(w) : W[i] = NextFound(s, w, W[i - 1], i)
    BY <2>1, FoundUnfolds
  <2>3. Y[0] = 0 /\ \A i \in 1 .. Len(y) : Y[i] = NextFound(s, y, Y[i - 1], i)
    BY <2>1, FoundUnfolds
  <2>4. Z[0] = 0 /\ \A i \in 1 .. Len(z) : Z[i] = NextFound(s, z, Z[i - 1], i)
    BY <2>1, FoundUnfolds
  <2> QED
    BY <2>2, <2>3, <2>4
<1>7. /\ \A i \in 0 .. Len(w) : W[i] \in 0 .. i
      /\ \A j \in 0 .. Len(y) : Y[j] \in 0 .. j
  <2>1. Len(s) \in Nat /\ Len(w) \in Nat /\ Len(y) \in Nat
    BY <1>1, <1>2, <1>3
  <2>2. \A i \in 0 .. Len(w) : W[i] \in 0 .. i
    BY <2>1, FoundRange
  <2>3. \A j \in 0 .. Len(y) : Y[j] \in 0 .. j
    BY <2>1, FoundRange
  <2> QED
    BY <2>2, <2>3
<1>8. /\ Len(My) = Len(y) /\ My \in Shown
      /\ \A j \in 1 .. Len(y) : My[j] = IF Y[j] # 0 /\ j < Y[j] + n THEN Mask ELSE y[j]
  BY <1>3, MaskOneParts
<1>9. /\ Len(Mz) = Len(z) /\ Mz \in Shown
      /\ \A i \in 1 .. Len(z) : Mz[i] = IF Z[i] # 0 /\ i < Z[i] + n THEN Mask ELSE z[i]
  BY <1>4, MaskOneParts
<1> DEFINE l == W[L]
<1>10. \A i \in 1 .. L : Redaction!Occurs(s, z, i) <=> Redaction!Occurs(s, w, i)
  <2> TAKE i \in 1 .. L
  <2>1. i \in 1 .. Len(w) /\ i + Len(s) - 1 <= Len(w)
    BY <1>1, <1>2
  <2> QED
    BY <2>1, OccursBegun
<1>11. \A i \in 1 .. Len(w) : i > L => ~Redaction!Occurs(s, w, i)
  BY <1>1, <1>2 DEF Redaction!Occurs
<1> HIDE DEF W, Y, Z, y, z, My, Mz
<1>12. \A i \in 0 .. L : Z[i] = W[i]
  <2> DEFINE Bad == {i \in 0 .. L : Z[i] # W[i]}
  <2> SUFFICES ASSUME Bad # {} PROVE FALSE
    OBVIOUS
  <2>1. PICK m \in Bad : \A k \in Bad : m <= k
    <3>1. Bad \in SUBSET Nat
      BY <1>1
    <3> HIDE DEF Bad
    <3> QED
      BY <3>1, LeastNumber
  <2>2. m \in 1 .. L /\ m - 1 \in 0 .. L /\ m - 1 \notin Bad
    BY <1>1, <1>6, <2>1
  <2>3. Z[m - 1] = W[m - 1]
    BY <2>2
  <2>4. m \in 1 .. Len(w) /\ m \in 1 .. Len(z)
    BY <1>1, <1>2, <1>3, <1>4, <2>2
  <2>5. Z[m] = W[m]
    BY <1>6, <1>10, <2>2, <2>3, <2>4 DEF NextFound
  <2> QED
    BY <2>1, <2>5
<1>13. \A i \in L .. Len(w) : W[i] = l
  <2> DEFINE Bad == {i \in L .. Len(w) : W[i] # l}
  <2> SUFFICES ASSUME Bad # {} PROVE FALSE
    OBVIOUS
  <2>1. PICK m \in Bad : \A k \in Bad : m <= k
    <3>1. Bad \in SUBSET Nat
      BY <1>1, <1>2
    <3> HIDE DEF Bad
    <3> QED
      BY <3>1, LeastNumber
  <2>2. m # L /\ m \in L .. Len(w)
    BY <2>1
  <2>3. m - 1 \in L .. Len(w) /\ m - 1 \notin Bad /\ m \in 1 .. Len(w) /\ m > L
    BY <1>1, <1>2, <2>1, <2>2
  <2>4. W[m - 1] = l
    BY <2>3
  <2>5. W[m] = l
    BY <1>6, <1>11, <2>3, <2>4 DEF NextFound
  <2> QED
    BY <2>1, <2>5
<1>14. l \in 0 .. L
  BY <1>1, <1>2, <1>7
<1> HIDE DEF l
<1>15. ASSUME NEW j \in 1 .. Len(y)
       PROVE  y[j] = IF l # 0 /\ L + j < l + n THEN Mask ELSE z[L + j]
  <2>1. CASE j <= n - 1
    <3>1. j \in 1 .. n - 1 /\ L + j \in 1 .. Len(w) /\ L + j \in L .. Len(w)
          /\ L + j \in 1 .. L + n - 1
      BY <1>1, <1>2, <2>1
    <3>2. y[j] = Redaction!MaskOne(s, w)[L + j] /\ z[L + j] = w[L + j] /\ W[L + j] = l
      BY <1>3, <1>4, <1>5, <1>13, <3>1
    <3> QED
      BY <1>2, <3>1, <3>2
  <2>2. CASE j > n - 1
    <3>1. /\ L + j \in 1 .. L + n - 1 + Len(x) /\ L + j > L + n - 1
          /\ L + j - (L + n - 1) = j - (n - 1) /\ ~(L + j < l + n)
          /\ j \in 1 .. n - 1 + Len(x)
      BY <1>1, <1>3, <1>14, <2>2
    <3> QED
      BY <1>3, <1>4, <2>2, <3>1
  <2> QED
    BY <1>1, <1>3, <2>1, <2>2
<1>16. ASSUME NEW j \in 1 .. Len(y)
       PROVE  Redaction!Occurs(s, y, j) <=>
                Redaction!Occurs(s, z, L + j) /\ (l = 0 \/ l + n <= L + j)
  <2>1. j + n - 1 <= Len(y) <=> L + j + n - 1 <= Len(z)
    BY <1>1, <1>3, <1>4
  <2>2. ASSUME j + n - 1 <= Len(y), l = 0 \/ l + n <= L + j, NEW k \in 1 .. n
        PROVE  y[j + k - 1] = z[L + j + k - 1]
    <3>1. j + k - 1 \in 1 .. Len(y) /\ L + (j + k - 1) = L + j + k - 1
          /\ ~(l # 0 /\ L + (j + k - 1) < l + n)
      BY <1>1, <1>3, <1>14, <2>2
    <3> QED
      BY <1>15, <3>1
  <2>3. ASSUME Redaction!Occurs(s, y, j)
        PROVE  l = 0 \/ l + n <= L + j
    <3>1. y[j + 1 - 1] = s[1]
      BY <1>1, <2>3 DEF Redaction!Occurs
    <3>2. y[j] # Mask
      BY <1>1, <3>1
    <3> QED
      BY <1>1, <1>14, <1>15, <3>2
  <2>4. ASSUME Redaction!Occurs(s, y, j)
        PROVE  Redaction!Occurs(s, z, L + j)
    BY <1>1, <2>1, <2>2, <2>3, <2>4 DEF Redaction!Occurs
  <2>5. ASSUME Redaction!Occurs(s, z, L + j), l = 0 \/ l + n <= L + j
        PROVE  Redaction!Occurs(s, y, j)
    BY <1>1, <2>1, <2>2, <2>5 DEF Redaction!Occurs
  <2> QED
    BY <2>3, <2>4, <2>5
<1> DEFINE C(j) == /\ Y[j] # 0 => Z[L + j] = L + Y[j] /\ (l = 0 \/ L + Y[j] >= l + n)
                   /\ Y[j] = 0 => Z[L + j] = l
<1>17. C(0)
  BY <1>1, <1>6, <1>12 DEF l
<1>18. ASSUME NEW j \in 1 .. Len(y), C(j - 1)
       PROVE  C(j)
  <2>1. /\ L + j \in 1 .. Len(z) /\ L + (j - 1) = L + j - 1
        /\ Y[j - 1] \in Nat /\ j \in Nat /\ Len(s) = n
    BY <1>1, <1>3, <1>4, <1>7
  <2>2. /\ Y[j] = NextFound(s, y, Y[j - 1], j)
        /\ Z[L + j] = NextFound(s, z, Z[L + j - 1], L + j)
    BY <1>6, <2>1
  <2>3. CASE Y[j - 1] = 0
    <3>1. Z[L + j - 1] = l
      BY <1>18, <2>1, <2>3
    <3>2. CASE Redaction!Occurs(s, y, j)
      <4>1. Y[j] = j /\ Z[L + j] = L + j /\ (l = 0 \/ l + n <= L + j)
        BY <1>16, <2>1, <2>2, <2>3, <3>1, <3>2 DEF NextFound
      <4> QED
        BY <1>1, <1>14, <2>1, <4>1
    <3>3. CASE ~Redaction!Occurs(s, y, j)
      <4>1. Y[j] = 0 /\ Z[L + j] = l
        BY <1>16, <2>1, <2>2, <2>3, <3>1, <3>3 DEF NextFound
      <4> QED
        BY <4>1
    <3> QED
      BY <3>2, <3>3
  <2>4. CASE Y[j - 1] # 0
    <3>1. Z[L + j - 1] = L + Y[j - 1] /\ (l = 0 \/ L + Y[j - 1] >= l + n)
          /\ L + Y[j - 1] # 0
      BY <1>1, <1>18, <2>1, <2>4
    <3>2. CASE Y[j - 1] + n <= j /\ Redaction!Occurs(s, y, j)
      <4>1. Y[j] = j
        BY <2>1, <2>2, <3>2 DEF NextFound
      <4>2. L + Y[j - 1] + n <= L + j /\ (l = 0 \/ l + n <= L + j)
        BY <1>1, <1>14, <2>1, <3>1, <3>2
      <4>3. Z[L + j] = L + j
        BY <1>16, <2>1, <2>2, <3>1, <3>2, <4>2 DEF NextFound
      <4> QED
        BY <1>1, <1>14, <2>1, <4>1, <4>2, <4>3
    <3>3. CASE ~(Y[j - 1] + n <= j /\ Redaction!Occurs(s, y, j))
      <4>1. Y[j] = Y[j - 1]
        BY <2>1, <2>2, <2>4, <3>3 DEF NextFound
      <4>2. ~(L + Y[j - 1] + n <= L + j /\ Redaction!Occurs(s, z, L + j))
        <5>1. Y[j - 1] + n <= j => l = 0 \/ l + n <= L + j
          BY <1>1, <1>14, <2>1, <3>1
        <5>2. L + Y[j - 1] + n <= L + j <=> Y[j - 1] + n <= j
          BY <1>1, <2>1
        <5> QED
          BY <1>16, <3>3, <5>1, <5>2
      <4>3. Z[L + j] = Z[L + j - 1]
        BY <2>1, <2>2, <3>1, <4>2 DEF NextFound
      <4> QED
        BY <2>4, <3>1, <4>1, <4>3
    <3> QED
      BY <3>2, <3>3
  <2> QED
    BY <2>3, <2>4
<1> HIDE DEF C
<1>19. \A j \in 0 .. Len(y) : C(j)
  <2> DEFINE Bad == {j \in 0 .. Len(y) : ~ C(j)}
  <2> SUFFICES ASSUME Bad # {} PROVE FALSE
    OBVIOUS
  <2>1. PICK m \in Bad : \A k \in Bad : m <= k
    <3>1. Bad \in SUBSET Nat
      BY <1>1, <1>3
    <3> HIDE DEF Bad
    <3> QED
      BY <3>1, LeastNumber
  <2>2. m \in 1 .. Len(y) /\ m - 1 \in 0 .. Len(y) /\ m - 1 \notin Bad
    BY <1>1, <1>3, <1>17, <2>1
  <2> QED
    BY <1>18, <2>1, <2>2
<1>20. /\ a \o My \in Shown /\ Len(a \o My) = Len(Mz)
       /\ \A i \in 1 .. L : (a \o My)[i] = a[i]
       /\ \A j \in 1 .. Len(y) : (a \o My)[L + j] = My[j]
  <2>1. /\ a \o My \in Shown /\ Len(a \o My) = Len(a) + Len(My)
        /\ \A i \in 1 .. L : (a \o My)[i] = a[i]
        /\ \A j \in 1 .. Len(My) : (a \o My)[L + j] = My[j]
    BY <1>8, Joined
  <2> QED
    BY <1>1, <1>3, <1>4, <1>8, <1>9, <2>1
<1>21. ASSUME NEW i \in 1 .. L
       PROVE  (a \o My)[i] = Mz[i]
  <2>1. i \in 1 .. Len(w) /\ i \in 1 .. Len(z) /\ i \in 1 .. L + n - 1 /\ i \in 0 .. L
    BY <1>1, <1>2, <1>3, <1>4
  <2>2. (a \o My)[i] = IF W[i] # 0 /\ i < W[i] + n THEN Mask ELSE w[i]
    BY <1>2, <1>5, <1>20, <2>1
  <2>3. Mz[i] = IF W[i] # 0 /\ i < W[i] + n THEN Mask ELSE w[i]
    BY <1>4, <1>9, <1>12, <2>1
  <2> QED
    BY <2>2, <2>3
<1>22. ASSUME NEW j \in 1 .. Len(y)
       PROVE  (a \o My)[L + j] = Mz[L + j]
  <2>1. /\ L + j \in 1 .. Len(z) /\ Y[j] \in Nat /\ C(j) /\ j \in Nat
    BY <1>1, <1>3, <1>4, <1>7, <1>19
  <2>2. (a \o My)[L + j] = IF Y[j] # 0 /\ j < Y[j] + n THEN Mask ELSE y[j]
    BY <1>8, <1>20
  <2>3. Mz[L + j] = IF Z[L + j] # 0 /\ L + j < Z[L + j] + n THEN Mask ELSE z[L + j]
    BY <1>9, <2>1
  <2>4. y[j] = IF l # 0 /\ L + j < l + n THEN Mask ELSE z[L + j]
    BY <1>15
  <2>5. CASE Y[j] = 0
    BY <2>1, <2>2, <2>3, <2>4, <2>5 DEF C
  <2>6. CASE Y[j] # 0
    <3>1. Z[L + j] = L + Y[j] /\ (l = 0 \/ L + Y[j] >= l + n)
      BY <2>1, <2>6 DEF C
    <3>2. Z[L + j] # 0 /\ (L + j < Z[L + j] + n <=> j < Y[j] + n)
      BY <1>1, <2>1, <2>6, <3>1
    <3>3. ~(j < Y[j] + n) => y[j] = z[L + j]
      BY <1>1, <1>14, <2>1, <2>4, <3>1
    <3> QED
      BY <2>2, <2>3, <2>6, <3>2, <3>3
  <2> QED
    BY <2>5, <2>6
<1>23. \A i \in 1 .. Len(Mz) : i \notin 1 .. L => i - L \in 1 .. Len(y) /\ L + (i - L) = i
  BY <1>1, <1>3, <1>4, <1>9
<1>24. \A i \in 1 .. Len(Mz) : (a \o My)[i] = Mz[i]
  BY <1>21, <1>22, <1>23
<1>25. a \o My = Mz
  BY <1>9, <1>20, <1>24, SameShown
<1> QED
  BY <1>25 DEF MaskedAtOnce, My, Mz, y, z


-----------------------------------------------------------------------------
(* Redaction: the invariant.                                               *)

LEMMA MaskOfOne ==
  ASSUME SecretsAre, Len(secrets) = 1, NEW data
  PROVE  Redaction!mask(data) = Redaction!MaskOne(secrets[1], data)
<1>1. PICK m : MaskStages(data, m)
  BY MaskSteps DEF SecretsAre
<1>2. 1 \in 1 .. Len(secrets)
  OBVIOUS
<1>3. m[1] = Redaction!MaskOne(secrets[1], m[1 - 1]) /\ Redaction!mask(data) = m[1]
  BY <1>1, <1>2 DEF MaskStages
<1> QED
  BY <1>1, <1>3 DEF MaskStages

LEMMA CutJoined ==
  ASSUME NEW a \in Shown, NEW m \in Shown, NEW c \in 0 .. Len(m)
  PROVE  /\ SubSeq(m, 1, c) \in Shown /\ Len(SubSeq(m, 1, c)) = c
         /\ SubSeq(m, c + 1, Len(m)) \in Shown
         /\ Len(SubSeq(m, c + 1, Len(m))) = Len(m) - c
         /\ (a \o SubSeq(m, 1, c)) \o SubSeq(m, c + 1, Len(m)) = a \o m
<1> DEFINE h == SubSeq(m, 1, c)
           t == SubSeq(m, c + 1, Len(m))
<1>1. Len(m) \in Nat /\ c \in Nat /\ c <= Len(m) /\ \A i \in 1 .. Len(m) : m[i] \in Bytes \cup {Mask}
  BY DEF Shown
<1>2. /\ h \in Shown /\ Len(h) = c /\ \A i \in 1 .. c : h[i] = m[i]
  BY <1>1 DEF Shown
<1>3. /\ t \in Shown /\ Len(t) = Len(m) - c /\ \A i \in 1 .. Len(m) - c : t[i] = m[c + i]
  BY <1>1 DEF Shown
<1> HIDE DEF h, t
<1>4. h \o t = m
  <2>1. /\ h \o t \in Shown /\ Len(h \o t) = Len(m)
        /\ \A i \in 1 .. c : (h \o t)[i] = h[i]
        /\ \A i \in 1 .. Len(m) : i > c => i - c \in 1 .. Len(m) - c /\ (h \o t)[i] = t[i - c]
    <3>1. /\ h \o t \in Shown /\ Len(h \o t) = Len(h) + Len(t)
          /\ \A i \in 1 .. Len(h) : (h \o t)[i] = h[i]
          /\ \A i \in 1 .. Len(h) + Len(t) :
               i > Len(h) => i - Len(h) \in 1 .. Len(t) /\ (h \o t)[i] = t[i - Len(h)]
      BY <1>2, <1>3, Joined
    <3>2. Len(h) + Len(t) = Len(m) /\ Len(h) = c /\ Len(t) = Len(m) - c
      BY <1>1, <1>2, <1>3
    <3>3. ASSUME NEW i \in 1 .. Len(m), i > c
          PROVE  i - c \in 1 .. Len(m) - c /\ (h \o t)[i] = t[i - c]
      <4>1. i \in 1 .. Len(h) + Len(t) /\ i > Len(h)
        BY <3>2, <3>3
      <4>2. (h \o t)[i] = t[i - Len(h)]
        BY <3>1, <4>1
      <4> QED
        BY <1>1, <3>2, <3>3, <4>2
    <3> QED
      BY <3>1, <3>2, <3>3
  <2>2. \A i \in 1 .. Len(m) : (h \o t)[i] = m[i]
    <3> TAKE i \in 1 .. Len(m)
    <3>1. CASE i <= c
      BY <1>1, <1>2, <2>1, <3>1
    <3>2. CASE i > c
      <4>1. c + (i - c) = i
        BY <1>1
      <4> QED
        BY <1>3, <2>1, <3>2, <4>1
    <3>3. i <= c \/ i > c
      BY <1>1
    <3> QED
      BY <3>1, <3>2, <3>3
  <2> QED
    BY <2>1, <2>2, SameShown
<1>5. (a \o h) \o t = a \o (h \o t)
  BY <1>2, <1>3, JoinedThrice
<1> QED
  BY <1>2, <1>3, <1>4, <1>5 DEF h, t

LEMMA RedactorTypes ==
  ASSUME Redaction!TypeOK
  PROVE  /\ SecretsAre /\ written \in Shown /\ pending \in Shown /\ safe \in Shown
         /\ written \in Seq(Bytes) /\ ended \in BOOLEAN
         /\ Len(safe) + Len(pending) = Len(written)
         /\ Len(safe) \in Nat /\ Len(pending) \in Nat /\ Len(written) \in Nat
BY SecretTypes DEF Redaction!TypeOK, Shown

LEMMA NothingShown ==
  ASSUME NEW m \in Shown
  PROVE  <<>> \in Shown /\ <<>> \o m = m /\ m \o <<>> = m /\ (m = <<>> <=> Len(m) = 0)
BY DEF Shown

(* What masking makes of the log so far and of what came.                  *)
LEMMA MaskedLog ==
  ASSUME Redaction!IInv, ~ended, NEW x \in Seq(Bytes)
  PROVE  LET u == safe \o Redaction!mask(pending \o x)
         IN /\ written \o x \in Shown /\ u \in Shown
            /\ Len(Redaction!mask(pending \o x)) = Len(pending) + Len(x)
            /\ Redaction!mask(pending \o x) \in Shown
            /\ \A s \in Redaction!ToSet(secrets) : NoneOf(s, u)
            /\ HidesSecrets(written \o x, u)
            /\ Len(secrets) = 1 => u = Redaction!mask(written \o x)
<1> DEFINE q == pending \o x
           m == Redaction!mask(q)
           v == written \o x
<1>1. Redaction!TypeOK /\ Redaction!HeldBack /\ Redaction!NoneIsLeft /\ Redaction!OneIsMasked
      /\ Redaction!HiddenIsSecret
  BY DEF Redaction!IInv
<1>2. /\ SecretsAre /\ written \in Shown /\ pending \in Shown /\ safe \in Shown
      /\ Len(safe) + Len(pending) = Len(written)
      /\ Len(safe) \in Nat /\ Len(pending) \in Nat /\ Len(written) \in Nat
  BY <1>1, RedactorTypes
<1>3. x \in Shown /\ Len(x) \in Nat
  BY DEF Shown
<1>4. q \in Shown /\ Len(q) = Len(pending) + Len(x)
  BY <1>2, <1>3, Joined
<1>5. v \in Shown
  BY <1>2, <1>3, Joined
<1>6. m \in Shown /\ Len(m) = Len(q)
  <2> HIDE DEF q
  <2> QED
    BY <1>2, <1>4, MaskHides DEF Hides
<1>7. safe \o m \in Shown
  <2> HIDE DEF m
  <2> QED
    BY <1>2, <1>6, Joined
<1>8. safe # <<>> => Len(pending) = Redaction!keep
  BY <1>1 DEF Redaction!HeldBack
<1>9. safe = <<>> => pending = written
  BY <1>1 DEF Redaction!HeldBack
<1> DEFINE T == safe \o pending
<1>10. T \in Shown /\ Len(T) = Len(written)
  BY <1>2, Joined
<1>11. ASSUME NEW s \in Redaction!ToSet(secrets)
       PROVE  NoneOf(s, safe \o m)
  <2>1. safe # <<>> => NoneOf(s, T)
    <3>1. DOMAIN T = 1 .. Len(T)
      BY <1>10 DEF Shown
    <3> QED
      BY <1>1, <3>1 DEF Redaction!NoneIsLeft, Redaction!Masked, NoneOf
  <2> QED
    BY <1>2, <1>3, <1>8, <2>1, NoneLeftBehind
<1>12. HidesSecrets(written, T)
  <2>1. DOMAIN T = 1 .. Len(written)
    BY <1>10 DEF Shown
  <2> QED
    BY <1>1, <1>2, <1>10, <2>1
       DEF Redaction!HiddenIsSecret, Redaction!Masked, HidesSecrets, Hides, InSecret
<1>13. HidesSecrets(v, safe \o m)
  <2>1. HidesSecrets(v, T \o x)
    BY <1>2, <1>3, <1>10, <1>12, HidesMore
  <2>2. T \o x = safe \o q /\ T \o x \in Shown
    <3>1. T \o x = safe \o q
      BY <1>2, <1>3, JoinedThrice
    <3> HIDE DEF T
    <3>2. T \o x \in Shown
      BY <1>3, <1>10, Joined
    <3> QED
      BY <3>1, <3>2
  <2>3. HidesSecrets(safe \o q, safe \o m)
    BY <1>2, <1>4, HidesBehind
  <2> HIDE DEF q, m, v, T
  <2> QED
    BY <1>2, <1>5, <1>7, <2>1, <2>2, <2>3, HidesTwice
<1>14. ASSUME Len(secrets) = 1
       PROVE  safe \o m = Redaction!mask(v)
  <2>1. CASE safe = <<>>
    <3>1. q = v
      BY <1>9, <2>1
    <3> HIDE DEF q, v
    <3> QED
      BY <1>6, <2>1, <3>1, NothingShown DEF m
  <2>2. CASE safe # <<>>
    <3>1. T = Redaction!mask(written)
      BY <1>1, <1>14, <2>2 DEF Redaction!OneIsMasked, Redaction!Masked
    <3>2. /\ Redaction!mask(written) = Redaction!MaskOne(secrets[1], written)
          /\ m = Redaction!MaskOne(secrets[1], q)
          /\ Redaction!mask(v) = Redaction!MaskOne(secrets[1], v)
      BY <1>2, <1>14, MaskOfOne
    <3>3. Secret(secrets[1]) /\ Len(pending) = Len(secrets[1]) - 1
      BY <1>2, <1>8, <1>14, <2>2, KeepIsEnough DEF SecretsAre
    <3>4. safe \o Redaction!MaskOne(secrets[1], q) = Redaction!MaskOne(secrets[1], v)
      <4>1. safe \o pending = Redaction!MaskOne(secrets[1], written)
        BY <3>1, <3>2
      <4> DEFINE s == secrets[1]
      <4> HIDE DEF s
      <4>2. Secret(s) /\ safe \o pending = Redaction!MaskOne(s, written)
            /\ Len(pending) = Len(s) - 1
        BY <3>3, <4>1 DEF s
      <4>3. safe \o Redaction!MaskOne(s, pending \o x) = Redaction!MaskOne(s, written \o x)
        <5>1. /\ written \in Shown /\ safe \in Shown /\ pending \in Shown /\ x \in Shown
              /\ Secret(s) /\ HeldBackOf(s, written, safe, pending)
          BY <1>2, <1>3, <4>2 DEF HeldBackOf
        <5>2. MaskedAtOnce(s, written, safe, pending, x)
          BY <5>1, MaskAgain
        <5> QED
          BY <5>2 DEF MaskedAtOnce
      <4> QED
        BY <4>3 DEF s
    <3> QED
      BY <3>2, <3>4
  <2> QED
    BY <2>1, <2>2
<1> QED
  BY <1>4, <1>5, <1>6, <1>7, <1>11, <1>13, <1>14

LEMMA RedactionInitially == Init => Redaction!IInv
<1> SUFFICES ASSUME Redaction!Init PROVE Redaction!IInv
  BY DEF Init
<1>1. /\ written = <<>> /\ pending = <<>> /\ safe = <<>> /\ ended = FALSE
      /\ Len(safe) = 0 /\ Len(pending) = 0 /\ safe \o pending = <<>>
      /\ DOMAIN (safe \o pending) = {}
  BY DEF Redaction!Init
<1>2. Redaction!TypeOK
  <2>1. secrets \in UNION {Redaction!SetToSeqs(S) : S \in SecretsOfJobs}
    BY DEF Redaction!Init
  <2>2. /\ written \in Seq(Bytes) /\ pending \in Seq(Bytes \cup {Mask})
        /\ safe \in Seq(Bytes \cup {Mask}) /\ Len(written) = 0
    BY <1>1
  <2>3. ended \in BOOLEAN
    BY <1>1, Zenon
  <2>4. Len(safe) = 0 /\ Len(pending) = 0 /\ Len(written) = 0
    BY <1>1, Zenon
  <2>5. Len(safe) + Len(pending) = Len(written)
    BY <2>4
  <2> QED
    BY <2>1, <2>2, <2>3, <2>5 DEF Redaction!TypeOK
<1>3. /\ Redaction!HeldBack /\ Redaction!NoneIsLeft /\ Redaction!OneIsMasked
      /\ Redaction!HiddenIsSecret
  BY <1>1 DEF Redaction!HeldBack, Redaction!NoneIsLeft, Redaction!OneIsMasked,
     Redaction!HiddenIsSecret, Redaction!Masked
<1> QED
  BY <1>2, <1>3 DEF Redaction!IInv

(* The invariant in a state reached by masking everything.                 *)
LEMMA RedactedState ==
  ASSUME Redaction!IInv, ~ended, NEW x \in Seq(Bytes), UNCHANGED secrets,
         written' = written \o x,
         safe' \in Shown, pending' \in Shown, ended' \in BOOLEAN,
         safe' \o pending' = safe \o Redaction!mask(pending \o x),
         ended' => pending' = <<>>,
         ~ended' => safe' # <<>> /\ Len(pending') = Redaction!keep
  PROVE  Redaction!IInv'
<1> DEFINE u == safe \o Redaction!mask(pending \o x)
<1>1. /\ written' \in Shown /\ u \in Shown
      /\ \A s \in Redaction!ToSet(secrets) : NoneOf(s, u)
      /\ HidesSecrets(written', u)
      /\ Len(secrets) = 1 => u = Redaction!mask(written')
  BY MaskedLog
<1>2. safe' \o pending' = u
  OBVIOUS
<1> HIDE DEF u
<1>3. /\ Len(u) = Len(written') /\ DOMAIN u = 1 .. Len(u)
      /\ Len(safe') + Len(pending') = Len(u)
  <2>1. Len(safe' \o pending') = Len(safe') + Len(pending')
    BY Joined
  <2> QED
    BY <1>1, <1>2, <2>1 DEF HidesSecrets, Hides, Shown
<1>4. Redaction!TypeOK
  BY DEF Redaction!IInv
<1>5. Redaction!TypeOK'
  <2>1. written' \in Seq(Bytes)
    BY <1>4 DEF Redaction!TypeOK
  <2>2. secrets' \in UNION {Redaction!SetToSeqs(S) : S \in SecretsOfJobs}
    BY <1>4 DEF Redaction!TypeOK
  <2> QED
    BY <1>3, <2>1, <2>2 DEF Redaction!TypeOK, Shown
<1>6. Redaction!keep' = Redaction!keep
  BY DEF Redaction!keep, Redaction!max
<1>7. Redaction!HeldBack'
  <2>1. safe' = <<>> => pending' = written'
    <3>1. ASSUME safe' = <<>>
          PROVE  pending' = <<>> /\ written' = <<>>
      <4>1. ended' /\ pending' = <<>>
        BY <3>1
      <4>2. Len(written') = 0
        BY <1>3, <3>1, <4>1
      <4> QED
        BY <1>1, <4>1, <4>2, NothingShown
    <3> QED
      BY <3>1
  <2> QED
    BY <1>6, <2>1 DEF Redaction!HeldBack
<1>8. Redaction!NoneIsLeft'
  BY <1>1, <1>2, <1>3 DEF Redaction!NoneIsLeft, Redaction!Masked, NoneOf
<1>9. Redaction!OneIsMasked'
  <2>1. Redaction!mask(written)' = Redaction!mask(written')
    BY DEF Redaction!mask, Redaction!FoldLeft, Redaction!MapThenFoldSet
  <2> QED
    BY <1>1, <1>2, <2>1 DEF Redaction!OneIsMasked, Redaction!Masked
<1>10. Redaction!HiddenIsSecret'
  BY <1>1, <1>2, <1>3
     DEF Redaction!HiddenIsSecret, Redaction!Masked, HidesSecrets, Hides, InSecret
<1> QED
  BY <1>5, <1>7, <1>8, <1>9, <1>10 DEF Redaction!IInv

LEMMA FrameStep ==
  ASSUME Redaction!IInv, Redaction!Frame
  PROVE  Redaction!IInv'
<1>1. PICK n \in 1 .. MaxLog - Len(written) : \E data \in [1 .. n -> Bytes] :
        written' = written \o data /\ Redaction!Push(data)
  BY DEF Redaction!Frame
<1>2. PICK x \in [1 .. n -> Bytes] : written' = written \o x /\ Redaction!Push(x)
  BY <1>1
<1>3. Redaction!TypeOK /\ ~ended /\ UNCHANGED <<secrets, ended>> /\ Redaction!HeldBack
  BY DEF Redaction!Frame, Redaction!IInv
<1>4. /\ SecretsAre /\ written \in Shown /\ pending \in Shown /\ safe \in Shown
      /\ Len(safe) + Len(pending) = Len(written) /\ ended \in BOOLEAN
      /\ Len(safe) \in Nat /\ Len(pending) \in Nat /\ Len(written) \in Nat
  BY <1>3, RedactorTypes
<1>5. n \in Nat \ {0}
  BY <1>1, <1>4, SecretsAssumption
<1>6. x \in Seq(Bytes) /\ Len(x) = n /\ x \in Shown
  BY <1>5 DEF Shown
<1> DEFINE q == pending \o x
           m == Redaction!mask(q)
           cut == Len(q) - Redaction!keep
<1>7. /\ Redaction!keep \in Nat /\ q \in Shown /\ Len(q) = Len(pending) + n
      /\ m \in Shown /\ Len(m) = Len(q)
  BY <1>4, <1>6, KeepIsEnough, MaskHides, Joined DEF Hides
<1>8. CASE cut <= 0
  <2>1. pending' = q /\ UNCHANGED safe
    BY <1>2, <1>8 DEF Redaction!Push
  <2>2. safe = <<>>
    <3> SUFFICES ASSUME safe # <<>> PROVE FALSE
      OBVIOUS
    <3>1. Len(pending) = Redaction!keep
      BY <1>3 DEF Redaction!HeldBack
    <3> QED
      BY <1>5, <1>7, <1>8, <3>1
  <2>3. pending = written
    BY <1>3, <2>2 DEF Redaction!HeldBack
  <2>4. pending' = written' /\ safe' = <<>> /\ written' \in Shown /\ written' \in Seq(Bytes)
    BY <1>2, <1>3, <1>6, <1>7, <2>1, <2>2, <2>3 DEF Redaction!TypeOK
  <2>5. safe' \o pending' = written'
    BY <2>4, NothingShown
  <2>6. Redaction!TypeOK'
    <3>1. secrets' \in UNION {Redaction!SetToSeqs(S) : S \in SecretsOfJobs}
      BY <1>3 DEF Redaction!TypeOK
    <3>2. safe' \in Shown /\ Len(safe') = 0 /\ Len(pending') \in Nat
      BY <2>4 DEF Shown
    <3> QED
      BY <1>3, <1>4, <2>4, <3>1, <3>2 DEF Redaction!TypeOK, Shown
  <2>7. Redaction!HeldBack' /\ Redaction!NoneIsLeft' /\ Redaction!OneIsMasked'
    BY <1>3, <2>4 DEF Redaction!HeldBack, Redaction!NoneIsLeft, Redaction!OneIsMasked
  <2>8. Redaction!HiddenIsSecret'
    BY <2>5 DEF Redaction!HiddenIsSecret, Redaction!Masked
  <2> QED
    BY <2>6, <2>7, <2>8 DEF Redaction!IInv
<1>9. CASE cut > 0
  <2>1. safe' = safe \o SubSeq(m, 1, cut) /\ pending' = SubSeq(m, cut + 1, Len(q))
    <3>1. ~(cut <= 0)
      BY <1>4, <1>5, <1>7, <1>9
    <3> QED
      BY <1>2, <3>1 DEF Redaction!Push
  <2>2. cut \in 0 .. Len(m) /\ Len(m) - cut = Redaction!keep
    BY <1>4, <1>5, <1>7, <1>9
  <2> HIDE DEF q, m, cut
  <2>3. /\ SubSeq(m, 1, cut) \in Shown /\ Len(SubSeq(m, 1, cut)) = cut
        /\ pending' \in Shown /\ Len(pending') = Redaction!keep
        /\ safe' \o pending' = safe \o m
    <3>1. pending' = SubSeq(m, cut + 1, Len(m)) /\ m \in Shown
      BY <1>7, <2>1
    <3>2. /\ SubSeq(m, 1, cut) \in Shown /\ Len(SubSeq(m, 1, cut)) = cut
          /\ SubSeq(m, cut + 1, Len(m)) \in Shown
          /\ Len(SubSeq(m, cut + 1, Len(m))) = Len(m) - cut
          /\ (safe \o SubSeq(m, 1, cut)) \o SubSeq(m, cut + 1, Len(m)) = safe \o m
      BY <1>4, <2>2, <3>1, CutJoined
    <3> QED
      BY <2>1, <2>2, <3>1, <3>2
  <2>4. safe' \in Shown /\ Len(safe') = Len(safe) + cut
    BY <1>4, <2>1, <2>3, Joined
  <2>5. safe' # <<>>
    BY <1>4, <1>9, <2>2, <2>4
  <2>6. safe' \o pending' = safe \o Redaction!mask(pending \o x)
    BY <2>3 DEF m, q
  <2> QED
    BY <1>2, <1>3, <1>4, <1>6, <2>3, <2>4, <2>5, <2>6, RedactedState
<1> QED
  BY <1>4, <1>7, <1>8, <1>9

LEMMA EndStep ==
  ASSUME Redaction!IInv, Redaction!End
  PROVE  Redaction!IInv'
<1>1. /\ Redaction!TypeOK /\ ~ended /\ ended' = TRUE /\ UNCHANGED <<secrets, written>>
      /\ safe' = safe \o Redaction!mask(pending) /\ pending' = <<>>
  BY DEF Redaction!IInv, Redaction!End, Redaction!Flush
<1>2. /\ SecretsAre /\ written \in Shown /\ pending \in Shown /\ safe \in Shown
  BY <1>1, RedactorTypes
<1>3. Redaction!mask(pending) \in Shown
  BY <1>2, MaskHides
<1>4. <<>> \in Seq(Bytes) /\ pending \o <<>> = pending /\ written \o <<>> = written
  BY <1>2, NothingShown
<1>5. safe' \in Shown /\ pending' \in Shown
  BY <1>1, <1>2, <1>3, Joined, NothingShown
<1>6. safe' \o pending' = safe'
  BY <1>1, <1>5, NothingShown
<1> DEFINE x == <<>>
<1>7. /\ x \in Seq(Bytes) /\ written' = written \o x /\ pending' = <<>>
      /\ safe' \o pending' = safe \o Redaction!mask(pending \o x)
  BY <1>1, <1>4, <1>6
<1> HIDE DEF x
<1> QED
  BY <1>1, <1>5, <1>7, RedactedState

(* However frames cut the log, no secret is uploaded whole, nothing but    *)
(* secrets is hidden, no offset moves, and with one secret the framing     *)
(* makes no difference (Push, Flush and mask of streamRedactor).           *)
THEOREM SecretsStayHidden == Spec => []OnlySecretsAreHidden
<1>1. ASSUME Redaction!IInv, [Next]_vars
      PROVE  Redaction!IInv'
  <2>1. CASE part = "redactor" /\ Redaction!Next
    BY <1>1, <2>1, FrameStep, EndStep DEF Redaction!Next
  <2>2. CASE UNCHANGED redactorVars
    <3>1. Redaction!mask(written)' = Redaction!mask(written) /\ Redaction!keep' = Redaction!keep
      BY <2>2 DEF redactorVars, Redaction!mask, Redaction!FoldLeft, Redaction!MapThenFoldSet,
                  Redaction!keep, Redaction!max
    <3> QED
      BY <1>1, <2>2, <3>1
         DEF redactorVars, Redaction!IInv, Redaction!TypeOK, Redaction!HeldBack,
             Redaction!NoneIsLeft, Redaction!OneIsMasked, Redaction!HiddenIsSecret,
             Redaction!Masked
  <2> QED
    BY <1>1, <2>1, <2>2 DEF Next, vars
<1>2. ASSUME Redaction!IInv
      PROVE  OnlySecretsAreHidden
  <2>1. /\ Redaction!TypeOK /\ Redaction!HeldBack /\ Redaction!NoneIsLeft
        /\ Redaction!OneIsMasked /\ Redaction!HiddenIsSecret
    BY <1>2 DEF Redaction!IInv
  <2>2. /\ SecretsAre /\ written \in Shown /\ pending \in Shown /\ safe \in Shown
        /\ Len(safe) + Len(pending) = Len(written)
        /\ Len(safe) \in Nat /\ Len(pending) \in Nat /\ Len(written) \in Nat
        /\ ended \in BOOLEAN
    BY <2>1, RedactorTypes
  <2> DEFINE T == safe \o pending
  <2>3. /\ Len(T) = Len(written) /\ DOMAIN T = 1 .. Len(T) /\ DOMAIN safe = 1 .. Len(safe)
        /\ \A i \in 1 .. Len(safe) : i \in 1 .. Len(T) /\ T[i] = safe[i]
    BY <2>2, Joined DEF Shown
  <2>4. Redaction!NoSecretGetsThrough
    <3> SUFFICES ASSUME NEW s \in Redaction!ToSet(secrets), NEW i \in 1 .. Len(safe),
                        Redaction!Occurs(s, safe, i)
                 PROVE  FALSE
      BY <2>3 DEF Redaction!NoSecretGetsThrough
    <3>1. i + Len(s) - 1 <= Len(safe) /\ Secret(s)
      BY <2>2, SecretsListed DEF Redaction!Occurs
    <3>2. Redaction!Occurs(s, T, i)
      BY <2>2, <3>1, OccursBegun
    <3>3. safe # <<>>
      BY <2>2
    <3> QED
      BY <2>1, <2>3, <3>2, <3>3 DEF Redaction!NoneIsLeft, Redaction!Masked
  <2>5. Redaction!FramingDoesNotMatter
    <3> SUFFICES ASSUME Len(secrets) = 1
                 PROVE  safe \o Redaction!mask(pending) = Redaction!mask(written)
      BY DEF Redaction!FramingDoesNotMatter
    <3>1. CASE safe = <<>>
      <4>1. pending = written /\ Redaction!mask(written) \in Shown
        BY <2>1, <2>2, <3>1, MaskHides DEF Redaction!HeldBack
      <4> QED
        BY <3>1, <4>1, NothingShown
    <3>2. CASE safe # <<>>
      <4>1. safe \o pending = Redaction!mask(written)
        BY <2>1, <3>2 DEF Redaction!OneIsMasked, Redaction!Masked
      <4>2. Len(pending) < Len(secrets[1]) /\ Secret(secrets[1])
        <5>1. Secret(secrets[1]) /\ Len(secrets[1]) \in Nat \ {0}
          BY <2>2 DEF SecretsAre, Secret
        <5>2. CASE ended
          BY <2>1, <5>1, <5>2 DEF Redaction!HeldBack
        <5>3. CASE ~ended
          BY <2>1, <2>2, <3>2, <5>1, <5>3, KeepIsEnough DEF Redaction!HeldBack
        <5> QED
          BY <2>2, <5>1, <5>2, <5>3
      <4>3. \A i \in 1 .. Len(pending) : ~InSecret(pending, i)
        <5> SUFFICES ASSUME NEW i \in 1 .. Len(pending), InSecret(pending, i)
                     PROVE  FALSE
          OBVIOUS
        <5>1. PICK s \in Redaction!ToSet(secrets), k \in 1 .. i :
                Redaction!Occurs(s, pending, k)
          BY DEF InSecret
        <5>2. s = secrets[1]
          BY <2>2, SecretsListed
        <5>3. k + Len(s) - 1 <= Len(pending) /\ k >= 1 /\ k \in Nat
          BY <5>1 DEF Redaction!Occurs
        <5>4. Len(s) \in Nat
          BY <4>2, <5>2 DEF Secret
        <5> QED
          BY <2>2, <4>2, <5>2, <5>3, <5>4
      <4>4. /\ Redaction!mask(pending) \in Shown /\ Hides(pending, Redaction!mask(pending))
            /\ \A i \in 1 .. Len(pending) :
                 Redaction!mask(pending)[i] # pending[i] => InSecret(pending, i)
        BY <2>2, MaskHides
      <4>5. Redaction!mask(pending) = pending
        BY <2>2, <4>3, <4>4, SameShown DEF Hides
      <4> QED
        BY <4>1, <4>5
    <3> QED
      BY <3>1, <3>2
  <2>6. Redaction!OnlySecretsHidden
    BY <2>1, <2>3 DEF Redaction!OnlySecretsHidden, Redaction!HiddenIsSecret, Redaction!Masked
  <2> QED
    BY <1>2, <2>1, <2>4, <2>5, <2>6 DEF OnlySecretsAreHidden
<1> QED
  BY RedactionInitially, <1>1, <1>2, PTL DEF Spec

=============================================================================
