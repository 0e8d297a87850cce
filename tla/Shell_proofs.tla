----------------------------- MODULE Shell_proofs -----------------------------
(***************************************************************************)
(* What psh2 runs: its scanner cuts every line, of any length and letters,  *)
(* into the commands and words that Commands names without a scan.          *)
(***************************************************************************)
EXTENDS Exercises, Printing_proofs

-----------------------------------------------------------------------------
(* Sets of numbers, smallest first                                          *)

LEMMA ShellCardinality == ASSUME NEW S PROVE Psh2!Cardinality(S) = Cardinality(S)
BY DEF Psh2!Cardinality, Cardinality

(* A larger member has more of them up to it.                               *)
LEMMA CountRises ==
    ASSUME NEW S, NEW k \in Nat, NEW l \in S, l \in Nat, k < l
    PROVE  Count(S, 0, k) < Count(S, 0, l)
<1>1. Count(S, 0, l) = 1 + Count(S, 0, l - 1)
  BY CountLast
<1>2. Count(S, 0, k) <= Count(S, 0, l - 1)
  BY CountGrows
<1>3. Count(S, 0, k) \in Nat /\ Count(S, 0, l - 1) \in Nat
  BY CountType
<1> QED BY <1>1, <1>2, <1>3

(* Every rank is taken.                                                     *)
LEMMA RankReaches ==
    ASSUME NEW N \in Nat, NEW S \in SUBSET (0 .. N), NEW c \in 1 .. Count(S, 0, N)
    PROVE  \E k \in S : Count(S, 0, k) = c
<1> DEFINE T == {j \in Nat : c <= Count(S, 0, j)}
<1>1. N \in T
  BY CountType
<1>2. PICK k \in T : \A l \in T : k <= l
  BY <1>1, Least, T \subseteq Nat
<1>3. k \in Nat /\ c <= Count(S, 0, k) /\ Count(S, 0, k) \in Nat /\ Count(S, 0, k - 1) \in Nat
  BY <1>2, CountType
<1>4. Count(S, 0, k) = (IF k \in S THEN 1 ELSE 0) + Count(S, 0, k - 1)
  BY <1>3, CountLast
<1>5. Count(S, 0, k - 1) < c
  <2>1. CASE k = 0
    BY <2>1, <1>3, CountType
  <2>2. CASE k # 0
    <3>1. k - 1 \in Nat /\ ~(k <= k - 1)
      BY <1>3, <2>2
    <3>2. k - 1 \notin T
      <4> HIDE DEF T
      <4> QED BY <1>2, <3>1
    <3> QED BY <1>3, <3>1, <3>2
  <2> QED BY <2>1, <2>2
<1> HIDE DEF T
<1> QED BY <1>3, <1>4, <1>5

LEMMA InOrderProperties ==
    ASSUME NEW N \in Nat, NEW S \in SUBSET (0 .. N)
    PROVE  /\ Cardinality(S) \in Nat /\ IsFiniteSet(S)
           /\ Psh2!InOrder(S) \in [1 .. Cardinality(S) -> S]
           /\ \A n \in 1 .. Cardinality(S) : Count(S, 0, Psh2!InOrder(S)[n]) = n
           /\ \A k \in S : /\ Count(S, 0, k) \in 1 .. Cardinality(S)
                           /\ Psh2!InOrder(S)[Count(S, 0, k)] = k
<1> DEFINE c == Cardinality(S)
           q == [n \in 1 .. c |-> CHOOSE k \in S : Count(S, 0, k) = n]
<1>1. S = Between(S, 0, N) /\ \A k \in S : {j \in S : j <= k} = Between(S, 0, k)
  <2>1. \A j \in S : j \in 0 .. N /\ j \in Int /\ 0 <= j /\ j <= N
    OBVIOUS
  <2>2. S = Between(S, 0, N)
    BY DEF Between
  <2>3. \A k \in S : {j \in S : j <= k} = Between(S, 0, k)
    <3> TAKE k \in S
    <3>1. ASSUME NEW j PROVE j \in S /\ j <= k <=> j \in S /\ j \in 0 .. k
      <4>1. k \in 0 .. N /\ k \in Int
        BY <2>1
      <4>2. j \in S => j \in Int /\ 0 <= j
        BY <2>1
      <4> QED BY <4>1, <4>2
    <3> QED BY <3>1 DEF Between
  <2> QED BY <2>2, <2>3
<1>2. c = Count(S, 0, N) /\ c \in Nat /\ IsFiniteSet(S)
  BY <1>1, CountType DEF Count
<1>3. \A k \in S : Psh2!Cardinality({j \in S : j <= k}) = Count(S, 0, k)
  BY <1>1, ShellCardinality DEF Count
<1> HIDE DEF c
<1>4. Psh2!InOrder(S) = q
  <2>1. ASSUME NEW n \in 1 .. c
        PROVE  (CHOOSE k \in S : Psh2!Cardinality({j \in S : j <= k}) = n) = CHOOSE k \in S : Count(S, 0, k) = n
    BY <1>3
  <2>2. Psh2!InOrder(S) = [n \in 1 .. c |-> CHOOSE k \in S : Psh2!Cardinality({j \in S : j <= k}) = n]
    BY ShellCardinality DEF Psh2!InOrder, c
  <2> QED BY <2>1, <2>2
<1>5. ASSUME NEW n \in 1 .. c PROVE q[n] \in S /\ Count(S, 0, q[n]) = n
  <2>1. \E k \in S : Count(S, 0, k) = n
    BY <1>2, RankReaches
  <2> QED BY <2>1
<1> HIDE DEF q
<1>6. ASSUME NEW k \in S PROVE Count(S, 0, k) \in 1 .. c /\ q[Count(S, 0, k)] = k
  <2> DEFINE n == Count(S, 0, k)
             l == q[n]
  <2>0. k \in 0 .. N /\ k \in Nat
    OBVIOUS
  <2>1. n \in Nat /\ n <= c /\ n >= 1
    <3>1. Count(S, 0, k) = 1 + Count(S, 0, k - 1) /\ Count(S, 0, k - 1) \in Nat
      BY <2>0, CountLast, CountType
    <3>2. Count(S, 0, k) <= Count(S, 0, N)
      BY <2>0, CountGrows
    <3> QED BY <3>1, <3>2, <1>2
  <2>2. l \in S /\ Count(S, 0, l) = n /\ l \in Nat
    <3>1. n \in 1 .. c
      BY <2>1, <1>2
    <3> HIDE DEF n
    <3>2. l \in S /\ Count(S, 0, l) = n
      BY <3>1, <1>5
    <3>3. S \subseteq Nat
      OBVIOUS
    <3> QED BY <3>2, <3>3
  <2>3. ~(k < l) /\ ~(l < k)
    <3>1. k < l => Count(S, 0, k) < Count(S, 0, l)
      BY <2>0, <2>2, CountRises
    <3>2. l < k => Count(S, 0, l) < Count(S, 0, k)
      BY <2>0, <2>2, CountRises
    <3> QED BY <2>1, <2>2, <3>1, <3>2
  <2> HIDE DEF l
  <2> QED BY <2>0, <2>1, <2>2, <2>3, <1>2 DEF l
<1>7. q \in [1 .. c -> S]
  <2>1. q = [n \in 1 .. c |-> q[n]]
    BY DEF q
  <2> QED BY <2>1, <1>5
<1> QED BY <1>2, <1>4, <1>5, <1>6, <1>7 DEF c

(* The smallest comes first, before the others.                             *)
LEMMA InOrderFirst ==
    ASSUME NEW N \in Nat, NEW S \in SUBSET (0 .. N), NEW x \in S, \A y \in S : x <= y
    PROVE  /\ Cardinality(S) = Cardinality(S \ {x}) + 1
           /\ Psh2!InOrder(S)[1] = x
           /\ \A n \in 1 .. Cardinality(S \ {x}) :
                 Psh2!InOrder(S)[n + 1] = Psh2!InOrder(S \ {x})[n]
<1> DEFINE R == S \ {x}
<1>0. R \in SUBSET (0 .. N) /\ x \in 0 .. N /\ x \notin R /\ S = R \cup {x}
  OBVIOUS
<1>1. Cardinality(S) = Cardinality(R) + 1
  <2>1. IsFiniteSet(R)
    BY <1>0, InOrderProperties
  <2> QED BY <2>1, <1>0, FS_AddElement
<1>2. ASSUME NEW y \in 0 .. N, x <= y PROVE Count(S, 0, y) = Count(R, 0, y) + 1
  <2>1. Between(S, 0, y) = Between(R, 0, y) \cup {x} /\ x \notin Between(R, 0, y)
    BY <1>2, <1>0 DEF Between
  <2>2. IsFiniteSet(Between(R, 0, y))
    BY CountType
  <2> QED BY <2>1, <2>2, FS_AddElement DEF Count
<1>3. Psh2!InOrder(S)[1] = x
  <2>1. Between(R, 0, x) = {}
    BY <1>0 DEF Between
  <2>2. Count(R, 0, x) = 0
    BY <2>1, FS_EmptySet DEF Count
  <2>3. Count(S, 0, x) = 1
    BY <1>0, <1>2, <2>2
  <2>4. Psh2!InOrder(S)[Count(S, 0, x)] = x
    BY InOrderProperties
  <2> QED BY <2>3, <2>4
<1>4. ASSUME NEW n \in 1 .. Cardinality(R) PROVE Psh2!InOrder(S)[n + 1] = Psh2!InOrder(R)[n]
  <2> DEFINE y == Psh2!InOrder(R)[n]
  <2>1. y \in R /\ Count(R, 0, y) = n
    <3>1. R \in SUBSET (0 .. N)
      BY <1>0
    <3> HIDE DEF R
    <3>2. Psh2!InOrder(R) \in [1 .. Cardinality(R) -> R] /\ Count(R, 0, Psh2!InOrder(R)[n]) = n
      BY <3>1, InOrderProperties
    <3> QED BY <3>2
  <2>2. y \in S /\ x <= y /\ y \in 0 .. N
    BY <2>1
  <2> HIDE DEF y
  <2>3. Count(S, 0, y) = n + 1
    BY <2>1, <2>2, <1>2
  <2>4. Psh2!InOrder(S)[Count(S, 0, y)] = y
    BY <2>2, InOrderProperties
  <2> QED BY <2>3, <2>4 DEF y
<1> QED BY <1>1, <1>3, <1>4

(* A rising map onto a set keeps the order.                                 *)
RisesOnto(g, S, R, N, M) ==
    /\ N \in Nat /\ M \in Nat /\ S \subseteq 0 .. N /\ R \subseteq 0 .. M
    /\ g \in [S -> R] /\ \A y \in R : \E x \in S : g[x] = y
    /\ \A x, y \in S : x < y => g[x] < g[y]

LEMMA InOrderMapped ==
    ASSUME NEW N, NEW M, NEW S, NEW R, NEW g, RisesOnto(g, S, R, N, M)
    PROVE  /\ Cardinality(R) = Cardinality(S)
           /\ \A n \in 1 .. Cardinality(S) : Psh2!InOrder(R)[n] = g[Psh2!InOrder(S)[n]]
<1>0. /\ N \in Nat /\ M \in Nat /\ S \in SUBSET (0 .. N) /\ R \in SUBSET (0 .. M)
      /\ g \in [S -> R] /\ \A y \in R : \E x \in S : g[x] = y
      /\ \A x, y \in S : x < y => g[x] < g[y]
  BY DEF RisesOnto
<1>1. \A x, y \in S : /\ x \in Int /\ y \in Int /\ g[x] \in Int /\ g[y] \in Int
                      /\ g[x] = g[y] => x = y
                      /\ g[x] <= g[y] <=> x <= y
  <2> TAKE x, y \in S
  <2>0. S \subseteq Int /\ R \subseteq Int
    BY <1>0
  <2>1. x \in Int /\ y \in Int /\ g[x] \in Int /\ g[y] \in Int
    BY <1>0, <2>0
  <2> QED BY <1>0, <2>1
<1>2. IsFiniteSet(S)
  BY <1>0, InOrderProperties
<1>3. ASSUME NEW A \in SUBSET S, NEW B \in SUBSET R,
             \A x \in A : g[x] \in B, \A y \in B : \E x \in A : g[x] = y
      PROVE  Cardinality(A) = Cardinality(B)
  <2> DEFINE h == [x \in A |-> g[x]]
  <2>1. h \in [A -> B]
    BY <1>3
  <2>2. \A x, y \in A : h[x] = h[y] => x = y
    BY <1>1
  <2>3. \A y \in B : \E x \in A : h[x] = y
    BY <1>3
  <2>4. IsFiniteSet(A)
    BY <1>2, FS_Subset
  <2> HIDE DEF h
  <2>5. h \in Bijection(A, B)
    BY <2>1, <2>2, <2>3 DEF Bijection, Injection, Surjection, IsInjective
  <2> QED BY <2>4, <2>5, FS_Bijection DEF ExistsBijection
<1>4. Cardinality(S) = Cardinality(R)
  BY <1>0, <1>3
<1>5. ASSUME NEW x \in S PROVE Count(R, 0, g[x]) = Count(S, 0, x)
  <2> DEFINE A == Between(S, 0, x)
             B == Between(R, 0, g[x])
  <2>1. A \in SUBSET S /\ B \in SUBSET R
    BY DEF Between
  <2>2. \A y \in A : g[y] \in B
    BY <1>0, <1>1 DEF Between
  <2>3. ASSUME NEW y \in B PROVE \E z \in A : g[z] = y
    <3>1. y \in R /\ y <= g[x]
      BY DEF Between
    <3>2. PICK z \in S : g[z] = y
      BY <1>0, <3>1
    <3> QED BY <1>0, <1>1, <3>1, <3>2 DEF Between
  <2> HIDE DEF A, B
  <2>4. Cardinality(A) = Cardinality(B)
    BY <2>1, <2>2, <2>3, <1>3
  <2> QED BY <2>4 DEF A, B, Count
<1>6. ASSUME NEW n \in 1 .. Cardinality(S) PROVE Psh2!InOrder(R)[n] = g[Psh2!InOrder(S)[n]]
  <2> DEFINE x == Psh2!InOrder(S)[n]
  <2>1. x \in S /\ Count(S, 0, x) = n
    BY <1>0, InOrderProperties
  <2> HIDE DEF x
  <2> DEFINE y == g[x]
  <2>2. y \in R /\ Count(R, 0, y) = n
    BY <1>0, <2>1, <1>5
  <2> HIDE DEF y
  <2>3. Psh2!InOrder(R)[Count(R, 0, y)] = y
    BY <1>0, <2>2, InOrderProperties
  <2> QED BY <2>2, <2>3 DEF x, y
<1> QED BY <1>4, <1>6

-----------------------------------------------------------------------------
(* Cutting at a separator                                                   *)

LEMMA PieceEndIs ==
    ASSUME NEW A, NEW src \in Seq(A), NEW separator, NEW k \in 1 .. Len(src) + 1
    PROVE  LET e == Psh2!pieceEnd(src, separator, k)
           IN  /\ e \in k .. Len(src) + 1
               /\ e = Len(src) + 1 \/ src[e] = separator
               /\ \A m \in k .. e - 1 : src[m] # separator
<1> DEFINE L == Len(src)
           T == {j \in Nat : j \in k .. L + 1 /\ (j = L + 1 \/ src[j] = separator)}
<1>1. L \in Nat
  BY LenProperties
<1> HIDE DEF L
<1>2. L + 1 \in T /\ k \in Nat
  BY <1>1 DEF L
<1>3. PICK j \in T : \A l \in T : j <= l
  BY <1>2, Least, T \subseteq Nat
<1>4. j \in k .. L + 1 /\ (j = L + 1 \/ src[j] = separator) /\ j \in Nat
  BY <1>3
<1>5. ASSUME NEW m \in k .. j - 1 PROVE src[m] # separator
  <2>1. m \in Nat /\ m \in k .. L + 1 /\ ~(j <= m)
    BY <1>1, <1>2, <1>4
  <2>2. m \notin T
    <3> HIDE DEF T
    <3> QED BY <1>3, <2>1
  <2> QED BY <2>1, <2>2
<1> HIDE DEF T
<1>6. \E l \in k .. L + 1 : (l = L + 1 \/ src[l] = separator) /\ \A m \in k .. l - 1 : src[m] # separator
  BY <1>4, <1>5
<1> QED BY <1>6 DEF Psh2!pieceEnd, L

LEMMA SkipIs ==
    ASSUME NEW A, NEW src \in Seq(A), NEW k \in 1 .. Len(src) + 1
    PROVE  LET h == Psh2!skipHeadBlank(src, k)
           IN  /\ h \in k .. Len(src) + 1
               /\ h = Len(src) + 1 \/ src[h] # Psh2!Blank
               /\ \A m \in k .. h - 1 : src[m] = Psh2!Blank
<1> DEFINE L == Len(src)
           T == {j \in Nat : j \in k .. L + 1 /\ (j = L + 1 \/ src[j] # Psh2!Blank)}
<1>1. L \in Nat
  BY LenProperties
<1> HIDE DEF L
<1>2. L + 1 \in T /\ k \in Nat
  BY <1>1 DEF L
<1>3. PICK j \in T : \A l \in T : j <= l
  BY <1>2, Least, T \subseteq Nat
<1>4. j \in k .. L + 1 /\ (j = L + 1 \/ src[j] # Psh2!Blank) /\ j \in Nat
  BY <1>3
<1>5. ASSUME NEW m \in k .. j - 1 PROVE src[m] = Psh2!Blank
  <2>1. m \in Nat /\ m \in k .. L + 1 /\ ~(j <= m)
    BY <1>1, <1>2, <1>4
  <2>2. m \notin T
    <3> HIDE DEF T
    <3> QED BY <1>3, <2>1
  <2>3. src[m] # Psh2!Blank => m \in T
    BY <2>1
  <2> QED BY <2>2, <2>3
<1> HIDE DEF T
<1>6. \E l \in k .. L + 1 : (l = L + 1 \/ src[l] # Psh2!Blank) /\ \A m \in k .. l - 1 : src[m] = Psh2!Blank
  BY <1>4, <1>5
<1> QED BY <1>6 DEF Psh2!skipHeadBlank, L

(* Where a piece begins: at what is neither blank nor a separator, with     *)
(* only blanks between it and the separator before it.                      *)
Follows(src, separator, p, k) ==
    /\ p = 0 \/ src[p] = separator
    /\ \A m \in p + 1 .. k - 1 : src[m] = Psh2!Blank

Begins(src, separator) ==
    {k \in 1 .. Len(src) : /\ src[k] # Psh2!Blank /\ src[k] # separator
                           /\ \E p \in 0 .. k - 1 : Follows(src, separator, p, k)}

(* The pieces that begin behind a place.                                    *)
Ahead(src, separator, e) == Between(Begins(src, separator), e + 1, Len(src))

(* Behind a separator, the first piece begins where the blanks end, if it   *)
(* has anything in it.                                                      *)
LEMMA NextBegins ==
    ASSUME NEW A, NEW src \in Seq(A), NEW separator, NEW e \in 0 .. Len(src),
           e = 0 \/ src[e] = separator
    PROVE  LET h == Psh2!skipHeadBlank(src, e + 1)
               f == Psh2!pieceEnd(src, separator, h)
               Here == Ahead(src, separator, e)
               There == Ahead(src, separator, f)
           IN  /\ h \in e + 1 .. Len(src) + 1 /\ f \in h .. Len(src) + 1
               /\ f = h => There = Here
               /\ f # h => h \in Here /\ There = Here \ {h} /\ \A y \in Here : h <= y
<1> DEFINE L == Len(src)
           B == Begins(src, separator)
           h == Psh2!skipHeadBlank(src, e + 1)
           f == Psh2!pieceEnd(src, separator, h)
<1>0. L \in Nat /\ e \in Nat /\ e + 1 \in 1 .. L + 1
  BY LenProperties
<1>1. h \in e + 1 .. L + 1 /\ (h = L + 1 \/ src[h] # Psh2!Blank) /\ \A m \in e + 1 .. h - 1 : src[m] = Psh2!Blank
  BY <1>0, SkipIs
<1>2. h \in 1 .. L + 1
  BY <1>0, <1>1
<1> HIDE DEF h
<1>3. /\ f \in h .. L + 1 /\ (f = L + 1 \/ src[f] = separator)
      /\ \A m \in h .. f - 1 : src[m] # separator
  BY <1>2, PieceEndIs
<1> HIDE DEF f
<1>4. \A k \in B : /\ k \in Int /\ k \in 1 .. L /\ src[k] # Psh2!Blank /\ src[k] # separator
                   /\ \E p \in 0 .. k - 1 : Follows(src, separator, p, k)
  BY <1>0 DEF Begins, B
<1> HIDE DEF B, L
<1>5. h \in Int /\ f \in Int /\ h <= f /\ e < h /\ h <= L + 1 /\ f <= L + 1 /\ e \in Int
  <2>1. h \in Int /\ e < h /\ h <= L + 1 /\ e \in Int
    BY <1>0, <1>1
  <2> QED BY <1>0, <1>3, <2>1
<1>6. ASSUME NEW k \in B, e < k, k <= f PROVE k = h /\ f # h
  <2>0. k \in Int /\ k \in 1 .. L
    BY <1>4
  <2>1. ~(k < h)
    <3>1. k < h => k \in e + 1 .. h - 1
      BY <2>0, <1>5, <1>6
    <3> QED BY <3>1, <1>1, <1>4
  <2>2. ~(h < k)
    <3> SUFFICES ASSUME h < k PROVE FALSE
      OBVIOUS
    <3>1. PICK p \in 0 .. k - 1 : Follows(src, separator, p, k)
      BY <1>4
    <3>2. k # f
      BY <1>0, <2>0, <1>3, <1>4
    <3>3. h \in 1 .. L /\ src[h] # Psh2!Blank
      <4>1. h \in 1 .. L /\ h # L + 1
        BY <1>0, <1>2, <1>5, <2>0
      <4> QED BY <4>1, <1>1
    <3>4. CASE p < h
      <4>1. h \in p + 1 .. k - 1
        BY <1>5, <2>0, <3>4
      <4> QED BY <3>1, <3>3, <4>1 DEF Follows
    <3>5. CASE h <= p
      <4>1. p \in h .. f - 1 /\ p # 0
        BY <1>5, <1>6, <2>0, <3>2, <3>5, <3>3
      <4> QED BY <3>1, <4>1, <1>3 DEF Follows
    <3> QED BY <1>5, <3>4, <3>5
  <2>3. k = h
    BY <2>0, <2>1, <2>2, <1>5
  <2>4. f # h
    BY <1>0, <2>0, <2>3, <1>3, <1>4
  <2> QED BY <2>3, <2>4
<1>7. f # h => h \in B
  <2> SUFFICES ASSUME f # h PROVE h \in B
    OBVIOUS
  <2>1. h \in 1 .. L /\ h \in h .. f - 1 /\ h # L + 1
    BY <1>0, <1>5
  <2>2. src[h] # Psh2!Blank /\ src[h] # separator
    BY <2>1, <1>1, <1>3
  <2>3. e \in 0 .. h - 1 /\ Follows(src, separator, e, h)
    BY <1>0, <1>5, <1>1 DEF Follows
  <2> QED BY <2>1, <2>2, <2>3 DEF Begins, B, L
<1> DEFINE Here == Between(B, e + 1, L)
           There == Between(B, f + 1, L)
<1>8. \A k : /\ k \in Here <=> k \in B /\ e < k
             /\ k \in There <=> k \in B /\ f < k
  <2>1. \A k \in B : k \in Int /\ k <= L
    BY <1>4
  <2> QED BY <2>1, <1>0, <1>5 DEF Between
<1>9. f = h => There = Here
  <2> SUFFICES ASSUME f = h PROVE \A k : k \in There <=> k \in Here
    OBVIOUS
  <2>1. \A k \in B : k \in Int
    BY <1>4
  <2> HIDE DEF Here, There
  <2> QED BY <1>5, <1>6, <1>8, <2>1
<1>10. ASSUME f # h PROVE h \in Here /\ There = Here \ {h} /\ \A y \in Here : h <= y
  <2>1. \A k \in B : k \in Int
    BY <1>4
  <2> HIDE DEF Here, There
  <2>2. h \in Here
    BY <1>5, <1>7, <1>8, <1>10
  <2>3. \A k \in B : e < k /\ ~(f < k) => k = h
    BY <1>5, <1>6, <2>1
  <2>4. h < f
    BY <1>5, <1>10
  <2>5. There = Here \ {h}
    <3>1. \A k : k \in There <=> k \in Here /\ k # h
      BY <1>5, <1>8, <2>1, <2>3, <2>4
    <3> QED BY <3>1
  <2>6. \A y \in Here : h <= y
    BY <1>5, <1>8, <2>1, <2>3, <2>4
  <2> QED BY <2>2, <2>5, <2>6
<1> HIDE DEF Here, There
<1> QED BY <1>1, <1>3, <1>9, <1>10 DEF Here, There, h, f, B, L, Ahead

(* The piece that begins at k, and those that begin in S, in order.         *)
Cut(src, separator, k) == SubSeq(src, k, Psh2!pieceEnd(src, separator, k) - 1)

Cuts(src, separator, S) ==
    [n \in 1 .. Cardinality(S) |-> Cut(src, separator, Psh2!InOrder(S)[n])]

LEMMA CutTypes ==
    ASSUME NEW A, NEW src \in Seq(A), NEW separator, NEW k \in 1 .. Len(src) + 1
    PROVE  LET e == Psh2!pieceEnd(src, separator, k)
           IN  /\ e \in k .. Len(src) + 1 /\ Len(src) \in Nat
               /\ Cut(src, separator, k) \in Seq(A) /\ Len(Cut(src, separator, k)) = e - k
               /\ \A m \in 1 .. e - k : Cut(src, separator, k)[m] = src[k + m - 1]
<1> DEFINE e == Psh2!pieceEnd(src, separator, k)
           L == Len(src)
<1>1. L \in Nat
  BY LenProperties
<1>2. e \in k .. L + 1
  BY PieceEndIs
<1> HIDE DEF e
<1>3. k \in Int /\ e \in Int /\ 1 <= k /\ k <= e /\ e <= L + 1 /\ e - 1 \in Int
  BY <1>1, <1>2
<1>4. /\ SubSeq(src, k, e - 1) \in Seq(A) /\ Len(SubSeq(src, k, e - 1)) = e - k
      /\ \A m \in 1 .. e - k : SubSeq(src, k, e - 1)[m] = src[k + m - 1]
  <2>1. \A m \in k .. e - 1 : src[m] \in A
    <3>1. \A m \in k .. e - 1 : m \in 1 .. L
      BY <1>1, <1>3
    <3> QED BY <3>1, ElementOfSeq
  <2>2. e - k = IF k <= e - 1 THEN e - 1 - k + 1 ELSE 0
    BY <1>3
  <2> QED BY <1>3, <2>1, <2>2, SubSeqProperties
<1> QED BY <1>1, <1>2, <1>4 DEF Cut, e

LEMMA CutsTypes ==
    ASSUME NEW A, NEW src \in Seq(A), NEW separator, NEW S \in SUBSET (1 .. Len(src))
    PROVE  /\ Cuts(src, separator, S) \in Seq(Seq(A))
           /\ Len(Cuts(src, separator, S)) = Cardinality(S) /\ Cardinality(S) \in Nat
<1>0. Len(src) \in Nat
  BY LenProperties
<1>1. S \in SUBSET (0 .. Len(src))
  BY <1>0
<1>2. Cardinality(S) \in Nat /\ Psh2!InOrder(S) \in [1 .. Cardinality(S) -> S]
  BY <1>0, <1>1, InOrderProperties
<1>3. \A n \in 1 .. Cardinality(S) : Cut(src, separator, Psh2!InOrder(S)[n]) \in Seq(A)
  <2> TAKE n \in 1 .. Cardinality(S)
  <2>1. Psh2!InOrder(S)[n] \in S
    BY <1>2
  <2>2. S \subseteq 1 .. Len(src) + 1
    BY <1>0
  <2> QED BY <2>1, <2>2, CutTypes
<1>4. Cuts(src, separator, S) \in [1 .. Cardinality(S) -> Seq(A)]
  BY <1>3 DEF Cuts
<1> QED BY <1>2, <1>4, LenProperties

Then(piece, pieces) == <<piece>> \o pieces

LEMMA CutsFirst ==
    ASSUME NEW A, NEW src \in Seq(A), NEW separator, NEW S \in SUBSET (1 .. Len(src)),
           NEW x \in S, \A y \in S : x <= y
    PROVE  Cuts(src, separator, S) = Then(Cut(src, separator, x), Cuts(src, separator, S \ {x}))
<1> DEFINE R == S \ {x}
           s == Cuts(src, separator, S)
           r == Cuts(src, separator, R)
           c == Cut(src, separator, x)
<1>0. Len(src) \in Nat /\ S \in SUBSET (0 .. Len(src)) /\ x \in 1 .. Len(src) + 1
  <2>1. Len(src) \in Nat
    BY LenProperties
  <2> QED BY <2>1
<1>1. /\ Cardinality(S) = Cardinality(R) + 1 /\ Psh2!InOrder(S)[1] = x
      /\ \A n \in 1 .. Cardinality(R) : Psh2!InOrder(S)[n + 1] = Psh2!InOrder(R)[n]
  BY <1>0, InOrderFirst
<1>2. R \in SUBSET (1 .. Len(src))
  OBVIOUS
<1> HIDE DEF R
<1>3. /\ s \in Seq(Seq(A)) /\ Len(s) = Cardinality(S)
      /\ r \in Seq(Seq(A)) /\ Len(r) = Cardinality(R) /\ Cardinality(R) \in Nat
  BY <1>2, CutsTypes
<1>4. c \in Seq(A)
  BY <1>0, CutTypes
<1>5. s[1] = c /\ \A n \in 1 .. Cardinality(R) : s[n + 1] = r[n]
  <2>1. 1 \in 1 .. Cardinality(S) /\ \A n \in 1 .. Cardinality(R) : n + 1 \in 1 .. Cardinality(S)
    BY <1>1, <1>3
  <2> QED BY <1>1, <2>1 DEF Cuts
<1> HIDE DEF s, r, c
<1>6. <<c>> \in Seq(Seq(A)) /\ Len(<<c>>) = 1 /\ <<c>>[1] = c
  BY <1>4
<1>7. /\ <<c>> \o r \in Seq(Seq(A)) /\ Len(<<c>> \o r) = 1 + Len(r)
      /\ \A k \in 1 .. 1 + Len(r) : (<<c>> \o r)[k] = IF k <= 1 THEN <<c>>[k] ELSE r[k - 1]
  BY <1>3, <1>6, ConcatProperties
<1>8. \A k \in 1 .. 1 + Cardinality(R) : s[k] = (<<c>> \o r)[k]
  <2> TAKE k \in 1 .. 1 + Cardinality(R)
  <2>1. CASE k = 1
    BY <2>1, <1>3, <1>5, <1>6, <1>7
  <2>2. CASE k # 1
    <3>1. k - 1 \in 1 .. Cardinality(R) /\ ~(k <= 1) /\ (k - 1) + 1 = k
      BY <2>2, <1>3
    <3> QED BY <3>1, <1>3, <1>5, <1>7
  <2> QED BY <2>1, <2>2
<1>9. Len(<<c>> \o r) = Len(s) /\ \A k \in 1 .. Len(s) : s[k] = (<<c>> \o r)[k]
  BY <1>1, <1>3, <1>7, <1>8
<1>10. s = <<c>> \o r
  BY <1>3, <1>7, <1>9, SeqEqual
<1> QED BY <1>10 DEF s, r, c, R, Then

LEMMA NoCuts == ASSUME NEW src, NEW separator PROVE Cuts(src, separator, {}) = << >>
<1>1. Cardinality({}) = 0
  BY FS_EmptySet
<1> QED BY <1>1 DEF Cuts

(* From one separator to the next, a piece is taken and the rest remains.   *)
LEMMA NextPieces ==
    ASSUME NEW A, NEW src \in Seq(A), NEW separator, NEW e \in 0 .. Len(src),
           e = 0 \/ src[e] = separator
    PROVE  LET h == Psh2!skipHeadBlank(src, e + 1)
               f == Psh2!pieceEnd(src, separator, h)
           IN  /\ h \in e + 1 .. Len(src) + 1
               /\ Psh2!Piece(src, h, f) \o Cuts(src, separator, Ahead(src, separator, f))
                     = Cuts(src, separator, Ahead(src, separator, e))
<1> DEFINE h == Psh2!skipHeadBlank(src, e + 1)
           f == Psh2!pieceEnd(src, separator, h)
           Here == Ahead(src, separator, e)
           There == Ahead(src, separator, f)
<1>1. /\ h \in e + 1 .. Len(src) + 1 /\ f \in h .. Len(src) + 1
      /\ f = h => There = Here
      /\ f # h => h \in Here /\ There = Here \ {h} /\ \A y \in Here : h <= y
  BY NextBegins
<1>2. h \in Int /\ f \in Int /\ h <= f
  <2>1. Len(src) \in Nat
    BY LenProperties
  <2> QED BY <1>1, <2>1
<1>3. Here \in SUBSET (1 .. Len(src)) /\ There \in SUBSET (1 .. Len(src))
  BY DEF Ahead, Between, Begins
<1>4. Psh2!Piece(src, h, f) = IF f > h THEN <<Cut(src, separator, h)>> ELSE << >>
  BY DEF Psh2!Piece, Cut
<1> HIDE DEF h, f, Here, There
<1>5. CASE f = h
  <2>1. Psh2!Piece(src, h, f) = << >> /\ There = Here
    BY <1>1, <1>2, <1>4, <1>5
  <2>2. Cuts(src, separator, Here) \in Seq(Seq(A))
    BY <1>3, CutsTypes
  <2>3. << >> \o Cuts(src, separator, Here) = Cuts(src, separator, Here)
    BY <2>2, ConcatEmptySeq
  <2> QED BY <1>1, <2>1, <2>3 DEF h, f, Here, There
<1>6. CASE f # h
  <2>1. Psh2!Piece(src, h, f) = <<Cut(src, separator, h)>>
    BY <1>2, <1>4, <1>6
  <2>2. Cuts(src, separator, Here) = <<Cut(src, separator, h)>> \o Cuts(src, separator, There)
    <3>1. h \in Here /\ \A y \in Here : h <= y
      BY <1>1, <1>6
    <3>2. Cuts(src, separator, Here) = Then(Cut(src, separator, h), Cuts(src, separator, Here \ {h}))
      BY <1>3, <3>1, CutsFirst
    <3> QED BY <1>1, <1>6, <3>2 DEF Then
  <2> QED BY <1>1, <2>1, <2>2 DEF h, f, Here, There
<1> QED BY <1>5, <1>6

(* The loops of split2ArrByChar and conver2List take the pieces, in order.  *)
LEMMA PiecesAre ==
    ASSUME NEW A, NEW src \in Seq(A), NEW separator
    PROVE  Psh2!Pieces(src, separator) = Cuts(src, separator, Begins(src, separator))
<1> DEFINE L == Len(src)
           next(k) == Psh2!pieceEnd(src, separator, k)
           head(k) == Psh2!skipHeadBlank(src, k)
           G(g) == [k \in 1 .. L + 1 |->
                       Psh2!Piece(src, k, next(k)) \o (IF next(k) > L THEN << >> ELSE g[head(next(k) + 1)])]
           from == CHOOSE g : g = G(g)
           rest(e) == Cuts(src, separator, Ahead(src, separator, e))
           C == [k \in 1 .. L + 1 |-> Psh2!Piece(src, k, next(k)) \o rest(next(k))]
<1>1. Psh2!Pieces(src, separator) = from[head(1)]
  BY DEF Psh2!Pieces
<1>2. L \in Nat
  BY LenProperties
<1>3. \A k \in 1 .. L + 1 : next(k) \in k .. L + 1 /\ (next(k) = L + 1 \/ src[next(k)] = separator)
  BY PieceEndIs
<1>4. ASSUME NEW e \in 0 .. L, e = 0 \/ src[e] = separator
      PROVE  /\ head(e + 1) \in e + 1 .. L + 1 /\ head(e + 1) \in 1 .. L + 1
             /\ C[head(e + 1)] = rest(e)
  <2>1. /\ head(e + 1) \in e + 1 .. L + 1
        /\ Psh2!Piece(src, head(e + 1), next(head(e + 1))) \o rest(next(head(e + 1))) = rest(e)
    BY <1>4, NextPieces
  <2>2. head(e + 1) \in 1 .. L + 1
    <3> HIDE DEF head, L
    <3> QED BY <1>2, <2>1
  <2> QED BY <2>1, <2>2
<1>5. rest(L + 1) = << >>
  <2>1. Ahead(src, separator, L + 1) = {}
    <3> HIDE DEF L
    <3>1. (L + 1 + 1 .. L) = {}
      BY <1>2
    <3> QED BY <3>1 DEF Ahead, Between, L
  <2> QED BY <2>1, NoCuts
<1>6. rest(0) = Cuts(src, separator, Begins(src, separator))
  <2>1. Ahead(src, separator, 0) = Begins(src, separator)
    BY DEF Ahead, Between, Begins
  <2> QED BY <2>1
<1> HIDE DEF L, next, head, rest
<1>7. ASSUME NEW g, \A k \in 1 .. L + 1 : g[k] = C[k], NEW k \in 1 .. L + 1
      PROVE  G(g)[k] = C[k]
  <2>1. CASE next(k) > L
    <3>1. next(k) = L + 1
      BY <1>2, <1>3, <2>1
    <3> QED BY <1>5, <2>1, <3>1
  <2>2. CASE ~(next(k) > L)
    <3>1. next(k) \in 0 .. L /\ src[next(k)] = separator
      BY <1>2, <1>3, <2>2
    <3>2. head(next(k) + 1) \in 1 .. L + 1 /\ C[head(next(k) + 1)] = rest(next(k))
      <4> HIDE DEF C
      <4> QED BY <1>4, <3>1
    <3>3. g[head(next(k) + 1)] = rest(next(k))
      <4> HIDE DEF C
      <4> QED BY <1>7, <3>2
    <3> QED BY <2>2, <3>3
  <2> QED BY <2>1, <2>2
<1>8. C = G(C)
  <2>1. \A k \in 1 .. L + 1 : G(C)[k] = C[k]
    <3> HIDE DEF C, G
    <3> QED BY <1>7
  <2> DEFINE D == G(C)
  <2>2. D = [k \in 1 .. L + 1 |-> D[k]] /\ C = [k \in 1 .. L + 1 |-> C[k]]
    OBVIOUS
  <2> HIDE DEF C, D
  <2>3. C = D
    BY <2>1, <2>2 DEF D
  <2> QED BY <2>3 DEF D
<1> HIDE DEF C
<1>9. from = G(from)
  <2> HIDE DEF G
  <2> QED BY <1>8
<1> HIDE DEF from
<1>10. ASSUME NEW k \in 1 .. L + 1 PROVE from[k] = C[k]
  <2> DEFINE T == {m \in Nat : m \in 0 .. L /\ from[L + 1 - m] # C[L + 1 - m]}
  <2>1. ASSUME T # {} PROVE FALSE
    <3>1. PICK m \in T : \A l \in T : m <= l
      BY <2>1, Least, T \subseteq Nat
    <3> DEFINE j == L + 1 - m
    <3>2. m \in Nat /\ m \in 0 .. L /\ from[j] # C[j]
      BY <3>1
    <3>3. j \in 1 .. L + 1 /\ j \in Nat
      BY <1>2, <3>2
    <3>4. from[j] = Psh2!Piece(src, j, next(j)) \o (IF next(j) > L THEN << >> ELSE from[head(next(j) + 1)])
      <4> HIDE DEF j
      <4> QED BY <1>9, <3>3
    <3>5. C[j] = Psh2!Piece(src, j, next(j)) \o (IF next(j) > L THEN << >> ELSE C[head(next(j) + 1)])
      <4> HIDE DEF j
      <4> QED BY <1>8, <3>3
    <3>6. CASE next(j) > L
      <4> HIDE DEF j
      <4> QED BY <3>2, <3>4, <3>5, <3>6
    <3>7. CASE ~(next(j) > L)
      <4> DEFINE e == next(j)
                 h == head(e + 1)
      <4>1. e \in j .. L + 1 /\ (e = L + 1 \/ src[e] = separator)
        BY <1>3, <3>3
      <4> HIDE DEF j, e
      <4>2. e \in 0 .. L /\ src[e] = separator /\ j <= e /\ e \in Int
        BY <1>2, <3>3, <3>7, <4>1 DEF e
      <4>3. h \in e + 1 .. L + 1 /\ h \in 1 .. L + 1
        BY <4>2, <1>4
      <4> HIDE DEF h
      <4>4. L + 1 - h \in 0 .. L /\ L + 1 - h \in Nat /\ ~(m <= L + 1 - h) /\ L + 1 - (L + 1 - h) = h
        BY <1>2, <3>2, <3>3, <4>2, <4>3 DEF j
      <4>5. L + 1 - h \notin T
        <5> HIDE DEF T
        <5> QED BY <3>1, <4>4
      <4>6. from[h] = C[h]
        BY <4>4, <4>5
      <4> QED BY <3>2, <3>4, <3>5, <3>7, <4>6 DEF e, h
    <3> QED BY <3>6, <3>7
  <2>2. L + 1 - k \in 0 .. L /\ L + 1 - k \in Nat /\ L + 1 - (L + 1 - k) = k
    BY <1>2
  <2>3. L + 1 - k \notin T
    <3> HIDE DEF T
    <3> QED BY <2>1
  <2> QED BY <2>2, <2>3
<1>11. 0 \in 0 .. L /\ 0 + 1 = 1
  BY <1>2
<1>12. head(1) \in 1 .. L + 1 /\ C[head(1)] = rest(0)
  BY <1>4, <1>11
<1> QED BY <1>1, <1>6, <1>10, <1>12

-----------------------------------------------------------------------------
(* Commands and words, without a scan                                       *)

LineChars == Letters \cup {Psh2!Semicolon, Psh2!Blank}

(* What Commands names.                                                     *)
Letter(l, k) == k \in 1 .. Len(l) /\ l[k] \in Letters
Starts(l) == {k \in 1 .. Len(l) : Letter(l, k) /\ ~ Letter(l, k - 1)}
WordEnds(l, k, j) == ~ Letter(l, j + 1) /\ \A m \in k .. j : Letter(l, m)
WordAt(l, k) == SubSeq(l, k, CHOOSE j \in k .. Len(l) : WordEnds(l, k, j))
Number(l, k) == Psh2!Cardinality({j \in 1 .. k : l[j] = Psh2!Semicolon})
Numbers(l) == {Number(l, k) : k \in Starts(l)}
Numbered(l, n) == {k \in Starts(l) : Number(l, k) = n}
Command(l, n) ==
    [m \in 1 .. Len(Psh2!InOrder(Numbered(l, n))) |-> WordAt(l, Psh2!InOrder(Numbered(l, n))[m])]

LEMMA CommandsNamed ==
    ASSUME NEW l
    PROVE  Psh2!Commands(l) = [n \in 1 .. Len(Psh2!InOrder(Numbers(l))) |->
                                  Command(l, Psh2!InOrder(Numbers(l))[n])]
BY DEF Psh2!Commands, Command, Numbered, Numbers, Number, WordAt, WordEnds, Starts, Letter

Semicolons(l) == {j \in 1 .. Len(l) : l[j] = Psh2!Semicolon}

LEMMA NumberIs ==
    ASSUME NEW A, NEW l \in Seq(A), NEW k \in 1 .. Len(l)
    PROVE  /\ Number(l, k) = Count(Semicolons(l), 1, k)
           /\ Number(l, k) \in 0 .. Len(l)
<1>0. Len(l) \in Nat /\ k \in Int /\ k <= Len(l) /\ 1 <= k
  <2>1. Len(l) \in Nat
    BY LenProperties
  <2> QED BY <2>1
<1>1. {j \in 1 .. k : l[j] = Psh2!Semicolon} = Between(Semicolons(l), 1, k)
  <2> DEFINE L == Len(l)
  <2>1. \A j : j \in 1 .. k <=> j \in 1 .. L /\ j \in 1 .. k
    <3> HIDE DEF L
    <3> QED BY <1>0 DEF L
  <2> QED BY <2>1 DEF Between, Semicolons
<1>2. Number(l, k) = Count(Semicolons(l), 1, k)
  BY <1>1, ShellCardinality DEF Number, Count
<1>3. Cardinality(1 .. k) = k /\ IsFiniteSet(1 .. k)
  <2>1. k - 1 + 1 = k
    BY <1>0
  <2> QED BY <1>0, <2>1, FS_Interval
<1>4. Count(Semicolons(l), 1, k) \in Nat /\ Count(Semicolons(l), 1, k) <= k
  <2>1. Between(Semicolons(l), 1, k) \in SUBSET (1 .. k)
    BY DEF Between
  <2> QED BY <1>0, <1>3, <2>1, FS_Subset, CountType DEF Count
<1> QED BY <1>0, <1>2, <1>4

(* A command begins with a letter, and a word begins there.                 *)
LEMMA CommandBegins ==
    ASSUME Psh2!ShellAssumption, NEW l \in Seq(LineChars), NEW s \in Begins(l, Psh2!Semicolon)
    PROVE  LET e == Psh2!pieceEnd(l, Psh2!Semicolon, s)
           IN  /\ Len(l) \in Nat /\ s \in 1 .. Len(l) /\ s \in Starts(l)
               /\ e \in s + 1 .. Len(l) + 1 /\ (e = Len(l) + 1 \/ l[e] = Psh2!Semicolon)
               /\ \A m \in s .. e - 1 : l[m] # Psh2!Semicolon
<1> DEFINE e == Psh2!pieceEnd(l, Psh2!Semicolon, s)
           L == Len(l)
<1>0. L \in Nat
  BY LenProperties
<1>1. s \in 1 .. L /\ l[s] # Psh2!Blank /\ l[s] # Psh2!Semicolon
  BY DEF Begins
<1>2. PICK p \in 0 .. s - 1 : Follows(l, Psh2!Semicolon, p, s)
  BY DEF Begins
<1>3. \A m \in 1 .. L : l[m] \in LineChars
  BY ElementOfSeq
<1>4. s \in 1 .. L + 1
  <2> HIDE DEF L
  <2> QED BY <1>0, <1>1
<1>5. /\ e \in s .. L + 1 /\ (e = L + 1 \/ l[e] = Psh2!Semicolon)
      /\ \A m \in s .. e - 1 : l[m] # Psh2!Semicolon
  BY <1>4, PieceEndIs
<1> HIDE DEF e
<1>6. Letter(l, s)
  BY <1>1, <1>3 DEF Letter, LineChars
<1>7. ~ Letter(l, s - 1)
  <2> SUFFICES ASSUME Letter(l, s - 1) PROVE FALSE
    OBVIOUS
  <2>1. s - 1 \in 1 .. L /\ l[s - 1] \in Letters
    BY DEF Letter
  <2>2. l[s - 1] # Psh2!Blank /\ l[s - 1] # Psh2!Semicolon
    BY <2>1 DEF Psh2!ShellAssumption
  <2> HIDE DEF L
  <2>3. CASE p = s - 1
    <3>1. p # 0
      BY <1>0, <2>1, <2>3
    <3> QED BY <1>2, <2>2, <2>3, <3>1 DEF Follows
  <2>4. CASE p # s - 1
    <3>1. s - 1 \in p + 1 .. s - 1
      BY <1>0, <1>1, <2>4
    <3> QED BY <1>2, <2>2, <3>1 DEF Follows
  <2> QED BY <2>3, <2>4
<1>8. e \in s + 1 .. L + 1
  <2> HIDE DEF L
  <2>1. s # L + 1 /\ (e = s => e = L + 1)
    BY <1>0, <1>1, <1>5
  <2> QED BY <1>0, <1>1, <1>5, <2>1
<1> QED BY <1>0, <1>1, <1>5, <1>6, <1>7, <1>8 DEF e, Starts

(* Where two places have the same number, no semicolon lies between them.   *)
LEMMA NumberRises ==
    ASSUME NEW A, NEW l \in Seq(A), NEW j \in 1 .. Len(l), NEW k \in 1 .. Len(l), j <= k
    PROVE  /\ Number(l, j) <= Number(l, k)
           /\ (\A m \in j + 1 .. k : l[m] # Psh2!Semicolon) => Number(l, j) = Number(l, k)
           /\ \A m \in j + 1 .. k : l[m] = Psh2!Semicolon => Number(l, j) < Number(l, k)
<1> DEFINE S == Semicolons(l)
           L == Len(l)
<1>0. L \in Nat
  BY LenProperties
<1>1. Number(l, j) = Count(S, 1, j) /\ Number(l, k) = Count(S, 1, k)
  BY NumberIs
<1>2. \A m \in S : m \in 1 .. L /\ l[m] = Psh2!Semicolon
  BY DEF Semicolons
<1>3. \A m \in 1 .. L : l[m] = Psh2!Semicolon => m \in S
  BY DEF Semicolons
<1> HIDE DEF S, L
<1>4. j \in Int /\ k \in Int /\ 1 <= j /\ j <= k /\ k <= L /\ j <= (j + 1) - 1 /\ 1 <= j + 1
  BY <1>0 DEF L
<1>5. Count(S, 1, k) = Count(S, 1, j) + Count(S, j + 1, k)
  BY <1>4, CountSplits
<1>6. Count(S, j + 1, k) \in Nat /\ Count(S, 1, j) \in Nat /\ Count(S, 1, k) \in Nat
      /\ (Count(S, j + 1, k) = 0 => Between(S, j + 1, k) = {})
  BY <1>4, CountType
<1>7. ASSUME \A m \in j + 1 .. k : l[m] # Psh2!Semicolon PROVE Count(S, j + 1, k) = 0
  <2>1. Between(S, j + 1, k) = {}
    BY <1>2, <1>7 DEF Between
  <2> QED BY <2>1, FS_EmptySet DEF Count
<1>8. ASSUME NEW m \in j + 1 .. k, l[m] = Psh2!Semicolon PROVE Count(S, j + 1, k) # 0
  <2>1. m \in 1 .. L
    BY <1>0, <1>4
  <2>2. m \in Between(S, j + 1, k)
    BY <2>1, <1>3, <1>8 DEF Between
  <2> QED BY <2>2, <1>6
<1> QED BY <1>1, <1>5, <1>6, <1>7, <1>8

(* The words that have the number of a command are those of its piece.      *)
LEMMA SameNumber ==
    ASSUME Psh2!ShellAssumption, NEW l \in Seq(LineChars), NEW s \in Begins(l, Psh2!Semicolon),
           NEW k \in Starts(l)
    PROVE  Number(l, k) = Number(l, s) <=> s <= k /\ k < Psh2!pieceEnd(l, Psh2!Semicolon, s)
<1> DEFINE e == Psh2!pieceEnd(l, Psh2!Semicolon, s)
           L == Len(l)
<1>1. /\ L \in Nat /\ s \in 1 .. L
      /\ e \in s + 1 .. L + 1 /\ (e = L + 1 \/ l[e] = Psh2!Semicolon)
      /\ \A m \in s .. e - 1 : l[m] # Psh2!Semicolon
  BY CommandBegins
<1>2. k \in 1 .. L /\ l[k] \in Letters /\ l[k] # Psh2!Semicolon /\ l[k] # Psh2!Blank
  <2>1. k \in 1 .. L /\ l[k] \in Letters
    BY DEF Starts, Letter
  <2> QED BY <2>1 DEF Psh2!ShellAssumption
<1>3. PICK p \in 0 .. s - 1 : Follows(l, Psh2!Semicolon, p, s)
  BY DEF Begins
<1> HIDE DEF e
<1>4. Number(l, k) \in Int /\ Number(l, s) \in Int
  <2>1. Number(l, k) \in 0 .. L /\ Number(l, s) \in 0 .. L
    BY <1>1, <1>2, NumberIs
  <2> QED BY <2>1, <1>1
<1>5. ASSUME k < s PROVE Number(l, k) < Number(l, s)
  <2> HIDE DEF L
  <2>1. k # p
    BY <1>1, <1>2, <1>3 DEF Follows
  <2>2. ~(p < k)
    <3>1. p < k => k \in p + 1 .. s - 1
      BY <1>1, <1>2, <1>5
    <3> QED BY <3>1, <1>2, <1>3 DEF Follows
  <2>3. p \in k + 1 .. s /\ p # 0
    BY <1>1, <1>2, <2>1, <2>2
  <2>4. l[p] = Psh2!Semicolon
    BY <1>3, <2>3 DEF Follows
  <2>5. k <= s
    BY <1>1, <1>2, <1>5
  <2> QED BY <1>1, <1>2, <2>3, <2>4, <2>5, NumberRises DEF L
<1>6. ASSUME e <= k PROVE Number(l, s) < Number(l, k)
  <2> HIDE DEF L
  <2>1. e # L + 1 /\ e \in s + 1 .. k /\ s <= k
    BY <1>1, <1>2, <1>6
  <2>2. l[e] = Psh2!Semicolon
    BY <1>1, <2>1
  <2> QED BY <1>1, <1>2, <2>1, <2>2, NumberRises DEF L
<1>7. ASSUME s <= k, k < e PROVE Number(l, s) = Number(l, k)
  <2> HIDE DEF L
  <2>1. \A m \in s + 1 .. k : m \in s .. e - 1
    BY <1>1, <1>2, <1>7
  <2>2. \A m \in s + 1 .. k : l[m] # Psh2!Semicolon
    BY <1>1, <2>1
  <2> QED BY <1>1, <1>2, <1>7, <2>2, NumberRises DEF L
<1> HIDE DEF L
<1>8. k \in Int /\ s \in Int /\ e \in Int
  BY <1>1, <1>2
<1> QED BY <1>4, <1>5, <1>6, <1>7, <1>8 DEF e

(* A word has one end.                                                      *)
LEMMA WordEndIs ==
    ASSUME NEW A, NEW l \in Seq(A), NEW k \in 1 .. Len(l), NEW j \in k .. Len(l), WordEnds(l, k, j)
    PROVE  WordAt(l, k) = SubSeq(l, k, j)
<1> DEFINE L == Len(l)
<1>0. L \in Nat
  BY LenProperties
<1>1. ASSUME NEW m \in k .. L, WordEnds(l, k, m) PROVE m = j
  <2> HIDE DEF L
  <2>0. k \in Int /\ j \in Int /\ m \in Int /\ k <= j /\ k <= m
    BY <1>0, <1>1 DEF L
  <2>1. m < j => m + 1 \in k .. j
    BY <2>0
  <2>2. j < m => j + 1 \in k .. m
    BY <2>0
  <2>3. ~(m < j) /\ ~(j < m)
    BY <1>1, <2>1, <2>2 DEF WordEnds
  <2> QED BY <2>0, <2>3
<1>2. (CHOOSE m \in k .. L : WordEnds(l, k, m)) = j
  BY <1>1
<1> QED BY <1>2 DEF WordAt

(* Where words begin in what has no semicolon.                              *)
LEMMA WordBegins ==
    ASSUME NEW A, NEW src \in Seq(A), NEW q \in 1 .. Len(src)
    PROVE  q \in Begins(src, Psh2!Blank) <=>
              src[q] # Psh2!Blank /\ (q = 1 \/ src[q - 1] = Psh2!Blank)
<1> DEFINE L == Len(src)
<1>0. L \in Nat /\ q \in Int /\ 1 <= q
  <2>1. L \in Nat
    BY LenProperties
  <2> QED BY <2>1
<1>1. ASSUME NEW p \in 0 .. q - 1, Follows(src, Psh2!Blank, p, q), q # 1 PROVE src[q - 1] = Psh2!Blank
  <2>1. CASE p = q - 1
    <3>1. p # 0
      BY <1>0, <1>1, <2>1
    <3> QED BY <1>1, <2>1, <3>1 DEF Follows
  <2>2. CASE p # q - 1
    <3>1. q - 1 \in p + 1 .. q - 1
      BY <1>0, <2>2
    <3> QED BY <1>1, <3>1 DEF Follows
  <2> QED BY <2>1, <2>2
<1>2. ASSUME q = 1 \/ src[q - 1] = Psh2!Blank PROVE q - 1 \in 0 .. q - 1 /\ Follows(src, Psh2!Blank, q - 1, q)
  <2>1. q - 1 \in 0 .. q - 1 /\ (q = 1 => q - 1 = 0) /\ ~ \E m \in (q - 1) + 1 .. q - 1 : TRUE
    BY <1>0
  <2> QED BY <1>2, <2>1 DEF Follows
<1> QED BY <1>1, <1>2 DEF Begins

(* A word of a piece is one of the line.                                    *)
LEMMA PieceWord ==
    ASSUME Psh2!ShellAssumption, NEW l \in Seq(LineChars), NEW s \in Begins(l, Psh2!Semicolon),
           NEW q \in Begins(Cut(l, Psh2!Semicolon, s), Psh2!Blank)
    PROVE  /\ s + q - 1 \in Numbered(l, Number(l, s))
           /\ Cut(Cut(l, Psh2!Semicolon, s), Psh2!Blank, q) = WordAt(l, s + q - 1)
<1> DEFINE e == Psh2!pieceEnd(l, Psh2!Semicolon, s)
           L == Len(l)
           sub == Cut(l, Psh2!Semicolon, s)
           r == Psh2!pieceEnd(sub, Psh2!Blank, q)
           k == s + q - 1
           j == s + r - 2
<1>1. /\ L \in Nat /\ s \in 1 .. L /\ s \in Starts(l)
      /\ e \in s + 1 .. L + 1 /\ (e = L + 1 \/ l[e] = Psh2!Semicolon)
      /\ \A m \in s .. e - 1 : l[m] # Psh2!Semicolon
  BY CommandBegins
<1>2. s \in 1 .. L + 1
  <2> HIDE DEF L
  <2> QED BY <1>1
<1>3. /\ sub \in Seq(LineChars) /\ Len(sub) = e - s
      /\ \A m \in 1 .. e - s : sub[m] = l[s + m - 1]
  BY <1>2, CutTypes
<1>4. q \in 1 .. e - s /\ sub[q] # Psh2!Blank /\ (q = 1 \/ sub[q - 1] = Psh2!Blank)
  <2>1. q \in 1 .. Len(sub)
    BY DEF Begins
  <2> HIDE DEF sub, e
  <2> QED BY <1>3, <2>1, WordBegins DEF sub
<1> HIDE DEF e, sub
<1>5. e \in Int /\ s \in Int /\ q \in Int /\ 1 <= s /\ s < e /\ e <= L + 1 /\ 1 <= q /\ q <= e - s
  <2> HIDE DEF L
  <2>1. e \in Int /\ s \in Int /\ 1 <= s /\ s < e /\ e <= L + 1
    BY <1>1
  <2> QED BY <1>4, <2>1
<1>6. q \in 1 .. Len(sub) + 1
  BY <1>3, <1>5
<1>7. /\ r \in q .. e - s + 1 /\ (r = e - s + 1 \/ sub[r] = Psh2!Blank)
      /\ \A m \in q .. r - 1 : sub[m] # Psh2!Blank
      /\ Cut(sub, Psh2!Blank, q) \in Seq(LineChars) /\ Len(Cut(sub, Psh2!Blank, q)) = r - q
      /\ \A m \in 1 .. r - q : Cut(sub, Psh2!Blank, q)[m] = sub[q + m - 1]
  <2>1. r \in q .. Len(sub) + 1 /\ (r = Len(sub) + 1 \/ sub[r] = Psh2!Blank)
        /\ \A m \in q .. r - 1 : sub[m] # Psh2!Blank
    BY <1>3, <1>6, PieceEndIs
  <2>2. /\ Cut(sub, Psh2!Blank, q) \in Seq(LineChars) /\ Len(Cut(sub, Psh2!Blank, q)) = r - q
        /\ \A m \in 1 .. r - q : Cut(sub, Psh2!Blank, q)[m] = sub[q + m - 1]
    BY <1>3, <1>6, CutTypes
  <2> HIDE DEF r
  <2> QED BY <1>3, <2>1, <2>2
<1> HIDE DEF r, L
<1>8. r \in Int /\ q < r /\ r <= e - s + 1
  <2>1. r # q
    BY <1>4, <1>5, <1>7
  <2> QED BY <1>5, <1>7, <2>1
(* The letters of the piece are letters of the line.                        *)
<1>9. \A m \in 1 .. e - s : /\ s + m - 1 \in 1 .. L /\ sub[m] = l[s + m - 1]
                            /\ sub[m] # Psh2!Blank => Letter(l, s + m - 1)
  <2> TAKE m \in 1 .. e - s
  <2>1. s + m - 1 \in 1 .. L /\ s + m - 1 \in s .. e - 1
    BY <1>1, <1>5
  <2>2. l[s + m - 1] \in LineChars /\ l[s + m - 1] # Psh2!Semicolon
    BY <1>1, <2>1, ElementOfSeq DEF L
  <2> QED BY <1>3, <2>1, <2>2 DEF Letter, LineChars, L
<1>10. k \in Starts(l)
  <2>1. k \in 1 .. L /\ Letter(l, k)
    BY <1>4, <1>9
  <2>2. ~ Letter(l, k - 1)
    <3>1. CASE q = 1
      <4>1. k - 1 = s - 1
        BY <1>5, <3>1
      <4> QED BY <1>1, <4>1 DEF Starts
    <3>2. CASE q # 1
      <4>1. q - 1 \in 1 .. e - s /\ k - 1 = s + (q - 1) - 1
        BY <1>5, <3>2
      <4>2. l[k - 1] = Psh2!Blank
        BY <1>3, <1>4, <3>2, <4>1
      <4> QED BY <4>2 DEF Letter, Psh2!ShellAssumption
    <3> QED BY <3>1, <3>2
  <2> QED BY <2>1, <2>2 DEF Starts, L
<1>11. k \in Numbered(l, Number(l, s))
  <2>1. s <= k /\ k < e
    BY <1>5
  <2> HIDE DEF k
  <2>2. Number(l, k) = Number(l, s)
    BY <1>10, <2>1, SameNumber DEF e
  <2> QED BY <1>10, <2>2 DEF Numbered
<1>12. k \in 1 .. L /\ j \in k .. L /\ j - k + 1 = r - q /\ j \in Int /\ k \in Int /\ k <= j /\ j <= L
  BY <1>1, <1>5, <1>8
<1>13. WordEnds(l, k, j)
  <2>1. ~ Letter(l, j + 1)
    <3>1. CASE r = e - s + 1
      <4>1. j + 1 = e
        BY <1>5, <1>8, <3>1
      <4>2. e = L + 1 => e \notin 1 .. L
        BY <1>1
      <4> QED BY <1>1, <4>1, <4>2 DEF Letter, L, Psh2!ShellAssumption
    <3>2. CASE r # e - s + 1
      <4>1. r \in 1 .. e - s /\ j + 1 = s + r - 1
        BY <1>5, <1>8, <3>2
      <4>2. l[j + 1] = Psh2!Blank
        BY <1>3, <1>7, <3>2, <4>1
      <4> QED BY <4>2 DEF Letter, Psh2!ShellAssumption
    <3> QED BY <3>1, <3>2
  <2>2. ASSUME NEW m \in k .. j PROVE Letter(l, m)
    <3>1. m - s + 1 \in 1 .. e - s /\ m - s + 1 \in q .. r - 1 /\ s + (m - s + 1) - 1 = m
      BY <1>5, <1>8
    <3> QED BY <1>7, <1>9, <3>1
  <2> HIDE DEF k, j
  <2> QED BY <2>1, <2>2 DEF WordEnds
<1>14. WordAt(l, k) = SubSeq(l, k, j)
  <2> HIDE DEF k, j
  <2> QED BY <1>12, <1>13, WordEndIs DEF L
<1>15. /\ SubSeq(l, k, j) \in Seq(LineChars) /\ Len(SubSeq(l, k, j)) = r - q
       /\ \A m \in 1 .. r - q : SubSeq(l, k, j)[m] = l[k + m - 1]
  <2> HIDE DEF k, j
  <2>1. \A m \in k .. j : l[m] \in LineChars
    <3>1. \A m \in k .. j : m \in 1 .. L
      BY <1>1, <1>12
    <3> QED BY <3>1, ElementOfSeq DEF L
  <2>2. r - q = IF k <= j THEN j - k + 1 ELSE 0
    BY <1>12
  <2> QED BY <1>12, <2>1, <2>2, SubSeqProperties
<1>16. \A m \in 1 .. r - q : Cut(sub, Psh2!Blank, q)[m] = SubSeq(l, k, j)[m]
  <2> TAKE m \in 1 .. r - q
  <2>1. q + m - 1 \in 1 .. e - s /\ s + (q + m - 1) - 1 = k + m - 1
    BY <1>5, <1>8
  <2>2. Cut(sub, Psh2!Blank, q)[m] = l[s + (q + m - 1) - 1]
    BY <1>3, <1>7, <2>1
  <2> QED BY <1>15, <2>1, <2>2
<1>17. Cut(sub, Psh2!Blank, q) = SubSeq(l, k, j)
  <2> HIDE DEF k, j
  <2> QED BY <1>7, <1>15, <1>16, SeqEqual
<1> QED BY <1>11, <1>14, <1>17 DEF sub

(* The words of a piece are those of the command of its number.             *)
LEMMA PieceWords ==
    ASSUME Psh2!ShellAssumption, NEW l \in Seq(LineChars), NEW s \in Begins(l, Psh2!Semicolon)
    PROVE  /\ Psh2!conver2List(Cut(l, Psh2!Semicolon, s)) = Command(l, Number(l, s))
           /\ Command(l, Number(l, s)) # << >>
<1> DEFINE e == Psh2!pieceEnd(l, Psh2!Semicolon, s)
           L == Len(l)
           sub == Cut(l, Psh2!Semicolon, s)
           Q == Begins(sub, Psh2!Blank)
           R == Numbered(l, Number(l, s))
           g == [q \in Q |-> s + q - 1]
<1>1. /\ L \in Nat /\ s \in 1 .. L /\ s \in Starts(l)
      /\ e \in s + 1 .. L + 1 /\ (e = L + 1 \/ l[e] = Psh2!Semicolon)
      /\ \A m \in s .. e - 1 : l[m] # Psh2!Semicolon
  BY CommandBegins
<1>2. s \in 1 .. L + 1
  <2> HIDE DEF L
  <2> QED BY <1>1
<1>3. /\ sub \in Seq(LineChars) /\ Len(sub) = e - s
      /\ \A m \in 1 .. e - s : sub[m] = l[s + m - 1]
  BY <1>2, CutTypes
<1>4. \A q \in 1 .. e - s : q \in Q <=> sub[q] # Psh2!Blank /\ (q = 1 \/ sub[q - 1] = Psh2!Blank)
  <2> HIDE DEF sub, e
  <2> QED BY <1>3, WordBegins DEF sub
<1>5. \A q \in Q : q \in 1 .. e - s
  <2>1. \A q \in Q : q \in 1 .. Len(sub)
    BY DEF Begins
  <2> HIDE DEF sub, e, Q
  <2> QED BY <1>3, <2>1
<1>6. \A q \in Q : s + q - 1 \in R /\ Cut(sub, Psh2!Blank, q) = WordAt(l, s + q - 1)
  BY PieceWord
<1> HIDE DEF e, sub, Q, L
<1>7. e \in Int /\ s \in Int /\ 1 <= s /\ s < e /\ e <= L + 1 /\ e - s \in Nat
  BY <1>1
<1>8. \A k \in R : k \in 1 .. L
  BY DEF Numbered, Starts, L
<1>9. ASSUME NEW k \in R PROVE k - s + 1 \in Q /\ s + (k - s + 1) - 1 = k
  <2>1. k \in Starts(l) /\ s <= k /\ k < e
    BY SameNumber DEF Numbered, e
  <2>2. k \in Int /\ k \in 1 .. L
    BY <1>1, <1>8
  <2> DEFINE q == k - s + 1
  <2>3. q \in 1 .. e - s /\ q \in Int /\ s + q - 1 = k /\ (q # 1 => q - 1 \in 1 .. e - s /\ s + (q - 1) - 1 = k - 1)
    BY <1>7, <2>1, <2>2
  <2>4. sub[q] # Psh2!Blank
    <3>1. l[k] \in Letters
      BY <2>1 DEF Starts, Letter
    <3> HIDE DEF q
    <3> QED BY <1>3, <2>3, <3>1 DEF Psh2!ShellAssumption
  <2>5. ASSUME q # 1 PROVE sub[q - 1] = Psh2!Blank
    <3>0. k # s
      BY <1>7, <2>5
    <3>1. k - 1 \in 1 .. L /\ k - 1 \in s .. e - 1
      <4>1. k \in Int /\ e \in Int /\ s \in Int /\ L \in Int /\ 1 <= s /\ k <= L
        BY <1>1, <1>7, <2>2
      <4>2. s <= k - 1 /\ k - 1 < e
        <5> HIDE DEF q
        <5> QED BY <2>1, <3>0, <4>1
      <4> HIDE DEF q
      <4> QED BY <4>1, <4>2
    <3>2. l[k - 1] \in LineChars /\ l[k - 1] # Psh2!Semicolon /\ l[k - 1] \notin Letters
      BY <1>1, <2>1, <3>1, ElementOfSeq DEF L, Starts, Letter
    <3> HIDE DEF q
    <3> QED BY <1>3, <2>3, <2>5, <3>2 DEF LineChars
  <2>6. q \in Q
    <3> HIDE DEF q
    <3> QED BY <1>4, <2>3, <2>4, <2>5
  <2> QED BY <2>3, <2>6
<1> HIDE DEF R
<1>10. /\ Q \in SUBSET (0 .. e - s) /\ R \in SUBSET (0 .. L) /\ g \in [Q -> R]
       /\ \A y \in R : \E x \in Q : g[x] = y
       /\ \A x, y \in Q : x < y => g[x] < g[y]
  <2>1. Q \in SUBSET (0 .. e - s)
    BY <1>5, <1>7
  <2>2. R \in SUBSET (0 .. L)
    BY <1>1, <1>8
  <2>3. g \in [Q -> R]
    BY <1>6
  <2>4. \A y \in R : \E x \in Q : g[x] = y
    <3> TAKE y \in R
    <3>1. g[y - s + 1] = y
      BY <1>9
    <3> QED BY <1>9, <3>1
  <2>5. \A x, y \in Q : x < y => g[x] < g[y]
    <3> TAKE x, y \in Q
    <3>1. x \in Int /\ y \in Int
      BY <1>5, <1>7
    <3> QED BY <1>7, <3>1
  <2> QED BY <2>1, <2>2, <2>3, <2>4, <2>5
<1>11. /\ Cardinality(R) = Cardinality(Q)
       /\ \A n \in 1 .. Cardinality(Q) : Psh2!InOrder(R)[n] = g[Psh2!InOrder(Q)[n]]
  <2> HIDE DEF g
  <2> DEFINE N == e - s
  <2>1. N \in Nat /\ L \in Nat /\ Q \subseteq 0 .. N /\ R \subseteq 0 .. L /\ g \in [Q -> R]
    BY <1>1, <1>7, <1>10
  <2>2. \A y \in R : \E x \in Q : g[x] = y
    BY <1>10
  <2>3. \A x, y \in Q : x < y => g[x] < g[y]
    BY <1>10
  <2>4. RisesOnto(g, Q, R, N, L)
    BY <2>1, <2>2, <2>3 DEF RisesOnto
  <2> QED BY <2>4, InOrderMapped
<1>12. /\ Cardinality(Q) \in Nat /\ Psh2!InOrder(Q) \in [1 .. Cardinality(Q) -> Q]
       /\ \A k \in Q : Count(Q, 0, k) \in 1 .. Cardinality(Q)
  BY <1>7, <1>10, InOrderProperties
<1>13. Len(Psh2!InOrder(R)) = Cardinality(Q)
  <2>1. Cardinality(R) \in Nat /\ Psh2!InOrder(R) \in [1 .. Cardinality(R) -> R]
    BY <1>1, <1>10, InOrderProperties
  <2> QED BY <1>11, <2>1, LenProperties
<1> DEFINE c == Cardinality(Q)
<1>14. ASSUME NEW n \in 1 .. c
       PROVE  Cut(sub, Psh2!Blank, Psh2!InOrder(Q)[n]) = WordAt(l, Psh2!InOrder(R)[n])
  <2>1. Psh2!InOrder(Q)[n] \in Q
    BY <1>12
  <2>2. Psh2!InOrder(R)[n] = s + Psh2!InOrder(Q)[n] - 1
    BY <1>11, <2>1
  <2> QED BY <1>6, <2>1, <2>2
<1>15. Psh2!conver2List(sub) = [n \in 1 .. c |-> Cut(sub, Psh2!Blank, Psh2!InOrder(Q)[n])]
  BY <1>3, PiecesAre DEF Psh2!conver2List, Cuts, Q
<1>16. Command(l, Number(l, s)) = [n \in 1 .. c |-> WordAt(l, Psh2!InOrder(R)[n])]
  BY <1>13 DEF Command, R
<1>17. 1 \in 1 .. c
  <2>1. s \in R
    BY <1>1 DEF R, Numbered
  <2>2. s - s + 1 \in Q
    BY <1>9, <2>1
  <2>3. c \in Nat /\ Count(Q, 0, s - s + 1) \in 1 .. c
    BY <1>12, <2>2
  <2> HIDE DEF c
  <2> QED BY <2>3
<1> HIDE DEF c
<1>18. Psh2!conver2List(sub) = Command(l, Number(l, s))
  BY <1>14, <1>15, <1>16
<1>19. DOMAIN Command(l, Number(l, s)) # {}
  BY <1>16, <1>17
<1> QED BY <1>18, <1>19 DEF sub

(* Every word has the number of a piece, and no two pieces have the same.   *)
LEMMA PieceNumbers ==
    ASSUME Psh2!ShellAssumption, NEW l \in Seq(LineChars)
    PROVE  LET B == Begins(l, Psh2!Semicolon)
           IN  /\ \A s \in B : Number(l, s) \in Numbers(l)
               /\ \A n \in Numbers(l) : \E s \in B : Number(l, s) = n
               /\ \A s, t \in B : s < t => Number(l, s) < Number(l, t)
<1> DEFINE B == Begins(l, Psh2!Semicolon)
           L == Len(l)
<1>0. L \in Nat
  BY LenProperties
<1>1. \A s \in B : s \in 1 .. L /\ s \in Starts(l)
  BY CommandBegins
<1>2. ASSUME NEW s \in B PROVE Number(l, s) \in Numbers(l)
  BY <1>1 DEF Numbers
<1>3. ASSUME NEW s \in B, NEW t \in B, s < t PROVE Number(l, s) < Number(l, t)
  <2>1. PICK p \in 0 .. t - 1 : Follows(l, Psh2!Semicolon, p, t)
    BY DEF Begins
  <2>2. l[s] # Psh2!Blank /\ l[s] # Psh2!Semicolon
    BY DEF Begins
  <2>3. s \in 1 .. L /\ t \in 1 .. L
    BY <1>1
  <2> HIDE DEF B, L
  <2>4. s # p
    BY <1>0, <2>1, <2>2, <2>3 DEF Follows
  <2>5. ~(p < s)
    <3>1. p < s => s \in p + 1 .. t - 1
      BY <1>0, <1>3, <2>3
    <3> QED BY <2>1, <2>2, <3>1 DEF Follows
  <2>6. p \in s + 1 .. t /\ p # 0 /\ s <= t
    BY <1>0, <1>3, <2>1, <2>3, <2>4, <2>5
  <2>7. l[p] = Psh2!Semicolon
    BY <2>1, <2>6 DEF Follows
  <2> QED BY <2>3, <2>6, <2>7, NumberRises DEF L
<1>4. ASSUME NEW k \in Starts(l) PROVE \E s \in B : Number(l, s) = Number(l, k)
  <2> DEFINE T == {m \in Nat : m \in 0 .. k /\ (m = k \/ l[k - m] = Psh2!Semicolon)}
  <2>1. k \in 1 .. L /\ l[k] \in Letters /\ l[k] # Psh2!Blank /\ l[k] # Psh2!Semicolon
    <3>1. k \in 1 .. L /\ l[k] \in Letters
      BY DEF Starts, Letter
    <3> QED BY <3>1 DEF Psh2!ShellAssumption
  <2>2. k \in Nat
    <3> HIDE DEF L
    <3> QED BY <1>0, <2>1
  <2>3. k \in T
    BY <2>2
  <2>4. PICK m \in T : \A n \in T : m <= n
    BY <2>3, Least, T \subseteq Nat
  <2> DEFINE p == k - m
             s == Psh2!skipHeadBlank(l, p + 1)
  <2>5. m \in Nat /\ m \in 0 .. k /\ (m = k \/ l[p] = Psh2!Semicolon)
    BY <2>4
  <2>6. p \in Int /\ 0 <= p /\ p <= k /\ (p = 0 \/ l[p] = Psh2!Semicolon)
    BY <2>2, <2>5
  <2>7. \A n \in p + 1 .. k : l[n] # Psh2!Semicolon
    <3> SUFFICES ASSUME NEW n \in p + 1 .. k, l[n] = Psh2!Semicolon PROVE FALSE
      OBVIOUS
    <3>1. k - n \in Nat /\ k - n \in 0 .. k /\ k - (k - n) = n /\ ~(m <= k - n)
      BY <2>2, <2>5
    <3>2. k - n \in T
      BY <3>1
    <3> HIDE DEF T
    <3> QED BY <2>4, <3>1, <3>2
  <2> HIDE DEF p, T
  <2>8. p # k /\ p + 1 \in 1 .. L + 1
    <3>1. p # k
      BY <2>1, <2>2, <2>6
    <3> HIDE DEF L
    <3> QED BY <1>0, <2>1, <2>6, <3>1
  <2>9. s \in p + 1 .. L + 1 /\ (s = L + 1 \/ l[s] # Psh2!Blank) /\ \A n \in p + 1 .. s - 1 : l[n] = Psh2!Blank
    BY <2>8, SkipIs
  <2> HIDE DEF s, L
  <2>10. s \in Int /\ s <= k /\ p < s
    <3>1. s \in Int /\ p < s
      BY <1>0, <2>6, <2>9
    <3>2. k < s => k \in p + 1 .. s - 1
      BY <2>1, <2>2, <2>6, <2>8, <3>1
    <3> QED BY <2>1, <2>2, <2>9, <3>1, <3>2
  <2>11. s \in 1 .. L /\ s # L + 1 /\ s \in p + 1 .. k /\ p \in 0 .. s - 1
    BY <1>0, <2>1, <2>2, <2>6, <2>10
  <2>12. l[s] # Psh2!Blank /\ l[s] # Psh2!Semicolon
    BY <2>7, <2>9, <2>11
  <2>13. Follows(l, Psh2!Semicolon, p, s)
    BY <2>6, <2>9 DEF Follows
  <2>14. s \in B
    BY <2>11, <2>12, <2>13 DEF Begins, L
  <2>15. \A n \in s + 1 .. k : l[n] # Psh2!Semicolon
    <3>1. \A n \in s + 1 .. k : n \in p + 1 .. k
      BY <2>2, <2>6, <2>10
    <3> QED BY <2>7, <3>1
  <2> HIDE DEF B
  <2>16. Number(l, s) = Number(l, k)
    BY <2>1, <2>10, <2>11, <2>15, NumberRises DEF L
  <2> QED BY <2>14, <2>16
<1>5. \A n \in Numbers(l) : \E s \in B : Number(l, s) = n
  <2> HIDE DEF B
  <2> QED BY <1>4 DEF Numbers
<1> HIDE DEF B
<1> QED BY <1>2, <1>3, <1>5 DEF B

(* What the loops cut out of a line are the commands it asks for, each with *)
(* the words it asks for.                                                   *)
LEMMA CommandsAre ==
    ASSUME Psh2!ShellAssumption, NEW l \in Seq(LineChars)
    PROVE  LET c == Psh2!split2ArrByChar(l)
               C == Psh2!Commands(l)
           IN  /\ Len(c) = Len(C) /\ Len(C) \in Nat /\ C \in Seq({C[n] : n \in 1 .. Len(C)})
               /\ \A n \in 1 .. Len(C) : Psh2!conver2List(c[n]) = C[n] /\ C[n] # << >>
<1> DEFINE L == Len(l)
           B == Begins(l, Psh2!Semicolon)
           R == Numbers(l)
           g == [s \in B |-> Number(l, s)]
           c == Psh2!split2ArrByChar(l)
           C == Psh2!Commands(l)
           b == Cardinality(B)
<1>0. L \in Nat
  BY LenProperties
<1>1. B \in SUBSET (1 .. L)
  BY CommandBegins
<1>2. B \subseteq 0 .. L
  <2> HIDE DEF B, L
  <2> QED BY <1>0, <1>1
<1>3. R \subseteq 0 .. L
  BY NumberIs DEF Numbers, Starts
<1>4. g \in [B -> R] /\ \A n \in R : \E s \in B : g[s] = n
  BY PieceNumbers
<1>5. \A s, t \in B : s < t => g[s] < g[t]
  BY PieceNumbers
<1>6. \A s \in B : /\ Psh2!conver2List(Cut(l, Psh2!Semicolon, s)) = Command(l, g[s])
                   /\ Command(l, g[s]) # << >>
  BY PieceWords
<1>7. /\ c = [n \in 1 .. b |-> Cut(l, Psh2!Semicolon, Psh2!InOrder(B)[n])]
      /\ Len(c) = b
  BY <1>1, CutsTypes, PiecesAre DEF Psh2!split2ArrByChar, Cuts
<1>8. C = [n \in 1 .. Len(Psh2!InOrder(R)) |-> Command(l, Psh2!InOrder(R)[n])]
  BY CommandsNamed
<1> HIDE DEF L, B, R, g, c, C, b
<1>9. RisesOnto(g, B, R, L, L)
  BY <1>0, <1>2, <1>3, <1>4, <1>5 DEF RisesOnto
<1>10. Cardinality(R) = b /\ \A n \in 1 .. b : Psh2!InOrder(R)[n] = g[Psh2!InOrder(B)[n]]
  BY <1>9, InOrderMapped DEF b
<1>11. b \in Nat /\ Psh2!InOrder(B) \in [1 .. b -> B]
  BY <1>0, <1>2, InOrderProperties DEF b
<1>12. Len(Psh2!InOrder(R)) = b
  <2>1. Psh2!InOrder(R) \in [1 .. b -> R]
    BY <1>0, <1>3, <1>10, InOrderProperties
  <2> QED BY <1>11, <2>1, LenProperties
<1>13. \A n \in 1 .. b : C[n] = Command(l, g[Psh2!InOrder(B)[n]])
  BY <1>8, <1>10, <1>12
<1>14. \A n \in 1 .. b : Psh2!conver2List(c[n]) = C[n] /\ C[n] # << >>
  BY <1>6, <1>7, <1>11, <1>13
<1>15. C \in [1 .. b -> {C[n] : n \in 1 .. b}]
  BY <1>8, <1>12
<1>16. C \in Seq({C[n] : n \in 1 .. b}) /\ Len(C) = b
  BY <1>11, <1>15, SeqDef, LenProperties
<1> QED BY <1>7, <1>11, <1>14, <1>16 DEF c, C

-----------------------------------------------------------------------------
(* Commands run in order                                                    *)

LEMMA LinesAreSequences ==
    ASSUME Psh2!ShellAssumption, NEW l \in Psh2!Lines
    PROVE  l \in Seq(LineChars)
BY BoundedSequences DEF Psh2!Lines, Psh2!BoundedSeq, Psh2!SeqOf, Psh2!ShellAssumption, LineChars

(* One more command of C ...                                                *)
LEMMA RunOneMore ==
    ASSUME NEW D, NEW C \in Seq(D), NEW r \in 0 .. Len(C), r # Len(C)
    PROVE  /\ r + 1 \in 1 .. Len(C)
           /\ Append(SubSeq(C, 1, r), C[r + 1]) = SubSeq(C, 1, r + 1)
<1> DEFINE s == SubSeq(C, 1, r)
           t == SubSeq(C, 1, r + 1)
<1>0. Len(C) \in Nat /\ r \in Nat
  BY LenProperties
<1>1. r + 1 \in 1 .. Len(C) /\ r + 1 \in 0 .. Len(C)
  BY <1>0
<1>2. s \in Seq(D) /\ Len(s) = r /\ \A k \in 1 .. r : s[k] = C[k]
  BY PrefixProperties
<1>3. t \in Seq(D) /\ Len(t) = r + 1 /\ \A k \in 1 .. r + 1 : t[k] = C[k]
  BY <1>1, PrefixProperties
<1>4. C[r + 1] \in D
  BY <1>1, ElementOfSeq
<1> HIDE DEF s, t
<1>5. /\ Append(s, C[r + 1]) \in Seq(D) /\ Len(Append(s, C[r + 1])) = r + 1
      /\ \A k \in 1 .. r : Append(s, C[r + 1])[k] = s[k]
      /\ Append(s, C[r + 1])[r + 1] = C[r + 1]
  BY <1>2, <1>4, AppendProperties
<1>6. \A k \in 1 .. r + 1 : Append(s, C[r + 1])[k] = t[k]
  <2> TAKE k \in 1 .. r + 1
  <2>1. k = r + 1 \/ k \in 1 .. r
    BY <1>0
  <2> QED BY <2>1, <1>2, <1>3, <1>5
<1>7. Append(s, C[r + 1]) = t
  BY <1>3, <1>5, <1>6, SeqEqual
<1> QED BY <1>1, <1>7 DEF s, t

(* ... and what has run when the line is done with.                         *)
Exits(C, k) == C[k][1] = Exit

LEMMA WantedAre ==
    ASSUME NEW D, NEW C \in Seq(D), NEW r \in 0 .. Len(C), \A k \in 1 .. r : ~ Exits(C, k)
    PROVE  \E w \in r .. Len(C) :
               /\ Psh2!BeforeExit(C) = SubSeq(C, 1, w)
               /\ r # Len(C) /\ Exits(C, r + 1) => w = r
               /\ r = Len(C) => w = r
<1> DEFINE L == Len(C)
           first == CHOOSE k \in 1 .. L : Exits(C, k) /\ \A m \in 1 .. k - 1 : ~ Exits(C, m)
<1>0. L \in Nat /\ r \in Nat /\ r <= L
  <2>1. L \in Nat
    BY LenProperties
  <2> QED BY <2>1
<1>1. Psh2!BeforeExit(C) = SubSeq(C, 1, IF \E k \in 1 .. L : Exits(C, k) THEN first - 1 ELSE L)
  BY DEF Psh2!BeforeExit, Exits
<1> HIDE DEF L
<1>2. CASE \E k \in 1 .. L : Exits(C, k)
  <2> DEFINE T == {k \in Nat : k \in 1 .. L /\ Exits(C, k)}
  <2>1. T \subseteq Nat /\ T # {}
    BY <1>2
  <2>2. PICK x \in T : \A y \in T : x <= y
    BY <2>1, Least
  <2>3. x \in 1 .. L /\ Exits(C, x) /\ \A m \in 1 .. x - 1 : ~ Exits(C, m)
    BY <1>0, <2>2
  <2>4. first \in 1 .. L /\ Exits(C, first) /\ \A m \in 1 .. first - 1 : ~ Exits(C, m)
    BY <2>3
  <2> HIDE DEF first, T
  <2>5. r < first /\ first - 1 \in r .. L
    <3>1. ~(first \in 1 .. r)
      BY <2>4
    <3> QED BY <1>0, <2>4, <3>1
  <2>6. r # L /\ Exits(C, r + 1) => first - 1 = r
    <3>1. r + 1 < first => r + 1 \in 1 .. first - 1
      BY <1>0, <2>4
    <3> QED BY <1>0, <2>4, <2>5, <3>1
  <2>7. r = L => first - 1 = r
    BY <1>0, <2>4, <2>5
  <2>8. Psh2!BeforeExit(C) = SubSeq(C, 1, first - 1)
    BY <1>1, <1>2
  <2> QED BY <2>5, <2>6, <2>7, <2>8 DEF L
<1>3. CASE ~ \E k \in 1 .. L : Exits(C, k)
  <2>1. Psh2!BeforeExit(C) = SubSeq(C, 1, L) /\ L \in r .. L
    BY <1>0, <1>1, <1>3
  <2>2. r # L => r + 1 \in 1 .. L
    BY <1>0
  <2> QED BY <1>3, <2>1, <2>2 DEF L
<1> QED BY <1>2, <1>3

-----------------------------------------------------------------------------
(* The shell                                                                *)

(* Of the commands of the line the first r have been forked, none an exit,  *)
(* and why the line ends here.                                              *)
Ran(r) ==
    LET C == Psh2!Commands(line) IN
    /\ ran = SubSeq(C, 1, r) /\ \A k \in 1 .. r : ~ Exits(C, k)
    /\ psh = "command" => r = i - 1
    /\ psh \in {"ignore", "wait"} => r = i
    /\ psh = "free" => IF exitFlag THEN r # Len(C) /\ Exits(C, r + 1) ELSE status = 123 \/ r = Len(C)

ShellInv ==
    /\ Psh2!TypeOK /\ Psh2!ChildrenAreWaitedFor
    /\ line \in Seq(LineChars) /\ cmdArr = Psh2!split2ArrByChar(line)
    /\ psh = "prompt" => i = 1 /\ ran = << >>
    /\ psh \in {"prompt", "command", "ignore", "wait"} => ~ exitFlag
    /\ \E r \in 0 .. Len(Psh2!Commands(line)) : Ran(r)

(* Steps that keep line, what ran and, but for ^C, the shell where it is.   *)
LEMMA ShellWaits ==
    ASSUME ShellInv, Psh2!ChildrenAreWaitedFor', UNCHANGED <<line, cmdArr, i, exitFlag, ran>>,
           psh' = psh \/ psh' = "killed", psh = "free" => UNCHANGED status,
           sigint' \in {"default", "ignore"}, childint' \in {"default", "ignore"},
           child' \in {"none", "forked", "program", "zombie"}, status' \in {0, 1, 123}
    PROVE  ShellInv'
<1>1. Psh2!TypeOK'
  BY DEF ShellInv, Psh2!TypeOK
<1>2. PICK r \in 0 .. Len(Psh2!Commands(line)) : Ran(r)
  BY DEF ShellInv
<1>3. Psh2!Commands(line)' = Psh2!Commands(line)
  OBVIOUS
<1>4. Ran(r)'
  BY <1>2, <1>3 DEF Ran
<1> QED BY <1>1, <1>2, <1>3, <1>4 DEF ShellInv

LEMMA EmptyLine ==
    ASSUME NEW l, l = << >>
    PROVE  l \in Seq(LineChars) /\ Psh2!split2ArrByChar(l) = << >>
<1>1. l \in Seq(LineChars) /\ Len(l) = 0
  BY EmptySeq
<1>2. Begins(l, Psh2!Semicolon) = {}
  BY <1>1 DEF Begins
<1>3. Psh2!split2ArrByChar(l) = Cuts(l, Psh2!Semicolon, {})
  BY <1>1, <1>2, PiecesAre DEF Psh2!split2ArrByChar
<1> QED BY <1>1, <1>3, NoCuts

LEMMA NothingRan ==
    ASSUME Psh2!ShellAssumption, NEW l \in Seq(LineChars)
    PROVE  LET C == Psh2!Commands(l)
           IN  0 \in 0 .. Len(C) /\ SubSeq(C, 1, 0) = << >>
<1> DEFINE C == Psh2!Commands(l)
<1>1. Len(C) \in Nat /\ C \in Seq({C[n] : n \in 1 .. Len(C)})
  BY CommandsAre
<1> HIDE DEF C
<1>2. 0 \in 0 .. Len(C)
  BY <1>1
<1>3. SubSeq(C, 1, 0) \in Seq({C[n] : n \in 1 .. Len(C)}) /\ Len(SubSeq(C, 1, 0)) = 0
  BY <1>1, <1>2, PrefixProperties
<1>4. SubSeq(C, 1, 0) = << >>
  BY <1>3, EmptySeq
<1> QED BY <1>2, <1>4 DEF C

LEMMA ShellInit == ASSUME Psh2!ShellAssumption, Psh2!Init PROVE ShellInv
<1>1. line \in Seq(LineChars) /\ cmdArr = Psh2!split2ArrByChar(line)
  BY EmptyLine DEF Psh2!Init
<1>2. Ran(0) /\ 0 \in 0 .. Len(Psh2!Commands(line))
  BY <1>1, NothingRan DEF Psh2!Init, Ran
<1>3. Len(cmdArr) = 0
  BY EmptySeq DEF Psh2!Init
<1>4. Psh2!TypeOK /\ Psh2!ChildrenAreWaitedFor
  <2>1. i = 1 /\ i \in 1 .. Len(cmdArr) + 1
    BY <1>3 DEF Psh2!Init
  <2>2. /\ psh = "prompt" /\ exitFlag = FALSE /\ sigint = "default" /\ child = "none"
        /\ childint = "default" /\ status = 0
    BY DEF Psh2!Init
  <2> QED BY <2>1, <2>2 DEF Psh2!TypeOK, Psh2!ChildrenAreWaitedFor
<1> QED BY <1>1, <1>2, <1>4 DEF ShellInv, Psh2!Init

LEMMA ShellReadLine ==
    ASSUME Psh2!ShellAssumption, ShellInv, Psh2!ReadLine
    PROVE  ShellInv'
<1> USE DEF Psh2!ReadLine
<1>1. line' \in Seq(LineChars) /\ cmdArr' = Psh2!split2ArrByChar(line')
  BY LinesAreSequences
<1>2. Len(cmdArr') \in Nat
  BY <1>1, CommandsAre
<1>3. Ran(0)' /\ 0 \in 0 .. Len(Psh2!Commands(line'))
  <2>1. i' = 1 /\ ran' = << >>
    BY DEF ShellInv
  <2> QED BY <1>1, <2>1, NothingRan DEF Ran
<1>4. Psh2!TypeOK' /\ Psh2!ChildrenAreWaitedFor'
  BY <1>2 DEF ShellInv, Psh2!TypeOK, Psh2!ChildrenAreWaitedFor
<1> QED BY <1>1, <1>3, <1>4 DEF ShellInv

LEMMA ShellCommand ==
    ASSUME Psh2!ShellAssumption, ShellInv,
           Psh2!EndOfFile \/ Psh2!EndOfLine \/ Psh2!ExitCommand \/ Psh2!Fork \/ Psh2!ForkFails
    PROVE  ShellInv'
<1> DEFINE C == Psh2!Commands(line)
           L == Len(C)
<1>0. PICK r \in 0 .. L : Ran(r)
  BY DEF ShellInv
<1>1. /\ Len(cmdArr) = L /\ L \in Nat /\ C \in Seq({C[n] : n \in 1 .. L})
      /\ \A n \in 1 .. L : Psh2!conver2List(cmdArr[n]) = C[n] /\ C[n] # << >>
  BY CommandsAre DEF ShellInv
<1>2. i \in 1 .. L + 1 /\ i \in Int
  BY <1>1 DEF ShellInv, Psh2!TypeOK
<1>3. i <= L => i \in 1 .. L /\ Psh2!list = C[i] /\ C[i] # << >>
  <2>1. i <= L => i \in 1 .. L
    <3> HIDE DEF L
    <3> QED BY <1>1, <1>2
  <2> QED BY <1>1, <2>1 DEF Psh2!list
<1>4. psh = "command" => r = i - 1 /\ ~ exitFlag /\ ran = SubSeq(C, 1, r)
  BY <1>0 DEF Ran, ShellInv
<1>5. ASSUME UNCHANGED line PROVE C' = C
  BY <1>5
<1>6. CASE Psh2!EndOfFile
  <2>1. Ran(r)' /\ C' = C
    BY <1>0, <1>6 DEF Ran, Psh2!EndOfFile, Psh2!words
  <2> QED BY <1>6, <2>1 DEF Psh2!EndOfFile, Psh2!words, ShellInv, Psh2!TypeOK, Psh2!ChildrenAreWaitedFor
<1>7. CASE Psh2!EndOfLine
  <2>1. r = L
    BY <1>1, <1>2, <1>4, <1>7 DEF Psh2!EndOfLine
  <2>2. Ran(r)' /\ C' = C
    BY <1>0, <1>4, <1>7, <2>1 DEF Ran, Psh2!EndOfLine, Psh2!words
  <2> QED BY <1>7, <2>2 DEF Psh2!EndOfLine, Psh2!words, ShellInv, Psh2!TypeOK, Psh2!ChildrenAreWaitedFor
<1>8. CASE Psh2!ExitCommand
  <2>1. i <= L /\ psh = "command" /\ C[i][1] = Exit
    BY <1>1, <1>3, <1>8 DEF Psh2!ExitCommand
  <2>2. r + 1 = i /\ r # L
    BY <1>1, <1>2, <1>4, <2>1
  <2>3. Ran(r)' /\ C' = C
    <3>1. psh' = "free" /\ exitFlag' /\ UNCHANGED <<line, i, ran, status>>
      BY <1>8 DEF Psh2!ExitCommand, Psh2!words
    <3>2. C' = C
      BY <3>1
    <3> QED BY <1>0, <2>1, <2>2, <3>1, <3>2 DEF Ran, Exits
  <2> QED BY <1>8, <2>3 DEF Psh2!ExitCommand, Psh2!words, ShellInv, Psh2!TypeOK, Psh2!ChildrenAreWaitedFor
<1>9. CASE Psh2!Fork
  <2>1. i <= L /\ psh = "command"
    BY <1>1, <1>9 DEF Psh2!Fork
  <2>2. /\ C[i][1] # Exit /\ child' = "forked" /\ childint' = sigint
        /\ ran' = Append(ran, C[i]) /\ psh' = "ignore"
        /\ UNCHANGED <<line, cmdArr, i, exitFlag, sigint, status>>
    BY <1>3, <1>9, <2>1 DEF Psh2!Fork, Psh2!words
  <2>3. r + 1 = i /\ r # L
    BY <1>1, <1>2, <1>4, <2>1
  <2>4. r + 1 \in 0 .. L /\ ran' = SubSeq(C, 1, r + 1) /\ ~ Exits(C, r + 1)
    <3>1. r + 1 \in 0 .. L
      BY <1>1, <1>2, <2>1, <2>3
    <3> HIDE DEF C
    <3> QED BY <1>1, <1>4, <2>1, <2>2, <2>3, <3>1, RunOneMore DEF Exits
  <2>5. \A k \in 1 .. r + 1 : ~ Exits(C, k)
    <3>1. \A k \in 1 .. r : ~ Exits(C, k)
      BY <1>0 DEF Ran
    <3>2. \A k \in 1 .. r + 1 : k = r + 1 \/ k \in 1 .. r
      BY <1>1, <1>2, <2>3
    <3> HIDE DEF C
    <3> QED BY <2>4, <3>1, <3>2
  <2>6. C' = C
    BY <2>2
  <2>7. Ran(r + 1)'
    BY <2>2, <2>3, <2>4, <2>5, <2>6 DEF Ran
  <2>8. Psh2!TypeOK' /\ Psh2!ChildrenAreWaitedFor'
    BY <2>2 DEF ShellInv, Psh2!TypeOK, Psh2!ChildrenAreWaitedFor
  <2> QED BY <2>1, <2>2, <2>4, <2>6, <2>7, <2>8 DEF ShellInv
<1>10. CASE Psh2!ForkFails
  <2>1. Ran(r)' /\ C' = C
    BY <1>0, <1>10 DEF Ran, Psh2!ForkFails, Psh2!words
  <2> QED BY <1>10, <2>1 DEF Psh2!ForkFails, Psh2!words, ShellInv, Psh2!TypeOK, Psh2!ChildrenAreWaitedFor
<1> QED BY <1>6, <1>7, <1>8, <1>9, <1>10

LEMMA ShellFree ==
    ASSUME Psh2!ShellAssumption, ShellInv, Psh2!Free
    PROVE  ShellInv'
<1> USE DEF Psh2!Free
<1>1. line' \in Seq(LineChars) /\ cmdArr' = Psh2!split2ArrByChar(line')
  BY EmptyLine
<1>2. Ran(0)' /\ 0 \in 0 .. Len(Psh2!Commands(line'))
  BY <1>1, NothingRan DEF Ran
<1>3. i' \in 1 .. Len(cmdArr') + 1
  <2>1. Len(cmdArr') = 0
    BY EmptySeq
  <2> QED BY <2>1
<1>4. Psh2!TypeOK' /\ Psh2!ChildrenAreWaitedFor'
  BY <1>3 DEF ShellInv, Psh2!TypeOK, Psh2!ChildrenAreWaitedFor
<1> QED BY <1>1, <1>2, <1>4 DEF ShellInv

LEMMA ShellChild ==
    ASSUME Psh2!ShellAssumption, ShellInv, Psh2!Ignore \/ Psh2!Wait
    PROVE  ShellInv'
<1> DEFINE C == Psh2!Commands(line)
           L == Len(C)
<1>0. PICK r \in 0 .. L : Ran(r)
  BY DEF ShellInv
<1>1. Len(cmdArr) = L /\ L \in Nat
  BY CommandsAre DEF ShellInv
<1>2. r = i /\ i \in Int
  <2>1. i \in Int
    BY <1>1 DEF ShellInv, Psh2!TypeOK
  <2> QED BY <1>0, <2>1 DEF Ran, Psh2!Ignore, Psh2!Wait
<1>3. UNCHANGED <<line, cmdArr, exitFlag, ran>> /\ C' = C
  BY DEF Psh2!Ignore, Psh2!Wait, Psh2!words
<1>4. Ran(r)'
  <2>1. CASE Psh2!Ignore
    BY <1>0, <1>2, <1>3, <2>1 DEF Ran, Psh2!Ignore
  <2>2. CASE Psh2!Wait /\ status = 123
    <3>1. psh' = "free" /\ status' = 123 /\ ~ exitFlag'
      BY <2>2 DEF Psh2!Wait, ShellInv
    <3> QED BY <1>0, <1>3, <3>1 DEF Ran
  <2>3. CASE Psh2!Wait /\ status # 123
    <3>1. psh' = "command" /\ i' = i + 1
      BY <2>3 DEF Psh2!Wait
    <3>2. r = i' - 1
      BY <1>2, <3>1
    <3> QED BY <1>0, <1>3, <3>1, <3>2 DEF Ran
  <2> QED BY <2>1, <2>2, <2>3
<1>5. i' \in 1 .. Len(cmdArr') + 1
  <2>1. i \in 1 .. L /\ (i' = i \/ i' = i + 1)
    <3>1. i' = i \/ i' = i + 1
      BY DEF Psh2!Ignore, Psh2!Wait
    <3>2. i \in 1 .. L + 1
      BY <1>1 DEF ShellInv, Psh2!TypeOK
    <3> HIDE DEF L
    <3> QED BY <1>0, <1>1, <1>2, <3>1, <3>2
  <2>2. Len(cmdArr') = L
    BY <1>1, <1>3
  <2> HIDE DEF L
  <2> QED BY <1>1, <2>1, <2>2
<1>6. Psh2!TypeOK' /\ Psh2!ChildrenAreWaitedFor'
  BY <1>3, <1>5 DEF ShellInv, Psh2!TypeOK, Psh2!ChildrenAreWaitedFor, Psh2!Ignore, Psh2!Wait
<1>7. r \in 0 .. Len(C')
  BY <1>3
<1> QED BY <1>3, <1>4, <1>6, <1>7 DEF ShellInv, Psh2!Ignore, Psh2!Wait

LEMMA ShellNext ==
    ASSUME Psh2!ShellAssumption, ShellInv, [Psh2!Next]_psh2vars
    PROVE  ShellInv'
<1>1. CASE Psh2!main
  BY <1>1, ShellReadLine, ShellCommand, ShellChild, ShellFree DEF Psh2!main
<1>2. CASE Psh2!execute
  <2> USE <1>2 DEF Psh2!execute, Psh2!Exec, Psh2!Exits, Psh2!words
  <2>1. child \in {"forked", "program"} /\ UNCHANGED <<psh, line, cmdArr, i, exitFlag, sigint, childint, ran>>
    OBVIOUS
  <2>2. child' \in {"program", "zombie"} /\ (status' = status \/ status' \in {0, 1, 123})
    OBVIOUS
  <2>3. psh # "free" /\ Psh2!ChildrenAreWaitedFor'
    BY <2>1 DEF ShellInv, Psh2!ChildrenAreWaitedFor
  <2>4. /\ sigint' \in {"default", "ignore"} /\ childint' \in {"default", "ignore"}
        /\ child' \in {"none", "forked", "program", "zombie"} /\ status' \in {0, 1, 123}
    BY <2>1, <2>2 DEF ShellInv, Psh2!TypeOK
  <2> QED BY <2>1, <2>3, <2>4, ShellWaits
<1>3. CASE Psh2!Interrupt
  <2> USE <1>3 DEF Psh2!Interrupt, Psh2!words
  <2>1. UNCHANGED <<line, cmdArr, i, exitFlag, sigint, childint, ran>> /\ (psh' = psh \/ psh' = "killed")
    OBVIOUS
  <2>2. (UNCHANGED <<child, status>>) \/ (child \in {"forked", "program"} /\ child' = "zombie" /\ status' = 0)
    OBVIOUS
  <2>3. (psh = "free" => UNCHANGED status) /\ Psh2!ChildrenAreWaitedFor'
    BY <2>1, <2>2 DEF ShellInv, Psh2!ChildrenAreWaitedFor
  <2>4. /\ sigint' \in {"default", "ignore"} /\ childint' \in {"default", "ignore"}
        /\ child' \in {"none", "forked", "program", "zombie"} /\ status' \in {0, 1, 123}
    BY <2>1, <2>2 DEF ShellInv, Psh2!TypeOK
  <2> QED BY <2>1, <2>3, <2>4, ShellWaits
<1>4. CASE UNCHANGED psh2vars
  BY <1>4, ShellWaits DEF psh2vars, ShellInv, Psh2!TypeOK, Psh2!ChildrenAreWaitedFor
<1> QED BY <1>1, <1>2, <1>3, <1>4 DEF Psh2!Next

(* What has run is what was wanted, as far as it got.                       *)
LEMMA ShellRunsWhatWasTyped ==
    ASSUME Psh2!ShellAssumption, ShellInv
    PROVE  Psh2!RunsWhatWasTyped
<1> DEFINE C == Psh2!Commands(line)
           L == Len(C)
           D == {C[n] : n \in 1 .. L}
<1>0. PICK r \in 0 .. L : Ran(r)
  BY DEF ShellInv
<1>1. L \in Nat /\ C \in Seq(D)
  BY CommandsAre DEF ShellInv
<1>2. ran = SubSeq(C, 1, r) /\ \A k \in 1 .. r : ~ Exits(C, k)
  BY <1>0 DEF Ran
<1>3. psh = "free" => IF exitFlag THEN r # L /\ Exits(C, r + 1) ELSE status = 123 \/ r = L
  BY <1>0 DEF Ran
<1> HIDE DEF C, D
<1>4. PICK w \in r .. L : /\ Psh2!BeforeExit(C) = SubSeq(C, 1, w)
                          /\ r # L /\ Exits(C, r + 1) => w = r
                          /\ r = L => w = r
  BY <1>1, <1>2, WantedAre
<1> DEFINE t == SubSeq(C, 1, w)
<1>5. r \in Nat /\ w \in Nat /\ r <= w /\ w <= L /\ w \in 0 .. L
  <2> HIDE DEF L
  <2> QED BY <1>1
<1>6. ran \in Seq(D) /\ Len(ran) = r /\ \A k \in 1 .. r : ran[k] = C[k]
  BY <1>1, <1>2, PrefixProperties
<1>7. t \in Seq(D) /\ Len(t) = w /\ \A k \in 1 .. w : t[k] = C[k]
  BY <1>1, <1>5, PrefixProperties
<1> HIDE DEF t, L
<1>8. SubSeq(ran, 1, r) = SubSeq(t, 1, r)
  <2>1. r \in 0 .. Len(ran) /\ r \in 0 .. Len(t)
    BY <1>5, <1>6, <1>7
  <2>2. /\ SubSeq(ran, 1, r) \in Seq(D) /\ Len(SubSeq(ran, 1, r)) = r
        /\ \A k \in 1 .. r : SubSeq(ran, 1, r)[k] = ran[k]
    BY <1>6, <2>1, PrefixProperties
  <2>3. /\ SubSeq(t, 1, r) \in Seq(D) /\ Len(SubSeq(t, 1, r)) = r
        /\ \A k \in 1 .. r : SubSeq(t, 1, r)[k] = t[k]
    BY <1>7, <2>1, PrefixProperties
  <2>4. \A k \in 1 .. r : ran[k] = t[k]
    BY <1>5, <1>6, <1>7
  <2> QED BY <2>2, <2>3, <2>4, SeqEqual
<1>9. Psh2!IsPrefix(ran, t)
  BY <1>5, <1>6, <1>7, <1>8 DEF Psh2!IsPrefix
<1>10. w = L => t = C
  <2>1. w = L => \A k \in 1 .. w : t[k] = C[k]
    BY <1>7
  <2> QED BY <1>1, <1>7, <2>1, SeqEqual DEF L
<1>11. w # L => t # C
  BY <1>7 DEF L
<1>12. ASSUME psh = "free", status # 123 PROVE ran = t /\ (exitFlag <=> t # C)
  <2>1. w = r
    BY <1>3, <1>4, <1>12
  <2>2. ran = t
    BY <1>2, <2>1 DEF t
  <2>3. exitFlag <=> w # L
    BY <1>3, <1>12, <2>1 DEF ShellInv, Psh2!TypeOK
  <2> QED BY <1>10, <1>11, <2>2, <2>3
<1> QED BY <1>4, <1>9, <1>12 DEF Psh2!RunsWhatWasTyped, C, t
=============================================================================
