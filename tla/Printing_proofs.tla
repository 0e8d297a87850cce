--------------------------- MODULE Printing_proofs ---------------------------
(* What mytail, myhead and myls print, for every file, directory and buffer.*)
EXTENDS Tools_proofs, FiniteSetTheorems

-----------------------------------------------------------------------------
(* Numbers                                                                  *)

(* Natural numbers have a least one.                                        *)
LEMMA Least ==
    ASSUME NEW T, T \subseteq Nat, T # {}
    PROVE  \E x \in T : \A y \in T : x <= y
<1> DEFINE R == {ss \in Nat \X Nat : ss[1] < ss[2]}
<1>0. IsWellFoundedOn(R, Nat)
  BY NatLessThanWellFounded DEF OpToRel
<1> HIDE DEF R
<1>1. PICK x \in T : \A y \in T : ~(<<y, x>> \in R)
  BY <1>0, WFMin
<1>2. \A y \in T : ~(y < x)
  BY <1>1 DEF R
<1> QED BY <1>2

(* The digits read so far always have a value.                              *)
LEMMA SumExists ==
    ASSUME NEW n \in Nat, NEW v \in [1 .. n -> Nat]
    PROVE  \E g \in [0 .. n -> Nat] :
              g = [k \in 0 .. n |-> IF k = 0 THEN 0 ELSE g[k - 1] * 10 + v[k]]
<1> DEFINE Sums(m, g) == \A k \in 0 .. m : g[k] = IF k = 0 THEN 0 ELSE g[k - 1] * 10 + v[k]
           T == {m \in 0 .. n : ~ \E g \in [0 .. m -> Nat] : Sums(m, g)}
<1>1. ASSUME T # {} PROVE FALSE
  <2>1. PICK m \in T : \A y \in T : m <= y
    BY <1>1, Least, T \subseteq Nat
  <2>2. CASE m = 0
    <3> DEFINE g == [k \in 0 .. m |-> 0]
    <3>1. g \in [0 .. m -> Nat] /\ Sums(m, g)
      BY <2>2
    <3> QED BY <2>1, <3>1
  <2>3. CASE m # 0
    <3>0. m \in 1 .. n /\ m - 1 \in 0 .. n /\ ~(m <= m - 1)
      BY <2>1, <2>3
    <3>1. m \in 1 .. n /\ m - 1 \in 0 .. n /\ m - 1 \notin T
      <4> HIDE DEF T
      <4> QED BY <2>1, <3>0
    <3>2. PICK g \in [0 .. m - 1 -> Nat] : Sums(m - 1, g)
      BY <3>1
    <3> DEFINE h == [k \in 0 .. m |-> IF k = m THEN g[m - 1] * 10 + v[m] ELSE g[k]]
    <3>3. g[m - 1] \in Nat /\ v[m] \in Nat
      BY <3>1, <3>2
    <3>4. h \in [0 .. m -> Nat]
      <4>1. ASSUME NEW k \in 0 .. m PROVE h[k] \in Nat
        BY <3>1, <3>2, <3>3
      <4> QED BY <4>1
    <3>5. ASSUME NEW k \in 0 .. m
          PROVE  h[k] = IF k = 0 THEN 0 ELSE h[k - 1] * 10 + v[k]
      <4>1. CASE k = m
        BY <2>3, <3>1, <4>1
      <4>2. CASE k # m
        <5>1. k \in 0 .. m - 1 /\ (k # 0 => k - 1 \in 0 .. m /\ k - 1 # m)
          BY <4>2, <3>1
        <5> QED BY <3>2, <5>1
      <4> QED BY <4>1, <4>2
    <3> QED BY <2>1, <3>4, <3>5
  <2> QED BY <2>2, <2>3
<1>2. PICK g \in [0 .. n -> Nat] : Sums(n, g)
  <2> HIDE DEF Sums
  <2>1. n \in 0 .. n
    OBVIOUS
  <2> QED BY <1>1, <2>1
<1>3. g = [k \in 0 .. n |-> IF k = 0 THEN 0 ELSE g[k - 1] * 10 + v[k]]
  BY <1>2
<1> QED BY <1>3

LEMMA SumIsNumber ==
    ASSUME NEW n \in Nat, NEW v \in [1 .. n -> Nat], NEW g,
           g = [k \in 0 .. n |-> IF k = 0 THEN 0 ELSE g[k - 1] * 10 + v[k]]
    PROVE  g[n] \in Nat
<1> DEFINE T == {k \in 0 .. n : g[k] \notin Nat}
<1>1. ASSUME T # {} PROVE FALSE
  <2>1. PICK m \in T : \A y \in T : m <= y
    BY <1>1, Least, T \subseteq Nat
  <2>2. g[m] = IF m = 0 THEN 0 ELSE g[m - 1] * 10 + v[m]
    BY <2>1
  <2>3. m # 0 /\ m \in 1 .. n /\ m - 1 \in 0 .. n /\ ~(m <= m - 1)
    BY <2>1, <2>2
  <2>4. g[m - 1] \in Nat /\ v[m] \in Nat
    BY <2>1, <2>3
  <2> QED BY <2>1, <2>2, <2>3, <2>4
<1>2. n \in 0 .. n /\ n \notin T
  <2>1. n \in 0 .. n
    OBVIOUS
  <2> QED BY <1>1, <2>1
<1> QED BY <1>2

(* str2int: a number, or -1 for what is none.                               *)
LEMMA StrToInt ==
    ASSUME NEW S, NEW str \in Seq(S)
    PROVE  Lines!str2int(str) \in Nat \cup {-1}
<1> DEFINE digits == IF str # << >> /\ Head(str) \in {"-", "+"} THEN Tail(str) ELSE str
           value(d) == (CHOOSE m \in DOMAIN Lines!Digits : Lines!Digits[m] = d) - 1
           n == Len(digits)
           v == [k \in 1 .. n |-> value(digits[k])]
           F(g) == [k \in 0 .. n |-> IF k = 0 THEN 0 ELSE g[k - 1] * 10 + value(digits[k])]
           sum == CHOOSE g : g = F(g)
<1>1. digits \in Seq(S) /\ n \in Nat /\ DOMAIN digits = 1 .. n
  <2>1. digits \in Seq(S)
    BY HeadTailProperties
  <2> QED BY <2>1, LenProperties
<1>2. Lines!str2int(str) = IF Lines!ToSet(digits) \subseteq Lines!ToSet(Lines!Digits) THEN sum[n] ELSE -1
  BY DEF Lines!str2int
<1>3. ASSUME Lines!ToSet(digits) \subseteq Lines!ToSet(Lines!Digits) PROVE sum[n] \in Nat
  <2>1. DOMAIN Lines!Digits = 1 .. 10
    BY DEF Lines!Digits
  <2>2. ASSUME NEW k \in 1 .. n PROVE value(digits[k]) \in Nat
    <3>1. digits[k] \in Lines!ToSet(Lines!Digits)
      BY <1>1, <1>3 DEF Lines!ToSet
    <3>2. \E m \in DOMAIN Lines!Digits : Lines!Digits[m] = digits[k]
      BY <3>1 DEF Lines!ToSet
    <3> QED BY <2>1, <3>2
  <2>3. v \in [1 .. n -> Nat]
    <3> HIDE DEF value, digits, n
    <3> QED BY <2>2
  <2> HIDE DEF n, v
  <2>4. PICK g \in [0 .. n -> Nat] : g = [k \in 0 .. n |-> IF k = 0 THEN 0 ELSE g[k - 1] * 10 + v[k]]
    BY <1>1, <2>3, SumExists
  <2>5. \A k \in 1 .. n : v[k] = value(digits[k])
    BY DEF v
  <2> HIDE DEF value, digits
  <2>6. g = F(g)
    <3>1. \A k \in 0 .. n : k # 0 => k \in 1 .. n
      BY <1>1
    <3> QED BY <2>4, <2>5, <3>1
  <2> HIDE DEF F
  <2>7. sum = F(sum)
    BY <2>6
  <2>8. sum = [k \in 0 .. n |-> IF k = 0 THEN 0 ELSE sum[k - 1] * 10 + v[k]]
    <3>1. \A k \in 0 .. n : k # 0 => k \in 1 .. n
      BY <1>1
    <3> HIDE DEF sum
    <3> QED BY <2>7, <2>5, <3>1 DEF F
  <2> HIDE DEF sum
  <2> QED BY <1>1, <2>3, <2>8, SumIsNumber
<1> QED BY <1>2, <1>3

-----------------------------------------------------------------------------
(* Counting newlines                                                        *)

Between(N, a, b) == N \cap (a .. b)
Count(N, a, b) == Cardinality(Between(N, a, b))

LEMMA CountType ==
    ASSUME NEW N, NEW a \in Int, NEW b \in Int
    PROVE  /\ IsFiniteSet(Between(N, a, b)) /\ Count(N, a, b) \in Nat
           /\ b < a => Count(N, a, b) = 0
           /\ Count(N, a, b) = 0 => Between(N, a, b) = {}
<1>1. Between(N, a, b) \in SUBSET (a .. b)
  BY DEF Between
<1>2. IsFiniteSet(Between(N, a, b))
  BY <1>1, FS_Interval, FS_Subset
<1>3. b < a => Between(N, a, b) = {}
  BY DEF Between
<1> QED BY <1>2, <1>3, FS_CardinalityType, FS_EmptySet DEF Count

(* More places hold more of them.                                           *)
LEMMA CountGrows ==
    ASSUME NEW N, NEW a \in Int, NEW b \in Int, NEW c \in Int, NEW d \in Int,
           c <= a, b <= d
    PROVE  Count(N, a, b) <= Count(N, c, d)
<1>1. Between(N, a, b) \in SUBSET Between(N, c, d)
  BY DEF Between
<1> QED BY <1>1, CountType, FS_Subset DEF Count

LEMMA CountFirst ==
    ASSUME NEW N, NEW a \in Int, NEW b \in Int, a <= b
    PROVE  Count(N, a, b) = (IF a \in N THEN 1 ELSE 0) + Count(N, a + 1, b)
<1>1. a \notin Between(N, a + 1, b)
  BY DEF Between
<1>2. CASE a \in N
  <2>1. Between(N, a, b) = Between(N, a + 1, b) \cup {a}
    BY <1>2 DEF Between
  <2>2. IsFiniteSet(Between(N, a + 1, b)) /\ Count(N, a + 1, b) \in Nat
    BY CountType
  <2>3. Cardinality(Between(N, a + 1, b) \cup {a}) = Cardinality(Between(N, a + 1, b)) + 1
    BY <1>1, <2>2, FS_AddElement
  <2> QED BY <1>2, <2>1, <2>2, <2>3 DEF Count
<1>3. CASE a \notin N
  <2>1. Between(N, a, b) = Between(N, a + 1, b)
    BY <1>3 DEF Between
  <2> QED BY <1>3, <2>1, CountType DEF Count
<1> QED BY <1>2, <1>3

LEMMA CountLast ==
    ASSUME NEW N, NEW a \in Int, NEW b \in Int, a <= b
    PROVE  Count(N, a, b) = (IF b \in N THEN 1 ELSE 0) + Count(N, a, b - 1)
<1>1. b \notin Between(N, a, b - 1)
  BY DEF Between
<1>2. CASE b \in N
  <2>1. Between(N, a, b) = Between(N, a, b - 1) \cup {b}
    BY <1>2 DEF Between
  <2>2. IsFiniteSet(Between(N, a, b - 1)) /\ Count(N, a, b - 1) \in Nat
    BY CountType
  <2>3. Cardinality(Between(N, a, b - 1) \cup {b}) = Cardinality(Between(N, a, b - 1)) + 1
    BY <1>1, <2>2, FS_AddElement
  <2> QED BY <1>2, <2>1, <2>2, <2>3 DEF Count
<1>3. CASE b \notin N
  <2>1. Between(N, a, b) = Between(N, a, b - 1)
    BY <1>3 DEF Between
  <2> QED BY <1>3, <2>1, CountType DEF Count
<1> QED BY <1>2, <1>3

LEMMA CountSplits ==
    ASSUME NEW N, NEW a \in Int, NEW b \in Int, NEW m \in Int, a <= m + 1, m <= b
    PROVE  Count(N, a, b) = Count(N, a, m) + Count(N, m + 1, b)
<1>1. /\ Between(N, a, b) = Between(N, a, m) \cup Between(N, m + 1, b)
      /\ Between(N, a, m) \cap Between(N, m + 1, b) = {}
  BY DEF Between
<1>2. /\ IsFiniteSet(Between(N, a, m)) /\ IsFiniteSet(Between(N, m + 1, b))
      /\ Count(N, a, m) \in Nat /\ Count(N, m + 1, b) \in Nat
  BY CountType
<1>3. Cardinality(Between(N, a, b)) = Cardinality(Between(N, a, m)) + Cardinality(Between(N, m + 1, b))
                                       - Cardinality({})
  BY <1>1, <1>2, FS_Union
<1> QED BY <1>2, <1>3, FS_EmptySet DEF Count

(* Counted from the end, the c-th of them is somewhere.                     *)
LEMMA CountReaches ==
    ASSUME NEW N, NEW a \in Int, NEW b \in Int, NEW c \in Nat \ {0},
           c <= Count(N, a, b)
    PROVE  \E k \in Between(N, a, b) : Count(N, k, b) = c
<1> DEFINE T == {j \in Nat : c <= Count(N, b - j, b)}
<1>1. a <= b
  BY CountType
<1>2. b - a \in T
  BY <1>1
<1>3. PICK j \in T : \A l \in T : j <= l
  BY <1>2, Least, T \subseteq Nat
<1> DEFINE k == b - j
<1>4. k \in Int /\ a <= k /\ k <= b
  <2>1. j \in Nat
    BY <1>3
  <2>2. j <= b - a
    <3> HIDE DEF T
    <3> QED BY <1>2, <1>3
  <2> QED BY <2>1, <2>2
<1>5. Count(N, k, b) = (IF k \in N THEN 1 ELSE 0) + Count(N, k + 1, b)
  BY <1>4, CountFirst
<1>6. Count(N, k + 1, b) < c
  <2>1. CASE j = 0
    BY <2>1, CountType
  <2>2. CASE j # 0
    <3>1. j - 1 \in Nat /\ ~(j <= j - 1) /\ k + 1 = b - (j - 1)
      BY <2>2, <1>3
    <3>2. j - 1 \notin T
      <4> HIDE DEF T
      <4> QED BY <3>1, <1>3
    <3>3. Count(N, k + 1, b) \in Nat
      BY <1>4, CountType
    <3> QED BY <3>1, <3>2, <3>3
  <2> QED BY <2>1, <2>2
<1>7. c <= Count(N, k, b) /\ Count(N, k + 1, b) \in Nat
  BY <1>3, <1>4, CountType
<1>8. k \in N /\ Count(N, k, b) = c
  <2> HIDE DEF k
  <2> QED BY <1>5, <1>6, <1>7
<1> QED BY <1>4, <1>8 DEF Between

-----------------------------------------------------------------------------
(* mytail.c and myhead.c                                                    *)

LEMMA LinesCardinality == ASSUME NEW S PROVE Lines!Cardinality(S) = Cardinality(S)
BY DEF Lines!Cardinality, Cardinality

(* The newlines of a piece are those of the whole in its places.            *)
LEMMA NewlinesOfPiece ==
    ASSUME NEW t \in Seq(Chars), NEW a \in 1 .. Len(t) + 1, NEW b \in a - 1 .. Len(t)
    PROVE  /\ Cardinality(Lines!Newlines(SubSeq(t, a, b))) = Count(Lines!Newlines(t), a, b)
           /\ Lines!Newlines(SubSeq(t, a, b)) = {} <=> Count(Lines!Newlines(t), a, b) = 0
<1> DEFINE s == SubSeq(t, a, b)
           n == b - a + 1
           X == Lines!Newlines(s)
           Y == Between(Lines!Newlines(t), a, b)
           f == [k \in X |-> a + k - 1]
<1>0. Len(t) \in Nat /\ DOMAIN t = 1 .. Len(t) /\ a \in Int /\ b \in Int /\ n \in Nat
  BY LenProperties
<1>1. s \in Seq(Chars) /\ Len(s) = n /\ \A k \in 1 .. n : s[k] = t[a + k - 1]
  <2>1. \A k \in a .. b : t[k] \in Chars
    BY <1>0, ElementOfSeq
  <2> QED BY <1>0, <2>1, SubSeqProperties
<1>2. DOMAIN s = 1 .. n
  BY <1>1, LenProperties
<1> HIDE DEF s, n
<1>3. X = {k \in 1 .. n : t[a + k - 1] = NL}
  BY <1>1, <1>2 DEF Lines!Newlines
<1>4. Y = {k \in a .. b : t[k] = NL}
  BY <1>0 DEF Lines!Newlines, Between
<1> HIDE DEF X, Y
<1>5. IsFiniteSet(X)
  <2>1. X \in SUBSET (1 .. n)
    BY <1>3
  <2>2. IsFiniteSet(1 .. n)
    BY <1>0, FS_Interval
  <2> QED BY <2>1, <2>2, FS_Subset
<1>6. f \in Bijection(X, Y)
  <2>1. \A k \in X : f[k] \in Y
    BY <1>0, <1>3, <1>4 DEF n
  <2>2. f \in [X -> Y]
    BY <2>1
  <2>3. ASSUME NEW k \in X, NEW l \in X, f[k] = f[l] PROVE k = l
    BY <1>0, <1>3, <2>3
  <2>4. ASSUME NEW y \in Y PROVE \E k \in X : f[k] = y
    <3>1. y - a + 1 \in X /\ a + (y - a + 1) - 1 = y
      BY <1>0, <1>3, <1>4 DEF n
    <3> QED BY <3>1
  <2> HIDE DEF f
  <2> QED BY <2>2, <2>3, <2>4 DEF Bijection, Injection, Surjection, IsInjective
<1>7. Cardinality(Y) = Cardinality(X) /\ IsFiniteSet(Y)
  <2> HIDE DEF f
  <2> QED BY <1>5, <1>6, FS_Bijection DEF ExistsBijection
<1>8. Cardinality(X) = 0 <=> X = {}
  BY <1>5, FS_EmptySet
<1> QED BY <1>7, <1>8 DEF X, Y, Count, s

(* The end of a piece goes with its last character.                         *)
LEMMA FrontOfPiece ==
    ASSUME NEW t \in Seq(Chars), NEW a \in 1 .. Len(t), NEW b \in a .. Len(t)
    PROVE  /\ Lines!Front(SubSeq(t, a, b)) = SubSeq(t, a, b - 1)
           /\ SubSeq(t, a, b) # << >> /\ Len(SubSeq(t, a, b)) = b - a + 1
<1> DEFINE s == SubSeq(t, a, b)
<1>1. Len(t) \in Nat /\ a \in Int /\ b \in Int /\ a <= b /\ b \in 1 .. Len(t)
  BY LenProperties
<1>2. Len(s) = b - a + 1
  <2>1. \A k \in a .. b : t[k] \in Chars
    BY <1>1, ElementOfSeq
  <2> QED BY <1>1, <2>1, SubSeqProperties
<1>3. s # << >>
  <2>1. Len(<< >>) = 0 /\ Len(s) # 0
    BY <1>1, <1>2, EmptySeq
  <2> HIDE DEF s
  <2> QED BY <2>1
<1>4. Lines!Front(s) = SubSeq(s, 1, b - a)
  <2>1. Len(s) - 1 = b - a
    BY <1>1, <1>2
  <2> HIDE DEF s
  <2> QED BY <2>1 DEF Lines!Front
<1>5. SubSeq(s, 1, b - a) = SubSeq(t, a, b - 1)
  <2>1. CASE a = b
    <3>1. b - a < 1 /\ b - 1 < a
      BY <1>1, <2>1
    <3> HIDE DEF s
    <3> QED BY <1>1, <3>1, SubSeqEmpty
  <2>2. CASE a # b
    <3>1. 1 \in 1 .. b - a + 1 /\ b - a \in 1 .. b - a + 1
      BY <1>1, <2>2
    <3>2. SubSeq(s, 1, b - a) = SubSeq(t, a + 1 - 1, a + (b - a) - 1)
      BY <1>1, <3>1, SubSeqOfSubSeq
    <3>3. a + 1 - 1 = a /\ a + (b - a) - 1 = b - 1
      BY <1>1
    <3> HIDE DEF s
    <3> QED BY <3>2, <3>3
  <2> QED BY <2>1, <2>2
<1> HIDE DEF s
<1>6. Lines!Front(s) = SubSeq(t, a, b - 1)
  BY <1>4, <1>5
<1> QED BY <1>2, <1>3, <1>6 DEF s

Inputs == {"named", "stdin", "pipe"}

(* main understands lines or bytes, and a number.                           *)
LEMMA CallTypes ==
    ASSUME NEW arg \in Lines!SeqOf(Words, 4), NEW c \in Lines!Calls(arg)
    PROVE  /\ c.how \in {"lines", "bytes"} /\ c.number \in Nat /\ c.input \in Inputs
<1>1. arg \in Seq(Words) /\ Len(arg) \in Nat
  BY BoundedSequences, LenProperties DEF Lines!SeqOf
<1> DEFINE letters == {"-", "n", "c", "1", "2", "+", "4", "f"}
<1>2. \A word \in Words : word \in Seq(letters)
  <2>1. \A x, y \in letters : <<x>> \in Seq(letters) /\ <<x, y>> \in Seq(letters)
    OBVIOUS
  <2>2. << >> \in Seq(letters)
    BY EmptySeq
  <2> QED BY <2>1, <2>2 DEF Words
<1> HIDE DEF letters
<1>3. \A k \in 1 .. Len(arg) : arg[k] \in Seq(letters)
  BY <1>1, <1>2, ElementOfSeq
<1> DEFINE files == Lines!FileArgs(arg)
           inputs == IF files \in {<< >>, << << >> >>} THEN {"stdin", "pipe"} ELSE {"named"}
           ask(how, number) ==
               IF number = -1 THEN {} ELSE [how : {how}, number : {number}, input : inputs]
           way == IF arg[1][2] = "n" THEN "lines" ELSE "bytes"
<1>4. inputs \subseteq Inputs
  BY DEF Inputs
<1>5. /\ Len(files) <= 1
      /\ arg = << >> => c \in ask("lines", 10)
      /\ arg # << >> /\ arg[1] \in Lines!Options => Len(arg) # 1 /\ c \in ask(way, Lines!str2int(arg[2]))
      /\ arg # << >> /\ arg[1] \notin Lines!Options =>
            Lines!IsPrefix(<<"-">>, arg[1]) /\ c \in ask("lines", Lines!str2int(Tail(arg[1])))
  <2> HIDE DEF files
  <2>1. /\ ~(Len(files) > 1)
        /\ arg = << >> => c \in ask("lines", 10)
        /\ arg # << >> /\ arg[1] \in Lines!Options => Len(arg) # 1 /\ c \in ask(way, Lines!str2int(arg[2]))
        /\ arg # << >> /\ arg[1] \notin Lines!Options =>
              Lines!IsPrefix(<<"-">>, arg[1]) /\ c \in ask("lines", Lines!str2int(Tail(arg[1])))
    BY DEF Lines!Calls, files
  <2>2. Len(files) \in Nat
    <3>1. \A k \in 1 .. Len(arg) : arg[k] \in Words
      BY <1>1, ElementOfSeq
    <3>2. SubSeq(arg, 2, Len(arg)) \in Seq(Words) /\ SubSeq(arg, 3, Len(arg)) \in Seq(Words)
      BY <1>1, <3>1, SubSeqProperties
    <3>3. files \in Seq(Words)
      BY <3>2 DEF files, Lines!FileArgs
    <3> QED BY <3>3, LenProperties
  <2> QED BY <2>1, <2>2
<1> HIDE DEF inputs
<1>6. ASSUME NEW how \in {"lines", "bytes"}, NEW number \in Nat \cup {-1}, c \in ask(how, number)
      PROVE  /\ c.how \in {"lines", "bytes"} /\ c.number \in Nat /\ c.input \in Inputs
  BY <1>4, <1>6
<1> HIDE DEF ask
<1>7. CASE arg = << >>
  BY <1>5, <1>6, <1>7
<1>8. CASE arg # << >> /\ arg[1] \in Lines!Options
  <2>1. Len(arg) # 0
    BY <1>1, <1>8, EmptySeq
  <2>2. 2 \in 1 .. Len(arg)
    BY <1>1, <1>5, <1>8, <2>1
  <2>3. Lines!str2int(arg[2]) \in Nat \cup {-1}
    BY <1>3, <2>2, StrToInt
  <2> QED BY <1>5, <1>6, <1>8, <2>3
<1>9. CASE arg # << >> /\ arg[1] \notin Lines!Options
  <2>1. arg[1] \in Seq(letters) /\ arg[1] # << >>
    <3>1. 1 \in 1 .. Len(arg)
      BY <1>1, <1>9, EmptySeq
    <3>2. 1 <= Len(arg[1])
      BY <1>5, <1>9 DEF Lines!IsPrefix
    <3> QED BY <1>3, <3>1, <3>2
  <2>2. Lines!str2int(Tail(arg[1])) \in Nat \cup {-1}
    BY <2>1, HeadTailProperties, StrToInt
  <2> QED BY <1>5, <1>6, <1>9, <2>2
<1> QED BY <1>7, <1>8, <1>9

(* The lines in the file, and where mytail looks.                           *)
Breaks == Lines!Newlines(file)
Place == Len(file) - off_end

(* mytail has met the newlines behind its place, or is on the last one of   *)
(* those it looks for.                                                      *)
Searched ==
    /\ line_num <= request.number
    /\ line_num < request.number => line_num = Count(Breaks, Place + 1, Len(file))
    /\ line_num = request.number =>
          IF request.number = 0 THEN off_end = 0
          ELSE Place \in Breaks /\ Count(Breaks, Place + 1, Len(file)) = request.number - 1

(* myhead has printed the beginning of the file, in pieces of at most a line*)
(* each; in whole lines where lines fit its buffer.                         *)
Shown ==
    /\ Len(printed) <= Len(file) /\ printed = SubSeq(file, 1, Len(printed))
    /\ line_num <= request.number
    /\ printed # << >> => Count(Breaks, 1, Len(printed) - 1) < line_num
    /\ Lines!LinesFit /\ printed # file => Count(Breaks, 1, Len(printed)) = line_num

LinesInv ==
    /\ Lines!TypeOK /\ Lines!PrintsRightPart
    /\ stage \in {"main", "open"} => off_end = 0 /\ line_num = 0 /\ printed = << >>
    /\ Lines!Runs("tail", "lines") => Searched
    /\ Lines!Runs("head", "lines") => Shown

LEMMA LinesSeqOf ==
    ASSUME NEW S, NEW n \in Nat, NEW s
    PROVE  s \in Lines!SeqOf(S, n) <=> s \in Seq(S) /\ Len(s) <= n
BY BoundedSequences DEF Lines!SeqOf

LEMMA LinesEmpty == ASSUME NEW S, NEW n \in Nat PROVE << >> \in Lines!SeqOf(S, n)
<1> DEFINE e == << >>
<1>1. e \in Seq(S) /\ Len(e) = 0
  BY EmptySeq
<1> HIDE DEF e
<1>2. Len(e) <= n
  BY <1>1
<1>3. e \in Lines!SeqOf(S, n)
  BY <1>1, <1>2, LinesSeqOf
<1> QED BY <1>3 DEF e

LEMMA LinesTypes ==
    ASSUME Lines!TailHeadAssumption, Lines!TypeOK
    PROVE  /\ file \in Seq(Chars) /\ Len(file) \in Nat /\ Len(file) <= MaxFile
           /\ printed \in Seq(Chars) /\ Len(printed) \in Nat
           /\ DOMAIN file = 1 .. Len(file) /\ Breaks \in SUBSET (1 .. Len(file))
           /\ off_end \in 0 .. Len(file) /\ Place \in 0 .. Len(file) /\ line_num \in Nat
           /\ MaxFile \in Nat /\ BUFLEN \in Nat /\ BUFLEN > 1
<1>1. MaxFile \in Nat /\ BUFLEN \in Nat /\ BUFLEN > 1
  BY DEF Lines!TailHeadAssumption
<1>2. file \in Seq(Chars) /\ Len(file) <= MaxFile /\ printed \in Seq(Chars)
  BY <1>1, LinesSeqOf DEF Lines!TypeOK
<1>3. Len(file) \in Nat /\ Len(printed) \in Nat /\ DOMAIN file = 1 .. Len(file)
  BY <1>2, LenProperties
<1>4. Breaks \in SUBSET (1 .. Len(file))
  BY <1>3 DEF Breaks, Lines!Newlines
<1>5. off_end \in 0 .. Len(file) /\ line_num \in Nat
  BY DEF Lines!TypeOK
<1> QED BY <1>1, <1>2, <1>3, <1>4, <1>5 DEF Place

(* What is printed is judged at the end.                                    *)
LEMMA LinesOpenEnd ==
    (stage # "done" => Lines!PrintsRightPart) /\ (stage' # "done" => Lines!PrintsRightPart')
BY DEF Lines!PrintsRightPart, Lines!StopsAtNewline, Lines!TailPrintsLines, Lines!HeadPrintsLines,
   Lines!NoOtherBytes, Lines!Done

LEMMA LinesInit == ASSUME Lines!TailHeadAssumption, Lines!Init PROVE LinesInv
<1>1. << >> \in Lines!SeqOf(Chars, MaxFile)
  BY LinesEmpty DEF Lines!TailHeadAssumption
<1>2. Len(<< >>) = 0
  BY EmptySeq
<1>3. Lines!TypeOK
  BY <1>1, <1>2 DEF Lines!TypeOK, Lines!Init
<1> QED BY <1>3, LinesOpenEnd DEF LinesInv, Lines!Init, Lines!Runs

LEMMA LinesMain == ASSUME Lines!TailHeadAssumption, LinesInv, Lines!main PROVE LinesInv'
<1>1. /\ stage = "main" /\ stage' \in {"open", "usage"}
      /\ UNCHANGED <<file, off_end, line_num, printed>>
  BY DEF Lines!main
<1>2. stage' = "open" =>
         request' \in [tool : {"head", "tail"}, how : {"lines", "bytes"}, number : Nat, input : Inputs]
  <2>1. SUFFICES ASSUME NEW arg \in Lines!SeqOf(Words, 4), NEW tool \in {"head", "tail"},
                        NEW c \in Lines!Calls(arg),
                        request' = [tool |-> tool, how |-> c.how, number |-> c.number, input |-> c.input]
                 PROVE  request' \in [tool : {"head", "tail"}, how : {"lines", "bytes"},
                                      number : Nat, input : Inputs]
    BY DEF Lines!main, Lines!TailCalls
  <2> QED BY <2>1, CallTypes
<1>3. Lines!TypeOK'
  BY <1>1, <1>2 DEF LinesInv, Lines!TypeOK, Inputs
<1> QED BY <1>1, <1>3, LinesOpenEnd DEF LinesInv, Lines!Runs

LEMMA LinesOpens == ASSUME Lines!TailHeadAssumption, LinesInv, Lines!Open PROVE LinesInv'
<1>1. /\ stage = "open" /\ UNCHANGED <<request, off_end, line_num, printed>>
      /\ off_end = 0 /\ line_num = 0 /\ printed = << >>
  BY DEF Lines!Open, LinesInv
<1>2. CASE stage' = "run" /\ file' \in Lines!SeqOf(Chars, MaxFile)
  <2>1. Len(file') \in Nat
    BY <1>2, LinesSeqOf, LenProperties DEF Lines!TailHeadAssumption
  <2>2. Lines!TypeOK'
    BY <1>1, <1>2, <2>1 DEF LinesInv, Lines!TypeOK
  <2>3. Len(printed) = 0
    BY <1>1, EmptySeq
  <2>4. SubSeq(file', 1, 0) = << >>
    BY SubSeqEmpty
  <2>5. Count(Breaks', Len(file') + 1, Len(file')) = 0 /\ Count(Breaks', 1, 0) = 0
    BY <2>1, CountType
  <2>6. Searched'
    <3>1. request'.number \in Nat /\ Place' = Len(file') /\ off_end' = 0 /\ line_num' = 0
      BY <1>1, <1>2, <2>1, <2>2 DEF Place, Lines!TypeOK
    <3> QED BY <2>5, <3>1 DEF Searched
  <2>7. Shown'
    BY <1>1, <1>2, <2>1, <2>2, <2>3, <2>4, <2>5 DEF Shown, Lines!TypeOK
  <2> QED BY <1>2, <2>2, <2>6, <2>7, LinesOpenEnd DEF LinesInv
<1>3. CASE stage' = "crashed" /\ UNCHANGED file
  BY <1>1, <1>3, LinesOpenEnd DEF LinesInv, Lines!TypeOK, Lines!Runs
<1> QED BY <1>2, <1>3 DEF Lines!Open

LEMMA LinesLocates == ASSUME Lines!TailHeadAssumption, LinesInv, Lines!Locate PROVE LinesInv'
<1> DEFINE n == request.number
           len == Len(file)
           min == IF BUFLEN < len - off_end THEN BUFLEN ELSE len - off_end
           newlines == Lines!Newlines(file) \cap Lines!Block(min)
           met(k) == Lines!Cardinality({l \in newlines : l >= k})
           enough == {k \in newlines : line_num + met(k) = n}
           place == IF enough = {} THEN len - off_end - min ELSE CHOOSE k \in enough : TRUE
<1>0. off_end < Lines!file_size /\ off_end \in Nat
  BY LinesTypes DEF Lines!Locate, LinesInv
<1>1. /\ stage = "run" /\ Lines!Runs("tail", "lines") /\ Searched /\ Lines!TypeOK
      /\ line_num < n /\ off_end < len
      /\ UNCHANGED <<stage, request, file, printed>>
  BY <1>0 DEF LinesInv, Lines!Locate, Lines!Runs, Lines!file_size
<1>2. line_num' = line_num + met(place) /\ off_end' = len - place
  BY DEF Lines!Locate
<1>3. /\ len \in Nat /\ off_end \in 0 .. len /\ line_num \in Nat /\ Place \in 0 .. len
      /\ BUFLEN \in Nat /\ BUFLEN > 1 /\ Breaks \in SUBSET (1 .. len) /\ n \in Nat
  BY <1>1, LinesTypes DEF Lines!TypeOK
<1>4. min \in 1 .. Place /\ Place = len - off_end
  BY <1>1, <1>3 DEF Place
<1>5. newlines = Between(Breaks, Place - min + 1, Place)
  BY <1>4 DEF Lines!Block, Breaks, Between
<1> HIDE DEF len, min, newlines
<1>6. ASSUME NEW k \in Int, Place - min < k PROVE met(k) = Count(Breaks, k, Place)
  <2>1. {l \in newlines : l >= k} = Between(Breaks, k, Place)
    BY <1>3, <1>4, <1>5, <1>6 DEF Between
  <2> QED BY <2>1, LinesCardinality DEF Count
<1>7. met(Place - min) = Count(Breaks, Place - min + 1, Place)
  <2>1. {l \in newlines : l >= Place - min} = Between(Breaks, Place - min + 1, Place)
    BY <1>3, <1>4, <1>5 DEF Between
  <2> QED BY <2>1, LinesCardinality DEF Count
<1>8. line_num = Count(Breaks, Place + 1, len)
  BY <1>1 DEF Searched, len
<1> DEFINE inBlock == Count(Breaks, Place - min + 1, Place)
<1>9. inBlock \in Nat
  BY <1>3, <1>4, CountType
<1> HIDE DEF n, met, enough, inBlock
<1>10. ASSUME enough = {}
       PROVE  /\ place \in 0 .. len /\ line_num' \in Nat /\ line_num' < n
              /\ line_num' = Count(Breaks, place + 1, len)
  <2>1. place = Place - min /\ line_num' = line_num + inBlock
    BY <1>2, <1>4, <1>7, <1>10 DEF inBlock
  <2>2. line_num + inBlock < n
    <3> SUFFICES ASSUME n - line_num <= inBlock PROVE FALSE
      BY <1>1, <1>3, <1>9
    <3>1. n - line_num \in Nat \ {0}
      BY <1>1, <1>3 DEF n, len
    <3>2. PICK k \in Between(Breaks, Place - min + 1, Place) : Count(Breaks, k, Place) = n - line_num
      BY <1>3, <1>4, <3>1, CountReaches DEF inBlock
    <3>3. k \in newlines /\ met(k) = n - line_num
      BY <1>3, <1>4, <1>5, <1>6, <3>2 DEF Between
    <3> QED BY <1>3, <1>10, <3>3 DEF enough
  <2>3. Count(Breaks, Place - min + 1, len) = inBlock + line_num
    BY <1>3, <1>4, <1>8, CountSplits DEF inBlock
  <2>4. line_num' < n /\ line_num' \in Nat /\ line_num' = Count(Breaks, place + 1, len)
    BY <1>3, <1>9, <2>1, <2>2, <2>3
  <2> QED BY <1>3, <1>4, <2>1, <2>4
<1>11. ASSUME enough # {}
       PROVE  /\ place \in 0 .. len /\ place \in Breaks /\ line_num' = n /\ n # 0
              /\ Count(Breaks, place + 1, len) = n - 1
  <2> DEFINE k == CHOOSE l \in enough : TRUE
  <2>1. k \in newlines /\ line_num + met(k) = n
    BY <1>11 DEF enough
  <2>2. place = k
    BY <1>11
  <2> HIDE DEF k, place
  <2>3. k \in Breaks /\ k \in Int /\ Place - min < k /\ k <= Place
    BY <1>3, <1>4, <1>5, <2>1 DEF Between
  <2>4. Count(Breaks, k, len) = n
    <3>1. Count(Breaks, k, len) = Count(Breaks, k, Place) + Count(Breaks, Place + 1, len)
      BY <1>3, <2>3, CountSplits
    <3>2. met(k) = Count(Breaks, k, Place) /\ met(k) \in Nat
      BY <1>3, <1>6, <2>3, CountType
    <3> QED BY <1>3, <1>8, <2>1, <3>1, <3>2
  <2>5. Count(Breaks, k + 1, len) = n - 1
    <3>1. Count(Breaks, k, len) = 1 + Count(Breaks, k + 1, len) /\ Count(Breaks, k + 1, len) \in Nat
      BY <1>3, <2>3, CountFirst, CountType
    <3> QED BY <1>3, <2>4, <3>1
  <2>6. line_num' = n
    BY <1>2, <2>1, <2>2
  <2>7. n # 0
    BY <1>1, <1>3
  <2>8. k \in 0 .. len
    BY <1>3, <2>3
  <2> QED BY <2>2, <2>3, <2>5, <2>6, <2>7, <2>8
<1> HIDE DEF place
<1>12. place \in 0 .. len /\ off_end' = len - place /\ off_end' \in 0 .. len
  BY <1>2, <1>3, <1>10, <1>11
<1>13. Place' = place /\ Breaks' = Breaks /\ len' = len /\ n' = n /\ Len(file') = len
  BY <1>1, <1>3, <1>12 DEF Place, Breaks, Lines!Newlines, len, n
<1>14. line_num' \in Nat /\ line_num' <= n
  BY <1>3, <1>10, <1>11
<1>15. Searched'
  BY <1>3, <1>10, <1>11, <1>13, <1>14 DEF Searched, n, len
<1>16. Lines!TypeOK'
  BY <1>1, <1>12, <1>13, <1>14 DEF Lines!TypeOK, len
<1> QED BY <1>1, <1>15, <1>16, LinesOpenEnd DEF LinesInv, Lines!Runs

LEMMA ReverseProperties ==
    ASSUME NEW S, NEW s \in Seq(S)
    PROVE  /\ Lines!Reverse(s) \in Seq(S) /\ Len(Lines!Reverse(s)) = Len(s)
           /\ \A k \in 1 .. Len(s) : Lines!Reverse(s)[k] = s[Len(s) - k + 1]
<1> DEFINE n == Len(s)
           r == [k \in 1 .. n |-> s[n - k + 1]]
<1>1. n \in Nat /\ \A k \in 1 .. n : n - k + 1 \in 1 .. n
  BY LenProperties
<1>2. \A k \in 1 .. n : s[n - k + 1] \in S
  BY <1>1, ElementOfSeq
<1>3. r \in Seq(S) /\ Len(r) = n /\ \A k \in 1 .. n : r[k] = s[n - k + 1]
  <2> HIDE DEF n
  <2>1. r \in [1 .. n -> S]
    BY <1>2
  <2>2. r \in Seq(S)
    BY <1>1, <2>1, SeqDef
  <2> QED BY <1>1, <2>2
<1>4. Lines!Reverse(s) = r
  BY DEF Lines!Reverse
<1> QED BY <1>3, <1>4

(* An end of a sequence is one as IsSuffix says it.                         *)
LEMMA EndIsSuffix ==
    ASSUME NEW S, NEW s \in Seq(S), NEW d \in 0 .. Len(s)
    PROVE  Lines!IsSuffix(SubSeq(s, d + 1, Len(s)), s)
<1> DEFINE e == SubSeq(s, d + 1, Len(s))
           x == Lines!Reverse(e)
           y == Lines!Reverse(s)
           n == Len(s) - d
<1>1. Len(s) \in Nat /\ n \in 0 .. Len(s) /\ d \in Nat
  BY LenProperties
<1>2. e \in Seq(S) /\ Len(e) = n /\ \A k \in 1 .. n : e[k] = s[d + k]
  <2>1. /\ e \in Seq(S) /\ Len(e) = IF d < Len(s) THEN Len(s) - d ELSE 0
        /\ \A k \in 1 .. Len(s) - d : e[k] = s[d + k]
    BY <1>1, SuffixProperties
  <2> HIDE DEF e
  <2> QED BY <1>1, <2>1
<1> HIDE DEF e
<1>3. x \in Seq(S) /\ Len(x) = n /\ \A k \in 1 .. n : x[k] = e[n - k + 1]
  <2>1. e \in Seq(S) /\ Len(e) = n
    BY <1>2
  <2>2. x \in Seq(S) /\ Len(x) = Len(e) /\ \A k \in 1 .. Len(e) : x[k] = e[Len(e) - k + 1]
    BY <2>1, ReverseProperties
  <2> HIDE DEF x, n
  <2> QED BY <2>1, <2>2
<1>4. y \in Seq(S) /\ Len(y) = Len(s) /\ \A k \in 1 .. Len(s) : y[k] = s[Len(s) - k + 1]
  BY ReverseProperties
<1> HIDE DEF x, y
<1>5. /\ SubSeq(x, 1, n) \in Seq(S) /\ Len(SubSeq(x, 1, n)) = n
      /\ \A k \in 1 .. n : SubSeq(x, 1, n)[k] = x[k]
      /\ SubSeq(y, 1, n) \in Seq(S) /\ Len(SubSeq(y, 1, n)) = n
      /\ \A k \in 1 .. n : SubSeq(y, 1, n)[k] = y[k]
  <2>1. n \in 0 .. Len(x) /\ n \in 0 .. Len(y)
    BY <1>1, <1>3, <1>4
  <2>2. /\ SubSeq(x, 1, n) \in Seq(S) /\ Len(SubSeq(x, 1, n)) = n
        /\ \A k \in 1 .. n : SubSeq(x, 1, n)[k] = x[k]
    BY ONLY <1>3, <2>1, PrefixProperties
  <2>3. /\ SubSeq(y, 1, n) \in Seq(S) /\ Len(SubSeq(y, 1, n)) = n
        /\ \A k \in 1 .. n : SubSeq(y, 1, n)[k] = y[k]
    BY ONLY <1>4, <2>1, PrefixProperties
  <2> QED BY <2>2, <2>3
<1>6. \A k \in 1 .. n : x[k] = y[k]
  <2> SUFFICES ASSUME NEW k \in 1 .. n PROVE x[k] = y[k]
    OBVIOUS
  <2>1. n - k + 1 \in 1 .. n /\ k \in 1 .. Len(s) /\ d + (n - k + 1) = Len(s) - k + 1
    BY <1>1
  <2> QED BY <1>2, <1>3, <1>4, <2>1
<1>7. SubSeq(x, 1, n) = SubSeq(y, 1, n)
  <2> DEFINE u == SubSeq(x, 1, n)
             v == SubSeq(y, 1, n)
  <2>1. u \in Seq(S) /\ v \in Seq(S) /\ Len(u) = Len(v) /\ \A k \in 1 .. Len(u) : u[k] = v[k]
    BY <1>1, <1>5, <1>6
  <2> HIDE DEF u, v
  <2>2. u = v
    BY <2>1, SeqEqual
  <2> QED BY <2>2 DEF u, v
<1>8. Lines!IsPrefix(x, y)
  BY <1>1, <1>3, <1>4, <1>7 DEF Lines!IsPrefix
<1> QED BY <1>8 DEF Lines!IsSuffix, x, y, e

(* mytail is done, with a file that has an end to look from.                *)
LEMMA LinesTailStops ==
    ASSUME Lines!TailHeadAssumption, LinesInv, Lines!TailLines, request.input # "pipe"
    PROVE  LinesInv'
<1> DEFINE n == request.number
           len == Len(file)
<1>1. /\ stage = "run" /\ stage' = "done" /\ Lines!Runs("tail", "lines") /\ Searched /\ Lines!TypeOK
      /\ ~(line_num < n /\ off_end < len)
      /\ UNCHANGED <<request, file, off_end, line_num>>
      /\ request.tool = "tail" /\ request.how = "lines"
      /\ printed' = SubSeq(file, len - off_end + 1, len)
  BY DEF LinesInv, Lines!TailLines, Lines!Runs, Lines!Finish, Lines!Rest, Lines!file_size
<1>2. /\ len \in Nat /\ off_end \in 0 .. len /\ line_num \in Nat /\ Place \in 0 .. len
      /\ Breaks \in SUBSET (1 .. len) /\ n \in Nat /\ Place = len - off_end
      /\ file \in Seq(Chars) /\ len <= MaxFile /\ MaxFile \in Nat /\ DOMAIN file = 1 .. len
  BY <1>1, LinesTypes DEF Lines!TypeOK, Place
<1>3. /\ printed' = SubSeq(file, Place + 1, len) /\ printed' \in Seq(Chars)
      /\ Len(printed') = off_end
  <2>1. printed' = SubSeq(file, Place + 1, len)
    BY <1>1, <1>2
  <2> QED BY <1>2, <2>1, SuffixProperties
<1>4. Lines!IsSuffix(printed', file)
  BY <1>2, <1>3, EndIsSuffix
<1>5. ASSUME NEW s \in Lines!Suffixes(file)
      PROVE  (s = << >> \/ Lines!Cardinality(Lines!Newlines(s)) < n) <=> Len(s) <= Len(printed')
  <2>1. CASE s = << >>
    BY <1>2, <1>3, <2>1, EmptySeq
  <2>2. ASSUME NEW l \in 1 .. len, s = SubSeq(file, l, len)
        PROVE  (s = << >> \/ Lines!Cardinality(Lines!Newlines(s)) < n) <=> Len(s) <= Len(printed')
    <3>1. Len(s) = len - l + 1 /\ s # << >>
      <4>1. \A k \in l .. len : file[k] \in Chars
        BY <1>2, ElementOfSeq
      <4>2. Len(SubSeq(file, l, len)) = len - l + 1
        BY <1>2, <4>1, SubSeqProperties
      <4>3. Len(s) = len - l + 1 /\ Len(s) # 0
        BY <1>2, <2>2, <4>2
      <4>4. Len(<< >>) = 0
        BY EmptySeq
      <4> QED BY <4>3, <4>4
    <3>2. Lines!Cardinality(Lines!Newlines(s)) = Count(Breaks, l, len)
      <4>1. l \in 1 .. Len(file) + 1 /\ len \in l - 1 .. Len(file)
        BY <1>2
      <4> QED BY <1>2, <2>2, <4>1, NewlinesOfPiece, LinesCardinality DEF Breaks
    <3>3. Len(s) <= Len(printed') <=> Place < l
      BY <1>2, <1>3, <3>1
    <3>4. ASSUME Place < l PROVE Count(Breaks, l, len) < n
      <4>1. Count(Breaks, l, len) <= Count(Breaks, Place + 1, len) /\ Count(Breaks, l, len) \in Nat
            /\ Count(Breaks, Place + 1, len) \in Nat
        BY <1>2, <3>4, CountGrows, CountType
      <4> QED BY <1>1, <1>2, <3>4, <4>1 DEF Searched
    <3>5. ASSUME ~(Place < l) PROVE ~(Count(Breaks, l, len) < n)
      <4>1. /\ Count(Breaks, Place, len) <= Count(Breaks, l, len) /\ Count(Breaks, l, len) \in Nat
            /\ Count(Breaks, Place, len) \in Nat /\ Count(Breaks, Place + 1, len) \in Nat
        BY <1>2, <3>5, CountGrows, CountType
      <4>2. Count(Breaks, Place, len) = (IF Place \in Breaks THEN 1 ELSE 0) + Count(Breaks, Place + 1, len)
        BY <1>2, CountFirst
      <4>3. line_num = n /\ n # 0 => Place \in Breaks /\ Count(Breaks, Place + 1, len) = n - 1
        BY <1>1 DEF Searched
      <4>4. off_end < len /\ line_num = n
        BY <1>1, <1>2, <3>5 DEF Searched
      <4> QED BY <1>2, <4>1, <4>2, <4>3, <4>4
    <3> QED BY <3>1, <3>2, <3>3, <3>4, <3>5
  <2> QED BY <2>1, <2>2 DEF Lines!Suffixes
<1>6. Lines!StopsAtNewline'
  BY <1>1, <1>4, <1>5 DEF Lines!StopsAtNewline, Lines!FewerNewlines
<1>7. ASSUME Lines!LastLineIsOpen, NEW s \in Lines!Suffixes(file)
      PROVE  (s = << >> \/ Lines!Cardinality(Lines!Newlines(Lines!Front(s))) < n) <=> Len(s) <= Len(printed')
  <2>1. CASE s = << >>
    BY <1>2, <1>3, <2>1, EmptySeq
  <2>2. ASSUME NEW l \in 1 .. len, s = SubSeq(file, l, len)
        PROVE  Lines!Cardinality(Lines!Newlines(Lines!Front(s))) = Lines!Cardinality(Lines!Newlines(s))
    <3>1. len \notin Breaks
      <4>1. file # << >>
        BY <1>2, <2>2, EmptySeq
      <4> QED BY <1>7, <4>1 DEF Lines!LastLineIsOpen, Lines!Last, Breaks, Lines!Newlines
    <3>2. Count(Breaks, l, len) = Count(Breaks, l, len - 1)
      BY <1>2, <2>2, <3>1, CountLast, CountType
    <3>3. /\ l \in 1 .. len + 1 /\ len \in l - 1 .. len /\ len - 1 \in l - 1 .. len
          /\ len \in l .. len
      BY <1>2, <2>2
    <3>4. Lines!Cardinality(Lines!Newlines(s)) = Count(Breaks, l, len)
      BY <1>2, <2>2, <3>3, NewlinesOfPiece, LinesCardinality DEF Breaks
    <3>5. Lines!Front(s) = SubSeq(file, l, len - 1)
      BY <1>2, <2>2, <3>3, FrontOfPiece
    <3>6. Lines!Cardinality(Lines!Newlines(Lines!Front(s))) = Count(Breaks, l, len - 1)
      BY <1>2, <3>3, <3>5, NewlinesOfPiece, LinesCardinality DEF Breaks
    <3> QED BY <3>2, <3>4, <3>6
  <2>3. CASE s # << >>
    <3>1. PICK l \in 1 .. len : s = SubSeq(file, l, len)
      BY <2>3 DEF Lines!Suffixes
    <3> QED BY <1>5, <2>2, <2>3, <3>1
  <2> QED BY <2>1, <2>3
<1>8. Lines!LastLineIsOpen' => Lines!TailPrintsLines'
  <2>1. Lines!LastLineIsOpen' => Lines!LastLineIsOpen
    BY <1>1 DEF Lines!LastLineIsOpen, Lines!Last
  <2>2. ASSUME Lines!LastLineIsOpen
        PROVE  \A s \in Lines!Suffixes(file') : Lines!InLines(s)' <=> Len(s) <= Len(printed')
    BY <1>1, <1>7, <2>2 DEF Lines!InLines, Lines!FewerNewlines, Lines!Newlines
  <2> QED BY <1>1, <1>4, <2>1, <2>2 DEF Lines!TailPrintsLines
<1>9. Lines!HeadPrintsLines' /\ Lines!NoOtherBytes'
  BY <1>1 DEF Lines!HeadPrintsLines, Lines!NoOtherBytes, Lines!Done
<1>10. printed' \in Lines!SeqOf(Chars, MaxFile)
  <2>1. Len(printed') <= MaxFile
    BY <1>2, <1>3
  <2> QED BY <1>2, <1>3, <2>1, LinesSeqOf
<1>11. Lines!TypeOK'
  BY <1>1, <1>10 DEF Lines!TypeOK
<1> QED BY <1>1, <1>6, <1>8, <1>9, <1>11 DEF LinesInv, Lines!Runs, Lines!PrintsRightPart

LEMMA LinesTailDone == ASSUME Lines!TailHeadAssumption, LinesInv, Lines!TailLines PROVE LinesInv'
<1> DEFINE n == request.number
           len == Len(file)
<1>1. /\ stage = "run" /\ stage' = "done" /\ Lines!Runs("tail", "lines") /\ Searched /\ Lines!TypeOK
      /\ ~(line_num < n /\ off_end < Lines!file_size)
      /\ UNCHANGED <<request, file, off_end, line_num>>
      /\ request.tool = "tail" /\ request.how = "lines"
      /\ printed' = Lines!Rest(off_end)
  BY DEF LinesInv, Lines!TailLines, Lines!Runs, Lines!Finish
<1>2. /\ len \in Nat /\ off_end \in 0 .. len /\ line_num \in Nat /\ Place \in 0 .. len
      /\ Breaks \in SUBSET (1 .. len) /\ n \in Nat /\ Place = len - off_end
      /\ file \in Seq(Chars) /\ len <= MaxFile /\ MaxFile \in Nat /\ DOMAIN file = 1 .. len
  BY <1>1, LinesTypes DEF Lines!TypeOK, Place
<1>3. CASE request.input = "pipe"
  <2>1. printed' = file
    BY <1>1, <1>2, <1>3, SubSeqFull DEF Lines!Rest
  <2>2. Lines!TypeOK'
    BY <1>1, <2>1 DEF Lines!TypeOK
  <2>3. Lines!PrintsRightPart'
    BY <1>1, <1>3 DEF Lines!PrintsRightPart, Lines!StopsAtNewline, Lines!TailPrintsLines,
       Lines!HeadPrintsLines, Lines!NoOtherBytes, Lines!Done
  <2> QED BY <1>1, <2>2, <2>3 DEF LinesInv, Lines!Runs
<1>4. CASE request.input # "pipe"
  BY <1>1, <1>2, <1>4, LinesTailStops
<1> QED BY <1>3, <1>4

LEMMA LinesHeadTypes ==
    ASSUME Lines!TailHeadAssumption, LinesInv, Lines!Runs("head", "lines")
    PROVE  /\ file \in Seq(Chars) /\ Len(file) \in Nat /\ Len(file) <= MaxFile /\ MaxFile \in Nat
           /\ Breaks \in SUBSET (1 .. Len(file)) /\ DOMAIN file = 1 .. Len(file)
           /\ printed \in Seq(Chars) /\ Len(printed) \in 0 .. Len(file)
           /\ request.number \in Nat /\ line_num \in Nat /\ BUFLEN \in Nat /\ BUFLEN > 1
           /\ Lines!TypeOK /\ Shown
           /\ printed # file => Len(printed) < Len(file)
<1>1. Lines!TypeOK /\ Shown /\ stage = "run"
  BY DEF LinesInv, Lines!Runs
<1>2. request.number \in Nat
  BY <1>1 DEF Lines!TypeOK
<1>3. /\ file \in Seq(Chars) /\ Len(file) \in Nat /\ Len(file) <= MaxFile /\ MaxFile \in Nat
      /\ Breaks \in SUBSET (1 .. Len(file)) /\ DOMAIN file = 1 .. Len(file)
      /\ printed \in Seq(Chars) /\ Len(printed) \in Nat
      /\ line_num \in Nat /\ BUFLEN \in Nat /\ BUFLEN > 1
  BY <1>1, LinesTypes
<1>4. Len(printed) <= Len(file) /\ printed = SubSeq(file, 1, Len(printed))
  BY <1>1 DEF Shown
<1>5. SubSeq(file, 1, Len(file)) = file
  BY <1>3, SubSeqFull
<1> QED BY <1>1, <1>2, <1>3, <1>4, <1>5

(* A piece ends behind the last line, and has at most one newline.          *)
LEMMA LinesHeadLine == ASSUME Lines!TailHeadAssumption, LinesInv, Lines!HeadLine PROVE LinesInv'
<1> DEFINE m == Len(printed)
           len == Len(file)
           ends == {k \in m + 1 .. len : file[k] = NL \/ k = m + BUFLEN - 1 \/ k = len}
           e == CHOOSE k \in ends : \A l \in ends : k <= l
<1>1. /\ Lines!Runs("head", "lines") /\ line_num < request.number /\ printed # file
      /\ UNCHANGED <<stage, request, file, off_end>> /\ line_num' = line_num + 1
      /\ printed' = SubSeq(file, 1, e)
  BY DEF Lines!HeadLine
<1>2. /\ file \in Seq(Chars) /\ len \in Nat /\ len <= MaxFile /\ MaxFile \in Nat
      /\ Breaks \in SUBSET (1 .. len) /\ DOMAIN file = 1 .. len
      /\ printed \in Seq(Chars) /\ m \in 0 .. len /\ m < len
      /\ request.number \in Nat /\ line_num \in Nat /\ BUFLEN \in Nat /\ BUFLEN > 1
      /\ Lines!TypeOK /\ Shown
  BY <1>1, LinesHeadTypes
<1> HIDE DEF m, len
<1>3. e \in ends /\ \A l \in ends : e <= l
  <2>1. len \in ends
    BY <1>2
  <2>2. ends \subseteq Nat
    BY <1>2
  <2> HIDE DEF ends
  <2>3. \E k \in ends : \A l \in ends : k <= l
    BY <2>1, <2>2, Least
  <2> QED BY <2>3
<1> HIDE DEF e
<1>4. /\ e \in Int /\ m < e /\ e <= len /\ e \in 1 .. len
      /\ e \in Breaks \/ e = m + BUFLEN - 1 \/ e = len
  <2>1. e \in m + 1 .. len /\ (file[e] = NL \/ e = m + BUFLEN - 1 \/ e = len)
    BY <1>3
  <2>2. e \in Int /\ m < e /\ e <= len /\ e \in 1 .. len
    BY <1>2, <2>1
  <2> QED BY <1>2, <2>1, <2>2 DEF Breaks, Lines!Newlines
<1>5. Count(Breaks, m + 1, e - 1) = 0
  <2>1. ASSUME NEW k \in Between(Breaks, m + 1, e - 1) PROVE FALSE
    <3>1. k \in Breaks /\ k \in m + 1 .. e - 1
      BY DEF Between
    <3>2. k \in m + 1 .. len /\ file[k] = NL
      BY <1>2, <1>4, <3>1 DEF Breaks, Lines!Newlines
    <3>3. k \in ends
      BY <3>2
    <3> HIDE DEF ends
    <3> QED BY <1>3, <1>4, <3>1, <3>3
  <2>2. Between(Breaks, m + 1, e - 1) = {}
    BY <2>1
  <2> QED BY <2>2, FS_EmptySet DEF Count
<1>6. printed' \in Seq(Chars) /\ Len(printed') = e /\ printed' # << >>
  <2>1. SubSeq(file, 1, e) \in Seq(Chars) /\ Len(SubSeq(file, 1, e)) = e
    BY <1>2, <1>4, PrefixProperties
  <2>2. Len(printed') = e /\ Len(<< >>) = 0 /\ e # 0
    BY <1>1, <1>4, <2>1, EmptySeq
  <2> QED BY <1>1, <2>1, <2>2
<1> HIDE DEF ends
<1>7. Breaks' = Breaks /\ Len(file') = len
  BY <1>1 DEF Breaks, Lines!Newlines, len
<1>8. Count(Breaks, 1, e - 1) < line_num + 1
  <2>1. /\ Count(Breaks, 1, e - 1) = Count(Breaks, 1, m) + Count(Breaks, m + 1, e - 1)
        /\ Count(Breaks, 1, m) \in Nat
    BY <1>2, <1>4, CountSplits, CountType
  <2>2. CASE m = 0
    BY <1>2, <1>5, <2>1, <2>2, CountType
  <2>3. CASE m # 0
    <3>1. printed # << >>
      BY <2>3, EmptySeq DEF m
    <3>2. Count(Breaks, 1, m - 1) < line_num /\ Count(Breaks, 1, m - 1) \in Nat
      BY <1>2, <3>1, CountType DEF Shown, m
    <3>3. Count(Breaks, 1, m) = (IF m \in Breaks THEN 1 ELSE 0) + Count(Breaks, 1, m - 1)
      BY <1>2, <2>3, CountLast
    <3> QED BY <1>2, <1>5, <2>1, <3>2, <3>3
  <2> QED BY <2>2, <2>3
<1>9. ASSUME Lines!LinesFit, printed' # file PROVE Count(Breaks, 1, e) = line_num + 1
  <2>1. e # len
    BY <1>1, <1>2, <1>9, SubSeqFull DEF len
  <2>2. Count(Breaks, 1, m) = line_num
    BY <1>1, <1>2, <1>9 DEF Shown, m
  <2>3. /\ Count(Breaks, 1, e) = Count(Breaks, 1, m) + Count(Breaks, m + 1, e)
        /\ Count(Breaks, m + 1, e) = (IF e \in Breaks THEN 1 ELSE 0) + Count(Breaks, m + 1, e - 1)
    BY <1>2, <1>4, CountSplits, CountLast
  <2>4. CASE e \in Breaks
    BY <1>2, <1>5, <2>2, <2>3, <2>4
  <2>5. CASE e \notin Breaks
    <3>1. e = m + BUFLEN - 1 /\ Count(Breaks, m + 1, e) = 0
      BY <1>4, <1>5, <2>1, <2>3, <2>5
    <3>2. m + 1 \in 1 .. len - BUFLEN + 2 /\ m + 1 + BUFLEN - 2 = e
      BY <1>2, <1>4, <2>1, <3>1
    <3>3. Lines!Newlines(SubSeq(file, m + 1, e)) # {}
      BY <1>9, <3>2 DEF Lines!LinesFit, len
    <3>4. m + 1 \in 1 .. len + 1 /\ e \in (m + 1) - 1 .. len
      BY <1>2, <1>4
    <3> QED BY <1>2, <3>1, <3>3, <3>4, NewlinesOfPiece DEF Breaks, len
  <2> QED BY <2>4, <2>5
<1>10. Shown'
  <2>1. Lines!LinesFit' = Lines!LinesFit
    BY <1>1 DEF Lines!LinesFit, Lines!Newlines
  <2>2. line_num' <= request'.number
    BY <1>1, <1>2
  <2> QED BY <1>1, <1>2, <1>4, <1>6, <1>7, <1>8, <1>9, <2>1, <2>2 DEF Shown, len
<1>11. Lines!TypeOK'
  <2>1. Len(printed') <= MaxFile
    BY <1>2, <1>4, <1>6
  <2>2. printed' \in Lines!SeqOf(Chars, MaxFile)
    BY <1>2, <1>6, <2>1, LinesSeqOf
  <2>3. line_num' \in Nat
    BY <1>1, <1>2
  <2> QED BY <1>1, <1>2, <2>2, <2>3 DEF Lines!TypeOK
<1> QED BY <1>1, <1>10, <1>11, LinesOpenEnd DEF LinesInv, Lines!Runs

LEMMA LinesHeadDone == ASSUME Lines!TailHeadAssumption, LinesInv, Lines!HeadDone PROVE LinesInv'
<1> DEFINE n == request.number
           m == Len(printed)
           len == Len(file)
<1>1. /\ Lines!Runs("head", "lines") /\ stage' = "done" /\ printed' = printed
      /\ ~(line_num < n /\ printed # file)
      /\ UNCHANGED <<request, file, off_end, line_num>>
      /\ request.tool = "head" /\ request.how = "lines"
  BY DEF Lines!HeadDone, Lines!Runs, Lines!Finish
<1>2. /\ file \in Seq(Chars) /\ len \in Nat
      /\ Breaks \in SUBSET (1 .. len) /\ printed \in Seq(Chars) /\ m \in 0 .. len
      /\ n \in Nat /\ line_num \in Nat /\ Lines!TypeOK /\ Shown
  BY <1>1, LinesHeadTypes
<1>3. Lines!IsPrefix(printed, file)
  <2>1. SubSeq(printed, 1, m) = printed
    BY <1>2, SubSeqFull
  <2>2. m <= len
    BY <1>2
  <2> QED BY <1>2, <2>1, <2>2 DEF Lines!IsPrefix, Shown
<1> HIDE DEF n, m, len
<1>4. ASSUME NEW q \in 0 .. len
      PROVE  LET s == SubSeq(file, 1, q)
                 inFirst == Lines!InLines(s)
             IN  /\ Len(s) <= m => inFirst
                 /\ Lines!LinesFit /\ inFirst => Len(s) <= m
  <2> DEFINE s == SubSeq(file, 1, q)
             inFirst == Lines!InLines(s)
  <2>1. Len(s) = q
    BY <1>2, PrefixProperties DEF len
  <2>2. CASE q = 0
    <3>1. s = << >>
      BY <2>2, SubSeqEmpty
    <3>2. Len(s) <= m
      BY <1>2, <2>1, <2>2
    <3> HIDE DEF s
    <3>3. /\ Len(s) <= m => inFirst
          /\ Lines!LinesFit /\ inFirst => Len(s) <= m
      BY <3>1, <3>2 DEF Lines!InLines
    <3> QED BY <3>3 DEF s
  <2>3. CASE q # 0
    <3>0. q \in 1 .. len /\ q - 1 \in 1 - 1 .. len /\ q - 1 \in 0 .. len /\ q \in Int
      BY <1>2, <2>3
    <3>1. Lines!Front(s) = SubSeq(file, 1, q - 1)
      <4>1. 1 \in 1 .. len /\ q \in 1 .. len
        BY <1>2, <3>0
      <4> QED BY <1>2, <4>1, FrontOfPiece DEF len
    <3>2. Lines!Cardinality(Lines!Newlines(Lines!Front(s))) = Count(Breaks, 1, q - 1)
      <4>1. 1 \in 1 .. len + 1
        BY <1>2
      <4> QED BY <1>2, <3>0, <3>1, <4>1, NewlinesOfPiece, LinesCardinality DEF len, Breaks
    <3>3. s # << >>
      BY <2>1, <2>3, EmptySeq
    <3> HIDE DEF s
    <3>4. inFirst <=> Count(Breaks, 1, q - 1) < n
      BY <3>2, <3>3 DEF Lines!InLines, Lines!FewerNewlines, n
    <3>5. Count(Breaks, 1, q - 1) \in Nat /\ Count(Breaks, 1, m - 1) \in Nat /\ Count(Breaks, 1, m) \in Nat
      BY <1>2, <3>0, CountType
    <3>6. ASSUME q <= m PROVE Count(Breaks, 1, q - 1) < n
      <4>1. printed # << >>
        BY <1>2, <3>0, <3>6, EmptySeq DEF m
      <4>2. Count(Breaks, 1, m - 1) < line_num /\ line_num <= n
        BY <1>2, <4>1 DEF Shown, m, n
      <4>3. Count(Breaks, 1, q - 1) <= Count(Breaks, 1, m - 1)
        BY <1>2, <3>0, <3>6, CountGrows
      <4> QED BY <1>2, <3>5, <4>2, <4>3
    <3>7. ASSUME Lines!LinesFit, Count(Breaks, 1, q - 1) < n PROVE q <= m
      <4>1. CASE printed = file
        BY <1>2, <3>0, <4>1 DEF m, len
      <4>2. CASE printed # file
        <5>1. Count(Breaks, 1, m) = line_num /\ line_num = n
          BY <1>1, <1>2, <3>7, <4>2 DEF Shown, m, n
        <5>2. m <= q - 1 => Count(Breaks, 1, m) <= Count(Breaks, 1, q - 1)
          BY <1>2, <3>0, CountGrows
        <5> QED BY <1>2, <3>0, <3>5, <3>7, <5>1, <5>2
      <4> QED BY <4>1, <4>2
    <3> HIDE DEF inFirst
    <3>8. /\ Len(s) <= m => inFirst
          /\ Lines!LinesFit /\ inFirst => Len(s) <= m
      BY <2>1, <3>4, <3>6, <3>7
    <3> QED BY <3>8 DEF inFirst, s
  <2> QED BY <2>2, <2>3
<1>5. Lines!HeadPrintsLines'
  <2>1. \A s \in Lines!Prefixes(file) :
           /\ Len(s) <= Len(printed) => Lines!InLines(s)
           /\ Lines!LinesFit /\ Lines!InLines(s) => Len(s) <= Len(printed)
    BY <1>4 DEF Lines!Prefixes, len, m
  <2>2. \A s : Lines!InLines(s)' <=> Lines!InLines(s)
    BY <1>1 DEF Lines!InLines, Lines!FewerNewlines, Lines!Newlines
  <2>3. Lines!LinesFit' <=> Lines!LinesFit
    BY <1>1 DEF Lines!LinesFit, Lines!Newlines
  <2> QED BY <1>1, <1>3, <2>1, <2>2, <2>3 DEF Lines!HeadPrintsLines
<1>6. Lines!StopsAtNewline' /\ Lines!TailPrintsLines' /\ Lines!NoOtherBytes'
  BY <1>1 DEF Lines!StopsAtNewline, Lines!TailPrintsLines, Lines!NoOtherBytes, Lines!Done
<1>7. Lines!TypeOK'
  BY <1>1, <1>2 DEF Lines!TypeOK, Lines!Runs
<1> QED BY <1>1, <1>5, <1>6, <1>7 DEF LinesInv, Lines!Runs, Lines!PrintsRightPart

(* The first of a sequence are a prefix as IsPrefix says it.                *)
LEMMA BeginningIsPrefix ==
    ASSUME NEW S, NEW s \in Seq(S), NEW k \in 0 .. Len(s)
    PROVE  Lines!IsPrefix(SubSeq(s, 1, k), s)
<1> DEFINE b == SubSeq(s, 1, k)
<1>1. Len(s) \in Nat
  BY LenProperties
<1>2. b \in Seq(S) /\ Len(b) = k
  BY PrefixProperties
<1>3. SubSeq(b, 1, Len(b)) = b
  BY <1>2, SubSeqFull
<1>4. b = SubSeq(s, 1, Len(b)) /\ Len(b) <= Len(s)
  BY <1>1, <1>2
<1> HIDE DEF b
<1>5. Lines!IsPrefix(b, s)
  BY <1>3, <1>4 DEF Lines!IsPrefix
<1> QED BY <1>5 DEF b

(* The bytes asked for are there.                                           *)
LEMMA AskedTypes ==
    ASSUME Lines!TailHeadAssumption, LinesInv, stage = "run"
    PROVE  /\ Lines!BytesAsked \in Seq(Chars) /\ Len(Lines!BytesAsked) \in Nat
           /\ request.number # 0 /\ file # << >> => Len(Lines!BytesAsked) >= 1
<1> DEFINE n == IF request.number < Len(file) THEN request.number ELSE Len(file)
           d == Len(file) - n
<1>1. /\ Lines!TypeOK /\ file \in Seq(Chars) /\ Len(file) \in Nat /\ request.number \in Nat
  BY LinesTypes DEF LinesInv, Lines!TypeOK
<1>2. n \in 0 .. Len(file) /\ d \in Nat /\ Len(file) - n + 1 = d + 1
  BY <1>1
<1>3. file # << >> /\ request.number # 0 => n >= 1
  <2>1. file # << >> => Len(file) # 0
    BY <1>1, EmptySeq
  <2> QED BY <1>1, <2>1
<1> HIDE DEF n
<1>4. SubSeq(file, 1, n) \in Seq(Chars) /\ Len(SubSeq(file, 1, n)) = n
  BY <1>1, <1>2, PrefixProperties
<1>5. /\ SubSeq(file, d + 1, Len(file)) \in Seq(Chars)
      /\ Len(SubSeq(file, d + 1, Len(file))) = IF d < Len(file) THEN Len(file) - d ELSE 0
  BY <1>1, <1>2, SuffixProperties
<1>6. Len(SubSeq(file, d + 1, Len(file))) = n
  BY <1>1, <1>2, <1>5
<1>7. Lines!BytesAsked = IF request.tool = "head" THEN SubSeq(file, 1, n) ELSE SubSeq(file, d + 1, Len(file))
  BY <1>2 DEF Lines!BytesAsked, n
<1> HIDE DEF d
<1> QED BY <1>2, <1>3, <1>4, <1>5, <1>6, <1>7

(* fread gives one byte or none.                                            *)
LEMMA LinesReadsOne ==
    ASSUME Lines!TailHeadAssumption, LinesInv, stage = "run", request.how = "bytes",
           NEW rest \in Seq(Chars), Len(rest) <= MaxFile, NEW size, Lines!FreadOne(rest, size),
           size \in 1 .. Len(rest) => /\ Len(Lines!BytesAsked) >= 1
                                      /\ SubSeq(rest, 1, 1) = SubSeq(Lines!BytesAsked, 1, 1)
    PROVE  LinesInv'
<1>1. /\ Lines!TypeOK /\ MaxFile \in Nat /\ Len(rest) \in Nat
      /\ Lines!BytesAsked \in Seq(Chars) /\ Len(Lines!BytesAsked) \in Nat
  BY LinesTypes, AskedTypes, LenProperties DEF LinesInv
<1>2. CASE stage' = "crashed" /\ UNCHANGED <<request, file, off_end, line_num, printed>>
  BY <1>1, <1>2, LinesOpenEnd DEF LinesInv, Lines!TypeOK, Lines!Runs
<1>3. ASSUME NEW num_read \in {0, 1}, num_read = 1 => size \in 1 .. Len(rest),
             Lines!Finish(SubSeq(rest, 1, num_read))
      PROVE  LinesInv'
  <2>1. /\ stage' = "done" /\ printed' = SubSeq(rest, 1, num_read)
        /\ UNCHANGED <<request, file, off_end, line_num>>
    BY <1>3 DEF Lines!Finish
  <2>2. num_read \in 0 .. Len(rest) /\ num_read \in 0 .. Len(Lines!BytesAsked)
    BY <1>1, <1>3
  <2>3. printed' = SubSeq(Lines!BytesAsked, 1, num_read)
    BY <1>1, <1>3, <2>1, SubSeqEmpty
  <2>4. printed' \in Lines!SeqOf(Chars, MaxFile)
    <3>1. printed' \in Seq(Chars) /\ Len(printed') = num_read
      BY <2>1, <2>2, PrefixProperties
    <3>2. Len(printed') <= MaxFile
      BY <1>1, <2>2, <3>1
    <3> QED BY <1>1, <3>1, <3>2, LinesSeqOf
  <2>5. Lines!BytesAsked' = Lines!BytesAsked
    BY <2>1 DEF Lines!BytesAsked
  <2>6. Lines!IsPrefix(printed', Lines!BytesAsked)
    BY <1>1, <2>2, <2>3, BeginningIsPrefix
  <2>7. Lines!NoOtherBytes'
    BY <2>5, <2>6 DEF Lines!NoOtherBytes
  <2>8. Lines!HeadPrintsLines' /\ Lines!TailPrintsLines' /\ Lines!StopsAtNewline'
    BY <2>1 DEF Lines!HeadPrintsLines, Lines!TailPrintsLines, Lines!StopsAtNewline, Lines!Done
  <2>9. Lines!TypeOK'
    BY <1>1, <2>1, <2>4 DEF Lines!TypeOK
  <2> QED BY <2>1, <2>7, <2>8, <2>9 DEF LinesInv, Lines!Runs, Lines!PrintsRightPart
<1>4. CASE Lines!Finish(SubSeq(rest, 1, IF size \in 1 .. Len(rest) THEN 1 ELSE 0))
  <2>1. CASE size \in 1 .. Len(rest)
    BY <1>3, <1>4, <2>1
  <2>2. CASE size \notin 1 .. Len(rest)
    BY <1>3, <1>4, <2>2
  <2> QED BY <2>1, <2>2
<1> QED BY <1>2, <1>4 DEF Lines!FreadOne

LEMMA LinesBytes ==
    ASSUME Lines!TailHeadAssumption, LinesInv, Lines!TailBytes \/ Lines!HeadBytes
    PROVE  LinesInv'
<1>1. /\ Len(file) \in Nat /\ file \in Seq(Chars) /\ Len(file) <= MaxFile
      /\ SubSeq(file, 1, Len(file)) = file
  BY LinesTypes, SubSeqFull DEF LinesInv
<1>2. stage = "run" /\ request.how = "bytes" /\ request.number \in Nat
  BY DEF Lines!TailBytes, Lines!HeadBytes, Lines!Runs, LinesInv, Lines!TypeOK
<1> DEFINE n == IF request.number < Len(file) THEN request.number ELSE Len(file)
<1>3. CASE Lines!HeadBytes
  <2>1. request.tool = "head" /\ Lines!FreadOne(file, request.number)
    BY <1>3 DEF Lines!HeadBytes, Lines!Runs
  <2>2. ASSUME request.number \in 1 .. Len(file)
        PROVE  /\ Len(Lines!BytesAsked) >= 1 /\ SubSeq(file, 1, 1) = SubSeq(Lines!BytesAsked, 1, 1)
    <3>1. n \in 1 .. Len(file) /\ 1 \in 1 .. Len(file) /\ 1 \in 1 .. n - 1 + 1
      BY <1>1, <2>2
    <3>2. Lines!BytesAsked = SubSeq(file, 1, n)
      BY <2>1 DEF Lines!BytesAsked
    <3> HIDE DEF n
    <3>3. Len(SubSeq(file, 1, n)) = n
      BY <1>1, <3>1, PrefixProperties
    <3>4. SubSeq(SubSeq(file, 1, n), 1, 1) = SubSeq(file, 1 + 1 - 1, 1 + 1 - 1)
      BY <1>1, <3>1, SubSeqOfSubSeq
    <3> QED BY <3>1, <3>2, <3>3, <3>4
  <2> QED BY <1>1, <1>2, <2>1, <2>2, LinesReadsOne
<1>4. CASE Lines!TailBytes
  <2> DEFINE min == IF request.number < Lines!file_size THEN request.number ELSE Lines!file_size
             rest == Lines!Rest(min)
  <2>1. request.tool = "tail" /\ Lines!FreadOne(rest, min)
    BY <1>4 DEF Lines!TailBytes, Lines!Runs
  <2>2. CASE request.input = "pipe"
    <3>1. min = -1 /\ rest = file
      BY <1>1, <1>2, <2>2 DEF Lines!file_size, Lines!Rest
    <3>2. min \notin 1 .. Len(file)
      BY <3>1
    <3> HIDE DEF min, rest
    <3> QED BY <1>1, <1>2, <2>1, <3>1, <3>2, LinesReadsOne
  <2>3. CASE request.input # "pipe"
    <3>1. min = n /\ rest = SubSeq(file, Len(file) - n + 1, Len(file)) /\ rest = Lines!BytesAsked
      BY <2>1, <2>3 DEF Lines!file_size, Lines!Rest, Lines!BytesAsked
    <3>2. n \in 0 .. Len(file) /\ Len(file) - n \in Nat
      BY <1>1, <1>2
    <3> HIDE DEF n, min, rest
    <3>3. rest \in Seq(Chars) /\ Len(rest) = n
      BY <1>1, <3>1, <3>2, SuffixProperties
    <3>4. Len(rest) <= MaxFile /\ (min \in 1 .. Len(rest) => Len(rest) >= 1)
      BY <1>1, <3>2, <3>3, LinesTypes DEF LinesInv
    <3> QED BY <1>2, <2>1, <3>1, <3>3, <3>4, LinesReadsOne
  <2> QED BY <2>2, <2>3
<1> QED BY <1>3, <1>4

(* Both programs print the right part, of files of any length, read in      *)
(* blocks of any size.                                                      *)
LEMMA LinesStep ==
    ASSUME Lines!TailHeadAssumption, LinesInv, [Lines!Next]_tailvars
    PROVE  LinesInv'
<1>1. CASE UNCHANGED tailvars
  <2>1. UNCHANGED <<stage, request, file, off_end, line_num, printed>>
    BY <1>1 DEF tailvars
  <2>2. Lines!TypeOK' <=> Lines!TypeOK
    BY <2>1 DEF Lines!TypeOK
  <2>3. Searched' <=> Searched
    BY <2>1 DEF Searched, Place, Breaks, Lines!Newlines
  <2>4. (Lines!LinesFit' <=> Lines!LinesFit) /\ (Shown' <=> Shown)
    BY <2>1 DEF Shown, Breaks, Lines!Newlines, Lines!LinesFit
  <2>5. \A text : /\ Lines!FewerNewlines(text)' <=> Lines!FewerNewlines(text)
                  /\ Lines!InLines(text)' <=> Lines!InLines(text)
    BY <2>1 DEF Lines!InLines, Lines!FewerNewlines, Lines!Newlines
  <2>6. Lines!PrintsRightPart' <=> Lines!PrintsRightPart
    BY <2>1, <2>4, <2>5
    DEF Lines!PrintsRightPart, Lines!StopsAtNewline, Lines!TailPrintsLines, Lines!HeadPrintsLines,
        Lines!NoOtherBytes, Lines!Done, Lines!BytesAsked, Lines!LastLineIsOpen, Lines!Last
  <2> QED BY <2>1, <2>2, <2>3, <2>4, <2>6 DEF LinesInv, Lines!Runs
<1> QED BY <1>1, LinesMain, LinesOpens, LinesBytes, LinesLocates, LinesTailDone, LinesHeadLine,
           LinesHeadDone DEF Lines!Next

-----------------------------------------------------------------------------
(* myls.c                                                                   *)

Asked(flag) == \E word \in mode : Ls!Contains(word, flag)

(* The places of the names that are to be seen.                             *)
Wanted == {k \in 1 .. Len(entries) : entries[k] \notin Hidden \/ Asked("a")}

ListedRight ==
    /\ Len(listed) = Count(Wanted, 1, pos)
    /\ \A k \in Between(Wanted, 1, pos) :
          LET entry == listed[Count(Wanted, 1, k)]
          IN  entry.name = entries[k] /\ \A flag \in {"l", "i"} : flag \in entry.details <=> Asked(flag)

LsInv ==
    /\ Ls!TypeOK /\ ListedRight
    /\ \A word \in mode : Ls!IsOption(word)
    /\ ls \in {"main", "opendir"} => pos = 0 /\ listed = << >>
    /\ ls \in {"readdir", "ok"} => mod = Ls!Flags /\ mod \subseteq {"a", "l", "i"}
    /\ ls = "ok" => pos = Len(entries)

LEMMA LsTypes ==
    ASSUME Ls!MyLsAssumption, Ls!TypeOK
    PROVE  /\ entries \in Seq(Names) /\ Len(entries) \in Nat /\ Len(entries) <= MaxEntries
           /\ pos \in 0 .. Len(entries) /\ pos \in Nat /\ MaxEntries \in Nat
           /\ listed \in Seq([name : Names, details : SUBSET {"l", "i"}]) /\ Len(listed) \in Nat
           /\ Wanted \in SUBSET (1 .. Len(entries))
<1>1. MaxEntries \in Nat
  BY DEF Ls!MyLsAssumption
<1>2. entries \in Seq(Names) /\ Len(entries) <= MaxEntries
  BY <1>1, BoundedSequences DEF Ls!TypeOK, Ls!SeqOf
<1>3. Len(entries) \in Nat /\ pos \in 0 .. Len(entries)
  BY <1>2, LenProperties DEF Ls!TypeOK
<1>4. listed \in Seq([name : Names, details : SUBSET {"l", "i"}])
  BY DEF Ls!TypeOK
<1>5. Len(listed) \in Nat
  BY <1>4, LenProperties
<1> QED BY <1>1, <1>2, <1>3, <1>4, <1>5 DEF Wanted

LEMMA LsListsAll == ASSUME Ls!MyLsAssumption, LsInv PROVE Ls!ListsAll
<1> DEFINE visible == {k \in 1 .. pos : entries[k] \notin Hidden \/ Asked("a")}
           rank(k) == Ls!Cardinality({j \in visible : j <= k})
<1>1. pos \in 0 .. Len(entries) /\ Len(entries) \in Nat
  BY LsTypes DEF LsInv
<1>2. visible = Between(Wanted, 1, pos)
  BY <1>1 DEF Wanted, Between
<1>3. \A S : Ls!Cardinality(S) = Cardinality(S)
  BY DEF Ls!Cardinality, Cardinality
<1>4. Len(listed) = Ls!Cardinality(visible)
  BY <1>2, <1>3 DEF LsInv, ListedRight, Count
<1>5. ASSUME NEW k \in visible PROVE rank(k) = Count(Wanted, 1, k)
  <2>1. {j \in visible : j <= k} = Between(Wanted, 1, k)
    BY <1>1, <1>5 DEF Wanted, Between
  <2> QED BY <1>3, <2>1 DEF Count
<1>6. \A k \in visible :
         /\ listed[rank(k)].name = entries[k]
         /\ \A flag \in {"l", "i"} : flag \in listed[rank(k)].details <=> Asked(flag)
  <2> HIDE DEF visible, rank
  <2> QED BY <1>2, <1>5 DEF LsInv, ListedRight
<1> QED BY <1>4, <1>6 DEF Ls!ListsAll, LsInv, Asked

LEMMA LsInit == ASSUME Ls!MyLsAssumption, Ls!Init PROVE LsInv
<1>1. << >> \in Ls!SeqOf(Names, MaxEntries) /\ Len(<< >>) = 0
  <2> DEFINE none == << >>
  <2>1. none \in Seq(Names) /\ Len(none) = 0
    BY EmptySeq
  <2> HIDE DEF none
  <2>2. MaxEntries \in Nat /\ Len(none) <= MaxEntries
    BY <2>1 DEF Ls!MyLsAssumption
  <2>3. none \in Ls!SeqOf(Names, MaxEntries)
    BY <2>1, <2>2, BoundedSequences DEF Ls!SeqOf
  <2> QED BY <2>1, <2>3 DEF none
<1>2. << >> \in Seq([name : Names, details : SUBSET {"l", "i"}])
  BY EmptySeq
<1>3. Ls!TypeOK
  BY <1>1, <1>2 DEF Ls!Init, Ls!TypeOK
<1>4. Count(Wanted, 1, 0) = 0 /\ Between(Wanted, 1, 0) = {}
  BY CountType
<1> QED BY <1>1, <1>3, <1>4 DEF Ls!Init, LsInv, ListedRight

LEMMA LsMain == ASSUME Ls!MyLsAssumption, LsInv, Ls!main PROVE LsInv'
<1>1. /\ ls = "main" /\ ls' \in {"opendir", "error"} /\ UNCHANGED <<mod, entries, pos, listed>>
      /\ pos = 0 /\ listed = << >>
  BY DEF Ls!main, LsInv
<1>2. PICK arg \in Ls!SeqOf(LsWords, 3) : mode' = {word \in Ls!ToSet(arg) : Ls!IsOption(word)}
  BY DEF Ls!main
<1>3. Ls!ToSet(arg) \subseteq LsWords
  <2>1. arg \in Seq(LsWords)
    BY BoundedSequences DEF Ls!SeqOf
  <2> QED BY <2>1, LenProperties, ElementOfSeq DEF Ls!ToSet
<1>4. Ls!TypeOK'
  BY <1>1, <1>2, <1>3 DEF LsInv, Ls!TypeOK
<1>5. Count(Wanted', 1, 0) = 0 /\ Between(Wanted', 1, 0) = {} /\ Len(<< >>) = 0
  BY CountType, EmptySeq
<1>6. \A word \in mode' : Ls!IsOption(word)
  BY <1>2
<1> QED BY <1>1, <1>4, <1>5, <1>6 DEF LsInv, ListedRight

(* Behind its dash an option word has the letters it has.                   *)
LEMMA OptionLetters ==
    ASSUME NEW word \in LsWords, Ls!IsOption(word)
    PROVE  /\ Ls!ToSet(Tail(word)) \subseteq Ls!ToSet(word)
           /\ \A flag : flag # "-" => (flag \in Ls!ToSet(Tail(word)) <=> Ls!Contains(word, flag))
<1> DEFINE letters == {"-", "a", "l", "i", "x", "p"}
           n == Len(word)
           t == Tail(word)
<1>1. word \in Seq(letters)
  <2>1. \A x, y, z \in letters : /\ <<x>> \in Seq(letters) /\ <<x, y>> \in Seq(letters)
                                 /\ <<x, y, z>> \in Seq(letters)
    OBVIOUS
  <2> QED BY <2>1 DEF LsWords
<1> HIDE DEF letters
<1>2. n \in Nat /\ DOMAIN word = 1 .. n
  BY <1>1, LenProperties
<1>3. Len(<<"-">>) = 1 /\ n >= 1 /\ word # << >>
  BY <1>2, EmptySeq DEF Ls!IsOption, Ls!IsPrefix
<1>4. word[1] = "-"
  <2>1. SubSeq(<<"-">>, 1, 1) = SubSeq(word, 1, 1)
    BY <1>3 DEF Ls!IsOption, Ls!IsPrefix
  <2>2. 1 \in 0 .. n
    BY <1>2, <1>3
  <2>3. SubSeq(word, 1, 1)[1] = word[1]
    BY <1>1, <2>2, PrefixProperties
  <2>4. SubSeq(<<"-">>, 1, 1)[1] = "-"
    <3> DEFINE dash == <<"-">>
    <3>1. dash \in Seq({"-"}) /\ 1 \in 0 .. Len(dash) /\ dash[1] = "-"
      OBVIOUS
    <3> HIDE DEF dash
    <3>2. SubSeq(dash, 1, 1)[1] = dash[1]
      BY <3>1, PrefixProperties
    <3> QED BY <3>1, <3>2 DEF dash
  <2> QED BY <2>1, <2>3, <2>4
<1>5. t \in Seq(letters) /\ Len(t) = n - 1 /\ \A k \in 1 .. Len(t) : t[k] = word[k + 1]
  BY <1>1, <1>3, HeadTailProperties
<1> HIDE DEF t
<1>6. DOMAIN t = 1 .. n - 1
  BY <1>5, LenProperties
<1> HIDE DEF n
<1>7. ASSUME NEW flag \in Ls!ToSet(t) PROVE \E k \in 1 .. n : word[k] = flag
  <2>1. PICK k \in 1 .. n - 1 : t[k] = flag
    BY <1>6 DEF Ls!ToSet
  <2>2. k + 1 \in 1 .. n /\ word[k + 1] = flag
    BY <1>2, <1>5, <2>1
  <2> QED BY <2>2
<1>8. ASSUME NEW flag, flag # "-", NEW k \in 1 .. n, word[k] = flag PROVE flag \in Ls!ToSet(t)
  <2>1. k # 1 /\ k - 1 \in 1 .. n - 1 /\ k - 1 + 1 = k
    BY <1>2, <1>4, <1>8
  <2>2. t[k - 1] = flag
    BY <1>5, <1>8, <2>1
  <2> QED BY <1>6, <2>1, <2>2 DEF Ls!ToSet
<1>9. Ls!ToSet(t) \subseteq Ls!ToSet(word)
  BY <1>2, <1>7 DEF Ls!ToSet
<1>10. \A flag : Ls!Contains(word, flag) <=> \E k \in 1 .. n : word[k] = flag
  BY DEF Ls!Contains, n
<1> QED BY <1>7, <1>8, <1>9, <1>10 DEF t

(* What main and myls make of the options is what any of them asks for.     *)
LEMMA FlagsAsked ==
    ASSUME Ls!TypeOK, \A word \in mode : Ls!IsOption(word), NEW flag \in {"a", "l", "i"}
    PROVE  flag \in Ls!Flags <=> Asked(flag)
<1>1. \A word \in mode : word \in LsWords
  BY DEF Ls!TypeOK
<1>2. \A word \in mode : flag \in Ls!ToSet(Tail(word)) <=> Ls!Contains(word, flag)
  BY <1>1, OptionLetters
<1> QED BY <1>2 DEF Ls!Flags, Asked

LEMMA LsOpens == ASSUME Ls!MyLsAssumption, LsInv, Ls!Open PROVE LsInv'
<1>1. /\ ls = "opendir" /\ UNCHANGED <<mode, pos, listed>> /\ pos = 0 /\ listed = << >>
  BY DEF Ls!Open, LsInv
<1>2. Count(Wanted', 1, 0) = 0 /\ Between(Wanted', 1, 0) = {} /\ Len(<< >>) = 0
  BY CountType, EmptySeq
<1>3. ListedRight'
  BY <1>1, <1>2 DEF ListedRight
<1>4. CASE ls' = "error" /\ UNCHANGED <<mod, entries>>
  BY <1>1, <1>3, <1>4 DEF LsInv, Ls!TypeOK
<1>5. CASE /\ entries' \in Ls!SeqOf(Names, MaxEntries) /\ mod' = Ls!Flags
           /\ ls' = IF Ls!Flags \subseteq {"a", "l", "i"} THEN "readdir" ELSE "error"
  <2>1. Ls!Flags \subseteq UNION {Ls!ToSet(w) : w \in LsWords}
    <3>1. ASSUME NEW word \in mode PROVE Ls!ToSet(Tail(word)) \subseteq Ls!ToSet(word)
      BY OptionLetters DEF LsInv, Ls!TypeOK
    <3>2. mode \subseteq LsWords
      BY DEF LsInv, Ls!TypeOK
    <3> QED BY <3>1, <3>2 DEF Ls!Flags
  <2>2. Len(entries') \in Nat
    BY <1>5, BoundedSequences, LenProperties DEF Ls!SeqOf, Ls!MyLsAssumption
  <2>3. Ls!TypeOK'
    BY <1>1, <1>5, <2>1, <2>2 DEF LsInv, Ls!TypeOK
  <2>4. Ls!Flags' = Ls!Flags
    BY <1>1 DEF Ls!Flags
  <2> QED BY <1>1, <1>3, <1>5, <2>3, <2>4 DEF LsInv
<1> QED BY <1>4, <1>5 DEF Ls!Open

LEMMA LsReads == ASSUME Ls!MyLsAssumption, LsInv, Ls!Readdir PROVE LsInv'
<1>1. /\ ls = "readdir" /\ UNCHANGED <<mode, mod, entries>> /\ mod = Ls!Flags /\ mod \subseteq {"a", "l", "i"}
      /\ Ls!TypeOK /\ ListedRight /\ \A word \in mode : Ls!IsOption(word)
  BY DEF Ls!Readdir, LsInv
<1>2. /\ entries \in Seq(Names) /\ Len(entries) \in Nat /\ pos \in 0 .. Len(entries) /\ pos \in Nat
      /\ listed \in Seq([name : Names, details : SUBSET {"l", "i"}]) /\ Len(listed) \in Nat
      /\ Wanted \in SUBSET (1 .. Len(entries))
  BY <1>1, LsTypes
<1>3. \A flag \in {"a", "l", "i"} : flag \in mod <=> Asked(flag)
  BY <1>1, FlagsAsked
<1>4. /\ \A flag : Asked(flag)' <=> Asked(flag)
      /\ Wanted' = Wanted /\ Ls!Flags' = Ls!Flags
  BY <1>1 DEF Asked, Wanted, Ls!Flags
<1>5. CASE UNCHANGED <<pos, listed>> /\ ls' \in {"ok", "error"} /\ (ls' = "ok" => pos = Len(entries))
  <2>1. ListedRight'
    BY <1>1, <1>4, <1>5 DEF ListedRight
  <2>2. Ls!TypeOK'
    BY <1>1, <1>5 DEF Ls!TypeOK
  <2> QED BY <1>1, <1>4, <1>5, <2>1, <2>2 DEF LsInv
<1>6. CASE pos < Len(entries) /\ pos' = pos + 1 /\ ls' = ls
  <2> DEFINE here == pos + 1
             entry == [name |-> entries[here], details |-> mod \ {"a"}]
  <2>1. /\ here \in 1 .. Len(entries) /\ here \in Int /\ here - 1 = pos
        /\ pos' = here /\ pos' \in 0 .. Len(entries')
    BY <1>1, <1>2, <1>6
  <2> HIDE DEF here
  <2>2. /\ Count(Wanted, 1, here) = (IF here \in Wanted THEN 1 ELSE 0) + Count(Wanted, 1, pos)
        /\ Count(Wanted, 1, pos) \in Nat
    BY <1>2, <2>1, CountLast, CountType
  <2>3. Between(Wanted, 1, here) = Between(Wanted, 1, pos) \cup (Wanted \cap {here})
    BY <1>2, <2>1 DEF Between
  <2>4. CASE entries[here] \in Hidden /\ "a" \notin mod /\ UNCHANGED listed
    <3>1. here \notin Wanted
      BY <1>3, <2>4 DEF Wanted
    <3>2. Count(Wanted, 1, here) = Count(Wanted, 1, pos) /\ Between(Wanted, 1, here) = Between(Wanted, 1, pos)
      <4>1. Wanted \cap {here} = {}
        BY <3>1
      <4> QED BY <2>2, <2>3, <3>1, <4>1
    <3>3. ListedRight'
      BY <1>1, <1>4, <2>1, <2>4, <3>2 DEF ListedRight
    <3>4. Ls!TypeOK'
      BY <1>1, <1>6, <2>1, <2>4 DEF Ls!TypeOK
    <3> QED BY <1>1, <1>4, <1>6, <3>3, <3>4 DEF LsInv
  <2>5. CASE ~(entries[here] \in Hidden /\ "a" \notin mod) /\ listed' = Append(listed, entry)
    <3>1. here \in Wanted
      BY <1>3, <2>1, <2>5 DEF Wanted
    <3>2. Count(Wanted, 1, here) = Count(Wanted, 1, pos) + 1
      BY <2>2, <3>1
    <3>3. entries[here] \in Names
      BY <1>2, <2>1, ElementOfSeq
    <3>4. entry \in [name : Names, details : SUBSET {"l", "i"}]
      BY <1>1, <3>3
    <3> HIDE DEF entry
    <3>5. /\ listed' \in Seq([name : Names, details : SUBSET {"l", "i"}]) /\ Len(listed') = Len(listed) + 1
          /\ \A k \in 1 .. Len(listed) : listed'[k] = listed[k]
          /\ listed'[Len(listed) + 1] = entry
      BY <1>2, <2>5, <3>4, AppendProperties
    <3>6. Len(listed) = Count(Wanted, 1, pos)
      BY <1>1 DEF ListedRight
    <3>7. ASSUME NEW k \in Between(Wanted, 1, pos)
          PROVE  listed'[Count(Wanted, 1, k)] = listed[Count(Wanted, 1, k)]
      <4>1. k \in 1 .. pos /\ k \in Wanted
        BY DEF Between
      <4>2. /\ Count(Wanted, 1, k) = (IF k \in Wanted THEN 1 ELSE 0) + Count(Wanted, 1, k - 1)
            /\ Count(Wanted, 1, k - 1) \in Nat /\ Count(Wanted, 1, k) \in Nat
            /\ Count(Wanted, 1, k) <= Count(Wanted, 1, pos)
        BY <1>2, <4>1, CountLast, CountType, CountGrows
      <4>3. Count(Wanted, 1, k) \in 1 .. Len(listed)
        BY <1>2, <3>6, <4>1, <4>2
      <4> QED BY <3>5, <4>3
    <3>8. ASSUME NEW k \in Between(Wanted, 1, here)
          PROVE  LET x == listed'[Count(Wanted, 1, k)]
                 IN  x.name = entries[k] /\ \A flag \in {"l", "i"} : flag \in x.details <=> Asked(flag)
      <4>1. CASE k = here
        <5>1. listed'[Count(Wanted, 1, k)] = entry
          BY <3>2, <3>5, <3>6, <4>1
        <5>2. entry.name = entries[k] /\ \A flag \in {"l", "i"} : flag \in entry.details <=> Asked(flag)
          BY <1>3, <4>1 DEF entry
        <5> QED BY <5>1, <5>2
      <4>2. CASE k \in Between(Wanted, 1, pos)
        BY <1>1, <3>7, <4>2 DEF ListedRight
      <4> QED BY <2>3, <4>1, <4>2
    <3>9. ListedRight'
      BY <1>1, <1>4, <2>1, <3>2, <3>5, <3>6, <3>8 DEF ListedRight
    <3>10. Ls!TypeOK'
      BY <1>1, <1>6, <2>1, <3>5 DEF Ls!TypeOK
    <3> QED BY <1>1, <1>4, <1>6, <3>9, <3>10 DEF LsInv
  <2> QED BY <1>2, <1>6, <2>4, <2>5 DEF Ls!Readdir, Ls!Entry, Ls!Skip, here
<1> QED BY <1>2, <1>5, <1>6 DEF Ls!Readdir, Ls!Entry, Ls!Skip

(* Every listing is right as far as it goes, whatever the directory and the *)
(* options, and whichever entries go meanwhile.                             *)
LEMMA LsStep == ASSUME Ls!MyLsAssumption, LsInv, [Ls!Next]_lsvars PROVE LsInv'
<1>1. CASE UNCHANGED lsvars
  <2>1. UNCHANGED <<ls, mode, mod, entries, pos, listed>>
    BY <1>1 DEF lsvars
  <2>2. (Ls!TypeOK' <=> Ls!TypeOK) /\ Ls!Flags' = Ls!Flags
    BY <2>1 DEF Ls!TypeOK, Ls!Flags
  <2>3. ListedRight' <=> ListedRight
    BY <2>1 DEF ListedRight, Wanted, Asked
  <2> QED BY <2>1, <2>2, <2>3 DEF LsInv
<1> QED BY <1>1, LsMain, LsOpens, LsReads DEF Ls!Next
=============================================================================
