----------------------------- MODULE Tools_proofs -----------------------------
(* What the steps of the small programs of Tools keep: one invariant per    *)
(* program, for every value of its constants.  Exercises_proofs draws the   *)
(* conclusions.                                                             *)
EXTENDS Tools, SequenceTheorems, TLAPS

-----------------------------------------------------------------------------
(* Sequences                                                                *)

(* The first d of a sequence ...                                            *)
LEMMA PrefixProperties ==
    ASSUME NEW S, NEW s \in Seq(S), NEW d \in 0 .. Len(s)
    PROVE  /\ SubSeq(s, 1, d) \in Seq(S) /\ Len(SubSeq(s, 1, d)) = d
           /\ \A k \in 1 .. d : SubSeq(s, 1, d)[k] = s[k]
<1>0. Len(s) \in Nat /\ d \in Nat
  BY LenProperties
<1>1. \A k \in 1 .. d : s[k] \in S
  BY <1>0, ElementOfSeq
<1>2. /\ SubSeq(s, 1, d) \in Seq(S) /\ Len(SubSeq(s, 1, d)) = IF 1 <= d THEN d - 1 + 1 ELSE 0
      /\ \A k \in 1 .. d - 1 + 1 : SubSeq(s, 1, d)[k] = s[1 + k - 1]
  BY ONLY <1>0, <1>1, SubSeqProperties, 1 \in Int, d \in Int
<1> QED BY <1>0, <1>2

(* ... and what is behind them.                                             *)
LEMMA SuffixProperties ==
    ASSUME NEW S, NEW s \in Seq(S), NEW d \in Nat
    PROVE  LET rest == SubSeq(s, d + 1, Len(s))
           IN  /\ rest \in Seq(S) /\ Len(rest) = IF d < Len(s) THEN Len(s) - d ELSE 0
               /\ \A k \in 1 .. Len(s) - d : rest[k] = s[d + k]
<1>0. Len(s) \in Nat
  BY LenProperties
<1>1. \A k \in d + 1 .. Len(s) : s[k] \in S
  BY <1>0, ElementOfSeq
<1> DEFINE rest == SubSeq(s, d + 1, Len(s))
<1>2. /\ rest \in Seq(S) /\ Len(rest) = IF d + 1 <= Len(s) THEN Len(s) - (d + 1) + 1 ELSE 0
      /\ \A k \in 1 .. Len(s) - (d + 1) + 1 : rest[k] = s[d + 1 + k - 1]
  BY <1>0, <1>1, SubSeqProperties
<1> QED BY <1>0, <1>2

(* s up to place d, behind it what t has there.                             *)
Over(s, t, d) == SubSeq(s, 1, d) \o SubSeq(t, d + 1, Len(t))

LEMMA OverProperties ==
    ASSUME NEW S, NEW s \in Seq(S), NEW t \in Seq(S), NEW d \in 0 .. Len(s)
    PROVE  /\ Over(s, t, d) \in Seq(S)
           /\ Len(Over(s, t, d)) = IF d < Len(t) THEN Len(t) ELSE d
           /\ \A k \in 1 .. Len(Over(s, t, d)) :
                 Over(s, t, d)[k] = IF k <= d THEN s[k] ELSE t[k]
<1> DEFINE a == SubSeq(s, 1, d)
           b == SubSeq(t, d + 1, Len(t))
<1>0. Len(s) \in Nat /\ Len(t) \in Nat /\ d \in Nat
  BY LenProperties
<1>1. a \in Seq(S) /\ Len(a) = d /\ \A k \in 1 .. d : a[k] = s[k]
  BY PrefixProperties
<1>2. /\ b \in Seq(S) /\ Len(b) = (IF d < Len(t) THEN Len(t) - d ELSE 0)
      /\ \A k \in 1 .. Len(t) - d : b[k] = t[d + k]
  BY <1>0, SuffixProperties
<1>3. /\ a \o b \in Seq(S) /\ Len(a \o b) = Len(a) + Len(b)
      /\ \A k \in 1 .. Len(a) + Len(b) : (a \o b)[k] = IF k <= Len(a) THEN a[k] ELSE b[k - Len(a)]
  BY <1>1, <1>2, ConcatProperties
<1>4. Over(s, t, d) = a \o b
  BY DEF Over
<1> HIDE DEF a, b
<1> QED BY <1>0, <1>1, <1>2, <1>3, <1>4

(* A sequence over itself is as it was.                                     *)
LEMMA OverWhole ==
    ASSUME NEW S, NEW s \in Seq(S), NEW d \in 0 .. Len(s)
    PROVE  Over(s, s, d) = s
<1>0. Len(s) \in Nat /\ d \in Nat
  BY LenProperties
<1>1. /\ Over(s, s, d) \in Seq(S) /\ Len(Over(s, s, d)) = IF d < Len(s) THEN Len(s) ELSE d
      /\ \A k \in 1 .. Len(Over(s, s, d)) : Over(s, s, d)[k] = IF k <= d THEN s[k] ELSE s[k]
  BY OverProperties
<1>2. Len(Over(s, s, d)) = Len(s)
  BY <1>0, <1>1
<1> QED BY <1>1, <1>2, SeqEqual

(* b is what s has behind place d.                                          *)
Behind(b, s, d) == d + Len(b) <= Len(s) /\ \A k \in 1 .. Len(b) : b[k] = s[d + k]

(* The next n of s laid over go on where the d before them end.             *)
LEMMA OverNext ==
    ASSUME NEW S, NEW s \in Seq(S), NEW t \in Seq(S), NEW b \in Seq(S),
           NEW d \in 0 .. Len(s), NEW n \in 0 .. Len(b), Behind(b, s, d)
    PROVE  LET f == Over(s, t, d)
           IN  SubSeq(f, 1, d) \o SubSeq(b, 1, n) \o SubSeq(f, d + n + 1, Len(f)) = Over(s, t, d + n)
<1> DEFINE f == Over(s, t, d)
           x == SubSeq(f, 1, d)
           y == SubSeq(b, 1, n)
           z == SubSeq(f, d + n + 1, Len(f))
           g == Over(s, t, d + n)
<1>0. Len(s) \in Nat /\ Len(t) \in Nat /\ Len(b) \in Nat /\ d \in Nat /\ n \in Nat /\ d + n \in 0 .. Len(s)
  BY LenProperties DEF Behind
<1>1. /\ f \in Seq(S) /\ Len(f) = (IF d < Len(t) THEN Len(t) ELSE d)
      /\ \A k \in 1 .. Len(f) : f[k] = IF k <= d THEN s[k] ELSE t[k]
  BY OverProperties
<1>2. /\ g \in Seq(S) /\ Len(g) = (IF d + n < Len(t) THEN Len(t) ELSE d + n)
      /\ \A k \in 1 .. Len(g) : g[k] = IF k <= d + n THEN s[k] ELSE t[k]
  BY <1>0, OverProperties
<1>3. x \in Seq(S) /\ Len(x) = d /\ \A k \in 1 .. d : x[k] = s[k]
  <2>1. d \in 0 .. Len(f)
    BY <1>0, <1>1
  <2>2. x \in Seq(S) /\ Len(x) = d /\ \A k \in 1 .. d : x[k] = f[k]
    BY <1>1, <2>1, PrefixProperties
  <2>3. ASSUME NEW k \in 1 .. d PROVE x[k] = s[k]
    <3>1. k \in 1 .. Len(f) /\ k <= d
      BY <1>0, <2>1, <1>1
    <3> QED BY <1>1, <2>2, <3>1
  <2> QED BY <2>2, <2>3
<1>4. y \in Seq(S) /\ Len(y) = n /\ \A k \in 1 .. n : y[k] = s[d + k]
  <2>1. y \in Seq(S) /\ Len(y) = n /\ \A k \in 1 .. n : y[k] = b[k]
    BY PrefixProperties
  <2>2. ASSUME NEW k \in 1 .. n PROVE y[k] = s[d + k]
    <3>1. k \in 1 .. Len(b)
      BY <1>0
    <3> QED BY <2>1, <3>1 DEF Behind
  <2> QED BY <2>1, <2>2
<1>5. /\ z \in Seq(S) /\ Len(z) = (IF d + n < Len(t) THEN Len(t) - (d + n) ELSE 0)
      /\ \A k \in 1 .. Len(z) : z[k] = t[d + n + k]
  <2>1. /\ z \in Seq(S) /\ Len(z) = (IF d + n < Len(f) THEN Len(f) - (d + n) ELSE 0)
        /\ \A k \in 1 .. Len(f) - (d + n) : z[k] = f[d + n + k]
    <3> DEFINE e == d + n
    <3>1. e \in Nat /\ f \in Seq(S)
      BY <1>0, <1>1
    <3> HIDE DEF e
    <3>2. LET rest == SubSeq(f, e + 1, Len(f))
          IN  /\ rest \in Seq(S) /\ Len(rest) = IF e < Len(f) THEN Len(f) - e ELSE 0
              /\ \A k \in 1 .. Len(f) - e : rest[k] = f[e + k]
      BY ONLY <3>1, SuffixProperties
    <3> QED BY <3>2 DEF e
  <2> HIDE DEF z
  <2>2. Len(z) = IF d + n < Len(t) THEN Len(t) - (d + n) ELSE 0
    BY <1>0, <1>1, <2>1
  <2>3. ASSUME NEW k \in 1 .. Len(z) PROVE z[k] = t[d + n + k]
    <3>1. k \in 1 .. Len(f) - (d + n) /\ d + n + k \in 1 .. Len(f) /\ ~(d + n + k <= d)
      BY <1>0, <1>1, <2>1
    <3> QED BY <1>1, <2>1, <3>1
  <2> QED BY <2>1, <2>2, <2>3
<1> HIDE DEF f, x, y, z, g
<1>6. /\ x \o y \in Seq(S) /\ Len(x \o y) = Len(x) + Len(y)
      /\ \A k \in 1 .. Len(x) + Len(y) : (x \o y)[k] = IF k <= Len(x) THEN x[k] ELSE y[k - Len(x)]
  <2>1. x \in Seq(S) /\ y \in Seq(S)
    BY <1>3, <1>4
  <2> QED BY ONLY <2>1, ConcatProperties
<1>7. Len(x \o y) = d + n /\ \A k \in 1 .. d + n : (x \o y)[k] = s[k]
  <2>1. Len(x \o y) = d + n
    BY <1>3, <1>4, <1>6
  <2>2. ASSUME NEW k \in 1 .. d + n PROVE (x \o y)[k] = s[k]
    <3>1. CASE k <= d
      BY <1>0, <1>3, <1>4, <1>6, <3>1
    <3>2. CASE ~(k <= d)
      <4>1. k - d \in 1 .. n /\ d + (k - d) = k
        BY <1>0, <3>2
      <4>2. y[k - d] = s[k]
        BY <1>4, <4>1
      <4> QED BY <1>0, <1>3, <1>4, <1>6, <3>2, <4>2
    <3> QED BY <3>1, <3>2
  <2> QED BY <2>1, <2>2
<1> DEFINE h == x \o y \o z
           v == x \o y
<1>8. /\ h \in Seq(S) /\ Len(h) = Len(v) + Len(z)
      /\ \A k \in 1 .. Len(v) + Len(z) : h[k] = IF k <= Len(v) THEN v[k] ELSE z[k - Len(v)]
  <2>1. v \in Seq(S) /\ z \in Seq(S) /\ h = v \o z
    BY <1>5, <1>6
  <2> HIDE DEF h, v
  <2> QED BY ONLY <2>1, ConcatProperties
<1>9. v \in Seq(S) /\ Len(v) = d + n /\ \A k \in 1 .. d + n : v[k] = s[k]
  BY <1>6, <1>7
<1> HIDE DEF h, v
<1>10. Len(h) = Len(g)
  BY <1>0, <1>2, <1>5, <1>8, <1>9
<1>11. ASSUME NEW k \in 1 .. Len(h) PROVE h[k] = g[k]
  <2>0. k \in 1 .. Len(g) /\ k \in 1 .. Len(v) + Len(z) /\ k \in Nat /\ Len(z) \in Nat
    BY <1>0, <1>2, <1>5, <1>8, <1>9, <1>10
  <2>1. CASE k <= d + n
    <3>1. k \in 1 .. d + n
      BY <1>0, <2>0, <2>1
    <3> QED BY <1>2, <1>8, <1>9, <2>0, <2>1, <3>1
  <2>2. CASE ~(k <= d + n)
    <3>1. k - (d + n) \in 1 .. Len(z) /\ d + n + (k - (d + n)) = k
      <4>1. Len(v) = d + n /\ d + n \in Nat /\ k \in 1 .. Len(v) + Len(z) /\ k \in Nat /\ Len(z) \in Nat
        BY <1>0, <1>9, <2>0
      <4> QED BY ONLY <1>0, <4>1, <2>2
    <3>2. z[k - (d + n)] = t[k]
      BY <1>5, <3>1
    <3> QED BY <1>2, <1>8, <1>9, <2>0, <2>2, <3>2
  <2> QED BY <2>1, <2>2
<1>12. h = g
  BY <1>2, <1>8, <1>10, <1>11, SeqEqual
<1> QED BY <1>12 DEF h, f, x, y, z, g

(* SeqOf is the sequences up to a length; each instance has one of its own. *)
LEMMA BoundedSequences ==
    ASSUME NEW S, NEW n \in Nat, NEW s
    PROVE  s \in UNION {[1 .. m -> S] : m \in 0 .. n} <=> s \in Seq(S) /\ Len(s) <= n
<1>1. ASSUME NEW m \in 0 .. n, s \in [1 .. m -> S] PROVE s \in Seq(S) /\ Len(s) <= n
  <2>1. m \in Nat
    OBVIOUS
  <2>2. s \in Seq(S)
    BY <1>1, <2>1, SeqDef
  <2>3. DOMAIN s = 1 .. Len(s) /\ Len(s) \in Nat
    BY <2>2, LenProperties
  <2>4. 1 .. m = 1 .. Len(s)
    BY <1>1, <2>3
  <2>5. m = Len(s)
    <3> DEFINE l == Len(s)
    <3>0. l \in Nat /\ 1 .. m = 1 .. l
      BY <2>3, <2>4
    <3> HIDE DEF l
    <3>1. CASE m < l
      <4>1. l \in 1 .. l /\ l \notin 1 .. m
        BY ONLY <2>1, <3>0, <3>1
      <4> QED BY <3>0, <4>1
    <3>2. CASE l < m
      <4>1. m \in 1 .. m /\ m \notin 1 .. l
        BY ONLY <2>1, <3>0, <3>2
      <4> QED BY <3>0, <4>1
    <3> QED BY <2>1, <3>0, <3>1, <3>2 DEF l
  <2> QED BY <2>1, <2>2, <2>5
<1>2. ASSUME s \in Seq(S), Len(s) <= n PROVE \E m \in 0 .. n : s \in [1 .. m -> S]
  BY <1>2, LenProperties
<1> QED BY <1>1, <1>2

-----------------------------------------------------------------------------
(* mycp.c                                                                   *)

(* The buffer holds what the source has behind what is copied.              *)
BufferIsNext == Behind(buffer, old["source"], done)

CpInv ==
    /\ Cp!TypeOK /\ Cp!CopiesOver
    /\ done <= Len(old["source"])
    /\ cp = "write" => BufferIsNext

LEMMA CpSeqOf ==
    ASSUME NEW S, NEW n \in Nat, NEW s
    PROVE  s \in Cp!SeqOf(S, n) <=> s \in Seq(S) /\ Len(s) <= n
BY BoundedSequences DEF Cp!SeqOf

LEMMA CpEmpty == ASSUME NEW S, NEW n \in Nat PROVE << >> \in Cp!SeqOf(S, n)
<1> DEFINE e == << >>
<1>1. e \in Seq(S) /\ Len(e) = 0
  BY EmptySeq
<1> HIDE DEF e
<1>2. Len(e) <= n
  BY <1>1
<1>3. e \in Cp!SeqOf(S, n)
  BY <1>1, <1>2, CpSeqOf
<1> QED BY <1>3 DEF e

LEMMA CpTypes ==
    ASSUME Cp!MyCpAssumption, CpInv
    PROVE  /\ \A f \in {"source", "dest"} :
                 /\ disk[f] \in Seq(Bytes) /\ Len(disk[f]) \in 0 .. MaxBytes
                 /\ old[f] \in Seq(Bytes) /\ Len(old[f]) \in 0 .. MaxBytes
           /\ buffer \in Seq(Bytes) /\ Len(buffer) \in Nat /\ done \in Nat
           /\ Cp!Dest \in {"source", "dest"}
           /\ disk["source"] = old["source"]
           /\ disk[Cp!Dest] = Over(old["source"], old[Cp!Dest], done)
<1>1. MaxBytes \in Nat /\ BUFFER_LEN \in Nat
  BY DEF Cp!MyCpAssumption
<1>2. \A f \in {"source", "dest"} : disk[f] \in Cp!SeqOf(Bytes, MaxBytes) /\ old[f] \in Cp!SeqOf(Bytes, MaxBytes)
  BY DEF CpInv, Cp!TypeOK
<1>3. \A f \in {"source", "dest"} :
         /\ disk[f] \in Seq(Bytes) /\ Len(disk[f]) <= MaxBytes
         /\ old[f] \in Seq(Bytes) /\ Len(old[f]) <= MaxBytes
  BY <1>1, <1>2, CpSeqOf
<1>4. buffer \in Seq(Bytes)
  BY <1>1, CpSeqOf DEF CpInv, Cp!TypeOK
<1> QED BY <1>1, <1>3, <1>4, LenProperties DEF CpInv, Cp!TypeOK, Cp!Dest, Cp!CopiesOver, Over

LEMMA CpInit == ASSUME Cp!MyCpAssumption, Cp!Init PROVE CpInv
<1>1. /\ MaxBytes \in Nat /\ BUFFER_LEN \in Nat
      /\ disk["source"] \in Seq(Bytes) /\ disk["dest"] \in Seq(Bytes)
  BY CpSeqOf DEF Cp!MyCpAssumption, Cp!Init
<1>2. Cp!Dest \in {"source", "dest"} /\ disk[Cp!Dest] \in Seq(Bytes)
  BY <1>1 DEF Cp!Dest
<1>3. Over(disk["source"], disk[Cp!Dest], 0) = disk[Cp!Dest]
  <2>1. SubSeq(disk["source"], 1, 0) = << >> /\ SubSeq(disk[Cp!Dest], 1, 0) = << >>
    BY SubSeqEmpty
  <2>2. Over(disk[Cp!Dest], disk[Cp!Dest], 0) = disk[Cp!Dest]
    BY <1>2, LenProperties, OverWhole
  <2> QED BY <1>2, <2>1, <2>2 DEF Over
<1>4. Cp!CopiesOver
  BY <1>3 DEF Cp!Init, Cp!CopiesOver, Over
<1>5. << >> \in Cp!SeqOf(Bytes, BUFFER_LEN)
  BY <1>1, CpEmpty
<1>6. Cp!TypeOK
  BY <1>1, <1>5, LenProperties DEF Cp!Init, Cp!TypeOK
<1> QED BY <1>1, <1>4, <1>6, LenProperties DEF CpInv, Cp!Init

LEMMA CpOpen == ASSUME Cp!MyCpAssumption, CpInv, Cp!Open PROVE CpInv'
BY DEF CpInv, Cp!TypeOK, Cp!CopiesOver, Cp!Dest, Cp!Open, BufferIsNext

LEMMA CpRead == ASSUME Cp!MyCpAssumption, CpInv, Cp!Read PROVE CpInv'
<1> DEFINE src == old["source"]
           rest == SubSeq(disk["source"], done + 1, Len(disk["source"]))
           n == IF BUFFER_LEN < Len(rest) THEN BUFFER_LEN ELSE Len(rest)
<1>1. /\ src \in Seq(Bytes) /\ Len(src) \in Nat /\ done \in Nat /\ disk["source"] = src
      /\ BUFFER_LEN \in Nat /\ done <= Len(src)
  BY CpTypes DEF CpInv, Cp!MyCpAssumption
<1>2. UNCHANGED <<same, disk, old, done>>
  BY DEF Cp!Read
<1>3. ASSUME cp' = "end", UNCHANGED buffer PROVE CpInv'
  BY <1>2, <1>3 DEF CpInv, Cp!TypeOK, Cp!CopiesOver, Cp!Dest
<1>4. ASSUME cp' = "write", buffer' = SubSeq(rest, 1, n) PROVE CpInv'
  <2>1. /\ rest \in Seq(Bytes) /\ Len(rest) = IF done < Len(src) THEN Len(src) - done ELSE 0
        /\ \A k \in 1 .. Len(src) - done : rest[k] = src[done + k]
    BY <1>1, SuffixProperties
  <2>2. Len(rest) = Len(src) - done /\ n \in 0 .. Len(rest) /\ n <= BUFFER_LEN
    BY <1>1, <2>1
  <2>3. /\ buffer' \in Seq(Bytes) /\ Len(buffer') = n
        /\ \A k \in 1 .. n : buffer'[k] = rest[k]
    <3> HIDE DEF rest, n
    <3> QED BY <1>4, <2>1, <2>2, PrefixProperties
  <2> HIDE DEF rest, n
  <2>4. buffer' \in Cp!SeqOf(Bytes, BUFFER_LEN)
    BY <1>1, <2>2, <2>3, CpSeqOf
  <2>5. BufferIsNext'
    <3>1. ASSUME NEW k \in 1 .. Len(buffer') PROVE buffer'[k] = src[done + k]
      <4>1. k \in 1 .. n /\ k \in 1 .. Len(src) - done
        BY <1>1, <2>2, <2>3
      <4> QED BY <2>1, <2>3, <4>1
    <3>2. done + Len(buffer') <= Len(src)
      BY <1>1, <2>2, <2>3
    <3> QED BY <1>2, <3>1, <3>2 DEF BufferIsNext, Behind
  <2> QED BY <1>2, <1>4, <2>4, <2>5 DEF CpInv, Cp!TypeOK, Cp!CopiesOver, Cp!Dest
<1> QED BY <1>3, <1>4 DEF Cp!Read

LEMMA CpWrite == ASSUME Cp!MyCpAssumption, CpInv, Cp!Write PROVE CpInv'
<1> DEFINE src == old["source"]
           D == Cp!Dest
<1>1. PICK n \in 0 .. Len(buffer) :
         /\ disk' = [disk EXCEPT ![D] = Cp!Overlay(@, n)]
         /\ done' = done + n /\ cp' = IF n = Len(buffer) THEN "read" ELSE "end"
  BY DEF Cp!Write
<1>2. buffer' = << >> /\ UNCHANGED <<same, old>> /\ D' = D
  BY DEF Cp!Write, Cp!Dest
<1>3. /\ \A f \in {"source", "dest"} :
            /\ disk[f] \in Seq(Bytes) /\ Len(disk[f]) \in 0 .. MaxBytes
            /\ old[f] \in Seq(Bytes) /\ Len(old[f]) \in 0 .. MaxBytes
      /\ buffer \in Seq(Bytes) /\ Len(buffer) \in Nat /\ done \in Nat
      /\ D \in {"source", "dest"}
      /\ disk["source"] = src /\ disk[D] = Over(src, old[D], done)
  BY CpTypes
<1>4. /\ disk \in [{"source", "dest"} -> Cp!SeqOf(Bytes, MaxBytes)]
      /\ old \in [{"source", "dest"} -> Cp!SeqOf(Bytes, MaxBytes)]
      /\ same \in BOOLEAN /\ BufferIsNext /\ BUFFER_LEN \in Nat /\ MaxBytes \in Nat
      /\ D = IF same THEN "source" ELSE "dest"
  BY DEF CpInv, Cp!TypeOK, Cp!Write, Cp!Dest, Cp!MyCpAssumption
<1>5. src \in Seq(Bytes) /\ old[D] \in Seq(Bytes) /\ Len(src) \in 0 .. MaxBytes /\ Len(old[D]) \in 0 .. MaxBytes
  BY <1>3
<1>6. done + n \in 0 .. Len(src) /\ done \in 0 .. Len(src)
  BY <1>3, <1>4, <1>5 DEF BufferIsNext, Behind
<1>7. disk'[D] = Over(src, old[D], done + n)
  <2>1. disk'[D] = Cp!Overlay(disk[D], n)
    BY <1>1, <1>3, <1>4
  <2>2. Behind(buffer, src, done)
    BY <1>4 DEF BufferIsNext
  <2>3. disk[D] = Over(src, old[D], done)
    BY <1>3
  <2> DEFINE f == disk[D]
             t == old[D]
  <2>4. /\ src \in Seq(Bytes) /\ t \in Seq(Bytes) /\ buffer \in Seq(Bytes) /\ done \in 0 .. Len(src)
        /\ Behind(buffer, src, done)
        /\ f = Over(src, t, done) /\ n \in 0 .. Len(buffer)
    BY <1>3, <1>5, <1>6, <2>2, <2>3
  <2> HIDE DEF src, f, t
  <2>5. SubSeq(f, 1, done) \o SubSeq(buffer, 1, n) \o SubSeq(f, done + n + 1, Len(f)) = Over(src, t, done + n)
    <3>1. LET g == Over(src, t, done)
          IN  SubSeq(g, 1, done) \o SubSeq(buffer, 1, n) \o SubSeq(g, done + n + 1, Len(g)) = Over(src, t, done + n)
      BY ONLY <2>4, OverNext
    <3> QED BY ONLY <2>4, <3>1
  <2> QED BY <2>1, <2>5 DEF Cp!Overlay, f, t
<1>8. disk'["source"] = src
  <2>1. CASE same
    <3>1. D = "source"
      BY <1>4, <2>1
    <3>2. Over(src, src, done + n) = src
      BY <1>5, <1>6, OverWhole
    <3> QED BY <1>7, <3>1, <3>2
  <2>2. CASE ~same
    BY <1>1, <1>3, <1>4, <2>2
  <2> QED BY <2>1, <2>2
<1>9. disk'[D] \in Seq(Bytes) /\ Len(disk'[D]) \in 0 .. MaxBytes
  <2> DEFINE t == old[D]
             e == done + n
  <2>0. src \in Seq(Bytes) /\ t \in Seq(Bytes) /\ e \in 0 .. Len(src)
    BY <1>5, <1>6
  <2> HIDE DEF src, t, e
  <2>1. /\ Over(src, t, e) \in Seq(Bytes)
        /\ Len(Over(src, t, e)) = IF e < Len(t) THEN Len(t) ELSE e
    BY ONLY <2>0, OverProperties
  <2> USE DEF src, t, e
  <2> QED BY <1>4, <1>5, <1>6, <1>7, <2>1
<1>10. disk' \in [{"source", "dest"} -> Cp!SeqOf(Bytes, MaxBytes)]
  <2>1. disk'[D] \in Cp!SeqOf(Bytes, MaxBytes)
    BY <1>4, <1>9, CpSeqOf
  <2>2. \A f \in {"source", "dest"} \ {D} : disk'[f] = disk[f]
    BY <1>1, <1>4
  <2>3. \A f \in {"source", "dest"} : disk'[f] \in Cp!SeqOf(Bytes, MaxBytes)
    BY <1>4, <2>1, <2>2
  <2> QED BY <1>1, <1>4, <2>3
<1>11. buffer' \in Cp!SeqOf(Bytes, BUFFER_LEN)
  BY <1>2, <1>4, CpEmpty
<1>12. Cp!TypeOK'
  <2>1. done' \in 0 .. Len(disk'["source"])
    BY <1>1, <1>6, <1>8
  <2>2. cp' \in {"open", "read", "write", "end"}
    BY <1>1
  <2> QED BY <1>2, <1>4, <1>10, <1>11, <2>1, <2>2 DEF Cp!TypeOK
<1>13. Cp!CopiesOver'
  <2>1. D' = D /\ old' = old /\ done' = done + n
    BY <1>1, <1>2
  <2>2. disk'[D'] = Over(src', old'[D'], done')
    BY <1>7, <2>1
  <2>3. disk'["source"] = old'["source"]
    BY <1>8, <2>1
  <2> QED BY <2>2, <2>3 DEF Cp!CopiesOver, Over
<1>14. done' <= Len(src') /\ cp' # "write"
  BY <1>1, <1>2, <1>6
<1> QED BY <1>12, <1>13, <1>14 DEF CpInv

LEMMA CpStep == ASSUME Cp!MyCpAssumption, CpInv, [Cp!Next]_cpvars PROVE CpInv'
<1>1. CASE UNCHANGED cpvars
  BY <1>1 DEF CpInv, cpvars, Cp!TypeOK, Cp!CopiesOver, Cp!Dest, BufferIsNext, Behind
<1> QED BY <1>1, CpOpen, CpRead, CpWrite DEF Cp!Next

-----------------------------------------------------------------------------
(* 8.4.c and 8.5.c                                                          *)

Messages == {"all"} \cup Fork!Processes
Other(p) == IF p = "parent" THEN "child" ELSE "parent"

(* What p has handed to write(2), in one piece ...                          *)
Written(p) == IF stdio THEN step[p] \in {"wait", "end"} ELSE step[p] \in {"close", "wait", "end"}
Chunk(p) == IF stdio THEN <<"all", p>> ELSE <<p>>

(* ... and what is in the file before that.                                 *)
Shared0 == IF stdio THEN << >> ELSE <<"all">>

(* The child is none until the fork, and the parent outlives it.            *)
ForkSteps ==
    /\ step["child"] = "none" => step["parent"] \in {"begin", "fork", "end"}
    /\ step["child"] \in {"none", "emit", "close", "end"}
    /\ step["child"] # "none" => step["parent"] \in {"emit", "close", "wait", "end"}
    /\ step["child"] = "none" /\ step["parent"] = "end" => failed
    /\ step["parent"] = "end" /\ ~failed => step["child"] = "end"

ForkStreams == \A p \in Fork!Processes :
    stream[p] = IF ~stdio \/ step[p] \in {"none", "begin", "wait", "end"} THEN << >>
                ELSE IF step[p] = "close" THEN <<"all", p>> ELSE <<"all">>

ForkFileHas == ~failed =>
    /\ step["parent"] = "begin" => testfile = << >>
    /\ step["parent"] = "fork" => testfile = Shared0
    /\ step["child"] # "none" =>
          \/ ~Written("parent") /\ ~Written("child") /\ testfile = Shared0
          \/ \E p \in Fork!Processes :
                /\ Written(p) /\ ~Written(Other(p))
                /\ testfile = Shared0 \o Chunk(p)
          \/ /\ Written("parent") /\ Written("child")
             /\ \E p \in Fork!Processes : testfile = Shared0 \o Chunk(p) \o Chunk(Other(p))

ForkInv ==
    /\ Fork!TypeOK /\ offset = Len(testfile)
    /\ ForkSteps /\ ForkStreams /\ ForkFileHas

LEMMA ForkInit == ASSUME Fork!Init PROVE ForkInv
<1>1. << >> \in Seq(Messages) /\ Len(<< >>) = 0
  BY EmptySeq
<1>2. step["parent"] = "begin" /\ step["child"] = "none" /\ stream["parent"] = << >> /\ stream["child"] = << >>
  BY DEF Fork!Init, Fork!Processes
<1>3. Fork!TypeOK
  <2>1. step \in [Fork!Processes -> {"none", "begin", "fork", "emit", "close", "wait", "end"}]
    BY DEF Fork!Init, Fork!Processes
  <2>2. stream \in [Fork!Processes -> Seq(Messages)]
    BY <1>1 DEF Fork!Init
  <2>3. /\ testfile \in Seq(Messages) /\ offset \in 0 .. Len(testfile)
        /\ stdio \in BOOLEAN /\ failed \in BOOLEAN
    <3>1. testfile = << >> /\ offset = 0 /\ stdio \in BOOLEAN /\ failed \in BOOLEAN
      BY DEF Fork!Init
    <3>2. testfile \in Seq(Messages) /\ Len(testfile) = 0
      BY ONLY <1>1, <3>1
    <3> QED BY <3>1, <3>2
  <2> QED BY <2>1, <2>2, <2>3 DEF Fork!TypeOK, Messages
<1> QED BY <1>1, <1>2, <1>3 DEF Fork!Init, ForkInv, ForkSteps, ForkStreams, ForkFileHas, Fork!Processes

(* With the offset at the end of the file, a write adds to it.              *)
LEMMA WriteAppends ==
    ASSUME NEW data \in Seq(Messages), testfile \in Seq(Messages), offset = Len(testfile), Fork!WriteOut(data)
    PROVE  /\ testfile' = testfile \o data /\ testfile' \in Seq(Messages)
           /\ offset' = Len(testfile') /\ failed' = failed
<1> DEFINE l == Len(testfile)
           d == Len(data)
<1>1. l \in Nat /\ d \in Nat
  BY LenProperties
<1>2. SubSeq(testfile, 1, offset) = testfile
  BY SubSeqFull
<1>3. SubSeq(testfile, offset + d + 1, l) = << >>
  <2> DEFINE m == offset + d + 1
  <2>1. m \in Int /\ l \in Int /\ m > l
    BY <1>1
  <2> HIDE DEF m, l
  <2> QED BY <2>1, SubSeqEmpty DEF m
<1>4. testfile \o data \in Seq(Messages) /\ Len(testfile \o data) = l + d
  BY ConcatProperties
<1>5. testfile \o data \o << >> = testfile \o data
  BY <1>4, ConcatEmptySeq
<1> QED BY <1>2, <1>3, <1>4, <1>5 DEF Fork!WriteOut

(* What the parts of the invariant say of one process and of the other.     *)
LEMMA ForkTypes ==
    ASSUME ForkInv
    PROVE  /\ step \in [Fork!Processes -> {"none", "begin", "fork", "emit", "close", "wait", "end"}]
           /\ stream \in [Fork!Processes -> Seq(Messages)]
           /\ testfile \in Seq(Messages) /\ offset = Len(testfile) /\ Len(testfile) \in Nat
           /\ stdio \in BOOLEAN /\ failed \in BOOLEAN
BY LenProperties DEF ForkInv, Fork!TypeOK, Messages

LEMMA ForkTypesNext ==
    ASSUME step' \in [Fork!Processes -> {"none", "begin", "fork", "emit", "close", "wait", "end"}],
           stream' \in [Fork!Processes -> Seq(Messages)],
           testfile' \in Seq(Messages), offset' = Len(testfile'),
           stdio' \in BOOLEAN, failed' \in BOOLEAN
    PROVE  Fork!TypeOK'
<1>1. Len(testfile') \in Nat
  BY LenProperties
<1>2. offset' \in 0 .. Len(testfile')
  BY <1>1
<1> QED BY <1>2 DEF Fork!TypeOK, Messages

LEMMA ChunkTypes ==
    ASSUME NEW p \in Fork!Processes
    PROVE  /\ <<p>> \in Seq(Messages) /\ <<"all", p>> \in Seq(Messages) /\ <<"all">> \in Seq(Messages)
           /\ << >> \in Seq(Messages)
           /\ << >> \o <<"all">> = <<"all">> /\ Append(<< >>, "all") = <<"all">>
           /\ Append(<<"all">>, p) = <<"all", p>>
<1>1. "all" \in Messages /\ p \in Messages
  BY DEF Messages
<1>2. /\ <<p>> \in Seq(Messages) /\ <<"all", p>> \in Seq(Messages) /\ <<"all">> \in Seq(Messages)
      /\ << >> \in Seq(Messages)
  BY <1>1
<1>3. << >> \o <<"all">> = <<"all">>
  BY <1>2, ConcatEmptySeq
<1>4. Append(<< >>, "all") = <<"all">>
  OBVIOUS
<1>5. Append(<<"all">>, p) = <<"all", p>>
  <2> DEFINE s == <<"all">>
             t == <<"all", p>>
  <2>1. s \in Seq(Messages) /\ Len(s) = 1 /\ s[1] = "all" /\ t \in Seq(Messages) /\ Len(t) = 2
        /\ t[1] = "all" /\ t[2] = p
    BY <1>2
  <2> HIDE DEF s, t
  <2>2. Append(s, p) \in Seq(Messages) /\ Len(Append(s, p)) = 2 /\ Append(s, p)[1] = "all" /\ Append(s, p)[2] = p
    <3>1. p \in Messages
      BY <1>1
    <3>2. /\ Append(s, p) \in Seq(Messages) /\ Len(Append(s, p)) = Len(s) + 1
          /\ \A k \in 1 .. Len(s) : Append(s, p)[k] = s[k]
          /\ Append(s, p)[Len(s) + 1] = p
      BY ONLY <2>1, <3>1, AppendProperties
    <3> QED BY <2>1, <3>2
  <2>3. Append(s, p) = t
    <3>1. \A k \in 1 .. 2 : Append(s, p)[k] = t[k]
      BY <2>1, <2>2
    <3> QED BY <2>1, <2>2, <3>1, SeqEqual
  <2> QED BY <2>3 DEF s, t
<1> QED BY <1>2, <1>3, <1>4, <1>5

(* A step of one process leaves the other where it is.                      *)
LEMMA ForkGoto ==
    ASSUME ForkInv, NEW p \in Fork!Processes, NEW next, Fork!Goto(p, next),
           next \in {"none", "begin", "fork", "emit", "close", "wait", "end"}
    PROVE  /\ step' \in [Fork!Processes -> {"none", "begin", "fork", "emit", "close", "wait", "end"}]
           /\ step'[p] = next
           /\ \A o \in Fork!Processes \ {p} : step'[o] = step[o]
BY ForkTypes DEF Fork!Goto

LEMMA ForkBegins ==
    ASSUME ForkInv, UNCHANGED stdio, NEW p \in Fork!Processes, step[p] = "begin",
           Fork!Emit(p, Fork!Message(p), "fork")
    PROVE  ForkInv'
<1>1. p = "parent" /\ step["child"] = "none" /\ Fork!Message(p) = "all"
  BY DEF ForkInv, ForkSteps, Fork!Processes, Fork!Message
<1>2. stream["parent"] = << >> /\ stream["child"] = << >> /\ (~failed => testfile = << >>)
  BY <1>1 DEF ForkInv, ForkStreams, ForkFileHas, Fork!Processes
<1>3. ASSUME NEW next \in {"fork", "end"}, Fork!Goto("parent", next)
      PROVE  /\ step' \in [Fork!Processes -> {"none", "begin", "fork", "emit", "close", "wait", "end"}]
             /\ step'["parent"] = next /\ step'["child"] = "none"
  BY <1>1, <1>3, ForkGoto DEF Fork!Processes
<1>4. CASE stdio
  <2>1. Fork!Goto("parent", "fork") /\ UNCHANGED <<testfile, offset, failed>>
    BY <1>1, <1>4 DEF Fork!Emit
  <2>2. /\ stream' \in [Fork!Processes -> Seq(Messages)]
        /\ stream'["parent"] = <<"all">> /\ stream'["child"] = << >>
    <3>1. stream' = [stream EXCEPT !["parent"] = Append(stream["parent"], "all")]
      BY <1>1, <1>4 DEF Fork!Emit
    <3>2. stream' = [stream EXCEPT !["parent"] = <<"all">>] /\ <<"all">> \in Seq(Messages)
      BY <1>1, <1>2, <3>1, ChunkTypes
    <3> QED BY <1>1, <1>2, <3>2, ForkTypes DEF Fork!Processes
  <2>3. Fork!TypeOK'
    BY <1>3, <2>1, <2>2, ForkTypes, ForkTypesNext
  <2>4. ForkSteps' /\ ForkStreams'
    BY <1>3, <1>4, <2>1, <2>2 DEF ForkSteps, ForkStreams, Fork!Processes
  <2>5. ForkFileHas'
    BY <1>2, <1>3, <1>4, <2>1 DEF ForkFileHas, Shared0
  <2> QED BY <2>1, <2>3, <2>4, <2>5, ForkTypes DEF ForkInv
<1>5. CASE ~stdio
  <2>1. UNCHANGED stream
    BY <1>5 DEF Fork!Emit
  <2>2. CASE Fork!WriteOut(<<"all">>) /\ Fork!Goto("parent", "fork")
    <3>1. /\ testfile' = testfile \o <<"all">> /\ testfile' \in Seq(Messages)
          /\ offset' = Len(testfile') /\ failed' = failed
      BY <2>2, ForkTypes, ChunkTypes, WriteAppends
    <3>2. Fork!TypeOK'
      BY <1>3, <2>1, <2>2, <3>1, ForkTypes, ForkTypesNext
    <3>3. ForkSteps' /\ ForkStreams'
      BY <1>2, <1>3, <1>5, <2>1, <2>2 DEF ForkSteps, ForkStreams, Fork!Processes
    <3>4. ForkFileHas'
      <4>1. ~failed' => testfile' = <<"all">>
        BY <1>1, <1>2, <3>1, ChunkTypes
      <4> QED BY <1>3, <1>5, <2>2, <4>1 DEF ForkFileHas, Shared0
    <3> QED BY <3>1, <3>2, <3>3, <3>4 DEF ForkInv
  <2>3. CASE Fork!WriteFails /\ Fork!Goto("parent", "end")
    <3>1. failed' = TRUE /\ UNCHANGED <<testfile, offset>>
      BY <2>3 DEF Fork!WriteFails
    <3>2. Fork!TypeOK'
      BY <1>3, <2>1, <2>3, <3>1, ForkTypes, ForkTypesNext
    <3>3. ForkSteps' /\ ForkStreams'
      BY <1>2, <1>3, <1>5, <2>1, <2>3, <3>1 DEF ForkSteps, ForkStreams, Fork!Processes
    <3> QED BY <3>1, <3>2, <3>3, ForkTypes DEF ForkInv, ForkFileHas
  <2> QED BY <1>1, <1>5, <2>2, <2>3 DEF Fork!Emit
<1> QED BY <1>4, <1>5, ForkTypes

LEMMA ForkForks ==
    ASSUME ForkInv, UNCHANGED stdio, NEW p \in Fork!Processes, step[p] = "fork", Fork!fork
    PROVE  ForkInv'
<1>1. p = "parent" /\ step["parent"] = "fork" /\ step["child"] = "none"
  BY DEF ForkInv, ForkSteps, Fork!Processes
<1>2. /\ stream["parent"] = (IF stdio THEN <<"all">> ELSE << >>) /\ stream["child"] = << >>
      /\ ~failed => testfile = Shared0
  BY <1>1 DEF ForkInv, ForkStreams, ForkFileHas, Fork!Processes
<1>3. CASE /\ step' = [q \in Fork!Processes |-> "emit"]
           /\ stream' = [stream EXCEPT !["child"] = stream["parent"]]
           /\ UNCHANGED <<testfile, offset, failed>>
  <2>1. /\ step'["parent"] = "emit" /\ step'["child"] = "emit"
        /\ step' \in [Fork!Processes -> {"none", "begin", "fork", "emit", "close", "wait", "end"}]
    BY <1>3 DEF Fork!Processes
  <2>2. /\ stream' \in [Fork!Processes -> Seq(Messages)]
        /\ stream'["parent"] = stream["parent"] /\ stream'["child"] = stream["parent"]
    BY <1>3, ForkTypes DEF Fork!Processes
  <2>3. Fork!TypeOK'
    BY <1>3, <2>1, <2>2, ForkTypes, ForkTypesNext
  <2>4. ForkSteps'
    BY <2>1 DEF ForkSteps
  <2>5. ForkStreams'
    BY <1>2, <2>1, <2>2, ForkTypes DEF ForkStreams, Fork!Processes
  <2>6. ForkFileHas'
    BY <1>2, <1>3, <2>1 DEF ForkFileHas, Written, Shared0
  <2> QED BY <1>3, <2>3, <2>4, <2>5, <2>6, ForkTypes DEF ForkInv
<1>4. CASE /\ Fork!Goto("parent", "end") /\ failed' = TRUE
           /\ testfile' = testfile \o stream["parent"] /\ offset' = Len(testfile')
           /\ stream' = [stream EXCEPT !["parent"] = << >>]
  <2>1. /\ step'["parent"] = "end" /\ step'["child"] = "none"
        /\ step' \in [Fork!Processes -> {"none", "begin", "fork", "emit", "close", "wait", "end"}]
    BY <1>1, <1>4, ForkGoto DEF Fork!Processes
  <2>2. /\ stream' \in [Fork!Processes -> Seq(Messages)]
        /\ stream'["parent"] = << >> /\ stream'["child"] = << >>
    BY <1>1, <1>2, <1>4, ForkTypes, ChunkTypes DEF Fork!Processes
  <2>3. testfile' \in Seq(Messages)
    <3>1. stream["parent"] \in Seq(Messages)
      BY ForkTypes DEF Fork!Processes
    <3> QED BY <1>4, <3>1, ForkTypes, ConcatProperties
  <2>4. Fork!TypeOK'
    BY <1>4, <2>1, <2>2, <2>3, ForkTypes, ForkTypesNext
  <2> QED BY <1>4, <2>1, <2>2, <2>4 DEF ForkInv, ForkSteps, ForkStreams, ForkFileHas, Fork!Processes
<1> QED BY <1>3, <1>4 DEF Fork!fork

(* After the fork, a step of p before its end.                              *)
ForkMoves(p, next) ==
    /\ step[p] \in {"emit", "close"} /\ UNCHANGED stdio /\ Fork!Goto(p, next)
    /\ \/ step[p] = "emit" /\ next = "close"
       \/ step[p] = "close" /\ next = IF p = "parent" THEN "wait" ELSE "end"
       \/ next = "end" /\ failed'

LEMMA ForkMoved ==
    ASSUME ForkInv, NEW p \in Fork!Processes, NEW next, ForkMoves(p, next), failed => failed'
    PROVE  /\ Other(p) \in Fork!Processes /\ Other(p) # p /\ \A q \in Fork!Processes : q = p \/ q = Other(p)
           /\ Other(Other(p)) = p
           /\ step' \in [Fork!Processes -> {"none", "begin", "fork", "emit", "close", "wait", "end"}]
           /\ step'[p] = next /\ step'[Other(p)] = step[Other(p)]
           /\ step["child"] # "none" /\ step'["child"] # "none" /\ step'["parent"] \notin {"begin", "fork"}
           /\ Written(Other(p))' = Written(Other(p))
           /\ ForkSteps'
<1>1. /\ Other(p) \in Fork!Processes /\ Other(p) # p /\ Other(Other(p)) = p
      /\ \A q \in Fork!Processes : q = p \/ q = Other(p)
  BY DEF Other, Fork!Processes
<1>2. next \in {"close", "wait", "end"}
  BY DEF ForkMoves
<1>3. /\ step' \in [Fork!Processes -> {"none", "begin", "fork", "emit", "close", "wait", "end"}]
      /\ step'[p] = next /\ step'[Other(p)] = step[Other(p)]
  BY <1>1, <1>2, ForkGoto DEF ForkMoves
<1>4. step["child"] # "none"
  BY DEF ForkInv, ForkSteps, ForkMoves, Fork!Processes
<1>5. CASE p = "parent"
  <2>1. step'["parent"] = next /\ step'["child"] = step["child"] /\ step["parent"] \in {"emit", "close"}
    BY <1>3, <1>5 DEF Other, ForkMoves
  <2>2. next # "end" \/ failed'
    BY <1>5 DEF ForkMoves
  <2>3. ForkSteps' /\ step'["child"] # "none" /\ step'["parent"] \notin {"begin", "fork"}
    BY <1>2, <1>4, <2>1, <2>2 DEF ForkInv, ForkSteps
  <2> QED BY <1>1, <1>3, <1>4, <2>3 DEF Written, ForkMoves
<1>6. CASE p = "child"
  <2>1. step'["child"] = next /\ step'["parent"] = step["parent"] /\ step["child"] \in {"emit", "close"}
    BY <1>3, <1>6 DEF Other, ForkMoves
  <2>2. next \in {"close", "end"}
    BY <1>6 DEF ForkMoves
  <2>3. ForkSteps' /\ step'["child"] # "none" /\ step'["parent"] \notin {"begin", "fork"}
    BY <1>2, <1>4, <2>1, <2>2 DEF ForkInv, ForkSteps
  <2> QED BY <1>1, <1>3, <1>4, <2>3 DEF Written, ForkMoves
<1> QED BY <1>5, <1>6 DEF Fork!Processes

(* What is in the file when p has not written and when it has.              *)
LEMMA ForkFileFor ==
    ASSUME NEW p \in Fork!Processes, ForkFileHas, ~failed, step["child"] # "none"
    PROVE  /\ ~Written(p) /\ ~Written(Other(p)) => testfile = Shared0
           /\ Written(p) /\ ~Written(Other(p)) => testfile = Shared0 \o Chunk(p)
           /\ ~Written(p) /\ Written(Other(p)) => testfile = Shared0 \o Chunk(Other(p))
           /\ Written(p) /\ Written(Other(p)) =>
                 \/ testfile = Shared0 \o Chunk(p) \o Chunk(Other(p))
                 \/ testfile = Shared0 \o Chunk(Other(p)) \o Chunk(p)
<1>1. CASE p = "parent"
  BY <1>1 DEF ForkFileHas, Other, Fork!Processes
<1>2. CASE p = "child"
  BY <1>2 DEF ForkFileHas, Other, Fork!Processes
<1> QED BY <1>1, <1>2 DEF Fork!Processes

LEMMA ForkFileGrows ==
    ASSUME ForkInv, NEW p \in Fork!Processes, NEW next, ForkMoves(p, next),
           ~Written(p), Written(p)', testfile' = testfile \o Chunk(p), failed' = failed
    PROVE  ForkFileHas'
<1> DEFINE o == Other(p)
<1>1. /\ o \in Fork!Processes /\ o # p /\ Other(o) = p /\ (\A q \in Fork!Processes : q = p \/ q = o)
      /\ step["child"] # "none" /\ step'["child"] # "none" /\ step'["parent"] \notin {"begin", "fork"}
      /\ Written(o)' = Written(o)
  BY ForkMoved
<1>2. UNCHANGED stdio /\ Shared0' = Shared0 /\ \A q \in Fork!Processes : Chunk(q)' = Chunk(q)
  BY DEF ForkMoves, Shared0, Chunk
<1>3. ASSUME ~failed'
      PROVE  \/ ~Written("parent")' /\ ~Written("child")' /\ testfile' = Shared0'
             \/ \E q \in Fork!Processes :
                   /\ Written(q)' /\ ~Written(Other(q))'
                   /\ testfile' = Shared0' \o Chunk(q)'
             \/ /\ Written("parent")' /\ Written("child")'
                /\ \E q \in Fork!Processes : testfile' = Shared0' \o Chunk(q)' \o Chunk(Other(q))'
  <2>1. /\ ~Written(o) => testfile = Shared0
        /\ Written(o) => testfile = Shared0 \o Chunk(o)
    BY <1>1, <1>3, ForkFileFor DEF ForkInv
  <2>2. CASE Written(o)
    <3>1. testfile' = Shared0' \o Chunk(o)' \o Chunk(Other(o))'
      BY <1>1, <1>2, <2>1, <2>2
    <3>2. Written("parent")' /\ Written("child")'
      BY <1>1, <2>2 DEF Fork!Processes
    <3> QED BY <1>1, <3>1, <3>2
  <2>3. CASE ~Written(o)
    <3>1. testfile' = Shared0' \o Chunk(p)' /\ Written(p)' /\ ~Written(Other(p))'
      BY <1>1, <1>2, <2>1, <2>3
    <3> QED BY <3>1
  <2> QED BY <2>2, <2>3
<1> QED BY <1>1, <1>3 DEF ForkFileHas

LEMMA ForkFileStays ==
    ASSUME ForkInv, NEW p \in Fork!Processes, NEW next, ForkMoves(p, next),
           Written(p)' = Written(p), testfile' = testfile, failed' = failed
    PROVE  ForkFileHas'
<1> DEFINE o == Other(p)
<1>1. /\ o \in Fork!Processes /\ (\A q \in Fork!Processes : q = p \/ q = o) /\ Other(o) = p
      /\ step["child"] # "none" /\ step'["child"] # "none" /\ step'["parent"] \notin {"begin", "fork"}
      /\ Written(o)' = Written(o)
  BY ForkMoved
<1>2. UNCHANGED stdio /\ Shared0' = Shared0 /\ \A q \in Fork!Processes : Chunk(q)' = Chunk(q)
  BY DEF ForkMoves, Shared0, Chunk
<1>3. \A q \in Fork!Processes : Written(q)' = Written(q) /\ Other(q) \in Fork!Processes
  BY <1>1 DEF Other, Fork!Processes
<1> QED BY <1>1, <1>2, <1>3 DEF ForkInv, ForkFileHas, Fork!Processes

(* A write of p's goes wrong, and p is at its end.                          *)
LEMMA ForkFails ==
    ASSUME ForkInv, NEW p \in Fork!Processes, NEW next, ForkMoves(p, next), Fork!WriteFails,
           stream' \in [Fork!Processes -> Seq(Messages)], ForkStreams'
    PROVE  ForkInv'
<1>1. failed' = TRUE /\ UNCHANGED <<testfile, offset, stdio>>
  BY DEF Fork!WriteFails, ForkMoves
<1>2. ForkSteps' /\ step' \in [Fork!Processes -> {"none", "begin", "fork", "emit", "close", "wait", "end"}]
  BY <1>1, ForkMoved
<1>3. Fork!TypeOK'
  BY <1>1, <1>2, ForkTypes, ForkTypesNext
<1> QED BY <1>1, <1>2, <1>3, ForkTypes DEF ForkInv, ForkFileHas

LEMMA ForkEmits ==
    ASSUME ForkInv, UNCHANGED stdio, NEW p \in Fork!Processes, step[p] = "emit",
           Fork!Emit(p, Fork!Message(p), "close")
    PROVE  ForkInv'
<1> DEFINE o == Other(p)
<1>1. /\ Fork!Message(p) = p /\ stream[p] = (IF stdio THEN <<"all">> ELSE << >>)
      /\ stream[o] = IF ~stdio \/ step[o] \in {"none", "begin", "wait", "end"} THEN << >>
                     ELSE IF step[o] = "close" THEN <<"all", o>> ELSE <<"all">>
  BY DEF Fork!Message, ForkInv, ForkStreams, Other, Fork!Processes
<1>2. ASSUME NEW next, ForkMoves(p, next), failed => failed'
      PROVE  /\ o \in Fork!Processes /\ o # p /\ (\A q \in Fork!Processes : q = p \/ q = o)
             /\ step' \in [Fork!Processes -> {"none", "begin", "fork", "emit", "close", "wait", "end"}]
             /\ step'[p] = next /\ step'[o] = step[o] /\ ForkSteps'
  BY <1>2, ForkMoved
<1>3. CASE stdio
  <2>1. ForkMoves(p, "close") /\ UNCHANGED <<testfile, offset, failed>>
    BY <1>3 DEF Fork!Emit, ForkMoves
  <2>2. stream' = [stream EXCEPT ![p] = <<"all", p>>] /\ <<"all", p>> \in Seq(Messages)
    BY <1>1, <1>3, ChunkTypes, ForkTypes DEF Fork!Emit
  <2>3. /\ stream' \in [Fork!Processes -> Seq(Messages)]
        /\ stream'[p] = <<"all", p>> /\ stream'[o] = stream[o]
    BY <1>2, <2>1, <2>2, ForkTypes
  <2>4. ForkStreams'
    <3>1. stdio' = stdio /\ step'[p] = "close" /\ step'[o] = step[o] /\ \A q \in Fork!Processes : q = p \/ q = o
      BY <1>2, <2>1
    <3>2. stream'[o] = IF ~stdio \/ step[o] \in {"none", "begin", "wait", "end"} THEN << >>
                       ELSE IF step[o] = "close" THEN <<"all", o>> ELSE <<"all">>
      BY <1>1, <2>3
    <3> HIDE DEF o
    <3> QED BY <1>3, <2>3, <3>1, <3>2 DEF ForkStreams
  <2>5. Fork!TypeOK'
    BY <1>2, <2>1, <2>3, ForkTypes, ForkTypesNext
  <2>6. Written(p)' = Written(p)
    BY <1>2, <1>3, <2>1 DEF Written
  <2>7. ForkFileHas'
    BY <2>1, <2>6, ForkFileStays
  <2> QED BY <1>2, <2>1, <2>4, <2>5, <2>7, ForkTypes DEF ForkInv
<1>4. CASE ~stdio
  <2>1. UNCHANGED stream
    BY <1>4 DEF Fork!Emit
  <2>2. ForkStreams'
    BY <1>4, <2>1 DEF ForkInv, ForkStreams
  <2>3. CASE Fork!WriteOut(<<p>>) /\ Fork!Goto(p, "close")
    <3>1. ForkMoves(p, "close")
      BY <2>3 DEF ForkMoves
    <3>2. /\ testfile' = testfile \o <<p>> /\ testfile' \in Seq(Messages)
          /\ offset' = Len(testfile') /\ failed' = failed
      BY <2>3, ForkTypes, ChunkTypes, WriteAppends
    <3>3. ~Written(p) /\ Written(p)' /\ Chunk(p) = <<p>>
      BY <1>2, <1>4, <3>1, <3>2 DEF Written, Chunk
    <3>4. ForkFileHas'
      BY <3>1, <3>2, <3>3, ForkFileGrows
    <3>5. Fork!TypeOK'
      BY <1>2, <2>1, <3>1, <3>2, ForkTypes, ForkTypesNext
    <3> QED BY <1>2, <2>2, <3>1, <3>2, <3>4, <3>5 DEF ForkInv
  <2>4. CASE Fork!WriteFails /\ Fork!Goto(p, "end")
    <3>1. ForkMoves(p, "end")
      BY <2>4 DEF ForkMoves, Fork!WriteFails
    <3> QED BY <2>1, <2>2, <2>4, <3>1, ForkFails, ForkTypes
  <2> QED BY <1>1, <1>4, <2>3, <2>4 DEF Fork!Emit
<1> QED BY <1>3, <1>4, ForkTypes

LEMMA ForkCloses ==
    ASSUME ForkInv, UNCHANGED stdio, NEW p \in Fork!Processes, step[p] = "close",
           Fork!Close(p, IF p = "parent" THEN "wait" ELSE "end")
    PROVE  ForkInv'
<1> DEFINE o == Other(p)
           next == IF p = "parent" THEN "wait" ELSE "end"
<1>1. /\ stream[p] = (IF stdio THEN <<"all", p>> ELSE << >>)
      /\ stream[o] = IF ~stdio \/ step[o] \in {"none", "begin", "wait", "end"} THEN << >>
                     ELSE IF step[o] = "close" THEN <<"all", o>> ELSE <<"all">>
  BY DEF ForkInv, ForkStreams, Other, Fork!Processes
<1>2. ForkMoves(p, next)
  BY DEF ForkMoves, Fork!Close
<1>3. failed => failed'
  BY DEF Fork!Close, Fork!WriteOut, Fork!WriteFails
<1>4. /\ o \in Fork!Processes /\ o # p /\ (\A q \in Fork!Processes : q = p \/ q = o)
      /\ step' \in [Fork!Processes -> {"none", "begin", "fork", "emit", "close", "wait", "end"}]
      /\ step'[p] \in {"wait", "end"} /\ step'[o] = step[o] /\ ForkSteps'
  BY <1>2, <1>3, ForkMoved
<1>5. stream' = [stream EXCEPT ![p] = << >>] /\ << >> \in Seq(Messages)
  BY ChunkTypes DEF Fork!Close
<1>6. /\ stream' \in [Fork!Processes -> Seq(Messages)]
      /\ stream'[p] = << >> /\ stream'[o] = stream[o]
  BY <1>4, <1>5, ForkTypes
<1>7. ForkStreams'
  BY <1>1, <1>4, <1>6 DEF ForkStreams
<1>8. CASE Fork!WriteOut(stream[p])
  <2>1. /\ testfile' = testfile \o stream[p] /\ testfile' \in Seq(Messages)
        /\ offset' = Len(testfile') /\ failed' = failed
    BY <1>8, ForkTypes, WriteAppends
  <2>2. Fork!TypeOK'
    BY <1>4, <1>6, <2>1, ForkTypes, ForkTypesNext
  <2>3. ForkFileHas'
    <3>1. CASE stdio
      <4>1. ~Written(p) /\ Written(p)' /\ Chunk(p) = stream[p]
        BY <1>1, <1>4, <3>1 DEF Written, Chunk
      <4> QED BY <1>2, <2>1, <4>1, ForkFileGrows
    <3>2. CASE ~stdio
      <4>1. Written(p) /\ Written(p)'
        BY <1>4, <3>2 DEF Written
      <4>2. testfile' = testfile
        BY <1>1, <2>1, <3>2, ForkTypes, ConcatEmptySeq
      <4> QED BY <1>2, <2>1, <4>1, <4>2, ForkFileStays
    <3> QED BY <3>1, <3>2, ForkTypes
  <2> QED BY <1>4, <1>7, <2>1, <2>2, <2>3 DEF ForkInv
<1>9. CASE Fork!WriteFails
  <2> HIDE DEF next
  <2> QED BY <1>2, <1>6, <1>7, <1>9, ForkFails
<1> QED BY <1>8, <1>9 DEF Fork!Close

LEMMA ForkWaits ==
    ASSUME ForkInv, UNCHANGED stdio, NEW p \in Fork!Processes, step[p] = "wait",
           step["child"] = "end", Fork!Goto(p, "end"), UNCHANGED <<testfile, offset, stream, failed>>
    PROVE  ForkInv'
<1>1. p = "parent" /\ stream["parent"] = << >>
  BY DEF ForkInv, ForkSteps, ForkStreams, Fork!Processes
<1>2. /\ step' \in [Fork!Processes -> {"none", "begin", "fork", "emit", "close", "wait", "end"}]
      /\ step'["parent"] = "end" /\ step'["child"] = "end"
  BY <1>1, ForkGoto DEF Fork!Processes
<1>3. Fork!TypeOK'
  BY <1>2, ForkTypes, ForkTypesNext
<1>4. ForkSteps' /\ ForkStreams'
  BY <1>1, <1>2 DEF ForkInv, ForkSteps, ForkStreams, Fork!Processes
<1>5. /\ Shared0' = Shared0
      /\ \A q \in Fork!Processes :
            Chunk(q)' = Chunk(q) /\ Written(q)' = Written(q) /\ Other(q) \in Fork!Processes
  BY <1>1, <1>2 DEF Shared0, Chunk, Written, Other, Fork!Processes
<1>6. ForkFileHas'
  BY <1>1, <1>2, <1>5 DEF ForkInv, ForkFileHas, Fork!Processes
<1> QED BY <1>3, <1>4, <1>6 DEF ForkInv

LEMMA ForkStep == ASSUME ForkInv, [Fork!Next]_forkvars PROVE ForkInv'
<1>1. CASE UNCHANGED forkvars
  BY <1>1 DEF ForkInv, forkvars, Fork!TypeOK, ForkSteps, ForkStreams, ForkFileHas, Shared0,
     Chunk, Written
<1>2. CASE Fork!Next
  <2>1. PICK p \in Fork!Processes : Fork!main(p)
    BY <1>2 DEF Fork!Next
  <2> QED BY <2>1, ForkBegins, ForkForks, ForkEmits, ForkCloses, ForkWaits DEF Fork!main
<1> QED BY <1>1, <1>2

LEMMA TwoPieces ==
    ASSUME NEW a \in Messages, NEW b \in Messages, NEW c \in Messages, NEW d \in Messages
    PROVE  << >> \o <<a, b>> \o <<c, d>> = <<a, b, c, d>>
<1> DEFINE x == <<a, b>>
           y == <<c, d>>
           z == <<a, b, c, d>>
<1>1. /\ x \in Seq(Messages) /\ y \in Seq(Messages) /\ z \in Seq(Messages)
      /\ Len(x) = 2 /\ Len(y) = 2 /\ Len(z) = 4
      /\ x[1] = a /\ x[2] = b /\ y[1] = c /\ y[2] = d /\ z[1] = a /\ z[2] = b /\ z[3] = c /\ z[4] = d
  OBVIOUS
<1>2. << >> \o x = x
  BY <1>1, ConcatEmptySeq
<1>3. x \o y = z
  <2> HIDE DEF x, y, z
  <2>1. /\ x \o y \in Seq(Messages) /\ Len(x \o y) = Len(x) + Len(y)
        /\ \A k \in 1 .. Len(x) + Len(y) : (x \o y)[k] = IF k <= Len(x) THEN x[k] ELSE y[k - Len(x)]
    BY ONLY <1>1, ConcatProperties
  <2>2. (x \o y)[1] = a /\ (x \o y)[2] = b /\ (x \o y)[3] = c /\ (x \o y)[4] = d
    BY <1>1, <2>1
  <2>3. ASSUME NEW k \in 1 .. 4 PROVE (x \o y)[k] = z[k]
    <3>1. k = 1 \/ k = 2 \/ k = 3 \/ k = 4
      OBVIOUS
    <3> QED BY <1>1, <2>2, <3>1
  <2> QED BY <1>1, <2>1, <2>3, SeqEqual
<1> QED BY <1>2, <1>3

LEMMA ThreePieces ==
    ASSUME NEW a \in Messages, NEW b \in Messages, NEW c \in Messages
    PROVE  <<a>> \o <<b>> \o <<c>> = <<a, b, c>>
<1> DEFINE u == <<a>>
           v == <<b>>
           w == <<c>>
           t == <<a, b, c>>
<1>1. /\ u \in Seq(Messages) /\ v \in Seq(Messages) /\ w \in Seq(Messages) /\ t \in Seq(Messages)
      /\ Len(u) = 1 /\ Len(v) = 1 /\ Len(w) = 1 /\ Len(t) = 3
      /\ u[1] = a /\ v[1] = b /\ w[1] = c /\ t[1] = a /\ t[2] = b /\ t[3] = c
  OBVIOUS
<1>2. u \o v \o w = t
  <2> HIDE DEF u, v, w, t
  <2> DEFINE s == u \o v
  <2>1. /\ s \in Seq(Messages) /\ Len(s) = Len(u) + Len(v)
        /\ \A k \in 1 .. Len(u) + Len(v) : s[k] = IF k <= Len(u) THEN u[k] ELSE v[k - Len(u)]
    BY ONLY <1>1, ConcatProperties
  <2>2. Len(s) = 2 /\ s[1] = a /\ s[2] = b
    <3> HIDE DEF s
    <3> QED BY <1>1, <2>1
  <2> HIDE DEF s
  <2>3. /\ s \o w \in Seq(Messages) /\ Len(s \o w) = Len(s) + Len(w)
        /\ \A k \in 1 .. Len(s) + Len(w) : (s \o w)[k] = IF k <= Len(s) THEN s[k] ELSE w[k - Len(s)]
    <3>1. s \in Seq(Messages) /\ w \in Seq(Messages)
      BY <1>1, <2>1
    <3> QED BY ONLY <3>1, ConcatProperties
  <2>4. (s \o w)[1] = a /\ (s \o w)[2] = b /\ (s \o w)[3] = c
    BY <1>1, <2>2, <2>3
  <2>5. ASSUME NEW k \in 1 .. 3 PROVE (s \o w)[k] = t[k]
    <3>1. k = 1 \/ k = 2 \/ k = 3
      OBVIOUS
    <3> QED BY <1>1, <2>4, <3>1
  <2>6. s \o w = t
    BY <1>1, <2>2, <2>3, <2>5, SeqEqual
  <2> QED BY <2>6 DEF s
<1> QED BY <1>2

(* When both are through, the file holds both pieces.                       *)
LEMMA ForkHolds == ASSUME ForkInv PROVE Fork!WritesSurvive
<1> SUFFICES ASSUME step["parent"] = "end", ~failed
             PROVE  testfile \in IF stdio
                                 THEN {<<"all", "parent", "all", "child">>, <<"all", "child", "all", "parent">>}
                                 ELSE {<<"all", "parent", "child">>, <<"all", "child", "parent">>}
  BY DEF Fork!WritesSurvive
<1>1. step["child"] = "end"
  BY DEF ForkInv, ForkSteps
<1>2. PICK p \in Fork!Processes : testfile = Shared0 \o Chunk(p) \o Chunk(Other(p))
  BY <1>1 DEF ForkInv, ForkFileHas, Written, Other, Fork!Processes
<1>3. "all" \in Messages /\ "parent" \in Messages /\ "child" \in Messages
  BY DEF Messages, Fork!Processes
<1>4. \/ p = "parent" /\ Other(p) = "child"
      \/ p = "child" /\ Other(p) = "parent"
  BY DEF Other, Fork!Processes
<1>5. CASE stdio
  <2>1. testfile = << >> \o <<"all", p>> \o <<"all", Other(p)>>
    BY <1>2, <1>5 DEF Shared0, Chunk
  <2>2. p \in Messages /\ Other(p) \in Messages
    BY <1>3, <1>4
  <2>3. testfile = <<"all", p, "all", Other(p)>>
    BY ONLY <1>3, <2>1, <2>2, TwoPieces
  <2> QED BY <1>4, <1>5, <2>3
<1>6. CASE ~stdio
  <2>1. testfile = <<"all">> \o <<p>> \o <<Other(p)>>
    BY <1>2, <1>6 DEF Shared0, Chunk
  <2>2. p \in Messages /\ Other(p) \in Messages
    BY <1>3, <1>4
  <2>3. testfile = <<"all", p, Other(p)>>
    BY ONLY <1>3, <2>1, <2>2, ThreePieces
  <2> QED BY <1>4, <1>6, <2>3
<1> QED BY <1>5, <1>6

-----------------------------------------------------------------------------
(* mymore.c                                                                 *)

(* What is still granted is what is missing from the page.                  *)
MoreInv ==
    /\ More!TypeOK /\ More!PagesFit /\ granted \in Nat
    /\ seen + lines <= MaxLines
    /\ showing = "domore" => granted - seen = PAGELINE - linecount + 1

LEMMA MoreInit == ASSUME More!MyMoreAssumption, More!Init PROVE MoreInv
<1>1. /\ PAGELINE \in Nat \ {0} /\ MaxLines \in Nat
      /\ showing = "main" /\ lines = 0 /\ linecount = 1 /\ raw = FALSE /\ seen = 0 /\ granted = PAGELINE
  BY DEF More!MyMoreAssumption, More!Init
<1>2. More!TypeOK
  <2>1. raw \in BOOLEAN
    BY <1>1
  <2>2. lines \in 0 .. MaxLines /\ linecount \in 1 .. PAGELINE /\ seen \in 0 .. MaxLines
    BY <1>1
  <2> QED BY <1>1, <2>1, <2>2 DEF More!TypeOK
<1>3. More!PagesFit
  BY <1>1 DEF More!PagesFit
<1> QED BY <1>1, <1>2, <1>3 DEF MoreInv

LEMMA MoreStep == ASSUME More!MyMoreAssumption, MoreInv, [More!Next]_morevars PROVE MoreInv'
<1> USE DEF More!MyMoreAssumption, MoreInv, More!TypeOK, More!PagesFit
<1>1. CASE More!main
  BY <1>1 DEF More!main
<1>2. CASE More!ShowLine
  BY <1>2 DEF More!ShowLine
<1>3. CASE More!EndOfFile
  BY <1>3 DEF More!EndOfFile, More!Leave
<1>4. CASE More!instant_get
  <2>1. CASE More!Leave /\ raw' = TRUE
    BY <1>4, <2>1 DEF More!instant_get, More!Leave
  <2>2. CASE More!GoOn(PAGELINE - 1, 1) /\ raw' = TRUE
    BY <1>4, <2>2 DEF More!instant_get, More!GoOn
  <2>3. CASE More!GoOn(0, PAGELINE) /\ raw' = TRUE
    BY <1>4, <2>3 DEF More!instant_get, More!GoOn
  <2>4. CASE showing' = "abort" /\ UNCHANGED <<lines, linecount, raw, seen, granted>>
    BY <1>4, <2>4
  <2> QED BY <1>4, <2>1, <2>2, <2>3, <2>4 DEF More!instant_get, More!Key
<1>5. CASE UNCHANGED morevars
  BY <1>5 DEF morevars
<1> QED BY <1>1, <1>2, <1>3, <1>4, <1>5 DEF More!Next

-----------------------------------------------------------------------------
(* line_edit_6-6.c                                                          *)

EditInv ==
    /\ Edit!TypeOK /\ Edit!ScreenIsBuffer
    /\ editing = "single" => \A k \in 1 .. Len(buf) : buf[k] # Edit!Newline

LEMMA EditSeqOf ==
    ASSUME NEW S, NEW n \in Nat, NEW s
    PROVE  s \in Edit!SeqOf(S, n) <=> s \in Seq(S) /\ Len(s) <= n
BY BoundedSequences DEF Edit!SeqOf

LEMMA EditEmpty == ASSUME NEW S, NEW n \in Nat PROVE << >> \in Edit!SeqOf(S, n)
<1> DEFINE e == << >>
<1>1. e \in Seq(S) /\ Len(e) = 0
  BY EmptySeq
<1> HIDE DEF e
<1>2. Len(e) <= n
  BY <1>1
<1>3. e \in Edit!SeqOf(S, n)
  BY <1>1, <1>2, EditSeqOf
<1> QED BY <1>3 DEF e

LEMMA EditTypes ==
    ASSUME Edit!LineEditAssumption, EditInv
    PROVE  /\ LINE \in Nat \ {0} /\ BUF \in Nat \ {0} /\ LINE <= BUF
           /\ Edit!Size \in Nat \ {0} /\ Edit!Size <= BUF
           /\ buf \in Seq(Edit!Cells) /\ Len(buf) \in 0 .. Edit!Size /\ screen = buf
           /\ typed = Len(buf) \/ (typed = -1 /\ buf = << >>)
           /\ editing \in {"main", "single", "multi", "end", "overrun"}
<1>1. /\ LINE \in Nat \ {0} /\ BUF \in Nat \ {0} /\ LINE <= BUF
      /\ Edit!Size \in Nat \ {0} /\ Edit!Size <= BUF
  BY DEF Edit!LineEditAssumption, Edit!Size
<1>2. buf \in Seq(Edit!Cells) /\ Len(buf) <= Edit!Size
  BY <1>1, EditSeqOf DEF EditInv, Edit!TypeOK
<1> QED BY <1>1, <1>2, LenProperties DEF EditInv, Edit!TypeOK, Edit!ScreenIsBuffer

(* What a step has to keep.                                                 *)
LEMMA EditKept ==
    ASSUME Edit!LineEditAssumption,
           editing' \in {"main", "single", "multi", "end", "overrun"},
           buf' \in Seq(Edit!Cells), Len(buf') <= Edit!Size', screen' = buf',
           typed' = Len(buf') \/ (typed' = -1 /\ buf' = << >>),
           editing' = "single" => \A k \in 1 .. Len(buf') : buf'[k] # Edit!Newline
    PROVE  EditInv'
<1>1. Edit!Size' \in Nat \ {0} /\ Len(buf') \in Nat
  BY LenProperties DEF Edit!LineEditAssumption, Edit!Size
<1>2. buf' \in Edit!SeqOf(Edit!Cells, Edit!Size')
  BY <1>1, EditSeqOf
<1>3. << >> = buf' => Len(buf') = 0
  BY EmptySeq
<1>4. typed' \in -1 .. Edit!Size'
  BY <1>1, <1>3
<1> QED BY <1>2, <1>4 DEF EditInv, Edit!TypeOK, Edit!ScreenIsBuffer

LEMMA EditInit == ASSUME Edit!LineEditAssumption, Edit!Init PROVE EditInv
<1>1. LINE \in Nat /\ BUF \in Nat /\ Edit!Size \in Nat
  BY DEF Edit!LineEditAssumption, Edit!Size
<1>2. << >> \in Edit!SeqOf(Edit!Cells, Edit!Size)
  BY <1>1, EditEmpty
<1>3. buf = << >> /\ screen = << >> /\ typed = 0 /\ editing = "main" /\ Len(buf) = 0
  BY EmptySeq DEF Edit!Init
<1> QED BY <1>1, <1>2, <1>3 DEF EditInv, Edit!TypeOK, Edit!ScreenIsBuffer

LEMMA EditBegin ==
    ASSUME Edit!LineEditAssumption, NEW next \in {"single", "multi", "end"}, Edit!Begin(next)
    PROVE  EditInv'
<1> DEFINE e == << >>
<1>1. e \in Seq(Edit!Cells) /\ Len(e) = 0
  BY EmptySeq
<1>2. buf' = e /\ screen' = e /\ typed' = 0 /\ editing' = next
  BY DEF Edit!Begin
<1> HIDE DEF e
<1>3. Edit!Size' \in Nat
  BY DEF Edit!LineEditAssumption, Edit!Size
<1> QED BY <1>1, <1>2, <1>3, EditKept

(* Outside the buffer: nothing changes any more.                            *)
LEMMA EditOverrun ==
    ASSUME Edit!LineEditAssumption, EditInv, editing' = "overrun", UNCHANGED <<buf, typed, screen>>
    PROVE  EditInv'
<1>1. Edit!Size' = BUF
  BY DEF Edit!Size
<1> QED BY <1>1, EditTypes, EditKept

LEMMA EditStore ==
    ASSUME Edit!LineEditAssumption, EditInv, NEW ch \in Edit!Cells, Edit!Store(ch),
           editing = "single" => ch # Edit!Newline
    PROVE  EditInv'
<1>1. CASE typed \in 0 .. Edit!Size - 1
  <2>1. buf' = Append(buf, ch) /\ typed' = typed + 1 /\ screen' = Append(buf, ch) /\ editing' = editing
    BY <1>1, EditTypes DEF Edit!Store
  <2>2. /\ buf \in Seq(Edit!Cells) /\ Edit!Size \in Nat /\ Edit!Size' = Edit!Size /\ typed = Len(buf)
        /\ Len(buf) \in Nat
    BY <1>1, <2>1, EditTypes DEF Edit!Size
  <2>3. /\ buf' \in Seq(Edit!Cells) /\ Len(buf') = Len(buf) + 1
        /\ \A k \in 1 .. Len(buf) : buf'[k] = buf[k]
        /\ buf'[Len(buf) + 1] = ch
    BY ONLY <2>1, <2>2, AppendProperties, ch \in Edit!Cells
  <2>4. ASSUME editing' = "single", NEW k \in 1 .. Len(buf') PROVE buf'[k] # Edit!Newline
    <3>1. CASE k = Len(buf) + 1
      BY <2>1, <2>3, <2>4, <3>1
    <3>2. CASE k # Len(buf) + 1
      <4>1. k \in 1 .. Len(buf)
        BY <2>2, <2>3, <3>2
      <4> QED BY <2>1, <2>3, <2>4, <4>1 DEF EditInv
    <3> QED BY <3>1, <3>2
  <2>5. Len(buf') <= Edit!Size' /\ typed' = Len(buf')
    BY <1>1, <2>1, <2>2, <2>3
  <2> QED BY <2>1, <2>3, <2>4, <2>5, EditTypes, EditKept
<1>2. CASE typed \notin 0 .. Edit!Size - 1
  BY <1>2, EditOverrun DEF Edit!Store
<1> QED BY <1>1, <1>2

LEMMA EditFinish ==
    ASSUME Edit!LineEditAssumption, EditInv, NEW next \in {"multi", "end"}, Edit!Finish(next)
    PROVE  EditInv'
BY EditBegin, EditOverrun DEF Edit!Finish

LEMMA EditDelete ==
    ASSUME Edit!LineEditAssumption, EditInv, typed >= 0, Edit!Delete,
           buf # << >> => Edit!Last(buf) # Edit!Newline
    PROVE  EditInv'
<1>1. typed = Len(buf) /\ Len(buf) \in Nat /\ editing' = editing /\ typed' = typed - 1 /\ Edit!Size' = Edit!Size
  BY EditTypes DEF Edit!Delete, Edit!Size
<1>2. CASE buf = << >>
  <2>1. buf' = buf /\ screen' = buf /\ typed = 0
    BY <1>1, <1>2, EmptySeq, EditTypes DEF Edit!Delete, Edit!Rubbed
  <2>2. typed' = -1
    BY <1>1, <2>1
  <2> QED BY <1>1, <1>2, <2>1, <2>2, EditTypes, EditKept DEF EditInv
<1>3. CASE buf # << >>
  <2>1. buf' = Edit!Front(buf) /\ screen' = Edit!Front(buf)
    BY <1>3, EditTypes DEF Edit!Delete, Edit!Rubbed
  <2> DEFINE d == Len(buf) - 1
  <2>2. d \in 0 .. Len(buf)
    <3>1. Len(buf) \in Nat \ {0}
      BY <1>3, EmptySeq, EditTypes
    <3> QED BY <3>1
  <2>3. buf' = SubSeq(buf, 1, d)
    BY <2>1 DEF Edit!Front
  <2> HIDE DEF d
  <2>4. buf' \in Seq(Edit!Cells) /\ Len(buf') = d /\ \A k \in 1 .. d : buf'[k] = buf[k]
    BY <2>2, <2>3, EditTypes, PrefixProperties
  <2>5. Len(buf') <= Edit!Size' /\ typed' = Len(buf')
    BY <1>1, <2>2, <2>4, EditTypes DEF d
  <2>6. ASSUME editing' = "single", NEW k \in 1 .. Len(buf') PROVE buf'[k] # Edit!Newline
    <3>1. k \in 1 .. d /\ k \in 1 .. Len(buf)
      BY <1>1, <2>2, <2>4 DEF d
    <3> QED BY <1>1, <2>4, <2>6, <3>1 DEF EditInv
  <2> QED BY <1>1, <2>1, <2>4, <2>5, <2>6, EditTypes, EditKept
<1> QED BY <1>2, <1>3

LEMMA EditStep == ASSUME Edit!LineEditAssumption, EditInv, [Edit!Next]_editvars PROVE EditInv'
<1>1. CASE Edit!main
  BY <1>1, EditBegin DEF Edit!main
<1>2. CASE Edit!single_line_edit
  <2>1. ASSUME NEW ch \in Glyphs, Edit!Store(ch) PROVE EditInv'
    BY <2>1, EditStore DEF Edit!Cells, Edit!LineEditAssumption
  <2>2. ASSUME typed >= 0, Edit!Delete PROVE EditInv'
    <3>1. buf # << >> => Edit!Last(buf) # Edit!Newline
      <4>1. ASSUME buf # << >> PROVE Len(buf) \in 1 .. Len(buf)
        <5>1. Len(buf) \in Nat \ {0}
          BY <4>1, EmptySeq, EditTypes
        <5> QED BY <5>1
      <4> QED BY <1>2, <4>1 DEF EditInv, Edit!single_line_edit, Edit!Last
    <3> QED BY <2>2, <3>1, EditDelete
  <2> QED BY <1>2, <2>1, <2>2, EditFinish DEF Edit!single_line_edit
<1>3. CASE Edit!multi_line_edit
  <2>1. ASSUME NEW ch \in Edit!Cells, Edit!Store(ch) PROVE EditInv'
    BY <1>3, <2>1, EditStore DEF Edit!multi_line_edit
  <2>2. ASSUME typed >= 0, NEW ch \in Edit!Before,
               IF ch # Edit!Newline THEN Edit!Delete ELSE UNCHANGED Edit!vars
        PROVE  EditInv'
    <3>1. CASE ch # Edit!Newline
      BY <2>2, <3>1, EditDelete DEF Edit!Before
    <3>2. CASE ch = Edit!Newline
      BY <2>2, <3>2 DEF Edit!vars, EditInv, Edit!TypeOK, Edit!ScreenIsBuffer, Edit!Size
    <3> QED BY <3>1, <3>2
  <2> QED BY <1>3, <2>1, <2>2, EditFinish DEF Edit!multi_line_edit, Edit!DeleteInLine
<1>4. CASE UNCHANGED editvars
  BY <1>4 DEF editvars, EditInv, Edit!TypeOK, Edit!ScreenIsBuffer, Edit!Size
<1> QED BY <1>1, <1>2, <1>3, <1>4 DEF Edit!Next

-----------------------------------------------------------------------------
(* myPWD.c                                                                  *)

PwdInv ==
    /\ Pwd!TypeOK /\ Pwd!PathIsPrinted
    /\ Len(dirs) <= MaxDepth

LEMMA PwdSeqOf ==
    ASSUME NEW S, NEW n \in Nat, NEW s
    PROVE  s \in Pwd!SeqOf(S, n) <=> s \in Seq(S) /\ Len(s) <= n
BY BoundedSequences DEF Pwd!SeqOf

(* readdir's loop finds the first entry with the number, if there is one:   *)
(* four entries are at most looked through.                                 *)
First(s, ino) ==
    LET hits == {k \in 1 .. Len(s) : s[k].ino = ino}
    IN  IF hits # {} THEN Pwd!Min(hits) ELSE 0

LEMMA FirstProperties ==
    ASSUME NEW s, Len(s) \in 0 .. 4, NEW ino
    PROVE  /\ First(s, ino) = 0 \/ (First(s, ino) \in 1 .. Len(s) /\ s[First(s, ino)].ino = ino)
           /\ \A k \in 1 .. Len(s) : s[k].ino = ino => First(s, ino) # 0 /\ First(s, ino) <= k
<1> DEFINE hits == {k \in 1 .. Len(s) : s[k].ino = ino}
           found == First(s, ino)
<1>1. found = IF hits # {} THEN Pwd!Min(hits) ELSE 0
  BY DEF First
<1>2. ASSUME hits # {} PROVE Pwd!Min(hits) \in hits /\ \A k \in hits : Pwd!Min(hits) <= k
  <2>1. \E m \in hits : \A k \in hits : m <= k
    <3>1. hits \subseteq {1, 2, 3, 4}
      OBVIOUS
    <3> HIDE DEF hits
    <3>2. CASE 1 \in hits
      BY <3>1, <3>2
    <3>3. CASE 1 \notin hits /\ 2 \in hits
      BY <3>1, <3>3
    <3>4. CASE 1 \notin hits /\ 2 \notin hits /\ 3 \in hits
      BY <3>1, <3>4
    <3>5. CASE 1 \notin hits /\ 2 \notin hits /\ 3 \notin hits
      <4>1. 4 \in hits /\ \A k \in hits : k = 4
        BY <1>2, <3>1, <3>5
      <4> QED BY <4>1
    <3> QED BY <3>2, <3>3, <3>4, <3>5
  <2> HIDE DEF hits
  <2> QED BY <2>1 DEF Pwd!Min
<1> HIDE DEF found
<1>3. found = 0 \/ (found \in 1 .. Len(s) /\ s[found].ino = ino)
  BY <1>1, <1>2
<1>4. ASSUME NEW k \in 1 .. Len(s), s[k].ino = ino PROVE found # 0 /\ found <= k
  BY <1>1, <1>2, <1>4
<1> QED BY <1>3, <1>4 DEF found

Entries == [name : {".", "..", "it", "other"}, ino : Inodes]
Dirs == [ino : Inodes, up : Inodes]

LEMMA PwdTypes ==
    ASSUME Pwd!MyPWDAssumption, PwdInv
    PROVE  /\ MaxDepth \in Nat \ {0} /\ dirs \in Seq(Dirs) /\ Len(dirs) \in 1 .. MaxDepth
           /\ path \in Seq({"it", "other", ".."}) /\ Len(path) = Len(dirs) - 1
           /\ mounts \subseteq 1 .. Len(dirs) /\ Pwd!here = dirs[Len(dirs)] /\ Pwd!here \in Dirs
<1>1. MaxDepth \in Nat \ {0} /\ dirs \in Seq(Dirs) /\ Len(path) = Len(dirs) - 1 /\ Len(dirs) <= MaxDepth
  BY DEF Pwd!MyPWDAssumption, PwdInv, Pwd!TypeOK, Pwd!PathIsPrinted, Dirs
<1>2. path \in Seq({"it", "other", ".."})
  BY <1>1, PwdSeqOf DEF PwdInv, Pwd!TypeOK
<1>3. Len(path) \in Nat /\ Len(dirs) \in Nat /\ DOMAIN dirs = 1 .. Len(dirs)
  BY <1>1, <1>2, LenProperties
<1>4. Len(dirs) \in 1 .. MaxDepth
  BY <1>1, <1>3
<1>5. Pwd!here = dirs[Len(dirs)]
  BY DEF Pwd!here, Pwd!Last
<1>6. Pwd!here \in Dirs
  <2>1. Len(dirs) \in 1 .. Len(dirs)
    BY <1>4
  <2> QED BY <1>1, <1>5, <2>1, ElementOfSeq
<1> QED BY <1>1, <1>2, <1>3, <1>4, <1>5, <1>6 DEF PwdInv, Pwd!TypeOK

(* What a step has to keep.                                                 *)
LEMMA PwdKept ==
    ASSUME Pwd!MyPWDAssumption, climb' \in {"up", "done", "unreadable", "crashed"},
           dirs' \in Seq(Dirs), Len(dirs') \in 1 .. MaxDepth,
           path' \in Seq({"it", "other", ".."}), Len(path') = Len(dirs') - 1,
           mounts' \subseteq 1 .. Len(dirs'),
           \A k \in 1 .. Len(path') : path'[k] = "it" \/ Len(path') + 1 - k \in mounts',
           climb' = "crashed" => Len(dirs') \in mounts'
    PROVE  PwdInv'
<1>1. MaxDepth \in Nat
  BY DEF Pwd!MyPWDAssumption
<1>2. path' \in Pwd!SeqOf({"it", "other", ".."}, MaxDepth)
  BY <1>1, PwdSeqOf
<1>3. DOMAIN dirs' = 1 .. Len(dirs') /\ DOMAIN path' = 1 .. Len(path')
  BY LenProperties
<1> QED BY <1>1, <1>2, <1>3 DEF PwdInv, Pwd!TypeOK, Pwd!PathIsPrinted, Dirs

(* What is found for a directory left: itself, under its name, unless it is *)
(* a mounted root; "." only at the root of all.                             *)
LEMMA PwdSearch ==
    ASSUME Pwd!MyPWDAssumption, PwdInv, climb = "up",
           NEW above \in Dirs, NEW others \in Seq(Entries), Pwd!Search(above, others),
           Len(others) <= 2, \A k \in 1 .. Len(others) : others[k].name \in {"it", "other"},
           mounts \subseteq mounts', mounts' \subseteq 1 .. Len(dirs),
           \/ Len(dirs) \in mounts'
           \/ /\ above.ino # Pwd!here.ino /\ above.up # Pwd!here.ino
              /\ \E k \in 1 .. Len(others) : others[k].ino = Pwd!here.ino
              /\ \A k \in 1 .. Len(others) : others[k].ino = Pwd!here.ino => others[k].name = "it"
           \/ above.ino = Pwd!here.ino
    PROVE  PwdInv'
<1> DEFINE ino == Pwd!here.ino
           two == <<Pwd!Entry(".", above.ino), Pwd!Entry("..", above.up)>>
           listing == two \o others
           found == First(listing, ino)
           n == Len(others)
<1>1. IF found = 0
      THEN climb' = "crashed" /\ UNCHANGED <<dirs, path>>
      ELSE /\ path' = IF listing[found].name = "." THEN path ELSE <<listing[found].name>> \o path
           /\ IF above.ino = ino
              THEN climb' = "done" /\ UNCHANGED dirs
              ELSE Len(dirs) < MaxDepth /\ dirs' = Append(dirs, above) /\ UNCHANGED climb
  BY DEF Pwd!Search, Pwd!SelectInSeq, First
<1>2. n \in 0 .. 2
  <2>1. n \in Nat
    BY LenProperties
  <2>2. n <= 2
    OBVIOUS
  <2> HIDE DEF n
  <2> QED BY <2>1, <2>2
<1>3. /\ two \in Seq(Entries) /\ Len(two) = 2 /\ two[1].ino = above.ino /\ two[1].name = "."
      /\ two[2].ino = above.up /\ two[2].name = ".."
  BY DEF Dirs, Entries, Pwd!Entry
<1> HIDE DEF two, n
<1>4. /\ listing \in Seq(Entries) /\ Len(listing) = 2 + n /\ listing[1] = two[1] /\ listing[2] = two[2]
      /\ \A k \in 3 .. 2 + n : listing[k] = others[k - 2]
  <2>1. /\ listing \in Seq(Entries) /\ Len(listing) = Len(two) + Len(others)
        /\ \A k \in 1 .. Len(two) + Len(others) :
              listing[k] = IF k <= Len(two) THEN two[k] ELSE others[k - Len(two)]
    BY ONLY <1>3, others \in Seq(Entries), ConcatProperties
  <2> HIDE DEF listing
  <2> QED BY <1>2, <1>3, <2>1 DEF n
<1> HIDE DEF listing
<1>5. /\ found = 0 \/ (found \in 1 .. 2 + n /\ listing[found].ino = ino)
      /\ \A k \in 1 .. 2 + n : listing[k].ino = ino => found # 0 /\ found <= k
  <2>1. Len(listing) \in 0 .. 4
    BY <1>2, <1>4
  <2> QED BY <1>4, <2>1, FirstProperties
<1> HIDE DEF found
<1>6. CASE found = 0
  <2>1. climb' = "crashed" /\ UNCHANGED <<dirs, path>>
    BY <1>1, <1>6
  <2>2. above.ino # ino
    BY <1>2, <1>3, <1>4, <1>5, <1>6
  <2>3. ASSUME NEW k \in 1 .. n PROVE others[k].ino # ino
    <3>1. k + 2 \in 3 .. 2 + n /\ k + 2 \in 1 .. 2 + n /\ k + 2 - 2 = k
      BY <1>2
    <3>2. listing[k + 2] = others[k]
      BY <1>4, <3>1
    <3> QED BY <1>5, <1>6, <3>1, <3>2
  <2>4. Len(dirs) \in mounts'
    BY <2>2, <2>3 DEF n
  <2>5. \A k \in 1 .. Len(path) : path[k] = "it" \/ Len(path) + 1 - k \in mounts'
    BY PwdTypes, LenProperties DEF PwdInv, Pwd!PathIsPrinted
  <2> QED BY <2>1, <2>4, <2>5, PwdTypes, PwdKept
<1>7. CASE found # 0 /\ above.ino = ino
  <2>1. found = 1
    BY <1>2, <1>3, <1>4, <1>5, <1>7
  <2>2. climb' = "done" /\ UNCHANGED <<dirs, path>>
    BY <1>1, <1>3, <1>4, <1>7, <2>1
  <2>3. \A k \in 1 .. Len(path) : path[k] = "it" \/ Len(path) + 1 - k \in mounts'
    BY PwdTypes, LenProperties DEF PwdInv, Pwd!PathIsPrinted
  <2> QED BY <2>2, <2>3, PwdTypes, PwdKept
<1>8. CASE found # 0 /\ above.ino # ino
  <2> DEFINE name == listing[found].name
  <2>1. found \in 2 .. 2 + n
    BY <1>2, <1>3, <1>4, <1>5, <1>8
  <2>2. found = 2 \/ (found \in 3 .. 2 + n /\ found - 2 \in 1 .. n /\ listing[found] = others[found - 2])
    BY <1>2, <1>4, <2>1
  <2>3. name \in {"it", "other", ".."}
    BY <1>3, <1>4, <2>2 DEF n
  <2>4. name = "it" \/ Len(dirs) \in mounts'
    <3>1. CASE found = 2
      BY <1>3, <1>4, <1>5, <1>8, <3>1
    <3>2. CASE found # 2
      BY <1>5, <1>8, <2>2, <3>2 DEF n
    <3> QED BY <3>1, <3>2
  <2> HIDE DEF name
  <2>5. path' = <<name>> \o path /\ dirs' = Append(dirs, above) /\ Len(dirs) < MaxDepth /\ climb' = climb
    BY <1>1, <1>8, <2>3 DEF name
  <2>6. dirs' \in Seq(Dirs) /\ Len(dirs') = Len(dirs) + 1 /\ Len(dirs') \in 1 .. MaxDepth
    <3>1. dirs \in Seq(Dirs) /\ Len(dirs) \in 1 .. MaxDepth /\ MaxDepth \in Nat
      BY PwdTypes
    <3>2. dirs' \in Seq(Dirs) /\ Len(dirs') = Len(dirs) + 1
      BY <2>5, <3>1, AppendProperties
    <3> QED BY <2>5, <3>1, <3>2
  <2> DEFINE one == <<name>>
             words == {"it", "other", ".."}
  <2>7. one \in Seq(words) /\ Len(one) = 1 /\ one[1] = name
    BY <2>3
  <2>8. path \in Seq(words) /\ Len(path) \in Nat /\ Len(path) = Len(dirs) - 1 /\ Len(dirs) \in Nat
    BY PwdTypes, LenProperties
  <2> HIDE DEF one, words
  <2>9. /\ path' \in Seq(words) /\ Len(path') = 1 + Len(path)
        /\ \A k \in 1 .. 1 + Len(path) : path'[k] = IF k <= 1 THEN one[k] ELSE path[k - 1]
    <3>1. /\ one \o path \in Seq(words) /\ Len(one \o path) = Len(one) + Len(path)
          /\ \A k \in 1 .. Len(one) + Len(path) :
                (one \o path)[k] = IF k <= Len(one) THEN one[k] ELSE path[k - Len(one)]
      BY ONLY <2>7, <2>8, ConcatProperties
    <3> QED BY <2>5, <2>7, <3>1 DEF one
  <2>10. ASSUME NEW k \in 1 .. Len(path') PROVE path'[k] = "it" \/ Len(path') + 1 - k \in mounts'
    <3>1. CASE k = 1
      BY <2>4, <2>7, <2>8, <2>9, <3>1
    <3>2. CASE k # 1
      <4>1. k - 1 \in 1 .. Len(path) /\ path'[k] = path[k - 1] /\ Len(path') + 1 - k = Len(path) + 1 - (k - 1)
        BY <2>8, <2>9, <3>2
      <4>2. path[k - 1] = "it" \/ Len(path) + 1 - (k - 1) \in mounts
        BY <2>8, <4>1, LenProperties DEF PwdInv, Pwd!PathIsPrinted
      <4> QED BY <4>1, <4>2
    <3> QED BY <3>1, <3>2
  <2>11. mounts' \subseteq 1 .. Len(dirs') /\ climb' # "crashed" /\ climb' = "up"
    BY <2>5, <2>6, <2>8
  <2>12. Len(path') = Len(dirs') - 1
    BY <2>6, <2>8, <2>9
  <2> QED BY <2>6, <2>9, <2>10, <2>11, <2>12, PwdKept DEF words
<1> QED BY <1>6, <1>7, <1>8

LEMMA PwdInit == ASSUME Pwd!MyPWDAssumption, Pwd!Init PROVE PwdInv
<1>1. PICK ino \in Inodes, up \in Inodes : dirs = <<[ino |-> ino, up |-> up]>>
  BY DEF Pwd!Init
<1>2. dirs \in Seq(Dirs) /\ Len(dirs) = 1
  BY <1>1 DEF Dirs
<1>3. << >> \in Seq({"it", "other", ".."}) /\ Len(<< >>) = 0
  BY EmptySeq
<1>4. path = << >> /\ mounts = {} /\ climb = "up" /\ MaxDepth \in Nat \ {0}
  BY DEF Pwd!Init, Pwd!MyPWDAssumption
<1>5. path \in Seq({"it", "other", ".."}) /\ Len(path) = 0 /\ DOMAIN path = {}
  BY <1>3, <1>4
<1>6. path \in Pwd!SeqOf({"it", "other", ".."}, MaxDepth)
  <2>1. Len(path) <= MaxDepth /\ MaxDepth \in Nat
    BY <1>4, <1>5
  <2> QED BY <1>5, <2>1, PwdSeqOf
<1> QED BY <1>2, <1>4, <1>5, <1>6 DEF PwdInv, Pwd!TypeOK, Pwd!PathIsPrinted, Dirs

(* The parent's list in either order.                                       *)
LEMMA PwdParent ==
    ASSUME Pwd!MyPWDAssumption, PwdInv, climb = "up",
           NEW ino \in Inodes, NEW up \in Inodes, NEW it \in Inodes, Pwd!Parent(ino, up, it),
           mounts \subseteq mounts', mounts' \subseteq 1 .. Len(dirs),
           \/ Len(dirs) \in mounts'
           \/ ino # Pwd!here.ino /\ up # Pwd!here.ino /\ it = Pwd!here.ino
    PROVE  PwdInv'
<1> DEFINE above == [ino |-> ino, up |-> up]
<1>1. PICK other \in Inodes \ {ino, up, it} :
         LET e == <<Pwd!Entry("it", it), Pwd!Entry("other", other)>>
         IN  Pwd!Search(above, e) \/ Pwd!Search(above, Pwd!Reverse(e))
  BY DEF Pwd!Parent
<1> DEFINE e == <<Pwd!Entry("it", it), Pwd!Entry("other", other)>>
           r == Pwd!Reverse(e)
<1>2. /\ e \in Seq(Entries) /\ Len(e) = 2
      /\ e[1].name = "it" /\ e[1].ino = it /\ e[2].name = "other" /\ e[2].ino = other
  BY DEF Pwd!Entry, Entries
<1>3. r \in Seq(Entries) /\ Len(r) = 2 /\ r[1] = e[2] /\ r[2] = e[1]
  <2>1. r = [k \in 1 .. 2 |-> e[2 - k + 1]]
    BY <1>2 DEF Pwd!Reverse
  <2> HIDE DEF e, r
  <2>2. \A k \in 1 .. 2 : e[2 - k + 1] \in Entries
    <3>1. ASSUME NEW k \in 1 .. 2 PROVE 2 - k + 1 \in 1 .. Len(e)
      BY <1>2
    <3> QED BY <1>2, <3>1, ElementOfSeq
  <2>3. r \in [1 .. 2 -> Entries]
    BY <2>1, <2>2
  <2>4. r \in Seq(Entries)
    BY <2>3, SeqDef
  <2> QED BY <2>1, <2>3, <2>4, LenProperties
<1> HIDE DEF e, r
<1>4. above \in Dirs
  BY DEF Dirs
<1>5. ASSUME NEW s \in Seq(Entries), Len(s) = 2, Pwd!Search(above, s),
             (s[1] = e[1] /\ s[2] = e[2]) \/ (s[1] = e[2] /\ s[2] = e[1])
      PROVE  PwdInv'
  <2>1. \A k \in 1 .. Len(s) : k = 1 \/ k = 2
    BY <1>5
  <2>2. \A k \in 1 .. Len(s) : s[k].name \in {"it", "other"}
    BY <1>2, <1>5, <2>1
  <2>3. ASSUME ino # Pwd!here.ino, up # Pwd!here.ino, it = Pwd!here.ino
        PROVE  /\ \E k \in 1 .. Len(s) : s[k].ino = Pwd!here.ino
               /\ \A k \in 1 .. Len(s) : s[k].ino = Pwd!here.ino => s[k].name = "it"
    <3>1. other # it /\ 1 \in 1 .. Len(s) /\ 2 \in 1 .. Len(s)
      BY <1>5
    <3>2. s[1].ino = it \/ s[2].ino = it
      BY <1>2, <1>5
    <3>3. \A k \in 1 .. Len(s) : s[k].ino = it => s[k].name = "it"
      BY <1>2, <1>5, <2>1, <3>1
    <3> QED BY <2>3, <3>1, <3>2, <3>3
  <2>4. above.ino = ino /\ above.up = up
    OBVIOUS
  <2> HIDE DEF above
  <2>5. Len(s) <= 2
    BY <1>5
  <2> QED BY <1>4, <1>5, <2>2, <2>3, <2>4, <2>5, PwdSearch
<1> HIDE DEF above
<1> QED BY <1>1, <1>2, <1>3, <1>5 DEF e, r

LEMMA PwdStep == ASSUME Pwd!MyPWDAssumption, PwdInv, [Pwd!Next]_pwdvars PROVE PwdInv'
<1>1. CASE UNCHANGED pwdvars
  BY <1>1 DEF pwdvars, PwdInv, Pwd!TypeOK, Pwd!PathIsPrinted
<1>2. CASE climb = "up" /\ Pwd!AtRoot
  <2> DEFINE e == << >>
  <2>1. e \in Seq(Entries) /\ Len(e) = 0
    BY EmptySeq
  <2>2. Pwd!Search(Pwd!here, e) /\ mounts' = mounts
    BY <1>2 DEF Pwd!AtRoot
  <2> HIDE DEF e
  <2>3. Len(e) <= 2 /\ \A k \in 1 .. Len(e) : e[k].name \in {"it", "other"}
    BY <2>1
  <2>4. Pwd!here \in Dirs /\ mounts \subseteq mounts' /\ mounts' \subseteq 1 .. Len(dirs)
    BY <2>2, PwdTypes
  <2> QED BY <1>2, <2>1, <2>2, <2>3, <2>4, PwdSearch
<1>3. CASE climb = "up" /\ Pwd!Inside
  <2>1. PICK up \in Inodes \ {Pwd!here.ino} : Pwd!Parent(Pwd!here.up, up, Pwd!here.ino)
    BY <1>3 DEF Pwd!Inside
  <2>2. Pwd!here.ino \in Inodes /\ Pwd!here.up \in Inodes /\ Pwd!here.up # Pwd!here.ino
    BY <1>3, PwdTypes DEF Pwd!Inside, Pwd!Top, Dirs
  <2>3. mounts' = mounts /\ mounts' \subseteq 1 .. Len(dirs)
    BY <1>3, PwdTypes DEF Pwd!Inside
  <2> QED BY <1>3, <2>1, <2>2, <2>3, PwdParent
<1>4. CASE climb = "up" /\ Pwd!Mounted
  <2>1. PICK ino \in Inodes, up \in Inodes : \E covered \in Inodes \ {ino, up} : Pwd!Parent(ino, up, covered)
    BY <1>4 DEF Pwd!Mounted
  <2>2. PICK covered \in Inodes : Pwd!Parent(ino, up, covered)
    BY <2>1
  <2>3. mounts' = mounts \cup {Len(dirs)} /\ mounts' \subseteq 1 .. Len(dirs)
    BY <1>4, PwdTypes DEF Pwd!Mounted
  <2> QED BY <1>4, <2>2, <2>3, PwdParent
<1>5. CASE climb = "up" /\ Pwd!Unreadable
  <2>1. climb' = "unreadable" /\ UNCHANGED <<dirs, mounts, path>>
    BY <1>5 DEF Pwd!Unreadable
  <2> QED BY <2>1 DEF PwdInv, Pwd!TypeOK, Pwd!PathIsPrinted
<1> QED BY <1>1, <1>2, <1>3, <1>4, <1>5 DEF Pwd!Next, Pwd!printPWD

-----------------------------------------------------------------------------
(* producerConsumer0.c: what main ordered is made, for any number of        *)
(* threads and any buffer.                                                  *)

(* The two things that the program leaves to the build and to its numbers.  *)
OwnPlaces == ~OnePlace /\ PRODUCERNUM <= CONSUMERNUM

(* A producer that exists finds its order where main has put it: whatever   *)
(* main fills in later in the same place is the same food.                  *)
OrdersStand ==
    \A t \in Food!Producers : t < threads => \A f \in Food!Fields : storage[Food!place(t)][f] = Food!order(t)

(* What main has filled in stays until the thread is created.               *)
FilledStands == threads \in Food!Producers => \A f \in filled : storage[Food!place(threads)][f] = Food!order(threads)

CopiedBelow == \A t \in Food!Producers : t >= threads => uncopied[t] = Food!Fields

FoodInv ==
    /\ Food!TypeOK
    /\ CopiedBelow
    /\ OwnPlaces => OrdersStand /\ FilledStands /\ Food!ProductsAsOrdered
    /\ Food!FoodsAreProducts

(* Producers that look in the same place are to make the same food.         *)
LEMMA PlaceTells ==
    ASSUME OwnPlaces, NEW s, NEW t, Food!place(s) = Food!place(t)
    PROVE  Food!order(s) = Food!order(t)
BY DEF OwnPlaces, Food!place, Food!order

LEMMA OrderType == ASSUME NEW t PROVE Food!order(t) \in Food!Foods
BY DEF Food!order, Food!Foods

LEMMA PlaceType == ASSUME NEW t PROVE Food!place(t) \in Food!Places
BY DEF Food!place, Food!Places

LEMMA FoodInit == ASSUME Food!ProducerConsumer0Assumption, Food!Init PROVE FoodInv
<1>1. Food!TypeOK
  BY DEF Food!ProducerConsumer0Assumption, Food!Init, Food!TypeOK, Food!Values, Food!Foods,
     Food!Producers
<1>2. CopiedBelow /\ OrdersStand /\ FilledStands
  BY DEF Food!Init, CopiedBelow, OrdersStand, FilledStands, Food!Producers
<1>3. Food!ProductsAsOrdered
  BY DEF Food!Init, Food!ProductsAsOrdered
<1>4. Food!FoodsAreProducts
  BY DEF Food!Init, Food!FoodsAreProducts
<1> QED
  BY <1>1, <1>2, <1>3, <1>4 DEF FoodInv

(* main stores a field.                                                     *)
LEMMA FillFieldInv ==
    ASSUME Food!ProducerConsumer0Assumption, FoodInv, NEW g \in Food!Fields, Food!FillField(g)
    PROVE  FoodInv'
<1> USE DEF Food!FillField
<1>1. storage' \in [Food!Places -> [Food!Fields -> Food!Values]]
  <2>1. Food!order(threads) \in Food!Values /\ Food!place(threads) \in Food!Places
    BY OrderType, PlaceType DEF Food!Values
  <2> QED BY <2>1 DEF FoodInv, Food!TypeOK
<1>2. Food!TypeOK'
  BY <1>1 DEF FoodInv, Food!TypeOK
<1>3. CopiedBelow'
  BY DEF FoodInv, CopiedBelow
<1>4. ASSUME OwnPlaces PROVE OrdersStand' /\ FilledStands'
  <2>0. OrdersStand /\ FilledStands
    BY <1>4 DEF FoodInv
  <2>1. ASSUME NEW t \in Food!Producers, t < threads, NEW f \in Food!Fields
        PROVE  storage'[Food!place(t)][f] = Food!order(t)
    <3>1. storage[Food!place(t)][f] = Food!order(t)
      BY <2>0, <2>1 DEF OrdersStand
    <3>2. CASE Food!place(t) = Food!place(threads) /\ f = g
      <4>1. storage'[Food!place(t)][f] = Food!order(threads)
        BY <3>2, PlaceType DEF FoodInv, Food!TypeOK
      <4>2. Food!order(t) = Food!order(threads)
        BY <1>4, <3>2, PlaceTells
      <4> QED BY <4>1, <4>2
    <3>3. CASE ~(Food!place(t) = Food!place(threads) /\ f = g)
      <4>1. storage'[Food!place(t)][f] = storage[Food!place(t)][f]
        BY <3>3, PlaceType DEF FoodInv, Food!TypeOK
      <4> QED BY <4>1, <3>1
    <3> QED BY <3>2, <3>3
  <2>2. ASSUME NEW f \in filled' PROVE storage'[Food!place(threads)][f] = Food!order(threads)
    <3>1. f \in Food!Fields /\ Food!place(threads) \in Food!Places /\ (f = g \/ f \in filled)
      BY PlaceType DEF FoodInv, Food!TypeOK
    <3> QED BY <3>1, <2>0 DEF FoodInv, Food!TypeOK, FilledStands
  <2> QED BY <2>1, <2>2 DEF OrdersStand, FilledStands
<1>5. (OwnPlaces => Food!ProductsAsOrdered') /\ Food!FoodsAreProducts'
  BY DEF FoodInv, Food!ProductsAsOrdered, Food!FoodsAreProducts
<1> QED BY <1>2, <1>3, <1>4, <1>5 DEF FoodInv

(* main creates a producer, which finds what was filled in.                 *)
LEMMA CreateProducerInv ==
    ASSUME Food!ProducerConsumer0Assumption, FoodInv, Food!CreateProducer
    PROVE  FoodInv'
<1> USE DEF Food!CreateProducer
<1>1. threads' \in 0 .. PRODUCERNUM + CONSUMERNUM
  BY DEF Food!Producers, Food!ProducerConsumer0Assumption, FoodInv, Food!TypeOK
<1>2. storage' \in [Food!Places -> [Food!Fields -> Food!Values]]
  BY DEF FoodInv, Food!TypeOK, Food!Values
<1>3. Food!TypeOK'
  BY <1>1, <1>2 DEF FoodInv, Food!TypeOK
<1>4. CopiedBelow'
  BY DEF FoodInv, Food!TypeOK, CopiedBelow, Food!Producers, Food!ProducerConsumer0Assumption
<1>5. ASSUME OwnPlaces PROVE OrdersStand' /\ FilledStands'
  <2>1. threads < CONSUMERNUM
    BY <1>5 DEF OwnPlaces, Food!Producers, Food!ProducerConsumer0Assumption
  <2>2. ASSUME NEW p \in Food!Places, NEW f \in Food!Fields PROVE storage'[p][f] = storage[p][f]
    BY <2>1, <2>2
  <2>3. OrdersStand /\ FilledStands
    BY <1>5 DEF FoodInv
  <2>4. ASSUME NEW t \in Food!Producers, t < threads + 1, NEW f \in Food!Fields
        PROVE  storage'[Food!place(t)][f] = Food!order(t)
    <3>1. t < threads \/ t = threads
      BY <2>4 DEF Food!Producers
    <3>2. storage[Food!place(t)][f] = Food!order(t)
      BY <3>1, <2>3 DEF OrdersStand, FilledStands
    <3> QED BY <3>2, <2>2, PlaceType
  <2> QED BY <2>4 DEF OrdersStand, FilledStands
<1>6. OwnPlaces => Food!ProductsAsOrdered'
  BY DEF FoodInv, Food!ProductsAsOrdered
<1>7. Food!FoodsAreProducts'
  <2>1. threads' = threads + 1 /\ UNCHANGED <<uncopied, product, food_num, food_arr>>
    OBVIOUS
  <2>2. \A t \in Food!Producers : t < threads => t < threads + 1
    BY DEF FoodInv, Food!TypeOK, Food!Producers, Food!ProducerConsumer0Assumption
  <2> HIDE DEF Food!CreateProducer
  <2> QED BY <2>1, <2>2 DEF FoodInv, Food!FoodsAreProducts
<1> QED BY <1>3, <1>4, <1>5, <1>6, <1>7 DEF FoodInv

(* main creates a consumer.                                                 *)
LEMMA CreateConsumerInv ==
    ASSUME Food!ProducerConsumer0Assumption, FoodInv, Food!CreateConsumer
    PROVE  FoodInv'
<1> USE DEF Food!CreateConsumer
<1>0. threads \in Int /\ threads >= PRODUCERNUM /\ PRODUCERNUM \in Nat /\ CONSUMERNUM \in Nat
  BY DEF Food!ProducerConsumer0Assumption
<1>1. Food!TypeOK'
  BY <1>0 DEF FoodInv, Food!TypeOK
<1>2. CopiedBelow'
  BY <1>0 DEF FoodInv, CopiedBelow, Food!Producers
<1>3. ASSUME OwnPlaces PROVE OrdersStand' /\ FilledStands'
  <2>1. OrdersStand
    BY <1>3 DEF FoodInv
  <2>2. \A t \in Food!Producers : t < threads
    BY <1>0 DEF Food!Producers
  <2>3. threads' \notin Food!Producers
    BY <1>0 DEF Food!Producers
  <2> QED BY <2>1, <2>2, <2>3 DEF OrdersStand, FilledStands
<1>4. OwnPlaces => Food!ProductsAsOrdered'
  BY DEF FoodInv, Food!ProductsAsOrdered
<1>5. Food!FoodsAreProducts'
  BY <1>0 DEF FoodInv, Food!FoodsAreProducts, Food!Producers
<1> QED BY <1>1, <1>2, <1>3, <1>4, <1>5 DEF FoodInv

(* A producer copies a field of its order.                                  *)
LEMMA CopyFieldInv ==
    ASSUME Food!ProducerConsumer0Assumption, FoodInv, NEW p \in Food!Producers, NEW g \in Food!Fields, Food!CopyField(p, g)
    PROVE  FoodInv'
<1> USE DEF Food!CopyField
<1>1. storage[Food!place(p)][g] \in Food!Values
  BY PlaceType DEF FoodInv, Food!TypeOK
<1>2. Food!TypeOK'
  BY <1>1 DEF FoodInv, Food!TypeOK
<1>3. CopiedBelow'
  <2>1. p \in Int /\ threads \in Int
    BY DEF FoodInv, Food!TypeOK, Food!Producers, Food!ProducerConsumer0Assumption
  <2> QED BY <2>1 DEF FoodInv, Food!TypeOK, CopiedBelow
<1>4. OwnPlaces => OrdersStand' /\ FilledStands'
  BY DEF FoodInv, OrdersStand, FilledStands
<1>5. ASSUME OwnPlaces, NEW t \in Food!Producers, NEW f \in Food!Fields \ uncopied'[t]
      PROVE  product'[t][f] = Food!order(t)
  <2>1. CASE t = p /\ f = g
    <3>1. product'[t][f] = storage[Food!place(p)][g]
      BY <2>1 DEF FoodInv, Food!TypeOK
    <3>2. storage[Food!place(p)][g] = Food!order(p)
      BY <1>5 DEF FoodInv, OrdersStand
    <3> QED BY <3>1, <3>2, <2>1
  <2>2. CASE ~(t = p /\ f = g)
    <3>1. product'[t][f] = product[t][f] /\ f \in Food!Fields \ uncopied[t]
      BY <2>2, <1>5 DEF FoodInv, Food!TypeOK
    <3> QED BY <3>1, <1>5 DEF FoodInv, Food!ProductsAsOrdered
  <2> QED BY <2>1, <2>2
<1>6. OwnPlaces => Food!ProductsAsOrdered'
  BY <1>5 DEF Food!ProductsAsOrdered
<1>7. Food!FoodsAreProducts'
  <2> SUFFICES ASSUME NEW k \in 0 .. food_num - 1
               PROVE  \E t \in Food!Producers : t < threads /\ uncopied'[t] = {} /\ food_arr[k] = product'[t]
    BY DEF Food!FoodsAreProducts
  <2>1. PICK t \in Food!Producers : t < threads /\ uncopied[t] = {} /\ food_arr[k] = product[t]
    BY DEF FoodInv, Food!FoodsAreProducts
  <2>2. t # p
    BY <2>1
  <2> QED BY <2>1, <2>2 DEF FoodInv, Food!TypeOK
<1> QED BY <1>2, <1>3, <1>4, <1>6, <1>7 DEF FoodInv

(* A producer puts what it makes into the buffer.                           *)
LEMMA ProduceInv ==
    ASSUME Food!ProducerConsumer0Assumption, FoodInv, NEW p \in Food!Producers, Food!Produce(p)
    PROVE  FoodInv'
<1> USE DEF Food!Produce
<1>1. food_num \in 0 .. FOODNUMMAX - 1 /\ food_num \in Nat
  BY DEF FoodInv, Food!TypeOK, Food!ProducerConsumer0Assumption
<1>2. food_num' \in 0 .. FOODNUMMAX
  BY <1>1 DEF Food!ProducerConsumer0Assumption
<1>3. Food!TypeOK'
  BY <1>1, <1>2 DEF FoodInv, Food!TypeOK
<1>4. CopiedBelow' /\ (OwnPlaces => OrdersStand' /\ FilledStands' /\ Food!ProductsAsOrdered')
  BY DEF FoodInv, CopiedBelow, OrdersStand, FilledStands, Food!ProductsAsOrdered
<1>5. Food!FoodsAreProducts'
  <2> SUFFICES ASSUME NEW k \in 0 .. food_num' - 1
               PROVE  \E t \in Food!Producers : t < threads /\ uncopied[t] = {} /\ food_arr'[k] = product[t]
    BY DEF Food!FoodsAreProducts
  <2>1. k \in 0 .. food_num - 1 \/ k = food_num
    BY <1>1
  <2>2. CASE k = food_num
    BY <2>2, <1>1 DEF FoodInv, Food!TypeOK
  <2>3. CASE k \in 0 .. food_num - 1
    <3>1. food_arr'[k] = food_arr[k]
      BY <2>3, <1>1 DEF FoodInv, Food!TypeOK
    <3> QED BY <3>1, <2>3 DEF FoodInv, Food!FoodsAreProducts
  <2> QED BY <2>1, <2>2, <2>3
<1> QED BY <1>3, <1>4, <1>5 DEF FoodInv

(* A consumer takes one out.                                                *)
LEMMA ConsumeInv ==
    ASSUME Food!ProducerConsumer0Assumption, FoodInv, Food!consume_food
    PROVE  FoodInv'
<1> USE DEF Food!consume_food
<1>1. food_num' \in 0 .. FOODNUMMAX /\ 0 .. food_num' - 1 \subseteq 0 .. food_num - 1
  BY DEF FoodInv, Food!TypeOK, Food!ProducerConsumer0Assumption
<1>2. Food!TypeOK'
  BY <1>1 DEF FoodInv, Food!TypeOK
<1>3. CopiedBelow' /\ (OwnPlaces => OrdersStand' /\ FilledStands' /\ Food!ProductsAsOrdered')
  BY DEF FoodInv, CopiedBelow, OrdersStand, FilledStands, Food!ProductsAsOrdered
<1>4. Food!FoodsAreProducts'
  BY <1>1 DEF FoodInv, Food!FoodsAreProducts
<1> QED BY <1>2, <1>3, <1>4 DEF FoodInv

LEMMA FoodStep == ASSUME Food!ProducerConsumer0Assumption, FoodInv, [Food!Next]_foodvars PROVE FoodInv'
<1>1. ASSUME NEW f \in Food!Fields, Food!FillField(f) PROVE FoodInv'
  BY <1>1, FillFieldInv
<1>2. CASE Food!CreateProducer
  BY <1>2, CreateProducerInv
<1>3. CASE Food!CreateConsumer
  BY <1>3, CreateConsumerInv
<1>4. ASSUME NEW t \in Food!Producers, Food!produce_food(t) PROVE FoodInv'
  BY <1>4, CopyFieldInv, ProduceInv DEF Food!produce_food
<1>5. CASE Food!consume_food
  BY <1>5, ConsumeInv
<1>6. CASE UNCHANGED foodvars
  <2> USE <1>6 DEF foodvars
  <2>1. Food!TypeOK'
    BY DEF FoodInv, Food!TypeOK
  <2>2. CopiedBelow' /\ (OwnPlaces => OrdersStand' /\ FilledStands' /\ Food!ProductsAsOrdered')
    BY DEF FoodInv, CopiedBelow, OrdersStand, FilledStands, Food!ProductsAsOrdered
  <2>3. Food!FoodsAreProducts'
    BY DEF FoodInv, Food!FoodsAreProducts
  <2> QED BY <2>1, <2>2, <2>3 DEF FoodInv
<1> QED BY <1>1, <1>2, <1>3, <1>4, <1>5, <1>6 DEF Food!Next, Food!main
=============================================================================
