------------------------- MODULE LinkedBufferProofs -------------------------
(***************************************************************************)
(* LinkedBuffer for every size of a node and of the chunks, every sequence *)
(* of operations and every number of nodes.                                *)
(***************************************************************************)
EXTENDS LinkedBuffer, Induction

(* Sequences.                                                              *)

\* Two sequences, one behind the other.
LEMMA SeqConcat ==
  ASSUME NEW S, NEW s \in Seq(S), NEW t \in Seq(S)
  PROVE  /\ s \o t \in Seq(S)
         /\ Len(s \o t) = Len(s) + Len(t)
         /\ \A i \in 1..Len(s) : (s \o t)[i] = s[i]
         /\ \A i \in 1..Len(t) : (s \o t)[Len(s) + i] = t[i]
BY SMT

\* Sequences of the same length with the same elements are equal.
LEMMA SeqEqual ==
  ASSUME NEW S, NEW T, NEW s \in Seq(S), NEW t \in Seq(T),
         Len(s) = Len(t), \A i \in 1..Len(s) : s[i] = t[i]
  PROVE  s = t
BY SMT

Assoc(s, t, u) == (s \o t) \o u = s \o (t \o u)

\* How three sequences are put together does not matter.
LEMMA ConcatAssoc ==
  ASSUME NEW S, NEW s \in Seq(S), NEW t \in Seq(S), NEW u \in Seq(S)
  PROVE  Assoc(s, t, u)
BY SMT DEF Assoc

\* Nothing in front of a sequence, or behind it.
LEMMA ConcatEmpty ==
  ASSUME NEW S, NEW s \in Seq(S)
  PROVE  <<>> \o s = s /\ s \o <<>> = s /\ <<>> \in Seq(S)
BY SMT

\* A sequence is a part of it and what follows that part.
LEMMA SubSeqSplit ==
  ASSUME NEW S, NEW s \in Seq(S), NEW a \in Nat, NEW b \in Nat, a <= b, b <= Len(s)
  PROVE  /\ SubSeq(s, a + 1, b) \in Seq(S)
         /\ SubSeq(s, b + 1, Len(s)) \in Seq(S)
         /\ SubSeq(s, a + 1, Len(s)) = SubSeq(s, a + 1, b) \o SubSeq(s, b + 1, Len(s))
<1>1. /\ SubSeq(s, a + 1, b) \in Seq(S) /\ Len(SubSeq(s, a + 1, b)) = b - a
      /\ SubSeq(s, b + 1, Len(s)) \in Seq(S)
      /\ Len(SubSeq(s, b + 1, Len(s))) = Len(s) - b
      /\ SubSeq(s, a + 1, Len(s)) \in Seq(S)
      /\ Len(SubSeq(s, a + 1, Len(s))) = Len(s) - a
  BY SMT
<1>2. /\ \A i \in 1..(b - a) : SubSeq(s, a + 1, b)[i] = s[a + i]
      /\ \A i \in 1..(Len(s) - b) : SubSeq(s, b + 1, Len(s))[i] = s[b + i]
      /\ \A i \in 1..(Len(s) - a) : SubSeq(s, a + 1, Len(s))[i] = s[a + i]
  BY SMT
<1> DEFINE x == SubSeq(s, a + 1, b)
           y == SubSeq(s, b + 1, Len(s))
           z == SubSeq(s, a + 1, Len(s))
<1>3. /\ x \in Seq(S) /\ y \in Seq(S) /\ z \in Seq(S) /\ Len(s) \in Nat
      /\ Len(x) = b - a /\ Len(y) = Len(s) - b /\ Len(z) = Len(s) - a
  BY <1>1, SMT
<1> HIDE DEF x, y, z
<1>4. /\ x \o y \in Seq(S) /\ Len(x \o y) = Len(x) + Len(y)
      /\ \A i \in 1..Len(x) : (x \o y)[i] = x[i]
      /\ \A i \in 1..Len(y) : (x \o y)[Len(x) + i] = y[i]
  BY <1>3, SMTT(60)
<1>5. Len(x \o y) = Len(z)
  BY <1>3, <1>4, SMT
<1>6. ASSUME NEW i \in 1..Len(z) PROVE z[i] = (x \o y)[i]
  <2>1. z[i] = s[a + i]
    BY <1>2, <1>3, SMT DEF z
  <2>2. CASE i <= b - a
    <3>1. i \in 1..Len(x) /\ i \in 1..(b - a)
      BY <1>3, <2>2, SMT
    <3>2. x[i] = s[a + i]
      BY <3>1, <1>2, Zenon DEF x
    <3> QED
      BY <2>1, <3>1, <3>2, <1>4, Zenon
  <2>3. CASE ~(i <= b - a)
    <3> DEFINE j == i - (b - a)
    <3>1. j \in 1..Len(y) /\ i = Len(x) + j /\ j \in 1..(Len(s) - b) /\ b + j = a + i
      BY <1>3, <2>3, SMT
    <3> HIDE DEF j
    <3>2. y[j] = s[b + j]
      BY <3>1, <1>2, Zenon DEF y
    <3> QED
      BY <2>1, <3>1, <3>2, <1>4, Zenon
  <2> QED
    BY <2>2, <2>3, Zenon
<1>7. z = x \o y
  BY <1>3, <1>4, <1>5, <1>6, SeqEqual, Zenon
<1> QED
  BY <1>3, <1>7, Zenon DEF x, y, z

SuffixOf(s, m) == SubSeq(s, m + 1, Len(s))
SuffixIs(s, t, m) == SuffixOf(s \o t, m) = SuffixOf(s, m) \o t
SuffixAll(s, t) == SuffixOf(s \o t, Len(s)) = t

\* The suffixes of two sequences one after the other.
LEMMA SubSeqConcat ==
  ASSUME NEW S, NEW s, s \in Seq(S), NEW t, t \in Seq(S)
  PROVE  /\ SuffixAll(s, t)
         /\ \A m \in Nat : m <= Len(s) => SuffixIs(s, t, m)
<1> DEFINE w == s \o t
           n == Len(s)
<1>1. /\ w \in Seq(S) /\ Len(w) = n + Len(t) /\ n \in Nat /\ Len(t) \in Nat
      /\ \A i \in 1..n : w[i] = s[i]
      /\ \A i \in 1..Len(t) : w[n + i] = t[i]
  BY SMT
<1> HIDE DEF w
<1>2. SubSeq(w, n + 1, Len(w)) = t
  <2> DEFINE z == SubSeq(w, n + 1, Len(w))
  <2>1. z \in Seq(S) /\ Len(z) = Len(t) /\ \A i \in 1..Len(t) : z[i] = w[n + i]
    BY <1>1, SMT
  <2> HIDE DEF z
  <2>2. \A i \in 1..Len(z) : z[i] = t[i]
    BY <2>1, <1>1, Zenon
  <2>3. z = t
    BY <2>1, <2>2, SeqEqual, Zenon
  <2> QED
    BY <2>3 DEF z
<1>3. ASSUME NEW m \in Nat, m <= n
      PROVE  SubSeq(w, m + 1, Len(w)) = SubSeq(s, m + 1, n) \o t
  <2>1. n <= Len(w)
    BY <1>1, SMT
  <2>2. SubSeq(w, m + 1, Len(w)) = SubSeq(w, m + 1, n) \o SubSeq(w, n + 1, Len(w))
    BY <1>1, <1>3, <2>1, SubSeqSplit, ZenonT(60)
  <2>3. SubSeq(w, m + 1, n) = SubSeq(s, m + 1, n)
    <3> DEFINE y == SubSeq(w, m + 1, n)
               z == SubSeq(s, m + 1, n)
    <3>1. /\ y \in Seq(S) /\ Len(y) = n - m /\ \A i \in 1..(n - m) : y[i] = w[m + i]
      BY <1>1, <1>3, SMT
    <3>2. /\ z \in Seq(S) /\ Len(z) = n - m /\ \A i \in 1..(n - m) : z[i] = s[m + i]
      BY <1>1, <1>3, SMT
    <3> HIDE DEF y, z
    <3>3. \A i \in 1..(n - m) : m + i \in 1..n
      BY <1>1, <1>3, SMT
    <3>4. \A i \in 1..Len(y) : y[i] = z[i]
      BY <3>1, <3>2, <3>3, <1>1, ZenonT(60)
    <3>5. y = z
      BY <3>1, <3>2, <3>4, SeqEqual, Zenon
    <3> QED
      BY <3>5 DEF y, z
  <2> QED
    BY <2>2, <2>3, <1>2, Zenon
<1> QED
  BY <1>2, <1>3, Zenon DEF w, SuffixOf, SuffixIs, SuffixAll

-----------------------------------------------------------------------------
(* Pieces, one after the other.                                            *)

\* The recursion of Prefixes.
LEMMA PrefixesIs ==
  ASSUME NEW S, NEW s \in Seq(Seq(S))
  PROVE  /\ \A k \in 0..Len(s) :
              Prefixes(s)[k] = IF k = 0 THEN <<>> ELSE Prefixes(s)[k - 1] \o s[k]
         /\ \A k \in 0..Len(s) : Prefixes(s)[k] \in Seq(S)
<1> DEFINE Is(f, n) == f = [k \in 0..n |-> IF k = 0 THEN <<>> ELSE f[k - 1] \o s[k]]
           T == {n \in Nat : \E f : Is(f, n)}
<1>1. 0 \in T
  <2> DEFINE f == [k \in 0..0 |-> <<>>]
  <2>1. Is(f, 0)
    BY SMT
  <2> QED
    BY <2>1, Zenon
<1>2. \A n \in Nat : n \in T => n + 1 \in T
  <2> SUFFICES ASSUME NEW n \in Nat, NEW f, Is(f, n) PROVE \E g : Is(g, n + 1)
    <3>1. \A n \in Nat : n + 1 \in Nat
      OBVIOUS
    <3> QED
      BY <3>1, Zenon
  <2> DEFINE g == [k \in 0..(n + 1) |-> IF k <= n THEN f[k] ELSE f[n] \o s[n + 1]]
  <2>1. \A k \in 0..n : f[k] = IF k = 0 THEN <<>> ELSE f[k - 1] \o s[k]
    BY Zenon
  <2>2. \A k \in 0..(n + 1) : g[k] = IF k <= n THEN f[k] ELSE f[n] \o s[n + 1]
    BY Zenon
  <2>3. ASSUME NEW k \in 0..(n + 1)
        PROVE  g[k] = IF k = 0 THEN <<>> ELSE g[k - 1] \o s[k]
    <3> HIDE DEF g
    <3>1. CASE k \in 0..n
      <4>1. k # 0 => k - 1 \in 0..(n + 1) /\ k - 1 <= n
        BY <3>1
      <4>2. k # 0 => g[k - 1] = f[k - 1]
        BY <4>1, <2>2, Zenon
      <4>3. g[k] = f[k]
        BY <3>1, <2>2
      <4> QED
        BY <3>1, <2>1, <4>2, <4>3, Zenon
    <3>2. CASE k = n + 1
      <4>1. k - 1 = n /\ n \in 0..(n + 1) /\ k # 0 /\ ~(k <= n) /\ n <= n
        BY <3>2
      <4> QED
        BY <3>2, <4>1, <2>2, Zenon
    <3> QED
      BY <3>1, <3>2
  <2>4. Is(g, n + 1)
    BY <2>3, Zenon
  <2> QED
    BY <2>4, Zenon
<1> HIDE DEF T
<1>3. Len(s) \in T
  <2>1. Len(s) \in Nat
    OBVIOUS
  <2> QED
    BY <1>1, <1>2, <2>1, Every, Zenon
<1> USE DEF T
<1>4. Is(Prefixes(s), Len(s))
  BY <1>3, Zenon DEF Prefixes
<1>5. \A k \in 0..Len(s) :
        Prefixes(s)[k] = IF k = 0 THEN <<>> ELSE Prefixes(s)[k - 1] \o s[k]
  BY <1>4, Zenon
<1> HIDE DEF Is, T
<1> DEFINE p == Prefixes(s)
           U == {k \in Nat : p[k] \in Seq(S)}
<1>6. \A k \in 0..Len(s) : p[k] = IF k = 0 THEN <<>> ELSE p[k - 1] \o s[k]
  BY <1>5
<1> HIDE DEF p
<1>7. 0 \in U
  <2>1. 0 \in 0..Len(s) /\ 0 \in Nat
    OBVIOUS
  <2>2. p[0] = <<>>
    BY <2>1, <1>6, Zenon
  <2>3. <<>> \in Seq(S)
    OBVIOUS
  <2> QED
    BY <2>1, <2>2, <2>3, Zenon
<1>8. ASSUME NEW k \in 0..(Len(s) - 1), k \in U PROVE k + 1 \in U
  <2>1. k + 1 \in 0..Len(s) /\ k + 1 # 0 /\ (k + 1) - 1 = k /\ s[k + 1] \in Seq(S)
    OBVIOUS
  <2>2. p[k + 1] = p[k] \o s[k + 1]
    BY <2>1, <1>6, Zenon
  <2>3. p[k] \in Seq(S) /\ k + 1 \in Nat
    BY <1>8, SMT
  <2>4. p[k] \o s[k + 1] \in Seq(S)
    BY <2>1, <2>3, SeqConcat, Zenon
  <2> QED
    BY <2>2, <2>3, <2>4, Zenon
<1> HIDE DEF U
<1>9. \A k \in 0..Len(s) : k \in U
  <2>1. Len(s) \in Nat
    OBVIOUS
  <2> QED
    BY <2>1, <1>7, <1>8, UpTo, Zenon
<1> QED
  BY <1>5, <1>9, Zenon DEF U, p

\* The first pieces decide their bytes.
LEMMA PrefixesAgree ==
  ASSUME NEW S, NEW s \in Seq(Seq(S)), NEW t \in Seq(Seq(S)), NEW m \in Nat,
         m <= Len(s), m <= Len(t), \A k \in 1..m : s[k] = t[k]
  PROVE  \A k \in 0..m : Prefixes(s)[k] = Prefixes(t)[k]
<1> DEFINE p == Prefixes(s)
           q == Prefixes(t)
           T == {k \in Nat : p[k] = q[k]}
<1>1. /\ \A k \in 0..Len(s) : p[k] = IF k = 0 THEN <<>> ELSE p[k - 1] \o s[k]
      /\ \A k \in 0..Len(t) : q[k] = IF k = 0 THEN <<>> ELSE q[k - 1] \o t[k]
  BY PrefixesIs, Zenon
<1> HIDE DEF p, q
<1>2. 0 \in T
  <2>1. 0 \in 0..Len(s) /\ 0 \in 0..Len(t) /\ 0 \in Nat
    OBVIOUS
  <2> QED
    BY <2>1, <1>1, Zenon
<1>3. ASSUME NEW k \in 0..(m - 1), k \in T PROVE k + 1 \in T
  <2>1. /\ k + 1 \in 0..Len(s) /\ k + 1 \in 0..Len(t) /\ k + 1 # 0 /\ (k + 1) - 1 = k
        /\ k + 1 \in 1..m /\ k + 1 \in Nat
    OBVIOUS
  <2> QED
    BY <1>3, <2>1, <1>1, ZenonT(60)
<1> HIDE DEF T
<1>4. \A k \in 0..m : k \in T
  BY <1>2, <1>3, UpTo, Zenon
<1> QED
  BY <1>4, Zenon DEF T, p, q

\* Pieces with the same last pieces: what comes before makes the difference.
SameTail(s, t, x, m, j) ==
  /\ Len(s) = m + Len(t) /\ j <= Len(t)
  /\ Prefixes(s)[m + j] = x \o Prefixes(t)[j]
  /\ \A k \in (j + 1)..Len(t) : s[m + k] = t[k]

Preceded(s, t, x) == Joined(s) = x \o Joined(t)

\* Pieces that agree from some place on: what one has in front, it has in front of
\* the bytes of the other.
LEMMA JoinedTail ==
  ASSUME NEW s \in Seq(Seq(Byte)), NEW t \in Seq(Seq(Byte)), NEW x \in Seq(Byte),
         NEW m \in Nat, NEW j \in Nat, SameTail(s, t, x, m, j)
  PROVE  Preceded(s, t, x)
<1> USE DEF SameTail, Preceded
<1> DEFINE p == Prefixes(s)
           q == Prefixes(t)
           n == Len(t) - j
           T == {k \in Nat : p[m + j + k] = x \o q[j + k]}
<1>1. /\ \A k \in 0..Len(s) : p[k] = IF k = 0 THEN <<>> ELSE p[k - 1] \o s[k]
      /\ \A k \in 0..Len(t) : q[k] = IF k = 0 THEN <<>> ELSE q[k - 1] \o t[k]
      /\ \A k \in 0..Len(t) : q[k] \in Seq(Byte)
  BY PrefixesIs, Zenon
<1>2. p[m + j] = x \o q[j]
  OBVIOUS
<1> HIDE DEF p, q
<1>3. n \in Nat /\ m + j + n = Len(s) /\ j + n = Len(t)
  OBVIOUS
<1>4. 0 \in T
  <2>1. m + j + 0 = m + j /\ j + 0 = j /\ 0 \in Nat
    OBVIOUS
  <2> QED
    BY <2>1, <1>2, Zenon
<1>5. ASSUME NEW k \in 0..(n - 1), k \in T PROVE k + 1 \in T
  <2>1. /\ m + j + (k + 1) \in 0..Len(s) /\ m + j + (k + 1) # 0
        /\ m + j + (k + 1) - 1 = m + j + k
        /\ j + (k + 1) \in 0..Len(t) /\ j + (k + 1) # 0 /\ j + (k + 1) - 1 = j + k
        /\ j + (k + 1) \in (j + 1)..Len(t) /\ m + (j + (k + 1)) = m + j + (k + 1)
        /\ k + 1 \in Nat /\ j + k \in 0..Len(t)
    BY <1>3, SMTT(60)
  <2> DEFINE a == m + j + k
             b == j + k
             a1 == m + j + (k + 1)
             b1 == j + (k + 1)
  <2>2. /\ a1 \in 0..Len(s) /\ a1 # 0 /\ a1 - 1 = a /\ b1 \in 0..Len(t) /\ b1 # 0
        /\ b1 - 1 = b /\ b1 \in (j + 1)..Len(t) /\ m + b1 = a1 /\ b \in 0..Len(t)
    BY <2>1, SMT
  <2>3. p[a] = x \o q[b]
    BY <1>5, Zenon
  <2> HIDE DEF a, b, a1, b1
  <2>4. t[b1] \in Seq(Byte)
    <3>1. b1 \in 1..Len(t)
      BY <2>2, SMT
    <3> QED
      BY <3>1, SMT
  <2>5. s[a1] = t[b1]
    BY <2>2, Zenon
  <2>6. p[a1] = p[a] \o t[b1] /\ q[b1] = q[b] \o t[b1]
    BY <2>2, <2>5, <1>1, Zenon
  <2>9. q[b] \in Seq(Byte)
    BY <2>2, <1>1, Zenon
  <2>7. Assoc(x, q[b], t[b1])
    BY <2>4, <2>9, ConcatAssoc, Zenon
  <2>8. p[a1] = x \o q[b1]
    BY <2>3, <2>6, <2>7, Zenon DEF Assoc
  <2> QED
    BY <2>1, <2>8, Zenon DEF a1, b1
<1> HIDE DEF T
<1>6. \A k \in 0..n : k \in T
  BY <1>3, <1>4, <1>5, UpTo, Zenon
<1>7. n \in T
  BY <1>3, <1>6, SMT
<1> HIDE DEF n
<1> QED
  BY <1>7, <1>3, Zenon DEF T, p, q, Joined

\* One more piece, and one more part of the last piece.
LEMMA JoinedAppend ==
  ASSUME NEW S, NEW s \in Seq(Seq(S)), NEW x \in Seq(S)
  PROVE  Joined(Append(s, x)) = Joined(s) \o x
<1> DEFINE t == Append(s, x)
<1>1. /\ t \in Seq(Seq(S)) /\ Len(t) = Len(s) + 1 /\ t[Len(s) + 1] = x
      /\ \A k \in 1..Len(s) : s[k] = t[k]
      /\ Len(s) \in Nat /\ Len(s) <= Len(s) /\ Len(s) <= Len(s) + 1
      /\ Len(s) \in 0..Len(s) /\ Len(s) + 1 \in 0..(Len(s) + 1)
      /\ Len(s) + 1 # 0 /\ (Len(s) + 1) - 1 = Len(s)
  BY SMT
<1> HIDE DEF t
<1>2. Prefixes(s)[Len(s)] = Prefixes(t)[Len(s)]
  BY <1>1, PrefixesAgree, Zenon
<1>3. Prefixes(t)[Len(s) + 1] = Prefixes(t)[Len(s)] \o x
  BY <1>1, PrefixesIs, ZenonT(60)
<1> QED
  BY <1>1, <1>2, <1>3, Zenon DEF Joined, t

\* Bytes added to the last piece come behind all others.
LEMMA JoinedGrown ==
  ASSUME NEW S, NEW s \in Seq(Seq(S)), NEW t \in Seq(Seq(S)), NEW x \in Seq(S),
         Len(s) = Len(t), Len(s) > 0, t[Len(s)] = s[Len(s)] \o x,
         \A k \in 1..(Len(s) - 1) : s[k] = t[k]
  PROVE  Joined(t) = Joined(s) \o x
<1> DEFINE n == Len(s)
<1>1. /\ n - 1 \in Nat /\ n - 1 <= Len(s) /\ n - 1 <= Len(t) /\ n - 1 \in 0..(n - 1)
      /\ n \in 0..Len(s) /\ n \in 0..Len(t) /\ n # 0 /\ s[n] \in Seq(S)
      /\ n - 1 \in 0..Len(s)
  BY SMT
<1>2. Prefixes(s)[n - 1] = Prefixes(t)[n - 1]
  BY <1>1, PrefixesAgree, ZenonT(60)
<1>3. /\ Prefixes(t)[n] = Prefixes(t)[n - 1] \o t[n]
      /\ Prefixes(s)[n] = Prefixes(s)[n - 1] \o s[n]
  BY <1>1, PrefixesIs, Zenon
<1>6. Prefixes(s)[n - 1] \in Seq(S) /\ s[n] \in Seq(S)
  BY <1>1, PrefixesIs, Zenon
<1>4. Assoc(Prefixes(s)[n - 1], s[n], x)
  BY <1>6, ConcatAssoc, Zenon
<1>5. Joined(t) = Prefixes(t)[n] /\ Joined(s) = Prefixes(s)[n] /\ t[n] = s[n] \o x
  BY Zenon DEF Joined
<1> HIDE DEF n
<1> QED
  BY <1>2, <1>3, <1>4, <1>5, Zenon DEF Assoc

-----------------------------------------------------------------------------
(* The inductive invariant.  reader_iter_ is in the first node, or at end() *)
(* of an empty deque.                                                      *)

Node == [data : Seq(Byte), capacity : Nat]

\* Node i and what comes before a reader at char c in it.
Off(c, i) == IF i = 1 THEN c ELSE 0

ReaderAt(c) ==
  /\ c \in Nat /\ reader_iter_ = <<1, c>>
  /\ buffer_ = <<>> => c = 0
  /\ buffer_ # <<>> => c <= Size(1)

\* The nodes: none is over its capacity, and two neighbours are never both
\* less than half full.
NodesWell(b) ==
  /\ b \in Seq(Node)
  /\ \A i \in 1..Len(b) : /\ kMinNodeSize <= b[i].capacity
                          /\ Len(b[i].data) <= b[i].capacity
  /\ \A i \in 1..(Len(b) - 1) : Len(b[i].data) + Len(b[i + 1].data) >= kMinNodeSize

LinkedInv ==
  /\ NodesWell(buffer_)
  /\ (reader_iter_ = Unset /\ buffer_ = <<>>) \/ \E c \in Nat : ReaderAt(c)

-----------------------------------------------------------------------------
(* Distances from the reader.                                              *)

\* The recursion of Distance, with what lies before the reader spelled out.
LEMMA DistanceIs ==
  ASSUME NEW c \in Nat, buffer_ \in Seq(Node), ReaderAt(c)
  PROVE  /\ DOMAIN Distance(reader_iter_) = 1..(Len(buffer_) + 1)
         /\ Distance(reader_iter_)[1] = 0
         /\ \A i \in 1..Len(buffer_) :
              /\ Size(i) \in Nat /\ Off(c, i) \in Nat /\ Off(c, i) <= Size(i)
              /\ Distance(reader_iter_)[i + 1]
                   = Distance(reader_iter_)[i] + (Size(i) - Off(c, i))
         /\ \A i \in 1..(Len(buffer_) + 1) : Distance(reader_iter_)[i] \in Nat
<1> DEFINE r == reader_iter_
           N == Len(buffer_)
           d(i) == charDistanceToEndOfNode(In(r, i))
           Is(f, n) == f = [i \in 1..(n + 1) |-> IF i = 1 THEN 0 ELSE f[i - 1] + d(i - 1)]
           T == {n \in Nat : \E f : Is(f, n)}
<1>0. r[1] = 1 /\ N \in Nat
  BY DEF ReaderAt
<1> HIDE DEF d
<1>1. 0 \in T
  <2> DEFINE f == [i \in 1..(0 + 1) |-> 0]
  <2>1. Is(f, 0)
    <3>1. \A i \in 1..(0 + 1) : i = 1
      OBVIOUS
    <3> QED
      BY <3>1, Zenon
  <2> QED
    BY <2>1, Zenon
<1>2. \A n \in Nat : n \in T => n + 1 \in T
  <2> SUFFICES ASSUME NEW n \in Nat, NEW f, Is(f, n) PROVE \E g : Is(g, n + 1)
    <3>1. \A n \in Nat : n + 1 \in Nat
      OBVIOUS
    <3> QED
      BY <3>1, ZenonT(60)
  <2> DEFINE m == n + 1
             g == [i \in 1..(m + 1) |-> IF i <= m THEN f[i] ELSE f[m] + d(m)]
  <2>0. m \in Nat /\ m >= 1 /\ m \in 1..(m + 1) /\ m <= m /\ ~(m + 1 <= m) /\ (m + 1) - 1 = m
    BY SMT
  <2>1. \A i \in 1..m : f[i] = IF i = 1 THEN 0 ELSE f[i - 1] + d(i - 1)
    BY Zenon
  <2> HIDE DEF m
  <2>2. \A i \in 1..(m + 1) : g[i] = IF i <= m THEN f[i] ELSE f[m] + d(m)
    BY Zenon
  <2>3. ASSUME NEW i \in 1..(m + 1)
        PROVE  g[i] = IF i = 1 THEN 0 ELSE g[i - 1] + d(i - 1)
    <3> HIDE DEF g
    <3>1. CASE i \in 1..m
      <4>1. i # 1 => i - 1 \in 1..(m + 1) /\ i - 1 <= m
        BY <3>1, <2>0, SMT
      <4>2. i # 1 => g[i - 1] = f[i - 1]
        BY <4>1, <2>2, Zenon
      <4>3. i <= m
        BY <3>1, <2>0, SMT
      <4> QED
        BY <3>1, <2>1, <2>2, <4>2, <4>3, Zenon
    <3>2. CASE i = m + 1
      <4>1. i # 1
        BY <3>2, <2>0, SMT
      <4> QED
        BY <3>2, <2>0, <4>1, <2>2, Zenon
    <3>3. i \in 1..m \/ i = m + 1
      BY <2>0, SMT
    <3> QED
      BY <3>1, <3>2, <3>3, Zenon
  <2>4. Is(g, n + 1)
    BY <2>3, Zenon DEF m
  <2> QED
    BY <2>4, Zenon
<1> HIDE DEF T
<1>3. N \in T
  BY <1>0, <1>1, <1>2, Every, Zenon
<1> USE DEF T
<1>4. Is(Distance(r), N)
  <2> DEFINE IsD(f) == f = [i \in r[1]..(N + 1) |-> IF i = r[1] THEN 0 ELSE f[i - 1] + d(i - 1)]
  <2>1. PICK f : Is(f, N)
    BY <1>3, Zenon
  <2>2. \A g : IsD(g) <=> Is(g, N)
    BY <1>0, SMT
  <2>3. IsD(f)
    BY <2>1, <2>2, Zenon
  <2>4. IsD(Distance(r))
    BY <2>3, Zenon DEF Distance, d
  <2> QED
    BY <2>2, <2>4, Zenon
<1>5. DOMAIN Distance(r) = 1..(N + 1)
  BY <1>4, Zenon
<1>6. \A i \in 1..(N + 1) :
        Distance(r)[i] = IF i = 1 THEN 0 ELSE Distance(r)[i - 1] + d(i - 1)
  BY <1>4, Zenon
<1> HIDE DEF Is, T
<1>7. ASSUME NEW i \in 1..N
      PROVE  /\ Size(i) \in Nat /\ Off(c, i) \in Nat /\ Off(c, i) <= Size(i)
             /\ d(i) = Size(i) - Off(c, i)
  <2>1. buffer_[i] \in Node /\ buffer_ # <<>>
    BY SMT
  <2>2. Size(i) \in Nat
    BY <2>1, SMT DEF Node, Size
  <2>3. Off(c, i) \in Nat /\ Off(c, i) <= Size(i)
    BY <2>1, <2>2, SMT DEF Off, ReaderAt
  <2>4. In(r, i)[1] = i /\ In(r, i)[2] = Off(c, i)
    BY SMT DEF Off, In, ReaderAt
  <2> QED
    BY <2>2, <2>3, <2>4, Zenon DEF d, charDistanceToEndOfNode
<1> DEFINE D == Distance(r)
<1>8. \A i \in 1..(N + 1) : D[i] = IF i = 1 THEN 0 ELSE D[i - 1] + d(i - 1)
  BY <1>6
<1> HIDE DEF D
<1>9. D[1] = 0
  <2>1. 1 \in 1..(N + 1)
    BY <1>0, SMT
  <2> QED
    BY <2>1, <1>8, Zenon
<1>10. ASSUME NEW i \in 1..N PROVE D[i + 1] = D[i] + (Size(i) - Off(c, i))
  <2>1. i + 1 \in 1..(N + 1) /\ i + 1 # 1 /\ (i + 1) - 1 = i
    BY <1>0, SMT
  <2> QED
    BY <2>1, <1>7, <1>8, Zenon
<1> DEFINE U == {k \in Nat : D[k + 1] \in Nat}
<1>11. 0 \in U
  BY <1>9, SMT
<1>12. ASSUME NEW k \in 0..(N - 1), k \in U PROVE k + 1 \in U
  <2>1. k + 1 \in 1..N /\ k + 1 \in Nat
    BY <1>0, SMT
  <2>2. /\ D[(k + 1) + 1] = D[k + 1] + (Size(k + 1) - Off(c, k + 1))
        /\ Size(k + 1) \in Nat /\ Off(c, k + 1) \in Nat /\ Off(c, k + 1) <= Size(k + 1)
    BY <2>1, <1>10, <1>7, Zenon
  <2>3. D[k + 1] \in Nat
    BY <1>12, Zenon
  <2>4. D[(k + 1) + 1] \in Nat
    BY <2>2, <2>3, SMT
  <2> QED
    BY <2>1, <2>4, Zenon
<1> HIDE DEF U
<1>13. \A k \in 0..N : k \in U
  BY <1>0, <1>11, <1>12, UpTo, Zenon
<1>14. ASSUME NEW i \in 1..(N + 1) PROVE D[i] \in Nat
  <2>1. i - 1 \in 0..N /\ (i - 1) + 1 = i
    BY <1>0, SMT
  <2>2. i - 1 \in U
    BY <2>1, <1>13, Zenon
  <2> QED
    BY <2>1, <2>2, Zenon DEF U
<1> QED
  BY <1>5, <1>7, <1>9, <1>10, <1>14, Zenon DEF D

\* Where operator+= stops, n bytes from a reader at char c of the first node.
StopsAt(c, n, i) ==
  \/ i > 1 /\ n = Distance(reader_iter_)[i]
  \/ i <= Len(buffer_) /\ n - Distance(reader_iter_)[i] < Size(i) - Off(c, i)

FirstStop(c, n, i) == StopsAt(c, n, i) /\ \A j \in 1..(i - 1) : ~StopsAt(c, n, j)

\* operator+= with n that stays inside the buffer ends at the first place where it
\* may stop, and there is one.
LEMMA PlusIs ==
  ASSUME NEW c \in Nat, buffer_ \in Seq(Node), ReaderAt(c),
         NEW n \in Nat, n <= readableSize, n > 0 \/ reader_iter_ # end
  PROVE  \E i \in 1..(Len(buffer_) + 1) :
           /\ plus(reader_iter_, n) = <<i, Off(c, i) + (n - Distance(reader_iter_)[i])>>
           /\ FirstStop(c, n, i) /\ Distance(reader_iter_)[i] <= n
<1> DEFINE r == reader_iter_
           N == Len(buffer_)
           D == Distance(r)
<1>1. /\ DOMAIN D = 1..(N + 1) /\ D[1] = 0
      /\ \A i \in 1..N : /\ Size(i) \in Nat /\ Off(c, i) \in Nat /\ Off(c, i) <= Size(i)
                         /\ D[i + 1] = D[i] + (Size(i) - Off(c, i))
      /\ \A i \in 1..(N + 1) : D[i] \in Nat
  BY DistanceIs, Zenon
<1>2. N \in Nat /\ r[1] = 1 /\ r[2] = c /\ r # Unset
  BY SMT DEF ReaderAt, Unset
<1>3. n <= D[N + 1]
  BY <1>2, Zenon DEF readableSize
<1>4. \A i \in 1..(N + 1) : /\ In(r, i)[1] = i /\ In(r, i)[2] = Off(c, i)
  BY <1>2, SMT DEF In, Off
<1>5. \A i \in 1..(N + 1) : Stops(r, n, i) <=> StopsAt(c, n, i)
  BY <1>2, <1>4, Zenon DEF Stops, StopsAt, charDistanceToEndOfNode
<1>6. \A i \in 1..(N + 1) : StopsAt(c, n, i) <=>
        \/ i > 1 /\ n = D[i]
        \/ i <= N /\ n - D[i] < Size(i) - Off(c, i)
  BY Zenon DEF StopsAt
<1> HIDE DEF D
<1>7. N > 0
  <2> SUFFICES ASSUME N = 0 PROVE FALSE
    BY <1>2, SMT
  <2>1. buffer_ = <<>>
    OBVIOUS
  <2>2. n = 0
    BY <1>1, <1>3, SMT
  <2>3. r = end
    BY <2>1, SMT DEF ReaderAt, end
  <2> QED
    BY <2>2, <2>3
<1>8. \E i \in 1..(N + 1) : StopsAt(c, n, i)
  <2>1. CASE n = D[N + 1]
    <3>1. N + 1 \in 1..(N + 1) /\ N + 1 > 1
      BY <1>2, <1>7, SMT
    <3> QED
      BY <2>1, <3>1, <1>6, Zenon
  <2>2. CASE n # D[N + 1]
    <3> DEFINE K == {i \in 1..(N + 1) : n < D[i]}
    <3>1. N + 1 \in K /\ K \in SUBSET Nat
      BY <1>1, <1>2, <1>3, <2>2, SMT
    <3>2. PICK k \in K : \A j \in K : k <= j
      <4> HIDE DEF K
      <4> QED
        BY <3>1, LeastNat, Zenon
    <3>3. k \in 1..(N + 1) /\ n < D[k] /\ k # 1
      BY <1>1, SMT
    <3> DEFINE i == k - 1
    <3>4. i \in 1..N /\ i \in 1..(N + 1) /\ ~(k <= i) /\ i + 1 = k /\ i <= N
      BY <3>3, <1>2, SMT
    <3>5. ~(n < D[i])
      BY <3>2, <3>4, Zenon
    <3> HIDE DEF i
    <3>6. D[k] = D[i] + (Size(i) - Off(c, i)) /\ D[i] \in Nat /\ Size(i) \in Nat /\ Off(c, i) \in Nat
      BY <3>4, <1>1, Zenon
    <3>7. n - D[i] < Size(i) - Off(c, i)
      BY <3>3, <3>5, <3>6, SMT
    <3> QED
      BY <3>4, <3>7, <1>6, Zenon
  <2> QED
    BY <2>1, <2>2, Zenon
<1>9. PICK i \in 1..(N + 1) : FirstStop(c, n, i)
  <2> DEFINE K == {i \in 1..(N + 1) : StopsAt(c, n, i)}
  <2>1. K # {} /\ K \in SUBSET Nat
    BY <1>8, SMT
  <2>2. PICK i \in K : \A j \in K : i <= j
    <3> HIDE DEF K
    <3> QED
      BY <2>1, LeastNat, Zenon
  <2>3. \A j \in 1..(i - 1) : j \in 1..(N + 1) /\ ~(i <= j)
    BY <1>2, SMT
  <2> QED
    BY <2>2, <2>3, Zenon DEF FirstStop
<1> DEFINE First(j) == Stops(r, n, j) /\ \A k \in r[1]..(j - 1) : ~Stops(r, n, k)
<1>10. \A j \in 1..(N + 1) : First(j) <=> FirstStop(c, n, j)
  <2>1. \A j \in 1..(N + 1) : \A k \in 1..(j - 1) : k \in 1..(N + 1)
    BY <1>2, SMT
  <2> QED
    BY <2>1, <1>2, <1>5, Zenon DEF FirstStop
<1> DEFINE stop == CHOOSE j \in DOMAIN D : First(j)
<1>11. stop \in 1..(N + 1) /\ First(stop)
  BY <1>1, <1>9, <1>10, Zenon
<1>12. plus(r, n) = <<stop, In(r, stop)[2] + (n - D[stop])>>
  <2>1. ~(n < 0)
    BY SMT
  <2> QED
    BY <2>1, Zenon DEF plus, D
<1> HIDE DEF stop, First
<1>13. FirstStop(c, n, stop)
  BY <1>10, <1>11, Zenon
<1>14. D[stop] <= n
  <2>1. CASE stop = 1
    BY <2>1, <1>1, SMT
  <2>2. CASE stop # 1
    <3> DEFINE j == stop - 1
    <3>1. j \in 1..N /\ j \in 1..(N + 1) /\ j \in 1..(stop - 1) /\ j + 1 = stop /\ j <= N
      BY <2>2, <1>2, <1>11, SMT
    <3> HIDE DEF j
    <3>2. ~(n - D[j] < Size(j) - Off(c, j))
      BY <3>1, <1>6, <1>13, Zenon DEF FirstStop
    <3>3. D[stop] = D[j] + (Size(j) - Off(c, j)) /\ D[j] \in Nat /\ Size(j) \in Nat /\ Off(c, j) \in Nat
      BY <3>1, <1>1, Zenon
    <3> QED
      BY <3>2, <3>3, SMTT(60)
  <2> QED
    BY <2>1, <2>2, Zenon
<1> QED
  BY <1>4, <1>11, <1>12, <1>13, <1>14, Zenon DEF D

\* n bytes from a reader that has d bytes before a node of s bytes, o of them
\* read: one byte more is in the node, or the first of the next one.
OneMore(n, d, s, o) ==
  /\ ~(n - d < s - o) => ~((n + 1) - d < s - o) /\ n + 1 # d
  /\ o + (n - d) + 1 = s => n + 1 = d + (s - o) /\ ~((n + 1) - d < s - o)
  /\ d <= n => n + 1 # d
  /\ o + (n - d) < s /\ o + (n - d) + 1 # s => (n + 1) - d < s - o
  /\ o + ((n + 1) - d) = o + (n - d) + 1

\* The tests of operator+= for n and for n + 1, in a node of size s entered at o after
\* d bytes.
LEMMA OneByteOn ==
  ASSUME NEW n \in Nat, NEW d \in Nat, NEW s \in Nat, NEW o \in Nat, o <= s
  PROVE  OneMore(n, d, s, o)
BY SMT DEF OneMore

\* A place m bytes from the reader, in node a; none of the nodes before it reaches
\* so far.
PlaceAt(c, it, a, x, m) ==
  /\ a \in 1..Len(buffer_) /\ x \in Nat /\ it = <<a, x>> /\ x <= Size(a)
  /\ Distance(reader_iter_)[a] <= m
  /\ x = Off(c, a) + (m - Distance(reader_iter_)[a])
  /\ \A j \in 1..(a - 1) :
       Distance(reader_iter_)[j] + (Size(j) - Off(c, j)) <= m

FarFrom(it, a, m) ==
  /\ DOMAIN Distance(it) = a..(Len(buffer_) + 1)
  /\ \A j \in a..(Len(buffer_) + 1) :
       Distance(it)[j] = IF j = a THEN 0 ELSE Distance(reader_iter_)[j] - m

\* The distances from such a place, from those from the reader.
LEMMA DistanceFrom ==
  ASSUME NEW c \in Nat, buffer_ \in Seq(Node), ReaderAt(c),
         NEW it, NEW a, NEW x, NEW m \in Nat, PlaceAt(c, it, a, x, m)
  PROVE  FarFrom(it, a, m)
<1> DEFINE N == Len(buffer_)
           D == Distance(reader_iter_)
           d(i) == charDistanceToEndOfNode(In(it, i))
           g == [j \in a..(N + 1) |-> IF j = a THEN 0 ELSE D[j] - m]
           IsD(f) == f = [i \in it[1]..(N + 1) |-> IF i = it[1] THEN 0 ELSE f[i - 1] + d(i - 1)]
<1>1. /\ \A i \in 1..N : /\ Size(i) \in Nat /\ Off(c, i) \in Nat /\ Off(c, i) <= Size(i)
                         /\ D[i + 1] = D[i] + (Size(i) - Off(c, i))
      /\ \A i \in 1..(N + 1) : D[i] \in Nat
  BY DistanceIs, Zenon
<1>2. /\ N \in Nat /\ it[1] = a /\ it[2] = x /\ it = <<a, x>> /\ a \in 1..N /\ x \in Nat
      /\ x = Off(c, a) + (m - D[a])
  BY DEF PlaceAt
<1>3. /\ d(a) = Size(a) - x
      /\ \A i \in (a + 1)..N : d(i) = Size(i) - 0 /\ Off(c, i) = 0
  <2>1. In(it, a) = it
    BY <1>2, Zenon DEF In
  <2>2. \A i \in (a + 1)..N : In(it, i) = <<i, 0>> /\ Off(c, i) = 0
    BY <1>2, SMT DEF In, Off
  <2>3. \A i \in (a + 1)..N : In(it, i)[1] = i /\ In(it, i)[2] = 0
    BY <2>2
  <2> QED
    BY <1>2, <2>1, <2>2, <2>3, Zenon DEF charDistanceToEndOfNode
<1> HIDE DEF D, d
<1>4. ASSUME NEW j \in a..(N + 1), j # a
      PROVE  D[j] - m = (IF j - 1 = a THEN 0 ELSE D[j - 1] - m) + d(j - 1)
  <2> DEFINE i == j - 1
  <2>1. i \in 1..N /\ i + 1 = j /\ i \in a..N /\ i \in 1..(N + 1)
    BY <1>2, <1>4, SMT
  <2> HIDE DEF i
  <2>2. /\ D[j] = D[i] + (Size(i) - Off(c, i)) /\ D[i] \in Nat
        /\ Size(i) \in Nat /\ Off(c, i) \in Nat
    BY <1>1, <2>1, Zenon
  <2>3. CASE i = a
    BY <1>2, <1>3, <2>2, <2>3, SMTT(60) DEF i
  <2>4. CASE i # a
    <3>1. i \in (a + 1)..N
      BY <1>2, <2>1, <2>4, SMT
    <3> QED
      BY <1>3, <2>2, <2>4, <3>1, SMTT(60) DEF i
  <2> QED
    BY <2>3, <2>4, Zenon
<1>5. IsD(g)
  <2>1. \A j \in a..(N + 1) : j # a => j - 1 \in a..(N + 1)
    BY <1>2, SMT
  <2>2. \A j \in a..(N + 1) : g[j] = IF j = a THEN 0 ELSE D[j] - m
    BY Zenon
  <2>3. \A j \in a..(N + 1) : g[j] = IF j = a THEN 0 ELSE g[j - 1] + d(j - 1)
    <3> HIDE DEF g
    <3> QED
      BY <1>4, <2>1, <2>2, Zenon
  <2>4. g = [j \in a..(N + 1) |-> IF j = a THEN 0 ELSE g[j - 1] + d(j - 1)]
    <3>1. \A j \in a..(N + 1) : (IF j = a THEN 0 ELSE D[j] - m) = IF j = a THEN 0 ELSE g[j - 1] + d(j - 1)
      BY <2>2, <2>3, Zenon
    <3> QED
      BY <3>1, Zenon
  <2> HIDE DEF g
  <2> QED
    BY <1>2, <2>4, Zenon
<1>6. IsD(Distance(it))
  <2> HIDE DEF g
  <2> QED
    BY <1>5, Zenon DEF Distance, d
<1> DEFINE E == Distance(it)
<1>7. DOMAIN E = a..(N + 1) /\ \A j \in a..(N + 1) : E[j] = IF j = a THEN 0 ELSE E[j - 1] + d(j - 1)
  BY <1>2, <1>6, Zenon
<1> HIDE DEF E, IsD
<1> DEFINE K == (N + 1) - a
           T == {k \in Nat : E[a + k] = IF k = 0 THEN 0 ELSE D[a + k] - m}
<1>8. 0 \in T
  <2>1. a + 0 = a /\ a \in a..(N + 1) /\ 0 \in Nat
    BY <1>2, SMT
  <2> QED
    BY <1>7, <2>1, Zenon
<1>9. ASSUME NEW k \in 0..(K - 1), k \in T PROVE k + 1 \in T
  <2> DEFINE j == a + (k + 1)
  <2>1. j \in a..(N + 1) /\ j # a /\ j - 1 = a + k /\ k + 1 \in Nat /\ k + 1 # 0 /\ (j - 1 = a <=> k = 0)
    BY <1>2, <1>9, SMT
  <2> HIDE DEF j
  <2>2. E[j] = E[j - 1] + d(j - 1)
    BY <1>7, <2>1, Zenon
  <2>3. E[j - 1] = IF j - 1 = a THEN 0 ELSE D[j - 1] - m
    BY <1>9, <2>1, Zenon
  <2>4. E[j] = D[j] - m
    BY <1>4, <2>1, <2>2, <2>3, Zenon
  <2> QED
    BY <2>1, <2>4, Zenon DEF j
<1>10. K \in Nat
  BY <1>2, SMT
<1> HIDE DEF T
<1>11. \A k \in 0..K : k \in T
  BY <1>8, <1>9, <1>10, UpTo, Zenon
<1>12. ASSUME NEW j \in a..(N + 1) PROVE E[j] = IF j = a THEN 0 ELSE D[j] - m
  <2>1. j - a \in 0..K /\ a + (j - a) = j /\ (j - a = 0 <=> j = a)
    BY <1>2, SMT
  <2>2. j - a \in T
    BY <1>11, <2>1, Zenon
  <2> QED
    BY <2>1, <2>2, Zenon DEF T
<1> QED
  BY <1>7, <1>12, Zenon DEF FarFrom, E, D

\* The place m bytes on, when something follows it.
LEMMA PlaceOf ==
  ASSUME NEW c \in Nat, buffer_ \in Seq(Node), ReaderAt(c),
         NEW m \in Nat, m < readableSize
  PROVE  LET from == IF m = 0 THEN reader_iter_ ELSE plus(reader_iter_, m)
         IN  \E a, x : PlaceAt(c, from, a, x, m)
<1> DEFINE N == Len(buffer_)
           D == Distance(reader_iter_)
<1>1. /\ D[1] = 0
      /\ \A i \in 1..N : /\ Size(i) \in Nat /\ Off(c, i) \in Nat /\ Off(c, i) <= Size(i)
                         /\ D[i + 1] = D[i] + (Size(i) - Off(c, i))
      /\ \A i \in 1..(N + 1) : D[i] \in Nat
  BY DistanceIs, Zenon
<1>2. N \in Nat /\ reader_iter_ # Unset /\ reader_iter_ = <<1, c>>
  BY SMT DEF ReaderAt, Unset
<1>3. m < D[N + 1] /\ D[N + 1] \in Nat
  <2>1. N + 1 \in 1..(N + 1)
    BY <1>2, SMT
  <2> QED
    BY <1>1, <1>2, <2>1, Zenon DEF readableSize
<1>4. CASE m = 0
  <2>1. N # 0
    BY <1>1, <1>3, <1>4, SMT
  <2>2. 1 \in 1..N /\ c <= Size(1) /\ Off(c, 1) = c
    BY <1>1, <1>2, <2>1, SMT DEF Off
  <2>3. D[1] <= m /\ c = Off(c, 1) + (m - D[1])
    BY <1>1, <1>4, <2>2, SMT
  <2>4. \A j \in 1..(1 - 1) : FALSE
    BY SMT
  <2>5. PlaceAt(c, reader_iter_, 1, c, m)
    BY <1>2, <2>2, <2>3, <2>4, Zenon DEF PlaceAt
  <2> QED
    BY <1>4, <2>5, Zenon
<1>5. CASE m # 0
  <2>1. m > 0 /\ m <= readableSize
    BY <1>2, <1>3, <1>5, SMT DEF readableSize
  <2>2. PICK a \in 1..(N + 1) : /\ plus(reader_iter_, m) = <<a, Off(c, a) + (m - D[a])>>
                                /\ FirstStop(c, m, a) /\ D[a] <= m
    BY <2>1, PlusIs, Zenon
  <2> DEFINE x == Off(c, a) + (m - D[a])
  <2>3. \A i : StopsAt(c, m, i) <=> \/ i > 1 /\ m = D[i]
                                    \/ i <= N /\ m - D[i] < Size(i) - Off(c, i)
    BY Zenon DEF StopsAt
  <2> HIDE DEF D
  <2>4. a \in 1..N
    <3>1. a # N + 1
      BY <1>3, <2>2, SMT
    <3> QED
      BY <1>2, <3>1, SMT
  <2>5. D[a] \in Nat /\ Size(a) \in Nat /\ Off(c, a) \in Nat /\ Off(c, a) <= Size(a)
    BY <1>1, <2>2, <2>4, Zenon
  <2>6. x \in Nat /\ x <= Size(a)
    <3>1. (a > 1 /\ m = D[a]) \/ m - D[a] < Size(a) - Off(c, a)
      BY <2>2, <2>3, Zenon DEF FirstStop
    <3> QED
      BY <2>2, <2>5, <3>1, SMTT(60)
  <2>7. ASSUME NEW j \in 1..(a - 1) PROVE D[j] + (Size(j) - Off(c, j)) <= m
    <3>1. j \in 1..N /\ j \in 1..(N + 1) /\ j <= N
      BY <2>4, SMT
    <3>2. D[j] \in Nat /\ Size(j) \in Nat /\ Off(c, j) \in Nat /\ Off(c, j) <= Size(j)
      BY <1>1, <3>1, Zenon
    <3>3. ~(m - D[j] < Size(j) - Off(c, j))
      BY <2>2, <2>3, <3>1, Zenon DEF FirstStop
    <3> QED
      BY <3>2, <3>3, SMTT(60)
  <2>8. PlaceAt(c, plus(reader_iter_, m), a, x, m)
    <3> HIDE DEF x
    <3>1. plus(reader_iter_, m) = <<a, x>>
      BY <2>2, Zenon DEF x
    <3> QED
      BY <2>2, <2>4, <2>6, <2>7, <3>1, Zenon DEF PlaceAt, D, x
  <2> QED
    BY <1>5, <2>8, Zenon
<1> QED
  BY <1>4, <1>5, Zenon

\* From a place to another that is n bytes further on.
Leads(from, m, n) ==
  LET it == plus(from, n)
  IN  /\ it = plus(reader_iter_, m + n)
      /\ minus(it, from) = n
      /\ Before(from, it) /\ After(it, from)

\* Places further on: operator+= stops where it would stop from the reader.
LEMMA LeadsOn ==
  ASSUME NEW c \in Nat, buffer_ \in Seq(Node), ReaderAt(c),
         NEW from, NEW a, NEW x, NEW m \in Nat, PlaceAt(c, from, a, x, m),
         NEW n \in Nat, n > 0, m + n <= readableSize
  PROVE  Leads(from, m, n)
<1> DEFINE N == Len(buffer_)
           D == Distance(reader_iter_)
           E == Distance(from)
           w == m + n
<1>1. /\ \A i \in 1..N : /\ Size(i) \in Nat /\ Off(c, i) \in Nat /\ Off(c, i) <= Size(i)
                         /\ D[i + 1] = D[i] + (Size(i) - Off(c, i))
      /\ \A i \in 1..(N + 1) : D[i] \in Nat
  BY DistanceIs, Zenon
<1>2. /\ N \in Nat /\ from[1] = a /\ from[2] = x /\ from = <<a, x>> /\ a \in 1..N /\ x \in Nat
      /\ x = Off(c, a) + (m - D[a]) /\ D[a] <= m /\ x <= Size(a)
      /\ \A j \in 1..(a - 1) : D[j] + (Size(j) - Off(c, j)) <= m
  BY DEF PlaceAt
<1>3. /\ DOMAIN E = a..(N + 1)
      /\ \A j \in a..(N + 1) : E[j] = IF j = a THEN 0 ELSE D[j] - m
  <2>1. FarFrom(from, a, m)
    BY DistanceFrom, SMT
  <2> QED
    BY <2>1, Zenon DEF FarFrom
<1>4. w \in Nat /\ w > 0 /\ w > m
  BY SMT
<1> HIDE DEF w
<1>5. PICK k \in 1..(N + 1) : /\ plus(reader_iter_, w) = <<k, Off(c, k) + (w - D[k])>>
                              /\ FirstStop(c, w, k) /\ D[k] <= w
  <2>1. w <= readableSize
    BY Zenon DEF w
  <2> QED
    BY <1>4, <2>1, PlusIs, Zenon
<1>6. \A i : StopsAt(c, w, i) <=> \/ i > 1 /\ w = D[i]
                                  \/ i <= N /\ w - D[i] < Size(i) - Off(c, i)
  BY Zenon DEF StopsAt
<1> HIDE DEF D
<1>7. /\ In(from, a) = from
      /\ \A j \in (a + 1)..(N + 1) : In(from, j)[1] = j /\ In(from, j)[2] = 0 /\ Off(c, j) = 0
  <2>1. In(from, a) = from
    BY <1>2, Zenon DEF In
  <2>2. \A j \in (a + 1)..(N + 1) : In(from, j) = <<j, 0>> /\ Off(c, j) = 0
    BY <1>2, SMT DEF In, Off
  <2> QED
    BY <2>1, <2>2
<1>8. D[a] \in Nat /\ Size(a) \in Nat /\ Off(c, a) \in Nat /\ Off(c, a) <= Size(a)
  <2>1. a \in 1..(N + 1)
    BY <1>2, SMT
  <2> QED
    BY <1>1, <1>2, <2>1, Zenon
<1>9. k \in a..(N + 1)
  <2> SUFFICES ASSUME k \in 1..(a - 1) PROVE FALSE
    BY <1>2, <1>5, SMT
  <2>1. k \in 1..N /\ k \in 1..(N + 1)
    BY <1>2, SMT
  <2>2. D[k] \in Nat /\ Size(k) \in Nat /\ Off(c, k) \in Nat /\ Off(c, k) <= Size(k)
    BY <1>1, <2>1, Zenon
  <2>3. D[k] + (Size(k) - Off(c, k)) <= m
    BY <1>2, Zenon
  <2>4. (k > 1 /\ w = D[k]) \/ w - D[k] < Size(k) - Off(c, k)
    BY <1>5, <1>6, Zenon DEF FirstStop
  <2> QED
    BY <1>4, <2>2, <2>3, <2>4, SMTT(60)
<1>10. ASSUME NEW j \in a..(N + 1) PROVE Stops(from, n, j) <=> StopsAt(c, w, j)
  <2>1. Stops(from, n, j) <=> \/ j > a /\ n = E[j]
                              \/ j <= N /\ n - E[j] < charDistanceToEndOfNode(In(from, j))
    BY <1>2, Zenon DEF Stops
  <2>2. CASE j = a
    <3>1. E[j] = 0 /\ charDistanceToEndOfNode(In(from, j)) = Size(a) - x
      BY <1>2, <1>3, <1>7, <2>2, Zenon DEF charDistanceToEndOfNode
    <3> QED
      BY <1>2, <1>4, <1>6, <1>8, <2>1, <2>2, <3>1, SMTT(180) DEF w
  <2>3. CASE j # a
    <3>1. j \in (a + 1)..(N + 1) /\ j > a /\ j > 1 /\ j \in 1..(N + 1)
      BY <1>2, <2>3, SMT
    <3>2. E[j] = D[j] - m /\ D[j] \in Nat /\ Off(c, j) = 0
      BY <1>1, <1>3, <1>7, <2>3, <3>1, Zenon
    <3>3. charDistanceToEndOfNode(In(from, j)) = Size(j) - 0
      BY <1>7, <3>1, Zenon DEF charDistanceToEndOfNode
    <3>4. CASE j <= N
      <4>1. Size(j) \in Nat
        <5>1. j \in 1..N
          BY <3>1, <3>4, <1>2, SMT
        <5> QED
          BY <1>1, <5>1, Zenon
      <4> DEFINE e == E[j]
                 dj == D[j]
                 sj == Size(j)
      <4>2. /\ Stops(from, n, j) <=> n = e \/ n - e < sj - 0
            /\ StopsAt(c, w, j) <=> w = dj \/ w - dj < sj - 0
        BY <1>6, <2>1, <3>1, <3>2, <3>3, <3>4, Zenon
      <4>3. e = dj - m /\ dj \in Nat /\ sj \in Nat
        BY <3>2, <4>1, Zenon
      <4> HIDE DEF e, dj, sj
      <4>4. (n = e <=> w = dj) /\ (n - e < sj - 0 <=> w - dj < sj - 0)
        BY ONLY m \in Nat, n \in Nat, <4>3, SMTT(60) DEF w
      <4> QED
        BY <4>2, <4>4, Zenon
    <3>5. CASE ~(j <= N)
      BY <1>6, <2>1, <3>1, <3>2, <3>5, SMTT(60) DEF w
    <3> QED
      BY <3>4, <3>5, Zenon
  <2> QED
    BY <2>2, <2>3, Zenon
<1> DEFINE First(j) == Stops(from, n, j) /\ \A i \in from[1]..(j - 1) : ~Stops(from, n, i)
           stop == CHOOSE j \in DOMAIN E : First(j)
<1>11. First(k)
  <2>1. \A i \in a..(k - 1) : i \in 1..(k - 1) /\ i \in a..(N + 1)
    BY <1>2, <1>9, SMT
  <2>2. StopsAt(c, w, k) /\ \A i \in 1..(k - 1) : ~StopsAt(c, w, i)
    BY <1>5, Zenon DEF FirstStop
  <2> QED
    BY <1>2, <1>9, <1>10, <2>1, <2>2, Zenon
<1>12. stop \in a..(N + 1) /\ First(stop)
  BY <1>3, <1>9, <1>11, Zenon
<1>13. plus(from, n) = <<stop, In(from, stop)[2] + (n - E[stop])>>
  <2>1. ~(n < 0)
    BY SMT
  <2> QED
    BY <2>1, Zenon DEF plus
<1> HIDE DEF stop
<1>14. stop = k
  <2>1. stop = k \/ stop \in a..(k - 1) \/ k \in a..(stop - 1)
    BY <1>2, <1>9, <1>12, SMT
  <2> QED
    BY <1>2, <1>11, <1>12, <2>1, Zenon
<1> HIDE DEF First, E
<1> DEFINE y == Off(c, k) + (w - D[k])
<1>15. /\ In(from, k)[2] + (n - E[k]) = y
       /\ y \in Nat /\ (k = a => y > x)
       /\ E[k] + (y - In(from, k)[2]) = n
  <2>1. CASE k = a
    <3>1. E[k] = 0 /\ In(from, k)[2] = x
      BY <1>2, <1>3, <1>7, <1>9, <2>1, Zenon
    <3> QED
      BY <1>2, <1>8, <2>1, <3>1, SMTT(180) DEF w
  <2>2. CASE k # a
    <3>1. k \in (a + 1)..(N + 1)
      BY <1>2, <1>9, <2>2, SMT
    <3>2. E[k] = D[k] - m /\ In(from, k)[2] = 0 /\ Off(c, k) = 0 /\ D[k] \in Nat
      BY <1>1, <1>3, <1>7, <1>9, <2>2, <3>1, Zenon
    <3> QED
      BY <1>4, <1>5, <2>2, <3>2, SMTT(60) DEF w
  <2> QED
    BY <2>1, <2>2, Zenon
<1> HIDE DEF y
<1> DEFINE it == <<k, y>>
<1>16. plus(from, n) = it /\ plus(reader_iter_, m + n) = it
  <2>1. plus(from, n) = <<k, y>>
    BY <1>13, <1>14, <1>15, Zenon
  <2>2. plus(reader_iter_, w) = <<k, y>>
    BY <1>5, Zenon DEF y
  <2> QED
    BY <2>1, <2>2, Zenon DEF w
<1>17. Before(from, it) /\ After(it, from) /\ ~Before(it, from)
  BY <1>2, <1>9, <1>15, SMTT(60) DEF Before, After
<1>18. minus(it, from) = n
  <2>1. it[1] = k /\ it[2] = y
    OBVIOUS
  <2> HIDE DEF it
  <2>2. minus(it, from) = E[k] + (y - In(from, k)[2])
    BY <1>17, <2>1, Zenon DEF minus, E
  <2> QED
    BY <1>15, <2>2, Zenon
<1> QED
  BY <1>16, <1>17, <1>18, Zenon DEF Leads

\* One byte further, and back, in every state of the invariant.
LEMMA OneByte ==
  ASSUME LinkedInv, reader_iter_ # Unset
  PROVE  /\ minus(end, reader_iter_) = readableSize
         /\ \A n \in 1..readableSize :
              LET it == plus(reader_iter_, n)
              IN  n < readableSize /\ (\A i \in DOMAIN buffer_ : Size(i) > 0) =>
                    /\ next(it) = plus(reader_iter_, n + 1)
                    /\ n + 1 < readableSize => prev(next(it)) = it
<1> DEFINE r == reader_iter_
           N == Len(buffer_)
           D == Distance(r)
<1>1. buffer_ \in Seq(Node)
  BY Zenon DEF LinkedInv, NodesWell
<1>2. PICK c \in Nat : ReaderAt(c)
  BY Zenon DEF LinkedInv
<1>3. /\ D[1] = 0
      /\ \A i \in 1..N : /\ Size(i) \in Nat /\ Off(c, i) \in Nat /\ Off(c, i) <= Size(i)
                         /\ D[i + 1] = D[i] + (Size(i) - Off(c, i))
      /\ \A i \in 1..(N + 1) : D[i] \in Nat
  BY <1>1, <1>2, DistanceIs, Zenon
<1>4. N \in Nat /\ r = <<1, c>> /\ r[1] = 1 /\ r[2] = c
  BY <1>1, <1>2, SMT DEF ReaderAt
<1>5. readableSize = D[N + 1]
  BY Zenon DEF readableSize
<1>6. \A i \in 1..(N + 1) : Off(c, i) \in Nat /\ In(r, i)[2] = Off(c, i)
  BY <1>4, SMT DEF In, Off
<1>7. \A i \in 1..(N + 1), m \in Nat :
        ~(i < 1 \/ (i = 1 /\ m < c)) => minus(<<i, m>>, r) = D[i] + (m - Off(c, i))
  BY <1>4, <1>6, SMTT(60) DEF minus, Before
<1>8. minus(end, r) = readableSize
  <2>1. N + 1 \in 1..(N + 1) /\ ~(N + 1 < 1) /\ ~(N + 1 = 1 /\ 0 < c) /\ Off(c, N + 1) = 0
    BY <1>1, <1>2, <1>4, SMT DEF ReaderAt, Off
  <2>2. minus(<<N + 1, 0>>, r) = D[N + 1] + (0 - Off(c, N + 1))
    BY <2>1, <1>7
  <2>3. D[N + 1] + (0 - 0) = D[N + 1]
    BY <2>1, <1>3, SMT
  <2> QED
    BY <2>1, <2>2, <2>3, <1>5, Zenon DEF end
<1> HIDE DEF D
<1>9. ASSUME NEW n \in 1..readableSize
      PROVE  \E i \in 1..(N + 1) :
               /\ plus(r, n) = <<i, Off(c, i) + (n - D[i])>>
               /\ FirstStop(c, n, i) /\ D[i] <= n
  <2>1. n \in Nat /\ n <= readableSize /\ n > 0
    BY <1>3, <1>4, <1>5, SMT
  <2> QED
    BY <2>1, <1>1, <1>2, PlusIs, Zenon DEF D
<1>10. \A n, i : StopsAt(c, n, i) <=>
        \/ i > 1 /\ n = D[i]
        \/ i <= N /\ n - D[i] < Size(i) - Off(c, i)
  BY Zenon DEF StopsAt, D
<1>11. ASSUME NEW n \in 1..readableSize
       PROVE  LET it == plus(r, n)
              IN  n < readableSize /\ (\A i \in DOMAIN buffer_ : Size(i) > 0) =>
                    /\ next(it) = plus(r, n + 1)
                    /\ n + 1 < readableSize => prev(next(it)) = it
  <2>1. PICK i \in 1..(N + 1) : /\ plus(r, n) = <<i, Off(c, i) + (n - D[i])>>
                                /\ FirstStop(c, n, i) /\ D[i] <= n
    BY <1>9
  <2> DEFINE m == Off(c, i) + (n - D[i])
             it == <<i, m>>
  <2>2. n \in Nat /\ n > 0 /\ i \in Nat /\ Off(c, i) \in Nat /\ D[i] \in Nat /\ m \in Nat
    BY <2>1, <1>3, <1>4, <1>5, <1>6, SMTT(60)
  <2>6. ASSUME n < readableSize, \A k \in DOMAIN buffer_ : Size(k) > 0
        PROVE  /\ next(it) = plus(r, n + 1)
               /\ n + 1 < readableSize => prev(next(it)) = it
    <3>1. i \in 1..N /\ n - D[i] < Size(i) - Off(c, i) /\ m < Size(i)
      <4>1. i # N + 1
        <5> SUFFICES ASSUME i = N + 1 PROVE FALSE
          OBVIOUS
        <5>1. n = D[N + 1]
          BY <2>1, <1>10, <1>4, SMT DEF FirstStop
        <5> QED
          BY <5>1, <2>6, <2>2, <1>5, SMT
      <4>2. i \in 1..N /\ i \in DOMAIN buffer_
        BY <4>1, <1>1, <1>4, SMT
      <4>3. Size(i) > 0 /\ Size(i) \in Nat
        BY <4>2, <2>6, <1>3, Zenon
      <4>4. (i > 1 /\ n = D[i]) \/ n - D[i] < Size(i) - Off(c, i)
        BY <2>1, <1>10, Zenon DEF FirstStop
      <4>5. i > 1 => Off(c, i) = 0
        BY SMT DEF Off
      <4> QED
        BY <4>2, <4>3, <4>4, <4>5, <2>2, SMTT(60)
    <3>2. /\ Size(i) \in Nat /\ D[i + 1] = D[i] + (Size(i) - Off(c, i))
          /\ i + 1 \in 1..(N + 1)
      <4>1. i + 1 \in 1..(N + 1)
        BY <3>1, <1>4, SMT
      <4> QED
        BY <3>1, <4>1, <1>3, Zenon
    <3>0. Off(c, i) <= Size(i)
      BY <3>1, <1>3, Zenon
    <3>3. n + 1 \in 1..readableSize
      <4>1. N + 1 \in 1..(N + 1)
        BY <1>4, SMT
      <4>2. readableSize \in Nat
        BY <4>1, <1>3, <1>5, Zenon
      <4> QED
        BY <4>2, <2>2, <2>6, SMT
    <3>9. /\ m + 1 = Size(i) => n + 1 = D[i] + (Size(i) - Off(c, i))
                                /\ ~((n + 1) - D[i] < Size(i) - Off(c, i))
          /\ n + 1 # D[i]
          /\ m < Size(i) /\ m + 1 # Size(i) => (n + 1) - D[i] < Size(i) - Off(c, i)
          /\ Off(c, i) + ((n + 1) - D[i]) = m + 1
      <4>1. /\ n \in Nat /\ D[i] \in Nat /\ Size(i) \in Nat /\ Off(c, i) \in Nat
            /\ Off(c, i) <= Size(i) /\ D[i] <= n
        BY <2>1, <2>2, <3>0, <3>2, Zenon
      <4> QED
        <5>1. OneMore(n, D[i], Size(i), Off(c, i))
          BY <4>1, OneByteOn, Zenon
        <5> QED
          BY <4>1, <5>1, Zenon DEF OneMore
    <3>4. PICK k \in 1..(N + 1) : /\ plus(r, n + 1) = <<k, Off(c, k) + ((n + 1) - D[k])>>
                                  /\ FirstStop(c, n + 1, k) /\ D[k] <= n + 1
      BY <3>3, <1>9
    <3>5. next(it) = IF m + 1 = Size(i) THEN <<i + 1, 0>> ELSE <<i, m + 1>>
      BY SMT DEF next, toFirstCharOfNextNode
    <3>6. ASSUME NEW j \in 1..(i - 1) PROVE ~StopsAt(c, n + 1, j)
      <4>1. j \in 1..N /\ j \in 1..(N + 1) /\ j <= N
        BY <3>1, <1>4, SMT
      <4>2. ~(n - D[j] < Size(j) - Off(c, j)) /\ ~(j > 1 /\ n = D[j])
        BY <4>1, <2>1, <1>10, Zenon DEF FirstStop
      <4>3. /\ Size(j) \in Nat /\ Off(c, j) \in Nat /\ Off(c, j) <= Size(j) /\ D[j] \in Nat
        BY <4>1, <1>3, Zenon
      <4>4. ~((n + 1) - D[j] < Size(j) - Off(c, j)) /\ n + 1 # D[j]
        <5>1. OneMore(n, D[j], Size(j), Off(c, j))
          BY <4>3, <2>2, OneByteOn, Zenon
        <5> QED
          BY <4>2, <5>1, Zenon DEF OneMore
      <4> QED
        BY <4>4, <1>10, Zenon
    <3>7. CASE m + 1 = Size(i)
      <4>1. ~StopsAt(c, n + 1, i)
        <5>1. ~((n + 1) - D[i] < Size(i) - Off(c, i)) /\ n + 1 # D[i]
          BY <3>7, <3>9, Zenon
        <5> QED
          BY <5>1, <1>10, Zenon
      <4>2. StopsAt(c, n + 1, i + 1)
        <5>1. n + 1 = D[i + 1]
          BY <3>7, <3>2, <3>9, Zenon
        <5>2. i + 1 > 1
          BY <2>2, SMT
        <5> QED
          BY <5>1, <5>2, <1>10, Zenon
      <4>3. k = i + 1
        <5>1. k \in 1..(i - 1) \/ k = i \/ k = i + 1 \/ i + 1 \in 1..(k - 1)
          BY <1>4, <2>2, SMT
        <5> QED
          BY <5>1, <4>1, <4>2, <3>4, <3>6, Zenon DEF FirstStop
      <4>4. Off(c, k) + ((n + 1) - D[k]) = 0
        <5>1. D[k] = n + 1
          BY <4>3, <3>7, <3>2, <3>9, Zenon
        <5>2. Off(c, k) = 0
          BY <4>3, <2>2, SMT DEF Off
        <5>3. 0 + ((n + 1) - (n + 1)) = 0
          BY <2>2, SMT
        <5> QED
          BY <5>1, <5>2, <5>3, Zenon
      <4>5. next(it) = plus(r, n + 1) /\ next(it) = <<i + 1, 0>>
        BY <4>3, <4>4, <3>4, <3>5, <3>7
      <4>6. prev(<<i + 1, 0>>) = <<i, m>>
        <5>1. (i + 1) - 1 = i /\ Size(i) - 1 = m
          BY <3>7, <2>2, SMTT(60)
        <5>2. prev(<<i + 1, 0>>) = <<(i + 1) - 1, Size((i + 1) - 1) - 1>>
          BY SMT DEF prev, toLastCharOfPrevNode
        <5> QED
          BY <5>1, <5>2, Zenon
      <4> QED
        BY <4>5, <4>6
    <3>8. CASE m + 1 # Size(i)
      <4>1. StopsAt(c, n + 1, i)
        <5>1. (n + 1) - D[i] < Size(i) - Off(c, i)
          BY <3>1, <3>8, <3>9, Zenon
        <5>2. i <= N
          BY <3>1, <1>4, SMT
        <5> QED
          BY <5>1, <5>2, <1>10, Zenon
      <4>2. k = i
        <5>1. k \in 1..(i - 1) \/ k = i \/ i \in 1..(k - 1)
          BY <1>4, <2>2, SMT
        <5> QED
          BY <5>1, <4>1, <3>4, <3>6, Zenon DEF FirstStop
      <4>3. Off(c, k) + ((n + 1) - D[k]) = m + 1
        BY <4>2, <3>9, Zenon
      <4>4. next(it) = plus(r, n + 1) /\ next(it) = <<i, m + 1>>
        BY <4>2, <4>3, <3>4, <3>5, <3>8
      <4>5. prev(<<i, m + 1>>) = <<i, m>>
        BY <2>2, SMTT(60) DEF prev
      <4> QED
        BY <4>4, <4>5
    <3> QED
      BY <3>7, <3>8
  <2>7. plus(r, n) = it
    BY <2>1
  <2> HIDE DEF it
  <2> QED
    BY <2>6, <2>7, Zenon
<1> QED
  BY <1>8, <1>11, Zenon

\* Forward arithmetic is consistent in every state of the invariant.
LEMMA Forward == LinkedInv => ForwardArithmetic
<1> SUFFICES ASSUME LinkedInv, reader_iter_ # Unset PROVE ForwardArithmetic
  BY Zenon DEF ForwardArithmetic
<1>1. buffer_ \in Seq(Node)
  BY Zenon DEF LinkedInv, NodesWell
<1>2. PICK c \in Nat : ReaderAt(c)
  BY Zenon DEF LinkedInv
<1>3. readableSize \in Nat
  <2>1. Len(buffer_) + 1 \in 1..(Len(buffer_) + 1)
    BY <1>1
  <2> QED
    BY <1>1, <1>2, <2>1, DistanceIs, Zenon DEF readableSize
<1>4. ASSUME NEW m \in 0..readableSize, NEW n \in 1..(readableSize - m)
      PROVE  Leads(IF m = 0 THEN reader_iter_ ELSE plus(reader_iter_, m), m, n)
  <2>1. m \in Nat /\ m < readableSize /\ n \in Nat /\ n > 0 /\ m + n <= readableSize
    BY <1>3, SMT
  <2> DEFINE from == IF m = 0 THEN reader_iter_ ELSE plus(reader_iter_, m)
  <2>2. PICK a, x : PlaceAt(c, from, a, x, m)
    BY <1>1, <1>2, <2>1, PlaceOf, Zenon
  <2> HIDE DEF from
  <2>3. Leads(from, m, n)
    BY <1>1, <1>2, <2>1, <2>2, LeadsOn, Zenon
  <2> QED
    BY <2>3, Zenon DEF from
<1>5. \A n \in 1..(readableSize - 1) : n \in 1..readableSize /\ n < readableSize
  BY <1>3, SMT
<1>6. /\ minus(end, reader_iter_) = readableSize
      /\ (\A i \in DOMAIN buffer_ : Size(i) > 0) =>
           \A n \in 1..(readableSize - 1) :
             LET it == plus(reader_iter_, n)
             IN  /\ next(it) = plus(reader_iter_, n + 1)
                 /\ n + 1 < readableSize => prev(next(it)) = it
  BY <1>5, OneByte, Zenon
<1> QED
  BY <1>4, <1>6, Zenon DEF Leads, ForwardArithmetic

-----------------------------------------------------------------------------
(* What the operations do to the nodes.                                    *)

\* A node of the deque.
LEMMA NodeIs ==
  ASSUME NEW b \in Seq(Node), NEW i \in 1..Len(b)
  PROVE  /\ b[i] \in Node /\ b[i].data \in Seq(Byte) /\ b[i].capacity \in Nat
         /\ Len(b[i].data) \in Nat /\ Len(b) \in Nat
<1>1. b[i] \in Node
  BY SMT
<1>2. b[i].data \in Seq(Byte) /\ b[i].capacity \in Nat
  BY <1>1, Zenon DEF Node
<1> QED
  BY <1>1, <1>2, SMT

\* insert() leaves the capacity of a node.
LEMMA SetData ==
  ASSUME NEW l \in Node, NEW y \in Seq(Byte)
  PROVE  LET g == [l EXCEPT !.data = y]
         IN  g \in Node /\ g.data = y /\ g.capacity = l.capacity
BY SMT DEF Node

LastSet(b, g) == [b EXCEPT ![Len(b)] = g]

\* The last node replaced.
LEMMA SetLast ==
  ASSUME NEW b, b \in Seq(Node), Len(b) > 0, NEW g, g \in Node
  PROVE  /\ LastSet(b, g) \in Seq(Node) /\ Len(LastSet(b, g)) = Len(b)
         /\ LastSet(b, g)[Len(b)] = g
         /\ \A i \in 1..(Len(b) - 1) : LastSet(b, g)[i] = b[i]
BY SMT DEF LastSet

\* push_back() of a node behind one that has no room for its bytes.
LEMMA WellAppend ==
  ASSUME NEW b, NodesWell(b), NEW node \in Node,
         kMinNodeSize <= node.capacity, Len(node.data) <= node.capacity,
         b # <<>> => Len(b[Len(b)].data) + Len(node.data) >= kMinNodeSize
  PROVE  NodesWell(Append(b, node))
<1> DEFINE n == Len(b)
           a == Append(b, node)
<1>1. b \in Seq(Node)
  BY Zenon DEF NodesWell
<1>2. /\ a \in Seq(Node) /\ Len(a) = n + 1 /\ n \in Nat /\ a[n + 1] = node
      /\ \A i \in 1..n : a[i] = b[i]
  BY <1>1, SMT
<1> HIDE DEF a
<1>3. ASSUME NEW i \in 1..Len(a)
      PROVE  kMinNodeSize <= a[i].capacity /\ Len(a[i].data) <= a[i].capacity
  <2>1. i \in 1..n \/ i = n + 1
    BY <1>2, SMT
  <2> QED
    BY <2>1, <1>2, Zenon DEF NodesWell
<1>4. ASSUME NEW i \in 1..(Len(a) - 1)
      PROVE  Len(a[i].data) + Len(a[i + 1].data) >= kMinNodeSize
  <2>1. CASE i \in 1..(n - 1)
    <3>1. i \in 1..n /\ i + 1 \in 1..n
      BY <2>1, <1>2, SMT
    <3> QED
      BY <2>1, <3>1, <1>2, Zenon DEF NodesWell
  <2>2. CASE i = n
    <3>1. n \in 1..n /\ b # <<>>
      BY <2>2, <1>2, SMT
    <3> QED
      BY <2>2, <3>1, <1>2, Zenon
  <2>3. i \in 1..(n - 1) \/ i = n
    BY <1>2, SMT
  <2> QED
    BY <2>1, <2>2, <2>3, Zenon
<1> QED
  BY <1>2, <1>3, <1>4, Zenon DEF NodesWell, a

Grown(b, x) == [b EXCEPT ![Len(b)].data = @ \o x]

\* insert() of bytes that fit into the last node.
LEMMA WellGrow ==
  ASSUME NEW b, NodesWell(b), b # <<>>, NEW x \in Seq(Byte),
         Len(b[Len(b)].data) + Len(x) < kMinNodeSize
  PROVE  LET a == Grown(b, x)
         IN  /\ NodesWell(a) /\ Len(a) = Len(b)
             /\ a[Len(b)].data = b[Len(b)].data \o x
             /\ Len(a[Len(b)].data) = Len(b[Len(b)].data) + Len(x)
             /\ \A i \in 1..(Len(b) - 1) : a[i] = b[i]
<1> DEFINE n == Len(b)
           a == Grown(b, x)
           l == b[n]
<1>1. b \in Seq(Node)
  BY Zenon DEF NodesWell
<1>2. n \in Nat /\ n >= 1 /\ n \in 1..n
  BY <1>1, SMT
<1>3. l \in Node /\ l.data \in Seq(Byte) /\ l.capacity \in Nat
  BY <1>1, <1>2, NodeIs, Zenon
<1>4. l.data \o x \in Seq(Byte) /\ Len(l.data \o x) = Len(l.data) + Len(x) /\ Len(l.data) \in Nat /\ Len(x) \in Nat
  BY <1>3, SMT
<1>5. a = [b EXCEPT ![n] = [l EXCEPT !.data = l.data \o x]]
  BY <1>1, <1>2, SMT DEF Grown
<1> HIDE DEF a
<1> DEFINE g == [l EXCEPT !.data = l.data \o x]
<1>6. g \in Node /\ g.data = l.data \o x /\ g.capacity = l.capacity
  BY <1>3, <1>4, SetData, Zenon
<1> HIDE DEF g
<1>7. /\ a \in Seq(Node) /\ Len(a) = n /\ a[n] = g
      /\ \A i \in 1..(n - 1) : a[i] = b[i]
  <2>1. a = LastSet(b, g) /\ Len(b) > 0
    BY <1>2, <1>5, SMT DEF g, LastSet
  <2>2. g \in Node
    BY <1>6
  <2>3. /\ LastSet(b, g) \in Seq(Node) /\ Len(LastSet(b, g)) = Len(b)
        /\ LastSet(b, g)[Len(b)] = g
        /\ \A i \in 1..(Len(b) - 1) : LastSet(b, g)[i] = b[i]
    BY <2>1, <2>2, <1>1, SetLast, ZenonT(60)
  <2> QED
    BY <2>1, <2>3, Zenon
<1> HIDE DEF l
<1>8. Len(g.data) = Len(l.data) + Len(x) /\ Len(g.data) < kMinNodeSize
  BY <1>4, <1>6, Zenon DEF l
<1>9. kMinNodeSize <= l.capacity
  BY <1>2, Zenon DEF NodesWell, l
<1>10. Len(g.data) <= g.capacity /\ kMinNodeSize <= g.capacity
  BY <1>3, <1>4, <1>6, <1>8, <1>9, LinkedBufferAssumption, SMT
<1>11. ASSUME NEW i \in 1..Len(a)
       PROVE  kMinNodeSize <= a[i].capacity /\ Len(a[i].data) <= a[i].capacity
  <2>1. i = n \/ (i \in 1..(n - 1) /\ i \in 1..n)
    BY <1>2, <1>7, SMT
  <2> QED
    BY <2>1, <1>7, <1>10, Zenon DEF NodesWell
<1>12. ASSUME NEW i \in 1..(Len(a) - 1)
       PROVE  Len(a[i].data) + Len(a[i + 1].data) >= kMinNodeSize
  <2>1. i \in 1..(n - 1) /\ a[i] = b[i] /\ i \in 1..n
    BY <1>2, <1>7, SMT
  <2>2. Len(b[i].data) + Len(b[i + 1].data) >= kMinNodeSize
    BY <2>1, Zenon DEF NodesWell
  <2>3. CASE i + 1 = n
    <3>1. Len(b[i].data) + Len(l.data) >= kMinNodeSize /\ Len(b[i].data) \in Nat
      BY <1>1, <2>1, <2>2, <2>3, NodeIs, Zenon DEF l
    <3>2. Len(b[i].data) + Len(g.data) >= kMinNodeSize
      <4>1. \A u, v, w, k \in Nat : u + v >= k => u + (v + w) >= k
        BY SMT
      <4>2. kMinNodeSize \in Nat
        BY LinkedBufferAssumption
      <4> QED
        BY <3>1, <4>1, <4>2, <1>4, <1>8, Zenon
    <3> QED
      BY <3>2, <2>1, <2>3, <1>7, Zenon
  <2>4. CASE i + 1 # n
    <3>1. i + 1 \in 1..(n - 1)
      BY <2>1, <2>4, <1>2, SMT
    <3> QED
      BY <3>1, <2>1, <2>2, <1>7, Zenon
  <2> QED
    BY <2>3, <2>4, Zenon
<1> QED
  BY <1>6, <1>7, <1>8, <1>11, <1>12, Zenon DEF NodesWell, l, a

\* pop_front() of the nodes before i.
LEMMA WellDrop ==
  ASSUME NEW b, NodesWell(b), NEW i \in 1..(Len(b) + 1)
  PROVE  /\ NodesWell(SubSeq(b, i, Len(b)))
         /\ Len(SubSeq(b, i, Len(b))) = Len(b) - (i - 1)
         /\ \A k \in 1..(Len(b) - (i - 1)) : SubSeq(b, i, Len(b))[k] = b[(i - 1) + k]
<1> DEFINE n == Len(b)
           a == SubSeq(b, i, n)
           m == i - 1
<1>1. b \in Seq(Node)
  BY Zenon DEF NodesWell
<1>2. n \in Nat /\ m \in Nat /\ m <= n
  BY <1>1, SMT
<1>3. /\ a \in Seq(Node) /\ Len(a) = n - m
      /\ \A k \in 1..(n - m) : a[k] = b[m + k]
  BY <1>1, SMT
<1> HIDE DEF a, m
<1>4. ASSUME NEW k \in 1..Len(a)
      PROVE  kMinNodeSize <= a[k].capacity /\ Len(a[k].data) <= a[k].capacity
  <2>1. m + k \in 1..n /\ k \in 1..(n - m)
    BY <1>2, <1>3, SMT
  <2> QED
    BY <2>1, <1>3, Zenon DEF NodesWell
<1>5. ASSUME NEW k \in 1..(Len(a) - 1)
      PROVE  Len(a[k].data) + Len(a[k + 1].data) >= kMinNodeSize
  <2>1. /\ m + k \in 1..(n - 1) /\ k \in 1..(n - m) /\ k + 1 \in 1..(n - m)
        /\ m + (k + 1) = (m + k) + 1
    BY <1>2, <1>3, SMT
  <2> QED
    BY <2>1, <1>3, Zenon DEF NodesWell
<1> QED
  BY <1>3, <1>4, <1>5, Zenon DEF NodesWell, a, m

-----------------------------------------------------------------------------
(* What the operations do to the bytes.                                    *)

\* The pieces of nodes b for a reader at char c of the first one.
PiecesOf(b, c) == [k \in 1..Len(b) |-> SubSeq(b[k].data, Off(c, k) + 1, Len(b[k].data))]

\* Only the first node is entered behind its first byte.
LEMMA OffIs ==
  ASSUME NEW c \in Nat
  PROVE  /\ \A k : Off(c, k) \in Nat
         /\ Off(c, 1) = c
         /\ \A k : k # 1 => Off(c, k) = 0
BY SMT DEF Off

\* The pieces are sequences of bytes, one for each node.
LEMMA PiecesOfType ==
  ASSUME NEW b, b \in Seq(Node), NEW c \in Nat
  PROVE  /\ PiecesOf(b, c) \in Seq(Seq(Byte)) /\ Len(PiecesOf(b, c)) = Len(b)
         /\ Len(b) \in Nat
         /\ \A k \in 1..Len(b) :
              PiecesOf(b, c)[k] = SubSeq(b[k].data, Off(c, k) + 1, Len(b[k].data))
<1> DEFINE n == Len(b)
           f(k) == SubSeq(b[k].data, Off(c, k) + 1, Len(b[k].data))
<1>1. n \in Nat
  BY SMT
<1>2. ASSUME NEW k \in 1..n PROVE f(k) \in Seq(Byte)
  <2>1. b[k].data \in Seq(Byte) /\ Off(c, k) \in Nat
    BY NodeIs, OffIs, Zenon
  <2>2. \A d \in Seq(Byte), o \in Nat : SubSeq(d, o + 1, Len(d)) \in Seq(Byte)
    BY SMT
  <2> QED
    BY <2>1, <2>2, Zenon
<1> DEFINE g == [k \in 1..n |-> f(k)]
<1>3. PiecesOf(b, c) = g /\ \A k \in 1..n : g[k] = f(k)
  BY Zenon DEF PiecesOf
<1> HIDE DEF f
<1>4. g \in Seq(Seq(Byte)) /\ Len(g) = n
  BY <1>1, <1>2, SMT
<1> HIDE DEF g
<1> QED
  BY <1>1, <1>3, <1>4, Zenon DEF f

\* toIOVec() lists the pieces of all nodes.
LEMMA PiecesIs ==
  ASSUME NEW c \in Nat, buffer_ \in Seq(Node), reader_iter_ = <<1, c>>
  PROVE  Pieces = PiecesOf(buffer_, c)
<1>1. reader_iter_ # Unset /\ reader_iter_[1] = 1 /\ reader_iter_[2] = c
      /\ Len(buffer_) + 1 - reader_iter_[1] = Len(buffer_)
  BY SMT DEF Unset
<1>2. ASSUME NEW k \in 1..Len(buffer_)
      PROVE  LET it == In(reader_iter_, reader_iter_[1] + k - 1)
             IN  it[1] = k /\ it[2] = Off(c, k)
  BY <1>1, SMT DEF In, Off
<1> QED
  BY <1>1, <1>2, ZenonT(60) DEF Pieces, PiecesOf, Size

\* The same in the next state.
LEMMA PiecesNext ==
  ASSUME NEW c \in Nat, buffer_' \in Seq(Node), reader_iter_' = <<1, c>>
  PROVE  Pieces' = PiecesOf(buffer_', c)
<1>1. reader_iter_' # Unset /\ reader_iter_'[1] = 1 /\ reader_iter_'[2] = c
      /\ Len(buffer_') + 1 - reader_iter_'[1] = Len(buffer_')
  BY SMT DEF Unset
<1>2. ASSUME NEW k \in 1..Len(buffer_')
      PROVE  LET it == In(reader_iter_', reader_iter_'[1] + k - 1)
             IN  it[1] = k /\ it[2] = Off(c, k)
  BY <1>1, SMT DEF In, Off
<1> QED
  BY <1>1, <1>2, ZenonT(60) DEF Pieces, PiecesOf, Size

\* A new node puts its bytes at the end.
LEMMA BytesAppend ==
  ASSUME NEW b, b \in Seq(Node), NEW c \in Nat, b = <<>> => c = 0,
         NEW node \in Node
  PROVE  Joined(PiecesOf(Append(b, node), c)) = Joined(PiecesOf(b, c)) \o node.data
<1> DEFINE n == Len(b)
           a == Append(b, node)
           p == PiecesOf(b, c)
           q == PiecesOf(a, c)
<1>1. /\ a \in Seq(Node) /\ Len(a) = n + 1 /\ n \in Nat /\ a[n + 1] = node
      /\ \A i \in 1..n : a[i] = b[i]
  BY SMT
<1>2. node.data \in Seq(Byte)
  BY Zenon DEF Node
<1> HIDE DEF a
<1>3. /\ p \in Seq(Seq(Byte)) /\ Len(p) = n
      /\ \A k \in 1..n : p[k] = SubSeq(b[k].data, Off(c, k) + 1, Len(b[k].data))
  BY PiecesOfType, Zenon
<1>4. /\ q \in Seq(Seq(Byte)) /\ Len(q) = n + 1
      /\ \A k \in 1..(n + 1) : q[k] = SubSeq(a[k].data, Off(c, k) + 1, Len(a[k].data))
  <2>1. a \in Seq(Node)
    BY <1>1
  <2>2. /\ q \in Seq(Seq(Byte)) /\ Len(q) = Len(a)
        /\ \A k \in 1..Len(a) : q[k] = SubSeq(a[k].data, Off(c, k) + 1, Len(a[k].data))
    BY <2>1, PiecesOfType, Zenon
  <2> HIDE DEF q
  <2>3. Len(a) = n + 1
    BY <1>1
  <2> QED
    BY <2>2, <2>3, Zenon
<1> HIDE DEF p, q
<1>5. \A k \in 1..n : q[k] = p[k]
  <2>1. \A k \in 1..n : k \in 1..(n + 1)
    BY <1>1, SMT
  <2> QED
    BY <2>1, <1>1, <1>3, <1>4, Zenon
<1>6. q[n + 1] = node.data
  <2>1. n + 1 \in 1..(n + 1)
    BY <1>1, SMT
  <2>2. Off(c, n + 1) = 0
    BY <1>1, SMT DEF Off
  <2>3. q[n + 1] = SubSeq(node.data, 0 + 1, Len(node.data))
    BY <2>1, <2>2, <1>1, <1>4, Zenon
  <2>4. \A d \in Seq(Byte) : SubSeq(d, 0 + 1, Len(d)) = d
    BY SMT
  <2> QED
    BY <2>3, <2>4, <1>2, Zenon
<1>7. q = Append(p, node.data)
  <2> DEFINE z == Append(p, node.data)
  <2>1. /\ z \in Seq(Seq(Byte)) /\ Len(z) = n + 1 /\ z[n + 1] = node.data
        /\ \A k \in 1..n : z[k] = p[k]
    BY <1>1, <1>2, <1>3, SMT
  <2> HIDE DEF z
  <2>2. \A k \in 1..(n + 1) : k \in 1..n \/ k = n + 1
    BY <1>1, SMT
  <2>3. \A k \in 1..(n + 1) : q[k] = z[k]
    BY <2>1, <2>2, <1>5, <1>6, Zenon
  <2>4. q = z
    BY <2>1, <2>3, <1>4, SeqEqual, Zenon
  <2> QED
    BY <2>4 DEF z
<1>8. Joined(Append(p, node.data)) = Joined(p) \o node.data
  BY <1>2, <1>3, JoinedAppend, Zenon
<1> QED
  BY <1>7, <1>8, Zenon DEF p, q, a

\* Bytes inserted into the last node come last.
LEMMA BytesGrow ==
  ASSUME NEW b, NodesWell(b), b # <<>>, NEW x \in Seq(Byte),
         Len(b[Len(b)].data) + Len(x) < kMinNodeSize,
         NEW c \in Nat, c <= Len(b[1].data)
  PROVE  Joined(PiecesOf(Grown(b, x), c)) = Joined(PiecesOf(b, c)) \o x
<1> DEFINE n == Len(b)
           a == Grown(b, x)
           p == PiecesOf(b, c)
           q == PiecesOf(a, c)
           l == b[n].data
<1>1. b \in Seq(Node)
  BY Zenon DEF NodesWell
<1>2. /\ NodesWell(a) /\ Len(a) = n /\ a[n].data = l \o x
      /\ \A i \in 1..(n - 1) : a[i] = b[i]
  BY WellGrow, Zenon
<1>3. a \in Seq(Node)
  BY <1>2, Zenon DEF NodesWell
<1> HIDE DEF a
<1>4. n \in Nat /\ n >= 1 /\ n \in 1..n
  BY <1>1, SMT
<1>5. l \in Seq(Byte)
  BY <1>1, <1>4, NodeIs, Zenon
<1>6. /\ p \in Seq(Seq(Byte)) /\ Len(p) = n
      /\ \A k \in 1..n : p[k] = SubSeq(b[k].data, Off(c, k) + 1, Len(b[k].data))
  BY <1>1, PiecesOfType, Zenon
<1>7. /\ q \in Seq(Seq(Byte)) /\ Len(q) = n
      /\ \A k \in 1..n : q[k] = SubSeq(a[k].data, Off(c, k) + 1, Len(a[k].data))
  <2>1. /\ q \in Seq(Seq(Byte)) /\ Len(q) = Len(a)
        /\ \A k \in 1..Len(a) : q[k] = SubSeq(a[k].data, Off(c, k) + 1, Len(a[k].data))
    BY <1>3, PiecesOfType, Zenon
  <2> HIDE DEF q
  <2>2. Len(a) = n
    BY <1>2
  <2> QED
    BY <2>1, <2>2, Zenon
<1> HIDE DEF p, q
<1>8. \A k \in 1..(n - 1) : p[k] = q[k]
  <2>1. \A k \in 1..(n - 1) : k \in 1..n
    BY <1>4, SMT
  <2> QED
    BY <2>1, <1>2, <1>6, <1>7, Zenon
<1>9. q[n] = p[n] \o x
  <2> DEFINE o == Off(c, n)
  <2>1. o \in Nat /\ o <= Len(l)
    BY <1>5, SMT DEF Off
  <2> HIDE DEF o, l
  <2>2. SubSeq(l \o x, o + 1, Len(l \o x)) = SubSeq(l, o + 1, Len(l)) \o x
    <3>1. SuffixIs(l, x, o)
      BY <2>1, <1>5, SubSeqConcat, Zenon
    <3> QED
      BY <3>1, Zenon DEF SuffixOf, SuffixIs
  <2>3. p[n] = SubSeq(l, o + 1, Len(l)) /\ q[n] = SubSeq(l \o x, o + 1, Len(l \o x))
    BY <1>2, <1>4, <1>6, <1>7, Zenon DEF l, o
  <2> QED
    BY <2>2, <2>3, Zenon
<1>10. Joined(q) = Joined(p) \o x
  <2>1. /\ p \in Seq(Seq(Byte)) /\ q \in Seq(Seq(Byte)) /\ Len(p) = Len(q)
        /\ q[Len(p)] = p[Len(p)] \o x
        /\ \A k \in 1..(Len(p) - 1) : p[k] = q[k]
    BY <1>6, <1>7, <1>8, <1>9, Zenon
  <2>2. Len(p) > 0
    BY <1>4, <1>6, SMT
  <2> QED
    BY <2>1, <2>2, JoinedGrown, Zenon
<1> QED
  BY <1>10, Zenon DEF p, q, a

\* The bytes of pieces.
LEMMA JoinedType ==
  ASSUME NEW s, s \in Seq(Seq(Byte))
  PROVE  Joined(s) \in Seq(Byte) /\ (Len(s) = 0 => Joined(s) = <<>>)
<1>1. Len(s) \in 0..Len(s)
  BY SMT
<1>2. /\ \A k \in 0..Len(s) : Prefixes(s)[k] \in Seq(Byte)
      /\ \A k \in 0..Len(s) :
           Prefixes(s)[k] = IF k = 0 THEN <<>> ELSE Prefixes(s)[k - 1] \o s[k]
  BY PrefixesIs, Zenon
<1> QED
  BY <1>1, <1>2, Zenon DEF Joined

\* Dropping the nodes before i and m bytes of node i takes bytes at the front.
LEMMA BytesDrop ==
  ASSUME NEW b, NodesWell(b), NEW c \in Nat, NEW i \in 1..(Len(b) + 1), NEW m \in Nat,
         i <= Len(b) => Off(c, i) <= m /\ m <= Len(b[i].data)
  PROVE  \E x \in Seq(Byte) :
           Joined(PiecesOf(b, c)) = x \o Joined(PiecesOf(SubSeq(b, i, Len(b)), m))
<1> DEFINE n == Len(b)
           h == i - 1
           a == SubSeq(b, i, Len(b))
           p == PiecesOf(b, c)
           q == PiecesOf(a, m)
<1>1. b \in Seq(Node)
  BY Zenon DEF NodesWell
<1>2. n \in Nat /\ h \in Nat /\ h <= n /\ h + 1 = i
  BY <1>1, SMT
<1>3. /\ NodesWell(a) /\ Len(a) = n - h /\ \A k \in 1..(n - h) : a[k] = b[h + k]
  BY WellDrop, Zenon
<1>4. a \in Seq(Node)
  BY <1>3, Zenon DEF NodesWell
<1> HIDE DEF a, h
<1>5. /\ p \in Seq(Seq(Byte)) /\ Len(p) = n
      /\ \A k \in 1..n : p[k] = SubSeq(b[k].data, Off(c, k) + 1, Len(b[k].data))
  BY <1>1, PiecesOfType, Zenon
<1>6. /\ q \in Seq(Seq(Byte)) /\ Len(q) = Len(a)
      /\ \A k \in 1..Len(a) : q[k] = SubSeq(a[k].data, Off(m, k) + 1, Len(a[k].data))
  BY <1>4, PiecesOfType, Zenon
<1> HIDE DEF p, q
<1>7. CASE i = n + 1
  <2>1. Len(q) = 0
    BY <1>2, <1>3, <1>6, <1>7, SMT
  <2>2. Joined(q) = <<>> /\ Joined(p) \in Seq(Byte)
    BY <2>1, <1>5, <1>6, JoinedType, Zenon
  <2>3. Joined(p) = Joined(p) \o <<>>
    BY <2>2, ConcatEmpty, Zenon
  <2> QED
    BY <2>2, <2>3, Zenon DEF p, q, a
<1>8. CASE i <= n
  <2> DEFINE d == b[i].data
             o == Off(c, i)
             pre == SubSeq(d, o + 1, m)
             y == Prefixes(p)[h]
  <2>1. i \in 1..n /\ 1 \in 1..Len(a) /\ 1 \in 1..(n - h)
    BY <1>2, <1>3, <1>8, SMT
  <2>2. d \in Seq(Byte) /\ o \in Nat /\ o <= m /\ m <= Len(d)
    BY <2>1, <1>1, <1>8, NodeIs, OffIs, Zenon
  <2>3. a[1] = b[i]
    BY <2>1, <1>2, <1>3, Zenon
  <2>4. p[i] = SubSeq(d, o + 1, Len(d)) /\ q[1] = SubSeq(d, m + 1, Len(d))
    <3>1. Off(m, 1) = m
      BY OffIs, Zenon
    <3> QED
      BY <2>1, <2>3, <3>1, <1>5, <1>6, Zenon
  <2> HIDE DEF d, o
  <2>5. pre \in Seq(Byte) /\ q[1] \in Seq(Byte) /\ p[i] = pre \o q[1]
    <3>1. /\ SubSeq(d, o + 1, m) \in Seq(Byte) /\ SubSeq(d, m + 1, Len(d)) \in Seq(Byte)
          /\ SubSeq(d, o + 1, Len(d)) = SubSeq(d, o + 1, m) \o SubSeq(d, m + 1, Len(d))
      BY <2>2, SubSeqSplit, ZenonT(60)
    <3> QED
      BY <3>1, <2>4, Zenon
  <2> HIDE DEF pre
  <2>6. /\ h \in 0..Len(p) /\ i \in 0..Len(p) /\ i # 0 /\ i - 1 = h
        /\ 0 \in 0..Len(q) /\ 1 \in 0..Len(q) /\ 1 # 0 /\ 1 - 1 = 0
    BY <1>2, <1>3, <1>5, <1>6, <1>8, SMTT(60)
  <2>7. /\ y \in Seq(Byte) /\ Prefixes(p)[i] = y \o p[i]
        /\ Prefixes(q)[0] = <<>> /\ Prefixes(q)[1] = Prefixes(q)[0] \o q[1]
    <3>1. /\ \A k \in 0..Len(p) :
               Prefixes(p)[k] = IF k = 0 THEN <<>> ELSE Prefixes(p)[k - 1] \o p[k]
          /\ \A k \in 0..Len(p) : Prefixes(p)[k] \in Seq(Byte)
      BY <1>5, PrefixesIs, Zenon
    <3>2. \A k \in 0..Len(q) :
            Prefixes(q)[k] = IF k = 0 THEN <<>> ELSE Prefixes(q)[k - 1] \o q[k]
      BY <1>6, PrefixesIs, Zenon
    <3> QED
      BY <3>1, <3>2, <2>6, Zenon
  <2> HIDE DEF y
  <2>8. Prefixes(q)[1] = q[1]
    <3>1. <<>> \o q[1] = q[1]
      BY <2>5, ConcatEmpty, Zenon
    <3> QED
      BY <3>1, <2>7, Zenon
  <2>9. Assoc(y, pre, q[1])
    BY <2>5, <2>7, ConcatAssoc, Zenon
  <2>10. Prefixes(p)[h + 1] = (y \o pre) \o Prefixes(q)[1]
    BY <1>2, <2>5, <2>7, <2>8, <2>9, Zenon DEF Assoc
  <2>11. ASSUME NEW k \in (1 + 1)..Len(q) PROVE p[h + k] = q[k]
    <3>1. /\ k \in 1..Len(a) /\ k \in 1..(n - h) /\ h + k \in 1..n /\ k # 1 /\ h + k # 1
      BY <1>2, <1>3, <1>6, SMT
    <3>2. Off(m, k) = 0 /\ Off(c, h + k) = 0
      BY <3>1, OffIs, Zenon
    <3> QED
      BY <3>1, <3>2, <1>3, <1>5, <1>6, ZenonT(60)
  <2>12. y \o pre \in Seq(Byte)
    BY <2>5, <2>7, SMT
  <2>13. Len(p) = h + Len(q) /\ 1 <= Len(q) /\ 1 \in Nat
    BY <1>2, <1>3, <1>5, <1>6, <1>8, SMT
  <2> DEFINE z == y \o pre
  <2> HIDE DEF z
  <2>14. z \in Seq(Byte) /\ Prefixes(p)[h + 1] = z \o Prefixes(q)[1]
    BY <2>10, <2>12, Zenon DEF z
  <2>15. SameTail(p, q, z, h, 1)
    BY <2>11, <2>13, <2>14, Zenon DEF SameTail
  <2>16. Preceded(p, q, z)
    BY <2>13, <2>14, <2>15, <1>2, <1>5, <1>6, JoinedTail, ZenonT(60)
  <2> QED
    BY <2>14, <2>16, Zenon DEF p, q, a, Preceded
<1>9. i = n + 1 \/ i <= n
  BY <1>2, SMT
<1> QED
  BY <1>7, <1>8, <1>9, Zenon

-----------------------------------------------------------------------------
(* The steps.                                                              *)

\* A step keeps the invariant and is a step of the byte queue, or none of it.
StepOK == LinkedInv' /\ [Bytes!Next]_(Joined(Pieces))

\* The bytes of the queue, for a reader that is set and for one that is not.
LEMMA View ==
  ASSUME LinkedInv
  PROVE  \E c \in Nat : /\ buffer_ = <<>> => c = 0
                        /\ buffer_ # <<>> => reader_iter_ # Unset /\ c <= Len(buffer_[1].data)
                        /\ reader_iter_ # Unset => reader_iter_ = <<1, c>> /\ ReaderAt(c)
                        /\ Pieces = PiecesOf(buffer_, c)
<1>1. buffer_ \in Seq(Node)
  BY Zenon DEF LinkedInv, NodesWell
<1>2. CASE reader_iter_ = Unset
  <2>1. buffer_ = <<>>
    <3>1. \A c : <<1, c>> # Unset
      BY SMT DEF Unset
    <3> QED
      BY <1>2, <3>1, Zenon DEF LinkedInv, ReaderAt
  <2>2. Pieces = <<>>
    BY <1>2, Zenon DEF Pieces
  <2>3. PiecesOf(<<>>, 0) = <<>>
    BY SMT DEF PiecesOf
  <2>4. 0 \in Nat
    OBVIOUS
  <2> QED
    BY <1>2, <2>1, <2>2, <2>3, <2>4, Zenon
<1>3. CASE reader_iter_ # Unset
  <2>1. PICK c \in Nat : ReaderAt(c)
    BY <1>3, Zenon DEF LinkedInv
  <2>2. Pieces = PiecesOf(buffer_, c)
    BY <1>1, <2>1, PiecesIs, Zenon DEF ReaderAt
  <2> QED
    BY <1>3, <2>1, <2>2, Zenon DEF ReaderAt, Size
<1> QED
  BY <1>2, <1>3, Zenon

\* Without its first bytes a queue is the rest of it.
LEMMA TakeFront ==
  ASSUME NEW q, NEW r, r \in Seq(Byte), NEW x, x \in Seq(Byte), q = x \o r
  PROVE  \E n \in 0..Len(q) : r = SubSeq(q, n + 1, Len(q))
<1>1. SuffixAll(x, r)
  BY SubSeqConcat, Zenon
<1>2. Len(x) \in 0..Len(q)
  BY SMT
<1> QED
  BY <1>1, <1>2, Zenon DEF SuffixAll, SuffixOf

\* A node, or bytes in the last node, are put at the end.
LEMMA PutStep ==
  ASSUME NEW data \in Chunks, Joined(Pieces)' = Joined(Pieces) \o data
  PROVE  Bytes!Next
BY Zenon DEF Bytes!Next, Bytes!Put

\* Bytes are taken at the front.
LEMMA TakeStep ==
  ASSUME Joined(Pieces)' \in Seq(Byte), NEW x \in Seq(Byte),
         Joined(Pieces) = x \o Joined(Pieces)'
  PROVE  Bytes!Next
BY TakeFront, Zenon DEF Bytes!Next, Bytes!Take

\* A chunk is a sequence of bytes.
LEMMA ChunkIs ==
  ASSUME NEW data, data \in Chunks
  PROVE  data \in Seq(Byte) /\ Len(data) \in Nat
BY SMT DEF Chunks

\* append() that adds a node.
LEMMA NodeStep ==
  ASSUME LinkedInv, NEW data \in Chunks, addNewNode(data),
         \/ buffer_ = <<>> /\ reader_iter_' = <<1, 0>>
         \/ buffer_ # <<>> /\ ~Fits(data) /\ UNCHANGED reader_iter_
  PROVE  StepOK
<1> DEFINE b == buffer_
           node == [data |-> data, capacity |-> Larger(kMinNodeSize, Len(data))]
<1>1. PICK c \in Nat : /\ b = <<>> => c = 0
                       /\ b # <<>> => reader_iter_ # Unset /\ c <= Len(b[1].data)
                       /\ reader_iter_ # Unset => reader_iter_ = <<1, c>> /\ ReaderAt(c)
                       /\ Pieces = PiecesOf(b, c)
  BY View, Zenon
<1>2. NodesWell(b) /\ b \in Seq(Node)
  BY Zenon DEF LinkedInv, NodesWell
<1>3. data \in Seq(Byte) /\ Len(data) \in Nat
  BY ChunkIs, Zenon
<1>4. node \in Node /\ node.data = data /\ kMinNodeSize <= node.capacity
      /\ Len(data) <= node.capacity
  BY <1>3, LinkedBufferAssumption, SMT DEF Larger, Node
<1>5. buffer_' = Append(b, node)
  BY Zenon DEF addNewNode, push_back
<1>6. reader_iter_' = <<1, c>>
  BY <1>1, Zenon
<1> HIDE DEF node
<1>7. b # <<>> => Len(b[Len(b)].data) + Len(data) >= kMinNodeSize
  <2> SUFFICES ASSUME b # <<>> PROVE Len(b[Len(b)].data) + Len(data) >= kMinNodeSize
    OBVIOUS
  <2>1. ~(Len(b[Len(b)].data) + Len(data) < kMinNodeSize)
    BY Zenon DEF Fits, last_node
  <2>2. Len(b) \in 1..Len(b)
    BY <1>2, SMT
  <2>3. Len(b[Len(b)].data) \in Nat
    BY <1>2, <2>2, NodeIs, Zenon
  <2> QED
    BY <2>1, <2>3, <1>3, LinkedBufferAssumption, SMT
<1>8. NodesWell(buffer_')
  BY <1>2, <1>4, <1>5, <1>7, WellAppend, Zenon
<1>9. buffer_' \in Seq(Node)
  BY <1>8, Zenon DEF NodesWell
<1>10. ReaderAt(c)'
  <2>1. buffer_' # <<>> /\ (b # <<>> => buffer_'[1] = b[1])
    BY <1>2, <1>4, <1>5, SMT
  <2>2. 1 \in 1..Len(buffer_')
    BY <1>9, <2>1, SMT
  <2>3. Len(buffer_'[1].data) \in Nat
    BY <1>9, <2>2, NodeIs, Zenon
  <2>4. c <= Len(buffer_'[1].data)
    <3>1. b = <<>> => 0 <= Len(buffer_'[1].data)
      BY <2>3, SMT
    <3> QED
      BY <3>1, <2>1, <1>1, Zenon
  <2> QED
    BY <1>6, <2>1, <2>4, Zenon DEF ReaderAt, Size
<1>11. LinkedInv'
  BY <1>8, <1>10, Zenon DEF LinkedInv
<1>12. Pieces' = PiecesOf(buffer_', c)
  BY <1>6, <1>9, PiecesNext, Zenon
<1>13. Joined(PiecesOf(Append(b, node), c)) = Joined(PiecesOf(b, c)) \o node.data
  BY <1>1, <1>2, <1>4, BytesAppend, Zenon
<1>14. Joined(Pieces') = Joined(Pieces) \o data
  BY <1>1, <1>4, <1>5, <1>12, <1>13, Zenon
<1>15. Bytes!Next
  BY <1>14, PutStep, Zenon
<1> QED
  BY <1>11, <1>15, Zenon DEF StepOK

\* append() into the last node.
LEMMA GrowStep ==
  ASSUME LinkedInv, NEW data \in Chunks, buffer_ # <<>>, Fits(data),
         buffer_' = Inserted(data), UNCHANGED reader_iter_
  PROVE  StepOK
<1> DEFINE b == buffer_
<1>1. PICK c \in Nat : /\ reader_iter_ # Unset /\ c <= Len(b[1].data)
                       /\ reader_iter_ = <<1, c>>
                       /\ Pieces = PiecesOf(b, c)
  BY View, Zenon
<1>2. NodesWell(b) /\ b \in Seq(Node)
  BY Zenon DEF LinkedInv, NodesWell
<1>3. data \in Seq(Byte) /\ Len(data) \in Nat
  BY ChunkIs, Zenon
<1>4. Len(b[Len(b)].data) + Len(data) < kMinNodeSize
  BY Zenon DEF Fits, last_node
<1>5. buffer_' = Grown(b, data) /\ reader_iter_' = <<1, c>>
  BY <1>1, Zenon DEF Inserted, Grown
<1>6. /\ NodesWell(buffer_') /\ Len(buffer_') = Len(b)
      /\ Len(buffer_'[Len(b)].data) = Len(b[Len(b)].data) + Len(data)
      /\ \A i \in 1..(Len(b) - 1) : buffer_'[i] = b[i]
  <2> DEFINE a == Grown(b, data)
  <2>1. /\ NodesWell(a) /\ Len(a) = Len(b)
        /\ Len(a[Len(b)].data) = Len(b[Len(b)].data) + Len(data)
        /\ \A i \in 1..(Len(b) - 1) : a[i] = b[i]
    BY <1>2, <1>3, <1>4, WellGrow, Zenon
  <2> HIDE DEF a
  <2>2. buffer_' = a
    BY <1>5, Zenon DEF a
  <2> QED
    BY <2>1, <2>2, Zenon
<1>7. buffer_' \in Seq(Node)
  BY <1>6, Zenon DEF NodesWell
<1>8. ReaderAt(c)'
  <2>1. Len(b) \in Nat /\ Len(b) >= 1 /\ buffer_' # <<>> /\ 1 \in 1..Len(b)
    BY <1>2, <1>6, <1>7, SMT
  <2>2. Len(b[1].data) \in Nat
    BY <1>2, <2>1, NodeIs, Zenon
  <2>3. CASE Len(b) = 1
    <3>1. Len(buffer_'[1].data) = Len(b[1].data) + Len(data)
      BY <1>6, <2>3, Zenon
    <3>2. c <= Len(buffer_'[1].data)
      <4>1. \A u, v \in Nat : c <= u => c <= u + v
        BY SMT
      <4> QED
        BY <3>1, <4>1, <2>2, <1>1, <1>3, ZenonT(60)
    <3> QED
      BY <1>5, <2>1, <3>2, Zenon DEF ReaderAt, Size
  <2>4. CASE Len(b) # 1
    <3>1. 1 \in 1..(Len(b) - 1)
      <4>1. \A n \in Nat : n >= 1 /\ n # 1 => 1 \in 1..(n - 1)
        BY SMT
      <4> QED
        BY <2>1, <2>4, <4>1, Zenon
    <3>2. buffer_'[1] = b[1]
      BY <3>1, <1>6, Zenon
    <3> QED
      BY <1>1, <1>5, <2>1, <3>2, Zenon DEF ReaderAt, Size
  <2> QED
    BY <2>3, <2>4, Zenon
<1>9. LinkedInv'
  BY <1>6, <1>8, Zenon DEF LinkedInv
<1>10. Pieces' = PiecesOf(buffer_', c)
  BY <1>5, <1>7, PiecesNext, Zenon
<1>11. Joined(PiecesOf(Grown(b, data), c)) = Joined(PiecesOf(b, c)) \o data
  BY <1>1, <1>2, <1>3, <1>4, BytesGrow, Zenon
<1>12. Joined(Pieces') = Joined(Pieces) \o data
  BY <1>1, <1>5, <1>10, <1>11, Zenon
<1>13. Bytes!Next
  BY <1>12, PutStep, Zenon
<1> QED
  BY <1>9, <1>13, Zenon DEF StepOK

\* freeNodesBefore() an iterator that is not before the reader.
LEMMA DropStep ==
  ASSUME LinkedInv, NEW c \in Nat, ReaderAt(c),
         NEW i \in 1..(Len(buffer_) + 1), NEW m \in Nat,
         i <= Len(buffer_) => Off(c, i) <= m /\ m <= Size(i),
         i = Len(buffer_) + 1 => m = 0,
         freeNodesBefore(<<i, m>>)
  PROVE  StepOK
<1> DEFINE b == buffer_
           n == Len(b)
<1>1. NodesWell(b) /\ b \in Seq(Node)
  BY Zenon DEF LinkedInv, NodesWell
<1>2. buffer_' = SubSeq(b, i, n) /\ reader_iter_' = <<1, m>>
  BY SMT DEF freeNodesBefore
<1>3. /\ NodesWell(buffer_') /\ Len(buffer_') = n - (i - 1)
      /\ \A k \in 1..(n - (i - 1)) : buffer_'[k] = b[(i - 1) + k]
  BY <1>1, <1>2, WellDrop, Zenon
<1>4. buffer_' \in Seq(Node) /\ n \in Nat
  BY <1>1, <1>3, SMT DEF NodesWell
<1>5. ReaderAt(m)'
  <2>1. CASE i = n + 1
    <3>1. buffer_' = <<>> /\ m = 0
      BY <1>3, <1>4, <2>1, SMTT(60)
    <3> QED
      BY <1>2, <3>1, Zenon DEF ReaderAt
  <2>2. CASE i <= n
    <3>1. buffer_' # <<>> /\ 1 \in 1..(n - (i - 1)) /\ (i - 1) + 1 = i
      BY <1>3, <1>4, <2>2, SMT
    <3>2. buffer_'[1] = b[i]
      BY <3>1, <1>3, Zenon
    <3> QED
      BY <1>2, <2>2, <3>1, <3>2, Zenon DEF ReaderAt, Size
  <2>3. i = n + 1 \/ i <= n
    BY <1>4, SMT
  <2> QED
    BY <2>1, <2>2, <2>3, Zenon
<1>6. LinkedInv'
  BY <1>3, <1>5, Zenon DEF LinkedInv
<1>7. Pieces = PiecesOf(b, c) /\ Pieces' = PiecesOf(buffer_', m)
  BY <1>1, <1>2, <1>4, PiecesIs, PiecesNext, Zenon DEF ReaderAt
<1>8. \E x \in Seq(Byte) : Joined(PiecesOf(b, c)) = x \o Joined(PiecesOf(SubSeq(b, i, Len(b)), m))
  BY <1>1, BytesDrop, ZenonT(60) DEF Size
<1>9. PICK x \in Seq(Byte) : Joined(Pieces) = x \o Joined(Pieces')
  BY <1>2, <1>7, <1>8, Zenon
<1>10. Joined(Pieces') \in Seq(Byte)
  BY <1>4, <1>7, PiecesOfType, JoinedType, Zenon
<1>11. Bytes!Next
  BY <1>9, <1>10, TakeStep, Zenon
<1> QED
  BY <1>6, <1>11, Zenon DEF StepOK

\* The bytes and the nodes stay.
LEMMA StillStep ==
  ASSUME LinkedInv, UNCHANGED <<buffer_, reader_iter_>>
  PROVE  StepOK
<1>1. buffer_' = buffer_ /\ reader_iter_' = reader_iter_
  BY Zenon
<1>2. LinkedInv'
  BY <1>1, Zenon DEF LinkedInv, ReaderAt, Size
<1>3. Pieces' = Pieces
  BY <1>1, Zenon DEF Pieces, In, Size
<1> QED
  BY <1>2, <1>3, Zenon DEF StepOK

\* append(), in each of its branches.
LEMMA AppendStep ==
  ASSUME LinkedInv, NEW data \in Chunks, append(data)
  PROVE  StepOK
<1>1. CASE buffer_ = <<>> /\ appendFirst(data)
  BY <1>1, NodeStep, Zenon DEF appendFirst
<1>2. CASE buffer_ # <<>> /\ Fits(data) /\ buffer_' = Inserted(data) /\ UNCHANGED reader_iter_
  BY <1>2, GrowStep, Zenon
<1>3. CASE buffer_ # <<>> /\ ~Fits(data) /\ addNewNode(data) /\ UNCHANGED reader_iter_
  BY <1>3, NodeStep, Zenon
<1> QED
  BY <1>1, <1>2, <1>3, Zenon DEF append

\* read() stops where operator+= leads, or does nothing.
LEMMA ReadStep ==
  ASSUME LinkedInv, NEW n \in Nat, n > 0 \/ reader_iter_ # end, read(n)
  PROVE  StepOK
<1>1. CASE stale \/ readableSize < n
  <2>1. UNCHANGED <<buffer_, reader_iter_>>
    BY <1>1, Zenon DEF read
  <2> QED
    BY <2>1, StillStep, Zenon
<1>2. CASE ~(stale \/ readableSize < n)
  <2> DEFINE N == Len(buffer_)
             D == Distance(reader_iter_)
  <2>1. reader_iter_ # Unset /\ freeNodesBefore(plus(reader_iter_, n))
    BY <1>2, Zenon DEF read, Walk
  <2>2. PICK c \in Nat : ReaderAt(c)
    BY <2>1, Zenon DEF LinkedInv
  <2>3. buffer_ \in Seq(Node)
    BY Zenon DEF LinkedInv, NodesWell
  <2>4. /\ \A i \in 1..N : Size(i) \in Nat /\ Off(c, i) \in Nat /\ Off(c, i) <= Size(i)
        /\ \A i \in 1..(N + 1) : D[i] \in Nat
    BY <2>2, <2>3, DistanceIs, Zenon
  <2>5. N \in Nat /\ N + 1 \in 1..(N + 1)
    BY <2>3, SMT
  <2>6. readableSize \in Nat
    BY <2>1, <2>4, <2>5, Zenon DEF readableSize
  <2>7. n <= readableSize
    BY <1>2, <2>6, SMT
  <2>8. PICK i \in 1..(N + 1) : /\ plus(reader_iter_, n) = <<i, Off(c, i) + (n - D[i])>>
                                /\ FirstStop(c, n, i) /\ D[i] <= n
    BY <2>2, <2>3, <2>7, PlusIs, Zenon
  <2> DEFINE m == Off(c, i) + (n - D[i])
  <2>9. \/ i > 1 /\ n = D[i]
        \/ i <= N /\ n - D[i] < Size(i) - Off(c, i)
    BY <2>8, Zenon DEF FirstStop, StopsAt
  <2>10. D[i] \in Nat /\ Off(c, i) \in Nat
    BY <2>4, <2>2, OffIs, ZenonT(60)
  <2> HIDE DEF D
  <2>11. m \in Nat
    BY <2>8, <2>10, SMTT(60)
  <2>12. i <= N => Off(c, i) <= m /\ m <= Size(i)
    <3> SUFFICES ASSUME i <= N PROVE Off(c, i) <= m /\ m <= Size(i)
      OBVIOUS
    <3>1. i \in 1..N
      BY <2>5, SMT
    <3>2. Size(i) \in Nat /\ Off(c, i) <= Size(i)
      BY <3>1, <2>4, Zenon
    <3> QED
      BY <3>2, <2>8, <2>9, <2>10, SMTT(60)
  <2>13. i = N + 1 => m = 0
    BY <2>5, <2>9, <2>10, SMT DEF Off
  <2>14. freeNodesBefore(<<i, m>>)
    BY <2>1, <2>8, Zenon
  <2> HIDE DEF m
  <2> QED
    BY <2>2, <2>11, <2>12, <2>13, <2>14, DropStep, ZenonT(60)
<1> QED
  BY <1>1, <1>2, Zenon

\* readUntil() drops what is before an iterator of the buffer.
LEMMA UntilStep ==
  ASSUME LinkedInv, NEW it \in Iterators, readUntil(it)
  PROVE  StepOK
<1>1. CASE stale \/ Before(it, reader_iter_)
  <2>1. UNCHANGED <<buffer_, reader_iter_>>
    BY <1>1, Zenon DEF readUntil
  <2> QED
    BY <2>1, StillStep, Zenon
<1>2. CASE ~(stale \/ Before(it, reader_iter_))
  <2> DEFINE N == Len(buffer_)
  <2>1. reader_iter_ # Unset /\ freeNodesBefore(it)
    BY <1>2, Zenon DEF readUntil, Walk
  <2>2. PICK c \in Nat : ReaderAt(c)
    BY <2>1, Zenon DEF LinkedInv
  <2>3. buffer_ \in Seq(Node)
    BY Zenon DEF LinkedInv, NodesWell
  <2>4. N \in Nat
    BY <2>3, SMT
  <2> DEFINE i == it[1]
             m == it[2]
  <2>5. it = <<i, m>>
    BY SMT DEF Iterators, end
  <2>6. \/ i = N + 1 /\ m = 0
        \/ i \in 1..N /\ m \in 0..(kMinNodeSize + MaxLen) /\ m < Size(i)
    BY SMT DEF Iterators, end
  <2> HIDE DEF i, m
  <2>7. i \in 1..(N + 1) /\ m \in Nat /\ (i = N + 1 => m = 0)
    BY <2>4, <2>6, SMT
  <2>8. ~(i = 1 /\ m < c)
    BY <1>2, <2>2, <2>5, SMT DEF Before, ReaderAt
  <2>9. i <= N => Off(c, i) <= m /\ m <= Size(i)
    <3> SUFFICES ASSUME i <= N PROVE Off(c, i) <= m /\ m <= Size(i)
      OBVIOUS
    <3>1. i \in 1..N /\ m < Size(i)
      BY <2>4, <2>6, SMT
    <3>2. Size(i) \in Nat
      BY <3>1, <2>3, NodeIs, Zenon DEF Size
    <3> QED
      BY <3>1, <3>2, <2>7, <2>8, SMTT(60) DEF Off
  <2>10. freeNodesBefore(<<i, m>>)
    BY <2>1, <2>5, Zenon
  <2> QED
    BY <2>2, <2>7, <2>9, <2>10, DropStep, ZenonT(60)
<1> QED
  BY <1>1, <1>2, Zenon

\* readAll().
LEMMA AllStep ==
  ASSUME LinkedInv, readAll
  PROVE  StepOK
<1>1. buffer_' = <<>> /\ reader_iter_' = Unset
  BY Zenon DEF readAll
<1>2. LinkedInv'
  <2>1. NodesWell(<<>>)
    BY SMT DEF NodesWell
  <2> QED
    BY <1>1, <2>1, Zenon DEF LinkedInv, Unset
<1>3. Pieces' = <<>>
  BY <1>1, Zenon DEF Pieces, Unset
<1>4. <<>> \in Seq(Seq(Byte)) /\ Len(<<>>) = 0 /\ <<>> \in Seq(Byte)
  BY SMT
<1>5. Joined(Pieces') = <<>>
  BY <1>3, <1>4, JoinedType, Zenon
<1>6. Joined(Pieces) \in Seq(Byte)
  <2>1. buffer_ \in Seq(Node)
    BY Zenon DEF LinkedInv, NodesWell
  <2>2. PICK c \in Nat : Pieces = PiecesOf(buffer_, c)
    BY View, Zenon
  <2> QED
    BY <2>1, <2>2, PiecesOfType, JoinedType, Zenon
<1>7. Joined(Pieces) = Joined(Pieces) \o <<>>
  BY <1>6, ConcatEmpty, Zenon
<1>8. Bytes!Next
  BY <1>4, <1>5, <1>6, <1>7, TakeStep, Zenon
<1> QED
  BY <1>2, <1>8, Zenon DEF StepOK

\* readToFD(), whether or not writev() takes that many pieces.
LEMMA ToFDStep ==
  ASSUME LinkedInv, NEW n \in Nat, n > 0 \/ reader_iter_ # end, readToFD(n)
  PROVE  StepOK
<1>1. CASE numReadableNodes > IovMax
  <2>1. read(readableSize + 1) /\ reader_iter_ # Unset
    BY <1>1, Zenon DEF readToFD, read, Walk
  <2>2. PICK c \in Nat : ReaderAt(c)
    BY <2>1, Zenon DEF LinkedInv
  <2>3. buffer_ \in Seq(Node)
    BY Zenon DEF LinkedInv, NodesWell
  <2>4. Len(buffer_) + 1 \in 1..(Len(buffer_) + 1)
    BY <2>3, SMT
  <2>5. readableSize \in Nat
    BY <2>1, <2>2, <2>3, <2>4, DistanceIs, Zenon DEF readableSize
  <2>6. readableSize + 1 \in Nat /\ readableSize + 1 > 0
    BY <2>5, SMT
  <2> QED
    BY <2>1, <2>6, ReadStep, Zenon
<1>2. CASE ~(numReadableNodes > IovMax)
  BY <1>2, ReadStep, Zenon DEF readToFD
<1> QED
  BY <1>1, <1>2, Zenon

\* Every step of the buffer.
LEMMA NextStep ==
  ASSUME LinkedInv, [Next]_vars
  PROVE  StepOK
<1>1. CASE \E data \in Chunks : append(data) \/ writeFromFD(data)
  BY <1>1, AppendStep, Zenon DEF writeFromFD
<1>2. CASE readAll
  BY <1>2, AllStep, Zenon
<1>3. CASE \E n \in 0..(MaxBuffered + 1) :
             (n > 0 \/ reader_iter_ # end) /\ (read(n) \/ readToFD(n))
  <2>1. PICK n \in 0..(MaxBuffered + 1) :
          (n > 0 \/ reader_iter_ # end) /\ (read(n) \/ readToFD(n))
    BY <1>3, Zenon
  <2>2. n \in Nat
    BY SMT
  <2> QED
    BY <2>1, <2>2, ReadStep, ToFDStep, Zenon
<1>4. CASE \E it \in Iterators : readUntil(it)
  BY <1>4, UntilStep, Zenon
<1>5. CASE UNCHANGED vars
  <2>1. UNCHANGED <<buffer_, reader_iter_>>
    BY <1>5, Zenon DEF vars
  <2> QED
    BY <2>1, StillStep, Zenon
<1> QED
  BY <1>1, <1>2, <1>3, <1>4, <1>5, Zenon DEF Next

\* A new buffer is empty.
LEMMA InitOK ==
  ASSUME Init
  PROVE  LinkedInv /\ Bytes!Init
<1>1. buffer_ = <<>> /\ reader_iter_ = Unset
  BY Zenon DEF Init
<1>2. NodesWell(<<>>)
  BY SMT DEF NodesWell
<1>3. <<>> \in Seq(Seq(Byte)) /\ Len(<<>>) = 0
  BY SMT
<1>4. Pieces = <<>>
  BY <1>1, Zenon DEF Pieces
<1>5. Joined(Pieces) = <<>>
  BY <1>3, <1>4, JoinedType, Zenon
<1> QED
  BY <1>1, <1>2, <1>5, Zenon DEF LinkedInv, Bytes!Init

-----------------------------------------------------------------------------
(* The theorems.                                                           *)

\* The reader is in the first node or at end() of an empty deque, no node is
\* over its capacity, and neighbours are filled.
THEOREM LinkedInvariant == Spec => []LinkedInv
<1>1. Init => LinkedInv
  BY InitOK, Zenon
<1>2. LinkedInv /\ [Next]_vars => LinkedInv'
  BY NextStep, Zenon DEF StepOK
<1> QED
  BY <1>1, <1>2, PTL DEF Spec

\* insert() never reallocates a node, whatever is appended and read.
THEOREM InsertKeepsNodes == Spec => []WithinCapacity
<1>1. LinkedInv => WithinCapacity
  <2> SUFFICES ASSUME LinkedInv, NEW i \in DOMAIN buffer_
               PROVE  Len(buffer_[i].data) <= buffer_[i].capacity
    BY Zenon DEF WithinCapacity
  <2>1. i \in 1..Len(buffer_)
    BY SMT DEF LinkedInv, NodesWell
  <2> QED
    BY <2>1, Zenon DEF LinkedInv, NodesWell
<1> QED
  BY <1>1, LinkedInvariant, PTL

\* All that was read is given back, and two neighbours hold kMinNodeSize bytes.
THEOREM NodesStayFilled == Spec => []NodesFilled
<1>1. LinkedInv => NodesFilled
  <2> SUFFICES ASSUME LinkedInv PROVE NodesFilled
    OBVIOUS
  <2>1. reader_iter_ = Unset => buffer_ = <<>>
    <3>1. \A c : <<1, c>> # Unset
      BY SMT DEF Unset
    <3> QED
      BY <3>1, Zenon DEF LinkedInv, ReaderAt
  <2>2. reader_iter_ # Unset => reader_iter_[1] = 1
    BY SMT DEF LinkedInv, ReaderAt
  <2> QED
    BY <2>1, <2>2, Zenon DEF NodesFilled, LinkedInv, NodesWell, Size
<1> QED
  BY <1>1, LinkedInvariant, PTL

\* From the second node on, every two nodes bring kMinNodeSize bytes.
LEMMA PairsOfNodes ==
  ASSUME NEW c \in Nat, NodesWell(buffer_), ReaderAt(c), NEW m \in Nat,
         2 * m + 2 <= Len(buffer_) + 1
  PROVE  Distance(reader_iter_)[2 * m + 2] >= m * kMinNodeSize
<1> DEFINE D(i) == Distance(reader_iter_)[i]
           N == Len(buffer_)
           S == {k \in 0..m : D(2 * k + 2) >= k * kMinNodeSize}
<1>1. buffer_ \in Seq(Node) /\ N \in Nat /\ kMinNodeSize \in Nat
  BY LinkedBufferAssumption DEF NodesWell
<1>2. /\ \A i \in 1..N : Size(i) \in Nat /\ Off(c, i) \in Nat
                         /\ D(i + 1) = D(i) + (Size(i) - Off(c, i))
      /\ \A i \in 1..(N + 1) : D(i) \in Nat
  BY <1>1, DistanceIs, Zenon
<1>3. \A i \in 1..(N - 1) : Size(i) + Size(i + 1) >= kMinNodeSize
  BY Zenon DEF NodesWell, Size
<1>4. \A k : k # 1 => Off(c, k) = 0
  BY OffIs, Zenon
<1> HIDE DEF D
<1>5. 0 \in S
  <2>1. D(2 * 0 + 2) \in Nat
    BY <1>1, <1>2
  <2> QED
    BY <1>1, <2>1
<1>6. ASSUME NEW k \in 0..(m - 1), k \in S PROVE k + 1 \in S
  <2> DEFINE a == 2 * k + 2
  <2>1. /\ a \in 1..N /\ a + 1 \in 1..N /\ a \in 1..(N - 1) /\ a # 1 /\ a + 1 # 1
        /\ a \in 1..(N + 1)
    BY <1>1
  <2>2. k + 1 \in 0..m /\ 2 * (k + 1) + 2 = (a + 1) + 1
        /\ (k + 1) * kMinNodeSize = k * kMinNodeSize + kMinNodeSize
        /\ k * kMinNodeSize \in Nat
    BY <1>1
  <2>3. D(a) >= k * kMinNodeSize
    BY <1>6, Zenon
  <2> HIDE DEF a
  <2>4. /\ D((a + 1) + 1) = D(a + 1) + (Size(a + 1) - 0)
        /\ D(a + 1) = D(a) + (Size(a) - 0)
        /\ Size(a) + Size(a + 1) >= kMinNodeSize
        /\ D(a) \in Nat /\ Size(a) \in Nat /\ Size(a + 1) \in Nat
    BY <1>2, <1>3, <1>4, <2>1, Zenon
  <2>5. \A x, y, z, u, v, w, q \in Nat :
          x = y + (u - 0) /\ y = z + (v - 0) /\ v + u >= w /\ z >= q => x >= q + w
    BY SMT
  <2>6. D((a + 1) + 1) \in Nat /\ D(a + 1) \in Nat
    BY <2>4, SMT
  <2>7. D((a + 1) + 1) >= k * kMinNodeSize + kMinNodeSize
    BY <1>1, <2>2, <2>3, <2>4, <2>5, <2>6, ZenonT(60)
  <2> QED
    BY <2>2, <2>7, Zenon
<1> HIDE DEF S
<1>7. m \in S
  <2>1. \A k \in 0..m : k \in S
    BY <1>5, <1>6, UpTo, ZenonT(60)
  <2> QED
    BY <2>1, SMT
<1> QED
  BY <1>7, Zenon DEF S, D

\* The backlog that it takes to have more pieces than writev() allows.
THEOREM PiecesStayBounded == Spec => []PiecesBounded
<1>1. LinkedInv => PiecesBounded
  <2> SUFFICES ASSUME LinkedInv PROVE PiecesBounded
    OBVIOUS
  <2>0. kMinNodeSize \in Nat
    BY LinkedBufferAssumption
  <2>1. CASE reader_iter_ = Unset
    <3>1. readableSize = 0 /\ numReadableNodes = 0
      BY <2>1 DEF readableSize, numReadableNodes, Pieces
    <3> QED
      BY <2>0, <3>1 DEF PiecesBounded
  <2>2. ASSUME NEW c \in Nat, ReaderAt(c) PROVE PiecesBounded
    <3> DEFINE N == Len(buffer_)
               D == Distance(reader_iter_)
    <3>1. buffer_ \in Seq(Node) /\ N \in Nat /\ NodesWell(buffer_)
      <4>1. NodesWell(buffer_) /\ buffer_ \in Seq(Node)
        BY Zenon DEF LinkedInv, NodesWell
      <4> QED
        BY <4>1
    <3>2. reader_iter_ = <<1, c>>
      BY <2>2, Zenon DEF ReaderAt
    <3>3. numReadableNodes = N
      BY <3>1, <3>2, PiecesIs, PiecesOfType, Zenon DEF numReadableNodes
    <3>4. readableSize = D[N + 1]
      <4>1. reader_iter_ # Unset
        BY <3>2 DEF Unset
      <4> QED
        BY <4>1, Zenon DEF readableSize
    <3>5. /\ \A i \in 1..N : D[i + 1] >= D[i]
          /\ \A i \in 1..(N + 1) : D[i] \in Nat
      <4>1. /\ \A i \in 1..N : /\ Size(i) \in Nat /\ Off(c, i) \in Nat
                             /\ Off(c, i) <= Size(i)
                             /\ D[i + 1] = D[i] + (Size(i) - Off(c, i))
            /\ \A i \in 1..(N + 1) : D[i] \in Nat
        BY <2>2, <3>1, DistanceIs, Zenon
      <4> HIDE DEF D, N
      <4>2. \A i \in 1..N : i \in 1..(N + 1)
        BY <3>1
      <4>3. \A x, y, u, v \in Nat : v <= u => y + (u - v) >= y
        OBVIOUS
      <4> QED
        BY <4>1, <4>2, <4>3, Zenon
    <3> HIDE DEF D, N
    <3>6. CASE N = 0
      <4>1. D[N + 1] \in Nat
        BY <3>5, <3>6
      <4>2. ((N - 1) \div 2) * kMinNodeSize <= 0
        BY <2>0, <3>6
      <4> QED
        BY <2>0, <3>3, <3>4, <3>6, <4>1, <4>2 DEF PiecesBounded
    <3>7. CASE N > 0
      <4> DEFINE m == (N - 1) \div 2
      <4>1. m \in Nat /\ (2 * m + 2 = N \/ 2 * m + 2 = N + 1) /\ 2 * m + 2 <= N + 1
        BY <3>1, <3>7
      <4> HIDE DEF m
      <4>2. D[2 * m + 2] >= m * kMinNodeSize
        BY <2>2, <3>1, <4>1, PairsOfNodes, Zenon DEF D, N
      <4>3. D[N + 1] >= m * kMinNodeSize
        <5>1. CASE 2 * m + 2 = N + 1
          BY <4>2, <5>1, Zenon
        <5>2. CASE 2 * m + 2 = N
          <6>1. N \in 1..N /\ N \in 1..(N + 1) /\ N + 1 \in 1..(N + 1)
            BY <3>1, <3>7
          <6>2. D[N + 1] >= D[N] /\ D[N + 1] \in Nat /\ D[N] \in Nat
            BY <3>5, <6>1, Zenon
          <6>3. D[N] >= m * kMinNodeSize /\ m * kMinNodeSize \in Nat
            BY <2>0, <4>1, <4>2, <5>2
          <6> QED
            BY <6>2, <6>3
        <5> QED
          BY <4>1, <5>1, <5>2, Zenon
      <4> QED
        BY <3>3, <3>4, <4>3, Zenon DEF PiecesBounded, m
    <3> QED
      BY <3>1, <3>6, <3>7
  <2> QED
    BY <2>1, <2>2, Zenon DEF LinkedInv
<1> QED
  BY <1>1, LinkedInvariant, PTL

\* The iterators of readUntil() count, compare and move forward consistently.
THEOREM ForwardConsistent == Spec => []ForwardArithmetic
BY Forward, LinkedInvariant, PTL

\* A connection gets the bytes in the order in which they were put.
THEOREM LinkedBufferIsAQueue == Spec => ImplementsByteQueue
<1>1. Init => Bytes!Init
  BY InitOK, Zenon
<1>2. LinkedInv /\ [Next]_vars => [Bytes!Next]_(Joined(Pieces))
  BY NextStep, Zenon DEF StepOK
<1> QED
  BY <1>1, <1>2, LinkedInvariant, PTL DEF Spec, ImplementsByteQueue, Bytes!Spec
=============================================================================
