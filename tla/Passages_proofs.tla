--------------------------- MODULE Passages_proofs ---------------------------
(***************************************************************************)
(* Proofs about what a citation can say: whatever a file holds, whatever   *)
(* its headings, sentences and words, and whatever the settings, nothing   *)
(* visible is left out by the cut, no page is lost by the parse, and a     *)
(* chunk's heading, page, row and provenance are those of its text.  And   *)
(* about what it is read against: whichever threads load the definitions,  *)
(* and whatever files they miss, each is whole, and an assessment is       *)
(* scored with the version it was created under.                           *)
(***************************************************************************)
EXTENDS Passages, Frameworks, SequenceTheorems, FiniteSetTheorems, WellFoundedInduction, TLAPS

-----------------------------------------------------------------------------
(* The least and the greatest of some numbers.                             *)

LEMMA LeastNat ==
  ASSUME NEW S \in SUBSET Nat, S # {}
  PROVE  \E n \in S : \A m \in S : n <= m
<1> DEFINE R == OpToRel(<, Nat)
<1>1. IsWellFoundedOn(R, Nat)
  BY NatLessThanWellFounded
<1>2. ASSUME NEW m \in Nat, NEW n \in Nat, m < n PROVE <<m, n>> \in R
  BY <1>2 DEF OpToRel
<1> HIDE DEF R
<1>3. PICK n \in S : \A m \in S : ~ (<<m, n>> \in R)
  BY <1>1, WFMin
<1>4. ASSUME NEW m \in S PROVE n <= m
  <2>1. ~(m < n)
    BY <1>2, <1>3, Zenon
  <2>q. QED BY <2>1
<1>q. QED BY <1>4

LEMMA MinIsLeast ==
  ASSUME NEW S, S \subseteq Nat, S # {}
  PROVE  Min(S) \in S /\ \A m \in S : Min(S) <= m
<1>1. PICK n \in S : \A m \in S : n <= m
  BY LeastNat
<1>2. \E x \in S : \A y \in S : x =< y
  BY <1>1
<1>q. QED BY <1>2, Zenon DEF Min

LEMMA MaxIsGreatest ==
  ASSUME NEW S, NEW n \in Nat, S \subseteq 0..n, S # {}
  PROVE  Max(S) \in S /\ \A m \in S : m <= Max(S)
<1> DEFINE T == {n - m : m \in S}
<1>1. T \in SUBSET Nat /\ T # {}
  <2>1. \A m \in S : n - m \in Nat
    OBVIOUS
  <2>q. QED BY <2>1
<1>2. PICK k \in T : \A m \in T : k <= m
  BY <1>1, LeastNat
<1>3. PICK x \in S : k = n - x
  BY <1>2
<1>4. ASSUME NEW y \in S PROVE x >= y
  <2>1. k <= n - y
    BY <1>2
  <2>q. QED BY <2>1, <1>3
<1>5. \E z \in S : \A y \in S : z >= y
  BY <1>4
<1>6. Max(S) \in S /\ \A m \in S : Max(S) >= m
  BY <1>5, Zenon DEF Max
<1>q. QED BY <1>6

-----------------------------------------------------------------------------
(* Sequences put together from parts.                                      *)

(* Induction up to a bound, the numbers that are good given as a set.      *)
LEMMA UpTo ==
  ASSUME NEW n \in Nat, NEW Good, 0 \in Good, \A i \in 1..n : i - 1 \in Good => i \in Good
  PROVE  \A i \in 0..n : i \in Good
<1> DEFINE Bad == {i \in 0..n : i \notin Good}
<1> SUFFICES ASSUME Bad # {} PROVE FALSE
  OBVIOUS
<1>1. Bad \in SUBSET Nat
  OBVIOUS
<1>2. PICK i \in Bad : \A m \in Bad : i <= m
  <2> HIDE DEF Bad
  <2>q. QED BY <1>1, LeastNat
<1>3. i \in 0..n /\ i \notin Good /\ i # 0
  OBVIOUS
<1>4. i \in 1..n /\ i - 1 \in 0..n
  BY <1>3
<1>5. i - 1 \notin Bad
  BY <1>2, <1>4
<1>q. QED BY <1>3, <1>4, <1>5

(* The partial results of FlattenSeq.                                      *)
IsFlat(f, seqs, n) == f = [i \in 1..n |-> IF i = 1 THEN seqs[i] ELSE f[i - 1] \o seqs[i]]

LEMMA FlatExists ==
  ASSUME NEW seqs, NEW n \in Nat
  PROVE  \E f : IsFlat(f, seqs, n)
<1> DEFINE Good == {m \in Nat : \E f : IsFlat(f, seqs, m)}
<1>1. 0 \in Good
  <2> DEFINE f == [i \in 1..0 |-> 0]
  <2>1. \A i : i \notin 1..0
    OBVIOUS
  <2>2. f = [i \in 1..0 |-> IF i = 1 THEN seqs[i] ELSE f[i - 1] \o seqs[i]]
    BY <2>1
  <2>q. QED BY <2>2 DEF IsFlat
<1>2. ASSUME NEW m \in 1..n, m - 1 \in Good PROVE m \in Good
  <2>1. PICK f : IsFlat(f, seqs, m - 1)
    BY <1>2
  <2> DEFINE last == IF m = 1 THEN seqs[m] ELSE f[m - 1] \o seqs[m]
             g == [i \in 1..m |-> IF i = m THEN last ELSE f[i]]
  <2>2. \A i \in 1..(m - 1) : f[i] = IF i = 1 THEN seqs[i] ELSE f[i - 1] \o seqs[i]
    BY <2>1, Zenon DEF IsFlat
  <2>3. ASSUME NEW i \in 1..m PROVE g[i] = IF i = 1 THEN seqs[i] ELSE g[i - 1] \o seqs[i]
    <3>1. i # 1 => i - 1 \in 1..m /\ i - 1 # m /\ g[i - 1] = f[i - 1]
      OBVIOUS
    <3>2. CASE i = m
      BY <3>1, <3>2
    <3>3. CASE i # m
      <4>1. i \in 1..(m - 1) /\ g[i] = f[i]
        BY <3>3
      <4>q. QED BY <2>2, <3>1, <4>1
    <3>q. QED BY <3>2, <3>3
  <2>4. g = [i \in 1..m |-> g[i]]
    OBVIOUS
  <2> HIDE DEF g
  <2>5. [i \in 1..m |-> g[i]] = [i \in 1..m |-> IF i = 1 THEN seqs[i] ELSE g[i - 1] \o seqs[i]]
    BY <2>3
  <2>6. IsFlat(g, seqs, m)
    BY <2>4, <2>5 DEF IsFlat
  <2>q. QED BY <2>6
<1>3. \A i \in 0..n : i \in Good
  <2> HIDE DEF Good
  <2>q. QED BY <1>1, <1>2, UpTo
<1>q. QED BY <1>3

LEMMA FlattenIsFlat ==
  ASSUME NEW seqs, NEW n \in Nat \ {0}, Len(seqs) = n
  PROVE  \E f : /\ FlattenSeq(seqs) = f[n] /\ f[1] = seqs[1]
                /\ \A i \in 2..n : f[i] = f[i - 1] \o seqs[i]
<1> DEFINE f == CHOOSE f : IsFlat(f, seqs, n)
<1>1. IsFlat(f, seqs, n)
  BY FlatExists
<1>2. FlattenSeq(seqs) = f[n]
  BY DEF FlattenSeq, IsFlat
<1> HIDE DEF f
<1>3. \A i \in 1..n : f[i] = IF i = 1 THEN seqs[i] ELSE f[i - 1] \o seqs[i]
  BY <1>1, Zenon DEF IsFlat
<1>4. f[1] = seqs[1] /\ \A i \in 2..n : f[i] = f[i - 1] \o seqs[i]
  <2>1. 1 \in 1..n /\ \A i \in 2..n : i \in 1..n /\ i # 1
    OBVIOUS
  <2>q. QED BY <1>3, <2>1
<1>q. QED BY <1>2, <1>4

(* The elements of the whole are those of its parts.                       *)
LEMMA FlattenType ==
  ASSUME NEW E, NEW seqs \in Seq(Seq(E))
  PROVE  FlattenSeq(seqs) \in Seq(E)
<1>1. CASE Len(seqs) = 0
  <2>1. seqs = <<>>
    BY <1>1
  <2>q. QED BY <1>1, <2>1 DEF FlattenSeq
<1>2. CASE Len(seqs) # 0
  <2> DEFINE n == Len(seqs)
  <2>1. n \in Nat \ {0}
    BY <1>2
  <2>2. PICK f : /\ FlattenSeq(seqs) = f[n] /\ f[1] = seqs[1]
                 /\ \A i \in 2..n : f[i] = f[i - 1] \o seqs[i]
    BY <2>1, FlattenIsFlat
  <2>3. \A i \in 1..n : seqs[i] \in Seq(E)
    OBVIOUS
  <2> DEFINE Good == {i \in 0..n : i # 0 => f[i] \in Seq(E)}
  <2> HIDE DEF n
  <2>4. 0 \in Good
    BY <2>1
  <2>5. ASSUME NEW i \in 1..n, i - 1 \in Good PROVE i \in Good
    <3>1. CASE i = 1
      BY <2>1, <2>2, <2>3, <3>1
    <3>2. CASE i # 1
      <4>1. i \in 2..n /\ i - 1 # 0
        BY <2>1, <3>2
      <4>2. f[i - 1] \in Seq(E) /\ seqs[i] \in Seq(E) /\ f[i] = f[i - 1] \o seqs[i]
        BY <2>2, <2>3, <2>5, <4>1
      <4> DEFINE a == f[i - 1]
                 b == seqs[i]
      <4> HIDE DEF a, b
      <4>3. a \in Seq(E) /\ b \in Seq(E) => a \o b \in Seq(E)
        OBVIOUS
      <4>4. f[i] \in Seq(E)
        BY <4>2, <4>3 DEF a, b
      <4>q. QED BY <2>1, <4>4
    <3>q. QED BY <3>1, <3>2
  <2>6. \A i \in 0..n : i \in Good
    <3> HIDE DEF Good
    <3>q. QED BY <2>1, <2>4, <2>5, UpTo
  <2>q. QED BY <2>1, <2>2, <2>6
<1>q. QED BY <1>1, <1>2

(* Where the parts are in the joined whole, as offsets.                    *)
Marks(b, parts, gap) ==
  /\ DOMAIN b = DOMAIN parts
  /\ \A i \in DOMAIN parts :
       /\ b[i].to = b[i].from + Len(parts[i])
       /\ b[i].from = IF i = 1 THEN 0 ELSE b[i - 1].to + gap

LEMMA BoundsMark ==
  ASSUME NEW E, NEW parts \in Seq(Seq(E)), NEW gap \in Nat
  PROVE  Marks(Bounds(parts, gap), parts, gap)
<1> DEFINE n == Len(parts)
           Is(f, m) == f = [i \in 1..m |-> IF i = 1 THEN 0 ELSE f[i - 1] + Len(parts[i - 1]) + gap]
           Good == {m \in Nat : \E f : Is(f, m)}
<1>0. n \in Nat /\ n + 1 \in Nat /\ DOMAIN parts = 1..n
  OBVIOUS
<1>1. 0 \in Good
  <2> DEFINE f == [i \in 1..0 |-> 0]
  <2>1. \A i : i \notin 1..0
    OBVIOUS
  <2>2. f = [i \in 1..0 |-> IF i = 1 THEN 0 ELSE f[i - 1] + Len(parts[i - 1]) + gap]
    BY <2>1
  <2>q. QED BY <2>2
<1>2. ASSUME NEW m \in 1..(n + 1), m - 1 \in Good PROVE m \in Good
  <2>1. PICK f : Is(f, m - 1)
    BY <1>2
  <2> DEFINE last == IF m = 1 THEN 0 ELSE f[m - 1] + Len(parts[m - 1]) + gap
             g == [i \in 1..m |-> IF i = m THEN last ELSE f[i]]
  <2>2. \A i \in 1..(m - 1) : f[i] = IF i = 1 THEN 0 ELSE f[i - 1] + Len(parts[i - 1]) + gap
    BY <2>1, Zenon
  <2>3. ASSUME NEW i \in 1..m
        PROVE  g[i] = IF i = 1 THEN 0 ELSE g[i - 1] + Len(parts[i - 1]) + gap
    <3>1. i # 1 => i - 1 \in 1..m /\ i - 1 # m /\ g[i - 1] = f[i - 1]
      OBVIOUS
    <3>2. CASE i = m
      BY <3>1, <3>2
    <3>3. CASE i # m
      <4>1. i \in 1..(m - 1) /\ g[i] = f[i]
        BY <3>3
      <4>q. QED BY <2>2, <3>1, <4>1
    <3>q. QED BY <3>2, <3>3
  <2>4. g = [i \in 1..m |-> g[i]]
    OBVIOUS
  <2> HIDE DEF g
  <2>5. [i \in 1..m |-> g[i]]
          = [i \in 1..m |-> IF i = 1 THEN 0 ELSE g[i - 1] + Len(parts[i - 1]) + gap]
    BY <2>3
  <2>6. Is(g, m)
    BY <2>4, <2>5
  <2>q. QED BY <1>0, <2>6
<1>3. \A i \in 0..(n + 1) : i \in Good
  <2> HIDE DEF Good, n
  <2>q. QED BY <1>0, <1>1, <1>2, UpTo
<1> DEFINE begin == CHOOSE f : Is(f, n + 1)
<1>4. Is(begin, n + 1)
  <2>1. n + 1 \in Good
    <3> HIDE DEF Good, n
    <3>1. n + 1 \in 0..(n + 1)
      BY <1>0
    <3>q. QED BY <1>3, <3>1
  <2>q. QED BY <2>1
<1>5. Bounds(parts, gap) =
        [i \in DOMAIN parts |-> [from |-> begin[i], to |-> begin[i] + Len(parts[i])]]
  BY DEF Bounds
<1> HIDE DEF begin, n
<1>6. ASSUME NEW i \in 1..n
      PROVE  begin[i] = IF i = 1 THEN 0 ELSE begin[i - 1] + Len(parts[i - 1]) + gap
  <2>1. i \in 1..(n + 1)
    BY <1>0
  <2>q. QED BY <1>4, <2>1, Zenon
<1> DEFINE b == Bounds(parts, gap)
<1>7. \A i \in 1..n : b[i].from = begin[i] /\ b[i].to = begin[i] + Len(parts[i])
  BY <1>0, <1>5
<1>8. DOMAIN b = DOMAIN parts
  BY <1>5
<1> HIDE DEF b, Is
<1>9. ASSUME NEW i \in 1..n
      PROVE  /\ b[i].to = b[i].from + Len(parts[i])
             /\ b[i].from = IF i = 1 THEN 0 ELSE b[i - 1].to + gap
  <2>1. i # 1 => i - 1 \in 1..n
    BY <1>0
  <2>q. QED BY <1>6, <1>7, <2>1
<1>q. QED BY <1>0, <1>8, <1>9 DEF Marks, b

LEMMA TwoParts ==
  ASSUME NEW E, NEW a \in Seq(E), NEW b \in Seq(E)
  PROVE  LET c == a \o b
         IN  /\ c \in Seq(E) /\ Len(c) = Len(a) + Len(b)
             /\ \A k \in 1..Len(a) : c[k] = a[k]
             /\ \A k \in 1..Len(b) : c[Len(a) + k] = b[k]
<1> DEFINE c == a \o b
<1>1. /\ c \in Seq(E) /\ Len(c) = Len(a) + Len(b) /\ Len(a) \in Nat /\ Len(b) \in Nat
      /\ \A i \in 1..(Len(a) + Len(b)) : c[i] = IF i <= Len(a) THEN a[i] ELSE b[i - Len(a)]
  BY ConcatProperties
<1> HIDE DEF c
<1>2. ASSUME NEW k \in 1..Len(a) PROVE c[k] = a[k]
  <2>1. k \in 1..(Len(a) + Len(b)) /\ k <= Len(a)
    BY <1>1
  <2>q. QED BY <1>1, <2>1
<1>3. ASSUME NEW k \in 1..Len(b) PROVE c[Len(a) + k] = b[k]
  <2>1. Len(a) + k \in 1..(Len(a) + Len(b)) /\ ~(Len(a) + k <= Len(a)) /\ (Len(a) + k) - Len(a) = k
    BY <1>1
  <2>q. QED BY <1>1, <2>1
<1>q. QED BY <1>1, <1>2, <1>3 DEF c

LEMMA ThreeParts ==
  ASSUME NEW E, NEW a \in Seq(E), NEW s \in Seq(E), NEW b \in Seq(E)
  PROVE  LET c == a \o (s \o b)
         IN  /\ c \in Seq(E) /\ Len(c) = Len(a) + Len(s) + Len(b)
             /\ \A k \in 1..Len(a) : c[k] = a[k]
             /\ \A k \in 1..Len(s) : c[Len(a) + k] = s[k]
             /\ \A k \in 1..Len(b) : c[Len(a) + Len(s) + k] = b[k]
<1> DEFINE d == s \o b
           c == a \o d
<1>0. Len(a) \in Nat /\ Len(s) \in Nat /\ Len(b) \in Nat
  OBVIOUS
<1>1. /\ d \in Seq(E) /\ Len(d) = Len(s) + Len(b)
      /\ \A k \in 1..Len(s) : d[k] = s[k]
      /\ \A k \in 1..Len(b) : d[Len(s) + k] = b[k]
  BY TwoParts
<1> HIDE DEF d
<1>2. /\ c \in Seq(E) /\ Len(c) = Len(a) + Len(d)
      /\ \A k \in 1..Len(a) : c[k] = a[k]
      /\ \A k \in 1..Len(d) : c[Len(a) + k] = d[k]
  <2>1. d \in Seq(E) /\ a \in Seq(E)
    BY <1>1
  <2>q. QED BY <2>1, TwoParts, Z3
<1> HIDE DEF c
<1>3. ASSUME NEW k \in 1..Len(s) PROVE c[Len(a) + k] = s[k]
  <2>1. k \in 1..Len(d)
    BY <1>0, <1>1
  <2>q. QED BY <1>1, <1>2, <2>1
<1>4. ASSUME NEW k \in 1..Len(b) PROVE c[Len(a) + Len(s) + k] = b[k]
  <2>1. Len(s) + k \in 1..Len(d) /\ Len(a) + Len(s) + k = Len(a) + (Len(s) + k)
    BY <1>0, <1>1
  <2>q. QED BY <1>1, <1>2, <2>1
<1>5. Len(c) = Len(a) + Len(s) + Len(b)
  BY <1>0, <1>1, <1>2
<1>q. QED BY <1>2, <1>3, <1>4, <1>5 DEF c, d

(* The first n parts, joined.                                              *)
Joined(whole, sep, parts, b, n) ==
  /\ Len(whole) = IF n = 0 THEN 0 ELSE b[n].to
  /\ \A i \in 1..n :
       /\ b[i].from \in Nat /\ b[i].to \in Nat /\ b[i].to <= Len(whole)
       /\ \A k \in 1..Len(parts[i]) : whole[b[i].from + k] = parts[i][k]
  /\ \A j \in 1..Len(whole) :
       \/ \E i \in 1..n : b[i].from < j /\ j <= b[i].to
       \/ \E k \in 1..Len(sep) : whole[j] = sep[k]

LEMMA JoinedStep ==
  ASSUME NEW E, NEW parts \in Seq(Seq(E)), NEW sep \in Seq(E), NEW b,
         Marks(b, parts, Len(sep)), NEW n \in 2..Len(parts),
         NEW whole \in Seq(E), Joined(whole, sep, parts, b, n - 1)
  PROVE  Joined(whole \o (sep \o parts[n]), sep, parts, b, n)
<1> DEFINE last == parts[n]
           more == whole \o (sep \o last)
<1>1. last \in Seq(E) /\ Len(last) \in Nat /\ Len(whole) \in Nat /\ Len(sep) \in Nat
  OBVIOUS
<1> HIDE DEF last
<1>2. /\ more \in Seq(E) /\ Len(more) = Len(whole) + Len(sep) + Len(last)
      /\ \A k \in 1..Len(whole) : more[k] = whole[k]
      /\ \A k \in 1..Len(sep) : more[Len(whole) + k] = sep[k]
      /\ \A k \in 1..Len(last) : more[Len(whole) + Len(sep) + k] = last[k]
  <2>1. whole \in Seq(E) /\ sep \in Seq(E) /\ last \in Seq(E)
    BY <1>1
  <2>q. QED BY <2>1, ThreeParts, Z3
<1> HIDE DEF more
<1>3. n \in DOMAIN parts /\ n # 1 /\ n # 0 /\ n - 1 # 0
  OBVIOUS
<1>4. /\ Len(whole) = b[n - 1].to /\ b[n].from = Len(whole) + Len(sep)
      /\ b[n].to = Len(whole) + Len(sep) + Len(last)
  BY <1>1, <1>3 DEF Marks, Joined, last
<1>5. ASSUME NEW i \in 1..n
      PROVE  /\ b[i].from \in Nat /\ b[i].to \in Nat /\ b[i].to <= Len(more)
             /\ \A k \in 1..Len(parts[i]) : more[b[i].from + k] = parts[i][k]
  <2>1. CASE i = n
    <3>1. b[i].from = Len(whole) + Len(sep) /\ b[i].to = Len(more) /\ parts[i] = last
      BY <1>2, <1>4, <2>1 DEF last
    <3>2. b[i].from \in Nat /\ b[i].to \in Nat /\ b[i].to <= Len(more)
      BY <1>1, <1>2, <3>1
    <3>q. QED BY <1>2, <3>1, <3>2
  <2>2. CASE i # n
    <3>1. i \in 1..(n - 1) /\ i \in DOMAIN parts /\ Len(parts[i]) \in Nat
      BY <2>2
    <3>2. /\ b[i].from \in Nat /\ b[i].to \in Nat /\ b[i].to <= Len(whole)
          /\ b[i].to = b[i].from + Len(parts[i])
          /\ \A k \in 1..Len(parts[i]) : whole[b[i].from + k] = parts[i][k]
      BY <3>1 DEF Joined, Marks
    <3>3. ASSUME NEW k \in 1..Len(parts[i]) PROVE more[b[i].from + k] = parts[i][k]
      <4> DEFINE f == b[i].from
                 l == Len(parts[i])
      <4>1. f \in Nat /\ f + l <= Len(whole) /\ l \in Nat /\ k \in 1..l
        BY <3>1, <3>2, <3>3
      <4> HIDE DEF f, l
      <4>2. f + k \in 1..Len(whole)
        BY <1>1, <4>1
      <4>q. QED BY <1>2, <3>2, <3>3, <4>2 DEF f
    <3>4. b[i].to <= Len(more)
      BY <1>1, <1>2, <3>2
    <3>q. QED BY <3>2, <3>3, <3>4
  <2>q. QED BY <2>1, <2>2
<1>6. ASSUME NEW j \in 1..Len(more)
      PROVE  \/ \E i \in 1..n : b[i].from < j /\ j <= b[i].to
             \/ \E k \in 1..Len(sep) : more[j] = sep[k]
  <2>1. CASE j <= Len(whole)
    <3>1. j \in 1..Len(whole) /\ more[j] = whole[j]
      BY <1>1, <1>2, <2>1
    <3>2. \/ \E i \in 1..(n - 1) : b[i].from < j /\ j <= b[i].to
          \/ \E k \in 1..Len(sep) : whole[j] = sep[k]
      BY <3>1 DEF Joined
    <3>3. \A i \in 1..(n - 1) : i \in 1..n
      OBVIOUS
    <3>q. QED BY <3>1, <3>2, <3>3
  <2>2. CASE j > Len(whole) /\ j <= Len(whole) + Len(sep)
    <3>1. j - Len(whole) \in 1..Len(sep) /\ Len(whole) + (j - Len(whole)) = j
      BY <1>1, <2>2
    <3>q. QED BY <1>2, <3>1
  <2>3. CASE j > Len(whole) + Len(sep)
    <3>1. b[n].from < j /\ j <= b[n].to /\ n \in 1..n
      BY <1>1, <1>2, <1>4, <2>3
    <3>q. QED BY <3>1
  <2>q. QED BY <1>1, <2>1, <2>2, <2>3
<1>q. QED BY <1>2, <1>3, <1>4, <1>5, <1>6 DEF Joined, more, last

(* The whole is of the same elements, each part is where its marks say,    *)
(* and what is of no part is of a separator.                               *)
LEMMA JoinWithJoins ==
  ASSUME NEW E, NEW parts \in Seq(Seq(E)), NEW sep \in Seq(E), NEW b,
         Marks(b, parts, Len(sep))
  PROVE  /\ JoinWith(sep, parts) \in Seq(E)
         /\ Joined(JoinWith(sep, parts), sep, parts, b, Len(parts))
<1> DEFINE n == Len(parts)
           seqs == [i \in DOMAIN parts |-> IF i = 1 THEN parts[i] ELSE sep \o parts[i]]
<1>1. n \in Nat /\ DOMAIN parts = 1..n /\ \A i \in 1..n : parts[i] \in Seq(E)
  OBVIOUS
<1>2. seqs \in Seq(Seq(E)) /\ Len(seqs) = n
  <2>1. ASSUME NEW i \in 1..n PROVE seqs[i] \in Seq(E)
    BY <1>1
  <2>2. DOMAIN seqs = 1..n /\ seqs = [i \in 1..n |-> seqs[i]]
    BY <1>1
  <2> HIDE DEF seqs, n
  <2>3. seqs \in [1..n -> Seq(E)]
    BY <2>1, <2>2
  <2>4. seqs \in Seq(Seq(E))
    BY <1>1, <2>3, SeqDef
  <2>q. QED BY <1>1, <2>2, <2>4, LenProperties
<1>3. JoinWith(sep, parts) = FlattenSeq(seqs)
  BY DEF JoinWith
<1>4. CASE n = 0
  <2>1. seqs = <<>> /\ FlattenSeq(seqs) = <<>>
    BY <1>2, <1>4 DEF FlattenSeq
  <2>2. \A i : i \notin 1..0
    OBVIOUS
  <2>3. Joined(<<>>, sep, parts, b, 0)
    BY <2>2 DEF Joined
  <2>4. JoinWith(sep, parts) = <<>> /\ <<>> \in Seq(E)
    BY <1>3, <2>1
  <2>q. QED BY <1>4, <2>3, <2>4
<1>5. CASE n # 0
  <2> HIDE DEF seqs
  <2>1. n \in Nat \ {0}
    BY <1>1, <1>5
  <2>2. PICK f : /\ FlattenSeq(seqs) = f[n] /\ f[1] = seqs[1]
                 /\ \A i \in 2..n : f[i] = f[i - 1] \o seqs[i]
    BY <1>2, <2>1, FlattenIsFlat
  <2> DEFINE Good == {i \in 0..n : i # 0 => f[i] \in Seq(E) /\ Joined(f[i], sep, parts, b, i)}
  <2>3. 0 \in Good
    BY <2>1
  <2>4. ASSUME NEW i \in 1..n, i - 1 \in Good PROVE i \in Good
    <3>1. CASE i = 1
      <4>1. f[1] = parts[1] /\ parts[1] \in Seq(E) /\ 1 \in DOMAIN parts
        BY <1>1, <2>1, <2>2 DEF seqs
      <4>2. b[1].from = 0 /\ b[1].to = Len(parts[1]) /\ Len(parts[1]) \in Nat
        BY <4>1 DEF Marks
      <4>3. Joined(parts[1], sep, parts, b, 1)
        <5>1. \A m \in 1..1 : m = 1
          OBVIOUS
        <5>q. QED BY <4>2, <5>1 DEF Joined
      <4>q. QED BY <2>1, <3>1, <4>1, <4>3
    <3>2. CASE i # 1
      <4>1. i \in 2..n /\ i - 1 # 0
        BY <2>1, <3>2
      <4>2. f[i - 1] \in Seq(E) /\ Joined(f[i - 1], sep, parts, b, i - 1)
        BY <2>4, <4>1
      <4>3. f[i] = f[i - 1] \o (sep \o parts[i])
        <5>1. i \in 1..n /\ i # 1
          BY <4>1
        <5>2. seqs[i] = sep \o parts[i]
          BY <1>1, <5>1 DEF seqs
        <5>q. QED BY <2>2, <4>1, <5>2
      <4> DEFINE a == f[i - 1]
                 c == parts[i]
      <4>4. a \in Seq(E) /\ c \in Seq(E)
        BY <1>1, <4>2
      <4>5. Joined(a \o (sep \o c), sep, parts, b, i)
        <5> HIDE DEF a
        <5>1. i \in 2..Len(parts) /\ Joined(a, sep, parts, b, i - 1)
          BY <4>1, <4>2 DEF a
        <5>q. QED BY <4>4, <5>1, JoinedStep
      <4> HIDE DEF a, c
      <4>6. a \o (sep \o c) \in Seq(E)
        BY <4>4
      <4>7. f[i] = a \o (sep \o c)
        BY <4>3 DEF a, c
      <4>8. f[i] \in Seq(E) /\ Joined(f[i], sep, parts, b, i)
        BY <4>5, <4>6, <4>7, Zenon
      <4>q. QED BY <2>1, <4>8
    <3>q. QED BY <3>1, <3>2
  <2>5. \A i \in 0..n : i \in Good
    <3> HIDE DEF Good, n
    <3>q. QED BY <1>1, <2>3, <2>4, UpTo
  <2>q. QED BY <1>3, <2>1, <2>2, <2>5
<1>q. QED BY <1>4, <1>5

(* A function on 1..n whose values are of a set is a sequence over it.     *)
LEMMA IsSequence ==
  ASSUME NEW T, NEW n \in Nat, NEW f, f = [i \in 1..n |-> f[i]], \A i \in 1..n : f[i] \in T
  PROVE  f \in Seq(T) /\ Len(f) = n /\ DOMAIN f = 1..n
<1>1. f \in [1..n -> T]
  OBVIOUS
<1>2. f \in Seq(T)
  BY <1>1, SeqDef
<1>q. QED BY <1>1, <1>2, LenProperties

LEMMA KeepOnlyType ==
  ASSUME NEW E, NEW s \in Seq(E), NEW I
  PROVE  KeepOnly(s, I) \in Seq(E)
<1> DEFINE f == [i \in DOMAIN s |-> IF i \in I THEN <<s[i]>> ELSE <<>>]
           n == Len(s)
<1>1. n \in Nat /\ DOMAIN s = 1..n /\ \A i \in 1..n : s[i] \in E
  OBVIOUS
<1>2. f = [i \in 1..n |-> f[i]] /\ \A i \in 1..n : f[i] \in Seq(E)
  BY <1>1
<1> HIDE DEF f, n
<1>3. f \in Seq(Seq(E))
  BY <1>1, <1>2, IsSequence
<1>4. FlattenSeq(f) \in Seq(E)
  BY <1>3, FlattenType
<1>q. QED BY <1>4 DEF KeepOnly, f

LEMMA JoinType ==
  ASSUME NEW E, NEW parts \in Seq(Seq(E)), NEW sep \in Seq(E)
  PROVE  JoinWith(sep, parts) \in Seq(E)
<1>1. Len(sep) \in Nat
  OBVIOUS
<1>2. Marks(Bounds(parts, Len(sep)), parts, Len(sep))
  BY <1>1, BoundsMark
<1>q. QED BY <1>2, JoinWithJoins

(* What is kept of a sequence is in the result.                            *)
LEMMA KeepOnlyKeeps ==
  ASSUME NEW E, NEW s \in Seq(E), NEW I, NEW i \in DOMAIN s, i \in I
  PROVE  \E k \in DOMAIN KeepOnly(s, I) : KeepOnly(s, I)[k] = s[i]
<1> DEFINE f == [j \in DOMAIN s |-> IF j \in I THEN <<s[j]>> ELSE <<>>]
           n == Len(s)
           g == [j \in DOMAIN f |-> IF j = 1 THEN f[j] ELSE <<>> \o f[j]]
           b == Bounds(f, 0)
           whole == KeepOnly(s, I)
<1>1. n \in Nat /\ DOMAIN s = 1..n /\ \A j \in 1..n : s[j] \in E
  OBVIOUS
<1>2. f = [j \in 1..n |-> f[j]] /\ (\A j \in 1..n : f[j] \in Seq(E)) /\ f[i] = <<s[i]>>
  BY <1>1
<1>3. whole = FlattenSeq(f)
  BY DEF KeepOnly
<1> HIDE DEF f, n, whole
<1>4. f \in Seq(Seq(E)) /\ Len(f) = n /\ DOMAIN f = 1..n
  BY <1>1, <1>2, IsSequence
<1>5. g = f
  <2>1. \A j \in 1..n : g[j] = f[j]
    <3>1. ASSUME NEW a \in Seq(E) PROVE <<>> \o a = a
      OBVIOUS
    <3>q. QED BY <1>2, <1>4, <3>1
  <2>2. g = [j \in 1..n |-> g[j]]
    BY <1>4
  <2> HIDE DEF g
  <2>q. QED BY <1>2, <2>1, <2>2
<1>6. JoinWith(<<>>, f) = whole
  BY <1>3, <1>5 DEF JoinWith
<1>7. <<>> \in Seq(E) /\ Len(<<>>) = 0
  OBVIOUS
<1>8. Marks(b, f, 0)
  BY <1>4, BoundsMark
<1> HIDE DEF b
<1>9. whole \in Seq(E) /\ Joined(whole, <<>>, f, b, n)
  BY <1>4, <1>6, <1>7, <1>8, JoinWithJoins
<1>10. i \in 1..n /\ Len(f[i]) = 1 /\ f[i][1] = s[i]
  <2>1. i \in 1..n
    BY <1>1
  <2>2. Len(<<s[i]>>) = 1 /\ <<s[i]>>[1] = s[i]
    OBVIOUS
  <2>q. QED BY <1>2, <2>1, <2>2
<1>11. /\ b[i].from \in Nat /\ b[i].to \in Nat /\ b[i].to <= Len(whole) /\ b[i].to = b[i].from + 1
       /\ whole[b[i].from + 1] = s[i]
  <2>1. /\ b[i].from \in Nat /\ b[i].to \in Nat /\ b[i].to <= Len(whole)
        /\ \A k \in 1..Len(f[i]) : whole[b[i].from + k] = f[i][k]
    BY <1>9, <1>10 DEF Joined
  <2>2. b[i].to = b[i].from + Len(f[i])
    BY <1>4, <1>8, <1>10 DEF Marks
  <2>q. QED BY <1>10, <2>1, <2>2
<1>12. b[i].from + 1 \in DOMAIN whole
  BY <1>9, <1>11
<1>q. QED BY <1>11, <1>12 DEF whole

-----------------------------------------------------------------------------
(* Where the edges of a window may go.                                     *)

(* The farthest an edge moves over visible text.                           *)
Reach == IF SentenceBudget <= MaxWordShift THEN MaxWordShift ELSE SentenceBudget

LEMMA ReachFits ==
  /\ SentenceBudget \in Nat /\ MaxWordShift \in Nat /\ Reach \in Nat
  /\ SentenceBudget <= Reach /\ MaxWordShift <= Reach
  /\ 2 * Reach <= Overlap /\ Overlap \in Nat /\ Target \in Nat /\ Overlap < Target
<1>1. Overlap \div 2 \in Nat /\ 2 * (Overlap \div 2) <= Overlap
  BY SettingsAssumption
<1>2. SentenceBudget \in Nat /\ SentenceBudget <= Overlap \div 2
  BY <1>1, SettingsAssumption DEF SentenceBudget, Lower
<1>q. QED BY <1>1, <1>2, SettingsAssumption, ShiftAssumption DEF Reach

LEMMA AfterSpacesSkips ==
  ASSUME NEW t \in Seq(Char), NEW pos \in 0..Len(t)
  PROVE  /\ AfterSpaces(t, pos) \in pos..Len(t)
         /\ \A i \in pos..(AfterSpaces(t, pos) - 1) : IsSpace(t, i)
<1> DEFINE S == {q \in pos..Len(t) : q < Len(t) => ~IsSpace(t, q)}
<1>1. Len(t) \in Nat /\ Len(t) \in S
  OBVIOUS
<1>2. S \subseteq Nat /\ S # {} /\ AfterSpaces(t, pos) = Min(S)
  BY <1>1 DEF AfterSpaces
<1> HIDE DEF S
<1>3. Min(S) \in S /\ \A m \in S : Min(S) <= m
  BY <1>2, MinIsLeast
<1>4. Min(S) \in pos..Len(t)
  BY <1>3 DEF S
<1>5. ASSUME NEW i \in pos..(Min(S) - 1) PROVE IsSpace(t, i)
  <2>1. i \notin S
    BY <1>3, <1>4, <1>1
  <2>2. i \in pos..Len(t)
    BY <1>4, <1>1
  <2>q. QED BY <2>1, <2>2 DEF S
<1>q. QED BY <1>2, <1>4, <1>5

(* What a start moves over, beyond the reach, is space.                    *)
LEMMA StartReach ==
  ASSUME NEW t \in Seq(Char), NEW pos \in 0..Len(t)
  PROVE  /\ SnapStart(t, pos) \in pos..Len(t)
         /\ \A i \in pos..(SnapStart(t, pos) - 1) : i >= pos + Reach => IsSpace(t, i)
         /\ pos = 0 => SnapStart(t, pos) = 0
<1>0. Len(t) \in Nat
  OBVIOUS
<1>1. CASE SentenceStarts(t, pos) # {}
  <2> DEFINE S == SentenceStarts(t, pos)
             J == {j \in Higher(pos - SentenceBudget, 0)..(Lower(pos + SentenceBudget, Len(t)) - 1) :
                     EndsSentence(t, j)}
  <2>1. Inside(t, pos) /\ S = {AfterSpaces(t, i + 1) : i \in J} \cap pos..(pos + SentenceBudget)
    BY <1>1 DEF SentenceStarts
  <2>2. ASSUME NEW x \in S PROVE x \in pos..Len(t) /\ x <= pos + SentenceBudget
    <3>1. PICK i \in J : x = AfterSpaces(t, i + 1)
      BY <2>1
    <3>2. i \in Nat /\ i + 1 \in 0..Len(t)
      BY <1>0, ReachFits DEF Higher, Lower
    <3>3. x \in (i + 1)..Len(t)
      BY <3>1, <3>2, AfterSpacesSkips
    <3>q. QED BY <2>1, <3>3, <1>0, ReachFits
  <2> HIDE DEF S, J
  <2>3. Min(S) \in S
    <3>1. S \subseteq Nat
      BY <2>2
    <3>q. QED BY <3>1, <1>1, MinIsLeast DEF S
  <2>4. SnapStart(t, pos) = Min(S)
    BY <1>1 DEF SnapStart, S
  <2>5. pos # 0
    BY <2>1 DEF Inside
  <2>q. QED BY <2>2, <2>3, <2>4, <2>5, <1>0, ReachFits
<1>2. CASE SentenceStarts(t, pos) = {}
  <2> DEFINE gaps == {c \in pos..(Lower(pos + MaxWordShift, Len(t)) - 1) : IsSpace(t, c)}
  <2>1. SnapStart(t, pos) = WordStart(t, pos)
    BY <1>2 DEF SnapStart
  <2>2. CASE ~Inside(t, pos) \/ IsSpace(t, pos - 1) \/ gaps = {}
    <3>1. WordStart(t, pos) = pos
      BY <2>2 DEF WordStart
    <3>q. QED BY <2>1, <3>1, <1>0
  <2>3. CASE ~(~Inside(t, pos) \/ IsSpace(t, pos - 1) \/ gaps = {})
    <3>1. WordStart(t, pos) = AfterSpaces(t, Min(gaps))
      BY <2>3 DEF WordStart
    <3>2. Min(gaps) \in gaps
      <4>1. gaps \subseteq Nat /\ gaps # {}
        BY <2>3, <1>0, ReachFits DEF Lower
      <4>q. QED BY <4>1, MinIsLeast
    <3>3. Min(gaps) \in pos..Len(t) /\ Min(gaps) < pos + MaxWordShift
      BY <3>2, <1>0, ReachFits DEF Lower
    <3> DEFINE a == AfterSpaces(t, Min(gaps))
    <3>4. a \in Min(gaps)..Len(t) /\ \A i \in Min(gaps)..(a - 1) : IsSpace(t, i)
      <4>1. Min(gaps) \in 0..Len(t)
        BY <3>3, <1>0
      <4>q. QED BY <4>1, AfterSpacesSkips
    <3>5. pos # 0
      BY <2>3 DEF Inside
    <3> HIDE DEF gaps, a
    <3>6. SnapStart(t, pos) = a
      BY <2>1, <3>1 DEF a
    <3>7. ASSUME NEW i \in pos..(a - 1), i >= pos + Reach PROVE IsSpace(t, i)
      <4>1. i \in Min(gaps)..(a - 1)
        BY <3>3, <3>4, <3>7, <1>0, ReachFits
      <4>q. QED BY <4>1, <3>4
    <3>q. QED BY <3>3, <3>4, <3>5, <3>6, <3>7, <1>0
  <2>q. QED BY <2>2, <2>3
<1>q. QED BY <1>1, <1>2

(* An end moves back, and no farther than the reach.                       *)
LEMMA EndReach ==
  ASSUME NEW t \in Seq(Char), NEW pos \in 0..Len(t)
  PROVE  /\ SnapEnd(t, pos) \in 0..pos
         /\ SnapEnd(t, pos) >= pos - Reach
         /\ pos = Len(t) => SnapEnd(t, pos) = pos
<1>0. Len(t) \in Nat
  OBVIOUS
<1>1. CASE SentenceEnds(t, pos) # {}
  <2> DEFINE S == SentenceEnds(t, pos)
  <2>1. Inside(t, pos)
        /\ S = {i + 1 : i \in {j \in Higher(pos - SentenceBudget, 0)..(pos - 1) : EndsSentence(t, j)}}
    BY <1>1 DEF SentenceEnds
  <2>2. \A x \in S : x \in 0..pos /\ x >= pos - SentenceBudget
    BY <2>1, <1>0, ReachFits DEF Higher
  <2> HIDE DEF S
  <2>3. Max(S) \in S
    <3>1. S \subseteq 0..pos /\ S # {} /\ pos \in Nat
      BY <2>2, <1>1 DEF S
    <3>q. QED BY <3>1, MaxIsGreatest
  <2>4. SnapEnd(t, pos) = Max(S)
    BY <1>1 DEF SnapEnd, S
  <2>5. pos # Len(t)
    BY <2>1 DEF Inside
  <2>q. QED BY <2>2, <2>3, <2>4, <2>5, <1>0, ReachFits
<1>2. CASE SentenceEnds(t, pos) = {}
  <2> DEFINE ends == {c \in (Higher(pos - MaxWordShift, 0) + 1)..(pos - 1) : IsSpace(t, c - 1)}
  <2>1. SnapEnd(t, pos) = WordEnd(t, pos)
    BY <1>2 DEF SnapEnd
  <2>2. CASE ~Inside(t, pos) \/ IsSpace(t, pos) \/ IsSpace(t, pos - 1) \/ ends = {}
    <3>1. WordEnd(t, pos) = pos
      BY <2>2 DEF WordEnd
    <3>q. QED BY <2>1, <3>1, <1>0, ReachFits
  <2>3. CASE ~(~Inside(t, pos) \/ IsSpace(t, pos) \/ IsSpace(t, pos - 1) \/ ends = {})
    <3>1. WordEnd(t, pos) = Max(ends)
      BY <2>3 DEF WordEnd
    <3>2. \A x \in ends : x \in 0..pos /\ x >= pos - MaxWordShift
      BY <1>0, ReachFits DEF Higher
    <3>3. pos # Len(t) /\ ends # {}
      BY <2>3 DEF Inside
    <3> HIDE DEF ends
    <3>4. Max(ends) \in ends
      <4>1. ends \subseteq 0..pos /\ pos \in Nat
        BY <3>2
      <4>q. QED BY <4>1, <3>3, MaxIsGreatest
    <3>q. QED BY <2>1, <3>1, <3>2, <3>3, <3>4, <1>0, ReachFits
  <2>q. QED BY <2>2, <2>3
<1>q. QED BY <1>1, <1>2

(* A window lies in its text, begins where the windows before it left off  *)
(* but for the reach, and ends short of its nominal end by no more.        *)
LEMMA WindowReach ==
  ASSUME NEW t \in Seq(Char), NEW s \in Nat, s < Len(t)
  PROVE  LET w == Window(t, s)
             e == NominalEnd(t, s)
         IN  /\ w = [from |-> w.from, to |-> w.to]
             /\ w.from \in s..Len(t) /\ w.to \in 0..e /\ w.from < w.to
             /\ e = (IF s + Target <= Len(t) THEN s + Target ELSE Len(t))
             /\ w.to >= e - Reach
             /\ e = Len(t) => w.to = e
             /\ s = 0 => w.from = 0
             /\ \A i \in s..(w.from - 1) : i >= s + Reach => IsSpace(t, i)
<1> DEFINE from == SnapStart(t, s)
           e    == NominalEnd(t, s)
           to   == SnapEnd(t, e)
           w    == Window(t, s)
<1>1. e = (IF s + Target <= Len(t) THEN s + Target ELSE Len(t)) /\ e \in 0..Len(t) /\ s < e
  BY ReachFits DEF NominalEnd, Lower
<1>2. /\ from \in s..Len(t)
      /\ \A i \in s..(from - 1) : i >= s + Reach => IsSpace(t, i)
      /\ s = 0 => from = 0
  <2>1. s \in 0..Len(t)
    OBVIOUS
  <2>q. QED BY <2>1, StartReach
<1>3. to \in 0..e /\ to >= e - Reach /\ (e = Len(t) => to = e)
  BY <1>1, EndReach
<1>4. w = IF to <= from THEN [from |-> s, to |-> e] ELSE [from |-> from, to |-> to]
  BY DEF Window
<1> HIDE DEF from, e, to, w
<1>5. CASE to <= from
  <2>1. w = [from |-> s, to |-> e] /\ w.from = s /\ w.to = e
    BY <1>4, <1>5
  <2>2. \A i \in s..(s - 1) : FALSE
    OBVIOUS
  <2>q. QED BY <2>1, <2>2, <1>1, ReachFits DEF w, e
<1>6. CASE ~ (to <= from)
  <2>1. w = [from |-> from, to |-> to] /\ w.from = from /\ w.to = to
    BY <1>4, <1>6
  <2>2. from < to
    BY <1>1, <1>2, <1>3, <1>6
  <2>q. QED BY <2>1, <2>2, <1>1, <1>2, <1>3 DEF w, e
<1>q. QED BY <1>5, <1>6

-----------------------------------------------------------------------------
(* The loop.                                                               *)

LEMMA SectionReach ==
  ASSUME text \in Seq(Char), lo \in Nat, lo < Len(text)
  PROVE  /\ SectionEnd \in (lo + 1)..Len(text)
         /\ Section \in Seq(Char) /\ Len(Section) = SectionEnd - lo
         /\ \A i \in 0..(Len(Section) - 1) : IsSpace(Section, i) = IsSpace(text, lo + i)
         /\ \A i \in (lo + 1)..(SectionEnd - 1) : text[i + 1] # Heading
<1> DEFINE S == {q \in (lo + 1)..Len(text) : q < Len(text) => text[q + 1] = Heading}
<1>1. Len(text) \in Nat /\ Len(text) \in S
  OBVIOUS
<1>2. S \subseteq Nat /\ S # {} /\ SectionEnd = Min(S)
  BY <1>1 DEF SectionEnd
<1> HIDE DEF S
<1>3. Min(S) \in S /\ \A m \in S : Min(S) <= m
  BY <1>2, MinIsLeast
<1>4. SectionEnd \in (lo + 1)..Len(text)
  BY <1>2, <1>3 DEF S
<1>5. ASSUME NEW i \in (lo + 1)..(SectionEnd - 1) PROVE text[i + 1] # Heading
  <2>1. i \notin S /\ i \in (lo + 1)..Len(text)
    BY <1>1, <1>2, <1>3, <1>4
  <2>q. QED BY <2>1 DEF S
<1>6. /\ Section \in Seq(Char) /\ Len(Section) = SectionEnd - lo
      /\ \A i \in 1..(SectionEnd - lo) : Section[i] = text[lo + i]
  BY <1>1, <1>4 DEF Section
<1>7. ASSUME NEW i \in 0..(Len(Section) - 1) PROVE IsSpace(Section, i) = IsSpace(text, lo + i)
  <2>1. i + 1 \in 1..(SectionEnd - lo) /\ lo + (i + 1) = (lo + i) + 1
    BY <1>4, <1>6, <1>7
  <2>2. Section[i + 1] = text[(lo + i) + 1]
    BY <1>6, <2>1
  <2>q. QED BY <2>2 DEF IsSpace
<1>q. QED BY <1>4, <1>5, <1>6, <1>7

WindowRow == [from : Nat, to : Nat, heading : Int]

Kept(i) == IsSpace(text, i) \/ \E k \in DOMAIN windows : windows[k].from <= i /\ i < windows[k].to

(* What the next window may leave out at its start is kept already.        *)
Overlapped ==
  start # 0 =>
    /\ lo < Len(text) /\ start < Len(Section)
    /\ \A i \in lo..(lo + start + Reach - 1) : i < SectionEnd => Kept(i)

CutInv ==
  /\ text \in Seq(Char) /\ lo \in 0..Len(text) /\ start \in Nat /\ windows \in Seq(WindowRow)
  /\ Overlapped
  /\ NoTextLost
  /\ WindowsInSection

LEMMA SkipKeeps == CutInv /\ SkipBlank => CutInv'
<1> SUFFICES ASSUME CutInv, SkipBlank PROVE CutInv'
  OBVIOUS
<1>1. /\ lo < Len(text) /\ Ink(Section) = {} /\ lo' = SectionEnd /\ start' = 0
      /\ text' = text /\ windows' = windows
      /\ text \in Seq(Char) /\ lo \in Nat /\ Len(text) \in Nat
  BY DEF CutInv, SkipBlank, NextSection
<1>2. /\ SectionEnd \in (lo + 1)..Len(text) /\ Len(Section) = SectionEnd - lo
      /\ \A i \in 0..(Len(Section) - 1) : IsSpace(Section, i) = IsSpace(text, lo + i)
  BY <1>1, SectionReach
<1>3. ASSUME NEW i \in 0..(SectionEnd - 1) PROVE Kept(i)
  <2>1. CASE i < lo
    <3>1. i \in 0..(lo - 1)
      BY <1>1, <2>1
    <3>q. QED BY <3>1 DEF CutInv, NoTextLost, Kept
  <2>2. CASE i >= lo
    <3>1. i - lo \in 0..(Len(Section) - 1) /\ lo + (i - lo) = i
      BY <1>1, <1>2, <2>2
    <3>2. IsSpace(Section, i - lo)
      BY <1>1, <3>1 DEF Ink
    <3>q. QED BY <1>2, <3>1, <3>2 DEF Kept
  <2>q. QED BY <1>1, <1>2, <2>1, <2>2
<1>4. NoTextLost'
  BY <1>1, <1>3 DEF NoTextLost, Kept, IsSpace
<1>5. WindowsInSection'
  BY <1>1 DEF CutInv, WindowsInSection
<1>q. QED BY <1>1, <1>2, <1>4, <1>5 DEF CutInv, Overlapped

LEMMA CutKeeps == CutInv /\ CutWindow => CutInv'
<1> SUFFICES ASSUME CutInv, CutWindow PROVE CutInv'
  OBVIOUS
<1> DEFINE w == Window(Section, start)
           e == NominalEnd(Section, start)
           r == [from |-> lo + w.from, to |-> lo + w.to, heading |-> HeadingOf(lo)]
<1>1. /\ lo < Len(text) /\ windows' = Append(windows, r) /\ text' = text
      /\ IF e = Len(Section) THEN lo' = SectionEnd /\ start' = 0
         ELSE start' = start + Step /\ lo' = lo
      /\ text \in Seq(Char) /\ lo \in Nat /\ Len(text) \in Nat /\ start \in Nat
      /\ windows \in Seq(WindowRow) /\ Overlapped /\ NoTextLost /\ WindowsInSection
  BY DEF CutInv, CutWindow, NextSection
<1>2. /\ SectionEnd \in (lo + 1)..Len(text)
      /\ Section \in Seq(Char) /\ Len(Section) = SectionEnd - lo
      /\ \A i \in 0..(Len(Section) - 1) : IsSpace(Section, i) = IsSpace(text, lo + i)
      /\ \A i \in (lo + 1)..(SectionEnd - 1) : text[i + 1] # Heading
  BY <1>1, SectionReach
<1>3. start < Len(Section)
  BY <1>1, <1>2 DEF Overlapped
<1>4. /\ w.from \in start..Len(Section) /\ w.to \in 0..e /\ w.from < w.to
      /\ e = (IF start + Target <= Len(Section) THEN start + Target ELSE Len(Section))
      /\ w.to >= e - Reach
      /\ e = Len(Section) => w.to = e
      /\ start = 0 => w.from = 0
      /\ \A i \in start..(w.from - 1) : i >= start + Reach => IsSpace(Section, i)
  BY <1>1, <1>2, <1>3, WindowReach
<1>t. /\ w.from \in Nat /\ w.to \in Nat /\ w.to <= Len(Section) /\ Reach \in Nat
      /\ SectionEnd \in Nat /\ Len(Section) \in Nat /\ Len(Section) = SectionEnd - lo
  <2>1. SectionEnd \in Nat /\ Len(Section) \in Nat /\ Len(Section) = SectionEnd - lo
    BY <1>1, <1>2
  <2>2. e \in Nat /\ e <= Len(Section)
    BY <2>1, <1>1, <1>3, <1>4, ReachFits
  <2>q. QED BY <2>1, <2>2, <1>1, <1>4, ReachFits
<1>5. HeadingOf(lo) \in Int /\ (HeadingOf(lo) # -1 => HeadingOf(lo) = lo /\ text[lo + 1] = Heading)
  BY <1>1 DEF HeadingOf
<1> HIDE DEF w, e
<1>6. r \in WindowRow /\ windows' \in Seq(WindowRow)
  <2>1. lo + w.from \in Nat /\ lo + w.to \in Nat
    BY <1>1, <1>t
  <2>2. r \in WindowRow
    BY <2>1, <1>5 DEF WindowRow
  <2>q. QED BY <2>2, <1>1
<1>7. /\ Len(windows') = Len(windows) + 1 /\ Len(windows) \in Nat
      /\ \A k \in 1..Len(windows) : windows'[k] = windows[k]
      /\ windows'[Len(windows) + 1] = r
      /\ DOMAIN windows' = 1..(Len(windows) + 1) /\ DOMAIN windows = 1..Len(windows)
  BY <1>1, <1>6
<1>8. ASSUME NEW i \in Nat, Kept(i) PROVE Kept(i)'
  <2>1. CASE IsSpace(text, i)
    BY <2>1, <1>1 DEF Kept, IsSpace
  <2>2. ASSUME NEW k \in DOMAIN windows, windows[k].from <= i /\ i < windows[k].to
        PROVE  Kept(i)'
    BY <2>2, <1>7 DEF Kept
  <2>q. QED BY <1>8, <2>1, <2>2 DEF Kept
<1>9. ASSUME NEW i \in lo..(lo + w.to - 1) PROVE Kept(i)'
  <2>0. i \in Nat /\ i < SectionEnd
    BY <1>1, <1>2, <1>4
  <2>1. CASE i >= lo + w.from
    <3>1. r.from <= i /\ i < r.to
      BY <2>1, <1>4, <1>1, <1>2
    <3>2. Len(windows) + 1 \in DOMAIN windows'
      BY <1>7
    <3>q. QED BY <3>1, <3>2, <1>7 DEF Kept
  <2>2. CASE i < lo + w.from /\ i < lo + start + Reach
    <3>1. start # 0
      BY <2>2, <1>4, <1>1
    <3>2. i \in lo..(lo + start + Reach - 1)
      BY <2>2, <1>1, ReachFits
    <3>3. Kept(i)
      BY <3>1, <3>2, <2>0, <1>1 DEF Overlapped
    <3>q. QED BY <3>3, <2>0, <1>8
  <2>3. CASE i < lo + w.from /\ i >= lo + start + Reach
    <3>1. /\ i - lo \in start..(w.from - 1) /\ i - lo >= start + Reach
          /\ i - lo \in 0..(Len(Section) - 1) /\ lo + (i - lo) = i
      BY <2>3, <2>0, <1>1, <1>t
    <3>2. IsSpace(text, i)
      BY <3>1, <1>2, <1>4
    <3>q. QED BY <3>2, <2>0, <1>8 DEF Kept
  <2>q. QED BY <2>0, <2>1, <2>2, <2>3, <1>1, <1>t
<1>10. ASSUME NEW i \in 0..(lo - 1) PROVE Kept(i)'
  <2>1. Kept(i)
    BY <1>1 DEF NoTextLost, Kept
  <2>q. QED BY <2>1, <1>8
<1>11. WindowsInSection'
  <2> SUFFICES ASSUME NEW k \in DOMAIN windows'
               PROVE  LET v == windows'[k]
                      IN  /\ v.from < v.to /\ v.to <= Len(text)
                          /\ \A i \in (v.from + 1)..(v.to - 1) : text[i + 1] # Heading
                          /\ v.heading # -1 => /\ v.heading <= v.from /\ text[v.heading + 1] = Heading
                                              /\ \A i \in (v.heading + 1)..v.from : text[i + 1] # Heading
    BY <1>1 DEF WindowsInSection
  <2>1. CASE k \in DOMAIN windows
    BY <2>1, <1>1, <1>7 DEF WindowsInSection
  <2>2. CASE k = Len(windows) + 1
    <3>1. windows'[k] = r /\ r.from = lo + w.from /\ r.to = lo + w.to /\ r.heading = HeadingOf(lo)
      BY <2>2, <1>7
    <3> HIDE DEF r
    <3>2. r.from < r.to /\ r.to <= SectionEnd /\ lo <= r.from /\ r.from \in Nat /\ r.to \in Nat
      <4>1. lo \in Nat /\ w.from < w.to
        BY <1>1, <1>4
      <4> DEFINE f == w.from
                 g == w.to
      <4>2. r.from = lo + f /\ r.to = lo + g /\ f \in Nat /\ g \in Nat /\ f < g /\ g <= SectionEnd - lo
        BY <3>1, <4>1, <1>t
      <4> HIDE DEF f, g
      <4>q. QED BY <4>1, <4>2, <1>t
    <3>3. \A i \in (r.from + 1)..(r.to - 1) : text[i + 1] # Heading
      BY <3>2, <1>1, <1>2
    <3>4. r.heading # -1 => \A i \in (r.heading + 1)..r.from : text[i + 1] # Heading
      BY <3>1, <3>2, <1>1, <1>2, <1>5
    <3>q. QED BY <3>1, <3>2, <3>3, <3>4, <1>1, <1>2, <1>5
  <2>q. QED BY <2>1, <2>2, <1>7
<1>12. CASE e = Len(Section)
  <2>1. w.to = SectionEnd - lo /\ lo' = SectionEnd /\ start' = 0
    BY <1>12, <1>1, <1>2, <1>4
  <2>2. ASSUME NEW i \in 0..(SectionEnd - 1) PROVE Kept(i)'
    <3>1. i \in 0..(lo - 1) \/ i \in lo..(lo + w.to - 1)
      BY <2>1, <1>1, <1>2
    <3>q. QED BY <3>1, <1>9, <1>10
  <2>3. NoTextLost'
    BY <2>1, <2>2 DEF NoTextLost, Kept
  <2>q. QED BY <2>1, <2>3, <1>1, <1>2, <1>6, <1>11 DEF CutInv, Overlapped
<1>13. CASE e # Len(Section)
  <2>1. start' = start + Step /\ lo' = lo /\ e = start + Target /\ e < Len(Section)
    BY <1>13, <1>1, <1>2, <1>3, <1>4, ReachFits
  <2>2. start' \in Nat /\ start' < Len(Section) /\ start' + Reach <= w.to
    BY <2>1, <1>1, <1>2, <1>4, ReachFits DEF Step
  <2>3. Section' = Section /\ SectionEnd' = SectionEnd
    BY <2>1, <1>1 DEF Section, SectionEnd
  <2>4. Overlapped'
    <3>1. ASSUME NEW i \in Int, lo <= i, i <= lo + start' + Reach - 1 PROVE Kept(i)'
      <4>1. i \in lo..(lo + w.to - 1)
        <5>1. start' \in Nat /\ start' + Reach <= w.to /\ lo \in Nat /\ w.to \in Nat /\ Reach \in Nat
          BY <2>2, <1>1, <1>t
        <5>2. \A a, b, c, d, j \in Int :
                a <= j /\ j <= a + b + c - 1 /\ b + c <= d => j \in a..(a + d - 1)
          OBVIOUS
        <5>3. start' \in Int /\ lo \in Int /\ w.to \in Int /\ Reach \in Int
          BY <5>1
        <5>4. lo <= i /\ i <= lo + start' + Reach - 1 => i \in lo..(lo + w.to - 1)
          BY <5>1, <5>2, <5>3, Zenon
        <5>q. QED BY <3>1, <5>4, Zenon
      <4>q. QED BY <4>1, <1>9
    <3>2. Reach' = Reach
      BY DEF Reach, SentenceBudget
    <3>q. QED BY <3>1, <3>2, <2>1, <2>2, <2>3, <1>1 DEF Overlapped
  <2>5. NoTextLost'
    BY <2>1, <1>10 DEF NoTextLost, Kept
  <2>q. QED BY <2>1, <2>2, <2>4, <2>5, <1>1, <1>2, <1>6, <1>11 DEF CutInv
<1>q. QED BY <1>12, <1>13

-----------------------------------------------------------------------------
(* What is read of a file.                                                 *)

(* The texts of pages, one of each.                                        *)
LEMMA PageTextsType ==
  ASSUME NEW pages \in Seq(Seq(Line))
  PROVE  PageTexts(pages) \in Seq(Seq(Char)) /\ Len(PageTexts(pages)) = Len(pages)
<1> DEFINE running == RunningLines(pages)
           n == Len(pages)
           glyphs(lines) == [i \in DOMAIN lines |-> Glyphs[lines[i]]]
           t == PageTexts(pages)
<1>1. n \in Nat /\ DOMAIN pages = 1..n /\ \A p \in 1..n : pages[p] \in Seq(Line)
  OBVIOUS
<1>2. t = [p \in DOMAIN pages |-> JoinWith(<<" ">>, glyphs(NormalisePage(pages[p], running)))]
  BY DEF PageTexts
<1>3. <<" ">> \in Seq(Char)
  BY DEF Char, Space
<1> HIDE DEF running, n, t
<1>4. ASSUME NEW p \in 1..n PROVE t[p] \in Seq(Char)
  <2> DEFINE page == NormalisePage(pages[p], running)
  <2>1. page \in Seq(Line)
    BY <1>1, KeepOnlyType DEF NormalisePage
  <2> HIDE DEF page
  <2> DEFINE g == [i \in DOMAIN page |-> Glyphs[page[i]]]
             m == Len(page)
  <2>2. m \in Nat /\ DOMAIN page = 1..m /\ \A i \in 1..m : page[i] \in Line
    BY <2>1
  <2>3. g = [i \in 1..m |-> g[i]] /\ \A i \in 1..m : g[i] \in Seq(Char)
    BY <2>2, FilesAssumption
  <2> HIDE DEF g, m
  <2>4. g \in Seq(Seq(Char))
    BY <2>2, <2>3, IsSequence
  <2>5. JoinWith(<<" ">>, g) \in Seq(Char)
    BY <1>3, <2>4, JoinType
  <2>6. t[p] = JoinWith(<<" ">>, g)
    BY <1>1, <1>2 DEF g, page
  <2>q. QED BY <2>5, <2>6
<1>5. t = [p \in 1..n |-> t[p]]
  BY <1>1, <1>2
<1>6. t \in Seq(Seq(Char)) /\ Len(t) = n
  <2> HIDE DEF glyphs
  <2>q. QED BY <1>1, <1>4, <1>5, IsSequence
<1>q. QED BY <1>6 DEF n, t

LEMMA RecognisedType ==
  ASSUME NEW image \in Seq(Seq(Line)), NEW asked
  PROVE  Recognised(image, asked) \in Seq(Seq(Line)) /\ Len(Recognised(image, asked)) = Len(image)
<1> DEFINE n == Len(image)
           f == Recognised(image, asked)
<1>1. n \in Nat /\ DOMAIN image = 1..n /\ \A p \in 1..n : image[p] \in Seq(Line)
  OBVIOUS
<1>2. f = [p \in 1..n |-> f[p]] /\ \A p \in 1..n : f[p] \in Seq(Line)
  BY <1>1 DEF Recognised
<1> HIDE DEF n, f
<1>3. f \in Seq(Seq(Line)) /\ Len(f) = n
  BY <1>1, <1>2, IsSequence
<1>q. QED BY <1>3 DEF f, n

(* A line of a workbook's text that is numbered is a row of the workbook.  *)
RowLine(sheets) ==
  {l \in [glyphs: Seq(Char), row: Nat, sheet: Seq(Char)] :
     l.row > 0 => /\ l.glyphs # <<>>
                  /\ \E s \in DOMAIN sheets :
                       /\ sheets[s].title = l.sheet
                       /\ l.row - 1 \in DOMAIN sheets[s].rows
                       /\ sheets[s].rows[l.row - 1] = l.glyphs}

LEMMA WorkbookType ==
  ASSUME NEW sheets \in Seq([title: Seq(Char), rows: Seq(Seq(Char))])
  PROVE  WorkbookLines(sheets) \in Seq(RowLine(sheets))
<1> DEFINE n == Len(sheets)
           E == RowLine(sheets)
           f == [s \in DOMAIN sheets |-> SheetLines(sheets[s])]
<1>1. /\ n \in Nat /\ DOMAIN sheets = 1..n
      /\ \A s \in 1..n : sheets[s] \in [title: Seq(Char), rows: Seq(Seq(Char))]
  <2> DEFINE Sheet == [title: Seq(Char), rows: Seq(Seq(Char))]
  <2>1. sheets \in Seq(Sheet)
    OBVIOUS
  <2> HIDE DEF Sheet
  <2>2. n \in Nat /\ DOMAIN sheets = 1..n /\ \A s \in 1..n : sheets[s] \in Sheet
    BY <2>1
  <2>q. QED BY <2>2 DEF Sheet
<1> HIDE DEF n, E
<1>2. ASSUME NEW s \in 1..n PROVE SheetLines(sheets[s]) \in Seq(E)
  <2> DEFINE sheet == sheets[s]
             m == Len(sheet.rows)
             g == [r \in DOMAIN sheet.rows |->
                     IF sheet.rows[r] = <<>> THEN <<>>
                     ELSE <<[glyphs |-> sheet.rows[r], row |-> r + 1, sheet |-> sheet.title]>>]
  <2>1. sheet.title \in Seq(Char) /\ sheet.rows \in Seq(Seq(Char))
    BY <1>1
  <2>2. m \in Nat /\ DOMAIN sheet.rows = 1..m /\ \A r \in 1..m : sheet.rows[r] \in Seq(Char)
    BY <2>1
  <2>3. s \in DOMAIN sheets
    BY <1>1
  <2>4. ASSUME NEW r \in 1..m, sheet.rows[r] # <<>> PROVE g[r] \in Seq(E)
    <3> DEFINE l == [glyphs |-> sheet.rows[r], row |-> r + 1, sheet |-> sheet.title]
    <3>1. l \in [glyphs: Seq(Char), row: Nat, sheet: Seq(Char)]
      BY <2>1, <2>2
    <3>2. l.row - 1 = r /\ l.sheet = sheet.title /\ l.glyphs = sheet.rows[r]
      OBVIOUS
    <3>3. l \in E
      <4> HIDE DEF l
      <4>q. QED BY <2>2, <2>3, <2>4, <3>1, <3>2 DEF E, RowLine
    <3>4. g[r] = <<l>>
      BY <2>2, <2>4
    <3> HIDE DEF l, g, sheet
    <3>q. QED BY <3>3, <3>4
  <2>4a. ASSUME NEW r \in 1..m PROVE g[r] \in Seq(E)
    <3>1. sheet.rows[r] = <<>> => g[r] = <<>> /\ <<>> \in Seq(E)
      BY <2>2
    <3> HIDE DEF g, sheet
    <3>q. QED BY <2>4, <3>1
  <2>5. g = [r \in 1..m |-> g[r]]
    BY <2>2
  <2>6. RenderedRows(sheet) = FlattenSeq(g)
    BY DEF RenderedRows
  <2> DEFINE heading == [glyphs |-> sheet.title, row |-> 0, sheet |-> sheet.title]
  <2>7. heading \in E
    BY <2>1 DEF E, RowLine
  <2> HIDE DEF g, m, heading
  <2>8. RenderedRows(sheet) \in Seq(E)
    <3>1. g \in Seq(Seq(E))
      BY <2>2, <2>4a, <2>5, IsSequence
    <3>q. QED BY <2>6, <3>1, FlattenType
  <2> DEFINE rendered == RenderedRows(sheet)
  <2>9. SheetLines(sheet) = IF rendered = <<>> \/ sheet.title = <<>> THEN rendered
                            ELSE <<heading>> \o rendered
    BY DEF SheetLines, heading
  <2> HIDE DEF rendered, sheet
  <2>10. rendered \in Seq(E) /\ <<heading>> \in Seq(E)
    BY <2>7, <2>8 DEF rendered
  <2>11. SheetLines(sheet) \in Seq(E)
    BY <2>9, <2>10
  <2>q. QED BY <2>11 DEF sheet
<1>3. f = [s \in 1..n |-> f[s]] /\ \A s \in 1..n : f[s] \in Seq(E)
  BY <1>1, <1>2
<1> HIDE DEF f
<1>4. f \in Seq(Seq(E))
  BY <1>1, <1>3, IsSequence
<1>q. QED BY <1>4, FlattenType DEF WorkbookLines, f, E

(* A file of each kind that has parts.                                     *)
IsPdf   == file.kind = "pdf" /\ file.layer \in Seq(Seq(Line)) /\ file.image \in Seq(Seq(Line))
           /\ Len(file.image) = Len(file.layer)
IsTable == file.kind = "table" /\ file.sheets \in Seq([title: Seq(Char), rows: Seq(Seq(Char))])

LEMMA PageBoundsMark ==
  ASSUME NEW texts \in Seq(Seq(Char))
  PROVE  Marks(PageBounds(texts), texts, 2)
<1>1. Len(PageGap) = 2
  BY DEF PageGap
<1>2. Marks(Bounds(texts, 2), texts, 2)
  BY BoundsMark
<1>3. DOMAIN PageBounds(texts) = DOMAIN texts
      /\ \A p \in DOMAIN texts : /\ PageBounds(texts)[p].from = Bounds(texts, 2)[p].from
                                 /\ PageBounds(texts)[p].to = Bounds(texts, 2)[p].to
  BY <1>1 DEF PageBounds
<1>4. \A p \in DOMAIN texts : p # 1 => p - 1 \in DOMAIN texts
  <2>1. DOMAIN texts = 1..Len(texts) /\ Len(texts) \in Nat
    OBVIOUS
  <2>q. QED BY <2>1
<1>q. QED BY <1>2, <1>3, <1>4 DEF Marks

(* What is read of a PDF.                                                  *)
LEMMA PdfTexts ==
  ASSUME IsPdf
  PROVE  /\ LayerTexts \in Seq(Seq(Char)) /\ Len(LayerTexts) = Len(file.layer)
         /\ AllRead \in Seq(Seq(Char))
         /\ GapRead \in Seq(Seq(Char)) /\ Len(GapRead) = Len(file.layer)
         /\ None \notin DOMAIN file.image /\ None \notin Splice
<1>1. LayerTexts \in Seq(Seq(Char)) /\ Len(LayerTexts) = Len(file.layer)
  BY PageTextsType DEF IsPdf, LayerTexts
<1>2. AllRead \in Seq(Seq(Char))
  BY PageTextsType, RecognisedType DEF IsPdf, AllRead
<1>3. GapRead \in Seq(Seq(Char)) /\ Len(GapRead) = Len(file.layer)
  BY PageTextsType, RecognisedType DEF IsPdf, GapRead
<1>4. None \notin DOMAIN file.image
  BY DEF IsPdf, None
<1>5. None \notin Splice
  <2>1. Splice \subseteq DOMAIN LayerTexts
    BY DEF Splice, Recovered, Textless
  <2>2. None \notin DOMAIN LayerTexts
    BY <1>1 DEF None
  <2>q. QED BY <2>1, <2>2
<1>q. QED BY <1>1, <1>2, <1>3, <1>4, <1>5

(* A line of the page stands in the text, with all its characters.         *)
Stands(whole, line) ==
  \E f \in 0..Len(whole) :
    \A m \in DOMAIN Glyphs[line] : f + m \in 1..Len(whole) /\ whole[f + m] = Glyphs[line][m]

LEMMA LineStands ==
  ASSUME NEW page \in Seq(Line), NEW k \in DOMAIN page
  PROVE  LET whole == JoinWith(<<" ">>, [i \in DOMAIN page |-> Glyphs[page[i]]])
         IN  Stands(whole, page[k]) /\ Len(whole) > 0
<1> DEFINE g == [i \in DOMAIN page |-> Glyphs[page[i]]]
           n == Len(page)
           b == Bounds(g, 1)
           whole == JoinWith(<<" ">>, g)
<1>1. n \in Nat /\ DOMAIN page = 1..n /\ \A i \in 1..n : page[i] \in Line
  OBVIOUS
<1>2. g = [i \in 1..n |-> g[i]] /\ (\A i \in 1..n : g[i] \in Seq(Char)) /\ g[k] = Glyphs[page[k]]
  BY <1>1, FilesAssumption
<1> HIDE DEF g, n
<1>3. g \in Seq(Seq(Char)) /\ Len(g) = n /\ DOMAIN g = 1..n
  BY <1>1, <1>2, IsSequence
<1>4. <<" ">> \in Seq(Char) /\ Len(<<" ">>) = 1
  BY DEF Char, Space
<1>5. Marks(b, g, 1)
  BY <1>3, BoundsMark
<1> HIDE DEF b, whole
<1>6. whole \in Seq(Char) /\ Joined(whole, <<" ">>, g, b, n)
  BY <1>3, <1>4, <1>5, JoinWithJoins DEF whole
<1>7. g[k] # <<>> /\ g[k] \in Seq(Char)
  BY <1>1, <1>2, LinesAssumption
<1> DEFINE l == Len(g[k])
           f == b[k].from
<1>8. l \in Nat /\ l > 0 /\ DOMAIN g[k] = 1..l
  BY <1>7
<1>9. k \in 1..n
  BY <1>1
<1>10. /\ f \in Nat /\ b[k].to = f + l /\ b[k].to <= Len(whole) /\ Len(whole) \in Nat
       /\ \A m \in 1..l : whole[f + m] = g[k][m]
  <2>1. /\ b[k].from \in Nat /\ b[k].to \in Nat /\ b[k].to <= Len(whole)
        /\ \A m \in 1..Len(g[k]) : whole[b[k].from + m] = g[k][m]
    BY <1>6, <1>9 DEF Joined
  <2>2. b[k].to = b[k].from + Len(g[k])
    BY <1>3, <1>5, <1>9 DEF Marks
  <2>3. Len(whole) \in Nat
    <3>1. whole \in Seq(Char)
      BY <1>6
    <3>q. QED BY <3>1, LenProperties
  <2>q. QED BY <2>1, <2>2, <2>3
<1> HIDE DEF f, l
<1>11. f \in 0..Len(whole) /\ \A m \in 1..l : f + m \in 1..Len(whole)
  BY <1>8, <1>10
<1>12. Len(whole) > 0
  BY <1>8, <1>10
<1>13. Stands(whole, page[k])
  BY <1>2, <1>8, <1>10, <1>11 DEF Stands
<1>q. QED BY <1>12, <1>13 DEF whole, g

(* The line of one page is not running.                                    *)
LEMMA OwnIsNotRunning ==
  ASSUME NEW pages \in Seq(Seq(Line)), NEW p \in DOMAIN pages, NEW s,
         \A q \in DOMAIN pages \ {p} : \A j \in DOMAIN pages[q] : Signature[pages[q][j]] # s
  PROVE  s \notin RunningLines(pages)
<1> DEFINE other == (3 * Len(pages) + 4) \div 5
           needed == Max({MinRunningPages, other})
           having == {q \in DOMAIN pages : s \in MarksOf(pages[q])}
<1>1. needed > 1
  <2>1. other \in Nat
    <3>1. 3 * Len(pages) + 4 \in Nat
      OBVIOUS
    <3>q. QED BY <3>1
  <2> HIDE DEF other
  <2>2. {MinRunningPages, other} \subseteq 0..(MinRunningPages + other) /\ MinRunningPages + other \in Nat
    BY <2>1, RunningAssumption
  <2>3. needed \in {MinRunningPages, other} /\ MinRunningPages <= needed
    BY <2>2, MaxIsGreatest
  <2>q. QED BY <2>1, <2>3, RunningAssumption
<1>2. having \subseteq {p}
  <2>1. ASSUME NEW q \in having PROVE q = p
    <3>1. PICK j \in EdgeOf(pages[q]) : s = Signature[pages[q][j]]
      BY DEF MarksOf
    <3>2. j \in DOMAIN pages[q]
      BY DEF EdgeOf
    <3>q. QED BY <3>1, <3>2
  <2>q. QED BY <2>1
<1>3. Cardinality(having) <= 1
  <2> HIDE DEF having
  <2>1. IsFiniteSet({p}) /\ Cardinality({p}) = 1
    BY FS_Singleton
  <2>q. QED BY <1>2, <2>1, FS_Subset
<1>4. Cardinality(having) \in Nat
  <2> HIDE DEF having
  <2>1. IsFiniteSet({p})
    BY FS_Singleton
  <2>q. QED BY <1>2, <2>1, FS_Subset, FS_CardinalityType
<1>5. needed \in Int
  <2>1. other \in Int
    <3>1. 3 * Len(pages) + 4 \in Nat
      OBVIOUS
    <3>q. QED BY <3>1
  <2> HIDE DEF other
  <2>2. {MinRunningPages, other} \subseteq 0..(MinRunningPages + other) /\ MinRunningPages + other \in Nat
    <3>1. other \in Nat
      <4>1. 3 * Len(pages) + 4 \in Nat
        OBVIOUS
      <4>q. QED BY <4>1 DEF other
    <3>q. QED BY <3>1, RunningAssumption
  <2>3. needed \in {MinRunningPages, other}
    BY <2>2, MaxIsGreatest
  <2>q. QED BY <2>1, <2>3, RunningAssumption
<1>6. ~(Cardinality(having) >= needed)
  <2> HIDE DEF having, needed
  <2>q. QED BY <1>1, <1>3, <1>4, <1>5
<1>q. QED BY <1>6 DEF RunningLines

(* Cleaning leaves something of a page, and the lines of that page alone.  *)
LEMMA CleaningKeeps ==
  ASSUME NEW pages \in Seq(Seq(Line)), NEW p \in DOMAIN pages
  PROVE  /\ pages[p] # <<>> => Len(PageTexts(pages)[p]) > 0
         /\ \A i \in DOMAIN pages[p] :
              (\A q \in DOMAIN pages \ {p} :
                 \A j \in DOMAIN pages[q] : Signature[pages[q][j]] # Signature[pages[p][i]])
              => Stands(PageTexts(pages)[p], pages[p][i])
<1> DEFINE running == RunningLines(pages)
           page == pages[p]
           kept == {i \in DOMAIN page : ~(i \in EdgeOf(page) /\ Signature[page[i]] \in running)}
           clean == NormalisePage(page, running)
           whole == PageTexts(pages)[p]
<1>1. page \in Seq(Line) /\ DOMAIN page = 1..Len(page) /\ Len(page) \in Nat
  OBVIOUS
<1>2. clean = IF kept = {} THEN page ELSE KeepOnly(page, kept)
  BY DEF NormalisePage
<1>3. whole = JoinWith(<<" ">>, [i \in DOMAIN clean |-> Glyphs[clean[i]]])
  BY DEF PageTexts
<1> HIDE DEF running, page, whole, clean
<1>4. clean \in Seq(Line)
  <2> HIDE DEF kept
  <2>q. QED BY <1>1, <1>2, KeepOnlyType
<1>5. ASSUME NEW k \in DOMAIN clean PROVE Stands(whole, clean[k]) /\ Len(whole) > 0
  BY <1>3, <1>4, LineStands
<1>6. ASSUME NEW i \in kept PROVE \E k \in DOMAIN clean : clean[k] = page[i]
  <2>1. kept # {} /\ i \in DOMAIN page
    OBVIOUS
  <2> HIDE DEF kept
  <2>q. QED BY <1>1, <1>2, <2>1, KeepOnlyKeeps
<1>7. page # <<>> => Len(whole) > 0
  <2>1. CASE kept = {} /\ page # <<>>
    <3>1. clean = page /\ 1 \in DOMAIN page
      BY <1>1, <1>2, <2>1
    <3>q. QED BY <1>5, <3>1
  <2>2. CASE kept # {}
    BY <1>5, <1>6, <2>2
  <2>q. QED BY <2>1, <2>2
<1>8. ASSUME NEW i \in DOMAIN page, Signature[page[i]] \notin running PROVE Stands(whole, page[i])
  <2>1. PICK k \in DOMAIN clean : clean[k] = page[i]
    BY <1>6, <1>8
  <2>q. QED BY <1>5, <2>1
<1>9. ASSUME NEW i \in DOMAIN page,
             \A q \in DOMAIN pages \ {p} :
               \A j \in DOMAIN pages[q] : Signature[pages[q][j]] # Signature[page[i]]
      PROVE  Signature[page[i]] \notin running
  BY <1>9, OwnIsNotRunning DEF running
<1>q. QED BY <1>7, <1>8, <1>9 DEF page, whole

-----------------------------------------------------------------------------
(* Where the characters of the text come from.                             *)

(* What Accept leaves of a file: the parts its text is joined from, the    *)
(* blanks between them, and which of them were recognised.                 *)
KeepsLayer(parts, replaced) ==
  /\ DOMAIN parts = DOMAIN file.layer
  /\ \A p \in DOMAIN parts : /\ Len(LayerTexts[p]) <= Len(parts[p])
                             /\ p \notin replaced => parts[p] = LayerTexts[p]

IsRead(parts, gap, scanned) ==
  /\ parts \in Seq(Seq(Char)) /\ gap \in Nat
  /\ text = JoinWith([g \in 1..gap |-> Space], parts)
  /\ origin = OriginOf(parts, gap, scanned)
  /\ status = "success" => scanned = {}
  /\ \/ scanned = {} /\ scans = {None}
     \/ IsPaged /\ scans = scanned /\ None \notin scanned
  /\ file.kind # "text" => Marks(bounds, parts, gap)
  /\ file.kind = "table" =>
       LET lines == WorkbookLines(file.sheets)
       IN  /\ DOMAIN bounds = DOMAIN lines
           /\ \A i \in DOMAIN lines : /\ parts[i] = lines[i].glyphs
                                      /\ bounds[i].row = lines[i].row
                                      /\ bounds[i].sheet = lines[i].sheet
  /\ IsPaged /\ status # "success_ocr" => KeepsLayer(parts, scans)

Holds(b, p, j) == b[p].from <= j /\ j < b[p].to

(* The origin of a character is the part that its offset is in.            *)
LEMMA OriginAt ==
  ASSUME NEW parts, NEW gap, NEW scanned, NEW b,
         IsRead(parts, gap, scanned), Marks(b, parts, gap)
  PROVE  /\ text \in Seq(Char) /\ DOMAIN b = 1..Len(parts) /\ Len(parts) \in Nat
         /\ DOMAIN origin = DOMAIN text
         /\ \A p \in DOMAIN b : \A k \in 1..Len(parts[p]) : text[b[p].from + k] = parts[p][k]
         /\ \A p \in DOMAIN b : /\ b[p].from \in Nat /\ b[p].to \in Nat /\ b[p].to <= Len(text)
                                /\ b[p].to = b[p].from + Len(parts[p])
         /\ \A j \in 0..(Len(text) - 1) :
              /\ \A p \in DOMAIN b :
                   Holds(b, p, j) => origin[j + 1].part = p /\ origin[j + 1].scan = (p \in scanned)
              /\ \/ \E p \in DOMAIN b : Holds(b, p, j)
                 \/ origin[j + 1].part = 0 /\ ~origin[j + 1].scan
<1> DEFINE E == [part: Nat, scan: BOOLEAN]
           O(i) == [part |-> i, scan |-> i \in scanned]
           none == [part |-> 0, scan |-> FALSE]
           blank == [g \in 1..gap |-> Space]
           unread == [g \in 1..gap |-> none]
           src == [i \in DOMAIN parts |-> [k \in DOMAIN parts[i] |-> O(i)]]
           n == Len(parts)
<1>1. /\ parts \in Seq(Seq(Char)) /\ gap \in Nat /\ n \in Nat /\ DOMAIN parts = 1..n
      /\ \A i \in 1..n : /\ parts[i] \in Seq(Char) /\ Len(parts[i]) \in Nat
                         /\ DOMAIN parts[i] = 1..Len(parts[i])
  <2>1. parts \in Seq(Seq(Char)) /\ gap \in Nat
    BY DEF IsRead
  <2>q. QED BY <2>1
<1>2. none \in E /\ \A i \in Nat : O(i) \in E
  <2>1. 0 \in Nat /\ FALSE \in BOOLEAN /\ \A i : (i \in scanned) \in BOOLEAN
    OBVIOUS
  <2>q. QED BY <2>1, Zenon
<1>f. /\ \A i : O(i).part = i /\ O(i).scan = (i \in scanned)
      /\ none.part = 0 /\ ~none.scan
  <2>1. \A i : O(i).part = i /\ O(i).scan = (i \in scanned)
    BY Zenon
  <2>2. none.part = 0 /\ ~none.scan
    OBVIOUS
  <2>q. QED BY <2>1, <2>2
<1>3. text = JoinWith(blank, parts) /\ origin = JoinWith(unread, src)
  BY DEF IsRead, OriginOf
<1> HIDE DEF E, O, none, n
<1>4. blank \in Seq(Char) /\ Len(blank) = gap /\ unread \in Seq(E) /\ Len(unread) = gap
  <2>1. /\ blank = [g \in 1..gap |-> blank[g]] /\ \A g \in 1..gap : blank[g] \in Char
        /\ unread = [g \in 1..gap |-> unread[g]] /\ \A g \in 1..gap : unread[g] \in E
    BY <1>2 DEF Char
  <2> HIDE DEF blank, unread
  <2>q. QED BY <1>1, <2>1, IsSequence
<1>5. ASSUME NEW i \in 1..n PROVE src[i] \in Seq(E) /\ Len(src[i]) = Len(parts[i])
  <2> DEFINE f == [k \in 1..Len(parts[i]) |-> O(i)]
  <2>1. src[i] = f
    BY <1>1
  <2>2. i \in Nat
    BY <1>1
  <2>3. f = [k \in 1..Len(parts[i]) |-> f[k]] /\ \A k \in 1..Len(parts[i]) : f[k] \in E
    BY <1>2, <2>2
  <2> HIDE DEF f
  <2>4. f \in Seq(E) /\ Len(f) = Len(parts[i])
    BY <1>1, <2>3, IsSequence
  <2>q. QED BY <2>1, <2>4
<1>6. \A i \in 1..n : \A k \in 1..Len(parts[i]) : src[i][k] = O(i)
  BY <1>1
<1>7. src = [i \in 1..n |-> src[i]]
  BY <1>1
<1> HIDE DEF src, blank
<1>8. src \in Seq(Seq(E)) /\ Len(src) = n /\ DOMAIN src = 1..n
  BY <1>1, <1>5, <1>7, IsSequence
<1>9. Marks(b, src, gap)
  BY <1>1, <1>5, <1>8 DEF Marks
<1>10. text \in Seq(Char) /\ Joined(text, blank, parts, b, n)
  BY <1>1, <1>3, <1>4, JoinWithJoins DEF n
<1>11. Joined(origin, unread, src, b, n)
  <2> HIDE DEF unread
  <2>q. QED BY <1>3, <1>4, <1>8, <1>9, JoinWithJoins
<1>12. Len(origin) = Len(text) /\ Len(text) \in Nat
  BY <1>10, <1>11 DEF Joined
<1>18. DOMAIN origin = DOMAIN text
  <2>1. origin \in Seq(E)
    <3> HIDE DEF unread
    <3>q. QED BY <1>3, <1>4, <1>8, <1>9, JoinWithJoins
  <2>2. DOMAIN origin = 1..Len(origin) /\ DOMAIN text = 1..Len(text)
    BY <1>10, <2>1
  <2>q. QED BY <1>12, <2>2
<1>19. \A p \in 1..n : \A k \in 1..Len(parts[p]) : text[b[p].from + k] = parts[p][k]
  BY <1>10 DEF Joined
<1>13. DOMAIN b = 1..n /\ \A p \in 1..n : b[p].to = b[p].from + Len(parts[p])
  BY <1>1 DEF Marks
<1>14. \A p \in 1..n : b[p].from \in Nat /\ b[p].to \in Nat /\ b[p].to <= Len(text)
  BY <1>10 DEF Joined
<1>15. ASSUME NEW j \in 0..(Len(text) - 1), NEW p \in 1..n, Holds(b, p, j)
       PROVE  origin[j + 1] = O(p)
  <2> DEFINE f == b[p].from
             k == j + 1 - f
  <2>1. f \in Nat /\ f <= j /\ j < f + Len(parts[p]) /\ Len(parts[p]) \in Nat
    BY <1>1, <1>13, <1>14, <1>15 DEF Holds
  <2> HIDE DEF f
  <2>2. k \in 1..Len(parts[p]) /\ f + k = j + 1
    BY <2>1, <1>12
  <2>3. origin[f + k] = src[p][k]
    <3>1. \A m \in 1..Len(src[p]) : origin[b[p].from + m] = src[p][m]
      BY <1>11 DEF Joined
    <3>q. QED BY <1>5, <2>2, <3>1 DEF f
  <2>q. QED BY <1>6, <2>2, <2>3
<1>16. ASSUME NEW j \in 0..(Len(text) - 1), ~ \E p \in 1..n : Holds(b, p, j)
       PROVE  origin[j + 1] = none
  <2>1. j + 1 \in 1..Len(origin)
    BY <1>12
  <2>2. \/ \E i \in 1..n : b[i].from < j + 1 /\ j + 1 <= b[i].to
        \/ \E k \in 1..Len(unread) : origin[j + 1] = unread[k]
    BY <1>11, <2>1 DEF Joined
  <2>3. ASSUME NEW i \in 1..n, b[i].from < j + 1, j + 1 <= b[i].to PROVE FALSE
    <3>1. b[i].from <= j /\ j < b[i].to
      BY <1>12, <1>14, <2>3
    <3>q. QED BY <1>16, <3>1 DEF Holds
  <2>4. PICK k \in 1..Len(unread) : origin[j + 1] = unread[k]
    BY <2>2, <2>3
  <2>5. unread[k] = none
    BY <1>4
  <2>q. QED BY <2>4, <2>5
<1>17. ASSUME NEW j \in 0..(Len(text) - 1)
       PROVE  /\ \A p \in DOMAIN b :
                   Holds(b, p, j) => origin[j + 1].part = p /\ origin[j + 1].scan = (p \in scanned)
              /\ \/ \E p \in DOMAIN b : Holds(b, p, j)
                 \/ origin[j + 1].part = 0 /\ ~origin[j + 1].scan
  <2>1. ASSUME NEW p \in DOMAIN b, Holds(b, p, j)
        PROVE  origin[j + 1].part = p /\ origin[j + 1].scan = (p \in scanned)
    <3>1. origin[j + 1] = O(p)
      BY <1>13, <1>15, <2>1
    <3>q. QED BY <1>f, <3>1, Zenon
  <2>2. ASSUME ~ \E p \in DOMAIN b : Holds(b, p, j)
        PROVE  origin[j + 1].part = 0 /\ ~origin[j + 1].scan
    <3>1. origin[j + 1] = none
      BY <1>13, <1>16, <2>2
    <3>q. QED BY <1>f, <3>1, Zenon
  <2>q. QED BY <2>1, <2>2, Zenon
<1>q. QED BY <1>1, <1>10, <1>13, <1>14, <1>17, <1>18, <1>19, Zenon DEF n

(* Of a text of which no page was recognised, no character was.            *)
LEMMA NothingScanned ==
  ASSUME NEW parts, NEW gap, NEW scanned, IsRead(parts, gap, scanned), status = "success",
         NEW i \in DOMAIN origin
  PROVE  ~origin[i].scan
<1> DEFINE b == IF file.kind = "text" THEN Bounds(parts, gap) ELSE bounds
<1>1. Marks(b, parts, gap)
  <2>1. CASE file.kind = "text"
    <3>1. parts \in Seq(Seq(Char)) /\ gap \in Nat
      BY DEF IsRead
    <3>q. QED BY <2>1, <3>1, BoundsMark
  <2>2. CASE file.kind # "text"
    BY <2>2 DEF IsRead
  <2>q. QED BY <2>1, <2>2
<1> HIDE DEF b
<1>2. /\ text \in Seq(Char) /\ DOMAIN origin = DOMAIN text
      /\ \A j \in 0..(Len(text) - 1) :
           /\ \A p \in DOMAIN b :
                Holds(b, p, j) => origin[j + 1].part = p /\ origin[j + 1].scan = (p \in scanned)
           /\ \/ \E p \in DOMAIN b : Holds(b, p, j)
              \/ origin[j + 1].part = 0 /\ ~origin[j + 1].scan
  BY <1>1, OriginAt
<1>3. PICK j \in 0..(Len(text) - 1) : j + 1 = i
  <2>1. Len(text) \in Nat /\ i \in 1..Len(text)
    BY <1>2
  <2>2. i - 1 \in 0..(Len(text) - 1) /\ (i - 1) + 1 = i
    BY <2>1
  <2>q. QED BY <2>2
<1>4. /\ \A p \in DOMAIN b : Holds(b, p, j) => origin[i].scan = (p \in scanned)
      /\ (\E p \in DOMAIN b : Holds(b, p, j)) \/ ~origin[i].scan
  BY <1>2, <1>3, Zenon
<1>5. scanned = {}
  BY DEF IsRead
<1>q. QED BY <1>4, <1>5

(* A citation of a window.                                                 *)
IsCited(w) == w \in WindowRow /\ w.from < w.to /\ w.to <= Len(text)

LEMMA PageIsRight ==
  ASSUME NEW parts, NEW gap, NEW scanned, IsRead(parts, gap, scanned), NEW w, IsCited(w)
  PROVE  LET page  == PageNumber(w.from)
             first == origin[w.from + 1]
         IN  /\ IsPaged => /\ page # None => first.part = page
                           /\ page = None => first.part = 0
             /\ OcrFlag(page) = "yes" <=> first.scan
<1> DEFINE b == IF file.kind = "text" THEN Bounds(parts, gap) ELSE bounds
           page == PageNumber(w.from)
           first == origin[w.from + 1]
<1>1. Marks(b, parts, gap)
  <2>1. CASE file.kind = "text"
    <3>1. parts \in Seq(Seq(Char)) /\ gap \in Nat
      BY DEF IsRead
    <3>q. QED BY <2>1, <3>1, BoundsMark
  <2>2. CASE file.kind # "text"
    BY <2>2 DEF IsRead
  <2>q. QED BY <2>1, <2>2
<1>b. IsPaged => b = bounds
  BY DEF IsPaged
<1> HIDE DEF b
<1>2. /\ text \in Seq(Char) /\ DOMAIN b = 1..Len(parts) /\ Len(parts) \in Nat
      /\ \A j \in 0..(Len(text) - 1) :
           /\ \A p \in DOMAIN b :
                Holds(b, p, j) => origin[j + 1].part = p /\ origin[j + 1].scan = (p \in scanned)
           /\ \/ \E p \in DOMAIN b : Holds(b, p, j)
              \/ origin[j + 1].part = 0 /\ ~origin[j + 1].scan
  BY <1>1, OriginAt
<1>3. w.from \in 0..(Len(text) - 1)
  BY <1>2 DEF IsCited, WindowRow
<1>4. /\ \A p \in DOMAIN b : Holds(b, p, w.from) => first.part = p /\ first.scan = (p \in scanned)
      /\ (\E p \in DOMAIN b : Holds(b, p, w.from)) \/ (first.part = 0 /\ ~first.scan)
  BY <1>2, <1>3, Zenon
<1> DEFINE on == {p \in DOMAIN bounds : bounds[p].from <= w.from /\ w.from < bounds[p].to}
<1>5. page = IF IsPaged /\ on # {} THEN Min(on) ELSE None
  BY DEF PageNumber
<1> HIDE DEF page, first
<1>6. CASE IsPaged /\ on # {}
  <2>1. on \subseteq Nat
    BY <1>2, <1>6, <1>b
  <2>2. page \in on /\ page \in Nat
    <3> HIDE DEF on
    <3>q. QED BY <1>5, <1>6, <2>1, MinIsLeast
  <2>3. page # None
    BY <2>2 DEF None
  <2>4. first.part = page /\ first.scan = (page \in scanned)
    BY <1>4, <1>6, <1>b, <2>2 DEF Holds
  <2>5. (scanned = {} /\ scans = {None}) \/ (scans = scanned /\ None \notin scanned)
    BY DEF IsRead
  <2>6. scans = {None} => scanned = {}
    BY <2>5
  <2>7. scans # {None} => scans = scanned
    BY <2>5
  <2>8. OcrFlag(page) = "yes" <=> page \in scanned
    BY <2>3, <2>6, <2>7 DEF OcrFlag
  <2>q. QED BY <2>3, <2>4, <2>8 DEF page, first
<1>7. CASE ~(IsPaged /\ on # {})
  <2>1. page = None /\ OcrFlag(page) = "none"
    BY <1>5, <1>7 DEF OcrFlag
  <2>2. IsPaged => first.part = 0 /\ ~first.scan
    BY <1>4, <1>7, <1>b DEF Holds
  <2>3. ~IsPaged => scanned = {}
    BY DEF IsRead
  <2>4. ~IsPaged => ~first.scan
    BY <1>4, <2>3
  <2>q. QED BY <2>1, <2>2, <2>4 DEF page, first
<1>q. QED BY <1>6, <1>7

LEMMA RowCited ==
  ASSUME NEW parts, NEW gap, NEW scanned, IsRead(parts, gap, scanned), NEW w, IsCited(w),
         file \in Files, file.kind = "table"
  PROVE  RowIsRight(EvidenceChunk(w))
<1> DEFINE r       == EvidenceChunk(w)
           lines   == WorkbookLines(file.sheets)
           reached == {origin[i + 1].part : i \in r.from..(r.to - 1)} \ {0}
           cited   == {p \in reached : lines[p].row > 0}
<1>1. lines \in Seq(RowLine(file.sheets))
  <2>1. file.sheets \in Seq([title: Seq(Char), rows: Seq(Seq(Char))])
    BY FilesAssumption
  <2>q. QED BY <2>1, WorkbookType
<1>2. r.from = w.from /\ r.to = w.to /\ r.place = RowInfo(w)
  BY DEF EvidenceChunk
<1>3. Marks(bounds, parts, gap)
  BY DEF IsRead
<1>4. /\ text \in Seq(Char) /\ DOMAIN bounds = 1..Len(parts) /\ Len(parts) \in Nat
      /\ \A p \in DOMAIN bounds : /\ bounds[p].from \in Nat /\ bounds[p].to \in Nat
                                  /\ bounds[p].to <= Len(text)
                                  /\ bounds[p].to = bounds[p].from + Len(parts[p])
      /\ \A j \in 0..(Len(text) - 1) :
           /\ \A p \in DOMAIN bounds : Holds(bounds, p, j) => origin[j + 1].part = p
           /\ (\E p \in DOMAIN bounds : Holds(bounds, p, j)) \/ origin[j + 1].part = 0
  BY <1>3, OriginAt
<1>5. /\ DOMAIN bounds = DOMAIN lines /\ DOMAIN lines = 1..Len(lines)
      /\ \A p \in DOMAIN lines : /\ parts[p] = lines[p].glyphs /\ bounds[p].row = lines[p].row
                                 /\ bounds[p].sheet = lines[p].sheet
                                 /\ lines[p] \in RowLine(file.sheets)
                                 /\ parts[p] \in Seq(Char)
  <2>1. lines \in Seq(RowLine(file.sheets)) /\ parts \in Seq(Seq(Char))
    BY <1>1 DEF IsRead
  <2>2. /\ DOMAIN bounds = DOMAIN lines
        /\ \A p \in DOMAIN lines : /\ parts[p] = lines[p].glyphs /\ bounds[p].row = lines[p].row
                                   /\ bounds[p].sheet = lines[p].sheet
    BY DEF IsRead
  <2> HIDE DEF lines
  <2>3. /\ DOMAIN lines = 1..Len(lines) /\ \A p \in 1..Len(lines) : lines[p] \in RowLine(file.sheets)
    BY <2>1
  <2>4. \A p \in 1..Len(parts) : parts[p] \in Seq(Char)
    BY <2>1
  <2>q. QED BY <1>4, <2>2, <2>3, <2>4
<1> HIDE DEF lines, r
<1>6. /\ w.from \in Nat /\ w.to \in Nat /\ w.from < w.to /\ w.to <= Len(text) /\ Len(text) \in Nat
  BY <1>4 DEF IsCited, WindowRow
<1>7. ASSUME NEW p \in cited PROVE p \in RowsIn(w)
  <2>1. PICK i \in w.from..(w.to - 1) : p = origin[i + 1].part
    BY <1>2
  <2>2. i \in 0..(Len(text) - 1) /\ p # 0 /\ lines[p].row > 0
    BY <1>6
  <2>3. \E q \in DOMAIN bounds : Holds(bounds, q, i)
    BY <1>4, <2>1, <2>2
  <2>4. p \in DOMAIN bounds /\ Holds(bounds, p, i)
    BY <1>4, <2>1, <2>2, <2>3
  <2>5. bounds[p].from <= i /\ i < bounds[p].to /\ bounds[p].from \in Nat /\ bounds[p].to \in Nat
    BY <1>4, <2>4 DEF Holds
  <2>6. bounds[p].from < w.to /\ bounds[p].to > w.from
    BY <1>6, <2>5
  <2>7. bounds[p].row > 0
    BY <1>5, <2>2, <2>4
  <2>q. QED BY <2>4, <2>6, <2>7 DEF RowsIn
<1>8. ASSUME NEW p \in RowsIn(w) PROVE p \in cited
  <2>1. p \in DOMAIN bounds /\ bounds[p].row > 0 /\ bounds[p].from < w.to /\ bounds[p].to > w.from
    BY DEF RowsIn
  <2>2. lines[p].row > 0 /\ parts[p] # <<>> /\ parts[p] \in Seq(Char)
    BY <1>5, <2>1 DEF RowLine
  <2> DEFINE f == bounds[p].from
             t == bounds[p].to
             i == IF f <= w.from THEN w.from ELSE f
  <2>3. f \in Nat /\ t \in Nat /\ t <= Len(text) /\ f < t /\ f < w.to /\ t > w.from
    BY <1>4, <2>1, <2>2
  <2> HIDE DEF f, t
  <2>4. i \in w.from..(w.to - 1) /\ i \in 0..(Len(text) - 1) /\ f <= i /\ i < t
    BY <1>6, <2>3
  <2> HIDE DEF i
  <2>5. Holds(bounds, p, i)
    BY <2>4 DEF Holds, f, t
  <2>6. origin[i + 1].part = p
    BY <1>4, <2>1, <2>4, <2>5
  <2>7. p # 0
    BY <1>4, <2>1
  <2>q. QED BY <1>2, <2>2, <2>4, <2>6, <2>7
<1>9. cited = RowsIn(w)
  BY <1>7, <1>8
<1>10. cited \subseteq DOMAIN lines
  BY <1>5, <1>9 DEF RowsIn
<1> HIDE DEF cited
<1>11. CASE cited = {}
  <2>1. r.place.row = None
    BY <1>2, <1>9, <1>11 DEF RowInfo
  <2>q. QED BY <1>11, <2>1 DEF RowIsRight, cited, lines, r
<1>12. CASE cited # {}
  <2> DEFINE p == Min(cited)
  <2>1. p \in cited
    BY <1>5, <1>10, <1>12, MinIsLeast
  <2>2. r.place = [row |-> bounds[p].row, sheet |-> bounds[p].sheet]
    BY <1>2, <1>9, <1>12 DEF RowInfo
  <2>3. p \in DOMAIN lines /\ lines[p].row > 0
    BY <1>10, <2>1 DEF cited
  <2> HIDE DEF p
  <2>4. r.place.row = lines[p].row /\ r.place.sheet = lines[p].sheet /\ lines[p] \in RowLine(file.sheets)
    BY <1>5, <2>2, <2>3
  <2>5. \E s \in DOMAIN file.sheets :
             /\ file.sheets[s].title = r.place.sheet
             /\ r.place.row - 1 \in DOMAIN file.sheets[s].rows
             /\ file.sheets[s].rows[r.place.row - 1] = lines[p].glyphs
    BY <2>3, <2>4 DEF RowLine
  <2>q. QED BY <1>12, <2>5 DEF RowIsRight, cited, lines, r, p
<1>q. QED BY <1>11, <1>12

LEMMA PageSurvives ==
  ASSUME NEW parts, NEW gap, NEW scanned, IsRead(parts, gap, scanned),
         IsPdf, IsPaged, status # "success_ocr", NEW p \in DOMAIN file.layer
  PROVE  /\ file.layer[p] # <<>> => Characters(p) > 0
         /\ Characters(p) >= Len(LayerTexts[p])
         /\ p \notin scans => \A i \in OwnLines(p) : StandsIn(p, file.layer[p][i])
<1>1. Marks(bounds, parts, gap) /\ KeepsLayer(parts, scans) /\ file.layer \in Seq(Seq(Line))
  BY DEF IsRead, IsPaged, IsPdf
<1>2. /\ text \in Seq(Char) /\ DOMAIN bounds = 1..Len(parts) /\ Len(parts) \in Nat
      /\ DOMAIN origin = DOMAIN text
      /\ \A q \in DOMAIN bounds : \A k \in 1..Len(parts[q]) : text[bounds[q].from + k] = parts[q][k]
      /\ \A q \in DOMAIN bounds : /\ bounds[q].from \in Nat /\ bounds[q].to \in Nat
                                  /\ bounds[q].to <= Len(text)
                                  /\ bounds[q].to = bounds[q].from + Len(parts[q])
  BY <1>1, OriginAt
<1>3. \A j \in 0..(Len(text) - 1) :
        /\ \A q \in DOMAIN bounds : Holds(bounds, q, j) => origin[j + 1].part = q
        /\ (\E q \in DOMAIN bounds : Holds(bounds, q, j)) \/ origin[j + 1].part = 0
  BY <1>1, OriginAt
<1>4. p \in DOMAIN parts /\ p \in DOMAIN bounds /\ p \in 1..Len(parts) /\ p # 0
  BY <1>1, <1>2 DEF KeepsLayer, Marks
<1> DEFINE f == bounds[p].from
           l == Len(parts[p])
<1>5. /\ f \in Nat /\ bounds[p].to = f + l /\ f + l <= Len(text) /\ Len(text) \in Nat /\ l \in Nat
      /\ \A k \in 1..l : text[f + k] = parts[p][k]
      /\ DOMAIN text = 1..Len(text) /\ DOMAIN origin = 1..Len(text)
  <2>1. l \in Nat
    BY <1>4 DEF IsRead
  <2>q. QED BY <1>2, <1>4, <2>1
<1>6. ASSUME NEW k \in 1..l PROVE f + k \in DOMAIN text /\ origin[f + k].part = p
  <2> HIDE DEF l
  <2>1. f + k - 1 \in 0..(Len(text) - 1) /\ (f + k - 1) + 1 = f + k /\ f <= f + k - 1
        /\ f + k - 1 < bounds[p].to /\ f + k \in 1..Len(text)
    BY <1>5
  <2>2. Holds(bounds, p, f + k - 1)
    BY <2>1 DEF Holds
  <2>q. QED BY <1>3, <1>4, <1>5, <2>1, <2>2
<1>7. Characters(p) = l
  <2> DEFINE C == {i \in DOMAIN origin : origin[i].part = p}
  <2>1. ASSUME NEW i \in C PROVE i \in (f + 1)..(f + l)
    <3>1. i - 1 \in 0..(Len(text) - 1) /\ (i - 1) + 1 = i /\ origin[i].part = p
      BY <1>5
    <3>2. Holds(bounds, p, i - 1)
      BY <1>3, <1>4, <3>1
    <3>3. f <= i - 1 /\ i - 1 < f + l
      BY <1>5, <3>2 DEF Holds
    <3> HIDE DEF f, l
    <3>q. QED BY <1>5, <3>1, <3>3
  <2>2. ASSUME NEW i \in (f + 1)..(f + l) PROVE i \in C
    <3> HIDE DEF f, l
    <3>1. i - f \in 1..l /\ f + (i - f) = i
      BY <1>5
    <3>q. QED BY <1>5, <1>6, <3>1
  <2>3. C = (f + 1)..(f + l)
    BY <2>1, <2>2
  <2> HIDE DEF f, l
  <2>4. Cardinality((f + 1)..(f + l)) = l
    <3>1. f + 1 \in Int /\ f + l \in Int
      BY <1>5
    <3>2. Cardinality((f + 1)..(f + l)) = IF f + 1 > f + l THEN 0 ELSE (f + l) - (f + 1) + 1
      BY <3>1, FS_Interval
    <3>q. QED BY <1>5, <3>2
  <2>q. QED BY <2>3, <2>4 DEF Characters
<1>8. Len(LayerTexts[p]) <= l /\ (p \notin scans => parts[p] = LayerTexts[p])
  BY <1>1, <1>4 DEF KeepsLayer
<1>9. /\ file.layer[p] # <<>> => Len(LayerTexts[p]) > 0
      /\ \A i \in OwnLines(p) : Stands(LayerTexts[p], file.layer[p][i])
  BY <1>1, CleaningKeeps DEF LayerTexts, OwnLines
<1>10. Len(LayerTexts[p]) \in Nat
  BY PdfTexts DEF IsPdf
<1>11. ASSUME p \notin scans, NEW i \in OwnLines(p) PROVE StandsIn(p, file.layer[p][i])
  <2>1. PICK k \in 0..l : \A m \in DOMAIN Glyphs[file.layer[p][i]] :
                            k + m \in 1..l /\ parts[p][k + m] = Glyphs[file.layer[p][i]][m]
    <3>1. Stands(parts[p], file.layer[p][i])
      BY <1>8, <1>9, <1>11
    <3>q. QED BY <3>1 DEF Stands
  <2> HIDE DEF f, l
  <2>4. \A m \in DOMAIN Glyphs[file.layer[p][i]] : m \in Int
    <3>1. i \in DOMAIN file.layer[p] /\ file.layer[p] \in Seq(Line)
      BY <1>1 DEF OwnLines
    <3>2. Glyphs[file.layer[p][i]] \in Seq(Char)
      BY <3>1, FilesAssumption
    <3>q. QED BY <3>2
  <2>2. f + k \in 0..Len(text)
    BY <1>5
  <2>3. ASSUME NEW m \in DOMAIN Glyphs[file.layer[p][i]]
        PROVE  /\ f + k + m \in DOMAIN text
               /\ text[f + k + m] = Glyphs[file.layer[p][i]][m]
               /\ origin[f + k + m].part = p
    <3>1. k + m \in 1..l /\ parts[p][k + m] = Glyphs[file.layer[p][i]][m]
      BY <2>1
    <3> DEFINE n == k + m
    <3>2. f + n \in DOMAIN text /\ text[f + n] = parts[p][n] /\ origin[f + n].part = p
      <4> HIDE DEF n
      <4>1. n \in 1..l
        BY <3>1 DEF n
      <4>q. QED BY <1>5, <1>6, <4>1
    <3>3. f + n = f + k + m
      <4>1. f \in Int /\ k \in Int /\ m \in Int
        BY <1>5, <2>4
      <4>q. QED BY <4>1
    <3>q. QED BY <3>1, <3>2, <3>3
  <2>q. QED BY <2>2, <2>3 DEF StandsIn
<1>12. /\ file.layer[p] # <<>> => Characters(p) > 0
       /\ Characters(p) >= Len(LayerTexts[p])
  <2> HIDE DEF l
  <2>q. QED BY <1>5, <1>7, <1>8, <1>9, <1>10
<1>q. QED BY <1>11, <1>12

-----------------------------------------------------------------------------
(* The whole of Passages.                                                  *)

(* What is parsed is a text.                                               *)
IsText == text \in Seq(Char)

LEMMA UncutIsKept == IsText /\ Uncut => CutInv
<1> SUFFICES ASSUME IsText, Uncut PROVE CutInv
  OBVIOUS
<1>1. lo = 0 /\ start = 0 /\ windows = <<>> /\ text \in Seq(Char) /\ Len(text) \in Nat
  BY DEF Uncut, IsText
<1>2. windows \in Seq(WindowRow) /\ DOMAIN windows = {} /\ 0..(lo - 1) = {}
  BY <1>1
<1>q. QED BY <1>1, <1>2 DEF CutInv, Overlapped, NoTextLost, WindowsInSection

(* Nothing is cut or stored before a file is read, nothing is stored of a  *)
(* refused one, and a chunk that is stored is a window of its text.        *)
PassagesInv ==
  /\ file \in Files
  /\ CutInv
  /\ status = "received" => Uncut /\ rows = <<>>
  /\ status \in Accepted => \E parts, gap, scanned : IsRead(parts, gap, scanned)
  /\ rows # <<>> => status \in Accepted
  /\ \A k \in Stored : \E w : IsCited(w) /\ rows[k] = EvidenceChunk(w)
  /\ None \notin Stored

LEMMA RefusalKeeps ==
  ASSUME PassagesInv, NEW s \in Refused, status = "received", Refuse(s)
  PROVE  PassagesInv'
<1>1. status' \notin Accepted /\ status' # "received"
  BY DEF Refuse, Refused, Accepted
<1>2. rows' = <<>> /\ Stored' = {}
  BY DEF PassagesInv, Refuse, Stored
<1>3. CutInv'
  BY DEF PassagesInv, Refuse, chunking, CutInv, Overlapped, NoTextLost, WindowsInSection, Section,
    SectionEnd, Kept, IsSpace
<1>4. file' \in Files
  BY DEF PassagesInv, Refuse, parsed
<1>q. QED BY <1>1, <1>2, <1>3, <1>4 DEF PassagesInv

LEMMA AcceptKeeps ==
  ASSUME PassagesInv, status = "received", NEW s \in Accepted,
         NEW parts \in Seq(Seq(Char)), NEW gap \in Nat, NEW scanned, NEW marks, NEW read,
         \/ scanned = {} /\ read = {None}
         \/ IsPaged /\ read = scanned /\ None \notin scanned,
         s = "success" => scanned = {},
         file.kind # "text" => Marks(marks, parts, gap),
         file.kind = "table" =>
           LET lines == WorkbookLines(file.sheets)
           IN  /\ DOMAIN marks = DOMAIN lines
               /\ \A i \in DOMAIN lines : /\ parts[i] = lines[i].glyphs
                                          /\ marks[i].row = lines[i].row
                                          /\ marks[i].sheet = lines[i].sheet,
         IsPaged /\ s # "success_ocr" => KeepsLayer(parts, read),
         Accept(s, parts, gap, scanned, marks, read)
  PROVE  PassagesInv'
<1>1. CASE Refuse("failed")
  BY <1>1, RefusalKeeps DEF Refused
<1>2. CASE /\ status' = s
           /\ text' = JoinWith([g \in 1..gap |-> Space], parts)
           /\ origin' = OriginOf(parts, gap, scanned)
           /\ bounds' = marks /\ scans' = read
           /\ UNCHANGED <<file, lo, start, windows, rows>>
  <2>1. IsRead(parts, gap, scanned)'
    BY <1>2 DEF IsRead, IsPaged, OriginOf, KeepsLayer, LayerTexts
  <2>2. (\E p, g, x : IsRead(p, g, x))'
    BY <2>1
  <2>3. IsText'
    <3> DEFINE blank == [g \in 1..gap |-> Space]
    <3>1. blank = [g \in 1..gap |-> blank[g]] /\ \A g \in 1..gap : blank[g] \in Char
      BY DEF Char
    <3> HIDE DEF blank
    <3>2. blank \in Seq(Char)
      BY <3>1, IsSequence
    <3>3. JoinWith(blank, parts) \in Seq(Char)
      BY <3>2, JoinType
    <3>q. QED BY <1>2, <3>3 DEF IsText, blank
  <2>4. Uncut'
    BY <1>2 DEF PassagesInv, Uncut
  <2>5. (IsText /\ Uncut)' => CutInv'
    BY UncutIsKept, PTL
  <2>6. rows' = <<>> /\ Stored' = {} /\ file' \in Files /\ status' # "received"
    BY <1>2 DEF PassagesInv, Stored, Accepted
  <2>q. QED BY <2>2, <2>3, <2>4, <2>5, <2>6 DEF PassagesInv
<1>q. QED BY <1>1, <1>2 DEF Accept

LEMMA PdfKeeps ==
  ASSUME PassagesInv, ParsePdf
  PROVE  PassagesInv'
<1>1. status = "received" /\ IsPdf /\ IsPaged
  BY FilesAssumption DEF PassagesInv, ParsePdf, RefuseNoPages, ReadLayer, SplicePages, RecogniseAll,
    RefuseScan, Received, IsPdf, IsPaged
<1>2. file.kind # "text" /\ file.kind # "table"
  BY <1>1 DEF IsPdf
<1>3. CASE RefuseNoPages \/ RefuseScan
  BY <1>1, <1>3, RefusalKeeps DEF RefuseNoPages, RefuseScan, Refused
<1>4. CASE ReadLayer
  <2>1. PICK parts : parts = LayerTexts
    OBVIOUS
  <2>2. parts \in Seq(Seq(Char))
    BY <1>1, <2>1, PdfTexts
  <2>3. Accept("success", parts, 2, {}, PageBounds(parts), {None})
    BY <1>4, <2>1 DEF ReadLayer
  <2>4. PICK marks : marks = PageBounds(parts)
    OBVIOUS
  <2>5. Marks(marks, parts, 2)
    BY <2>2, <2>4, PageBoundsMark
  <2>6. Accept("success", parts, 2, {}, marks, {None})
    BY <2>3, <2>4
  <2>7. KeepsLayer(parts, {None})
    <3>1. DOMAIN LayerTexts = DOMAIN file.layer /\ \A p \in DOMAIN LayerTexts : Len(LayerTexts[p]) \in Nat
      BY <1>1, PdfTexts DEF IsPdf
    <3>q. QED BY <2>1, <3>1 DEF KeepsLayer
  <2>q. QED BY <1>1, <1>2, <2>2, <2>5, <2>6, <2>7, AcceptKeeps DEF Accepted
<1>5. CASE SplicePages
  <2> DEFINE texts == [p \in DOMAIN file.layer |-> IF p \in Splice THEN GapRead[p] ELSE LayerTexts[p]]
  <2>1. texts \in Seq(Seq(Char))
    <3> DEFINE n == Len(file.layer)
    <3>1. n \in Nat /\ DOMAIN file.layer = 1..n
      BY <1>1 DEF IsPdf
    <3>2. \A p \in 1..n : GapRead[p] \in Seq(Char) /\ LayerTexts[p] \in Seq(Char)
      BY <1>1, PdfTexts
    <3>3. texts = [p \in 1..n |-> texts[p]] /\ \A p \in 1..n : texts[p] \in Seq(Char)
      BY <3>1, <3>2
    <3> HIDE DEF texts, n
    <3>q. QED BY <3>1, <3>3, IsSequence
  <2>2. Accept("success_partial_ocr", texts, 2, Splice, PageBounds(texts), Splice)
    BY <1>5 DEF SplicePages
  <2>8. KeepsLayer(texts, Splice)
    <3>1. DOMAIN texts = DOMAIN file.layer /\ DOMAIN file.layer = DOMAIN LayerTexts
      BY <1>1, PdfTexts DEF IsPdf
    <3>2. \A p \in DOMAIN texts : Len(LayerTexts[p]) \in Nat /\ Len(GapRead[p]) \in Nat
      BY <1>1, <3>1, PdfTexts DEF IsPdf
    <3>3. \A p \in Splice : Len(GapRead[p]) > Len(LayerTexts[p])
      BY DEF Splice, Recovered
    <3>4. ASSUME NEW p \in DOMAIN texts
          PROVE  Len(LayerTexts[p]) <= Len(texts[p]) /\ (p \notin Splice => texts[p] = LayerTexts[p])
      <4>1. CASE p \in Splice
        BY <3>1, <3>2, <3>3, <4>1
      <4>2. CASE p \notin Splice
        BY <3>1, <3>2, <4>2
      <4>q. QED BY <4>1, <4>2
    <3>q. QED BY <3>1, <3>4 DEF KeepsLayer
  <2> HIDE DEF texts
  <2>3. PICK parts : parts = texts
    OBVIOUS
  <2>4. PICK scanned : scanned = Splice
    OBVIOUS
  <2>5. PICK marks : marks = PageBounds(parts)
    OBVIOUS
  <2>6. parts \in Seq(Seq(Char)) /\ Marks(marks, parts, 2) /\ None \notin scanned
    BY <1>1, <2>1, <2>3, <2>4, <2>5, PageBoundsMark, PdfTexts
  <2>7. Accept("success_partial_ocr", parts, 2, scanned, marks, scanned)
    BY <2>2, <2>3, <2>4, <2>5
  <2>9. KeepsLayer(parts, scanned)
    BY <2>3, <2>4, <2>8
  <2>q. QED BY <1>1, <1>2, <2>6, <2>7, <2>9, AcceptKeeps DEF Accepted
<1>6. CASE RecogniseAll
  <2>1. PICK parts : parts = AllRead
    OBVIOUS
  <2>2. PICK scanned : scanned = DOMAIN file.image
    OBVIOUS
  <2>3. PICK marks : marks = PageBounds(parts)
    OBVIOUS
  <2>4. parts \in Seq(Seq(Char)) /\ Marks(marks, parts, 2) /\ None \notin scanned
    BY <1>1, <2>1, <2>2, <2>3, PageBoundsMark, PdfTexts
  <2>5. Accept("success_ocr", parts, 2, scanned, marks, scanned)
    BY <1>6, <2>1, <2>2, <2>3 DEF RecogniseAll
  <2>q. QED BY <1>1, <1>2, <2>4, <2>5, AcceptKeeps DEF Accepted
<1>q. QED BY <1>3, <1>4, <1>5, <1>6 DEF ParsePdf

LEMMA RowsKeep ==
  ASSUME PassagesInv, ReadRows
  PROVE  PassagesInv'
<1>1. status = "received" /\ IsTable /\ file.kind # "text" /\ ~IsPaged
  BY FilesAssumption DEF PassagesInv, ReadRows, Received, IsTable, IsPaged
<1> DEFINE E == RowLine(file.sheets)
<1>2. PICK lines : lines = WorkbookLines(file.sheets)
  OBVIOUS
<1>3. PICK parts : parts = [i \in DOMAIN lines |-> lines[i].glyphs]
  OBVIOUS
<1>4. PICK marks : marks = RowBounds(lines, parts)
  OBVIOUS
<1>5. lines \in Seq(E)
  BY <1>1, <1>2, WorkbookType DEF IsTable
<1>6. parts \in Seq(Seq(Char)) /\ DOMAIN parts = DOMAIN lines
  <2> DEFINE n == Len(lines)
  <2> HIDE DEF E
  <2>1. n \in Nat /\ DOMAIN lines = 1..n /\ \A i \in 1..n : lines[i] \in E
    BY <1>5
  <2>2. parts = [i \in 1..n |-> parts[i]] /\ \A i \in 1..n : parts[i] \in Seq(Char)
    BY <1>3, <2>1 DEF E, RowLine
  <2> HIDE DEF n
  <2>q. QED BY <2>1, <2>2, IsSequence
<1>7. /\ DOMAIN marks = DOMAIN lines
      /\ \A i \in DOMAIN lines : /\ parts[i] = lines[i].glyphs /\ marks[i].row = lines[i].row
                                 /\ marks[i].sheet = lines[i].sheet
                                 /\ marks[i].from = Bounds(parts, 1)[i].from
                                 /\ marks[i].to = Bounds(parts, 1)[i].to
  BY <1>3, <1>4 DEF RowBounds
<1>8. Marks(marks, parts, 1)
  <2>1. Marks(Bounds(parts, 1), parts, 1)
    BY <1>6, BoundsMark
  <2>2. \A i \in DOMAIN parts : i # 1 => i - 1 \in DOMAIN parts
    BY <1>6
  <2>q. QED BY <1>6, <1>7, <2>1, <2>2 DEF Marks
<1>9. Accept("success", parts, 1, {}, marks, {None})
  BY <1>2, <1>3, <1>4 DEF ReadRows
<1>q. QED BY <1>1, <1>2, <1>6, <1>7, <1>8, <1>9, AcceptKeeps DEF Accepted

LEMMA TextKeeps ==
  ASSUME PassagesInv, ReadText
  PROVE  PassagesInv'
<1>1. /\ status = "received" /\ file.kind = "text" /\ file.text \in Seq(Char)
      /\ file.kind # "table" /\ ~IsPaged
  BY FilesAssumption DEF PassagesInv, ReadText, Received, IsPaged
<1>2. PICK parts : parts = <<file.text>>
  OBVIOUS
<1>3. parts \in Seq(Seq(Char))
  BY <1>1, <1>2
<1>4. Accept("success", parts, 0, {}, <<>>, {None})
  BY <1>2 DEF ReadText
<1>q. QED BY <1>1, <1>3, <1>4, AcceptKeeps DEF Accepted

LEMMA StepKeeps == PassagesInv /\ [Next]_vars => PassagesInv'
<1> SUFFICES ASSUME PassagesInv, [Next]_vars PROVE PassagesInv'
  OBVIOUS
<1>1. CASE RefuseUnreadable \/ RefuseNoRows \/ RefuseBlank
  BY <1>1, RefusalKeeps DEF RefuseUnreadable, RefuseNoRows, RefuseBlank, Received, Refused
<1>2. CASE Parse
  BY <1>1, <1>2, PdfKeeps, RowsKeep, TextKeeps DEF Parse
<1>3. ASSUME UNCHANGED <<parsed, text, status>>
      PROVE  /\ \A parts, gap, scanned : IsRead(parts, gap, scanned) => IsRead(parts, gap, scanned)'
             /\ \A w : IsCited(w)' = IsCited(w) /\ EvidenceChunk(w)' = EvidenceChunk(w)
             /\ file' = file
  <2>1. /\ file' = file /\ bounds' = bounds /\ scans' = scans /\ origin' = origin /\ text' = text
        /\ status' = status
    BY <1>3 DEF parsed
  <2>2. \A parts, gap, scanned : IsRead(parts, gap, scanned) => IsRead(parts, gap, scanned)'
    BY <2>1 DEF IsRead, IsPaged, OriginOf, KeepsLayer, LayerTexts
  <2>3. \A w : IsCited(w)' = IsCited(w)
    BY <2>1 DEF IsCited
  <2>4. \A w : EvidenceChunk(w)' = EvidenceChunk(w)
    BY <2>1 DEF EvidenceChunk, PageNumber, RowInfo, RowsIn, OcrFlag, IsPaged
  <2>q. QED BY <2>1, <2>2, <2>3, <2>4
<1>4. CASE CutText
  <2>1. Cut /\ status' = status /\ status \in Accepted /\ status # "received" /\ rows' = rows
        /\ UNCHANGED parsed
    BY <1>4 DEF CutText, Accepted
  <2>2. CutInv' /\ text' = text
    BY <2>1, SkipKeeps, CutKeeps DEF Cut, PassagesInv, SkipBlank, CutWindow
  <2>3. Stored' = Stored
    BY <2>1 DEF Stored
  <2>q. QED BY <1>3, <2>1, <2>2, <2>3 DEF PassagesInv
<1>5. CASE StoreChunks
  <2>1. /\ status \in Accepted /\ UNCHANGED <<parsed, text, lo, start, windows>>
        /\ \/ status' = "empty" /\ rows' = rows /\ rows = <<>>
           \/ rows' = [k \in Chunks |-> EvidenceChunk(windows[k])] /\ status' = status
    BY <1>5 DEF StoreChunks, chunking
  <2>2. CutInv'
    BY <2>1 DEF PassagesInv, CutInv, Overlapped, NoTextLost, WindowsInSection, Section, SectionEnd,
      Kept, IsSpace
  <2>3. CASE status' = "empty" /\ rows' = rows /\ rows = <<>>
    <3>1. status' # "received" /\ status' \notin Accepted /\ Stored' = {}
      BY <2>3 DEF Accepted, Stored
    <3>2. file' \in Files
      BY <2>1 DEF PassagesInv, parsed
    <3>q. QED BY <2>2, <2>3, <3>1, <3>2 DEF PassagesInv
  <2>4. CASE rows' = [k \in Chunks |-> EvidenceChunk(windows[k])] /\ status' = status
    <3>1. ASSUME NEW k \in Stored' PROVE \E w : IsCited(w) /\ rows'[k] = EvidenceChunk(w)
      <4>1. k \in DOMAIN windows /\ rows'[k] = EvidenceChunk(windows[k])
        BY <2>4 DEF Stored, Chunks
      <4>2. windows[k] \in WindowRow
        BY <4>1 DEF PassagesInv, CutInv
      <4>3. IsCited(windows[k])
        BY <4>1, <4>2 DEF PassagesInv, CutInv, WindowsInSection, IsCited
      <4>q. QED BY <4>1, <4>3
    <3>2. status # "received"
      BY <2>1 DEF Accepted
    <3>3. None \notin DOMAIN windows
      BY DEF PassagesInv, CutInv, None
    <3>4. None \notin Stored'
      BY <2>4, <3>3 DEF Stored, Chunks
    <3>q. QED BY <1>3, <2>1, <2>2, <2>4, <3>1, <3>2, <3>4 DEF PassagesInv
  <2>q. QED BY <2>1, <2>3, <2>4
<1>6. CASE UNCHANGED vars
  <2>1. UNCHANGED <<parsed, text, lo, start, windows, status, rows>>
    BY <1>6 DEF vars, chunking
  <2>2. CutInv'
    BY <2>1 DEF PassagesInv, CutInv, Overlapped, NoTextLost, WindowsInSection, Section, SectionEnd,
      Kept, IsSpace
  <2>q. QED BY <1>3, <2>1, <2>2 DEF PassagesInv, Uncut, Stored
<1>q. QED BY <1>2, <1>4, <1>5, <1>6 DEF Next

LEMMA PassagesCorrect == Spec => []PassagesInv
<1>1. Init => PassagesInv
  BY UncutIsKept DEF Init, PassagesInv, IsText, Accepted, Stored
<1>q. QED BY <1>1, StepKeeps, PTL DEF Spec

(* ADR-0054: whatever text the parsers make of a file, and whatever the    *)
(* settings the assumptions admit, chunk_document leaves no visible        *)
(* character out: what snap_start and snap_end take from a window is       *)
(* space, or is in the window before or after it.                          *)
THEOREM NoTextLostTheorem == Spec => []NoTextLost
<1>1. PassagesInv => NoTextLost
  BY DEF PassagesInv, CutInv
<1>q. QED BY <1>1, PassagesCorrect, PTL

(* Every window of chunk_document is a passage of one section, and the     *)
(* heading it is stored with is that of the section.                       *)
THEOREM WindowsInSectionTheorem == Spec => []WindowsInSection
<1>1. PassagesInv => WindowsInSection
  BY DEF PassagesInv, CutInv
<1>q. QED BY <1>1, PassagesCorrect, PTL

(* ADR-0042, ADR-0052, ADR-0074: whatever the file holds and however it    *)
(* was recognised, the page, row and provenance that chunk_document stores *)
(* with a chunk are those of the characters it was cut from.               *)
THEOREM CitationIsRightTheorem == Spec => []CitationIsRight
<1>1. ASSUME PassagesInv PROVE CitationIsRight
  <2>1. WindowsInSection
    BY <1>1 DEF PassagesInv, CutInv
  <2>2. ASSUME NEW k \in Stored
        PROVE  LET r     == rows[k]
                   first == origin[r.from + 1]
                   label == LabelOf(k)
               IN  /\ IsPaged => /\ r.page # None => first.part = r.page
                                 /\ r.page = None => first.part = 0
                   /\ file.kind = "table" => RowIsRight(r)
                   /\ label = "exact" => ~first.scan
                   /\ label = "ocr" => first.scan
    <3>1. PICK w : IsCited(w) /\ rows[k] = EvidenceChunk(w)
      BY <1>1 DEF PassagesInv
    <3>2. rows # <<>>
      BY DEF Stored
    <3>3. PICK parts, gap, scanned : IsRead(parts, gap, scanned)
      BY <1>1, <3>2 DEF PassagesInv
    <3> DEFINE page  == PageNumber(w.from)
               first == origin[w.from + 1]
    <3>4. /\ IsPaged => /\ page # None => first.part = page
                        /\ page = None => first.part = 0
          /\ OcrFlag(page) = "yes" <=> first.scan
      BY <3>1, <3>3, PageIsRight
    <3>5. file.kind = "table" => RowIsRight(EvidenceChunk(w))
      BY <1>1, <3>1, <3>3, RowCited DEF PassagesInv
    <3>6. /\ rows[k].from = w.from /\ rows[k].page = page /\ rows[k].ocr = OcrFlag(page)
      BY <3>1 DEF EvidenceChunk
    <3>7. /\ Provenance(OcrFlag(page), status) = "exact" => OcrFlag(page) # "yes"
          /\ Provenance(OcrFlag(page), status) = "ocr" => OcrFlag(page) = "yes"
      BY DEF Provenance
    <3>8. LabelOf(k) = Provenance(OcrFlag(page), status)
      BY <3>6 DEF LabelOf, Stored
    <3>q. QED BY <3>1, <3>4, <3>5, <3>6, <3>7, <3>8
  <2>3. ASSUME LabelOf(None) = "exact", NEW i \in DOMAIN origin
        PROVE  ~origin[i].scan
    <3>1. None \notin DOMAIN rows
      BY <1>1 DEF PassagesInv, Stored
    <3>2. status = "success"
      BY <2>3, <3>1 DEF LabelOf, Provenance
    <3>3. PICK parts, gap, scanned : IsRead(parts, gap, scanned)
      BY <1>1, <3>2 DEF PassagesInv, Accepted
    <3>q. QED BY <3>2, <3>3, NothingScanned
  <2>q. QED BY <2>1, <2>2, <2>3 DEF CitationIsRight
<1>q. QED BY <1>1, PassagesCorrect, PTL

(* ADR-0055: neither the cleaning of running lines nor selective           *)
(* recognition loses a page, and a line that no other page has is kept     *)
(* with all its characters.                                                *)
THEOREM PagesSurviveTheorem == Spec => []PagesSurvive
<1>1. ASSUME PassagesInv PROVE PagesSurvive
  <2> SUFFICES ASSUME IsPaged, rows # <<>>, status # "success_ocr", NEW p \in DOMAIN file.layer
               PROVE  /\ file.layer[p] # <<>> => Characters(p) > 0
                      /\ Characters(p) >= Len(LayerTexts[p])
                      /\ p \notin scans => \A i \in OwnLines(p) : StandsIn(p, file.layer[p][i])
    BY DEF PagesSurvive
  <2>1. IsPdf
    BY <1>1, FilesAssumption DEF PassagesInv, IsPaged, IsPdf
  <2>2. PICK parts, gap, scanned : IsRead(parts, gap, scanned)
    BY <1>1 DEF PassagesInv
  <2>q. QED BY <2>1, <2>2, PageSurvives
<1>q. QED BY <1>1, PassagesCorrect, PTL

-----------------------------------------------------------------------------
(* The equivalents of a practice.                                          *)

(* The entries of a list, in its order, that are among some: each once.    *)
Chosen(o, some, n) == [i \in 1..n |-> IF o[i] \in some THEN <<o[i]>> ELSE <<>>]

SomeOf(o, some, n) == FlattenSeq(Chosen(o, some, n))

LEMMA SomeOfList ==
  ASSUME NEW n \in Nat \ {0}, NEW some, NEW o,
         \A i, j \in 1..n : o[i] \in some /\ o[i] = o[j] => i = j
  PROVE  /\ SomeOf(o, some, n) \in Seq(some)
         /\ IsInjective(SomeOf(o, some, n))
         /\ ToSet(SomeOf(o, some, n)) = {o[i] : i \in 1..n} \cap some
<1> DEFINE seqs == Chosen(o, some, n)
           Lists(s, k) == /\ s \in Seq(some) /\ IsInjective(s)
                          /\ ToSet(s) = {o[i] : i \in 1..k} \cap some
<1>1. /\ Len(seqs) = n /\ DOMAIN seqs = 1..n
      /\ \A i \in 1..n : seqs[i] = IF o[i] \in some THEN <<o[i]>> ELSE <<>>
  BY DEF Chosen
<1> HIDE DEF seqs
<1>2. PICK f : /\ FlattenSeq(seqs) = f[n] /\ f[1] = seqs[1]
               /\ \A i \in 2..n : f[i] = f[i - 1] \o seqs[i]
  BY <1>1, FlattenIsFlat
<1>3. Lists(seqs[1], 1)
  <2>1. seqs[1] = (IF o[1] \in some THEN <<o[1]>> ELSE <<>>) /\ {o[i] : i \in 1..1} = {o[1]}
    BY <1>1
  <2>2. CASE o[1] \in some
    <3>1. seqs[1] = <<o[1]>> /\ ToSet(<<o[1]>>) = {o[1]}
      BY <2>1, <2>2 DEF ToSet
    <3>q. QED BY <2>1, <2>2, <3>1 DEF IsInjective
  <2>3. CASE o[1] \notin some
    <3>1. seqs[1] = <<>> /\ ToSet(<<>>) = {}
      BY <2>1, <2>3 DEF ToSet
    <3>q. QED BY <2>1, <2>3, <3>1 DEF IsInjective
  <2>q. QED BY <2>2, <2>3
<1>4. ASSUME NEW i \in 2..n, Lists(f[i - 1], i - 1)
      PROVE  Lists(f[i], i)
  <2> DEFINE s == f[i - 1]
  <2>1. f[i] = s \o seqs[i] /\ seqs[i] = (IF o[i] \in some THEN <<o[i]>> ELSE <<>>)
    <3>1. f[i] = s \o seqs[i]
      BY <1>2
    <3>2. i \in 1..n
      OBVIOUS
    <3>q. QED BY <1>1, <3>1, <3>2, Zenon
  <2>2. {o[j] : j \in 1..i} = {o[j] : j \in 1..(i - 1)} \cup {o[i]}
    <3>1. 1..i = 1..(i - 1) \cup {i}
      OBVIOUS
    <3>q. QED BY <3>1
  <2>3. s \in Seq(some) /\ IsInjective(s) /\ ToSet(s) = {o[j] : j \in 1..(i - 1)} \cap some
    BY <1>4
  <2> HIDE DEF s
  <2>4. CASE o[i] \notin some
    <3>1. s \o <<>> = s
      BY <2>3
    <3>q. QED BY <2>1, <2>2, <2>3, <2>4, <3>1
  <2>5. CASE o[i] \in some
    <3> DEFINE x == o[i]
               r == s \o <<x>>
    <3>1. x \notin ToSet(s)
      <4>1. \A j \in 1..(i - 1) : o[j] # o[i]
        BY <2>5
      <4>q. QED BY <2>3, <4>1
    <3>2. x \in some /\ f[i] = r
      BY <2>1, <2>5
    <3> HIDE DEF x
    <3>3. /\ r \in Seq(some) /\ Len(r) = Len(s) + 1 /\ r[Len(r)] = x
          /\ \A k \in 1..Len(s) : r[k] = s[k]
      BY <2>3, <3>2
    <3>4. Len(s) \in Nat /\ DOMAIN s = 1..Len(s) /\ DOMAIN r = 1..(Len(s) + 1)
      BY <2>3, <3>3
    <3> HIDE DEF r
    <3>5. \A k \in DOMAIN s : s[k] # x
      BY <3>1 DEF ToSet
    <3>6. IsInjective(r)
      <4> SUFFICES ASSUME NEW a \in DOMAIN r, NEW b \in DOMAIN r, r[a] = r[b] PROVE a = b
        BY DEF IsInjective
      <4>1. CASE a \in DOMAIN s /\ b \in DOMAIN s
        BY <2>3, <3>3, <3>4, <4>1 DEF IsInjective
      <4>2. CASE a = Len(r) \/ b = Len(r)
        BY <3>3, <3>4, <3>5, <4>2
      <4>q. QED BY <3>3, <3>4, <4>1, <4>2
    <3>7. ToSet(r) = ToSet(s) \cup {x}
      <4>1. ASSUME NEW k \in DOMAIN r PROVE r[k] \in ToSet(s) \cup {x}
        BY <3>3, <3>4 DEF ToSet
      <4>2. ToSet(s) \subseteq ToSet(r)
        BY <3>3, <3>4 DEF ToSet
      <4>3. x \in ToSet(r)
        BY <3>3, <3>4 DEF ToSet
      <4>4. ToSet(r) \subseteq ToSet(s) \cup {x}
        BY <4>1 DEF ToSet
      <4>q. QED BY <4>2, <4>3, <4>4
    <3>8. ToSet(r) = {o[j] : j \in 1..i} \cap some
      BY <2>2, <2>3, <3>2, <3>7 DEF x
    <3>q. QED BY <3>2, <3>3, <3>6, <3>8
  <2>q. QED BY <2>4, <2>5
<1> DEFINE Good == {i \in 0..n : i # 0 => Lists(f[i], i)}
<1> HIDE DEF Lists
<1>5. 0 \in Good
  OBVIOUS
<1>6. ASSUME NEW i \in 1..n, i - 1 \in Good PROVE i \in Good
  <2>1. CASE i = 1
    BY <1>2, <1>3, <2>1
  <2>2. CASE i # 1
    <3>1. i \in 2..n /\ i - 1 # 0
      BY <2>2
    <3>q. QED BY <1>4, <1>6, <3>1
  <2>q. QED BY <2>1, <2>2
<1>7. n \in Good
  <2> HIDE DEF Good
  <2>1. n \in Nat /\ n \in 0..n
    OBVIOUS
  <2>q. QED BY <1>5, <1>6, <2>1, UpTo
<1>8. Lists(f[n], n)
  BY <1>7
<1>q. QED BY <1>2, <1>8 DEF Lists, SomeOf, seqs

-----------------------------------------------------------------------------
(* The registry of definitions.                                            *)

(* What every index holds, whatever files were not found.                  *)
IndexOK(i) ==
  /\ i \subseteq UNION {Practices[f] : f \in Listed}
  /\ \A f \in Listed \ missed : Practices[f] \subseteq i

EntriesOK(e) == e = Pairs \/ (e = <<>> /\ Equivalences \in missed)

(* The file a definition for a key is of.                                  *)
Right(key, f) ==
  key[1] \in Name /\ f \in ToSet(Known[release][key[1]]) /\ VersionIn[f] = key[2]

Usable(key, d) == Whole(d) /\ Right(key, d.file)

IsCall(c) ==
  c = [then |-> c.then, assessment |-> c.assessment, key |-> c.key, got |-> c.got,
       found |-> c.found, indexed |-> c.indexed]

Purpose == {"browse", "create", "score"}

(* A call asks on behalf of its caller: of an assessment, for its pin.     *)
Asked(c) ==
  /\ IsCall(c) /\ c.then \in Purpose /\ c.key[1] \in Name
  /\ c.then = "score" =>
       /\ c.assessment \in Assessment /\ pinned[c.assessment] # Nothing
       /\ c.key[1] = pinned[c.assessment].name
       /\ pinned[c.assessment].version # Nothing =>
            c.key[2] = pinned[c.assessment].version

Filling == {"open", "entries", "read entries", "index", "read files", "store"}
Label   == Filling \cup Purpose \cup {"idle"}

(* A definition that is being put together is bare until it is stored.     *)
CallOK(label, c) ==
  /\ label \in Filling =>
       Asked(c) /\ \E f \in File : c.got = Bare(f) /\ Right(c.key, f)
  /\ label \in {"index", "read files", "store"} => EntriesOK(c.found)
  /\ label \in {"index", "read files"} => c.found # <<>>
  /\ label = "store" /\ c.found # <<>> => IndexOK(c.indexed)
  /\ label \in Purpose =>
       Asked(c) /\ c.then = label /\ (c.got # Nothing => Usable(c.key, c.got))

EntriesInv == entries # Nothing => EntriesOK(entries)
IndexInv   == index # Nothing => IndexOK(index)
CacheInv   == \A k \in DOMAIN cache : Usable(k, cache[k])

CallsInv ==
  /\ pc = [t \in Thread |-> pc[t]] /\ call = [t \in Thread |-> call[t]]
  /\ \A t \in Thread : pc[t] \in Label /\ CallOK(pc[t], call[t])

PinInv ==
  /\ DOMAIN pinned = Assessment /\ DOMAIN scored = Assessment
  /\ \A a \in Assessment : pinned[a] # Nothing => pinned[a].name \in Name
  /\ PinHolds

RegistryInv ==
  release \in Release /\ EntriesInv /\ IndexInv /\ CacheInv /\ CallsInv /\ PinInv

LEMMA KnownFiles ==
  ASSUME NEW r \in Release, NEW n \in Name
  PROVE  Known[r][n] \in Seq(File) /\ ToSet(Known[r][n]) \subseteq File
<1>1. Known[r] \in [Name -> Seq(File)]
  BY KnownAssumption, ElementOfSeq, LenProperties DEF Release
<1>2. Known[r][n] \in Seq(File)
  BY <1>1
<1>q. QED BY <1>2 DEF ToSet

LEMMA ListedFiles == release \in Release => Listed \subseteq File
  BY KnownFiles DEF Listed

LEMMA FileOfIsRight ==
  ASSUME release \in Release, NEW n \in Name, NEW v, FileOf(n, v) # Nothing
  PROVE  FileOf(n, v) \in File /\ Right(<<n, v>>, FileOf(n, v))
<1>1. v \in Versions(n) /\ FileOf(n, v) = CHOOSE f \in ToSet(Known[release][n]) : VersionIn[f] = v
  BY DEF FileOf
<1>2. \E f \in ToSet(Known[release][n]) : VersionIn[f] = v
  BY <1>1 DEF Versions, ToSet
<1>3. FileOf(n, v) \in ToSet(Known[release][n]) /\ VersionIn[FileOf(n, v)] = v
  BY <1>1, <1>2, Zenon
<1>q. QED BY <1>3, KnownFiles DEF Right

-----------------------------------------------------------------------------
(* What is merged into a definition.                                       *)

LEMMA PairsAreList ==
  /\ Len(Pairs) \in Nat /\ DOMAIN Pairs = 1..Len(Pairs)
  /\ Len(Pairs) = 0 => Pairs = <<>>
  BY DefinitionsAssumption, LenProperties, EmptySeq

LEMMA PairsAreDistinct ==
  ASSUME NEW i \in DOMAIN Pairs, NEW j \in DOMAIN Pairs,
         {Pairs[i].a, Pairs[i].b} = {Pairs[j].a, Pairs[j].b}
  PROVE  i = j
  BY DefinitionsAssumption

(* An entry leads from either practice to the other.                       *)
LEMMA OtherSide ==
  \A i \in DOMAIN Pairs : \A p, q :
    q # Nothing => (Other(Pairs[i], p) = q <=> {Pairs[i].a, Pairs[i].b} = {p, q})
<1> SUFFICES ASSUME NEW i \in DOMAIN Pairs, NEW p, NEW q, q # Nothing
             PROVE  Other(Pairs[i], p) = q <=> {Pairs[i].a, Pairs[i].b} = {p, q}
  OBVIOUS
<1>1. Pairs[i].a # Pairs[i].b
  BY DefinitionsAssumption
<1> DEFINE x == Pairs[i].a
           y == Pairs[i].b
<1>2. Other(Pairs[i], p) = IF x = p THEN y ELSE IF y = p THEN x ELSE Nothing
  <2>1. CASE x = p
    BY <2>1 DEF Other
  <2>2. CASE x # p /\ y = p
    BY <2>2 DEF Other
  <2>3. CASE x # p /\ y # p
    BY <2>3 DEF Other
  <2>q. QED BY <2>1, <2>2, <2>3
<1> HIDE DEF x, y
<1>3. x # y
  BY <1>1 DEF x, y
<1>4. Other(Pairs[i], p) = q <=> {x, y} = {p, q}
  BY <1>2, <1>3
<1>q. QED BY <1>4 DEF x, y

LEMMA BareIsWhole ==
  ASSUME NEW f \in File, EntriesOK(<<>>)
  PROVE  Whole(Bare(f))
<1> SUFFICES ASSUME NEW p \in Practices[f]
             PROVE  /\ IsInjective(<<>>) /\ ToSet(<<>>) \subseteq Equivalents(p)
                    /\ Equivalents(p) \subseteq ToSet(<<>>) \cup Unread \/ Equivalences \in missed
  BY DEF Whole, Bare
<1>1. IsInjective(<<>>) /\ ToSet(<<>>) = {}
  BY DEF IsInjective, ToSet
<1>2. Equivalences \notin missed => Equivalents(p) = {}
  BY PairsAreList DEF EntriesOK, Equivalents
<1>q. QED BY <1>1, <1>2

LEMMA UnreadHas ==
  ASSUME NEW g \in File, NEW x \in Practices[g], g \notin Listed \ missed
  PROVE  x \in Unread
<1>1. CASE g \in missed
  BY <1>1 DEF Unread
<1>2. CASE g \notin Listed
  BY <1>2 DEF Unread
<1>q. QED BY <1>1, <1>2

LEMMA AppendedIsWhole ==
  ASSUME release \in Release, NEW f \in File, NEW p \in Practices[f], NEW c,
         c.found = Pairs, Pairs # <<>>, IndexOK(c.indexed)
  PROVE  /\ Appended(p, c) \in Seq(c.indexed) /\ IsInjective(Appended(p, c))
         /\ ToSet(Appended(p, c)) \subseteq Equivalents(p)
         /\ Equivalents(p) \subseteq ToSet(Appended(p, c)) \cup Unread
<1> DEFINE count    == Len(Pairs)
           other    == [i \in 1..count |-> Other(Pairs[i], p)]
           known == c.indexed
<1>1. count \in Nat \ {0} /\ DOMAIN Pairs = 1..count
  BY PairsAreList
<1>2. \A x \in known : x # Nothing /\ \E g \in Listed : g \in File /\ x \in Practices[g]
  BY ListedFiles, DefinitionsAssumption DEF IndexOK
<1>3. \A i, j \in 1..count : other[i] \in known /\ other[i] = other[j] => i = j
  <2> SUFFICES ASSUME NEW i \in 1..count, NEW j \in 1..count,
                      other[i] \in known, other[i] = other[j]
               PROVE  i = j
    OBVIOUS
  <2>1. i \in DOMAIN Pairs /\ j \in DOMAIN Pairs
    BY <1>1
  <2>2. other[i] = Other(Pairs[i], p) /\ other[i] = Other(Pairs[j], p) /\ other[i] # Nothing
    BY <1>2
  <2> HIDE DEF count, other, known
  <2>3. {Pairs[i].a, Pairs[i].b} = {p, other[i]} /\ {Pairs[j].a, Pairs[j].b} = {p, other[i]}
    BY <2>1, <2>2, OtherSide
  <2>q. QED BY <2>1, <2>3, PairsAreDistinct
<1>4. Appended(p, c) = SomeOf(other, known, count)
  <2>1. [i \in DOMAIN c.found |->
           IF Other(c.found[i], p) \in c.indexed THEN <<Other(c.found[i], p)>> ELSE <<>>]
          = [i \in 1..count |-> IF other[i] \in known THEN <<other[i]>> ELSE <<>>]
    BY <1>1
  <2>q. QED BY <2>1 DEF Appended, SomeOf, Chosen
<1>6. \A i \in 1..count : other[i] = Other(Pairs[i], p)
  OBVIOUS
<1> HIDE DEF count, other, known
<1>7. /\ SomeOf(other, known, count) \in Seq(known) /\ IsInjective(SomeOf(other, known, count))
      /\ ToSet(SomeOf(other, known, count)) = {other[i] : i \in 1..count} \cap known
  BY <1>1, <1>3, SomeOfList
<1>8. ASSUME NEW x \in ToSet(SomeOf(other, known, count)) PROVE x \in Equivalents(p)
  <2>1. PICK i \in 1..count : x = other[i] /\ x \in known
    BY <1>7
  <2>2. {Pairs[i].a, Pairs[i].b} = {p, x}
    BY <1>1, <1>2, <1>6, <2>1, OtherSide
  <2>q. QED BY <1>1, <1>2, <2>1, <2>2 DEF Equivalents
<1>9. ASSUME NEW x \in Equivalents(p) PROVE x \in ToSet(SomeOf(other, known, count)) \cup Unread
  <2>1. PICK g \in File : x \in Practices[g]
    BY DEF Equivalents
  <2>2. PICK i \in DOMAIN Pairs : {Pairs[i].a, Pairs[i].b} = {p, x}
    BY DEF Equivalents
  <2>3. x # Nothing
    BY <2>1, DefinitionsAssumption
  <2>4. i \in 1..count /\ other[i] = x
    <3>1. Other(Pairs[i], p) = x <=> {Pairs[i].a, Pairs[i].b} = {p, x}
      BY <2>3, OtherSide
    <3>q. QED BY <1>1, <1>6, <2>2, <3>1
  <2>5. CASE g \in Listed \ missed
    <3>1. x \in known
      BY <2>1, <2>5 DEF IndexOK, known
    <3>q. QED BY <1>7, <2>4, <3>1
  <2>6. CASE g \notin Listed \ missed
    BY <2>1, <2>6, UnreadHas
  <2>q. QED BY <2>5, <2>6
<1>q. QED BY <1>4, <1>7, <1>8, <1>9 DEF known

LEMMA MergedIsUsable ==
  ASSUME release \in Release, NEW c, CallOK("store", c)
  PROVE  Usable(c.key, Merged(c))
<1>1. PICK f \in File : c.got = Bare(f) /\ Right(c.key, f)
  BY DEF CallOK, Filling
<1>2. EntriesOK(c.found) /\ (c.found # <<>> => IndexOK(c.indexed))
  BY DEF CallOK
<1>3. CASE c.found = <<>>
  BY <1>1, <1>2, <1>3, BareIsWhole DEF Merged, Usable, Bare
<1>4. CASE c.found # <<>>
  <2>1. c.found = Pairs /\ Pairs # <<>> /\ IndexOK(c.indexed)
    BY <1>2, <1>4 DEF EntriesOK
  <2> DEFINE d == [file |-> f, equivalents |-> [p \in Practices[f] |-> Appended(p, c)]]
  <2>2. \A p \in Practices[f] : <<>> \o Appended(p, c) = Appended(p, c)
    BY <2>1, AppendedIsWhole
  <2>3. Merged(c) = [file |-> f, equivalents |-> [p \in Practices[f] |-> <<>> \o Appended(p, c)]]
    <3> DEFINE bare == [p \in Practices[f] |-> <<>>]
    <3>1. c.got = [file |-> f, equivalents |-> bare]
      BY <1>1 DEF Bare
    <3>2. Merged(c) = [c.got EXCEPT !.equivalents =
                         [p \in DOMAIN c.got.equivalents |-> c.got.equivalents[p] \o Appended(p, c)]]
      BY <1>4 DEF Merged
    <3>3. c.got.equivalents = bare
      BY <3>1
    <3>4. [p \in DOMAIN bare |-> bare[p] \o Appended(p, c)]
            = [p \in Practices[f] |-> <<>> \o Appended(p, c)]
      OBVIOUS
    <3> DEFINE whole == [p \in DOMAIN bare |-> bare[p] \o Appended(p, c)]
    <3>5. Merged(c) = [c.got EXCEPT !.equivalents = whole]
      BY <3>2, <3>3
    <3> HIDE DEF bare, whole
    <3>6. Merged(c) = [file |-> f, equivalents |-> whole]
      BY <3>1, <3>5
    <3>q. QED BY <3>4, <3>6 DEF whole
  <2>4. Merged(c) = d
    BY <2>2, <2>3
  <2>5. Whole(d)
    BY <2>1, AppendedIsWhole DEF Whole
  <2>q. QED BY <1>1, <2>4, <2>5 DEF Usable
<1>q. QED BY <1>3, <1>4

-----------------------------------------------------------------------------
(* A step of a thread.                                                     *)

(* What a thread does leaves releases and pins as they are; files may turn *)
(* out to be missing.                                                      *)
Stable ==
  /\ release' = release /\ missed \subseteq missed'
  /\ DOMAIN pinned' = DOMAIN pinned
  /\ \A a \in DOMAIN pinned : pinned[a] # Nothing => pinned'[a] = pinned[a]

LEMMA StableParts ==
  ASSUME Stable
  PROVE  /\ \A d : Whole(d) => Whole(d)'
         /\ \A i : IndexOK(i) => IndexOK(i)'
         /\ \A e : EntriesOK(e) => EntriesOK(e)'
         /\ \A k, f : Right(k, f) => Right(k, f)'
         /\ \A k, d : Usable(k, d) => Usable(k, d)'
<1>1. Listed' = Listed /\ missed \subseteq missed'
  BY DEF Stable, Listed
<1>2. Unread \subseteq Unread'
  BY <1>1 DEF Unread
<1>3. ASSUME NEW d, Whole(d) PROVE Whole(d)'
  <2> SUFFICES ASSUME NEW p \in DOMAIN d.equivalents
               PROVE  /\ IsInjective(d.equivalents[p])
                      /\ ToSet(d.equivalents[p]) \subseteq Equivalents(p)
                      /\ \/ Equivalents(p) \subseteq ToSet(d.equivalents[p]) \cup Unread'
                         \/ Equivalences \in missed'
    BY DEF Whole
  <2>q. QED BY <1>1, <1>2, <1>3 DEF Whole
<1>4. \A i : IndexOK(i) => IndexOK(i)'
  BY <1>1 DEF IndexOK
<1>5. \A e : EntriesOK(e) => EntriesOK(e)'
  BY <1>1 DEF EntriesOK
<1>6. \A k, f : Right(k, f) => Right(k, f)'
  BY DEF Stable, Right
<1>7. \A k, d : Usable(k, d) => Usable(k, d)'
  BY <1>3, <1>6 DEF Usable
<1>q. QED BY <1>3, <1>4, <1>5, <1>6, <1>7

LEMMA StableCall ==
  ASSUME Stable, DOMAIN pinned = Assessment, NEW label, NEW c, CallOK(label, c)
  PROVE  CallOK(label, c)'
<1>1. Asked(c) => Asked(c)'
  <2> SUFFICES ASSUME Asked(c), c.then = "score"
               PROVE  /\ pinned'[c.assessment] = pinned[c.assessment]
                      /\ pinned[c.assessment] # Nothing
    BY DEF Asked
  <2>q. QED BY DEF Asked, Stable
<1>2. \A f : Right(c.key, f) => Right(c.key, f)'
  BY StableParts
<1>3. EntriesOK(c.found) => EntriesOK(c.found)'
  BY StableParts
<1>4. IndexOK(c.indexed) => IndexOK(c.indexed)'
  BY StableParts
<1>5. Usable(c.key, c.got) => Usable(c.key, c.got)'
  BY StableParts
<1>q. QED BY <1>1, <1>2, <1>3, <1>4, <1>5 DEF CallOK

LEMMA StableCache ==
  ASSUME Stable, CacheInv, UNCHANGED cache
  PROVE  CacheInv'
<1> SUFFICES ASSUME NEW k \in DOMAIN cache PROVE Usable(k, cache[k])'
  BY DEF CacheInv
<1>1. PICK d : d = cache[k] /\ Usable(k, d)
  BY DEF CacheInv
<1>2. Usable(k, d)'
  BY <1>1, StableParts
<1>3. cache'[k] = d
  BY <1>1
<1>q. QED BY <1>2, <1>3

LEMMA StableEntries ==
  ASSUME Stable, EntriesInv, UNCHANGED entries
  PROVE  EntriesInv'
<1>1. PICK e : e = entries
  OBVIOUS
<1>2. EntriesOK(e) => EntriesOK(e)'
  BY StableParts
<1>q. QED BY <1>1, <1>2 DEF EntriesInv

LEMMA StableIndex ==
  ASSUME Stable, IndexInv, UNCHANGED index
  PROVE  IndexInv'
<1>1. PICK i : i = index
  OBVIOUS
<1>2. IndexOK(i) => IndexOK(i)'
  BY StableParts
<1>q. QED BY <1>1, <1>2 DEF IndexInv

(* A thread that goes on with an admissible call leaves the others theirs. *)
LEMMA CallsStep ==
  ASSUME Stable, DOMAIN pinned = Assessment, CallsInv, NEW t \in Thread,
         NEW label \in Label, NEW c, CallOK(label, c)',
         Goto(t, label), With(t, c)
  PROVE  CallsInv'
<1>1. /\ pc' = [u \in Thread |-> pc'[u]] /\ call' = [u \in Thread |-> call'[u]]
      /\ pc'[t] = label /\ call'[t] = c
      /\ \A u \in Thread \ {t} : pc'[u] = pc[u] /\ call'[u] = call[u]
  BY DEF Goto, With, CallsInv
<1>2. ASSUME NEW u \in Thread \ {t} PROVE pc'[u] \in Label /\ CallOK(pc[u], call[u])'
  <2>1. PICK l, e : l = pc[u] /\ e = call[u] /\ l \in Label /\ CallOK(l, e)
    BY DEF CallsInv
  <2>2. CallOK(l, e)'
    BY <2>1, StableCall
  <2>3. l = pc'[u] /\ e = call'[u]
    BY <1>1, <2>1
  <2>q. QED BY <2>1, <2>2, <2>3
<1>3. CallOK(pc[t], call[t])'
  BY <1>1
<1>q. QED BY <1>1, <1>2, <1>3 DEF CallsInv

(* What a caller is answered with.                                         *)
LEMMA AnsweredOK ==
  ASSUME NEW c, Asked(c), NEW t \in Thread, NEW d, d # Nothing => Usable(c.key, d),
         Answered(t, c, d)
  PROVE  \E label \in Label : \E e : CallOK(label, e) /\ Goto(t, label) /\ With(t, e)
<1>1. CASE c.then = "browse"
  <2>1. CallOK("idle", Idle)
    BY DEF CallOK, Filling, Purpose
  <2>2. Goto(t, "idle") /\ With(t, Idle)
    BY <1>1 DEF Answered, Done
  <2>q. QED BY <2>1, <2>2 DEF Label
<1>2. CASE c.then # "browse"
  <2> DEFINE e == NewCall(c.then, c.assessment, c.key, d)
  <2>2. IsCall(e) /\ e.then = c.then /\ e.assessment = c.assessment /\ e.key = c.key /\ e.got = d
    BY DEF NewCall, IsCall
  <2>3. Goto(t, c.then) /\ With(t, e)
    BY <1>2 DEF Answered
  <2> HIDE DEF e
  <2>5. Asked(e)
    BY <2>2 DEF Asked
  <2>6. c.then \in {"create", "score"}
    BY <1>2 DEF Asked, Purpose
  <2>7. CallOK(c.then, e)
    BY <2>2, <2>5, <2>6 DEF CallOK, Filling
  <2>q. QED BY <2>3, <2>6, <2>7 DEF Label, Purpose
<1>q. QED BY <1>1, <1>2

(* get(name, version).                                                     *)
LEMMA GetStep ==
  ASSUME RegistryInv, NEW t \in Thread, NEW then \in Purpose, NEW a, NEW n \in Name, NEW v,
         then = "score" => /\ a \in Assessment /\ pinned[a] # Nothing
                           /\ n = pinned[a].name /\ v = pinned[a].version,
         Get(t, then, a, n, v)
  PROVE  RegistryInv'
<1> DEFINE key == <<n, Resolved(n, v)>>
           f   == FileOf(n, key[2])
           c   == NewCall(then, a, key, Nothing)
<1>1. UNCHANGED <<release, cache, entries, index, missed, pinned, scored>>
  BY DEF Get, registry, stored
<1>2. Stable
  BY <1>1 DEF Stable
<1>3. /\ IsCall(c) /\ c.then = then /\ c.assessment = a /\ c.key = key /\ key[1] = n
      /\ key[2] = Resolved(n, v)
  BY DEF NewCall, IsCall
<1>4. Asked(c)
  BY <1>3 DEF Asked, Resolved
<1>5. \/ key \in DOMAIN cache /\ Answered(t, c, cache[key])
      \/ key \notin DOMAIN cache /\ f = Nothing /\ Answered(t, c, Nothing)
      \/ /\ key \notin DOMAIN cache /\ f # Nothing
         /\ Goto(t, "open") /\ With(t, NewCall(then, a, key, Bare(f)))
  BY DEF Get
<1>6. \E label \in Label : \E e : CallOK(label, e) /\ Goto(t, label) /\ With(t, e)
  <2>1. CASE key \in DOMAIN cache /\ Answered(t, c, cache[key])
    <3>1. Usable(c.key, cache[key])
      BY <1>3, <2>1 DEF RegistryInv, CacheInv
    <3> HIDE DEF key, c
    <3>q. QED BY <1>4, <2>1, <3>1, AnsweredOK
  <2>2. CASE Answered(t, c, Nothing)
    <3> HIDE DEF c
    <3>q. QED BY <1>4, <2>2, AnsweredOK
  <2>3. CASE f # Nothing /\ Goto(t, "open") /\ With(t, NewCall(then, a, key, Bare(f)))
    <3> DEFINE e == NewCall(then, a, key, Bare(f))
    <3>1. f \in File /\ Right(key, f)
      BY <1>3, <2>3, FileOfIsRight DEF RegistryInv
    <3>2. /\ IsCall(e) /\ e.then = c.then /\ e.assessment = c.assessment /\ e.key = key
          /\ e.got = Bare(f)
      BY <1>3 DEF NewCall, IsCall
    <3> HIDE DEF e
    <3> HIDE DEF f, c, key
    <3>3. Asked(e)
      BY <1>3, <1>4, <3>2 DEF Asked
    <3>4. CallOK("open", e)
      BY <3>1, <3>2, <3>3 DEF CallOK, Filling, Purpose
    <3>q. QED BY <2>3, <3>4 DEF Label, Filling, e
  <2>q. QED BY <1>5, <2>1, <2>2, <2>3
<1>7. PICK label \in Label : \E e : CallOK(label, e) /\ Goto(t, label) /\ With(t, e)
  BY <1>6
<1>8. PICK e : CallOK(label, e) /\ Goto(t, label) /\ With(t, e)
  BY <1>7
<1>9. CallOK(label, e)'
  BY <1>2, <1>8, StableCall DEF RegistryInv, PinInv
<1>10. CallsInv'
  BY <1>2, <1>9, <1>8, CallsStep DEF RegistryInv, PinInv
<1>11. PinInv'
  BY <1>1 DEF RegistryInv, PinInv, PinHolds
<1>q. QED
  BY <1>1, <1>2, <1>10, <1>11, StableCache, StableEntries, StableIndex DEF RegistryInv


LEMMA RegistryStep ==
  ASSUME RegistryInv, NEW t \in Thread, UNCHANGED <<release, stored>>,
         missed \subseteq missed', CacheInv', EntriesInv', IndexInv',
         \E label \in Label : \E c : CallOK(label, c)' /\ Goto(t, label) /\ With(t, c)
  PROVE  RegistryInv'
<1>1. Stable
  BY DEF Stable, stored
<1>2. CallsInv'
  BY <1>1, CallsStep DEF RegistryInv, PinInv
<1>3. PinInv'
  BY DEF RegistryInv, PinInv, PinHolds, stored
<1>q. QED BY <1>2, <1>3 DEF RegistryInv

(* The call of a thread that fills in a definition.                        *)
LEMMA FillingCall ==
  ASSUME RegistryInv, NEW t \in Thread, pc[t] \in Filling
  PROVE  \E c : c = call[t] /\ CallOK(pc[t], c) /\ Asked(c)
  BY DEF RegistryInv, CallsInv, CallOK

LEMMA OpenFileStep ==
  ASSUME RegistryInv, NEW t \in Thread, OpenFile(t)
  PROVE  RegistryInv'
<1>1. pc[t] = "open" /\ UNCHANGED <<release, cache, entries, index, pinned, scored>>
  BY DEF OpenFile, registry, stored
<1>2. PICK c : c = call[t] /\ CallOK("open", c) /\ Asked(c)
  BY <1>1, FillingCall DEF Filling
<1>3. missed \subseteq missed'
  BY DEF OpenFile, Opens, Misses
<1>4. Stable
  BY <1>1, <1>3 DEF Stable
<1>5. \E label \in Label : \E e : CallOK(label, e) /\ Goto(t, label) /\ With(t, e)
  <2>1. CASE Goto(t, "entries") /\ UNCHANGED call
    <3>1. CallOK("entries", c)
      BY <1>2 DEF CallOK, Filling, Purpose
    <3>2. With(t, c)
      BY <1>2, <2>1 DEF With, RegistryInv, CallsInv
    <3>q. QED BY <2>1, <3>1, <3>2 DEF Label, Filling
  <2>2. CASE Answered(t, call[t], Nothing)
    BY <1>2, <2>2, AnsweredOK
  <2>q. QED BY <2>1, <2>2 DEF OpenFile
<1>6. PICK label \in Label : \E e : CallOK(label, e) /\ Goto(t, label) /\ With(t, e)
  BY <1>5
<1>7. PICK e : CallOK(label, e) /\ Goto(t, label) /\ With(t, e)
  BY <1>6
<1>8. CallOK(label, e)'
  BY <1>4, <1>7, StableCall DEF RegistryInv, PinInv
<1>q. QED
  BY <1>1, <1>3, <1>4, <1>7, <1>8, RegistryStep, StableCache, StableEntries, StableIndex
     DEF RegistryInv, stored

(* A call with another field, its entries or its index, filled in.         *)
Filled(c, e, found, indexed) ==
  /\ IsCall(e) /\ e.then = c.then /\ e.assessment = c.assessment /\ e.key = c.key
  /\ e.got = c.got /\ e.found = found /\ e.indexed = indexed

FoundIn(c, y) == [c EXCEPT !.found = y]

LEMMA WithFound ==
  ASSUME NEW c, IsCall(c), NEW y, NEW e, e = FoundIn(c, y)
  PROVE  Filled(c, e, y, c.indexed)
<1>1. PICK w, x, k, g, h, i :
        c = [then |-> w, assessment |-> x, key |-> k, got |-> g, found |-> h, indexed |-> i]
  BY DEF IsCall
<1>2. [c EXCEPT !.found = y]
        = [then |-> w, assessment |-> x, key |-> k, got |-> g, found |-> y, indexed |-> i]
  BY <1>1
<1>3. e = [then |-> w, assessment |-> x, key |-> k, got |-> g, found |-> y, indexed |-> i]
  BY <1>2, Zenon DEF FoundIn
<1>q. QED BY <1>1, <1>3 DEF IsCall, Filled

IndexedIn(c, y) == [c EXCEPT !.indexed = y]

LEMMA WithIndexed ==
  ASSUME NEW c, IsCall(c), NEW y, NEW e, e = IndexedIn(c, y)
  PROVE  Filled(c, e, c.found, y)
<1>1. PICK w, x, k, g, h, i :
        c = [then |-> w, assessment |-> x, key |-> k, got |-> g, found |-> h, indexed |-> i]
  BY DEF IsCall
<1>2. [c EXCEPT !.indexed = y]
        = [then |-> w, assessment |-> x, key |-> k, got |-> g, found |-> h, indexed |-> y]
  BY <1>1
<1>3. e = [then |-> w, assessment |-> x, key |-> k, got |-> g, found |-> h, indexed |-> y]
  BY <1>2, Zenon DEF IndexedIn
<1>q. QED BY <1>1, <1>3 DEF IsCall, Filled

(* The entries, from the registry or from the file.                        *)
LEMMA FoundOK ==
  ASSUME RegistryInv, Stable, NEW t \in Thread, pc[t] \in {"entries", "read entries"},
         NEW found, EntriesOK(found)', Found(t, found)
  PROVE  \E label \in Label : \E e : CallOK(label, e)' /\ Goto(t, label) /\ With(t, e)
<1>1. PICK c : c = call[t] /\ CallOK(pc[t], c) /\ Asked(c)
  BY FillingCall DEF Filling
<1>5. PICK e : e = FoundIn(c, found)
  OBVIOUS
<1>3. Goto(t, IF found = <<>> THEN "store" ELSE "index") /\ With(t, e)
  BY <1>1, <1>5 DEF Found, FoundIn
<1>6. Filled(c, e, found, c.indexed)
  <2>1. IsCall(c)
    BY <1>1 DEF Asked
  <2>q. QED BY <1>5, <2>1, WithFound
<1>7. \E f \in File : c.got = Bare(f) /\ Right(c.key, f)'
  <2>1. PICK f \in File : c.got = Bare(f) /\ Right(c.key, f)
    BY <1>1 DEF CallOK, Filling
  <2>2. Right(c.key, f)'
    BY <2>1, StableParts
  <2>q. QED BY <2>1, <2>2
<1>8. Asked(c)'
  <2>1. pinned' = pinned \/ \A a \in Assessment : pinned[a] # Nothing => pinned'[a] = pinned[a]
    BY DEF Stable, RegistryInv, PinInv
  <2>q. QED BY <1>1, <2>1 DEF Asked
<1>9. Asked(e)'
  BY <1>6, <1>8 DEF Asked, Filled
<1>10. CASE found = <<>>
  <2>1. CallOK("store", e)'
    BY <1>6, <1>7, <1>9, <1>10 DEF CallOK, Filling, Purpose, Filled
  <2>q. QED BY <1>3, <1>10, <2>1 DEF Label, Filling
<1>11. CASE found # <<>>
  <2>1. CallOK("index", e)'
    BY <1>6, <1>7, <1>9, <1>11 DEF CallOK, Filling, Purpose, Filled
  <2>q. QED BY <1>3, <1>11, <2>1 DEF Label, Filling
<1>q. QED BY <1>10, <1>11

LEMMA LoadEntriesStep ==
  ASSUME RegistryInv, NEW t \in Thread, LoadEntries(t)
  PROVE  RegistryInv'
<1>1. pc[t] = "entries" /\ UNCHANGED <<release, cache, entries, index, missed, pinned, scored>>
  BY DEF LoadEntries, registry, stored
<1>2. Stable
  BY <1>1 DEF Stable
<1>3. CacheInv' /\ EntriesInv' /\ IndexInv'
  BY <1>1, <1>2, StableCache, StableEntries, StableIndex DEF RegistryInv
<1>4. CASE entries # Nothing /\ Found(t, entries)
  <2>1. PICK e : e = entries
    OBVIOUS
  <2>2. EntriesOK(e)' /\ Found(t, e)
    BY <1>1, <1>4, <2>1 DEF EntriesOK, EntriesInv, RegistryInv
  <2>3. \E label \in Label : \E c : CallOK(label, c)' /\ Goto(t, label) /\ With(t, c)
    BY <1>1, <1>2, <2>2, FoundOK
  <2>q. QED BY <1>1, <1>3, <2>3, RegistryStep DEF stored
<1>5. CASE Goto(t, "read entries") /\ UNCHANGED call
  <2>1. PICK c : c = call[t] /\ CallOK("entries", c)
    BY <1>1, FillingCall DEF Filling
  <2>2. CallOK("read entries", c)
    BY <2>1 DEF CallOK, Filling, Purpose
  <2>3. CallOK("read entries", c)'
    BY <1>2, <2>2, StableCall DEF RegistryInv, PinInv
  <2>4. With(t, c)
    BY <1>5, <2>1 DEF With, RegistryInv, CallsInv
  <2>5. "read entries" \in Label
    BY DEF Label, Filling
  <2>q. QED BY <1>1, <1>3, <1>5, <2>3, <2>4, <2>5, RegistryStep DEF stored
<1>q. QED BY <1>4, <1>5 DEF LoadEntries

LEMMA ReadEntriesStep ==
  ASSUME RegistryInv, NEW t \in Thread, ReadEntries(t)
  PROVE  RegistryInv'
<1>1. pc[t] = "read entries" /\ UNCHANGED <<release, cache, index, pinned, scored>>
  BY DEF ReadEntries, stored
<1>2. missed \subseteq missed'
  BY DEF ReadEntries, Opens, Misses
<1>3. Stable
  BY <1>1, <1>2 DEF Stable
<1>4. PICK e : e = entries' /\ EntriesOK(e)' /\ Found(t, e)
  BY DEF ReadEntries, Opens, Misses, EntriesOK
<1>5. CacheInv' /\ EntriesInv' /\ IndexInv'
  BY <1>1, <1>3, <1>4, StableCache, StableIndex DEF RegistryInv, EntriesInv
<1>6. \E label \in Label : \E c : CallOK(label, c)' /\ Goto(t, label) /\ With(t, c)
  BY <1>1, <1>3, <1>4, FoundOK
<1>q. QED BY <1>1, <1>2, <1>5, <1>6, RegistryStep DEF stored

(* The index, likewise.                                                    *)
LEMMA IndexedOK ==
  ASSUME RegistryInv, Stable, NEW t \in Thread, pc[t] \in {"index", "read files"},
         NEW indexed, IndexOK(indexed)', Indexed(t, indexed)
  PROVE  \E label \in Label : \E e : CallOK(label, e)' /\ Goto(t, label) /\ With(t, e)
<1>1. PICK c : c = call[t] /\ CallOK(pc[t], c) /\ Asked(c)
  BY FillingCall DEF Filling
<1>5. PICK e : e = IndexedIn(c, indexed)
  OBVIOUS
<1>3. Goto(t, "store") /\ With(t, e)
  BY <1>1, <1>5 DEF Indexed, IndexedIn
<1>6. Filled(c, e, c.found, indexed)
  <2>1. IsCall(c)
    BY <1>1 DEF Asked
  <2>q. QED BY <1>5, <2>1, WithIndexed
<1>7. \E f \in File : c.got = Bare(f) /\ Right(c.key, f)'
  <2>1. PICK f \in File : c.got = Bare(f) /\ Right(c.key, f)
    BY <1>1 DEF CallOK, Filling
  <2>2. Right(c.key, f)'
    BY <2>1, StableParts
  <2>q. QED BY <2>1, <2>2
<1>8. Asked(c)'
  <2>1. \A a \in Assessment : pinned[a] # Nothing => pinned'[a] = pinned[a]
    BY DEF Stable, RegistryInv, PinInv
  <2>q. QED BY <1>1, <2>1 DEF Asked
<1>9. Asked(e)'
  BY <1>6, <1>8 DEF Asked, Filled
<1>10. EntriesOK(c.found)'
  <2>1. EntriesOK(c.found)
    BY <1>1 DEF CallOK
  <2>q. QED BY <2>1, StableParts
<1>11. CallOK("store", e)'
  BY <1>6, <1>7, <1>9, <1>10 DEF CallOK, Filling, Purpose, Filled
<1>q. QED BY <1>3, <1>11 DEF Label, Filling

LEMMA LoadIndexStep ==
  ASSUME RegistryInv, NEW t \in Thread, LoadIndex(t)
  PROVE  RegistryInv'
<1>1. pc[t] = "index" /\ UNCHANGED <<release, cache, entries, index, missed, pinned, scored>>
  BY DEF LoadIndex, registry, stored
<1>2. Stable
  BY <1>1 DEF Stable
<1>3. CacheInv' /\ EntriesInv' /\ IndexInv'
  BY <1>1, <1>2, StableCache, StableEntries, StableIndex DEF RegistryInv
<1>4. CASE index # Nothing /\ Indexed(t, index)
  <2>1. PICK i : i = index
    OBVIOUS
  <2>2. IndexOK(i)
    BY <1>4, <2>1 DEF IndexInv, RegistryInv
  <2>3. IndexOK(i)' /\ Indexed(t, i)
    BY <1>2, <1>4, <2>1, <2>2, StableParts
  <2>4. \E label \in Label : \E c : CallOK(label, c)' /\ Goto(t, label) /\ With(t, c)
    BY <1>1, <1>2, <2>3, IndexedOK
  <2>q. QED BY <1>1, <1>3, <2>4, RegistryStep DEF stored
<1>5. CASE Goto(t, "read files") /\ UNCHANGED call
  <2>1. PICK c : c = call[t] /\ CallOK("index", c)
    BY <1>1, FillingCall DEF Filling
  <2>2. CallOK("read files", c)
    BY <2>1 DEF CallOK, Filling, Purpose
  <2>3. CallOK("read files", c)'
    BY <1>2, <2>2, StableCall DEF RegistryInv, PinInv
  <2>4. With(t, c)
    BY <1>5, <2>1 DEF With, RegistryInv, CallsInv
  <2>5. "read files" \in Label
    BY DEF Label, Filling
  <2>q. QED BY <1>1, <1>3, <1>5, <2>3, <2>4, <2>5, RegistryStep DEF stored
<1>q. QED BY <1>4, <1>5 DEF LoadIndex

LEMMA BuildIndexStep ==
  ASSUME RegistryInv, NEW t \in Thread, BuildIndex(t)
  PROVE  RegistryInv'
<1>1. pc[t] = "read files" /\ UNCHANGED <<release, cache, entries, pinned, scored>>
  BY DEF BuildIndex, stored
<1>2. PICK lost \in SUBSET (Flaky \cap Listed) :
        /\ missed' = missed \cup lost
        /\ index' = UNION {Practices[f] : f \in Listed \ lost}
        /\ Indexed(t, index')
  BY DEF BuildIndex
<1>3. Stable
  BY <1>1, <1>2 DEF Stable
<1>4. Listed' = Listed
  BY <1>1 DEF Listed
<1>5. PICK i : i = index' /\ IndexOK(i)'
  <2>1. index' \subseteq UNION {Practices[f] : f \in Listed}
    BY <1>2
  <2>2. \A f \in Listed \ missed' : Practices[f] \subseteq index'
    BY <1>2
  <2>q. QED BY <1>4, <2>1, <2>2 DEF IndexOK
<1>6. CacheInv' /\ EntriesInv' /\ IndexInv'
  BY <1>1, <1>3, <1>5, StableCache, StableEntries DEF RegistryInv, IndexInv
<1>7. \E label \in Label : \E c : CallOK(label, c)' /\ Goto(t, label) /\ With(t, c)
  BY <1>1, <1>2, <1>3, <1>5, IndexedOK
<1>q. QED BY <1>1, <1>2, <1>6, <1>7, RegistryStep DEF stored

LEMMA StoreStep ==
  ASSUME RegistryInv, NEW t \in Thread, Store(t)
  PROVE  RegistryInv'
<1>1. pc[t] = "store" /\ UNCHANGED <<release, entries, index, missed, pinned, scored>>
  BY DEF Store, stored
<1>2. Stable
  BY <1>1 DEF Stable
<1>3. PICK c : c = call[t] /\ CallOK("store", c) /\ Asked(c)
  BY <1>1, FillingCall DEF Filling
<1>4. PICK d : d = Merged(c) /\ Usable(c.key, d)
  BY <1>3, MergedIsUsable DEF RegistryInv
<1>5. Usable(c.key, d)'
  BY <1>2, <1>4, StableParts
<1>6. CacheInv'
  <2>1. PICK n : n = cache' /\ n = [l \in DOMAIN cache \cup {c.key} |->
                                     IF l = c.key THEN d ELSE cache[l]]
    BY <1>3, <1>4 DEF Store, Cached
  <2>2. ASSUME NEW k \in DOMAIN n PROVE Usable(k, n[k])'
    <3>1. CASE k = c.key
      BY <1>5, <2>1, <3>1
    <3>2. CASE k # c.key
      <4>1. k \in DOMAIN cache /\ n[k] = cache[k]
        BY <2>1, <2>2, <3>2
      <4>2. Usable(k, n[k])
        BY <4>1 DEF RegistryInv, CacheInv
      <4>q. QED BY <1>2, <4>2, StableParts
    <3>q. QED BY <3>1, <3>2
  <2>q. QED BY <2>1, <2>2 DEF CacheInv
<1>7. Answered(t, c, d)
  BY <1>3, <1>4 DEF Store
<1>8. PICK label \in Label : \E e : CallOK(label, e) /\ Goto(t, label) /\ With(t, e)
  BY <1>3, <1>4, <1>7, AnsweredOK
<1>9. PICK e : CallOK(label, e) /\ Goto(t, label) /\ With(t, e)
  BY <1>8
<1>10. CallOK(label, e)'
  BY <1>2, <1>9, StableCall DEF RegistryInv, PinInv
<1>q. QED
  BY <1>1, <1>2, <1>6, <1>9, <1>10, RegistryStep, StableEntries, StableIndex
     DEF RegistryInv, stored

(* The callers.                                                            *)
LEMMA CallingStep ==
  ASSUME RegistryInv, NEW t \in Thread, UNCHANGED <<release, registry, missed>>, Stable,
         PinInv', Done(t)
  PROVE  RegistryInv'
<1>1. UNCHANGED <<cache, entries, index>>
  BY DEF registry
<1>2. CallOK("idle", Idle)'
  BY DEF CallOK, Filling, Purpose
<1>3. PICK c : c = Idle
  OBVIOUS
<1>4. CallOK("idle", c)' /\ Goto(t, "idle") /\ With(t, c) /\ "idle" \in Label
  BY <1>2, <1>3 DEF Done, Label, Idle
<1>5. CallsInv'
  BY <1>4, CallsStep DEF RegistryInv, PinInv
<1>q. QED BY <1>1, <1>5, StableCache, StableEntries, StableIndex DEF RegistryInv

LEMMA CreateStep ==
  ASSUME RegistryInv, NEW t \in Thread, Create(t)
  PROVE  RegistryInv'
<1>1. pc[t] = "create" /\ Done(t) /\ UNCHANGED <<release, registry, missed, scored>>
  BY DEF Create
<1>2. PICK c : c = call[t] /\ Asked(c)
  BY <1>1 DEF RegistryInv, CallsInv, CallOK, Purpose
<1>3. PICK a \in Assessment : \E p :
        /\ pinned[a] = Nothing /\ p.name = c.key[1]
        /\ pinned' = [pinned EXCEPT ![a] = p]
  <2>1. PICK a \in New :
          pinned' = [pinned EXCEPT ![a] =
                       [name |-> call[t].key[1], version |-> VersionOf(call[t].got)]]
    BY DEF Create
  <2>q. QED BY <1>2, <2>1 DEF New
<1>4. PICK p : /\ pinned[a] = Nothing /\ p.name = c.key[1]
               /\ pinned' = [pinned EXCEPT ![a] = p]
  BY <1>3
<1>5. /\ DOMAIN pinned = Assessment /\ DOMAIN pinned' = Assessment
      /\ pinned'[a] = p /\ \A b \in Assessment \ {a} : pinned'[b] = pinned[b]
  BY <1>4 DEF RegistryInv, PinInv
<1>6. Stable
  BY <1>1, <1>4, <1>5 DEF Stable
<1>7. scored[a] = {}
  BY <1>4 DEF RegistryInv, PinInv, PinHolds
<1>8. PinHolds'
  BY <1>1, <1>5, <1>7 DEF RegistryInv, PinInv, PinHolds
<1>9. PinInv'
  BY <1>1, <1>2, <1>4, <1>5, <1>8 DEF RegistryInv, PinInv, Asked
<1>q. QED BY <1>1, <1>6, <1>9, CallingStep

LEMMA ScoreStep ==
  ASSUME RegistryInv, NEW t \in Thread, Score(t)
  PROVE  RegistryInv'
<1>1. pc[t] = "score" /\ Done(t) /\ UNCHANGED <<release, registry, missed, pinned>>
  BY DEF Score
<1>2. PICK c : /\ c = call[t] /\ Asked(c) /\ c.then = "score"
               /\ c.got # Nothing => Usable(c.key, c.got)
  BY <1>1 DEF RegistryInv, CallsInv, CallOK, Purpose
<1> DEFINE a   == c.assessment
           new == IF c.got = Nothing THEN {} ELSE {c.got.file}
<1>3. /\ a \in Assessment /\ pinned[a] # Nothing /\ pinned[a].name = c.key[1]
      /\ pinned[a].version # Nothing => pinned[a].version = c.key[2]
  BY <1>2 DEF Asked
<1>4. /\ DOMAIN scored = Assessment /\ DOMAIN scored' = Assessment
      /\ scored'[a] = scored[a] \cup new
      /\ \A b \in Assessment \ {a} : scored'[b] = scored[b]
  <2>1. scored' = [scored EXCEPT ![a] = scored[a] \cup new]
    BY <1>2 DEF Score
  <2>q. QED BY <1>3, <2>1 DEF RegistryInv, PinInv
<1>5. Stable
  BY <1>1 DEF Stable
<1>6. ASSUME NEW f \in new, pinned[a].version # Nothing
      PROVE  VersionIn[f] = pinned[a].version /\ f \in ToSet(Known[release][pinned[a].name])
  BY <1>2, <1>3, <1>6 DEF Usable, Right
<1> HIDE DEF a, new
<1>7. PinHolds'
  <2> SUFFICES ASSUME NEW b \in Assessment
               PROVE  /\ scored'[b] # {} => pinned[b] # Nothing
                      /\ pinned[b] # Nothing /\ pinned[b].version # Nothing =>
                           \A f \in scored'[b] :
                             /\ VersionIn[f] = pinned[b].version
                             /\ f \in ToSet(Known[release][pinned[b].name])
    BY <1>1 DEF PinHolds
  <2>1. CASE b = a
    BY <1>3, <1>4, <1>6, <2>1 DEF RegistryInv, PinInv, PinHolds
  <2>2. CASE b # a
    BY <1>4, <2>2 DEF RegistryInv, PinInv, PinHolds
  <2>q. QED BY <2>1, <2>2
<1>8. PinInv'
  BY <1>1, <1>4, <1>7 DEF RegistryInv, PinInv
<1>q. QED BY <1>1, <1>5, <1>8, CallingStep

(* A release keeps the versions of the one before.                         *)
LEMMA KeptVersions ==
  ASSUME NEW r \in Release, NEW s \in {r, r + 1} \cap Release, NEW n \in Name
  PROVE  ToSet(Known[r][n]) \subseteq ToSet(Known[s][n])
<1>1. CASE s = r
  BY <1>1
<1>2. CASE s = r + 1
  <2>1. IsPrefix(Known[r][n], Known[s][n])
    BY <1>2, KnownAssumption
  <2>2. PICK x, y : x = Known[r][n] /\ y = Known[s][n] /\ x \in Seq(File) /\ y \in Seq(File)
    BY KnownFiles
  <2>3. Len(x) <= Len(y) /\ SubSeq(x, 1, Len(x)) = SubSeq(y, 1, Len(x))
    BY <2>1, <2>2 DEF IsPrefix
  <2>4. Len(x) \in Nat /\ Len(y) \in Nat /\ DOMAIN x = 1..Len(x) /\ DOMAIN y = 1..Len(y)
    BY <2>2, LenProperties
  <2>5. \A i \in 1..Len(x) : SubSeq(x, 1, Len(x))[i] = x[i] /\ SubSeq(y, 1, Len(x))[i] = y[i]
    BY <2>2, <2>3, <2>4
  <2>6. \A i \in DOMAIN x : i \in DOMAIN y /\ x[i] = y[i]
    BY <2>3, <2>4, <2>5
  <2>q. QED BY <2>2, <2>6 DEF ToSet
<1>q. QED BY <1>1, <1>2

LEMMA RestartStep ==
  ASSUME RegistryInv, Restart
  PROVE  RegistryInv'
<1>1. /\ release' \in {release, release + 1} \cap Release
      /\ cache' = [k \in {} |-> Nothing] /\ entries' = Nothing /\ index' = Nothing
      /\ pc' = [t \in Thread |-> "idle"] /\ call' = [t \in Thread |-> Idle]
      /\ pinned' = pinned /\ scored' = scored
  BY DEF Restart, stored
<1>2. CacheInv' /\ EntriesInv' /\ IndexInv'
  BY <1>1 DEF CacheInv, EntriesInv, IndexInv
<1>3. CallsInv'
  BY <1>1 DEF CallsInv, CallOK, Label, Filling, Purpose
<1>4. PinHolds'
  <2> SUFFICES ASSUME NEW a \in Assessment, pinned[a] # Nothing, pinned[a].version # Nothing,
                      NEW f \in scored[a]
               PROVE  f \in ToSet(Known[release'][pinned[a].name])
    BY <1>1 DEF RegistryInv, PinInv, PinHolds
  <2>1. pinned[a].name \in Name /\ f \in ToSet(Known[release][pinned[a].name])
    BY DEF RegistryInv, PinInv, PinHolds
  <2>2. ToSet(Known[release][pinned[a].name]) \subseteq ToSet(Known[release'][pinned[a].name])
    BY <1>1, <2>1, KeptVersions DEF RegistryInv
  <2>q. QED BY <2>1, <2>2
<1>5. PinInv'
  BY <1>1, <1>4 DEF RegistryInv, PinInv
<1>q. QED BY <1>1, <1>2, <1>3, <1>5 DEF RegistryInv

LEMMA InitRegistryInv == InitRegistry => RegistryInv
<1> SUFFICES ASSUME InitRegistry PROVE RegistryInv
  OBVIOUS
<1>1. CacheInv /\ EntriesInv /\ IndexInv
  BY DEF InitRegistry, CacheInv, EntriesInv, IndexInv
<1>2. CallsInv
  BY DEF InitRegistry, CallsInv, CallOK, Label, Filling, Purpose
<1>3. PinInv
  BY DEF InitRegistry, PinInv, PinHolds
<1>q. QED BY <1>1, <1>2, <1>3, KnownAssumption DEF InitRegistry, RegistryInv

LEMMA NextRegistryInv ==
  ASSUME RegistryInv, [NextRegistry]_allVars
  PROVE  RegistryInv'
<1>1. CASE UNCHANGED allVars
  <2>1. /\ release' = release /\ cache' = cache /\ entries' = entries /\ index' = index
        /\ pc' = pc /\ call' = call /\ missed' = missed /\ pinned' = pinned /\ scored' = scored
    BY <1>1 DEF allVars, registry, stored
  <2>2. Stable
    BY <2>1 DEF Stable
  <2>3. CacheInv' /\ EntriesInv' /\ IndexInv'
    BY <2>1, <2>2, StableCache, StableEntries, StableIndex DEF RegistryInv
  <2>4. CallsInv'
    <3> SUFFICES ASSUME NEW t \in Thread PROVE CallOK(pc[t], call[t])'
      BY <2>1 DEF RegistryInv, CallsInv
    <3>1. PICK l, c : l = pc[t] /\ c = call[t] /\ CallOK(l, c)
      BY DEF RegistryInv, CallsInv
    <3>2. CallOK(l, c)'
      BY <2>2, <3>1, StableCall DEF RegistryInv, PinInv
    <3>3. l = pc'[t] /\ c = call'[t]
      BY <2>1, <3>1
    <3>q. QED BY <3>2, <3>3
  <2>5. PinInv'
    BY <2>1 DEF RegistryInv, PinInv, PinHolds
  <2>q. QED BY <2>1, <2>3, <2>4, <2>5 DEF RegistryInv
<1>2. ASSUME NEW t \in Thread, NEW a \in Assessment, BeginScore(t, a) PROVE RegistryInv'
  <2>1. pinned[a] # Nothing /\ pinned[a].name \in Name
    BY <1>2 DEF BeginScore, RegistryInv, PinInv
  <2>2. PICK n \in Name : \E v :
          n = pinned[a].name /\ v = pinned[a].version /\ Get(t, "score", a, n, v)
    BY <1>2, <2>1 DEF BeginScore
  <2>q. QED BY <2>1, <2>2, GetStep DEF Purpose
<1>3. ASSUME NEW t \in Thread, NEW n \in Name, NEW v, BeginCreate(t, n, v) \/ Browse(t, n, v)
      PROVE  RegistryInv'
  <2>1. PICK then \in {"create", "browse"} : Get(t, then, Nothing, n, v)
    BY <1>3 DEF BeginCreate, Browse
  <2>q. QED BY <2>1, GetStep DEF Purpose
<1>q. QED
  BY <1>1, <1>2, <1>3, OpenFileStep, LoadEntriesStep, ReadEntriesStep, LoadIndexStep,
     BuildIndexStep, StoreStep, CreateStep, ScoreStep, RestartStep DEF NextRegistry

LEMMA RegistryInvariant == RegistrySpec => []RegistryInv
<1>1. RegistryInv /\ [NextRegistry]_allVars => RegistryInv'
  BY NextRegistryInv
<1>q. QED BY <1>1, InitRegistryInv, PTL DEF RegistrySpec

(* ADR-0019, ADR-0055: whatever threads of a process build a definition at *)
(* the same time, and whichever of its files are not found, each one that  *)
(* the registry keeps, or that a caller goes on with, lists every reviewed *)
(* equivalent of every practice once, but for those only a file that was   *)
(* not found would have given; of any release, for any files and pairs.    *)
THEOREM DefinitionsAreWholeTheorem == RegistrySpec => []DefinitionsAreWhole
<1>1. RegistryInv => DefinitionsAreWhole
  <2> SUFFICES ASSUME RegistryInv, NEW d \in InUse PROVE Whole(d)
    BY DEF DefinitionsAreWhole
  <2>1. CASE d \in {cache[k] : k \in DOMAIN cache}
    BY <2>1 DEF RegistryInv, CacheInv, Usable
  <2>2. CASE d \in {call[t].got : t \in Answering}
    <3>1. PICK t \in Answering : d = call[t].got
      BY <2>2
    <3>2. t \in Thread /\ pc[t] \in Purpose /\ CallOK(pc[t], call[t]) /\ d # Nothing
      BY <3>1 DEF Answering, Purpose, InUse, RegistryInv, CallsInv
    <3>q. QED BY <3>1, <3>2 DEF CallOK, Usable
  <2>q. QED BY <2>1, <2>2 DEF InUse
<1>q. QED BY <1>1, RegistryInvariant, PTL

(* ADR-0031, ADR-0053: an assessment is scored with files of the version   *)
(* it was created under and no other, through every restart into a later   *)
(* release, if that adds versions to a framework and keeps the ones it has.*)
THEOREM PinHoldsTheorem == RegistrySpec => []PinHolds
<1>1. RegistryInv => PinHolds
  BY DEF RegistryInv, PinInv
<1>q. QED BY <1>1, RegistryInvariant, PTL

=============================================================================
