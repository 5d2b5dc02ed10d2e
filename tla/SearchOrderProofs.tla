-------------------------- MODULE SearchOrderProofs --------------------------
(***************************************************************************)
(* The search, for any dictionary, any phrase and any number of threads:   *)
(* it finds every anagram that it should, and finds it once.               *)
(***************************************************************************)
EXTENDS CombineSubsetsProofs, WellFoundedInduction

\* A set of numbers that is not empty has a least one, and a greatest one if it is bounded.
LEMMA Least ==
  ASSUME NEW S \in SUBSET Nat, S # {}
  PROVE  \E m \in S : \A n \in S : m <= n
  <1>1. PICK m \in S : \A n \in S : ~ (<<n, m>> \in OpToRel(<, Nat))
    BY NatLessThanWellFounded, WFMin
  <1>2. \A n \in S : ~ (n < m)
    <2>1. \A n, k \in Nat : n < k => <<n, k>> \in OpToRel(<, Nat)
      BY DEF OpToRel
    <2> QED
      BY <1>1, <2>1
  <1> QED
    BY <1>2

LEMMA Greatest ==
  ASSUME NEW bound \in Nat, NEW S \in SUBSET (0 .. bound), S # {}
  PROVE  \E m \in S : \A n \in S : n <= m
  <1> DEFINE gaps == {bound - n : n \in S}
  <1>1. gaps \in SUBSET Nat /\ gaps # {}
    <2>1. \A n \in S : n \in 0 .. bound /\ bound - n \in Nat
      OBVIOUS
    <2>2. PICK n \in S : TRUE
      OBVIOUS
    <2>3. bound - n \in gaps
      OBVIOUS
    <2> QED
      BY <2>1, <2>3
  <1>2. PICK gap \in gaps : \A g \in gaps : gap <= g
    <2> HIDE DEF gaps
    <2> QED
      BY <1>1, Least
  <1>3. PICK m \in S : gap = bound - m
    BY <1>2
  <1>4. \A n \in S : bound - m <= bound - n
    BY <1>2, <1>3
  <1> QED
    BY <1>4

\* Numbers with the same remainder are at least n apart.
LEMMA Apart ==
  ASSUME NEW n \in Nat \ {0}, NEW k \in Int, NEW m \in Int, k < m
  PROVE  n * k + n <= n * m
  <1>1. PICK d \in Nat : m = k + 1 + d
    <2>1. m - k - 1 \in Nat /\ m = k + 1 + (m - k - 1)
      OBVIOUS
    <2> QED
      BY <2>1
  <1>2. n * m = n * k + n + n * d
    BY <1>1
  <1>3. n * d \in Nat /\ n * k \in Int
    OBVIOUS
  <1> QED
    BY <1>2, <1>3

LEMMA Remainder ==
  ASSUME NEW n \in Nat \ {0}, NEW r \in Nat
  PROVE  r = n * (r \div n) + (r % n) /\ r % n \in 0 .. n - 1 /\ r \div n \in Nat
  OBVIOUS

LEMMA RemainderSame ==
  ASSUME NEW n \in Nat \ {0}, NEW r \in Nat
  PROVE  (r + n) % n = r % n
  <1> DEFINE k == r \div n
             m == (r + n) \div n
             a == r % n
             b == (r + n) % n
  <1>1. /\ r = n * k + a /\ k \in Nat /\ a \in 0 .. n - 1
        /\ r + n = n * m + b /\ m \in Nat /\ b \in 0 .. n - 1
    <2>1. r + n \in Nat
      OBVIOUS
    <2> QED
      BY <2>1, Remainder
  <1> HIDE DEF k, m, a, b
  <1>2. n * (k + 1) = n * k + n /\ n * k \in Int /\ n * m \in Int
    BY <1>1
  <1>3. ~ (m < k + 1)
    <2>1. m < k + 1 => n * m + n <= n * (k + 1)
      BY <1>1, Apart
    <2> QED
      BY <2>1, <1>1, <1>2
  <1>4. ~ (k + 1 < m)
    <2>1. k + 1 < m => n * (k + 1) + n <= n * m
      BY <1>1, Apart
    <2> QED
      BY <2>1, <1>1, <1>2
  <1>5. m = k + 1
    BY <1>1, <1>3, <1>4
  <1>6. a = b
    BY <1>1, <1>2, <1>5
  <1> QED
    BY <1>6 DEF a, b

LEMMA RemainderApart ==
  ASSUME NEW n \in Nat \ {0}, NEW r \in Nat, NEW s \in Nat, r % n = s % n, r < s
  PROVE  r + n <= s
  <1> DEFINE k == r \div n
             m == s \div n
             a == r % n
  <1>1. /\ r = n * k + a /\ k \in Nat /\ a \in 0 .. n - 1
        /\ s = n * m + a /\ m \in Nat
    BY Remainder
  <1> HIDE DEF k, m, a
  <1>2. n * k \in Int /\ n * m \in Int
    BY <1>1
  <1>3. n * k < n * m
    BY <1>1, <1>2
  <1>4. ~ (m < k) /\ m # k
    <2>1. m < k => n * m + n <= n * k
      BY <1>1, Apart
    <2> QED
      BY <2>1, <1>2, <1>3
  <1>5. n * k + n <= n * m
    BY <1>1, <1>4, Apart
  <1> QED
    BY <1>1, <1>2, <1>5

-----------------------------------------------------------------------------
\* The order of phrases.
LEMMA BeforeSame ==
  ASSUME NEW p \in Seq(Nat)
  PROVE  ~ Before(p, p)
  BY DEF Before

LEMMA BeforeBefore ==
  ASSUME NEW p \in Seq(Nat), NEW q \in Seq(Nat), NEW r \in Seq(Nat), Before(p, q), Before(q, r)
  PROVE  Before(p, r)
  <1>1. PICK m \in 1 .. Len(q) :
          /\ m <= Len(p) + 1 /\ \A k \in 1 .. m - 1 : p[k] = q[k]
          /\ m <= Len(p) => p[m] < q[m]
    BY DEF Before
  <1>2. PICK n \in 1 .. Len(r) :
          /\ n <= Len(q) + 1 /\ \A k \in 1 .. n - 1 : q[k] = r[k]
          /\ n <= Len(q) => q[n] < r[n]
    BY DEF Before
  <1>3. Len(p) \in Nat /\ Len(q) \in Nat /\ Len(r) \in Nat
    OBVIOUS
  <1>4. /\ \A k \in 1 .. Len(p) : p[k] \in Nat
        /\ \A k \in 1 .. Len(q) : q[k] \in Nat
        /\ \A k \in 1 .. Len(r) : r[k] \in Nat
    OBVIOUS
  <1>5. CASE m < n
    <2>1. m \in 1 .. Len(r) /\ m \in 1 .. n - 1
      BY <1>3, <1>5
    <2>2. q[m] = r[m] /\ \A k \in 1 .. m - 1 : p[k] = r[k]
      BY <1>1, <1>2, <1>3, <1>5, <2>1
    <2> QED
      BY <1>1, <2>1, <2>2 DEF Before
  <1>6. CASE n <= m
    <2>1. n <= Len(p) + 1 /\ \A k \in 1 .. n - 1 : p[k] = r[k]
      BY <1>1, <1>2, <1>3, <1>6
    <2>2. ASSUME n <= Len(p)
          PROVE  p[n] < r[n]
      <3>1. n \in 1 .. Len(p) /\ n \in 1 .. Len(q)
        BY <1>3, <1>6, <2>2
      <3>2. p[n] \in Nat /\ q[n] \in Nat /\ r[n] \in Nat /\ q[n] < r[n]
        BY <1>2, <1>4, <3>1
      <3>3. n = m => p[n] < q[n]
        BY <1>1, <3>1
      <3>4. n # m => p[n] = q[n]
        BY <1>1, <1>3, <1>6, <3>1
      <3> QED
        BY <3>2, <3>3, <3>4
    <2> QED
      BY <2>1, <2>2 DEF Before
  <1> QED
    BY <1>5, <1>6

\* The points that a thread comes to, one after the other.
LEMMA BeforeLonger ==
  ASSUME NEW p \in Seq(Nat), NEW v \in Nat
  PROVE  Before(p, Append(p, v))
  <1> DEFINE q == Append(p, v)
  <1>1. Len(p) \in Nat /\ Len(q) = Len(p) + 1 /\ \A k \in 1 .. Len(p) : q[k] = p[k]
    OBVIOUS
  <1> HIDE DEF q
  <1>2. Len(p) + 1 \in 1 .. Len(q) /\ \A k \in 1 .. (Len(p) + 1) - 1 : p[k] = q[k]
    BY <1>1
  <1> QED
    BY <1>1, <1>2 DEF Before, q

LEMMA BeforeLater ==
  ASSUME NEW p \in Seq(Nat), NEW v \in Nat, NEW w \in Nat, v < w
  PROVE  Before(Append(p, v), Append(p, w))
  <1> DEFINE q == Append(p, v)
             r == Append(p, w)
             n == Len(p) + 1
  <1>1. /\ n \in Nat \ {0} /\ Len(q) = n /\ Len(r) = n /\ q[n] = v /\ r[n] = w
        /\ \A k \in 1 .. n - 1 : q[k] = p[k] /\ r[k] = p[k]
    OBVIOUS
  <1> HIDE DEF q, r, n
  <1> QED
    BY <1>1 DEF Before, q, r

LEMMA BeforeBack ==
  ASSUME NEW p \in Seq(Nat), NEW v \in Nat, NEW w \in Nat, v < w, NEW e
  PROVE  Before(Append(Append(p, v), e), Append(p, w))
  <1> DEFINE o == Append(p, v)
             q == Append(o, e)
             r == Append(p, w)
             n == Len(p) + 1
  <1>1. /\ n \in Nat \ {0} /\ Len(o) = n /\ Len(r) = n /\ o[n] = v /\ r[n] = w /\ o \in Seq(Nat)
        /\ \A k \in 1 .. n - 1 : o[k] = p[k] /\ r[k] = p[k]
    OBVIOUS
  <1> HIDE DEF o, r, n
  <1>2. Len(q) = n + 1 /\ \A k \in 1 .. n : q[k] = o[k]
    BY <1>1
  <1> HIDE DEF q
  <1>3. n \in 1 .. Len(r) /\ n <= Len(q) + 1 /\ q[n] < r[n] /\ \A k \in 1 .. n - 1 : q[k] = r[k]
    BY <1>1, <1>2
  <1> QED
    BY <1>3 DEF Before, q, o, r

\* What lies between two points.  p begins q:
Begins(p, q) == Len(p) <= Len(q) /\ \A k \in 1 .. Len(p) : q[k] = p[k]

\* from a word to the next one of those that may stand there
LEMMA BetweenLater ==
  ASSUME NEW p \in Seq(Nat), NEW v \in Nat, NEW w \in Nat, NEW q \in Seq(Nat),
         Len(q) > Len(p) /\ q[Len(p) + 1] < w => q[Len(p) + 1] <= v,
         Before(q, Append(p, w))
  PROVE  Before(q, Append(p, v)) \/ Begins(Append(p, v), q)
  <1> DEFINE o == Append(p, v)
             r == Append(p, w)
             l == Len(p) + 1
  <1>1. /\ l \in Nat \ {0} /\ Len(o) = l /\ Len(r) = l /\ o[l] = v /\ r[l] = w
        /\ \A k \in 1 .. l - 1 : o[k] = r[k]
        /\ l <= Len(q) /\ q[l] < w => q[l] <= v
    OBVIOUS
  <1>2. Before(q, r)
    OBVIOUS
  <1> HIDE DEF o, r, l
  <1>3. PICK n \in 1 .. l :
          /\ n <= Len(q) + 1 /\ \A k \in 1 .. n - 1 : q[k] = r[k]
          /\ n <= Len(q) => q[n] < r[n]
    BY <1>1, <1>2 DEF Before
  <1>4. \A k \in 1 .. n - 1 : q[k] = o[k]
    BY <1>1, <1>3
  <1>5. CASE n < l \/ n = Len(q) + 1
    <2>1. n <= Len(q) => q[n] < o[n]
      BY <1>1, <1>3, <1>5
    <2> QED
      BY <1>1, <1>3, <1>4, <2>1 DEF Before, o
  <1>6. CASE n = l /\ n # Len(q) + 1
    <2>1. Len(q) \in Nat /\ n \in 1 .. Len(q) /\ q[n] \in Nat /\ q[n] <= v
      BY <1>1, <1>3, <1>6
    <2>2. CASE q[n] = v
      <3>1. \A k \in 1 .. l : q[k] = o[k]
        BY <1>1, <1>4, <1>6, <2>2
      <3> QED
        BY <1>1, <1>6, <2>1, <3>1 DEF Begins, o
    <2>3. CASE q[n] < v
      BY <1>1, <1>3, <1>4, <1>6, <2>3 DEF Before, o
    <2> QED
      BY <2>1, <2>2, <2>3
  <1> QED
    BY <1>1, <1>3, <1>5, <1>6

\* from a phrase to a longer one
LEMMA BetweenLonger ==
  ASSUME NEW p \in Seq(Nat), NEW v \in Nat, NEW q \in Seq(Nat), Before(q, Append(p, v))
  PROVE  \/ Before(q, p) \/ q = p
         \/ Begins(p, q) /\ Len(q) > Len(p) /\ q[Len(p) + 1] < v
  <1> DEFINE r == Append(p, v)
             l == Len(p)
  <1>1. l \in Nat /\ Len(r) = l + 1 /\ r[l + 1] = v /\ \A k \in 1 .. l : r[k] = p[k]
    OBVIOUS
  <1>2. Before(q, r)
    OBVIOUS
  <1> HIDE DEF r
  <1>3. PICK n \in 1 .. l + 1 :
          /\ n <= Len(q) + 1 /\ \A k \in 1 .. n - 1 : q[k] = r[k]
          /\ n <= Len(q) => q[n] < r[n]
    BY <1>1, <1>2 DEF Before
  <1>4. \A k \in 1 .. n - 1 : q[k] = p[k]
    BY <1>1, <1>3
  <1>5. CASE n <= l
    <2>1. n <= Len(q) => q[n] < p[n]
      BY <1>1, <1>3, <1>5
    <2> QED
      BY <1>1, <1>3, <1>4, <1>5, <2>1 DEF Before
  <1>6. CASE n = l + 1
    <2>1. Len(q) \in Nat /\ Len(q) >= l /\ \A k \in 1 .. l : q[k] = p[k]
      BY <1>1, <1>3, <1>4, <1>6
    <2>2. Begins(p, q)
      BY <2>1 DEF Begins
    <2>3. CASE Len(q) = l
      <3>1. q = p
        BY <2>1, <2>3, SeqEqual
      <3> QED
        BY <3>1
    <2>4. CASE Len(q) # l
      BY <1>1, <1>3, <1>6, <2>1, <2>2, <2>4
    <2> QED
      BY <2>3, <2>4
  <1> QED
    BY <1>1, <1>3, <1>5, <1>6

\* to the end of those that a phrase begins.
LEMMA BetweenEnd ==
  ASSUME NEW p \in Seq(Nat), NEW e \in Nat, NEW q \in Seq(Nat), Begins(p, q),
         \A n \in 1 .. Len(q) : q[n] < e
  PROVE  Before(q, Append(p, e))
  <1> DEFINE r == Append(p, e)
             l == Len(p)
  <1>1. /\ l \in Nat /\ Len(r) = l + 1 /\ r[l + 1] = e /\ (\A k \in 1 .. l : r[k] = p[k])
        /\ Len(q) \in Nat
    OBVIOUS
  <1> HIDE DEF r
  <1>2. \A k \in 1 .. (l + 1) - 1 : q[k] = r[k]
    BY <1>1 DEF Begins
  <1>3. l + 1 \in 1 .. Len(r) /\ l + 1 <= Len(q) + 1 /\ (l + 1 <= Len(q) => q[l + 1] < r[l + 1])
    BY <1>1 DEF Begins
  <1> QED
    BY <1>2, <1>3 DEF Before, r

-----------------------------------------------------------------------------
\* Every word has a first letter.
LEMMA FirstLetter ==
  ASSUME NEW w \in Words
  PROVE  WordList[w][1] \in Chars /\ 1 \in PlacesOf(WordList[w][1], w)
  <1> DEFINE Spelling == Seq(Chars) \ {<<>>}
  <1>1. WordList \in Seq(Spelling) /\ w \in 1 .. Len(WordList)
    BY ConstantsAssumption DEF Words
  <1>2. WordList[w] \in Spelling
    <2> HIDE DEF Spelling
    <2> QED
      BY <1>1
  <1> QED
    BY <1>2 DEF PlacesOf

\* A set with an element more is larger.
LEMMA OneMore ==
  ASSUME NEW S, IsFiniteSet(S), NEW T \in SUBSET S, NEW x \in S, x \notin T
  PROVE  /\ Cardinality(T) \in Nat /\ Cardinality(S) \in Nat /\ Cardinality(T) < Cardinality(S)
  <1>1. IsFiniteSet(T) /\ Cardinality(T) <= Cardinality(S) /\ (Cardinality(S) = Cardinality(T) => S = T)
    BY FS_Subset
  <1>2. Cardinality(T) \in Nat /\ Cardinality(S) \in Nat
    BY <1>1, FS_CardinalityType
  <1>3. Cardinality(S) # Cardinality(T)
    BY <1>1
  <1> QED
    BY <1>1, <1>2, <1>3

\* A phrase has at least the letters of one that begins it, and more if it is longer.
LEMMA CountBegins ==
  ASSUME NEW p \in Seq(Words), NEW q \in Seq(Words), Begins(p, q)
  PROVE  /\ \A c \in Chars : CharCount(p)[c] <= CharCount(q)[c]
         /\ Len(p) < Len(q) => CharCount(p) # CharCount(q)
  <1>1. Len(p) \in Nat /\ Len(q) \in Nat /\ Len(p) <= Len(q) /\ \A k \in 1 .. Len(p) : q[k] = p[k]
    BY DEF Begins
  <1>2. ASSUME NEW c \in Chars
        PROVE  /\ IsFiniteSet(Occurrences(c, q)) /\ Occurrences(c, p) \subseteq Occurrences(c, q)
               /\ CharCount(p)[c] = Cardinality(Occurrences(c, p))
               /\ CharCount(q)[c] = Cardinality(Occurrences(c, q))
    <2>1. \A k \in 1 .. Len(p) : k \in 1 .. Len(q)
      BY <1>1
    <2>2. Occurrences(c, p) \subseteq Occurrences(c, q)
      BY <1>1, <2>1 DEF Occurrences
    <2> QED
      BY <2>2, OccurrencesFinite DEF CharCount, Occurrences
  <1>3. \A c \in Chars : CharCount(p)[c] <= CharCount(q)[c]
    BY <1>2, FS_Subset
  <1>4. ASSUME Len(p) < Len(q)
        PROVE  CharCount(p) # CharCount(q)
    <2> DEFINE n == Len(p) + 1
               c == WordList[q[n]][1]
    <2>1. n \in 1 .. Len(q) /\ n \notin 1 .. Len(p) /\ q[n] \in Words
      BY <1>1, <1>4
    <2>2. c \in Chars /\ 1 \in PlacesOf(c, q[n])
      BY <2>1, FirstLetter
    <2> HIDE DEF n, c
    <2>3. <<n, 1>> \in Occurrences(c, q) /\ <<n, 1>> \notin Occurrences(c, p)
      BY <2>1, <2>2 DEF Occurrences
    <2>4. /\ Cardinality(Occurrences(c, p)) < Cardinality(Occurrences(c, q))
          /\ Cardinality(Occurrences(c, p)) \in Nat /\ Cardinality(Occurrences(c, q)) \in Nat
      BY <1>2, <2>2, <2>3, OneMore
    <2> QED
      BY <1>2, <2>2, <2>4
  <1> QED
    BY <1>3, <1>4

\* A phrase of several words has the letters of each, and more.
LEMMA CountWord ==
  ASSUME NEW q \in Seq(Words), Len(q) > 1, NEW n \in 1 .. Len(q)
  PROVE  /\ \A c \in Chars : CharCount(<<q[n]>>)[c] <= CharCount(q)[c]
         /\ CharCount(<<q[n]>>) # CharCount(q)
  <1> DEFINE w == q[n]
             part(c) == {n} \X PlacesOf(c, w)
  <1>1. Len(q) \in Nat /\ w \in Words /\ <<w>> \in Seq(Words)
    OBVIOUS
  <1>2. ASSUME NEW c \in Chars
        PROVE  /\ IsFiniteSet(Occurrences(c, q)) /\ part(c) \subseteq Occurrences(c, q)
               /\ CharCount(<<w>>)[c] = Cardinality(part(c))
               /\ CharCount(q)[c] = Cardinality(Occurrences(c, q))
    <2>1. part(c) \subseteq Occurrences(c, q)
      BY DEF Occurrences
    <2>2. Occurrences(c, <<w>>) = {1} \X PlacesOf(c, w)
      <3>1. 1 .. 1 = {1} /\ Len(<<w>>) = 1 /\ <<w>>[1] = w
        OBVIOUS
      <3> QED
        BY <3>1 DEF Occurrences
    <2>3. \A k : Cardinality({k} \X PlacesOf(c, w)) = Cardinality(PlacesOf(c, w))
      <3> SUFFICES ASSUME NEW k
                   PROVE  Cardinality({k} \X PlacesOf(c, w)) = Cardinality(PlacesOf(c, w))
        OBVIOUS
      <3>1. IsFiniteSet({k}) /\ Cardinality({k}) = 1 /\ IsFiniteSet(PlacesOf(c, w))
        BY <1>1, FS_Singleton, PlacesFinite
      <3>2. Cardinality(PlacesOf(c, w)) \in Nat
        BY <3>1, FS_CardinalityType
      <3> QED
        <4> DEFINE places == PlacesOf(c, w)
        <4>1. IsFiniteSet({k}) /\ Cardinality({k}) = 1 /\ IsFiniteSet(places) /\ Cardinality(places) \in Nat
          BY <3>1, <3>2
        <4> HIDE DEF places
        <4>2. Cardinality({k} \X places) = Cardinality({k}) * Cardinality(places)
          BY <4>1, FS_Product
        <4>3. Cardinality({k} \X places) = Cardinality(places)
          BY <4>1, <4>2
        <4> QED
          BY <4>3 DEF places
    <2>4. /\ CharCount(<<w>>)[c] = Cardinality(Occurrences(c, <<w>>))
          /\ CharCount(q)[c] = Cardinality(Occurrences(c, q))
      BY DEF CharCount, Occurrences
    <2> QED
      BY <2>1, <2>2, <2>3, <2>4, OccurrencesFinite
  <1>3. \A c \in Chars : CharCount(<<w>>)[c] <= CharCount(q)[c]
    BY <1>2, FS_Subset
  <1>4. CharCount(<<w>>) # CharCount(q)
    <2>1. PICK m \in 1 .. Len(q) : m # n
      <3>1. 1 \in 1 .. Len(q) /\ 2 \in 1 .. Len(q)
        BY <1>1
      <3> QED
        BY <3>1
    <2> DEFINE c == WordList[q[m]][1]
    <2>2. c \in Chars /\ 1 \in PlacesOf(c, q[m])
      BY FirstLetter
    <2> HIDE DEF c
    <2>3. <<m, 1>> \in Occurrences(c, q) /\ <<m, 1>> \notin part(c)
      BY <2>1, <2>2 DEF Occurrences
    <2>4. /\ Cardinality(part(c)) < Cardinality(Occurrences(c, q))
          /\ Cardinality(part(c)) \in Nat /\ Cardinality(Occurrences(c, q)) \in Nat
      <3> HIDE DEF part
      <3> QED
        BY <1>2, <2>2, <2>3, OneMore
    <2> HIDE DEF part
    <2> QED
      BY <1>2, <2>2, <2>4
  <1> QED
    BY <1>3, <1>4

-----------------------------------------------------------------------------
\* The number of partial words from one word on and before another.
Between(w, v) == {u \in subset : w <= u /\ u < v}

LEMMA BetweenFinite ==
  ASSUME subset \subseteq Words, NEW w, NEW v
  PROVE  /\ IsFiniteSet(subset) /\ IsFiniteSet(Between(w, v))
         /\ Cardinality(Between(w, v)) \in Nat
         /\ IsFiniteSet({u \in subset : u < v}) /\ Rank(v) \in Nat
  <1>1. IsFiniteSet(Words)
    BY WordNumbers, FS_Interval DEF Words
  <1>2. IsFiniteSet(subset)
    BY <1>1, FS_Subset
  <1>3. IsFiniteSet(Between(w, v)) /\ IsFiniteSet({u \in subset : u < v})
    BY <1>2, FS_Subset DEF Between
  <1> QED
    BY <1>2, <1>3, FS_CardinalityType DEF Rank

LEMMA RankBetween ==
  ASSUME subset \subseteq Words, NEW w \in Words \union {End}, NEW v \in Words \union {End}, w <= v
  PROVE  Rank(v) = Rank(w) + Cardinality(Between(w, v))
  <1> DEFINE A == {u \in subset : u < w}
             B == Between(w, v)
             C == {u \in subset : u < v}
  <1>1. w \in Nat /\ v \in Nat /\ \A u \in subset : u \in Nat
    BY WordNumbers
  <1>2. C = A \union B /\ A \intersect B = {}
    <2>1. \A u \in subset : (u < v <=> u < w \/ (w <= u /\ u < v)) /\ ~ (u < w /\ w <= u)
      BY <1>1
    <2> QED
      BY <2>1 DEF Between
  <1>3. IsFiniteSet(A) /\ IsFiniteSet(B) /\ Cardinality({}) = 0
    BY BetweenFinite, FS_EmptySet
  <1>4. Rank(v) = Cardinality(C) /\ Rank(w) = Cardinality(A)
    BY DEF Rank
  <1> HIDE DEF A, B, C
  <1>5. Cardinality(C) = Cardinality(A) + Cardinality(B) - Cardinality({})
    BY <1>2, <1>3, FS_Union
  <1>6. Cardinality(A) \in Nat /\ Cardinality(B) \in Nat
    BY <1>3, FS_CardinalityType
  <1> QED
    BY <1>3, <1>4, <1>5, <1>6 DEF B

LEMMA RankLess ==
  ASSUME subset \subseteq Words, NEW w \in subset, NEW v \in Words \union {End}, w < v
  PROVE  Rank(w) < Rank(v)
  <1>1. w \in Nat /\ v \in Nat /\ w \in Words
    BY WordNumbers
  <1>2. Rank(v) = Rank(w) + Cardinality(Between(w, v))
    BY <1>1, RankBetween
  <1>3. w \in Between(w, v)
    BY <1>1 DEF Between
  <1>4. Cardinality(Between(w, v)) # 0
    BY <1>3, BetweenFinite, FS_EmptySet
  <1>5. Cardinality(Between(w, v)) \in Nat /\ Rank(w) \in Nat
    BY BetweenFinite
  <1> QED
    BY <1>2, <1>4, <1>5

\* The iterator n words further is n words further, and at the end if there are none.
LEMMA AdvanceBetween ==
  ASSUME subset \subseteq Words, NEW w \in Words \union {End}, NEW n \in Nat
  PROVE  /\ Advance(w, n) \in subset \union {End}
         /\ Advance(w, n) # End => /\ w <= Advance(w, n)
                                   /\ Cardinality(Between(w, Advance(w, n))) = n
         /\ Advance(w, n) = End => \A v \in subset : w <= v => Cardinality(Between(w, v)) < n
  <1> DEFINE far == {v \in subset : v >= w /\ Cardinality(Between(w, v)) >= n}
             reached == {v \in subset : v >= w /\ Cardinality(Between(w, v)) = n}
  <1>1. Advance(w, n) = IF reached = {} THEN End ELSE CHOOSE v \in reached : TRUE
    BY DEF Advance, Between
  <1>2. w \in Nat /\ End \notin subset /\ (\A v \in subset : v \in Nat /\ v \in 0 .. End)
    BY WordNumbers DEF Words, End
  <1>3. \A v : Cardinality(Between(w, v)) \in Nat
    BY BetweenFinite
  <1>4. ASSUME far # {}
        PROVE  reached # {}
    <2>1. PICK v \in far : \A u \in far : v <= u
      <3>1. far \in SUBSET Nat
        BY <1>2
      <3> HIDE DEF far
      <3> QED
        BY <1>4, <3>1, Least
    <2>2. v \in subset /\ v \in Nat /\ v >= w
      BY <1>2, <2>1
    <2>3. ASSUME Cardinality(Between(w, v)) > n
          PROVE  FALSE
      <3>1. Between(w, v) # {}
        BY <2>3, FS_EmptySet
      <3>2. PICK u \in Between(w, v) : \A x \in Between(w, v) : x <= u
        <4>1. Between(w, v) \in SUBSET (0 .. End) /\ End \in Nat
          BY <1>2, WordNumbers DEF Between
        <4> QED
          BY <3>1, <4>1, Greatest
      <3>3. u \in subset /\ u \in Nat /\ w <= u /\ u < v
        BY <1>2, <3>2 DEF Between
      <3>4. Between(w, v) \ {u} = Between(w, u)
        <4>1. \A x \in Between(w, v) : x \in Nat /\ x <= u
          BY <1>2, <3>2 DEF Between
        <4>2. \A x \in subset : x \in Between(w, v) /\ x # u <=> x \in Between(w, u)
          BY <1>2, <2>2, <3>3, <4>1 DEF Between
        <4> QED
          BY <4>2 DEF Between
      <3>5. Cardinality(Between(w, u)) = Cardinality(Between(w, v)) - 1
        <4> DEFINE most == Between(w, v)
        <4>1. IsFiniteSet(most) /\ u \in most
          BY <3>2, BetweenFinite
        <4> HIDE DEF most
        <4>2. Cardinality(most \ {u}) = Cardinality(most) - 1
          BY <4>1, FS_RemoveElement
        <4> QED
          BY <3>4, <4>2 DEF most
      <3>6. u \in far
        BY <1>3, <2>3, <3>3, <3>5
      <3> QED
        BY <2>1, <2>2, <3>3, <3>6
    <2>4. Cardinality(Between(w, v)) = n
      BY <1>3, <2>1, <2>3
    <2> QED
      BY <2>1, <2>4
  <1>5. CASE reached = {}
    <2>1. Advance(w, n) = End
      BY <1>1, <1>5
    <2>2. \A v \in subset : w <= v => Cardinality(Between(w, v)) < n
      BY <1>2, <1>3, <1>4, <1>5
    <2> QED
      BY <2>1, <2>2
  <1>6. CASE reached # {}
    <2>1. Advance(w, n) \in reached
      BY <1>1, <1>6
    <2> QED
      BY <1>2, <2>1
  <1> QED
    BY <1>5, <1>6

\* How far an iterator that stands at a partial word goes.
LEMMA AdvanceGap ==
  ASSUME subset \subseteq Words, NEW w \in subset, NEW n \in Nat \ {0}
  PROVE  /\ Advance(w, n) \in subset \union {End} /\ w < Advance(w, n)
         /\ Advance(w, n) # End => Rank(Advance(w, n)) = Rank(w) + n
         /\ \A u \in subset : u < Advance(w, n) => u <= w \/ Rank(u) < Rank(w) + n
  <1> DEFINE v == Advance(w, n)
  <1>1. /\ v \in subset \union {End}
        /\ v # End => w <= v /\ Cardinality(Between(w, v)) = n
        /\ v = End => \A u \in subset : w <= u => Cardinality(Between(w, u)) < n
    BY AdvanceBetween
  <1> HIDE DEF v
  <1>2. w \in Nat /\ w < End /\ End \in Nat /\ v \in Nat /\ \A u \in subset : u \in Nat
    BY <1>1, WordNumbers DEF Words, End
  <1>3. /\ \A u \in subset : w <= u => Rank(u) = Rank(w) + Cardinality(Between(w, u))
        /\ \A u : Rank(u) \in Nat /\ Cardinality(Between(w, u)) \in Nat
    BY RankBetween, BetweenFinite
  <1>4. v # End => Rank(v) = Rank(w) + n
    BY <1>1, <1>3
  <1>5. w < v
    <2>1. v # w
      <3>1. v = w => v # End
        BY <1>2
      <3> QED
        BY <1>3, <1>4, <3>1
    <2> QED
      BY <1>1, <1>2, <2>1
  <1>6. ASSUME NEW u \in subset, u < v, ~ (u <= w)
        PROVE  Rank(u) < Rank(w) + n
    <2>1. w <= u
      BY <1>2, <1>6
    <2>2. CASE v = End
      BY <1>1, <1>3, <2>1, <2>2
    <2>3. CASE v # End
      <3>1. Rank(u) < Rank(v)
        BY <1>1, <1>6, RankLess
      <3> QED
        BY <1>4, <2>3, <3>1
    <2> QED
      BY <2>2, <2>3
  <1> QED
    BY <1>1, <1>4, <1>5, <1>6 DEF v

\* To the next partial word,
LEMMA AdvanceNext ==
  ASSUME subset \subseteq Words, NEW w \in subset
  PROVE  /\ Advance(w, 1) \in subset \union {End} /\ w < Advance(w, 1)
         /\ \A u \in subset : u < Advance(w, 1) => u <= w
  <1>1. /\ Advance(w, 1) \in subset \union {End} /\ w < Advance(w, 1)
        /\ \A u \in subset : u < Advance(w, 1) => u <= w \/ Rank(u) < Rank(w) + 1
    BY AdvanceGap
  <1>2. ASSUME NEW u \in subset, Rank(u) < Rank(w) + 1, ~ (u <= w)
        PROVE  FALSE
    <2>1. u \in Nat /\ w \in Nat /\ w < u
      BY <1>2, WordNumbers
    <2>2. Rank(w) < Rank(u)
      BY <2>1, RankLess
    <2>3. Rank(u) \in Nat /\ Rank(w) \in Nat
      BY BetweenFinite
    <2> QED
      BY <1>2, <2>2, <2>3
  <1> QED
    BY <1>1, <1>2

\* to the next word of the share,
LEMMA AdvanceShare ==
  ASSUME subset \subseteq Words, input.cpu_tot \in Nat \ {0}, NEW w \in subset, NEW t, InShare(t, w)
  PROVE  LET v == Advance(w, input.cpu_tot) IN
           /\ v \in subset \union {End} /\ w < v
           /\ v # End => InShare(t, v)
           /\ \A u \in subset : InShare(t, u) /\ u < v => u <= w
  <1> DEFINE n == input.cpu_tot
             v == Advance(w, n)
  <1>1. n \in Nat \ {0} /\ Rank(w) \in Nat /\ Rank(w) % n = t
    BY BetweenFinite DEF InShare
  <1> HIDE DEF n
  <1>2. /\ v \in subset \union {End} /\ w < v
        /\ v # End => Rank(v) = Rank(w) + n
        /\ \A u \in subset : u < v => u <= w \/ Rank(u) < Rank(w) + n
    BY <1>1, AdvanceGap
  <1> HIDE DEF v
  <1>3. v # End => InShare(t, v)
    BY <1>1, <1>2, RemainderSame DEF InShare, n
  <1>4. ASSUME NEW u \in subset, InShare(t, u), u < v, ~ (u <= w)
        PROVE  FALSE
    <2>1. u \in Nat /\ w \in Nat /\ w < u
      BY <1>4, WordNumbers
    <2>2. Rank(w) < Rank(u) /\ Rank(u) \in Nat /\ Rank(u) % n = t
      BY <1>4, <2>1, RankLess, BetweenFinite DEF InShare, n
    <2>3. Rank(w) + n <= Rank(u)
      BY <1>1, <2>2, RemainderApart
    <2> QED
      BY <1>1, <1>2, <1>4, <2>2, <2>3
  <1> QED
    BY <1>2, <1>3, <1>4 DEF v, n

\* and to the first one.
LEMMA AdvanceFirst ==
  ASSUME subset \subseteq Words, input.cpu_tot \in Nat \ {0}, NEW t \in Started
  PROVE  LET v == Advance(1, t) IN
           /\ v \in subset \union {End}
           /\ v # End => InShare(t, v)
           /\ \A u \in subset : InShare(t, u) => v <= u
  <1> DEFINE n == input.cpu_tot
             v == Advance(1, t)
  <1>1. n \in Nat \ {0} /\ t \in 0 .. n - 1
    BY DEF Started
  <1>2. 1 \in Words \union {End} /\ \A u \in Words \union {End} : u \in Nat /\ 1 <= u
    <2>1. Len(WordList) \in Nat
      BY WordNumbers
    <2> QED
      BY <2>1 DEF Words, End
  <1>3. /\ v \in subset \union {End}
        /\ v # End => Cardinality(Between(1, v)) = t
        /\ v = End => \A u \in subset : 1 <= u => Cardinality(Between(1, u)) < t
    BY <1>1, <1>2, AdvanceBetween
  <1> HIDE DEF v, n
  <1>4. \A u \in subset : Rank(u) = Cardinality(Between(1, u)) /\ Rank(u) \in Nat
    <2>1. \A u \in subset : ~ (u < 1)
      BY <1>2
    <2>2. Rank(1) = 0
      BY <2>1, FS_EmptySet DEF Rank
    <2>3. \A u \in subset : Rank(u) = Rank(1) + Cardinality(Between(1, u))
      BY <1>2, RankBetween
    <2>4. \A u \in subset : Cardinality(Between(1, u)) \in Nat
      BY BetweenFinite
    <2> QED
      BY <2>2, <2>3, <2>4
  <1>5. v # End => Rank(v) = t
    BY <1>3, <1>4
  <1>6. v # End => InShare(t, v)
    <2>1. t % n = t
      BY <1>1
    <2> QED
      BY <1>5, <2>1 DEF InShare, n
  <1>7. ASSUME NEW u \in subset, InShare(t, u), ~ (v <= u)
        PROVE  FALSE
    <2>1. Rank(u) \in Nat /\ Rank(u) % n = t /\ u \in Nat /\ 1 <= u
      BY <1>2, <1>4, <1>7 DEF InShare, n
    <2>2. t <= Rank(u)
      <3> DEFINE r == Rank(u)
                 d == r \div n
      <3>1. r = n * d + (r % n) /\ d \in Nat
        BY <1>1, <2>1, Remainder
      <3>2. n * d \in Nat
        BY <1>1, <3>1
      <3> HIDE DEF d, r
      <3> QED
        BY <1>1, <2>1, <3>1, <3>2 DEF r
    <2>3. CASE v = End
      BY <1>1, <1>3, <1>4, <2>1, <2>2, <2>3
    <2>4. CASE v # End
      <3>1. u < v
        BY <1>2, <1>3, <1>7, <2>1
      <3>2. Rank(u) < Rank(v)
        BY <1>3, <3>1, RankLess
      <3> QED
        BY <1>1, <1>5, <2>1, <2>2, <2>4, <3>2
    <2> QED
      BY <2>3, <2>4
  <1> QED
    BY <1>3, <1>6, <1>7 DEF v

-----------------------------------------------------------------------------
\* A word that is no more than the phrase begins with a letter of it, and that has been
\* looked up by the end of the gather.
LEMMA InitialGathered ==
  ASSUME SearchInv, GatheredInv, pc[0] # "gather", NEW w \in Words,
         \A c \in Chars : CharCount(<<w>>)[c] <= MasterCount[c]
  PROVE  WordList[w][1] \in chars_completed
  <1> DEFINE c == WordList[w][1]
             places == {k \in 1 .. Len(input.word) : input.word[k] = c}
  <1>1. c \in Chars /\ 1 \in PlacesOf(c, w)
    BY FirstLetter
  <1> HIDE DEF c
  <1>2. <<w>> \in Seq(Words) /\ Len(<<w>>) = 1 /\ <<w>>[1] = w
    OBVIOUS
  <1>3. <<1, 1>> \in Occurrences(c, <<w>>)
    BY <1>1, <1>2 DEF Occurrences
  <1>4. CharCount(<<w>>)[c] \in Nat \ {0}
    <2>1. IsFiniteSet(Occurrences(c, <<w>>))
      BY <1>2, OccurrencesFinite
    <2>2. Cardinality(Occurrences(c, <<w>>)) \in Nat /\ Cardinality(Occurrences(c, <<w>>)) # 0
      BY <1>3, <2>1, FS_CardinalityType, FS_EmptySet
    <2> QED
      BY <1>1, <2>2 DEF CharCount, Occurrences
  <1>5. MasterCount[c] = Cardinality(places)
    BY <1>1 DEF MasterCount
  <1>6. places # {}
    <2>1. Cardinality({}) = 0
      BY FS_EmptySet
    <2>2. CharCount(<<w>>)[c] <= Cardinality(places)
      BY <1>1, <1>5
    <2> HIDE DEF places
    <2> QED
      BY <1>4, <2>1, <2>2
  <1>7. PICK k \in 1 .. Len(input.word) : input.word[k] = c
    BY <1>6
  <1>8. /\ chars_completed = {input.word[m] : m \in 1 .. position - 1}
        /\ position = Len(input.word) + 1 /\ Len(input.word) \in Nat
    BY ConstantsAssumption DEF GatheredInv, SearchInv
  <1> QED
    BY <1>7, <1>8 DEF c

\* The words of a phrase that is to be found have been gathered.
LEMMA WantedWords ==
  ASSUME SearchInv, GatheredInv, gathered, NEW phrase \in Phrases, Wanted(phrase)
  PROVE  /\ phrase \in Seq(Words) /\ phrase \in Seq(Nat) /\ Len(phrase) > 1
         /\ \A n \in 1 .. Len(phrase) : phrase[n] \in subset /\ phrase[n] < End
  <1>1. input.dict \ input.excludeset \subseteq Words
    BY ConstantsAssumption DEF SearchInv
  <1>2. /\ phrase \in Seq(input.dict \ input.excludeset) /\ phrase \in Seq(Words)
        /\ \A n \in 1 .. Len(phrase) : phrase[n] \in input.dict \ input.excludeset
    BY <1>1, SeqDef DEF Phrases
  <1>3. Len(phrase) > 1 /\ CharCount(phrase) = MasterCount
    BY DEF Wanted, IsAnagram
  <1>4. \A w \in Words : w \in Nat /\ w < End
    BY WordNumbers DEF Words, End
  <1>5. phrase \in Seq(Nat)
    BY <1>2, <1>4
  <1>6. pc[0] # "gather"
    BY DEF GatheredInv, Early
  <1>7. ASSUME NEW n \in 1 .. Len(phrase)
        PROVE  phrase[n] \in subset
    <2> DEFINE w == phrase[n]
               c == WordList[w][1]
    <2>1. /\ \A d \in Chars : CharCount(<<w>>)[d] <= MasterCount[d]
          /\ CharCount(<<w>>) # MasterCount /\ w \in Words /\ w \in input.dict \ input.excludeset
      BY <1>1, <1>2, <1>3, CountWord
    <2> HIDE DEF w
    <2>2. c \in chars_completed
      BY <1>6, <2>1, InitialGathered
    <2>3. w \in PartialWords(StartingWith(c))
      BY <2>1 DEF PartialWords, StartingWith, Compare, IsSubset
    <2> QED
      BY <2>2, <2>3 DEF GatheredInv, w
  <1> QED
    BY <1>2, <1>3, <1>4, <1>5, <1>7

-----------------------------------------------------------------------------
\* Where a thread with frames is.
LEMMA PointFramed ==
  ASSUME SearchInv, NEW t \in Threads, OrderInv(t), frames[t] # <<>>
  PROVE  /\ Top(t).word \in Seq(Words) /\ Top(t).word # <<>>
         /\ Top(t).next \in subset \union {End}
         /\ Point(t) = Append(Top(t).word, Top(t).next)
         /\ Top(t).word \in Seq(Nat) /\ Top(t).next \in Nat /\ Point(t) \in Seq(Nat)
         /\ Top(t).word[1] = i[t] /\ Point(t)[1] = i[t] /\ i[t] \in subset
         /\ Len(frames[t]) \in 1 .. Len(frames[t])
  <1> DEFINE stack == frames[t]
             word == Top(t).word
             next == Top(t).next
  <1>1. /\ subset \in SUBSET Words /\ stack \in Seq(Frame) /\ StackInv(stack, counts[t], subset)
        /\ \A n \in 1 .. Len(stack) : stack[n].word[1] = i[t]
    BY PartialAreWords DEF SearchInv, ThreadInv, OrderInv
  <1>2. Top(t) = stack[Len(stack)] /\ Point(t) = Append(word, next)
    BY DEF Top, Point, Combined
  <1>3. stack # <<>>
    OBVIOUS
  <1> HIDE DEF stack
  <1>4. Len(stack) \in 1 .. Len(stack)
    BY <1>1, <1>3
  <1>5. /\ word \in Seq(Words) /\ Len(word) \in Nat \ {0}
        /\ \A m \in 1 .. Len(word) : word[m] \in subset
        /\ next \in subset \union {End} /\ word[1] = i[t]
    BY <1>1, <1>2, <1>3, <1>4, TopFrame
  <1> HIDE DEF word, next
  <1>6. word # <<>> /\ word \in Seq(Nat) /\ next \in Nat
    BY <1>1, <1>5, WordNumbers
  <1>7. Append(word, next) \in Seq(Nat) /\ Append(word, next)[1] = i[t] /\ i[t] \in subset
    BY <1>5, <1>6
  <1> QED
    BY <1>2, <1>4, <1>5, <1>6, <1>7 DEF word, next, stack

\* What has been found are phrases of words.
LEMMA FoundPhrases ==
  ASSUME SearchInv
  PROVE  \A phrase \in output : phrase \in Seq(Words) /\ phrase \in Seq(Nat)
  <1>1. \A w \in Words : w \in Nat
    BY WordNumbers
  <1> QED
    BY <1>1 DEF SearchInv

\* A thread that searches is one of those that were started, behind the gather.
LEMMA Searching ==
  ASSUME SearchInv, GatheredInv, NEW t \in Threads, pc[t] \notin Early \union {"done"}
  PROVE  t \in Started /\ gathered
  <1>1. t \in Started
    BY DEF GatheredInv
  <1> QED
    BY <1>1 DEF GatheredInv

\* What a step of the search has to keep.
LEMMA SearchStep ==
  ASSUME OrderedInv, SearchInv', NEW t \in Threads, t \in Started, gathered,
         UNCHANGED <<input, subset, chars_completed, position, gathered>>,
         NEW place \in Places \ Early, pc' = [pc EXCEPT ![t] = place],
         pc[t] \notin Early \ {"wait"},
         \A u \in Threads \ {t} : frames'[u] = frames[u] /\ i'[u] = i[u],
         OrderInv(t)',
         UNCHANGED found \/ (/\ Put(Combined(t)) /\ frames[t] # <<>> /\ pc[t] \notin Late \union Early
                             /\ \A phrase : phrase = Point(t) => Passed(t, phrase)'),
         \A phrase \in output :
           phrase[1] \in subset /\ InShare(t, phrase[1]) /\ Passed(t, phrase) => Passed(t, phrase)',
         input.output_directly \/ input.cpu_tot = 1 =>
           \A phrase \in Phrases :
             Wanted(phrase) /\ InShare(t, phrase[1]) /\ Passed(t, phrase)'
             => Passed(t, phrase) \/ phrase \in output'
  PROVE  OrderedInv'
  <1>1. SearchInv /\ GatheredInv /\ OnceInv /\ AllInv /\ \A u \in Threads : OrderInv(u)
    BY DEF OrderedInv
  <1>2. pc \in [Threads -> Places] /\ Started \subseteq Threads
    BY <1>1, ConstantsAssumption DEF SearchInv, Started, Threads
  <1>3. pc'[t] = place /\ \A u \in Threads \ {t} : pc'[u] = pc[u]
    BY <1>2
  <1>4. Started' = Started /\ Phrases' = Phrases
    BY DEF Started, Phrases
  <1>5. \A w : Rank(w)' = Rank(w)
    BY DEF Rank
  <1>6. \A u, w : InShare(u, w)' = InShare(u, w)
    BY <1>5 DEF InShare
  <1>7. \A phrase : Wanted(phrase)' = Wanted(phrase)
    BY DEF Wanted, IsAnagram, MasterCount
  <1>8. \A u \in Threads \ {t} : \A phrase : Passed(u, phrase)' = Passed(u, phrase)
    <2> SUFFICES ASSUME NEW u \in Threads \ {t}, NEW phrase
                 PROVE  Passed(u, phrase)' = Passed(u, phrase)
      OBVIOUS
    <2>1. Point(u)' = Point(u)
      BY DEF Point, Combined, Top
    <2> QED
      BY <1>3, <2>1 DEF Passed
  <1>9. GatheredInv'
    <2>1. \A c : PartialWords(StartingWith(c))' = PartialWords(StartingWith(c))
                /\ CompleteWords(StartingWith(c))' = CompleteWords(StartingWith(c))
      BY DEF PartialWords, CompleteWords, StartingWith, MasterCount
    <2>2. output \subseteq output'
      BY DEF found, Put
    <2>3. \A u \in Threads \ Started : pc'[u] = "done"
      BY <1>1, <1>3 DEF GatheredInv
    <2>4. pc'[0] \notin Early \ {"wait"} /\ pc'[0] # "gather"
      BY <1>1, <1>2, <1>3 DEF GatheredInv, Early
    <2>5. \A u \in Threads \ {0} : pc'[u] \notin Early \ {"wait"}
      BY <1>1, <1>3 DEF GatheredInv
    <2>6. pc[0] # "gather"
      BY <1>1 DEF GatheredInv, Early
    <2> QED
      BY <1>1, <1>4, <2>1, <2>2, <2>3, <2>4, <2>5, <2>6 DEF GatheredInv
  <1>10. \A u \in Threads : OrderInv(u)'
    <2>1. ASSUME NEW u \in Threads \ {t}
          PROVE  OrderInv(u)'
      <3>1. /\ pc'[u] = pc[u] /\ frames'[u] = frames[u] /\ i'[u] = i[u]
            /\ Top(u)' = Top(u) /\ Combined(u)' = Combined(u) /\ OrderInv(u)
        BY <1>1, <1>3 DEF Top, Combined
      <3> QED
        BY <1>4, <1>6, <3>1 DEF OrderInv, IsAnagram, MasterCount
    <2> QED
      BY <2>1
  <1>11. OnceInv'
    <2>1. CASE UNCHANGED found
      <3>1. again' = {} /\ output' = output
        BY <1>1, <2>1 DEF found, OnceInv
      <3>2. ASSUME NEW u \in Started, NEW phrase \in output, phrase[1] \in subset, InShare(u, phrase[1])
            PROVE  Passed(u, phrase)'
        <4>1. Passed(u, phrase)
          BY <1>1, <3>2 DEF OnceInv
        <4> QED
          BY <1>2, <1>8, <3>2, <4>1
      <3> QED
        BY <1>4, <1>6, <3>1, <3>2 DEF OnceInv
    <2>2. CASE /\ Put(Combined(t)) /\ frames[t] # <<>> /\ pc[t] \notin Late \union Early
               /\ \A phrase : phrase = Point(t) => Passed(t, phrase)'
      <3> DEFINE point == Point(t)
      <3>1. Point(t) = Combined(t) /\ point \in Seq(Nat) /\ point[1] = i[t] /\ i[t] \in subset
        BY <1>1, <2>2, PointFramed DEF Point
      <3>2. i[t] # End
        BY <1>1, <3>1, WordNumbers, PartialAreWords DEF Words, End
      <3>3. InShare(t, i[t])
        BY <1>1, <2>2, <3>2 DEF OrderInv
      <3>4. ~ Passed(t, point)
        BY <2>2, <3>1, BeforeSame DEF Passed
      <3>5. point \notin output
        BY <1>1, <3>1, <3>3, <3>4 DEF OnceInv
      <3>6. again' = {} /\ output' = output \union {point}
        BY <1>1, <2>2, <3>1, <3>5 DEF Put, OnceInv
      <3>7. \A u \in Started : InShare(u, i[t]) => u = t
        BY <3>3 DEF InShare
      <3> HIDE DEF point
      <3>8. ASSUME NEW u \in Started, NEW phrase \in output', phrase[1] \in subset, InShare(u, phrase[1])
            PROVE  Passed(u, phrase)'
        <4>1. CASE phrase = point
          BY <2>2, <3>1, <3>7, <3>8, <4>1 DEF point
        <4>2. CASE phrase \in output
          <5>1. Passed(u, phrase)
            BY <1>1, <3>8, <4>2 DEF OnceInv
          <5> QED
            BY <1>2, <1>8, <3>8, <4>2, <5>1
        <4> QED
          BY <3>6, <4>1, <4>2
      <3> QED
        BY <1>4, <1>6, <3>6, <3>8 DEF OnceInv
    <2> QED
      BY <2>1, <2>2
  <1>12. AllInv'
    <2>1. ASSUME input.output_directly \/ input.cpu_tot = 1,
                 NEW u \in Started, NEW phrase \in Phrases,
                 Wanted(phrase), InShare(u, phrase[1]), Passed(u, phrase)'
          PROVE  phrase \in output'
      <3>1. output \subseteq output'
        BY DEF found, Put
      <3>2. Passed(u, phrase) => phrase \in output
        BY <1>1, <2>1 DEF AllInv
      <3>3. Passed(u, phrase) \/ phrase \in output'
        BY <1>2, <1>8, <2>1
      <3> QED
        BY <3>1, <3>2, <3>3
    <2> QED
      BY <1>4, <1>6, <1>7, <2>1 DEF AllInv
  <1> QED
    BY <1>9, <1>10, <1>11, <1>12 DEF OrderedInv

\* A step that takes a thread from one place to another and changes nothing else.
LEMMA PlaceOrder ==
  ASSUME OrderedInv, SearchInv', NEW t \in Threads, pc[t] \notin Early \union {"done"},
         UNCHANGED <<input, gather, i, frames, found>>,
         NEW place \in Places \ Early, pc' = [pc EXCEPT ![t] = place],
         place \in Late <=> pc[t] \in Late,
         place \in {"outer", "done"} <=> pc[t] = "outer",
         place \in {"insert", "inserting"} => ~input.output_directly,
         place = "done" => i[t] = End
  PROVE  OrderedInv'
  <1>1. SearchInv /\ GatheredInv /\ OnceInv /\ OrderInv(t) /\ pc \in [Threads -> Places]
    BY DEF OrderedInv, SearchInv
  <1>2. t \in Started /\ gathered
    BY <1>1, Searching
  <1>3. pc'[t] = place /\ \A u \in Threads \ {t} : frames'[u] = frames[u] /\ i'[u] = i[u]
    BY <1>1
  <1>4. Top(t)' = Top(t) /\ Combined(t)' = Combined(t) /\ Point(t)' = Point(t)
    BY DEF Top, Combined, Point
  <1>5. \A w : InShare(t, w)' = InShare(t, w)
    BY DEF InShare, Rank, gather
  <1>6. OrderInv(t)'
    <2>1. Started' = Started
      BY DEF Started
    <2>2. frames'[t] = <<>> <=> place \in Early \union {"outer", "done"}
      BY <1>1, <1>3 DEF OrderInv
    <2>3. place \in Late => Top(t).next # End /\ IsAnagram(Combined(t)) /\ ~input.output_directly
      BY <1>1 DEF OrderInv
    <2>4. i[t] # End => InShare(t, i[t])
      BY <1>1, <1>2 DEF OrderInv
    <2>5. \A n \in 1 .. Len(frames[t]) : frames[t][n].word[1] = i[t]
      BY <1>1 DEF OrderInv
    <2> QED
      BY <1>3, <1>4, <1>5, <2>1, <2>2, <2>3, <2>4, <2>5 DEF OrderInv, IsAnagram, MasterCount
  <1>7. \A phrase : Passed(t, phrase)' <=> Passed(t, phrase)
    BY <1>3, <1>4 DEF Passed
  <1>8. /\ UNCHANGED <<input, subset, chars_completed, position, gathered>>
        /\ UNCHANGED found
    BY DEF gather
  <1>9. pc[t] \notin Early \ {"wait"}
    OBVIOUS
  <1> QED
    BY <1>2, <1>3, <1>6, <1>7, <1>8, <1>9, SearchStep

\* A step in which the iterator of the innermost frame goes on, once what begins with
\* the phrase that the thread is at has been found or is not to be.
LEMMA MoveOrder ==
  ASSUME OrderedInv, SearchInv', NEW t \in Threads, pc[t] \in Framed, Top(t).next # End,
         UNCHANGED <<input, gather, i>>, NextWord(t), pc' = [pc EXCEPT ![t] = "loop"],
         UNCHANGED found \/ (Put(Combined(t)) /\ pc[t] = "loop"),
         input.output_directly \/ input.cpu_tot = 1 =>
           \A phrase \in Phrases :
             Wanted(phrase) /\ Begins(Point(t), phrase) => Passed(t, phrase) \/ phrase \in output'
  PROVE  OrderedInv'
  <1> DEFINE word == Top(t).word
             v == Top(t).next
             w == Advance(v, 1)
  <1>1. /\ SearchInv /\ GatheredInv /\ OnceInv /\ OrderInv(t)
        /\ pc \in [Threads -> Places] /\ frames \in [Threads -> Seq(Frame)] /\ subset \subseteq Words
    BY PartialAreWords DEF OrderedInv, SearchInv
  <1>2. pc[t] \notin Early \union {"outer", "done"}
    BY DEF Framed, Early
  <1>3. frames[t] # <<>> /\ t \in Started /\ gathered
    BY <1>1, <1>2, Searching DEF OrderInv
  <1>4. /\ word \in Seq(Nat) /\ v \in subset /\ v \in Nat /\ Point(t) = Append(word, v)
        /\ Point(t)[1] = i[t] /\ Top(t).word = word
    BY <1>1, <1>3, PointFramed
  <1>5. w \in subset \union {End} /\ v < w /\ \A u \in subset : u < w => u <= v
    BY <1>1, <1>4, AdvanceNext
  <1>6. w \in Nat
    BY <1>1, <1>5, WordNumbers
  <1>7. /\ pc'[t] = "loop" /\ frames'[t] # <<>>
        /\ \A n \in 1 .. Len(frames'[t]) : frames'[t][n].word = frames[t][n].word
        /\ Len(frames'[t]) = Len(frames[t])
        /\ Top(t)'.word = word /\ Top(t)'.next = w
        /\ \A u \in Threads \ {t} : frames'[u] = frames[u] /\ i'[u] = i[u]
    <2> DEFINE old == frames[t]
               stack == [old EXCEPT ![Len(old)].next = w]
    <2>1. frames' = [frames EXCEPT ![t] = stack] /\ old \in Seq(Frame) /\ old # <<>>
      BY <1>1, <1>3 DEF NextWord, Top
    <2>2. Top(t) = old[Len(old)]
      BY DEF Top
    <2> HIDE DEF old, w
    <2>3. Len(old) \in 1 .. Len(old)
      BY <2>1
    <2>4. /\ stack # <<>> /\ Len(stack) = Len(old)
          /\ \A n \in 1 .. Len(old) : stack[n].word = old[n].word
          /\ stack[Len(old)].next = w
      BY <2>1, <2>3 DEF Frame
    <2> HIDE DEF stack
    <2>5. frames'[t] = stack /\ \A u \in Threads \ {t} : frames'[u] = frames[u] /\ i'[u] = i[u]
      BY <1>1, <2>1
    <2>6. Top(t)' = stack[Len(old)]
      BY <2>4, <2>5 DEF Top
    <2>7. pc'[t] = "loop"
      BY <1>1
    <2>8. stack[Len(old)].word = word
      BY <2>2, <2>3, <2>4
    <2> QED
      BY <2>4, <2>5, <2>6, <2>7, <2>8 DEF old
  <1> HIDE DEF word, v, w
  <1>8. Point(t)' = Append(word, w)
    BY <1>7 DEF Point, Combined
  <1>9. \A x : InShare(t, x)' = InShare(t, x)
    BY DEF InShare, Rank, gather
  <1>10. OrderInv(t)'
    <2>1. Started' = Started /\ "loop" \notin Early \union Late \union {"outer", "done", "insert", "inserting"}
      BY DEF Started, Early, Late
    <2>2. (i[t] # End => InShare(t, i[t])) /\ \A n \in 1 .. Len(frames[t]) : frames[t][n].word[1] = i[t]
      BY <1>1, <1>2, <1>3 DEF OrderInv
    <2> QED
      BY <1>7, <1>9, <2>1, <2>2 DEF OrderInv
  <1>11. Before(Point(t), Point(t)')
    BY <1>4, <1>5, <1>6, <1>8, BeforeLater
  <1>12. Point(t) \in Seq(Nat) /\ Point(t)' \in Seq(Nat)
    BY <1>4, <1>6, <1>8
  <1>13. \A phrase : Passed(t, phrase)' <=> Before(phrase, Point(t)')
    BY <1>7 DEF Passed, Early, Late
  <1>14. ASSUME NEW phrase \in Seq(Nat), Passed(t, phrase)
         PROVE  Passed(t, phrase)'
    <2>1. Before(phrase, Point(t)) \/ phrase = Point(t)
      BY <1>14 DEF Passed
    <2>2. Before(phrase, Point(t)')
      BY <1>11, <1>12, <2>1, BeforeBefore
    <2> QED
      BY <1>13, <2>2
  <1>15. \A phrase \in output : Passed(t, phrase) => Passed(t, phrase)'
    BY <1>1, <1>14, FoundPhrases
  <1>16. ASSUME input.output_directly \/ input.cpu_tot = 1,
                NEW phrase \in Phrases, Wanted(phrase), Passed(t, phrase)'
         PROVE  Passed(t, phrase) \/ phrase \in output'
    <2>1. Before(phrase, Append(word, w))
      BY <1>8, <1>13, <1>16
    <2>2. phrase \in Seq(Nat) /\ \A n \in 1 .. Len(phrase) : phrase[n] \in subset
      BY <1>1, <1>3, <1>16, WantedWords
    <2>3. Before(phrase, Point(t)) \/ Begins(Point(t), phrase)
      <3>1. Len(phrase) > Len(word) /\ phrase[Len(word) + 1] < w => phrase[Len(word) + 1] <= v
        BY <1>4, <1>5, <2>2
      <3>2. Before(phrase, Append(word, v)) \/ Begins(Append(word, v), phrase)
        BY <1>4, <1>6, <2>1, <2>2, <3>1, BetweenLater
      <3> QED
        BY <1>4, <3>2
    <2>4. Before(phrase, Point(t)) => Passed(t, phrase)
      BY <1>2 DEF Passed
    <2> QED
      BY <1>16, <2>3, <2>4
  <1>17. UNCHANGED found \/ (/\ Put(Combined(t)) /\ frames[t] # <<>> /\ pc[t] \notin Late \union Early
                             /\ \A phrase : phrase = Point(t) => Passed(t, phrase)')
    <2>1. \A phrase : phrase = Point(t) => Passed(t, phrase)'
      BY <1>11, <1>13
    <2>2. "loop" \notin Late \union Early
      BY DEF Late, Early
    <2> QED
      BY <1>3, <2>1, <2>2
  <1>18. UNCHANGED <<input, subset, chars_completed, position, gathered>>
    BY DEF gather
  <1>19. "loop" \in Places \ Early /\ pc[t] \notin Early \ {"wait"}
    BY <1>2 DEF Places, Framed, Early
  <1> QED
    BY <1>3, <1>7, <1>10, <1>15, <1>16, <1>17, <1>18, <1>19, SearchStep

\* Of the phrases that begin with the one that a thread is at, it is to find at most
\* that one, unless some letters are left over.
LEMMA NothingLonger ==
  ASSUME SearchInv, GatheredInv, NEW t \in Threads, OrderInv(t), frames[t] # <<>>,
         gathered, Top(t).next # End,
         IsAnagram(Combined(t)) \/ \E c \in Chars : CharCount(Combined(t))[c] > MasterCount[c],
         NEW phrase \in Phrases, Wanted(phrase), Begins(Point(t), phrase)
  PROVE  phrase = Point(t) /\ IsAnagram(Combined(t))
  <1> DEFINE point == Combined(t)
  <1>1. Point(t) = point /\ point \in Seq(Words)
    BY SumRight DEF Point
  <1>2. phrase \in Seq(Words) /\ CharCount(phrase) = MasterCount
    BY WantedWords DEF Wanted, IsAnagram
  <1>3. Begins(point, phrase)
    BY <1>1
  <1>4. IsAnagram(point) \/ \E c \in Chars : CharCount(point)[c] > MasterCount[c]
    OBVIOUS
  <1> HIDE DEF point
  <1>5. /\ \A c \in Chars : CharCount(point)[c] <= MasterCount[c]
        /\ Len(point) < Len(phrase) => CharCount(point) # MasterCount
    BY <1>1, <1>2, <1>3, CountBegins
  <1>6. CharCount(point) \in Bag /\ MasterCount \in Bag
    <2>1. CharCount(point) \in Bag /\ CharCount(phrase) \in Bag
      BY <1>1, <1>2, CountType
    <2> QED
      BY <1>2, <2>1
  <1>7. IsAnagram(point)
    BY <1>4, <1>5, <1>6 DEF Bag
  <1>8. ~ (Len(point) < Len(phrase))
    BY <1>5, <1>7 DEF IsAnagram
  <1>9. Len(point) = Len(phrase) /\ \A k \in 1 .. Len(point) : phrase[k] = point[k]
    BY <1>1, <1>2, <1>3, <1>8 DEF Begins
  <1>10. phrase = point
    BY <1>1, <1>2, <1>9, SeqEqual
  <1> QED
    BY <1>1, <1>7, <1>10 DEF point

\* A word that occurs twice,
LEMMA SkipDupeOrder ==
  ASSUME OrderedInv, SearchInv', NEW t \in Threads, SkipDupe(t)
  PROVE  OrderedInv'
  <1>1. SearchInv /\ GatheredInv /\ OrderInv(t) /\ pc \in [Threads -> Places]
    BY DEF OrderedInv, SearchInv
  <1>2. /\ pc[t] = "loop" /\ Top(t).next # End /\ NextWord(t) /\ frames[t] # <<>>
        /\ ~input.allow_dupes /\ Top(t).word = <<Top(t).next>>
        /\ UNCHANGED <<input, gather, i, found>> /\ pc' = [pc EXCEPT ![t] = "loop"]
    BY <1>1 DEF SkipDupe, AtWord, IsDupe, OrderInv, Early
  <1>3. gathered
    BY <1>1, <1>2, Searching DEF Early
  <1>4. Len(Point(t)) = 2 /\ Point(t)[1] = Point(t)[2]
    <2> DEFINE p == Top(t).word
               v == Top(t).next
    <2>1. p \in Seq(Nat) /\ v \in Nat /\ Point(t) = Append(p, v)
      BY <1>1, <1>2, PointFramed
    <2>2. Len(p) = 1 /\ p[1] = v
      BY <1>2
    <2> HIDE DEF p, v
    <2>3. /\ Len(Append(p, v)) = Len(p) + 1 /\ Append(p, v)[Len(p) + 1] = v
          /\ \A k \in 1 .. Len(p) : Append(p, v)[k] = p[k]
      BY <2>1
    <2>4. 1 \in 1 .. Len(p) /\ Len(p) + 1 = 2
      BY <2>2
    <2>5. Len(Append(p, v)) = 2 /\ Append(p, v)[2] = v /\ Append(p, v)[1] = v
      BY <2>2, <2>3, <2>4
    <2> QED
      BY <2>1, <2>5
  <1>5. ASSUME NEW phrase \in Phrases, Wanted(phrase), Begins(Point(t), phrase)
        PROVE  FALSE
    <2>1. phrase \in Seq(Nat) /\ Distinct(phrase) /\ Len(phrase) > 1
      BY <1>1, <1>2, <1>3, <1>5, WantedWords DEF Wanted
    <2>2. phrase[1] = phrase[2]
      BY <1>4, <1>5 DEF Begins
    <2>3. 1 \in 1 .. Len(phrase) - 1 /\ phrase[1] \in Nat
      BY <2>1
    <2>4. phrase[1] < phrase[1 + 1]
      BY <2>1, <2>3 DEF Distinct
    <2> QED
      BY <2>2, <2>3, <2>4
  <1> QED
    BY <1>2, <1>5, MoveOrder DEF Framed

\* letters that are not in the phrase,
LEMMA ExceedOrder ==
  ASSUME OrderedInv, SearchInv', NEW t \in Threads, Exceed(t)
  PROVE  OrderedInv'
  <1>1. SearchInv /\ GatheredInv /\ OrderInv(t) /\ pc \in [Threads -> Places]
    BY DEF OrderedInv, SearchInv
  <1>2. /\ pc[t] = "loop" /\ Top(t).next # End /\ NextWord(t) /\ frames[t] # <<>>
        /\ Compare(NextSum(t), MasterCount) > 0
        /\ UNCHANGED <<input, gather, i, found>> /\ pc' = [pc EXCEPT ![t] = "loop"]
    BY <1>1 DEF Exceed, AtWord, OrderInv, Early
  <1>3. gathered
    BY <1>1, <1>2, Searching DEF Early
  <1>4. NextSum(t) = CharCount(Combined(t))
    BY <1>1, <1>2, SumRight
  <1>5. \E c \in Chars : CharCount(Combined(t))[c] > MasterCount[c]
    BY <1>2, <1>4 DEF Compare
  <1>6. ~ IsAnagram(Combined(t))
    BY <1>2, <1>4 DEF Compare, IsAnagram
  <1>7. \A phrase \in Phrases : ~ (Wanted(phrase) /\ Begins(Point(t), phrase))
    BY <1>1, <1>2, <1>3, <1>5, <1>6, NothingLonger
  <1> QED
    BY <1>2, <1>7, MoveOrder DEF Framed

\* an anagram,
LEMMA CompleteOrder ==
  ASSUME OrderedInv, SearchInv', NEW t \in Threads, Complete(t)
  PROVE  OrderedInv'
  <1>1. SearchInv /\ GatheredInv /\ OrderInv(t) /\ pc \in [Threads -> Places]
    BY DEF OrderedInv, SearchInv
  <1>2. /\ pc[t] = "loop" /\ Top(t).next # End /\ frames[t] # <<>>
        /\ Compare(NextSum(t), MasterCount) = 0 /\ UNCHANGED <<input, gather, i>>
    BY <1>1 DEF Complete, AtWord, OrderInv, Early
  <1>3. gathered
    BY <1>1, <1>2, Searching DEF Early
  <1>4. NextSum(t) = CharCount(Combined(t))
    BY <1>1, <1>2, SumRight
  <1>5. IsAnagram(Combined(t))
    BY <1>2, <1>4 DEF Compare, IsAnagram
  <1>6. \A phrase \in Phrases : Wanted(phrase) /\ Begins(Point(t), phrase) => phrase = Point(t)
    BY <1>1, <1>2, <1>3, <1>5, NothingLonger
  <1>7. Point(t) = Combined(t)
    BY <1>2 DEF Point
  <1>8. CASE Put(Combined(t)) /\ NextWord(t) /\ UNCHANGED pc
    <2>1. Combined(t) \in output' /\ pc' = [pc EXCEPT ![t] = "loop"]
      BY <1>1, <1>2, <1>8 DEF Put
    <2> QED
      BY <1>2, <1>6, <1>7, <1>8, <2>1, MoveOrder DEF Framed
  <1>9. CASE ~input.output_directly /\ Goto(t, "insert") /\ UNCHANGED <<frames, found>>
    <2>1. pc' = [pc EXCEPT ![t] = "insert"]
      BY <1>9 DEF Goto
    <2>2. "insert" \in Places \ Early
      BY DEF Places, Framed, Early
    <2>3. pc[t] \notin Early \union {"done"} \union Late /\ "insert" \notin Late
      BY <1>2 DEF Early, Late
    <2> QED
      BY <1>2, <1>9, <2>1, <2>2, <2>3, PlaceOrder
  <1> QED
    BY <1>8, <1>9 DEF Complete

\* one that is in the map.
LEMMA ProgressOrder ==
  ASSUME OrderedInv, SearchInv', NEW t \in Threads,
         (StoreThrottle(t) /\ reg[t] # 1) \/ ResetThrottle(t)
  PROVE  OrderedInv'
  <1>1. SearchInv /\ GatheredInv /\ OrderInv(t) /\ pc \in [Threads -> Places]
    BY DEF OrderedInv, SearchInv
  <1>2. /\ pc[t] \in Late /\ NextWord(t) /\ UNCHANGED <<input, gather, i, found>>
        /\ pc' = [pc EXCEPT ![t] = "loop"]
    BY DEF StoreThrottle, ResetThrottle, Goto, Late
  <1>3. /\ pc[t] \in Framed /\ pc[t] \notin Early \union {"done"} /\ frames[t] # <<>>
        /\ Top(t).next # End /\ IsAnagram(Combined(t))
    BY <1>1, <1>2 DEF OrderInv, Late, Early, Framed
  <1>4. gathered
    BY <1>1, <1>3, Searching
  <1>5. \A phrase \in Phrases : Wanted(phrase) /\ Begins(Point(t), phrase) => phrase = Point(t)
    BY <1>1, <1>3, <1>4, NothingLonger
  <1>6. \A phrase : phrase = Point(t) => Passed(t, phrase)
    BY <1>2 DEF Passed
  <1> QED
    BY <1>2, <1>3, <1>5, <1>6, MoveOrder

-----------------------------------------------------------------------------
\* A phrase that is to be found is sorted.
LEMMA WantedSorted ==
  ASSUME SearchInv, GatheredInv, gathered, NEW phrase \in Phrases, Wanted(phrase),
         NEW n \in 1 .. Len(phrase), n < Len(phrase)
  PROVE  phrase[n] <= phrase[n + 1]
  <1>1. phrase \in Seq(Nat) /\ Len(phrase) \in Nat
    BY WantedWords
  <1>2. n \in 1 .. Len(phrase) - 1 /\ n + 1 \in 1 .. Len(phrase)
    BY <1>1
  <1>3. phrase[n] \in Nat /\ phrase[n + 1] \in Nat
    BY <1>1, <1>2
  <1>4. phrase[n] <= phrase[n + 1] \/ phrase[n] < phrase[n + 1]
    BY <1>2 DEF Wanted, Sorted, Distinct
  <1> QED
    BY <1>3, <1>4

\* A step of a thread from one point to a later one, with nothing to be found between them.
LEMMA ShiftOrder ==
  ASSUME OrderedInv, SearchInv', NEW t \in Threads, t \in Started, gathered,
         UNCHANGED <<input, gather, found>>, pc[t] \in {"wait", "outer", "loop"},
         NEW place \in {"outer", "loop"}, pc' = [pc EXCEPT ![t] = place],
         \A u \in Threads \ {t} : frames'[u] = frames[u] /\ i'[u] = i[u],
         OrderInv(t)',
         NEW q \in Seq(Nat), Point(t)' = q,
         pc[t] # "wait" => Point(t) \in Seq(Nat) /\ Before(Point(t), q),
         \A phrase \in Phrases :
           Wanted(phrase) /\ InShare(t, phrase[1]) /\ Before(phrase, q)
           => pc[t] # "wait" /\ Before(phrase, Point(t))
  PROVE  OrderedInv'
  <1>1. SearchInv /\ pc \in [Threads -> Places]
    BY DEF OrderedInv, SearchInv
  <1>2. pc'[t] = place /\ place \notin Early \union Late
    BY <1>1 DEF Early, Late
  <1>3. \A phrase : Passed(t, phrase)' <=> Before(phrase, q)
    BY <1>2 DEF Passed
  <1>4. \A phrase : Passed(t, phrase) <=> pc[t] # "wait" /\ Before(phrase, Point(t))
    BY DEF Passed, Early, Late
  <1>5. \A phrase \in output : Passed(t, phrase) => Passed(t, phrase)'
    <2>1. \A phrase \in output : phrase \in Seq(Nat)
      BY <1>1, FoundPhrases
    <2> QED
      BY <1>3, <1>4, <2>1, BeforeBefore
  <1>6. \A phrase \in Phrases :
          Wanted(phrase) /\ InShare(t, phrase[1]) /\ Passed(t, phrase)' => Passed(t, phrase)
    BY <1>3, <1>4
  <1>7. UNCHANGED <<input, subset, chars_completed, position, gathered>>
    BY DEF gather
  <1>8. place \in Places \ Early /\ pc[t] \notin Early \ {"wait"}
    BY DEF Places, Framed, Early
  <1>9. UNCHANGED found
    OBVIOUS
  <1> QED
    BY <1>5, <1>6, <1>7, <1>8, <1>9, SearchStep

\* To the first word of the share,
LEMMA EnterOrder ==
  ASSUME OrderedInv, SearchInv', NEW t \in Threads, Enter(t)
  PROVE  OrderedInv'
  <1> DEFINE first == Advance(1, t)
  <1>1. /\ SearchInv /\ GatheredInv /\ OrderInv(t) /\ pc \in [Threads -> Places]
        /\ i \in [Threads -> subset \union {End}] /\ subset \subseteq Words
    BY PartialAreWords DEF OrderedInv, SearchInv
  <1>2. /\ pc[t] = "wait" /\ gathered /\ i' = [i EXCEPT ![t] = first]
        /\ pc' = [pc EXCEPT ![t] = "outer"] /\ UNCHANGED <<input, gather, frames, found>>
    BY DEF Enter, Goto
  <1>3. t \in Started /\ frames[t] = <<>>
    BY <1>1, <1>2 DEF GatheredInv, OrderInv, Early
  <1>4. input.cpu_tot \in Nat \ {0}
    BY <1>1, ConstantsAssumption DEF SearchInv
  <1>5. /\ first \in subset \union {End}
        /\ first # End => InShare(t, first)
        /\ \A u \in subset : InShare(t, u) => first <= u
    BY <1>1, <1>3, <1>4, AdvanceFirst
  <1>6. first \in Nat
    BY <1>1, <1>5, WordNumbers
  <1> HIDE DEF first
  <1>7. i'[t] = first /\ pc'[t] = "outer" /\ \A u \in Threads \ {t} : i'[u] = i[u]
    BY <1>1, <1>2
  <1>8. Point(t)' = <<first>>
    BY <1>2, <1>3, <1>7 DEF Point
  <1>9. \A x : InShare(t, x)' = InShare(t, x)
    BY <1>2 DEF InShare, Rank, gather
  <1>10. OrderInv(t)'
    <2>1. "outer" \notin Early \union Late \union {"insert", "inserting", "done"} /\ frames'[t] = <<>>
      BY <1>2, <1>3 DEF Early, Late
    <2> QED
      BY <1>5, <1>7, <1>9, <2>1 DEF OrderInv
  <1>11. ASSUME NEW phrase \in Phrases, Wanted(phrase), InShare(t, phrase[1]), Before(phrase, <<first>>)
         PROVE  FALSE
    <2>1. phrase \in Seq(Nat) /\ Len(phrase) > 1 /\ 1 \in 1 .. Len(phrase) /\ phrase[1] \in subset
      <3>1. phrase \in Seq(Nat) /\ Len(phrase) > 1
        BY <1>1, <1>2, <1>11, WantedWords
      <3>2. 1 \in 1 .. Len(phrase)
        BY <3>1
      <3> QED
        BY <1>1, <1>2, <1>11, <3>1, <3>2, WantedWords
    <2>2. phrase[1] < first
      <3>1. Len(<<first>>) = 1 /\ <<first>>[1] = first
        OBVIOUS
      <3> QED
        BY <1>11, <2>1, <3>1 DEF Before
    <2>3. first <= phrase[1] /\ phrase[1] \in Nat
      BY <1>5, <1>11, <2>1
    <2> QED
      BY <1>6, <2>2, <2>3
  <1>12. <<first>> \in Seq(Nat)
    BY <1>6
  <1> QED
    BY <1>2, <1>3, <1>7, <1>8, <1>10, <1>11, <1>12, ShiftOrder

\* from it to its combination with itself,
LEMMA StartWordOrder ==
  ASSUME OrderedInv, SearchInv', NEW t \in Threads, StartWord(t)
  PROVE  OrderedInv'
  <1> DEFINE w == i[t]
             frame == [word |-> <<w>>, next |-> w]
  <1>1. /\ SearchInv /\ GatheredInv /\ OrderInv(t) /\ pc \in [Threads -> Places]
        /\ frames \in [Threads -> Seq(Frame)] /\ i \in [Threads -> subset \union {End}]
        /\ subset \subseteq Words
    BY PartialAreWords DEF OrderedInv, SearchInv
  <1>2. /\ pc[t] = "outer" /\ w # End /\ frames' = [frames EXCEPT ![t] = <<frame>>]
        /\ pc' = [pc EXCEPT ![t] = "loop"] /\ UNCHANGED <<input, gather, i, found>>
    BY DEF StartWord, Goto
  <1>3. t \in Started /\ gathered /\ frames[t] = <<>>
    BY <1>1, <1>2, Searching DEF OrderInv, Early
  <1>4. Point(t) = <<w>>
    BY <1>3 DEF Point
  <1>5. w \in Nat /\ InShare(t, w)
    BY <1>1, <1>2, <1>3, WordNumbers DEF OrderInv, Early
  <1> HIDE DEF w
  <1>6. /\ frames'[t] = <<frame>> /\ pc'[t] = "loop" /\ i'[t] = w
        /\ \A u \in Threads \ {t} : frames'[u] = frames[u] /\ i'[u] = i[u]
    BY <1>1, <1>2 DEF w
  <1>7. Point(t)' = Append(<<w>>, w)
    <2>1. Len(<<frame>>) = 1 /\ <<frame>>[1] = frame /\ <<frame>> # <<>>
      OBVIOUS
    <2> HIDE DEF frame
    <2>2. Point(t)' = Append(frame.word, frame.next)
      BY <1>6, <2>1 DEF Point, Combined, Top
    <2> QED
      BY <2>2 DEF frame
  <1>8. \A x : InShare(t, x)' = InShare(t, x)
    BY <1>2 DEF InShare, Rank, gather
  <1>9. OrderInv(t)'
    <2>1. "loop" \notin Early \union Late \union {"outer", "insert", "inserting", "done"}
      BY DEF Early, Late
    <2>2. <<frame>> # <<>> /\ \A n \in 1 .. Len(<<frame>>) : <<frame>>[n].word[1] = w
      OBVIOUS
    <2> HIDE DEF frame
    <2> QED
      BY <1>5, <1>6, <1>8, <2>1, <2>2 DEF OrderInv
  <1>10. <<w>> \in Seq(Nat) /\ Append(<<w>>, w) \in Seq(Nat) /\ Len(<<w>>) = 1 /\ <<w>>[1] = w
    BY <1>5
  <1>11. Before(<<w>>, Append(<<w>>, w))
    BY <1>5, <1>10, BeforeLonger
  <1>12. ASSUME NEW phrase \in Phrases, Wanted(phrase), Before(phrase, Append(<<w>>, w))
         PROVE  Before(phrase, Point(t))
    <2>1. phrase \in Seq(Nat) /\ Len(phrase) > 1
      BY <1>1, <1>3, <1>12, WantedWords
    <2>2. 1 \in 1 .. Len(phrase) /\ 1 < Len(phrase) /\ 2 \in 1 .. Len(phrase)
      BY <2>1
    <2>3. phrase[1] <= phrase[1 + 1]
      BY <1>1, <1>3, <1>12, <2>2, WantedSorted
    <2>4. phrase[1] \in Nat /\ phrase[2] \in Nat
      BY <2>1, <2>2
    <2>5. ~ (Begins(<<w>>, phrase) /\ phrase[Len(<<w>>) + 1] < w)
      BY <1>5, <1>10, <2>3, <2>4 DEF Begins
    <2>6. phrase # <<w>>
      BY <1>10, <2>1
    <2>7. Before(phrase, <<w>>)
      BY <1>5, <1>10, <1>12, <2>1, <2>5, <2>6, BetweenLonger
    <2> QED
      BY <1>4, <2>7
  <1> QED
    BY <1>2, <1>3, <1>4, <1>6, <1>7, <1>9, <1>10, <1>11, <1>12, ShiftOrder

\* from a phrase to what begins with it,
LEMMA RecurseOrder ==
  ASSUME OrderedInv, SearchInv', NEW t \in Threads, Recurse(t)
  PROVE  OrderedInv'
  <1> DEFINE old == frames[t]
             point == Combined(t)
             v == Top(t).next
             frame == [word |-> point, next |-> v]
             stack == Append(old, frame)
  <1>1. /\ SearchInv /\ GatheredInv /\ OrderInv(t) /\ pc \in [Threads -> Places]
        /\ frames \in [Threads -> Seq(Frame)]
    BY DEF OrderedInv, SearchInv
  <1>2. /\ pc[t] = "loop" /\ v # End /\ frames' = [frames EXCEPT ![t] = stack]
        /\ Compare(NextSum(t), MasterCount) < 0
        /\ pc' = [pc EXCEPT ![t] = "loop"] /\ UNCHANGED <<input, gather, i, found>>
    BY <1>1 DEF Recurse, AtWord
  <1>3. t \in Started /\ gathered /\ old # <<>> /\ old \in Seq(Frame)
    BY <1>1, <1>2, Searching DEF OrderInv, Early
  <1>4. /\ Point(t) = point /\ point \in Seq(Words) /\ NextSum(t) = CharCount(point)
        /\ point = Append(Top(t).word, v)
    BY <1>1, <1>2, <1>3, SumRight DEF Point, Combined
  <1>5. /\ point \in Seq(Nat) /\ v \in Nat /\ point[1] = i[t] /\ Top(t).word \in Seq(Nat)
    BY <1>1, <1>3, <1>4, PointFramed
  <1>6. ~ IsAnagram(point)
    BY <1>2, <1>4 DEF Compare, IsAnagram
  <1>7. Len(point) \in Nat \ {0} /\ point[Len(point)] = v
    BY <1>4, <1>5
  <1>8. \A n \in 1 .. Len(old) : old[n].word[1] = i[t]
    BY <1>1 DEF OrderInv
  <1>9. i[t] # End => InShare(t, i[t])
    BY <1>1, <1>2, <1>3 DEF OrderInv, Early
  <1> HIDE DEF old, point, v
  <1>10. /\ stack # <<>> /\ stack[Len(stack)] = frame
         /\ \A n \in 1 .. Len(stack) : stack[n].word[1] = i[t]
    <2>1. frame.word[1] = i[t]
      BY <1>5
    <2> HIDE DEF frame
    <2>2. /\ Len(old) \in Nat /\ Len(stack) = Len(old) + 1 /\ stack[Len(old) + 1] = frame
          /\ \A n \in 1 .. Len(old) : stack[n] = old[n]
      BY <1>3
    <2> HIDE DEF stack
    <2> QED
      BY <1>8, <2>1, <2>2
  <1>11. /\ frames'[t] = stack /\ pc'[t] = "loop" /\ i'[t] = i[t]
         /\ \A u \in Threads \ {t} : frames'[u] = frames[u] /\ i'[u] = i[u]
    BY <1>1, <1>2
  <1> HIDE DEF stack
  <1>12. Point(t)' = Append(point, v)
    <2>1. Point(t)' = Append(frame.word, frame.next)
      BY <1>10, <1>11 DEF Point, Combined, Top
    <2> QED
      BY <2>1
  <1> HIDE DEF frame
  <1>13. OrderInv(t)'
    <2>1. "loop" \notin Early \union Late \union {"outer", "insert", "inserting", "done"}
      BY DEF Early, Late
    <2>2. \A x : InShare(t, x)' = InShare(t, x)
      BY <1>2 DEF InShare, Rank, gather
    <2> QED
      BY <1>9, <1>10, <1>11, <2>1, <2>2 DEF OrderInv
  <1>14. Before(point, Append(point, v)) /\ Append(point, v) \in Seq(Nat)
    BY <1>5, BeforeLonger
  <1>15. ASSUME NEW phrase \in Phrases, Wanted(phrase), Before(phrase, Append(point, v))
         PROVE  Before(phrase, Point(t))
    <2> DEFINE n == Len(point)
    <2>1. phrase \in Seq(Nat)
      BY <1>1, <1>3, <1>15, WantedWords
    <2>2. ASSUME Begins(point, phrase), Len(phrase) > n, phrase[n + 1] < v
          PROVE  FALSE
      <3>1. n \in 1 .. Len(phrase) /\ n < Len(phrase) /\ n + 1 \in 1 .. Len(phrase)
        BY <1>7, <2>1, <2>2
      <3>2. phrase[n] <= phrase[n + 1]
        BY <1>1, <1>3, <1>15, <3>1, WantedSorted
      <3>3. phrase[n] = v
        BY <1>7, <2>2, <3>1 DEF Begins
      <3>4. phrase[n + 1] \in Nat
        BY <2>1, <3>1
      <3> QED
        BY <1>5, <2>2, <3>2, <3>3, <3>4
    <2>3. phrase # point
      BY <1>6, <1>15 DEF Wanted
    <2>4. Before(phrase, point)
      BY <1>5, <1>15, <2>1, <2>2, <2>3, BetweenLonger
    <2> QED
      BY <1>4, <2>4
  <1> QED
    BY <1>2, <1>3, <1>4, <1>5, <1>11, <1>12, <1>13, <1>14, <1>15, ShiftOrder

\* and from the end of it to the next phrase.
LEMMA LaterPhrase ==
  ASSUME NEW p \in Seq(Nat), NEW v \in Nat, NEW w \in Nat, NEW e \in Nat, v < w,
         NEW phrase \in Seq(Nat), \A n \in 1 .. Len(phrase) : phrase[n] < e,
         Len(phrase) > Len(p) /\ phrase[Len(p) + 1] < w => phrase[Len(p) + 1] <= v,
         Before(phrase, Append(p, w))
  PROVE  Before(phrase, Append(Append(p, v), e))
  <1> DEFINE q == Append(p, v)
             r == Append(q, e)
  <1>1. q \in Seq(Nat) /\ r \in Seq(Nat) /\ Before(q, r)
    <2>1. q \in Seq(Nat)
      OBVIOUS
    <2> HIDE DEF q
    <2> QED
      BY <2>1, BeforeLonger
  <1>2. Before(phrase, q) \/ Begins(q, phrase)
    BY BetweenLater
  <1> HIDE DEF q
  <1>3. Begins(q, phrase) => Before(phrase, r)
    BY <1>1, BetweenEnd
  <1> HIDE DEF r
  <1>4. Before(phrase, q) => Before(phrase, r)
    BY <1>1, BeforeBefore
  <1> QED
    BY <1>2, <1>3, <1>4 DEF q, r

LEMMA ReturnOrder ==
  ASSUME OrderedInv, SearchInv', NEW t \in Threads, Return(t)
  PROVE  OrderedInv'
  <1> DEFINE old == frames[t]
             n == Len(old) - 1
             popped == SubSeq(old, 1, n)
             word == old[n].word
             v == old[n].next
             w == Advance(v, 1)
             stack == [popped EXCEPT ![n].next = w]
  <1>1. /\ SearchInv /\ GatheredInv /\ OrderInv(t) /\ pc \in [Threads -> Places]
        /\ frames \in [Threads -> Seq(Frame)] /\ subset \in SUBSET Words
        /\ StackInv(old, counts[t], subset)
    BY PartialAreWords DEF OrderedInv, SearchInv, ThreadInv
  <1>2. /\ pc[t] = "loop" /\ Top(t).next = End /\ depth(t) > 0
        /\ frames' = [frames EXCEPT ![t] = [popped EXCEPT ![n].next = Advance(popped[n].next, 1)]]
        /\ pc' = [pc EXCEPT ![t] = "loop"] /\ UNCHANGED <<input, gather, i, found>>
    BY <1>1 DEF Return
  <1>3. t \in Started /\ gathered /\ old # <<>> /\ old \in Seq(Frame)
    BY <1>1, <1>2, Searching DEF OrderInv, Early
  <1>4. Len(old) \in Nat /\ Len(old) > 1 /\ n \in 1 .. n /\ n \in 1 .. Len(old) /\ n + 1 = Len(old)
    BY <1>2, <1>3 DEF depth
  <1>5. Top(t).word = Append(word, v) /\ Point(t) = Append(Append(word, v), End)
    <2>1. Len(old) \in 1 .. Len(old) /\ Len(old) > 1 /\ Len(old) - 1 = n /\ Top(t) = old[Len(old)]
      BY <1>4 DEF Top
    <2>2. \A m \in 1 .. Len(old) : m > 1 => old[m].word = Append(old[m - 1].word, old[m - 1].next)
      BY <1>1 DEF StackInv
    <2>3. Top(t).word = Append(word, v)
      BY <2>1, <2>2
    <2> QED
      BY <1>2, <1>3, <2>3 DEF Point, Combined
  <1>6. /\ word \in Seq(Nat) /\ v \in subset \union {End} /\ v \in Nat /\ End \in Nat
        /\ Append(word, v) \in Seq(Words) /\ \A x \in subset : x < End
    <2>1. Top(t).word \in Seq(Words)
      BY <1>1, <1>3, PointFramed
    <2>2. old[n] \in Frame /\ v \in subset \union {End}
      BY <1>1, <1>3, <1>4 DEF StackInv
    <2>3. word \in Seq(Words) /\ word \in Seq(Nat) /\ \A x \in Words : x \in Nat /\ x < End
      <3>1. word \in Seq(Words)
        BY <2>2 DEF Frame
      <3>2. \A x \in Words : x \in Nat /\ x < End
        BY WordNumbers DEF Words, End
      <3> HIDE DEF word
      <3>3. word \in Seq(Nat)
        BY <3>1, <3>2
      <3> QED
        BY <3>1, <3>2, <3>3
    <2>4. v \in Nat /\ End \in Nat
      BY <1>1, <2>2, <2>3, WordNumbers
    <2> HIDE DEF word, v
    <2> QED
      BY <1>1, <1>5, <2>1, <2>2, <2>3, <2>4
  <1>7. v \in subset
    <2> HIDE DEF word, v
    <2>1. Len(word) + 1 \in 1 .. Len(Append(word, v)) /\ Append(word, v)[Len(word) + 1] = v
      BY <1>6
    <2>2. v \in Words
      BY <1>6, <2>1
    <2> QED
      BY <1>6, <2>2, WordNumbers DEF Words, End
  <1>8. w \in subset \union {End} /\ v < w /\ w \in Nat /\ \A u \in subset : u < w => u <= v
    <2> HIDE DEF v
    <2>1. w \in subset \union {End} /\ v < w /\ \A u \in subset : u < w => u <= v
      BY <1>1, <1>7, AdvanceNext
    <2> QED
      BY <1>1, <2>1, WordNumbers
  <1>9. /\ stack # <<>> /\ Len(stack) = n /\ stack[n].word = word /\ stack[n].next = w
        /\ \A m \in 1 .. n : stack[m].word = old[m].word
    <2>1. /\ popped \in Seq(Frame) /\ Len(popped) = n /\ \A m \in 1 .. n : popped[m] = old[m]
      BY <1>3, <1>4
    <2> HIDE DEF popped, w, old
    <2>2. Len(stack) = n /\ \A m \in 1 .. n : stack[m].word = popped[m].word
      <3> HIDE DEF n
      <3>1. Len(stack) = n /\ \A m \in 1 .. n : popped[m] \in Frame
        BY <1>4, <2>1
      <3>2. ASSUME NEW m \in 1 .. n
            PROVE  stack[m].word = popped[m].word
        <4>1. CASE m = n
          BY <1>4, <2>1, <3>1, <4>1 DEF Frame
        <4>2. CASE m # n
          BY <1>4, <2>1, <3>1, <4>2
        <4> QED
          BY <4>1, <4>2
      <3> QED
        BY <3>1, <3>2
    <2>3. stack[n].next = w
      BY <1>4, <2>1 DEF Frame
    <2> HIDE DEF stack
    <2>4. stack # <<>>
      <3>1. Len(<<>>) = 0 /\ n # 0
        BY <1>4
      <3> HIDE DEF n
      <3> QED
        BY <2>2, <3>1
    <2> HIDE DEF n
    <2> QED
      BY <1>4, <2>1, <2>2, <2>3, <2>4 DEF word
  <1>10. frames' = [frames EXCEPT ![t] = stack]
    <2>1. popped[n] = old[n]
      BY <1>3, <1>4
    <2> HIDE DEF popped, old
    <2> QED
      BY <1>2, <2>1
  <1>11. /\ \A m \in 1 .. Len(old) : old[m].word[1] = i[t]
         /\ i[t] # End => InShare(t, i[t])
    BY <1>1, <1>2, <1>3 DEF OrderInv, Early
  <1> HIDE DEF old, popped, word, v, w, n, stack
  <1>12. /\ frames'[t] = stack /\ pc'[t] = "loop" /\ i'[t] = i[t]
         /\ \A u \in Threads \ {t} : frames'[u] = frames[u] /\ i'[u] = i[u]
    BY <1>1, <1>2, <1>10
  <1>13. Point(t)' = Append(word, w)
    BY <1>9, <1>12 DEF Point, Combined, Top
  <1>14. OrderInv(t)'
    <2>1. "loop" \notin Early \union Late \union {"outer", "insert", "inserting", "done"}
      BY DEF Early, Late
    <2>2. \A x : InShare(t, x)' = InShare(t, x)
      BY <1>2 DEF InShare, Rank, gather
    <2>3. \A m \in 1 .. Len(stack) : stack[m].word[1] = i[t]
      BY <1>4, <1>9, <1>11
    <2> QED
      BY <1>9, <1>11, <1>12, <2>1, <2>2, <2>3 DEF OrderInv
  <1>15. Append(word, w) \in Seq(Nat) /\ Point(t) \in Seq(Nat)
    BY <1>1, <1>3, <1>6, <1>8, PointFramed DEF old
  <1>16. Before(Point(t), Append(word, w))
    BY <1>5, <1>6, <1>8, BeforeBack
  <1>17. ASSUME NEW phrase \in Phrases, Wanted(phrase), Before(phrase, Append(word, w))
         PROVE  Before(phrase, Point(t))
    <2>1. phrase \in Seq(Nat) /\ \A m \in 1 .. Len(phrase) : phrase[m] \in subset /\ phrase[m] < End
      BY <1>1, <1>3, <1>17, WantedWords
    <2>2. Len(phrase) > Len(word) /\ phrase[Len(word) + 1] < w => phrase[Len(word) + 1] <= v
      BY <1>6, <1>8, <2>1
    <2> QED
      BY <1>5, <1>6, <1>8, <1>17, <2>1, <2>2, LaterPhrase
  <1> QED
    BY <1>2, <1>3, <1>12, <1>13, <1>14, <1>15, <1>16, <1>17, ShiftOrder

\* On to the next word of the share.
LEMMA EndWordOrder ==
  ASSUME OrderedInv, SearchInv', NEW t \in Threads, EndWord(t)
  PROVE  OrderedInv'
  <1> DEFINE v == i[t]
             w == Advance(v, input.cpu_tot)
  <1>1. /\ SearchInv /\ GatheredInv /\ OrderInv(t) /\ pc \in [Threads -> Places]
        /\ frames \in [Threads -> Seq(Frame)] /\ i \in [Threads -> subset \union {End}]
        /\ subset \in SUBSET Words /\ StackInv(frames[t], counts[t], subset)
    BY PartialAreWords DEF OrderedInv, SearchInv, ThreadInv
  <1>2. /\ pc[t] = "loop" /\ Top(t).next = End /\ depth(t) = 0
        /\ frames' = [frames EXCEPT ![t] = <<>>] /\ i' = [i EXCEPT ![t] = w]
        /\ pc' = [pc EXCEPT ![t] = "outer"] /\ UNCHANGED <<input, gather, found>>
    BY DEF EndWord, Goto
  <1>3. t \in Started /\ gathered /\ frames[t] # <<>>
    BY <1>1, <1>2, Searching DEF OrderInv, Early
  <1>4. v \in subset /\ Top(t).word \in Seq(Nat) /\ Top(t).word[1] = v
    BY <1>1, <1>3, PointFramed
  <1>5. Top(t).word = <<v>>
    <2>1. Len(frames[t]) = 1 /\ 1 \in 1 .. Len(frames[t]) /\ Top(t) = frames[t][1]
      <3>1. Len(frames[t]) \in Nat
        BY <1>1
      <3> QED
        BY <1>2, <3>1 DEF depth, Top
    <2>2. Len(Top(t).word) = 1
      BY <1>1, <2>1 DEF StackInv
    <2> QED
      BY <1>4, <2>2
  <1>6. v \in Nat /\ v # End /\ End \in Nat
    BY <1>1, <1>4, WordNumbers DEF Words, End
  <1>7. InShare(t, v)
    BY <1>1, <1>2, <1>3, <1>6 DEF OrderInv, Early
  <1>8. input.cpu_tot \in Nat \ {0}
    BY <1>1, ConstantsAssumption DEF SearchInv
  <1>9. /\ w \in subset \union {End} /\ v < w /\ (w # End => InShare(t, w))
        /\ \A u \in subset : InShare(t, u) /\ u < w => u <= v
    <2> HIDE DEF v
    <2> QED
      BY <1>1, <1>4, <1>7, <1>8, AdvanceShare
  <1>10. w \in Nat
    BY <1>1, <1>9, WordNumbers
  <1> HIDE DEF v, w
  <1>11. /\ frames'[t] = <<>> /\ i'[t] = w /\ pc'[t] = "outer"
         /\ \A u \in Threads \ {t} : frames'[u] = frames[u] /\ i'[u] = i[u]
    BY <1>1, <1>2
  <1>12. Append(<<>>, v) = <<v>> /\ Append(<<>>, w) = <<w>>
    BY <1>6, <1>10
  <1>13. Point(t) = Append(Append(<<>>, v), End) /\ Point(t)' = Append(<<>>, w)
    BY <1>2, <1>3, <1>5, <1>11, <1>12 DEF Point, Combined
  <1>14. OrderInv(t)'
    <2>1. "outer" \notin Early \union Late \union {"insert", "inserting", "done"}
      BY DEF Early, Late
    <2>2. \A x : InShare(t, x)' = InShare(t, x)
      BY <1>2 DEF InShare, Rank, gather
    <2> QED
      BY <1>9, <1>11, <2>1, <2>2 DEF OrderInv
  <1>15. <<>> \in Seq(Nat) /\ Len(<<>>) = 0 /\ Append(<<>>, w) \in Seq(Nat) /\ Point(t) \in Seq(Nat)
    BY <1>1, <1>3, <1>10, <1>12, PointFramed
  <1>16. Before(Point(t), Append(<<>>, w))
    BY <1>6, <1>9, <1>10, <1>13, <1>15, BeforeBack
  <1>17. ASSUME NEW phrase \in Phrases, Wanted(phrase), InShare(t, phrase[1]),
                Before(phrase, Append(<<>>, w))
         PROVE  Before(phrase, Point(t))
    <2>1. /\ phrase \in Seq(Nat) /\ Len(phrase) > 1
          /\ \A m \in 1 .. Len(phrase) : phrase[m] \in subset /\ phrase[m] < End
      BY <1>1, <1>3, <1>17, WantedWords
    <2>2. phrase[1] < w => phrase[1] <= v
      BY <1>9, <1>17, <2>1
    <2>3. Len(phrase) > Len(<<>>) /\ phrase[Len(<<>>) + 1] < w => phrase[Len(<<>>) + 1] <= v
      BY <1>15, <2>2
    <2> QED
      BY <1>6, <1>9, <1>10, <1>13, <1>15, <1>17, <2>1, <2>3, LaterPhrase
  <1> QED
    BY <1>2, <1>3, <1>11, <1>13, <1>14, <1>15, <1>16, <1>17, ShiftOrder

\* The anagram at a point goes to the map, or is lost to another thread's insertion.
LEMMA EndInsertOrder ==
  ASSUME OrderedInv, SearchInv', NEW t \in Threads, EndInsert(t)
  PROVE  OrderedInv'
  <1>1. /\ SearchInv /\ GatheredInv /\ OrderInv(t) /\ pc \in [Threads -> Places]
        /\ Top(t).next # End /\ IsAnagram(Combined(t))
    BY DEF OrderedInv, SearchInv, ThreadInv, EndInsert
  <1>2. pc[t] = "inserting" /\ UNCHANGED <<input, gather, i, frames>>
    BY DEF EndInsert, search
  <1>3. /\ t \in Started /\ gathered /\ frames[t] # <<>> /\ ~input.output_directly
        /\ pc[t] \notin Early \union Late \union {"done", "outer"}
    BY <1>1, <1>2, Searching DEF OrderInv, Early, Late
  <1>4. Top(t)' = Top(t) /\ Combined(t)' = Combined(t) /\ Point(t)' = Point(t)
    BY <1>2 DEF Top, Combined, Point
  <1>5. CASE pc' = [pc EXCEPT ![t] = "release"]
             /\ (Put(Combined(t)) \/ (UNCHANGED found /\ \E u \in Threads \ {t} : pc[u] = "inserting"))
    <2>1. pc'[t] = "release" /\ "release" \in Places \ Early /\ "release" \in Late
      BY <1>1, <1>5 DEF Places, Framed, Early, Late
    <2>2. \A phrase : Passed(t, phrase)' <=> Passed(t, phrase) \/ phrase = Point(t)
      BY <1>3, <1>4, <2>1 DEF Passed
    <2>3. OrderInv(t)'
      <3>1. Started' = Started /\ \A x : InShare(t, x)' = InShare(t, x)
        BY <1>2 DEF Started, InShare, Rank, gather
      <3>2. "release" \notin Early \union {"outer", "done"}
        BY DEF Early
      <3>3. /\ i[t] # End => InShare(t, i[t])
            /\ \A n \in 1 .. Len(frames[t]) : frames[t][n].word[1] = i[t]
        BY <1>1, <1>3 DEF OrderInv
      <3> QED
        BY <1>1, <1>2, <1>3, <1>4, <2>1, <3>1, <3>2, <3>3 DEF OrderInv, IsAnagram, MasterCount
    <2>4. Put(Combined(t)) => Point(t) \in output'
      BY <1>3 DEF Put, Point
    <2>5. (\E u \in Threads \ {t} : pc[u] = "inserting") => input.cpu_tot # 1
      <3>1. ASSUME NEW u \in Threads \ {t}, pc[u] = "inserting"
            PROVE  u \in Started
        BY <1>1, <3>1, Searching DEF Early
      <3>2. input.cpu_tot = 1 => Started = {0}
        BY DEF Started
      <3> QED
        BY <1>3, <3>1, <3>2
    <2>6. UNCHANGED <<input, subset, chars_completed, position, gathered>>
      BY <1>2 DEF gather
    <2>7. \A u \in Threads \ {t} : frames'[u] = frames[u] /\ i'[u] = i[u]
      BY <1>2
    <2>8. CASE Put(Combined(t))
      BY <1>3, <1>5, <2>1, <2>2, <2>3, <2>4, <2>6, <2>7, <2>8, SearchStep
    <2>9. CASE UNCHANGED found /\ \E u \in Threads \ {t} : pc[u] = "inserting"
      BY <1>3, <1>5, <2>1, <2>2, <2>3, <2>5, <2>6, <2>7, <2>9, SearchStep
    <2> QED
      BY <1>5, <2>8, <2>9
  <1>6. CASE pc' = [pc EXCEPT ![t] = "crashed"] /\ UNCHANGED found
    <2>1. "crashed" \in Places \ Early /\ "crashed" \notin Late \union {"outer", "done", "insert", "inserting"}
      BY DEF Places, Early, Late
    <2> QED
      BY <1>2, <1>3, <1>6, <2>1, PlaceOrder
  <1> QED
    BY <1>5, <1>6 DEF EndInsert, Goto

\* The other steps that take a thread from one place to another.
LEMMA PlacesOrder ==
  ASSUME OrderedInv, SearchInv', NEW t \in Threads,
         \/ Leave(t) \/ Overrun(t) \/ BeginInsert(t) \/ Release(t) \/ LoadThrottle(t)
         \/ StoreThrottle(t) /\ reg[t] = 1
  PROVE  OrderedInv'
  <1>1. SearchInv /\ GatheredInv /\ OrderInv(t)
    BY DEF OrderedInv
  <1>2. UNCHANGED <<input, gather, i, frames, found>>
    BY DEF Leave, Overrun, BeginInsert, Release, LoadThrottle, StoreThrottle, search
  <1>3. CASE Leave(t)
    <2>1. pc[t] = "outer" /\ i[t] = End /\ pc' = [pc EXCEPT ![t] = "done"]
      BY <1>3 DEF Leave, Goto
    <2>2. "done" \in Places \ Early
      BY DEF Places, Early
    <2> QED
      BY <1>2, <2>1, <2>2, PlaceOrder DEF Early, Late
  <1>4. CASE Overrun(t)
    <2>1. pc[t] = "loop" /\ pc' = [pc EXCEPT ![t] = "overrun"]
      BY <1>4 DEF Overrun, AtWord, Goto
    <2>2. "overrun" \in Places \ Early
      BY DEF Places, Early
    <2> QED
      BY <1>2, <2>1, <2>2, PlaceOrder DEF Early, Late
  <1>5. CASE BeginInsert(t)
    <2>1. pc[t] = "insert" /\ pc' = [pc EXCEPT ![t] = "inserting"] /\ ~input.output_directly
      BY <1>1, <1>5 DEF BeginInsert, Goto, OrderInv
    <2>2. "inserting" \in Places \ Early
      BY DEF Places, Framed, Early
    <2> QED
      BY <1>2, <2>1, <2>2, PlaceOrder DEF Early, Late
  <1>6. CASE Release(t) \/ LoadThrottle(t) \/ (StoreThrottle(t) /\ reg[t] = 1)
    <2>1. pc[t] \in Late /\ \E place \in Late : pc' = [pc EXCEPT ![t] = place]
      BY <1>6 DEF Release, LoadThrottle, StoreThrottle, Goto, Late
    <2>2. /\ Late \subseteq Places \ Early
          /\ \A place \in Late : place \notin {"outer", "done", "insert", "inserting"} \union Early
      BY DEF Places, Framed, Early, Late
    <2> QED
      BY <1>2, <2>1, <2>2, PlaceOrder
  <1> QED
    BY <1>3, <1>4, <1>5, <1>6

-----------------------------------------------------------------------------
\* A complete anagram is not a partial word.
LEMMA CompleteNotPartial ==
  ASSUME NEW A, NEW B, NEW phrase \in CompleteWords(A)
  PROVE  phrase[1] \notin PartialWords(B)
  <1>1. PICK w \in A : phrase = <<w>> /\ Compare(CharCount(<<w>>), MasterCount) = 0
    BY DEF CompleteWords
  <1>2. phrase[1] = w
    BY <1>1
  <1> QED
    BY <1>1, <1>2 DEF PartialWords

\* While worker 0 gathers and prints, nobody searches.
LEMMA GatherStep ==
  ASSUME OrderedInv, SearchInv', UNCHANGED <<input, i, frames>>, ~gathered, GatheredInv', again' = {},
         output' = UNION {CompleteWords(StartingWith(c)) : c \in chars_completed'},
         \A t \in Started : pc'[t] \in Early, \A t \in Threads \ Started : pc'[t] = pc[t]
  PROVE  OrderedInv'
  <1>1. GatheredInv /\ \A t \in Threads : OrderInv(t)
    BY DEF OrderedInv
  <1>2. /\ Started' = Started /\ Phrases' = Phrases /\ MasterCount' = MasterCount
        /\ \A c : StartingWith(c)' = StartingWith(c)
    BY DEF Started, Phrases, MasterCount, StartingWith
  <1>3. subset' = UNION {PartialWords(StartingWith(c)) : c \in chars_completed'}
    <2>1. \A c : PartialWords(StartingWith(c))' = PartialWords(StartingWith(c))
      BY <1>2 DEF PartialWords
    <2>2. subset' = UNION {PartialWords(StartingWith(c))' : c \in chars_completed'}
      BY DEF GatheredInv
    <2> QED
      BY <2>1, <2>2
  <1>4. \A phrase \in output' : phrase[1] \notin subset'
    BY <1>3, CompleteNotPartial
  <1>5. OnceInv'
    BY <1>4 DEF OnceInv
  <1>6. \A t \in Started : \A phrase : ~ Passed(t, phrase)'
    <2>1. Early \intersect Late = {}
      BY DEF Early, Late
    <2> QED
      BY <2>1 DEF Passed
  <1>7. AllInv'
    BY <1>2, <1>6 DEF AllInv
  <1>8. ASSUME NEW t \in Threads
        PROVE  OrderInv(t)'
    <2>1. Early \intersect (Late \union {"insert", "inserting"}) = {} /\ "done" \notin Late \union {"insert", "inserting"}
      BY DEF Early, Late
    <2>2. pc'[t] \in Early \/ (t \notin Started /\ pc'[t] = "done")
      BY <1>1 DEF GatheredInv
    <2>3. frames[t] = <<>>
      BY <1>1 DEF OrderInv, GatheredInv
    <2>4. Len(<<>>) = 0
      OBVIOUS
    <2> QED
      BY <1>2, <2>1, <2>2, <2>3, <2>4 DEF OrderInv
  <1> QED
    BY <1>5, <1>7, <1>8 DEF OrderedInv

\* Nothing is gathered twice, as no letter is looked up twice.
LEMMA GatherLetterOrder ==
  ASSUME OrderedInv, SearchInv', GatherLetter
  PROVE  OrderedInv'
  <1> DEFINE letter == input.word[position]
             words == IF letter \in chars_completed THEN {} ELSE StartingWith(letter)
             complete(chars) == UNION {CompleteWords(StartingWith(c)) : c \in chars}
             partial(chars) == UNION {PartialWords(StartingWith(c)) : c \in chars}
             more == chars_completed \union {letter}
  <1>1. SearchInv /\ GatheredInv /\ again = {} /\ input \in Inputs
    BY DEF OrderedInv, OnceInv, SearchInv
  <1>2. /\ pc[0] = "gather" /\ position <= Len(input.word) /\ position' = position + 1
        /\ chars_completed' = more
        /\ subset' = subset \union PartialWords(words)
        /\ output' = output \union CompleteWords(words)
        /\ again' = again \union (output \intersect CompleteWords(words))
        /\ UNCHANGED <<input, gathered, pc, i, frames>>
    BY DEF GatherLetter, search
  <1>3. ~gathered
    BY <1>1, <1>2 DEF GatheredInv, Early
  <1>4. subset = partial(chars_completed) /\ output = complete(chars_completed)
    BY <1>1, <1>3 DEF GatheredInv
  <1>5. CompleteWords({}) = {} /\ PartialWords({}) = {}
    BY DEF CompleteWords, PartialWords
  <1>6. subset' = partial(more) /\ output' = complete(more)
    <2>1. CASE letter \in chars_completed
      BY <1>2, <1>4, <1>5, <2>1
    <2>2. CASE letter \notin chars_completed
      BY <1>2, <1>4, <2>2
    <2> QED
      BY <2>1, <2>2
  <1>7. again' = {}
    <2> SUFFICES ASSUME NEW phrase \in output, phrase \in CompleteWords(words)
                 PROVE  FALSE
      BY <1>1, <1>2
    <2>1. letter \notin chars_completed /\ phrase \in CompleteWords(StartingWith(letter))
      BY <1>5
    <2>2. PICK c \in chars_completed : phrase \in CompleteWords(StartingWith(c))
      BY <1>4
    <2>3. \A d : phrase \in CompleteWords(StartingWith(d)) => WordList[phrase[1]][1] = d
      <3> SUFFICES ASSUME NEW d, phrase \in CompleteWords(StartingWith(d))
                   PROVE  WordList[phrase[1]][1] = d
        OBVIOUS
      <3>1. PICK w \in StartingWith(d) : phrase = <<w>>
        BY DEF CompleteWords
      <3>2. phrase[1] = w
        BY <3>1
      <3> QED
        BY <3>2 DEF StartingWith
    <2>4. letter = c
      BY <2>1, <2>2, <2>3
    <2> QED
      BY <2>1, <2>4
  <1>8. \A t \in Started : pc'[t] \in Early
    BY <1>1, <1>2, <1>3 DEF GatheredInv
  <1>9. GatheredInv'
    <2>1. /\ position' \in 1 .. Len(input.word) + 1
          /\ chars_completed' = {input.word[k] : k \in 1 .. position' - 1}
      <3>1. Len(input.word) \in Nat /\ position \in 1 .. Len(input.word) + 1
        BY <1>1, ConstantsAssumption DEF GatheredInv
      <3>2. position' - 1 = position /\ 1 .. position = (1 .. position - 1) \union {position}
        BY <1>2, <3>1
      <3>3. position' \in 1 .. Len(input.word) + 1
        BY <1>2, <3>1
      <3> QED
        BY <1>1, <1>2, <3>2, <3>3 DEF GatheredInv
    <2>2. /\ Started' = Started /\ \A c : StartingWith(c)' = StartingWith(c)
          /\ MasterCount' = MasterCount
      BY <1>2 DEF Started, StartingWith, MasterCount
    <2>3. /\ partial(more) = UNION {PartialWords(StartingWith(c))' : c \in chars_completed'}
          /\ complete(more) = UNION {CompleteWords(StartingWith(c))' : c \in chars_completed'}
      <3>1. /\ \A c : PartialWords(StartingWith(c))' = PartialWords(StartingWith(c))
            /\ \A c : CompleteWords(StartingWith(c))' = CompleteWords(StartingWith(c))
        BY <2>2 DEF PartialWords, CompleteWords
      <3> QED
        BY <1>2, <3>1
    <2> HIDE DEF partial, complete, more
    <2>4. /\ pc'[0] = "gather" /\ ~gathered' /\ Threads' = Threads
          /\ \A t \in Threads \ {0} : pc'[t] \notin Early \ {"wait"}
          /\ \A t \in Threads \ Started : pc'[t] = "done"
      BY <1>1, <1>2, <1>3 DEF GatheredInv, Threads
    <2>5. "gather" \in Early \ {"wait"}
      BY DEF Early
    <2>6. /\ subset' = UNION {PartialWords(StartingWith(c))' : c \in chars_completed'}
          /\ output' = UNION {CompleteWords(StartingWith(c))' : c \in chars_completed'}
      BY <1>6, <2>3
    <2>7. input'.word = input.word /\ pc'[0] \in Early \ {"wait"}
      BY <1>2, <2>4, <2>5
    <2> HIDE DEF words, letter
    <2> QED
      BY <1>2, <1>8, <2>1, <2>2, <2>4, <2>6, <2>7 DEF GatheredInv
  <1> QED
    BY <1>2, <1>3, <1>6, <1>7, <1>8, <1>9, GatherStep

\* Worker 0 prints what it has gathered, and lets the others in.
LEMMA PrintOrder ==
  ASSUME OrderedInv, SearchInv', 0 \in Threads, BeginPrint \/ EndPrint \/ EndGather
  PROVE  OrderedInv'
  <1>1. SearchInv /\ GatheredInv /\ again = {} /\ pc \in [Threads -> Places]
    BY DEF OrderedInv, OnceInv, SearchInv
  <1>2. UNCHANGED <<input, chars_completed, position, subset, i, frames, output, again>>
    BY DEF BeginPrint, EndPrint, EndGather, gather, search, found
  <1>3. /\ pc[0] \in Early \ {"wait"}
        /\ pc[0] = "gather" => position > Len(input.word)
        /\ \E place \in Early \ {"gather"} :
             pc' = [pc EXCEPT ![0] = place] /\ (gathered' <=> place = "wait")
    <2>1. ~gathered
      BY <1>1 DEF GatheredInv, BeginPrint, EndPrint, EndGather, Early
    <2>2. CASE BeginPrint
      <3>1. gathered' = gathered
        BY <2>2 DEF BeginPrint, gather
      <3>2. ~gathered'
        BY <2>1, <3>1, Zenon
      <3>3. pc' = [pc EXCEPT ![0] = "print"] /\ (gathered' <=> "print" = "wait")
        BY <2>2, <3>2 DEF BeginPrint, Goto
      <3>4. "print" \in Early \ {"gather"} /\ pc[0] \in Early \ {"wait"}
        BY <2>2 DEF BeginPrint, Early
      <3> QED
        BY <2>2, <3>3, <3>4 DEF BeginPrint
    <2>3. CASE EndPrint
      <3>1. gathered' = gathered
        BY <2>3 DEF EndPrint
      <3>2. ~gathered'
        BY <2>1, <3>1, Zenon
      <3>3. pc' = [pc EXCEPT ![0] = "printed"] /\ (gathered' <=> "printed" = "wait")
        BY <2>3, <3>2 DEF EndPrint, Goto
      <3>4. "printed" \in Early \ {"gather"} /\ pc[0] \in Early \ {"wait"}
        BY <2>3 DEF EndPrint, Early
      <3> QED
        BY <2>3, <3>3, <3>4 DEF EndPrint
    <2>4. CASE EndGather
      BY <2>1, <2>4 DEF EndGather, Goto, Early
    <2> QED
      BY <2>2, <2>3, <2>4
  <1>4. PICK place \in Early \ {"gather"} :
          pc' = [pc EXCEPT ![0] = place] /\ (gathered' <=> place = "wait")
    BY <1>3
  <1>5. pc'[0] = place /\ \A t \in Threads \ {0} : pc'[t] = pc[t]
    BY <1>1, <1>4
  <1>6. ~gathered
    BY <1>1, <1>3 DEF GatheredInv
  <1>7. 0 \in Started /\ Started \subseteq Threads
    BY <1>1, ConstantsAssumption DEF SearchInv, Started, Threads
  <1>8. \A t \in Started : pc'[t] \in Early
    BY <1>1, <1>4, <1>5, <1>6, <1>7 DEF GatheredInv
  <1>9. \A t \in Threads \ Started : pc'[t] = pc[t]
    BY <1>5, <1>7
  <1>10. position = Len(input.word) + 1
    <2>1. Len(input.word) \in Nat /\ position \in 1 .. Len(input.word) + 1
      BY <1>1, ConstantsAssumption DEF GatheredInv, SearchInv
    <2> QED
      BY <1>1, <1>3, <2>1 DEF GatheredInv
  <1>11. GatheredInv'
    <2>1. /\ Started' = Started /\ MasterCount' = MasterCount
          /\ \A c : StartingWith(c)' = StartingWith(c)
      BY <1>2 DEF Started, StartingWith, MasterCount
    <2>2. /\ \A c : PartialWords(StartingWith(c))' = PartialWords(StartingWith(c))
          /\ \A c : CompleteWords(StartingWith(c))' = CompleteWords(StartingWith(c))
      BY <2>1 DEF PartialWords, CompleteWords
    <2>3. gathered' <=> pc'[0] \notin Early \ {"wait"}
      BY <1>4, <1>5
    <2>4. pc'[0] # "gather"
      BY <1>5
    <2> QED
      BY <1>1, <1>2, <1>5, <1>6, <1>8, <1>9, <1>10, <2>1, <2>2, <2>3, <2>4 DEF GatheredInv
  <1>12. output = UNION {CompleteWords(StartingWith(c)) : c \in chars_completed'}
    BY <1>1, <1>2, <1>6 DEF GatheredInv
  <1> QED
    BY <1>1, <1>2, <1>6, <1>8, <1>9, <1>11, <1>12, GatherStep

\* Nothing that the invariant speaks of changes.
LEMMA SameOrder ==
  ASSUME OrderedInv, SearchInv',
         UNCHANGED <<input, chars_completed, position, subset, gathered, pc, i, frames, found>>
  PROVE  OrderedInv'
  <1>1. /\ \A t : Top(t)' = Top(t) /\ Combined(t)' = Combined(t) /\ Point(t)' = Point(t)
        /\ \A t, w : InShare(t, w)' = InShare(t, w)
        /\ Started' = Started /\ MasterCount' = MasterCount /\ Phrases' = Phrases
        /\ \A c : StartingWith(c)' = StartingWith(c)
    BY DEF Top, Combined, Point, InShare, Rank, Started, MasterCount, Phrases, StartingWith
  <1>2. /\ \A t, phrase : Passed(t, phrase)' = Passed(t, phrase)
        /\ \A phrase : Wanted(phrase)' = Wanted(phrase) /\ IsAnagram(phrase)' = IsAnagram(phrase)
        /\ \A c : PartialWords(StartingWith(c))' = PartialWords(StartingWith(c))
                  /\ CompleteWords(StartingWith(c))' = CompleteWords(StartingWith(c))
    <2>1. \A t, phrase : Passed(t, phrase)' = Passed(t, phrase)
      BY <1>1 DEF Passed
    <2>2. \A phrase : Wanted(phrase)' = Wanted(phrase) /\ IsAnagram(phrase)' = IsAnagram(phrase)
      BY <1>1 DEF Wanted, IsAnagram
    <2>3. \A c : PartialWords(StartingWith(c))' = PartialWords(StartingWith(c))
                /\ CompleteWords(StartingWith(c))' = CompleteWords(StartingWith(c))
      BY <1>1 DEF PartialWords, CompleteWords
    <2> QED
      BY <2>1, <2>2, <2>3
  <1>3. GatheredInv'
    <2>1. GatheredInv
      BY DEF OrderedInv
    <2>2. /\ subset' = UNION {PartialWords(StartingWith(c))' : c \in chars_completed'}
          /\ LET complete == UNION {CompleteWords(StartingWith(c))' : c \in chars_completed'}
             IN  complete \subseteq output' /\ (gathered' \/ output' = complete)
      BY <1>2, <2>1 DEF GatheredInv, found
    <2>3. /\ position' \in 1 .. Len(input'.word) + 1
          /\ chars_completed' = {input'.word[k] : k \in 1 .. position' - 1}
          /\ pc'[0] # "gather" => position' = Len(input'.word) + 1
          /\ \A t \in Threads \ {0} : pc'[t] \notin Early \ {"wait"}
          /\ \A t \in Threads \ Started : pc'[t] = "done"
      BY <2>1 DEF GatheredInv
    <2>4. /\ gathered' <=> pc'[0] \notin Early \ {"wait"}
          /\ \A t \in Started : ~gathered' => pc'[t] \in Early
      BY <2>1 DEF GatheredInv
    <2> QED
      BY <1>1, <2>2, <2>3, <2>4 DEF GatheredInv
  <1>4. OnceInv'
    BY <1>1, <1>2 DEF OrderedInv, OnceInv, found
  <1>5. AllInv'
    BY <1>1, <1>2 DEF OrderedInv, AllInv, found
  <1>6. \A t \in Threads : OrderInv(t)'
    BY <1>1, <1>2 DEF OrderedInv, OrderInv
  <1> QED
    BY <1>3, <1>4, <1>5, <1>6 DEF OrderedInv

LEMMA OrderInit ==
  ASSUME Init
  PROVE  OrderedInv
  <1>1. /\ input \in Inputs /\ chars_completed = {} /\ position = 1 /\ subset = {} /\ ~gathered
        /\ i = [t \in Threads |-> End] /\ frames = [t \in Threads |-> <<>>]
        /\ output = {} /\ again = {}
        /\ pc = [t \in Threads |-> IF t = 0 THEN "gather"
                                   ELSE IF t < input.cpu_tot THEN "wait" ELSE "done"]
    BY DEF Init
  <1>2. input.cpu_tot \in 1 .. ThreadTot /\ ThreadTot \in Nat /\ Len(input.word) \in Nat
    BY <1>1, ConstantsAssumption
  <1>3. 0 \in Threads /\ Started \subseteq Threads /\ 0 \in Started
    BY <1>2 DEF Threads, Started
  <1>4. pc[0] = "gather" /\ \A t \in Threads \ {0} : pc[t] \in {"wait", "done"}
    BY <1>1, <1>3
  <1>5. \A t \in Started : pc[t] \in Early
    BY <1>1, <1>3 DEF Started, Early
  <1>6. \A t \in Threads \ Started : pc[t] = "done"
    BY <1>1, <1>2, <1>3 DEF Started, Threads
  <1>7. GatheredInv
    <2>1. 1 \in 1 .. Len(input.word) + 1 /\ 1 .. position - 1 = {}
      BY <1>1, <1>2
    <2>2. /\ subset = UNION {PartialWords(StartingWith(c)) : c \in chars_completed}
          /\ output = UNION {CompleteWords(StartingWith(c)) : c \in chars_completed}
      BY <1>1
    <2>3. pc[0] \in Early \ {"wait"} /\ \A t \in Threads \ {0} : pc[t] \notin Early \ {"wait"}
      BY <1>4 DEF Early
    <2> QED
      BY <1>1, <1>4, <1>5, <1>6, <2>1, <2>2, <2>3 DEF GatheredInv
  <1>8. OnceInv /\ AllInv
    <2>1. \A t \in Started : \A phrase : ~ Passed(t, phrase)
      BY <1>5 DEF Passed, Early, Late
    <2> QED
      BY <1>1, <2>1 DEF OnceInv, AllInv
  <1>9. ASSUME NEW t \in Threads
        PROVE  OrderInv(t)
    <2>1. frames[t] = <<>> /\ Len(<<>>) = 0 /\ i[t] = End
      BY <1>1
    <2>2. pc[t] \in {"gather", "wait", "done"}
      BY <1>4
    <2>3. t \in Started => pc[t] \in Early
      BY <1>5
    <2> QED
      BY <2>1, <2>2, <2>3 DEF OrderInv, Early, Late
  <1> QED
    BY <1>7, <1>8, <1>9, SearchInit DEF OrderedInv

LEMMA OrderNext ==
  ASSUME OrderedInv, [Next]_vars
  PROVE  OrderedInv'
  <1>1. SearchInv'
    BY SearchNext DEF OrderedInv
  <1>2. CASE Ended \/ UNCHANGED vars
    BY <1>1, <1>2, SameOrder DEF Ended, vars, gather, search
  <1>3. ASSUME NEW t \in Threads, Step(t)
        PROVE  OrderedInv'
    <2>1. CASE t = 0 /\ GatherLetter
      BY <1>1, <2>1, GatherLetterOrder
    <2>2. CASE t = 0 /\ (BeginPrint \/ EndPrint \/ EndGather)
      BY <1>1, <2>2, PrintOrder
    <2>3. CASE t = 0 /\ PrintWord
      BY <1>1, <2>3, SameOrder DEF PrintWord, search
    <2>4. CASE Enter(t) \/ StartWord(t) \/ Recurse(t) \/ Return(t) \/ EndWord(t)
      BY <1>1, <2>4, EnterOrder, StartWordOrder, RecurseOrder, ReturnOrder, EndWordOrder
    <2>5. CASE Complete(t) \/ EndInsert(t) \/ SkipDupe(t) \/ Exceed(t)
      BY <1>1, <2>5, CompleteOrder, EndInsertOrder, SkipDupeOrder, ExceedOrder
    <2>6. CASE StoreThrottle(t) \/ ResetThrottle(t)
      BY <1>1, <2>6, ProgressOrder, PlacesOrder
    <2>7. CASE Leave(t) \/ Overrun(t) \/ BeginInsert(t) \/ Release(t) \/ LoadThrottle(t)
      BY <1>1, <2>7, PlacesOrder
    <2>8. CASE SeeFree(t) \/ TestAndSet(t)
      BY <1>1, <2>8, SameOrder DEF SeeFree, TestAndSet, gather, search
    <2> QED
      BY <1>3, <2>1, <2>2, <2>3, <2>4, <2>5, <2>6, <2>7, <2>8 DEF Step
  <1> QED
    BY <1>2, <1>3 DEF Next

-----------------------------------------------------------------------------
\* The threads go through the combinations of their shares in the order of a dictionary:
\* what has been found lies before the point that its thread has come to, and nothing
\* does that should have been found and has not (main.cc:255-326, 341-449).
THEOREM SearchOrdered == Spec => []OrderedInv
  <1>1. Init => OrderedInv
    BY OrderInit
  <1>2. OrderedInv /\ [Next]_vars => OrderedInv'
    BY OrderNext
  <1> QED
    BY <1>1, <1>2, PTL DEF Spec

\* Nothing is found twice: no initial is looked up twice, no word is in the shares of two
\* threads, and a thread does not come back to a phrase (main.cc:345-354, 380-382, 433-443).
THEOREM SearchNothingTwice == Spec => []NothingTwice
  <1>1. OrderedInv => NothingTwice
    BY DEF OrderedInv, OnceInv, NothingTwice
  <1> QED
    BY <1>1, SearchOrdered, PTL

LEMMA AllFound ==
  ASSUME OrderedInv
  PROVE  FindsAll
  <1> SUFFICES ASSUME \A t \in Threads : pc[t] = "done", input.output_directly \/ input.cpu_tot = 1,
                      NEW phrase \in Phrases, IsAnagram(phrase),
                      IF input.allow_dupes THEN Sorted(phrase) ELSE Distinct(phrase)
               PROVE  phrase \in output
    BY DEF FindsAll
  <1>1. SearchInv /\ GatheredInv /\ AllInv
    BY DEF OrderedInv
  <1>2. input.cpu_tot \in 1 .. ThreadTot /\ ThreadTot \in Nat
    BY <1>1, ConstantsAssumption DEF SearchInv
  <1>3. 0 \in Threads /\ Started \subseteq Threads
    BY <1>2 DEF Threads, Started
  <1>4. gathered /\ pc[0] # "gather"
    BY <1>1, <1>3 DEF GatheredInv, Early
  <1>5. PICK n \in 1 .. Len(input.word) : phrase \in [1 .. n -> input.dict \ input.excludeset]
    BY DEF Phrases
  <1>6. /\ phrase \in Seq(input.dict \ input.excludeset) /\ Len(phrase) = n /\ n \in Nat \ {0}
        /\ input.dict \ input.excludeset \subseteq Words
    <2>1. n \in Nat \ {0}
      BY <1>1, ConstantsAssumption DEF SearchInv
    <2> QED
      BY <1>1, <1>5, <2>1, SeqDef, PartialAreWords
  <1>7. CASE n = 1
    <2> DEFINE w == phrase[1]
               c == WordList[w][1]
    <2>1. w \in input.dict \ input.excludeset /\ w \in Words
      <3> DEFINE D == input.dict \ input.excludeset
      <3>1. phrase \in Seq(D) /\ 1 \in 1 .. Len(phrase) /\ D \subseteq Words
        BY <1>6, <1>7
      <3> HIDE DEF D
      <3>2. w \in D
        BY <3>1
      <3> QED
        BY <3>1, <3>2 DEF D
    <2>2. phrase = <<w>>
      <3>1. phrase \in Seq(Words) /\ Len(phrase) = 1 /\ phrase[1] = w
        BY <1>6, <1>7
      <3> HIDE DEF w
      <3>2. <<w>> \in Seq(Words) /\ Len(<<w>>) = 1 /\ <<w>>[1] = w
        BY <2>1
      <3>3. \A k \in 1 .. Len(phrase) : phrase[k] = <<w>>[k]
        BY <3>1, <3>2
      <3> QED
        BY <3>1, <3>2, <3>3, SeqEqual
    <2>3. CharCount(<<w>>) = MasterCount
      BY <2>2 DEF IsAnagram
    <2>4. <<w>> \in Seq(Words)
      BY <2>1
    <2>5. CharCount(<<w>>) \in Bag
      BY <2>4, CountType
    <2> HIDE DEF w
    <2>6. \A d \in Chars : CharCount(<<w>>)[d] <= MasterCount[d]
      BY <2>3, <2>5 DEF Bag
    <2>7. c \in chars_completed
      BY <1>1, <1>4, <2>1, <2>6, InitialGathered
    <2>8. phrase \in CompleteWords(StartingWith(c))
      BY <2>1, <2>2, <2>3 DEF CompleteWords, StartingWith, Compare
    <2> QED
      BY <1>1, <2>7, <2>8 DEF GatheredInv
  <1>8. CASE n # 1
    <2> DEFINE w == phrase[1]
               t == Rank(w) % input.cpu_tot
    <2>1. Len(phrase) > 1 /\ Wanted(phrase)
      BY <1>6, <1>8 DEF Wanted
    <2>2. /\ 1 \in 1 .. Len(phrase) /\ w \in subset /\ w < End
      <3>1. 1 \in 1 .. Len(phrase)
        BY <1>6
      <3> QED
        BY <1>1, <1>4, <2>1, <3>1, WantedWords
    <2>3. t \in Started /\ InShare(t, w)
      <3>1. Rank(w) \in Nat
        BY <1>1, BetweenFinite, PartialAreWords
      <3>2. Rank(w) % input.cpu_tot \in 0 .. input.cpu_tot - 1
        <4>1. input.cpu_tot \in Nat \ {0}
          BY <1>2
        <4> QED
          BY <3>1, <4>1, Remainder
      <3> QED
        BY <3>2 DEF Started, InShare
    <2> HIDE DEF t
    <2>4. t \in Threads /\ pc[t] = "done" /\ OrderInv(t)
      BY <1>3, <2>3 DEF OrderedInv
    <2>5. frames[t] = <<>> /\ i[t] = End /\ pc[t] \notin Early
      BY <2>3, <2>4 DEF OrderInv, Early
    <2>6. Point(t) = <<End>>
      BY <2>5 DEF Point
    <2>7. Before(phrase, <<End>>)
      <3>1. Len(<<End>>) = 1 /\ <<End>>[1] = End
        OBVIOUS
      <3> QED
        BY <1>6, <2>2, <3>1 DEF Before
    <2>8. Passed(t, phrase)
      BY <2>5, <2>6, <2>7 DEF Passed
    <2> QED
      BY <1>1, <2>1, <2>3, <2>8 DEF AllInv
  <1> QED
    BY <1>7, <1>8

\* "find all combinations of partial words to create complete anagrams" (main.cc:329-330):
\* when the threads have ended, every anagram has been found that can be made of the words
\* of the dictionary, in order, with -o or by one worker.
THEOREM SearchFindsAll == Spec => []FindsAll
  <1>1. OrderedInv => FindsAll
    BY AllFound
  <1> QED
    BY <1>1, SearchOrdered, PTL

-----------------------------------------------------------------------------
\* A step of the search leaves the gather alone, and there is none before its end.
LEMMA SearchOnly ==
  ASSUME OrderedInv, NEW t \in Threads,
         \/ Enter(t) \/ StartWord(t) \/ Leave(t) \/ SkipDupe(t) \/ Complete(t) \/ Recurse(t)
         \/ Overrun(t) \/ Exceed(t) \/ Return(t) \/ EndWord(t) \/ SeeFree(t) \/ TestAndSet(t)
         \/ BeginInsert(t) \/ EndInsert(t) \/ Release(t) \/ LoadThrottle(t) \/ StoreThrottle(t)
         \/ ResetThrottle(t)
  PROVE  UNCHANGED <<input, gather>> /\ (gathered \/ UNCHANGED pc)
  <1>1. SearchInv /\ GatheredInv
    BY DEF OrderedInv
  <1>2. CASE Enter(t)
    BY <1>2 DEF Enter
  <1>3. CASE StartWord(t) \/ Leave(t)
    <2>1. UNCHANGED <<input, gather>> /\ pc[t] = "outer"
      BY <1>3 DEF StartWord, Leave
    <2> QED
      BY <1>1, <2>1, Searching DEF Early
  <1>4. CASE SkipDupe(t) \/ Complete(t) \/ Recurse(t) \/ Overrun(t) \/ Exceed(t) \/ Return(t) \/ EndWord(t)
    <2>1. UNCHANGED <<input, gather>> /\ pc[t] = "loop"
      BY <1>4 DEF SkipDupe, Complete, Recurse, Overrun, Exceed, Return, EndWord, AtWord
    <2> QED
      BY <1>1, <2>1, Searching DEF Early
  <1>5. CASE SeeFree(t) \/ TestAndSet(t)
    BY <1>5 DEF SeeFree, TestAndSet
  <1>6. CASE \/ BeginInsert(t) \/ EndInsert(t) \/ Release(t) \/ LoadThrottle(t) \/ StoreThrottle(t)
             \/ ResetThrottle(t)
    <2>1. UNCHANGED <<input, gather>> /\ pc[t] \in {"insert", "inserting"} \union Late
      BY <1>6 DEF BeginInsert, EndInsert, Release, LoadThrottle, StoreThrottle, ResetThrottle, Late
    <2> QED
      BY <1>1, <2>1, Searching DEF Early, Late
  <1> QED
    BY <1>2, <1>3, <1>4, <1>5, <1>6

\* What the other invariants do not say of the types.
RestTypes ==
  /\ gathered \in BOOLEAN /\ sum \in [Threads -> Bag] /\ L!TypeOK
  /\ throttle \in Int /\ reg \in [Threads -> Int]

LEMMA RestInit ==
  ASSUME Init
  PROVE  RestTypes
  <1>1. Nothing \in Bag
    BY DEF Nothing, Bag
  <1>2. L!TypeOK
    BY DEF Init, L!Init, L!TypeOK
  <1> QED
    <2>1. Frequency \in Int
      BY ConstantsAssumption
    <2>2. /\ gathered = FALSE /\ sum = [t \in Threads |-> Nothing]
          /\ throttle = Frequency /\ reg = [t \in Threads |-> 0]
      BY DEF Init
    <2>3. gathered \in BOOLEAN
      BY <2>2
    <2>4. sum \in [Threads -> Bag] /\ reg \in [Threads -> Int]
      BY <1>1, <2>2
    <2> QED
      BY <1>2, <2>1, <2>2, <2>3, <2>4 DEF RestTypes

LEMMA SumIsBag ==
  ASSUME SearchInv, NEW t \in Threads, AtWord(t)
  PROVE  NextSum(t) \in Bag
  <1>1. frames[t] # <<>> /\ Top(t).next # End
    BY DEF AtWord, SearchInv, ThreadInv, Framed
  <1> QED
    BY <1>1, SumRight, CountType

LEMMA RestNext ==
  ASSUME SearchInv, RestTypes, [Next]_vars
  PROVE  RestTypes'
  <1>1. CASE Ended \/ UNCHANGED vars
    <2>1. UNCHANGED <<gathered, sum, lock_, at, throttle, reg>>
      BY <1>1 DEF Ended, vars, gather, search, lockVars, progress
    <2> QED
      BY <2>1 DEF RestTypes, L!TypeOK
  <1>2. ASSUME NEW t \in Threads, Step(t)
        PROVE  RestTypes'
    <2>1. CASE t = 0 /\ (GatherLetter \/ BeginPrint \/ PrintWord \/ EndPrint \/ EndGather)
      BY <2>1 DEF GatherLetter, BeginPrint, PrintWord, EndPrint, EndGather, gather, search,
                  lockVars, progress, RestTypes, L!TypeOK
    <2>2. CASE Enter(t) \/ StartWord(t) \/ Leave(t) \/ SkipDupe(t) \/ Return(t) \/ EndWord(t)
               \/ Overrun(t) \/ BeginInsert(t) \/ EndInsert(t)
      BY <2>2 DEF Enter, StartWord, Leave, SkipDupe, Return, EndWord, Overrun, BeginInsert,
                  EndInsert, gather, search, lockVars, progress, RestTypes, L!TypeOK
    <2>3. CASE Complete(t) \/ Recurse(t) \/ Exceed(t)
      <3>1. NextSum(t) \in Bag /\ sum' = [sum EXCEPT ![t] = NextSum(t)] /\ UNCHANGED <<gather, progress>>
        BY <2>3, SumIsBag DEF Complete, Recurse, Exceed
      <3>2. UNCHANGED lockVars \/ L!Call(t)
        BY <2>3 DEF Complete, Recurse, Exceed
      <3>3. L!TypeOK'
        BY <3>2 DEF RestTypes, lockVars, L!Call, L!TypeOK
      <3> QED
        BY <3>1, <3>3 DEF RestTypes, gather, progress
    <2>4. CASE SeeFree(t) \/ TestAndSet(t) \/ Release(t)
      <3>1. UNCHANGED <<gather, search, progress>> /\ (L!SeeFree(t) \/ L!TestAndSet(t) \/ L!Release(t))
        BY <2>4 DEF SeeFree, TestAndSet, Release
      <3>2. L!TypeOK'
        BY <3>1 DEF RestTypes, L!SeeFree, L!TestAndSet, L!Release, L!TypeOK
      <3> QED
        BY <3>1, <3>2 DEF RestTypes, gather, search, progress
    <2>5. CASE LoadThrottle(t) \/ StoreThrottle(t) \/ ResetThrottle(t)
      <3>1. UNCHANGED <<gather, sum, lockVars>>
        BY <2>5 DEF LoadThrottle, StoreThrottle, ResetThrottle, search
      <3>2. throttle' \in Int /\ reg' \in [Threads -> Int]
        BY <2>5, ConstantsAssumption DEF LoadThrottle, StoreThrottle, ResetThrottle, RestTypes
      <3> QED
        BY <3>1, <3>2 DEF RestTypes, gather, lockVars, L!TypeOK
    <2> QED
      BY <1>2, <2>1, <2>2, <2>3, <2>4, <2>5 DEF Step
  <1> QED
    BY <1>1, <1>2 DEF Next

\* Every thread is at a place of its code, its iterator at a partial word or at the end,
\* and its stack as deep as the place allows (main.cc:255-326, 341-449).
THEOREM SearchTypeOK == Spec => []TypeOK
  <1>1. Init => RestTypes
    BY RestInit
  <1>2. OrderedInv /\ RestTypes /\ [Next]_vars => RestTypes'
    BY RestNext DEF OrderedInv
  <1>3. OrderedInv /\ RestTypes => TypeOK
    <2> SUFFICES ASSUME OrderedInv, RestTypes
                 PROVE  TypeOK
      OBVIOUS
    <2>1. SearchInv /\ GatheredInv /\ again = {} /\ subset \subseteq Words
      BY PartialAreWords DEF OrderedInv, OnceInv
    <2>2. i \in [Threads -> Words \union {End}] /\ \A t \in Threads : i[t] \in subset \union {End}
      BY <2>1 DEF SearchInv
    <2>3. ASSUME NEW t \in Threads
          PROVE  /\ frames[t] \in Seq(Frame)
                 /\ frames[t] = <<>> <=> pc[t] \in {"gather", "print", "printed", "wait", "outer", "done"}
                 /\ \A n \in 1 .. Len(frames[t]) : frames[t][n].next \in subset \union {End}
      <3>1. frames[t] \in Seq(Frame) /\ StackInv(frames[t], counts[t], subset)
        BY <2>1 DEF SearchInv, ThreadInv
      <3>2. frames[t] = <<>> <=> pc[t] \in Early \union {"outer", "done"}
        BY DEF OrderedInv, OrderInv
      <3> QED
        BY <3>1, <3>2 DEF StackInv, Early
    <2> QED
      BY <2>1, <2>2, <2>3 DEF TypeOK, SearchInv, GatheredInv, RestTypes
  <1> QED
    BY <1>1, <1>2, <1>3, SearchOrdered, PTL DEF Spec

-----------------------------------------------------------------------------
\* A word that is larger than those in the rows goes to the end of the last one.
LEMMA RowsMore ==
  ASSUME NEW P \in SUBSET Nat, NEW p \in Seq(Seq(P)), NEW r \in Seq(P), NEW w \in P,
         RowsSorted(Append(p, r)), \A v \in P : InRows(Append(p, r), v) => v < w
  PROVE  LET longer == Append(p, Append(r, w)) IN
           RowsSorted(longer) /\ \A v : InRows(longer, v) <=> InRows(Append(p, r), v) \/ v = w
  <1> DEFINE table == Append(p, r)
             last == Append(r, w)
             longer == Append(p, last)
             k == Len(p) + 1
             e == Len(r) + 1
  <1>1. /\ k \in Nat \ {0} /\ Len(table) = k /\ Len(longer) = k /\ table[k] = r /\ longer[k] = last
        /\ \A m \in 1 .. k - 1 : longer[m] = table[m]
        /\ e \in Nat \ {0} /\ Len(last) = e /\ Len(r) = e - 1 /\ last[e] = w
        /\ \A n \in 1 .. e - 1 : last[n] = r[n]
    <2>1. last \in Seq(P) /\ Len(last) = e /\ last[e] = w /\ \A n \in 1 .. e - 1 : last[n] = r[n]
      OBVIOUS
    <2> HIDE DEF last
    <2> QED
      BY <2>1
  <1>2. \A m \in 1 .. k : table[m] \in Seq(P)
    <2>1. table \in Seq(Seq(P))
      OBVIOUS
    <2> HIDE DEF table
    <2> QED
      BY <1>1, <2>1
  <1>3. RowsSorted(table) /\ \A v \in P : InRows(table, v) => v < w
    OBVIOUS
  <1> HIDE DEF table, longer, last, k, e
  <1>4. ASSUME NEW m \in 1 .. k, NEW n \in 1 .. Len(longer[m])
        PROVE  \/ m = k /\ n = e /\ longer[m][n] = w
               \/ n \in 1 .. Len(table[m]) /\ longer[m][n] = table[m][n]
    <2>1. CASE m # k
      BY <1>1, <1>4, <2>1
    <2>2. CASE m = k
      BY <1>1, <1>4, <2>2
    <2> QED
      BY <2>1, <2>2
  <1>5. ASSUME NEW m \in 1 .. k, NEW n \in 1 .. Len(table[m])
        PROVE  n \in 1 .. Len(longer[m]) /\ longer[m][n] = table[m][n] /\ table[m][n] < w
    <2>1. n \in 1 .. Len(longer[m]) /\ longer[m][n] = table[m][n]
      <3>1. CASE m # k
        BY <1>1, <1>5, <3>1
      <3>2. CASE m = k
        BY <1>1, <1>5, <3>2
      <3> QED
        BY <3>1, <3>2
    <2>2. table[m][n] \in P
      BY <1>2, <1>5
    <2>3. InRows(table, table[m][n])
      BY <1>1, <1>5 DEF InRows
    <2> QED
      BY <1>3, <2>1, <2>2, <2>3
  <1>6. ASSUME NEW a \in 1 .. k, NEW l \in 1 .. Len(longer[a]),
               NEW m \in 1 .. k, NEW n \in 1 .. Len(longer[m]), a < m \/ (a = m /\ l < n)
        PROVE  longer[a][l] < longer[m][n]
    <2>1. ~ (a = k /\ l = e)
      <3>1. a = k /\ l = e => m = k /\ n <= e
        BY <1>1, <1>6
      <3> QED
        BY <1>1, <1>6, <3>1
    <2>2. l \in 1 .. Len(table[a]) /\ longer[a][l] = table[a][l]
      BY <1>4, <2>1
    <2>3. CASE longer[m][n] = w
      BY <1>5, <2>2, <2>3
    <2>4. CASE n \in 1 .. Len(table[m]) /\ longer[m][n] = table[m][n]
      BY <1>1, <1>3, <1>6, <2>2, <2>4 DEF RowsSorted
    <2> QED
      BY <1>4, <2>3, <2>4
  <1>7. RowsSorted(longer)
    BY <1>1, <1>6 DEF RowsSorted
  <1>8. ASSUME NEW v
        PROVE  InRows(longer, v) <=> InRows(table, v) \/ v = w
    <2>1. InRows(longer, v) => InRows(table, v) \/ v = w
      BY <1>1, <1>4 DEF InRows
    <2>2. InRows(table, v) => InRows(longer, v)
      BY <1>1, <1>5 DEF InRows
    <2>3. InRows(longer, w)
      <3>1. k \in 1 .. k /\ e \in 1 .. Len(longer[k]) /\ longer[k][e] = w
        BY <1>1
      <3> QED
        BY <1>1, <3>1 DEF InRows
    <2> QED
      BY <2>1, <2>2, <2>3
  <1> QED
    BY <1>7, <1>8 DEF longer, table, last

\* A row that has nothing in it.
LEMMA RowsEmpty ==
  ASSUME NEW P, NEW p \in Seq(Seq(P)), RowsSorted(p)
  PROVE  LET longer == Append(p, <<>>) IN
           RowsSorted(longer) /\ \A v : InRows(longer, v) <=> InRows(p, v)
  <1> DEFINE longer == Append(p, <<>>)
             k == Len(p) + 1
  <1>1. /\ k \in Nat \ {0} /\ Len(p) = k - 1 /\ Len(longer) = k /\ longer[k] = <<>>
        /\ \A m \in 1 .. k - 1 : longer[m] = p[m]
    OBVIOUS
  <1>2. Len(<<>>) = 0
    OBVIOUS
  <1> HIDE DEF longer, k
  <1>3. ASSUME NEW m \in 1 .. k, NEW n \in 1 .. Len(longer[m])
        PROVE  m \in 1 .. Len(p) /\ n \in 1 .. Len(p[m]) /\ longer[m] = p[m]
    <2>1. m # k
      BY <1>1, <1>2, <1>3
    <2> QED
      BY <1>1, <1>3, <2>1
  <1>4. RowsSorted(longer)
    BY <1>1, <1>3 DEF RowsSorted
  <1>5. ASSUME NEW v
        PROVE  InRows(longer, v) <=> InRows(p, v)
    <2>1. InRows(longer, v) => InRows(p, v)
      BY <1>1, <1>3 DEF InRows
    <2>2. InRows(p, v) => InRows(longer, v)
      <3>1. \A m \in 1 .. Len(p) : m \in 1 .. k /\ longer[m] = p[m]
        BY <1>1
      <3> QED
        BY <1>1, <3>1 DEF InRows
    <2> QED
      BY <2>1, <2>2
  <1> QED
    BY <1>4, <1>5 DEF longer

\* The word that PrintWord puts into the rows.
LEMMA TableMore ==
  ASSUME NEW P \in SUBSET Nat, NEW p \in Seq(Seq(P)), NEW r \in Seq(P), NEW w \in P,
         Table(Append(p, r), P), \A v \in P : InRows(Append(p, r), v) => v < w
  PROVE  LET longer == Append(p, Append(r, w))
             table == IF Len(r) + 1 = ColCount THEN Append(longer, <<>>) ELSE longer
         IN  /\ Table(table, P) /\ \A v : InRows(table, v) <=> InRows(Append(p, r), v) \/ v = w
  <1> DEFINE last == Append(r, w)
             longer == Append(p, last)
             k == Len(p) + 1
  <1>1. /\ RowsSorted(longer) /\ \A v : InRows(longer, v) <=> InRows(Append(p, r), v) \/ v = w
    BY RowsMore DEF Table
  <1>2. /\ k \in Nat \ {0} /\ Len(Append(p, r)) = k /\ Append(p, r)[k] = r
        /\ \A m \in 1 .. k - 1 : Append(p, r)[m] = p[m]
    OBVIOUS
  <1>3. (\A m \in 1 .. k - 1 : Len(p[m]) = ColCount) /\ Len(r) < ColCount
    <2>1. \A m \in 1 .. k : Len(Append(p, r)[m]) <= ColCount
                            /\ (Len(Append(p, r)[m]) = ColCount <=> m < k)
      BY <1>2 DEF Table
    <2>2. k \in 1 .. k /\ \A m \in 1 .. k - 1 : m \in 1 .. k /\ m < k
      BY <1>2
    <2>3. Len(r) <= ColCount /\ Len(r) # ColCount
      BY <1>2, <2>1, <2>2
    <2> QED
      BY <1>2, <2>1, <2>2, <2>3, ConstantsAssumption
  <1>4. /\ last \in Seq(P) /\ Len(last) = Len(r) + 1
        /\ ColCount \in Nat \ {0} /\ Len(r) \in Nat
    BY ConstantsAssumption
  <1> HIDE DEF last
  <1>5. /\ longer \in Seq(Seq(P)) /\ Len(longer) = k /\ longer[k] = last
        /\ \A m \in 1 .. k - 1 : longer[m] = p[m]
    BY <1>4
  <1> HIDE DEF longer, k
  <1>6. \A m \in 1 .. k - 1 : Len(longer[m]) = ColCount
    BY <1>3, <1>5
  <1>7. CASE Len(r) + 1 # ColCount
    <2>1. Len(last) < ColCount
      BY <1>3, <1>4, <1>7
    <2>2. \A m \in 1 .. k : Len(longer[m]) <= ColCount /\ (Len(longer[m]) = ColCount <=> m < k)
      <3> SUFFICES ASSUME NEW m \in 1 .. k
                   PROVE  Len(longer[m]) <= ColCount /\ (Len(longer[m]) = ColCount <=> m < k)
        OBVIOUS
      <3>1. CASE m = k
        BY <1>4, <1>5, <2>1, <3>1
      <3>2. CASE m # k
        BY <1>2, <1>6, <3>2, ConstantsAssumption
      <3> QED
        BY <3>1, <3>2
    <2>3. longer # <<>>
      BY <1>2, <1>5
    <2>4. Table(longer, P)
      BY <1>1, <1>5, <2>2, <2>3 DEF Table
    <2> QED
      BY <1>1, <1>7, <2>4 DEF longer, last
  <1>8. CASE Len(r) + 1 = ColCount
    <2> DEFINE table == Append(longer, <<>>)
    <2>1. RowsSorted(table) /\ \A v : InRows(table, v) <=> InRows(longer, v)
      BY <1>1, <1>5, RowsEmpty
    <2>2. /\ table \in Seq(Seq(P)) /\ Len(table) = k + 1 /\ table[k + 1] = <<>>
          /\ \A m \in 1 .. k : table[m] = longer[m]
      <3>1. <<>> \in Seq(P)
        OBVIOUS
      <3> QED
        BY <1>5, <3>1
    <2>3. Len(<<>>) = 0
      OBVIOUS
    <2> HIDE DEF table
    <2>4. \A m \in 1 .. k + 1 : Len(table[m]) <= ColCount /\ (Len(table[m]) = ColCount <=> m < k + 1)
      <3> SUFFICES ASSUME NEW m \in 1 .. k + 1
                   PROVE  Len(table[m]) <= ColCount /\ (Len(table[m]) = ColCount <=> m < k + 1)
        OBVIOUS
      <3>1. CASE m = k + 1
        BY <1>2, <2>2, <2>3, <1>4, <3>1
      <3>2. CASE m = k
        BY <1>2, <1>4, <1>5, <1>8, <2>2, <3>2
      <3>3. CASE m \in 1 .. k - 1
        <4>1. m \in 1 .. k /\ m < k + 1
          BY <1>2, <3>3
        <4>2. Len(table[m]) = ColCount
          BY <1>6, <2>2, <3>3, <4>1
        <4> QED
          BY <1>4, <4>1, <4>2
      <3> QED
        BY <1>2, <3>1, <3>2, <3>3
    <2>5. table # <<>>
      BY <1>2, <2>2, <2>3
    <2>6. Table(table, P)
      BY <2>1, <2>2, <2>4, <2>5 DEF Table
    <2> QED
      BY <1>1, <1>8, <2>1, <2>6 DEF table, longer, last
  <1> QED
    BY <1>7, <1>8

\* What PrintWord has still to print is behind what is in the rows.
LEMMA UnprintedRows ==
  ASSUME rows \in Seq(Seq(subset)), row \in Seq(subset), NEW w \in subset
  PROVE  w \in Unprinted <=> \A v \in subset : InRows(Append(rows, row), v) => v < w
  <1> DEFINE table == Append(rows, row)
             k == Len(rows) + 1
  <1>1. /\ k \in Nat \ {0} /\ Len(rows) = k - 1 /\ Len(table) = k /\ table[k] = row
        /\ \A m \in 1 .. k - 1 : table[m] = rows[m]
    OBVIOUS
  <1>2. \A m \in 1 .. k : table[m] \in Seq(subset)
    BY <1>1
  <1> HIDE DEF table, k
  <1>3. ASSUME w \in Unprinted, NEW v \in subset, InRows(table, v)
        PROVE  v < w
    <2>1. PICK m \in 1 .. k : \E n \in 1 .. Len(table[m]) : table[m][n] = v
      BY <1>1, <1>3 DEF InRows
    <2>2. CASE m = k
      BY <1>1, <1>3, <2>1, <2>2 DEF Unprinted
    <2>3. CASE m # k
      <3>1. m \in 1 .. Len(rows) /\ table[m] = rows[m]
        BY <1>1, <2>3
      <3> QED
        BY <1>3, <2>1, <3>1 DEF Unprinted
    <2> QED
      BY <2>2, <2>3
  <1>4. ASSUME \A v \in subset : InRows(table, v) => v < w
        PROVE  w \in Unprinted
    <2>1. ASSUME NEW m \in 1 .. k, NEW n \in 1 .. Len(table[m])
          PROVE  table[m][n] < w
      <3>1. InRows(table, table[m][n])
        BY <1>1 DEF InRows
      <3>2. table[m][n] \in subset
        BY <1>2
      <3> QED
        BY <1>4, <3>1, <3>2
    <2>2. \A n \in 1 .. Len(row) : row[n] < w
      BY <1>1, <2>1
    <2>3. \A m \in 1 .. Len(rows) : \A n \in 1 .. Len(rows[m]) : rows[m][n] < w
      <3>1. \A m \in 1 .. Len(rows) : m \in 1 .. k /\ table[m] = rows[m]
        BY <1>1
      <3> QED
        BY <2>1, <3>1
    <2> QED
      BY <2>2, <2>3 DEF Unprinted
  <1> QED
    BY <1>3, <1>4 DEF table

LEMMA RowsNext ==
  ASSUME OrderedInv, OrderedInv', RowsInv, [Next]_vars
  PROVE  RowsInv'
  <1>1. /\ SearchInv /\ GatheredInv /\ pc \in [Threads -> Places] /\ subset \in SUBSET Nat
        /\ 0 \in Threads /\ GatheredInv'
    <2>1. SearchInv /\ GatheredInv /\ GatheredInv' /\ pc \in [Threads -> Places]
      BY DEF OrderedInv, SearchInv
    <2>2. 0 \in Threads
      BY ConstantsAssumption DEF Threads
    <2>3. subset \in SUBSET Nat
      BY <2>1, PartialAreWords, WordNumbers
    <2> QED
      BY <2>1, <2>2, <2>3
  <1>2. CASE UNCHANGED <<input, gather, pc>>
    BY <1>2 DEF RowsInv, gather, printing
  <1>3. CASE UNCHANGED <<input, gather>> /\ gathered
    <2>1. pc'[0] \notin {"gather", "print", "printed"}
      BY <1>1, <1>3 DEF GatheredInv, gather, Early
    <2>2. input.print_subset => Table(rows, subset) /\ \A w \in subset : InRows(rows, w)
      BY <1>3 DEF RowsInv
    <2> QED
      BY <1>3, <2>1, <2>2 DEF RowsInv, gather, printing
  <1>4. CASE GatherLetter
    <2>1. pc[0] = "gather" /\ ~gathered /\ UNCHANGED <<pc, rows, row, gathered>>
      BY <1>1, <1>4 DEF GatherLetter, printing, GatheredInv, Early
    <2> QED
      BY <2>1 DEF RowsInv
  <1>5. CASE BeginPrint
    <2>1. /\ pc'[0] = "print" /\ ~gathered' /\ UNCHANGED <<rows, row, subset>>
          /\ rows = <<>> /\ row = <<>>
      <3>1. pc[0] = "gather" /\ pc'[0] = "print" /\ UNCHANGED <<rows, row, subset>>
        BY <1>1, <1>5 DEF BeginPrint, Goto, gather, printing
      <3>2. ~gathered'
        BY <1>1, <3>1 DEF GatheredInv, Early
      <3> QED
        BY <3>1, <3>2 DEF RowsInv
    <2>2. rows' \in Seq(Seq(subset')) /\ row' \in Seq(subset') /\ Append(rows', row') = <<<<>>>>
      BY <2>1
    <2> DEFINE table == <<<<>>>>
    <2>3. Len(table) = 1 /\ table[1] = <<>> /\ Len(<<>>) = 0 /\ 1 .. 1 = {1} /\ table # <<>>
      OBVIOUS
    <2>4. table \in Seq(Seq(subset'))
      OBVIOUS
    <2> HIDE DEF table
    <2>5. RowsSorted(table) /\ \A v : ~ InRows(table, v)
      BY <2>3 DEF RowsSorted, InRows
    <2>6. Table(table, subset')
      BY <2>3, <2>4, <2>5, ConstantsAssumption DEF Table
    <2> QED
      BY <2>1, <2>2, <2>5, <2>6 DEF RowsInv, table
  <1>6. CASE PrintWord
    <2> DEFINE table == Append(rows, row)
               longer == Append(rows', row')
    <2>1. /\ pc[0] = "print" /\ ~gathered /\ UNCHANGED <<input, subset, gathered, pc>>
      BY <1>1, <1>6 DEF PrintWord, GatheredInv, Early
    <2>2. /\ rows \in Seq(Seq(subset)) /\ row \in Seq(subset) /\ Table(table, subset)
          /\ \A w \in subset : InRows(table, w) \/ \A v \in subset : InRows(table, v) => v < w
      BY <2>1 DEF RowsInv
    <2>3. PICK w \in Unprinted :
            /\ \A v \in Unprinted : w <= v
            /\ IF Len(row) + 1 = ColCount
               THEN row' = <<>> /\ rows' = Append(rows, Append(row, w))
               ELSE row' = Append(row, w) /\ UNCHANGED rows
      BY <1>6 DEF PrintWord
    <2>4. w \in subset /\ \A v \in subset : InRows(table, v) => v < w
      BY <2>2, <2>3, UnprintedRows DEF Unprinted
    <2>5. Table(longer, subset) /\ \A v : InRows(longer, v) <=> InRows(table, v) \/ v = w
      <3>1. longer = IF Len(row) + 1 = ColCount THEN Append(Append(rows, Append(row, w)), <<>>)
                                                ELSE Append(rows, Append(row, w))
        BY <2>3
      <3> HIDE DEF longer
      <3> QED
        BY <1>1, <2>2, <2>4, <3>1, TableMore
    <2>6. rows' \in Seq(Seq(subset)) /\ row' \in Seq(subset)
      <3> DEFINE last == Append(row, w)
                 lines == Seq(subset)
      <3>1. last \in lines /\ <<>> \in lines /\ rows \in Seq(lines)
        BY <2>2, <2>4
      <3>2. (row' = <<>> /\ rows' = Append(rows, last)) \/ (row' = last /\ rows' = rows)
        BY <2>3
      <3> HIDE DEF last, lines
      <3>3. rows' \in Seq(lines) /\ row' \in lines
        BY <3>1, <3>2
      <3> QED
        BY <3>3 DEF lines
    <2>7. ASSUME NEW u \in subset, ~ InRows(longer, u), NEW v \in subset, InRows(longer, v)
          PROVE  v < u
      <3>1. ~ InRows(table, u) /\ u # w
        BY <2>5, <2>7
      <3>2. \A x \in subset : InRows(table, x) => x < u
        BY <2>2, <3>1
      <3>3. w <= u /\ w < u
        <4>1. u \in Unprinted
          BY <2>2, <3>2, UnprintedRows
        <4> QED
          BY <1>1, <2>3, <2>4, <3>1, <4>1
      <3> QED
        BY <2>5, <2>7, <3>2, <3>3
    <2> HIDE DEF table
    <2> QED
      BY <2>1, <2>5, <2>6, <2>7 DEF RowsInv
  <1>7. CASE EndPrint
    <2> DEFINE table == Append(rows, row)
    <2>1. /\ pc[0] = "print" /\ pc'[0] = "printed" /\ rows' = table /\ subset' = subset
          /\ Unprinted = {}
      BY <1>1, <1>7 DEF EndPrint, Goto
    <2>2. /\ rows \in Seq(Seq(subset)) /\ row \in Seq(subset) /\ Table(table, subset)
          /\ \A w \in subset : InRows(table, w) \/ \A v \in subset : InRows(table, v) => v < w
      BY <2>1 DEF RowsInv
    <2>3. \A w \in subset : InRows(table, w)
      BY <2>1, <2>2, UnprintedRows
    <2> QED
      BY <2>1, <2>2, <2>3 DEF RowsInv
  <1>8. CASE EndGather
    <2>1. pc'[0] = "wait" /\ UNCHANGED <<input, rows, subset>>
      BY <1>1, <1>8 DEF EndGather, Goto, printing
    <2>2. input.print_subset => pc[0] = "printed"
      BY <1>8 DEF EndGather
    <2> QED
      BY <2>1, <2>2 DEF RowsInv
  <1>9. CASE Ended
    BY <1>2, <1>9 DEF Ended, vars
  <1>10. ASSUME NEW t \in Threads, Step(t)
         PROVE  RowsInv'
    BY <1>2, <1>3, <1>4, <1>5, <1>6, <1>7, <1>8, <1>10, SearchOnly DEF Step
  <1>11. CASE UNCHANGED vars
    BY <1>2, <1>11 DEF vars
  <1> QED
    BY <1>9, <1>10, <1>11 DEF Next

LEMMA RowsPrinted ==
  ASSUME SearchInv, RowsInv
  PROVE  PrintsSubset
  <1> SUFFICES ASSUME gathered, input.print_subset
               PROVE  PrintsSubset
    BY DEF PrintsSubset
  <1> DEFINE Cells == {p \in (1 .. Len(rows)) \X (1 .. ColCount) : p[2] <= Len(rows[p[1]])}
  <1>1. Table(rows, subset) /\ \A w \in subset : InRows(rows, w)
    BY DEF RowsInv
  <1>2. ColCount \in Nat
    BY ConstantsAssumption
  <1>3. ASSUME NEW p \in Cells
        PROVE  p[1] \in 1 .. Len(rows) /\ p[2] \in 1 .. Len(rows[p[1]])
    <2>1. p[1] \in 1 .. Len(rows) /\ p[2] \in 1 .. ColCount /\ p[2] <= Len(rows[p[1]])
      OBVIOUS
    <2>2. rows[p[1]] \in Seq(subset)
      BY <1>1, <2>1 DEF Table
    <2> QED
      BY <1>2, <2>1, <2>2
  <1>4. ASSUME NEW m \in 1 .. Len(rows), NEW n \in 1 .. Len(rows[m])
        PROVE  <<m, n>> \in Cells
    <2>1. Len(rows[m]) <= ColCount /\ Len(rows[m]) \in Nat
      BY <1>1 DEF Table
    <2>2. n \in 1 .. ColCount /\ n <= Len(rows[m])
      BY <1>2, <2>1
    <2> QED
      BY <2>2
  <1> HIDE DEF Cells
  <1>5. {rows[p[1]][p[2]] : p \in Cells} = subset
    <2>1. ASSUME NEW p \in Cells
          PROVE  rows[p[1]][p[2]] \in subset
      <3>1. p[1] \in 1 .. Len(rows) /\ p[2] \in 1 .. Len(rows[p[1]])
        BY <1>3
      <3>2. rows[p[1]] \in Seq(subset)
        BY <1>1, <3>1 DEF Table
      <3> QED
        BY <3>1, <3>2
    <2>2. ASSUME NEW w \in subset
          PROVE  \E p \in Cells : w = rows[p[1]][p[2]]
      <3>1. PICK m \in 1 .. Len(rows) : \E n \in 1 .. Len(rows[m]) : rows[m][n] = w
        BY <1>1 DEF InRows
      <3>2. PICK n \in 1 .. Len(rows[m]) : rows[m][n] = w
        BY <3>1
      <3>3. <<m, n>> \in Cells /\ <<m, n>>[1] = m /\ <<m, n>>[2] = n
        BY <1>4
      <3> QED
        BY <3>2, <3>3
    <2> QED
      BY <2>1, <2>2
  <1>6. \A p, q \in Cells :
          p[1] < q[1] \/ (p[1] = q[1] /\ p[2] < q[2]) => rows[p[1]][p[2]] < rows[q[1]][q[2]]
    BY <1>1, <1>3 DEF Table, RowsSorted
  <1>7. \A m \in 1 .. Len(rows) : Len(rows[m]) = ColCount <=> m < Len(rows)
    BY <1>1 DEF Table
  <1> QED
    BY <1>5, <1>6, <1>7 DEF PrintsSubset, Cells

\* "Prints the complete subset dictionary of candidate words" (main.cc:207): all the partial
\* words, once each and in order, in rows that are full but for the last.
THEOREM SearchPrintsSubset == Spec => []PrintsSubset
  <1>1. Init => RowsInv
    <2> SUFFICES ASSUME Init
                 PROVE  RowsInv
      OBVIOUS
    <2>1. 0 \in Threads
      BY ConstantsAssumption DEF Threads
    <2>2. pc[0] = "gather" /\ ~gathered /\ rows = <<>> /\ row = <<>>
      BY <2>1 DEF Init
    <2> QED
      BY <2>2 DEF RowsInv
  <1>2. OrderedInv /\ OrderedInv' /\ RowsInv /\ [Next]_vars => RowsInv'
    BY RowsNext
  <1>3. OrderedInv /\ RowsInv => PrintsSubset
    BY RowsPrinted DEF OrderedInv
  <1> QED
    BY <1>1, <1>2, <1>3, SearchOrdered, PTL DEF Spec

=============================================================================
