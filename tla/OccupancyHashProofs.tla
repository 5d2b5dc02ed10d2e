------------------------- MODULE OccupancyHashProofs -------------------------
(***************************************************************************)
(* The occupancy hash for every alphabet, any number of hashes and any     *)
(* texts with at most MaxCount of each character: counts and index always  *)
(* agree, and Compare and IsSubset compare the texts.                      *)
(***************************************************************************)
EXTENDS OccupancyHash, FiniteSetTheorems, TLAPS

\* More numbers than places: two of them share one.
LEMMA TooManyForOneEach ==
  ASSUME NEW m \in Nat, NEW n \in Nat, n < m, NEW g \in [1 .. m -> 1 .. n]
  PROVE  \E i, j \in 1 .. m : i # j /\ g[i] = g[j]
  <1>1. ASSUME NEW l \in Nat
        PROVE  IsFiniteSet(1 .. l) /\ Cardinality(1 .. l) = l
    <2>1. /\ IsFiniteSet(1 .. l)
          /\ Cardinality(1 .. l) = IF 1 > l THEN 0 ELSE l - 1 + 1
      BY FS_Interval
    <2> QED
      BY <2>1
  <1>2. /\ IsFiniteSet(1 .. m) /\ IsFiniteSet(1 .. n)
        /\ Cardinality(1 .. n) < Cardinality(1 .. m)
    BY <1>1
  <1> QED
    BY <1>2, FS_PigeonHole

\* A list without repetitions is no longer than one that has all its elements.
LEMMA NoLonger ==
  ASSUME NEW s \in Seq(Chars), NEW t \in Seq(Chars),
         \A i, j \in 1 .. Len(s) : s[i] = s[j] => i = j,
         \A i \in 1 .. Len(s) : \E j \in 1 .. Len(t) : t[j] = s[i]
  PROVE  Len(s) <= Len(t)
  <1>1. SUFFICES ASSUME Len(t) < Len(s)
                 PROVE  FALSE
    OBVIOUS
  <1> DEFINE f == [i \in 1 .. Len(s) |-> CHOOSE j \in 1 .. Len(t) : t[j] = s[i]]
  <1>2. \A i \in 1 .. Len(s) : f[i] \in 1 .. Len(t) /\ t[f[i]] = s[i]
    OBVIOUS
  <1>3. f \in [1 .. Len(s) -> 1 .. Len(t)]
    BY <1>2
  <1> HIDE DEF f
  <1>4. \E i, j \in 1 .. Len(s) : i # j /\ f[i] = f[j]
    <2>1. Len(s) \in Nat /\ Len(t) \in Nat
      OBVIOUS
    <2> QED
      BY <1>1, <1>3, <2>1, TooManyForOneEach
  <1>5. \A i, j \in 1 .. Len(s) : f[i] = f[j] => s[i] = s[j]
    BY <1>2
  <1> QED
    BY <1>4, <1>5

\* A character that is entered in the index with its first count keeps the
\* index and the counts in step (GetCharCountMap, occupancy_hash.h:198-205, and
\* operator+=, 69-76).
LEMMA GrowSparse ==
  ASSUME TypeOK, Sparse, NEW h \in Hashes, NEW c \in Chars, NEW n \in 1 .. MaxCount,
         count[h][c] \in 0 .. MaxCount, count[h][c] + n <= MaxCount,
         Grow(h, c, n)
  PROVE  /\ Sparse'
         /\ count' = [count EXCEPT ![h][c] = @ + n]
         /\ count' \in [Hashes -> [Chars -> -(MaxCount + 1) .. MaxCount]]
         /\ index' \in [Hashes -> Seq(Chars)]
         /\ \A g \in Hashes : g # h => index'[g] = index[g]
  <1> USE ConstantsAssumption DEF ConstantsAssumption
  <1>1. Wrap(count[h][c] + n) = count[h][c] + n
    BY DEF Wrap, TypeOK
  <1>2. count' = [count EXCEPT ![h][c] = @ + n]
    BY <1>1 DEF Grow, TypeOK
  <1>3. count' \in [Hashes -> [Chars -> -(MaxCount + 1) .. MaxCount]]
    <2>1. count[h][c] + n \in -(MaxCount + 1) .. MaxCount
      OBVIOUS
    <2> QED
      BY <1>2, <2>1 DEF TypeOK
  <1>4. index' \in [Hashes -> Seq(Chars)] /\ \A g \in Hashes : g # h => index'[g] = index[g]
    BY DEF Grow, TypeOK
  <1>5. Sparse'
    <2>1. CASE count[h][c] # 0
      <3>1. index' = index
        BY <2>1 DEF Grow
      <3>2. \A g \in Hashes, d \in Chars : count'[g][d] # 0 <=> count[g][d] # 0
        <4>1. count[h][c] + n # 0
          BY <2>1
        <4> QED
          BY <1>2, <2>1, <4>1 DEF TypeOK
      <3> QED
        BY <3>1, <3>2 DEF Sparse, Occupied
    <2>2. CASE count[h][c] = 0
      <3>1. index'[h] = Append(index[h], c) /\ index[h] \in Seq(Chars)
        BY <2>2 DEF Grow, TypeOK
      <3>2. Occupied(h)' = Occupied(h) \union {c}
        BY <3>1 DEF Occupied
      <3>3. c \notin Occupied(h)
        BY <2>2 DEF Sparse
      <3>4. \A i, j \in 1 .. Len(index'[h]) : index'[h][i] = index'[h][j] => i = j
        BY <3>1, <3>3 DEF Sparse, Occupied
      <3>5. \A d \in Chars : count'[h][d] # 0 <=> d \in Occupied(h)'
        BY <1>2, <2>2, <3>2 DEF Sparse, TypeOK
      <3>6. \A g \in Hashes : g # h => count'[g] = count[g] /\ Occupied(g)' = Occupied(g)
        BY <1>2, <1>4 DEF Occupied, TypeOK
      <3> QED
        BY <1>4, <3>4, <3>5, <3>6 DEF Sparse
    <2> QED
      BY <2>1, <2>2
  <1> QED
    BY <1>2, <1>3, <1>4, <1>5

\* Freshly constructed hashes (occupancy_hash.h:18-24) are empty.
LEMMA InitHash ==
  ASSUME FromWord = {}, Init
  PROVE  HashInv
  <1> USE ConstantsAssumption DEF ConstantsAssumption
  <1>1. /\ count = [h \in Hashes |-> Nothing] /\ index = [h \in Hashes |-> <<>>]
        /\ bag = [h \in Hashes |-> Nothing]
        /\ op = "none" /\ k = 0 /\ result = 0 /\ x \in Hashes /\ y \in Hashes
    BY DEF Init
  <1>2. Nothing \in [Chars -> {0}]
    BY DEF Nothing
  <1>3. TypeOK
    BY <1>1, <1>2 DEF TypeOK
  <1>4. Sparse
    BY <1>1, <1>2 DEF Sparse, Occupied
  <1>5. CountInv
    BY <1>1, <1>2 DEF CountInv
  <1>6. LoopInv /\ CompareRight /\ SubsetRight
    BY <1>1 DEF LoopInv, CompareRight, SubsetRight
  <1> QED
    BY <1>3, <1>4, <1>5, <1>6 DEF HashInv

\* clear(), GetCharCountMap and operator+= (occupancy_hash.h:32-78, 189-207).
LEMMA ChangeStep ==
  ASSUME Short, HashInv,
         \/ \E h \in Hashes : Clear(h) \/ \E c \in Chars : CountChar(h, c)
         \/ PlusStep \/ EndPlus
  PROVE  HashInv'
  <1> USE ConstantsAssumption DEF ConstantsAssumption
  <1>1. op' \in {"none", "plus"} => LoopInv' /\ CompareRight' /\ SubsetRight'
    BY DEF LoopInv, CompareRight, SubsetRight
  <1>2. ASSUME NEW h \in Hashes, Clear(h)
        PROVE  HashInv'
    <2>1. /\ op # "plus" /\ op' = "none"
          /\ count' = [count EXCEPT ![h] = [c \in Chars |-> IF c \in Occupied(h) THEN 0 ELSE @[c]]]
          /\ index' = [index EXCEPT ![h] = <<>>]
          /\ bag' = [bag EXCEPT ![h] = Nothing]
          /\ UNCHANGED <<x, y, k, result>>
      BY <1>2 DEF Clear, Idle
    <2>2. [c \in Chars |-> IF c \in Occupied(h) THEN 0 ELSE count[h][c]] = Nothing
      BY DEF HashInv, Sparse, Nothing
    <2>3. count' = [count EXCEPT ![h] = Nothing]
      BY <2>1, <2>2 DEF HashInv, TypeOK
    <2>4. /\ Nothing \in [Chars -> {0}] /\ Nothing \in [Chars -> Nat]
          /\ Nothing \in [Chars -> -(MaxCount + 1) .. MaxCount]
      BY DEF Nothing
    <2>5. TypeOK'
      <3>1. /\ count' \in [Hashes -> [Chars -> -(MaxCount + 1) .. MaxCount]]
            /\ bag' \in [Hashes -> [Chars -> Nat]]
        BY <2>1, <2>3, <2>4 DEF HashInv, TypeOK
      <3>2. index' \in [Hashes -> Seq(Chars)]
        BY <2>1 DEF HashInv, TypeOK
      <3> QED
        BY <2>1, <3>1, <3>2 DEF HashInv, TypeOK
    <2>6. Sparse'
      <3>1. index'[h] = <<>> /\ Occupied(h)' = {} /\ count'[h] = Nothing
        BY <2>1, <2>3 DEF HashInv, TypeOK, Occupied
      <3>2. \A g \in Hashes : g # h => /\ index'[g] = index[g] /\ Occupied(g)' = Occupied(g)
                                       /\ count'[g] = count[g]
        BY <2>1, <2>3 DEF HashInv, TypeOK, Occupied
      <3> QED
        BY <2>4, <3>1, <3>2 DEF HashInv, Sparse
    <2>7. CountInv'
      BY <2>1, <2>3, <2>4 DEF HashInv, TypeOK, CountInv
    <2> QED
      BY <1>1, <2>1, <2>5, <2>6, <2>7 DEF HashInv
  <1>3. ASSUME NEW h \in Hashes, NEW c \in Chars, CountChar(h, c)
        PROVE  HashInv'
    <2>1. /\ op # "plus" /\ op' = "none" /\ bag[h][c] < MaxCount
          /\ Grow(h, c, 1)
          /\ bag' = [bag EXCEPT ![h][c] = @ + 1]
          /\ UNCHANGED <<x, y, k, result>>
      BY <1>3 DEF CountChar, Idle
    <2>2. count[h] = bag[h] /\ count[h][c] \in 0 .. MaxCount /\ count[h][c] + 1 <= MaxCount
      BY <2>1 DEF HashInv, TypeOK, CountInv
    <2>3. /\ Sparse'
          /\ count' = [count EXCEPT ![h][c] = @ + 1]
          /\ count' \in [Hashes -> [Chars -> -(MaxCount + 1) .. MaxCount]]
          /\ index' \in [Hashes -> Seq(Chars)]
      <3>1. 1 \in 1 .. MaxCount
        OBVIOUS
      <3> QED
        BY <2>1, <2>2, <3>1, GrowSparse DEF HashInv
    <2>4. TypeOK'
      <3>1. bag' \in [Hashes -> [Chars -> Nat]]
        <4>1. bag \in [Hashes -> [Chars -> Nat]]
          BY DEF HashInv, TypeOK
        <4>2. bag \in [Hashes -> [Chars -> Nat]] /\ bag[h][c] + 1 \in Nat
          BY <4>1
        <4>3. [bag[h] EXCEPT ![c] = @ + 1] \in [Chars -> Nat]
          BY <4>2
        <4> QED
          BY <2>1, <4>2, <4>3
      <3> QED
        BY <2>1, <2>3, <3>1 DEF HashInv, TypeOK
    <2>5. CountInv'
      <3>1. \A g \in Hashes : count'[g] = bag'[g]
        BY <2>1, <2>2, <2>3 DEF HashInv, TypeOK, CountInv
      <3>2. \A g \in Hashes, d \in Chars : bag'[g][d] <= MaxCount
        BY <2>1 DEF HashInv, TypeOK, CountInv
      <3> QED
        BY <2>1, <3>1, <3>2 DEF CountInv
    <2> QED
      BY <1>1, <2>1, <2>3, <2>4, <2>5 DEF HashInv
  <1>4. ASSUME PlusStep
        PROVE  HashInv'
    <2> DEFINE c == index[y][k]
    <2>1. /\ op = "plus" /\ op' = "plus" /\ k > 0 /\ k' = k - 1
          /\ Grow(x, c, count[y][c])
          /\ UNCHANGED <<bag, x, y, result>>
      BY <1>4 DEF PlusStep
    <2>2. /\ x \in Hashes /\ y \in Hashes /\ x # y /\ k \in 1 .. Len(index[y])
          /\ index[y] \in Seq(Chars) /\ k \in Nat
      BY <2>1 DEF HashInv, TypeOK, CountInv
    <2>3. c \in Chars /\ c \in Occupied(y)
      BY <2>2 DEF Occupied
    <2>4. ~Passed(y, c)
      BY <2>2 DEF Passed, HashInv, Sparse
    <2> HIDE DEF c
    <2>5. count[y] = bag[y] /\ count[y][c] \in 1 .. MaxCount
      <3>1. count[y] = bag[y] /\ count[y][c] # 0
        BY <2>2, <2>3 DEF HashInv, CountInv, Sparse
      <3> QED
        BY <2>2, <2>3, <3>1 DEF HashInv, TypeOK
    <2>6. /\ count[x][c] = bag[x][c] /\ count[x][c] \in 0 .. MaxCount
          /\ count[x][c] + count[y][c] <= MaxCount
      BY <2>1, <2>2, <2>3, <2>4, <2>5 DEF HashInv, TypeOK, CountInv
    <2>7. /\ Sparse'
          /\ count' = [count EXCEPT ![x][c] = @ + count[y][c]]
          /\ count' \in [Hashes -> [Chars -> -(MaxCount + 1) .. MaxCount]]
          /\ index' \in [Hashes -> Seq(Chars)]
          /\ index'[y] = index[y]
      <3>1. TypeOK /\ Sparse
        BY DEF HashInv
      <3>2. /\ Sparse'
            /\ count' = [count EXCEPT ![x][c] = @ + count[y][c]]
            /\ count' \in [Hashes -> [Chars -> -(MaxCount + 1) .. MaxCount]]
            /\ index' \in [Hashes -> Seq(Chars)]
            /\ \A g \in Hashes : g # x => index'[g] = index[g]
        BY <2>1, <2>2, <2>3, <2>5, <2>6, <3>1, GrowSparse
      <3> QED
        BY <2>2, <3>2
    <2>8. TypeOK'
      <3>1. k' \in Nat
        BY <2>1, <2>2
      <3> QED
        BY <2>1, <2>7, <3>1 DEF HashInv, TypeOK
    <2>9. \A d \in Chars : Passed(y, d)' <=> Passed(y, d) \/ d = c
      <3>1. y' = y /\ index'[y] = index[y] /\ k' = k - 1
        BY <2>1, <2>2, <2>7
      <3>2. k \in 1 .. Len(index[y]) /\ k \in Int /\ c = index[y][k]
        BY <2>2 DEF c
      <3>3. \A m \in 1 .. Len(index[y]) : m > k - 1 <=> m > k \/ m = k
        BY <3>2
      <3> HIDE DEF c
      <3> QED
        BY <3>1, <3>2, <3>3 DEF Passed
    <2>10. CountInv'
      <3>1. \A h \in Hashes : h # x => count'[h] = bag'[h]
        BY <2>1, <2>2, <2>7 DEF HashInv, TypeOK, CountInv
      <3>2. \A d \in Chars :
              count'[x][d] = bag'[x][d] + (IF Passed(y, d)' THEN bag'[y][d] ELSE 0)
        BY <2>1, <2>2, <2>3, <2>4, <2>5, <2>6, <2>7, <2>9 DEF HashInv, TypeOK, CountInv
      <3>3. op' = "plus" /\ x' # y' /\ k' <= Len(index'[y'])
        BY <2>1, <2>2, <2>7
      <3>4. /\ \A h \in Hashes, d \in Chars : bag'[h][d] <= MaxCount
            /\ \A d \in Chars : bag'[x][d] + bag'[y][d] <= MaxCount
        BY <2>1 DEF HashInv, CountInv
      <3>5. x' = x /\ y' = y
        BY <2>1
      <3> QED
        BY <3>1, <3>2, <3>3, <3>4, <3>5 DEF CountInv
    <2> QED
      BY <1>1, <2>1, <2>7, <2>8, <2>10 DEF HashInv
  <1>5. ASSUME EndPlus
        PROVE  HashInv'
    <2>1. /\ op = "plus" /\ op' = "none" /\ k = 0
          /\ bag' = [bag EXCEPT ![x] = [c \in Chars |-> @[c] + bag[y][c]]]
          /\ UNCHANGED <<count, index, x, y, k, result>>
      BY <1>5 DEF EndPlus
    <2>2. x \in Hashes /\ y \in Hashes /\ x # y /\ count[y] = bag[y]
      BY <2>1 DEF HashInv, TypeOK, CountInv
    <2>3. \A c \in Chars : Passed(y, c) <=> bag[y][c] # 0
      <3>1. \A c \in Chars : Passed(y, c) <=> c \in Occupied(y)
        BY <2>1 DEF Passed, Occupied
      <3> QED
        BY <2>2, <3>1 DEF HashInv, Sparse
    <2>4. \A c \in Chars : count[x][c] = bag[x][c] + bag[y][c] /\ count[x][c] <= MaxCount
      BY <2>1, <2>2, <2>3 DEF HashInv, TypeOK, CountInv
    <2>5. /\ bag'[x] = count[x] /\ \A h \in Hashes : h # x => bag'[h] = bag[h]
          /\ bag' \in [Hashes -> [Chars -> Nat]]
      BY <2>1, <2>2, <2>4 DEF HashInv, TypeOK
    <2>6. TypeOK'
      BY <2>1, <2>5 DEF HashInv, TypeOK
    <2>7. Sparse'
      BY <2>1 DEF HashInv, Sparse, Occupied
    <2>8. CountInv'
      BY <2>1, <2>2, <2>4, <2>5 DEF HashInv, TypeOK, CountInv
    <2> QED
      BY <1>1, <2>1, <2>6, <2>7, <2>8 DEF HashInv
  <1> QED
    BY <1>2, <1>3, <1>4, <1>5

\* Outside of a sum, counts, bags and index agree.
LEMMA BetweenSums ==
  ASSUME HashInv, op # "plus", NEW h \in Hashes, NEW c \in Chars
  PROVE  /\ count[h][c] = bag[h][c] /\ bag[h][c] \in Nat
         /\ bag[h][c] > 0 <=> c \in Occupied(h)
  <1>1. count[h][c] = bag[h][c]
    BY DEF HashInv, CountInv
  <1>2. bag[h][c] \in Nat
    BY DEF HashInv, TypeOK
  <1>3. count[h][c] # 0 <=> c \in Occupied(h)
    BY DEF HashInv, Sparse
  <1> QED
    BY <1>1, <1>2, <1>3

\* Compare and IsSubset (occupancy_hash.h:114-184).  That a hash with more
\* different characters exceeds another, whichever they are, is the pigeonhole.
LEMMA FewerCharacters ==
  ASSUME HashInv, op # "plus", NEW g \in Hashes, NEW h \in Hashes,
         \A c \in Chars : bag[g][c] > 0 => bag[h][c] > 0
  PROVE  Len(index[g]) <= Len(index[h])
  <1>1. index[g] \in Seq(Chars) /\ index[h] \in Seq(Chars)
    BY DEF HashInv, TypeOK
  <1>2. \A c \in Chars : /\ bag[g][c] > 0 <=> c \in Occupied(g)
                         /\ bag[h][c] > 0 <=> c \in Occupied(h)
    BY BetweenSums
  <1>3. \A i \in 1 .. Len(index[g]) : \E j \in 1 .. Len(index[h]) : index[h][j] = index[g][i]
    BY <1>1, <1>2 DEF Occupied
  <1>4. \A i, j \in 1 .. Len(index[g]) : index[g][i] = index[g][j] => i = j
    BY DEF HashInv, Sparse
  <1> QED
    BY <1>1, <1>3, <1>4, NoLonger

LEMMA LookStep ==
  ASSUME HashInv, UNCHANGED hashes,
         \/ \E g, h \in Hashes : StartPlus(g, h) \/ StartCompare(g, h) \/ StartSubset(g, h)
         \/ CompareStep \/ EndCompare \/ BackStep \/ EndBack \/ SubsetStep \/ EndSubset,
         Short
  PROVE  HashInv'
  <1> USE ConstantsAssumption DEF ConstantsAssumption, hashes
  <1>1. Sparse'
    BY DEF HashInv, Sparse, Occupied
  <1>2. \A h \in Hashes : Len(index[h]) \in Nat
    BY DEF HashInv, TypeOK
  <1>3. op # "plus" => \A h \in Hashes, c \in Chars :
                         /\ count[h][c] = bag[h][c] /\ bag[h][c] \in Nat
                         /\ bag[h][c] > 0 <=> c \in Occupied(h)
    BY BetweenSums
  <1>4. ASSUME NEW g \in Hashes, NEW h \in Hashes, StartPlus(g, h)
        PROVE  HashInv'
    <2>1. /\ op # "plus" /\ g # h /\ op' = "plus" /\ x' = g /\ y' = h /\ k' = Len(index[h])
          /\ \A c \in Chars : bag[g][c] + bag[h][c] <= MaxCount
          /\ UNCHANGED <<count, index, bag, result>>
      BY <1>4 DEF StartPlus, Idle
    <2>2. TypeOK'
      BY <1>2, <2>1 DEF HashInv, TypeOK
    <2>3. \A c \in Chars : ~Passed(h, c)'
      BY <2>1 DEF Passed
    <2>4. CountInv'
      BY <1>2, <1>3, <2>1, <2>3 DEF HashInv, CountInv
    <2>5. LoopInv' /\ CompareRight' /\ SubsetRight'
      BY <2>1 DEF LoopInv, CompareRight, SubsetRight
    <2> QED
      BY <1>1, <2>2, <2>4, <2>5 DEF HashInv
  <1>5. ASSUME NEW g \in Hashes, NEW h \in Hashes, StartCompare(g, h)
        PROVE  HashInv'
    <2>1. /\ op # "plus" /\ g # h /\ x' = g /\ y' = h /\ k' = Len(index[g])
          /\ UNCHANGED <<count, index, bag>>
          /\ \/ Len(index[h]) < Len(index[g]) /\ op' = "compared" /\ result' = 1
             \/ Len(index[h]) = Len(index[g]) /\ op' = "compare" /\ result' = 0
             \/ Len(index[h]) > Len(index[g]) /\ op' = "compare" /\ result' = -1
      BY <1>5 DEF StartCompare, Idle
    <2>2. TypeOK'
      BY <1>2, <2>1 DEF HashInv, TypeOK
    <2>3. \A c \in Chars : ~Passed(g, c)'
      BY <2>1 DEF Passed
    <2>4. CountInv'
      BY <2>1 DEF HashInv, CountInv
    <2>5. Len(index[h]) < Len(index[g]) => ~Within(g, h)
      <3>1. Within(g, h) => \A c \in Chars : bag[g][c] > 0 => bag[h][c] > 0
        BY <1>3, <2>1 DEF Within
      <3> QED
        BY <1>2, <2>1, <3>1, FewerCharacters
    <2>6. Len(index[h]) > Len(index[g]) => bag[g] # bag[h]
      <3>1. bag[g] = bag[h] => \A c \in Chars : bag[h][c] > 0 => bag[g][c] > 0
        OBVIOUS
      <3> QED
        BY <1>2, <2>1, <3>1, FewerCharacters
    <2>7. LoopInv'
      BY <1>2, <2>1, <2>3, <2>6 DEF LoopInv
    <2>8. CompareRight' /\ SubsetRight'
      <3>1. ~Within(g, h) => bag[g] # bag[h]
        BY <1>3, <2>1 DEF Within
      <3> QED
        BY <2>1, <2>5, <3>1 DEF CompareRight, SubsetRight, Within
    <2> QED
      BY <1>1, <2>2, <2>4, <2>7, <2>8 DEF HashInv
  <1>6. ASSUME NEW g \in Hashes, NEW h \in Hashes, StartSubset(g, h)
        PROVE  HashInv'
    <2>1. /\ op # "plus" /\ g # h /\ op' = "subset" /\ x' = g /\ y' = h
          /\ k' = Len(index[g]) /\ result' = 1
          /\ UNCHANGED <<count, index, bag>>
      BY <1>6 DEF StartSubset, Idle
    <2>2. TypeOK'
      BY <1>2, <2>1 DEF HashInv, TypeOK
    <2>3. \A c \in Chars : ~Passed(g, c)'
      BY <2>1 DEF Passed
    <2>4. CountInv'
      BY <2>1 DEF HashInv, CountInv
    <2>5. LoopInv' /\ CompareRight' /\ SubsetRight'
      BY <1>2, <2>1, <2>3 DEF LoopInv, CompareRight, SubsetRight
    <2> QED
      BY <1>1, <2>2, <2>4, <2>5 DEF HashInv
  <1>7. CASE CompareStep
    <2> DEFINE c == index[x][k]
    <2>1. /\ op = "compare" /\ k > 0 /\ k' = k - 1
          /\ result' = IF count[x][c] > count[y][c] THEN 1
                       ELSE IF count[x][c] < count[y][c] THEN -1 ELSE result
          /\ op' = IF count[x][c] > count[y][c] THEN "compared" ELSE op
          /\ UNCHANGED <<count, index, bag, x, y>>
      BY <1>7 DEF CompareStep
    <2>2. /\ x \in Hashes /\ y \in Hashes /\ k \in 1 .. Len(index[x]) /\ c \in Chars
          /\ result \in {-1, 0}
      <3>1. x \in Hashes /\ y \in Hashes /\ k \in Nat /\ result \in {-1, 0, 1}
        BY DEF HashInv, TypeOK
      <3>2. k <= Len(index[x]) /\ result # 1
        BY <2>1 DEF HashInv, LoopInv
      <3>3. index[x] \in Seq(Chars)
        BY <3>1 DEF HashInv, TypeOK
      <3>4. k \in 1 .. Len(index[x])
        BY <2>1, <3>1, <3>2, <3>3
      <3> QED
        BY <3>1, <3>2, <3>3, <3>4
    <2>3. \A d \in Chars : Passed(x, d)' <=> Passed(x, d) \/ d = c
      BY <2>1, <2>2 DEF Passed
    <2> HIDE DEF c
    <2>4. TypeOK'
      <3>1. k' \in Nat /\ result' \in {-1, 0, 1} /\ op' \in {"compare", "compared"}
        BY <2>1, <2>2
      <3> QED
        BY <2>1, <3>1 DEF HashInv, TypeOK
    <2>5. CountInv'
      BY <2>1 DEF HashInv, CountInv
    <2>6. count[x][c] = bag[x][c] /\ count[y][c] = bag[y][c] /\ bag[x][c] \in Nat /\ bag[y][c] \in Nat
      BY <1>3, <2>1, <2>2
    <2>7. LoopInv'
      BY <2>1, <2>2, <2>3, <2>6 DEF HashInv, LoopInv
    <2>8. CompareRight' /\ SubsetRight'
      BY <2>1, <2>2, <2>6 DEF CompareRight, SubsetRight, Within
    <2> QED
      BY <1>1, <2>4, <2>5, <2>7, <2>8 DEF HashInv
  <1>8. CASE EndCompare
    <2>1. /\ op = "compare" /\ k = 0
          /\ IF result = 0 THEN op' = "back" /\ k' = Len(index[y])
                           ELSE op' = "compared" /\ UNCHANGED k
          /\ UNCHANGED <<count, index, bag, x, y, result>>
      BY <1>8 DEF EndCompare
    <2>2. x \in Hashes /\ y \in Hashes /\ result \in {-1, 0}
      BY <2>1 DEF HashInv, TypeOK, LoopInv
    <2>3. TypeOK'
      BY <1>2, <2>1, <2>2 DEF HashInv, TypeOK
    <2>4. CountInv'
      BY <2>1 DEF HashInv, CountInv
    <2>5. \A c \in Chars : Passed(x, c) <=> bag[x][c] > 0
      BY <1>3, <2>1, <2>2 DEF Passed, Occupied
    <2>6. Within(x, y)
      BY <1>3, <2>1, <2>2, <2>5 DEF Within, HashInv, LoopInv
    <2>7. CompareRight' /\ SubsetRight'
      BY <2>1, <2>2, <2>6 DEF CompareRight, SubsetRight, Within, HashInv, LoopInv
    <2>8. LoopInv'
      <3>1. Occupied(x) \subseteq Chars
        <4>1. index[x] \in Seq(Chars)
          BY <2>2 DEF HashInv, TypeOK
        <4> QED
          BY <4>1 DEF Occupied
      <3>2. result = 0 => \A c \in Occupied(x) : bag[x][c] = bag[y][c]
        BY <1>3, <2>1, <2>2, <2>5, <3>1 DEF HashInv, LoopInv
      <3>3. op' = "back" => \A c \in Chars : ~Passed(y, c)'
        BY <2>1 DEF Passed
      <3> QED
        BY <1>2, <2>1, <2>2, <3>2, <3>3 DEF LoopInv, Occupied
    <2> QED
      BY <1>1, <2>3, <2>4, <2>7, <2>8 DEF HashInv
  <1>9. CASE BackStep
    <2> DEFINE c == index[y][k]
    <2>1. /\ op = "back" /\ k > 0 /\ k' = k - 1
          /\ IF count[x][c] < count[y][c] THEN op' = "compared" /\ result' = -1
                                          ELSE UNCHANGED <<op, result>>
          /\ UNCHANGED <<count, index, bag, x, y>>
      BY <1>9 DEF BackStep
    <2>2. /\ x \in Hashes /\ y \in Hashes /\ k \in 1 .. Len(index[y]) /\ c \in Chars
          /\ result = 0
      BY <2>1 DEF HashInv, TypeOK, LoopInv
    <2>3. \A d \in Chars : Passed(y, d)' <=> Passed(y, d) \/ d = c
      BY <2>1, <2>2 DEF Passed
    <2> HIDE DEF c
    <2>4. TypeOK'
      <3>1. k' \in Nat /\ result' \in {-1, 0, 1} /\ op' \in {"back", "compared"}
        BY <2>1, <2>2
      <3> QED
        BY <2>1, <3>1 DEF HashInv, TypeOK
    <2>5. CountInv'
      BY <2>1 DEF HashInv, CountInv
    <2>6. count[x][c] = bag[x][c] /\ count[y][c] = bag[y][c] /\ bag[x][c] \in Nat /\ bag[y][c] \in Nat
      BY <1>3, <2>1, <2>2
    <2>7. LoopInv'
      BY <2>1, <2>2, <2>3, <2>6 DEF HashInv, LoopInv, Occupied
    <2>8. Within(x, y)
      BY <1>3, <2>1, <2>2 DEF Within, HashInv, LoopInv
    <2>9. CompareRight' /\ SubsetRight'
      BY <2>1, <2>2, <2>6, <2>8 DEF CompareRight, SubsetRight, Within
    <2> QED
      BY <1>1, <2>4, <2>5, <2>7, <2>9 DEF HashInv
  <1>10. CASE EndBack
    <2>1. /\ op = "back" /\ k = 0 /\ op' = "compared"
          /\ UNCHANGED <<count, index, bag, x, y, k, result>>
      BY <1>10 DEF EndBack
    <2>2. x \in Hashes /\ y \in Hashes /\ result = 0
      BY <2>1 DEF HashInv, TypeOK, LoopInv
    <2>3. TypeOK'
      BY <2>1 DEF HashInv, TypeOK
    <2>4. CountInv'
      BY <2>1 DEF HashInv, CountInv
    <2>5. \A c \in Chars : Passed(y, c) <=> bag[y][c] > 0
      BY <1>3, <2>1, <2>2 DEF Passed, Occupied
    <2>6. \A c \in Chars : bag[x][c] = bag[y][c]
      BY <1>3, <2>1, <2>2, <2>5 DEF HashInv, LoopInv
    <2>7. bag[x] = bag[y]
      BY <2>2, <2>6 DEF HashInv, TypeOK
    <2>8. LoopInv' /\ CompareRight' /\ SubsetRight'
      BY <1>3, <2>1, <2>2, <2>7 DEF LoopInv, CompareRight, SubsetRight, Within
    <2> QED
      BY <1>1, <2>3, <2>4, <2>8 DEF HashInv
  <1>11. CASE SubsetStep
    <2> DEFINE c == index[x][k]
    <2>1. /\ op = "subset" /\ k > 0 /\ k' = k - 1
          /\ IF count[y][c] < count[x][c] THEN op' = "tested" /\ result' = 0
                                          ELSE UNCHANGED <<op, result>>
          /\ UNCHANGED <<count, index, bag, x, y>>
      BY <1>11 DEF SubsetStep
    <2>2. x \in Hashes /\ y \in Hashes /\ k \in 1 .. Len(index[x]) /\ c \in Chars /\ result = 1
      BY <2>1 DEF HashInv, TypeOK, LoopInv
    <2>3. \A d \in Chars : Passed(x, d)' <=> Passed(x, d) \/ d = c
      BY <2>1, <2>2 DEF Passed
    <2> HIDE DEF c
    <2>4. TypeOK'
      <3>1. k' \in Nat /\ result' \in {-1, 0, 1} /\ op' \in {"subset", "tested"}
        BY <2>1, <2>2
      <3> QED
        BY <2>1, <3>1 DEF HashInv, TypeOK
    <2>5. CountInv'
      BY <2>1 DEF HashInv, CountInv
    <2>6. count[x][c] = bag[x][c] /\ count[y][c] = bag[y][c] /\ bag[x][c] \in Nat /\ bag[y][c] \in Nat
      BY <1>3, <2>1, <2>2
    <2>7. LoopInv' /\ CompareRight' /\ SubsetRight'
      BY <2>1, <2>2, <2>3, <2>6 DEF HashInv, LoopInv, CompareRight, SubsetRight, Within
    <2> QED
      BY <1>1, <2>4, <2>5, <2>7 DEF HashInv
  <1>12. CASE EndSubset
    <2>1. /\ op = "subset" /\ k = 0 /\ op' = "tested"
          /\ UNCHANGED <<count, index, bag, x, y, k, result>>
      BY <1>12 DEF EndSubset
    <2>2. x \in Hashes /\ y \in Hashes /\ result = 1
      BY <2>1 DEF HashInv, TypeOK, LoopInv
    <2>3. TypeOK'
      BY <2>1 DEF HashInv, TypeOK
    <2>4. CountInv'
      BY <2>1 DEF HashInv, CountInv
    <2>5. \A c \in Chars : Passed(x, c) <=> bag[x][c] > 0
      BY <1>3, <2>1, <2>2 DEF Passed, Occupied
    <2>6. Within(x, y)
      BY <1>3, <2>1, <2>2, <2>5 DEF Within, HashInv, LoopInv
    <2>7. LoopInv' /\ CompareRight' /\ SubsetRight'
      BY <2>1, <2>2, <2>6 DEF LoopInv, CompareRight, SubsetRight, Within
    <2> QED
      BY <1>1, <2>3, <2>4, <2>7 DEF HashInv
  <1> QED
    BY <1>4, <1>5, <1>6, <1>7, <1>8, <1>9, <1>10, <1>11, <1>12

-----------------------------------------------------------------------------
\* The inductive invariant: counts, bags, index and the loops' findings agree
\* at every iteration of every call.
THEOREM HashInvariant ==
  ASSUME Short, FromWord = {}
  PROVE  Spec => []HashInv
  <1>1. Init => HashInv
    BY InitHash
  <1>2. HashInv /\ [Next]_vars => HashInv'
    <2>1. SUFFICES ASSUME HashInv, [Next]_vars
                   PROVE  HashInv'
      OBVIOUS
    <2>2. CASE \/ \E h \in Hashes : Clear(h) \/ \E c \in Chars : CountChar(h, c)
               \/ PlusStep \/ EndPlus
      BY <2>1, <2>2, ChangeStep
    <2>3. CASE \/ \E g, h \in Hashes : StartPlus(g, h) \/ StartCompare(g, h) \/ StartSubset(g, h)
               \/ CompareStep \/ EndCompare \/ BackStep \/ EndBack \/ SubsetStep \/ EndSubset
      <3>1. UNCHANGED hashes
        BY <2>3 DEF StartPlus, StartCompare, StartSubset, CompareStep, EndCompare,
                    BackStep, EndBack, SubsetStep, EndSubset
      <3> QED
        BY <2>1, <2>3, <3>1, LookStep
    <2>4. CASE UNCHANGED vars
      BY <2>1, <2>4 DEF HashInv, TypeOK, Sparse, CountInv, LoopInv, CompareRight, SubsetRight,
                        Occupied, Passed, Within, vars, hashes, call
    <2> QED
      BY <2>1, <2>2, <2>3, <2>4 DEF Next
  <1> QED
    BY <1>1, <1>2, PTL DEF Spec

\* No count leaves a signed char, and no loop counter goes below zero
\* (occupancy_hash.h:65-75, 130-155, 213), if no character occurs more often than a
\* signed char can count.
THEOREM HashType ==
  ASSUME Short, FromWord = {}
  PROVE  Spec => []TypeOK
  <1>1. HashInv => TypeOK
    BY DEF HashInv
  <1> QED
    BY <1>1, HashInvariant, PTL

\* Between calls the counts are those of the characters counted and the index
\* lists each character that occurs, once (occupancy_hash.h:12-13, 32-78,
\* 189-207), if no character occurs more often than a signed char can count.
THEOREM HashCountsRight ==
  ASSUME Short, FromWord = {}
  PROVE  Spec => []CountsRight
  <1>1. HashInv => CountsRight
    <2>1. SUFFICES ASSUME HashInv, op # "plus", NEW h \in Hashes
                   PROVE  /\ count[h] = bag[h]
                          /\ \A c \in Chars : bag[h][c] > 0 => c \in Occupied(h)
                          /\ \A i \in 1 .. Len(index[h]) :
                               /\ bag[h][index[h][i]] > 0
                               /\ \A j \in 1 .. Len(index[h]) : index[h][i] = index[h][j] => i = j
      BY DEF CountsRight
    <2>2. count[h] = bag[h]
      BY <2>1 DEF HashInv, CountInv
    <2>3. \A c \in Chars : bag[h][c] > 0 <=> c \in Occupied(h)
      BY <2>1, BetweenSums
    <2>4. index[h] \in Seq(Chars)
      BY <2>1 DEF HashInv, TypeOK
    <2>5. \A i \in 1 .. Len(index[h]) : index[h][i] \in Chars /\ index[h][i] \in Occupied(h)
      BY <2>4 DEF Occupied
    <2>6. \A i, j \in 1 .. Len(index[h]) : index[h][i] = index[h][j] => i = j
      BY <2>1 DEF HashInv, Sparse
    <2> QED
      BY <2>2, <2>3, <2>5, <2>6
  <1> QED
    BY <1>1, HashInvariant, PTL

\* Compare answers 0, 1 or a negative number as occupancy_hash.h:110-112 says,
\* so the search neither misses an anagram nor takes a wrong one.
THEOREM HashCompareRight ==
  ASSUME Short, FromWord = {}
  PROVE  Spec => []CompareRight
  <1>1. HashInv => CompareRight
    BY DEF HashInv
  <1> QED
    BY <1>1, HashInvariant, PTL

\* IsSubset answers whether one text's characters are within the other's
\* (occupancy_hash.h:162-184).
THEOREM HashSubsetRight ==
  ASSUME Short, FromWord = {}
  PROVE  Spec => []SubsetRight
  <1>1. HashInv => SubsetRight
    BY DEF HashInv
  <1> QED
    BY <1>1, HashInvariant, PTL

\* The index of a hash never has more entries than there are characters, at any
\* iteration of any call (occupancy_hash.h:69-76, 198-205).
THEOREM HashIndexFits ==
  ASSUME Short, FromWord = {}, IsFiniteSet(Chars)
  PROVE  Spec => []IndexFits
  <1>1. HashInv => IndexFits
    <2>1. SUFFICES ASSUME HashInv, NEW h \in Hashes
                   PROVE  Len(index[h]) <= Cardinality(Chars)
      BY DEF IndexFits
    <2> DEFINE n == Len(index[h])
    <2>2. index[h] \in Seq(Chars)
      BY <2>1 DEF HashInv, TypeOK
    <2>3. \A i, j \in 1 .. n : index[h][i] = index[h][j] => i = j
      BY <2>1 DEF HashInv, Sparse
    <2>4. n \in Nat /\ index[h] \in [1 .. n -> Chars]
      BY <2>2
    <2>5. index[h] \in Injection(1 .. n, Chars)
      BY <2>3, <2>4 DEF Injection, IsInjective
    <2>6. Cardinality(1 .. n) <= Cardinality(Chars)
      BY <2>5, FS_Injection
    <2>7. Cardinality(1 .. n) = n
      <3> HIDE DEF n
      <3> QED
        BY <2>4, FS_Interval
    <2> QED
      BY <2>6, <2>7
  <1> QED
    BY <1>1, HashInvariant, PTL

=============================================================================
