------------------------- MODULE CombineSubsetsProofs -------------------------
(***************************************************************************)
(* The search, for any dictionary, any phrase and any number of threads:   *)
(* the hashes of the recursion go with its frames, and what it finds are   *)
(* anagrams.                                                               *)
(***************************************************************************)
EXTENDS CombineSubsets, FiniteSetTheorems, FunctionTheorems, SequenceTheorems, TLAPS

\* Where in a phrase a character occurs.
Occurrences(c, phrase) == UNION {{n} \X PlacesOf(c, phrase[n]) : n \in 1 .. Len(phrase)}

LEMMA PlacesFinite ==
  ASSUME NEW w \in Words, NEW c
  PROVE  IsFiniteSet(PlacesOf(c, w))
  <1>1. WordList[w] \in Seq(Chars)
    <2> DEFINE Spelling == Seq(Chars) \ {<<>>}
    <2>1. WordList \in Seq(Spelling) /\ w \in 1 .. Len(WordList)
      BY ConstantsAssumption DEF Words
    <2>2. WordList[w] \in Spelling
      <3> HIDE DEF Spelling
      <3> QED
        BY <2>1
    <2> QED
      BY <2>2
  <1>2. Len(WordList[w]) \in Nat
    BY <1>1
  <1>3. IsFiniteSet(1 .. Len(WordList[w]))
    BY <1>2, FS_Interval
  <1> QED
    BY <1>3, FS_Subset DEF PlacesOf

LEMMA OccurrencesFinite ==
  ASSUME NEW phrase \in Seq(Words), NEW c
  PROVE  IsFiniteSet(Occurrences(c, phrase))
  <1> DEFINE part == [n \in 1 .. Len(phrase) |-> {n} \X PlacesOf(c, phrase[n])]
             parts == {{n} \X PlacesOf(c, phrase[n]) : n \in 1 .. Len(phrase)}
  <1>1. Len(phrase) \in Nat /\ \A n \in 1 .. Len(phrase) : phrase[n] \in Words
    OBVIOUS
  <1>2. IsFiniteSet(1 .. Len(phrase))
    BY <1>1, FS_Interval
  <1>3. part \in Surjection(1 .. Len(phrase), parts)
    BY DEF Surjection
  <1>4. IsFiniteSet(parts)
    <2> HIDE DEF part, parts
    <2> QED
      BY <1>2, <1>3, FS_Surjection
  <1>5. ASSUME NEW n \in 1 .. Len(phrase)
        PROVE  IsFiniteSet({n} \X PlacesOf(c, phrase[n]))
    <2>1. IsFiniteSet({n}) /\ IsFiniteSet(PlacesOf(c, phrase[n]))
      BY <1>1, FS_Singleton, PlacesFinite
    <2> QED
      BY <2>1, FS_Product
  <1>6. \A T \in parts : IsFiniteSet(T)
    BY <1>5
  <1> HIDE DEF parts
  <1>7. IsFiniteSet(UNION parts)
    BY <1>4, <1>6, FS_UNION
  <1> QED
    BY <1>7 DEF Occurrences, parts

\* The hash of a phrase counts.
LEMMA CountType ==
  ASSUME NEW phrase \in Seq(Words)
  PROVE  CharCount(phrase) \in Bag
  <1>1. \A c \in Chars : Cardinality(Occurrences(c, phrase)) \in Nat
    BY OccurrencesFinite, FS_CardinalityType
  <1> QED
    BY <1>1 DEF CharCount, Bag, Occurrences

\* candidate_count_b of a phrase and one more word, which is the sum of two hashes, is
\* the count of the phrase with the word at its end (main.cc:266-271).
LEMMA CountAppend ==
  ASSUME NEW phrase \in Seq(Words), NEW w \in Words
  PROVE  CharCount(Append(phrase, w)) = Plus(CharCount(<<w>>), CharCount(phrase))
  <1> DEFINE m == Len(phrase) + 1
             longer == Append(phrase, w)
  <1>1. /\ Len(phrase) \in Nat /\ longer \in Seq(Words) /\ Len(longer) = m /\ longer[m] = w
        /\ \A n \in 1 .. Len(phrase) : longer[n] = phrase[n]
    OBVIOUS
  <1>2. <<w>> \in Seq(Words) /\ Len(<<w>>) = 1 /\ <<w>>[1] = w
    OBVIOUS
  <1> SUFFICES ASSUME NEW c \in Chars
               PROVE  Cardinality(Occurrences(c, longer))
                      = Cardinality(Occurrences(c, <<w>>)) + Cardinality(Occurrences(c, phrase))
    BY DEF CharCount, Plus, Occurrences
  <1> HIDE DEF longer
  <1>3. Occurrences(c, longer) = Occurrences(c, phrase) \union ({m} \X PlacesOf(c, w))
    <2>1. 1 .. m = (1 .. Len(phrase)) \union {m}
      BY <1>1
    <2> QED
      BY <1>1, <2>1 DEF Occurrences
  <1>4. Occurrences(c, phrase) \intersect ({m} \X PlacesOf(c, w)) = {}
    <2>1. m \notin 1 .. Len(phrase)
      BY <1>1
    <2> QED
      BY <2>1 DEF Occurrences
  <1>5. Occurrences(c, <<w>>) = {1} \X PlacesOf(c, w)
    <2>1. 1 .. 1 = {1}
      OBVIOUS
    <2> QED
      BY <1>2, <2>1 DEF Occurrences
  <1>6. ASSUME NEW n
        PROVE  /\ IsFiniteSet({n} \X PlacesOf(c, w))
               /\ Cardinality({n} \X PlacesOf(c, w)) = Cardinality(PlacesOf(c, w))
    <2>1. IsFiniteSet({n}) /\ Cardinality({n}) = 1 /\ IsFiniteSet(PlacesOf(c, w))
      BY FS_Singleton, PlacesFinite
    <2>2. Cardinality(PlacesOf(c, w)) \in Nat
      BY <2>1, FS_CardinalityType
    <2> QED
      BY <2>1, <2>2, FS_Product
  <1>7. IsFiniteSet(Occurrences(c, phrase)) /\ Cardinality({}) = 0
    BY OccurrencesFinite, FS_EmptySet
  <1> DEFINE before == Occurrences(c, phrase)
             added == {m} \X PlacesOf(c, w)
             all == Occurrences(c, longer)
             alone == {1} \X PlacesOf(c, w)
  <1>8. /\ IsFiniteSet(before) /\ IsFiniteSet(added) /\ Cardinality({}) = 0
        /\ all = before \union added /\ before \intersect added = {}
        /\ Cardinality(added) = Cardinality(alone) /\ Occurrences(c, <<w>>) = alone
    BY <1>3, <1>4, <1>5, <1>6, <1>7
  <1> HIDE DEF before, added, all, alone
  <1>9. Cardinality(before) \in Nat /\ Cardinality(added) \in Nat
    BY <1>8, FS_CardinalityType
  <1>10. Cardinality(all) = Cardinality(before) + Cardinality(added) - Cardinality({})
    BY <1>8, FS_Union
  <1>11. Cardinality(all) = Cardinality(alone) + Cardinality(before)
    BY <1>8, <1>9, <1>10
  <1> QED
    BY <1>8, <1>11 DEF all, before


-----------------------------------------------------------------------------
\* Words and the end of the map are numbers.
LEMMA WordNumbers ==
  Len(WordList) \in Nat /\ End \in Nat /\ \A w \in Words : w \in Nat /\ w <= End
  <1>1. Len(WordList) \in Nat
    BY ConstantsAssumption
  <1> QED
    BY <1>1 DEF Words, End

\* An iterator does not go back.
LEMMA AdvanceForth ==
  ASSUME subset \subseteq Words, NEW w \in Words \union {End}, NEW n \in Nat
  PROVE  Advance(w, n) \in subset \union {End} /\ w <= Advance(w, n)
  <1> DEFINE reached == {v \in subset : v >= w /\ Cardinality({u \in subset : w <= u /\ u < v}) = n}
  <1>1. Advance(w, n) = IF reached = {} THEN End ELSE CHOOSE v \in reached : TRUE
    BY DEF Advance
  <1>2. \A v \in reached : v \in subset /\ v >= w /\ v \in Words
    OBVIOUS
  <1> HIDE DEF reached
  <1>3. CASE reached = {}
    BY <1>1, <1>3, WordNumbers
  <1>4. CASE reached # {}
    <2>1. Advance(w, n) \in reached
      BY <1>1, <1>4
    <2> QED
      BY <2>1, <1>2, WordNumbers
  <1> QED
    BY <1>3, <1>4

\* A frame of a stack that goes with its hashes.
LEMMA FrameOfStack ==
  ASSUME NEW partial \in SUBSET Words, NEW count, NEW stack \in Seq(Frame),
         StackInv(stack, count, partial), NEW n \in 1 .. Len(stack)
  PROVE  /\ stack[n] \in Frame /\ stack[n].word \in Seq(Words)
         /\ Len(stack[n].word) \in Nat \ {0}
         /\ \A m \in 1 .. Len(stack[n].word) : stack[n].word[m] \in partial
         /\ Sorted(stack[n].word)
         /\ stack[n].next \in partial \union {End}
         /\ stack[n].word[Len(stack[n].word)] <= stack[n].next
         /\ count[n - 1] = CharCount(stack[n].word)
         /\ n > 1 => stack[n].word = Append(stack[n - 1].word, stack[n - 1].next)
  <1>1. stack[n] \in Frame
    OBVIOUS
  <1>2. stack[n].word \in Seq(Words)
    BY <1>1 DEF Frame
  <1>3. n \in Nat \ {0} /\ Len(stack[n].word) = n
    BY DEF StackInv
  <1>4. Len(stack[n].word) \in Nat \ {0}
    BY <1>3
  <1> QED
    BY <1>1, <1>2, <1>4 DEF StackInv

\* The innermost frame.
LEMMA TopFrame ==
  ASSUME NEW partial \in SUBSET Words, NEW count, NEW stack \in Seq(Frame), stack # <<>>,
         StackInv(stack, count, partial)
  PROVE  LET top == stack[Len(stack)] IN
           /\ top.word \in Seq(Words) /\ Len(top.word) \in Nat \ {0} /\ Sorted(top.word)
           /\ \A m \in 1 .. Len(top.word) : top.word[m] \in partial
           /\ top.next \in partial \union {End} /\ top.word[Len(top.word)] <= top.next
           /\ count[Len(stack) - 1] = CharCount(top.word)
  <1> DEFINE top == stack[Len(stack)]
  <1>1. Len(stack) \in 1 .. Len(stack)
    OBVIOUS
  <1>2. /\ top.word \in Seq(Words) /\ Len(top.word) \in Nat \ {0}
        /\ \A m \in 1 .. Len(top.word) : top.word[m] \in partial
    BY <1>1, FrameOfStack
  <1>3. /\ Sorted(top.word)
    BY <1>1, FrameOfStack
  <1>4. /\ top.next \in partial \union {End} /\ top.word[Len(top.word)] <= top.next
    BY <1>1, FrameOfStack
  <1>5. count[Len(stack) - 1] = CharCount(top.word)
    BY <1>1 DEF StackInv
  <1> QED
    BY <1>2, <1>3, <1>4, <1>5

\* More partial words do it no harm.
LEMMA StackMore ==
  ASSUME NEW few, NEW many, few \subseteq many, NEW stack, NEW count, StackInv(stack, count, few)
  PROVE  StackInv(stack, count, many)
  BY DEF StackInv

\* The iterator of the innermost frame goes forth.
LEMMA StackMove ==
  ASSUME NEW partial \in SUBSET Words, NEW count, NEW stack \in Seq(Frame), stack # <<>>,
         StackInv(stack, count, partial),
         NEW v \in partial \union {End}, stack[Len(stack)].next <= v
  PROVE  LET moved == [stack EXCEPT ![Len(stack)].next = v] IN
           moved \in Seq(Frame) /\ moved # <<>> /\ StackInv(moved, count, partial)
  <1> DEFINE top == Len(stack)
             frame == [stack[top] EXCEPT !.next = v]
             moved == [stack EXCEPT ![top] = frame]
  <1>1. top \in Nat \ {0} /\ top \in 1 .. Len(stack) /\ top <= Depths + 1
    BY DEF StackInv
  <1>2. /\ stack[top] \in Frame /\ stack[top].next \in partial \union {End}
        /\ Len(stack[top].word) \in Nat \ {0}
        /\ \A m \in 1 .. Len(stack[top].word) : stack[top].word[m] \in partial
        /\ stack[top].word[Len(stack[top].word)] <= stack[top].next
    BY <1>1, FrameOfStack
  <1>3. frame \in Frame /\ frame.word = stack[top].word /\ frame.next = v
    BY <1>2 DEF Frame
  <1>4. frame.word[Len(frame.word)] <= v
    <2>1. stack[top].word[Len(stack[top].word)] \in Nat
      BY <1>2, WordNumbers
    <2>2. stack[top].next \in Nat /\ v \in Nat
      BY <1>2, WordNumbers
    <2> QED
      BY <2>1, <2>2, <1>2, <1>3
  <1> HIDE DEF frame
  <1>5. /\ moved \in Seq(Frame) /\ Len(moved) = top /\ moved # <<>>
        /\ \A n \in 1 .. top : moved[n] = IF n = top THEN frame ELSE stack[n]
    BY <1>1, <1>3
  <1> HIDE DEF moved, top
  <1>6. ASSUME NEW n \in 1 .. Len(moved)
        PROVE  /\ moved[n].word = stack[n].word
               /\ moved[n].next \in partial \union {End}
               /\ moved[n].word[Len(moved[n].word)] <= moved[n].next
               /\ n > 1 => moved[n - 1] = stack[n - 1]
    <2>1. n \in 1 .. Len(stack) /\ n \in 1 .. top /\ (n > 1 => n - 1 \in 1 .. top /\ n - 1 # top)
      BY <1>1, <1>5 DEF top
    <2>2. CASE n = top
      BY <2>1, <2>2, <1>3, <1>4, <1>5
    <2>3. CASE n # top
      <3>1. moved[n] = stack[n] /\ (n > 1 => moved[n - 1] = stack[n - 1])
        BY <2>1, <2>3, <1>5
      <3>2. /\ stack[n].next \in partial \union {End}
            /\ stack[n].word[Len(stack[n].word)] <= stack[n].next
        BY <2>1, FrameOfStack
      <3> QED
        BY <3>1, <3>2
    <2> QED
      BY <2>2, <2>3
  <1>7. StackInv(moved, count, partial)
    BY <1>1, <1>5, <1>6 DEF StackInv, top
  <1> QED
    BY <1>5, <1>7 DEF moved, frame, top


\* A sorted phrase and a word that is not before its last are a sorted phrase.
LEMMA SortedAppend ==
  ASSUME NEW partial \in SUBSET Words, NEW phrase \in Seq(Words), phrase # <<>>, NEW w \in partial,
         \A m \in 1 .. Len(phrase) : phrase[m] \in partial,
         Sorted(phrase), phrase[Len(phrase)] <= w
  PROVE  /\ Append(phrase, w) \in Seq(Words) /\ Append(phrase, w) # <<>>
         /\ Append(phrase, w)[Len(Append(phrase, w))] = w
         /\ \A m \in 1 .. Len(Append(phrase, w)) : Append(phrase, w)[m] \in partial
         /\ Sorted(Append(phrase, w))
  <1> DEFINE longer == Append(phrase, w)
             l == Len(phrase)
  <1>1. /\ longer \in Seq(Words) /\ l \in Nat \ {0} /\ Len(longer) = l + 1 /\ longer[l + 1] = w
        /\ \A m \in 1 .. l : longer[m] = phrase[m]
    OBVIOUS
  <1> HIDE DEF longer, l
  <1>2. \A m \in 1 .. l + 1 : m = l + 1 \/ m \in 1 .. l
    BY <1>1
  <1>3. \A m \in 1 .. l + 1 : longer[m] \in partial
    BY <1>1, <1>2 DEF l
  <1>4. ASSUME NEW m \in 1 .. l
        PROVE  longer[m] <= longer[m + 1]
    <2>1. CASE m = l
      BY <2>1, <1>1 DEF l
    <2>2. CASE m # l
      <3>1. m \in 1 .. l - 1 /\ m + 1 \in 1 .. l
        BY <2>2, <1>1
      <3> QED
        BY <3>1, <1>1 DEF Sorted, l
    <2> QED
      BY <2>1, <2>2
  <1>5. Sorted(longer)
    BY <1>1, <1>4 DEF Sorted
  <1> QED
    BY <1>1, <1>3, <1>5 DEF longer

\* The recursion: a frame more, and its hash at its place in candidate_count_arr.
LEMMA StackPush ==
  ASSUME NEW partial \in SUBSET Words, NEW count \in [0 .. Depths -> Bag],
         NEW stack \in Seq(Frame), stack # <<>>, StackInv(stack, count, partial),
         Len(stack) <= Depths, stack[Len(stack)].next # End
  PROVE  LET top == stack[Len(stack)]
             phrase == Append(top.word, top.next)
             pushed == Append(stack, [word |-> phrase, next |-> top.next])
             counted == [count EXCEPT ![Len(stack)] = CharCount(phrase)]
         IN  /\ pushed \in Seq(Frame) /\ pushed # <<>> /\ counted \in [0 .. Depths -> Bag]
             /\ StackInv(pushed, counted, partial)
  <1> DEFINE l == Len(stack)
             top == stack[l]
             phrase == Append(top.word, top.next)
             frame == [word |-> phrase, next |-> top.next]
             pushed == Append(stack, frame)
             counted == [count EXCEPT ![l] = CharCount(phrase)]
  <1>1. l \in Nat \ {0} /\ l \in 1 .. l /\ l \in 0 .. Depths
    BY ConstantsAssumption
  <1>2. /\ top.word \in Seq(Words) /\ top.word # <<>> /\ Sorted(top.word)
        /\ \A m \in 1 .. Len(top.word) : top.word[m] \in partial
        /\ top.next \in partial \union {End} /\ top.word[Len(top.word)] <= top.next
    <2>1. l \in 1 .. Len(stack)
      BY <1>1
    <2>2. /\ top.word \in Seq(Words) /\ Len(top.word) \in Nat \ {0} /\ Sorted(top.word)
          /\ \A m \in 1 .. Len(top.word) : top.word[m] \in partial
      BY <2>1, FrameOfStack
    <2>3. top.next \in partial \union {End} /\ top.word[Len(top.word)] <= top.next
      BY <2>1, FrameOfStack
    <2>4. top.word # <<>>
      <3> HIDE DEF top
      <3> QED
        BY <2>2
    <2> QED
      BY <2>2, <2>3, <2>4
  <1>3. top.next \in partial
    BY <1>2
  <1> HIDE DEF top
  <1>4. /\ phrase \in Seq(Words) /\ phrase # <<>> /\ phrase[Len(phrase)] = top.next
        /\ \A m \in 1 .. Len(phrase) : phrase[m] \in partial
        /\ Sorted(phrase)
    <2> DEFINE word == top.word
               next == top.next
    <2>1. /\ word \in Seq(Words) /\ word # <<>> /\ next \in partial /\ Sorted(word)
          /\ \A m \in 1 .. Len(word) : word[m] \in partial
          /\ word[Len(word)] <= next
      BY <1>2, <1>3
    <2> HIDE DEF word, next
    <2>2. /\ Append(word, next) \in Seq(Words) /\ Append(word, next) # <<>>
          /\ Append(word, next)[Len(Append(word, next))] = next
          /\ \A m \in 1 .. Len(Append(word, next)) : Append(word, next)[m] \in partial
          /\ Sorted(Append(word, next))
      BY <2>1, SortedAppend
    <2> QED
      BY <2>2 DEF word, next
  <1> HIDE DEF phrase
  <1>5. frame \in Frame /\ frame.word = phrase /\ frame.next = top.next
    BY <1>3, <1>4 DEF Frame
  <1> HIDE DEF frame
  <1>6. /\ pushed \in Seq(Frame) /\ Len(pushed) = l + 1 /\ pushed # <<>> /\ pushed[l + 1] = frame
        /\ \A n \in 1 .. l : pushed[n] = stack[n]
    BY <1>1, <1>5
  <1>7. /\ counted \in [0 .. Depths -> Bag] /\ counted[l] = CharCount(phrase)
        /\ \A d \in 0 .. Depths : d # l => counted[d] = count[d]
    BY <1>1, <1>4, CountType
  <1> HIDE DEF pushed, counted, l
  <1>8. ASSUME NEW n \in 1 .. Len(pushed)
        PROVE  /\ Len(pushed[n].word) = n
               /\ \A m \in 1 .. Len(pushed[n].word) : pushed[n].word[m] \in partial
               /\ Sorted(pushed[n].word)
               /\ pushed[n].next \in partial \union {End}
               /\ pushed[n].word[Len(pushed[n].word)] <= pushed[n].next
               /\ counted[n - 1] = CharCount(pushed[n].word)
               /\ n > 1 => pushed[n].word = Append(pushed[n - 1].word, pushed[n - 1].next)
    <2>1. CASE n = l + 1
      <3>1. n - 1 = l /\ pushed[n - 1] = top /\ pushed[n] = frame
        BY <2>1, <1>1, <1>6 DEF top
      <3>2. top.next <= top.next
        BY <1>3, WordNumbers
      <3>3. Len(phrase) = l + 1
        <4>1. Len(top.word) = l
          BY <1>1 DEF StackInv, top, l
        <4> QED
          BY <4>1, <1>2, <1>3 DEF phrase
      <3> QED
        BY <3>1, <3>2, <3>3, <2>1, <1>3, <1>4, <1>5, <1>7 DEF phrase
    <2>2. CASE n # l + 1
      <3>1. n \in 1 .. l /\ n - 1 \in 0 .. Depths /\ n - 1 # l /\ (n > 1 => n - 1 \in 1 .. l)
        BY <2>2, <1>1, <1>6, ConstantsAssumption
      <3>2. pushed[n] = stack[n] /\ counted[n - 1] = count[n - 1]
            /\ (n > 1 => pushed[n - 1] = stack[n - 1])
        BY <3>1, <1>6, <1>7
      <3>3. n \in 1 .. Len(stack)
        BY <3>1 DEF l
      <3> QED
        BY <3>2, <3>3 DEF StackInv
    <2> QED
      BY <2>1, <2>2
  <1>9. Len(pushed) <= Depths + 1
    BY <1>1, <1>6, ConstantsAssumption
  <1>10. StackInv(pushed, counted, partial)
    BY <1>8, <1>9 DEF StackInv
  <1> QED
    BY <1>6, <1>7, <1>10 DEF pushed, counted, frame, phrase, top, l

\* A return: the frames below go with their hashes as before.
LEMMA StackPop ==
  ASSUME NEW partial \in SUBSET Words, NEW count, NEW stack \in Seq(Frame), Len(stack) > 1,
         StackInv(stack, count, partial)
  PROVE  LET popped == SubSeq(stack, 1, Len(stack) - 1) IN
           /\ popped \in Seq(Frame) /\ popped # <<>> /\ Len(popped) = Len(stack) - 1
           /\ StackInv(popped, count, partial)
  <1> DEFINE l == Len(stack) - 1
             popped == SubSeq(stack, 1, l)
  <1>1. l \in Nat \ {0} /\ Len(stack) = l + 1 /\ l + 1 <= Depths + 1
    BY DEF StackInv
  <1>2. 1 \in Int /\ l \in Int /\ \A n \in 1 .. l : stack[n] \in Frame
    BY <1>1
  <1> HIDE DEF l
  <1>3. /\ popped \in Seq(Frame) /\ Len(popped) = IF 1 <= l THEN l - 1 + 1 ELSE 0
        /\ \A n \in 1 .. l - 1 + 1 : popped[n] = stack[1 + n - 1]
    BY <1>2, SubSeqProperties
  <1>4. l - 1 + 1 = l /\ 1 <= l /\ \A n \in 1 .. l : 1 + n - 1 = n
    BY <1>1
  <1> HIDE DEF popped
  <1>5. /\ popped \in Seq(Frame) /\ Len(popped) = l /\ popped # <<>>
        /\ \A n \in 1 .. l : popped[n] = stack[n]
    BY <1>1, <1>3, <1>4
  <1>6. \A n \in 1 .. Len(popped) :
          /\ n \in 1 .. Len(stack) /\ popped[n] = stack[n]
          /\ n > 1 => popped[n - 1] = stack[n - 1]
    BY <1>1, <1>5
  <1>7. Len(popped) <= Depths + 1
    BY <1>1, <1>5, ConstantsAssumption
  <1>8. StackInv(popped, count, partial)
    BY <1>6, <1>7 DEF StackInv
  <1> QED
    BY <1>5, <1>8 DEF popped, l

\* The first frame.
LEMMA StackStart ==
  ASSUME NEW partial \in SUBSET Words, NEW count \in [0 .. Depths -> Bag], NEW w \in partial
  PROVE  LET stack == <<[word |-> <<w>>, next |-> w]>>
             counted == [count EXCEPT ![0] = CharCount(<<w>>)]
         IN  /\ stack \in Seq(Frame) /\ stack # <<>> /\ counted \in [0 .. Depths -> Bag]
             /\ StackInv(stack, counted, partial)
  <1> DEFINE frame == [word |-> <<w>>, next |-> w]
             counted == [count EXCEPT ![0] = CharCount(<<w>>)]
  <1>1. w \in Words /\ <<w>> \in Seq(Words) /\ 0 \in 0 .. Depths /\ 1 <= Depths + 1 /\ w <= w
    BY ConstantsAssumption, WordNumbers
  <1>2. frame \in Frame /\ frame.word = <<w>> /\ frame.next = w
    BY <1>1 DEF Frame
  <1>3. CharCount(<<w>>) \in Bag
    BY <1>1, CountType
  <1>4. counted \in [0 .. Depths -> Bag] /\ counted[0] = CharCount(<<w>>)
    BY <1>1, <1>3
  <1>5. Sorted(<<w>>)
    BY DEF Sorted
  <1> HIDE DEF frame, counted
  <1>6. /\ <<frame>> \in Seq(Frame) /\ <<frame>> # <<>> /\ Len(<<frame>>) = 1
        /\ \A n \in 1 .. 1 : n = 1 /\ <<frame>>[n] = frame /\ n - 1 = 0
    BY <1>2
  <1> DEFINE stack == <<frame>>
  <1>7. StackInv(stack, counted, partial)
    <2>1. /\ <<w>> # <<>> /\ Len(<<w>>) = 1 /\ <<w>>[1] = w
          /\ \A m \in 1 .. Len(<<w>>) : <<w>>[m] \in partial
      OBVIOUS
    <2>2. /\ Len(stack) = 1
          /\ \A n \in 1 .. 1 : n = 1 /\ stack[n] = frame /\ n - 1 = 0 /\ ~ (n > 1)
      BY <1>6
    <2> HIDE DEF stack
    <2> QED
      BY <2>1, <2>2, <1>1, <1>2, <1>4, <1>5 DEF StackInv
  <1> QED
    BY <1>4, <1>6, <1>7 DEF frame, counted


-----------------------------------------------------------------------------
\* The partial words are words.
LEMMA PartialAreWords ==
  ASSUME SearchInv
  PROVE  subset \subseteq Words /\ input.dict \subseteq Words /\ input.cpu_tot \in Nat
  BY ConstantsAssumption DEF SearchInv

\* What a thread may do to the state that is its own.
LEMMA ThreadStep ==
  ASSUME SearchInv, NEW t \in Threads, UNCHANGED <<input, subset>>,
         NEW place \in Places, pc' = [pc EXCEPT ![t] = place],
         i' \in [Threads -> subset \union {End}],
         NEW stack \in Seq(Frame), frames' = [frames EXCEPT ![t] = stack],
         NEW count \in [0 .. Depths -> Bag], counts' = [counts EXCEPT ![t] = count],
         StackInv(stack, count, subset),
         place \in Framed => stack # <<>>,
         place \in {"insert", "inserting"} =>
           stack[Len(stack)].next # End
           /\ IsAnagram(Append(stack[Len(stack)].word, stack[Len(stack)].next)),
         output' \subseteq Seq(Words), FindsAnagrams'
  PROVE  SearchInv'
  <1>1. /\ pc \in [Threads -> Places] /\ frames \in [Threads -> Seq(Frame)]
        /\ counts \in [Threads -> [0 .. Depths -> Bag]]
    BY DEF SearchInv
  <1>2. /\ pc' \in [Threads -> Places] /\ frames' \in [Threads -> Seq(Frame)]
        /\ counts' \in [Threads -> [0 .. Depths -> Bag]]
    BY <1>1
  <1>3. pc'[t] = place /\ frames'[t] = stack /\ counts'[t] = count
    BY <1>1
  <1>4. \A u \in Threads \ {t} :
          pc'[u] = pc[u] /\ frames'[u] = frames[u] /\ counts'[u] = counts[u]
    BY <1>1
  <1>5. ASSUME NEW u \in Threads
        PROVE  ThreadInv(u)'
    <2>1. CASE u = t
      <3>1. Top(u)' = stack[Len(stack)]
        BY <2>1, <1>3 DEF Top
      <3>2. Combined(u)' = Append(stack[Len(stack)].word, stack[Len(stack)].next)
        BY <3>1 DEF Combined
      <3> QED
        BY <2>1, <1>3, <3>1, <3>2 DEF ThreadInv, IsAnagram, MasterCount
    <2>2. CASE u # t
      <3>1. pc'[u] = pc[u] /\ frames'[u] = frames[u] /\ counts'[u] = counts[u]
        BY <2>2, <1>4
      <3>2. Top(u)' = Top(u) /\ Combined(u)' = Combined(u)
        BY <3>1 DEF Top, Combined
      <3>3. ThreadInv(u)
        BY DEF SearchInv
      <3> QED
        BY <3>1, <3>2, <3>3 DEF ThreadInv, IsAnagram, MasterCount
    <2> QED
      BY <2>1, <2>2
  <1> QED
    BY <1>2, <1>5 DEF SearchInv

\* A step that takes a thread from one place to another and changes nothing else.
LEMMA PlaceStep ==
  ASSUME SearchInv, NEW t \in Threads, UNCHANGED <<input, subset, i, frames, counts, output>>,
         NEW place \in Places, pc' = [pc EXCEPT ![t] = place],
         place \in Framed => pc[t] \in Framed,
         place \in {"insert", "inserting"} => Top(t).next # End /\ IsAnagram(Combined(t))
  PROVE  SearchInv'
  <1> DEFINE stack == frames[t]
             count == counts[t]
  <1>1. /\ frames \in [Threads -> Seq(Frame)] /\ counts \in [Threads -> [0 .. Depths -> Bag]]
        /\ i \in [Threads -> subset \union {End}]
        /\ StackInv(stack, count, subset) /\ (place \in Framed => stack # <<>>)
    BY DEF SearchInv, ThreadInv
  <1>2. /\ frames' = [frames EXCEPT ![t] = stack] /\ counts' = [counts EXCEPT ![t] = count]
        /\ stack \in Seq(Frame) /\ count \in [0 .. Depths -> Bag]
        /\ i' \in [Threads -> subset \union {End}]
    BY <1>1
  <1>3. output' \subseteq Seq(Words) /\ FindsAnagrams'
    BY DEF SearchInv, FindsAnagrams, IsAnagram, MasterCount
  <1>4. place \in {"insert", "inserting"} =>
          stack[Len(stack)].next # End
          /\ IsAnagram(Append(stack[Len(stack)].word, stack[Len(stack)].next))
    BY DEF Combined, Top
  <1> HIDE DEF stack, count
  <1> QED
    BY <1>1, <1>2, <1>3, <1>4, ThreadStep

\* candidate_count_b is the count of the phrase and the word at the iterator.
LEMMA SumRight ==
  ASSUME SearchInv, NEW t \in Threads, frames[t] # <<>>, Top(t).next # End
  PROVE  /\ NextSum(t) = CharCount(Combined(t))
         /\ Combined(t) \in Seq(Words) /\ Sorted(Combined(t))
         /\ \A n \in 1 .. Len(Combined(t)) : Combined(t)[n] \in input.dict \ input.excludeset
  <1> DEFINE stack == frames[t]
             word == Top(t).word
             next == Top(t).next
  <1>1. subset \in SUBSET Words /\ stack \in Seq(Frame) /\ StackInv(stack, counts[t], subset)
    BY PartialAreWords DEF SearchInv, ThreadInv
  <1>2. Len(stack) \in 1 .. Len(stack)
    BY <1>1
  <1>3. /\ word \in Seq(Words) /\ Len(word) \in Nat \ {0} /\ Sorted(word)
        /\ \A m \in 1 .. Len(word) : word[m] \in subset
        /\ next \in subset \union {End} /\ word[Len(word)] <= next
        /\ counts[t][Len(stack) - 1] = CharCount(word)
    <2>1. Top(t) = stack[Len(stack)] /\ stack # <<>>
      BY DEF Top
    <2> HIDE DEF stack
    <2>2. counts[t][Len(stack) - 1] = CharCount(stack[Len(stack)].word)
      BY <1>1, <1>2 DEF StackInv
    <2> QED
      BY <1>1, <2>1, <2>2, TopFrame
  <1>4. word # <<>> /\ next \in subset /\ next \in Words
    BY <1>1, <1>3
  <1>5. NextSum(t) = Plus(CharCount(<<next>>), CharCount(word))
    BY <1>3 DEF NextSum, depth
  <1> HIDE DEF word, next, stack
  <1>6. Combined(t) = Append(word, next)
    BY DEF Combined, word, next
  <1>7. NextSum(t) = CharCount(Combined(t))
    BY <1>3, <1>4, <1>5, <1>6, CountAppend
  <1>8. /\ Combined(t) \in Seq(Words) /\ Sorted(Combined(t))
        /\ \A n \in 1 .. Len(Combined(t)) : Combined(t)[n] \in subset
    <2>1. /\ Append(word, next) \in Seq(Words) /\ Sorted(Append(word, next))
          /\ \A n \in 1 .. Len(Append(word, next)) : Append(word, next)[n] \in subset
      BY <1>1, <1>3, <1>4, SortedAppend
    <2> QED
      BY <2>1, <1>6
  <1> QED
    BY <1>7, <1>8 DEF SearchInv


\* A step in which the iterator of the innermost frame goes on.
LEMMA NextWordStep ==
  ASSUME SearchInv, NEW t \in Threads, UNCHANGED <<input, subset, i, counts>>,
         frames[t] # <<>>, NextWord(t),
         NEW place \in Places \ {"insert", "inserting"}, pc' = [pc EXCEPT ![t] = place],
         output' \subseteq Seq(Words), FindsAnagrams'
  PROVE  SearchInv'
  <1> DEFINE old == frames[t]
             next == Advance(old[Len(old)].next, 1)
             stack == [old EXCEPT ![Len(old)].next = next]
             count == counts[t]
  <1>1. /\ old \in Seq(Frame) /\ old # <<>> /\ StackInv(old, count, subset)
        /\ count \in [0 .. Depths -> Bag] /\ counts' = [counts EXCEPT ![t] = count]
        /\ subset \in SUBSET Words /\ i' \in [Threads -> subset \union {End}]
    BY PartialAreWords DEF SearchInv, ThreadInv
  <1>2. frames' = [frames EXCEPT ![t] = stack]
    BY DEF NextWord
  <1> HIDE DEF old, count
  <1>3. next \in subset \union {End} /\ old[Len(old)].next <= next
    <2>1. old[Len(old)].next \in Words \union {End}
      BY <1>1, TopFrame
    <2> QED
      BY <2>1, <1>1, AdvanceForth
  <1> HIDE DEF next
  <1>4. stack \in Seq(Frame) /\ stack # <<>> /\ StackInv(stack, count, subset)
    BY <1>1, <1>3, StackMove
  <1> HIDE DEF stack
  <1> QED
    BY <1>1, <1>2, <1>4, ThreadStep

\* The map or the queue gets an anagram.
LEMMA PutAnagram ==
  ASSUME SearchInv, NEW t \in Threads, UNCHANGED input, frames[t] # <<>>, Top(t).next # End,
         IsAnagram(Combined(t)), Put(Combined(t))
  PROVE  output' \subseteq Seq(Words) /\ FindsAnagrams'
  <1>1. /\ Combined(t) \in Seq(Words) /\ Sorted(Combined(t))
        /\ \A n \in 1 .. Len(Combined(t)) : Combined(t)[n] \in input.dict \ input.excludeset
    BY SumRight
  <1> DEFINE phrase == Combined(t)
  <1>2. /\ phrase \in Seq(Words) /\ Sorted(phrase) /\ IsAnagram(phrase)
        /\ \A n \in 1 .. Len(phrase) : phrase[n] \in input.dict \ input.excludeset
        /\ output' = output \union {phrase}
    BY <1>1 DEF Put
  <1> HIDE DEF phrase
  <1>3. output \subseteq Seq(Words) /\ FindsAnagrams
    BY DEF SearchInv
  <1> QED
    BY <1>2, <1>3 DEF FindsAnagrams, Sorted, IsAnagram, MasterCount

\* The words that are gathered as anagrams are anagrams.
LEMMA GatherInv ==
  ASSUME SearchInv, GatherLetter
  PROVE  SearchInv'
  <1> PICK words \in SUBSET (input.dict \ input.excludeset) :
        /\ subset' = subset \union PartialWords(words)
        /\ output' = output \union CompleteWords(words)
    BY DEF GatherLetter, StartingWith
  <1>1. UNCHANGED <<input, pc, i, frames, counts>>
    BY DEF GatherLetter, search
  <1>2. subset \subseteq subset' /\ subset' \subseteq input.dict \ input.excludeset
    BY DEF SearchInv, PartialWords
  <1>3. ASSUME NEW phrase \in CompleteWords(words)
        PROVE  /\ phrase \in Seq(Words) /\ IsAnagram(phrase) /\ Sorted(phrase)
               /\ \A n \in 1 .. Len(phrase) : phrase[n] \in input.dict \ input.excludeset
    <2>1. PICK w \in words : /\ phrase = <<w>>
                             /\ Compare(CharCount(<<w>>), MasterCount) = 0
      BY DEF CompleteWords
    <2>2. CharCount(<<w>>) = MasterCount
      BY <2>1 DEF Compare
    <2>3. w \in Words /\ w \in input.dict \ input.excludeset
      BY PartialAreWords
    <2> QED
      BY <2>1, <2>2, <2>3 DEF IsAnagram, Sorted
  <1>4. output' \subseteq Seq(Words) /\ FindsAnagrams'
    BY <1>1, <1>3 DEF SearchInv, FindsAnagrams, Sorted, IsAnagram, MasterCount
  <1>5. ASSUME NEW u \in Threads
        PROVE  ThreadInv(u)'
    <2>1. ThreadInv(u)
      BY DEF SearchInv
    <2>2. StackInv(frames[u], counts[u], subset')
      BY <2>1, <1>2, StackMore DEF ThreadInv
    <2> QED
      BY <2>1, <2>2, <1>1 DEF ThreadInv, Top, Combined, IsAnagram, MasterCount
  <1> QED
    BY <1>1, <1>2, <1>4, <1>5 DEF SearchInv

\* The steps of a thread with its frames.
LEMMA StartWordInv ==
  ASSUME SearchInv, NEW t \in Threads, StartWord(t)
  PROVE  SearchInv'
  <1> DEFINE old == counts[t]
             w == i[t]
             stack == <<[word |-> <<w>>, next |-> w]>>
             count == [old EXCEPT ![0] = CharCount(<<w>>)]
  <1>1. /\ old \in [0 .. Depths -> Bag] /\ w \in subset /\ subset \in SUBSET Words
        /\ i \in [Threads -> subset \union {End}]
    BY PartialAreWords DEF SearchInv, StartWord
  <1>2. /\ UNCHANGED <<input, subset, i, output>> /\ pc' = [pc EXCEPT ![t] = "loop"]
        /\ frames' = [frames EXCEPT ![t] = stack] /\ counts' = [counts EXCEPT ![t] = count]
    BY DEF StartWord, Goto, gather, found
  <1> HIDE DEF old, w
  <1>3. /\ stack \in Seq(Frame) /\ stack # <<>> /\ count \in [0 .. Depths -> Bag]
        /\ StackInv(stack, count, subset)
    BY <1>1, StackStart
  <1> HIDE DEF stack, count
  <1>4. output' \subseteq Seq(Words) /\ FindsAnagrams'
    BY <1>2 DEF SearchInv, FindsAnagrams, IsAnagram, MasterCount
  <1>5. "loop" \in Places \ {"insert", "inserting"} /\ i' \in [Threads -> subset \union {End}]
    BY <1>1, <1>2 DEF Places, Framed
  <1> QED
    BY <1>2, <1>3, <1>4, <1>5, ThreadStep

LEMMA RecurseInv ==
  ASSUME SearchInv, NEW t \in Threads, Recurse(t)
  PROVE  SearchInv'
  <1> DEFINE old == frames[t]
             hashes == counts[t]
             top == old[Len(old)]
             phrase == Append(top.word, top.next)
             stack == Append(old, [word |-> phrase, next |-> top.next])
             count == [hashes EXCEPT ![Len(old)] = CharCount(phrase)]
  <1>1. /\ old \in Seq(Frame) /\ old # <<>> /\ hashes \in [0 .. Depths -> Bag]
        /\ StackInv(old, hashes, subset) /\ subset \in SUBSET Words
        /\ i \in [Threads -> subset \union {End}]
        /\ pc \in [Threads -> Places] /\ pc[t] = "loop" /\ top.next # End
    BY PartialAreWords DEF SearchInv, ThreadInv, Recurse, AtWord, Framed, Top
  <1>2. Len(old) \in Nat /\ depth(t) + 1 = Len(old) /\ Len(old) <= Depths
    BY <1>1, ConstantsAssumption DEF depth, Recurse
  <1>3. /\ UNCHANGED <<input, subset, i, output>> /\ pc' = [pc EXCEPT ![t] = "loop"]
        /\ frames' = [frames EXCEPT ![t] = stack] /\ counts' = [counts EXCEPT ![t] = count]
    <2>1. /\ UNCHANGED <<input, subset, i, output, pc>>
          /\ frames' = [frames EXCEPT ![t] = stack]
          /\ counts' = [counts EXCEPT ![t] = [hashes EXCEPT ![depth(t) + 1] = CharCount(phrase)]]
      BY DEF Recurse, Combined, Top, gather, found
    <2> HIDE DEF stack, hashes, phrase
    <2> QED
      BY <2>1, <1>1, <1>2
  <1> HIDE DEF old, hashes
  <1>4. /\ stack \in Seq(Frame) /\ stack # <<>> /\ count \in [0 .. Depths -> Bag]
        /\ StackInv(stack, count, subset)
    BY <1>1, <1>2, StackPush
  <1> HIDE DEF stack, count
  <1>5. output' \subseteq Seq(Words) /\ FindsAnagrams'
    BY <1>3 DEF SearchInv, FindsAnagrams, IsAnagram, MasterCount
  <1>6. "loop" \in Places \ {"insert", "inserting"} /\ i' \in [Threads -> subset \union {End}]
    BY <1>1, <1>3 DEF Places, Framed
  <1> QED
    BY <1>3, <1>4, <1>5, <1>6, ThreadStep

LEMMA ReturnInv ==
  ASSUME SearchInv, NEW t \in Threads, Return(t)
  PROVE  SearchInv'
  <1> DEFINE old == frames[t]
             count == counts[t]
             popped == SubSeq(old, 1, Len(old) - 1)
             next == Advance(popped[Len(popped)].next, 1)
             stack == [popped EXCEPT ![Len(popped)].next = next]
  <1>1. /\ old \in Seq(Frame) /\ old # <<>> /\ count \in [0 .. Depths -> Bag]
        /\ StackInv(old, count, subset) /\ subset \in SUBSET Words
        /\ i \in [Threads -> subset \union {End}] /\ counts \in [Threads -> [0 .. Depths -> Bag]]
        /\ pc \in [Threads -> Places] /\ pc[t] = "loop"
    BY PartialAreWords DEF SearchInv, ThreadInv, Return, Framed
  <1>2. Len(old) \in Nat /\ Len(old) > 1
    BY <1>1 DEF depth, Return
  <1>3. /\ popped \in Seq(Frame) /\ popped # <<>> /\ Len(popped) = Len(old) - 1
        /\ StackInv(popped, count, subset)
    <2> HIDE DEF old, count
    <2> QED
      BY <1>1, <1>2, StackPop
  <1>4. /\ UNCHANGED <<input, subset, i, output, counts>> /\ pc' = [pc EXCEPT ![t] = "loop"]
        /\ frames' = [frames EXCEPT ![t] = stack] /\ counts' = [counts EXCEPT ![t] = count]
    <2>1. UNCHANGED <<input, subset, i, output, counts, pc>>
      BY DEF Return, gather, found
    <2>2. frames' = [frames EXCEPT ![t] =
                      [popped EXCEPT ![Len(old) - 1].next =
                        Advance(popped[Len(old) - 1].next, 1)]]
      BY DEF Return
    <2> HIDE DEF popped
    <2> QED
      BY <2>1, <2>2, <1>1, <1>3
  <1> HIDE DEF old, count, popped
  <1>5. next \in subset \union {End} /\ popped[Len(popped)].next <= next
    <2>1. popped[Len(popped)].next \in Words \union {End}
      BY <1>1, <1>3, TopFrame
    <2> QED
      BY <2>1, <1>1, AdvanceForth
  <1> HIDE DEF next
  <1>6. stack \in Seq(Frame) /\ stack # <<>> /\ StackInv(stack, count, subset)
    BY <1>1, <1>3, <1>5, StackMove
  <1> HIDE DEF stack
  <1>7. output' \subseteq Seq(Words) /\ FindsAnagrams'
    BY <1>4 DEF SearchInv, FindsAnagrams, IsAnagram, MasterCount
  <1>8. "loop" \in Places \ {"insert", "inserting"} /\ i' \in [Threads -> subset \union {End}]
    BY <1>1, <1>4 DEF Places, Framed
  <1> QED
    BY <1>1, <1>4, <1>6, <1>7, <1>8, ThreadStep

\* The steps between two words of the share.
LEMMA EnterInv ==
  ASSUME SearchInv, NEW t \in Threads, Enter(t)
  PROVE  SearchInv'
  <1> DEFINE stack == frames[t]
             count == counts[t]
             first == Advance(1, t)
  <1>1. /\ stack \in Seq(Frame) /\ count \in [0 .. Depths -> Bag]
        /\ StackInv(stack, count, subset) /\ subset \in SUBSET Words
        /\ i \in [Threads -> subset \union {End}]
        /\ frames \in [Threads -> Seq(Frame)] /\ counts \in [Threads -> [0 .. Depths -> Bag]]
    BY PartialAreWords DEF SearchInv, ThreadInv
  <1>2. first \in subset \union {End}
    <2>1. 1 \in Words \union {End} /\ t \in Nat
      <3>1. Len(WordList) \in Nat /\ ThreadTot \in Nat
        BY WordNumbers, ConstantsAssumption
      <3> QED
        BY <3>1 DEF Words, End, Threads
    <2> QED
      BY <1>1, <2>1, AdvanceForth
  <1>3. /\ UNCHANGED <<input, subset, output, frames, counts>>
        /\ pc' = [pc EXCEPT ![t] = "outer"] /\ i' = [i EXCEPT ![t] = first]
    BY DEF Enter, Goto, gather, found
  <1>4. frames' = [frames EXCEPT ![t] = stack] /\ counts' = [counts EXCEPT ![t] = count]
    BY <1>1, <1>3
  <1> HIDE DEF stack, count, first
  <1>5. output' \subseteq Seq(Words) /\ FindsAnagrams'
    BY <1>3 DEF SearchInv, FindsAnagrams, IsAnagram, MasterCount
  <1>6. "outer" \in Places /\ "outer" \notin Framed /\ i' \in [Threads -> subset \union {End}]
    BY <1>1, <1>2, <1>3 DEF Places, Framed
  <1> QED
    BY <1>1, <1>3, <1>4, <1>5, <1>6, ThreadStep DEF Framed

LEMMA EndWordInv ==
  ASSUME SearchInv, NEW t \in Threads, EndWord(t)
  PROVE  SearchInv'
  <1> DEFINE count == counts[t]
             next == Advance(i[t], input.cpu_tot)
  <1>1. /\ count \in [0 .. Depths -> Bag] /\ subset \in SUBSET Words
        /\ i \in [Threads -> subset \union {End}] /\ input.cpu_tot \in Nat
        /\ counts \in [Threads -> [0 .. Depths -> Bag]]
    BY PartialAreWords DEF SearchInv
  <1>2. next \in subset \union {End}
    BY <1>1, AdvanceForth
  <1>3. /\ UNCHANGED <<input, subset, output, counts>>
        /\ pc' = [pc EXCEPT ![t] = "outer"] /\ i' = [i EXCEPT ![t] = next]
        /\ frames' = [frames EXCEPT ![t] = <<>>]
    BY DEF EndWord, Goto, gather, found
  <1>4. counts' = [counts EXCEPT ![t] = count]
    BY <1>1, <1>3
  <1> HIDE DEF count, next
  <1>5. <<>> \in Seq(Frame) /\ StackInv(<<>>, count, subset)
    BY ConstantsAssumption DEF StackInv
  <1>6. output' \subseteq Seq(Words) /\ FindsAnagrams'
    BY <1>3 DEF SearchInv, FindsAnagrams, IsAnagram, MasterCount
  <1>7. "outer" \in Places /\ "outer" \notin Framed /\ i' \in [Threads -> subset \union {End}]
    BY <1>1, <1>2, <1>3 DEF Places, Framed
  <1> QED
    BY <1>1, <1>3, <1>4, <1>5, <1>6, <1>7, ThreadStep DEF Framed

\* The steps at a word that completes the phrase.
LEMMA CompleteInv ==
  ASSUME SearchInv, NEW t \in Threads, Complete(t)
  PROVE  SearchInv'
  <1>1. pc[t] = "loop" /\ pc \in [Threads -> Places] /\ frames[t] # <<>> /\ Top(t).next # End
    BY DEF Complete, AtWord, SearchInv, ThreadInv, Framed
  <1>2. IsAnagram(Combined(t))
    <2>1. NextSum(t) = MasterCount
      BY DEF Complete, Compare
    <2> QED
      BY <1>1, <2>1, SumRight DEF IsAnagram
  <1>3. UNCHANGED <<input, subset, i, counts>>
    BY DEF Complete, gather
  <1>4. CASE Put(Combined(t)) /\ NextWord(t) /\ UNCHANGED pc
    <2>1. output' \subseteq Seq(Words) /\ FindsAnagrams'
      BY <1>1, <1>2, <1>3, <1>4, PutAnagram
    <2>2. pc' = [pc EXCEPT ![t] = "loop"] /\ "loop" \in Places \ {"insert", "inserting"}
      BY <1>1, <1>4 DEF Places, Framed
    <2> QED
      BY <1>1, <1>3, <1>4, <2>1, <2>2, NextWordStep
  <1>5. CASE Goto(t, "insert") /\ UNCHANGED <<frames, found>>
    <2>1. "insert" \in Places /\ "loop" \in Framed
      BY DEF Places, Framed
    <2>2. pc' = [pc EXCEPT ![t] = "insert"] /\ UNCHANGED <<frames, output>>
      BY <1>5 DEF Goto, found
    <2> QED
      BY <1>1, <1>2, <1>3, <2>1, <2>2, PlaceStep
  <1> QED
    BY <1>4, <1>5 DEF Complete

LEMMA EndInsertInv ==
  ASSUME SearchInv, NEW t \in Threads, EndInsert(t)
  PROVE  SearchInv'
  <1>1. /\ pc[t] = "inserting" /\ frames[t] # <<>> /\ pc[t] \in Framed
        /\ Top(t).next # End /\ IsAnagram(Combined(t))
    BY DEF EndInsert, SearchInv, ThreadInv, Framed
  <1>2. UNCHANGED <<input, subset, i, frames, counts>>
    BY DEF EndInsert, gather, search
  <1>3. CASE Put(Combined(t)) /\ Goto(t, "release")
    <2> DEFINE stack == frames[t]
               count == counts[t]
    <2>1. output' \subseteq Seq(Words) /\ FindsAnagrams'
      BY <1>1, <1>2, <1>3, PutAnagram
    <2>2. /\ stack \in Seq(Frame) /\ stack # <<>> /\ count \in [0 .. Depths -> Bag]
          /\ StackInv(stack, count, subset) /\ i' \in [Threads -> subset \union {End}]
          /\ frames' = [frames EXCEPT ![t] = stack] /\ counts' = [counts EXCEPT ![t] = count]
      BY <1>1, <1>2 DEF SearchInv, ThreadInv
    <2>3. pc' = [pc EXCEPT ![t] = "release"] /\ "release" \in Places
      BY <1>3 DEF Goto, Places, Framed
    <2> HIDE DEF stack, count
    <2> QED
      BY <1>2, <2>1, <2>2, <2>3, ThreadStep
  <1>4. CASE /\ pc' \in {[pc EXCEPT ![t] = place] : place \in {"release", "crashed"}}
             /\ UNCHANGED found
    <2>1. PICK place \in {"release", "crashed"} : pc' = [pc EXCEPT ![t] = place]
      BY <1>4
    <2>2. place \in Places /\ place \notin {"insert", "inserting"}
      BY DEF Places, Framed
    <2>3. UNCHANGED output
      BY <1>4 DEF found
    <2> QED
      BY <1>1, <1>2, <2>1, <2>2, <2>3, PlaceStep
  <1> QED
    BY <1>3, <1>4 DEF EndInsert

\* The steps that only move the innermost iterator.
LEMMA MoveInv ==
  ASSUME SearchInv, NEW t \in Threads,
         SkipDupe(t) \/ Exceed(t) \/ (StoreThrottle(t) /\ reg[t] # 1) \/ ResetThrottle(t)
  PROVE  SearchInv'
  <1>1. /\ UNCHANGED <<input, subset, i, counts, output>> /\ NextWord(t)
        /\ pc[t] \in Framed /\ frames[t] # <<>> /\ pc \in [Threads -> Places]
        /\ pc' = [pc EXCEPT ![t] = "loop"]
    <2>1. pc \in [Threads -> Places] /\ (pc[t] \in Framed => frames[t] # <<>>)
      BY DEF SearchInv, ThreadInv
    <2>2. CASE SkipDupe(t) \/ Exceed(t)
      <3>1. /\ UNCHANGED <<input, subset, i, counts, output, pc>> /\ NextWord(t) /\ pc[t] = "loop"
        BY <2>2 DEF SkipDupe, Exceed, AtWord, gather, found
      <3> QED
        BY <2>1, <3>1 DEF Framed
    <2>3. CASE (StoreThrottle(t) /\ reg[t] # 1) \/ ResetThrottle(t)
      <3>1. /\ UNCHANGED <<input, subset, i, counts, output>> /\ NextWord(t)
            /\ pc[t] \in {"store", "reset"} /\ pc' = [pc EXCEPT ![t] = "loop"]
        BY <2>3 DEF StoreThrottle, ResetThrottle, Goto, gather, found
      <3> QED
        BY <2>1, <3>1 DEF Framed
    <2> QED
      BY <2>2, <2>3
  <1>2. output' \subseteq Seq(Words) /\ FindsAnagrams'
    BY <1>1 DEF SearchInv, FindsAnagrams, IsAnagram, MasterCount
  <1>3. "loop" \in Places \ {"insert", "inserting"}
    BY DEF Places, Framed
  <1> QED
    BY <1>1, <1>2, <1>3, NextWordStep

\* The steps from one place to the next.
LEMMA PlaceInv ==
  ASSUME SearchInv, NEW t \in Threads,
         \/ Leave(t) \/ Overrun(t) \/ BeginInsert(t) \/ Release(t) \/ LoadThrottle(t)
         \/ StoreThrottle(t) /\ reg[t] = 1
  PROVE  SearchInv'
  <1>1. UNCHANGED <<input, subset, i, frames, counts, output>>
    BY DEF Leave, Overrun, BeginInsert, Release, LoadThrottle, StoreThrottle, gather, search, found
  <1>2. \E place \in Places :
          /\ pc' = [pc EXCEPT ![t] = place] /\ (place \in Framed => pc[t] \in Framed)
          /\ place \in {"insert", "inserting"} => pc[t] = "insert"
    <2>1. CASE Leave(t)
      BY <2>1 DEF Leave, Goto, Places, Framed
    <2>2. CASE Overrun(t)
      BY <2>2 DEF Overrun, Goto, Places, Framed
    <2>3. CASE BeginInsert(t)
      BY <2>3 DEF BeginInsert, Goto, Places, Framed
    <2>4. CASE Release(t)
      BY <2>4 DEF Release, Goto, Places, Framed
    <2>5. CASE LoadThrottle(t)
      BY <2>5 DEF LoadThrottle, Goto, Places, Framed
    <2>6. CASE StoreThrottle(t) /\ reg[t] = 1
      BY <2>6 DEF StoreThrottle, Goto, Places, Framed
    <2> QED
      BY <2>1, <2>2, <2>3, <2>4, <2>5, <2>6
  <1>3. pc[t] = "insert" => Top(t).next # End /\ IsAnagram(Combined(t))
    BY DEF SearchInv, ThreadInv
  <1> QED
    BY <1>1, <1>2, <1>3, PlaceStep

\* Worker 0 prints, and lets the others in.
LEMMA PrintInv ==
  ASSUME SearchInv, 0 \in Threads, BeginPrint \/ PrintWord \/ EndPrint \/ EndGather
  PROVE  SearchInv'
  <1>1. UNCHANGED <<input, subset, i, frames, counts, output>>
    BY DEF BeginPrint, PrintWord, EndPrint, EndGather, gather, search, found
  <1>2. \E place \in Places \ Framed : pc' = [pc EXCEPT ![0] = place]
    <2>1. CASE BeginPrint
      BY <2>1 DEF BeginPrint, Goto, Places, Framed
    <2>2. CASE PrintWord
      <3>1. pc' = pc /\ pc[0] = "print" /\ pc \in [Threads -> Places]
        BY <2>2 DEF PrintWord, SearchInv
      <3>2. pc' = [pc EXCEPT ![0] = "print"] /\ "print" \in Places \ Framed
        BY <3>1 DEF Places, Framed
      <3> QED
        BY <3>2
    <2>3. CASE EndPrint
      BY <2>3 DEF EndPrint, Goto, Places, Framed
    <2>4. CASE EndGather
      BY <2>4 DEF EndGather, Goto, Places, Framed
    <2> QED
      BY <2>1, <2>2, <2>3, <2>4
  <1>3. \A place \in Places \ Framed : place \notin {"insert", "inserting"}
    BY DEF Framed
  <1> QED
    BY <1>1, <1>2, <1>3, PlaceStep

\* Nothing that the invariant speaks of changes.
LEMMA SameInv ==
  ASSUME SearchInv, UNCHANGED <<input, subset, pc, i, frames, counts, output>>
  PROVE  SearchInv'
  <1>1. \A t \in Threads : ThreadInv(t)'
    BY DEF SearchInv, ThreadInv, Top, Combined, IsAnagram, MasterCount
  <1> QED
    BY <1>1 DEF SearchInv, FindsAnagrams, IsAnagram, MasterCount

LEMMA SearchInit ==
  ASSUME Init
  PROVE  SearchInv
  <1>1. \A phrase \in Seq(Words) : CharCount(phrase) \in Bag
    BY CountType
  <1>2. Nothing \in Bag
    BY DEF Nothing, Bag
  <1>3. /\ input \in Inputs /\ subset = {} /\ output = {}
        /\ i \in [Threads -> subset \union {End}] /\ pc \in [Threads -> Places \ Framed]
        /\ frames = [t \in Threads |-> <<>>]
        /\ counts = [t \in Threads |-> [d \in 0 .. Depths |-> Nothing]]
    BY DEF Init, Places, Framed
  <1>4. frames \in [Threads -> Seq(Frame)] /\ counts \in [Threads -> [0 .. Depths -> Bag]]
    BY <1>2, <1>3
  <1>5. ASSUME NEW t \in Threads
        PROVE  ThreadInv(t)
    <2>1. frames[t] = <<>> /\ pc[t] \notin Framed
      BY <1>3
    <2>2. StackInv(<<>>, counts[t], subset)
      BY ConstantsAssumption DEF StackInv
    <2> QED
      BY <2>1, <2>2 DEF ThreadInv, Framed
  <1> QED
    BY <1>3, <1>4, <1>5 DEF SearchInv, FindsAnagrams

LEMMA SearchNext ==
  ASSUME SearchInv, [Next]_vars
  PROVE  SearchInv'
  <1>1. CASE Ended \/ UNCHANGED vars
    BY <1>1, SameInv DEF Ended, vars, gather, search, found
  <1>2. ASSUME NEW t \in Threads, Step(t)
        PROVE  SearchInv'
    <2>1. CASE t = 0 /\ (GatherLetter \/ BeginPrint \/ PrintWord \/ EndPrint \/ EndGather)
      BY <2>1, GatherInv, PrintInv
    <2>2. CASE Enter(t) \/ StartWord(t) \/ Recurse(t) \/ Return(t) \/ EndWord(t)
      BY <2>2, EnterInv, StartWordInv, RecurseInv, ReturnInv, EndWordInv
    <2>3. CASE Complete(t) \/ EndInsert(t)
      BY <2>3, CompleteInv, EndInsertInv
    <2>4. CASE SkipDupe(t) \/ Exceed(t) \/ StoreThrottle(t) \/ ResetThrottle(t)
      BY <2>4, MoveInv, PlaceInv
    <2>5. CASE Leave(t) \/ Overrun(t) \/ BeginInsert(t) \/ Release(t) \/ LoadThrottle(t)
      BY <2>5, PlaceInv
    <2>6. CASE SeeFree(t) \/ TestAndSet(t)
      BY <2>6, SameInv DEF SeeFree, TestAndSet, gather, search, found
    <2> QED
      BY <1>2, <2>1, <2>2, <2>3, <2>4, <2>5, <2>6 DEF Step
  <1> QED
    BY <1>1, <1>2 DEF Next

\* The numbers up to n are n.
LEMMA UpTo ==
  ASSUME NEW n \in Nat
  PROVE  IsFiniteSet(1 .. n) /\ Cardinality(1 .. n) = n
  <1>1. 1 \in Int /\ n \in Int
    OBVIOUS
  <1>2. IsFiniteSet(1 .. n) /\ Cardinality(1 .. n) = IF 1 > n THEN 0 ELSE n - 1 + 1
    BY <1>1, FS_Interval
  <1>3. (IF 1 > n THEN 0 ELSE n - 1 + 1) = n
    OBVIOUS
  <1> QED
    BY <1>2, <1>3

\* Of two finite sets the one that is not larger fits into the other.
LEMMA FitsIn ==
  ASSUME NEW A, NEW B, IsFiniteSet(A), IsFiniteSet(B), Cardinality(A) <= Cardinality(B)
  PROVE  ExistsInjection(A, B)
  <1> DEFINE a == Cardinality(A)
             b == Cardinality(B)
  <1>1. a \in Nat /\ b \in Nat /\ a <= b
    BY FS_CardinalityType
  <1>2. /\ IsFiniteSet(1 .. a) /\ Cardinality(1 .. a) = a
        /\ IsFiniteSet(1 .. b) /\ Cardinality(1 .. b) = b
    BY <1>1, UpTo
  <1>3. ExistsBijection(A, 1 .. a) /\ ExistsBijection(1 .. b, B)
    BY <1>2, FS_SameCardinalityBij
  <1>4. ExistsInjection(A, 1 .. a) /\ ExistsInjection(1 .. b, B)
    BY <1>3, Fun_ExistsBijEquiv
  <1>5. ExistsInjection(1 .. a, 1 .. b)
    <2> DEFINE same == [n \in 1 .. a |-> n]
    <2>1. same \in [1 .. a -> 1 .. b] /\ \A m, n \in 1 .. a : same[m] = same[n] => m = n
      BY <1>1
    <2> HIDE DEF same
    <2>2. same \in Injection(1 .. a, 1 .. b)
      BY <2>1, Fun_IsInj
    <2> QED
      BY <2>2, Fun_ExistsInj
  <1>6. ExistsInjection(A, 1 .. b)
    BY <1>4, <1>5, Fun_ExistsInjTransitive
  <1> QED
    BY <1>4, <1>6, Fun_ExistsInjTransitive

\* The letters of the phrase that are c, as many as master_count has of it.
PlacesInMaster(c) == {k \in 1 .. Len(input.word) : input.word[k] = c}

\* A phrase that leaves letters of the master phrase over has fewer words than that
\* has letters: each of its words has a first letter, which is one of them.
LEMMA FewerWordsThanLetters ==
  ASSUME Len(input.word) \in Nat, NEW phrase \in Seq(Words),
         \A c \in Chars : CharCount(phrase)[c] <= MasterCount[c],
         CharCount(phrase) # MasterCount
  PROVE  Len(phrase) < Cardinality(Letters)
  <1> DEFINE first(n) == WordList[phrase[n]][1]
  <1>1. Len(phrase) \in Nat /\ \A n \in 1 .. Len(phrase) : phrase[n] \in Words
    OBVIOUS
  <1>2. ASSUME NEW n \in 1 .. Len(phrase)
        PROVE  first(n) \in Chars /\ <<n, 1>> \in Occurrences(first(n), phrase)
    <2> DEFINE Spelling == Seq(Chars) \ {<<>>}
    <2>1. WordList \in Seq(Spelling) /\ phrase[n] \in 1 .. Len(WordList)
      BY <1>1, ConstantsAssumption DEF Words
    <2>2. WordList[phrase[n]] \in Spelling
      <3> HIDE DEF Spelling
      <3> QED
        BY <2>1
    <2>3. first(n) \in Chars /\ 1 \in PlacesOf(first(n), phrase[n])
      BY <2>2 DEF PlacesOf
    <2> HIDE DEF first
    <2> QED
      BY <2>3 DEF Occurrences
  <1> HIDE DEF first
  <1>3. ASSUME NEW c \in Chars
        PROVE  /\ IsFiniteSet(Occurrences(c, phrase)) /\ IsFiniteSet(PlacesInMaster(c))
               /\ CharCount(phrase)[c] = Cardinality(Occurrences(c, phrase))
               /\ MasterCount[c] = Cardinality(PlacesInMaster(c))
               /\ PlacesInMaster(c) \subseteq Letters
    <2>1. IsFiniteSet(1 .. Len(input.word))
      BY FS_Interval
    <2>2. IsFiniteSet(PlacesInMaster(c))
      BY <2>1, FS_Subset DEF PlacesInMaster
    <2> QED
      BY <2>2, OccurrencesFinite DEF CharCount, MasterCount, Occurrences, PlacesInMaster, Letters
  <1>4. IsFiniteSet(Letters) /\ Cardinality(Letters) \in Nat
    <2>1. IsFiniteSet(1 .. Len(input.word))
      BY FS_Interval
    <2> QED
      BY <2>1, FS_Subset, FS_CardinalityType DEF Letters
  <1> DEFINE fit == [c \in Chars |-> CHOOSE f : f \in Injection(Occurrences(c, phrase),
                                                              PlacesInMaster(c))]
  <1>5. ASSUME NEW c \in Chars
        PROVE  fit[c] \in Injection(Occurrences(c, phrase), PlacesInMaster(c))
    <2>1. ExistsInjection(Occurrences(c, phrase), PlacesInMaster(c))
      BY <1>3, FitsIn
    <2>2. \E f : f \in Injection(Occurrences(c, phrase), PlacesInMaster(c))
      BY <2>1, Fun_ExistsInj
    <2> QED
      BY <2>2
  <1> HIDE DEF fit
  <1>6. PICK c \in Chars : CharCount(phrase)[c] # MasterCount[c]
    BY DEF CharCount, MasterCount
  <1>7. PICK p \in PlacesInMaster(c) : \A o \in Occurrences(c, phrase) : fit[c][o] # p
    <2>1. Cardinality(Occurrences(c, phrase)) # Cardinality(PlacesInMaster(c))
      BY <1>3, <1>6
    <2>2. fit[c] \notin Surjection(Occurrences(c, phrase), PlacesInMaster(c))
      BY <1>3, <1>5, <2>1, FS_Injection
    <2>3. fit[c] \in [Occurrences(c, phrase) -> PlacesInMaster(c)]
      BY <1>5, Fun_InjectionProperties
    <2> QED
      BY <2>2, <2>3, Fun_IsSurj
  <1> DEFINE place == [n \in 1 .. Len(phrase) |-> fit[first(n)][<<n, 1>>]]
  <1>8. ASSUME NEW n \in 1 .. Len(phrase)
        PROVE  place[n] \in PlacesInMaster(first(n)) /\ place[n] # p
    <2>1. fit[first(n)] \in [Occurrences(first(n), phrase) -> PlacesInMaster(first(n))]
      BY <1>2, <1>5, Fun_InjectionProperties
    <2>2. place[n] \in PlacesInMaster(first(n))
      BY <1>2, <2>1
    <2>3. place[n] = p => first(n) = c
      BY <2>2 DEF PlacesInMaster
    <2> QED
      BY <1>2, <1>7, <2>2, <2>3
  <1>9. place \in Injection(1 .. Len(phrase), Letters \ {p})
    <2>1. place \in [1 .. Len(phrase) -> Letters \ {p}]
      BY <1>2, <1>3, <1>8
    <2>2. ASSUME NEW m \in 1 .. Len(phrase), NEW n \in 1 .. Len(phrase), place[m] = place[n]
          PROVE  m = n
      <3>1. first(m) = first(n)
        BY <1>8, <2>2 DEF PlacesInMaster
      <3>2. fit[first(n)][<<m, 1>>] = fit[first(n)][<<n, 1>>]
        BY <2>2, <3>1
      <3>3. <<m, 1>> = <<n, 1>>
        <4> DEFINE c1 == first(n)
                   S == Occurrences(c1, phrase)
                   f == fit[c1]
        <4>1. /\ <<m, 1>> \in S /\ <<n, 1>> \in S /\ f[<<m, 1>>] = f[<<n, 1>>]
              /\ f \in Injection(S, PlacesInMaster(c1))
          BY <1>2, <1>5, <3>1, <3>2
        <4> HIDE DEF S, f, c1
        <4>2. \A a, b \in S : f[a] = f[b] => a = b
          BY <4>1, Fun_InjectionProperties
        <4> QED
          BY <4>1, <4>2
      <3> QED
        BY <3>3
    <2> HIDE DEF place
    <2> QED
      BY <2>1, <2>2, Fun_IsInj
  <1>10. p \in Letters
    BY <1>3
  <1>11. IsFiniteSet(Letters \ {p}) /\ Cardinality(Letters \ {p}) = Cardinality(Letters) - 1
    BY <1>4, <1>10, FS_RemoveElement
  <1>12. Cardinality(1 .. Len(phrase)) = Len(phrase)
    BY <1>1, UpTo
  <1>13. Cardinality(1 .. Len(phrase)) <= Cardinality(Letters \ {p})
    <2> HIDE DEF place
    <2> QED
      BY <1>9, <1>11, FS_Injection
  <1> QED
    BY <1>1, <1>4, <1>11, <1>12, <1>13

\* A frame of depth d has d + 1 words.
LEMMA DepthIsWords ==
  ASSUME SearchInv, NEW t \in Threads, frames[t] # <<>>, Top(t).next # End
  PROVE  Len(Combined(t)) = depth(t) + 2
  <1> DEFINE stack == frames[t]
  <1>1. stack \in Seq(Frame) /\ StackInv(stack, counts[t], subset) /\ subset \in SUBSET Words
    BY PartialAreWords DEF SearchInv, ThreadInv
  <1>2. Len(stack) \in 1 .. Len(stack) /\ Len(stack) \in Nat
    BY <1>1
  <1>3. Len(Top(t).word) = Len(stack)
    BY <1>1, <1>2 DEF StackInv, Top
  <1>4. Top(t).word \in Seq(Words)
    BY <1>1, <1>2, FrameOfStack DEF Top
  <1> QED
    BY <1>2, <1>3, <1>4 DEF Combined, depth

LEMMA OverrunBound ==
  ASSUME SearchInv, NEW t \in Threads, Overrun(t)
  PROVE  Cardinality(Letters) > Depths + 2
  <1>1. frames[t] # <<>> /\ Top(t).next # End
    BY DEF Overrun, AtWord, SearchInv, ThreadInv, Framed
  <1>2. NextSum(t) = CharCount(Combined(t)) /\ Combined(t) \in Seq(Words)
    BY <1>1, SumRight
  <1>3. CharCount(Combined(t)) \in Bag /\ MasterCount \in Bag /\ Len(input.word) \in Nat
    <2>1. Len(input.word) \in Nat
      BY ConstantsAssumption DEF SearchInv
    <2>2. \A c \in Chars : IsFiniteSet({k \in 1 .. Len(input.word) : input.word[k] = c})
      <3>1. IsFiniteSet(1 .. Len(input.word))
        BY <2>1, UpTo
      <3>2. \A c : {k \in 1 .. Len(input.word) : input.word[k] = c} \in SUBSET (1 .. Len(input.word))
        OBVIOUS
      <3> QED
        BY <3>1, <3>2, FS_Subset
    <2> QED
      BY <1>2, <2>1, <2>2, CountType, FS_CardinalityType DEF MasterCount, Bag
  <1>4. /\ NextSum(t) # MasterCount
        /\ ~ \E c \in Chars : NextSum(t)[c] > MasterCount[c]
    BY DEF Overrun, Compare
  <1>5. \A c \in Chars : CharCount(Combined(t))[c] <= MasterCount[c]
    BY <1>2, <1>3, <1>4 DEF Bag
  <1>6. Len(Combined(t)) < Cardinality(Letters)
    BY <1>2, <1>3, <1>4, <1>5, FewerWordsThanLetters
  <1>7. Len(Combined(t)) = depth(t) + 2 /\ depth(t) >= Depths /\ Len(Combined(t)) \in Nat
    BY <1>1, <1>2, DepthIsWords DEF Overrun
  <1>8. IsFiniteSet(Letters) /\ Cardinality(Letters) \in Nat
    <2>1. IsFiniteSet(1 .. Len(input.word))
      BY <1>3, FS_Interval
    <2> QED
      BY <2>1, FS_Subset, FS_CardinalityType DEF Letters
  <1>9. depth(t) \in Int
    BY DEF depth, SearchInv
  <1> QED
    BY <1>6, <1>7, <1>8, <1>9, ConstantsAssumption

LEMMA OverrunStep ==
  ASSUME SearchInv, DepthInBounds, [Next]_vars
  PROVE  DepthInBounds'
  <1>1. SUFFICES ASSUME NEW u \in Threads, pc'[u] = "overrun"
                 PROVE  Cardinality(Letters)' > Depths + 2
    BY DEF DepthInBounds
  <1>2. pc \in [Threads -> Places]
    BY DEF SearchInv
  <1>3. CASE Ended \/ UNCHANGED vars
    BY <1>1, <1>3 DEF Ended, vars, DepthInBounds, Letters
  <1>4. ASSUME NEW t \in Threads, Step(t)
        PROVE  Cardinality(Letters)' > Depths + 2
    <2>1. input' = input
      BY <1>4 DEF Step, GatherLetter, BeginPrint, PrintWord, EndPrint, EndGather, Enter, StartWord,
                  Leave, SkipDupe, Complete, Recurse, Overrun, Exceed, Return, EndWord, SeeFree,
                  TestAndSet, BeginInsert, EndInsert, Release, LoadThrottle, StoreThrottle,
                  ResetThrottle
    <2>2. Letters' = Letters
      BY <2>1 DEF Letters
    <2>3. pc[u] = "overrun" \/ Overrun(t)
      <3>1. CASE GatherLetter \/ PrintWord \/ SkipDupe(t) \/ Recurse(t) \/ Exceed(t) \/ Return(t)
                 \/ SeeFree(t) \/ TestAndSet(t)
        BY <1>1, <3>1 DEF GatherLetter, PrintWord, SkipDupe, Recurse, Exceed, Return, SeeFree,
                          TestAndSet
      <3>2. CASE (t = 0 /\ (BeginPrint \/ EndPrint \/ EndGather)) \/ Enter(t) \/ StartWord(t)
                 \/ Leave(t) \/ EndWord(t) \/ BeginInsert(t) \/ Release(t) \/ LoadThrottle(t)
                 \/ StoreThrottle(t) \/ ResetThrottle(t)
        <4>1. \E place : place # "overrun" /\ pc' = [pc EXCEPT ![t] = place]
          BY <3>2 DEF BeginPrint, EndPrint, EndGather, Enter, StartWord, Leave, EndWord,
                      BeginInsert, Release, LoadThrottle, StoreThrottle, ResetThrottle, Goto
        <4> QED
          BY <1>1, <1>2, <4>1
      <3>3. CASE Complete(t)
        <4>1. pc' = pc \/ pc' = [pc EXCEPT ![t] = "insert"]
          BY <3>3 DEF Complete, Goto
        <4> QED
          BY <1>1, <1>2, <4>1
      <3>4. CASE EndInsert(t)
        <4>1. \E place \in {"release", "crashed"} : pc' = [pc EXCEPT ![t] = place]
          BY <3>4 DEF EndInsert, Goto
        <4> QED
          BY <1>1, <1>2, <4>1
      <3> QED
        BY <1>4, <3>1, <3>2, <3>3, <3>4 DEF Step
    <2> QED
      BY <2>2, <2>3, OverrunBound DEF DepthInBounds
  <1> QED
    BY <1>3, <1>4 DEF Next

\* The stack of a thread goes with the hashes of the thread, whatever the others do
\* (main.cc:247-323).
THEOREM SearchKeepsStack == Spec => []SearchInv
  <1>1. Init => SearchInv
    BY SearchInit
  <1>2. SearchInv /\ [Next]_vars => SearchInv'
    BY SearchNext
  <1> QED
    BY <1>1, <1>2, PTL DEF Spec

\* Every frame finds the count of its word in the hash its caller left it, at every
\* depth and whatever the number of threads (main.cc:266-271, 308-320).
THEOREM SearchFramesCounted == Spec => []FramesCounted
  <1>1. SearchInv => FramesCounted
    BY DEF SearchInv, ThreadInv, StackInv, FramesCounted
  <1> QED
    BY <1>1, SearchKeepsStack, PTL

\* All that is found are anagrams of the master phrase made of words that are not
\* excluded, for any dictionary, phrase, flags and number of threads (main.cc:329-330).
THEOREM SearchFindsAnagrams == Spec => []FindsAnagrams
  <1>1. SearchInv => FindsAnagrams
    BY DEF SearchInv
  <1> QED
    BY <1>1, SearchKeepsStack, PTL

\* The recursion goes deeper than candidate_count_arr has hashes only for a phrase of
\* more than Depths + 2 letters, whatever the dictionary (main.cc:308, 344).
THEOREM SearchDepthInBounds == Spec => []DepthInBounds
  <1>1. Init => DepthInBounds
    BY DEF Init, DepthInBounds
  <1>2. SearchInv /\ DepthInBounds /\ [Next]_vars => DepthInBounds'
    BY OverrunStep
  <1> QED
    BY <1>1, <1>2, SearchKeepsStack, PTL DEF Spec

=============================================================================
