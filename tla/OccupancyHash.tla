---------------------------- MODULE OccupancyHash ----------------------------
(***************************************************************************)
(* anagram::OccupancyHash (include/occupancy_hash.h): how often each       *)
(* character occurs in a text, and the list of the characters that occur.  *)
(* A hash is the pair of char_count_ and of the first index_ptr_ entries   *)
(* of occupancy_index_.  index_index_ is written but, but for AddChar,     *)
(* which nothing calls, never read; both are left out.                     *)
(*                                                                         *)
(* Each iteration of the loops of GetCharCountMap, operator+=, Compare and *)
(* IsSubset is a step; one call runs at a time, on hashes that are local   *)
(* to a thread.  The counts are signed chars and wrap.                     *)
(***************************************************************************)
EXTENDS Integers, Sequences, FiniteSets

CONSTANTS
  Chars,      \* the characters, without the space that is skipped
  Hashes,     \* the objects
  MaxCount,   \* the largest signed char: 127
  Short,      \* does every text have at most MaxCount of each character?
  FromWord,   \* the objects built with OccupancyHash(const char *)
  Residues    \* what such an object may find in its memory

ASSUME ConstantsAssumption ==
  /\ MaxCount \in Nat \ {0}
  /\ Short \in BOOLEAN
  /\ FromWord \subseteq Hashes

VARIABLES
  count,    \* char_count_ of each hash
  index,    \* occupancy_index_, as long as index_ptr_, of each hash
  op,       \* the call that runs, or that just returned
  x, y,     \* its object and its argument
  k,        \* its loop counter
  result,   \* its result
  bag       \* history: how often each character was counted into each hash

hashes == <<count, index, bag>>
call == <<op, x, y, k, result>>
vars == <<hashes, call>>

Nothing == [c \in Chars |-> 0]

\* The constructors.  OccupancyHash(const char *) means to call the default one
\* but makes a temporary: its own members are not initialized.
Init ==
  /\ \E residue \in [FromWord -> Residues] :
       /\ count = [h \in Hashes |-> IF h \in FromWord THEN residue[h].count ELSE Nothing]
       /\ index = [h \in Hashes |-> IF h \in FromWord THEN residue[h].index ELSE <<>>]
  /\ bag = [h \in Hashes |-> Nothing]
  /\ op = "none" /\ k = 0 /\ result = 0
  /\ x \in Hashes /\ y = x

Occupied(h) == {index[h][i] : i \in 1 .. Len(index[h])}

Wrap(n) ==
  IF n > MaxCount THEN n - 2 * (MaxCount + 1)
  ELSE IF n < -(MaxCount + 1) THEN n + 2 * (MaxCount + 1)
  ELSE n

Idle == op \in {"none", "compared", "tested"}

\* Mutant of Grow: the character is entered in the index each time.
GrowEntered(h, c, n) ==
  /\ count' = [count EXCEPT ![h][c] = Wrap(@ + n)]
  /\ index' = [index EXCEPT ![h] = Append(@, c)]

\* Character c of hash h grows by n: a character that had no count is entered
\* in the index.
Grow(h, c, n) ==
  /\ count' = [count EXCEPT ![h][c] = Wrap(@ + n)]
  /\ index' = IF count[h][c] = 0 THEN [index EXCEPT ![h] = Append(@, c)] ELSE index

-----------------------------------------------------------------------------
\* Mutant of Clear: the counts stay.
ClearIndexOnly(h) ==
  /\ Idle
  /\ index' = [index EXCEPT ![h] = <<>>]
  /\ bag' = [bag EXCEPT ![h] = Nothing]
  /\ op' = "none"
  /\ UNCHANGED <<count, x, y, k, result>>

Clear(h) ==
  /\ Idle
  /\ count' = [count EXCEPT ![h] = [c \in Chars |-> IF c \in Occupied(h) THEN 0 ELSE @[c]]]
  /\ index' = [index EXCEPT ![h] = <<>>]
  /\ bag' = [bag EXCEPT ![h] = Nothing]
  /\ op' = "none"
  /\ UNCHANGED <<x, y, k, result>>

\* GetCharCountMap, one character of its text.
CountChar(h, c) ==
  /\ Idle
  /\ Short => bag[h][c] < MaxCount
  /\ Grow(h, c, 1)
  /\ bag' = [bag EXCEPT ![h][c] = @ + 1]
  /\ op' = "none"
  /\ UNCHANGED <<x, y, k, result>>

\* operator+= goes through the argument's index from its end.
StartPlus(g, h) ==
  /\ Idle /\ g # h
  /\ Short => \A c \in Chars : bag[g][c] + bag[h][c] <= MaxCount
  /\ op' = "plus" /\ x' = g /\ y' = h /\ k' = Len(index[h])
  /\ UNCHANGED <<hashes, result>>

\* Mutant of PlusStep: the loop counter is decremented twice.
PlusStepByTwo ==
  /\ op = "plus" /\ k > 0
  /\ LET c == index[y][k] IN Grow(x, c, count[y][c])
  /\ k' = k - 2
  /\ UNCHANGED <<bag, op, x, y, result>>

PlusStep ==
  /\ op = "plus" /\ k > 0
  /\ LET c == index[y][k] IN Grow(x, c, count[y][c])
  /\ k' = k - 1
  /\ UNCHANGED <<bag, op, x, y, result>>

EndPlus ==
  /\ op = "plus" /\ k = 0
  /\ bag' = [bag EXCEPT ![x] = [c \in Chars |-> @[c] + bag[y][c]]]
  /\ op' = "none"
  /\ UNCHANGED <<count, index, x, y, k, result>>

-----------------------------------------------------------------------------
\* Compare: the numbers of different characters come first.
StartCompare(g, h) ==
  /\ Idle /\ g # h
  /\ x' = g /\ y' = h /\ k' = Len(index[g])
  /\ \/ Len(index[h]) < Len(index[g]) /\ op' = "compared" /\ result' = 1
     \/ Len(index[h]) = Len(index[g]) /\ op' = "compare" /\ result' = 0
     \/ Len(index[h]) > Len(index[g]) /\ op' = "compare" /\ result' = -1
  /\ UNCHANGED hashes

\* Mutant of CompareStep: the loop ends at the first smaller count.
CompareStepBreak ==
  /\ op = "compare" /\ k > 0
  /\ LET c == index[x][k] IN
       /\ result' = IF count[x][c] > count[y][c] THEN 1
                    ELSE IF count[x][c] < count[y][c] THEN -1 ELSE result
       /\ op' = IF count[x][c] # count[y][c] THEN "compared" ELSE op
  /\ k' = k - 1
  /\ UNCHANGED <<hashes, x, y>>

\* The first loop, over the characters of the object: "greater trumps less".
CompareStep ==
  /\ op = "compare" /\ k > 0
  /\ LET c == index[x][k] IN
       /\ result' = IF count[x][c] > count[y][c] THEN 1
                    ELSE IF count[x][c] < count[y][c] THEN -1 ELSE result
       /\ op' = IF count[x][c] > count[y][c] THEN "compared" ELSE op
  /\ k' = k - 1
  /\ UNCHANGED <<hashes, x, y>>

\* The second loop, over those of the argument, runs if the first found no
\* difference.
EndCompare ==
  /\ op = "compare" /\ k = 0
  /\ IF result = 0 THEN op' = "back" /\ k' = Len(index[y])
                   ELSE op' = "compared" /\ UNCHANGED k
  /\ UNCHANGED <<hashes, x, y, result>>

BackStep ==
  /\ op = "back" /\ k > 0
  /\ LET c == index[y][k] IN
       IF count[x][c] < count[y][c] THEN op' = "compared" /\ result' = -1
                                    ELSE UNCHANGED <<op, result>>
  /\ k' = k - 1
  /\ UNCHANGED <<hashes, x, y>>

EndBack ==
  /\ op = "back" /\ k = 0
  /\ op' = "compared"
  /\ UNCHANGED <<hashes, x, y, k, result>>

\* IsSubset: result 1 is true.
StartSubset(g, h) ==
  /\ Idle /\ g # h
  /\ op' = "subset" /\ x' = g /\ y' = h /\ k' = Len(index[g]) /\ result' = 1
  /\ UNCHANGED hashes

\* Mutant of SubsetStep: an equal count is too much.
SubsetStepStrict ==
  /\ op = "subset" /\ k > 0
  /\ LET c == index[x][k] IN
       IF count[y][c] <= count[x][c] THEN op' = "tested" /\ result' = 0
                                     ELSE UNCHANGED <<op, result>>
  /\ k' = k - 1
  /\ UNCHANGED <<hashes, x, y>>

SubsetStep ==
  /\ op = "subset" /\ k > 0
  /\ LET c == index[x][k] IN
       IF count[y][c] < count[x][c] THEN op' = "tested" /\ result' = 0
                                    ELSE UNCHANGED <<op, result>>
  /\ k' = k - 1
  /\ UNCHANGED <<hashes, x, y>>

EndSubset ==
  /\ op = "subset" /\ k = 0
  /\ op' = "tested"
  /\ UNCHANGED <<hashes, x, y, k, result>>

Next ==
  \/ \E h \in Hashes : Clear(h) \/ \E c \in Chars : CountChar(h, c)
  \/ \E g, h \in Hashes : StartPlus(g, h) \/ StartCompare(g, h) \/ StartSubset(g, h)
  \/ PlusStep \/ EndPlus
  \/ CompareStep \/ EndCompare \/ BackStep \/ EndBack
  \/ SubsetStep \/ EndSubset

Spec == Init /\ [][Next]_vars

-----------------------------------------------------------------------------
\* The counts stay in a signed char and the loop counters do not underflow.
TypeOK ==
  /\ count \in [Hashes -> [Chars -> -(MaxCount + 1) .. MaxCount]]
  /\ index \in [Hashes -> Seq(Chars)]
  /\ bag \in [Hashes -> [Chars -> Nat]]
  /\ op \in {"none", "plus", "compare", "back", "compared", "subset", "tested"}
  /\ x \in Hashes /\ y \in Hashes /\ k \in Nat /\ result \in {-1, 0, 1}

\* "This class maintains a sparse lookup table of counts of unique characters in
\* a string" (occupancy_hash.h:12-13): between calls the counts are those of the
\* characters counted, through sums and clears, and the index lists each
\* character that occurs, once.  A character missing from the index would
\* survive clear() and spoil the next word.
CountsRight ==
  op # "plus" =>
    \A h \in Hashes :
      /\ count[h] = bag[h]
      /\ \A c \in Chars : bag[h][c] > 0 => c \in Occupied(h)
      /\ \A i \in 1 .. Len(index[h]) :
           /\ bag[h][index[h][i]] > 0
           /\ \A j \in 1 .. Len(index[h]) : index[h][i] = index[h][j] => i = j

\* occupancy_index_ never has more entries than there are characters, in the middle of
\* a sum neither (occupancy_hash.h:69-76, 198-205, 210-211): its 40 places, which nothing
\* checks, are enough for texts of no more than 40 different characters.
IndexFits == \A h \in Hashes : Len(index[h]) <= Cardinality(Chars)

Within(g, h) == \A c \in Chars : bag[g][c] <= bag[h][c]

\* Compare returns 0 for the same counts ("complete anagram"), 1 when some
\* character occurs more often in the object, and a negative number otherwise
\* (occupancy_hash.h:110-112): CombineSubsetsRecurseFast prunes by it.
CompareRight ==
  op = "compared" =>
    /\ result = 0 <=> bag[x] = bag[y]
    /\ result = 1 <=> ~Within(x, y)

\* IsSubset tells whether the object is a subset of the argument
\* (occupancy_hash.h:162-164).
SubsetRight == op = "tested" => (result = 1 <=> Within(x, y))

-----------------------------------------------------------------------------
(***************************************************************************)
(* The inductive invariant.  At any time the index lists the characters    *)
(* with a count, each once; Passed tells which of them a loop has behind   *)
(* it.                                                                     *)
(***************************************************************************)
Sparse ==
  \A h \in Hashes :
    /\ \A c \in Chars : count[h][c] # 0 <=> c \in Occupied(h)
    /\ \A i, j \in 1 .. Len(index[h]) : index[h][i] = index[h][j] => i = j

Passed(h, c) == \E i \in 1 .. Len(index[h]) : i > k /\ index[h][i] = c

\* The counts are those of the bags; in a sum, those passed have been added.
CountInv ==
  /\ \A h \in Hashes, c \in Chars : bag[h][c] <= MaxCount
  /\ \A h \in Hashes : (op = "plus" /\ h = x) \/ count[h] = bag[h]
  /\ op = "plus" =>
       /\ x # y /\ k <= Len(index[y])
       /\ \A c \in Chars :
            /\ bag[x][c] + bag[y][c] <= MaxCount
            /\ count[x][c] = bag[x][c] + (IF Passed(y, c) THEN bag[y][c] ELSE 0)

\* What the loops of Compare and IsSubset have found out.
LoopInv ==
  /\ op \in {"compare", "subset"} =>
       k <= Len(index[x]) /\ \A c \in Chars : Passed(x, c) => bag[x][c] <= bag[y][c]
  /\ op = "compare" /\ result = 0 =>
       \A c \in Chars : Passed(x, c) => bag[x][c] = bag[y][c]
  /\ op = "compare" => result # 1 /\ (result = -1 => bag[x] # bag[y])
  /\ op = "subset" => result = 1
  /\ op = "back" =>
       /\ k <= Len(index[y]) /\ result = 0
       /\ \A c \in Occupied(x) : bag[x][c] = bag[y][c]
       /\ \A c \in Chars : Passed(y, c) => bag[x][c] >= bag[y][c]

HashInv == TypeOK /\ Sparse /\ CountInv /\ LoopInv /\ CompareRight /\ SubsetRight
=============================================================================
