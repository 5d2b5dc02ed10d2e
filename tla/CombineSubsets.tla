---------------------------- MODULE CombineSubsets ----------------------------
(***************************************************************************)
(* The search (src/main.cc): GetAnagrams, in which worker 0 gathers the    *)
(* words of the dictionary that are complete anagrams and those that are   *)
(* partial ones, and CombineSubsetsFast with its recursion, in which every *)
(* worker combines the partial words of its share into complete anagrams.  *)
(*                                                                         *)
(* A word is its place in the order of std::map, a phrase is the sequence  *)
(* of its words, and an iterator is a word or End.  Each iteration of a    *)
(* loop is a step.  The recursion is a stack of frames; a frame's          *)
(* candidate_count_a is a reference, at depth 0 to a local variable and    *)
(* below to *candidate_count_arr[depth - 1], and candidate_count_b is one  *)
(* object for all frames of a thread.                                      *)
(*                                                                         *)
(* That the trie finds the words with a given initial, that gather_lock    *)
(* makes the others wait (module RunJob: it does if worker 0 gets in       *)
(* during the nap) and that the hashes count and compare rightly (module   *)
(* OccupancyHash: not those that GetAnagrams builds from the phrase, whose *)
(* members are uninitialized, nor with 128 equal letters) is taken for     *)
(* granted.  So is that a push to the queue is one step that ends: what    *)
(* becomes of a text behind that, when several workers push at a time, is  *)
(* what module OutputQueue is about.                                       *)
(***************************************************************************)
EXTENDS Integers, Sequences, FiniteSets

CONSTANTS
  Chars,          \* the characters that count
  WordList,       \* words that may be in a dictionary, in the order of std::map
  Inputs,         \* what the program may be called with
  ThreadTot,      \* the largest number of worker threads
  Depths,         \* the size of candidate_count_arr: 64
  Frequency,      \* kOutputQueueThrottleFrequency: 100
  ColCount        \* kColCount: 8

Words == 1 .. Len(WordList)

ASSUME ConstantsAssumption ==
  /\ WordList \in Seq(Seq(Chars) \ {<<>>})
  /\ \A v, w \in Words : WordList[v] = WordList[w] => v = w
  /\ \A in \in Inputs :
       /\ in.dict \subseteq Words /\ in.excludeset \subseteq Words
       /\ in.allow_dupes \in BOOLEAN /\ in.output_directly \in BOOLEAN
       /\ in.print_subset \in BOOLEAN
       /\ in.cpu_tot \in 1 .. ThreadTot /\ Len(in.word) \in Nat
  /\ ThreadTot \in Nat \ {0} /\ Depths \in Nat \ {0} /\ Frequency \in Nat \ {0}
  /\ ColCount \in Nat \ {0}

Threads == 0 .. ThreadTot - 1
End == Len(WordList) + 1

VARIABLES
  input,                     \* a member of Inputs: the phrase (word), the dictionary
                             \* (dict), the words given with -e, the flags, cpu_tot
  chars_completed,           \* the initials that have been looked up
  position,                  \* where in the phrase worker 0 is
  subset,                    \* the partial words
  rows, row,                 \* the rows of them that PrintSubset has pushed, and its out
  gathered,                  \* has worker 0 released gather_lock?
  pc,                        \* where each thread is
  i,                         \* the iterator of CombineSubsetsFast, per thread
  frames,                    \* the stack of the recursion, per thread
  counts,                    \* candidate_count_a and the candidate_count_arr
  sum,                       \* candidate_count_b
  lock_, at,                 \* subset_lock
  throttle, reg,             \* output_queue_throttle, and in a register
  output,                    \* the phrases in the map or pushed to the queue
  again                      \* history: those that came there more than once

printing == <<rows, row>>
gather == <<chars_completed, position, subset, gathered, printing>>
search == <<i, frames, counts, sum>>
lockVars == <<lock_, at>>
progress == <<throttle, reg>>
found == <<output, again>>
vars == <<input, gather, pc, search, lockVars, progress, found>>

L == INSTANCE Lock

\* Where in a word a character occurs, and how often each occurs in a phrase.
PlacesOf(c, w) == {k \in 1 .. Len(WordList[w]) : WordList[w][k] = c}

CharCount(phrase) ==
  [c \in Chars |-> Cardinality(UNION {{n} \X PlacesOf(c, phrase[n]) : n \in 1 .. Len(phrase)})]

\* The counts of the phrase, taken to be right in both objects that hold them.
MasterCount ==
  [c \in Chars |-> Cardinality({k \in 1 .. Len(input.word) : input.word[k] = c})]

Nothing == [c \in Chars |-> 0]

Plus(p, q) == [c \in Chars |-> p[c] + q[c]]

\* Mutant of Compare: equal counts are not told from smaller ones.
CompareNeverEqual(p, q) == IF \E c \in Chars : p[c] > q[c] THEN 1 ELSE -1

Compare(p, q) == IF p = q THEN 0 ELSE IF \E c \in Chars : p[c] > q[c] THEN 1 ELSE -1

IsSubset(p, q) == \A c \in Chars : p[c] <= q[c]

\* Mutant of Advance: the iterator walks the dictionary, not the partial words.
AdvanceAnywhere(w, n) == IF w + n > Len(WordList) THEN End ELSE w + n

\* The iterator n words further.
Advance(w, n) ==
  LET reached == {v \in subset : v >= w /\ Cardinality({u \in subset : w <= u /\ u < v}) = n}
  IN  IF reached = {} THEN End ELSE CHOOSE v \in reached : TRUE

Init ==
  /\ input \in Inputs
  /\ chars_completed = {} /\ position = 1 /\ subset = {} /\ gathered = FALSE
  /\ rows = <<>> /\ row = <<>>
  /\ pc = [t \in Threads |-> IF t = 0 THEN "gather"
                           ELSE IF t < input.cpu_tot THEN "wait" ELSE "done"]
  /\ i = [t \in Threads |-> End]
  /\ frames = [t \in Threads |-> <<>>]
  /\ counts = [t \in Threads |-> [d \in 0 .. Depths |-> Nothing]]
  /\ sum = [t \in Threads |-> Nothing]
  /\ L!Init
  /\ throttle = Frequency /\ reg = [t \in Threads |-> 0]
  /\ output = {} /\ again = {}

Goto(t, place) == pc' = [pc EXCEPT ![t] = place]

-----------------------------------------------------------------------------
StartingWith(c) == {w \in input.dict \ input.excludeset : WordList[w][1] = c}

\* Mutant of PartialWords: complete anagrams are partial ones as well.
PartialWordsOrComplete(words) == {w \in words : IsSubset(CharCount(<<w>>), MasterCount)}

PartialWords(words) ==
  {w \in words : /\ Compare(CharCount(<<w>>), MasterCount) # 0
                 /\ IsSubset(CharCount(<<w>>), MasterCount)}

CompleteWords(words) ==
  {<<w>> : w \in {w \in words : Compare(CharCount(<<w>>), MasterCount) = 0}}

\* The words that start with the next letter of the phrase, once for each letter.
\* (The last letter looked up is the terminating NUL, which finds nothing.)
\* Without -o the map keeps a complete anagram from being entered twice as well.
GatherLetter ==
  /\ pc[0] = "gather" /\ position <= Len(input.word)
  /\ position' = position + 1
  /\ LET letter == input.word[position]
         words == IF letter \in chars_completed THEN {} ELSE StartingWith(letter)
     IN  /\ chars_completed' = chars_completed \union {letter}
         /\ subset' = subset \union PartialWords(words)
         /\ output' = output \union CompleteWords(words)
         /\ again' = again \union (output \intersect CompleteWords(words))
  /\ UNCHANGED <<input, gathered, printing, pc, search, lockVars, progress>>

\* With -s worker 0 prints the partial words before it lets the others in.
BeginPrint ==
  /\ pc[0] = "gather" /\ position > Len(input.word) /\ input.print_subset
  /\ Goto(0, "print")
  /\ UNCHANGED <<input, gather, search, lockVars, progress, found>>

\* The partial words that are not yet in a row.
Unprinted ==
  {w \in subset : /\ \A n \in 1 .. Len(row) : row[n] < w
                  /\ \A m \in 1 .. Len(rows) : \A n \in 1 .. Len(rows[m]) : rows[m][n] < w}

\* Mutant of PrintWord: a row that was pushed is not cleared.
PrintWordUncleared ==
  /\ pc[0] = "print" /\ Unprinted # {}
  /\ \E w \in Unprinted :
       /\ \A v \in Unprinted : w <= v
       /\ row' = Append(row, w)
       /\ rows' = IF Len(row) + 1 = ColCount THEN Append(rows, Append(row, w)) ELSE rows
  /\ UNCHANGED <<input, chars_completed, position, subset, gathered, pc, search, lockVars,
                 progress, found>>

\* The next word goes to the end of the row, and a full row to the queue.
PrintWord ==
  /\ pc[0] = "print" /\ Unprinted # {}
  /\ \E w \in Unprinted :
       /\ \A v \in Unprinted : w <= v
       /\ IF Len(row) + 1 = ColCount
          THEN row' = <<>> /\ rows' = Append(rows, Append(row, w))
          ELSE row' = Append(row, w) /\ UNCHANGED rows
  /\ UNCHANGED <<input, chars_completed, position, subset, gathered, pc, search, lockVars,
                 progress, found>>

\* The last row goes to the queue, be it empty.
EndPrint ==
  /\ pc[0] = "print" /\ Unprinted = {}
  /\ rows' = Append(rows, row)
  /\ Goto(0, "printed")
  /\ UNCHANGED <<input, chars_completed, position, subset, gathered, row, search, lockVars,
                 progress, found>>

\* Worker 0 lets the others in.
EndGather ==
  /\ \/ pc[0] = "gather" /\ position > Len(input.word) /\ ~input.print_subset
     \/ pc[0] = "printed"
  /\ gathered' = TRUE
  /\ Goto(0, "wait")
  /\ UNCHANGED <<input, chars_completed, position, subset, printing, search, lockVars, progress,
                 found>>

-----------------------------------------------------------------------------
\* CombineSubsetsFast begins: thread t starts at word t.
Enter(t) ==
  /\ pc[t] = "wait" /\ gathered
  /\ i' = [i EXCEPT ![t] = Advance(1, t)]
  /\ Goto(t, "outer")
  /\ UNCHANGED <<input, gather, frames, counts, sum, lockVars, progress, found>>

\* The words of the share, each with the combinations it starts.  The word that
\* is the phrase itself would be looked at for ever.
StartWord(t) ==
  /\ pc[t] = "outer" /\ i[t] # End
  /\ input.allow_dupes \/ WordList[i[t]] # input.word
  /\ counts' = [counts EXCEPT ![t][0] = CharCount(<<i[t]>>)]
  /\ frames' = [frames EXCEPT ![t] = <<[word |-> <<i[t]>>, next |-> i[t]]>>]
  /\ Goto(t, "loop")
  /\ UNCHANGED <<input, gather, i, sum, lockVars, progress, found>>

Leave(t) ==
  /\ pc[t] = "outer" /\ i[t] = End
  /\ Goto(t, "done")
  /\ UNCHANGED <<input, gather, search, lockVars, progress, found>>

-----------------------------------------------------------------------------
depth(t) == Len(frames[t]) - 1
Top(t) == frames[t][Len(frames[t])]
Combined(t) == Append(Top(t).word, Top(t).next)

\* candidate_count_b after clear(), GetCharCountMap and += candidate_count_a.
NextSum(t) == Plus(CharCount(<<Top(t).next>>), counts[t][depth(t)])

IsDupe(t) == ~input.allow_dupes /\ Top(t).word = <<Top(t).next>>

AtWord(t) == pc[t] = "loop" /\ Top(t).next # End

\* The iterator of the innermost frame moves on.
NextWord(t) == frames' = [frames EXCEPT ![t][Len(frames[t])].next = Advance(@, 1)]

SkipDupe(t) ==
  /\ AtWord(t) /\ IsDupe(t)
  /\ NextWord(t)
  /\ UNCHANGED <<input, gather, pc, i, counts, sum, lockVars, progress, found>>

Put(phrase) ==
  /\ output' = output \union {phrase}
  /\ again' = again \union ({phrase} \intersect output)

\* A complete anagram: pushed to the queue with -o, or put in the map.
Complete(t) ==
  /\ AtWord(t) /\ ~IsDupe(t)
  /\ Compare(NextSum(t), MasterCount) = 0
  /\ sum' = [sum EXCEPT ![t] = NextSum(t)]
  /\ \/ /\ input.output_directly
        /\ Put(Combined(t))
        /\ NextWord(t)
        /\ UNCHANGED <<pc, lockVars>>
     \/ /\ ~input.output_directly
        /\ L!Call(t)
        /\ Goto(t, "insert")
        /\ UNCHANGED <<frames, found>>
  /\ UNCHANGED <<input, gather, i, counts, progress>>

\* Mutant of Recurse: the count goes where the parent's count is.
RecurseInPlace(t) ==
  /\ AtWord(t) /\ ~IsDupe(t)
  /\ Compare(NextSum(t), MasterCount) < 0
  /\ sum' = [sum EXCEPT ![t] = NextSum(t)]
  /\ counts' = [counts EXCEPT ![t] = [d \in 0 .. Depths |->
                  IF d \in depth(t) .. depth(t) + 1 THEN CharCount(Combined(t)) ELSE @[d]]]
  /\ frames' = [frames EXCEPT ![t] = Append(@, [word |-> Combined(t), next |-> Top(t).next])]
  /\ UNCHANGED <<input, gather, pc, i, lockVars, progress, found>>

\* Mutant of Recurse: the recursion starts at the next word.
RecursePast(t) ==
  /\ AtWord(t) /\ ~IsDupe(t)
  /\ Compare(NextSum(t), MasterCount) < 0
  /\ depth(t) < Depths
  /\ sum' = [sum EXCEPT ![t] = NextSum(t)]
  /\ counts' = [counts EXCEPT ![t][depth(t) + 1] = CharCount(Combined(t))]
  /\ frames' = [frames EXCEPT ![t] =
                  Append(@, [word |-> Combined(t), next |-> Advance(Top(t).next, 1)])]
  /\ UNCHANGED <<input, gather, pc, i, lockVars, progress, found>>

\* A partial anagram: the recursion combines it with this word and those behind.
Recurse(t) ==
  /\ AtWord(t) /\ ~IsDupe(t)
  /\ Compare(NextSum(t), MasterCount) < 0
  /\ depth(t) < Depths
  /\ sum' = [sum EXCEPT ![t] = NextSum(t)]
  /\ counts' = [counts EXCEPT ![t][depth(t) + 1] = CharCount(Combined(t))]
  /\ frames' = [frames EXCEPT ![t] = Append(@, [word |-> Combined(t), next |-> Top(t).next])]
  /\ UNCHANGED <<input, gather, pc, i, lockVars, progress, found>>

\* Behind the end of candidate_count_arr is no hash: here, the program ends.
Overrun(t) ==
  /\ AtWord(t) /\ ~IsDupe(t)
  /\ Compare(NextSum(t), MasterCount) < 0
  /\ depth(t) >= Depths
  /\ Goto(t, "overrun")
  /\ UNCHANGED <<input, gather, search, lockVars, progress, found>>

Exceed(t) ==
  /\ AtWord(t) /\ ~IsDupe(t)
  /\ Compare(NextSum(t), MasterCount) > 0
  /\ sum' = [sum EXCEPT ![t] = NextSum(t)]
  /\ NextWord(t)
  /\ UNCHANGED <<input, gather, pc, i, counts, lockVars, progress, found>>

\* The loop of a frame other than the first ends: its caller goes on.
Return(t) ==
  /\ pc[t] = "loop" /\ Top(t).next = End /\ depth(t) > 0
  /\ LET caller == Len(frames[t]) - 1
         below == SubSeq(frames[t], 1, caller)
     IN  frames' = [frames EXCEPT ![t] =
                      [below EXCEPT ![caller].next = Advance(below[caller].next, 1)]]
  /\ UNCHANGED <<input, gather, pc, i, counts, sum, lockVars, progress, found>>

\* Mutant of EndWord: every thread goes through all the words.
EndWordByOne(t) ==
  /\ pc[t] = "loop" /\ Top(t).next = End /\ depth(t) = 0
  /\ frames' = [frames EXCEPT ![t] = <<>>]
  /\ i' = [i EXCEPT ![t] = Advance(@, 1)]
  /\ Goto(t, "outer")
  /\ UNCHANGED <<input, gather, counts, sum, lockVars, progress, found>>

\* The first loop ends: on to the next word of the share.
EndWord(t) ==
  /\ pc[t] = "loop" /\ Top(t).next = End /\ depth(t) = 0
  /\ frames' = [frames EXCEPT ![t] = <<>>]
  /\ i' = [i EXCEPT ![t] = Advance(@, input.cpu_tot)]
  /\ Goto(t, "outer")
  /\ UNCHANGED <<input, gather, counts, sum, lockVars, progress, found>>

-----------------------------------------------------------------------------
SeeFree(t) ==
  /\ L!SeeFree(t)
  /\ UNCHANGED <<input, gather, pc, search, progress, found>>

TestAndSet(t) ==
  /\ L!TestAndSet(t)
  /\ UNCHANGED <<input, gather, pc, search, progress, found>>

BeginInsert(t) ==
  /\ pc[t] = "insert" /\ at[t] = "held"
  /\ Goto(t, "inserting")
  /\ UNCHANGED <<input, gather, search, lockVars, progress, found>>

\* output[output_phrase] = 1.  Two insertions at a time may lose one or end the
\* program.
EndInsert(t) ==
  /\ pc[t] = "inserting"
  /\ \/ Put(Combined(t)) /\ Goto(t, "release")
     \/ /\ \E u \in Threads \ {t} : pc[u] = "inserting"
        /\ pc' \in {[pc EXCEPT ![t] = place] : place \in {"release", "crashed"}}
        /\ UNCHANGED found
  /\ UNCHANGED <<input, gather, search, lockVars, progress>>

Release(t) ==
  /\ pc[t] = "release"
  /\ L!Release(t)
  /\ Goto(t, "load")
  /\ UNCHANGED <<input, gather, search, progress, found>>

\* if (!--output_queue_throttle): a load and a store, under no lock.
LoadThrottle(t) ==
  /\ pc[t] = "load"
  /\ reg' = [reg EXCEPT ![t] = throttle]
  /\ Goto(t, "store")
  /\ UNCHANGED <<input, gather, search, lockVars, throttle, found>>

StoreThrottle(t) ==
  /\ pc[t] = "store"
  /\ throttle' = reg[t] - 1
  /\ IF reg[t] = 1 THEN Goto(t, "reset") /\ UNCHANGED frames
                   ELSE Goto(t, "loop") /\ NextWord(t)
  /\ UNCHANGED <<input, gather, i, counts, sum, lockVars, reg, found>>

\* A progress line goes to the output queue; its text is not modelled.
ResetThrottle(t) ==
  /\ pc[t] = "reset"
  /\ throttle' = Frequency
  /\ Goto(t, "loop")
  /\ NextWord(t)
  /\ UNCHANGED <<input, gather, i, counts, sum, lockVars, reg, found>>

Stopped == \E t \in Threads : pc[t] \in {"crashed", "overrun"}

Finished == Stopped \/ \A t \in Threads : pc[t] = "done"

Ended == Finished /\ UNCHANGED vars

Step(t) ==
  /\ ~Stopped
  /\ \/ t = 0 /\ (GatherLetter \/ BeginPrint \/ PrintWord \/ EndPrint \/ EndGather)
     \/ Enter(t) \/ StartWord(t) \/ Leave(t)
     \/ SkipDupe(t) \/ Complete(t) \/ Recurse(t) \/ Overrun(t) \/ Exceed(t)
     \/ Return(t) \/ EndWord(t)
     \/ SeeFree(t) \/ TestAndSet(t) \/ BeginInsert(t) \/ EndInsert(t) \/ Release(t)
     \/ LoadThrottle(t) \/ StoreThrottle(t) \/ ResetThrottle(t)

Next == Ended \/ \E t \in Threads : Step(t)

Spec == Init /\ [][Next]_vars

\* Every worker keeps running.  The number of insertions is finite, so that a
\* thread that spins for subset_lock finds it free in the end.
Fairness == \A t \in Threads : WF_vars(Step(t))

FairSpec == Spec /\ Fairness

-----------------------------------------------------------------------------
\* The places at which a thread works on a frame.
Framed == {"loop", "insert", "inserting", "release", "load", "store", "reset"}

Places == {"gather", "print", "printed", "wait", "outer", "done", "crashed", "overrun"} \union Framed

\* Every thread is at a place of its code, iterators are in the map or at its
\* end, and the stack is as deep as the place allows.
Frame == [word : Seq(Words), next : Words \union {End}]
Bag == [Chars -> Nat]

TypeOK ==
  /\ input \in Inputs
  /\ position \in 1 .. Len(input.word) + 1 /\ gathered \in BOOLEAN
  /\ subset \subseteq input.dict \ input.excludeset
  /\ pc \in [Threads -> Places]
  /\ i \in [Threads -> Words \union {End}]
  /\ \A t \in Threads :
       /\ i[t] \in subset \union {End}
       /\ frames[t] \in Seq(Frame)
       /\ frames[t] = <<>> <=> pc[t] \in {"gather", "print", "printed", "wait", "outer", "done"}
       /\ \A n \in 1 .. Len(frames[t]) : frames[t][n].next \in subset \union {End}
  /\ counts \in [Threads -> [0 .. Depths -> Bag]] /\ sum \in [Threads -> Bag]
  /\ L!TypeOK
  /\ throttle \in Int /\ reg \in [Threads -> Int]
  /\ output \subseteq Seq(Words) /\ again \subseteq output

\* "Prints the complete subset dictionary of candidate words" (main.cc:207): by the time
\* the other workers are let in, the rows hold the partial words, in order and none
\* twice, and all rows are full but the last, whether or not the words fill one more.
PrintsSubset ==
  gathered /\ input.print_subset =>
    LET Cells == {p \in (1 .. Len(rows)) \X (1 .. ColCount) : p[2] <= Len(rows[p[1]])} IN
      /\ {rows[p[1]][p[2]] : p \in Cells} = subset
      /\ \A p, q \in Cells :
           p[1] < q[1] \/ (p[1] = q[1] /\ p[2] < q[2]) => rows[p[1]][p[2]] < rows[q[1]][q[2]]
      /\ \A m \in 1 .. Len(rows) : Len(rows[m]) = ColCount <=> m < Len(rows)

\* candidate_count_a of every frame is the count of its word, though one array of
\* hashes and one candidate_count_b serve all the frames of a thread
\* (main.cc:266-271, 308-320), and a frame's word is its caller's word and the
\* one at its caller's iterator.
FramesCounted ==
  \A t \in Threads : \A n \in 1 .. Len(frames[t]) :
    /\ n <= Depths + 1 => counts[t][n - 1] = CharCount(frames[t][n].word)
    /\ n > 1 => frames[t][n].word = Append(frames[t][n - 1].word, frames[t][n - 1].next)

\* A phrase is an anagram of the master phrase: the same letters, each as often.
IsAnagram(phrase) == CharCount(phrase) = MasterCount

\* "find all combinations of partial words to create complete anagrams.  Spaces in
\* master word are ignored" (main.cc:329-330): everything that is found is an
\* anagram, made of words of the dictionary that are not excluded, in the order
\* of the map.
FindsAnagrams ==
  \A phrase \in output :
    /\ IsAnagram(phrase)
    /\ \A n \in 1 .. Len(phrase) : phrase[n] \in input.dict \ input.excludeset
    /\ \A n \in 1 .. Len(phrase) - 1 : phrase[n] <= phrase[n + 1]

\* All phrases with no more words than the master has letters.
Phrases == UNION {[1 .. n -> input.dict \ input.excludeset] : n \in 1 .. Len(input.word)}

Sorted(phrase) == \A n \in 1 .. Len(phrase) - 1 : phrase[n] <= phrase[n + 1]

Distinct(phrase) == \A n \in 1 .. Len(phrase) - 1 : phrase[n] < phrase[n + 1]

\* ... and all of them are found by the time the threads have ended, however the
\* words are shared out among them: each as a sorted phrase, and without -d
\* those at least in which no word occurs twice.  Found means put in the map, or
\* with -o handed to Push; that workers who push at a time may overrun the queue is
\* another matter (OutputQueue).  Without -o this is true of one worker only, as
\* two that insert into the map at a time may lose a phrase.
FindsAll ==
  (\A t \in Threads : pc[t] = "done") /\ (input.output_directly \/ input.cpu_tot = 1) =>
    \A phrase \in Phrases :
      IsAnagram(phrase) /\ (IF input.allow_dupes THEN Sorted(phrase) ELSE Distinct(phrase))
        => phrase \in output

\* With -o, where no map catches it, no phrase is handed to Push twice: the
\* initials are looked up once each, and the shares of the threads do not overlap
\* (main.cc:345-354, 380-382, 433-443).
NothingTwice == again = {}

Letters == {k \in 1 .. Len(input.word) : input.word[k] \in Chars}

\* The recursion stays within the hashes of candidate_count_arr as long as the
\* phrase has at most two letters more than there are hashes (main.cc:308, 344).
DepthInBounds ==
  (\E t \in Threads : pc[t] = "overrun") => Cardinality(Letters) > Depths + 2

\* All threads end, or bring the program down, if their pushes end: the loop of CombineSubsetsFast,
\* whose `continue' does not move the iterator (main.cc:359-360), never meets the
\* phrase itself, the recursion comes to an end and nobody spins for ever.
ThreadsEnd == <>Finished

-----------------------------------------------------------------------------
(***************************************************************************)
(* The inductive invariant of the search.  The stack of a thread leads     *)
(* from a word of its share down to where it is, and the hashes of the     *)
(* thread go with it, frame by frame.                                      *)
(***************************************************************************)
StackInv(stack, count, partial) ==
  /\ Len(stack) <= Depths + 1
  /\ \A n \in 1 .. Len(stack) :
       LET frame == stack[n] IN
         /\ Len(frame.word) = n /\ \A m \in 1 .. Len(frame.word) : frame.word[m] \in partial
         /\ Sorted(frame.word)
         /\ frame.next \in partial \union {End}
         /\ frame.word[Len(frame.word)] <= frame.next
         /\ count[n - 1] = CharCount(frame.word)
         /\ n > 1 => frame.word = Append(stack[n - 1].word, stack[n - 1].next)

ThreadInv(t) ==
  /\ StackInv(frames[t], counts[t], subset)
  /\ pc[t] \in Framed => frames[t] # <<>>
  /\ pc[t] \in {"insert", "inserting"} => Top(t).next # End /\ IsAnagram(Combined(t))

SearchInv ==
  /\ input \in Inputs /\ subset \subseteq input.dict \ input.excludeset
  /\ pc \in [Threads -> Places]
  /\ i \in [Threads -> subset \union {End}]
  /\ frames \in [Threads -> Seq(Frame)]
  /\ counts \in [Threads -> [0 .. Depths -> Bag]]
  /\ \A t \in Threads : ThreadInv(t)
  /\ output \subseteq Seq(Words)
  /\ FindsAnagrams

-----------------------------------------------------------------------------
(***************************************************************************)
(* The order of the search.  A thread goes through the phrases that begin  *)
(* with a word of its share as a dictionary would list them, so that what  *)
(* it has found lies before the point it has reached, and nothing that it  *)
(* should have found does that it has not.                                 *)
(***************************************************************************)
\* The threads that run, and the places before a thread's search and behind its insertions.
Started == 0 .. input.cpu_tot - 1
Early == {"gather", "print", "printed", "wait"}
Late == {"release", "load", "store", "reset"}

\* Every cpu_tot-th partial word is in a thread's share, from the t-th on.
Rank(w) == Cardinality({v \in subset : v < w})
InShare(t, w) == Rank(w) % input.cpu_tot = t

\* The order of a dictionary: p is cut short or has the earlier word where it first
\* differs from q.
Before(p, q) ==
  \E n \in 1 .. Len(q) :
    /\ n <= Len(p) + 1 /\ \A m \in 1 .. n - 1 : p[m] = q[m]
    /\ n <= Len(p) => p[n] < q[n]

Point(t) == IF frames[t] = <<>> THEN <<i[t]>> ELSE Combined(t)

Passed(t, phrase) ==
  \/ pc[t] \notin Early /\ Before(phrase, Point(t))
  \/ pc[t] \in Late /\ phrase = Point(t)

\* What the search is to find, of more words than one.
Wanted(phrase) ==
  /\ Len(phrase) > 1 /\ IF input.allow_dupes THEN Sorted(phrase) ELSE Distinct(phrase)
  /\ IsAnagram(phrase)

\* The gather: what has been gathered are the words with the initials looked up.
GatheredInv ==
  /\ position \in 1 .. Len(input.word) + 1
  /\ chars_completed = {input.word[k] : k \in 1 .. position - 1}
  /\ pc[0] # "gather" => position = Len(input.word) + 1
  /\ gathered <=> pc[0] \notin Early \ {"wait"}
  /\ \A t \in Threads \ {0} : pc[t] \notin Early \ {"wait"}
  /\ \A t \in Started : ~gathered => pc[t] \in Early
  /\ \A t \in Threads \ Started : pc[t] = "done"
  /\ subset = UNION {PartialWords(StartingWith(c)) : c \in chars_completed}
  /\ LET complete == UNION {CompleteWords(StartingWith(c)) : c \in chars_completed}
     IN  complete \subseteq output /\ (gathered \/ output = complete)

\* A thread is in its share, and has found what it has passed.
OrderInv(t) ==
  /\ frames[t] = <<>> <=> pc[t] \in Early \union {"outer", "done"}
  /\ \A n \in 1 .. Len(frames[t]) : frames[t][n].word[1] = i[t]
  /\ pc[t] \in Late => Top(t).next # End /\ IsAnagram(Combined(t))
  /\ pc[t] \in Late \union {"insert", "inserting"} => ~input.output_directly
  /\ t \in Started /\ pc[t] \notin Early =>
       /\ i[t] # End => InShare(t, i[t])
       /\ pc[t] = "done" => i[t] = End

\* Nothing is found that its thread has not passed.
OnceInv ==
  /\ again = {}
  /\ \A t \in Started : \A phrase \in output :
       phrase[1] \in subset /\ InShare(t, phrase[1]) => Passed(t, phrase)

\* Nothing is passed that its thread should have found and has not.
AllInv ==
  input.output_directly \/ input.cpu_tot = 1 =>
    \A t \in Started : \A phrase \in Phrases :
      Passed(t, phrase) /\ InShare(t, phrase[1]) /\ Wanted(phrase) => phrase \in output

OrderedInv ==
  /\ SearchInv /\ GatheredInv /\ OnceInv /\ AllInv
  /\ \A t \in Threads : OrderInv(t)

(***************************************************************************)
(* The rows of the partial words that worker 0 prints: all full but the    *)
(* last, and sorted.                                                       *)
(***************************************************************************)
InRows(table, w) == \E m \in 1 .. Len(table) : \E n \in 1 .. Len(table[m]) : table[m][n] = w

RowsSorted(table) ==
  \A k, m \in 1 .. Len(table) : \A l \in 1 .. Len(table[k]), n \in 1 .. Len(table[m]) :
    k < m \/ (k = m /\ l < n) => table[k][l] < table[m][n]

Table(table, partial) ==
  /\ table \in Seq(Seq(partial)) /\ table # <<>> /\ RowsSorted(table)
  /\ \A m \in 1 .. Len(table) :
       Len(table[m]) <= ColCount /\ (Len(table[m]) = ColCount <=> m < Len(table))

RowsInv ==
  /\ pc[0] = "gather" => rows = <<>> /\ row = <<>>
  /\ pc[0] = "print" =>
       LET table == Append(rows, row) IN
         /\ rows \in Seq(Seq(subset)) /\ row \in Seq(subset) /\ Table(table, subset)
         /\ \A w \in subset : InRows(table, w) \/ \A v \in subset : InRows(table, v) => v < w
  /\ pc[0] = "printed" \/ (gathered /\ input.print_subset) =>
       Table(rows, subset) /\ \A w \in subset : InRows(rows, w)

=============================================================================
