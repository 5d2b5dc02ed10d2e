---------------------------- MODULE ReadDictionary ----------------------------
(***************************************************************************)
(* The life of the tree in the program (src/main.cc): ReadDictionaryFile   *)
(* fills it from one or two files, the second half of a file before the    *)
(* first, so that a sorted file does not make a list of it; GetAnagrams    *)
(* looks up letters; and main's end destroys it.                           *)
(***************************************************************************)
EXTENDS TernaryTree

CONSTANTS
  Dictionaries,    \* lists of the files that may be read
  Letters          \* the letters that may be looked up

\* A file is its lines, and whether a newline ends the last of them.  A missing
\* file reads like an empty one.
ASSUME ReaderAssumption ==
  /\ Dictionaries \subseteq Seq([lines : Seq(Words), terminated : BOOLEAN])
  /\ Letters \subseteq 0 .. 254

VARIABLES
  files,        \* the files to read
  current,      \* the file that is being read
  pc,           \* where the reader is
  position,     \* the next line
  letter        \* the letter looked up last, or 0

readerVars == <<files, current, pc, position, letter>>
vars == <<treeVars, readerVars>>

Lines == files[current].lines

\* GetWordCount counts newlines.
GetWordCount == IF files[current].terminated \/ Lines = <<>> THEN Len(Lines) ELSE Len(Lines) - 1

start == GetWordCount \div 2

Init ==
  /\ TreeInit
  /\ files \in Dictionaries
  /\ current = 1 /\ position = 1 /\ letter = 0
  /\ pc = "open"

Idle == rest = <<>> /\ pending = <<>>

\* Mutant of Open: the second half begins one line too early.
OpenEarly ==
  /\ pc = "open" /\ current <= Len(files)
  /\ position' = start
  /\ pc' = "phase1"
  /\ UNCHANGED <<treeVars, files, current, letter>>

\* Count the lines and skip to the middle.
Open ==
  /\ pc = "open" /\ current <= Len(files)
  /\ position' = start + 1
  /\ pc' = "phase1"
  /\ UNCHANGED <<treeVars, files, current, letter>>

\* A line of the second half is inserted unless it is there already.
ReadSecondHalf ==
  /\ pc = "phase1" /\ Idle /\ position <= Len(Lines)
  /\ IF Find(Lower(Lines[position])) THEN UNCHANGED treeVars ELSE Insert(Lines[position])
  /\ position' = position + 1
  /\ UNCHANGED <<files, current, pc, letter>>

Rewind ==
  /\ pc = "phase1" /\ Idle /\ position > Len(Lines)
  /\ position' = 1
  /\ pc' = "phase2"
  /\ UNCHANGED <<treeVars, files, current, letter>>

\* Mutant of ReadFirstHalf: idx stays.
ReadFirstHalfAgain ==
  /\ pc = "phase2" /\ Idle /\ position <= start
  /\ Insert(Lines[position])
  /\ UNCHANGED readerVars

\* A line of the first half is inserted in any case.
ReadFirstHalf ==
  /\ pc = "phase2" /\ Idle /\ position <= start
  /\ Insert(Lines[position])
  /\ position' = position + 1
  /\ UNCHANGED <<files, current, pc, letter>>

CloseFile ==
  /\ pc = "phase2" /\ Idle /\ position > start
  /\ current' = current + 1
  /\ pc' = "open"
  /\ UNCHANGED <<treeVars, files, position, letter>>

\* GetAnagrams asks for the words that begin with a letter, one that was not
\* looked up before.
Lookup ==
  /\ pc = "open" /\ current > Len(files)
  /\ \E asked \in Letters :
       /\ letter < asked
       /\ FuzzyFind(asked)
       /\ letter' = asked
  /\ UNCHANGED <<files, current, pc, position>>

Destroy ==
  /\ pc = "open" /\ current > Len(files)
  /\ DeleteTree
  /\ pc' = "ended"
  /\ UNCHANGED <<files, current, position, letter>>

Inserting == InsertStep /\ UNCHANGED readerVars

Ended == pc = "ended" /\ UNCHANGED vars

Reading ==
  Open \/ ReadSecondHalf \/ Rewind \/ ReadFirstHalf \/ CloseFile \/ Inserting \/ Destroy

Next == Reading \/ Lookup \/ Ended

Spec == Init /\ [][Next]_vars

\* One thread reads the files and goes on; the search that follows is fair too,
\* and looks up each letter once.
FairSpec == Spec /\ WF_vars(Reading)

-----------------------------------------------------------------------------
\* The reader is at a place of its code and in one of its files.
TypeOK ==
  /\ TreeTypeOK
  /\ current \in 1 .. Len(files) + 1
  /\ pc \in {"open", "phase1", "phase2", "ended"}
  /\ position \in Nat \ {0} /\ letter \in Letters \union {0}

WordsOf(n) == {Lower(files[n].lines[k]) : k \in 1 .. Len(files[n].lines)}

\* When a file is closed the tree has its words and those of the files before,
\* in lower case, and no others: however many lines the file has, sorted or not,
\* with a last line that a newline ends or not, the halves leave none out
\* (main.cc:90-128).
ReadsEveryLine ==
  pc = "open" => Spelt = UNION {WordsOf(n) : n \in 1 .. current - 1}

\* Find finds the words of the tree, no prefixes of theirs and no others, however
\* the insertions have grown it: Insert and Find go the same way (ternary_tree.cc:86-98,
\* 139-152).  The exception is a word with a byte above 127, which Insert takes for
\* unsigned and Find for signed.
FindsWords ==
  pc = "open" =>
    \A word \in Words :
      Find(Lower(word)) <=>
        Lower(word) \in Spelt /\ \A n \in 1 .. Len(word) : word[n] < 128

\* The distances of the beginnings of two words, as they are defined.
Distances(s1, s2) ==
  LET d[at \in (0 .. Len(s1)) \X (0 .. Len(s2))] ==
        LET m == at[1]
            n == at[2]
        IN  IF m = 0 THEN n ELSE IF n = 0 THEN m
            ELSE Min3(d[<<m - 1, n>>] + 1, d[<<m, n - 1>>] + 1,
                      d[<<m - 1, n - 1>>] + IF s1[m] = s2[n] THEN 0 ELSE 1)
  IN  d

Distance(s1, s2) == Distances(s1, s2)[<<Len(s1), Len(s2)>>]

\* "how different two strings are ... a commutative subtraction operation"
\* (ternary_tree.cc:393-401): the distance kept in one column, for any two words
\* of the dictionary, is Levenshtein's.
DistanceRight ==
  pc = "open" /\ current > Len(files) /\ letter = 0 =>
    \A v, w \in Spelt : CalcLevenshtein(v, w) = Distance(v, w)

\* The tree, with the map that FuzzyFind fills, is a dictionary.
D == INSTANCE Dictionary WITH
       Word <- {Lower(word) : word \in Words},
       words <- Spelt,
       found <- {words[key] : key \in DOMAIN words}

DictionarySpec == D!Spec

\* Reading comes to its end, and the tree is destroyed.
ReaderEnds == <>(pc = "ended")

-----------------------------------------------------------------------------
(***************************************************************************)
(* The inductive invariants of the reader.  It is in a file while it       *)
(* reads, and what it reads there are words.                               *)
(***************************************************************************)
ReaderInv ==
  /\ files \in Dictionaries
  /\ current \in 1 .. Len(files) + 1
  /\ pc \in {"open", "phase1", "phase2", "ended"}
  /\ pc \in {"phase1", "phase2"} => current <= Len(files)
  /\ position \in Nat \ {0} /\ letter \in Letters \union {0}
  /\ pc = "phase1" => position \in start + 1 .. Len(Lines) + 1
  /\ pc = "phase2" => position <= start + 1
  /\ pc \in {"open", "ended"} => Idle

\* The lines of the file that have been read, ...
LinesRead ==
  IF pc = "phase1" THEN start + 1 .. position - 1
  ELSE IF pc = "phase2" THEN (1 .. position - 1) \union (start + 1 .. Len(Lines))
  ELSE {}

WordsRead ==
  (UNION {WordsOf(n) : n \in 1 .. current - 1}) \union {Lower(Lines[k]) : k \in LinesRead}

\* ... and the words read are those in the tree, with the one that is being inserted.
WordsInv ==
  /\ SortedInv
  /\ rest = <<>> => Spelt = WordsRead
  /\ rest # <<>> => \E word \in Words : Going(word) /\ Spelt \union {Lower(word)} = WordsRead

\* What was deleted is what there was, and then nothing happens any more.
FreedInv ==
  /\ HungInv
  /\ freed # <<>> => pc = "ended" /\ Len(freed) = Len(nodes)
                     /\ {freed[k] : k \in 1 .. Len(freed)} = 1 .. Len(nodes)
=============================================================================
