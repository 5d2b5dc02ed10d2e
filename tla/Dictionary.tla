------------------------------ MODULE Dictionary ------------------------------
(***************************************************************************)
(* What the ternary tree promises to GetAnagrams: a set of words, to which *)
(* words are added, and which answers a letter with the words that begin   *)
(* with it: with all of them, unless the letter is none of ASCII's, or     *)
(* more than TieLimit of them have the same length.                        *)
(***************************************************************************)
EXTENDS Naturals, Sequences, FiniteSets

CONSTANTS Word, Letters, TieLimit

VARIABLES
  words,         \* the words of the dictionary
  found          \* the answer to the last letter

dictionaryVars == <<words, found>>

StartingWith(letter) == {w \in words : w[1] = letter}

Init == words = {} /\ found = {}

Add(w) == words' = words \union {w} /\ UNCHANGED found

Crowded(letter) ==
  \E w \in StartingWith(letter) :
    Cardinality({v \in StartingWith(letter) : Len(v) = Len(w)}) > TieLimit

Lookup(letter) ==
  /\ found' \subseteq StartingWith(letter)
  /\ letter < 128 /\ ~Crowded(letter) => found' = StartingWith(letter)
  /\ UNCHANGED words

Next ==
  \/ \E w \in Word : Add(w)
  \/ \E letter \in Letters : Lookup(letter)

Spec == Init /\ [][Next]_dictionaryVars
=============================================================================
