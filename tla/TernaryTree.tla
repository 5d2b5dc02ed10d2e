----------------------------- MODULE TernaryTree -----------------------------
(***************************************************************************)
(* TernaryTree and its nodes (src/ternary_tree.cc, include/ternary_tree.h, *)
(* include/templ_node.h): the search tree in which the program keeps its   *)
(* dictionary.  A node is its place in the order of allocation, 0 is the   *)
(* null pointer, and a character is the byte that a char holds.            *)
(*                                                                         *)
(* Insert is a recursion that goes down one node at a time and, on the way *)
(* back, sets the parent of each node it came through; each call and each  *)
(* return is a step.  Find, FuzzyFind and Extrapolate only read the tree   *)
(* and are functions of it.  main calls SetMaxDifference(0), so that       *)
(* Extrapolate never stops early, and looks up single letters only.        *)
(***************************************************************************)
EXTENDS Integers, Sequences, FiniteSets

CONSTANTS
  Words,       \* the words that may be inserted, as the files spell them
  TieLimit     \* the words of one score that have keys of their own: 4096

\* A byte of 0 ends a word, and 255 is, as a char, EOF to tolower.  No line of
\* the dictionaries is empty.
ASSUME TreeAssumption ==
  /\ Words \subseteq Seq(1 .. 254) \ {<<>>}
  /\ TieLimit \in Nat \ {0}

VARIABLES
  nodes,       \* the nodes allocated so far
  root_,       \* *root_, the root node
  rest,        \* what the innermost call of Insert has yet to insert, or <<>>
  pending,     \* the links that the calls of Insert have gone down
  words,       \* the map of FuzzyFind: a word for each key
  freed        \* the nodes that were deleted, in that order

insertVars == <<nodes, root_, rest, pending>>
treeVars == <<insertVars, words, freed>>

-----------------------------------------------------------------------------
\* tolower in the C locale, whose table treats a negative char like the byte.
ToLower(b) == IF b \in 65 .. 90 THEN b + 32 ELSE b

Lower(word) == [n \in 1 .. Len(word) |-> ToLower(word[n])]

\* The value of a byte as a char.
Signed(b) == IF b > 127 THEN b - 256 ELSE b

Sides == {"l", "c", "r"}

\* Mutant of NewNode: clear() leaves one link, which here happens to be the root.
NewNodeUncleared(b) ==
  [key |-> ToLower(b), l |-> 1, c |-> 0, r |-> 0, parent |-> 0, terminator |-> FALSE]

NewNode(b) ==
  [key |-> ToLower(b), l |-> 0, c |-> 0, r |-> 0, parent |-> 0, terminator |-> FALSE]

TreeInit ==
  /\ nodes = <<>> /\ root_ = 0
  /\ rest = <<>> /\ pending = <<>>
  /\ words = <<>>
  /\ freed = <<>>

-----------------------------------------------------------------------------
\* Insert is called for a word and the root.
Insert(word) ==
  /\ rest = <<>> /\ pending = <<>>
  /\ rest' = word
  /\ UNCHANGED <<nodes, root_, pending, words, freed>>

\* *ppNode, the link that a call of Insert was given.
Link == IF pending = <<>> THEN root_
        ELSE nodes[pending[Len(pending)].node][pending[Len(pending)].side]

\* The call allocates the node that is missing there.
Alloc ==
  /\ rest # <<>> /\ Link = 0
  /\ LET new == Len(nodes) + 1
         leaf == Append(nodes, NewNode(rest[1]))
     IN  IF pending = <<>> THEN root_' = new /\ nodes' = leaf
         ELSE /\ nodes' = [leaf EXCEPT ![pending[Len(pending)].node]
                                        [pending[Len(pending)].side] = new]
              /\ UNCHANGED root_
  /\ UNCHANGED <<rest, pending, words, freed>>

\* The side on which a call goes on from node n.
SideOf(n, b) == IF ToLower(b) < nodes[n].key THEN "l"
                ELSE IF ToLower(b) > nodes[n].key THEN "r" ELSE "c"

\* It goes on to the left, to the right, or with the next letter to the center.
Descend ==
  /\ rest # <<>> /\ Link # 0
  /\ SideOf(Link, rest[1]) = "c" => Len(rest) > 1
  /\ pending' = Append(pending, [node |-> Link, side |-> SideOf(Link, rest[1])])
  /\ rest' = IF SideOf(Link, rest[1]) = "c" THEN Tail(rest) ELSE rest
  /\ UNCHANGED <<nodes, root_, words, freed>>

\* At the last letter it sets the terminator flag, and the calls return.
SetTerminator ==
  /\ rest # <<>> /\ Link # 0
  /\ SideOf(Link, rest[1]) = "c" /\ Len(rest) = 1
  /\ nodes' = [nodes EXCEPT ![Link].terminator = TRUE]
  /\ rest' = <<>>
  /\ UNCHANGED <<root_, pending, words, freed>>

\* The parent of node n's child on a side: siblings share theirs.
ParentOn(n, side) == IF side = "c" THEN n ELSE nodes[n].parent

\* Mutant of SetParent: a sibling gets the node it hangs from as its parent.
SetParentToNode ==
  /\ rest = <<>> /\ pending # <<>>
  /\ nodes' = [nodes EXCEPT ![Link].parent = pending[Len(pending)].node]
  /\ pending' = SubSeq(pending, 1, Len(pending) - 1)
  /\ UNCHANGED <<root_, rest, words, freed>>

\* A call returns, and its caller sets the parent of the child.
SetParent ==
  /\ rest = <<>> /\ pending # <<>>
  /\ LET from == pending[Len(pending)] IN
       nodes' = [nodes EXCEPT ![Link].parent = ParentOn(from.node, from.side)]
  /\ pending' = SubSeq(pending, 1, Len(pending) - 1)
  /\ UNCHANGED <<root_, rest, words, freed>>

InsertStep == Alloc \/ Descend \/ SetTerminator \/ SetParent

-----------------------------------------------------------------------------
\* The node at which Find ends for a word, or 0, from node at[1] and letter at[2] on.
\* It compares signed characters with unsigned keys.
FindFrom(word) ==
  LET from[at \in (0 .. Len(nodes)) \X (1 .. Len(word))] ==
        LET node == nodes[at[1]]
            char == Signed(word[at[2]])
        IN  IF at[1] = 0 THEN 0
            ELSE IF char < node.key THEN from[<<node.l, at[2]>>]
            ELSE IF char > node.key THEN from[<<node.r, at[2]>>]
            ELSE IF at[2] = Len(word) THEN at[1]
            ELSE from[<<node.c, at[2] + 1>>]
  IN  from

FindNode(word) == FindFrom(word)[<<root_, 1>>]

\* Mutant of Find: a prefix of a word is taken for a word.
FindStem(word) == FindNode(word) # 0

Find(word) == FindNode(word) # 0 /\ nodes[FindNode(word)].terminator

\* CalcLevenshtein: one column of distances, overwritten for each letter of s2.
\* (Two empty texts would read a column that nothing was stored in.)
Min3(a, b, c) == IF a < b THEN IF a < c THEN a ELSE c ELSE IF b < c THEN b ELSE c

\* Mutant of Overwritten: the diagonal is taken from the column as it is now.
OverwrittenDiagonal(s1, letter, x, column) ==
  LET row[y \in 0 .. Len(s1)] ==
        IF y = 0 THEN [column |-> [column EXCEPT ![0] = x], lastdiag |-> x - 1]
        ELSE LET old == row[y - 1]
                 min == Min3(old.column[y] + 1, old.column[y - 1] + 1,
                             old.lastdiag + IF s1[y] = letter THEN 0 ELSE 1)
             IN  [column |-> [old.column EXCEPT ![y] = min], lastdiag |-> min]
  IN  row[Len(s1)].column

\* The inner loop: the cells of the column, each written over the old one, which
\* is kept as the diagonal of the next.
Cells(s1, letter, x, column) ==
  LET cell[y \in 0 .. Len(s1)] ==
        IF y = 0 THEN [column |-> [column EXCEPT ![0] = x], lastdiag |-> x - 1]
        ELSE LET old == cell[y - 1]
                 min == Min3(old.column[y] + 1, old.column[y - 1] + 1,
                             old.lastdiag + IF s1[y] = letter THEN 0 ELSE 1)
             IN  [column |-> [old.column EXCEPT ![y] = min], lastdiag |-> old.column[y]]
  IN  cell

Overwritten(s1, letter, x, column) == Cells(s1, letter, x, column)[Len(s1)].column

\* The outer loop: the column after each letter of s2.
Columns(s1, s2) ==
  LET after[x \in 0 .. Len(s2)] ==
        IF x = 0 THEN [y \in 0 .. Len(s1) |-> y]
        ELSE Overwritten(s1, s2[x], x, after[x - 1])
  IN  after

CalcLevenshtein(s1, s2) == Columns(s1, s2)[Len(s2)][Len(s1)]

\* The terminators below a node, in the order in which Extrapolate comes by.
Terminators(start) ==
  LET below[n \in 0 .. Len(nodes)] ==
        IF n = 0 THEN <<>>
        ELSE (IF nodes[n].terminator THEN <<n>> ELSE <<>>)
             \o below[nodes[n].l] \o below[nodes[n].c] \o below[nodes[n].r]
  IN  below[start]

\* The letters from below node stem down to node n, gathered by way of the parents.
LettersBelow(stem, n) ==
  LET up[m \in 0 .. Len(nodes)] ==
        IF m \in {0, stem} THEN <<>> ELSE Append(up[nodes[m].parent], nodes[m].key)
  IN  up[n]

\* What FuzzyFind finds for a letter, in the order in which it is put in the map:
\* the letter, when it is a word, and the extrapolations of the letter.
Finds(letter) ==
  LET stem == FindNode(<<letter>>)
      ends == Terminators(nodes[stem].c)
  IN  IF stem = 0 THEN <<>>
      ELSE (IF nodes[stem].terminator THEN <<<<letter>>>> ELSE <<>>)
           \o [k \in 1 .. Len(ends) |-> <<letter>> \o LettersBelow(stem, ends[k])]

\* Mutant of KeyOf: the ties of all scores are counted together.
KeyOfAnyTie(letter, k) ==
  LET score == CalcLevenshtein(<<letter>>, Finds(letter)[k])
  IN  (k - 1) + score * TieLimit

\* The key of the k-th word found: tie + (score << 12).
KeyOf(letter, k) ==
  LET score(j) == CalcLevenshtein(<<letter>>, Finds(letter)[j])
      tie == Cardinality({j \in 1 .. k - 1 : score(j) = score(k)})
  IN  tie + score(k) * TieLimit

\* The map is cleared and filled; of two words with one key the later one stays.
FuzzyFind(letter) ==
  /\ rest = <<>> /\ pending = <<>> /\ freed = <<>>
  /\ LET places == 1 .. Len(Finds(letter))
         last(key) == CHOOSE k \in places :
                        /\ KeyOf(letter, k) = key
                        /\ \A j \in places : KeyOf(letter, j) = key => j <= k
     IN  words' = [key \in {KeyOf(letter, k) : k \in places} |-> Finds(letter)[last(key)]]
  /\ UNCHANGED <<insertVars, freed>>

\* Mutant of DeleteTree: the right siblings are forgotten.
DeleteTreeButRight ==
  /\ rest = <<>> /\ pending = <<>> /\ freed = <<>>
  /\ LET below[n \in 0 .. Len(nodes)] ==
           IF n = 0 THEN <<>> ELSE below[nodes[n].l] \o below[nodes[n].c] \o <<n>>
     IN  freed' = below[root_]
  /\ UNCHANGED <<insertVars, words>>

\* The nodes that are deleted with a node, its children before the node.
Deletion[n \in 0 .. Len(nodes)] ==
  IF n = 0 THEN <<>>
  ELSE Deletion[nodes[n].l] \o Deletion[nodes[n].c] \o Deletion[nodes[n].r] \o <<n>>

DeleteTree ==
  /\ rest = <<>> /\ pending = <<>> /\ freed = <<>>
  /\ freed' = Deletion[root_]
  /\ UNCHANGED <<insertVars, words>>

TreeNext ==
  \/ \E word \in Words : Insert(word)
  \/ InsertStep
  \/ \E letter \in 0 .. 255 : FuzzyFind(letter)
  \/ DeleteTree

TreeSpec == TreeInit /\ [][TreeNext]_treeVars

-----------------------------------------------------------------------------
Ids == 0 .. Len(nodes)

Node == [key : 1 .. 254, l : Ids, c : Ids, r : Ids, parent : Ids, terminator : BOOLEAN]

\* Links lead to nodes, and a call that waits has gone down one of them.
TreeTypeOK ==
  /\ nodes \in Seq(Node) /\ root_ \in Ids
  /\ rest \in Seq(1 .. 254)
  /\ pending \in Seq([node : 1 .. Len(nodes), side : Sides])

\* The links of the tree: from a node, on a side, to a child.
Child(link) == nodes[link.node][link.side]

Links == {link \in [node : 1 .. Len(nodes), side : Sides] : Child(link) # 0}

\* Every node but the root hangs from a link.
HungInv == \A n \in 2 .. Len(nodes) : \E link \in Links : Child(link) = n

Waiting == {pending[k] : k \in 1 .. Len(pending)}

\* A left or right child has its sibling's parent, a center child the node itself
\* (ternary_tree.cc:89, 95, 102), except below the calls of Insert that have not
\* returned: on the way up from any word's end Extrapolate finds its letters.
ParentsRight ==
  \A link \in Links \ Waiting :
    nodes[Child(link)].parent = ParentOn(link.node, link.side)

\* No node hangs from two places, and none from itself or a node below it: the
\* recursions end, and the destructor deletes each node once (ternary_tree.cc:375-383).
NodesOwned ==
  /\ \A link \in Links : Child(link) > link.node
  /\ \A one, other \in Links : Child(one) = Child(other) => one = other
  /\ root_ \in {0, 1}

\* The words spelt from a node down.
SpeltBelow[n \in Ids] ==
  IF n = 0 THEN {}
  ELSE SpeltBelow[nodes[n].l] \union SpeltBelow[nodes[n].r]
       \union (IF nodes[n].terminator THEN {<<nodes[n].key>>} ELSE {})
       \union {<<nodes[n].key>> \o w : w \in SpeltBelow[nodes[n].c]}

Spelt == SpeltBelow[root_]

\* The destructor deletes every node that was allocated, none twice
\* (ternary_tree.cc:375-383).
FreesAll ==
  freed # <<>> => /\ Len(freed) = Len(nodes)
                  /\ {freed[n] : n \in 1 .. Len(freed)} = 1 .. Len(nodes)

-----------------------------------------------------------------------------
(***************************************************************************)
(* The inductive invariant of the insertions.  The calls of Insert that    *)
(* wait have gone down a path of the tree, ...                             *)
(***************************************************************************)
PathInv ==
  /\ root_ = IF nodes = <<>> THEN 0 ELSE 1
  /\ \A k \in 1 .. Len(pending) - 1 : Child(pending[k]) = pending[k + 1].node
  /\ \A j, k \in 1 .. Len(pending) : j < k => pending[j].node < pending[k].node
  /\ rest = <<>> /\ pending # <<>> => Link # 0

\* ... and a node on it whose parent is not set yet is new: it has no siblings,
\* and the call that has allocated it goes on to its center.
Unset(link) == Child(link) # 0 /\ nodes[Child(link)].parent # ParentOn(link.node, link.side)

NewInv ==
  \A k \in 1 .. Len(pending) : Unset(pending[k]) =>
    /\ nodes[Child(pending[k])].l = 0 /\ nodes[Child(pending[k])].r = 0
    /\ k < Len(pending) => pending[k + 1].side = "c"
    /\ k = Len(pending) /\ rest # <<>> => nodes[Link].key = ToLower(rest[1])

TreeInv == TreeTypeOK /\ NodesOwned /\ ParentsRight /\ PathInv /\ NewInv

(***************************************************************************)
(* The words in the tree.  Those to the left of a node begin with a lesser *)
(* letter than its own, those to the right with a greater one, ...         *)
(***************************************************************************)
SortedInv ==
  \A n \in 1 .. Len(nodes) :
    /\ \A w \in SpeltBelow[nodes[n].l] : w[1] < nodes[n].key
    /\ \A w \in SpeltBelow[nodes[n].r] : w[1] > nodes[n].key

\* ... and the calls of Insert for a word have gone from the root to the sides where
\* its letters belong: the k-th with the letters from at[k] on.
Suffix(word, k) == SubSeq(word, k, Len(word))

Gone(word, at) ==
  /\ at[1] = 1 /\ rest = Suffix(word, at[Len(pending) + 1])
  /\ pending # <<>> => pending[1].node = root_
  /\ \A k \in 1 .. Len(pending) :
       /\ pending[k].side = SideOf(pending[k].node, word[at[k]])
       /\ at[k + 1] = IF pending[k].side = "c" THEN at[k] + 1 ELSE at[k]

Going(word) == \E at \in [1 .. Len(pending) + 1 -> 1 .. Len(word)] : Gone(word, at)
=============================================================================
