------------------------- MODULE ReadDictionaryProofs -------------------------
(***************************************************************************)
(* The ternary tree and its reader, for any files of any words: the links  *)
(* form a tree, the parents that Extrapolate follows are right, the words  *)
(* of the tree are those of the lines read, Find finds them, the           *)
(* destructor deletes all nodes, and the distances are right.              *)
(***************************************************************************)
EXTENDS ReadDictionary, SequenceTheorems, FiniteSetTheorems, WellFoundedInduction, TLAPS

\* A link leads to a node or nowhere.
LEMMA ChildType ==
  ASSUME TreeInv, NEW g \in [node : 1 .. Len(nodes), side : Sides]
  PROVE  Child(g) \in Ids
  <1>1. nodes[g.node] \in Node
    BY DEF TreeInv, TreeTypeOK
  <1> QED
    BY <1>1 DEF Child, Node, Sides

\* The last of the links gone down is one of a node, and it is the one that the
\* innermost call was given.
LEMMA LastLink ==
  ASSUME TreeInv, pending # <<>>
  PROVE  /\ Len(pending) \in Nat \ {0}
         /\ pending[Len(pending)] \in [node : 1 .. Len(nodes), side : Sides]
         /\ Link = Child(pending[Len(pending)])
         /\ Link \in Ids
  <1> DEFINE Down == [node : 1 .. Len(nodes), side : Sides]
  <1>0. pending \in Seq(Down) /\ pending # <<>>
    BY DEF TreeInv, TreeTypeOK
  <1> HIDE DEF Down
  <1>1. Len(pending) \in Nat \ {0} /\ pending[Len(pending)] \in Down
    BY <1>0
  <1>2. pending[Len(pending)] \in [node : 1 .. Len(nodes), side : Sides]
    BY <1>1 DEF Down
  <1>3. Link = Child(pending[Len(pending)])
    BY DEF Link, Child
  <1>4. nodes[pending[Len(pending)].node] \in Node
    BY <1>2 DEF TreeInv, TreeTypeOK
  <1>5. Child(pending[Len(pending)]) \in Ids
    BY <1>2, <1>4 DEF Child, Node, Sides
  <1> QED
    BY <1>1, <1>2, <1>3, <1>5

LEMMA LinkType ==
  ASSUME TreeInv
  PROVE  /\ Link \in Ids
         /\ Len(pending) \in Nat /\ (pending = <<>> <=> Len(pending) = 0)
         /\ \A k \in 1 .. Len(pending) : pending[k] \in [node : 1 .. Len(nodes), side : Sides]
  <1> DEFINE Down == [node : 1 .. Len(nodes), side : Sides]
  <1>0. pending \in Seq(Down)
    BY DEF TreeInv, TreeTypeOK
  <1>1. pending = <<>> => Link \in Ids
    BY DEF Link, TreeInv, TreeTypeOK
  <1>2. pending # <<>> => Link \in Ids
    BY LastLink
  <1>3. /\ Len(pending) \in Nat /\ (pending = <<>> <=> Len(pending) = 0)
        /\ \A k \in 1 .. Len(pending) : pending[k] \in Down
    <2> HIDE DEF Down
    <2> QED
      BY <1>0
  <1> QED
    BY <1>1, <1>2, <1>3

\* A byte of a word is one in lower case too, and on the way down its own node's is
\* neither less nor greater.
LEMMA LowerByte ==
  ASSUME NEW b \in 1 .. 254
  PROVE  ToLower(b) \in 1 .. 254
  BY DEF ToLower

LEMMA OwnSide ==
  ASSUME NEW n, NEW b \in 1 .. 254, nodes[n].key = ToLower(b)
  PROVE  SideOf(n, b) = "c"
  <1>1. ToLower(b) \in 1 .. 254
    BY LowerByte
  <1> DEFINE low == ToLower(b)
  <1>2. low \in 1 .. 254 /\ nodes[n].key = low
    BY <1>1
  <1> HIDE DEF low
  <1>3. ~ (low < low) /\ ~ (low > low)
    BY <1>2
  <1> QED
    BY <1>2, <1>3 DEF SideOf, low

\* The next letter of a word is a byte, and so is a letter in lower case.
LEMMA FirstByte ==
  ASSUME NEW word \in Seq(1 .. 254), word # <<>>
  PROVE  word[1] \in 1 .. 254 /\ ToLower(word[1]) \in 1 .. 254
  <1> DEFINE Byte == 1 .. 254
  <1>1. word \in Seq(Byte)
    OBVIOUS
  <1>2. word[1] \in Byte
    <2> HIDE DEF Byte
    <2> QED
      BY <1>1
  <1> QED
    BY <1>2, LowerByte

\* The innermost call works below all nodes that the others came through.
LEMMA BelowLast ==
  ASSUME TreeInv, Link # 0, NEW k \in 1 .. Len(pending)
  PROVE  pending[k].node < Link
  <1> DEFINE last == pending[Len(pending)]
  <1>1. /\ last \in [node : 1 .. Len(nodes), side : Sides] /\ Link = Child(last)
        /\ pending[k].node \in 1 .. Len(nodes) /\ Len(pending) \in Nat /\ Link \in Ids
    BY LastLink, LinkType
  <1> HIDE DEF last
  <1>2. last.node < Link
    <2>1. last \in Links
      BY <1>1 DEF Links
    <2> QED
      BY <2>1, <1>1 DEF TreeInv, NodesOwned
  <1>3. k = Len(pending) \/ pending[k].node < last.node
    BY <1>1 DEF TreeInv, PathInv, last
  <1> QED
    BY <1>1, <1>2, <1>3 DEF Ids, last

\* A call goes on to the side on which its letter belongs.
LEMMA DescendInv ==
  ASSUME TreeInv, Descend
  PROVE  TreeInv'
  <1> DEFINE link == [node |-> Link, side |-> SideOf(Link, rest[1])]
  <1>1. /\ Link \in 1 .. Len(nodes) /\ UNCHANGED <<nodes, root_>>
        /\ rest \in Seq(1 .. 254) /\ rest # <<>>
    BY LinkType DEF Ids, Descend, TreeInv, TreeTypeOK
  <1>2. link \in [node : 1 .. Len(nodes), side : Sides]
    BY <1>1 DEF SideOf, Sides
  <1>3. pending \in Seq([node : 1 .. Len(nodes), side : Sides]) /\ pending' = Append(pending, link)
    BY DEF TreeInv, TreeTypeOK, Descend
  <1>4. TreeTypeOK'
    BY <1>1, <1>2, <1>3 DEF TreeInv, TreeTypeOK, Descend, Ids, Node
  <1>5. /\ Len(pending') = Len(pending) + 1 /\ pending'[Len(pending')] = link
        /\ \A k \in 1 .. Len(pending) : pending'[k] = pending[k]
    BY <1>2, <1>3
  <1>6. NodesOwned'
    BY <1>1 DEF TreeInv, NodesOwned, Links, Child
  <1>7. Links' = Links /\ Waiting \subseteq Waiting'
    BY <1>1, <1>5, <1>3 DEF Links, Child, Waiting
  <1>8. ParentsRight'
    BY <1>1, <1>7 DEF TreeInv, ParentsRight, ParentOn, Child
  <1>9. PathInv'
    <2>1. rest' # <<>> /\ (root_ = IF nodes = <<>> THEN 0 ELSE 1)
      BY <1>1 DEF Descend, TreeInv, PathInv
    <2>2. ASSUME NEW k \in 1 .. Len(pending') - 1
          PROVE  Child(pending'[k]) = pending'[k + 1].node
      <3>1. CASE k < Len(pending)
        BY <3>1, <2>2, <1>5, LinkType DEF TreeInv, PathInv
      <3>2. CASE k = Len(pending)
        BY <3>2, <2>2, <1>5, LinkType, LastLink
      <3> QED
        BY <3>1, <3>2, <2>2, <1>5, LinkType
    <2>3. ASSUME NEW j \in 1 .. Len(pending'), NEW k \in 1 .. Len(pending'), j < k
          PROVE  pending'[j].node < pending'[k].node
      <3>1. CASE k <= Len(pending)
        BY <3>1, <2>3, <1>5, LinkType DEF TreeInv, PathInv
      <3>2. CASE k = Len(pending')
        <4>1. j \in 1 .. Len(pending) /\ pending # <<>>
          BY <3>2, <2>3, <1>5, LinkType
        <4> QED
          BY <3>2, <4>1, <1>5, BelowLast, <1>1
      <3> QED
        BY <3>1, <3>2, <2>3, <1>5, LinkType
    <2> QED
      BY <2>1, <2>2, <2>3, <1>1 DEF PathInv, Child
  <1>10. NewInv'
    <2> SUFFICES ASSUME NEW k \in 1 .. Len(pending'), Unset(pending[k])'
                 PROVE  /\ nodes[Child(pending'[k])].l = 0 /\ nodes[Child(pending'[k])].r = 0
                        /\ k < Len(pending') => pending'[k + 1].side = "c"
                        /\ k = Len(pending') /\ rest' # <<>> => nodes[Link'].key = ToLower(rest'[1])
      BY <1>1 DEF NewInv, Child
    <2>1. Unset(pending'[k])
      BY <1>1 DEF Unset, Child, ParentOn
    <2>2. CASE k = Len(pending')
      <3>1. link \in Links
        BY <2>1, <2>2, <1>2, <1>5 DEF Unset, Links
      <3>2. link \in Waiting
        BY <3>1, <2>1, <2>2, <1>5 DEF TreeInv, ParentsRight, Unset
      <3>3. PICK j \in 1 .. Len(pending) : pending[j] = link
        BY <3>2 DEF Waiting
      <3>4. pending[j].node < Link
        BY <3>3, <1>1, BelowLast, LinkType
      <3> QED
        BY <3>3, <3>4, <1>1
    <2>3. CASE k < Len(pending)
      BY <2>1, <2>3, <1>5, <1>3 DEF TreeInv, NewInv
    <2>4. CASE k = Len(pending)
      <3>1. pending # <<>> /\ Unset(pending[k])
        BY <2>1, <2>4, <1>5
      <3>2. nodes[Link].key = ToLower(rest[1])
        BY <3>1, <2>4, <1>1, LinkType DEF TreeInv, NewInv
      <3>3. SideOf(Link, rest[1]) = "c"
        BY <3>2, <1>1, FirstByte, OwnSide
      <3> QED
        BY <3>1, <3>3, <2>4, <1>5, <1>3 DEF TreeInv, NewInv
    <2> QED
      BY <2>2, <2>3, <2>4, <1>5, <1>3
  <1> QED
    BY <1>4, <1>6, <1>8, <1>9, <1>10 DEF TreeInv

\* A sequence of some elements is a sequence of more.
LEMMA SeqOfMore ==
  ASSUME NEW few, NEW many, few \subseteq many, NEW s \in Seq(few)
  PROVE  s \in Seq(many)
  <1>1. s = [n \in 1 .. Len(s) |-> s[n]] /\ Len(s) \in Nat
    OBVIOUS
  <1>2. \A n \in 1 .. Len(s) : s[n] \in many
    OBVIOUS
  <1> QED
    BY <1>1, <1>2

\* What an assignment to an element of a sequence does, and one to a link of a node.
LEMMA EditElement ==
  ASSUME NEW S, NEW s \in Seq(S), NEW n \in 1 .. Len(s), NEW e \in S
  PROVE  /\ [s EXCEPT ![n] = e] \in Seq(S) /\ Len([s EXCEPT ![n] = e]) = Len(s)
         /\ \A m \in 1 .. Len(s) : [s EXCEPT ![n] = e][m] = IF m = n THEN e ELSE s[m]
  OBVIOUS

\* The nodes of a tree of so many.
NodeUpTo(high) == [key : 1 .. 254, l : 0 .. high, c : 0 .. high, r : 0 .. high,
                   parent : 0 .. high, terminator : BOOLEAN]

LEMMA EditLink ==
  ASSUME NEW high \in Nat, NEW x \in NodeUpTo(high), NEW side \in Sides, NEW v \in 0 .. high
  PROVE  LET y == [x EXCEPT ![side] = v] IN
           /\ y \in NodeUpTo(high)
           /\ \A g \in Sides : y[g] = IF g = side THEN v ELSE x[g]
           /\ y.key = x.key /\ y.parent = x.parent /\ y.terminator = x.terminator
  <1>1. CASE side = "l"
    BY <1>1 DEF Sides, NodeUpTo
  <1>2. CASE side = "c"
    BY <1>2 DEF Sides, NodeUpTo
  <1>3. CASE side = "r"
    BY <1>3 DEF Sides, NodeUpTo
  <1> QED
    BY <1>1, <1>2, <1>3 DEF Sides

\* What an allocation does: a node is added, and it hangs from the link that the call
\* was given; nothing else changes.
LEMMA AllocEffect ==
  ASSUME TreeInv, Alloc
  PROVE  /\ nodes' \in Seq(Node') /\ Len(nodes) \in Nat /\ Len(nodes') = Len(nodes) + 1
         /\ root_' = 1 /\ (pending = <<>> => Len(nodes) = 0)
         /\ nodes'[Len(nodes) + 1] = NewNode(rest[1])
         /\ \A n \in 1 .. Len(nodes) :
              /\ nodes'[n].parent = nodes[n].parent /\ nodes'[n].key = nodes[n].key
              /\ nodes'[n].terminator = nodes[n].terminator
         /\ \A g \in [node : 1 .. Len(nodes), side : Sides] :
              Child(g)' = IF pending # <<>> /\ g = pending[Len(pending)]
                          THEN Len(nodes) + 1 ELSE Child(g)
  <1> DEFINE new == Len(nodes) + 1
             leaf == Append(nodes, NewNode(rest[1]))
             Many == NodeUpTo(new)
  <1>1. nodes \in Seq(Node) /\ Len(nodes) \in Nat /\ rest \in Seq(1 .. 254) /\ rest # <<>>
    BY DEF TreeInv, TreeTypeOK, Alloc
  <1>2. nodes \in Seq(Many)
    <2>1. Node \subseteq Many
      BY <1>1 DEF Node, Ids, NodeUpTo
    <2> QED
      BY <2>1, <1>1, SeqOfMore
  <1>3. NewNode(rest[1]) \in Many
    BY <1>1, FirstByte DEF NewNode, NodeUpTo
  <1>4. /\ leaf \in Seq(Many) /\ Len(leaf) = new /\ leaf[new] = NewNode(rest[1])
        /\ \A n \in 1 .. Len(nodes) : leaf[n] = nodes[n]
    BY <1>1, <1>2, <1>3
  <1>5. CASE pending = <<>>
    <2>1. root_' = new /\ nodes' = leaf /\ Len(nodes) = 0
      BY <1>5, <1>1 DEF Alloc, Link, TreeInv, PathInv
    <2>2. Node' = Many
      BY <2>1, <1>4 DEF Node, Ids, NodeUpTo
    <2> QED
      BY <1>1, <1>4, <1>5, <2>1, <2>2
  <1>6. CASE pending # <<>>
    <2> DEFINE last == pending[Len(pending)]
               x == leaf[last.node]
               y == [x EXCEPT ![last.side] = new]
    <2>1. last \in [node : 1 .. Len(nodes), side : Sides]
      BY <1>6, LastLink
    <2>2. nodes' = [leaf EXCEPT ![last.node] = y] /\ UNCHANGED root_
      BY <1>6 DEF Alloc
    <2>3. root_ = 1
      BY <1>1, <2>1 DEF TreeInv, PathInv
    <2> HIDE DEF last, leaf
    <2>4. last.node \in 1 .. Len(leaf) /\ last.side \in Sides /\ new \in 0 .. new
          /\ last.node \in 1 .. Len(nodes)
      BY <2>1, <1>4, <1>1
    <2>5. x \in Many /\ x = nodes[last.node]
      BY <2>4, <1>4
    <2>6. /\ y \in Many /\ y.parent = x.parent /\ y.key = x.key /\ y.terminator = x.terminator
          /\ \A g \in Sides : y[g] = IF g = last.side THEN new ELSE x[g]
      BY <2>4, <2>5, <1>1, EditLink
    <2> HIDE DEF y
    <2>7. /\ nodes' \in Seq(Many) /\ Len(nodes') = new
          /\ \A n \in 1 .. new : nodes'[n] = IF n = last.node THEN y ELSE leaf[n]
      BY <2>2, <2>4, <2>6, <1>4, EditElement
    <2>8. Node' = Many
      BY <2>7 DEF Node, Ids, NodeUpTo
    <2>9. nodes'[new] = NewNode(rest[1])
      BY <2>7, <1>4, <2>4, <1>1
    <2>10. \A n \in 1 .. Len(nodes) :
             /\ nodes'[n].parent = nodes[n].parent /\ nodes'[n].key = nodes[n].key
             /\ nodes'[n].terminator = nodes[n].terminator
      BY <2>7, <2>6, <2>5, <1>4, <1>1
    <2>11. ASSUME NEW g \in [node : 1 .. Len(nodes), side : Sides]
           PROVE  Child(g)' = IF g = last THEN new ELSE Child(g)
      <3>1. g = last <=> g.node = last.node /\ g.side = last.side
        BY <2>1
      <3> QED
        BY <3>1, <2>7, <2>6, <2>5, <1>4, <1>1 DEF Child
    <2> QED
      BY <1>1, <1>6, <2>2, <2>3, <2>7, <2>8, <2>9, <2>10, <2>11 DEF last
  <1> QED
    BY <1>5, <1>6

\* A new node has no children, and its key is the letter for which the call goes on to
\* its center.
LEMMA AllocInv ==
  ASSUME TreeInv, Alloc
  PROVE  TreeInv'
  <1> DEFINE old == Len(nodes)
             last == pending[Len(pending)]
             Down == [node : 1 .. old, side : Sides]
  <1>1. /\ old \in Nat /\ Len(nodes') = old + 1 /\ UNCHANGED <<rest, pending>>
        /\ Len(pending) \in Nat /\ (pending = <<>> <=> Len(pending) = 0)
        /\ \A k \in 1 .. Len(pending) : pending[k] \in Down
        /\ rest # <<>> /\ rest \in Seq(1 .. 254)
    BY AllocEffect, LinkType DEF Alloc, TreeInv, TreeTypeOK
  <1>2. \A n \in 1 .. old : nodes'[n].parent = nodes[n].parent
    BY AllocEffect
  <1>3. \A g \in Down : Child(g)' = IF pending # <<>> /\ g = last THEN old + 1 ELSE Child(g)
    BY AllocEffect
  <1>4. nodes'[old + 1] = NewNode(rest[1])
    BY AllocEffect
  <1>5. TreeTypeOK'
    <2>1. pending' \in Seq([node : 1 .. old + 1, side : Sides])
      <3>1. Down \subseteq [node : 1 .. old + 1, side : Sides]
        BY <1>1
      <3> QED
        BY <3>1, <1>1, SeqOfMore DEF TreeInv, TreeTypeOK
    <2> QED
      BY <2>1, <1>1, AllocEffect DEF TreeTypeOK, Ids
  <1> HIDE DEF Down
  <1>6. ASSUME NEW g \in Links'
        PROVE  /\ g \in Down
               /\ \/ g \in Links /\ Child(g)' = Child(g)
                  \/ pending # <<>> /\ g = last /\ Child(g)' = old + 1
    <2>1. g \in [node : 1 .. old + 1, side : Sides] /\ Child(g)' # 0
      BY <1>1, <1>6 DEF Links
    <2>2. g.node # old + 1
      BY <2>1, <1>4 DEF Child, NewNode, Sides
    <2>3. g \in Down
      BY <2>1, <2>2, <1>1 DEF Down
    <2> QED
      BY <2>1, <2>3, <1>3 DEF Links, Down
  <1>7. \A g \in Links : Child(g) \in 1 .. old /\ g \in Down
    BY <1>1, ChildType DEF Links, Ids, Down
  <1>8. NodesOwned'
    <2>1. \A g \in Links' : Child(g)' > g.node
      BY <1>6, <1>7, <1>1 DEF TreeInv, NodesOwned, Down
    <2>2. \A f, g \in Links' : Child(f)' = Child(g)' => f = g
      BY <1>6, <1>7, <1>1 DEF TreeInv, NodesOwned
    <2>3. root_' \in {0, 1}
      BY AllocEffect
    <2> QED
      BY <2>1, <2>2, <2>3 DEF NodesOwned
  <1>9. ParentsRight'
    <2> SUFFICES ASSUME NEW g \in Links', g \notin Waiting'
                 PROVE  nodes'[Child(g)'].parent = ParentOn(g.node, g.side)'
      BY DEF ParentsRight
    <2>1. g \notin Waiting /\ ~ (pending # <<>> /\ g = last)
      BY <1>1 DEF Waiting
    <2>2. g \in Links /\ Child(g)' = Child(g)
      BY <2>1, <1>6
    <2>3. nodes[Child(g)].parent = ParentOn(g.node, g.side)
      BY <2>1, <2>2 DEF TreeInv, ParentsRight
    <2> QED
      BY <2>2, <2>3, <1>2, <1>7 DEF ParentOn, Down
  <1>10. \A j, k \in 1 .. Len(pending) : j < k => pending[j].node < pending[k].node
    BY DEF TreeInv, PathInv
  <1>11. \A k \in 1 .. Len(pending) - 1 :
           Child(pending[k])' = Child(pending[k]) /\ Child(pending[k]) = pending[k + 1].node
    BY <1>1, <1>3, <1>10 DEF TreeInv, PathInv, Down
  <1>12. PathInv'
    BY <1>1, <1>10, <1>11, AllocEffect DEF PathInv
  <1>13. NewInv'
    <2> SUFFICES ASSUME NEW k \in 1 .. Len(pending), Unset(pending[k])'
                 PROVE  /\ nodes'[Child(pending[k])'].l = 0 /\ nodes'[Child(pending[k])'].r = 0
                        /\ k < Len(pending) => pending[k + 1].side = "c"
                        /\ k = Len(pending) => nodes'[Link'].key = ToLower(rest[1])
      BY <1>1 DEF NewInv
    <2>1. CASE k = Len(pending)
      <3>1. Child(pending[k])' = old + 1
        BY <2>1, <1>1, <1>3
      <3>2. Link' = Child(pending[k])'
        BY <2>1, <1>1 DEF Link, Child
      <3> QED
        BY <3>1, <3>2, <2>1, <1>4, <1>1 DEF NewNode
    <2>2. CASE k < Len(pending)
      <3> DEFINE m == pending[k + 1].node
      <3>1. /\ k \in 1 .. Len(pending) - 1 /\ k + 1 \in 1 .. Len(pending)
            /\ pending[k] \in Down /\ pending[k + 1] \in Down /\ m \in 1 .. old
        BY <2>2, <1>1 DEF Down
      <3>2. Child(pending[k])' = m /\ Child(pending[k]) = m
        BY <3>1, <1>11
      <3>3. Unset(pending[k])
        BY <3>1, <3>2, <1>2, <1>1 DEF Unset, ParentOn, Down
      <3>4. nodes[m].l = 0 /\ nodes[m].r = 0 /\ pending[k + 1].side = "c"
        BY <3>1, <3>2, <3>3 DEF TreeInv, NewInv
      <3>5. ASSUME NEW side \in {"l", "r"}
            PROVE  nodes'[m][side] = nodes[m][side]
        <4> DEFINE g == [node |-> m, side |-> side]
        <4>1. g \in Down
          BY <3>1 DEF Down, Sides
        <4>2. g # last
          <5>1. k + 1 # Len(pending) => m < last.node
            BY <3>1, <1>1, <1>10
          <5> QED
            BY <5>1, <3>1, <3>4, <1>1 DEF Down
        <4> QED
          BY <4>1, <4>2, <1>3 DEF Child
      <3> QED
        BY <3>2, <3>4, <3>5, <2>2
    <2> QED
      BY <2>1, <2>2, <1>1
  <1> QED
    BY <1>5, <1>8, <1>9, <1>12, <1>13 DEF TreeInv

\* The terminator of a node is not what the invariant is about.
LEMMA SetTerminatorInv ==
  ASSUME TreeInv, SetTerminator
  PROVE  TreeInv'
  <1> DEFINE y == [nodes[Link] EXCEPT !.terminator = TRUE]
  <1>1. /\ nodes \in Seq(Node) /\ Link \in 1 .. Len(nodes) /\ Len(nodes) \in Nat
        /\ nodes' = [nodes EXCEPT ![Link] = y] /\ rest' = <<>> /\ UNCHANGED <<root_, pending>>
    BY LinkType DEF SetTerminator, TreeInv, TreeTypeOK, Ids
  <1>2. nodes[Link] \in Node
    BY <1>1
  <1>3. /\ y \in Node /\ \A g \in Sides : y[g] = nodes[Link][g]
        /\ y.key = nodes[Link].key /\ y.parent = nodes[Link].parent
    BY <1>2 DEF Node, Sides
  <1> HIDE DEF y
  <1>4. /\ nodes' \in Seq(Node) /\ Len(nodes') = Len(nodes)
        /\ \A n \in 1 .. Len(nodes) : nodes'[n] = IF n = Link THEN y ELSE nodes[n]
    BY <1>1, <1>3, EditElement
  <1>5. \A n \in 1 .. Len(nodes) : nodes'[n].parent = nodes[n].parent
    BY <1>3, <1>4
  <1>6. \A g \in [node : 1 .. Len(nodes), side : Sides] : Child(g)' = Child(g)
    BY <1>3, <1>4 DEF Child
  <1>7. TreeTypeOK'
    <2>1. Node' = Node /\ Ids' = Ids
      BY <1>4 DEF Node, Ids
    <2> QED
      BY <2>1, <1>1, <1>4 DEF TreeInv, TreeTypeOK
  <1>8. Links' = Links /\ Waiting' = Waiting
    BY <1>1, <1>4, <1>6 DEF Links, Waiting
  <1>9. \A g \in Links : Child(g) \in 1 .. Len(nodes) /\ g.node \in 1 .. Len(nodes)
    BY <1>1, ChildType DEF Links, Ids
  <1>10. NodesOwned'
    BY <1>1, <1>6, <1>8 DEF TreeInv, NodesOwned, Links
  <1>11. ParentsRight'
    BY <1>5, <1>6, <1>8, <1>9 DEF TreeInv, ParentsRight, ParentOn, Links
  <1>12. \A k \in 1 .. Len(pending) : pending[k] \in [node : 1 .. Len(nodes), side : Sides]
    BY LinkType
  <1>13. PathInv'
    <2>1. pending # <<>> => Link' = Link
      BY <1>1, <1>6, <1>12, LastLink DEF Link, Child
    <2>2. \A k \in 1 .. Len(pending) - 1 : Child(pending[k])' = Child(pending[k])
      BY <1>1, <1>6, <1>12, LinkType
    <2> QED
      BY <2>1, <2>2, <1>1, <1>4 DEF TreeInv, PathInv
  <1>14. NewInv'
    <2> SUFFICES ASSUME NEW k \in 1 .. Len(pending), Unset(pending[k])'
                 PROVE  /\ nodes'[Child(pending[k])'].l = 0 /\ nodes'[Child(pending[k])'].r = 0
                        /\ k < Len(pending) => pending[k + 1].side = "c"
      BY <1>1 DEF NewInv
    <2>1. Child(pending[k])' = Child(pending[k]) /\ Child(pending[k]) \in Ids
      BY <1>1, <1>6, <1>12, ChildType
    <2>2. Unset(pending[k]) /\ Child(pending[k]) \in 1 .. Len(nodes)
      BY <2>1, <1>5, <1>12, <1>1 DEF Unset, ParentOn, Ids
    <2> QED
      BY <2>1, <2>2, <1>3, <1>4 DEF TreeInv, NewInv, Sides
  <1> QED
    BY <1>7, <1>10, <1>11, <1>13, <1>14 DEF TreeInv

\* When a call returns, the parent of the child is set.  If it was not set before, the
\* child has no siblings whose parents would no longer be right.
LEMMA SetParentInv ==
  ASSUME TreeInv, SetParent
  PROVE  TreeInv'
  <1> DEFINE last == pending[Len(pending)]
             value == ParentOn(last.node, last.side)
             y == [nodes[Link] EXCEPT !.parent = value]
             Down == [node : 1 .. Len(nodes), side : Sides]
  <1>1. /\ nodes \in Seq(Node) /\ Len(nodes) \in Nat /\ pending # <<>> /\ pending \in Seq(Down)
        /\ nodes' = [nodes EXCEPT ![Link] = y] /\ rest = <<>> /\ UNCHANGED <<root_, rest>>
        /\ pending' = SubSeq(pending, 1, Len(pending) - 1)
    BY DEF SetParent, TreeInv, TreeTypeOK
  <1>2. /\ Len(pending) \in Nat \ {0} /\ last \in Down /\ Link = Child(last)
        /\ Link \in 1 .. Len(nodes) /\ \A k \in 1 .. Len(pending) : pending[k] \in Down
    <2>1. Link # 0
      BY <1>1 DEF TreeInv, PathInv
    <2> QED
      BY <2>1, <1>1, LastLink, LinkType DEF Ids
  <1>3. nodes[Link] \in Node /\ value \in Ids
    <2>1. nodes[last.node] \in Node
      BY <1>1, <1>2
    <2>2. last.node \in Ids /\ nodes[last.node].parent \in Ids
      <3>1. last.node \in 1 .. Len(nodes)
        BY <1>2
      <3>2. nodes[last.node].parent \in Ids
        BY <2>1 DEF Node
      <3> QED
        BY <3>1, <3>2, <1>1 DEF Ids
    <2> QED
      BY <2>2, <1>1, <1>2 DEF ParentOn
  <1>4. /\ y \in Node /\ \A g \in Sides : y[g] = nodes[Link][g]
        /\ y.key = nodes[Link].key /\ y.parent = value
    BY <1>3 DEF Node, Sides
  <1> HIDE DEF y, value, Down
  <1>5. /\ nodes' \in Seq(Node) /\ Len(nodes') = Len(nodes)
        /\ \A n \in 1 .. Len(nodes) : nodes'[n] = IF n = Link THEN y ELSE nodes[n]
    BY <1>1, <1>2, <1>4, EditElement
  <1>6. \A g \in Down : Child(g)' = Child(g) /\ g.node \in 1 .. Len(nodes)
    BY <1>4, <1>5 DEF Child, Down
  <1>7. /\ pending' \in Seq(Down) /\ Len(pending') = Len(pending) - 1
        /\ \A k \in 1 .. Len(pending) - 1 : pending'[k] = pending[k]
    <2> DEFINE n == Len(pending) - 1
    <2>1. 1 \in Int /\ n \in Int /\ \A k \in 1 .. n : pending[k] \in Down
      BY <1>2
    <2>2. /\ SubSeq(pending, 1, n) \in Seq(Down)
          /\ Len(SubSeq(pending, 1, n)) = IF 1 <= n THEN n - 1 + 1 ELSE 0
          /\ \A k \in 1 .. n - 1 + 1 : SubSeq(pending, 1, n)[k] = pending[1 + k - 1]
      <3> HIDE DEF n
      <3> QED
        BY <2>1, SubSeqProperties
    <2>3. n \in Nat /\ pending' = SubSeq(pending, 1, n)
      BY <1>1, <1>2
    <2> HIDE DEF n
    <2>4. n - 1 + 1 = n /\ (1 <= n \/ n = 0) /\ \A k \in 1 .. n : 1 + k - 1 = k
      BY <2>3
    <2>5. pending' \in Seq(Down) /\ Len(pending') = n /\ \A k \in 1 .. n : pending'[k] = pending[k]
      BY <2>2, <2>3, <2>4
    <2> QED
      BY <2>5 DEF n
  <1>8. TreeTypeOK'
    <2>1. Node' = Node /\ Ids' = Ids /\ Down' = Down
      BY <1>5 DEF Node, Ids, Down
    <2> QED
      BY <2>1, <1>1, <1>5, <1>7 DEF TreeInv, TreeTypeOK, Down
  <1>9. Links' = Links /\ Links \subseteq Down
    BY <1>5, <1>6 DEF Links, Down
  <1>10. NodesOwned'
    BY <1>1, <1>6, <1>9 DEF TreeInv, NodesOwned
  <1>11. last \in Links /\ \A g \in Links : Child(g) \in 1 .. Len(nodes) /\ Child(g) > g.node
    <2>1. \A g \in Down : Child(g) \in Ids
      BY ChildType DEF Down
    <2> QED
      BY <2>1, <1>1, <1>2, <1>9 DEF TreeInv, NodesOwned, Links, Ids, Down
  <1>12. \A n \in 1 .. Len(nodes) : nodes'[n].parent = IF n = Link THEN value ELSE nodes[n].parent
    BY <1>4, <1>5
  <1>13. ASSUME NEW g \in Links, g.node = Link, g.side # "c"
         PROVE  nodes[Link].parent = value
    <2>1. Child(g) # 0 /\ g.side \in {"l", "r"} /\ Child(g) = nodes[Link][g.side]
      BY <1>13 DEF Links, Child, Sides
    <2>2. ~ Unset(last)
      BY <2>1, <1>1, <1>2 DEF TreeInv, NewInv
    <2> QED
      BY <2>2, <1>2 DEF Unset, value
  <1>14. ParentsRight'
    <2> SUFFICES ASSUME NEW g \in Links, g \notin Waiting'
                 PROVE  nodes'[Child(g)].parent = ParentOn(g.node, g.side)'
      BY <1>6, <1>9 DEF ParentsRight
    <2>1. CASE g = last
      <3>1. last.node # Link /\ last.node \in 1 .. Len(nodes)
        BY <1>2, <1>6, <1>11
      <3> QED
        BY <2>1, <3>1, <1>2, <1>12 DEF ParentOn, value
    <2>2. CASE g # last
      <3>1. g \notin Waiting
        <4>1. \A k \in 1 .. Len(pending) : k = Len(pending) \/ k \in 1 .. Len(pending')
          BY <1>2, <1>7
        <4> QED
          BY <4>1, <2>2, <1>2, <1>7 DEF Waiting
      <3>2. nodes[Child(g)].parent = ParentOn(g.node, g.side) /\ Child(g) # Link
        BY <3>1, <2>2, <1>2, <1>11 DEF TreeInv, ParentsRight, NodesOwned
      <3>3. ParentOn(g.node, g.side)' = ParentOn(g.node, g.side)
        BY <1>6, <1>9, <1>12, <1>13 DEF ParentOn
      <3> QED
        BY <3>2, <3>3, <1>11, <1>12
    <2> QED
      BY <2>1, <2>2
  <1>15. \A j, k \in 1 .. Len(pending) : j < k => pending[j].node < pending[k].node
    BY DEF TreeInv, PathInv
  <1>16. \A k \in 1 .. Len(pending') :
           /\ k \in 1 .. Len(pending) - 1 /\ k + 1 \in 1 .. Len(pending)
           /\ pending'[k] = pending[k] /\ pending[k] \in Down
           /\ Child(pending[k])' = pending[k + 1].node /\ Child(pending[k]) = pending[k + 1].node
           /\ pending[k + 1].node \in 1 .. Len(nodes) /\ pending[k + 1].node # Link
           /\ pending[k].node # Link
    <2> SUFFICES ASSUME NEW k \in 1 .. Len(pending')
                 PROVE  /\ k \in 1 .. Len(pending) - 1 /\ k + 1 \in 1 .. Len(pending)
                        /\ pending'[k] = pending[k] /\ pending[k] \in Down
                        /\ Child(pending[k])' = pending[k + 1].node
                        /\ Child(pending[k]) = pending[k + 1].node
                        /\ pending[k + 1].node \in 1 .. Len(nodes)
                        /\ pending[k + 1].node # Link /\ pending[k].node # Link
      OBVIOUS
    <2>1. k \in 1 .. Len(pending) - 1 /\ k \in 1 .. Len(pending) /\ k + 1 \in 1 .. Len(pending)
      BY <1>2, <1>7
    <2>2. pending[k].node < Link /\ pending[k + 1].node < Link
      BY <2>1, <1>2, BelowLast
    <2>3. pending[k].node \in 1 .. Len(nodes) /\ pending[k + 1].node \in 1 .. Len(nodes)
      BY <2>1, <1>2, <1>6
    <2>4. Child(pending[k]) = pending[k + 1].node
      BY <2>1 DEF TreeInv, PathInv
    <2> QED
      BY <2>1, <2>2, <2>3, <2>4, <1>2, <1>6, <1>7
  <1>17. PathInv'
    <2>1. root_' = IF nodes' = <<>> THEN 0 ELSE 1
      BY <1>1, <1>2, <1>5 DEF TreeInv, PathInv
    <2>2. pending' # <<>> => Link' # 0
      <3> SUFFICES ASSUME pending' # <<>> PROVE Link' # 0
        OBVIOUS
      <3>1. Len(pending') \in 1 .. Len(pending')
        BY <1>7, <1>2
      <3>2. Link' = Child(pending[Len(pending)])'
        BY DEF Link, Child
      <3> QED
        BY <3>1, <3>2, <1>16
    <2>3. \A k \in 1 .. Len(pending') - 1 : Child(pending[k])' = pending'[k + 1].node
      BY <1>7, <1>16, <1>2
    <2>4. \A j, k \in 1 .. Len(pending') : j < k => pending'[j].node < pending'[k].node
      BY <1>7, <1>15, <1>2
    <2> QED
      BY <2>1, <2>2, <2>3, <2>4 DEF PathInv
  <1>18. NewInv'
    <2> SUFFICES ASSUME NEW k \in 1 .. Len(pending'), Unset(pending[k])'
                 PROVE  /\ nodes'[Child(pending[k])'].l = 0 /\ nodes'[Child(pending[k])'].r = 0
                        /\ pending[k + 1].side = "c"
      BY <1>1, <1>7, <1>16 DEF NewInv
    <2>1. Unset(pending[k])
      <3>1. /\ pending'[k] = pending[k] /\ pending[k].node \in 1 .. Len(nodes)
            /\ Child(pending[k]) \in 1 .. Len(nodes) /\ Child(pending[k]) # Link
            /\ Child(pending[k])' = Child(pending[k]) /\ pending[k].node # Link
        BY <1>16, <1>6
      <3>2. nodes'[Child(pending[k])].parent # ParentOn(pending[k].node, pending[k].side)'
        BY <3>1 DEF Unset
      <3>3. /\ nodes'[Child(pending[k])].parent = nodes[Child(pending[k])].parent
            /\ nodes'[pending[k].node].parent = nodes[pending[k].node].parent
        BY <3>1, <1>12
      <3>4. ParentOn(pending[k].node, pending[k].side)' = ParentOn(pending[k].node, pending[k].side)
        BY <3>1, <3>3 DEF ParentOn
      <3> QED
        BY <3>1, <3>2, <3>3, <3>4 DEF Unset
    <2>2. /\ nodes[Child(pending[k])].l = 0 /\ nodes[Child(pending[k])].r = 0
          /\ pending[k + 1].side = "c"
      BY <2>1, <1>16, <1>2 DEF TreeInv, NewInv
    <2> QED
      BY <2>2, <1>16, <1>5
  <1> QED
    BY <1>8, <1>10, <1>14, <1>17, <1>18 DEF TreeInv

-----------------------------------------------------------------------------
(***************************************************************************)
(* The reader, whose steps are steps of the tree or leave it alone.        *)
(***************************************************************************)

\* A line that is read is a word.
LEMMA LineIsWord ==
  ASSUME ReaderInv, current <= Len(files)
  PROVE  /\ Lines \in Seq(Words) /\ start \in Nat /\ start <= Len(Lines)
         /\ position <= Len(Lines) => Lines[position] \in Words
  <1> DEFINE File == [lines : Seq(Words), terminated : BOOLEAN]
  <1>1. files \in Seq(File) /\ current \in 1 .. Len(files)
    <2>1. files \in Seq(File)
      BY ReaderAssumption DEF ReaderInv
    <2>2. Len(files) \in Nat
      BY <2>1
    <2> QED
      BY <2>1, <2>2 DEF ReaderInv
  <1>2. files[current] \in File
    <2> HIDE DEF File
    <2> QED
      BY <1>1
  <1>3. Lines \in Seq(Words)
    BY <1>2 DEF Lines
  <1>4. Len(Lines) \in Nat /\ (Lines # <<>> => Len(Lines) > 0)
    BY <1>3
  <1>5. GetWordCount \in Nat /\ GetWordCount <= Len(Lines)
    BY <1>4 DEF GetWordCount
  <1>6. start \in Nat /\ start <= Len(Lines)
    BY <1>4, <1>5 DEF start
  <1> QED
    BY <1>3, <1>4, <1>6 DEF ReaderInv

\* The reader stays in its files, whatever it does.
LEMMA ReaderStays ==
  ASSUME ReaderInv, [Next]_vars
  PROVE  ReaderInv'
  <1>1. Len(files) \in Nat
    BY ReaderAssumption DEF ReaderInv
  <1>2. pc \in {"phase1", "phase2"} => /\ Len(Lines) \in Nat /\ start \in Nat
                                       /\ start <= Len(Lines) /\ current \in 1 .. Len(files)
    BY <1>1, LineIsWord DEF ReaderInv
  <1>3. UNCHANGED <<files, current>> => UNCHANGED <<Lines, start>>
    BY DEF Lines, start, GetWordCount
  <1>4. ASSUME Idle, UNCHANGED <<rest, pending>>
        PROVE  Idle'
    BY <1>4 DEF Idle
  <1>5. CASE Open
    <2>1. Len(Lines) \in Nat /\ start \in Nat /\ start <= Len(Lines)
      BY <1>5, LineIsWord DEF Open
    <2> QED
      BY <2>1, <1>1, <1>3, <1>5 DEF Open, ReaderInv
  <1>6. CASE ReadSecondHalf
    BY <1>1, <1>2, <1>3, <1>6 DEF ReadSecondHalf, ReaderInv
  <1>7. CASE Rewind
    BY <1>1, <1>2, <1>3, <1>7 DEF Rewind, ReaderInv
  <1>8. CASE ReadFirstHalf
    BY <1>1, <1>2, <1>3, <1>8 DEF ReadFirstHalf, ReaderInv
  <1>9. CASE CloseFile
    <2>1. Idle'
      BY <1>4, <1>9 DEF CloseFile, treeVars, insertVars
    <2> QED
      BY <2>1, <1>1, <1>2, <1>9 DEF CloseFile, ReaderInv
  <1>10. CASE Lookup
    <2>1. Idle' /\ pc = "open" /\ UNCHANGED <<files, current, pc, position>> /\ letter' \in Letters
      BY <1>4, <1>10 DEF Lookup, FuzzyFind, insertVars, Idle
    <2> QED
      BY <2>1, <1>1 DEF ReaderInv
  <1>11. CASE Destroy
    <2>1. Idle' /\ pc = "open" /\ pc' = "ended" /\ UNCHANGED <<files, current, position, letter>>
      BY <1>4, <1>11 DEF Destroy, DeleteTree, insertVars, Idle
    <2> QED
      BY <2>1, <1>1 DEF ReaderInv
  <1>12. CASE Inserting
    <2>1. ~ Idle /\ UNCHANGED <<files, current, pc, position, letter>>
      BY <1>12 DEF Inserting, InsertStep, Alloc, Descend, SetTerminator, SetParent, Idle, readerVars
    <2> QED
      BY <2>1, <1>1, <1>3 DEF ReaderInv
  <1>13. CASE Ended \/ UNCHANGED vars
    <2>1. UNCHANGED <<files, current, pc, position, letter, rest, pending>>
      BY <1>13 DEF Ended, vars, treeVars, insertVars, readerVars
    <2> QED
      BY <2>1, <1>1, <1>3, <1>4 DEF ReaderInv
  <1> QED
    BY <1>5, <1>6, <1>7, <1>8, <1>9, <1>10, <1>11, <1>12, <1>13 DEF Next, Reading

\* A step of the reader begins an insertion of a word, goes on with one, or leaves the
\* nodes and the insertion alone.
LEMMA ReaderStepsTree ==
  ASSUME ReaderInv, [Next]_vars
  PROVE  (\E word \in Words : Insert(word)) \/ InsertStep \/ UNCHANGED insertVars
  <1>1. CASE Open \/ Rewind \/ CloseFile \/ Ended \/ UNCHANGED vars
    BY <1>1 DEF Open, Rewind, CloseFile, Ended, vars, treeVars
  <1>2. CASE ReadSecondHalf
    BY <1>2, LineIsWord DEF ReadSecondHalf, ReaderInv, treeVars
  <1>3. CASE ReadFirstHalf
    <2>1. position <= Len(Lines)
      BY <1>3, LineIsWord DEF ReadFirstHalf, ReaderInv
    <2> QED
      BY <2>1, <1>3, LineIsWord DEF ReadFirstHalf, ReaderInv
  <1>4. CASE Lookup
    BY <1>4 DEF Lookup, FuzzyFind
  <1>5. CASE Destroy
    BY <1>5 DEF Destroy, DeleteTree
  <1>6. CASE Inserting
    BY <1>6 DEF Inserting
  <1> QED
    BY <1>1, <1>2, <1>3, <1>4, <1>5, <1>6 DEF Next, Reading

\* Every step keeps the invariant of the insertions.
LEMMA TreeStays ==
  ASSUME ReaderInv, TreeInv, [Next]_vars
  PROVE  TreeInv'
  <1>1. ASSUME NEW word \in Words, Insert(word)
        PROVE  TreeInv'
    <2>1. word \in Seq(1 .. 254) /\ word # <<>> /\ rest' = word
          /\ pending = <<>> /\ UNCHANGED <<nodes, root_, pending>>
      BY <1>1, TreeAssumption DEF Insert
    <2>2. TreeTypeOK'
      BY <2>1 DEF TreeInv, TreeTypeOK, Ids, Node
    <2>3. NodesOwned' /\ ParentsRight'
      BY <2>1 DEF TreeInv, NodesOwned, ParentsRight, Links, Waiting, Child, ParentOn
    <2>4. PathInv' /\ NewInv'
      BY <2>1 DEF TreeInv, PathInv, NewInv
    <2> QED
      BY <2>2, <2>3, <2>4 DEF TreeInv
  <1>2. CASE InsertStep
    BY <1>2, AllocInv, DescendInv, SetTerminatorInv, SetParentInv DEF InsertStep
  <1>3. CASE UNCHANGED insertVars
    <2>1. UNCHANGED <<nodes, root_, rest, pending>>
      BY <1>3 DEF insertVars
    <2>2. TreeTypeOK'
      BY <2>1 DEF TreeInv, TreeTypeOK, Ids, Node
    <2>3. NodesOwned' /\ ParentsRight'
      BY <2>1 DEF TreeInv, NodesOwned, ParentsRight, Links, Waiting, Child, ParentOn
    <2>4. PathInv' /\ NewInv'
      BY <2>1 DEF TreeInv, PathInv, NewInv, Link, Child, Unset, ParentOn
    <2> QED
      BY <2>2, <2>3, <2>4 DEF TreeInv
  <1> QED
    BY <1>1, <1>2, <1>3, ReaderStepsTree

\* For any files of any words, at each step of an insertion: the invariant holds.
THEOREM ReaderKeepsTree == Spec => [](ReaderInv /\ TreeInv)
  <1>1. Init => ReaderInv /\ TreeInv
    <2> SUFFICES ASSUME Init PROVE ReaderInv /\ TreeInv
      OBVIOUS
    <2>1. ReaderInv
      BY ReaderAssumption DEF Init, ReaderInv, TreeInit, Idle
    <2>2. nodes = <<>> /\ root_ = 0 /\ rest = <<>> /\ pending = <<>> /\ Len(nodes) = 0
      BY DEF Init, TreeInit
    <2>3. Links = {}
      BY <2>2 DEF Links
    <2>4. TreeTypeOK
      BY <2>2 DEF TreeTypeOK, Ids
    <2>5. NodesOwned /\ ParentsRight
      BY <2>2, <2>3 DEF NodesOwned, ParentsRight
    <2>6. PathInv /\ NewInv
      BY <2>2 DEF PathInv, NewInv
    <2> QED
      BY <2>1, <2>4, <2>5, <2>6 DEF TreeInv
  <1>2. ReaderInv /\ TreeInv /\ [Next]_vars => (ReaderInv /\ TreeInv)'
    BY ReaderStays, TreeStays
  <1> QED
    BY <1>1, <1>2, PTL DEF Spec

\* Links lead to nodes that were allocated, and the reader is in one of its files
\* (ternary_tree.cc:78-125, main.cc:80-134).
THEOREM ReaderTypeOK == Spec => []TypeOK
  <1>1. ReaderInv /\ TreeInv => TypeOK
    BY DEF ReaderInv, TreeInv, TypeOK
  <1> QED
    BY <1>1, ReaderKeepsTree, PTL

\* The parents that Extrapolate follows upwards are those the center links lead down
\* from, at any time and for every node above which no insertion is still at work
\* (ternary_tree.cc:78-125, 258-277).
THEOREM ReaderParentsRight == Spec => []ParentsRight
  <1>1. TreeInv => ParentsRight
    BY DEF TreeInv
  <1> QED
    BY <1>1, ReaderKeepsTree, PTL

\* Every node hangs from one place only, and below nodes allocated before it: the
\* recursions over the tree end, and the destructor frees no node twice
\* (ternary_tree.cc:237-347, 375-383).
THEOREM ReaderNodesOwned == Spec => []NodesOwned
  <1>1. TreeInv => NodesOwned
    BY DEF TreeInv
  <1> QED
    BY <1>1, ReaderKeepsTree, PTL

-----------------------------------------------------------------------------
(***************************************************************************)
(* Recursions over the tree: a child is younger than its node, so that     *)
(* they have a value, and what holds of a node if it does of its children  *)
(* holds of all.                                                           *)
(***************************************************************************)

\* A set of numbers has a least one.
LEMMA Least ==
  ASSUME NEW S \in SUBSET Nat, S # {}
  PROVE  \E m \in S : \A n \in S : m <= n
  <1>1. PICK m \in S : \A n \in S : ~ (<<n, m>> \in OpToRel(<, Nat))
    BY NatLessThanWellFounded, WFMin
  <1>2. \A n \in S : ~ (n < m)
    <2>1. \A n, k \in Nat : n < k => <<n, k>> \in OpToRel(<, Nat)
      BY DEF OpToRel
    <2> QED
      BY <1>1, <2>1
  <1> QED
    BY <1>2

\* A child is a node, and one that is younger than its parent.
LEMMA Younger ==
  ASSUME TreeInv, NEW n \in 1 .. Len(nodes), NEW side \in Sides
  PROVE  /\ nodes[n][side] \in Ids /\ (nodes[n][side] = 0 \/ nodes[n][side] > n)
         /\ nodes[n] \in Node /\ Len(nodes) \in Nat
  <1> DEFINE g == [node |-> n, side |-> side]
  <1>1. g \in [node : 1 .. Len(nodes), side : Sides] /\ Child(g) = nodes[n][side]
    BY DEF Child
  <1>2. Child(g) \in Ids
    BY <1>1, ChildType
  <1>3. Child(g) # 0 => g \in Links
    BY <1>1 DEF Links
  <1>4. Child(g) # 0 => Child(g) > n
    BY <1>3 DEF TreeInv, NodesOwned
  <1>5. nodes[n] \in Node /\ Len(nodes) \in Nat
    BY DEF TreeInv, TreeTypeOK
  <1> QED
    BY <1>1, <1>2, <1>4, <1>5

\* What holds of the null pointer, and of a node if it does of its children, holds of all:
\* else there would be a youngest node of which it does not.
LEMMA TreeInduction ==
  ASSUME TreeInv, NEW G, 0 \in G,
         \A n \in 1 .. Len(nodes) : (\A side \in Sides : nodes[n][side] \in G) => n \in G
  PROVE  Ids \subseteq G
  <1> DEFINE bad == {k \in 0 .. Len(nodes) : Len(nodes) - k \notin G}
  <1>1. Len(nodes) \in Nat
    BY DEF TreeInv, TreeTypeOK
  <1>2. bad = {}
    <2> SUFFICES ASSUME bad # {} PROVE FALSE
      OBVIOUS
    <2>1. PICK k \in bad : \A j \in bad : k <= j
      <3>1. bad \in SUBSET Nat
        BY <1>1
      <3> HIDE DEF bad
      <3> QED
        BY <3>1, Least
    <2> DEFINE n == Len(nodes) - k
    <2>2. n \in 0 .. Len(nodes) /\ n \notin G /\ n # 0 /\ n \in 1 .. Len(nodes)
      BY <1>1, <2>1
    <2>3. \A m \in 0 .. Len(nodes) : m > n => m \in G
      <3> SUFFICES ASSUME NEW m \in 0 .. Len(nodes), m > n, m \notin G PROVE FALSE
        OBVIOUS
      <3>1. Len(nodes) - m \in 0 .. Len(nodes) /\ Len(nodes) - (Len(nodes) - m) = m
            /\ Len(nodes) - m < k
        BY <1>1, <2>1
      <3> QED
        BY <1>1, <2>1, <3>1
    <2>4. \A side \in Sides : nodes[n][side] \in G
      BY <2>2, <2>3, Younger DEF Ids
    <2> QED
      BY <2>2, <2>4
  <1>3. ASSUME NEW n \in Ids
        PROVE  n \in G
    <2>1. Len(nodes) - n \in 0 .. Len(nodes) /\ Len(nodes) - (Len(nodes) - n) = n
      BY <1>1 DEF Ids
    <2> QED
      BY <1>2, <2>1
  <1> QED
    BY <1>3

\* f is the recursion that starts with z, on the nodes from m on.
Folds(f, m, z, step) ==
  /\ f[0] = z
  /\ \A n \in m .. Len(nodes) : f[n] = step[n][<<f[nodes[n].l], f[nodes[n].c], f[nodes[n].r]>>]

\* Every such recursion has a value: the youngest node has one, and then the next.
LEMMA FoldExists ==
  ASSUME TreeInv, NEW S, NEW z \in S, NEW step \in [1 .. Len(nodes) -> [S \X S \X S -> S]]
  PROVE  \E f \in [Ids -> S] : Folds(f, 1, z, step)
  <1> DEFINE From(m) == {0} \union (m .. Len(nodes))
             Exists(m) == \E f \in [From(m) -> S] : Folds(f, m, z, step)
             bad == {k \in 0 .. Len(nodes) : ~ Exists(Len(nodes) + 1 - k)}
  <1>1. Len(nodes) \in Nat
    BY DEF TreeInv, TreeTypeOK
  <1>2. Exists(Len(nodes) + 1)
    <2> DEFINE f == [n \in From(Len(nodes) + 1) |-> z]
    <2>1. f \in [From(Len(nodes) + 1) -> S] /\ f[0] = z
      OBVIOUS
    <2>2. Len(nodes) + 1 .. Len(nodes) = {}
      BY <1>1
    <2>3. Folds(f, Len(nodes) + 1, z, step)
      BY <2>1, <2>2 DEF Folds
    <2> QED
      BY <2>1, <2>3
  <1>3. ASSUME NEW m \in 1 .. Len(nodes), Exists(m + 1)
        PROVE  Exists(m)
    <2>1. PICK f \in [From(m + 1) -> S] : Folds(f, m + 1, z, step)
      BY <1>3
    <2> DEFINE v == step[m][<<f[nodes[m].l], f[nodes[m].c], f[nodes[m].r]>>]
               g == [n \in From(m) |-> IF n = m THEN v ELSE f[n]]
    <2>2. \A n \in m .. Len(nodes) : \A side \in Sides :
            nodes[n][side] \in From(n + 1) /\ nodes[n][side] \in From(m + 1) /\ nodes[n][side] # m
      BY <1>1, <1>3, Younger DEF Ids
    <2>3. v \in S
      <3>1. nodes[m].l \in From(m + 1) /\ nodes[m].c \in From(m + 1) /\ nodes[m].r \in From(m + 1)
        BY <1>1, <1>3, <2>2 DEF Sides
      <3>2. f[nodes[m].l] \in S /\ f[nodes[m].c] \in S /\ f[nodes[m].r] \in S
        BY <2>1, <3>1
      <3>3. step[m] \in [S \X S \X S -> S]
        BY <1>3
      <3> QED
        BY <3>2, <3>3
    <2>4. From(m) = From(m + 1) \union {m} /\ m \notin From(m + 1)
      BY <1>1, <1>3
    <2>5. g \in [From(m) -> S] /\ g[m] = v /\ \A n \in From(m + 1) : g[n] = f[n]
      BY <2>1, <2>3, <2>4
    <2> HIDE DEF g
    <2>6. ASSUME NEW n \in m .. Len(nodes)
          PROVE  g[n] = step[n][<<g[nodes[n].l], g[nodes[n].c], g[nodes[n].r]>>]
      <3>1. g[nodes[n].l] = f[nodes[n].l] /\ g[nodes[n].c] = f[nodes[n].c]
            /\ g[nodes[n].r] = f[nodes[n].r]
        BY <2>2, <2>5 DEF Sides
      <3>2. CASE n = m
        BY <3>1, <3>2, <2>5
      <3>3. CASE n # m
        <4>1. n \in m + 1 .. Len(nodes)
          BY <1>1, <1>3, <2>6, <3>3
        <4>2. f[n] = step[n][<<f[nodes[n].l], f[nodes[n].c], f[nodes[n].r]>>]
          BY <2>1, <4>1 DEF Folds
        <4> QED
          BY <2>5, <3>1, <4>1, <4>2
      <3> QED
        BY <3>2, <3>3
    <2>7. Folds(g, m, z, step)
      <3>1. g[0] = z
        BY <2>1, <2>5 DEF Folds
      <3> QED
        BY <2>6, <3>1 DEF Folds
    <2> QED
      BY <2>5, <2>7
  <1>4. bad = {}
    <2> SUFFICES ASSUME bad # {} PROVE FALSE
      OBVIOUS
    <2>1. PICK k \in bad : \A j \in bad : k <= j
      <3>1. bad \in SUBSET Nat
        BY <1>1
      <3> HIDE DEF bad
      <3> QED
        BY <3>1, Least
    <2>2. k \in 0 .. Len(nodes) /\ ~ Exists(Len(nodes) + 1 - k)
      BY <2>1
    <2> HIDE DEF Exists
    <2>3. k # 0
      <3>1. Len(nodes) + 1 - 0 = Len(nodes) + 1
        BY <1>1
      <3> QED
        BY <1>2, <2>2, <3>1
    <2>4. k - 1 \notin bad /\ k - 1 \in 0 .. Len(nodes)
      <3>1. k - 1 \in 0 .. Len(nodes) /\ ~ (k <= k - 1)
        BY <1>1, <2>2, <2>3
      <3> HIDE DEF bad
      <3> QED
        BY <2>1, <3>1
    <2>5. Exists(Len(nodes) + 1 - (k - 1))
      BY <2>4
    <2>6. Len(nodes) + 1 - (k - 1) = (Len(nodes) + 1 - k) + 1
          /\ Len(nodes) + 1 - k \in 1 .. Len(nodes)
      BY <1>1, <2>2, <2>3
    <2> QED
      BY <1>3, <2>2, <2>5, <2>6
  <1>5. Exists(1)
    <2>1. Len(nodes) \in 0 .. Len(nodes) /\ Len(nodes) + 1 - Len(nodes) = 1
      BY <1>1
    <2> HIDE DEF Exists
    <2> QED
      BY <1>4, <2>1
  <1>6. From(1) = Ids
    BY <1>1 DEF Ids
  <1> QED
    BY <1>5, <1>6

-----------------------------------------------------------------------------
(***************************************************************************)
(* The destructor.                                                         *)
(***************************************************************************)

\* The elements of a sequence, and those of two that are put together.
Elements(s) == {s[k] : k \in 1 .. Len(s)}

NoRepeat(s) == \A j, k \in 1 .. Len(s) : s[j] = s[k] => j = k

LEMMA ConcatElements ==
  ASSUME NEW S, NEW s \in Seq(S), NEW t \in Seq(S)
  PROVE  /\ s \o t \in Seq(S) /\ Elements(s \o t) = Elements(s) \union Elements(t)
         /\ NoRepeat(s) /\ NoRepeat(t) /\ Elements(s) \intersect Elements(t) = {}
              => NoRepeat(s \o t)
  <1>1. /\ s \o t \in Seq(S) /\ Len(s \o t) = Len(s) + Len(t)
        /\ Len(s) \in Nat /\ Len(t) \in Nat
        /\ \A k \in 1 .. Len(s) + Len(t) :
             (s \o t)[k] = IF k <= Len(s) THEN s[k] ELSE t[k - Len(s)]
    OBVIOUS
  <1> DEFINE u == s \o t
  <1> HIDE DEF u
  <1>2. \A k \in 1 .. Len(s) : k \in 1 .. Len(u) /\ u[k] = s[k]
    BY <1>1 DEF u
  <1>3. \A k \in 1 .. Len(t) : Len(s) + k \in 1 .. Len(u) /\ u[Len(s) + k] = t[k]
    <2> SUFFICES ASSUME NEW k \in 1 .. Len(t)
                 PROVE  Len(s) + k \in 1 .. Len(u) /\ u[Len(s) + k] = t[k]
      OBVIOUS
    <2>1. /\ Len(s) + k \in 1 .. Len(s) + Len(t) /\ ~ (Len(s) + k <= Len(s))
          /\ Len(s) + k - Len(s) = k
      BY <1>1
    <2> QED
      BY <1>1, <2>1 DEF u
  <1>4. \A k \in 1 .. Len(u) : \/ k \in 1 .. Len(s) /\ u[k] = s[k]
                               \/ /\ k - Len(s) \in 1 .. Len(t) /\ u[k] = t[k - Len(s)]
                                  /\ k \notin 1 .. Len(s)
    BY <1>1 DEF u
  <1>5. Elements(u) = Elements(s) \union Elements(t)
    <2>1. Elements(s) \subseteq Elements(u)
      BY <1>2 DEF Elements
    <2>2. Elements(t) \subseteq Elements(u)
      BY <1>3 DEF Elements
    <2>3. Elements(u) \subseteq Elements(s) \union Elements(t)
      BY <1>4 DEF Elements
    <2> QED
      BY <2>1, <2>2, <2>3
  <1>6. ASSUME NoRepeat(s), NoRepeat(t), Elements(s) \intersect Elements(t) = {}
        PROVE  NoRepeat(u)
    <2> SUFFICES ASSUME NEW j \in 1 .. Len(u), NEW k \in 1 .. Len(u), u[j] = u[k]
                 PROVE  j = k
      BY DEF NoRepeat
    <2>1. CASE j \in 1 .. Len(s) /\ k \in 1 .. Len(s)
      BY <2>1, <1>2, <1>6 DEF NoRepeat
    <2>2. CASE j \notin 1 .. Len(s) /\ k \notin 1 .. Len(s)
      <3>1. j - Len(s) = k - Len(s)
        BY <2>2, <1>4, <1>6 DEF NoRepeat
      <3> QED
        BY <3>1, <1>1
    <2>3. CASE j \in 1 .. Len(s) /\ k \notin 1 .. Len(s)
      BY <2>3, <1>2, <1>4, <1>6 DEF Elements
    <2>4. CASE j \notin 1 .. Len(s) /\ k \in 1 .. Len(s)
      BY <2>4, <1>2, <1>4, <1>6 DEF Elements
    <2> QED
      BY <2>1, <2>2, <2>3, <2>4
  <1> QED
    BY <1>1, <1>5, <1>6 DEF u

\* The recursion of the destructor, with the set of nodes that it deletes with each.
Deleted(n) == Elements(Deletion[n])

\* It has a value, and deletes the children of a node before the node.
LEMMA DeletionValue ==
  ASSUME TreeInv
  PROVE  /\ Deletion \in [Ids -> Seq(1 .. Len(nodes))] /\ Deletion[0] = <<>>
         /\ \A n \in 1 .. Len(nodes) :
              Deletion[n] = Deletion[nodes[n].l] \o Deletion[nodes[n].c]
                            \o Deletion[nodes[n].r] \o <<n>>
  <1> DEFINE S == Seq(1 .. Len(nodes))
             step == [n \in 1 .. Len(nodes) |->
                        [d \in S \X S \X S |-> d[1] \o d[2] \o d[3] \o <<n>>]]
  <1>1. <<>> \in S
    OBVIOUS
  <1>2. step \in [1 .. Len(nodes) -> [S \X S \X S -> S]]
    <2>1. \A n \in 1 .. Len(nodes) : <<n>> \in S
      OBVIOUS
    <2>2. \A s, t \in S : s \o t \in S
      OBVIOUS
    <2> HIDE DEF S
    <2>3. \A n \in 1 .. Len(nodes) : \A d \in S \X S \X S : d[1] \o d[2] \o d[3] \o <<n>> \in S
      BY <2>1, <2>2
    <2> QED
      BY <2>3
  <1>3. PICK f \in [Ids -> S] : Folds(f, 1, <<>>, step)
    <2> HIDE DEF S, step
    <2> QED
      BY <1>1, <1>2, FoldExists
  <1>4. \A n \in 1 .. Len(nodes) :
          f[n] = f[nodes[n].l] \o f[nodes[n].c] \o f[nodes[n].r] \o <<n>>
    <2> SUFFICES ASSUME NEW n \in 1 .. Len(nodes)
                 PROVE  f[n] = f[nodes[n].l] \o f[nodes[n].c] \o f[nodes[n].r] \o <<n>>
      OBVIOUS
    <2>1. f[nodes[n].l] \in S /\ f[nodes[n].c] \in S /\ f[nodes[n].r] \in S
      <3>1. nodes[n].l \in Ids /\ nodes[n].c \in Ids /\ nodes[n].r \in Ids
        BY Younger DEF Sides
      <3> HIDE DEF S
      <3> QED
        BY <1>3, <3>1
    <2>2. f[n] = step[n][<<f[nodes[n].l], f[nodes[n].c], f[nodes[n].r]>>]
      BY <1>3 DEF Folds
    <2> HIDE DEF S
    <2> QED
      BY <2>1, <2>2
  <1>5. \A n \in Ids : n # 0 => n \in 1 .. Len(nodes)
    BY DEF Ids, TreeInv, TreeTypeOK
  <1>6. f = [n \in 0 .. Len(nodes) |-> IF n = 0 THEN <<>>
               ELSE f[nodes[n].l] \o f[nodes[n].c] \o f[nodes[n].r] \o <<n>>]
    <2> HIDE DEF S
    <2>1. f[0] = <<>>
      BY <1>3 DEF Folds
    <2> QED
      BY <1>3, <1>4, <1>5, <2>1 DEF Ids
  <1>7. Deletion = [n \in 0 .. Len(nodes) |-> IF n = 0 THEN <<>>
               ELSE Deletion[nodes[n].l] \o Deletion[nodes[n].c] \o Deletion[nodes[n].r] \o <<n>>]
    BY <1>6, Zenon DEF Deletion
  <1>8. /\ Deletion[0] = <<>>
        /\ \A n \in 1 .. Len(nodes) :
              Deletion[n] = Deletion[nodes[n].l] \o Deletion[nodes[n].c]
                            \o Deletion[nodes[n].r] \o <<n>>
    <2>1. 0 \in 0 .. Len(nodes) /\ \A n \in 1 .. Len(nodes) : n \in 0 .. Len(nodes) /\ n # 0
      BY DEF TreeInv, TreeTypeOK
    <2> QED
      BY <1>7, <2>1
  <1>9. Deletion \in [Ids -> S]
    <2> DEFINE G == {n \in Ids : Deletion[n] \in S}
    <2>1. 0 \in G
      <3>1. 0 \in Ids
        BY DEF Ids, TreeInv, TreeTypeOK
      <3> HIDE DEF S
      <3> QED
        BY <1>1, <1>8, <3>1
    <2>2. ASSUME NEW n \in 1 .. Len(nodes), \A side \in Sides : nodes[n][side] \in G
          PROVE  n \in G
      <3>1. Deletion[nodes[n].l] \in S /\ Deletion[nodes[n].c] \in S /\ Deletion[nodes[n].r] \in S
        BY <2>2 DEF Sides
      <3>2. <<n>> \in S /\ \A s, t \in S : s \o t \in S
        OBVIOUS
      <3>3. n \in Ids
        BY DEF Ids, TreeInv, TreeTypeOK
      <3>4. Deletion[n] = Deletion[nodes[n].l] \o Deletion[nodes[n].c]
                          \o Deletion[nodes[n].r] \o <<n>>
        BY <1>8
      <3> HIDE DEF S
      <3>5. Deletion[n] \in S
        <4>1. Deletion[nodes[n].l] \o Deletion[nodes[n].c] \in S
          BY <3>1, <3>2
        <4>2. Deletion[nodes[n].l] \o Deletion[nodes[n].c] \o Deletion[nodes[n].r] \in S
          BY <3>1, <3>2, <4>1
        <4> QED
          BY <3>2, <3>4, <4>2
      <3> QED
        BY <3>3, <3>5
    <2>3. Ids \subseteq G
      <3> HIDE DEF G
      <3> QED
        BY <2>1, <2>2, TreeInduction
    <2>4. DOMAIN Deletion = Ids /\ Deletion = [n \in Ids |-> Deletion[n]]
      BY <1>7 DEF Ids
    <2> HIDE DEF S
    <2> QED
      BY <2>3, <2>4
  <1> QED
    BY <1>8, <1>9

\* So does the set that it deletes.
LEMMA DeletedValue ==
  ASSUME TreeInv
  PROVE  /\ Deleted(0) = {}
         /\ \A n \in 1 .. Len(nodes) :
              Deleted(n) = Deleted(nodes[n].l) \union Deleted(nodes[n].c)
                           \union Deleted(nodes[n].r) \union {n}
  <1> DEFINE S == 1 .. Len(nodes)
  <1>1. Deleted(0) = {}
    BY DeletionValue DEF Deleted, Elements
  <1>2. ASSUME NEW n \in 1 .. Len(nodes)
        PROVE  Deleted(n) = Deleted(nodes[n].l) \union Deleted(nodes[n].c)
                           \union Deleted(nodes[n].r) \union {n}
    <2> DEFINE dl == Deletion[nodes[n].l]
               dc == Deletion[nodes[n].c]
               dr == Deletion[nodes[n].r]
    <2>1. dl \in Seq(S) /\ dc \in Seq(S) /\ dr \in Seq(S)
      <3>1. nodes[n].l \in Ids /\ nodes[n].c \in Ids /\ nodes[n].r \in Ids
        BY Younger DEF Sides
      <3> QED
        BY <3>1, DeletionValue
    <2>2. <<n>> \in Seq(S) /\ Elements(<<n>>) = {n}
      BY DEF Elements
    <2>3. Deletion[n] = dl \o dc \o dr \o <<n>>
      BY DeletionValue
    <2> HIDE DEF S, dl, dc, dr
    <2>4. Elements(Deletion[n]) = Elements(dl) \union Elements(dc) \union Elements(dr) \union {n}
      <3> DEFINE two == dl \o dc
                 three == two \o dr
      <3>1. two \in Seq(S) /\ Elements(two) = Elements(dl) \union Elements(dc)
        BY <2>1, ConcatElements
      <3>2. Deletion[n] = three \o <<n>>
        BY <2>3
      <3> HIDE DEF two
      <3>3. three \in Seq(S) /\ Elements(three) = Elements(two) \union Elements(dr)
        BY <2>1, <3>1, ConcatElements
      <3> HIDE DEF three
      <3> DEFINE one == <<n>>
      <3>4. one \in Seq(S) /\ Elements(one) = {n} /\ Deletion[n] = three \o one
        BY <2>2, <3>2
      <3> HIDE DEF one
      <3>5. Elements(three \o one) = Elements(three) \union Elements(one)
        BY <3>3, <3>4, ConcatElements
      <3> QED
        BY <3>1, <3>3, <3>4, <3>5
    <2> QED
      BY <2>4 DEF Deleted, dl, dc, dr
  <1> QED
    BY <1>1, <1>2

\* With a node go only nodes that are not older, ...
LEMMA DeletedYounger ==
  ASSUME TreeInv
  PROVE  \A n \in Ids : \A x \in Deleted(n) : x \in 1 .. Len(nodes) /\ x >= n
  <1> DEFINE G == {n \in Ids : \A x \in Deleted(n) : x \in 1 .. Len(nodes) /\ x >= n}
  <1>0. Len(nodes) \in Nat /\ Ids = 0 .. Len(nodes)
    BY DEF TreeInv, TreeTypeOK, Ids
  <1>1. 0 \in G
    BY <1>0, DeletedValue
  <1>2. ASSUME NEW n \in 1 .. Len(nodes), \A side \in Sides : nodes[n][side] \in G
        PROVE  n \in G
    <2>1. \A side \in Sides : \A x \in Deleted(nodes[n][side]) : x \in 1 .. Len(nodes) /\ x >= n
      <3> SUFFICES ASSUME NEW side \in Sides, NEW x \in Deleted(nodes[n][side])
                   PROVE  x \in 1 .. Len(nodes) /\ x >= n
        OBVIOUS
      <3>1. x \in 1 .. Len(nodes) /\ x >= nodes[n][side]
        BY <1>2
      <3>2. nodes[n][side] # 0
        BY DeletedValue
      <3>3. nodes[n][side] > n /\ nodes[n][side] \in 0 .. Len(nodes)
        BY <3>2, <1>0, Younger
      <3> QED
        BY <3>1, <3>3, <1>0
    <2>2. \A x \in Deleted(n) : x = n \/ \E side \in Sides : x \in Deleted(nodes[n][side])
      BY DeletedValue DEF Sides
    <2> QED
      BY <2>1, <2>2, <1>0
  <1>3. Ids \subseteq G
    <2> HIDE DEF G
    <2> QED
      BY <1>1, <1>2, TreeInduction
  <1> QED
    BY <1>3

\* ... together with the node that each of them but itself hangs from, ...
LEMMA DeletedUpward ==
  ASSUME TreeInv
  PROVE  \A n \in Ids : \A x \in Deleted(n) :
           x # n => \E g \in Links : Child(g) = x /\ g.node \in Deleted(n)
  <1> DEFINE G == {n \in Ids : \A x \in Deleted(n) :
                     x # n => \E g \in Links : Child(g) = x /\ g.node \in Deleted(n)}
  <1>0. Len(nodes) \in Nat /\ Ids = 0 .. Len(nodes)
    BY DEF TreeInv, TreeTypeOK, Ids
  <1>1. 0 \in G
    BY <1>0, DeletedValue
  <1>2. ASSUME NEW n \in 1 .. Len(nodes), \A side \in Sides : nodes[n][side] \in G
        PROVE  n \in G
    <2> SUFFICES ASSUME NEW x \in Deleted(n), x # n
                 PROVE  \E g \in Links : Child(g) = x /\ g.node \in Deleted(n)
      BY <1>0
    <2>1. PICK side \in Sides : x \in Deleted(nodes[n][side])
      BY DeletedValue DEF Sides
    <2>2. n \in Deleted(n) /\ Deleted(nodes[n][side]) \subseteq Deleted(n)
      BY DeletedValue DEF Sides
    <2> DEFINE link == [node |-> n, side |-> side]
    <2>3. CASE x = nodes[n][side]
      <3>1. nodes[n][side] # 0
        BY <2>1, DeletedValue
      <3>2. link \in Links /\ Child(link) = x /\ link.node = n
        BY <2>3, <3>1 DEF Links, Child
      <3> QED
        BY <3>2, <2>2
    <2>4. CASE x # nodes[n][side]
      BY <2>1, <2>2, <2>4, <1>2
    <2> QED
      BY <2>3, <2>4
  <1>3. Ids \subseteq G
    <2> HIDE DEF G
    <2> QED
      BY <1>1, <1>2, TreeInduction
  <1> QED
    BY <1>3

\* ... and with all that hangs from them.
LEMMA DeletedDownward ==
  ASSUME TreeInv
  PROVE  \A n \in Ids : \A g \in Links : g.node \in Deleted(n) => Child(g) \in Deleted(n)
  <1> DEFINE G == {n \in Ids : \A g \in Links : g.node \in Deleted(n) => Child(g) \in Deleted(n)}
  <1>0. Len(nodes) \in Nat /\ Ids = 0 .. Len(nodes)
    BY DEF TreeInv, TreeTypeOK, Ids
  <1>1. 0 \in G
    BY <1>0, DeletedValue
  <1>2. ASSUME NEW n \in 1 .. Len(nodes), \A side \in Sides : nodes[n][side] \in G
        PROVE  n \in G
    <2> SUFFICES ASSUME NEW g \in Links, g.node \in Deleted(n)
                 PROVE  Child(g) \in Deleted(n)
      BY <1>0
    <2>0. \A side \in Sides : Deleted(nodes[n][side]) \subseteq Deleted(n)
      BY DeletedValue DEF Sides
    <2>1. CASE g.node = n
      <3>1. g.side \in Sides /\ Child(g) = nodes[n][g.side] /\ Child(g) # 0
        BY <2>1 DEF Links, Child
      <3>2. Child(g) \in 1 .. Len(nodes)
        BY <3>1, <1>0, Younger
      <3>3. Child(g) \in Deleted(nodes[n][g.side])
        BY <3>1, <3>2, DeletedValue
      <3> QED
        BY <2>0, <3>1, <3>3
    <2>2. CASE g.node # n
      <3>1. PICK side \in Sides : g.node \in Deleted(nodes[n][side])
        BY <2>2, DeletedValue DEF Sides
      <3>2. Child(g) \in Deleted(nodes[n][side])
        BY <3>1, <1>2
      <3> QED
        BY <2>0, <3>2
    <2> QED
      BY <2>1, <2>2
  <1>3. Ids \subseteq G
    <2> HIDE DEF G
    <2> QED
      BY <1>1, <1>2, TreeInduction
  <1> QED
    BY <1>3

\* What hangs from a node on one side does not hang from it on another.
LEMMA DeletedApart ==
  ASSUME TreeInv, NEW n \in 1 .. Len(nodes), NEW a \in Sides, NEW b \in Sides, a # b
  PROVE  Deleted(nodes[n][a]) \intersect Deleted(nodes[n][b]) = {}
  <1> DEFINE x == nodes[n][a]
             y == nodes[n][b]
             both == Deleted(x) \intersect Deleted(y)
  <1>0. Len(nodes) \in Nat /\ Ids = 0 .. Len(nodes)
    BY DEF TreeInv, TreeTypeOK, Ids
  <1> SUFFICES ASSUME both # {} PROVE FALSE
    OBVIOUS
  <1>1. x \in Ids /\ y \in Ids /\ x # 0 /\ y # 0
    BY DeletedValue, Younger
  <1>2. PICK z \in both : \A v \in both : z <= v
    <2>1. both \in SUBSET Nat
      BY <1>0, <1>1, DeletedYounger
    <2> HIDE DEF both
    <2> QED
      BY <2>1, Least
  <1> DEFINE gx == [node |-> n, side |-> a]
             gy == [node |-> n, side |-> b]
  <1>3. gx \in Links /\ gy \in Links /\ Child(gx) = x /\ Child(gy) = y /\ gx # gy
        /\ gx.node = n /\ gy.node = n
    BY <1>1 DEF Links, Child
  <1>4. x # y
    BY <1>3 DEF TreeInv, NodesOwned
  <1>5. n \notin Deleted(x) /\ n \notin Deleted(y)
    <2>1. x > n /\ y > n
      BY <1>1, Younger
    <2> QED
      BY <1>0, <1>1, <2>1, DeletedYounger
  <1>6. z # x
    <2> SUFFICES ASSUME z = x PROVE FALSE
      OBVIOUS
    <2>1. PICK g \in Links : Child(g) = x /\ g.node \in Deleted(y)
      BY <1>1, <1>2, <1>4, DeletedUpward
    <2>2. g = gx
      BY <2>1, <1>3 DEF TreeInv, NodesOwned
    <2> QED
      BY <2>1, <2>2, <1>3, <1>5
  <1>7. z # y
    <2> SUFFICES ASSUME z = y PROVE FALSE
      OBVIOUS
    <2>1. PICK g \in Links : Child(g) = y /\ g.node \in Deleted(x)
      BY <1>1, <1>2, <1>4, DeletedUpward
    <2>2. g = gy
      BY <2>1, <1>3 DEF TreeInv, NodesOwned
    <2> QED
      BY <2>1, <2>2, <1>3, <1>5
  <1>8. PICK g \in Links : Child(g) = z /\ g.node \in Deleted(x)
    BY <1>1, <1>2, <1>6, DeletedUpward
  <1>9. PICK h \in Links : Child(h) = z /\ h.node \in Deleted(y)
    BY <1>1, <1>2, <1>7, DeletedUpward
  <1>10. g = h /\ Child(g) > g.node
    BY <1>8, <1>9 DEF TreeInv, NodesOwned
  <1>11. g.node \in both /\ z <= g.node
    BY <1>2, <1>8, <1>9, <1>10
  <1>12. z \in Nat /\ g.node \in Nat
    BY <1>0, <1>1, <1>2, <1>8, DeletedYounger
  <1> QED
    BY <1>8, <1>10, <1>11, <1>12

\* No node is deleted twice.
LEMMA DeletionNoRepeat ==
  ASSUME TreeInv
  PROVE  \A n \in Ids : NoRepeat(Deletion[n])
  <1> DEFINE G == {n \in Ids : NoRepeat(Deletion[n])}
             S == 1 .. Len(nodes)
  <1>0. Len(nodes) \in Nat /\ Ids = 0 .. Len(nodes)
    BY DEF TreeInv, TreeTypeOK, Ids
  <1>1. 0 \in G
    BY <1>0, DeletionValue DEF NoRepeat
  <1>2. ASSUME NEW n \in 1 .. Len(nodes), \A side \in Sides : nodes[n][side] \in G
        PROVE  n \in G
    <2> DEFINE dl == Deletion[nodes[n].l]
               dc == Deletion[nodes[n].c]
               dr == Deletion[nodes[n].r]
    <2>1. /\ nodes[n].l \in Ids /\ nodes[n].c \in Ids /\ nodes[n].r \in Ids
          /\ dl \in Seq(S) /\ dc \in Seq(S) /\ dr \in Seq(S)
      <3>1. nodes[n].l \in Ids /\ nodes[n].c \in Ids /\ nodes[n].r \in Ids
        BY Younger DEF Sides
      <3> QED
        BY <3>1, DeletionValue
    <2>2. <<n>> \in Seq(S) /\ Elements(<<n>>) = {n} /\ NoRepeat(<<n>>)
      BY DEF Elements, NoRepeat
    <2>3. Deletion[n] = dl \o dc \o dr \o <<n>>
      BY DeletionValue
    <2>4. NoRepeat(dl) /\ NoRepeat(dc) /\ NoRepeat(dr)
      BY <1>2 DEF Sides
    <2>5. /\ Elements(dl) \intersect Elements(dc) = {}
          /\ Elements(dl) \intersect Elements(dr) = {}
          /\ Elements(dc) \intersect Elements(dr) = {}
      BY DeletedApart DEF Sides, Deleted
    <2>6. n \notin Elements(dl) /\ n \notin Elements(dc) /\ n \notin Elements(dr)
      <3>1. \A side \in Sides : n \notin Deleted(nodes[n][side])
        <4> SUFFICES ASSUME NEW side \in Sides, n \in Deleted(nodes[n][side]) PROVE FALSE
          OBVIOUS
        <4>1. nodes[n][side] # 0
          BY DeletedValue
        <4>2. nodes[n][side] > n /\ nodes[n][side] \in 0 .. Len(nodes) /\ n >= nodes[n][side]
          BY <4>1, <1>0, Younger, DeletedYounger
        <4> QED
          BY <4>2, <1>0
      <3> QED
        BY <3>1 DEF Sides, Deleted
    <2> HIDE DEF S, dl, dc, dr
    <2> DEFINE two == dl \o dc
               three == two \o dr
    <2>7. two \in Seq(S) /\ Elements(two) = Elements(dl) \union Elements(dc) /\ NoRepeat(two)
      BY <2>1, <2>4, <2>5, ConcatElements
    <2>8. Deletion[n] = three \o <<n>>
      BY <2>3
    <2> HIDE DEF two
    <2>9. /\ three \in Seq(S) /\ Elements(three) = Elements(two) \union Elements(dr)
          /\ NoRepeat(three)
      <3>1. Elements(two) \intersect Elements(dr) = {}
        BY <2>5, <2>7
      <3> QED
        BY <2>1, <2>4, <2>7, <3>1, ConcatElements
    <2> HIDE DEF three
    <2>10. NoRepeat(three \o <<n>>)
      <3>1. Elements(three) \intersect Elements(<<n>>) = {}
        BY <2>2, <2>6, <2>7, <2>9
      <3> QED
        BY <2>2, <2>4, <2>9, <3>1, ConcatElements
    <2>11. n \in Ids
      BY <1>0
    <2> QED
      BY <2>8, <2>10, <2>11
  <1>3. Ids \subseteq G
    <2> HIDE DEF G
    <2> QED
      BY <1>1, <1>2, TreeInduction
  <1> QED
    BY <1>3

\* Every node hangs from the root, and so all are deleted.
LEMMA DeletesAll ==
  ASSUME TreeInv, HungInv, nodes # <<>>
  PROVE  /\ Deleted(root_) = 1 .. Len(nodes)
         /\ Len(Deletion[root_]) = Len(nodes)
  <1>0. /\ Len(nodes) \in Nat /\ Ids = 0 .. Len(nodes) /\ root_ = 1 /\ Len(nodes) # 0
        /\ 1 \in 1 .. Len(nodes) /\ 1 \in Ids
    BY DEF TreeInv, TreeTypeOK, PathInv, Ids
  <1> DEFINE missed == {n \in 1 .. Len(nodes) : n \notin Deleted(1)}
  <1>1. missed = {}
    <2> SUFFICES ASSUME missed # {} PROVE FALSE
      OBVIOUS
    <2>1. PICK n \in missed : \A m \in missed : n <= m
      <3>1. missed \in SUBSET Nat
        OBVIOUS
      <3> HIDE DEF missed
      <3> QED
        BY <3>1, Least
    <2>2. 1 \in Deleted(1)
      BY <1>0, DeletedValue
    <2>3. n \in 2 .. Len(nodes)
      BY <2>1, <2>2, <1>0
    <2>4. PICK g \in Links : Child(g) = n
      BY <2>3 DEF HungInv
    <2>5. g.node \in 1 .. Len(nodes) /\ g.node < n
      BY <2>4 DEF TreeInv, NodesOwned, Links
    <2>6. g.node \in Deleted(1)
      BY <2>1, <2>5, <1>0
    <2> QED
      BY <2>1, <2>4, <2>6, <1>0, DeletedDownward
  <1>2. Deleted(1) = 1 .. Len(nodes)
    BY <1>0, <1>1, DeletedYounger
  <1> DEFINE d == Deletion[1]
  <1>3. d \in Seq(1 .. Len(nodes)) /\ Len(d) \in Nat
    BY <1>0, DeletionValue
  <1>4. NoRepeat(d) /\ Elements(d) = 1 .. Len(nodes)
    BY <1>0, <1>2, DeletionNoRepeat DEF Deleted
  <1> HIDE DEF d
  <1>5. d \in [1 .. Len(d) -> 1 .. Len(nodes)]
    BY <1>3
  <1>6. d \in Bijection(1 .. Len(d), 1 .. Len(nodes))
    <2>1. d \in Surjection(1 .. Len(d), 1 .. Len(nodes))
      BY <1>4, <1>5 DEF Surjection, Elements
    <2>2. d \in Injection(1 .. Len(d), 1 .. Len(nodes))
      BY <1>4, <1>5 DEF Injection, NoRepeat, IsInjective
    <2> QED
      BY <2>1, <2>2 DEF Bijection
  <1>7. ExistsBijection(1 .. Len(d), 1 .. Len(nodes))
    BY <1>6 DEF ExistsBijection
  <1>8. Cardinality(1 .. Len(nodes)) = Len(d)
    BY <1>3, <1>7, FS_CountingElements
  <1>9. Cardinality(1 .. Len(nodes)) = Len(nodes)
    BY <1>0, FS_Interval
  <1> QED
    BY <1>0, <1>2, <1>8, <1>9 DEF d

\* What the assignments to the members of a node leave alone.
LEMMA TerminatorEffect ==
  ASSUME TreeInv, SetTerminator
  PROVE  /\ Link \in 1 .. Len(nodes) /\ Len(nodes) \in Nat /\ Len(nodes') = Len(nodes)
         /\ \A n \in 1 .. Len(nodes) :
              /\ nodes'[n].key = nodes[n].key /\ \A side \in Sides : nodes'[n][side] = nodes[n][side]
              /\ nodes'[n].terminator = (n = Link \/ nodes[n].terminator)
  <1> DEFINE y == [nodes[Link] EXCEPT !.terminator = TRUE]
  <1>1. /\ nodes \in Seq(Node) /\ Link \in 1 .. Len(nodes) /\ Len(nodes) \in Nat
        /\ nodes' = [nodes EXCEPT ![Link] = y]
    BY LinkType DEF SetTerminator, TreeInv, TreeTypeOK, Ids
  <1>2. nodes[Link] \in Node /\ \A n \in 1 .. Len(nodes) : nodes[n].terminator \in BOOLEAN
    <2>1. \A n \in 1 .. Len(nodes) : nodes[n] \in Node
      BY <1>1
    <2> QED
      BY <1>1, <2>1 DEF Node
  <1>3. /\ y \in Node /\ \A side \in Sides : y[side] = nodes[Link][side]
        /\ y.key = nodes[Link].key /\ y.terminator = TRUE
    BY <1>2 DEF Node, Sides
  <1> HIDE DEF y
  <1>4. /\ Len(nodes') = Len(nodes)
        /\ \A n \in 1 .. Len(nodes) : nodes'[n] = IF n = Link THEN y ELSE nodes[n]
    BY <1>1, <1>3, EditElement
  <1>5. \A n \in 1 .. Len(nodes) : nodes'[n].terminator = (n = Link \/ nodes[n].terminator)
    BY <1>2, <1>3, <1>4
  <1> QED
    BY <1>1, <1>3, <1>4, <1>5

LEMMA ParentEffect ==
  ASSUME TreeInv, SetParent
  PROVE  /\ Len(nodes) \in Nat /\ Len(nodes') = Len(nodes)
         /\ \A n \in 1 .. Len(nodes) :
              /\ nodes'[n].key = nodes[n].key /\ \A side \in Sides : nodes'[n][side] = nodes[n][side]
              /\ nodes'[n].terminator = nodes[n].terminator
  <1> DEFINE last == pending[Len(pending)]
             value == ParentOn(last.node, last.side)
             y == [nodes[Link] EXCEPT !.parent = value]
  <1>1. /\ nodes \in Seq(Node) /\ Len(nodes) \in Nat /\ pending # <<>>
        /\ nodes' = [nodes EXCEPT ![Link] = y] /\ rest = <<>>
    BY DEF SetParent, TreeInv, TreeTypeOK
  <1>2. /\ last \in [node : 1 .. Len(nodes), side : Sides] /\ Link \in 1 .. Len(nodes)
    BY <1>1, LastLink DEF Ids, TreeInv, PathInv
  <1>3. nodes[Link] \in Node /\ value \in Ids
    <2>1. nodes[last.node] \in Node /\ last.node \in 1 .. Len(nodes)
      BY <1>1, <1>2
    <2>2. last.node \in Ids /\ nodes[last.node].parent \in Ids
      <3>1. nodes[last.node].parent \in Ids
        BY <2>1 DEF Node
      <3> QED
        BY <3>1, <2>1, <1>1 DEF Ids
    <2> QED
      BY <2>2, <1>1, <1>2 DEF ParentOn
  <1>4. /\ y \in Node /\ \A side \in Sides : y[side] = nodes[Link][side]
        /\ y.key = nodes[Link].key /\ y.terminator = nodes[Link].terminator
    BY <1>3 DEF Node, Sides
  <1> HIDE DEF y
  <1>5. /\ Len(nodes') = Len(nodes)
        /\ \A n \in 1 .. Len(nodes) : nodes'[n] = IF n = Link THEN y ELSE nodes[n]
    BY <1>1, <1>2, <1>4, EditElement
  <1> QED
    BY <1>1, <1>4, <1>5

\* A node that was allocated hangs from the link that the call was given.
LEMMA HungStays ==
  ASSUME TreeInv, HungInv, InsertStep \/ UNCHANGED nodes
  PROVE  HungInv'
  <1> DEFINE Down == [node : 1 .. Len(nodes), side : Sides]
             last == pending[Len(pending)]
  <1>1. ASSUME Len(nodes') = Len(nodes), \A g \in Down : Child(g)' = Child(g)
        PROVE  HungInv'
    <2>1. Links' = Links
      BY <1>1 DEF Links
    <2> QED
      BY <1>1, <2>1 DEF HungInv, Links
  <1>2. CASE SetTerminator \/ SetParent
    BY <1>1, <1>2, TerminatorEffect, ParentEffect DEF Child
  <1>3. CASE Descend \/ UNCHANGED nodes
    BY <1>1, <1>3 DEF Descend, Child
  <1>4. CASE Alloc
    <2>1. /\ Len(nodes) \in Nat /\ Len(nodes') = Len(nodes) + 1 /\ (pending = <<>> => Len(nodes) = 0)
          /\ \A g \in Down : Child(g)' = IF pending # <<>> /\ g = last THEN Len(nodes) + 1
                                         ELSE Child(g)
      BY <1>4, AllocEffect
    <2>2. \A g \in Down : g \in [node : 1 .. Len(nodes'), side : Sides]
      BY <2>1
    <2>3. ASSUME NEW n \in 2 .. Len(nodes)
          PROVE  \E g \in Links' : Child(g)' = n
      <3>1. PICK g \in Links : Child(g) = n
        BY <2>3 DEF HungInv
      <3>2. g \in Down /\ Child(g) # 0
        BY <3>1 DEF Links
      <3>3. ~ (pending # <<>> /\ g = last)
        BY <1>4, <3>2, LastLink DEF Alloc
      <3>4. Child(g)' = n
        BY <2>1, <3>1, <3>2, <3>3
      <3>5. g \in Links'
        BY <2>2, <3>1, <3>2, <3>4 DEF Links
      <3> QED
        BY <3>4, <3>5
    <2>4. ASSUME Len(nodes) + 1 \in 2 .. Len(nodes) + 1
          PROVE  \E g \in Links' : Child(g)' = Len(nodes) + 1
      <3>1. pending # <<>> /\ Len(nodes) + 1 # 0
        BY <2>1, <2>4
      <3>2. PICK g \in Down : g = last
        BY <3>1, LastLink
      <3>3. Child(g)' = Len(nodes) + 1
        BY <2>1, <3>1, <3>2
      <3>4. g \in Links'
        BY <2>2, <3>1, <3>2, <3>3 DEF Links
      <3> QED
        BY <3>3, <3>4
    <2>5. \A n \in 2 .. Len(nodes') : n \in 2 .. Len(nodes)
                                      \/ (n = Len(nodes) + 1 /\ n \in 2 .. Len(nodes) + 1)
      BY <2>1
    <2> QED
      BY <2>3, <2>4, <2>5 DEF HungInv
  <1> QED
    BY <1>2, <1>3, <1>4 DEF InsertStep

\* The tree is deleted once, with all its nodes, and then nothing happens any more.
LEMMA FreedStays ==
  ASSUME ReaderInv, TreeInv, FreedInv, [Next]_vars
  PROVE  FreedInv'
  <1>1. HungInv'
    <2>1. ASSUME NEW word \in Words, Insert(word)
          PROVE  UNCHANGED nodes
      BY <2>1 DEF Insert
    <2>2. UNCHANGED insertVars => UNCHANGED nodes
      BY DEF insertVars
    <2>3. InsertStep \/ UNCHANGED nodes
      BY <2>1, <2>2, ReaderStepsTree
    <2> QED
      BY <2>3, HungStays DEF FreedInv
  <1>2. CASE Destroy
    <2>1. freed' = Deletion[root_] /\ UNCHANGED <<nodes, root_, rest, pending>> /\ Idle /\ pc' = "ended"
      BY <1>2 DEF Destroy, DeleteTree, insertVars, Idle
    <2>2. CASE nodes = <<>>
      <3>1. root_ = 0
        BY <2>2 DEF TreeInv, PathInv
      <3>2. freed' = <<>>
        BY <2>1, <3>1, DeletionValue
      <3> QED
        BY <1>1, <2>1, <3>2 DEF FreedInv, Idle
    <2>3. CASE nodes # <<>>
      <3>1. Len(freed') = Len(nodes') /\ Elements(freed)' = 1 .. Len(nodes')
        BY <2>1, <2>3, DeletesAll DEF FreedInv, Deleted, Elements
      <3> QED
        BY <1>1, <2>1, <3>1 DEF FreedInv, Elements
    <2> QED
      BY <2>2, <2>3
  <1>3. CASE Ended \/ UNCHANGED vars
    <2>1. UNCHANGED <<nodes, freed, rest, pending, pc>>
      BY <1>3 DEF Ended, vars, treeVars, insertVars, readerVars
    <2> QED
      BY <1>1, <2>1 DEF FreedInv, Idle, Elements
  <1>4. CASE Open \/ ReadSecondHalf \/ Rewind \/ ReadFirstHalf \/ CloseFile \/ Lookup
    <2>1. pc # "ended" /\ pc' # "ended" /\ UNCHANGED freed
      BY <1>4 DEF Open, ReadSecondHalf, Rewind, ReadFirstHalf, CloseFile, Lookup, Insert,
                  FuzzyFind, treeVars
    <2> QED
      BY <1>1, <2>1 DEF FreedInv
  <1>5. CASE Inserting
    <2>1. ~ Idle
      BY <1>5 DEF Inserting, InsertStep, Alloc, Descend, SetTerminator, SetParent, Idle
    <2>2. pc # "ended" /\ UNCHANGED <<pc, freed>>
      BY <1>5, <2>1 DEF Inserting, InsertStep, Alloc, Descend, SetTerminator, SetParent, ReaderInv,
                        readerVars
    <2> QED
      BY <1>1, <2>2 DEF FreedInv
  <1> QED
    BY <1>2, <1>3, <1>4, <1>5 DEF Next, Reading

\* The destructor deletes every node that was allocated, and none twice: whatever was
\* inserted, its recursion comes to all nodes, to each by one way (ternary_tree.cc:367-383).
THEOREM ReaderFreesAll == Spec => []FreesAll
  <1>1. Init => FreedInv
    <2> SUFFICES ASSUME Init PROVE FreedInv
      OBVIOUS
    <2>1. nodes = <<>> /\ Len(nodes) = 0 /\ freed = <<>> /\ pc = "open"
      BY DEF Init, TreeInit
    <2> QED
      BY <2>1 DEF FreedInv, HungInv
  <1>2. FreedInv => FreesAll
    BY DEF FreedInv, FreesAll, Elements
  <1> QED
    BY <1>1, <1>2, FreedStays, ReaderKeepsTree, PTL DEF Spec

-----------------------------------------------------------------------------
(***************************************************************************)
(* The words spelt in the tree.                                            *)
(***************************************************************************)

Byte == 1 .. 254

\* A word is its first letter and the rest.
LEMMA Cons ==
  ASSUME NEW k \in Byte
  PROVE  /\ <<k>> \in Seq(Byte) /\ <<k>> # <<>> /\ <<k>>[1] = k
         /\ \A v \in Seq(Byte) : /\ <<k>> \o v \in Seq(Byte) /\ <<k>> \o v # <<>>
                                 /\ (<<k>> \o v)[1] = k
                                 /\ v # <<>> => <<k>> \o v # <<k>>
         /\ \A u, v \in Seq(Byte) : <<k>> \o u = <<k>> \o v => u = v
  <1>1. <<k>> \in Seq(Byte) /\ <<k>> # <<>> /\ <<k>>[1] = k /\ Len(<<k>>) = 1
    OBVIOUS
  <1> HIDE DEF Byte
  <1>2. ASSUME NEW v \in Seq(Byte)
        PROVE  /\ <<k>> \o v \in Seq(Byte) /\ <<k>> \o v # <<>> /\ (<<k>> \o v)[1] = k
               /\ Len(<<k>> \o v) = Len(v) + 1
               /\ Len(v) \in Nat /\ \A n \in 1 .. Len(v) : (<<k>> \o v)[n + 1] = v[n]
               /\ v # <<>> => <<k>> \o v # <<k>>
    <2>1. /\ Len(v) \in Nat /\ <<k>> \o v \in Seq(Byte) /\ Len(<<k>> \o v) = 1 + Len(v)
          /\ \A n \in 1 .. 1 + Len(v) : (<<k>> \o v)[n] = IF n <= 1 THEN k ELSE v[n - 1]
      BY <1>1
    <2>2. v # <<>> => Len(v) # 0
      OBVIOUS
    <2>3. \A n \in 1 .. Len(v) : n + 1 \in 1 .. 1 + Len(v) /\ ~ (n + 1 <= 1) /\ (n + 1) - 1 = n
      BY <2>1
    <2> DEFINE u == <<k>> \o v
    <2> HIDE DEF u
    <2>4. \A n \in 1 .. Len(v) : u[n + 1] = v[n]
      BY <2>1, <2>3 DEF u
    <2>5. u # <<>> /\ u[1] = k
      BY <2>1 DEF u
    <2> QED
      BY <1>1, <2>1, <2>2, <2>4, <2>5 DEF u
  <1>3. ASSUME NEW u \in Seq(Byte), NEW v \in Seq(Byte), <<k>> \o u = <<k>> \o v
        PROVE  u = v
    <2> DEFINE x == <<k>> \o u
               y == <<k>> \o v
    <2> HIDE DEF x, y
    <2>0. x = y
      BY <1>3 DEF x, y
    <2>1. /\ Len(x) = Len(u) + 1 /\ Len(u) \in Nat /\ \A n \in 1 .. Len(u) : x[n + 1] = u[n]
      BY <1>2 DEF x
    <2>2. /\ Len(y) = Len(v) + 1 /\ Len(v) \in Nat /\ \A n \in 1 .. Len(v) : y[n + 1] = v[n]
      BY <1>2 DEF y
    <2>3. Len(u) = Len(v) /\ \A n \in 1 .. Len(u) : u[n] = v[n]
      BY <2>0, <2>1, <2>2
    <2> QED
      BY <2>3, SeqEqual
  <1> QED
    BY <1>1, <1>2, <1>3

\* The rest of a word from a letter on.
LEMMA SuffixOf ==
  ASSUME NEW w \in Seq(Byte), NEW k \in 1 .. Len(w)
  PROVE  /\ Suffix(w, k) \in Seq(Byte) /\ Len(Suffix(w, k)) = Len(w) - k + 1
         /\ Suffix(w, k) # <<>> /\ Suffix(w, k)[1] = w[k]
         /\ k = Len(w) => Suffix(w, k) = <<w[k]>>
         /\ k < Len(w) => Suffix(w, k) = <<w[k]>> \o Suffix(w, k + 1) /\ Tail(Suffix(w, k)) = Suffix(w, k + 1)
         /\ k = 1 => Suffix(w, k) = w
  <1> HIDE DEF Byte
  <1>1. /\ Len(w) \in Nat /\ \A n \in 1 .. Len(w) : w[n] \in Byte
    OBVIOUS
  <1>2. ASSUME NEW m \in 1 .. Len(w)
        PROVE  /\ Suffix(w, m) \in Seq(Byte) /\ Len(Suffix(w, m)) = Len(w) - m + 1
               /\ \A n \in 1 .. Len(w) - m + 1 : Suffix(w, m)[n] = w[m + n - 1]
    <2>1. m \in Int /\ Len(w) \in Int /\ m <= Len(w) /\ \A n \in m .. Len(w) : w[n] \in Byte
      BY <1>1
    <2>2. /\ SubSeq(w, m, Len(w)) \in Seq(Byte)
          /\ Len(SubSeq(w, m, Len(w))) = IF m <= Len(w) THEN Len(w) - m + 1 ELSE 0
          /\ \A n \in 1 .. Len(w) - m + 1 : SubSeq(w, m, Len(w))[n] = w[m + n - 1]
      BY <2>1, SubSeqProperties
    <2> QED
      BY <2>1, <2>2 DEF Suffix
  <1> DEFINE s == Suffix(w, k)
  <1>3. /\ s \in Seq(Byte) /\ Len(s) = Len(w) - k + 1
        /\ \A n \in 1 .. Len(w) - k + 1 : s[n] = w[k + n - 1]
    BY <1>2
  <1> HIDE DEF s
  <1>4. s # <<>> /\ s[1] = w[k]
    <2>1. 1 \in 1 .. Len(w) - k + 1 /\ k + 1 - 1 = k /\ Len(w) - k + 1 # 0
      BY <1>1
    <2> QED
      BY <1>3, <2>1
  <1>5. k = Len(w) => s = <<w[k]>>
    BY <1>1, <1>3, <1>4
  <1>6. ASSUME k < Len(w)
        PROVE  s = <<w[k]>> \o Suffix(w, k + 1) /\ Tail(s) = Suffix(w, k + 1)
    <2> DEFINE t == Suffix(w, k + 1)
    <2>0. k + 1 \in 1 .. Len(w)
      BY <1>1, <1>6
    <2>1. /\ t \in Seq(Byte) /\ Len(t) = Len(w) - (k + 1) + 1
          /\ \A n \in 1 .. Len(w) - (k + 1) + 1 : t[n] = w[k + 1 + n - 1]
      BY <2>0, <1>2
    <2> HIDE DEF t
    <2>2. \A n \in 1 .. Len(t) : n + 1 \in 1 .. Len(s) /\ t[n] = s[n + 1] /\ Len(s) = Len(t) + 1
      BY <1>1, <1>3, <2>1, <1>6
    <2>3. Tail(s) = t
      <3>0. Len(s) = Len(t) + 1 /\ Len(t) \in Nat
        BY <1>1, <1>3, <2>1, <1>6
      <3>1. Tail(s) \in Seq(Byte) /\ Len(Tail(s)) = Len(t) /\ \A n \in 1 .. Len(t) : Tail(s)[n] = s[n + 1]
        BY <1>3, <1>4, <3>0
      <3> QED
        BY <2>1, <2>2, <3>1, SeqEqual
    <2>4. s = <<s[1]>> \o Tail(s)
      BY <1>3, <1>4
    <2> QED
      BY <1>4, <2>3, <2>4 DEF t
  <1>7. k = 1 => s = w
    <2>1. k = 1 => Len(s) = Len(w) /\ \A n \in 1 .. Len(w) : s[n] = w[n]
      BY <1>1, <1>3
    <2> QED
      BY <2>1, <1>3, SeqEqual
  <1> QED
    BY <1>3, <1>4, <1>5, <1>6, <1>7 DEF s

Texts == Seq(Byte) \ {<<>>}

\* The recursion of what is spelt below a node.
SpeltAt(n) ==
  SpeltBelow[nodes[n].l] \union SpeltBelow[nodes[n].r]
  \union (IF nodes[n].terminator THEN {<<nodes[n].key>>} ELSE {})
  \union {<<nodes[n].key>> \o w : w \in SpeltBelow[nodes[n].c]}

SpeltEquations ==
  /\ SpeltBelow \in [Ids -> SUBSET Texts] /\ SpeltBelow[0] = {}
  /\ \A n \in 1 .. Len(nodes) : SpeltBelow[n] = SpeltAt(n)

\* It has a value.
LEMMA SpeltValue == TreeInv => SpeltEquations
  <1> SUFFICES ASSUME TreeInv PROVE SpeltEquations
    OBVIOUS
  <1> DEFINE S == SUBSET Texts
             At(n, dl, dc, dr) == dl \union dr
                        \union (IF nodes[n].terminator THEN {<<nodes[n].key>>} ELSE {})
                        \union {<<nodes[n].key>> \o w : w \in dc}
             step == [n \in 1 .. Len(nodes) |-> [d \in S \X S \X S |-> At(n, d[1], d[2], d[3])]]
  <1>1. {} \in S
    OBVIOUS
  <1>2. ASSUME NEW n \in 1 .. Len(nodes), NEW dl \in S, NEW dc \in S, NEW dr \in S
        PROVE  At(n, dl, dc, dr) \in S
    <2>1. nodes[n].key \in Byte
      <3>1. nodes[n] \in Node
        BY DEF TreeInv, TreeTypeOK
      <3> QED
        BY <3>1 DEF Node, Byte
    <2>2. <<nodes[n].key>> \in Texts
      BY <2>1, Cons DEF Texts
    <2>3. \A w \in dc : <<nodes[n].key>> \o w \in Texts
      BY <2>1, Cons DEF Texts
    <2> HIDE DEF Texts
    <2> QED
      BY <2>2, <2>3
  <1>3. step \in [1 .. Len(nodes) -> [S \X S \X S -> S]]
    <2> HIDE DEF S, At
    <2>1. \A n \in 1 .. Len(nodes) : \A d \in S \X S \X S : At(n, d[1], d[2], d[3]) \in S
      BY <1>2
    <2> QED
      BY <2>1
  <1>4. PICK f \in [Ids -> S] : Folds(f, 1, {}, step)
    <2> HIDE DEF S, step
    <2> QED
      BY <1>1, <1>3, FoldExists
  <1>5. \A n \in 1 .. Len(nodes) : f[n] = At(n, f[nodes[n].l], f[nodes[n].c], f[nodes[n].r])
    <2> SUFFICES ASSUME NEW n \in 1 .. Len(nodes)
                 PROVE  f[n] = At(n, f[nodes[n].l], f[nodes[n].c], f[nodes[n].r])
      OBVIOUS
    <2>1. f[nodes[n].l] \in S /\ f[nodes[n].c] \in S /\ f[nodes[n].r] \in S
      <3>1. nodes[n].l \in Ids /\ nodes[n].c \in Ids /\ nodes[n].r \in Ids
        BY Younger DEF Sides
      <3> HIDE DEF S
      <3> QED
        BY <1>4, <3>1
    <2>2. f[n] = step[n][<<f[nodes[n].l], f[nodes[n].c], f[nodes[n].r]>>]
      BY <1>4 DEF Folds
    <2> HIDE DEF S, At
    <2> QED
      BY <2>1, <2>2
  <1>6. \A n \in Ids : n # 0 => n \in 1 .. Len(nodes)
    BY DEF Ids, TreeInv, TreeTypeOK
  <1>7. f = [n \in Ids |-> IF n = 0 THEN {} ELSE At(n, f[nodes[n].l], f[nodes[n].c], f[nodes[n].r])]
    <2> HIDE DEF S, At
    <2>1. f[0] = {}
      BY <1>4 DEF Folds
    <2> QED
      BY <1>4, <1>5, <1>6, <2>1
  <1>8. SpeltBelow = [n \in Ids |-> IF n = 0 THEN {}
               ELSE At(n, SpeltBelow[nodes[n].l], SpeltBelow[nodes[n].c], SpeltBelow[nodes[n].r])]
    BY <1>7, Zenon DEF SpeltBelow
  <1>9. 0 \in Ids /\ \A n \in 1 .. Len(nodes) : n \in Ids /\ n # 0
    BY DEF Ids, TreeInv, TreeTypeOK
  <1>10. /\ SpeltBelow[0] = {}
         /\ \A n \in 1 .. Len(nodes) :
              SpeltBelow[n] = At(n, SpeltBelow[nodes[n].l], SpeltBelow[nodes[n].c],
                                 SpeltBelow[nodes[n].r])
    <2> HIDE DEF At
    <2> QED
      BY <1>8, <1>9
  <1>11. SpeltBelow \in [Ids -> S]
    <2> DEFINE G == {n \in Ids : SpeltBelow[n] \in S}
    <2> HIDE DEF S, At
    <2>1. 0 \in G
      BY <1>1, <1>9, <1>10
    <2>2. ASSUME NEW n \in 1 .. Len(nodes), \A side \in Sides : nodes[n][side] \in G
          PROVE  n \in G
      <3>1. SpeltBelow[nodes[n].l] \in S /\ SpeltBelow[nodes[n].c] \in S /\ SpeltBelow[nodes[n].r] \in S
        BY <2>2 DEF Sides
      <3> QED
        BY <3>1, <1>2, <1>9, <1>10
    <2>3. Ids \subseteq G
      <3> HIDE DEF G
      <3> QED
        BY <2>1, <2>2, TreeInduction
    <2>4. SpeltBelow = [n \in Ids |-> SpeltBelow[n]]
      BY <1>8
    <2> QED
      BY <2>3, <2>4
  <1> QED
    BY <1>10, <1>11 DEF SpeltEquations, SpeltAt

LEMMA SpeltValueAfter == TreeInv' => SpeltEquations'
  BY SpeltValue, PTL

\* In a tree that is sorted a word is to the left of a node, to its right or below it,
\* as its first letter says.
LEMMA SpeltSide ==
  ASSUME TreeInv, SortedInv, NEW n \in 1 .. Len(nodes), NEW w \in Texts
  PROVE  LET node == nodes[n] IN
         /\ w[1] < node.key => (w \in SpeltBelow[n] <=> w \in SpeltBelow[node.l])
         /\ w[1] > node.key => (w \in SpeltBelow[n] <=> w \in SpeltBelow[node.r])
         /\ w = <<node.key>> => (w \in SpeltBelow[n] <=> node.terminator)
         /\ \A v \in Texts : w = <<node.key>> \o v => (w \in SpeltBelow[n] <=> v \in SpeltBelow[node.c])
  <1> DEFINE node == nodes[n]
  <1>1. node \in Node /\ node.key \in Byte /\ node.terminator \in BOOLEAN
        /\ node.l \in Ids /\ node.c \in Ids /\ node.r \in Ids
    <2>1. node \in Node
      BY DEF TreeInv, TreeTypeOK
    <2> QED
      BY <2>1 DEF Node, Byte
  <1>2. w[1] \in Byte
    BY DEF Texts
  <1> HIDE DEF Texts, Byte
  <1>3. SpeltBelow[node.l] \subseteq Texts /\ SpeltBelow[node.c] \subseteq Texts
        /\ SpeltBelow[node.r] \subseteq Texts
    BY <1>1, SpeltValue DEF SpeltEquations
  <1>4. w \in SpeltBelow[n] <=> \/ w \in SpeltBelow[node.l] \/ w \in SpeltBelow[node.r]
                                \/ node.terminator /\ w = <<node.key>>
                                \/ \E v \in SpeltBelow[node.c] : w = <<node.key>> \o v
    BY SpeltValue DEF SpeltEquations, SpeltAt
  <1>5. \A v \in Texts : v \in Seq(Byte) /\ v # <<>>
    BY DEF Texts
  <1>6. /\ <<node.key>>[1] = node.key
        /\ \A v \in Texts : (<<node.key>> \o v)[1] = node.key /\ <<node.key>> \o v # <<node.key>>
        /\ \A u, v \in Texts : <<node.key>> \o u = <<node.key>> \o v => u = v
    BY <1>1, <1>5, Cons
  <1>7. /\ \A v \in SpeltBelow[node.l] : v[1] < node.key
        /\ \A v \in SpeltBelow[node.r] : v[1] > node.key
    BY DEF SortedInv
  <1>8. \A a, b \in Byte : /\ ~ (a < b /\ b < a) /\ ~ (a < a) /\ (a < b => a # b)
                           /\ (a > b => ~ (a < b) /\ a # b)
    BY DEF Byte
  <1>9. ~ (w[1] < node.key) /\ ~ (w[1] > node.key)
        => w \notin SpeltBelow[node.l] /\ w \notin SpeltBelow[node.r]
    BY <1>7
  <1> HIDE DEF node
  <1>10. w[1] < node.key => (w \in SpeltBelow[n] <=> w \in SpeltBelow[node.l])
    BY <1>1, <1>2, <1>3, <1>4, <1>6, <1>7, <1>8
  <1>11. w[1] > node.key => (w \in SpeltBelow[n] <=> w \in SpeltBelow[node.r])
    BY <1>1, <1>2, <1>3, <1>4, <1>6, <1>7, <1>8
  <1>12. w = <<node.key>> => (w \in SpeltBelow[n] <=> node.terminator)
    BY <1>1, <1>2, <1>3, <1>4, <1>6, <1>8, <1>9
  <1>13. ASSUME NEW v \in Texts, w = <<node.key>> \o v
         PROVE  w \in SpeltBelow[n] <=> v \in SpeltBelow[node.c]
    BY <1>1, <1>2, <1>3, <1>4, <1>6, <1>8, <1>9, <1>13
  <1> QED
    BY <1>10, <1>11, <1>12, <1>13 DEF node

-----------------------------------------------------------------------------
(***************************************************************************)
(* Find: it goes the way of the words that are spelt.                      *)
(***************************************************************************)

\* The equation of the recursion of Find.
FindEquation(w, f, n, k) ==
  f[<<n, k>>] = IF Signed(w[k]) < nodes[n].key THEN f[<<nodes[n].l, k>>]
                ELSE IF Signed(w[k]) > nodes[n].key THEN f[<<nodes[n].r, k>>]
                ELSE IF k = Len(w) THEN n
                ELSE f[<<nodes[n].c, k + 1>>]

LEMMA FindValue ==
  ASSUME TreeInv, NEW w \in Seq(Byte), w # <<>>
  PROVE  /\ \A k \in 1 .. Len(w) : FindFrom(w)[<<0, k>>] = 0
         /\ \A n \in 1 .. Len(nodes) : \A k \in 1 .. Len(w) : FindEquation(w, FindFrom(w), n, k)
  <1> DEFINE K == 1 .. Len(w)
             S == [K -> Ids]
             At(n, dl, dc, dr) ==
               [k \in K |-> IF Signed(w[k]) < nodes[n].key THEN dl[k]
                            ELSE IF Signed(w[k]) > nodes[n].key THEN dr[k]
                            ELSE IF k = Len(w) THEN n ELSE dc[k + 1]]
             step == [n \in 1 .. Len(nodes) |-> [d \in S \X S \X S |-> At(n, d[1], d[2], d[3])]]
             none == [k \in K |-> 0]
  <1>0. /\ Len(w) \in Nat /\ Len(nodes) \in Nat /\ Ids = 0 .. Len(nodes)
        /\ 0 \in Ids /\ \A n \in 1 .. Len(nodes) : n \in Ids /\ n # 0
        /\ \A k \in K : k = Len(w) \/ k + 1 \in K
    BY DEF Ids, TreeInv, TreeTypeOK
  <1>1. none \in S
    BY <1>0
  <1>2. ASSUME NEW n \in 1 .. Len(nodes), NEW dl \in S, NEW dc \in S, NEW dr \in S
        PROVE  At(n, dl, dc, dr) \in S
    <2> HIDE DEF K
    <2> QED
      BY <1>0
  <1>3. step \in [1 .. Len(nodes) -> [S \X S \X S -> S]]
    <2> HIDE DEF S, At
    <2>1. \A n \in 1 .. Len(nodes) : \A d \in S \X S \X S : At(n, d[1], d[2], d[3]) \in S
      BY <1>2
    <2> QED
      BY <2>1
  <1>4. PICK f \in [Ids -> S] : Folds(f, 1, none, step)
    <2> HIDE DEF S, step, none
    <2> QED
      BY <1>1, <1>3, FoldExists
  <1>5. \A n \in 1 .. Len(nodes) :
          /\ f[n] = At(n, f[nodes[n].l], f[nodes[n].c], f[nodes[n].r])
          /\ nodes[n].l \in Ids /\ nodes[n].c \in Ids /\ nodes[n].r \in Ids
    <2> SUFFICES ASSUME NEW n \in 1 .. Len(nodes)
                 PROVE  /\ f[n] = At(n, f[nodes[n].l], f[nodes[n].c], f[nodes[n].r])
                        /\ nodes[n].l \in Ids /\ nodes[n].c \in Ids /\ nodes[n].r \in Ids
      OBVIOUS
    <2>1. nodes[n].l \in Ids /\ nodes[n].c \in Ids /\ nodes[n].r \in Ids
      BY Younger DEF Sides
    <2>2. f[nodes[n].l] \in S /\ f[nodes[n].c] \in S /\ f[nodes[n].r] \in S
      <3> HIDE DEF S
      <3> QED
        BY <1>4, <2>1
    <2>3. f[n] = step[n][<<f[nodes[n].l], f[nodes[n].c], f[nodes[n].r]>>]
      BY <1>4 DEF Folds
    <2> HIDE DEF S, At
    <2> QED
      BY <2>1, <2>2, <2>3
  <1> DEFINE Pairs == (0 .. Len(nodes)) \X (1 .. Len(w))
             g == [at \in Pairs |-> f[at[1]][at[2]]]
  <1>6. \A n \in Ids : \A k \in K : <<n, k>> \in Pairs /\ g[<<n, k>>] = f[n][k]
    BY <1>0
  <1>7. \A n \in 1 .. Len(nodes) : \A k \in K : FindEquation(w, g, n, k)
    <2> SUFFICES ASSUME NEW n \in 1 .. Len(nodes), NEW k \in K
                 PROVE  FindEquation(w, g, n, k)
      OBVIOUS
    <2>1. f[n][k] = IF Signed(w[k]) < nodes[n].key THEN f[nodes[n].l][k]
                    ELSE IF Signed(w[k]) > nodes[n].key THEN f[nodes[n].r][k]
                    ELSE IF k = Len(w) THEN n ELSE f[nodes[n].c][k + 1]
      <3>1. f[n] = At(n, f[nodes[n].l], f[nodes[n].c], f[nodes[n].r])
        <4> HIDE DEF At
        <4> QED
          BY <1>5
      <3> HIDE DEF K
      <3> QED
        BY <3>1
    <2> HIDE DEF g, Pairs, K
    <2> QED
      BY <2>1, <1>0, <1>5, <1>6 DEF FindEquation
  <1>8. g = [at \in Pairs |->
              IF at[1] = 0 THEN 0
              ELSE IF Signed(w[at[2]]) < nodes[at[1]].key THEN g[<<nodes[at[1]].l, at[2]>>]
              ELSE IF Signed(w[at[2]]) > nodes[at[1]].key THEN g[<<nodes[at[1]].r, at[2]>>]
              ELSE IF at[2] = Len(w) THEN at[1]
              ELSE g[<<nodes[at[1]].c, at[2] + 1>>]]
    <2> SUFFICES ASSUME NEW at \in Pairs
                 PROVE  g[at] =
                          IF at[1] = 0 THEN 0
                          ELSE IF Signed(w[at[2]]) < nodes[at[1]].key THEN g[<<nodes[at[1]].l, at[2]>>]
                          ELSE IF Signed(w[at[2]]) > nodes[at[1]].key THEN g[<<nodes[at[1]].r, at[2]>>]
                          ELSE IF at[2] = Len(w) THEN at[1]
                          ELSE g[<<nodes[at[1]].c, at[2] + 1>>]
      <3> HIDE DEF Pairs
      <3> QED
        OBVIOUS
    <2>1. at = <<at[1], at[2]>> /\ at[1] \in Ids /\ at[2] \in K
      BY <1>0
    <2>2. CASE at[1] = 0
      <3>1. g[<<0, at[2]>>] = f[0][at[2]]
        BY <2>1, <1>0, <1>6
      <3>2. f[0] = none
        BY <1>4 DEF Folds
      <3>3. f[0][at[2]] = 0
        BY <2>1, <3>2
      <3> HIDE DEF g, Pairs, K
      <3> QED
        BY <2>1, <2>2, <3>1, <3>3
    <2>3. CASE at[1] # 0
      <3>1. at[1] \in 1 .. Len(nodes)
        BY <2>1, <2>3, <1>0
      <3> HIDE DEF g, Pairs, K
      <3> QED
        BY <2>1, <2>3, <3>1, <1>7 DEF FindEquation
    <2> QED
      BY <2>2, <2>3
  <1>9. FindFrom(w) = [at \in Pairs |->
              IF at[1] = 0 THEN 0
              ELSE IF Signed(w[at[2]]) < nodes[at[1]].key THEN FindFrom(w)[<<nodes[at[1]].l, at[2]>>]
              ELSE IF Signed(w[at[2]]) > nodes[at[1]].key THEN FindFrom(w)[<<nodes[at[1]].r, at[2]>>]
              ELSE IF at[2] = Len(w) THEN at[1]
              ELSE FindFrom(w)[<<nodes[at[1]].c, at[2] + 1>>]]
    <2> HIDE DEF g
    <2> QED
      BY <1>8, Zenon DEF FindFrom
  <1>10. \A n \in Ids : \A k \in K : <<n, k>> \in Pairs /\ <<n, k>>[1] = n /\ <<n, k>>[2] = k
    BY <1>0
  <1> HIDE DEF Pairs, K
  <1>11. \A k \in K : FindFrom(w)[<<0, k>>] = 0
    BY <1>0, <1>9, <1>10
  <1>12. \A n \in 1 .. Len(nodes) : \A k \in K : FindEquation(w, FindFrom(w), n, k)
    <2> SUFFICES ASSUME NEW n \in 1 .. Len(nodes), NEW k \in K
                 PROVE  FindEquation(w, FindFrom(w), n, k)
      OBVIOUS
    <2> DEFINE at == <<n, k>>
    <2>1. at \in Pairs /\ at[1] = n /\ at[2] = k /\ n # 0
      BY <1>0, <1>10
    <2> HIDE DEF at
    <2>2. FindFrom(w)[at] = IF Signed(w[k]) < nodes[n].key THEN FindFrom(w)[<<nodes[n].l, k>>]
                ELSE IF Signed(w[k]) > nodes[n].key THEN FindFrom(w)[<<nodes[n].r, k>>]
                ELSE IF k = Len(w) THEN n
                ELSE FindFrom(w)[<<nodes[n].c, k + 1>>]
      BY <1>9, <2>1
    <2> QED
      BY <2>2 DEF FindEquation, at
  <1> QED
    BY <1>11, <1>12 DEF K

\* Find ends at a node with the terminator flag.
Meets(w, n, k) ==
  LET at == FindFrom(w)[<<n, k>>] IN at # 0 /\ nodes[at].terminator

\* From any node and letter on, Find comes to an end of a word exactly when the rest is
\* spelt there and has no byte above 127.
LEMMA FindRight ==
  ASSUME TreeInv, SortedInv, NEW w \in Seq(Byte), w # <<>>
  PROVE  \A n \in Ids : \A k \in 1 .. Len(w) :
           Meets(w, n, k) <=> Suffix(w, k) \in SpeltBelow[n] /\ \A j \in k .. Len(w) : w[j] < 128
  <1> DEFINE K == 1 .. Len(w)
             Plain(k) == \A j \in k .. Len(w) : w[j] < 128
             Right(n, k) == Meets(w, n, k) <=> Suffix(w, k) \in SpeltBelow[n] /\ Plain(k)
             G == {n \in Ids : \A k \in K : Right(n, k)}
  <1>0. Len(w) \in Nat /\ 0 \in Ids /\ \A n \in 1 .. Len(nodes) : n \in Ids /\ n # 0
    BY DEF Ids, TreeInv, TreeTypeOK
  <1>1. 0 \in G
    <2>1. \A k \in K : ~ Meets(w, 0, k)
      BY FindValue DEF Meets
    <2>2. SpeltBelow[0] = {}
      BY SpeltValue DEF SpeltEquations
    <2> QED
      BY <1>0, <2>1, <2>2
  <1>2. ASSUME NEW n \in 1 .. Len(nodes), \A side \in Sides : nodes[n][side] \in G
        PROVE  n \in G
    <2> SUFFICES ASSUME NEW k \in K PROVE Right(n, k)
      BY <1>0
    <2> DEFINE key == nodes[n].key
               b == w[k]
               suffix == Suffix(w, k)
    <2>1. /\ Right(nodes[n].l, k) /\ Right(nodes[n].r, k)
          /\ k # Len(w) => k + 1 \in K /\ Right(nodes[n].c, k + 1)
      <3>1. k # Len(w) => k + 1 \in K
        BY <1>0
      <3> HIDE DEF Right, K
      <3> QED
        BY <1>2, <3>1 DEF Sides
    <2>2. FindEquation(w, FindFrom(w), n, k)
      BY FindValue
    <2>3. key \in Byte /\ b \in Byte /\ nodes[n].terminator \in BOOLEAN
      <3>1. nodes[n] \in Node
        BY DEF TreeInv, TreeTypeOK
      <3>2. b \in Byte
        <4> HIDE DEF Byte
        <4> QED
          OBVIOUS
      <3> QED
        BY <3>1, <3>2 DEF Node, Byte
    <2>4. suffix \in Texts /\ suffix[1] = b
      BY SuffixOf DEF Texts
    <2> HIDE DEF key, b, suffix
    <2>5. Plain(k) => b < 128
      BY <1>0 DEF b
    <2>6. CASE Signed(b) < key
      <3>1. Meets(w, n, k) <=> Meets(w, nodes[n].l, k)
        BY <2>2, <2>6 DEF FindEquation, Meets, b, key
      <3>2. b < 128 => b < key
        BY <2>3, <2>6 DEF Signed, Byte
      <3>3. b < key => (suffix \in SpeltBelow[n] <=> suffix \in SpeltBelow[nodes[n].l])
        BY <2>4, SpeltSide DEF key
      <3> HIDE DEF Plain
      <3> QED
        BY <2>1, <2>5, <3>1, <3>2, <3>3 DEF suffix
    <2>7. CASE Signed(b) > key
      <3>1. ~ (Signed(b) < key) /\ b > key
        BY <2>3, <2>7 DEF Signed, Byte
      <3>2. Meets(w, n, k) <=> Meets(w, nodes[n].r, k)
        BY <2>2, <2>7, <3>1 DEF FindEquation, Meets, b, key
      <3>3. suffix \in SpeltBelow[n] <=> suffix \in SpeltBelow[nodes[n].r]
        BY <2>4, <3>1, SpeltSide DEF key
      <3> HIDE DEF Plain
      <3> QED
        BY <2>1, <3>2, <3>3 DEF suffix
    <2>8. CASE Signed(b) = key
      <3>1. b = key /\ b < 128 /\ ~ (Signed(b) < key) /\ ~ (Signed(b) > key)
        BY <2>3, <2>8 DEF Signed, Byte
      <3>2. CASE k = Len(w)
        <4>1. Meets(w, n, k) <=> nodes[n].terminator
          BY <2>2, <3>1, <3>2, <1>0 DEF FindEquation, Meets, b, key
        <4>2. suffix = <<key>>
          BY <3>1, <3>2, SuffixOf DEF suffix, b
        <4>3. suffix \in SpeltBelow[n] <=> nodes[n].terminator
          BY <2>4, <4>2, SpeltSide DEF key
        <4>4. Plain(k)
          BY <3>1, <3>2, <1>0 DEF b
        <4> HIDE DEF Plain
        <4> QED
          BY <4>1, <4>3, <4>4 DEF suffix
      <3>3. CASE k # Len(w)
        <4>1. Meets(w, n, k) <=> Meets(w, nodes[n].c, k + 1)
          BY <2>2, <3>1, <3>3 DEF FindEquation, Meets, b, key
        <4>2. suffix = <<key>> \o Suffix(w, k + 1) /\ Suffix(w, k + 1) \in Texts
          <5>1. k < Len(w) /\ k + 1 \in 1 .. Len(w)
            BY <1>0, <3>3
          <5> QED
            BY <3>1, <5>1, SuffixOf DEF suffix, b, Texts
        <4>3. suffix \in SpeltBelow[n] <=> Suffix(w, k + 1) \in SpeltBelow[nodes[n].c]
          BY <2>4, <4>2, SpeltSide DEF key
        <4>4. Plain(k) <=> Plain(k + 1)
          <5>1. k .. Len(w) = {k} \union (k + 1 .. Len(w))
            BY <1>0
          <5> QED
            BY <5>1, <3>1 DEF b
        <4> HIDE DEF Plain
        <4> QED
          BY <2>1, <3>3, <4>1, <4>3, <4>4 DEF suffix
      <3> QED
        BY <3>2, <3>3
    <2>9. Signed(b) < key \/ Signed(b) > key \/ Signed(b) = key
      BY <2>3 DEF Signed, Byte
    <2> QED
      BY <2>6, <2>7, <2>8, <2>9
  <1>3. Ids \subseteq G
    <2> HIDE DEF G
    <2> QED
      BY <1>1, <1>2, TreeInduction
  <1> QED
    BY <1>3

\* A word in lower case has the letters of the word.
LEMMA LowerWord ==
  ASSUME NEW word \in Words
  PROVE  /\ word \in Seq(Byte) /\ Len(word) \in Nat \ {0} /\ word # <<>>
         /\ \A k \in 1 .. Len(word) : word[k] \in Byte /\ Lower(word)[k] = ToLower(word[k])
         /\ Lower(word) \in Texts /\ Len(Lower(word)) = Len(word)
  <1>1. word \in Seq(Byte) /\ word # <<>>
    BY TreeAssumption DEF Byte
  <1>2. Len(word) \in Nat \ {0} /\ \A k \in 1 .. Len(word) : word[k] \in Byte
    <2> HIDE DEF Byte
    <2> QED
      BY <1>1
  <1>3. \A k \in 1 .. Len(word) : ToLower(word[k]) \in Byte
    BY <1>2, LowerByte DEF Byte
  <1>4. Lower(word) \in Seq(Byte) /\ Len(Lower(word)) = Len(word)
        /\ \A k \in 1 .. Len(word) : Lower(word)[k] = ToLower(word[k])
    <2> HIDE DEF Byte
    <2> QED
      BY <1>2, <1>3 DEF Lower
  <1>5. Lower(word) # <<>>
    BY <1>2, <1>4
  <1> QED
    BY <1>1, <1>2, <1>4, <1>5 DEF Texts

\* Find finds the words of a sorted tree.
LEMMA FindFinds ==
  ASSUME TreeInv, SortedInv, NEW word \in Words
  PROVE  Find(Lower(word)) <=> Lower(word) \in Spelt /\ \A n \in 1 .. Len(word) : word[n] < 128
  <1> DEFINE w == Lower(word)
  <1>1. w \in Seq(Byte) /\ w # <<>> /\ Len(w) = Len(word) /\ 1 \in 1 .. Len(w)
    BY LowerWord DEF Texts
  <1>2. \A n \in 1 .. Len(word) : w[n] < 128 <=> word[n] < 128
    <2>1. \A n \in 1 .. Len(word) : word[n] \in Byte /\ w[n] = ToLower(word[n])
      BY LowerWord
    <2>2. \A b \in Byte : ToLower(b) < 128 <=> b < 128
      BY DEF ToLower, Byte
    <2> HIDE DEF w
    <2> QED
      BY <2>1, <2>2
  <1>3. root_ \in Ids
    BY DEF TreeInv, TreeTypeOK
  <1> HIDE DEF w
  <1>4. Meets(w, root_, 1) <=> Suffix(w, 1) \in SpeltBelow[root_] /\ \A n \in 1 .. Len(w) : w[n] < 128
    BY <1>1, <1>3, FindRight
  <1>5. Find(w) <=> Meets(w, root_, 1)
    BY DEF Find, FindNode, Meets
  <1>6. Suffix(w, 1) = w
    BY <1>1, SuffixOf
  <1> QED
    BY <1>1, <1>2, <1>4, <1>5, <1>6 DEF w, Spelt

-----------------------------------------------------------------------------
(***************************************************************************)
(* The insertions: until the terminator is set no word is added to what is *)
(* spelt, and then the one inserted is.                                    *)
(***************************************************************************)

\* What is spelt below a node does not change when all that changes is a link from
\* nowhere to nodes with no words.
LEMMA SameSpelt ==
  ASSUME TreeInv, TreeInv', Len(nodes') >= Len(nodes),
         \A n \in 1 .. Len(nodes) :
           /\ nodes'[n].key = nodes[n].key /\ nodes'[n].terminator = nodes[n].terminator
           /\ \A side \in Sides : \/ nodes'[n][side] = nodes[n][side]
                                  \/ nodes[n][side] = 0 /\ SpeltBelow'[nodes'[n][side]] = {}
  PROVE  \A n \in Ids : SpeltBelow'[n] = SpeltBelow[n]
  <1> DEFINE G == {n \in Ids : SpeltBelow'[n] = SpeltBelow[n]}
  <1>0. 0 \in Ids /\ \A n \in 1 .. Len(nodes) : n \in Ids /\ n \in 1 .. Len(nodes')
    BY DEF Ids, TreeInv, TreeTypeOK
  <1>1. /\ SpeltBelow[0] = {} /\ SpeltBelow'[0] = {}
        /\ \A n \in 1 .. Len(nodes) : SpeltBelow[n] = SpeltAt(n)
        /\ \A n \in 1 .. Len(nodes') : SpeltBelow'[n] = SpeltAt(n)'
    BY SpeltValue, SpeltValueAfter DEF SpeltEquations
  <1>2. 0 \in G
    BY <1>0, <1>1
  <1>3. ASSUME NEW n \in 1 .. Len(nodes), \A side \in Sides : nodes[n][side] \in G
        PROVE  n \in G
    <2>1. \A side \in Sides : SpeltBelow'[nodes'[n][side]] = SpeltBelow[nodes[n][side]]
      BY <1>1, <1>3
    <2>2. /\ SpeltBelow'[nodes'[n].l] = SpeltBelow[nodes[n].l]
          /\ SpeltBelow'[nodes'[n].c] = SpeltBelow[nodes[n].c]
          /\ SpeltBelow'[nodes'[n].r] = SpeltBelow[nodes[n].r]
      BY <2>1 DEF Sides
    <2>3. SpeltAt(n)' = SpeltAt(n)
      BY <2>2 DEF SpeltAt
    <2> QED
      BY <1>0, <1>1, <2>3
  <1>4. Ids \subseteq G
    <2> HIDE DEF G
    <2> QED
      BY <1>2, <1>3, TreeInduction
  <1> QED
    BY <1>4

\* A node that was allocated spells nothing yet.
LEMMA AllocSpelt ==
  ASSUME TreeInv, Alloc
  PROVE  /\ \A n \in Ids : SpeltBelow'[n] = SpeltBelow[n]
         /\ SpeltBelow'[Len(nodes) + 1] = {} /\ Spelt' = Spelt
  <1> DEFINE new == Len(nodes) + 1
             Down == [node : 1 .. Len(nodes), side : Sides]
             last == pending[Len(pending)]
  <1>1. /\ TreeInv' /\ Len(nodes) \in Nat /\ Len(nodes') = new /\ nodes'[new] = NewNode(rest[1])
        /\ root_' = 1 /\ (pending = <<>> => Len(nodes) = 0)
        /\ \A n \in 1 .. Len(nodes) :
             nodes'[n].key = nodes[n].key /\ nodes'[n].terminator = nodes[n].terminator
        /\ \A g \in Down : Child(g)' = IF pending # <<>> /\ g = last THEN new ELSE Child(g)
    BY AllocEffect, AllocInv
  <1>2. SpeltBelow'[new] = {}
    <2>1. ASSUME NEW n, n = new
          PROVE  SpeltBelow'[n] = {}
      <3>1. SpeltBelow'[0] = {} /\ SpeltBelow'[n] = SpeltAt(n)'
        BY <1>1, <2>1, SpeltValueAfter DEF SpeltEquations
      <3>2. nodes'[n].l = 0 /\ nodes'[n].r = 0 /\ nodes'[n].c = 0 /\ nodes'[n].terminator = FALSE
        BY <1>1, <2>1 DEF NewNode
      <3>3. SpeltAt(n)' = {}
        BY <3>1, <3>2 DEF SpeltAt
      <3> QED
        BY <3>1, <3>3
    <2> QED
      BY <2>1
  <1>3. ASSUME NEW n \in 1 .. Len(nodes), NEW side \in Sides
        PROVE  \/ nodes'[n][side] = nodes[n][side]
               \/ nodes[n][side] = 0 /\ SpeltBelow'[nodes'[n][side]] = {}
    <2> DEFINE g == [node |-> n, side |-> side]
    <2>1. g \in Down /\ Child(g) = nodes[n][side] /\ Child(g)' = nodes'[n][side]
      BY DEF Child
    <2>2. pending # <<>> /\ g = last => Child(g) = 0
      BY LastLink DEF Alloc
    <2> HIDE DEF g, Down, new
    <2> QED
      BY <1>1, <1>2, <2>1, <2>2
  <1>4. \A n \in Ids : SpeltBelow'[n] = SpeltBelow[n]
    <2>1. Len(nodes') >= Len(nodes)
      BY <1>1
    <2> QED
      BY <1>1, <1>3, <2>1, SameSpelt
  <1>5. Spelt' = Spelt
    <2>1. root_ = IF nodes = <<>> THEN 0 ELSE 1
      BY DEF TreeInv, PathInv
    <2>2. CASE pending = <<>>
      <3>1. root_ = 0 /\ root_' = new
        BY <2>1, <2>2, <1>1 DEF Alloc, Link
      <3>2. SpeltBelow[0] = {}
        BY SpeltValue DEF SpeltEquations
      <3> QED
        BY <3>1, <3>2, <1>2 DEF Spelt
    <2>3. CASE pending # <<>>
      <3>1. UNCHANGED root_ /\ root_ \in Ids
        BY <2>3 DEF Alloc, TreeInv, TreeTypeOK
      <3> QED
        BY <3>1, <1>4 DEF Spelt
    <2> QED
      BY <2>2, <2>3
  <1> QED
    BY <1>2, <1>4, <1>5

\* The nodes that the calls of Insert have come through.
PathNode(k) == IF k <= Len(pending) THEN pending[k].node ELSE Link

LEMMA PathFacts ==
  ASSUME TreeInv, Link # 0, pending # <<>> => pending[1].node = root_
  PROVE  /\ Len(pending) \in Nat /\ Link \in 1 .. Len(nodes)
         /\ \A k \in 1 .. Len(pending) :
              /\ pending[k] \in [node : 1 .. Len(nodes), side : Sides]
              /\ PathNode(k) = pending[k].node /\ Child(pending[k]) = PathNode(k + 1)
         /\ PathNode(Len(pending) + 1) = Link
         /\ PathNode(1) = root_ /\ root_ = 1
         /\ \A j, k \in 1 .. Len(pending) + 1 : PathNode(j) = PathNode(k) => j = k
         /\ \A g \in [node : 1 .. Len(nodes), side : Sides] : \A j \in 1 .. Len(pending) + 1 :
              Child(g) = PathNode(j) => j - 1 \in 1 .. Len(pending) /\ pending[j - 1] = g
  <1> DEFINE L == Len(pending)
             Down == [node : 1 .. Len(nodes), side : Sides]
  <1>1. /\ L \in Nat /\ Link \in 1 .. Len(nodes) /\ \A k \in 1 .. L : pending[k] \in Down
        /\ (pending = <<>> <=> L = 0) /\ Len(nodes) \in Nat
    BY LinkType DEF Ids, TreeInv, TreeTypeOK
  <1>2. root_ = 1
    <2>1. nodes # <<>>
      BY <1>1
    <2> QED
      BY <2>1 DEF TreeInv, PathInv
  <1>3. \A k \in 1 .. L : PathNode(k) = pending[k].node /\ Child(pending[k]) = PathNode(k + 1)
    <2> SUFFICES ASSUME NEW k \in 1 .. L
                 PROVE  PathNode(k) = pending[k].node /\ Child(pending[k]) = PathNode(k + 1)
      OBVIOUS
    <2>1. CASE k = L
      BY <2>1, <1>1, LastLink DEF PathNode
    <2>2. CASE k # L
      <3>1. k \in 1 .. L - 1 /\ k <= L /\ k + 1 <= L
        BY <2>2, <1>1
      <3> QED
        BY <3>1 DEF PathNode, TreeInv, PathInv
    <2> QED
      BY <2>1, <2>2
  <1>4. PathNode(L + 1) = Link
    BY <1>1 DEF PathNode
  <1>5. PathNode(1) = root_
    <2>1. CASE L = 0
      BY <2>1, <1>1 DEF PathNode, Link
    <2>2. CASE L # 0
      BY <2>2, <1>1, <1>3
    <2> QED
      BY <2>1, <2>2
  <1>6. \A k \in 1 .. L + 1 : PathNode(k) \in 1 .. Len(nodes)
    BY <1>1, <1>3, <1>4
  <1>7. ASSUME NEW j \in 1 .. L + 1, NEW k \in 1 .. L + 1, j < k
        PROVE  PathNode(j) < PathNode(k)
    <2>1. j \in 1 .. L
      BY <1>1, <1>7
    <2>2. CASE k = L + 1
      BY <2>1, <2>2, <1>3, <1>4, BelowLast
    <2>3. CASE k # L + 1
      <3>1. k \in 1 .. L
        BY <1>1, <2>3
      <3> QED
        BY <2>1, <3>1, <1>3, <1>7 DEF TreeInv, PathInv
    <2> QED
      BY <2>2, <2>3
  <1> HIDE DEF L
  <1>8. \A j, k \in 1 .. L + 1 : PathNode(j) = PathNode(k) => j = k
    <2> SUFFICES ASSUME NEW j \in 1 .. L + 1, NEW k \in 1 .. L + 1, PathNode(j) = PathNode(k)
                 PROVE  j = k
      OBVIOUS
    <2>1. ~ (PathNode(j) < PathNode(k)) /\ ~ (PathNode(k) < PathNode(j))
      BY <1>6
    <2>2. ~ (j < k) /\ ~ (k < j)
      BY <2>1, <1>7
    <2> QED
      BY <1>1, <2>2
  <1>9. ASSUME NEW g \in Down, NEW j \in 1 .. L + 1, Child(g) = PathNode(j)
        PROVE  j - 1 \in 1 .. L /\ pending[j - 1] = g
    <2>1. g \in Links /\ Child(g) > g.node /\ g.node \in 1 .. Len(nodes)
      BY <1>6, <1>9 DEF Links, TreeInv, NodesOwned
    <2>2. j # 1
      BY <2>1, <1>2, <1>5, <1>9
    <2>3. j - 1 \in 1 .. L /\ (j - 1) + 1 = j
      BY <1>1, <2>2
    <2>4. pending[j - 1] \in Down /\ Child(pending[j - 1]) = PathNode(j)
      BY <1>1, <1>3, <2>3
    <2>5. pending[j - 1] \in Links
      BY <2>4, <1>6 DEF Links
    <2> QED
      BY <2>1, <2>3, <2>4, <2>5, <1>9 DEF TreeInv, NodesOwned
  <1> QED
    BY <1>1, <1>2, <1>3, <1>4, <1>5, <1>8, <1>9 DEF L

\* What a call at node n adds to what is spelt there: the rest of the word.
Added(word, at, n) ==
  {Suffix(Lower(word), at[k]) : k \in {j \in 1 .. Len(pending) + 1 : PathNode(j) = n}}

\* That is what is added on its sides, what is added below it with its letter before it,
\* and at the last node the last letter.
AddedAt(word, at, n, x) ==
  \/ x \in Added(word, at, nodes[n].l)
  \/ x \in Added(word, at, nodes[n].r)
  \/ n = Link /\ x = <<nodes[n].key>>
  \/ \E v \in Added(word, at, nodes[n].c) : x = <<nodes[n].key>> \o v

LEMMA AddedStep ==
  ASSUME TreeInv, SetTerminator, NEW word \in Words,
         NEW at \in [1 .. Len(pending) + 1 -> 1 .. Len(word)], Gone(word, at),
         NEW n \in 1 .. Len(nodes), NEW x
  PROVE  x \in Added(word, at, n) <=> AddedAt(word, at, n, x)
  <1> DEFINE L == Len(pending)
             node == nodes[n]
             low == Lower(word)
             A(m) == Added(word, at, m)
             Down == [node : 1 .. Len(nodes), side : Sides]
  <1>1. /\ L \in Nat /\ Link \in 1 .. Len(nodes)
        /\ \A k \in 1 .. L : /\ pending[k] \in Down
                             /\ PathNode(k) = pending[k].node /\ Child(pending[k]) = PathNode(k + 1)
        /\ PathNode(L + 1) = Link
        /\ \A j, k \in 1 .. L + 1 : PathNode(j) = PathNode(k) => j = k
        /\ \A g \in Down : \A j \in 1 .. L + 1 :
             Child(g) = PathNode(j) => j - 1 \in 1 .. L /\ pending[j - 1] = g
    BY PathFacts DEF SetTerminator, Gone
  <1>2. \A k \in 1 .. L : /\ pending[k].side = SideOf(pending[k].node, word[at[k]])
                          /\ at[k + 1] = IF pending[k].side = "c" THEN at[k] + 1 ELSE at[k]
                          /\ k \in 1 .. L + 1 /\ k + 1 \in 1 .. L + 1
    BY <1>1 DEF Gone
  <1>3. /\ Len(word) \in Nat \ {0} /\ low \in Texts /\ Len(low) = Len(word)
        /\ \A k \in 1 .. Len(word) : word[k] \in Byte /\ low[k] = ToLower(word[k])
    BY LowerWord
  <1>4. \A k \in 1 .. L + 1 : at[k] \in 1 .. Len(word)
    OBVIOUS
  <1>5. \A m \in 1 .. Len(nodes) : nodes[m].key \in Byte
    <2>1. \A m \in 1 .. Len(nodes) : nodes[m] \in Node
      BY DEF TreeInv, TreeTypeOK
    <2> QED
      BY <2>1 DEF Node, Byte
  <1>6. \A m \in 1 .. Len(nodes), b \in Byte : SideOf(m, b) = "c" => nodes[m].key = ToLower(b)
    <2>1. \A b \in Byte : ToLower(b) \in Byte
      BY LowerByte DEF Byte
    <2>2. \A a, b \in Byte : ~ (a < b) /\ ~ (a > b) => a = b
      BY DEF Byte
    <2> HIDE DEF Byte
    <2> QED
      BY <2>1, <2>2, <1>5 DEF SideOf
  <1>7. low \in Seq(Byte)
    BY <1>3 DEF Texts
  <1> HIDE DEF low, L, A, Down
  \* A side of the node on which there is a node of the path ...
  <1>8. ASSUME NEW side \in Sides, NEW j \in 1 .. L + 1, node[side] = PathNode(j)
        PROVE  /\ j - 1 \in 1 .. L /\ PathNode(j - 1) = n /\ pending[j - 1].side = side
               /\ j - 1 \in 1 .. L + 1 /\ (j - 1) + 1 = j
    <2> DEFINE g == [node |-> n, side |-> side]
    <2>1. g \in Down /\ Child(g) = PathNode(j)
      BY <1>8 DEF Child, Down
    <2>2. j - 1 \in 1 .. L /\ pending[j - 1] = g
      BY <2>1, <1>1
    <2> QED
      BY <2>2, <1>1
  <1>9. ASSUME NEW k \in 1 .. L, pending[k].side = "c"
        PROVE  Suffix(low, at[k]) = <<nodes[pending[k].node].key>> \o Suffix(low, at[k + 1])
    <2>1. at[k + 1] = at[k] + 1 /\ at[k] \in 1 .. Len(word) /\ at[k + 1] \in 1 .. Len(word)
      BY <1>2, <1>4, <1>9
    <2>2. nodes[pending[k].node].key = low[at[k]]
      <3>1. word[at[k]] \in Byte /\ low[at[k]] = ToLower(word[at[k]])
        BY <1>3, <2>1
      <3>2. pending[k].node \in 1 .. Len(nodes)
        BY <1>1 DEF Down
      <3> QED
        BY <1>2, <1>6, <1>9, <3>1, <3>2
    <2>3. at[k] \in 1 .. Len(low) /\ at[k] < Len(low)
      BY <1>3, <2>1
    <2> DEFINE i == at[k]
    <2>4. i \in 1 .. Len(low) /\ i < Len(low)
      BY <2>3
    <2> HIDE DEF i
    <2>5. Suffix(low, i) = <<low[i]>> \o Suffix(low, i + 1)
      BY <2>4, <1>7, SuffixOf
    <2> QED
      BY <2>1, <2>2, <2>5 DEF i
  <1>10. /\ nodes[Link].key = low[at[L + 1]] /\ Suffix(low, at[L + 1]) = <<nodes[Link].key>>
    <2>1. rest = Suffix(word, at[L + 1]) /\ Len(rest) = 1 /\ SideOf(Link, rest[1]) = "c"
      BY DEF Gone, SetTerminator, L
    <2>2. at[L + 1] \in 1 .. Len(word) /\ word \in Seq(Byte)
      BY <1>1, <1>4, LowerWord
    <2>3. Len(rest) = Len(word) - at[L + 1] + 1 /\ rest[1] = word[at[L + 1]]
      BY <2>1, <2>2, SuffixOf
    <2> DEFINE i == at[L + 1]
    <2>4. i = Len(word)
      <3>1. i \in 1 .. Len(word) /\ 1 = Len(word) - i + 1 /\ Len(word) \in Nat
        BY <2>1, <2>2, <2>3, <1>3
      <3> HIDE DEF i
      <3> QED
        BY <3>1
    <2>5. nodes[Link].key = low[at[L + 1]]
      BY <2>1, <2>2, <2>3, <1>1, <1>3, <1>6
    <2>6. Suffix(low, at[L + 1]) = <<low[at[L + 1]]>>
      <3>1. i \in 1 .. Len(low) /\ i = Len(low)
        BY <2>2, <2>4, <1>3
      <3> HIDE DEF i
      <3>2. Suffix(low, i) = <<low[i]>>
        BY <3>1, <1>7, SuffixOf
      <3> QED
        BY <3>2 DEF i
    <2> QED
      BY <2>5, <2>6
  <1>11. \A m, y : y \in A(m) <=> \E k \in 1 .. L + 1 : PathNode(k) = m /\ y = Suffix(low, at[k])
    BY DEF A, Added, L, low
  <1>12. ASSUME x \in A(n)
         PROVE  \/ x \in A(node.l) \/ x \in A(node.r)
                \/ n = Link /\ x = <<node.key>>
                \/ \E v \in A(node.c) : x = <<node.key>> \o v
    <2>1. PICK k \in 1 .. L + 1 : PathNode(k) = n /\ x = Suffix(low, at[k])
      BY <1>11, <1>12
    <2>2. CASE k = L + 1
      BY <2>1, <2>2, <1>1, <1>10
    <2>3. CASE k # L + 1
      <3>1. k \in 1 .. L
        BY <2>3, <1>1
      <3>2. /\ pending[k].side \in Sides /\ pending[k].node = n
            /\ node[pending[k].side] = PathNode(k + 1) /\ k + 1 \in 1 .. L + 1
        BY <3>1, <2>1, <1>1, <1>2 DEF Child, Down
      <3>3. Suffix(low, at[k + 1]) \in A(node[pending[k].side])
        BY <3>2, <1>11
      <3>4. CASE pending[k].side = "c"
        BY <3>1, <3>2, <3>3, <3>4, <2>1, <1>9
      <3>5. CASE pending[k].side # "c"
        BY <3>1, <3>2, <3>3, <3>5, <2>1, <1>2 DEF Sides
      <3> QED
        BY <3>4, <3>5
    <2> QED
      BY <2>2, <2>3
  <1>13. ASSUME NEW side \in {"l", "r"}, x \in A(node[side])
         PROVE  x \in A(n)
    <2>1. PICK j \in 1 .. L + 1 : PathNode(j) = node[side] /\ x = Suffix(low, at[j])
      BY <1>11, <1>13
    <2>2. side \in Sides /\ side # "c"
      BY DEF Sides
    <2>3. /\ j - 1 \in 1 .. L /\ PathNode(j - 1) = n /\ pending[j - 1].side = side
          /\ j - 1 \in 1 .. L + 1 /\ (j - 1) + 1 = j
      BY <2>1, <2>2, <1>8
    <2>4. at[j] = at[j - 1]
      BY <2>2, <2>3, <1>2
    <2> QED
      BY <2>1, <2>3, <2>4, <1>11
  <1>14. ASSUME NEW v \in A(node.c), x = <<node.key>> \o v
         PROVE  x \in A(n)
    <2>1. PICK j \in 1 .. L + 1 : PathNode(j) = node.c /\ v = Suffix(low, at[j])
      BY <1>11, <1>14
    <2>2. /\ j - 1 \in 1 .. L /\ PathNode(j - 1) = n /\ pending[j - 1].side = "c"
          /\ j - 1 \in 1 .. L + 1 /\ (j - 1) + 1 = j
      <3>1. "c" \in Sides /\ node["c"] = PathNode(j)
        BY <2>1 DEF Sides
      <3> QED
        BY <3>1, <1>8
    <2>3. pending[j - 1].node = n
      BY <2>2, <1>1
    <2>4. Suffix(low, at[j - 1]) = x
      BY <2>1, <2>2, <2>3, <1>9, <1>14
    <2> QED
      BY <2>2, <2>4, <1>11
  <1>15. n = Link /\ x = <<node.key>> => x \in A(n)
    BY <1>1, <1>10, <1>11
  <1> HIDE DEF node
  <1>16. x \in A(node.l) => x \in A(n)
    BY <1>13 DEF node
  <1>17. x \in A(node.r) => x \in A(n)
    BY <1>13 DEF node
  <1> QED
    BY <1>12, <1>14, <1>15, <1>16, <1>17 DEF A, node, AddedAt

\* The terminator flag adds to what is spelt at a node what the word adds there, and so
\* the word to the tree.
LEMMA TerminatorSpelt ==
  ASSUME TreeInv, SetTerminator, NEW word \in Words,
         NEW at \in [1 .. Len(pending) + 1 -> 1 .. Len(word)], Gone(word, at)
  PROVE  /\ \A n \in Ids : SpeltBelow'[n] = SpeltBelow[n] \union Added(word, at, n)
         /\ Spelt' = Spelt \union {Lower(word)}
  <1> DEFINE A(m) == Added(word, at, m)
             G == {n \in Ids : SpeltBelow'[n] = SpeltBelow[n] \union A(n)}
  <1>0. /\ TreeInv' /\ 0 \in Ids /\ Len(nodes') = Len(nodes)
        /\ \A n \in 1 .. Len(nodes) :
             /\ n \in Ids /\ nodes'[n].key = nodes[n].key
             /\ \A side \in Sides : nodes'[n][side] = nodes[n][side]
             /\ nodes'[n].terminator = (n = Link \/ nodes[n].terminator)
    BY SetTerminatorInv, TerminatorEffect DEF Ids, TreeInv, TreeTypeOK
  <1>1. /\ SpeltBelow[0] = {} /\ SpeltBelow'[0] = {}
        /\ \A n \in 1 .. Len(nodes) : SpeltBelow[n] = SpeltAt(n)
        /\ \A n \in 1 .. Len(nodes) : SpeltBelow'[n] = SpeltAt(n)'
    BY <1>0, SpeltValue, SpeltValueAfter DEF SpeltEquations
  <1>2. /\ Len(pending) \in Nat /\ Link \in 1 .. Len(nodes) /\ root_ = 1
        /\ PathNode(1) = root_ /\ PathNode(Len(pending) + 1) = Link
        /\ \A k \in 1 .. Len(pending) : pending[k].node \in 1 .. Len(nodes)
                                        /\ PathNode(k) = pending[k].node
        /\ \A j, k \in 1 .. Len(pending) + 1 : PathNode(j) = PathNode(k) => j = k
    BY PathFacts DEF SetTerminator, Gone
  <1>3. \A k \in 1 .. Len(pending) + 1 : PathNode(k) \in 1 .. Len(nodes)
    BY <1>2
  <1>4. 0 \in G
    <2>1. A(0) = {}
      BY <1>3 DEF Added
    <2> QED
      BY <1>0, <1>1, <2>1
  <1>5. ASSUME NEW n \in 1 .. Len(nodes), \A side \in Sides : nodes[n][side] \in G
        PROVE  n \in G
    <2> DEFINE node == nodes[n]
               B(m) == SpeltBelow[m]
               C(m) == SpeltBelow'[m]
    <2> HIDE DEF A
    <2>1. C(node.l) = B(node.l) \union A(node.l) /\ C(node.c) = B(node.c) \union A(node.c)
          /\ C(node.r) = B(node.r) \union A(node.r)
      BY <1>5 DEF Sides
    <2>2. SpeltAt(n)' = C(node.l) \union C(node.r)
                        \union (IF n = Link \/ node.terminator THEN {<<node.key>>} ELSE {})
                        \union {<<node.key>> \o w : w \in C(node.c)}
      <3>1. /\ nodes'[n].l = node.l /\ nodes'[n].c = node.c /\ nodes'[n].r = node.r
            /\ nodes'[n].key = node.key /\ nodes'[n].terminator = (n = Link \/ node.terminator)
        BY <1>0 DEF Sides
      <3> HIDE DEF node
      <3> QED
        BY <3>1 DEF SpeltAt
    <2>3. SpeltAt(n) = B(node.l) \union B(node.r)
                       \union (IF node.terminator THEN {<<node.key>>} ELSE {})
                       \union {<<node.key>> \o w : w \in B(node.c)}
      BY DEF SpeltAt
    <2>4. \A x : x \in A(n) <=>
            \/ x \in A(node.l) \/ x \in A(node.r) \/ (n = Link /\ x = <<node.key>>)
            \/ \E v \in A(node.c) : x = <<node.key>> \o v
      <3> SUFFICES ASSUME NEW x
                   PROVE  x \in A(n) <=>
                            \/ x \in A(node.l) \/ x \in A(node.r) \/ (n = Link /\ x = <<node.key>>)
                            \/ \E v \in A(node.c) : x = <<node.key>> \o v
        OBVIOUS
      <3>1. x \in Added(word, at, n) <=> AddedAt(word, at, n, x)
        BY AddedStep
      <3> QED
        BY <3>1, Zenon DEF A, AddedAt
    <2> HIDE DEF node, B, C
    <2>5. SpeltAt(n)' = SpeltAt(n) \union A(n)
      <3>1. \A x : x \in SpeltAt(n)' <=>
              \/ x \in C(node.l) \/ x \in C(node.r) \/ ((n = Link \/ node.terminator) /\ x = <<node.key>>)
              \/ \E v \in C(node.c) : x = <<node.key>> \o v
        <4> DEFINE key == node.key
                   ends == n = Link \/ node.terminator
        <4>0. ends \in BOOLEAN
          OBVIOUS
        <4> DEFINE some == {<<key>> \o w : w \in C(node.c)}
        <4>1. \A x : x \in some <=> \E v \in C(node.c) : x = <<key>> \o v
          OBVIOUS
        <4>2. SpeltAt(n)' = C(node.l) \union C(node.r) \union (IF ends THEN {<<key>>} ELSE {})
                            \union some
          BY <2>2
        <4> HIDE DEF some, ends
        <4>3. \A x : x \in SpeltAt(n)' <=>
                \/ x \in C(node.l) \/ x \in C(node.r) \/ (ends /\ x = <<key>>) \/ x \in some
          BY <4>0, <4>2
        <4> QED
          BY <4>1, <4>3 DEF ends
      <3>2. \A x : x \in SpeltAt(n) <=>
              \/ x \in B(node.l) \/ x \in B(node.r) \/ (node.terminator /\ x = <<node.key>>)
              \/ \E v \in B(node.c) : x = <<node.key>> \o v
        <4> DEFINE key == node.key
                   some == {<<key>> \o w : w \in B(node.c)}
        <4>1. \A x : x \in some <=> \E v \in B(node.c) : x = <<key>> \o v
          OBVIOUS
        <4>2. SpeltAt(n) = B(node.l) \union B(node.r)
                           \union (IF node.terminator THEN {<<key>>} ELSE {}) \union some
          BY <2>3
        <4>0. node.terminator \in BOOLEAN
          <5>1. nodes[n] \in Node
            BY DEF TreeInv, TreeTypeOK
          <5> QED
            BY <5>1 DEF Node, node
        <4> HIDE DEF some
        <4>3. \A x : x \in SpeltAt(n) <=>
                \/ x \in B(node.l) \/ x \in B(node.r) \/ (node.terminator /\ x = <<key>>) \/ x \in some
          BY <4>0, <4>2
        <4> QED
          BY <4>1, <4>3
      <3>3. \A x : x \in SpeltAt(n)' <=> x \in SpeltAt(n) \/ x \in A(n)
        BY <3>1, <3>2, <2>1, <2>4
      <3> QED
        BY <3>3
    <2> QED
      BY <1>0, <1>1, <2>5
  <1>6. Ids \subseteq G
    <2> HIDE DEF G
    <2> QED
      BY <1>4, <1>5, TreeInduction
  <1>7. Spelt' = Spelt \union {Lower(word)}
    <2>1. root_ \in Ids /\ UNCHANGED root_
      BY DEF TreeInv, TreeTypeOK, SetTerminator
    <2>2. A(root_) = {Lower(word)}
      <3>1. \A k \in 1 .. Len(pending) + 1 : PathNode(k) = root_ <=> k = 1
        BY <1>2
      <3>2. 1 \in 1 .. Len(pending) + 1
        BY <1>2
      <3>3. Suffix(Lower(word), at[1]) = Lower(word)
        <4>1. at[1] = 1 /\ Lower(word) \in Seq(Byte) /\ 1 \in 1 .. Len(Lower(word))
          BY LowerWord DEF Gone, Texts
        <4> QED
          BY <4>1, SuffixOf
      <3> QED
        BY <3>1, <3>2, <3>3 DEF Added
    <2> HIDE DEF A
    <2> QED
      BY <2>1, <2>2, <1>6 DEF Spelt
  <1> QED
    BY <1>6, <1>7

\* The words do not depend on the parents.
LEMMA QuietSpelt ==
  ASSUME TreeInv, TreeInv', SetParent \/ UNCHANGED <<nodes, root_>>
  PROVE  Spelt' = Spelt /\ (SortedInv => SortedInv')
  <1>0. /\ root_ \in Ids /\ UNCHANGED root_ /\ Len(nodes) \in Nat /\ Len(nodes') = Len(nodes)
        /\ \A n \in 1 .. Len(nodes) :
             /\ nodes'[n].key = nodes[n].key /\ nodes'[n].terminator = nodes[n].terminator
             /\ \A side \in Sides : nodes'[n][side] = nodes[n][side]
    <2>1. root_ \in Ids /\ Len(nodes) \in Nat
      BY DEF TreeInv, TreeTypeOK
    <2>2. CASE SetParent
      BY <2>1, <2>2, ParentEffect DEF SetParent
    <2>3. CASE UNCHANGED <<nodes, root_>>
      BY <2>1, <2>3
    <2> QED
      BY <2>2, <2>3
  <1>1. \A n \in Ids : SpeltBelow'[n] = SpeltBelow[n]
    <2>1. Len(nodes') >= Len(nodes)
      BY <1>0
    <2> QED
      BY <1>0, <2>1, SameSpelt
  <1>2. Spelt' = Spelt
    BY <1>0, <1>1 DEF Spelt
  <1>3. ASSUME SortedInv, NEW n \in 1 .. Len(nodes)
        PROVE  /\ \A w \in SpeltBelow'[nodes'[n].l] : w[1] < nodes'[n].key
               /\ \A w \in SpeltBelow'[nodes'[n].r] : w[1] > nodes'[n].key
    <2>1. /\ nodes'[n].l = nodes[n].l /\ nodes'[n].r = nodes[n].r
          /\ nodes[n].l \in Ids /\ nodes[n].r \in Ids
      BY <1>0, Younger DEF Sides
    <2> QED
      BY <2>1, <1>0, <1>1, <1>3 DEF SortedInv
  <1> QED
    BY <1>0, <1>2, <1>3 DEF SortedInv

\* A new node has nothing on its sides.
LEMMA AllocSorted ==
  ASSUME TreeInv, SortedInv, Alloc
  PROVE  SortedInv'
  <1> DEFINE Down == [node : 1 .. Len(nodes), side : Sides]
             last == pending[Len(pending)]
  <1>1. /\ TreeInv' /\ Len(nodes) \in Nat /\ Len(nodes') = Len(nodes) + 1
        /\ nodes'[Len(nodes) + 1] = NewNode(rest[1])
        /\ \A n \in 1 .. Len(nodes) : nodes'[n].key = nodes[n].key
        /\ \A g \in Down : Child(g)' = IF pending # <<>> /\ g = last THEN Len(nodes) + 1 ELSE Child(g)
    BY AllocEffect, AllocInv
  <1>2. /\ \A n \in Ids : SpeltBelow'[n] = SpeltBelow[n]
        /\ SpeltBelow'[Len(nodes) + 1] = {} /\ SpeltBelow[0] = {} /\ SpeltBelow'[0] = {}
    BY <1>1, AllocSpelt, SpeltValue, SpeltValueAfter DEF SpeltEquations
  <1>3. ASSUME NEW n \in 1 .. Len(nodes), NEW side \in Sides
        PROVE  SpeltBelow'[nodes'[n][side]] = SpeltBelow[nodes[n][side]]
    <2> DEFINE g == [node |-> n, side |-> side]
    <2>1. g \in Down /\ Child(g) = nodes[n][side] /\ Child(g)' = nodes'[n][side]
      BY DEF Child
    <2>2. nodes[n][side] \in Ids
      BY Younger
    <2>3. pending # <<>> /\ g = last => Child(g) = 0
      BY LastLink DEF Alloc
    <2> HIDE DEF g, Down
    <2> QED
      BY <1>1, <1>2, <2>1, <2>2, <2>3
  <1>4. ASSUME NEW n \in 1 .. Len(nodes')
        PROVE  /\ \A w \in SpeltBelow'[nodes'[n].l] : w[1] < nodes'[n].key
               /\ \A w \in SpeltBelow'[nodes'[n].r] : w[1] > nodes'[n].key
    <2>1. CASE n \in 1 .. Len(nodes)
      <3>1. SpeltBelow'[nodes'[n].l] = SpeltBelow[nodes[n].l]
            /\ SpeltBelow'[nodes'[n].r] = SpeltBelow[nodes[n].r]
        BY <1>3, <2>1 DEF Sides
      <3> QED
        BY <1>1, <2>1, <3>1 DEF SortedInv
    <2>2. CASE n = Len(nodes) + 1
      BY <1>1, <1>2, <2>2 DEF NewNode
    <2> QED
      BY <1>1, <2>1, <2>2
  <1> QED
    BY <1>4 DEF SortedInv

\* A word that is added is added on the sides where it belongs.
LEMMA TerminatorSorted ==
  ASSUME TreeInv, SortedInv, SetTerminator, NEW word \in Words, Going(word)
  PROVE  SortedInv' /\ Spelt' = Spelt \union {Lower(word)}
  <1>1. PICK at \in [1 .. Len(pending) + 1 -> 1 .. Len(word)] : Gone(word, at)
    BY DEF Going
  <1>2. /\ \A n \in Ids : SpeltBelow'[n] = SpeltBelow[n] \union Added(word, at, n)
        /\ Spelt' = Spelt \union {Lower(word)}
    BY <1>1, TerminatorSpelt
  <1>3. /\ Len(nodes') = Len(nodes)
        /\ \A n \in 1 .. Len(nodes) :
             nodes'[n].key = nodes[n].key /\ \A side \in Sides : nodes'[n][side] = nodes[n][side]
    BY TerminatorEffect
  \* What is added on a side begins with a letter that belongs there.
  <1>4. ASSUME NEW n \in 1 .. Len(nodes), NEW side \in {"l", "r"},
               NEW w \in Added(word, at, nodes[n][side])
        PROVE  (side = "l" => w[1] < nodes[n].key) /\ (side = "r" => w[1] > nodes[n].key)
    <2> DEFINE L == Len(pending)
               low == Lower(word)
    <2>1. PICK j \in 1 .. L + 1 : PathNode(j) = nodes[n][side] /\ w = Suffix(low, at[j])
      BY <1>4 DEF Added
    <2>2. j - 1 \in 1 .. L /\ pending[j - 1] = [node |-> n, side |-> side] /\ (j - 1) + 1 = j
      <3> DEFINE g == [node |-> n, side |-> side]
      <3>1. g \in [node : 1 .. Len(nodes), side : Sides] /\ Child(g) = PathNode(j)
        BY <2>1 DEF Sides, Child
      <3>2. L \in Nat /\ j - 1 \in 1 .. L /\ pending[j - 1] = g
        BY <3>1, <1>1, PathFacts DEF Gone, SetTerminator
      <3> QED
        BY <3>2
    <2>3. side = SideOf(n, word[at[j - 1]]) /\ at[j] = at[j - 1] /\ at[j] \in 1 .. Len(word)
      <3>1. pending[j - 1].node = n /\ pending[j - 1].side = side /\ side # "c"
        BY <2>2
      <3> QED
        BY <1>1, <2>2, <3>1 DEF Gone
    <2>4. w[1] = ToLower(word[at[j]])
      <3>1. low \in Seq(Byte) /\ Len(low) = Len(word) /\ low[at[j]] = ToLower(word[at[j]])
        BY <2>3, LowerWord DEF Texts
      <3> DEFINE i == at[j]
      <3>2. i \in 1 .. Len(low)
        BY <2>3, <3>1
      <3> HIDE DEF i, low
      <3>3. Suffix(low, i)[1] = low[i]
        BY <3>1, <3>2, SuffixOf
      <3> QED
        BY <2>1, <3>1, <3>3 DEF i
    <2> QED
      BY <2>3, <2>4 DEF SideOf
  <1>5. ASSUME NEW n \in 1 .. Len(nodes)
        PROVE  /\ \A w \in SpeltBelow'[nodes'[n].l] : w[1] < nodes'[n].key
               /\ \A w \in SpeltBelow'[nodes'[n].r] : w[1] > nodes'[n].key
    <2>1. /\ nodes'[n].l = nodes[n].l /\ nodes'[n].r = nodes[n].r /\ nodes'[n].key = nodes[n].key
          /\ nodes[n].l \in Ids /\ nodes[n].r \in Ids
      BY <1>3, Younger DEF Sides
    <2>2. /\ \A w \in Added(word, at, nodes[n].l) : w[1] < nodes[n].key
          /\ \A w \in Added(word, at, nodes[n].r) : w[1] > nodes[n].key
      BY <1>4
    <2> QED
      BY <2>1, <2>2, <1>2 DEF SortedInv
  <1> QED
    BY <1>2, <1>3, <1>5 DEF SortedInv

\* An insertion goes on to where its letters belong.
LEMMA GoingStays ==
  ASSUME TreeInv, Alloc \/ Descend, NEW word \in Words, Going(word)
  PROVE  Going(word)' /\ rest' # <<>>
  <1> DEFINE L == Len(pending)
             Down == [node : 1 .. Len(nodes), side : Sides]
  <1>1. PICK at \in [1 .. L + 1 -> 1 .. Len(word)] : Gone(word, at)
    BY DEF Going
  <1>2. /\ L \in Nat /\ (pending = <<>> <=> L = 0) /\ \A k \in 1 .. L : pending[k] \in Down
        /\ pending \in Seq(Down)
    BY LinkType DEF TreeInv, TreeTypeOK
  <1>3. word \in Seq(Byte) /\ Len(word) \in Nat
    BY LowerWord
  <1>4. CASE Alloc
    <2>1. UNCHANGED <<rest, pending>> /\ rest # <<>>
      BY <1>4 DEF Alloc
    <2>2. \A n \in 1 .. Len(nodes) : nodes'[n].key = nodes[n].key
      BY <1>4, AllocEffect
    <2>3. pending # <<>> => root_' = root_
      BY <1>4 DEF Alloc
    <2>4. \A k \in 1 .. L : SideOf(pending[k].node, word[at[k]])' = SideOf(pending[k].node, word[at[k]])
      BY <1>2, <2>1, <2>2 DEF SideOf
    <2>5. Gone(word, at)'
      BY <1>1, <2>1, <2>3, <2>4 DEF Gone
    <2> QED
      BY <2>1, <2>5 DEF Going
  <1>5. CASE Descend
    <2> DEFINE side == SideOf(Link, rest[1])
               link == [node |-> Link, side |-> side]
               i == at[L + 1]
               next == IF side = "c" THEN i + 1 ELSE i
    <2>1. /\ rest # <<>> /\ Link # 0 /\ pending' = Append(pending, link)
          /\ (side = "c" => Len(rest) > 1 /\ rest' = Tail(rest)) /\ (side # "c" => rest' = rest)
          /\ UNCHANGED <<nodes, root_>>
      BY <1>5 DEF Descend
    <2>2. i \in 1 .. Len(word) /\ rest = Suffix(word, i)
      BY <1>1, <1>2 DEF Gone
    <2>3. next \in 1 .. Len(word) /\ rest' = Suffix(word, next) /\ rest[1] = word[i] /\ rest' # <<>>
      <3> HIDE DEF i, side
      <3>1. Len(rest) = Len(word) - i + 1 /\ rest[1] = word[i] /\ rest # <<>>
            /\ (i < Len(word) => Tail(rest) = Suffix(word, i + 1))
        BY <1>3, <2>2, SuffixOf
      <3>2. CASE side = "c"
        <4>1. next = i + 1 /\ i < Len(word) /\ next \in 1 .. Len(word)
          BY <1>3, <2>1, <2>2, <3>1, <3>2
        <4>2. rest' = Suffix(word, next)
          BY <2>1, <3>1, <3>2, <4>1
        <4> HIDE DEF next
        <4>3. Suffix(word, next) # <<>>
          BY <1>3, <4>1, SuffixOf
        <4> QED
          BY <3>1, <4>1, <4>2, <4>3
      <3>3. CASE side # "c"
        BY <2>1, <2>2, <3>1, <3>3
      <3> QED
        BY <3>2, <3>3
    <2> HIDE DEF next
    <2>4. PICK to : to = [k \in 1 .. L + 2 |-> IF k = L + 2 THEN next ELSE at[k]]
      OBVIOUS
    <2>5. /\ to \in [1 .. L + 2 -> 1 .. Len(word)] /\ to[L + 2] = next
          /\ \A k \in 1 .. L + 1 : to[k] = at[k]
      BY <2>3, <2>4, <1>2
    <2>6. /\ Len(pending') = L + 1 /\ pending'[L + 1] = link
          /\ \A k \in 1 .. L : pending'[k] = pending[k]
      <3> HIDE DEF Down
      <3> QED
        BY <1>2, <2>1
    <2>7. pending'[1].node = root_
      <3>1. CASE L = 0
        <4>1. pending = <<>>
          BY <1>2, <3>1
        <4>2. Link = root_
          BY <4>1 DEF Link
        <4>3. pending'[1] = link
          BY <3>1, <2>6
        <4> QED
          BY <4>2, <4>3
      <3>2. CASE L # 0
        <4>1. 1 \in 1 .. L /\ pending # <<>>
          BY <1>2, <3>2
        <4> QED
          BY <4>1, <2>6, <1>1 DEF Gone
      <3> QED
        BY <3>1, <3>2
    <2>8. ASSUME NEW k \in 1 .. L + 1
          PROVE  /\ pending'[k].side = SideOf(pending'[k].node, word[to[k]])
                 /\ to[k + 1] = IF pending'[k].side = "c" THEN to[k] + 1 ELSE to[k]
      <3>1. CASE k = L + 1
        <4>1. k + 1 = L + 2 /\ to[k] = i /\ to[k + 1] = next /\ pending'[k] = link
          BY <3>1, <2>5, <2>6, <1>2
        <4> QED
          BY <4>1, <2>3 DEF next
      <3>2. CASE k # L + 1
        <4>1. k \in 1 .. L /\ k + 1 \in 1 .. L + 1
          BY <3>2, <1>2
        <4> QED
          BY <4>1, <2>5, <2>6, <1>1 DEF Gone
      <3> QED
        BY <3>1, <3>2
    <2>9. Gone(word, to)'
      <3>1. to[1] = 1 /\ Len(pending') + 1 = L + 2
        BY <1>1, <1>2, <2>5, <2>6 DEF Gone
      <3>2. \A k \in 1 .. Len(pending') :
              /\ pending'[k].side = SideOf(pending'[k].node, word[to[k]])
              /\ to[k + 1] = IF pending'[k].side = "c" THEN to[k] + 1 ELSE to[k]
        BY <2>6, <2>8
      <3> HIDE DEF link, side, L
      <3> QED
        BY <2>1, <2>3, <2>5, <2>7, <3>1, <3>2 DEF Gone, SideOf
    <2>10. to \in [1 .. Len(pending') + 1 -> 1 .. Len(word)]
      <3>1. Len(pending') + 1 = L + 2
        BY <1>2, <2>6
      <3> QED
        BY <3>1, <2>5
    <2> QED
      BY <2>3, <2>9, <2>10 DEF Going
  <1> QED
    BY <1>4, <1>5

-----------------------------------------------------------------------------
(***************************************************************************)
(* The words that the reader reads.                                        *)
(***************************************************************************)

\* After every step the words of the tree, with the one that is being inserted, are those
\* of the lines that were read.
LEMMA WordsStays ==
  ASSUME ReaderInv, TreeInv, TreeInv', WordsInv, [Next]_vars
  PROVE  WordsInv'
  <1>1. current <= Len(files) =>
          /\ Lines \in Seq(Words) /\ start \in Nat /\ start <= Len(Lines) /\ Len(Lines) \in Nat
          /\ \A k \in 1 .. Len(Lines) : Lines[k] \in Words
    <2> SUFFICES ASSUME current <= Len(files)
                 PROVE  /\ Lines \in Seq(Words) /\ start \in Nat /\ start <= Len(Lines)
                        /\ Len(Lines) \in Nat /\ \A k \in 1 .. Len(Lines) : Lines[k] \in Words
      OBVIOUS
    <2>1. Lines \in Seq(Words) /\ start \in Nat /\ start <= Len(Lines)
      BY LineIsWord
    <2> QED
      BY <2>1
  <1>2. UNCHANGED <<files, current>> => UNCHANGED <<Lines, start>>
    BY DEF Lines, start, GetWordCount
  \* What is read, when a line more is: ...
  <1>3. UNCHANGED files
    BY DEF Next, Reading, Open, ReadSecondHalf, Rewind, ReadFirstHalf, CloseFile, Lookup, Destroy,
           Inserting, Ended, vars, readerVars
  <1>4. UNCHANGED current => WordsRead' = (UNION {WordsOf(n) : n \in 1 .. current - 1})
                                          \union {Lower(Lines[k]) : k \in LinesRead'}
    BY <1>2, <1>3 DEF WordsRead, WordsOf
  <1>5. ASSUME UNCHANGED current, LinesRead' = LinesRead
        PROVE  WordsRead' = WordsRead
    BY <1>4, <1>5 DEF WordsRead
  <1>6. ASSUME UNCHANGED current, LinesRead' = LinesRead \union {position}
        PROVE  WordsRead' = WordsRead \union {Lower(Lines[position])}
    BY <1>4, <1>6 DEF WordsRead
  \* ... and what is in the tree, when the tree is left alone.
  <1>7. ASSUME UNCHANGED <<nodes, root_, rest>>, rest = <<>>, WordsRead' = WordsRead
        PROVE  WordsInv'
    BY <1>7, QuietSpelt DEF WordsInv
  <1>8. ASSUME NEW word \in Words, Insert(word), WordsRead' = WordsRead \union {Lower(word)}
        PROVE  WordsInv'
    <2>1. /\ rest = <<>> /\ pending' = <<>> /\ rest' = word
          /\ UNCHANGED <<nodes, root_>>
      BY <1>8 DEF Insert
    <2>2. Spelt = WordsRead /\ SortedInv /\ Spelt' = Spelt /\ SortedInv'
      BY <2>1, QuietSpelt DEF WordsInv
    <2>3. word \in Seq(Byte) /\ Len(word) \in Nat \ {0} /\ word # <<>>
      BY LowerWord
    <2>4. PICK at : at = [k \in 1 .. 1 |-> 1]
      OBVIOUS
    <2>5. Gone(word, at)'
      <3>1. at[1] = 1 /\ Len(pending') = 0 /\ Suffix(word, 1) = word
        <4>1. 1 \in 1 .. Len(word)
          BY <2>3
        <4>2. Suffix(word, 1) = word
          BY <2>3, <4>1, SuffixOf
        <4> QED
          BY <2>1, <2>4, <4>2
      <3> QED
        BY <2>1, <3>1 DEF Gone
    <2>6. at \in [1 .. Len(pending') + 1 -> 1 .. Len(word)]
      BY <2>1, <2>3, <2>4
    <2>7. Going(word)'
      BY <2>5, <2>6 DEF Going
    <2> QED
      BY <2>1, <2>2, <2>3, <2>7, <1>8 DEF WordsInv
  <1>9. CASE Open
    <2>1. rest = <<>> /\ UNCHANGED <<nodes, root_, rest>>
      BY <1>9 DEF Open, ReaderInv, Idle, treeVars, insertVars
    <2>2. LinesRead' = LinesRead
      BY <1>1, <1>2, <1>9 DEF Open, LinesRead
    <2> QED
      BY <2>1, <2>2, <1>5, <1>7, <1>9 DEF Open
  <1>10. CASE ReadSecondHalf
    <2>1. /\ rest = <<>> /\ position \in 1 .. Len(Lines) /\ Lines[position] \in Words
          /\ UNCHANGED <<files, current, pc>> /\ position' = position + 1 /\ start \in Nat
          /\ position \in start + 1 .. Len(Lines) + 1
      BY <1>1, <1>10 DEF ReadSecondHalf, ReaderInv, Idle
    <2>2. LinesRead' = LinesRead \union {position}
      BY <2>1, <1>1, <1>2, <1>10 DEF ReadSecondHalf, LinesRead, ReaderInv
    <2>3. WordsRead' = WordsRead \union {Lower(Lines[position])}
      BY <2>1, <2>2, <1>6
    <2>4. CASE Find(Lower(Lines[position]))
      <3>1. UNCHANGED <<nodes, root_, rest>>
        BY <2>4, <1>10 DEF ReadSecondHalf, treeVars, insertVars
      <3>2. Lower(Lines[position]) \in Spelt /\ Spelt = WordsRead
        BY <2>1, <2>4, FindFinds DEF WordsInv
      <3> QED
        BY <2>1, <2>3, <3>1, <3>2, <1>7
    <2>5. CASE ~ Find(Lower(Lines[position]))
      BY <2>1, <2>3, <2>5, <1>8, <1>10 DEF ReadSecondHalf
    <2> QED
      BY <2>4, <2>5
  <1>11. CASE Rewind
    <2>1. rest = <<>> /\ UNCHANGED <<nodes, root_, rest, files, current>>
      BY <1>11 DEF Rewind, Idle, treeVars, insertVars
    <2>2. position = Len(Lines) + 1
      BY <1>1, <1>11 DEF Rewind, ReaderInv
    <2>3. LinesRead' = LinesRead
      BY <2>1, <2>2, <1>1, <1>2, <1>11 DEF Rewind, LinesRead, ReaderInv
    <2> QED
      BY <2>1, <2>3, <1>5, <1>7
  <1>12. CASE ReadFirstHalf
    <2>1. /\ rest = <<>> /\ position \in 1 .. Len(Lines) /\ Lines[position] \in Words
          /\ UNCHANGED <<files, current, pc>> /\ position' = position + 1
          /\ Insert(Lines[position])
      BY <1>1, <1>12 DEF ReadFirstHalf, ReaderInv, Idle
    <2>2. LinesRead' = LinesRead \union {position}
      BY <2>1, <1>1, <1>2, <1>12 DEF ReadFirstHalf, LinesRead
    <2> QED
      BY <2>1, <2>2, <1>6, <1>8
  <1>13. CASE CloseFile
    <2>1. /\ rest = <<>> /\ UNCHANGED <<nodes, root_, rest, files>> /\ current' = current + 1
          /\ current \in Nat \ {0} /\ current <= Len(files) /\ position = start + 1
      BY <1>1, <1>13 DEF CloseFile, Idle, treeVars, insertVars, ReaderInv
    <2>2. LinesRead = 1 .. Len(Lines) /\ LinesRead' = {}
      BY <2>1, <1>1, <1>13 DEF CloseFile, LinesRead
    <2>3. {Lower(Lines[k]) : k \in LinesRead} = WordsOf(current)
      BY <2>2 DEF WordsOf, Lines
    <2>4. WordsRead' = UNION {WordsOf(n) : n \in 1 .. current}
      <3>1. current' - 1 = current
        BY <2>1
      <3> QED
        BY <2>1, <2>2, <3>1 DEF WordsRead, WordsOf
    <2>5. 1 .. current = (1 .. current - 1) \union {current}
      BY <2>1
    <2>6. WordsRead' = WordsRead
      BY <2>3, <2>4, <2>5 DEF WordsRead
    <2> QED
      BY <2>1, <2>6, <1>7
  <1>14. CASE Lookup \/ Destroy
    <2>1. rest = <<>> /\ UNCHANGED <<nodes, root_, rest, current>>
          /\ pc = "open" /\ pc' \in {"open", "ended"}
      BY <1>14 DEF Lookup, Destroy, FuzzyFind, DeleteTree, insertVars
    <2>2. LinesRead' = LinesRead
      BY <2>1 DEF LinesRead
    <2> QED
      BY <2>1, <2>2, <1>5, <1>7
  <1>15. CASE Inserting
    <2>1. WordsRead' = WordsRead
      <3>1. UNCHANGED <<files, current, pc, position>>
        BY <1>15 DEF Inserting, readerVars
      <3>2. LinesRead' = LinesRead
        BY <3>1, <1>2 DEF LinesRead
      <3> QED
        BY <3>1, <3>2, <1>5
    <2>2. ASSUME Alloc \/ Descend
          PROVE  WordsInv'
      <3>1. rest # <<>>
        BY <2>2 DEF Alloc, Descend
      <3>2. PICK word \in Words : Going(word) /\ Spelt \union {Lower(word)} = WordsRead
        BY <3>1 DEF WordsInv
      <3>3. Going(word)' /\ rest' # <<>>
        BY <2>2, <3>2, GoingStays
      <3>4. SortedInv' /\ Spelt' = Spelt
        <4>1. CASE Alloc
          BY <4>1, AllocSorted, AllocSpelt DEF WordsInv
        <4>2. CASE Descend
          BY <4>2, QuietSpelt DEF WordsInv, Descend
        <4> QED
          BY <2>2, <4>1, <4>2
      <3> QED
        BY <2>1, <3>2, <3>3, <3>4 DEF WordsInv
    <2>3. CASE SetTerminator
      <3>1. rest # <<>> /\ rest' = <<>>
        BY <2>3 DEF SetTerminator
      <3>2. PICK word \in Words : Going(word) /\ Spelt \union {Lower(word)} = WordsRead
        BY <3>1 DEF WordsInv
      <3>3. SortedInv' /\ Spelt' = Spelt \union {Lower(word)}
        BY <2>3, <3>2, TerminatorSorted DEF WordsInv
      <3> QED
        BY <2>1, <3>1, <3>2, <3>3 DEF WordsInv
    <2>4. CASE SetParent
      <3>1. rest = <<>> /\ rest' = <<>>
        BY <2>4 DEF SetParent
      <3> QED
        BY <2>1, <2>4, <3>1, QuietSpelt DEF WordsInv
    <2> QED
      BY <2>2, <2>3, <2>4, <1>15 DEF Inserting, InsertStep
  <1>16. CASE Ended \/ UNCHANGED vars
    <2>1. UNCHANGED <<nodes, root_, rest, pending, files, current, pc, position>>
      BY <1>16 DEF Ended, vars, treeVars, insertVars, readerVars
    <2>2. LinesRead' = LinesRead
      BY <2>1, <1>2 DEF LinesRead
    <2>3. WordsRead' = WordsRead
      BY <2>1, <2>2, <1>5
    <2>4. SortedInv' /\ Spelt' = Spelt
      BY <2>1, QuietSpelt DEF WordsInv
    <2>5. ASSUME NEW word \in Words, Going(word)
          PROVE  Going(word)'
      BY <2>1, <2>5 DEF Going, Gone, SideOf
    <2> QED
      BY <2>1, <2>3, <2>4, <2>5 DEF WordsInv
  <1> QED
    BY <1>9, <1>10, <1>11, <1>12, <1>13, <1>14, <1>15, <1>16 DEF Next, Reading

\* For any files of any words the invariant of the words holds.
THEOREM ReaderKeepsWords == Spec => [](ReaderInv /\ TreeInv /\ WordsInv)
  <1>1. Init /\ TreeInv => WordsInv
    <2> SUFFICES ASSUME Init, TreeInv PROVE WordsInv
      OBVIOUS
    <2>1. nodes = <<>> /\ Len(nodes) = 0 /\ root_ = 0 /\ rest = <<>> /\ pc = "open" /\ current = 1
      BY DEF Init, TreeInit
    <2>2. Spelt = {}
      BY <2>1, SpeltValue DEF Spelt, SpeltEquations
    <2>3. WordsRead = {}
      BY <2>1 DEF WordsRead, LinesRead
    <2> QED
      BY <2>1, <2>2, <2>3 DEF WordsInv, SortedInv
  <1>2. ReaderInv /\ TreeInv /\ WordsInv /\ [Next]_vars => (ReaderInv /\ TreeInv /\ WordsInv)'
    BY ReaderStays, TreeStays, WordsStays
  <1> QED
    BY <1>1, <1>2, ReaderKeepsTree, PTL DEF Spec

\* When a file is closed the tree has its words and those of the files before, in lower
\* case, and no others, whatever the lines are and in whatever order they stand
\* (main.cc:80-134, ternary_tree.cc:78-125).
THEOREM ReaderReadsEveryLine == Spec => []ReadsEveryLine
  <1>1. ReaderInv /\ WordsInv => ReadsEveryLine
    <2> SUFFICES ASSUME ReaderInv, WordsInv, pc = "open"
                 PROVE  Spelt = UNION {WordsOf(n) : n \in 1 .. current - 1}
      BY DEF ReadsEveryLine
    <2>1. rest = <<>>
      BY DEF ReaderInv, Idle
    <2>2. Spelt = WordsRead
      BY <2>1 DEF WordsInv
    <2> QED
      BY <2>2 DEF WordsRead, LinesRead
  <1> QED
    BY <1>1, ReaderKeepsWords, PTL

\* Find finds the words in the tree, no prefixes of theirs and no others; but none with a
\* byte above 127 (ternary_tree.cc:78-125, 134-156).
THEOREM ReaderFindsWords == Spec => []FindsWords
  <1>1. TreeInv /\ WordsInv => FindsWords
    BY FindFinds DEF WordsInv, FindsWords
  <1> QED
    BY <1>1, ReaderKeepsWords, PTL

-----------------------------------------------------------------------------
(***************************************************************************)
(* CalcLevenshtein: the column, overwritten letter by letter, holds the    *)
(* distances of the beginnings of the words.                               *)
(***************************************************************************)

\* Induction up to a number.
LEMMA Upward ==
  ASSUME NEW m \in Nat, NEW G, 0 \in G, \A n \in 1 .. m : n - 1 \in G => n \in G
  PROVE  0 .. m \subseteq G
  <1> DEFINE bad == {n \in 0 .. m : n \notin G}
  <1> SUFFICES ASSUME bad # {} PROVE FALSE
    OBVIOUS
  <1>1. PICK n \in bad : \A k \in bad : n <= k
    <2>1. bad \in SUBSET Nat
      OBVIOUS
    <2> HIDE DEF bad
    <2> QED
      BY <2>1, Least
  <1>2. n \in 1 .. m /\ n - 1 \in 0 .. m /\ ~ (n <= n - 1)
    BY <1>1
  <1>3. n - 1 \in G
    BY <1>1, <1>2
  <1> QED
    BY <1>1, <1>2, <1>3

\* What a recursion on numbers up to m is: it starts with z, and each value is a
\* step from the last.
Iterations(m, S, z, step) ==
  {f \in [0 .. m -> S] : f[0] = z /\ \A n \in 1 .. m : f[n] = step[n][f[n - 1]]}

\* Such a recursion has a value: each step has one more.
LEMMA IterExists ==
  ASSUME NEW m \in Nat, NEW S, NEW z \in S, NEW step \in [1 .. m -> [S -> S]]
  PROVE  Iterations(m, S, z, step) # {}
  <1> DEFINE Exists(k) == \E f \in [0 .. k -> S] : f[0] = z /\ \A n \in 1 .. k : f[n] = step[n][f[n - 1]]
             G == {k \in 0 .. m : Exists(k)}
  <1>1. 0 \in G
    <2> DEFINE f == [n \in 0 .. 0 |-> z]
    <2>1. f \in [0 .. 0 -> S] /\ f[0] = z /\ \A n \in 1 .. 0 : f[n] = step[n][f[n - 1]]
      OBVIOUS
    <2>2. Exists(0)
      BY <2>1
    <2> QED
      BY <2>2
  <1>2. ASSUME NEW k \in 1 .. m, k - 1 \in G
        PROVE  k \in G
    <2>1. PICK f \in [0 .. k - 1 -> S] :
            f[0] = z /\ \A n \in 1 .. k - 1 : f[n] = step[n][f[n - 1]]
      BY <1>2
    <2> DEFINE v == step[k][f[k - 1]]
               g == [n \in 0 .. k |-> IF n = k THEN v ELSE f[n]]
    <2>2. v \in S
      <3>1. k - 1 \in 0 .. k - 1 /\ step[k] \in [S -> S]
        OBVIOUS
      <3> QED
        BY <2>1, <3>1
    <2>3. /\ g \in [0 .. k -> S] /\ g[k] = v
          /\ \A n \in 0 .. k - 1 : g[n] = f[n]
      BY <2>1, <2>2
    <2> HIDE DEF g
    <2>4. g[0] = z
      BY <2>1, <2>3
    <2>5. \A n \in 1 .. k : g[n] = step[n][g[n - 1]]
      <3> SUFFICES ASSUME NEW n \in 1 .. k PROVE g[n] = step[n][g[n - 1]]
        OBVIOUS
      <3>1. n - 1 \in 0 .. k - 1 /\ g[n - 1] = f[n - 1]
        BY <2>3
      <3>2. CASE n = k
        BY <2>3, <3>1, <3>2
      <3>3. CASE n # k
        <4>1. n \in 1 .. k - 1 /\ n \in 0 .. k - 1
          BY <3>3
        <4> QED
          BY <2>1, <2>3, <3>1, <4>1
      <3> QED
        BY <3>2, <3>3
    <2>6. Exists(k)
      BY <2>3, <2>4, <2>5
    <2> HIDE DEF Exists
    <2> QED
      BY <2>6
  <1>3. m \in G
    <2>1. 0 .. m \subseteq G
      <3> HIDE DEF G
      <3> QED
        BY <1>1, <1>2, Upward
    <2> QED
      BY <2>1
  <1> QED
    BY <1>3 DEF Iterations

\* What it costs to put one letter for another.
Cost(a, b) == IF a = b THEN 0 ELSE 1

\* The cells of one column, each made from the one above it.
CellsOf(cell, s1, char, x, column) ==
  /\ cell \in [0 .. Len(s1) -> [column : [0 .. Len(s1) -> Nat], lastdiag : Nat]]
  /\ cell[0] = [column |-> [column EXCEPT ![0] = x], lastdiag |-> x - 1]
  /\ \A y \in 1 .. Len(s1) :
       cell[y] = [column |-> [cell[y - 1].column EXCEPT ![y] =
                    Min3(cell[y - 1].column[y] + 1, cell[y - 1].column[y - 1] + 1,
                         cell[y - 1].lastdiag + Cost(s1[y], char))],
                  lastdiag |-> cell[y - 1].column[y]]

\* The recursion over the cells of a column has a value.
LEMMA CellsValue ==
  ASSUME NEW s1, Len(s1) \in Nat, NEW char, NEW x \in Nat \ {0},
         NEW column \in [0 .. Len(s1) -> Nat]
  PROVE  CellsOf(Cells(s1, char, x, column), s1, char, x, column)
  <1> DEFINE M == Len(s1)
             C == [0 .. M -> Nat]
             S == [column : C, lastdiag : Nat]
             first == [column |-> [column EXCEPT ![0] = x], lastdiag |-> x - 1]
             CellBelow(y, old) ==
               [column |-> [old.column EXCEPT ![y] =
                  Min3(old.column[y] + 1, old.column[y - 1] + 1, old.lastdiag + Cost(s1[y], char))],
                lastdiag |-> old.column[y]]
             step == [y \in 1 .. M |-> [old \in S |-> CellBelow(y, old)]]
  <1>1. first \in S
    <2>1. [column EXCEPT ![0] = x] \in C /\ x - 1 \in Nat
      OBVIOUS
    <2> HIDE DEF C
    <2> QED
      BY <2>1
  <1>2. ASSUME NEW y \in 1 .. M, NEW old \in S
        PROVE  CellBelow(y, old) \in S
    <2>1. old.column \in C /\ old.lastdiag \in Nat
      OBVIOUS
    <2>2. old.column[y] \in Nat /\ old.column[y - 1] \in Nat
      <3>1. y \in 0 .. M /\ y - 1 \in 0 .. M
        OBVIOUS
      <3> QED
        BY <2>1, <3>1
    <2>3. Min3(old.column[y] + 1, old.column[y - 1] + 1, old.lastdiag + Cost(s1[y], char)) \in Nat
      BY <2>1, <2>2 DEF Min3, Cost
    <2>4. \A v \in Nat : [old.column EXCEPT ![y] = v] \in C
      BY <2>1
    <2> HIDE DEF C
    <2> QED
      BY <2>2, <2>3, <2>4
  <1>3. step \in [1 .. M -> [S -> S]]
    <2> HIDE DEF S, CellBelow
    <2> QED
      BY <1>2
  <1>4. PICK f \in [0 .. M -> S] : f[0] = first /\ \A y \in 1 .. M : f[y] = step[y][f[y - 1]]
    <2>1. M \in Nat
      OBVIOUS
    <2> HIDE DEF S, step, first, M
    <2>2. Iterations(M, S, first, step) # {}
      BY <1>1, <1>3, <2>1, IterExists
    <2> QED
      BY <2>2 DEF Iterations
  <1>5. \A y \in 1 .. M : f[y] = CellBelow(y, f[y - 1])
    <2> SUFFICES ASSUME NEW y \in 1 .. M PROVE f[y] = CellBelow(y, f[y - 1])
      OBVIOUS
    <2>1. f[y - 1] \in S
      <3>1. y - 1 \in 0 .. M
        OBVIOUS
      <3> HIDE DEF S
      <3> QED
        BY <3>1
    <2> HIDE DEF S, CellBelow
    <2> QED
      BY <1>4, <2>1
  <1>6. f = [y \in 0 .. M |-> IF y = 0 THEN first ELSE CellBelow(y, f[y - 1])]
    <2>1. \A y \in 0 .. M : y # 0 => y \in 1 .. M
      OBVIOUS
    <2> HIDE DEF S, CellBelow, first
    <2> QED
      BY <1>4, <1>5, <2>1
  <1> DEFINE cell == Cells(s1, char, x, column)
  <1>7. cell = [y \in 0 .. M |-> IF y = 0 THEN first ELSE CellBelow(y, cell[y - 1])]
    BY <1>6, Zenon DEF Cells, Cost
  <1> HIDE DEF cell
  <1>8. cell[0] = first /\ \A y \in 1 .. M : cell[y] = CellBelow(y, cell[y - 1])
    <2>1. 0 \in 0 .. M /\ \A y \in 1 .. M : y # 0 /\ y \in 0 .. M
      OBVIOUS
    <2> HIDE DEF CellBelow, first
    <2> QED
      BY <1>7, <2>1
  <1>9. cell \in [0 .. M -> S]
    <2> DEFINE G == {y \in 0 .. M : cell[y] \in S}
    <2> HIDE DEF S, CellBelow, first
    <2>1. 0 \in G
      BY <1>1, <1>8
    <2>2. \A y \in 1 .. M : y - 1 \in G => y \in G
      BY <1>2, <1>8
    <2>3. 0 .. M \subseteq G
      <3> HIDE DEF G
      <3> QED
        BY <2>1, <2>2, Upward
    <2>4. cell = [y \in 0 .. M |-> cell[y]]
      BY <1>7
    <2> QED
      BY <2>3, <2>4
  <1> QED
    BY <1>8, <1>9 DEF CellsOf, cell

\* The column after one more letter of s2: it starts with the number of letters,
\* and each other cell is the minimum over the cell beside it in the old column,
\* the one above it, and the old one above.
NextColumn(new, s1, char, x, column) ==
  /\ new \in [0 .. Len(s1) -> Nat]
  /\ new[0] = x
  /\ \A y \in 1 .. Len(s1) :
       new[y] = Min3(column[y] + 1, new[y - 1] + 1, column[y - 1] + Cost(s1[y], char))

\* That is what the inner loop leaves, although it overwrites the column as it
\* reads it.
LEMMA OverwrittenValue ==
  ASSUME NEW s1, Len(s1) \in Nat, NEW char, NEW x \in Nat \ {0},
         NEW column \in [0 .. Len(s1) -> Nat], column[0] = x - 1
  PROVE  NextColumn(Overwritten(s1, char, x, column), s1, char, x, column)
  <1> DEFINE M == Len(s1)
             cell == Cells(s1, char, x, column)
             Value(y, above) == Min3(column[y] + 1, above + 1, column[y - 1] + Cost(s1[y], char))
             Good(y) ==
               /\ cell[y].lastdiag = column[y]
               /\ cell[y].column[0] = x
               /\ \A j \in 1 .. M : j > y => cell[y].column[j] = column[j]
               /\ \A j \in 1 .. M : j <= y => cell[y].column[j] = Value(j, cell[y].column[j - 1])
             G == {y \in 0 .. M : Good(y)}
  <1>1. /\ M \in Nat
        /\ cell \in [0 .. M -> [column : [0 .. M -> Nat], lastdiag : Nat]]
        /\ cell[0] = [column |-> [column EXCEPT ![0] = x], lastdiag |-> x - 1]
        /\ \A y \in 1 .. M :
             cell[y] = [column |-> [cell[y - 1].column EXCEPT ![y] =
                          Min3(cell[y - 1].column[y] + 1, cell[y - 1].column[y - 1] + 1,
                               cell[y - 1].lastdiag + Cost(s1[y], char))],
                        lastdiag |-> cell[y - 1].column[y]]
    <2>1. CellsOf(cell, s1, char, x, column)
      BY CellsValue
    <2> HIDE DEF cell
    <2> QED
      BY <2>1 DEF CellsOf
  <1> HIDE DEF cell, M
  <1>2. \A y \in 0 .. M : cell[y].column \in [0 .. M -> Nat]
    BY <1>1
  <1>3. 0 \in G
    <2>1. /\ cell[0].lastdiag = column[0]
          /\ cell[0].column = [column EXCEPT ![0] = x]
      BY <1>1
    <2>2. column \in [0 .. M -> Nat]
      BY DEF M
    <2>3. cell[0].column[0] = x /\ \A j \in 1 .. M : cell[0].column[j] = column[j]
      BY <1>1, <2>1, <2>2
    <2>4. \A j \in 1 .. M : ~ (j <= 0)
      OBVIOUS
    <2>5. 0 \in 0 .. M
      BY <1>1
    <2> HIDE DEF Value
    <2>6. Good(0)
      BY <2>1, <2>3, <2>4
    <2> HIDE DEF Good
    <2> QED
      BY <2>5, <2>6
  <1>4. ASSUME NEW y \in 1 .. M, y - 1 \in G
        PROVE  y \in G
    <2> DEFINE old == cell[y - 1].column
               new == cell[y].column
    <2>1. /\ cell[y - 1].lastdiag = column[y - 1]
          /\ old[0] = x
          /\ \A j \in 1 .. M : j > y - 1 => old[j] = column[j]
          /\ \A j \in 1 .. M : j <= y - 1 => old[j] = Value(j, old[j - 1])
      BY <1>4
    <2>0. y \in 0 .. M /\ y - 1 \in 0 .. M /\ y # 0 /\ y - 1 # y /\ 0 \in 0 .. M
      BY <1>1
    <2>2. old \in [0 .. M -> Nat]
      BY <1>2, <2>0
    <2>3. old[y] = column[y]
      BY <1>1, <2>1
    <2> DEFINE value == Min3(old[y] + 1, old[y - 1] + 1, cell[y - 1].lastdiag + Cost(s1[y], char))
    <2>4. cell[y].lastdiag = column[y] /\ new = [old EXCEPT ![y] = value]
      <3>1. cell[y] = [column |-> [old EXCEPT ![y] = value], lastdiag |-> old[y]]
        BY <1>1, Zenon
      <3> HIDE DEF value, old
      <3> QED
        BY <2>3, <3>1
    <2>5. value = Value(y, old[y - 1])
      BY <2>1, <2>3
    <2> HIDE DEF old, new, value, Value
    <2>6. new[y] = value /\ \A j \in 0 .. M : j # y => new[j] = old[j]
      BY <2>0, <2>2, <2>4
    <2>7. new[0] = x
      BY <2>0, <2>1, <2>6
    <2>8. \A j \in 1 .. M : j > y => new[j] = column[j]
      BY <1>1, <2>1, <2>6
    <2>9. ASSUME NEW j \in 1 .. M, j <= y
          PROVE  new[j] = Value(j, new[j - 1])
      <3>1. j - 1 \in 0 .. M /\ j - 1 # y /\ j \in 0 .. M
        BY <1>1, <2>9
      <3>2. new[j - 1] = old[j - 1]
        BY <2>6, <3>1
      <3>3. CASE j = y
        BY <2>5, <2>6, <3>2, <3>3
      <3>4. CASE j # y
        <4>1. j <= y - 1
          BY <1>1, <2>9, <3>4
        <4>2. new[j] = old[j]
          BY <2>6, <3>1, <3>4
        <4>3. old[j] = Value(j, old[j - 1])
          BY <2>1, <4>1
        <4> QED
          BY <3>2, <4>2, <4>3
      <3> QED
        BY <3>3, <3>4
    <2> QED
      BY <2>0, <2>4, <2>7, <2>8, <2>9 DEF new
  <1>5. M \in G
    <2> HIDE DEF G
    <2>1. 0 .. M \subseteq G
      BY <1>1, <1>3, <1>4, Upward
    <2> QED
      BY <1>1, <2>1
  <1>6. Overwritten(s1, char, x, column) = cell[M].column
    BY DEF Overwritten, cell, M
  <1> HIDE DEF Value
  <1>7. \A j \in 1 .. M : j <= M
    BY <1>1
  <1>8. cell[M].column \in [0 .. M -> Nat] /\ cell[M].column[0] = x
    BY <1>1, <1>2, <1>5
  <1>9. \A j \in 1 .. M : cell[M].column[j] = Value(j, cell[M].column[j - 1])
    BY <1>5, <1>7
  <1> QED
    BY <1>6, <1>8, <1>9 DEF NextColumn, Value, M

\* The columns: the first holds the numbers of letters, the one after x letters of
\* s2 starts with x, and each other cell is the minimum over its three neighbours.
ColumnsOf(c, s1, s2) ==
  /\ \A x \in 0 .. Len(s2) : c[x] \in [0 .. Len(s1) -> Nat] /\ c[x][0] = x
  /\ \A y \in 0 .. Len(s1) : c[0][y] = y
  /\ \A x \in 1 .. Len(s2), y \in 1 .. Len(s1) :
       c[x][y] = Min3(c[x - 1][y] + 1, c[x][y - 1] + 1, c[x - 1][y - 1] + Cost(s1[y], s2[x]))

\* The loop over the letters of s2 leaves those columns.
LEMMA ColumnsValue ==
  ASSUME NEW s1, NEW s2, Len(s1) \in Nat, Len(s2) \in Nat
  PROVE  ColumnsOf(Columns(s1, s2), s1, s2)
  <1> DEFINE M == Len(s1)
             N == Len(s2)
             S == [0 .. M -> Nat]
             first == [y \in 0 .. M |-> y]
             After(x, old) == Overwritten(s1, s2[x], x, old)
             step == [x \in 1 .. N |-> [old \in S |-> After(x, old)]]
             c == Columns(s1, s2)
  <1>1. first \in S
    OBVIOUS
  <1>2. ASSUME NEW x \in 1 .. N, NEW old \in S
        PROVE  After(x, old) \in S
    <2> DEFINE cell == Cells(s1, s2[x], x, old)
    <2>1. CellsOf(cell, s1, s2[x], x, old)
      BY CellsValue
    <2> HIDE DEF cell
    <2>2. cell[M].column \in [0 .. M -> Nat]
      <3>1. M \in 0 .. M
        OBVIOUS
      <3>2. cell \in [0 .. M -> [column : [0 .. M -> Nat], lastdiag : Nat]]
        BY <2>1 DEF CellsOf
      <3> HIDE DEF M
      <3> QED
        BY <3>1, <3>2
    <2> QED
      BY <2>2 DEF Overwritten, cell
  <1>3. step \in [1 .. N -> [S -> S]]
    <2> HIDE DEF S, After
    <2> QED
      BY <1>2
  <1>4. PICK f \in [0 .. N -> S] : f[0] = first /\ \A x \in 1 .. N : f[x] = step[x][f[x - 1]]
    <2>1. N \in Nat
      OBVIOUS
    <2> HIDE DEF S, step, first, N
    <2>2. Iterations(N, S, first, step) # {}
      BY <1>1, <1>3, <2>1, IterExists
    <2> QED
      BY <2>2 DEF Iterations
  <1>5. \A x \in 1 .. N : f[x] = After(x, f[x - 1])
    <2> SUFFICES ASSUME NEW x \in 1 .. N PROVE f[x] = After(x, f[x - 1])
      OBVIOUS
    <2>1. f[x - 1] \in S
      <3>1. x - 1 \in 0 .. N
        OBVIOUS
      <3> HIDE DEF S
      <3> QED
        BY <3>1
    <2> HIDE DEF S, After
    <2> QED
      BY <1>4, <2>1
  <1>6. f = [x \in 0 .. N |-> IF x = 0 THEN first ELSE After(x, f[x - 1])]
    <2>1. \A x \in 0 .. N : x # 0 => x \in 1 .. N
      OBVIOUS
    <2> HIDE DEF S, After, first
    <2> QED
      BY <1>4, <1>5, <2>1
  <1>7. c = [x \in 0 .. N |-> IF x = 0 THEN first ELSE After(x, c[x - 1])]
    BY <1>6, Zenon DEF Columns
  <1> HIDE DEF c
  <1>8. c[0] = first /\ \A x \in 1 .. N : c[x] = After(x, c[x - 1])
    <2>1. 0 \in 0 .. N /\ \A x \in 1 .. N : x # 0 /\ x \in 0 .. N
      OBVIOUS
    <2> HIDE DEF After, first
    <2> QED
      BY <1>7, <2>1
  <1>9. ASSUME NEW x \in 1 .. N, c[x - 1] \in S, c[x - 1][0] = x - 1
        PROVE  /\ c[x] \in S /\ c[x][0] = x
               /\ \A y \in 1 .. M :
                    c[x][y] = Min3(c[x - 1][y] + 1, c[x][y - 1] + 1,
                                   c[x - 1][y - 1] + Cost(s1[y], s2[x]))
    <2>1. c[x] = Overwritten(s1, s2[x], x, c[x - 1])
      BY <1>8
    <2>2. x \in Nat \ {0}
      OBVIOUS
    <2>3. NextColumn(Overwritten(s1, s2[x], x, c[x - 1]), s1, s2[x], x, c[x - 1])
      BY <1>9, <2>2, OverwrittenValue
    <2> QED
      BY <2>1, <2>3 DEF NextColumn
  <1> DEFINE G == {x \in 0 .. N : c[x] \in S /\ c[x][0] = x}
  <1>10. 0 .. N \subseteq G
    <2>1. 0 \in G
      BY <1>1, <1>8
    <2>2. \A x \in 1 .. N : x - 1 \in G => x \in G
      <3> HIDE DEF S
      <3> QED
        BY <1>9
    <2> HIDE DEF G
    <2> QED
      BY <2>1, <2>2, Upward
  <1>11. \A y \in 0 .. M : c[0][y] = y
    BY <1>8
  <1>12. \A x \in 1 .. N : x - 1 \in 0 .. N
    OBVIOUS
  <1>13. \A x \in 1 .. N : c[x - 1] \in S /\ c[x - 1][0] = x - 1
    <2> HIDE DEF S
    <2> QED
      BY <1>10, <1>12
  <1>14. \A x \in 1 .. N, y \in 1 .. M :
           c[x][y] = Min3(c[x - 1][y] + 1, c[x][y - 1] + 1, c[x - 1][y - 1] + Cost(s1[y], s2[x]))
    <2> HIDE DEF S
    <2> QED
      BY <1>9, <1>13
  <1>15. \A x \in 0 .. N : c[x] \in S /\ c[x][0] = x
    <2> HIDE DEF S
    <2> QED
      BY <1>10
  <1> QED
    BY <1>11, <1>14, <1>15 DEF ColumnsOf, c

\* The minimum of three numbers does not depend on the order of the first two.
LEMMA Min3Swap ==
  ASSUME NEW a \in Nat, NEW b \in Nat, NEW e \in Nat
  PROVE  Min3(a, b, e) = Min3(b, a, e)
  BY DEF Min3

\* The distance kept in one column is the distance that Distances defines over
\* all pairs of beginnings.
LEMMA CalcIsDistance ==
  ASSUME NEW s1, NEW s2, Len(s1) \in Nat, Len(s2) \in Nat
  PROVE  CalcLevenshtein(s1, s2) = Distance(s1, s2)
  <1> DEFINE M == Len(s1)
             N == Len(s2)
             c == Columns(s1, s2)
             Value(g, m, n) ==
               Min3(g[<<m - 1, n>>] + 1, g[<<m, n - 1>>] + 1,
                    g[<<m - 1, n - 1>>] + Cost(s1[m], s2[n]))
             Pairs == (0 .. M) \X (0 .. N)
             f == [at \in Pairs |-> c[at[2]][at[1]]]
             d == Distances(s1, s2)
  <1>1. ColumnsOf(c, s1, s2)
    BY ColumnsValue
  <1> HIDE DEF c
  <1>2. /\ \A n \in 0 .. N : c[n] \in [0 .. M -> Nat] /\ c[n][0] = n
        /\ \A m \in 0 .. M : c[0][m] = m
        /\ \A n \in 1 .. N, m \in 1 .. M :
             c[n][m] = Min3(c[n - 1][m] + 1, c[n][m - 1] + 1, c[n - 1][m - 1] + Cost(s1[m], s2[n]))
    BY <1>1 DEF ColumnsOf
  <1>3. \A m \in 1 .. M, n \in 1 .. N :
          m \in 0 .. M /\ m - 1 \in 0 .. M /\ n \in 0 .. N /\ n - 1 \in 0 .. N
    OBVIOUS
  <1>4. M \in Nat /\ N \in Nat
    OBVIOUS
  <1> HIDE DEF M, N
  <1>5. \A m \in 0 .. M, n \in 0 .. N : f[<<m, n>>] = c[n][m]
    OBVIOUS
  <1> HIDE DEF f
  <1>6. \A m \in 1 .. M, n \in 1 .. N : c[n][m] = Value(f, m, n)
    <2> SUFFICES ASSUME NEW m \in 1 .. M, NEW n \in 1 .. N
                 PROVE  c[n][m] = Value(f, m, n)
      OBVIOUS
    <2>1. /\ f[<<m - 1, n>>] = c[n][m - 1] /\ f[<<m, n - 1>>] = c[n - 1][m]
          /\ f[<<m - 1, n - 1>>] = c[n - 1][m - 1]
      BY <1>3, <1>5
    <2>2. c[n][m - 1] \in Nat /\ c[n - 1][m] \in Nat /\ c[n - 1][m - 1] \in Nat
      <3>1. /\ c[n] \in [0 .. M -> Nat] /\ c[n - 1] \in [0 .. M -> Nat]
            /\ m \in 0 .. M /\ m - 1 \in 0 .. M
        BY <1>2, <1>3
      <3> QED
        BY <3>1
    <2>3. /\ c[n][m - 1] + 1 \in Nat /\ c[n - 1][m] + 1 \in Nat
          /\ c[n - 1][m - 1] + Cost(s1[m], s2[n]) \in Nat
      <3>1. Cost(s1[m], s2[n]) \in {0, 1}
        BY DEF Cost
      <3>2. \A a, b, e \in Nat, k \in {0, 1} : a + 1 \in Nat /\ b + 1 \in Nat /\ e + k \in Nat
        OBVIOUS
      <3> QED
        BY <2>2, <3>1, <3>2
    <2>4. c[n][m] = Min3(c[n - 1][m] + 1, c[n][m - 1] + 1, c[n - 1][m - 1] + Cost(s1[m], s2[n]))
      BY <1>2
    <2>5. c[n][m] = Min3(c[n][m - 1] + 1, c[n - 1][m] + 1, c[n - 1][m - 1] + Cost(s1[m], s2[n]))
      BY <2>3, <2>4, Min3Swap
    <2> QED
      BY <2>1, <2>5
  <1> DEFINE Equation(g) ==
        g = [at \in Pairs |-> IF at[1] = 0 THEN at[2] ELSE IF at[2] = 0 THEN at[1]
                              ELSE Value(g, at[1], at[2])]
  <1>7. Equation(f)
    <2>1. f = [at \in Pairs |-> f[at]]
      BY DEF f
    <2>2. ASSUME NEW m \in 0 .. M, NEW n \in 0 .. N
          PROVE  f[<<m, n>>] = IF m = 0 THEN n ELSE IF n = 0 THEN m ELSE Value(f, m, n)
      <3> HIDE DEF Value
      <3>1. CASE m = 0
        BY <1>2, <1>5, <3>1
      <3>2. CASE m # 0 /\ n = 0
        BY <1>2, <1>5, <3>2
      <3>3. CASE m # 0 /\ n # 0
        <4>1. m \in 1 .. M /\ n \in 1 .. N
          BY <1>4, <3>3
        <4> QED
          BY <1>5, <1>6, <3>3, <4>1
      <3> QED
        BY <3>1, <3>2, <3>3
    <2>3. \A at \in Pairs :
            f[at] = IF at[1] = 0 THEN at[2] ELSE IF at[2] = 0 THEN at[1] ELSE Value(f, at[1], at[2])
      <3> HIDE DEF Value
      <3> SUFFICES ASSUME NEW at \in Pairs
                   PROVE  f[at] = IF at[1] = 0 THEN at[2] ELSE IF at[2] = 0 THEN at[1]
                                  ELSE Value(f, at[1], at[2])
        OBVIOUS
      <3>1. at = <<at[1], at[2]>> /\ at[1] \in 0 .. M /\ at[2] \in 0 .. N
        OBVIOUS
      <3> HIDE DEF Pairs
      <3> QED
        BY <2>2, <3>1
    <2> HIDE DEF Pairs, Value
    <2> QED
      BY <2>1, <2>3
  <1>8. Equation(d)
    BY <1>7, Zenon DEF Distances, Cost, M, N
  <1> HIDE DEF d
  <1>9. ASSUME NEW m \in 0 .. M, NEW n \in 0 .. N
        PROVE  d[<<m, n>>] = IF m = 0 THEN n ELSE IF n = 0 THEN m ELSE Value(d, m, n)
    <2>1. <<m, n>> \in Pairs /\ <<m, n>>[1] = m /\ <<m, n>>[2] = n
      OBVIOUS
    <2> HIDE DEF Pairs, Value
    <2> QED
      BY <1>8, <2>1
  <1> DEFINE Agree(n) == \A m \in 0 .. M : d[<<m, n>>] = f[<<m, n>>]
             G == {n \in 0 .. N : Agree(n)}
  <1>10. \A m \in 0 .. M, n \in 0 .. N : m = 0 \/ n = 0 => d[<<m, n>>] = f[<<m, n>>]
    <2> HIDE DEF Value
    <2> QED
      BY <1>2, <1>5, <1>9
  <1>11. 0 \in G
    BY <1>4, <1>10
  <1>12. ASSUME NEW n \in 1 .. N, n - 1 \in G
         PROVE  n \in G
    <2> DEFINE H == {m \in 0 .. M : d[<<m, n>>] = f[<<m, n>>]}
    <2>1. 0 \in H
      BY <1>4, <1>3, <1>10
    <2>2. ASSUME NEW m \in 1 .. M, m - 1 \in H
          PROVE  m \in H
      <3>1. /\ d[<<m - 1, n>>] = f[<<m - 1, n>>] /\ d[<<m, n - 1>>] = f[<<m, n - 1>>]
            /\ d[<<m - 1, n - 1>>] = f[<<m - 1, n - 1>>]
        BY <1>3, <1>12, <2>2
      <3>2. m # 0 /\ n # 0 /\ m \in 0 .. M /\ n \in 0 .. N
        BY <1>4
      <3>3. d[<<m, n>>] = Value(d, m, n)
        <4> HIDE DEF Value
        <4> QED
          BY <1>9, <3>2
      <3>4. f[<<m, n>>] = Value(f, m, n)
        <4> HIDE DEF Value
        <4> QED
          BY <1>5, <1>6, <3>2
      <3> QED
        BY <3>1, <3>2, <3>3, <3>4
    <2>3. 0 .. M \subseteq H
      <3> HIDE DEF H
      <3> QED
        BY <1>4, <2>1, <2>2, Upward
    <2> QED
      BY <1>3, <1>4, <2>3
  <1>13. N \in G
    <2> HIDE DEF G
    <2>1. 0 .. N \subseteq G
      BY <1>4, <1>11, <1>12, Upward
    <2> QED
      BY <1>4, <2>1
  <1>14. M \in 0 .. M /\ N \in 0 .. N
    BY <1>4
  <1>15. d[<<M, N>>] = c[N][M]
    BY <1>5, <1>13, <1>14
  <1> QED
    BY <1>15 DEF CalcLevenshtein, Distance, M, N, c, d

\* For any files of any words, the distance that FuzzyFind compares by is Levenshtein's.
THEOREM ReaderDistanceRight == Spec => []DistanceRight
  <1>1. TreeInv => DistanceRight
    <2> SUFFICES ASSUME TreeInv, NEW v \in Spelt, NEW w \in Spelt
                 PROVE  CalcLevenshtein(v, w) = Distance(v, w)
      BY DEF DistanceRight
    <2>1. Spelt \in SUBSET Texts
      BY SpeltValue DEF SpeltEquations, Spelt, TreeInv, TreeTypeOK
    <2>2. Len(v) \in Nat /\ Len(w) \in Nat
      BY <2>1 DEF Texts
    <2> QED
      BY <2>2, CalcIsDistance
  <1> QED
    BY <1>1, ReaderKeepsTree, PTL
=============================================================================
