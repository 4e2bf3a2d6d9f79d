---------------------------- MODULE OtbTreeProofs ----------------------------
(***************************************************************************)
(* The nodes that parse allocates form a tree, for every file and at every *)
(* byte of it.  The invariant is TreeInv: NodesLinked alone would not rule *)
(* out that a NODE_START overwrites the first child of the current node.   *)
(*                                                                         *)
(* And the tree is the file (TreeIsTheFile).  What a recursive definition  *)
(* writes is not compared with the tokens as they are read: the invariant, *)
(* PlacedInv, gives every node the place of its NODE_START, that of its    *)
(* NODE_END, which may be still to come, and that after its last sibling.  *)
(* Places that agree with the tokens and with the links determine what is  *)
(* written, whatever the depth (PlacedIsWritten).                          *)
(***************************************************************************)
EXTENDS OtbTree, SequenceTheorems, FiniteSetTheorems, TLAPS

\* A node with another link is a node, and its other link is the same.
LEMMA Relinked ==
  ASSUME NEW r \in OTBNode, NEW k \in Nat
  PROVE  /\ [r EXCEPT !.child = k] \in OTBNode /\ [r EXCEPT !.next = k] \in OTBNode
         /\ [r EXCEPT !.child = k].child = k /\ [r EXCEPT !.child = k].next = r.next
         /\ [r EXCEPT !.next = k].next = k /\ [r EXCEPT !.next = k].child = r.child
BY DEF OTBNode

\* What a sequence of nodes looks like after the link of one node is set to a
\* new node that is appended.
LEMMA Allocated ==
  ASSUME node \in Seq(OTBNode),
         NEW t \in DOMAIN node,
         \/ node' = Append([node EXCEPT ![t].child = Len(node) + 1], NewNode)
         \/ node' = Append([node EXCEPT ![t].next = Len(node) + 1], NewNode)
  PROVE  /\ node' \in Seq(OTBNode)
         /\ Len(node') = Len(node) + 1
         /\ \A n \in 1..Len(node) : n # t => node'[n] = node[n]
         /\ node'[Len(node) + 1] = NewNode
<1> DEFINE withChild == [node EXCEPT ![t].child = Len(node) + 1]
           withNext == [node EXCEPT ![t].next = Len(node) + 1]
<1>1. /\ Len(node) \in Nat /\ DOMAIN node = 1..Len(node)
      /\ node[t] \in OTBNode /\ Len(node) + 1 \in Nat
  OBVIOUS
<1>2. NewNode \in OTBNode
  BY DEF NewNode, OTBNode, Byte
<1>3. [node[t] EXCEPT !.child = Len(node) + 1] \in OTBNode
      /\ [node[t] EXCEPT !.next = Len(node) + 1] \in OTBNode
  BY <1>1, Relinked
<1>4. withChild \in Seq(OTBNode) /\ Len(withChild) = Len(node)
  BY <1>1, <1>3
<1>5. withNext \in Seq(OTBNode) /\ Len(withNext) = Len(node)
  BY <1>1, <1>3
<1>6. CASE node' = Append(withChild, NewNode)
  <2> HIDE DEF withChild
  <2>1. node' \in Seq(OTBNode) /\ Len(node') = Len(node) + 1
        /\ node'[Len(node) + 1] = NewNode
        /\ \A n \in 1..Len(node) : node'[n] = withChild[n]
    BY <1>2, <1>4, <1>6
  <2> QED
    BY <1>1, <2>1 DEF withChild
<1>7. CASE node' = Append(withNext, NewNode)
  <2> HIDE DEF withNext
  <2>1. node' \in Seq(OTBNode) /\ Len(node') = Len(node) + 1
        /\ node'[Len(node) + 1] = NewNode
        /\ \A n \in 1..Len(node) : node'[n] = withNext[n]
    BY <1>2, <1>5, <1>7
  <2> QED
    BY <1>1, <2>1 DEF withNext
<1> QED
  BY <1>6, <1>7

\* The links of the node that is given a child.
LEMMA ChildSet ==
  ASSUME node \in Seq(OTBNode),
         NEW t \in DOMAIN node,
         node' = Append([node EXCEPT ![t].child = Len(node) + 1], NewNode)
  PROVE  /\ node'[t].child = Len(node) + 1 /\ node'[t].next = node[t].next
         /\ node'[t] = [node[t] EXCEPT !.child = Len(node) + 1]
<1> DEFINE withChild == [node EXCEPT ![t].child = Len(node) + 1]
<1>1. /\ t \in 1..Len(node) /\ Len(node) \in Nat
      /\ node[t] \in OTBNode /\ Len(node) + 1 \in Nat
  OBVIOUS
<1>2. [node[t] EXCEPT !.child = Len(node) + 1] \in OTBNode
  BY <1>1, Relinked
<1>3. withChild \in Seq(OTBNode) /\ Len(withChild) = Len(node)
      /\ withChild[t] = [node[t] EXCEPT !.child = Len(node) + 1]
  BY <1>1, <1>2
<1>4. node'[t] = withChild[t]
  <2> HIDE DEF withChild
  <2>1. node' = Append(withChild, NewNode)
    BY DEF withChild
  <2>2. NewNode \in OTBNode
    BY DEF NewNode, OTBNode, Byte
  <2> QED
    BY <1>1, <1>3, <2>1, <2>2
<1>5. /\ [node[t] EXCEPT !.child = Len(node) + 1].child = Len(node) + 1
      /\ [node[t] EXCEPT !.child = Len(node) + 1].next = node[t].next
  BY <1>1, Relinked
<1> QED
  BY <1>3, <1>4, <1>5

\* The links of the node that is given a sibling.
LEMMA SiblingSet ==
  ASSUME node \in Seq(OTBNode),
         NEW t \in DOMAIN node,
         node' = Append([node EXCEPT ![t].next = Len(node) + 1], NewNode)
  PROVE  /\ node'[t].next = Len(node) + 1 /\ node'[t].child = node[t].child
         /\ node'[t] = [node[t] EXCEPT !.next = Len(node) + 1]
<1> DEFINE withNext == [node EXCEPT ![t].next = Len(node) + 1]
<1>1. /\ t \in 1..Len(node) /\ Len(node) \in Nat
      /\ node[t] \in OTBNode /\ Len(node) + 1 \in Nat
  OBVIOUS
<1>2. [node[t] EXCEPT !.next = Len(node) + 1] \in OTBNode
  BY <1>1, Relinked
<1>3. withNext \in Seq(OTBNode) /\ Len(withNext) = Len(node)
      /\ withNext[t] = [node[t] EXCEPT !.next = Len(node) + 1]
  BY <1>1, <1>2
<1>4. node'[t] = withNext[t]
  <2> HIDE DEF withNext
  <2>1. node' = Append(withNext, NewNode)
    BY DEF withNext
  <2>2. NewNode \in OTBNode
    BY DEF NewNode, OTBNode, Byte
  <2> QED
    BY <1>1, <1>3, <2>1, <2>2
<1>5. /\ [node[t] EXCEPT !.next = Len(node) + 1].next = Len(node) + 1
      /\ [node[t] EXCEPT !.next = Len(node) + 1].child = node[t].child
  BY <1>1, Relinked
<1> QED
  BY <1>3, <1>4, <1>5

\* A link that was nil may be set to a new node.
LEMMA StaysLinked ==
  ASSUME node \in Seq(OTBNode), NodesLinked,
         NEW t \in DOMAIN node,
         \/ node[t].child = 0
            /\ node' = Append([node EXCEPT ![t].child = Len(node) + 1], NewNode)
         \/ node[t].next = 0
            /\ node' = Append([node EXCEPT ![t].next = Len(node) + 1], NewNode)
  PROVE  NodesLinked'
<1>0. PICK L \in Nat : L = Len(node)
  OBVIOUS
<1>1. /\ L \in Nat /\ t \in 1..L
      /\ \A n \in 1..L : node[n].child \in Nat /\ node[n].next \in Nat
  <2>1. \A r \in OTBNode : r.child \in Nat /\ r.next \in Nat
    BY DEF OTBNode
  <2>2. /\ \A n \in 1..L : node[n] \in OTBNode
        /\ t \in 1..L
    BY <1>0
  <2> QED
    BY <2>1, <2>2
<1>2. /\ Len(node') = L + 1
      /\ \A n \in 1..L : n # t => node'[n] = node[n]
      /\ node'[L + 1].child = 0 /\ node'[L + 1].next = 0
  BY <1>0, Allocated DEF NewNode
<1>3. \/ /\ node[t].child = 0
         /\ node'[t].child = L + 1 /\ node'[t].next = node[t].next
      \/ /\ node[t].next = 0
         /\ node'[t].next = L + 1 /\ node'[t].child = node[t].child
  BY <1>0, ChildSet, SiblingSet
<1>4. \A n \in 1..L, m \in 1..L : Links(n, m)' <=> Links(n, m)
  BY <1>1, <1>2, <1>3, SMTT(20) DEF Links
<1>5. \A n \in 1..L : Links(n, L + 1)' <=> n = t
  BY <1>0, <1>1, <1>2, <1>3 DEF Links, NodesLinked
<1>6. \A m \in 1..L + 1 : ~Links(L + 1, m)'
  BY <1>1, <1>2 DEF Links
<1>7. \A m \in 2..L + 1 : \E n \in 1..m - 1 : Links(n, m)'
  <2> SUFFICES ASSUME NEW m \in 2..L + 1 PROVE \E n \in 1..m - 1 : Links(n, m)'
    OBVIOUS
  <2>1. CASE m = L + 1
    BY <1>1, <1>5, <2>1
  <2>2. CASE m \in 2..L
    <3>1. PICK n \in 1..m - 1 : Links(n, m)
      BY <1>0, <2>2 DEF NodesLinked
    <3>2. n \in 1..L /\ m \in 1..L
      BY <1>1, <2>2
    <3> QED
      BY <1>4, <3>1, <3>2
  <2> QED
    BY <1>1, <2>1, <2>2
<1>8. \A n, k \in 1..L + 1, m \in 1..L + 1 : Links(n, m)' /\ Links(k, m)' => n = k
  <2> SUFFICES ASSUME NEW n \in 1..L + 1, NEW k \in 1..L + 1, NEW m \in 1..L + 1,
                      Links(n, m)', Links(k, m)'
               PROVE  n = k
    OBVIOUS
  <2>1. n \in 1..L /\ k \in 1..L
    BY <1>1, <1>6
  <2>2. CASE m = L + 1
    BY <1>5, <2>1, <2>2
  <2>3. CASE m \in 1..L
    BY <1>0, <1>4, <2>1, <2>3 DEF NodesLinked
  <2> QED
    BY <1>1, <2>2, <2>3
<1>9. \A n \in 1..L + 1 :
        /\ node'[n].child \in 0..L + 1 /\ node'[n].next \in 0..L + 1
        /\ node'[n].child = node'[n].next => node'[n].child = 0
  <2>1. \A n \in 1..L :
          /\ node[n].child \in 0..L /\ node[n].next \in 0..L
          /\ node[n].child = node[n].next => node[n].child = 0
    BY <1>0 DEF NodesLinked
  <2>2. \A n \in 1..L : n # t =>
          /\ node'[n].child \in 0..L + 1 /\ node'[n].next \in 0..L + 1
          /\ node'[n].child = node'[n].next => node'[n].child = 0
    BY <1>1, <1>2, <2>1
  <2>3. /\ node'[t].child \in 0..L + 1 /\ node'[t].next \in 0..L + 1
        /\ node'[t].child # node'[t].next
    BY <1>1, <1>3, <2>1
  <2> QED
    BY <1>1, <1>2, <2>2, <2>3
<1>10. \A n \in 1..L + 1, m \in 1..L + 1 : Links(n, m)' => n < m
  <2> SUFFICES ASSUME NEW n \in 1..L + 1, NEW m \in 1..L + 1, Links(n, m)'
               PROVE  n < m
    OBVIOUS
  <2>1. n \in 1..L
    <3>1. n # L + 1
      BY <1>6
    <3> QED
      BY <1>1, <3>1
  <2>2. CASE m \in 1..L
    BY <1>0, <1>4, <2>1, <2>2 DEF NodesLinked
  <2> QED
    BY <1>1, <2>1, <2>2
<1> QED
  <2>1. \A n, m : Links(n, m)' <=> m \in {node'[n].child, node'[n].next}
    BY DEF Links
  <2> QED
    BY <1>1, <1>2, <1>7, <1>8, <1>9, <1>10, <2>1 DEF NodesLinked, Links

\* A node whose type or properties change keeps its links.
LEMMA Edited ==
  ASSUME node \in Seq(OTBNode),
         NEW t \in DOMAIN node, NEW b \in Byte,
         \/ node' = [node EXCEPT ![t].type = b]
         \/ node' = [node EXCEPT ![t].props = Append(@, b)]
  PROVE  /\ node' \in Seq(OTBNode)
         /\ Len(node') = Len(node)
         /\ \A n \in 1..Len(node) :
              node'[n].child = node[n].child /\ node'[n].next = node[n].next
<1>1. ASSUME NEW r \in OTBNode
      PROVE  /\ [r EXCEPT !.type = b] \in OTBNode
             /\ [r EXCEPT !.props = Append(@, b)] \in OTBNode
             /\ [r EXCEPT !.type = b].child = r.child
             /\ [r EXCEPT !.type = b].next = r.next
             /\ [r EXCEPT !.props = Append(@, b)].child = r.child
             /\ [r EXCEPT !.props = Append(@, b)].next = r.next
  <2>1. Append(r.props, b) \in Seq(Byte)
    BY DEF OTBNode
  <2> QED
    BY <2>1 DEF OTBNode
<1>2. t \in 1..Len(node) /\ node[t] \in OTBNode
  OBVIOUS
<1>3. PICK r \in OTBNode : /\ r.child = node[t].child /\ r.next = node[t].next
                           /\ node' = [node EXCEPT ![t] = r]
  BY <1>1, <1>2
<1> QED
  BY <1>2, <1>3

\* What is true of links is true of nodes with the same links.
LEMMA SameLinks ==
  ASSUME NodesLinked,
         Len(node') = Len(node),
         \A n \in 1..Len(node) :
           node'[n].child = node[n].child /\ node'[n].next = node[n].next,
         node \in Seq(OTBNode)
  PROVE  NodesLinked'
<1>1. PICK L \in Nat : L = Len(node)
  OBVIOUS
<1>2. \A n \in 1..L, m \in 1..L : Links(n, m)' <=> Links(n, m)
  BY <1>1 DEF Links
<1>3. \A m \in 2..L : \E n \in 1..m - 1 : Links(n, m)'
  <2> SUFFICES ASSUME NEW m \in 2..L PROVE \E n \in 1..m - 1 : Links(n, m)'
    OBVIOUS
  <2>1. PICK n \in 1..m - 1 : Links(n, m)
    BY <1>1 DEF NodesLinked
  <2>2. n \in 1..L /\ m \in 1..L
    OBVIOUS
  <2> QED
    BY <1>2, <2>1, <2>2
<1> QED
  <2>1. \A n, m : Links(n, m)' <=> m \in {node'[n].child, node'[n].next}
    BY DEF Links
  <2>2. \A n, k \in 1..L, m \in 1..L : Links(n, m)' /\ Links(k, m)' => n = k
    BY <1>1, <1>2 DEF NodesLinked
  <2>3. \A n \in 1..L, m \in 1..L : Links(n, m)' => n < m
    BY <1>1, <1>2 DEF NodesLinked
  <2>4. \A n \in 1..L :
          /\ node'[n].child \in 0..L /\ node'[n].next \in 0..L
          /\ node'[n].child = node'[n].next => node'[n].child = 0
    BY <1>1 DEF NodesLinked
  <2> QED
    BY <1>1, <1>3, <2>1, <2>2, <2>3, <2>4 DEF NodesLinked, Links

\* The innermost call has a current node.
LEMMA TopIsNode ==
  ASSUME TypeOK, stack # <<>>
  PROVE  Len(stack) \in Nat \ {0} /\ Top = stack[Len(stack)] /\ Top \in 1..Len(node)
BY DEF TypeOK, Top, Last

\* The meaning of a byte.
LEMMA TokenTypes ==
  /\ \A b \in Byte : Open(b) \in Token /\ Prop(b) \in Token
  /\ Close \in Token
BY DEF Open, Prop, Close, Token, Byte, NODE_END

\* Nodes are only ever added.
LEMMA StackGrows ==
  ASSUME NEW L \in Nat, NEW s \in Seq(1..L)
  PROVE  s \in Seq(1..L + 1)
<1>1. \A i \in 1..Len(s) : s[i] \in 1..L + 1
  OBVIOUS
<1> QED
  BY <1>1

\* The calls but the innermost one.
LEMMA FrontIs ==
  ASSUME NEW S, NEW s \in Seq(S), s # <<>>
  PROVE  /\ Front(s) \in Seq(S) /\ Len(Front(s)) = Len(s) - 1 /\ Len(Front(s)) \in Nat
         /\ \A i \in 1..Len(Front(s)) : i \in 1..Len(s) /\ Front(s)[i] = s[i]
<1>1. Len(s) \in Nat \ {0}
  OBVIOUS
<1>2. PICK k \in Nat : k = Len(s) - 1
  BY <1>1
<1>3. PICK f : f = Front(s)
  OBVIOUS
<1>4. f = SubSeq(s, 1, k)
  BY <1>2, <1>3 DEF Front
<1>5. /\ f \in Seq(S)
      /\ Len(f) = IF 1 <= k THEN k - 1 + 1 ELSE 0
      /\ \A i \in 1..k - 1 + 1 : f[i] = s[1 + i - 1]
  <2>1. \A i \in 1..k : s[i] \in S
    BY <1>1, <1>2
  <2> QED
    BY <1>2, <1>4, <2>1, SubSeqProperties
<1>6. Len(f) = k
  <2>1. (IF 1 <= k THEN k - 1 + 1 ELSE 0) = k
    BY <1>2
  <2> QED
    BY <1>5, <2>1
<1>7. ASSUME NEW i \in 1..k PROVE f[i] = s[i]
  <2>1. i \in 1..k - 1 + 1 /\ 1 + i - 1 = i
    BY <1>2
  <2> QED
    BY <1>5, <2>1
<1> QED
  BY <1>1, <1>2, <1>3, <1>5, <1>6, <1>7

\* After every byte, the nodes allocated so far form a tree.
THEOREM Linked == Spec => []TreeInv
<1>1. Init => TreeInv
  <2> SUFFICES ASSUME Init PROVE TreeInv
    OBVIOUS
  <2>1. NewNode \in OTBNode
    BY DEF NewNode, OTBNode, Byte
  <2>2. /\ node = <<NewNode>> /\ Len(node) = 1 /\ node[1] = NewNode
        /\ node \in Seq(OTBNode) /\ DOMAIN node = 1..1
    BY <2>1 DEF Init
  <2>3. stack = <<1>> /\ Len(stack) = 1 /\ stack[1] = 1 /\ Top = 1 /\ stack \in Seq(1..1)
    BY DEF Init, Top, Last
  <2>4. TypeOK
    <3>1. stack \in Seq(DOMAIN node)
      BY <2>2, <2>3
    <3>2. tokens \in Seq(Token) /\ reading = "type" /\ unread = FALSE /\ ended = "no"
      BY DEF Init
    <3> QED
      BY <2>2, <3>1, <3>2 DEF TypeOK
  <2>5. NodesLinked
    BY <2>2 DEF NodesLinked, Links, NewNode
  <2>6. StackInv
    BY <2>2, <2>3 DEF Init, StackInv, NewNode
  <2> QED
    BY <2>4, <2>5, <2>6 DEF TreeInv
<1>2. TreeInv /\ [Next]_vars => TreeInv'
  <2> SUFFICES ASSUME TreeInv, [Next]_vars PROVE TreeInv'
    OBVIOUS
  <2>1. TypeOK /\ NodesLinked /\ StackInv
    BY DEF TreeInv
  <2>2. Alphabet \subseteq Byte
    BY AlphabetAssumption
  <2>3. ASSUME NEW b \in Alphabet, NodeType(b) \/ AddProp(b) PROVE TreeInv'
    <3>1. b \in Byte /\ stack # <<>> /\ stack' = stack /\ ended' = ended
          /\ ~unread /\ unread' = unread /\ reading # "end" /\ reading' = "byte"
      BY <2>1, <2>2, <2>3 DEF NodeType, AddProp, Reads, StackInv, Special, TypeOK
    <3>2. Top \in DOMAIN node /\ Top = stack[Len(stack)] /\ DOMAIN node = 1..Len(node)
      BY <2>1, <3>1, TopIsNode DEF TypeOK
    <3>3. \/ node' = [node EXCEPT ![Top].type = b]
          \/ node' = [node EXCEPT ![Top].props = Append(@, b)]
      BY <2>3 DEF NodeType, AddProp
    <3>4. /\ node' \in Seq(OTBNode) /\ Len(node') = Len(node)
          /\ \A n \in 1..Len(node) :
               node'[n].child = node[n].child /\ node'[n].next = node[n].next
      BY <2>1, <3>1, <3>2, <3>3, Edited DEF TypeOK
    <3>5. NodesLinked'
      BY <2>1, <3>4, SameLinks DEF TypeOK
    <3>6. tokens' \in Seq(Token)
      <4>1. \E k \in Token : tokens' = Append(tokens, k)
        BY <2>3, <3>1, TokenTypes DEF NodeType, AddProp
      <4> QED
        BY <2>1, <4>1 DEF TypeOK
    <3>7. TypeOK'
      <4>1. DOMAIN node' = DOMAIN node
        BY <2>1, <3>4 DEF TypeOK
      <4>2. stack' \in Seq(DOMAIN node')
        BY <2>1, <3>1, <4>1 DEF TypeOK
      <4>3. unread' \in BOOLEAN /\ ended' \in {"no", "eof", "error"}
        BY <2>1, <3>1 DEF TypeOK
      <4> QED
        BY <3>1, <3>4, <3>6, <4>2, <4>3 DEF TypeOK
    <3>8. StackInv'
      <4>1. \A i \in 1..Len(stack) : stack[i] \in 1..Len(node)
        BY <2>1 DEF TypeOK
      <4>2. Top' = Top
        BY <3>1 DEF Top
      <4> QED
        BY <2>1, <3>1, <3>2, <3>4, <4>1, <4>2 DEF StackInv
    <3> QED
      BY <3>5, <3>7, <3>8 DEF TreeInv
  <2>4. CASE Escape
    <3>1. ~unread /\ reading' = "escaped" /\ UNCHANGED <<node, stack, unread, tokens, ended>>
      BY <2>4 DEF Escape, Reads, ESCAPE_CHAR, NODE_END
    <3>2. NodesLinked'
      BY <2>1, <3>1 DEF NodesLinked, Links
    <3> QED
      BY <2>1, <2>4, <3>1, <3>2 DEF Escape, TreeInv, TypeOK, StackInv, Top
  <2>5. CASE StartChild
    <3>1. stack # <<>> /\ ~unread /\ unread' = unread /\ reading = "byte" /\ reading' = "type"
          /\ ended' = ended /\ tokens' = tokens
      BY <2>1, <2>5 DEF StartChild, Reads, NODE_START, NODE_END, TypeOK
    <3>2. PICK L \in Nat : L = Len(node)
      BY <2>1 DEF TypeOK
    <3>3. /\ Top \in DOMAIN node /\ Top = stack[Len(stack)] /\ Len(stack) \in Nat \ {0}
          /\ DOMAIN node = 1..L
      BY <2>1, <3>1, <3>2, TopIsNode DEF TypeOK
    <3>4. node[Top].child = 0
      BY <2>1, <3>1 DEF StackInv
    <3>5. /\ node' = Append([node EXCEPT ![Top].child = Len(node) + 1], NewNode)
          /\ stack' = Append(stack, L + 1)
      BY <2>5, <3>2 DEF StartChild
    <3>6. /\ node' \in Seq(OTBNode) /\ Len(node') = L + 1
          /\ \A n \in 1..L : n # Top => node'[n] = node[n]
          /\ node'[L + 1].child = 0 /\ node'[L + 1].next = 0
      <4>1. NewNode.child = 0 /\ NewNode.next = 0
        BY DEF NewNode
      <4>2. node \in Seq(OTBNode)
        BY <2>1 DEF TypeOK
      <4> QED
        BY <3>2, <3>3, <3>5, <4>1, <4>2, Allocated
    <3>7. NodesLinked'
      BY <2>1, <3>3, <3>4, <3>5, StaysLinked DEF TypeOK
    <3>8. /\ stack \in Seq(1..L) /\ stack' \in Seq(1..L + 1)
          /\ Len(stack') = Len(stack) + 1 /\ stack'[Len(stack')] = L + 1
          /\ \A i \in 1..Len(stack) : stack'[i] = stack[i] /\ stack[i] \in 1..L
      <4>1. stack \in Seq(1..L)
        BY <2>1, <3>3 DEF TypeOK
      <4>2. stack \in Seq(1..L + 1)
        BY <3>2, <4>1, StackGrows
      <4> QED
        BY <3>2, <3>5, <4>1, <4>2
    <3>9. TypeOK'
      <4>1. DOMAIN node' = 1..L + 1
        BY <3>2, <3>6
      <4>2. stack' \in Seq(DOMAIN node')
        BY <3>8, <4>1
      <4> QED
        BY <2>1, <3>1, <3>6, <4>2 DEF TypeOK
    <3>10. StackInv'
      <4>1. node'[Top].next = node[Top].next
        BY <2>1, <3>3, <3>5, ChildSet DEF TypeOK
      <4>2. \A i \in 1..Len(stack) : node'[stack[i]].next = 0
        BY <2>1, <3>6, <3>8, <4>1 DEF StackInv
      <4>3. Top' = L + 1
        BY <3>8 DEF Top, Last
      <4>4. \A i \in 1..Len(stack') : i \in 1..Len(stack) \/ i = Len(stack')
        BY <3>3, <3>8
      <4>5. \A i \in 1..Len(stack') : node'[stack'[i]].next = 0
        BY <3>6, <3>8, <4>2, <4>4
      <4>6. \A i, j \in 1..Len(stack') : i < j => stack'[i] < stack'[j]
        <5> SUFFICES ASSUME NEW i \in 1..Len(stack'), NEW j \in 1..Len(stack'), i < j
                     PROVE  stack'[i] < stack'[j]
          OBVIOUS
        <5>1. i \in 1..Len(stack) /\ stack'[i] = stack[i] /\ stack[i] \in 1..L
          BY <3>3, <3>8, SMTT(20)
        <5>2. CASE j = Len(stack')
          BY <3>2, <3>8, <5>1, <5>2
        <5>3. CASE j \in 1..Len(stack)
          BY <2>1, <3>8, <5>1, <5>3 DEF StackInv
        <5> QED
          BY <4>4, <5>2, <5>3
      <4> QED
        BY <3>1, <3>6, <4>3, <4>5, <4>6 DEF StackInv
    <3> QED
      BY <3>7, <3>9, <3>10 DEF TreeInv
  <2>6. CASE EndNode
    <3>1. reading' = "end" /\ unread' = FALSE /\ UNCHANGED <<node, stack, ended>>
          /\ tokens' = Append(tokens, Close)
      BY <2>6 DEF EndNode, Reads
    <3>2. NodesLinked'
      BY <2>1, <3>1 DEF NodesLinked, Links
    <3>3. tokens' \in Seq(Token)
      BY <2>1, <3>1, TokenTypes DEF TypeOK
    <3>4. TypeOK'
      BY <2>1, <3>1, <3>3 DEF TypeOK
    <3> QED
      BY <2>1, <3>1, <3>2, <3>4 DEF TreeInv, StackInv
  <2>7. CASE StartSibling
    <3>1. stack # <<>> /\ ~unread /\ unread' = unread /\ reading = "end" /\ reading' = "type"
          /\ ended' = ended /\ tokens' = tokens
      BY <2>1, <2>7 DEF StartSibling, Reads, StackInv, TypeOK
    <3>2. PICK L \in Nat : L = Len(node)
      BY <2>1 DEF TypeOK
    <3>3. /\ Top \in DOMAIN node /\ Top = stack[Len(stack)] /\ Len(stack) \in Nat \ {0}
          /\ DOMAIN node = 1..L
      BY <2>1, <3>1, <3>2, TopIsNode DEF TypeOK
    <3>4. node[Top].next = 0
      BY <2>1, <3>3 DEF StackInv
    <3>5. /\ node' = Append([node EXCEPT ![Top].next = Len(node) + 1], NewNode)
          /\ stack' = [stack EXCEPT ![Len(stack)] = L + 1]
      BY <2>7, <3>2 DEF StartSibling
    <3>6. /\ node' \in Seq(OTBNode) /\ Len(node') = L + 1
          /\ \A n \in 1..L : n # Top => node'[n] = node[n]
          /\ node'[L + 1].child = 0 /\ node'[L + 1].next = 0
      <4>1. NewNode.child = 0 /\ NewNode.next = 0
        BY DEF NewNode
      <4>2. node \in Seq(OTBNode)
        BY <2>1 DEF TypeOK
      <4> QED
        BY <3>2, <3>3, <3>5, <4>1, <4>2, Allocated
    <3>7. NodesLinked'
      BY <2>1, <3>3, <3>4, <3>5, StaysLinked DEF TypeOK
    <3>8. /\ stack \in Seq(1..L) /\ stack' \in Seq(1..L + 1)
          /\ Len(stack') = Len(stack) /\ stack'[Len(stack')] = L + 1
          /\ \A i \in 1..Len(stack) : stack[i] \in 1..L
          /\ \A i \in 1..Len(stack) - 1 : stack'[i] = stack[i]
      <4>1. stack \in Seq(1..L)
        BY <2>1, <3>3 DEF TypeOK
      <4>2. stack \in Seq(1..L + 1)
        BY <3>2, <4>1, StackGrows
      <4> QED
        BY <3>2, <3>3, <3>5, <4>1, <4>2
    <3>9. TypeOK'
      <4>1. DOMAIN node' = 1..L + 1
        BY <3>2, <3>6
      <4>2. stack' \in Seq(DOMAIN node')
        BY <3>8, <4>1
      <4> QED
        BY <2>1, <3>1, <3>6, <4>2 DEF TypeOK
    <3>10. StackInv'
      <4>1. \A i \in 1..Len(stack) - 1 : stack[i] # Top /\ node'[stack[i]].next = 0
        <5> SUFFICES ASSUME NEW i \in 1..Len(stack) - 1
                     PROVE  stack[i] # Top /\ node'[stack[i]].next = 0
          OBVIOUS
        <5>1. i \in 1..Len(stack) /\ Len(stack) \in 1..Len(stack) /\ i < Len(stack)
          BY <3>3
        <5>2. stack[i] < stack[Len(stack)] /\ node[stack[i]].next = 0
          BY <2>1, <5>1 DEF StackInv
        <5>3. stack[i] \in 1..L /\ stack[Len(stack)] \in 1..L
          BY <3>8, <5>1
        <5>4. stack[i] # Top
          BY <3>3, <5>2, <5>3
        <5> QED
          BY <3>6, <5>2, <5>3, <5>4
      <4>2. Top' = L + 1
        BY <3>8 DEF Top, Last
      <4>3. \A i \in 1..Len(stack') : i \in 1..Len(stack) - 1 \/ i = Len(stack')
        BY <3>3, <3>8
      <4>4. \A i \in 1..Len(stack') : node'[stack'[i]].next = 0
        BY <3>6, <3>8, <4>1, <4>3
      <4>5. \A i, j \in 1..Len(stack') : i < j => stack'[i] < stack'[j]
        <5> SUFFICES ASSUME NEW i \in 1..Len(stack'), NEW j \in 1..Len(stack'), i < j
                     PROVE  stack'[i] < stack'[j]
          OBVIOUS
        <5>1. i \in 1..Len(stack) - 1 /\ i \in 1..Len(stack)
              /\ stack'[i] = stack[i] /\ stack[i] \in 1..L
          BY <3>3, <3>8, SMTT(20)
        <5>2. CASE j = Len(stack')
          BY <3>2, <3>8, <5>1, <5>2
        <5>3. CASE j \in 1..Len(stack) - 1
          <6>1. j \in 1..Len(stack) /\ stack'[j] = stack[j]
            BY <3>3, <3>8, <5>3
          <6> QED
            BY <2>1, <5>1, <6>1 DEF StackInv
        <5> QED
          BY <4>3, <5>2, <5>3
      <4> QED
        BY <3>1, <3>6, <4>2, <4>4, <4>5 DEF StackInv
    <3> QED
      BY <3>7, <3>9, <3>10 DEF TreeInv
  <2>8. CASE Return
    <3>1. stack # <<>> /\ reading' = "byte" /\ unread' = TRUE /\ stack' = Front(stack)
          /\ UNCHANGED <<node, ended, tokens>>
      BY <2>8 DEF Return, Reads
    <3>2. NodesLinked'
      BY <2>1, <3>1 DEF NodesLinked, Links
    <3>3. /\ stack' \in Seq(DOMAIN node) /\ Len(stack') = Len(stack) - 1
          /\ \A i \in 1..Len(stack') : i \in 1..Len(stack) /\ stack'[i] = stack[i]
      <4>1. stack \in Seq(DOMAIN node)
        BY <2>1 DEF TypeOK
      <4> QED
        BY <3>1, <4>1, FrontIs
    <3>4. TypeOK'
      BY <2>1, <3>1, <3>3 DEF TypeOK
    <3>5. StackInv'
      <4>1. \A i \in 1..Len(stack') : node'[stack'[i]].next = 0
        BY <2>1, <3>1, <3>3 DEF StackInv
      <4>2. \A i, j \in 1..Len(stack') : i < j => stack'[i] < stack'[j]
        BY <2>1, <3>3 DEF StackInv
      <4> QED
        BY <3>1, <4>1, <4>2 DEF StackInv
    <3> QED
      BY <3>2, <3>4, <3>5 DEF TreeInv
  <2>9. CASE ParseFails \/ EndOfFile \/ UNCHANGED vars
    <3>1. UNCHANGED <<node, stack, reading, unread, tokens>>
          /\ ended' \in {"no", "eof", "error"}
      BY <2>1, <2>9 DEF ParseFails, EndOfFile, vars, TypeOK
    <3>2. NodesLinked'
      BY <2>1, <3>1 DEF NodesLinked, Links
    <3> QED
      BY <2>1, <3>1, <3>2 DEF TreeInv, TypeOK, StackInv, Top
  <2> QED
    BY <2>3, <2>4, <2>5, <2>6, <2>7, <2>8, <2>9 DEF Next
<1> QED
  BY <1>1, <1>2, PTL DEF Spec

\* Every variable keeps its type: no index of a node is ever out of range.
THEOREM TypeCorrect == Spec => []TypeOK
<1>1. TreeInv => TypeOK
  BY DEF TreeInv
<1> QED
  BY <1>1, Linked, PTL

\* Every node that was read is in the tree, and once, for every file.
THEOREM AlwaysLinked == Spec => []NodesLinked
<1>1. TreeInv => NodesLinked
  BY DEF TreeInv
<1> QED
  BY <1>1, Linked, PTL

-----------------------------------------------------------------------------
(* The places of the nodes in the file.                                    *)

\* What was read so far, with the start of the node whose type comes next.
Read == IF reading = "type" THEN Append(tokens, Open(0)) ELSE tokens

\* The node n, which is r, lies in the file as the format has it: at[n] is the
\* place of its NODE_START, cl[n] that of its NODE_END, and up[n] the place
\* after the chain of its siblings; a place after R is of a NODE_END to come.
Laid(r, R, at, cl, up, n) ==
  /\ at[n] \in 1..Len(R) /\ R[at[n]] = Open(r.type)
  /\ \A i \in 1..Len(r.props) : at[n] + i \in 1..Len(R) /\ R[at[n] + i] = Prop(r.props[i])
  /\ at[n] + Len(r.props) < cl[n] /\ cl[n] < up[n]
  /\ cl[n] <= Len(R) => R[cl[n]] = Close
  /\ IF r.child = 0 THEN cl[n] = at[n] + Len(r.props) + 1
     ELSE at[r.child] = at[n] + Len(r.props) + 1 /\ cl[n] = up[r.child]
  /\ IF r.next = 0 THEN up[n] = cl[n] + 1
     ELSE at[r.next] = cl[n] + 1 /\ up[n] = up[r.next]

\* All of the nodes nd do, the root first, in a file that is R and the NODE_ENDs
\* up to place e: those of the nodes st, innermost first, which are being read.
Lies(nd, st, R, e, at, cl, up) ==
  /\ \A n \in 1..Len(nd) : Laid(nd[n], R, at, cl, up, n)
  /\ at[1] = 1 /\ up[1] = e + 1
  /\ \A n \in 1..Len(nd) : up[n] <= e + 1
  /\ \A n, m \in 1..Len(nd) : n < m => at[n] < at[m]
  /\ \A n, m \in 1..Len(nd) : cl[n] = cl[m] => n = m
  /\ \A i \in 1..Len(st) : cl[st[i]] + i = e + 1
  /\ \A n \in 1..Len(nd) : (\A i \in 1..Len(st) : st[i] # n) => cl[n] <= Len(R)

\* Some places do.
Placeable(nd, st, R, e) ==
  \E at, cl, up \in [1..Len(nd) -> Nat] : Lies(nd, st, R, e, at, cl, up)

\* The places of the nodes in what was read so far.
Placed(at, cl, up) == Lies(node, stack, Read, Len(Read) + MissingEnds, at, cl, up)

\* Only the innermost node may be without children, and a call that tells what
\* follows a byte is the call of a node.
Nesting ==
  /\ \A i \in 1..Len(stack) - 1 : node[stack[i]].child # 0
  /\ reading # "byte" => stack # <<>>

\* Among finitely many numbers one is the greatest.
LEMMA Greatest ==
  ASSUME NEW L \in Nat, NEW S, S \subseteq 0..L, S # {}
  PROVE  \E x \in S : \A y \in S : ~ (x < y)
<1> DEFINE Above == {x..L : x \in S}
           R == StrictSubsetOrdering(Nat)
<1>1. \A x \in 0..L : x..L \in FiniteSubsetsOf(Nat)
  <2>1. \A x \in 0..L : IsFiniteSet(x..L)
    BY FS_Interval
  <2>2. \A x \in 0..L : x..L \subseteq Nat
    OBVIOUS
  <2> QED
    BY <2>1, <2>2 DEF FiniteSubsetsOf
<1>2. Above \subseteq FiniteSubsetsOf(Nat) /\ Above # {}
  BY <1>1
<1>3. \A x, y \in 0..L : x < y => <<y..L, x..L>> \in R
  <2>1. \A x, y \in 0..L : x < y => x \in x..L /\ x \notin y..L /\ y..L \subseteq x..L
    OBVIOUS
  <2>2. \A x \in 0..L : x..L \in SUBSET Nat
    OBVIOUS
  <2> QED
    BY <2>1, <2>2 DEF StrictSubsetOrdering
<1>4. IsWellFoundedOn(R, FiniteSubsetsOf(Nat))
  BY FS_StrictSubsetOrderingWellFounded
<1> HIDE DEF R
<1>5. PICK u \in Above : \A z \in Above : ~ (<<z, u>> \in R)
  BY ONLY <1>2, <1>4, WFMin
<1>6. PICK x \in S : u = x..L
  BY <1>5
<1>7. \A y \in S : ~ (<<y..L, x..L>> \in R)
  BY <1>5, <1>6
<1>8. \A y \in S : y \in 0..L /\ x \in 0..L
  BY <1>6
<1> QED
  BY ONLY <1>3, <1>6, <1>7, <1>8, Zenon

-----------------------------------------------------------------------------
(* Parts of a sequence.                                                    *)

\* What f has from place a up to place b.
Part(f, a, b) == [i \in 1..b - a |-> f[a + i - 1]]

\* Two parts that meet are one.
LEMMA PartJoins ==
  ASSUME NEW S, NEW f \in Seq(S), NEW a \in 1..Len(f) + 1, NEW b \in a..Len(f) + 1,
         NEW c \in b..Len(f) + 1
  PROVE  Part(f, a, b) \in Seq(S) /\ Part(f, a, b) \o Part(f, b, c) = Part(f, a, c)
<1> DEFINE p == Part(f, a, b)
           q == Part(f, b, c)
<1>1. /\ a \in Nat /\ b \in Nat /\ c \in Nat /\ Len(f) \in Nat
      /\ 1 <= a /\ a <= b /\ b <= c /\ c <= Len(f) + 1
  OBVIOUS
<1>2. \A x \in 1..Len(f) : f[x] \in S
  OBVIOUS
<1>3. b - a \in Nat /\ c - b \in Nat
  BY <1>1
<1>4. p \in Seq(S) /\ Len(p) = b - a /\ \A i \in 1..b - a : p[i] = f[a + i - 1]
  <2>1. \A i \in 1..b - a : a + i - 1 \in 1..Len(f)
    BY <1>1
  <2>2. \A i \in 1..b - a : f[a + i - 1] \in S
    BY ONLY <1>2, <2>1
  <2> QED
    BY <1>3, <2>2 DEF Part
<1>5. q \in Seq(S) /\ Len(q) = c - b /\ \A i \in 1..c - b : q[i] = f[b + i - 1]
  <2>1. \A i \in 1..c - b : b + i - 1 \in 1..Len(f)
    BY <1>1
  <2>2. \A i \in 1..c - b : f[b + i - 1] \in S
    BY ONLY <1>2, <2>1
  <2> QED
    BY <1>3, <2>2 DEF Part
<1> HIDE DEF p, q
<1>6. /\ p \o q \in Seq(S) /\ Len(p \o q) = Len(p) + Len(q)
      /\ \A i \in 1..Len(p) + Len(q) :
           (p \o q)[i] = IF i <= Len(p) THEN p[i] ELSE q[i - Len(p)]
  BY <1>4, <1>5, ConcatProperties
<1>7. Len(p) + Len(q) = c - a
  BY <1>1, <1>4, <1>5
<1>8. ASSUME NEW i \in 1..c - a PROVE (p \o q)[i] = f[a + i - 1]
  <2>1. (p \o q)[i] = IF i <= Len(p) THEN p[i] ELSE q[i - Len(p)]
    BY <1>6, <1>7
  <2>2. CASE i <= b - a
    <3>1. i \in 1..b - a
      BY <1>1, <2>2
    <3> QED
      BY <1>4, <2>1, <2>2, <3>1
  <2>3. CASE ~(i <= b - a)
    <3>1. i - (b - a) \in 1..c - b /\ b + (i - (b - a)) - 1 = a + i - 1
      BY <1>1, <2>3
    <3>2. q[i - (b - a)] = f[b + (i - (b - a)) - 1]
      BY <1>5, <3>1
    <3> QED
      BY <1>4, <2>1, <2>3, <3>1, <3>2
  <2> QED
    BY <2>2, <2>3
<1>9. p \o q = [i \in 1..c - a |-> f[a + i - 1]]
  <2>1. \A s \in Seq(S) : s = [i \in 1..Len(s) |-> s[i]]
    OBVIOUS
  <2>2. p \o q = [i \in 1..Len(p \o q) |-> (p \o q)[i]]
    BY ONLY <1>6, <2>1
  <2> QED
    BY <1>6, <1>7, <1>8, <2>2
<1> QED
  BY <1>4, <1>9 DEF Part, p, q

\* The part with one element, and the one with none.
LEMMA PartOfOne ==
  ASSUME NEW S, NEW f \in Seq(S), NEW a \in 1..Len(f)
  PROVE  Part(f, a, a + 1) = <<f[a]>> /\ Part(f, a, a) = <<>>
<1>1. a \in Nat
  OBVIOUS
<1>2. 1..(a + 1) - a = 1..1 /\ 1..a - a = 1..0 /\ a + 1 - 1 = a
  BY <1>1
<1>3. Part(f, a, a + 1) = [i \in 1..1 |-> f[a + i - 1]]
  BY <1>2 DEF Part
<1>4. [i \in 1..1 |-> f[a + i - 1]] = <<f[a]>>
  BY <1>1
<1>5. Part(f, a, a) = <<>>
  BY <1>2 DEF Part
<1> QED
  BY <1>3, <1>4, <1>5

-----------------------------------------------------------------------------
(* A tree whose nodes are placed is what the file says.                    *)

\* The whole file, with the NODE_ENDs to come.
File == [i \in 1..Len(Read) + MissingEnds |-> IF i <= Len(Read) THEN Read[i] ELSE Close]

\* The parts of the file from the place of each node to that after its chain.
Parts(at, up) ==
  [n \in 0..Len(node) |-> IF n = 0 THEN <<>> ELSE Part(File, at[n], up[n])]

\* What is written for the node n and what comes after it, by f.
Chain(f, n) ==
  IF n = 0 THEN <<>>
  ELSE <<Open(node[n].type)>>
       \o [i \in 1..Len(node[n].props) |-> Prop(node[n].props[i])]
       \o f[node[n].child] \o <<Close>> \o f[node[n].next]

\* A file has tokens, and as many ends to come as calls wait for one.
LEMMA FileTypes ==
  ASSUME TypeOK, Nesting
  PROVE  /\ Read \in Seq(Token) /\ Len(Read) \in Nat /\ MissingEnds \in Nat
         /\ File \in Seq(Token) /\ Len(File) = Len(Read) + MissingEnds
         /\ \A i \in 1..Len(Read) : File[i] = Read[i]
         /\ \A i \in 1..Len(Read) + MissingEnds : ~(i <= Len(Read)) => File[i] = Close
<1>1. Open(0) \in Token /\ Close \in Token
  BY DEF Open, Close, Token, Byte, NODE_END
<1>2. tokens \in Seq(Token) /\ Len(stack) \in Nat
  BY DEF TypeOK
<1>3. Read \in Seq(Token) /\ Len(Read) \in Nat
  BY <1>1, <1>2 DEF Read
<1>4. MissingEnds \in Nat
  <2>1. reading = "end" => Len(stack) # 0
    BY DEF Nesting, TypeOK
  <2>2. CASE reading = "end"
    <3>1. Len(stack) - 1 \in Nat
      BY <1>2, <2>1, <2>2
    <3> QED
      BY <2>2, <3>1 DEF MissingEnds
  <2>3. CASE reading # "end"
    <3>1. Len(stack) - 0 \in Nat
      BY <1>2
    <3> QED
      BY <2>3, <3>1 DEF MissingEnds
  <2> QED
    BY <2>2, <2>3
<1>5. \A i \in 1..Len(Read) : Read[i] \in Token
  BY <1>3
<1>6. \A i \in 1..Len(Read) + MissingEnds : (IF i <= Len(Read) THEN Read[i] ELSE Close) \in Token
  <2> SUFFICES ASSUME NEW i \in 1..Len(Read) + MissingEnds
               PROVE  (IF i <= Len(Read) THEN Read[i] ELSE Close) \in Token
    OBVIOUS
  <2>1. i <= Len(Read) => i \in 1..Len(Read)
    BY <1>3, <1>4
  <2> QED
    BY <1>1, <1>5, <2>1
<1>7. File \in Seq(Token) /\ Len(File) = Len(Read) + MissingEnds
  <2>1. Len(Read) + MissingEnds \in Nat
    BY <1>3, <1>4
  <2> QED
    BY <1>6, <2>1 DEF File
<1>8. \A i \in 1..Len(Read) : i \in 1..Len(Read) + MissingEnds /\ i <= Len(Read)
  BY <1>3, <1>4
<1> QED
  BY <1>3, <1>4, <1>7, <1>8 DEF File

\* The part of the file from a node's place is what is written for it.
LEMMA PartIsChain ==
  ASSUME TypeOK, NodesLinked, Nesting,
         NEW at \in [1..Len(node) -> Nat], NEW cl \in [1..Len(node) -> Nat],
         NEW up \in [1..Len(node) -> Nat], Placed(at, cl, up)
  PROVE  \A n \in 0..Len(node) : Parts(at, up)[n] = Chain(Parts(at, up), n)
<1> DEFINE g == Parts(at, up)
<1>0. g = [n \in 0..Len(node) |-> IF n = 0 THEN <<>> ELSE Part(File, at[n], up[n])]
  BY DEF Parts, g
<1> HIDE DEF g
<1> SUFFICES ASSUME NEW n \in 1..Len(node) PROVE g[n] = Chain(g, n)
  <2>1. Len(node) \in Nat
    BY DEF TypeOK
  <2>2. g[0] = <<>> /\ Chain(g, 0) = <<>>
    BY <1>0, <2>1 DEF Chain
  <2>3. \A n \in 0..Len(node) : n = 0 \/ n \in 1..Len(node)
    BY <2>1
  <2> QED
    BY <2>2, <2>3 DEF g
<1> DEFINE r == node[n]
           k == Len(r.props)
           p == Len(Read)
           e == Len(Read) + MissingEnds
           a == at[n]
           b == at[n] + k + 1
           c == cl[n]
           u == up[n]
<1>1. /\ p \in Nat /\ e \in Nat /\ p <= e
      /\ Read \in Seq(Token) /\ File \in Seq(Token) /\ Len(File) = e
      /\ \A i \in 1..p : File[i] = Read[i]
      /\ \A i \in 1..e : ~(i <= p) => File[i] = Close
  BY FileTypes
<1>2. r \in OTBNode /\ r.props \in Seq(Byte) /\ k \in Nat /\ n # 0 /\ Len(node) \in Nat
  <2>1. r \in OTBNode /\ Len(node) \in Nat /\ n # 0
    BY DEF TypeOK
  <2>2. r.props \in Seq(Byte)
    BY <2>1 DEF OTBNode
  <2> QED
    BY <2>1, <2>2
<1>3. /\ r.child \in 0..Len(node) /\ r.next \in 0..Len(node)
  BY DEF NodesLinked
<1>4. /\ a \in 1..p /\ Read[a] = Open(r.type)
      /\ \A i \in 1..k : a + i \in 1..p /\ Read[a + i] = Prop(r.props[i])
      /\ a + k < c /\ c < u /\ c \in Nat /\ u \in Nat /\ u <= e + 1
      /\ c <= p => Read[c] = Close
      /\ IF r.child = 0 THEN c = b ELSE at[r.child] = b /\ c = up[r.child]
      /\ IF r.next = 0 THEN u = c + 1 ELSE at[r.next] = c + 1 /\ u = up[r.next]
  BY DEF Placed, Lies, Laid
<1> HIDE DEF r, k, p, e, a, c, u
<1>5. /\ a \in 1..e + 1 /\ a \in 1..e /\ a + 1 \in a..e + 1
      /\ b \in a..e + 1 /\ b \in a + 1..e + 1
      /\ c \in a..e + 1 /\ c \in b..e + 1 /\ c \in 1..e /\ c + 1 \in a..e + 1 /\ c + 1 \in c..e + 1
      /\ u \in c + 1..e + 1
      /\ a + 1 \in 1..e + 1 /\ b \in 1..e + 1
  <2>1. /\ p \in Nat /\ e \in Nat /\ p <= e /\ k \in Nat /\ a \in 1..p
        /\ b = a + k + 1 /\ a + k < c /\ c < u /\ c \in Nat /\ u \in Nat /\ u <= e + 1
    BY <1>1, <1>2, <1>4 DEF a
  <2> HIDE DEF b
  <2>2. a \in Nat /\ b \in Nat /\ 1 <= a /\ a <= p /\ a + 1 <= b /\ b <= c /\ c <= e
    BY ONLY <2>1
  <2> QED
    BY ONLY <2>1, <2>2
<1>6. Part(File, a, a + 1) = <<Open(r.type)>>
  BY <1>1, <1>4, <1>5, PartOfOne
<1>7. Part(File, a + 1, b) = [i \in 1..k |-> Prop(r.props[i])]
  <2>1. 1..b - (a + 1) = 1..k
    <3>1. a \in Nat /\ k \in Nat /\ b = a + k + 1
      BY <1>2, <1>5 DEF a
    <3> HIDE DEF b
    <3>2. b - (a + 1) = k
      BY ONLY <3>1
    <3> QED
      BY <3>2
  <2>2. \A i \in 1..k : File[(a + 1) + i - 1] = Prop(r.props[i])
    <3>1. \A i \in 1..k : (a + 1) + i - 1 = a + i
      BY <1>5
    <3> QED
      BY <1>1, <1>4, <3>1
  <2> QED
    BY <2>1, <2>2 DEF Part
<1>8. Part(File, b, c) = g[r.child]
  <2>1. CASE r.child = 0
    <3>1. c = b /\ c \in 1..e
      BY <1>4, <1>5, <2>1
    <3>2. Part(File, c, c) = <<>>
      BY <1>1, <1>5, PartOfOne
    <3> QED
      BY <1>0, <1>3, <2>1, <3>1, <3>2
  <2>2. CASE r.child # 0
    BY <1>0, <1>3, <1>4, <2>2
  <2> QED
    BY <2>1, <2>2
<1>9. Part(File, c, c + 1) = <<Close>>
  <2>1. File[c] = Close
    <3>1. CASE c <= p
      <4>1. c \in 1..p
        BY ONLY <1>1, <1>5, <3>1
      <4> QED
        BY <1>1, <1>4, <3>1, <4>1
    <3>2. CASE ~(c <= p)
      BY <1>1, <1>5, <3>2
    <3> QED
      BY <3>1, <3>2
  <2> QED
    BY <1>1, <1>5, <2>1, PartOfOne
<1>10. Part(File, c + 1, u) = g[r.next]
  <2>1. CASE r.next = 0
    <3>1. u = c + 1
      BY <1>4, <2>1
    <3>2. PICK d \in Nat : d = c + 1
      BY <1>4
    <3>3. Part(File, c + 1, c + 1) = <<>>
      <4>1. 1..d - d = 1..0
        OBVIOUS
      <4>2. Part(File, d, d) = <<>>
        BY <4>1 DEF Part
      <4> QED
        BY <3>2, <4>2
    <3> QED
      BY <1>0, <1>3, <2>1, <3>1, <3>3
  <2>2. CASE r.next # 0
    BY <1>0, <1>3, <1>4, <2>2
  <2> QED
    BY <2>1, <2>2
<1>11. g[n] = Part(File, a, u)
  BY <1>0, <1>2 DEF a, u
<1>12. Part(File, a, u) =
         Part(File, a, a + 1) \o Part(File, a + 1, b) \o Part(File, b, c)
           \o Part(File, c, c + 1) \o Part(File, c + 1, u)
  <2> HIDE DEF b
  <2>1. Part(File, a, a + 1) \o Part(File, a + 1, b) = Part(File, a, b)
    BY ONLY <1>1, <1>5, PartJoins
  <2>2. Part(File, a, b) \o Part(File, b, c) = Part(File, a, c)
    BY ONLY <1>1, <1>5, PartJoins
  <2>3. Part(File, a, c) \o Part(File, c, c + 1) = Part(File, a, c + 1)
    BY ONLY <1>1, <1>5, PartJoins
  <2>4. Part(File, a, c + 1) \o Part(File, c + 1, u) = Part(File, a, u)
    BY ONLY <1>1, <1>5, PartJoins
  <2> QED
    BY <2>1, <2>2, <2>3, <2>4
<1> QED
  BY <1>2, <1>6, <1>7, <1>8, <1>9, <1>10, <1>11, <1>12 DEF Chain, r, k

\* What is written is determined by the tree.
LEMMA ChainsAgree ==
  ASSUME TypeOK, NodesLinked, NEW f, NEW g,
         \A n \in 0..Len(node) : f[n] = Chain(f, n),
         \A n \in 0..Len(node) : g[n] = Chain(g, n)
  PROVE  \A n \in 0..Len(node) : f[n] = g[n]
<1> DEFINE Bad == {n \in 0..Len(node) : f[n] # g[n]}
<1>1. SUFFICES ASSUME Bad # {} PROVE FALSE
  OBVIOUS
<1>2. Len(node) \in Nat
  BY DEF TypeOK
<1>3. PICK n \in Bad : \A m \in Bad : ~ (n < m)
  <2>1. Bad \subseteq 0..Len(node)
    OBVIOUS
  <2> HIDE DEF Bad
  <2> QED
    BY ONLY <1>1, <1>2, <2>1, Greatest
<1>4. \A m \in 0..Len(node) : n < m => f[m] = g[m]
  BY <1>3
<1>5. n # 0
  BY <1>2, <1>3 DEF Chain
<1>6. n \in 1..Len(node)
  BY <1>2, <1>3, <1>5
<1>7. \A m \in {node[n].child, node[n].next} : f[m] = g[m]
  <2>0. 0 \in 0..Len(node)
    BY <1>2
  <2>1. f[0] = g[0]
    <3>1. f[0] = Chain(f, 0) /\ g[0] = Chain(g, 0)
      BY <2>0
    <3> QED
      BY <3>1 DEF Chain
  <2>2. ASSUME NEW m \in {node[n].child, node[n].next}, m # 0 PROVE f[m] = g[m]
    <3>1. m \in 0..Len(node) /\ m \in 1..Len(node)
      BY <1>2, <1>6, <2>2 DEF NodesLinked
    <3>2. n < m
      BY <1>6, <2>2, <3>1 DEF NodesLinked, Links
    <3> QED
      BY <1>4, <3>1, <3>2
  <2> QED
    BY <2>1, <2>2
<1>8. Chain(f, n) = Chain(g, n)
  BY <1>7 DEF Chain
<1> QED
  BY <1>3, <1>8

\* So the tree written out is the file.
LEMMA PlacedIsWritten ==
  ASSUME TypeOK, NodesLinked, Nesting, Len(node) >= 1,
         NEW at \in [1..Len(node) -> Nat], NEW cl \in [1..Len(node) -> Nat],
         NEW up \in [1..Len(node) -> Nat], Placed(at, cl, up)
  PROVE  TreeIsTheFile
<1>0. PICK g : g = Parts(at, up)
  OBVIOUS
<1>1. g = [n \in 0..Len(node) |-> IF n = 0 THEN <<>> ELSE Part(File, at[n], up[n])]
  BY <1>0 DEF Parts
<1>2. \A n \in 0..Len(node) : g[n] = Chain(g, n)
  BY ONLY TypeOK, NodesLinked, Nesting, at \in [1..Len(node) -> Nat],
     cl \in [1..Len(node) -> Nat], up \in [1..Len(node) -> Nat],
     Placed(at, cl, up), <1>0, PartIsChain
<1>3. g = [n \in 0..Len(node) |-> Chain(g, n)]
  BY <1>1, <1>2
<1>4. \E f : Written = f[1] /\ f = [n \in 0..Len(node) |-> Chain(f, n)]
  BY <1>3 DEF Written, Chain
<1>5. 1 \in 0..Len(node) /\ 1 \in 1..Len(node) /\ Len(node) \in Nat
  BY DEF TypeOK
<1>6. Written = g[1]
  <2>1. PICK f : Written = f[1] /\ f = [n \in 0..Len(node) |-> Chain(f, n)]
    BY <1>4
  <2>2. \A n \in 0..Len(node) : f[n] = Chain(f, n)
    BY ONLY <2>1, Zenon
  <2>3. \A n \in 0..Len(node) : f[n] = g[n]
    BY ONLY TypeOK, NodesLinked, <1>2, <2>2, ChainsAgree, Zenon
  <2> QED
    BY ONLY <1>5, <2>1, <2>3
<1>7. g[1] = Part(File, 1, Len(File) + 1)
  <2>1. at[1] = 1 /\ up[1] = Len(Read) + MissingEnds + 1
    BY DEF Placed, Lies
  <2>2. Len(File) + 1 = up[1]
    <3>1. Len(File) = Len(Read) + MissingEnds
      BY FileTypes
    <3> QED
      BY <2>1, <3>1
  <2>3. g[1] = Part(File, at[1], up[1])
    BY ONLY <1>1, <1>5
  <2> QED
    BY <2>1, <2>2, <2>3
<1>8. Part(File, 1, Len(File) + 1) = File
  <2>1. PICK s \in Seq(Token) : s = File
    BY FileTypes
  <2>2. \A x \in Seq(Token) : x = [i \in 1..Len(x) |-> x[i]]
    OBVIOUS
  <2>3. Len(s) \in Nat
    OBVIOUS
  <2>4. 1..(Len(s) + 1) - 1 = 1..Len(s) /\ \A i \in 1..Len(s) : 1 + i - 1 = i
    BY <2>3
  <2>5. Part(s, 1, Len(s) + 1) = [i \in 1..Len(s) |-> s[i]]
    BY <2>4 DEF Part
  <2> QED
    BY <2>1, <2>2, <2>5
<1>9. File = tokens \o (IF reading = "type" THEN <<Open(0)>> ELSE <<>>)
               \o [i \in 1..MissingEnds |-> Close]
  <2>1. Read \in Seq(Token) /\ MissingEnds \in Nat /\ Close \in Token /\ Len(Read) \in Nat
    BY FileTypes DEF Close, Token, Byte, NODE_END
  <2>2. tokens \o (IF reading = "type" THEN <<Open(0)>> ELSE <<>>) = Read
    <3>1. tokens \in Seq(Token) /\ Open(0) \in Token
      BY DEF TypeOK, Open, Token, Byte
    <3> QED
      BY <3>1 DEF Read
  <2>3. PICK q \in Seq(Token) : /\ q = [i \in 1..MissingEnds |-> Close]
                                /\ Len(q) = MissingEnds
                                /\ \A i \in 1..MissingEnds : q[i] = Close
    <3>1. PICK M \in Nat : M = MissingEnds
      BY <2>1
    <3>2. \A i \in 1..M : Close \in Token
      BY <2>1
    <3>3. PICK q : q = [i \in 1..M |-> Close]
      OBVIOUS
    <3>4. q \in Seq(Token) /\ Len(q) = M /\ \A i \in 1..M : q[i] = Close
      BY ONLY <3>2, <3>3, M \in Nat
    <3> QED
      BY <3>1, <3>3, <3>4
  <2>4. /\ Read \o q \in Seq(Token) /\ Len(Read \o q) = Len(Read) + MissingEnds
        /\ \A i \in 1..Len(Read) + MissingEnds :
             (Read \o q)[i] = IF i <= Len(Read) THEN Read[i] ELSE q[i - Len(Read)]
    BY ONLY <2>1, <2>3, q \in Seq(Token), ConcatProperties
  <2>5. \A i \in 1..Len(Read) + MissingEnds : ~(i <= Len(Read)) => i - Len(Read) \in 1..MissingEnds
    BY <2>1
  <2>6. \A i \in 1..Len(Read) + MissingEnds :
          (Read \o q)[i] = IF i <= Len(Read) THEN Read[i] ELSE Close
    BY <2>3, <2>4, <2>5
  <2>7. \A x \in Seq(Token) : x = [i \in 1..Len(x) |-> x[i]]
    OBVIOUS
  <2>8. Read \o q = [i \in 1..Len(Read) + MissingEnds |-> (Read \o q)[i]]
    BY ONLY <2>4, <2>7
  <2>9. Read \o q = File
    BY <2>6, <2>8 DEF File
  <2> QED
    BY <2>2, <2>3, <2>9
<1> QED
  BY <1>6, <1>7, <1>8, <1>9 DEF TreeIsTheFile

-----------------------------------------------------------------------------
(* What happens to the places when a token is read.                        *)

\* What the proof knows of the nodes and of the stack whenever they are placed.
Shaped(nd, st, R, e, at, cl, up) ==
  /\ nd \in Seq(OTBNode) /\ st \in Seq(1..Len(nd)) /\ R \in Seq(Token) /\ e \in Nat
  /\ at \in [1..Len(nd) -> Nat] /\ cl \in [1..Len(nd) -> Nat] /\ up \in [1..Len(nd) -> Nat]
  /\ \A n \in 1..Len(nd) : nd[n].child \in 0..Len(nd) /\ nd[n].next \in 0..Len(nd)
  /\ \A i, j \in 1..Len(st) : i < j => st[i] < st[j]
  /\ \A i \in 1..Len(st) : nd[st[i]].next = 0
  /\ \A i \in 1..Len(st) - 1 : nd[st[i]].child # 0
  /\ 1 <= Len(nd) /\ Len(R) <= e /\ Len(R) + Len(st) <= e + 1

\* The place x once there are d more tokens after the place P.
Moved(x, P, d) == IF x <= P THEN x ELSE x + d

\* The places of NODE_ENDs still to come move up, by one for a property and by
\* two for a node, whose own NODE_END is to come too.
MovedOn(f, g, L, P, d) == \A n \in 1..L : g[n] = Moved(f[n], P, d)

\* Places keep their order when they move, and none moves to the next place.
LEMMA MovedFacts ==
  ASSUME NEW P \in Nat, NEW d \in 1..2
  PROVE  /\ \A x \in Nat : Moved(x, P, d) \in Nat /\ x <= Moved(x, P, d)
         /\ \A x \in Nat : x <= P => Moved(x, P, d) = x
         /\ \A x \in Nat : ~(x <= P) => Moved(x, P, d) = x + d
         /\ \A x \in Nat : Moved(x, P, d) <= P + 1 => x <= P
         /\ \A x, y \in Nat : x < y => Moved(x, P, d) < Moved(y, P, d)
         /\ \A x, y \in Nat : Moved(x, P, d) = Moved(y, P, d) => x = y
         /\ \A x \in Nat : x # P => Moved(x + 1, P, d) = Moved(x, P, d) + 1
BY DEF Moved

\* A node whose own tokens are all read stays where it is in a longer file.
LEMMA StaysLaid ==
  ASSUME NEW r \in OTBNode, NEW L \in Nat, NEW n \in 1..L, NEW d \in 1..2,
         NEW R \in Seq(Token), NEW R1 \in Seq(Token), Len(R1) = Len(R) + 1,
         \A i \in 1..Len(R) : R1[i] = R[i],
         NEW at \in [1..L -> Nat], NEW cl \in [1..L -> Nat], NEW up \in [1..L -> Nat],
         NEW at1, NEW cl1, NEW up1, \A m \in 1..L : at1[m] = at[m],
         MovedOn(cl, cl1, L, Len(R), d), MovedOn(up, up1, L, Len(R), d),
         r.child \in 0..L, r.next \in 0..L, Laid(r, R, at, cl, up, n),
         r.next # 0 => at[r.next] <= Len(R),
         r.child = 0 => cl[n] <= Len(R), r.next = 0 => cl[n] # Len(R)
  PROVE  Laid(r, R1, at1, cl1, up1, n)
<1> DEFINE P == Len(R)
           k == Len(r.props)
           a == at[n]
           c == cl[n]
           u == up[n]
<1>1. P \in Nat /\ a \in Nat /\ c \in Nat /\ u \in Nat
  OBVIOUS
<1>2. k \in Nat
  BY DEF OTBNode
<1>3. /\ a \in 1..P /\ R[a] = Open(r.type)
      /\ \A i \in 1..k : a + i \in 1..P /\ R[a + i] = Prop(r.props[i])
      /\ a + k < c /\ c < u
      /\ c <= P => R[c] = Close
      /\ IF r.child = 0 THEN c = a + k + 1 ELSE at[r.child] = a + k + 1 /\ c = up[r.child]
      /\ IF r.next = 0 THEN u = c + 1 ELSE at[r.next] = c + 1 /\ u = up[r.next]
  BY DEF Laid
<1>4. at1[n] = a /\ cl1[n] = Moved(c, P, d) /\ up1[n] = Moved(u, P, d)
  BY DEF MovedOn
<1>5. /\ r.child # 0 => at1[r.child] = at[r.child] /\ up1[r.child] = Moved(up[r.child], P, d)
      /\ r.next # 0 => at1[r.next] = at[r.next] /\ up1[r.next] = Moved(up[r.next], P, d)
  <2>1. \A m \in 0..L : m # 0 => m \in 1..L
    OBVIOUS
  <2>2. \A m \in 1..L : at1[m] = at[m] /\ up1[m] = Moved(up[m], P, d)
    BY DEF MovedOn
  <2> HIDE DEF P
  <2> QED
    BY ONLY <2>1, <2>2, r.child \in 0..L, r.next \in 0..L
<1>6. /\ r.next # 0 => at[r.next] <= P
      /\ r.child = 0 => c <= P
      /\ r.next = 0 => c # P
  OBVIOUS
<1>7. Len(R1) = P + 1 /\ \A i \in 1..P : R1[i] = R[i] /\ i \in 1..P + 1
  BY <1>1
<1> HIDE DEF P, k, a, c, u
<1>8. a \in 1..P + 1 /\ R1[a] = Open(r.type)
  BY ONLY <1>1, <1>3, <1>7
<1>9. \A i \in 1..k : a + i \in 1..P + 1 /\ R1[a + i] = Prop(r.props[i])
  BY ONLY <1>1, <1>3, <1>7
<1>10. /\ Moved(c, P, d) \in Nat /\ Moved(u, P, d) \in Nat /\ c <= Moved(c, P, d)
       /\ Moved(c, P, d) < Moved(u, P, d)
       /\ c <= P => Moved(c, P, d) = c
       /\ Moved(c, P, d) <= P + 1 => c <= P
       /\ c # P => Moved(c + 1, P, d) = Moved(c, P, d) + 1
  BY ONLY <1>1, <1>3, d \in 1..2 DEF Moved
<1>11. a + k < Moved(c, P, d)
  BY ONLY <1>1, <1>2, <1>3, <1>10
<1>12. Moved(c, P, d) <= P + 1 => R1[Moved(c, P, d)] = Close
  <2>1. c <= P => c \in 1..P
    BY ONLY <1>1, <1>2, <1>3
  <2> QED
    BY ONLY <1>3, <1>7, <1>10, <2>1
<1>13. IF r.child = 0 THEN Moved(c, P, d) = a + k + 1
       ELSE at1[r.child] = a + k + 1 /\ Moved(c, P, d) = up1[r.child]
  BY ONLY <1>3, <1>5, <1>6, <1>10
<1>14. IF r.next = 0 THEN Moved(u, P, d) = Moved(c, P, d) + 1
       ELSE at1[r.next] = Moved(c, P, d) + 1 /\ Moved(u, P, d) = up1[r.next]
  <2>1. CASE r.next = 0
    BY ONLY <1>3, <1>6, <1>10, <2>1
  <2>2. CASE r.next # 0
    <3>1. c + 1 <= P
      BY <1>3, <1>6, <2>2
    <3>2. Moved(c, P, d) = c
      BY ONLY <1>1, <1>10, <3>1
    <3> QED
      BY ONLY <1>3, <1>5, <2>2, <3>2
  <2> QED
    BY <2>1, <2>2
<1> QED
  BY ONLY <1>4, <1>7, <1>8, <1>9, <1>10, <1>11, <1>12, <1>13, <1>14 DEF Laid, k

\* What holds then of the places of the nodes there were.
Longer(R, R1) ==
  R1 \in Seq(Token) /\ Len(R1) = Len(R) + 1 /\ \A i \in 1..Len(R) : R1[i] = R[i]

StillLie(nd, st, R, e, cl, d, R1, at1, cl1, up1) ==
  /\ \A n \in 1..Len(nd) :
       (nd[n].child = 0 => cl[n] <= Len(R)) /\ (nd[n].next = 0 => cl[n] # Len(R))
       => Laid(nd[n], R1, at1, cl1, up1, n)
  /\ at1[1] = 1 /\ up1[1] = e + 1 + d
  /\ \A n \in 1..Len(nd) : up1[n] <= e + 1 + d
  /\ \A n, m \in 1..Len(nd) : n < m => at1[n] < at1[m]
  /\ \A n, m \in 1..Len(nd) : cl1[n] = cl1[m] => n = m
  /\ \A i \in 1..Len(st) : cl[st[i]] # Len(R) => cl1[st[i]] + i = e + 1 + d
  /\ \A n \in 1..Len(nd) : cl[n] <= Len(R) => cl1[n] <= Len(R)
  /\ \A n \in 1..Len(nd) : at1[n] <= Len(R)

\* And all of the nodes of a placed tree that are so.
LEMMA Stretched ==
  ASSUME NEW nd, NEW st, NEW R, NEW e, NEW at, NEW cl, NEW up,
         Shaped(nd, st, R, e, at, cl, up), Lies(nd, st, R, e, at, cl, up),
         NEW d \in 1..2, NEW R1, Longer(R, R1),
         NEW at1, NEW cl1, NEW up1, \A m \in 1..Len(nd) : at1[m] = at[m],
         MovedOn(cl, cl1, Len(nd), Len(R), d), MovedOn(up, up1, Len(nd), Len(R), d)
  PROVE  StillLie(nd, st, R, e, cl, d, R1, at1, cl1, up1)
<1>0. R1 \in Seq(Token) /\ Len(R1) = Len(R) + 1 /\ \A i \in 1..Len(R) : R1[i] = R[i]
  BY DEF Longer
<1> DEFINE P == Len(R)
           L == Len(nd)
<1>1. /\ nd \in Seq(OTBNode) /\ L \in Nat /\ P \in Nat /\ R \in Seq(Token) /\ e \in Nat
      /\ P <= e /\ P + Len(st) <= e + 1 /\ 1 \in 1..L /\ Len(st) \in Nat
      /\ at \in [1..L -> Nat] /\ cl \in [1..L -> Nat] /\ up \in [1..L -> Nat]
      /\ \A n \in 1..L : nd[n].child \in 0..L /\ nd[n].next \in 0..L
      /\ \A i \in 1..Len(st) : st[i] \in 1..L /\ i \in Nat
  BY DEF Shaped
<1>2. /\ \A n \in 1..L : Laid(nd[n], R, at, cl, up, n)
      /\ at[1] = 1 /\ up[1] = e + 1
      /\ \A n \in 1..L : up[n] <= e + 1
      /\ \A n, m \in 1..L : n < m => at[n] < at[m]
      /\ \A n, m \in 1..L : cl[n] = cl[m] => n = m
      /\ \A i \in 1..Len(st) : cl[st[i]] + i = e + 1
  BY DEF Lies
<1>3. \A n \in 1..L : at[n] \in Nat /\ cl[n] \in Nat /\ up[n] \in Nat
  BY <1>1
<1>4. \A n \in 1..L : at1[n] = at[n] /\ cl1[n] = Moved(cl[n], P, d) /\ up1[n] = Moved(up[n], P, d)
  BY DEF MovedOn
<1>5. \A n \in 1..L : at[n] <= P
  <2>1. \A n \in 1..L : at[n] \in 1..P
    BY <1>2 DEF Laid
  <2> QED
    BY ONLY <1>1, <2>1
<1> HIDE DEF P, L
<1>6. ASSUME NEW n \in 1..L, nd[n].child = 0 => cl[n] <= P, nd[n].next = 0 => cl[n] # P
      PROVE  Laid(nd[n], R1, at1, cl1, up1, n)
  <2>1. nd[n] \in OTBNode
    BY <1>1 DEF L
  <2>2. nd[n].child \in 0..L /\ nd[n].next \in 0..L
    BY <1>1
  <2>3. nd[n].next # 0 => at[nd[n].next] <= P
    <3>1. PICK x \in 0..L : x = nd[n].next
      BY ONLY <2>2
    <3>2. x # 0 => x \in 1..L
      BY <1>1
    <3> QED
      BY ONLY <1>5, <3>1, <3>2
  <2>4. Laid(nd[n], R, at, cl, up, n)
    BY <1>2
  <2> QED
    BY <1>1, <1>6, <2>1, <2>2, <2>3, <2>4, <1>0, StaysLaid DEF L, P
<1>7. at1[1] = 1 /\ up1[1] = e + 1 + d
  <2>1. e + 1 \in Nat /\ ~(e + 1 <= P)
    BY <1>1
  <2>2. Moved(e + 1, P, d) = e + 1 + d
    BY ONLY <1>1, <2>1 DEF Moved
  <2> QED
    BY <1>1, <1>2, <1>4, <2>2
<1>8. \A n \in 1..L : up1[n] <= e + 1 + d
  <2>0. P \in Nat /\ d \in Nat /\ e \in Nat
    BY <1>1
  <2>1. \A x \in Nat : x <= e + 1 => Moved(x, P, d) <= e + 1 + d
    BY ONLY <2>0 DEF Moved
  <2> QED
    BY <1>2, <1>3, <1>4, <2>1
<1>9. \A n, m \in 1..L : n < m => at1[n] < at1[m]
  BY <1>2, <1>4
<1>10. \A n, m \in 1..L : cl1[n] = cl1[m] => n = m
  <2>1. \A x, y \in Nat : Moved(x, P, d) = Moved(y, P, d) => x = y
    BY <1>1, MovedFacts
  <2> QED
    BY ONLY <1>2, <1>3, <1>4, <2>1
<1>11. ASSUME NEW i \in 1..Len(st), cl[st[i]] # P PROVE cl1[st[i]] + i = e + 1 + d
  <2>1. PICK x \in Nat : x = cl[st[i]]
    BY <1>1, <1>3
  <2>2. x + i = e + 1 /\ i \in Nat /\ i <= Len(st) /\ x # P
    BY <1>1, <1>2, <1>11, <2>1
  <2>3. ~(x <= P)
    BY ONLY <1>1, <2>2, x \in Nat
  <2>4. cl1[st[i]] = x + d
    <3>1. Moved(x, P, d) = x + d
      BY ONLY <2>3 DEF Moved
    <3> QED
      BY ONLY <1>1, <1>4, <2>1, <3>1
  <2>5. e \in Nat
    BY <1>1
  <2> QED
    BY ONLY <2>2, <2>4, <2>5, x \in Nat, d \in 1..2
<1>12. \A n \in 1..L : cl[n] <= P => cl1[n] <= P
  BY <1>1, <1>3, <1>4, MovedFacts
<1>13. \A n \in 1..L : at1[n] <= P
  BY <1>4, <1>5
<1> QED
  BY <1>6, <1>7, <1>8, <1>9, <1>10, <1>11, <1>12, <1>13 DEF L, P, StillLie

\* What follows from the shape alone.
LEMMA ShapedTypes ==
  ASSUME NEW nd, NEW st, NEW R, NEW e, NEW at, NEW cl, NEW up,
         Shaped(nd, st, R, e, at, cl, up)
  PROVE  /\ nd \in Seq(OTBNode) /\ Len(nd) \in Nat /\ Len(R) \in Nat /\ e \in Nat
         /\ Len(st) \in Nat /\ R \in Seq(Token) /\ 1 \in 1..Len(nd)
         /\ at \in [1..Len(nd) -> Nat] /\ cl \in [1..Len(nd) -> Nat]
         /\ up \in [1..Len(nd) -> Nat]
         /\ \A i \in 1..Len(st) : st[i] \in 1..Len(nd) /\ nd[st[i]].next = 0 /\ i \in Nat
         /\ \A i \in 1..Len(st) - 1 : nd[st[i]].child # 0
         /\ \A n \in 1..Len(nd) : nd[n].child \in 0..Len(nd) /\ nd[n].next \in 0..Len(nd)
         /\ st # <<>> => Len(st) \in 1..Len(st)
         /\ Len(R) <= e
<1>1. nd \in Seq(OTBNode) /\ st \in Seq(1..Len(nd)) /\ R \in Seq(Token) /\ 1 <= Len(nd)
  BY DEF Shaped
<1>2. Len(nd) \in Nat /\ Len(R) \in Nat /\ Len(st) \in Nat /\ 1 \in 1..Len(nd)
  BY <1>1
<1>3. \A i \in 1..Len(st) : st[i] \in 1..Len(nd) /\ i \in Nat
  BY <1>1
<1>4. st # <<>> => Len(st) \in 1..Len(st)
  BY <1>1
<1> QED
  BY <1>1, <1>2, <1>3, <1>4 DEF Shaped

\* Where the file is in the innermost node: at the end of its properties while
\* they are read, and then nobody's NODE_END was the last token.
LEMMA InProperties ==
  ASSUME NEW nd, NEW st, NEW R, NEW e, NEW at, NEW cl, NEW up,
         Shaped(nd, st, R, e, at, cl, up), Lies(nd, st, R, e, at, cl, up),
         st # <<>>, e = Len(R) + Len(st), NEW t, t = st[Len(st)], nd[t].child = 0
  PROVE  /\ t \in 1..Len(nd) /\ cl[t] = Len(R) + 1 /\ at[t] + Len(nd[t].props) = Len(R)
         /\ \A n \in 1..Len(nd) : n # t /\ nd[n].child = 0 => cl[n] <= Len(R)
         /\ \A n \in 1..Len(nd) : cl[n] # Len(R)
         /\ Len(nd[t].props) = 0 => R[Len(R)] = Open(nd[t].type)
         /\ Len(nd[t].props) # 0 => R[Len(R)] = Prop(nd[t].props[Len(nd[t].props)])
<1> DEFINE P == Len(R)
           L == Len(nd)
           H == Len(st)
           k == Len(nd[t].props)
<1>1. /\ nd \in Seq(OTBNode) /\ L \in Nat /\ P \in Nat /\ e \in Nat /\ H \in Nat
      /\ \A i \in 1..H : st[i] \in 1..L
      /\ \A i \in 1..H - 1 : nd[st[i]].child # 0
      /\ cl \in [1..L -> Nat] /\ at \in [1..L -> Nat]
  BY ShapedTypes
<1>2. H \in 1..H /\ t \in 1..L
  <2>1. H # 0
    BY DEF Shaped
  <2> QED
    BY <1>1, <2>1
<1>3. nd[t] \in OTBNode /\ k \in Nat
  <2>1. nd[t] \in OTBNode
    BY <1>1, <1>2
  <2> QED
    BY <2>1 DEF OTBNode
<1>4. /\ Laid(nd[t], R, at, cl, up, t) /\ cl[t] + H = e + 1
      /\ \A n \in 1..L : Laid(nd[n], R, at, cl, up, n)
      /\ \A n \in 1..L : (\A i \in 1..H : st[i] # n) => cl[n] <= P
  BY <1>2 DEF Lies
<1>5. cl[t] = P + 1
  <2>1. PICK c \in Nat : c = cl[t]
    BY <1>1, <1>2
  <2>2. c + H = e + 1 /\ e = P + H
    BY <1>4, <2>1
  <2> HIDE DEF P, H
  <2>3. c = P + 1
    BY ONLY <1>1, <2>2, c \in Nat
  <2> QED
    BY <2>1, <2>3
<1>6. at[t] + k = P
  <2>1. PICK a \in Nat : a = at[t]
    BY <1>1, <1>2
  <2>2. cl[t] = a + k + 1
    BY <1>4, <2>1 DEF Laid
  <2> HIDE DEF P, k
  <2>3. a + k + 1 = P + 1 /\ k \in Nat /\ P \in Nat
    BY <1>1, <1>3, <1>5, <2>2
  <2>4. a + k = P
    BY ONLY <2>3, a \in Nat
  <2> QED
    BY <2>1, <2>4
<1>7. \A n \in 1..L : n # t /\ nd[n].child = 0 => cl[n] <= P
  <2> SUFFICES ASSUME NEW n \in 1..L, n # t, nd[n].child = 0 PROVE cl[n] <= P
    OBVIOUS
  <2>1. ASSUME NEW i \in 1..H PROVE st[i] # n
    <3>1. i \in 1..H - 1 \/ i = H
      BY <1>1
    <3> QED
      BY <1>1, <3>1
  <2> QED
    BY <1>4, <2>1
<1>8. /\ k = 0 => R[P] = Open(nd[t].type)
      /\ k # 0 => R[P] = Prop(nd[t].props[k])
  <2>1. R[at[t]] = Open(nd[t].type) /\ at[t] \in Nat
    BY <1>1, <1>2, <1>4 DEF Laid
  <2>2. \A i \in 1..k : R[at[t] + i] = Prop(nd[t].props[i])
    BY <1>4 DEF Laid
  <2>3. k = 0 => at[t] = P
    BY <1>3, <1>6, <2>1
  <2>4. k # 0 => k \in 1..k
    BY <1>3
  <2> QED
    BY <1>6, <2>1, <2>2, <2>3, <2>4
<1>9. R[P] # Close
  BY <1>8 DEF Open, Prop, Close
<1>10. \A n \in 1..L : cl[n] # P
  <2> SUFFICES ASSUME NEW n \in 1..L, cl[n] = P PROVE FALSE
    OBVIOUS
  <2>1. cl[n] <= P => R[cl[n]] = Close
    BY <1>4 DEF Laid
  <2>2. P <= P
    BY <1>1
  <2> QED
    BY <1>9, <2>1, <2>2
<1> QED
  BY <1>2, <1>5, <1>6, <1>7, <1>8, <1>10

\* Only the node t changes.
Same(nd, nd1, t) == Len(nd1) = Len(nd) /\ \A n \in 1..Len(nd) : n # t => nd1[n] = nd[n]

\* A property is read: the innermost node is one longer.
LEMMA PropLies ==
  ASSUME NEW nd, NEW st, NEW R, NEW e, NEW at, NEW cl, NEW up,
         Shaped(nd, st, R, e, at, cl, up), Lies(nd, st, R, e, at, cl, up),
         st # <<>>, e = Len(R) + Len(st), NEW t, t = st[Len(st)], nd[t].child = 0,
         NEW b \in Byte, NEW nd1, Same(nd, nd1, t),
         nd1[t] = [nd[t] EXCEPT !.props = Append(@, b)]
  PROVE  Placeable(nd1, st, Append(R, Prop(b)), e + 1)
<1> DEFINE R1 == Append(R, Prop(b))
           P == Len(R)
           L == Len(nd)
           H == Len(st)
           k == Len(nd[t].props)
           a == at[t]
           r1 == nd1[t]
<1>1. /\ nd \in Seq(OTBNode) /\ L \in Nat /\ P \in Nat /\ e \in Nat /\ H \in Nat /\ R \in Seq(Token)
      /\ at \in [1..L -> Nat] /\ cl \in [1..L -> Nat] /\ up \in [1..L -> Nat]
      /\ \A i \in 1..H : st[i] \in 1..L /\ nd[st[i]].next = 0
  BY ShapedTypes
<1>2. /\ t \in 1..L /\ cl[t] = P + 1 /\ a + k = P
      /\ \A n \in 1..L : n # t /\ nd[n].child = 0 => cl[n] <= P
      /\ \A n \in 1..L : cl[n] # P
  BY InProperties
<1>3. nd[t] \in OTBNode /\ nd[t].props \in Seq(Byte) /\ k \in Nat /\ a \in Nat
  <2>1. nd[t] \in OTBNode
    BY <1>1, <1>2
  <2>2. nd[t].props \in Seq(Byte)
    BY ONLY <2>1 DEF OTBNode
  <2>3. a \in Nat
    BY <1>1, <1>2
  <2>4. k \in Nat
    BY <2>2
  <2> QED
    BY <2>1, <2>2, <2>3, <2>4
<1>4. nd[t].next = 0
  <2>1. H \in 1..H
    BY <1>1 DEF Shaped
  <2> QED
    BY <1>1, <2>1
<1>5. /\ R[a] = Open(nd[t].type) /\ a \in 1..P /\ up[t] = P + 2
      /\ \A i \in 1..k : a + i \in 1..P /\ R[a + i] = Prop(nd[t].props[i])
  <2>1. Laid(nd[t], R, at, cl, up, t)
    BY <1>2 DEF Lies
  <2>2. up[t] = cl[t] + 1
    BY <1>4, <2>1 DEF Laid
  <2>3. up[t] = P + 2
    BY <1>1, <1>2, <2>2
  <2> QED
    BY <2>1, <2>3 DEF Laid
<1>6. /\ R1 \in Seq(Token) /\ Len(R1) = P + 1 /\ R1[P + 1] = Prop(b)
      /\ \A i \in 1..P : R1[i] = R[i]
  BY <1>1, TokenTypes
<1>7. /\ r1.type = nd[t].type /\ r1.child = 0 /\ r1.next = 0
      /\ r1.props \in Seq(Byte) /\ Len(r1.props) = k + 1 /\ r1.props[k + 1] = b
      /\ \A i \in 1..k : r1.props[i] = nd[t].props[i]
  <2>1. /\ r1.type = nd[t].type /\ r1.child = 0 /\ r1.next = 0
        /\ r1.props = Append(nd[t].props, b)
    BY <1>3, <1>4 DEF OTBNode
  <2> HIDE DEF r1
  <2> QED
    BY <1>3, <2>1
<1>8. PICK cl1, up1 \in [1..L -> Nat] : MovedOn(cl, cl1, L, P, 1) /\ MovedOn(up, up1, L, P, 1)
  <2>1. \A x \in Nat : Moved(x, P, 1) \in Nat
    BY <1>1 DEF Moved
  <2>2. \A m \in 1..L : cl[m] \in Nat /\ up[m] \in Nat
    BY <1>1
  <2>3. /\ [m \in 1..L |-> Moved(cl[m], P, 1)] \in [1..L -> Nat]
        /\ [m \in 1..L |-> Moved(up[m], P, 1)] \in [1..L -> Nat]
    BY ONLY <2>1, <2>2
  <2> QED
    BY ONLY <2>3 DEF MovedOn
<1>9. StillLie(nd, st, R, e, cl, 1, R1, at, cl1, up1)
  <2>1. 1 \in 1..2 /\ \A m \in 1..L : at[m] = at[m]
    OBVIOUS
  <2>2. Longer(R, R1)
    BY <1>6 DEF Longer
  <2> QED
    BY ONLY Shaped(nd, st, R, e, at, cl, up), Lies(nd, st, R, e, at, cl, up),
            <1>8, <2>1, <2>2, Stretched
<1>10. cl1[t] = P + 2 /\ up1[t] = P + 3
  <2>1. Moved(P + 1, P, 1) = P + 2 /\ Moved(P + 2, P, 1) = P + 3
    BY <1>1 DEF Moved
  <2> QED
    BY <1>2, <1>5, <1>8, <2>1 DEF MovedOn
<1> HIDE DEF P, L, H, k, a, r1, R1
<1>11. Laid(r1, R1, at, cl1, up1, t)
  <2>1. a \in 1..P + 1 /\ R1[a] = Open(r1.type)
    BY ONLY <1>1, <1>5, <1>6, <1>7
  <2>2. ASSUME NEW i \in 1..k + 1 PROVE a + i \in 1..P + 1 /\ R1[a + i] = Prop(r1.props[i])
    <3>1. CASE i = k + 1
      <4>1. a + i = P + 1
        BY ONLY <1>1, <1>2, <1>3, <3>1
      <4> QED
        BY ONLY <1>1, <1>6, <1>7, <3>1, <4>1
    <3>2. CASE i # k + 1
      <4>1. i \in 1..k
        BY ONLY <1>3, <3>2, i \in 1..k + 1
      <4>2. a + i \in 1..P /\ R[a + i] = Prop(nd[t].props[i])
        BY <1>5, <4>1
      <4> QED
        BY ONLY <1>1, <1>6, <1>7, <4>1, <4>2
    <3> QED
      BY <3>1, <3>2
  <2>3. a + (k + 1) < P + 2 /\ P + 2 < P + 3 /\ ~(P + 2 <= P + 1) /\ P + 2 = a + (k + 1) + 1
        /\ P + 3 = P + 2 + 1
    BY ONLY <1>1, <1>2, <1>3
  <2> QED
    BY ONLY <1>6, <1>7, <1>10, <2>1, <2>2, <2>3 DEF Laid, a
<1>12. \A n \in 1..L : Laid(nd1[n], R1, at, cl1, up1, n)
  <2>1. \A n \in 1..L : n # t => Laid(nd[n], R1, at, cl1, up1, n)
    BY <1>2, <1>9 DEF StillLie, L, P
  <2> QED
    BY <1>11, <2>1 DEF L, r1, Same
<1>13. \A n \in 1..L : (\A i \in 1..H : st[i] # n) => cl1[n] <= P + 1
  <2>1. \A n \in 1..L : (\A i \in 1..H : st[i] # n) => cl[n] <= P
    BY DEF Lies, L, H, P
  <2>2. \A n \in 1..L : cl1[n] \in Nat
    BY <1>8
  <2> QED
    <3> SUFFICES ASSUME NEW n \in 1..L, \A i \in 1..H : st[i] # n PROVE cl1[n] <= P + 1
      OBVIOUS
    <3>1. cl1[n] <= P
      BY <1>9, <2>1 DEF StillLie, L, P
    <3> QED
      BY ONLY <1>1, <2>2, <3>1
<1>14. Lies(nd1, st, R1, e + 1, at, cl1, up1)
  <2>1. Len(nd1) = L
    BY DEF L, Same
  <2>2. \A i \in 1..H : cl1[st[i]] + i = e + 1 + 1
    BY <1>1, <1>2, <1>9 DEF StillLie, L, P, H
  <2>3. /\ at[1] = 1 /\ up1[1] = e + 1 + 1
        /\ \A n \in 1..L : up1[n] <= e + 1 + 1
        /\ \A n, m \in 1..L : n < m => at[n] < at[m]
        /\ \A n, m \in 1..L : cl1[n] = cl1[m] => n = m
    BY <1>9 DEF StillLie, L
  <2> QED
    BY <1>6, <1>12, <1>13, <2>1, <2>2, <2>3 DEF Lies, H
<1>15. Len(nd1) = L
  BY DEF L, Same
<1> QED
  BY ONLY <1>1, <1>8, <1>14, <1>15 DEF R1, Placeable

\* The places with those of a node that comes after the place P.
Grown(L, P, at, cl, up, at1, cl1, up1) ==
  /\ \A m \in 1..L : at1[m] = at[m]
  /\ MovedOn(cl, cl1, L, P, 2) /\ MovedOn(up, up1, L, P, 2)
  /\ at1[L + 1] = P + 1 /\ cl1[L + 1] = P + 2 /\ up1[L + 1] = P + 3

\* The new node is on the new stack, where its NODE_END is the next to come,
\* and no other node is there that was not on the stack.
OnStack(L, P, e, st, cl, st1) ==
  /\ Len(st1) \in Nat
  /\ \A i \in 1..Len(st1) : \/ st1[i] = L + 1 /\ P + i = e + 1
                            \/ i \in 1..Len(st) /\ st1[i] = st[i] /\ cl[st[i]] # P
  /\ \A n \in 1..L : (\A i \in 1..Len(st1) : st1[i] # n) => cl[n] <= P
  /\ \E i \in 1..Len(st1) : st1[i] = L + 1

\* The nodes but t are as they were, and have their NODE_ENDs elsewhere.
Others(nd, nd1, t, P, cl) ==
  \A n \in 1..Len(nd) : n # t =>
    nd1[n] = nd[n] /\ (nd[n].child = 0 => cl[n] <= P) /\ cl[n] # P

\* A node is allocated: it comes after what was read, and is linked from t.
LEMMA NodeLies ==
  ASSUME NEW nd, NEW st, NEW R, NEW e, NEW at, NEW cl, NEW up,
         Shaped(nd, st, R, e, at, cl, up), Lies(nd, st, R, e, at, cl, up),
         NEW nd1, Len(nd1) = Len(nd) + 1, nd1[Len(nd) + 1] = NewNode,
         NEW st1, NEW t \in 1..Len(nd),
         NEW at1, NEW cl1, NEW up1, Grown(Len(nd), Len(R), at, cl, up, at1, cl1, up1),
         Others(nd, nd1, t, Len(R), cl),
         Laid(nd1[t], Append(R, Open(0)), at1, cl1, up1, t),
         OnStack(Len(nd), Len(R), e, st, cl, st1)
  PROVE  Lies(nd1, st1, Append(R, Open(0)), e + 2, at1, cl1, up1)
<1> DEFINE R1 == Append(R, Open(0))
           P == Len(R)
           L == Len(nd)
<1>1. /\ L \in Nat /\ P \in Nat /\ e \in Nat /\ R \in Seq(Token) /\ 1 \in 1..L /\ P <= e
      /\ at \in [1..L -> Nat] /\ cl \in [1..L -> Nat] /\ up \in [1..L -> Nat]
      /\ \A i \in 1..Len(st) : st[i] \in 1..L
  BY ShapedTypes
<1>2. /\ R1 \in Seq(Token) /\ Len(R1) = P + 1 /\ R1[P + 1] = Open(0)
      /\ \A i \in 1..P : R1[i] = R[i]
  <2>1. Open(0) \in Token
    BY TokenTypes DEF Byte
  <2> QED
    BY <1>1, <2>1
<1>3. StillLie(nd, st, R, e, cl, 2, R1, at1, cl1, up1)
  <2>1. 2 \in 1..2
    OBVIOUS
  <2>2. Longer(R, R1)
    BY <1>2 DEF Longer
  <2> QED
    BY <2>1, <2>2, Stretched DEF Grown
<1> DEFINE N == L + 1
<1>4. /\ at1[N] = P + 1 /\ cl1[N] = P + 2 /\ up1[N] = P + 3 /\ nd1[N] = NewNode
      /\ Len(nd1) = N /\ N \in Nat
  BY <1>1 DEF Grown
<1>5. \A n \in 1..L : cl1[n] = Moved(cl[n], P, 2) /\ cl[n] \in Nat /\ at1[n] = at[n] /\ at[n] \in Nat
  BY <1>1 DEF MovedOn, Grown
<1>6. /\ \A n \in 1..L : n # t => Laid(nd[n], R1, at1, cl1, up1, n)
      /\ at1[1] = 1 /\ up1[1] = e + 1 + 2
      /\ \A n \in 1..L : up1[n] <= e + 1 + 2
      /\ \A n, m \in 1..L : n < m => at1[n] < at1[m]
      /\ \A n, m \in 1..L : cl1[n] = cl1[m] => n = m
      /\ \A i \in 1..Len(st) : cl[st[i]] # P => cl1[st[i]] + i = e + 1 + 2
      /\ \A n \in 1..L : cl[n] <= P => cl1[n] <= P
      /\ \A n \in 1..L : at1[n] <= P
  BY <1>3 DEF StillLie, Others
<1>7. Laid(NewNode, R1, at1, cl1, up1, N)
  <2>1. /\ NewNode.type = 0 /\ NewNode.child = 0 /\ NewNode.next = 0
        /\ NewNode.props = <<>> /\ Len(NewNode.props) = 0
    BY DEF NewNode
  <2> HIDE DEF P, N, R1
  <2>2. P + 1 \in 1..P + 1 /\ P + 1 + 0 < P + 2 /\ P + 2 < P + 3 /\ ~(P + 2 <= P + 1)
        /\ P + 2 = P + 1 + 0 + 1 /\ P + 3 = P + 2 + 1
    BY <1>1
  <2> QED
    BY ONLY <1>2, <1>4, <2>1, <2>2 DEF Laid
<1>8. \A n \in 1..N : n \in 1..L \/ n = N
  BY <1>1
<1>9. \A n \in 1..N : Laid(nd1[n], R1, at1, cl1, up1, n)
  <2>1. \A n \in 1..L : n # t => nd1[n] = nd[n]
    BY DEF Others
  <2>2. Laid(nd1[t], R1, at1, cl1, up1, t)
    OBVIOUS
  <2> HIDE DEF L, N, R1
  <2> QED
    BY ONLY <1>4, <1>6, <1>7, <1>8, <2>1, <2>2
<1>10. \A i \in 1..Len(st1) :
         \/ st1[i] = N /\ P + i = e + 1
         \/ i \in 1..Len(st) /\ st1[i] = st[i] /\ cl[st[i]] # P
  BY DEF OnStack
<1>11. \A n \in 1..L : (\A i \in 1..Len(st1) : st1[i] # n) => cl[n] <= P
  BY DEF OnStack
<1>12. PICK j \in 1..Len(st1) : st1[j] = N
  BY DEF OnStack
<1> HIDE DEF P, L, N, R1
<1>13. \A n \in 1..N : up1[n] <= e + 1 + 2
  <2>1. P + 3 <= e + 1 + 2
    BY ONLY <1>1
  <2> QED
    BY ONLY <1>4, <1>6, <1>8, <2>1
<1>14. \A n, m \in 1..N : n < m => at1[n] < at1[m]
  <2>1. \A n \in 1..L : at1[n] < P + 1 /\ n < N
    <3> SUFFICES ASSUME NEW n \in 1..L PROVE at1[n] < P + 1 /\ n < N
      OBVIOUS
    <3>1. PICK x \in Nat : x = at1[n]
      BY <1>5
    <3>2. x <= P /\ P \in Nat /\ L \in Nat
      BY ONLY <1>1, <1>6, <3>1, n \in 1..L
    <3>3. x < P + 1
      BY ONLY <3>2, x \in Nat
    <3>4. n < N
      BY ONLY <3>2, n \in 1..L DEF N
    <3> QED
      BY <3>1, <3>3, <3>4
  <2>2. \A n \in 1..N : n < N => n \in 1..L
    BY ONLY <1>1 DEF N
  <2>3. ~(N < N) /\ \A n \in 1..L : ~(N < n)
    BY ONLY <1>1 DEF N
  <2> QED
    BY ONLY <1>4, <1>6, <1>8, <2>1, <2>3
<1>15. \A n, m \in 1..N : cl1[n] = cl1[m] => n = m
  <2>1. \A x \in Nat : Moved(x, P, 2) # P + 2
    BY ONLY <1>1 DEF Moved
  <2>2. \A n \in 1..L : cl1[n] # P + 2
    BY ONLY <1>5, <2>1
  <2> QED
    BY ONLY <1>4, <1>6, <1>8, <2>2
<1>16. \A i \in 1..Len(st1) : cl1[st1[i]] + i = e + 1 + 2
  <2> SUFFICES ASSUME NEW i \in 1..Len(st1) PROVE cl1[st1[i]] + i = e + 1 + 2
    OBVIOUS
  <2>1. CASE st1[i] = N /\ P + i = e + 1
    <3>1. cl1[st1[i]] = P + 2 /\ i \in Nat
      BY <1>4, <2>1
    <3> QED
      BY ONLY <1>1, <2>1, <3>1
  <2>2. CASE i \in 1..Len(st) /\ st1[i] = st[i] /\ cl[st[i]] # P
    BY ONLY <1>6, <2>2
  <2> QED
    BY ONLY <1>10, <2>1, <2>2, i \in 1..Len(st1)
<1>17. \A n \in 1..N : (\A i \in 1..Len(st1) : st1[i] # n) => cl1[n] <= P + 1
  <2> SUFFICES ASSUME NEW n \in 1..N, \A i \in 1..Len(st1) : st1[i] # n
               PROVE  cl1[n] <= P + 1
    OBVIOUS
  <2>1. n \in 1..L
    BY <1>8, <1>12
  <2>2. cl[n] <= P
    BY <1>11, <2>1
  <2>3. cl1[n] = cl[n]
    BY ONLY <1>5, <2>1, <2>2 DEF Moved
  <2> QED
    <3>1. PICK x \in Nat : x = cl[n]
      BY <1>5, <2>1
    <3>2. x <= P /\ P \in Nat /\ cl1[n] = x
      BY <1>1, <2>2, <2>3, <3>1
    <3>3. x <= P + 1
      BY ONLY <3>2, x \in Nat
    <3> QED
      BY <3>2, <3>3
<1>18. at1[1] = 1 /\ up1[1] = e + 2 + 1 /\ e + 1 + 2 = e + 2 + 1
  BY ONLY <1>1, <1>6
<1>19. Lies(nd1, st1, R1, e + 2, at1, cl1, up1)
  BY ONLY <1>2, <1>4, <1>9, <1>13, <1>14, <1>15, <1>16, <1>17, <1>18 DEF Lies
<1> QED
  BY <1>19 DEF R1

\* There are places for one more node.
LEMMA PlacesGrow ==
  ASSUME NEW L \in Nat, NEW P \in Nat,
         NEW at \in [1..L -> Nat], NEW cl \in [1..L -> Nat], NEW up \in [1..L -> Nat]
  PROVE  \E at1, cl1, up1 \in [1..L + 1 -> Nat] :
           Grown(L, P, at, cl, up, at1, cl1, up1)
<1>1. \A x \in Nat : Moved(x, P, 2) \in Nat
  BY DEF Moved
<1>2. \A m \in 1..L + 1 : m \in 1..L \/ m = L + 1
  OBVIOUS
<1>3. \A m \in 1..L : m # L + 1 /\ m \in 1..L + 1
  OBVIOUS
<1>4. ASSUME NEW f \in [1..L -> Nat], NEW x \in Nat
      PROVE  \E g \in [1..L + 1 -> Nat] : (\A m \in 1..L : g[m] = f[m]) /\ g[L + 1] = x
  <2>1. [m \in 1..L + 1 |-> IF m = L + 1 THEN x ELSE f[m]] \in [1..L + 1 -> Nat]
    BY <1>2
  <2>2. L + 1 \in 1..L + 1
    OBVIOUS
  <2> QED
    BY ONLY <1>3, <2>1, <2>2
<1>5. P + 1 \in Nat /\ P + 2 \in Nat /\ P + 3 \in Nat
  OBVIOUS
<1>6. PICK at1 \in [1..L + 1 -> Nat] : (\A m \in 1..L : at1[m] = at[m]) /\ at1[L + 1] = P + 1
  BY ONLY <1>4, <1>5, at \in [1..L -> Nat]
<1>7. PICK c \in [1..L -> Nat] : \A m \in 1..L : c[m] = Moved(cl[m], P, 2)
  <2>1. [m \in 1..L |-> Moved(cl[m], P, 2)] \in [1..L -> Nat]
    BY ONLY <1>1, cl \in [1..L -> Nat]
  <2> QED
    BY ONLY <2>1
<1>8. PICK u \in [1..L -> Nat] : \A m \in 1..L : u[m] = Moved(up[m], P, 2)
  <2>1. [m \in 1..L |-> Moved(up[m], P, 2)] \in [1..L -> Nat]
    BY ONLY <1>1, up \in [1..L -> Nat]
  <2> QED
    BY ONLY <2>1
<1>9. PICK cl1 \in [1..L + 1 -> Nat] : (\A m \in 1..L : cl1[m] = c[m]) /\ cl1[L + 1] = P + 2
  BY ONLY <1>4, <1>5, c \in [1..L -> Nat]
<1>10. PICK up1 \in [1..L + 1 -> Nat] : (\A m \in 1..L : up1[m] = u[m]) /\ up1[L + 1] = P + 3
  BY ONLY <1>4, <1>5, u \in [1..L -> Nat]
<1>11. MovedOn(cl, cl1, L, P, 2) /\ MovedOn(up, up1, L, P, 2)
  BY <1>7, <1>8, <1>9, <1>10 DEF MovedOn
<1> QED
  BY <1>6, <1>9, <1>10, <1>11 DEF Grown

\* A node is allocated, and only t changes.
More(nd, nd1, t) ==
  /\ Len(nd1) = Len(nd) + 1 /\ nd1[Len(nd) + 1] = NewNode
  /\ \A n \in 1..Len(nd) : n # t => nd1[n] = nd[n]

\* The node is the first child of the innermost node.
LEMMA ChildLies ==
  ASSUME NEW nd, NEW st, NEW R, NEW e, NEW at, NEW cl, NEW up,
         Shaped(nd, st, R, e, at, cl, up), Lies(nd, st, R, e, at, cl, up),
         st # <<>>, e = Len(R) + Len(st), NEW t, t = st[Len(st)], nd[t].child = 0,
         NEW nd1, More(nd, nd1, t),
         nd1[t] = [nd[t] EXCEPT !.child = Len(nd) + 1],
         NEW st1, st1 = Append(st, Len(nd) + 1)
  PROVE  Placeable(nd1, st1, Append(R, Open(0)), e + 2)
<1> DEFINE R1 == Append(R, Open(0))
           P == Len(R)
           L == Len(nd)
           H == Len(st)
           k == Len(nd[t].props)
           a == at[t]
           r1 == nd1[t]
<1>1. /\ nd \in Seq(OTBNode) /\ L \in Nat /\ P \in Nat /\ e \in Nat /\ H \in Nat /\ R \in Seq(Token)
      /\ at \in [1..L -> Nat] /\ cl \in [1..L -> Nat] /\ up \in [1..L -> Nat]
      /\ \A i \in 1..H : st[i] \in 1..L /\ nd[st[i]].next = 0
      /\ H \in 1..H
  BY ShapedTypes
<1>2. /\ t \in 1..L /\ cl[t] = P + 1 /\ a + k = P
      /\ \A n \in 1..L : n # t /\ nd[n].child = 0 => cl[n] <= P
      /\ \A n \in 1..L : cl[n] # P
  BY InProperties
<1>3. k \in Nat /\ a \in Nat /\ nd[t].next = 0 /\ nd[t] \in OTBNode
  <2>1. nd[t] \in OTBNode
    BY <1>1, <1>2
  <2>2. nd[t].props \in Seq(Byte)
    BY ONLY <2>1 DEF OTBNode
  <2>3. nd[t].next = 0
    BY <1>1
  <2>4. k \in Nat
    BY <2>2
  <2>5. a \in Nat
    BY <1>1, <1>2
  <2> QED
    BY <2>1, <2>3, <2>4, <2>5
<1>4. /\ R[a] = Open(nd[t].type) /\ a \in 1..P /\ up[t] = P + 2
      /\ \A i \in 1..k : a + i \in 1..P /\ R[a + i] = Prop(nd[t].props[i])
  <2>1. Laid(nd[t], R, at, cl, up, t)
    BY <1>2 DEF Lies
  <2>2. up[t] = cl[t] + 1
    BY <1>3, <2>1 DEF Laid
  <2>3. up[t] = P + 2
    BY <1>1, <1>2, <2>2
  <2> QED
    BY <2>1, <2>3 DEF Laid
<1>5. Len(R1) = P + 1 /\ \A i \in 1..P : R1[i] = R[i]
  <2>1. Open(0) \in Token
    BY TokenTypes DEF Byte
  <2> QED
    BY <1>1, <2>1
<1>6. r1.type = nd[t].type /\ r1.child = L + 1 /\ r1.next = 0 /\ r1.props = nd[t].props
  BY <1>1, <1>3 DEF OTBNode
<1>7. PICK at1, cl1, up1 \in [1..L + 1 -> Nat] :
        Grown(L, P, at, cl, up, at1, cl1, up1)
  BY ONLY <1>1, PlacesGrow
<1>8. cl1[t] = P + 3 /\ up1[t] = P + 4 /\ at1[t] = a
  <2>1. Moved(P + 1, P, 2) = P + 3 /\ Moved(P + 2, P, 2) = P + 4
    BY <1>1 DEF Moved
  <2>2. at1[t] = at[t] /\ cl1[t] = Moved(cl[t], P, 2) /\ up1[t] = Moved(up[t], P, 2)
    BY ONLY <1>2, <1>7 DEF MovedOn, Grown
  <2> QED
    BY <1>2, <1>4, <2>1, <2>2
<1>9. /\ Len(st1) = H + 1 /\ st1[H + 1] = L + 1 /\ \A i \in 1..H : st1[i] = st[i]
  <2>1. st \in Seq(1..L) /\ L + 1 \in Nat
    BY <1>1 DEF Shaped
  <2>2. st \in Seq(Nat)
    BY ONLY <1>1, <2>1
  <2> QED
    BY <2>1, <2>2
<1> HIDE DEF P, L, H, k, a, r1, R1
<1>10. Laid(r1, R1, at1, cl1, up1, t)
  <2>1. a \in 1..P + 1 /\ R1[a] = Open(r1.type)
    BY ONLY <1>1, <1>4, <1>5, <1>6
  <2>2. \A i \in 1..k : a + i \in 1..P + 1 /\ R1[a + i] = Prop(r1.props[i])
    BY ONLY <1>1, <1>4, <1>5, <1>6
  <2>3. a + k < P + 3 /\ P + 3 < P + 4 /\ ~(P + 3 <= P + 1) /\ P + 1 = a + k + 1
        /\ P + 4 = P + 3 + 1 /\ L + 1 # 0
    BY ONLY <1>1, <1>2, <1>3
  <2>4. k = Len(r1.props)
    BY <1>6 DEF k
  <2> QED
    BY ONLY <1>5, <1>6, <1>7, <1>8, <2>1, <2>2, <2>3, <2>4 DEF Laid, Grown
<1>11. \A i \in 1..Len(st1) :
         \/ st1[i] = L + 1 /\ P + i = e + 1
         \/ i \in 1..H /\ st1[i] = st[i] /\ cl[st[i]] # P
  <2> SUFFICES ASSUME NEW i \in 1..Len(st1)
               PROVE  \/ st1[i] = L + 1 /\ P + i = e + 1
                      \/ i \in 1..H /\ st1[i] = st[i] /\ cl[st[i]] # P
    OBVIOUS
  <2>1. e = P + H
    BY DEF P, H
  <2>2. i \in 1..H \/ i = H + 1
    BY ONLY <1>1, <1>9, i \in 1..Len(st1)
  <2>3. i = H + 1 => P + i = e + 1
    BY ONLY <1>1, <2>1
  <2> QED
    BY ONLY <1>1, <1>2, <1>9, <2>2, <2>3
<1>12. \A n \in 1..L : (\A i \in 1..Len(st1) : st1[i] # n) => cl[n] <= P
  <2>1. \A n \in 1..L : (\A i \in 1..H : st[i] # n) => cl[n] <= P
    BY DEF Lies, L, H, P
  <2>2. \A i \in 1..H : i \in 1..Len(st1) /\ st1[i] = st[i]
    BY <1>1, <1>9
  <2> QED
    BY ONLY <2>1, <2>2
<1>13. \E i \in 1..Len(st1) : st1[i] = L + 1
  BY <1>1, <1>9
<1>14. Len(st1) \in Nat
  BY <1>1, <1>9
<1>15. Lies(nd1, st1, R1, e + 2, at1, cl1, up1)
  <2>1. OnStack(L, P, e, st, cl, st1)
    BY <1>11, <1>12, <1>13, <1>14 DEF OnStack, H
  <2>2. Others(nd, nd1, t, Len(R), cl)
    BY <1>2 DEF Others, L, P, More
  <2>3. Laid(nd1[t], Append(R, Open(0)), at1, cl1, up1, t)
    BY <1>10 DEF r1, R1
  <2>4. Len(nd1) = Len(nd) + 1 /\ nd1[Len(nd) + 1] = NewNode
    BY DEF More
  <2>5. Lies(nd1, st1, Append(R, Open(0)), e + 2, at1, cl1, up1)
    BY <1>2, <1>7, <2>1, <2>2, <2>3, <2>4, NodeLies DEF P, L
  <2> QED
    BY <2>5 DEF R1
<1>16. 1..Len(nd1) = 1..L + 1
  BY DEF L, More
<1> QED
  BY ONLY <1>7, <1>15, <1>16 DEF R1, Placeable

\* The node is the next sibling of the innermost node, whose NODE_END was read.
LEMMA SiblingLies ==
  ASSUME NEW nd, NEW st, NEW R, NEW e, NEW at, NEW cl, NEW up,
         Shaped(nd, st, R, e, at, cl, up), Lies(nd, st, R, e, at, cl, up),
         st # <<>>, e + 1 = Len(R) + Len(st), NEW t, t = st[Len(st)],
         NEW nd1, More(nd, nd1, t),
         nd1[t] = [nd[t] EXCEPT !.next = Len(nd) + 1],
         NEW st1, st1 = [st EXCEPT ![Len(st)] = Len(nd) + 1]
  PROVE  Placeable(nd1, st1, Append(R, Open(0)), e + 2)
<1> DEFINE R1 == Append(R, Open(0))
           P == Len(R)
           L == Len(nd)
           H == Len(st)
           k == Len(nd[t].props)
           a == at[t]
           r1 == nd1[t]
<1>1. /\ nd \in Seq(OTBNode) /\ L \in Nat /\ P \in Nat /\ e \in Nat /\ H \in Nat /\ R \in Seq(Token)
      /\ at \in [1..L -> Nat] /\ cl \in [1..L -> Nat] /\ up \in [1..L -> Nat]
      /\ \A i \in 1..H : st[i] \in 1..L /\ nd[st[i]].next = 0
      /\ \A i \in 1..H - 1 : nd[st[i]].child # 0
      /\ \A n \in 1..L : nd[n].child \in 0..L
      /\ H \in 1..H
  BY ONLY Shaped(nd, st, R, e, at, cl, up), st # <<>>, ShapedTypes
<1>2. t \in 1..L /\ nd[t].next = 0
  BY <1>1
<1>3. nd[t] \in OTBNode /\ k \in Nat /\ a \in Nat
  <2>1. nd[t] \in OTBNode
    BY <1>1, <1>2
  <2>2. nd[t].props \in Seq(Byte)
    BY ONLY <2>1 DEF OTBNode
  <2> QED
    BY <1>1, <1>2, <2>1, <2>2
<1>4. /\ Laid(nd[t], R, at, cl, up, t) /\ cl[t] + H = e + 1
      /\ \A n, m \in 1..L : cl[n] = cl[m] => n = m
      /\ \A n \in 1..L : (\A i \in 1..H : st[i] # n) => cl[n] <= P
  BY ONLY <1>1, <1>2, Lies(nd, st, R, e, at, cl, up), t = st[H] DEF Lies
<1>5. cl[t] = P
  <2>1. PICK c \in Nat : c = cl[t]
    BY <1>1, <1>2
  <2>2. c + H = P + H
    BY <1>4, <2>1
  <2> HIDE DEF P, H
  <2>3. c = P
    BY ONLY <1>1, <2>2, c \in Nat
  <2> QED
    BY <2>1, <2>3
<1>6. /\ R[a] = Open(nd[t].type) /\ a \in 1..P /\ up[t] = P + 1 /\ a + k < P /\ R[P] = Close
      /\ \A i \in 1..k : a + i \in 1..P /\ R[a + i] = Prop(nd[t].props[i])
      /\ IF nd[t].child = 0 THEN P = a + k + 1
         ELSE at[nd[t].child] = a + k + 1 /\ P = up[nd[t].child]
  <2>1. P <= P
    BY <1>1
  <2> QED
    BY <1>2, <1>4, <1>5, <2>1 DEF Laid
<1>7. Len(R1) = P + 1 /\ \A i \in 1..P : R1[i] = R[i]
  <2>1. Open(0) \in Token
    BY TokenTypes DEF Byte
  <2> QED
    BY <1>1, <2>1
<1>8. r1.type = nd[t].type /\ r1.child = nd[t].child /\ r1.next = L + 1 /\ r1.props = nd[t].props
  BY <1>1, <1>3 DEF OTBNode
<1>9. PICK at1, cl1, up1 \in [1..L + 1 -> Nat] :
        Grown(L, P, at, cl, up, at1, cl1, up1)
  BY ONLY <1>1, PlacesGrow
<1>10. /\ cl1[t] = P /\ up1[t] = P + 3 /\ at1[t] = a
       /\ nd[t].child # 0 => at1[nd[t].child] = a + k + 1 /\ up1[nd[t].child] = P
  <2>1. Moved(P, P, 2) = P /\ Moved(P + 1, P, 2) = P + 3
    BY <1>1 DEF Moved
  <2>2. nd[t].child # 0 => nd[t].child \in 1..L
    <3>1. nd[t].child \in 0..L /\ \A x \in 0..L : x # 0 => x \in 1..L
      <4>1. \A x \in 0..L : x # 0 => x \in 1..L
        BY <1>1
      <4> QED
        BY <1>1, <1>2, <4>1
    <3> QED
      BY ONLY <3>1
  <2>3. \A m \in 1..L : at1[m] = at[m] /\ cl1[m] = Moved(cl[m], P, 2) /\ up1[m] = Moved(up[m], P, 2)
    BY ONLY <1>9 DEF MovedOn, Grown
  <2>4. cl1[t] = P /\ up1[t] = P + 3 /\ at1[t] = a
    <3>1. up[t] = P + 1
      BY <1>6
    <3> HIDE DEF P, a
    <3> QED
      BY <1>2, <1>5, <2>1, <2>3, <3>1 DEF a
  <2> QED
    BY <1>6, <2>1, <2>2, <2>3, <2>4
<1>11. /\ Len(st1) = H /\ st1[H] = L + 1 /\ \A i \in 1..H : i # H => st1[i] = st[i]
  <2>1. st \in Seq(1..L)
    BY DEF Shaped
  <2> QED
    BY <1>1, <2>1
<1> HIDE DEF P, L, H, k, a, r1, R1
<1>12. Laid(r1, R1, at1, cl1, up1, t)
  <2>1. a \in 1..P + 1 /\ R1[a] = Open(r1.type)
    BY ONLY <1>1, <1>6, <1>7, <1>8
  <2>2. \A i \in 1..k : a + i \in 1..P + 1 /\ R1[a + i] = Prop(r1.props[i])
    BY ONLY <1>1, <1>6, <1>7, <1>8
  <2>3. P < P + 3 /\ L + 1 # 0 /\ P \in 1..P
    <3>1. P \in Nat /\ L \in Nat
      BY ONLY <1>1
    <3>2. a \in 1..P
      BY ONLY <1>6
    <3> QED
      BY ONLY <3>1, <3>2
  <2>4. k = Len(r1.props)
    BY <1>8 DEF k
  <2>5. R1[P] = Close
    BY <1>6, <1>7, <2>3
  <2> QED
    BY ONLY <1>6, <1>7, <1>8, <1>9, <1>10, <2>1, <2>2, <2>3, <2>4, <2>5 DEF Laid, Grown
<1>13. \A n \in 1..L : n # t => (nd[n].child = 0 => cl[n] <= P) /\ cl[n] # P
  <2> SUFFICES ASSUME NEW n \in 1..L, n # t
               PROVE  (nd[n].child = 0 => cl[n] <= P) /\ cl[n] # P
    OBVIOUS
  <2>1. cl[n] # P
    BY <1>2, <1>4, <1>5
  <2>2. ASSUME nd[n].child = 0 PROVE cl[n] <= P
    <3>1. ASSUME NEW i \in 1..H PROVE st[i] # n
      <4>1. i \in 1..H - 1 \/ i = H
        BY ONLY <1>1, i \in 1..H
      <4> QED
        BY <1>1, <2>2, <4>1 DEF H
    <3> QED
      BY <1>4, <3>1
  <2> QED
    BY <2>1, <2>2
<1>14. \A i \in 1..Len(st1) :
         \/ st1[i] = L + 1 /\ P + i = e + 1
         \/ i \in 1..H /\ st1[i] = st[i] /\ cl[st[i]] # P
  <2> SUFFICES ASSUME NEW i \in 1..Len(st1)
               PROVE  \/ st1[i] = L + 1 /\ P + i = e + 1
                      \/ i \in 1..H /\ st1[i] = st[i] /\ cl[st[i]] # P
    OBVIOUS
  <2>1. CASE i = H
    <3>1. P + H = e + 1
      BY DEF P, H
    <3> QED
      BY <1>11, <2>1, <3>1
  <2>2. CASE i # H
    <3>1. i \in 1..H /\ i < H
      BY ONLY <1>1, <1>11, <2>2, i \in 1..Len(st1)
    <3>2. st[i] < st[H]
      BY <1>1, <3>1 DEF Shaped, H
    <3>3. st[i] # t
      <4>1. t = st[H]
        BY DEF H
      <4> QED
        BY <1>1, <3>1, <3>2, <4>1
    <3> QED
      BY <1>1, <1>11, <1>13, <2>2, <3>1, <3>3
  <2> QED
    BY <2>1, <2>2
<1>15. \A n \in 1..L : (\A i \in 1..Len(st1) : st1[i] # n) => cl[n] <= P
  <2> SUFFICES ASSUME NEW n \in 1..L, \A i \in 1..Len(st1) : st1[i] # n PROVE cl[n] <= P
    OBVIOUS
  <2>1. CASE n = t
    BY <1>1, <1>5, <2>1
  <2>2. CASE n # t
    <3>1. ASSUME NEW i \in 1..H PROVE st[i] # n
      BY <1>11, <2>2 DEF H
    <3> QED
      BY <1>4, <3>1
  <2> QED
    BY <2>1, <2>2
<1>16. \E i \in 1..Len(st1) : st1[i] = L + 1
  BY <1>1, <1>11
<1>17. Len(st1) \in Nat
  BY <1>1, <1>11
<1>18. Lies(nd1, st1, R1, e + 2, at1, cl1, up1)
  <2>1. OnStack(L, P, e, st, cl, st1)
    BY <1>14, <1>15, <1>16, <1>17 DEF OnStack, H
  <2>2. Others(nd, nd1, t, Len(R), cl)
    BY <1>13 DEF Others, L, P, More
  <2>3. Laid(nd1[t], Append(R, Open(0)), at1, cl1, up1, t)
    BY <1>12 DEF r1, R1
  <2>4. Len(nd1) = Len(nd) + 1 /\ nd1[Len(nd) + 1] = NewNode
    BY DEF More
  <2>5. Lies(nd1, st1, Append(R, Open(0)), e + 2, at1, cl1, up1)
    BY <1>2, <1>9, <2>1, <2>2, <2>3, <2>4, NodeLies DEF P, L
  <2> QED
    BY <2>5 DEF R1
<1>19. 1..Len(nd1) = 1..L + 1
  BY DEF L, More
<1> QED
  BY ONLY <1>9, <1>18, <1>19 DEF R1, Placeable

\* The type of the innermost node is read: it had none yet.
LEMMA TypeLies ==
  ASSUME NEW nd, NEW st, NEW R, NEW e, NEW at, NEW cl, NEW up,
         Shaped(nd, st, R, e, at, cl, up), Lies(nd, st, R, e, at, cl, up),
         st # <<>>, e = Len(R) + Len(st), NEW t, t = st[Len(st)], nd[t].child = 0,
         NEW T \in Seq(Token), R = Append(T, Open(0)), NEW b \in Byte,
         NEW nd1, Same(nd, nd1, t),
         nd1[t] = [nd[t] EXCEPT !.type = b]
  PROVE  Lies(nd1, st, Append(T, Open(b)), e, at, cl, up)
<1> DEFINE P == Len(R)
           L == Len(nd)
           k == Len(nd[t].props)
           r1 == nd1[t]
           R1 == Append(T, Open(b))
<1>1. /\ nd \in Seq(OTBNode) /\ L \in Nat /\ P \in Nat /\ R \in Seq(Token)
      /\ at \in [1..L -> Nat] /\ cl \in [1..L -> Nat] /\ up \in [1..L -> Nat]
  BY ONLY Shaped(nd, st, R, e, at, cl, up), ShapedTypes
<1>2. /\ t \in 1..L /\ at[t] + k = P
      /\ \A n \in 1..L : cl[n] # P
      /\ k # 0 => R[P] = Prop(nd[t].props[k])
  BY ONLY Shaped(nd, st, R, e, at, cl, up), Lies(nd, st, R, e, at, cl, up),
     st # <<>>, e = Len(R) + Len(st), t = st[Len(st)], nd[t].child = 0, InProperties
<1>3. nd[t] \in OTBNode /\ k \in Nat
  <2>1. nd[t] \in OTBNode
    BY <1>1, <1>2
  <2>2. nd[t].props \in Seq(Byte)
    BY <2>1 DEF OTBNode
  <2> QED
    BY <2>1, <2>2
<1>4. /\ P = Len(T) + 1 /\ R[P] = Open(0) /\ \A i \in 1..Len(T) : R[i] = T[i]
      /\ Len(R1) = P /\ R1[P] = Open(b) /\ \A i \in 1..Len(T) : R1[i] = T[i]
      /\ Len(T) \in Nat
  <2>1. Open(0) \in Token /\ Open(b) \in Token
    <3>1. 0 \in Byte
      BY DEF Byte
    <3> QED
      BY <3>1, TokenTypes
  <2> QED
    BY <2>1
<1>5. \A i \in 1..P : i # P => R1[i] = R[i]
  <2> HIDE DEF P, R1
  <2>1. \A i \in 1..P : i # P => i \in 1..Len(T)
    BY <1>4
  <2> QED
    BY <1>4, <2>1
<1>6. \A x : R[P] # Prop(x) /\ R[P] # Close
  BY <1>4 DEF Open, Prop, Close
<1>7. k = 0 /\ at[t] = P
  <2>1. k = 0
    BY <1>2, <1>6
  <2>2. PICK x \in Nat : x = at[t]
    BY <1>1, <1>2
  <2>3. x + 0 = P
    BY <1>2, <2>1, <2>2
  <2> QED
    BY ONLY <2>1, <2>2, <2>3
<1>8. r1.type = b /\ r1.child = nd[t].child /\ r1.next = nd[t].next /\ r1.props = nd[t].props
  BY <1>3 DEF OTBNode
<1>9. /\ \A n \in 1..L : Laid(nd[n], R, at, cl, up, n)
      /\ \A n, m \in 1..L : n < m => at[n] < at[m]
  BY DEF Lies
<1> HIDE DEF P, L, k, r1, R1
<1>10. \A n \in 1..L : n # t => at[n] # P
  <2> SUFFICES ASSUME NEW n \in 1..L, n # t PROVE at[n] # P
    OBVIOUS
  <2>1. n < t \/ t < n
    BY <1>1, <1>2
  <2>2. at[n] < at[t] \/ at[t] < at[n]
    BY ONLY <1>2, <1>9, <2>1, n \in 1..L
  <2>3. at[n] \in Nat /\ at[t] \in Nat
    BY <1>1, <1>2
  <2> QED
    BY ONLY <1>7, <2>2, <2>3
<1>11. ASSUME NEW n \in 1..L, n # t PROVE Laid(nd[n], R1, at, cl, up, n)
  <2> DEFINE r == nd[n]
             j == Len(r.props)
  <2>1. /\ at[n] \in 1..P /\ R[at[n]] = Open(r.type)
        /\ \A i \in 1..j : at[n] + i \in 1..P /\ R[at[n] + i] = Prop(r.props[i])
        /\ at[n] + j < cl[n] /\ cl[n] < up[n]
        /\ cl[n] <= P => R[cl[n]] = Close
        /\ IF r.child = 0 THEN cl[n] = at[n] + j + 1
           ELSE at[r.child] = at[n] + j + 1 /\ cl[n] = up[r.child]
        /\ IF r.next = 0 THEN up[n] = cl[n] + 1
           ELSE at[r.next] = cl[n] + 1 /\ up[n] = up[r.next]
    BY <1>9 DEF Laid, P
  <2>2. cl[n] <= P => cl[n] \in 1..P
    <3>1. nd[n].props \in Seq(Byte)
      <4>1. nd[n] \in OTBNode
        BY <1>1 DEF L
      <4> QED
        BY <4>1 DEF OTBNode
    <3>2. j \in Nat
      BY <3>1
    <3>3. at[n] \in Nat /\ cl[n] \in Nat
      BY <1>1
    <3>4. at[n] \in 1..P /\ at[n] + j < cl[n]
      BY <2>1
    <3> HIDE DEF r, j
    <3> QED
      BY ONLY <1>1, <3>2, <3>3, <3>4
  <2> HIDE DEF r, j
  <2>3. R1[at[n]] = Open(r.type)
    BY ONLY <1>5, <1>10, <2>1, n \in 1..L, n # t
  <2>4. \A i \in 1..j : R1[at[n] + i] = Prop(r.props[i])
    BY ONLY <1>5, <1>6, <2>1
  <2>5. cl[n] <= P => R1[cl[n]] = Close
    BY <1>2, <1>5, <2>1, <2>2
  <2> QED
    BY ONLY <1>4, <2>1, <2>3, <2>4, <2>5 DEF Laid, r, j
<1>12. Laid(r1, R1, at, cl, up, t)
  <2>1. /\ at[t] \in 1..P /\ at[t] + k < cl[t] /\ cl[t] < up[t]
        /\ cl[t] <= P => R[cl[t]] = Close
        /\ IF nd[t].child = 0 THEN cl[t] = at[t] + k + 1
           ELSE at[nd[t].child] = at[t] + k + 1 /\ cl[t] = up[nd[t].child]
        /\ IF nd[t].next = 0 THEN up[t] = cl[t] + 1
           ELSE at[nd[t].next] = cl[t] + 1 /\ up[t] = up[nd[t].next]
    BY <1>2, <1>9 DEF Laid, P, k
  <2>2. ~(cl[t] <= P)
    <3>1. cl[t] \in Nat
      BY <1>1, <1>2
    <3> QED
      BY ONLY <1>1, <1>7, <2>1, <3>1
  <2>3. Len(r1.props) = k
    BY <1>8 DEF k
  <2>4. 1..k = {}
    BY <1>7
  <2> QED
    BY ONLY <1>4, <1>7, <1>8, <2>1, <2>2, <2>3, <2>4 DEF Laid
<1>13. \A n \in 1..L : Laid(nd1[n], R1, at, cl, up, n)
  BY <1>11, <1>12 DEF L, r1, Same
<1>14. Len(nd1) = L /\ Len(R1) = P
  BY <1>4 DEF L, Same
<1>15. Lies(nd1, st, R1, e, at, cl, up)
  BY <1>13, <1>14 DEF Lies, L, P
<1> QED
  BY <1>15 DEF R1

\* A NODE_END is read that was still to come.
LEMMA EndLies ==
  ASSUME NEW nd, NEW st, NEW R, NEW e, NEW at, NEW cl, NEW up,
         Shaped(nd, st, R, e, at, cl, up), Lies(nd, st, R, e, at, cl, up)
  PROVE  Lies(nd, st, Append(R, Close), e, at, cl, up)
<1> DEFINE P == Len(R)
           L == Len(nd)
           R1 == Append(R, Close)
<1>1. /\ nd \in Seq(OTBNode) /\ L \in Nat /\ P \in Nat /\ R \in Seq(Token)
      /\ at \in [1..L -> Nat] /\ cl \in [1..L -> Nat] /\ up \in [1..L -> Nat]
  BY ShapedTypes
<1>2. Len(R1) = P + 1 /\ R1[P + 1] = Close /\ \A i \in 1..P : R1[i] = R[i]
  BY <1>1, TokenTypes
<1>3. /\ \A n \in 1..L : Laid(nd[n], R, at, cl, up, n)
      /\ \A n \in 1..L : (\A i \in 1..Len(st) : st[i] # n) => cl[n] <= P
  BY DEF Lies
<1> HIDE DEF P, L, R1
<1>4. ASSUME NEW n \in 1..L PROVE Laid(nd[n], R1, at, cl, up, n)
  <2> DEFINE r == nd[n]
             j == Len(r.props)
  <2>1. /\ at[n] \in 1..P /\ R[at[n]] = Open(r.type)
        /\ \A i \in 1..j : at[n] + i \in 1..P /\ R[at[n] + i] = Prop(r.props[i])
        /\ at[n] + j < cl[n] /\ cl[n] < up[n]
        /\ cl[n] <= P => R[cl[n]] = Close
        /\ IF r.child = 0 THEN cl[n] = at[n] + j + 1
           ELSE at[r.child] = at[n] + j + 1 /\ cl[n] = up[r.child]
        /\ IF r.next = 0 THEN up[n] = cl[n] + 1
           ELSE at[r.next] = cl[n] + 1 /\ up[n] = up[r.next]
    BY <1>3 DEF Laid, P
  <2>2. (cl[n] <= P => cl[n] \in 1..P) /\ (cl[n] <= P + 1 => cl[n] <= P \/ cl[n] = P + 1)
    <3>1. nd[n].props \in Seq(Byte)
      <4>1. nd[n] \in OTBNode
        BY <1>1 DEF L
      <4> QED
        BY <4>1 DEF OTBNode
    <3>2. j \in Nat
      BY <3>1
    <3>3. at[n] \in Nat /\ cl[n] \in Nat
      BY <1>1
    <3>4. at[n] \in 1..P /\ at[n] + j < cl[n]
      BY <2>1
    <3> HIDE DEF r, j
    <3>5. PICK x \in Nat, y \in Nat : x = cl[n] /\ y = at[n]
      BY <3>3
    <3>6. P \in Nat /\ 1 <= y /\ y + j < x
      BY <1>1, <3>4, <3>5
    <3>7. (x <= P => x \in 1..P) /\ (x <= P + 1 => x <= P \/ x = P + 1)
      BY ONLY <3>2, <3>6, x \in Nat, y \in Nat
    <3> QED
      BY ONLY <3>5, <3>7
  <2>3. \A x \in 1..P : x \in 1..P + 1
    BY <1>1
  <2> HIDE DEF r, j
  <2>4. cl[n] <= P + 1 => R1[cl[n]] = Close
    BY ONLY <1>2, <2>1, <2>2
  <2> QED
    BY ONLY <1>2, <2>1, <2>3, <2>4 DEF Laid, r, j
<1>5. \A n \in 1..L : (\A i \in 1..Len(st) : st[i] # n) => cl[n] <= P + 1
  <2>1. \A n \in 1..L : cl[n] \in Nat
    BY <1>1
  <2>2. \A x \in Nat : x <= P => x <= P + 1
    BY <1>1
  <2> QED
    BY ONLY <1>3, <2>1, <2>2
<1>6. Lies(nd, st, R1, e, at, cl, up)
  BY <1>2, <1>4, <1>5 DEF Lies, L
<1> QED
  BY <1>6 DEF R1

\* The call for the innermost node returns, whose NODE_END was the last token.
LEMMA ReturnLies ==
  ASSUME NEW nd, NEW st, NEW R, NEW e, NEW at, NEW cl, NEW up,
         Shaped(nd, st, R, e, at, cl, up), Lies(nd, st, R, e, at, cl, up),
         e + 1 = Len(R) + Len(st),
         NEW st1, Len(st1) + 1 = Len(st), Len(st1) \in Nat,
         \A i \in 1..Len(st1) : st1[i] = st[i]
  PROVE  Lies(nd, st1, R, e, at, cl, up)
<1> DEFINE P == Len(R)
           L == Len(nd)
           H == Len(st)
           K == Len(st1)
<1>1. /\ P \in Nat /\ L \in Nat /\ H \in Nat /\ cl \in [1..L -> Nat]
      /\ \A i \in 1..H : st[i] \in 1..L
  BY ShapedTypes
<1>2. /\ \A i \in 1..H : cl[st[i]] + i = e + 1
      /\ \A n \in 1..L : (\A i \in 1..H : st[i] # n) => cl[n] <= P
  BY DEF Lies
<1>3. e + 1 = P + H /\ K + 1 = H /\ K \in Nat /\ \A i \in 1..K : st1[i] = st[i]
  OBVIOUS
<1> HIDE DEF P, L, H, K
<1>4. \A i \in 1..H : i \in 1..K \/ i = H
  BY ONLY <1>1, <1>3
<1>5. H \in 1..H /\ \A i \in 1..K : i \in 1..H
  BY ONLY <1>1, <1>3
<1>6. cl[st[H]] <= P
  <2>1. PICK x \in Nat : x = cl[st[H]]
    BY <1>1, <1>5
  <2>2. x + H = P + H
    BY <1>2, <1>3, <1>5, <2>1
  <2>3. x <= P
    BY ONLY <1>1, <2>2, x \in Nat
  <2> QED
    BY <2>1, <2>3
<1>7. \A i \in 1..K : cl[st1[i]] + i = e + 1
  BY ONLY <1>2, <1>3, <1>5
<1>8. \A n \in 1..L : (\A i \in 1..K : st1[i] # n) => cl[n] <= P
  BY ONLY <1>2, <1>3, <1>4, <1>6
<1> QED
  BY <1>7, <1>8 DEF Lies, P, L, K

-----------------------------------------------------------------------------
(* The inductive invariant behind TreeIsTheFile.                           *)

\* The nodes can be placed in what was read.
PlacedInv ==
  /\ 1 <= Len(node)
  /\ Nesting
  /\ \E at, cl, up \in [1..Len(node) -> Nat] : Placed(at, cl, up)

\* What the lemmas about places ask for holds in every state.
LEMMA StateShaped ==
  ASSUME TreeInv, Nesting, 1 <= Len(node),
         NEW at \in [1..Len(node) -> Nat], NEW cl \in [1..Len(node) -> Nat],
         NEW up \in [1..Len(node) -> Nat]
  PROVE  /\ Shaped(node, stack, Read, Len(Read) + MissingEnds, at, cl, up)
         /\ Len(Read) \in Nat /\ Len(stack) \in Nat
         /\ reading # "end" => MissingEnds = Len(stack)
         /\ reading = "end" => MissingEnds + 1 = Len(stack)
<1>1. TypeOK /\ NodesLinked /\ StackInv
  BY DEF TreeInv
<1>2. /\ Read \in Seq(Token) /\ Len(Read) \in Nat /\ MissingEnds \in Nat
  BY <1>1, FileTypes
<1>3. node \in Seq(OTBNode) /\ stack \in Seq(1..Len(node)) /\ Len(stack) \in Nat
  BY <1>1 DEF TypeOK
<1>4. /\ reading # "end" => MissingEnds = Len(stack)
      /\ reading = "end" => MissingEnds + 1 = Len(stack)
  BY <1>3 DEF MissingEnds
<1>5. /\ Len(Read) + MissingEnds \in Nat
      /\ Len(Read) <= Len(Read) + MissingEnds
      /\ Len(Read) + Len(stack) <= Len(Read) + MissingEnds + 1
  <2>1. Len(stack) <= MissingEnds + 1
    BY <1>2, <1>3, <1>4
  <2> QED
    BY <1>2, <1>3, <2>1
<1>6. \A n \in 1..Len(node) : node[n].child \in 0..Len(node) /\ node[n].next \in 0..Len(node)
  BY <1>1 DEF NodesLinked
<1>7. /\ \A i \in 1..Len(stack) : node[stack[i]].next = 0
      /\ \A i, j \in 1..Len(stack) : i < j => stack[i] < stack[j]
  BY <1>1 DEF StackInv
<1>8. \A i \in 1..Len(stack) - 1 : node[stack[i]].child # 0
  BY DEF Nesting
<1> QED
  BY <1>2, <1>3, <1>4, <1>5, <1>6, <1>7, <1>8 DEF Shaped

\* Until its first NODE_START or NODE_END the innermost node has no children.
LEMMA InnermostIsLeaf ==
  ASSUME TreeInv, stack # <<>>, ~unread, reading # "end"
  PROVE  Top = stack[Len(stack)] /\ Top \in 1..Len(node) /\ node[Top].child = 0
BY TopIsNode DEF TreeInv, StackInv

\* Placed from the parts of the next state.
LEMMA PlacedNext ==
  ASSUME NEW nd, nd = node', NEW st, st = stack', NEW R, R = Read',
         NEW e, e = Len(R) + MissingEnds',
         Placeable(nd, st, R, e)
  PROVE  \E at, cl, up \in [1..Len(node') -> Nat] : Placed(at, cl, up)'
<1>1. PICK at, cl, up \in [1..Len(nd) -> Nat] : Lies(nd, st, R, e, at, cl, up)
  BY DEF Placeable
<1>2. Placed(at, cl, up)'
  BY <1>1 DEF Placed
<1> QED
  BY <1>1, <1>2

\* A property is added to the innermost node.
LEMMA AddPropPlaced ==
  ASSUME TreeInv, PlacedInv, NEW b \in Byte, AddProp(b)
  PROVE  PlacedInv'
<1>1. /\ stack # <<>> /\ stack' = stack /\ ~unread /\ reading \in {"byte", "escaped"}
      /\ reading' = "byte" /\ node' = [node EXCEPT ![Top].props = Append(@, b)]
      /\ tokens' = Append(tokens, Prop(b))
  BY DEF AddProp, Reads, TreeInv, StackInv, Special, TypeOK
<1>2. Top = stack[Len(stack)] /\ Top \in 1..Len(node) /\ node[Top].child = 0
  BY <1>1, InnermostIsLeaf
<1>3. PICK at, cl, up \in [1..Len(node) -> Nat] :
        Lies(node, stack, Read, Len(Read) + MissingEnds, at, cl, up)
  BY DEF PlacedInv, Placed
<1>4. /\ Shaped(node, stack, Read, Len(Read) + MissingEnds, at, cl, up)
      /\ MissingEnds = Len(stack) /\ Len(Read) \in Nat /\ Len(stack) \in Nat
  BY <1>1, StateShaped DEF PlacedInv
<1>5. /\ node \in Seq(OTBNode) /\ tokens \in Seq(Token) /\ Prop(b) \in Token
  BY TokenTypes DEF TreeInv, TypeOK
<1>6. /\ Len(node') = Len(node) /\ node'[Top] = [node[Top] EXCEPT !.props = Append(@, b)]
      /\ \A n \in 1..Len(node) : n # Top => node'[n] = node[n]
  <2>1. Len(node') = Len(node)
    BY <1>1, <1>2, <1>5, Edited
  <2>2. DOMAIN node = 1..Len(node)
    BY <1>5
  <2> QED
    BY ONLY <1>1, <1>2, <2>1, <2>2
<1>7. Read = tokens /\ Read' = Append(Read, Prop(b)) /\ MissingEnds' = MissingEnds
  BY <1>1 DEF Read, MissingEnds
<1>8. Len(Read') = Len(Read) + 1
  BY <1>5, <1>7
<1>9. Placeable(node', stack, Read', Len(Read) + MissingEnds + 1)
  <2>1. PICK nd, st, R, e, t, nd1, R1 :
          /\ nd = node /\ st = stack /\ R = Read /\ e = Len(Read) + MissingEnds
          /\ t = Top /\ nd1 = node' /\ R1 = Read'
    OBVIOUS
  <2>2. /\ Shaped(nd, st, R, e, at, cl, up) /\ Lies(nd, st, R, e, at, cl, up)
        /\ st # <<>> /\ e = Len(R) + Len(st) /\ t = st[Len(st)] /\ nd[t].child = 0
        /\ Same(nd, nd1, t) /\ nd1[t] = [nd[t] EXCEPT !.props = Append(@, b)]
        /\ R1 = Append(R, Prop(b))
    BY <1>1, <1>2, <1>3, <1>4, <1>6, <1>7, <2>1 DEF Same
  <2>3. Placeable(nd1, st, Append(R, Prop(b)), e + 1)
    BY ONLY <2>2, b \in Byte, PropLies
  <2> QED
    BY ONLY <2>1, <2>2, <2>3
<1>10. \E at1, cl1, up1 \in [1..Len(node') -> Nat] : Placed(at1, cl1, up1)'
  <2>1. Len(Read) + MissingEnds + 1 = Len(Read') + MissingEnds'
    BY <1>4, <1>7, <1>8
  <2> QED
    BY <1>1, <1>9, <2>1, PlacedNext
<1>11. Nesting'
  <2>1. \A n \in 1..Len(node) : node'[n].child = node[n].child
    BY <1>1, <1>2, <1>5, Edited
  <2>2. \A i \in 1..Len(stack) - 1 : stack[i] \in 1..Len(node)
    BY <1>4 DEF TreeInv, TypeOK
  <2> QED
    BY <1>1, <2>1, <2>2 DEF PlacedInv, Nesting
<1> QED
  BY <1>6, <1>10, <1>11 DEF PlacedInv

\* The type of the innermost node is read.
LEMMA NodeTypePlaced ==
  ASSUME TreeInv, PlacedInv, NEW b \in Byte, NodeType(b)
  PROVE  PlacedInv'
<1>1. /\ stack # <<>> /\ stack' = stack /\ ~unread /\ reading = "type"
      /\ reading' = "byte" /\ node' = [node EXCEPT ![Top].type = b]
      /\ tokens' = Append(tokens, Open(b))
  BY DEF NodeType, Reads, TreeInv, StackInv
<1>2. Top = stack[Len(stack)] /\ Top \in 1..Len(node) /\ node[Top].child = 0
  BY <1>1, InnermostIsLeaf
<1>3. PICK at, cl, up \in [1..Len(node) -> Nat] :
        Lies(node, stack, Read, Len(Read) + MissingEnds, at, cl, up)
  BY DEF PlacedInv, Placed
<1>4. /\ Shaped(node, stack, Read, Len(Read) + MissingEnds, at, cl, up)
      /\ MissingEnds = Len(stack) /\ Len(Read) \in Nat /\ Len(stack) \in Nat
  BY <1>1, StateShaped DEF PlacedInv
<1>5. /\ node \in Seq(OTBNode) /\ tokens \in Seq(Token)
      /\ Open(b) \in Token /\ Open(0) \in Token
  <2>1. 0 \in Byte
    BY DEF Byte
  <2> QED
    BY <2>1, TokenTypes DEF TreeInv, TypeOK
<1>6. /\ Len(node') = Len(node) /\ node'[Top] = [node[Top] EXCEPT !.type = b]
      /\ \A n \in 1..Len(node) : n # Top => node'[n] = node[n]
  <2>1. Len(node') = Len(node)
    BY <1>1, <1>2, <1>5, Edited
  <2>2. DOMAIN node = 1..Len(node)
    BY <1>5
  <2> QED
    BY ONLY <1>1, <1>2, <2>1, <2>2
<1>7. Read = Append(tokens, Open(0)) /\ Read' = Append(tokens, Open(b)) /\ MissingEnds' = MissingEnds
  BY <1>1 DEF Read, MissingEnds
<1>8. Len(Read') = Len(Read)
  BY <1>5, <1>7
<1>9. Placeable(node', stack, Read', Len(Read) + MissingEnds)
  <2>1. PICK nd, st, R, e, t, nd1, T :
          /\ nd = node /\ st = stack /\ R = Read /\ e = Len(Read) + MissingEnds
          /\ t = Top /\ nd1 = node' /\ T = tokens
    OBVIOUS
  <2>2. /\ Shaped(nd, st, R, e, at, cl, up) /\ Lies(nd, st, R, e, at, cl, up)
        /\ st # <<>> /\ e = Len(R) + Len(st) /\ t = st[Len(st)] /\ nd[t].child = 0
        /\ T \in Seq(Token) /\ R = Append(T, Open(0))
        /\ Same(nd, nd1, t) /\ nd1[t] = [nd[t] EXCEPT !.type = b]
    BY <1>1, <1>2, <1>3, <1>4, <1>5, <1>6, <1>7, <2>1 DEF Same
  <2>3. Placeable(nd1, st, Append(T, Open(b)), e)
    <3>1. Lies(nd1, st, Append(T, Open(b)), e, at, cl, up)
      BY ONLY <2>2, b \in Byte, TypeLies
    <3> QED
      BY <1>6, <2>1, <3>1 DEF Placeable
  <2> QED
    BY ONLY <1>7, <2>1, <2>3
<1>10. \E at1, cl1, up1 \in [1..Len(node') -> Nat] : Placed(at1, cl1, up1)'
  <2>1. Len(Read) + MissingEnds = Len(Read') + MissingEnds'
    BY <1>7, <1>8
  <2> QED
    BY <1>1, <1>9, <2>1, PlacedNext
<1>11. Nesting'
  <2>1. \A n \in 1..Len(node) : node'[n].child = node[n].child
    BY <1>1, <1>2, <1>5, Edited
  <2>2. \A i \in 1..Len(stack) - 1 : stack[i] \in 1..Len(node)
    BY <1>4 DEF TreeInv, TypeOK
  <2> QED
    BY <1>1, <2>1, <2>2 DEF PlacedInv, Nesting
<1> QED
  BY <1>6, <1>10, <1>11 DEF PlacedInv

\* A node is allocated as a child of the innermost node.
LEMMA StartChildPlaced ==
  ASSUME TreeInv, PlacedInv, StartChild
  PROVE  PlacedInv'
<1>1. /\ stack # <<>> /\ stack' = Append(stack, Len(node) + 1) /\ ~unread /\ reading = "byte"
      /\ reading' = "type"
      /\ node' = Append([node EXCEPT ![Top].child = Len(node) + 1], NewNode)
      /\ tokens' = tokens
  BY DEF StartChild, Reads, NODE_START, NODE_END
<1>2. Top = stack[Len(stack)] /\ Top \in 1..Len(node) /\ node[Top].child = 0
  BY <1>1, InnermostIsLeaf
<1>3. PICK at, cl, up \in [1..Len(node) -> Nat] :
        Lies(node, stack, Read, Len(Read) + MissingEnds, at, cl, up)
  BY DEF PlacedInv, Placed
<1>4. /\ Shaped(node, stack, Read, Len(Read) + MissingEnds, at, cl, up)
      /\ MissingEnds = Len(stack) /\ Len(Read) \in Nat /\ Len(stack) \in Nat
  BY <1>1, StateShaped DEF PlacedInv
<1>5. /\ node \in Seq(OTBNode) /\ tokens \in Seq(Token) /\ Open(0) \in Token
      /\ stack \in Seq(1..Len(node)) /\ Len(node) \in Nat /\ DOMAIN node = 1..Len(node)
  <2>1. 0 \in Byte
    BY DEF Byte
  <2> QED
    BY <2>1, TokenTypes DEF TreeInv, TypeOK
<1>6. /\ Len(node') = Len(node) + 1 /\ node'[Len(node) + 1] = NewNode
      /\ node'[Top] = [node[Top] EXCEPT !.child = Len(node) + 1]
      /\ \A n \in 1..Len(node) : n # Top => node'[n] = node[n]
  <2>1. /\ Len(node') = Len(node) + 1 /\ node'[Len(node) + 1] = NewNode
        /\ \A n \in 1..Len(node) : n # Top => node'[n] = node[n]
    BY <1>1, <1>2, <1>5, Allocated
  <2>2. node'[Top] = [node[Top] EXCEPT !.child = Len(node) + 1]
    BY <1>1, <1>2, <1>5, ChildSet
  <2> QED
    BY <2>1, <2>2
<1>7. Read = tokens /\ Read' = Append(Read, Open(0))
  BY <1>1 DEF Read
<1>8. /\ Len(Read') = Len(Read) + 1 /\ MissingEnds' = MissingEnds + 1
      /\ Len(stack') = Len(stack) + 1 /\ \A i \in 1..Len(stack) : stack'[i] = stack[i]
  <2>1. Len(stack') = Len(stack) + 1 /\ \A i \in 1..Len(stack) : stack'[i] = stack[i]
    <3>1. stack \in Seq(1..Len(node) + 1)
      BY <1>5, StackGrows
    <3> QED
      BY <1>1, <1>5, <3>1
  <2>2. MissingEnds' = Len(stack')
    BY <1>1, <1>4, <2>1 DEF MissingEnds
  <2> QED
    BY <1>4, <1>5, <1>7, <2>1, <2>2
<1>9. Placeable(node', stack', Read', Len(Read) + MissingEnds + 2)
  <2>1. PICK nd, st, R, e, t, nd1, st1 :
          /\ nd = node /\ st = stack /\ R = Read /\ e = Len(Read) + MissingEnds
          /\ t = Top /\ nd1 = node' /\ st1 = stack'
    OBVIOUS
  <2>2. /\ Shaped(nd, st, R, e, at, cl, up) /\ Lies(nd, st, R, e, at, cl, up)
        /\ st # <<>> /\ e = Len(R) + Len(st) /\ t = st[Len(st)] /\ nd[t].child = 0
        /\ More(nd, nd1, t) /\ nd1[t] = [nd[t] EXCEPT !.child = Len(nd) + 1]
        /\ st1 = Append(st, Len(nd) + 1)
    BY <1>1, <1>2, <1>3, <1>4, <1>6, <2>1 DEF More
  <2>3. Placeable(nd1, st1, Append(R, Open(0)), e + 2)
    BY ONLY <2>2, ChildLies
  <2> QED
    BY ONLY <1>7, <2>1, <2>3
<1>10. \E at1, cl1, up1 \in [1..Len(node') -> Nat] : Placed(at1, cl1, up1)'
  <2>1. Len(Read) + MissingEnds + 2 = Len(Read') + MissingEnds'
    BY <1>4, <1>8
  <2> QED
    BY <1>9, <2>1, PlacedNext
<1>11. Nesting'
  <2>1. \A n \in 1..Len(node) : node[n].child # 0 => node'[n].child # 0
    BY <1>2, <1>6
  <2>2. node'[Top].child # 0
    BY <1>1, <1>2, <1>5, ChildSet
  <2>3. \A i \in 1..Len(stack') - 1 : i \in 1..Len(stack) - 1 \/ i = Len(stack)
    BY <1>4, <1>8
  <2>4. \A i \in 1..Len(stack) : stack[i] \in 1..Len(node)
    BY <1>5
  <2>5. \A i \in 1..Len(stack) - 1 : node[stack[i]].child # 0 /\ i \in 1..Len(stack)
    BY <1>4 DEF PlacedInv, Nesting
  <2>6. Len(stack) \in 1..Len(stack)
    BY <1>1, <1>5
  <2>7. \A i \in 1..Len(stack) - 1 : node'[stack'[i]].child # 0
    BY ONLY <1>8, <2>1, <2>4, <2>5
  <2>8. node'[stack'[Len(stack)]].child # 0
    BY ONLY <1>2, <1>8, <2>2, <2>6
  <2>9. \A i \in 1..Len(stack') - 1 : node'[stack'[i]].child # 0
    BY ONLY <2>3, <2>7, <2>8
  <2>10. stack' # <<>>
    BY <1>4, <1>8
  <2> QED
    BY <2>9, <2>10 DEF Nesting
<1>12. 1 <= Len(node')
  BY <1>5, <1>6
<1> QED
  BY <1>10, <1>11, <1>12 DEF PlacedInv

\* A node is allocated as the sibling of the innermost node.
LEMMA StartSiblingPlaced ==
  ASSUME TreeInv, PlacedInv, StartSibling
  PROVE  PlacedInv'
<1>1. /\ stack # <<>> /\ stack' = [stack EXCEPT ![Len(stack)] = Len(node) + 1]
      /\ reading = "end" /\ reading' = "type"
      /\ node' = Append([node EXCEPT ![Top].next = Len(node) + 1], NewNode)
      /\ tokens' = tokens
  BY DEF StartSibling, Reads
<1>2. Top = stack[Len(stack)] /\ Top \in 1..Len(node)
  BY <1>1, TopIsNode DEF TreeInv
<1>3. PICK at, cl, up \in [1..Len(node) -> Nat] :
        Lies(node, stack, Read, Len(Read) + MissingEnds, at, cl, up)
  BY DEF PlacedInv, Placed
<1>4. /\ Shaped(node, stack, Read, Len(Read) + MissingEnds, at, cl, up)
      /\ MissingEnds + 1 = Len(stack) /\ Len(Read) \in Nat /\ Len(stack) \in Nat
  BY <1>1, StateShaped DEF PlacedInv
<1>5. /\ node \in Seq(OTBNode) /\ tokens \in Seq(Token) /\ Open(0) \in Token
      /\ stack \in Seq(1..Len(node)) /\ Len(node) \in Nat /\ DOMAIN node = 1..Len(node)
      /\ MissingEnds \in Nat
  <2>1. 0 \in Byte
    BY DEF Byte
  <2>2. MissingEnds \in Nat
    BY FileTypes DEF TreeInv, PlacedInv
  <2> QED
    BY <2>1, <2>2, TokenTypes DEF TreeInv, TypeOK
<1>6. /\ Len(node') = Len(node) + 1 /\ node'[Len(node) + 1] = NewNode
      /\ node'[Top] = [node[Top] EXCEPT !.next = Len(node) + 1]
      /\ \A n \in 1..Len(node) : n # Top => node'[n] = node[n]
  <2>1. /\ Len(node') = Len(node) + 1 /\ node'[Len(node) + 1] = NewNode
        /\ \A n \in 1..Len(node) : n # Top => node'[n] = node[n]
    BY <1>1, <1>2, <1>5, Allocated
  <2>2. node'[Top] = [node[Top] EXCEPT !.next = Len(node) + 1]
    BY <1>1, <1>2, <1>5, SiblingSet
  <2> QED
    BY <2>1, <2>2
<1>7. Read = tokens /\ Read' = Append(Read, Open(0))
  BY <1>1 DEF Read
<1>8. /\ Len(Read') = Len(Read) + 1 /\ MissingEnds' = MissingEnds + 1
      /\ Len(stack') = Len(stack) /\ \A i \in 1..Len(stack) - 1 : stack'[i] = stack[i]
  <2>1. Len(stack') = Len(stack) /\ \A i \in 1..Len(stack) - 1 : stack'[i] = stack[i]
    <3>1. stack \in Seq(1..Len(node) + 1)
      BY <1>5, StackGrows
    <3> QED
      BY <1>1, <1>4, <1>5, <3>1
  <2>2. MissingEnds' = Len(stack')
    <3>1. Len(stack') \in Nat
      BY <1>4, <2>1
    <3> QED
      BY <1>1, <3>1 DEF MissingEnds
  <2> QED
    BY <1>4, <1>5, <1>7, <2>1, <2>2
<1>9. Placeable(node', stack', Read', Len(Read) + MissingEnds + 2)
  <2>1. PICK nd, st, R, e, t, nd1, st1 :
          /\ nd = node /\ st = stack /\ R = Read /\ e = Len(Read) + MissingEnds
          /\ t = Top /\ nd1 = node' /\ st1 = stack'
    OBVIOUS
  <2>2. e + 1 = Len(R) + Len(st)
    BY <1>4, <1>5, <2>1
  <2>3. /\ Shaped(nd, st, R, e, at, cl, up) /\ Lies(nd, st, R, e, at, cl, up)
        /\ st # <<>> /\ t = st[Len(st)]
        /\ More(nd, nd1, t) /\ nd1[t] = [nd[t] EXCEPT !.next = Len(nd) + 1]
        /\ st1 = [st EXCEPT ![Len(st)] = Len(nd) + 1]
    BY <1>1, <1>2, <1>3, <1>4, <1>6, <2>1 DEF More
  <2>4. Placeable(nd1, st1, Append(R, Open(0)), e + 2)
    BY ONLY <2>2, <2>3, SiblingLies
  <2> QED
    BY ONLY <1>7, <2>1, <2>4
<1>10. \E at1, cl1, up1 \in [1..Len(node') -> Nat] : Placed(at1, cl1, up1)'
  <2>1. Len(Read) + MissingEnds + 2 = Len(Read') + MissingEnds'
    BY <1>4, <1>5, <1>8
  <2> QED
    BY <1>9, <2>1, PlacedNext
<1>11. Nesting'
  <2>1. \A n \in 1..Len(node) : node'[n].child = node[n].child
    BY <1>1, <1>2, <1>5, <1>6, SiblingSet
  <2>2. \A i \in 1..Len(stack) - 1 : stack[i] \in 1..Len(node)
    BY <1>4, <1>5
  <2>3. \A i \in 1..Len(stack) - 1 : node[stack[i]].child # 0
    BY DEF PlacedInv, Nesting
  <2>4. \A i \in 1..Len(stack) - 1 : node'[stack'[i]].child # 0
    BY ONLY <1>8, <2>1, <2>2, <2>3
  <2>5. stack' # <<>>
    <3>1. Len(stack) # 0
      BY <1>1, <1>5
    <3> QED
      BY <1>8, <3>1
  <2> QED
    BY <1>8, <2>4, <2>5 DEF Nesting
<1>12. 1 <= Len(node')
  BY <1>5, <1>6
<1> QED
  BY <1>10, <1>11, <1>12 DEF PlacedInv

\* The NODE_END of the innermost node is read.
LEMMA EndNodePlaced ==
  ASSUME TreeInv, PlacedInv, EndNode
  PROVE  PlacedInv'
<1>1. /\ stack # <<>> /\ reading = "byte" /\ reading' = "end"
      /\ node' = node /\ stack' = stack /\ tokens' = Append(tokens, Close)
  BY DEF EndNode, Reads
<1>2. PICK at, cl, up \in [1..Len(node) -> Nat] :
        Lies(node, stack, Read, Len(Read) + MissingEnds, at, cl, up)
  BY DEF PlacedInv, Placed
<1>3. /\ Shaped(node, stack, Read, Len(Read) + MissingEnds, at, cl, up)
      /\ MissingEnds = Len(stack) /\ Len(Read) \in Nat /\ Len(stack) \in Nat
  BY <1>1, StateShaped DEF PlacedInv
<1>4. tokens \in Seq(Token) /\ Close \in Token
  BY TokenTypes DEF TreeInv, TypeOK
<1>5. Read = tokens /\ Read' = Append(Read, Close) /\ MissingEnds' = Len(stack) - 1
  BY <1>1 DEF Read, MissingEnds
<1>6. Len(Read') + MissingEnds' = Len(Read) + MissingEnds
  <2>1. Len(Read') = Len(Read) + 1
    BY <1>4, <1>5
  <2> QED
    BY <1>3, <1>5, <2>1
<1>7. Placeable(node', stack', Read', Len(Read) + MissingEnds)
  <2>1. PICK nd, st, R, e :
          nd = node /\ st = stack /\ R = Read /\ e = Len(Read) + MissingEnds
    OBVIOUS
  <2>2. Shaped(nd, st, R, e, at, cl, up) /\ Lies(nd, st, R, e, at, cl, up)
    BY <1>2, <1>3, <2>1
  <2>3. Lies(nd, st, Append(R, Close), e, at, cl, up)
    BY ONLY <2>2, EndLies
  <2>4. Placeable(nd, st, Append(R, Close), e)
    BY <2>1, <2>3 DEF Placeable
  <2> QED
    BY ONLY <1>1, <1>5, <2>1, <2>4
<1>8. \E at1, cl1, up1 \in [1..Len(node') -> Nat] : Placed(at1, cl1, up1)'
  BY <1>6, <1>7, PlacedNext
<1> QED
  BY <1>1, <1>8 DEF PlacedInv, Nesting

\* The call of the innermost node returns.
LEMMA ReturnPlaced ==
  ASSUME TreeInv, PlacedInv, Return
  PROVE  PlacedInv'
<1>1. /\ stack # <<>> /\ reading = "end" /\ reading' = "byte"
      /\ node' = node /\ stack' = Front(stack) /\ tokens' = tokens
  BY DEF Return, Reads
<1>2. PICK at, cl, up \in [1..Len(node) -> Nat] :
        Lies(node, stack, Read, Len(Read) + MissingEnds, at, cl, up)
  BY DEF PlacedInv, Placed
<1>3. /\ Shaped(node, stack, Read, Len(Read) + MissingEnds, at, cl, up)
      /\ MissingEnds + 1 = Len(stack) /\ Len(Read) \in Nat /\ Len(stack) \in Nat
  BY <1>1, StateShaped DEF PlacedInv
<1>4. /\ Len(stack') = Len(stack) - 1 /\ Len(stack') \in Nat /\ MissingEnds \in Nat
      /\ \A i \in 1..Len(stack') : stack'[i] = stack[i]
  <2>1. stack \in Seq(1..Len(node))
    BY DEF TreeInv, TypeOK
  <2>2. MissingEnds \in Nat
    BY FileTypes DEF TreeInv, PlacedInv
  <2> QED
    BY <1>1, <2>1, <2>2, FrontIs
<1>5. Read' = Read /\ MissingEnds' = MissingEnds
  <2>1. MissingEnds' = Len(stack')
    BY <1>1, <1>4 DEF MissingEnds
  <2> QED
    BY <1>1, <1>3, <1>4, <2>1 DEF Read
<1>6. Placeable(node', stack', Read', Len(Read) + MissingEnds)
  <2>1. PICK nd, st, R, e, st1 :
          /\ nd = node /\ st = stack /\ R = Read /\ e = Len(Read) + MissingEnds
          /\ st1 = stack'
    OBVIOUS
  <2>2. e + 1 = Len(R) + Len(st) /\ Len(st1) + 1 = Len(st) /\ Len(st1) \in Nat
    BY <1>3, <1>4, <2>1
  <2>3. /\ Shaped(nd, st, R, e, at, cl, up) /\ Lies(nd, st, R, e, at, cl, up)
        /\ \A i \in 1..Len(st1) : st1[i] = st[i]
    BY <1>2, <1>3, <1>4, <2>1
  <2>4. Lies(nd, st1, R, e, at, cl, up)
    BY ONLY <2>2, <2>3, ReturnLies
  <2>5. Placeable(nd, st1, R, e)
    BY <2>1, <2>4 DEF Placeable
  <2> QED
    BY ONLY <1>1, <1>5, <2>1, <2>5
<1>7. \E at1, cl1, up1 \in [1..Len(node') -> Nat] : Placed(at1, cl1, up1)'
  BY <1>5, <1>6, PlacedNext
<1>8. \A i \in 1..Len(stack') - 1 : i \in 1..Len(stack) - 1 /\ i \in 1..Len(stack')
  BY <1>3, <1>4
<1> QED
  BY <1>1, <1>4, <1>7, <1>8 DEF PlacedInv, Nesting

\* At first there is the root, at the first place, and its type is to come.
LEMMA InitPlaced ==
  ASSUME Init
  PROVE  PlacedInv
<1>1. /\ node = <<NewNode>> /\ stack = <<1>> /\ reading = "type" /\ tokens = <<>>
      /\ Len(node) = 1 /\ Len(stack) = 1 /\ stack[1] = 1 /\ node[1] = NewNode
  BY DEF Init
<1>2. MissingEnds = 1
  BY <1>1 DEF MissingEnds
<1>3. Read = <<Open(0)>> /\ Len(Read) = 1 /\ Read[1] = Open(0)
  BY <1>1 DEF Read
<1>4. PICK at, cl, up \in [1..1 -> Nat] : at[1] = 1 /\ cl[1] = 2 /\ up[1] = 3
  <2>1. \A x \in Nat : [m \in 1..1 |-> x] \in [1..1 -> Nat] /\ 1 \in 1..1
    OBVIOUS
  <2>2. /\ [m \in 1..1 |-> 1] \in [1..1 -> Nat] /\ [m \in 1..1 |-> 2] \in [1..1 -> Nat]
        /\ [m \in 1..1 |-> 3] \in [1..1 -> Nat]
    BY <2>1
  <2> QED
    BY ONLY <2>1, <2>2
<1>5. Laid(NewNode, Read, at, cl, up, 1)
  <2>1. /\ NewNode.type = 0 /\ NewNode.child = 0 /\ NewNode.next = 0
        /\ NewNode.props = <<>> /\ Len(NewNode.props) = 0
    BY DEF NewNode
  <2> QED
    BY <1>3, <1>4, <2>1 DEF Laid
<1>6. \A n \in 1..1 : n = 1
  OBVIOUS
<1>7. Lies(node, stack, Read, Len(Read) + MissingEnds, at, cl, up)
  BY <1>1, <1>2, <1>3, <1>4, <1>5, <1>6 DEF Lies
<1>8. Nesting
  BY <1>1 DEF Nesting
<1> QED
  BY <1>1, <1>4, <1>7, <1>8 DEF PlacedInv, Placed

\* For every file and wherever it ends, the tree written out is what was read.
THEOREM TreeIsTheFileAlways == Spec => []TreeIsTheFile
<1>1. Init => PlacedInv
  BY InitPlaced
<1>2. TreeInv /\ PlacedInv /\ [Next]_vars => PlacedInv'
  <2> SUFFICES ASSUME TreeInv, PlacedInv, [Next]_vars PROVE PlacedInv'
    OBVIOUS
  <2>1. ASSUME NEW b \in Alphabet, NodeType(b) \/ AddProp(b) PROVE PlacedInv'
    <3>1. b \in Byte
      BY AlphabetAssumption
    <3> QED
      BY <2>1, <3>1, NodeTypePlaced, AddPropPlaced
  <2>2. CASE StartChild
    BY <2>2, StartChildPlaced
  <2>3. CASE StartSibling
    BY <2>3, StartSiblingPlaced
  <2>4. CASE EndNode
    BY <2>4, EndNodePlaced
  <2>5. CASE Return
    BY <2>5, ReturnPlaced
  <2>6. CASE Escape \/ ParseFails \/ EndOfFile \/ UNCHANGED vars
    <3>1. /\ UNCHANGED <<node, stack, tokens>> /\ Read' = Read /\ MissingEnds' = MissingEnds
          /\ reading' # "byte" => stack # <<>>
      BY <2>6 DEF Escape, Reads, ParseFails, EndOfFile, vars, Read, MissingEnds, PlacedInv, Nesting
    <3>2. PICK at, cl, up \in [1..Len(node) -> Nat] : Placed(at, cl, up)
      BY DEF PlacedInv
    <3>3. Placed(at, cl, up)'
      BY <3>1, <3>2 DEF Placed
    <3>4. Nesting'
      BY <3>1 DEF PlacedInv, Nesting
    <3> QED
      BY <3>1, <3>2, <3>3, <3>4 DEF PlacedInv
  <2> QED
    BY <2>1, <2>2, <2>3, <2>4, <2>5, <2>6 DEF Next
<1>3. TreeInv /\ PlacedInv => TreeIsTheFile
  <2> SUFFICES ASSUME TreeInv, PlacedInv PROVE TreeIsTheFile
    OBVIOUS
  <2>1. PICK at, cl, up \in [1..Len(node) -> Nat] : Placed(at, cl, up)
    BY DEF PlacedInv
  <2>2. TypeOK /\ NodesLinked /\ Nesting /\ Len(node) >= 1
    BY DEF TreeInv, PlacedInv, TypeOK
  <2> QED
    BY ONLY <2>1, <2>2, PlacedIsWritten
<1> QED
  BY <1>1, <1>2, <1>3, Linked, PTL DEF Spec
=============================================================================
