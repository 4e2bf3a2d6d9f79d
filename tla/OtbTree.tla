-------------------------------- MODULE OtbTree --------------------------------
(***************************************************************************)
(* How OTBNode.parse (otb/otb.go) builds a tree of nodes from the bytes of *)
(* an items.otb or an OTBM file.  Each call of parse reads a chain of      *)
(* siblings, and calls itself for the children of each; a NODE_END is      *)
(* followed by the sibling's NODE_START, or by the parent's NODE_END, which *)
(* is put back for the caller.  A file may end anywhere.                   *)
(*                                                                         *)
(* The file is chosen byte by byte as it is read.  Nodes are numbered as   *)
(* they are allocated, and 0 is nil.                                       *)
(***************************************************************************)
EXTENDS Naturals, Sequences, SequencesExt

CONSTANTS
  Alphabet,   \* the bytes that occur in the file
  MaxTokens   \* bound: bytes with a meaning that are read

Byte == 0..255
ESCAPE_CHAR == 253
NODE_START == 254
NODE_END == 255
Special == {ESCAPE_CHAR, NODE_START, NODE_END}

ASSUME AlphabetAssumption == Alphabet \subseteq Byte
ASSUME BoundAssumption == MaxTokens \in Nat

VARIABLES
  node,     \* the nodes allocated, each an OTBNode
  stack,    \* the current node of each call of parse that has not returned
  reading,  \* what the innermost call reads next
  unread,   \* the last byte, a NODE_END, has been put back
  ended,    \* "no", "eof": nothing was left to read, or "error"
  tokens    \* history: what the bytes read so far mean

vars == <<node, stack, reading, unread, ended, tokens>>

NewNode == [type |-> 0, props |-> <<>>, child |-> 0, next |-> 0]

\* The meaning of the bytes, whatever tree is built from them.
Open(b)  == [tag |-> "open", byte |-> b]
Prop(b)  == [tag |-> "prop", byte |-> b]
Close    == [tag |-> "close", byte |-> NODE_END]

Top == Last(stack)

\* NewOTB has read the version and the NODE_START of the root.
Init ==
  /\ node = <<NewNode>>
  /\ stack = <<1>>
  /\ reading = "type"
  /\ unread = FALSE
  /\ ended = "no"
  /\ tokens = <<>>

-----------------------------------------------------------------------------

\* The next byte is b: the one that was put back, or the next of the file.
Reads(b) ==
  /\ ended = "no"
  /\ stack # <<>>
  /\ b \in Alphabet
  /\ unread => b = NODE_END
  /\ unread \/ Len(tokens) < MaxTokens
  /\ UNCHANGED ended

\* The byte after a NODE_START, taken as it is.
NodeType(b) ==
  /\ reading = "type"
  /\ Reads(b)
  /\ node' = [node EXCEPT ![Top].type = b]
  /\ reading' = "byte"
  /\ tokens' = Append(tokens, Open(b))
  /\ UNCHANGED <<stack, unread>>

\* Faulty: the property is given to the first node of the chain.
AddPropToRoot(b) ==
  /\ \/ reading = "byte" /\ b \notin Special
     \/ reading = "escaped"
  /\ Reads(b)
  /\ node' = [node EXCEPT ![Head(stack)].props = Append(@, b)]
  /\ reading' = "byte"
  /\ tokens' = Append(tokens, Prop(b))
  /\ UNCHANGED <<stack, unread>>

\* A byte of properties, one without a special meaning or an escaped one.
AddProp(b) ==
  /\ \/ reading = "byte" /\ b \notin Special
     \/ reading = "escaped"
  /\ Reads(b)
  /\ node' = [node EXCEPT ![Top].props = Append(@, b)]
  /\ reading' = "byte"
  /\ tokens' = Append(tokens, Prop(b))
  /\ UNCHANGED <<stack, unread>>

Escape ==
  /\ reading = "byte"
  /\ Reads(ESCAPE_CHAR)
  /\ reading' = "escaped"
  /\ UNCHANGED <<node, stack, unread, tokens>>

\* NODE_START: parse calls itself for the first child.
StartChild ==
  /\ reading = "byte"
  /\ Reads(NODE_START)
  /\ node' = Append([node EXCEPT ![Top].child = Len(node) + 1], NewNode)
  /\ stack' = Append(stack, Len(node) + 1)
  /\ reading' = "type"
  /\ UNCHANGED <<unread, tokens>>

\* NODE_END: what follows decides.
EndNode ==
  /\ reading = "byte"
  /\ Reads(NODE_END)
  /\ reading' = "end"
  /\ unread' = FALSE
  /\ tokens' = Append(tokens, Close)
  /\ UNCHANGED <<node, stack>>

\* NODE_END, NODE_START: the same call goes on with the next sibling.
StartSibling ==
  /\ reading = "end"
  /\ Reads(NODE_START)
  /\ node' = Append([node EXCEPT ![Top].next = Len(node) + 1], NewNode)
  /\ stack' = [stack EXCEPT ![Len(stack)] = Len(node) + 1]
  /\ reading' = "type"
  /\ UNCHANGED <<unread, tokens>>

\* Faulty: the second NODE_END is not put back.
ReturnUnsought ==
  /\ reading = "end"
  /\ Reads(NODE_END)
  /\ stack' = Front(stack)
  /\ reading' = "byte"
  /\ UNCHANGED <<node, unread, tokens>>

\* NODE_END, NODE_END: the second is put back, and parse returns to the call
\* for the parent, or to NewOTB, which reads no further.
Return ==
  /\ reading = "end"
  /\ Reads(NODE_END)
  /\ unread' = TRUE
  /\ stack' = Front(stack)
  /\ reading' = "byte"
  /\ UNCHANGED <<node, tokens>>

\* Anything but a NODE_START or a NODE_END after a NODE_END, an escape character
\* with nothing after it, a type that cannot be read: no call survives that.
ParseFails ==
  /\ ended = "no"
  /\ stack # <<>>
  /\ reading # "byte"
  /\ ended' = "error"
  /\ UNCHANGED <<node, stack, reading, unread, tokens>>

\* The file ends, or a byte cannot be read: parse returns without an error, at
\* every depth.
EndOfFile ==
  /\ ended = "no"
  /\ stack # <<>>
  /\ ~unread
  /\ reading # "escaped"
  /\ ended' = "eof"
  /\ UNCHANGED <<node, stack, reading, unread, tokens>>

Next ==
  \/ \E b \in Alphabet : NodeType(b) \/ AddProp(b)
  \/ Escape \/ StartChild \/ EndNode \/ StartSibling \/ Return
  \/ ParseFails \/ EndOfFile

Spec == Init /\ [][Next]_vars

-----------------------------------------------------------------------------
(* Properties.                                                             *)

Token == [tag : {"open", "prop", "close"}, byte : Byte]
OTBNode == [type : Byte, props : Seq(Byte), child : Nat, next : Nat]

TypeOK ==
  /\ node \in Seq(OTBNode)
  /\ stack \in Seq(DOMAIN node)
  /\ reading \in {"type", "byte", "escaped", "end"}
  /\ unread \in BOOLEAN
  /\ ended \in {"no", "eof", "error"}
  /\ tokens \in Seq(Token)

\* n is where the tree has m: as the first child or as the next sibling of n.
Links(n, m) == m \in {node[n].child, node[n].next}

\* Every node that was read is in the tree, and once: each but the root is the
\* child or the next sibling of exactly one node, allocated before it, so that
\* readers who follow ChildNode and NextNode (otb/otb.go:122-132) come to an
\* end and miss nothing.
NodesLinked ==
  /\ \A m \in 2..Len(node) : \E n \in 1..m - 1 : Links(n, m)
  /\ \A n, k \in 1..Len(node), m \in 1..Len(node) :
       Links(n, m) /\ Links(k, m) => n = k
  /\ \A n \in 1..Len(node) :
       /\ node[n].child \in 0..Len(node) /\ node[n].next \in 0..Len(node)
       /\ node[n].child = node[n].next => node[n].child = 0
       /\ \A m \in 1..Len(node) : Links(n, m) => n < m

\* What a writer of the format would write for the chain that starts at n.
Written ==
  LET written[n \in 0..Len(node)] ==
        IF n = 0 THEN <<>>
        ELSE <<Open(node[n].type)>>
             \o [i \in 1..Len(node[n].props) |-> Prop(node[n].props[i])]
             \o written[node[n].child] \o <<Close>> \o written[node[n].next]
  IN  written[1]

\* The NODE_ENDs missing for the nodes that are being read.
MissingEnds == Len(stack) - (IF reading = "end" THEN 1 ELSE 0)

\* The tree says what the bytes said, no more and no less: written out again
\* it is what was read so far, its types, its properties and its nesting, plus
\* the ends of the nodes still open, wherever the file stops
\* (otb/otb.go:143-227).
TreeIsTheFile ==
  Written = tokens \o (IF reading = "type" THEN <<Open(0)>> ELSE <<>>)
                   \o [i \in 1..MissingEnds |-> Close]

-----------------------------------------------------------------------------
(* The inductive invariant behind NodesLinked.                             *)

\* Nobody's child or sibling is overwritten: a current node has no sibling yet,
\* and the innermost has no child either, unless all that is left to read of it
\* is the NODE_END that its last child has put back.
StackInv ==
  /\ \A i \in 1..Len(stack) : node[stack[i]].next = 0
  /\ \A i, j \in 1..Len(stack) : i < j => stack[i] < stack[j]
  /\ unread => reading = "byte"
  /\ stack # <<>> /\ ~unread /\ reading # "end" => node[Top].child = 0

TreeInv == TypeOK /\ NodesLinked /\ StackInv
=============================================================================
