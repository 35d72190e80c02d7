------------------------------ MODULE DomNode ------------------------------
(***************************************************************************)
(* The configuration tree (sd/domnode.c, sd/domnode-xml.c), as operators.  *)
(*                                                                         *)
(* A forest is the sequence of the nodes in the order in which they were   *)
(* made, so that a node is a number and its children have larger ones.  An *)
(* attribute, which in the code is a node without lists, is a pair.        *)
(* Documents, against which the two parsers and the writer are compared,   *)
(* are sequences of events: an element opens, has an attribute, closes, a  *)
(* text, a comment, or nothing.  What a scanner makes of the blanks in a   *)
(* written document is not said here.                                      *)
(***************************************************************************)
EXTENDS Integers, Sequences, FiniteSets, SequencesExt

CONSTANTS NULL, Comment     \* no text; the name "#comment"

(* __sd_domnode_new *)
domnode(name, value) == [name |-> name, value |-> value, children |-> << >>, attrs |-> << >>]

(* What sd_list_append and sd_list_add of a new child do to the forest.     *)
PrependChild(f, p, c) == [f EXCEPT ![p].children = <<c>> \o @]
AppendChild(f, p, c)  == [f EXCEPT ![p].children = Append(@, c)]

First(P) == CHOOSE j \in P : \A i \in P : j <= i

(* sd_domnode_attrs_get: the first attribute of the name *)
AttrsGet(node, name) ==
  LET named == {j \in DOMAIN node.attrs : node.attrs[j][1] = name}
  IN  IF named = {} THEN NULL ELSE node.attrs[First(named)][2]

(* sd_domnode_search below node n: the children, then the attributes, then  *)
(* what the children find.  A node is found as <<its number>>, an attribute *)
(* as its pair, and NULL is << >>.                                          *)
Search(f, n, name) ==
  LET found[m \in 0..Len(f)] ==
        LET node  == f[Len(f) - m]
            own   == {j \in DOMAIN node.children : f[node.children[j]].name = name}
            attrs == {j \in DOMAIN node.attrs : node.attrs[j][1] = name}
            deep  == {j \in DOMAIN node.children : found[Len(f) - node.children[j]] # << >>}
        IN  IF m = Len(f) THEN << >>
            ELSE IF own # {} THEN <<node.children[First(own)]>>
            ELSE IF attrs # {} THEN node.attrs[First(attrs)]
            ELSE IF deep # {} THEN found[Len(f) - node.children[First(deep)]] ELSE << >>
  IN  found[Len(f) - n]

-----------------------------------------------------------------------------
Event(op, s, v) == [op |-> op, s |-> s, v |-> v]

(* The forest with the blanks that xml_fwrite puts around a value: "<!-- %s *)
(* -->" for a comment, a line of its own for a text.                        *)
Spaced(f) ==
  [k \in DOMAIN f |->
     [f[k] EXCEPT !.value = IF f[k].name = Comment THEN <<" ", @, " ">>
                            ELSE IF @ = NULL THEN NULL ELSE <<"\n", @, "\n">>]]

(* The document of node n: the attributes, the value, the children, and the *)
(* name again or a slash.                                                   *)
DocumentOf(f, n) ==
  LET text[m \in 0..Len(f)] ==
        LET k == Len(f) - m
            node == f[k]
        IN  IF k = 0 THEN << >>
            ELSE IF node.name = Comment THEN <<Event("comment", node.value, NULL)>>
            ELSE <<Event("open", node.name, NULL)>>
                 \o [j \in DOMAIN node.attrs |-> Event("attr", node.attrs[j][1], node.attrs[j][2])]
                 \o (IF node.value = NULL THEN << >> ELSE <<Event("text", node.value, NULL)>>)
                 \o FlattenSeq([j \in DOMAIN node.children |-> text[Len(f) - node.children[j]]])
                 \o <<Event("close", node.name, NULL)>>
  IN  text[Len(f) - n]

xml_fwrite(f, n) == DocumentOf(Spaced(f), n)

-----------------------------------------------------------------------------
\* The document read as a tree, without a stack.
Count(doc, i, j, op) == Cardinality({k \in i..j : doc[k].op = op})

\* The event that opened the element in which event j is, or 0.
ParentOf(doc, j) ==
  LET around == {i \in 1..j-1 : /\ doc[i].op = "open"
                                /\ \A k \in i+1..j-1 :
                                     Count(doc, i, k, "close") < Count(doc, i, k, "open")}
  IN  IF around = {} THEN 0 ELSE CHOOSE i \in around : \A k \in around : k <= i

\* The numbers of S from 1 to n, in their order.
InOrder(S, n) ==
  LET upto[k \in 0..n] ==
        IF k = 0 THEN << >> ELSE IF k \in S THEN Append(upto[k-1], k) ELSE upto[k-1]
  IN  upto[n]

\* Of the elements of s, those at the places P.
Those(s, P) == LET at == InOrder(P, Len(s)) IN [k \in DOMAIN at |-> s[at[k]]]

\* The forest of the document: a node for each element and for each comment
\* inside of one, in their order.
Opening(doc) ==
  InOrder({j \in DOMAIN doc : \/ doc[j].op = "open"
                              \/ doc[j].op = "comment" /\ ParentOf(doc, j) # 0}, Len(doc))

Inside(doc, j, op) ==
  InOrder({k \in DOMAIN doc : doc[k].op = op /\ ParentOf(doc, k) = j}, Len(doc))

ForestOf(doc) ==
  LET at == Opening(doc)
      Node(j) ==
        LET texts == Inside(doc, j, "text")
            attrs == Inside(doc, j, "attr")
        IN  [name     |-> doc[j].s,
             value    |-> IF texts = << >> THEN NULL ELSE doc[Last(texts)].s,
             children |-> InOrder({k \in DOMAIN at : ParentOf(doc, at[k]) = j}, Len(at)),
             attrs    |-> [k \in DOMAIN attrs |-> <<doc[attrs[k]].s, doc[attrs[k]].v>>]]
  IN  [k \in DOMAIN at |-> IF doc[at[k]].op = "comment" THEN domnode(Comment, doc[at[k]].s)
                           ELSE Node(at[k])]

\* The children of a node of forest f that are elements.
Elements(f, node) ==
  Those(node.children, {j \in DOMAIN node.children : f[node.children[j]].name # Comment})
=============================================================================
