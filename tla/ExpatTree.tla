----------------------------- MODULE ExpatTree -----------------------------
(***************************************************************************)
(* The tree as sd/domnode-expat.c builds it, where the library is built    *)
(* with expat: four handlers, which expat calls for what it reads of a     *)
(* well-formed document until the end or the first error.                  *)
(*                                                                         *)
(* Expat itself is external: it matches the names of the tags, gives the   *)
(* text of an element in pieces of its choice and no text outside of the   *)
(* root, but comments anywhere.  A piece counts by what is left of it when *)
(* the blanks around it are taken off, which may be nothing.               *)
(***************************************************************************)
EXTENDS DomNode

CONSTANTS
  Names, Texts,
  Pieces,       \* of text: records of a text s and its length len
  CDATA,        \* the size of the buffer, 2048
  MaxEvents     \* bound: events of a document

PiecesAssumption == CDATA \in Nat \ {0, 1} /\ \A p \in Pieces : p.len \in Nat

VARIABLES
  cdata,             \* the pieces in the buffer
  wptr,
  elements,          \* the open elements
  forest, root,
  status,            \* "reading", how it ended, or "aborted"
  doc                \* ghost: the events

udata == <<cdata, wptr, elements, forest, root>>
vars  == <<udata, status, doc>>

-----------------------------------------------------------------------------
Reading == status = "reading"
Says(events) == Len(doc) + Len(events) <= MaxEvents /\ doc' = doc \o events

udata_pop_cdata == cdata' = << >> /\ wptr' = 0

Fits(p) == wptr + p.len < CDATA - 1

(* start_handler *)
start_handler(name, atts) ==
  /\ Says(<<Event("open", name, NULL)>>
          \o [j \in DOMAIN atts |-> Event("attr", atts[j][1], atts[j][2])])
  /\ LET child == [domnode(name, NULL) EXCEPT !.attrs = Reverse(atts)]
         made  == Append(forest, child)
         n     == Len(made)
     IN  /\ forest' = IF elements = << >> THEN made ELSE PrependChild(made, Last(elements), n)
         /\ root' = IF elements = << >> THEN n ELSE root
         /\ elements' = Append(elements, n)
  /\ udata_pop_cdata
  /\ UNCHANGED status

\* An element with up to two attributes, which have different names.
Start ==
  /\ Reading
  /\ root = 0 \/ elements # << >>
  /\ \E name \in Names, atts \in {<< >>} \cup {<< <<n, x>> >> : n \in Names, x \in Texts}
                             \cup {<< <<m, x>>, <<n, x>> >> : m, n \in Names, x \in Texts} :
       /\ Len(atts) = 2 => atts[1][1] # atts[2][1]
       /\ start_handler(name, atts)

\* Variant: the text before the end tag stays in the buffer.
EndKeepsText ==
  /\ Reading /\ elements # << >>
  /\ Says(<<Event("close", NULL, NULL)>>)
  /\ elements' = Front(elements)
  /\ UNCHANGED <<cdata, wptr, forest, root, status>>

(* end_handler *)
End ==
  /\ Reading /\ elements # << >>
  /\ Says(<<Event("close", NULL, NULL)>>)
  /\ udata_pop_cdata
  /\ elements' = Front(elements)
  /\ UNCHANGED <<forest, root, status>>

(* cdata_handler: what is left of a piece is added to the buffer if it is   *)
(* anything and fits, and the value becomes a copy of the buffer.           *)
Cdata ==
  /\ Reading /\ elements # << >>
  /\ \E p \in Pieces :
       /\ Says(<<Event("text", p, NULL)>>)
       /\ IF p.len = 0 \/ ~ Fits(p) THEN UNCHANGED <<cdata, wptr, forest>>
          ELSE /\ cdata' = Append(cdata, p)
               /\ wptr' = wptr + p.len
               /\ forest' = [forest EXCEPT ![Last(elements)].value = Append(cdata, p)]
  /\ UNCHANGED <<elements, root, status>>

(* comment_handler, with its assertion *)
CommentHandler ==
  /\ Reading
  /\ \E x \in Texts :
       /\ Says(<<Event("comment", x, NULL)>>)
       /\ IF elements = << >> THEN status' = "aborted" /\ UNCHANGED forest
          ELSE LET made == Append(forest, domnode(Comment, x))
               IN  /\ forest' = PrependChild(made, Last(elements), Len(made))
                   /\ UNCHANGED status
  /\ UNCHANGED <<cdata, wptr, elements, root>>

(* The loop of sd_domnode_fread, or the call in sd_domnode_read, ends: the  *)
(* document was read, or an error of the document, of the file or of memory *)
(* gives up in the middle.                                                  *)
EndOfFile ==
  /\ Reading /\ root # 0 /\ elements = << >>
  /\ status' = "ended"
  /\ UNCHANGED <<udata, doc>>

Fault == Reading /\ status' = "failed" /\ UNCHANGED <<udata, doc>>

Init ==
  /\ cdata = << >> /\ wptr = 0
  /\ elements = << >> /\ forest = << >> /\ root = 0
  /\ status = "reading"
  /\ doc = << >>

Next == Start \/ End \/ Cdata \/ CommentHandler \/ EndOfFile \/ Fault

Spec == Init /\ [][Next]_vars

-----------------------------------------------------------------------------
\* The pieces of text up to event k without a tag in between.
RunTo(k) ==
  Those([i \in DOMAIN doc |-> doc[i].s],
        {i \in 1..k : /\ doc[i].op = "text"
                      /\ \A m \in i..k : doc[m].op \notin {"open", "close"}})

Length(pieces) ==
  LET sum[n \in 0..Len(pieces)] == IF n = 0 THEN 0 ELSE sum[n-1] + pieces[n].len
  IN  sum[Len(pieces)]

\* As far as they fit the buffer.
Fitting(run) ==
  LET kept[n \in 0..Len(run)] ==
        IF n = 0 THEN << >>
        ELSE IF run[n].len = 0 \/ Length(kept[n-1]) + run[n].len + 2 > CDATA THEN kept[n-1]
        ELSE Append(kept[n-1], run[n])
  IN  kept[Len(run)]

ValueOf(j) ==
  LET texts == {k \in DOMAIN doc : /\ doc[k].op = "text" /\ ParentOf(doc, k) = j
                                   /\ Fitting(RunTo(k)) # << >>}
  IN  IF texts = {} THEN NULL ELSE Fitting(RunTo(CHOOSE k \in texts : \A i \in texts : i <= k))

(* At every moment the tree is what has been read of the document, mirrored *)
(* (sd_list_add puts each child and each attribute in front of the others), *)
(* and the value of an element is its last text that fits the buffer; text, *)
(* the buffer's bound and its final zero included, never leaks from one     *)
(* element into another.  The program aborts only for a comment outside of  *)
(* the root.                                                                *)
TreeMirrorsDocument ==
  /\ LET nodes == ForestOf(doc)
         opening == Opening(doc)
     IN  forest = [k \in DOMAIN nodes |->
                     IF nodes[k].name = Comment THEN nodes[k]
                     ELSE [nodes[k] EXCEPT !.children = Reverse(@), !.attrs = Reverse(@),
                                           !.value = ValueOf(opening[k])]]
  /\ wptr < CDATA - 1
  /\ status = "aborted" <=> \E j \in DOMAIN doc : doc[j].op = "comment" /\ ParentOf(doc, j) = 0

(* domnode-expat.c:227: "assert(parent != NULL)". *)
CommentHasParent == status # "aborted"
=============================================================================
