----------------------------- MODULE ConfigTree -----------------------------
(***************************************************************************)
(* From a file to the settings: sd_domnode_load with the parser the        *)
(* library was built with, and log4c_rc_load, which hands the children of  *)
(* the root to the functions that load a category, an appender and so on   *)
(* (Lifecycle and Instances say what these do).                            *)
(***************************************************************************)
EXTENDS Integers, Sequences, SequencesExt

CONSTANTS
  NULL, Comment, Names, Texts, Empty,
  Root, Version,      \* the names "log4c" and "version"
  VERSION,            \* the value of the latter that this library takes
  YYINITDEPTH, YYMAXDEPTH, MaxTokens,
  Pieces, CDATA, MaxEvents

VARIABLES
  builder,            \* domnode.c with the generated parser, or domnode-expat.c
  outcome,            \* of log4c_rc_load
  handed,             \* the elements it gave to the loading functions
  yy_start, yyss, yyvs, yystacksize, yychar, yyelements, yyforest, yyroot, yyresult, read,
  cdata, wptr, elements, forest, root, status, doc

B == INSTANCE XmlParser WITH elements <- yyelements, forest <- yyforest, root <- yyroot
X == INSTANCE ExpatTree

ASSUME BuildersAssumption == B!DepthAssumption /\ X!PiecesAssumption /\ Comment \notin Names

load  == <<outcome, handed>>
bison == <<yy_start, yyss, yyvs, yystacksize, yychar, yyelements, yyforest, yyroot, yyresult, read>>
expat == <<cdata, wptr, elements, forest, root, status, doc>>
vars  == <<builder, load, bison, expat>>

-----------------------------------------------------------------------------
(* sd_domnode_load: what it returns, and the tree that is installed in the  *)
(* node, if any.  The generated parser installs the tree of a document that *)
(* it accepted; with expat, 0 is returned whatever happened, and a tree of  *)
(* what had been read is installed.                                         *)
Loaded(ret, f, n) == [ret |-> ret, forest |-> f, root |-> n]

\* Variant: the tree is installed whether or not the document was accepted.
InstallAnyway ==
  IF builder = "bison" THEN Loaded(0, yyforest, yyroot) ELSE Loaded(0, forest, root)

sd_domnode_load ==
  IF builder = "bison"
  THEN IF yyresult = 0 THEN Loaded(0, yyforest, yyroot) ELSE Loaded(-1, << >>, 0)
  ELSE Loaded(0, forest, root)

BuilderDone ==
  IF builder = "bison" THEN yyresult # -1 ELSE status \in {"ended", "failed"}

(* log4c_rc_load.  Without a tree the name of the root is NULL, which       *)
(* strcmp must not be given.                                                *)
Refuse    == outcome' = "refused" /\ UNCHANGED handed
Undefined == outcome' = "undefined" /\ UNCHANGED handed
HandOver(f, node) ==
  /\ outcome' = "loaded"
  /\ handed' = B!Elements(f, node)

log4c_rc_load ==
  /\ outcome = "none" /\ BuilderDone
  /\ LET d == sd_domnode_load
         node == d.forest[d.root]
         version == B!AttrsGet(node, Version)
     IN  IF d.ret = -1 THEN Refuse
         ELSE IF d.root = 0 THEN Undefined
         ELSE IF node.name # Root THEN Refuse
         ELSE IF version \notin {NULL, VERSION} THEN Refuse
         ELSE HandOver(d.forest, node)
  /\ UNCHANGED <<builder, bison, expat>>

(* fopen fails. *)
NoFile ==
  /\ outcome = "none" /\ read = << >> /\ doc = << >> /\ status = "reading"
  /\ Refuse
  /\ UNCHANGED <<builder, bison, expat>>

Init ==
  /\ builder \in {"bison", "expat"}
  /\ outcome = "none" /\ handed = << >>
  /\ B!Init /\ X!Init

Parse == builder = "bison" /\ outcome = "none" /\ B!Next /\ UNCHANGED <<builder, load, expat>>
Build == builder = "expat" /\ outcome = "none" /\ X!Next /\ UNCHANGED <<builder, load, bison>>

Next == Parse \/ Build \/ log4c_rc_load \/ NoFile

Spec == Init /\ [][Next]_vars

-----------------------------------------------------------------------------
\* The properties of the two builders, stated in their modules.
AcceptsGrammar      == builder = "bison" => B!AcceptsGrammar
TreeIsDocument      == builder = "bison" => B!TreeIsDocument
TreeMirrorsDocument == builder = "expat" => X!TreeMirrorsDocument
CommentHasParent    == X!CommentHasParent

\* The elements directly below the root, in their order in the document.
Below(d) == LET f == B!ForestOf(d) IN B!Elements(f, f[1])

(* With the generated parser a configuration is loaded whole and in its     *)
(* order, or not at all.  With expat it is loaded backwards, a file that    *)
(* breaks off or cannot be read to its end is loaded as far as it went, and *)
(* one that breaks off before its first element leaves a NULL name behind.  *)
LoadsWhatWasRead ==
  /\ outcome = "loaded" =>
       handed = IF builder = "bison" THEN Below(B!Doc) ELSE Reverse(Below(doc))
  /\ outcome = "loaded" /\ builder = "bison" => B!Mode = "accepted" /\ B!NamesMatch
  /\ outcome = "undefined" <=>
       /\ outcome # "none" /\ builder = "expat" /\ status = "failed"
       /\ \A j \in DOMAIN doc : doc[j].op # "open"
=============================================================================
