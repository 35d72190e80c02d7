----------------------------- MODULE XmlParser -----------------------------
(***************************************************************************)
(* The parser that bison made from domnode-xml-parser.y, with its tables,  *)
(* its stacks and the actions that build the tree, as domnode-xml.c calls  *)
(* it.  Each turn of its loop is a step: a token is read, shifted, or a    *)
(* rule is reduced.  The stack of open elements is a sequence, as Stack    *)
(* implements one.                                                         *)
(***************************************************************************)
EXTENDS DomNode

CONSTANTS
  Names, Texts,             \* in the tokens; a text counts as its place in the file
  Empty,                    \* the value "" of an attribute without one
  YYINITDEPTH, YYMAXDEPTH,  \* 200 and 10000
  MaxTokens                 \* bound: tokens of a document

DepthAssumption ==
  YYINITDEPTH \in Nat /\ YYMAXDEPTH \in Nat /\ 1 < YYINITDEPTH /\ YYINITDEPTH <= YYMAXDEPTH

\* Tokens by their internal numbers, which yytranslate gives.
EOF      == 0
YYTERROR == 1
ENDDEF   == 3
EQ       == 4
SLASH    == 5
CLOSE    == 6
END      == 7
NAME     == 8
VALUE    == 9
DATA     == 10
COMMENT  == 11
START    == 12

Token(k, s) == [k |-> k, s |-> s]
YYEMPTY == Token(-2, NULL)

VARIABLES
  yy_start,             \* the start condition of the scanner
  yyss, yyvs,           \* the stacks of states and of values, up to their tops
  yystacksize,
  yychar,               \* the token that was read and not shifted
  elements, forest,     \* the maker: open elements, and all nodes that were made
  root,
  yyresult,             \* what yyparse returned, or -1
  read                  \* ghost: the tokens that were read

stacks == <<yyss, yyvs, yystacksize>>
maker  == <<elements, forest, root>>
vars   == <<yy_start, stacks, yychar, maker, yyresult, read>>

-----------------------------------------------------------------------------
YYFINAL  == 27
YYFLAG   == -32768
YYNTBASE == 13
YYLAST   == 24

At(t, j) == t[j+1]

yyr1 == << 0, 13, 14, 14, 15, 17, 16, 18, 18, 19, 19, 19, 19, 20, 21, 21, 22, 22 >>
yyr2 == << 0, 3, 2, 0, 1, 0, 4, 2, 5, 2, 2, 2, 0, 1, 2, 0, 1, 3 >>
yydefact == << 3, 0, 4, 5, 2, 3, 15, 1, 0, 0, 12, 16, 6, 14, 7, 0, 0, 0, 9, 11, 10, 17, 13, 0,
               8, 0, 0, 0 >>
yydefgoto == << 25, 1, 4, 5, 6, 12, 15, 23, 8, 13 >>
yypact == << YYFLAG, -10, YYFLAG, YYFLAG, YYFLAG, YYFLAG, YYFLAG, -3, 1, 4, YYFLAG, 7, YYFLAG,
             YYFLAG, YYFLAG, -7, 3, 5, YYFLAG, YYFLAG, YYFLAG, YYFLAG, YYFLAG, 8, YYFLAG, 15,
             16, YYFLAG >>
yypgoto == << YYFLAG, 12, 6, 9, YYFLAG, YYFLAG, YYFLAG, YYFLAG, YYFLAG, YYFLAG >>
yytable == << 17, 2, 3, 18, 2, 3, 9, 10, 2, 11, 14, 16, 21, 22, 24, 26, 27, 7, 0, 0, 0, 19, 0,
              0, 20 >>
yycheck == << 7, 11, 12, 10, 11, 12, 5, 6, 11, 8, 6, 4, 9, 8, 6, 0, 0, 5, -1, -1, -1, 15, -1,
              -1, 15 >>

\* The entry of yytable at n if yycheck allows it, or the default.
Entry(n, check, default) ==
  IF n >= 0 /\ n <= YYLAST /\ At(yycheck, n) = check THEN At(yytable, n) ELSE default

yystate == Last(yyss)
Parsing == yyresult = -1

\* What to do in the state: shift to n, or reduce by rule n, 0 for an error.
Consults == At(yypact, yystate) # YYFLAG
ToShift  == IF Consults THEN Entry(At(yypact, yystate) + yychar.k, yychar.k, 0) ELSE 0
ToReduce == At(yydefact, yystate)
Decided  == Consults => yychar # YYEMPTY

-----------------------------------------------------------------------------
\* The tokens the scanner can give: those of a tag in one start condition,
\* text in the other, and the beginning of a tag or a comment in both.
YYLEX ==
  {Token(START, n) : n \in Names} \cup {Token(COMMENT, x) : x \in Texts}
  \cup {Token(END, NULL), Token(EOF, NULL)}
  \cup IF yy_start = "CONTENT" THEN {Token(DATA, Len(read))}
       ELSE {Token(NAME, n) : n \in Names} \cup {Token(VALUE, x) : x \in Texts}
            \cup {Token(k, NULL) : k \in {SLASH, EQ, CLOSE, ENDDEF}}

ReadToken ==
  /\ Parsing /\ ~ Decided
  /\ \E t \in YYLEX :
       /\ Len(read) >= MaxTokens => t.k = EOF
       /\ yychar' = t
       /\ read' = Append(read, t)
       /\ yy_start' = CASE t.k \in {START, END} -> "INITIAL"
                        [] t.k = CLOSE -> "CONTENT"
                        [] OTHER -> yy_start
  /\ UNCHANGED <<stacks, maker, yyresult>>

\* yynewstate: a state is pushed, and the arrays are doubled when they are
\* full, unless they are as large as they may be.
PushState(ss, state) ==
  LET larger == IF 2 * yystacksize > YYMAXDEPTH THEN YYMAXDEPTH ELSE 2 * yystacksize
      full   == Len(ss) + 1 >= yystacksize
  IN  /\ yyss' = Append(ss, state)
      /\ yystacksize' = IF full /\ yystacksize < YYMAXDEPTH THEN larger ELSE yystacksize
      /\ yyresult' = IF ~ full THEN yyresult
                     ELSE IF yystacksize >= YYMAXDEPTH THEN 2
                     ELSE IF Len(ss) + 1 >= larger THEN 1 ELSE yyresult

Shift ==
  /\ Parsing /\ Decided /\ ToShift # 0 /\ ToShift # YYFINAL
  /\ yyvs' = Append(yyvs, yychar.s)
  /\ PushState(yyss, ToShift)
  /\ yychar' = IF yychar.k = EOF THEN yychar ELSE YYEMPTY
  /\ UNCHANGED <<yy_start, maker, read>>

Accept ==
  /\ Parsing /\ Decided /\ ToShift = YYFINAL
  /\ yyresult' = 0
  /\ UNCHANGED <<yy_start, stacks, yychar, maker, read>>

(* No state takes the error token, so that all are popped, and yyparse      *)
(* returns 1.                                                               *)
Abort ==
  /\ \A j \in DOMAIN yyss : Entry(At(yypact, yyss[j]) + YYTERROR, YYTERROR, 0) = 0
  /\ yyresult' = 1
  /\ yyss' = <<Head(yyss)>> /\ yyvs' = <<Head(yyvs)>>
  /\ UNCHANGED <<yy_start, yystacksize, yychar, maker, read>>

SyntaxError == Parsing /\ Decided /\ ToShift = 0 /\ ToReduce = 0 /\ Abort

-----------------------------------------------------------------------------
\* The actions of the rules.  The value of the symbol that is j below the top:
Val(j) == yyvs[Len(yyvs) - j]
Node == Last(elements)
AssertNode == elements # << >>

\* Reduced by rule n, whose action made the forest f.
Reduce(n, f, open, value) ==
  LET len == At(yyr2, n)
      ss  == SubSeq(yyss, 1, Len(yyss) - len)
      sym == At(yyr1, n) - YYNTBASE
  IN  /\ PushState(ss, Entry(At(yypgoto, sym) + Last(ss), Last(ss), At(yydefgoto, sym)))
      /\ yyvs' = Append(SubSeq(yyvs, 1, Len(yyvs) - len), value)
      /\ forest' = f /\ elements' = open
      /\ UNCHANGED <<yy_start, yychar, read>>

Reducing(n) == Parsing /\ Decided /\ ToShift = 0 /\ ToReduce = n

(* comment: COMMENT, a child of the open element if there is one *)
ReduceComment ==
  /\ Reducing(4)
  /\ LET made == Append(forest, domnode(Comment, Val(0)))
     IN  Reduce(4, IF AssertNode THEN AppendChild(made, Node, Len(made)) ELSE forest,
                elements, Val(0))
  /\ UNCHANGED root

(* element: START, after which the node is made and opened *)
ReduceStart ==
  /\ Reducing(5)
  /\ LET made == Append(forest, domnode(Val(0), NULL))
         n    == Len(made)
     IN  /\ Reduce(5, IF AssertNode THEN AppendChild(made, Node, n) ELSE made,
                   Append(elements, n), NULL)
         /\ root' = IF AssertNode THEN root ELSE n

(* empty_or_content: SLASH CLOSE *)
ReduceEmpty ==
  /\ Reducing(7) /\ AssertNode
  /\ Reduce(7, forest, Front(elements), Val(1))
  /\ UNCHANGED root

\* Variant: any name closes the element.
ReduceEndAnyName ==
  /\ Reducing(8) /\ AssertNode
  /\ Reduce(8, forest, Front(elements), Val(4))
  /\ UNCHANGED root

(* empty_or_content: CLOSE content END name CLOSE, with the name it began   *)
(* with                                                                     *)
ReduceEnd ==
  /\ Reducing(8) /\ AssertNode
  /\ IF forest[Node].name = Val(1)
     THEN Reduce(8, forest, Front(elements), Val(4)) /\ UNCHANGED root
     ELSE Abort

(* content: content DATA, the value of the node from now on *)
ReduceData ==
  /\ Reducing(9) /\ AssertNode
  /\ Reduce(9, [forest EXCEPT ![Node].value = Val(0)], elements, Val(1))
  /\ UNCHANGED root

(* attribute: NAME, and NAME EQ VALUE *)
domnode_attribute(name, value) == [forest EXCEPT ![Node].attrs = Append(@, <<name, value>>)]

ReduceAttribute ==
  /\ AssertNode
  /\ \/ Reducing(16) /\ Reduce(16, domnode_attribute(Val(0), Empty), elements, Val(0))
     \/ Reducing(17) /\ Reduce(17, domnode_attribute(Val(2), Val(0)), elements, Val(2))
  /\ UNCHANGED root

(* The rules without an action of their own, and name: NAME *)
ReduceOther ==
  /\ \E n \in {1, 2, 3, 6, 10, 11, 12, 13, 14, 15} :
       /\ Reducing(n)
       /\ Reduce(n, forest, elements, IF At(yyr2, n) = 0 THEN NULL ELSE Val(At(yyr2, n) - 1))
  /\ UNCHANGED root

-----------------------------------------------------------------------------
Init ==
  /\ yy_start = "INITIAL"
  /\ yyss = <<0>> /\ yyvs = <<NULL>> /\ yystacksize = YYINITDEPTH
  /\ yychar = YYEMPTY
  /\ elements = << >> /\ forest = << >> /\ root = 0
  /\ yyresult = -1
  /\ read = << >>

Next == \/ ReadToken \/ Shift \/ Accept \/ SyntaxError
        \/ ReduceComment \/ ReduceStart \/ ReduceEmpty \/ ReduceEnd \/ ReduceData
        \/ ReduceAttribute \/ ReduceOther

Spec == Init /\ [][Next]_vars

-----------------------------------------------------------------------------
\* What the grammar of domnode-xml-parser.y says, as an automaton that counts
\* the open elements instead of the tables: between the tokens the document
\* is in a mode, and a token that no mode takes is an error.
Follows ==
  {<<"before", COMMENT, "before">>, <<"before", START, "tag">>,
   <<"tag", NAME, "attr">>, <<"tag", SLASH, "slash">>, <<"tag", CLOSE, "content">>,
   <<"attr", EQ, "eq">>, <<"eq", VALUE, "tag">>,
   <<"attr", NAME, "attr">>, <<"attr", SLASH, "slash">>, <<"attr", CLOSE, "content">>,
   <<"content", DATA, "content">>, <<"content", COMMENT, "content">>,
   <<"content", START, "tag">>, <<"content", END, "end">>,
   <<"end", NAME, "name">>, <<"name", CLOSE, "closed">>, <<"slash", CLOSE, "closed">>,
   <<"after", COMMENT, "after">>, <<"after", EOF, "accepted">>}

TakeToken(m, t) ==
  LET to == {f[3] : f \in {g \in Follows : g[1] = m.mode /\ g[2] = t.k}}
      depth == m.depth + (IF t.k = START THEN 1 ELSE IF to = {"closed"} THEN -1 ELSE 0)
  IN  [mode  |-> IF to = {} THEN "error"
                 ELSE IF to = {"closed"} THEN (IF depth = 0 THEN "after" ELSE "content")
                 ELSE CHOOSE x \in to : TRUE,
       depth |-> depth]

\* The mode after each number of tokens.
ModesOf(tokens) ==
  LET mode[n \in 0..Len(tokens)] ==
        IF n = 0 THEN [mode |-> "before", depth |-> 0] ELSE TakeToken(mode[n-1], tokens[n])
  IN  mode

Mode == ModesOf(read)[Len(read)].mode

\* The tokens as events: a name in a tag is an attribute, and the end of a
\* tag closes the element after a slash or after a closing name.
Doc ==
  [j \in DOMAIN read |->
     LET t == read[j]
         Before(n) == IF j > n THEN read[j-n].k ELSE YYEMPTY.k
     IN  CASE t.k = START   -> Event("open", t.s, NULL)
           [] t.k = COMMENT -> Event("comment", t.s, NULL)
           [] t.k = DATA    -> Event("text", t.s, NULL)
           [] t.k = NAME    -> IF Before(1) = END THEN Event("none", NULL, NULL)
                               ELSE Event("attr", t.s, IF j + 2 <= Len(read) /\ read[j+1].k = EQ
                                                       THEN read[j+2].s ELSE Empty)
           [] t.k = CLOSE   -> Event(IF Before(1) = SLASH \/ Before(2) = END THEN "close"
                                     ELSE "none", NULL, NULL)
           [] OTHER         -> Event("none", NULL, NULL)]

NamesMatch ==
  LET d == Doc
  IN  \A j \in 2..Len(read) :
        read[j].k = NAME /\ read[j-1].k = END => read[j].s = read[ParentOf(d, j)].s

(* The tables accept the documents of the grammar in which every element is *)
(* closed by its own name, and no others; an error is noticed at the first  *)
(* token that no document has there; the actions never find the stack of    *)
(* open elements empty, as their asserts say; and the two stacks stay in    *)
(* their arrays, which overflow only when they are as large as they may be. *)
AcceptsGrammar ==
  /\ yyresult = 0 => Mode = "accepted" /\ NamesMatch
  /\ yyresult = 1 => Mode = "error" \/ ~ NamesMatch
  /\ Parsing /\ yychar = YYEMPTY => Mode # "error"
  /\ Parsing /\ Decided /\ ToShift = 0 /\ ToReduce \in {7, 8, 9, 16, 17} => AssertNode
  /\ Len(yyvs) = Len(yyss)
  /\ Len(yyss) <= yystacksize /\ (Parsing => Len(yyss) < yystacksize)
  /\ yyresult = 2 => Len(yyss) = YYMAXDEPTH

(* The tree of an accepted document is the document, read without a stack:  *)
(* children and attributes in their order, and the last text as the value;  *)
(* what the writer prints of it is a document of this tree but for the      *)
(* blanks around comments and texts, some of which become part of the value *)
(* when it is scanned again; and a search finds a name if it is anywhere in *)
(* the tree.                                                                *)
TreeIsDocument ==
  yyresult = 0 =>
    /\ forest = ForestOf(Doc) /\ root = 1
    /\ ForestOf(xml_fwrite(forest, root)) = Spaced(forest)
    /\ \A name \in Names :
         Search(forest, root, name) # << >> <=>
           \E k \in DOMAIN forest :
             \/ k # root /\ forest[k].name = name
             \/ \E j \in DOMAIN forest[k].attrs : forest[k].attrs[j][1] = name
=============================================================================
