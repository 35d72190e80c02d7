---------------------------- MODULE MCConfigTree ----------------------------
(***************************************************************************)
(* The way from a file to the settings, or the scanner by itself.          *)
(*                                                                         *)
(* Arrays that grow once and overflow in the third level of elements, and  *)
(* a text buffer that holds three characters: one piece fits twice, one    *)
(* fills it, one never fits, one is blank.  The parser takes documents of  *)
(* eight tokens of any kind, and, in the behaviours of the subject "twins", *)
(* of eleven without attributes and texts: an element with two children.   *)
(* The scanner's files are three fragments, in a buffer that begins with   *)
(* room for three characters and is doubled for the longer tokens.         *)
(***************************************************************************)
EXTENDS ConfigTree, TLC

CONSTANTS x, y, YY_BUF_SIZE, YY_READ_BUF_SIZE,
  FewTokens    \* bound: tokens of a document that may have any kind of them

VARIABLES subject, file, fill, pos, buf, bp, size, buffer_status, start_condition, tokens, pc

scanner == <<file, fill, pos, buf, bp, size, buffer_status, start_condition, tokens, pc>>

Begins == {<<"<", "a">>, <<"\n", "<", " ", "/">>, <<"\"", "a", "'", "\"">>, <<" ", "a", "1", "=">>,
           <<" ", "<", "!", "-", "-", " ", "a", "-">>, <<"<", "?", "a", "?", ">">>, <<"'", "a", "'">>}
Middles == {<<" ", ">", "\n">>, <<"/", ">">>, <<"a", " ", ",">>, <<"-", "-", ">">>,
            <<" ", "a", "1", "=">>, <<"<", "!", "a">>, <<"&", "a">>, <<"'", "a", "'">>}
Ends    == {<<"-", "-", ">">>, <<"<", "a">>, <<"?", ">">>, <<"\"", "a", "\"">>,
            <<" ", "<", "!", "-", "-", " ", "a", "-">>, <<"/", ">">>, <<"a", " ", ",">>}

MCFiles == {f \o g \o h : f \in Begins, g \in Middles, h \in Ends}

S == INSTANCE Scanner WITH
       Files <- MCFiles, status <- buffer_status, yy_start <- start_condition

ASSUME ScannerAssumption == S!SizesAssumption

MCPieces == {[s |-> x, len |-> 0], [s |-> x, len |-> 1], [s |-> y, len |-> 3], [s |-> x, len |-> 4]}

Start ==
  /\ subject \in {"tree", "twins", "scanner"}
  /\ Init /\ S!Init
  /\ subject # "tree" => builder = "bison"
  /\ subject # "scanner" => file = <<"<", "a", "/", ">", "a", " ", ",">> /\ fill = 0

\* What the next token may be: a name only in the end of an element of a twin.
Tags == {B!START, B!SLASH, B!CLOSE, B!END, B!COMMENT, B!EOF}
TokensOf(t) ==
  \/ subject = "tree"  /\ (Len(read) < FewTokens \/ t.k = B!EOF)
  \/ subject = "twins" /\ (t.k \in Tags \/ (t.k = B!NAME /\ read # << >> /\ Last(read).k = B!END))

TreeStep ==
  /\ subject # "scanner" /\ Next /\ UNCHANGED <<subject, scanner>>
  /\ read' # read => TokensOf(Last(read'))
ScannerStep == subject = "scanner" /\ S!Next /\ UNCHANGED <<subject, vars>>

MCSpec == Start /\ [][TreeStep \/ ScannerStep]_<<subject, vars, scanner>>

-----------------------------------------------------------------------------
\* The property of the scanner, stated in its module.
ScansFile == subject = "scanner" => S!ScansFile
=============================================================================
