------------------------------ MODULE Scanner ------------------------------
(***************************************************************************)
(* The scanner that flex made from domnode-xml-scanner.l, which gives the  *)
(* parser its tokens: the automaton of the 14 rules, the buffer that is    *)
(* refilled when the automaton runs into its end, and the functions that   *)
(* cut the value of a token out of its text.                               *)
(*                                                                         *)
(* Characters stand for classes: those that the rules tell apart, "a" for  *)
(* what begins a name, "1" for what only goes on in one and "," for any    *)
(* other; the carriage return, two of whose rules see a line end in two    *)
(* characters, is left out.  One step is one token that lies in the        *)
(* buffer, or one refill.                                                  *)
(***************************************************************************)
EXTENDS Integers, Sequences, FiniteSets, SequencesExt

CONSTANTS
  Files,             \* what is scanned: sequences of characters
  YY_BUF_SIZE,       \* 16384
  YY_READ_BUF_SIZE   \* 8192

SizesAssumption == YY_BUF_SIZE \in Nat \ {0, 1} /\ YY_READ_BUF_SIZE \in Nat \ {0}

Chars == {" ", "\n", "<", ">", "/", "=", "!", "-", "?", "\"", "'", "&", "a", "1", ","}
W         == {" ", "\n"}
NameStart == {"a"}
NameChar  == {"a", "1", "-"}
Not(S)    == Chars \ S

VARIABLES
  file, fill,        \* the input; yy_fill_buffer, 0 for one in memory
  pos,               \* how much of it read() has returned
  buf, bp, size,     \* yy_ch_buf, where yytext begins, and yy_buf_size
  status,            \* yy_buffer_status
  yy_start,          \* the start condition
  tokens,            \* what was returned: pairs of a rule and a value
  pc                 \* "scan", "eof", "exit", or "overrun" in string()

buffer == <<pos, buf, bp, size, status>>
vars   == <<file, fill, buffer, yy_start, tokens, pc>>

-----------------------------------------------------------------------------
\* The automaton, by what its states have read: at the beginning of a token,
\* where i, c and b begin the rules of INITIAL, of CONTENT and of both;
Begin ==
  {<<"i", W, "ws">>, <<"i", {"/"}, "slash">>, <<"i", {"="}, "eq">>, <<"i", {">"}, "close">>,
   <<"i", NameStart, "name">>, <<"i", {"\""}, "quote">>, <<"i", {"'"}, "tick">>,
   <<"i", {"?"}, "query">>, <<"b", W, "open">>, <<"b", {"<"}, "lt">>,
   <<"c", Not({"<", "\n", "&"}), "data">>, <<"b", Not({"\n"}), "any">>, <<"b", {"\n"}, "nl">>}

\* within quotes of either kind;
Values ==
  {<<"quote", Not({"\"", "&"}), "quote">>, <<"quote", {"\""}, "string">>,
   <<"tick",  Not({"'", "&"}),  "tick">>,  <<"tick",  {"'"},  "string">>}

\* after a "<", and in a name after it;
Marks ==
  {<<"lt", W, "ltws">>, <<"lt", NameStart, "start">>, <<"lt", {"/"}, "end">>,
   <<"lt", {"!"}, "c1">>, <<"lt", {"!", "?"}, "i1">>}

Tags ==
  {<<"ltws", W, "ltws">>, <<"ltws", NameStart, "start">>, <<"ltws", {"/"}, "end">>,
   <<"start", NameChar, "start">>}

\* in "<!--", in the comment, and in one of its dashes;
Dashes   == {<<"c1", {"-"}, "c2">>, <<"c2", {"-"}, "c3">>, <<"dashes", {">"}, "comment">>}
Comments ==
  {<<"c3", Not({"-"}), "body">>, <<"c3", {"-"}, "c4">>, <<"c4", Not({"-"}), "body">>,
   <<"body", Not({"-"}), "body">>, <<"body", {"-"}, "dash">>,
   <<"dash", Not({"-"}), "body">>, <<"dash", {"-"}, "dashes">>}

\* in a declaration, which is ignored;
Ignored == {<<"i1", Not({"-"}), "i2">>, <<"i2", Not({">"}), "i2">>, <<"i2", {">"}, "ignored">>}

\* in an attribute's name, in the text of an element, and in blanks.
Named  == {<<"name", NameChar, "name">>}
Data   == {<<"data", Not({"<", "\n", "&"}), "data">>}
Blanks ==
  {<<s, W, s>> : s \in {"ws", "close", "enddef", "open", "comment", "ignored"}}
    \cup {<<"query", {">"}, "enddef">>, <<"open", {"<"}, "lt">>}

Delta == UNION {Begin, Values, Marks, Tags, Dashes, Comments, Ignored, Named, Data, Blanks}

Accepting ==
  [ws |-> 1, slash |-> 2, eq |-> 3, close |-> 4, name |-> 5, string |-> 6, enddef |-> 7,
   start |-> 8, end |-> 9, comment |-> 10, ignored |-> 11, data |-> 12, any |-> 13, nl |-> 14]

First(cond) == {"b", IF cond = "INITIAL" THEN "i" ELSE "c"}

\* Where the automaton is after each character of the text.
Run(text, cond) ==
  FoldLeft(LAMBDA run, ch :
             Append(run, {d[3] : d \in {e \in Delta : e[1] \in Last(run) /\ ch \in e[2]}}),
           <<First(cond)>>, text)

RulesIn(states) == {Accepting[s] : s \in states \cap DOMAIN Accepting}

\* It stops before the end of the text.
Jams(text) == Last(Run(text, yy_start)) = {}

\* The longest text of a rule; of the rules with this text, the first.
Match(text) ==
  LET run  == Run(text, yy_start)
      good == {j \in DOMAIN text : RulesIn(run[j+1]) # {}}
      len  == CHOOSE j \in good : \A k \in good : k <= j
  IN  [len |-> len, rule |-> CHOOSE r \in RulesIn(run[len+1]) : \A q \in RulesIn(run[len+1]) : r <= q]

-----------------------------------------------------------------------------
\* How far on from j the characters of S go.
Over(s, j, S) ==
  CHOOSE k \in j..Len(s)+1 : (\A m \in j..k-1 : s[m] \in S) /\ (k <= Len(s) => s[k] \notin S)

word(s) ==
  LET k == Over(s, 1, W \cup {"<"}) IN SubSeq(s, k, Over(s, k, Not(W)) - 1)

string(s) == SubSeq(s, 2, Over(s, 2, Not({"\""})) - 1)

\* The text from the fifth character on, whatever there is before "<!--".
comment(s) ==
  LET k   == Over(s, 5, W)
      end == CHOOSE i \in k..Len(s) : /\ SubSeq(s, i, i+2) = <<"-", "-", ">">>
                                      /\ \A j \in k..i-1 : SubSeq(s, j, j+2) # <<"-", "-", ">">>
  IN  SubSeq(s, k, end - 1)

Value(rule, text) ==
  CASE rule = 8        -> word(text)
    [] rule = 6        -> string(text)
    [] rule = 10       -> comment(text)
    [] rule \in {5, 12} -> text
    [] OTHER           -> << >>

\* Rules that return nothing: blanks, what is ignored, what is wrong.
Silent == {1, 11, 13, 14}

\* The action of the rule that matches.  string() looks for a double quote
\* and leaves its buffer if there is none.
Act(text) ==
  LET m   == Match(text)
      own == SubSeq(text, 1, m.len)
  IN  /\ tokens' = IF m.rule \in Silent THEN tokens
                   ELSE Append(tokens, <<m.rule, Value(m.rule, own)>>)
      /\ yy_start' = CASE m.rule \in {8, 9} -> "INITIAL"
                       [] m.rule = 4 -> "CONTENT"
                       [] OTHER -> yy_start
      /\ pc' = IF m.rule = 6 /\ "\"" \notin ToSet(Tail(own)) THEN "overrun" ELSE "scan"

Text == SubSeq(buf, bp + 1, Len(buf))

-----------------------------------------------------------------------------
(* The automaton stops inside of the buffer. *)
Token ==
  /\ pc = "scan" /\ Jams(Text)
  /\ Act(Text)
  /\ bp' = bp + Match(Text).len
  /\ UNCHANGED <<file, fill, pos, buf, size, status>>

\* read() is called, with room for a character at least, and may give some.
Reads   == fill = 1 /\ status # "EOF_PENDING"
Room    == IF Reads /\ size - Len(Text) - 1 <= 0 THEN 2 * size ELSE size
MayRead == Reads /\ pos < Len(file)

\* Variant: what lies in the buffer is taken for the whole token.
RefillAfterToken ==
  /\ pc = "scan" /\ ~ Jams(Text) /\ MayRead
  /\ pos' = pos + 1
  /\ buf' = <<file[pos']>> /\ bp' = 0
  /\ IF Text = << >> THEN UNCHANGED <<yy_start, tokens, pc>> ELSE Act(Text)
  /\ UNCHANGED <<file, fill, size, status>>

(* yy_get_next_buffer: the text that was matched so far is moved to the     *)
(* front, the buffer is doubled if this fills it, and read() gives at most  *)
(* what there is room for, and one character or more.                       *)
Refill ==
  /\ pc = "scan" /\ ~ Jams(Text) /\ MayRead
  /\ size' = Room
  /\ \E n \in 1..YY_READ_BUF_SIZE :
       /\ n <= Room - Len(Text) - 1 /\ pos + n <= Len(file)
       /\ buf' = Text \o SubSeq(file, pos + 1, pos + n)
       /\ pos' = pos + n
  /\ bp' = 0
  /\ status' = "NORMAL"
  /\ UNCHANGED <<file, fill, yy_start, tokens, pc>>

(* read() fails, and YY_FATAL_ERROR ends the process.                       *)
ReadError ==
  /\ pc = "scan" /\ ~ Jams(Text) /\ Reads
  /\ pc' = "exit"
  /\ size' = Room
  /\ UNCHANGED <<file, fill, pos, buf, bp, status, yy_start, tokens>>

(* The same at the end of the input, where read() gives nothing: what was   *)
(* matched so far is the last text; or there is none, and the buffer is as  *)
(* it was at the beginning.                                                 *)
EndOfInput ==
  /\ pc = "scan" /\ ~ Jams(Text) /\ ~ MayRead
  /\ IF Text = << >>
     THEN /\ pc' = "eof"
          /\ buf' = << >> /\ bp' = 0 /\ status' = "NEW"
          /\ UNCHANGED <<yy_start, tokens>>
     ELSE /\ Act(Text)
          /\ bp' = Match(Text).len
          /\ buf' = Text
          /\ status' = IF fill = 1 THEN "EOF_PENDING" ELSE "NORMAL"
  /\ size' = Room
  /\ UNCHANGED <<file, fill, pos>>

\* The buffer yy_create_buffer makes for a file, empty,
FileBuffer ==
  /\ fill = 1
  /\ pos = 0 /\ buf = << >> /\ size = YY_BUF_SIZE

\* and the one yy_scan_bytes makes of bytes in memory, which is full.
BytesBuffer ==
  /\ fill = 0
  /\ pos = Len(file) /\ buf = file /\ size = Len(file)

Init ==
  /\ file \in Files
  /\ FileBuffer \/ BytesBuffer
  /\ bp = 0 /\ status = "NEW"
  /\ yy_start = "INITIAL"
  /\ tokens = << >>
  /\ pc = "scan"

Next == Token \/ Refill \/ ReadError \/ EndOfInput

Spec == Init /\ [][Next]_vars

-----------------------------------------------------------------------------
\* What the text of each rule looks like, said of the whole text at once.
All(s, S) == s # << >> /\ \A j \in DOMAIN s : s[j] \in S
Blank(s)  == \A j \in DOMAIN s : s[j] \in W
NoBlanks(s) == SubSeq(s, Over(s, 1, W), Len(s))
From(s, j)  == SubSeq(s, j, Len(s))
NameLike(s) == s # << >> /\ Head(s) \in NameStart /\ All(s, NameChar)
Quoted(s, q) == /\ Len(s) >= 2 /\ s[1] = q /\ Last(s) = q
                /\ \A j \in 2..Len(s)-1 : s[j] \notin {q, "&"}

\* s is begin, a text of which Middle(from, to) is true, a ">", and blanks.
Closed(s, begin, Middle(_,_)) ==
  \E k \in DOMAIN s :
    /\ k > Len(begin) /\ SubSeq(s, 1, Len(begin)) = begin /\ s[k] = ">"
    /\ Blank(From(s, k + 1))
    /\ Middle(Len(begin) + 1, k - 1)

Looks(rule, s) ==
  LET t == NoBlanks(s)
  IN  CASE rule = 1  -> All(s, W)
        [] rule = 2  -> s = <<"/">>
        [] rule = 3  -> s = <<"=">>
        [] rule = 4  -> Head(s) = ">" /\ Blank(Tail(s))
        [] rule = 5  -> NameLike(s)
        [] rule = 6  -> Quoted(s, "\"") \/ Quoted(s, "'")
        [] rule = 7  -> Len(s) > 1 /\ s[1] = "?" /\ s[2] = ">" /\ Blank(From(s, 3))
        [] rule = 8  -> t # << >> /\ Head(t) = "<" /\ NameLike(NoBlanks(Tail(t)))
        [] rule = 9  -> t # << >> /\ Head(t) = "<" /\ NoBlanks(Tail(t)) = <<"/">>
        [] rule = 10 -> Closed(t, <<"<", "!", "-", "-">>,
                          LAMBDA i, k : /\ k >= i + 2 /\ t[k] = "-" /\ t[k-1] = "-" /\ t[k-2] # "-"
                                        /\ \A j \in i..k-3 : t[j] # "-" \/ t[j+1] # "-")
        [] rule = 11 -> \E q \in {"!", "?"} :
                          Closed(t, <<"<", q>>,
                            LAMBDA i, k : /\ k >= i /\ t[i] # "-"
                                          /\ \A j \in i+1..k : t[j] # ">")
        [] rule = 12 -> All(s, Not({"<", "\n", "&"}))
        [] rule = 13 -> Len(s) = 1 /\ s # <<"\n">>
        [] rule = 14 -> s = <<"\n">>

InCondition(cond) == IF cond = "INITIAL" THEN 1..14 \ {12} ELSE 8..14

\* The value that a text means.
Means(rule, s) ==
  LET t == NoBlanks(s)
  IN  CASE rule = 8  -> NoBlanks(Tail(t))
        [] rule = 6  -> SubSeq(s, 2, Len(s) - 1)
        [] rule = 10 -> LET end == CHOOSE j \in DOMAIN t : t[j] = ">" /\ Blank(From(t, j + 1))
                        IN  NoBlanks(SubSeq(t, 5, end - 3))
        [] rule \in {5, 12} -> s
        [] OTHER -> << >>

\* The file cut into texts, without a buffer: triples of a rule, a text and
\* the condition after it.
Cut(f) ==
  LET from[m \in 0..Len(f), cond \in {"INITIAL", "CONTENT"}] ==
        IF m = 0 THEN << >>
        ELSE LET s    == From(f, Len(f) - m + 1)
                 fits == {j \in DOMAIN s : \E r \in InCondition(cond) : Looks(r, SubSeq(s, 1, j))}
                 len  == CHOOSE j \in fits : \A k \in fits : k <= j
                 own  == SubSeq(s, 1, len)
                 rule == CHOOSE r \in InCondition(cond) :
                           Looks(r, own) /\ \A q \in InCondition(cond) : Looks(q, own) => r <= q
             IN  <<<<rule, own>>>>
                 \o from[m - len, CASE rule \in {8, 9} -> "INITIAL" [] rule = 4 -> "CONTENT"
                                     [] OTHER -> cond]
  IN  SelectSeq(from[Len(f), "INITIAL"], LAMBDA x : x[1] \notin Silent)

\* Values that the functions do not cut out as they should: of a comment
\* with blanks before it, and of a value in single quotes.
Misread(x) == \/ x[1] = 10 /\ Head(x[2]) \in W
              \/ x[1] = 6 /\ Head(x[2]) = "'"

(* The tokens of a file are its longest texts, one after the other,         *)
(* however read() cuts the file into pieces and wherever a token lies in    *)
(* the buffer or across its end; what was read always leaves room in the    *)
(* buffer, of whose size the code subtracts without a sign; and each token  *)
(* has the value its text means, except a comment after blanks and a value  *)
(* in single quotes, for which alone string() is left behind.               *)
ScansFile ==
  LET cut == Cut(file)
  IN  /\ Len(tokens) <= Len(cut) /\ (pc = "eof" => Len(tokens) = Len(cut))
      /\ \A j \in DOMAIN tokens :
           /\ tokens[j][1] = cut[j][1]
           /\ tokens[j][2] = Means(cut[j][1], cut[j][2]) \/ Misread(cut[j])
      /\ fill = 1 => Len(buf) < size
      /\ pc = "overrun" => Misread(cut[Len(tokens)])
=============================================================================
