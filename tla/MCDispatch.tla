----------------------------- MODULE MCDispatch -----------------------------
(* Two files and a chain of three categories.                                *)
EXTENDS Dispatch

CONSTANTS console, journal

MCNames  == { Root, <<"a">>, <<"a", "b">> }
MCLevels == {300, 700}     \* error, debug

On(n, p, b, a) == [name |-> n, priority |-> p, additive |-> b, appender |-> a]

\* A file that turns rereading on, and one that configures the leaves first.
Plain  == [reread |-> 1,
           categories |-> << On(Root, 300, Unset, console) >>]
Leaves == [reread |-> Unset,
           categories |-> << On(<<"a", "b">>, 700, Unset, journal),
                             On(<<"a">>, Unset, 0, console) >>]
MCTexts == {Plain, Leaves}

MCSettings == { << <<"a">>, "additive", 1 >>, << <<"a", "b">>, "priority", NOTSET >>,
                << Root, "appender", NoAppender >> }

MCEnvironment == On(Root, Unset, Unset, journal)
=============================================================================
