---------------------------- MODULE MCLifecycle ----------------------------
EXTENDS Lifecycle

CONSTANTS a1, a2, p1, p2

P(p)    == [policy |-> p, appender |-> "none", sizes |-> TRUE]
A(a, p) == [policy |-> p, appender |-> a]

\* Policy first, appender first, without a policy, a policy twice too early,
\* twice in order, shared, without its sizes.
MCTexts == {<<P(p1), A(a1, p1), A(a2, p2)>>,
            <<A(a1, p1), P(p1), A(a2, NoPolicy)>>,
            <<P(p1), P(p1), A(a1, p1)>>,
            <<P(p2), P(p1), A(a2, p2), A(a1, p1), P(p2)>>,
            <<P(p1), A(a1, p1), A(a2, p1)>>,
            <<A(a1, p1), [P(p1) EXCEPT !.sizes = FALSE]>>}

\* The file gains an appender, or another policy, or keeps the policy alone.
MCRereads == {<<P(p1)>>, <<A(a1, p1)>>, <<A(a1, p2), A(a2, p2)>>}
=============================================================================
