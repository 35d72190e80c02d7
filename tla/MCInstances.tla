---------------------------- MODULE MCInstances ----------------------------
(* An appender and a layout besides the default ones; a policy.  A text      *)
(* gives the appender a type, known or not, or retypes stdout, or changes a  *)
(* layout, or turns the cleaning up off or on.                               *)
EXTENDS Instances

CONSTANTS a1, l, p

App(n, t, lay, pol) ==
  [kind |-> "appender", name |-> n, type |-> t, layout |-> lay, policy |-> pol]
Root(n) == [kind |-> "category", name |-> "root", appender |-> n]
Lay(n, t) == [kind |-> "layout", name |-> n, type |-> t]

MCTexts ==
  {<<App(a1, t, l, NULL), Root(a1)>> : t \in {"stream2", "mmap", "stream", "rollingfile", "other"}}
  \cup {<<App(a1, "rollingfile", NULL, p), Root(a1)>>,
        <<Lay(l, "basic_r"), App("stdout", "rollingfile", NULL, p), Root("stdout")>>,
        <<Root(a1), Lay(l, "other")>>,
        <<App(a1, "syslog", "dated", NULL), Root("stdout")>>}
  \cup {<<[kind |-> "config", nocleanup |-> b]>> : b \in BOOLEAN}
=============================================================================
