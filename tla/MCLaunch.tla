------------------------------ MODULE MCLaunch ------------------------------
(* Instance of Launch: every command line of up to one option, those of   *)
(* up to five that matter to a run, and the wizard between other options.  *)
EXTENDS Launch

CONSTANTS n1, n2, d1, d2, d3

O(o, v) == [opt |-> o, val |-> v]

MCNames == {n1, n2}

MCAttachments ==
  {[n \in MCNames |-> NoDisk], [n \in MCNames |-> IF n = n1 THEN d1 ELSE NoDisk],
   [n \in MCNames |-> IF n = n1 THEN d1 ELSE d2]}

Short == UNION {[1 .. k -> Options] : k \in 0 .. 1}

Modes ==
  {<<O("p", <<n1>>), O("r", "dir")>> \o last :
     last \in {<<O("m", a), O("m", b), O("t", c)>> : a, b, c \in DOMAIN Atoi}}

Tuned ==
  {<<O("m", "one"), O("d", <<a>>), O("r", "dir"), O("p", <<b>>)>> : a, b \in MCNames}

Wizards ==
  {<<O("p", <<n2>>), O("m", "zero"), O("w", "")>>, <<O("w", ""), O("m", "zero"), O("p", <<n2>>)>>}

MCCommandLines == Short \cup Modes \cup Tuned \cup Wizards
=============================================================================
