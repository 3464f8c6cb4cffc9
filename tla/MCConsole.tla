------------------------------- MODULE MCConsole -------------------------------
(* Keys: an escape key that starts a two-key sequence, a macro that leads to   *)
(* itself, an ordinary one, and a ring of four characters.                     *)
(* The screen: short texts that have every kind of line, with the options they *)
(* are read with.                                                              *)
EXTENDS Console

MCKeys == {"esc", "[", "m", "a", "enter", "rubout"}
Hi(k) == [key |-> k, hi |-> TRUE]
No == [type |-> "nothing"]
To(n) == [type |-> "map", to |-> n]
Str(q) == [type |-> "string", str |-> q]

MCMap ==
  [n \in 0 .. 2 |->
     [k \in MCKeys \cup {Nul} |->
        CASE n = 0 /\ k = "esc" -> To(1)
          [] n = 1 /\ k = "[" -> To(2)
          [] n = 2 /\ k = "a" -> Str(<<Plain("a"), Hi("m")>>)
          [] n = 0 /\ k = "m" -> Str(<<Hi("m")>>)
          [] OTHER -> No]]

MCPushed == {<<Plain("m")>>}
MCStarts == {<<Plain("a"), Plain("[")>>}

--------------------------------------------------------------------------------

Row(kind, hide, feed, hits) == [kind |-> kind, hide |-> hide, feed |-> feed, hits |-> hits]
Text == Row("line", FALSE, FALSE, {})
Gone == Row("line", TRUE, FALSE, {})
Feed == Row("line", FALSE, TRUE, {})
Over == Row("over", FALSE, FALSE, {})
Wrap == Row("wrap", FALSE, FALSE, {})
Hit(r) == [r EXCEPT !.hits = {"x"}]

Mode(erase, marking, insert, remote) ==
  [erase |-> erase, marking |-> marking, insert |-> insert, remote |-> remote]
Modes == {Mode(FALSE, FALSE, FALSE, TRUE), Mode(TRUE, FALSE, FALSE, FALSE),
          Mode(FALSE, TRUE, FALSE, FALSE), Mode(TRUE, TRUE, FALSE, TRUE)}

\* Two lines of header, an empty one, and a text.
Long == [head |-> 2, rows |-> <<Text, Text, Text, Hit(Wrap), Text, Over, Hit(Text), Text, Over>>]
Holes == [head |-> 3, rows |-> <<Text, Gone, Text, Gone, Wrap, Text, Hit(Text), Gone, Text, Text, Gone>>]
Feeds == [head |-> 2, rows |-> <<Text, Text, Text, Feed, Text, Hit(Text), Feed, Text>>]
Header == [head |-> 5, rows |-> <<Text, Text, Text, Text, Text, Text, Hit(Text), Text>>]
AllSessions ==
  [text : {Long, Holes, Feeds}, mode : Modes]
    \cup [text : {Header}, mode : {Mode(FALSE, FALSE, FALSE, FALSE)}]
    \cup [text : {Long, Holes, Feeds, Header}, mode : {Mode(FALSE, FALSE, TRUE, FALSE)}]
================================================================================
