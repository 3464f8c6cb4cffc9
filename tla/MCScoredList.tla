----------------------------- MODULE MCScoredList ------------------------------
(* Five articles to score, of which one may be missing; one more may arrive.   *)
(* A list of four entries and one that arrives, of two subjects.               *)
EXTENDS ScoredList

Line(k, f, h, m, s) == [k |-> k, f |-> f, h |-> h, m |-> m, s |-> s]
From(m, s) == Line("rule", "", "from", m, s)
About(m, s) == Line("rule", "", "subject", m, s)
Extra(m, s) == Line("rule", "", "extra", m, s)
Setting(k, s) == Line(k, "", "", {}, s)
MCArticles ==
  {[gone |-> g, replies |-> {5},
    has |-> [h \in {"from", "subject", "extra"} |-> IF h = "extra" THEN {3, 5} ELSE 1..6]]
   : g \in {{}, {3}}}
\* At first the articles 1, 2 and 4 have the score 4.
MCTexts ==
  ("global" :> <<Line("include", "more", "", {}, 0), From({1}, 1), About({1, 2, 4}, 3), From({2}, 1),
                 Setting("reply", 3)>>)
  @@ ("more" :> <<Line("header", "", "extra", {}, 0), Extra({3, 5}, -9), Setting("newauthor", 1)>>)
MCMoreLines == {Line("exclude", "more", "", {}, 0), From({2, 5}, 7), Setting("killthreshold", 1)}
Order == <<"global", "group">>

--------------------------------------------------------------------------------
Art(subject, points, lines, hit, gone) ==
  [subject |-> subject, score |-> points, lines |-> lines, hit |-> hit, gone |-> gone]
MCArts(gone, more) ==
  <<Art("a", 1, 1, FALSE, FALSE), Art("b", 3, 2, TRUE, FALSE), Art("a", 3, 1, FALSE, gone),
    Art("b", 0, 1, more, FALSE), Art("a", 2, 1, TRUE, FALSE)>>
MCLists ==
  {[arts |-> MCArts(FALSE, TRUE), absFirst |-> 7, long |-> TRUE, stay |-> FALSE, refold |-> FALSE],
   [arts |-> MCArts(TRUE, FALSE), absFirst |-> 1, long |-> FALSE, stay |-> TRUE, refold |-> TRUE]}
MCStarts == {[fold |-> FALSE, byScore |-> FALSE], [fold |-> TRUE, byScore |-> TRUE]}
================================================================================
