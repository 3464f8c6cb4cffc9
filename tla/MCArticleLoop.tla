------------------------- MODULE MCArticleLoop -------------------------
(* Groups for ArticleLoop: a thread with a fake and two subjects, and a *)
(* group without threads in which a number has no article. In each, one *)
(* more article arrives.                                                *)
EXTENDS ArticleLoop

\* 1 and 2 are replies to the fake 9; 2 has a subject of its own.
Threaded ==
  [last |-> 2, posted |-> 1..3, fakes |-> {9}, threaded |-> TRUE, byThread |-> TRUE,
   pos |-> [n \in {1, 2, 3, 9} |-> IF n = 9 THEN 0 ELSE n],
   above |-> [n \in {1, 2, 3, 9} |-> IF n \in {1, 2} THEN {9} ELSE {}],
   subj |-> [n \in {1, 2, 3, 9} |-> IF n = 9 THEN 1 ELSE n],
   thread |-> [s \in 1..3 |-> IF s = 2 THEN 1 ELSE s]]
\* 1 and 3 have the same subject.
Plain ==
  [last |-> 3, posted |-> {1, 3, 4}, fakes |-> {}, threaded |-> FALSE, byThread |-> FALSE,
   pos |-> [n \in {1, 3, 4} |-> n],
   above |-> [n \in {1, 3, 4} |-> {}],
   subj |-> [n \in {1, 3, 4} |-> IF n = 3 THEN 1 ELSE n],
   thread |-> [s \in {1, 4} |-> s]]
MCGroups == {Threaded, Plain}
========================================================================
