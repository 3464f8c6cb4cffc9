------------------------------- MODULE ScoredList ------------------------------
(***************************************************************************)
(* What the scores of a newsgroup (module Scores) are for: its articles in *)
(* a list, the best first (module Scan).                                   *)
(* A behaviour is of one kind: the scores come and go, or are what they    *)
(* are while the list is worked on.                                        *)
(***************************************************************************)
EXTENDS Scores, Scan

VARIABLE what    \* "scores" or "list"

vars == <<scoresVars, scanVars, what>>

\* The articles nobody scores, and the list nobody looks at.
SomeArticles == ScoresInit /\ group = (CHOOSE g \in Articles : TRUE) /\ unread = exists
SomeList ==
  LET any == CHOOSE l \in Lists : TRUE
  IN /\ list = any /\ commands = 0 /\ command = ""
     /\ scan = LastScored(Begin(Len(any.arts) - Arrivals, CHOOSE s \in Starts : TRUE))

Init ==
  \/ what = "scores" /\ ScoresInit /\ SomeList
  \/ what = "list" /\ ScanInit /\ SomeArticles

Next ==
  \/ what = "scores" /\ ScoresNext /\ UNCHANGED scanVars /\ UNCHANGED what
  \/ what = "list" /\ ScanNext /\ UNCHANGED scoresVars /\ UNCHANGED what
Spec == Init /\ [][Next]_vars
================================================================================
