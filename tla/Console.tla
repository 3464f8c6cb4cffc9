-------------------------------- MODULE Console --------------------------------
(***************************************************************************)
(* The two sides of the terminal: the keyboard, from whose keys commands   *)
(* come (module Terminal), and the screen, on which an article is paged    *)
(* (module Pager). A behaviour is of one kind: the pager's commands are    *)
(* inputs there, the keyboard's callers are prompts here.                  *)
(***************************************************************************)
EXTENDS Terminal, Pager

VARIABLE side    \* "keys" or "screen"

vars == <<terminalVars, pagerVars, side>>

\* With the article left, nothing is shown; without a prompt, no key is read.
NoArticle ==
  LET any == CHOOSE s \in Sessions : TRUE
  IN Unopened /\ place = "left" /\ text = any.text /\ mode = any.mode
Init ==
  \/ side = "keys" /\ TerminalInit /\ NoArticle
  \/ side = "screen" /\ PagerInit /\ TerminalInit

Next ==
  \/ side = "keys" /\ TerminalNext /\ UNCHANGED pagerVars /\ UNCHANGED side
  \/ side = "screen" /\ PagerNext /\ UNCHANGED terminalVars /\ UNCHANGED side

Spec == Init /\ [][Next]_vars /\ ReadsOn /\ PagesOn
================================================================================
