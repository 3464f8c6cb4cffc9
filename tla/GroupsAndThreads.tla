--------------------------- MODULE GroupsAndThreads ----------------------------
(***************************************************************************)
(* The two structures that trn builds from what it reads and then walks:   *)
(* the list of newsgroups (module Newsgroups), and within a group the      *)
(* threads of its articles (module Threads). A behaviour is of one kind.   *)
(***************************************************************************)
EXTENDS Newsgroups, Threads

VARIABLE within    \* is it within a group?

vars == <<newsgroupsVars, threadsVars, within>>

\* Within a group, the list stays as it is; outside, no article has arrived.
SomeGroups ==
  /\ news = (CHOOSE n \in Suppose : TRUE)
  /\ groups = Started(FoldLeft(Load, Empty(Slack), <<>>))
  /\ loop = [pc |-> "prompt", forward |-> TRUE, special |-> FALSE, retry |-> FALSE,
             only |-> {}, fromFirst |-> FALSE]
  /\ changes = 0 /\ inputs = 0

Init ==
  /\ ThreadsInit
  /\ \/ within = FALSE /\ NewsgroupsInit
     \/ within = TRUE /\ SomeGroups

Next ==
  \/ within = FALSE /\ NewsgroupsNext /\ UNCHANGED threadsVars /\ UNCHANGED within
  \/ within = TRUE /\ ThreadsNext /\ UNCHANGED newsgroupsVars /\ UNCHANGED within

Spec == Init /\ [][Next]_vars /\ ScanIsFair
================================================================================
