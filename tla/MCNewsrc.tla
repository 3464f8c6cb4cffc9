------------------------------- MODULE MCNewsrc -------------------------------
(* Constants for model checking Newsrc. *)
EXTENDS Newsrc, TLC

CONSTANTS m1,
  AnyFaults   \* how many faults there may be before a newsrc is rolled back

MCMarks == {m1}
MCSubscriptions == {Lines}

\* The faults beyond AnyFaults come only while or after get_old_newsrcs rolls a
\* newsrc back.
LaterFaults ==
  faults' > faults /\ faults >= AnyFaults => \E rc \in Rcs : restored[rc]
===============================================================================
