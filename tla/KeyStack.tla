------------------------------ MODULE KeyStack ------------------------------
(***************************************************************************)
(* What the pushback of terminal.h promises to those who push and read: a  *)
(* stack of characters in which a pushed string stands in its own order    *)
(* before what was there, that gives each character once, next first, and  *)
(* that is cut short only by being thrown away or by overflowing.          *)
(***************************************************************************)
EXTENDS Sequences, Naturals

CONSTANTS Char,    \* characters
          Mark,    \* the character that ends a hidden command
          Enter,   \* the newline it turns into within a line
          Strings, \* strings that are pushed
          Room,    \* characters that fit
          Nothing  \* no character

VARIABLES pending, \* the characters, the one read next first
          got,     \* what the last step read here
          full     \* an overflow has ended the program

vars == <<pending, got, full>>

Init == pending = <<>> /\ got = Nothing /\ full = FALSE

Push(str) ==
  IF Len(str) + Len(pending) <= Room
  THEN pending' = str \o pending /\ UNCHANGED full
  ELSE full' = TRUE /\ UNCHANGED pending

Take ==
  /\ pending # <<>> /\ got' = Head(pending)
  /\ pending' = Tail(pending) /\ UNCHANGED full

EndHidden ==
  /\ pending # <<>> /\ Head(pending) = Mark
  /\ pending' \in {Tail(pending), <<Enter>> \o Tail(pending)}
  /\ got' = Nothing /\ UNCHANGED full

ThrowAway == pending' = <<>> /\ got' = Nothing /\ UNCHANGED full

Other == got' = Nothing /\ UNCHANGED <<pending, full>>

Next ==
  \/ \E str \in Strings : Push(str) /\ got' = Nothing
  \/ Take \/ EndHidden \/ ThrowAway \/ Other

Spec == Init /\ [][Next]_vars
=============================================================================
