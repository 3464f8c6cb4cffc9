----------------------------- MODULE TerminalProofs ----------------------------
(***************************************************************************)
(* For every set of keys, keymaps and strings, and every size of           *)
(* circle_buf: the pushback ring of terminal.cpp implements the stack of   *)
(* module KeyStack, whatever callers, macros and typeahead push.           *)
(***************************************************************************)
EXTENDS Terminal, SequenceTheorems, TLAPS

LEMMA RoomEnough == PushSize \in Nat /\ PushSize > 1
  BY TerminalAssumption
USE RoomEnough

-------------------------------------------------------------------------------
(* Positions in the ring. What is pushed grows from its end downwards, so  *)
(* nothing of it ever stands beyond that end.                              *)

LEMMA Within ==
  ASSUME NEW a \in 0 .. PushSize - 1
  PROVE  a % PushSize = a
  OBVIOUS

LEMMA Below ==
  ASSUME NEW a \in 1 .. PushSize
  PROVE  (0 - a) % PushSize = PushSize - a
  OBVIOUS

LEMMA Wraps == PushSize % PushSize = 0
  OBVIOUS

SizeAt(o) == IF o = 0 THEN 0 ELSE PushSize - o

\* With the first character at o, all of them are up to the end.
LEMMA Fits ==
  ASSUME NEW o \in 0 .. PushSize - 1
  PROVE  /\ SizeAt(o) \in Nat
         /\ (0 - o) % PushSize = SizeAt(o)
         /\ \A i \in 1 .. SizeAt(o) :
              /\ (o + i - 1) % PushSize = o + i - 1
              /\ o + i - 1 \in 0 .. PushSize - 1
  <1>1. (0 - o) % PushSize = SizeAt(o)
    <2>1. CASE o = 0
      BY <2>1, Within DEF SizeAt
    <2>2. CASE o # 0
      BY <2>2, Below DEF SizeAt
    <2> QED
      BY <2>1, <2>2
  <1>2. ASSUME NEW i \in 1 .. SizeAt(o)
        PROVE  /\ (o + i - 1) % PushSize = o + i - 1
               /\ o + i - 1 \in 0 .. PushSize - 1
    <2>1. o + i - 1 \in 0 .. PushSize - 1
      BY DEF SizeAt
    <2> QED
      BY <2>1, Within
  <1> QED
    BY <1>1, <1>2 DEF SizeAt

LEMMA Joined ==
  ASSUME NEW S, NEW r \in Seq(S), NEW q \in Seq(S)
  PROVE  r \o q \in Seq(S) /\ Len(r \o q) = Len(r) + Len(q)
  OBVIOUS

LEMMA Row ==
  ASSUME NEW S, NEW n \in Nat, NEW f \in [1 .. n -> S]
  PROVE  f \in Seq(S) /\ Len(f) = n
  OBVIOUS

Size == SizeAt(out)

\* What Stacked is, without the remainders.
LEMMA StackedIs ==
  ASSUME RingOK
  PROVE  /\ Stacked = [i \in 1 .. Size |-> ring[out + i - 1]]
         /\ Stacked \in Seq(Char)
         /\ Len(Stacked) = Size /\ Size \in Nat
  <1>1. (0 - out) % PushSize = Size /\ Size \in Nat
    BY Fits DEF Size, RingOK
  <1>2. \A i \in 1 .. Size :
          /\ (out + i - 1) % PushSize = out + i - 1
          /\ out + i - 1 \in 0 .. PushSize - 1
    BY Fits DEF Size, RingOK
  <1>3. Stacked = [i \in 1 .. Size |-> ring[out + i - 1]]
    BY <1>1, <1>2 DEF Stacked
  <1>4. Stacked \in [1 .. Size -> Char]
    BY <1>2, <1>3 DEF RingOK
  <1> QED
    BY <1>1, <1>3, <1>4, Row

-------------------------------------------------------------------------------
(* The operations of InputPushback.                                        *)

Seated == ring' \in [0 .. PushSize - 1 -> Char] /\ out' \in 0 .. PushSize - 1

\* Where a string that fits is put.
LEMMA PushedAt ==
  ASSUME RingOK, NEW str \in Seq(Char), PushAll(str),
         Len(str) + Size <= PushSize - 1
  PROVE  /\ Seated /\ full' = full
         /\ SizeAt(out') = Len(str) + Size
         /\ \A i \in 1 .. Len(str) + Size :
              ring'[out' + i - 1] = (str \o Stacked)[i]
  <1> DEFINE to == (out - Len(str)) % PushSize
  <1>1. /\ out' = to
        /\ ring' = [i \in DOMAIN ring |->
                      LET at == (i - to) % PushSize
                      IN IF at < Len(str) THEN str[at + 1] ELSE ring[i]]
        /\ full' = full
    BY StackedIs DEF PushAll, PushOrder
  <1>2. to = IF Len(str) = 0 THEN out ELSE PushSize - Size - Len(str)
    <2>1. CASE Len(str) = 0
      <3>1. out - Len(str) = out /\ out \in 0 .. PushSize - 1
        BY <2>1 DEF RingOK
      <3> QED
        BY <2>1, <3>1, Within
    <2>2. CASE Len(str) # 0 /\ out = 0
      <3>1. out - Len(str) = 0 - Len(str) /\ Len(str) \in 1 .. PushSize /\ Size = 0
        BY <2>2 DEF Size, SizeAt
      <3> QED
        BY <2>2, <3>1, Below
    <2>3. CASE Len(str) # 0 /\ out # 0
      <3>1. /\ out - Len(str) = PushSize - Size - Len(str)
            /\ out - Len(str) \in 0 .. PushSize - 1
        BY <2>3 DEF Size, SizeAt, RingOK
      <3> QED
        BY <2>3, <3>1, Within
    <2> QED
      BY <2>1, <2>2, <2>3
  <1> HIDE DEF to
  <1>3. /\ out' = to /\ out \in 0 .. PushSize - 1
        /\ Len(str) \in Nat /\ Size \in Nat
    BY <1>1, StackedIs DEF RingOK
  <1>4. to \in 0 .. PushSize - 1 /\ SizeAt(to) = Len(str) + Size
    BY <1>2, <1>3 DEF Size, SizeAt
  <1>5. ring' \in [0 .. PushSize - 1 -> Char]
    <2> SUFFICES ASSUME NEW i \in 0 .. PushSize - 1
                 PROVE  (IF (i - to) % PushSize < Len(str)
                         THEN str[((i - to) % PushSize) + 1] ELSE ring[i]) \in Char
      BY <1>1 DEF RingOK
    <2>1. (i - to) % PushSize \in Nat
      BY <1>4
    <2> QED
      BY <2>1 DEF RingOK
  <1>6. ASSUME NEW i \in 1 .. Len(str) + Size
        PROVE  ring'[out' + i - 1] = (str \o Stacked)[i]
    <2>1. i \in Int /\ (i <= Len(str) \/ i > Len(str)) /\ i - 1 + 1 = i
      BY <1>3
    <2>j. PICK j : j = to + i - 1
      OBVIOUS
    <2>2. j \in 0 .. PushSize - 1 /\ j - to = i - 1 /\ i - 1 \in 0 .. PushSize - 1
      BY <1>2, <1>3, <1>4, <2>j DEF Size, SizeAt
    <2>3. (j - to) % PushSize = i - 1
      BY <2>2, Within
    <2>4. ring'[j] = IF i - 1 < Len(str) THEN str[i] ELSE ring[j]
      <3>1. ring'[j] = IF (j - to) % PushSize < Len(str)
                       THEN str[((j - to) % PushSize) + 1] ELSE ring[j]
        BY <1>1, <2>2 DEF RingOK
      <3> QED
        BY <2>1, <2>3, <3>1
    <2>5. CASE i <= Len(str)
      <3>1. i \in 1 .. Len(str) /\ i - 1 < Len(str)
        BY <1>3, <2>5
      <3>2. (str \o Stacked)[i] = str[i]
        BY <3>1, StackedIs
      <3>3. ring'[j] = str[i]
        BY <2>4, <3>1
      <3> QED
        BY <1>1, <2>j, <3>2, <3>3
    <2>6. CASE i > Len(str)
      <3>1. i - Len(str) \in 1 .. Size /\ ~(i - 1 < Len(str))
        BY <1>3, <2>6
      <3>2. j = out + (i - Len(str)) - 1
        BY <1>2, <1>3, <2>1, <2>j, <3>1 DEF Size, SizeAt
      <3>3. (str \o Stacked)[i] = Stacked[i - Len(str)]
        BY <1>3, <2>6, StackedIs
      <3>4. Stacked[i - Len(str)] = ring[out + (i - Len(str)) - 1]
        BY <3>1, StackedIs
      <3>5. ring'[j] = ring[j]
        BY <2>4, <3>1
      <3> QED
        BY <1>1, <2>j, <3>2, <3>3, <3>4, <3>5
    <2> QED
      BY <2>1, <2>5, <2>6
  <1> QED
    BY <1>1, <1>3, <1>4, <1>5, <1>6 DEF Seated

LEMMA Pushes ==
  ASSUME RingOK, NEW str \in Seq(Char), PushAll(str)
  PROVE  Stack!Push(str) /\ Seated
  <1>1. CASE Len(str) + Size <= PushSize - 1
    <2>1. out' \in 0 .. PushSize - 1 /\ SizeAt(out') = Len(str) + Size
      BY <1>1, PushedAt DEF Seated
    <2>2. /\ Len(str) + Size \in Nat
          /\ (0 - out') % PushSize = Len(str) + Size
          /\ \A i \in 1 .. Len(str) + Size : (out' + i - 1) % PushSize = out' + i - 1
      BY <2>1, Fits
    <2>3. Stacked' = [i \in 1 .. Len(str) + Size |-> ring'[out' + i - 1]]
      BY <2>2 DEF Stacked
    <2>4. Stacked' = str \o Stacked
      <3>1. Stacked \in Seq(Char) /\ Size = Len(Stacked)
        BY StackedIs
      <3>2. \A i \in 1 .. Len(str) + Size : ring'[out' + i - 1] = (str \o Stacked)[i]
        BY <1>1, PushedAt
      <3>3. str \o Stacked \in Seq(Char) /\ Len(str \o Stacked) = Len(str) + Size
        BY <3>1, Joined
      <3>4. \A i \in 1 .. Len(str) + Size : (str \o Stacked)[i] \in Char
        BY <3>3
      <3>5. Stacked' \in [1 .. Len(str) + Size -> Char]
        BY <2>3, <3>2, <3>4
      <3>6. Stacked' \in Seq(Char) /\ Len(Stacked') = Len(str) + Size
        BY <2>2, <3>5, Row
      <3> QED
        BY <2>3, <3>2, <3>3, <3>6, SeqEqual
    <2> QED
      BY <1>1, <2>4, PushedAt, StackedIs DEF Stack!Push
  <1>2. CASE ~(Len(str) + Size <= PushSize - 1)
    <2>1. Len(Stacked) = Size /\ Size \in Nat /\ Len(str) \in Nat /\ PushSize \in Nat
      BY StackedIs DEF RingOK
    <2>2. Len(str) > PushSize - 1 - Len(Stacked) /\ ~(Len(str) + Len(Stacked) <= PushSize - 1)
      BY <1>2, <2>1
    <2>3. full' = TRUE /\ UNCHANGED <<ring, out>>
      BY <2>2 DEF PushAll, PushOrder
    <2>4. Stacked' = Stacked
      BY <2>3 DEF Stacked
    <2> QED
      BY <2>2, <2>3, <2>4 DEF Stack!Push, Seated, RingOK
  <1> QED
    BY <1>1, <1>2

LEMMA FrontIs ==
  ASSUME RingOK, ~Empty
  PROVE  Stacked # <<>> /\ Head(Stacked) = Head1
  <1>1. Size \in Nat \ {0} /\ out + 1 - 1 = out
    BY DEF Empty, Size, SizeAt, RingOK
  <1> QED
    BY <1>1, StackedIs DEF Head1

LEMMA Takes ==
  ASSUME RingOK, ~Empty, TakeOne
  PROVE  /\ Stacked # <<>> /\ Head(Stacked) = Head1 /\ Head1 \in Char
         /\ Stacked' = Tail(Stacked) /\ full' = full
         /\ Seated
  <1>1. out' = IF out = PushSize - 1 THEN 0 ELSE out + 1
    <2>1. CASE out = PushSize - 1
      BY <2>1, Wraps DEF TakeOne
    <2>2. CASE out # PushSize - 1
      BY <2>2, Within DEF TakeOne, RingOK
    <2> QED
      BY <2>1, <2>2
  <1>2. /\ out' \in 0 .. PushSize - 1 /\ ring' = ring /\ full' = full
        /\ Size \in Nat \ {0} /\ SizeAt(out') = Size - 1
    BY <1>1 DEF TakeOne, Size, SizeAt, Empty, RingOK
  <1>3. (0 - out') % PushSize = Size - 1
    BY <1>2, Fits
  <1>4. \A i \in 1 .. Size - 1 :
          (out' + i - 1) % PushSize = out + i /\ out + i \in 0 .. PushSize - 1
    <2>1. \A i \in 1 .. Size - 1 : out' + i - 1 = out + i
      BY <1>1, <1>2 DEF Size, SizeAt, RingOK
    <2> QED
      BY <1>2, <2>1, Fits
  <1>5. Stacked' = [i \in 1 .. Size - 1 |-> ring[out + i]]
    BY <1>2, <1>3, <1>4 DEF Stacked
  <1>6. Stacked # <<>> /\ Head(Stacked) = Head1
    BY FrontIs
  <1>7. Stacked' = Tail(Stacked)
    <2>1. /\ Tail(Stacked) \in Seq(Char) /\ Len(Tail(Stacked)) = Size - 1
          /\ \A i \in 1 .. Size - 1 : Tail(Stacked)[i] = Stacked[i + 1]
      BY <1>2, <1>6, StackedIs
    <2>2. \A i \in 1 .. Size - 1 : Stacked[i + 1] = ring[out + i]
      BY <1>2, StackedIs DEF RingOK
    <2>3. Stacked' \in [1 .. Size - 1 -> Char]
      BY <1>4, <1>5 DEF RingOK
    <2>4. Stacked' \in Seq(Char) /\ Len(Stacked') = Size - 1
      BY <1>2, <2>3, Row
    <2> QED
      BY <1>5, <2>1, <2>2, <2>4, SeqEqual
  <1> QED
    BY <1>2, <1>6, <1>7 DEF Seated, Head1, RingOK

LEMMA Clears ==
  ASSUME RingOK, Cleared
  PROVE  Stacked' = <<>> /\ full' = full /\ Seated
  <1>1. (0 - out') % PushSize = 0
    BY Within DEF Cleared
  <1> QED
    BY <1>1 DEF Cleared, Stacked, Seated, RingOK

\* The mark at the front becomes a newline.
LEMMA Ends ==
  ASSUME RingOK, ~Empty, ring' = [ring EXCEPT ![out] = Plain(Enter)], out' = out
  PROVE  Stacked' = <<Plain(Enter)>> \o Tail(Stacked) /\ Seated
  <1>1. Plain(Enter) \in Char
    BY TerminalAssumption DEF Plain, Char
  <1>2. Size \in Nat \ {0} /\ (0 - out) % PushSize = Size
    BY Fits DEF Size, SizeAt, Empty, RingOK
  <1>3. \A i \in 1 .. Size : (out + i - 1) % PushSize = out + i - 1
                              /\ out + i - 1 \in 0 .. PushSize - 1
    BY Fits DEF Size, RingOK
  <1>4. Stacked' = [i \in 1 .. Size |-> IF i = 1 THEN Plain(Enter) ELSE ring[out + i - 1]]
    <2>1. \A i \in 1 .. Size : ring'[out + i - 1] = IF i = 1 THEN Plain(Enter) ELSE ring[out + i - 1]
      BY <1>3 DEF RingOK
    <2> QED
      BY <1>2, <1>3, <2>1 DEF Stacked
  <1>5. Stacked' = [i \in 1 .. Size |-> IF i = 1 THEN Plain(Enter) ELSE Stacked[i]]
    BY <1>4, StackedIs
  <1> QED
    BY <1>1, <1>2, <1>5, StackedIs DEF Seated, RingOK

-------------------------------------------------------------------------------
(* The strings that are pushed.                                            *)

LEMMA PushedStrings ==
  /\ \A str \in Pushed : str \in Seq(Char) /\ str \in Strings
  /\ \A str \in Starts : Append(str, Mark) \in Seq(Char) /\ Append(str, Mark) \in Strings
  <1>1. Mark \in Char
    BY DEF Mark, Char
  <1> QED
    BY <1>1, TerminalAssumption DEF Strings

LEMMA DefinedStrings ==
  ASSUME NEW str, Defined(str)
  PROVE  LET turned == [i \in DOMAIN str |-> Turned(str[i])]
         IN turned \in Seq(Char) /\ turned \in Strings
  <1>1. PICK n \in Nodes, k \in Keys \cup {Nul} : Map[n][k] = [type |-> "string", str |-> str]
    BY DEF Defined
  <1>2. Map[n][k] \in Entry
    BY <1>1, TerminalAssumption
  <1>3. str \in Seq(Char)
    BY <1>1, <1>2 DEF Entry
  <1>4. \A c \in Char : Turned(c) \in Char
    BY DEF Turned, Char
  <1>5. [i \in DOMAIN str |-> Turned(str[i])] \in Seq(Char)
    BY <1>3, <1>4
  <1>6. [i \in DOMAIN str |-> Turned(str[i])] \in Definitions
    <2>1. Map[n][k] \in {Map[m][j] : m \in Nodes, j \in Keys \cup {Nul}}
                        \cap [type : {"string"}, str : Seq(Char)]
      BY <1>1, <1>3
    <2>2. Map[n][k].str = str
      BY <1>1
    <2> QED
      BY <2>1, <2>2 DEF Definitions
  <1> QED
    BY <1>5, <1>6 DEF Strings

LEMMA KeyStrings ==
  ASSUME NEW n \in 0 .. MaxTyped, NEW q \in [1 .. n -> Keys]
  PROVE  /\ [i \in 1 .. n |-> Plain(q[i])] \in Seq(Char)
         /\ [i \in 1 .. n |-> Plain(q[i])] \in Strings
  <1>1. n \in Nat
    BY TerminalAssumption
  <1>2. [i \in 1 .. n |-> Plain(q[i])] \in [1 .. n -> Char]
    BY DEF Plain, Char
  <1>3. [i \in 1 .. n |-> Plain(q[i])] \in
           UNION {{[i \in 1 .. m |-> Plain(r[i])] : r \in [1 .. m -> Keys]} : m \in 0 .. MaxTyped}
    <2> DEFINE Of(m) == {[i \in 1 .. m |-> Plain(r[i])] : r \in [1 .. m -> Keys]}
    <2>1. [i \in 1 .. n |-> Plain(q[i])] \in Of(n)
      OBVIOUS
    <2> HIDE DEF Of
    <2>2. [i \in 1 .. n |-> Plain(q[i])] \in UNION {Of(m) : m \in 0 .. MaxTyped}
      BY <2>1
    <2> QED
      BY <2>2 DEF Of
  <1> QED
    BY <1>1, <1>2, <1>3, Row DEF Strings

LEMMA TypedStrings ==
  ASSUME typed \in Seq(Keys), Len(typed) <= MaxTyped, NEW kept \in 0 .. Len(typed)
  PROVE  LET rest == [i \in 1 .. Len(typed) - kept |-> Plain(typed[kept + i])]
         IN rest \in Seq(Char) /\ rest \in Strings
  <1> DEFINE n == Len(typed) - kept
             q == [i \in 1 .. n |-> typed[kept + i]]
  <1>1. n \in 0 .. MaxTyped /\ q \in [1 .. n -> Keys]
    BY TerminalAssumption
  <1>2. [i \in 1 .. Len(typed) - kept |-> Plain(typed[kept + i])] = [i \in 1 .. n |-> Plain(q[i])]
    OBVIOUS
  <1> HIDE DEF n, q
  <1> QED
    BY <1>1, <1>2, KeyStrings

-------------------------------------------------------------------------------
(* Steps that only read or only eat typeahead.                             *)

TypedOK == typed' \in Seq(Keys) /\ Len(typed') <= MaxTyped

LEMMA Reads ==
  ASSUME RingOK, NEW c \in Char, Read(c)
  PROVE  Seated /\ TypedOK /\ (Stack!Take \/ Stack!Other)
  <1>1. CASE ~Empty /\ c = Head1 /\ TakeOne /\ got' = c /\ UNCHANGED <<typed, gotAChar>>
    BY <1>1, Takes DEF Stack!Take, TypedOK, RingOK
  <1>2. CASE Empty /\ typed # <<>> /\ typed' = Tail(typed) /\ got' = Nothing /\ UNCHANGED ringVars
    <2>1. TypedOK
      BY <1>2, TerminalAssumption DEF TypedOK, RingOK
    <2> QED
      BY <1>2, <2>1 DEF Stack!Other, Seated, Stacked, ringVars, RingOK
  <1> QED
    BY <1>1, <1>2 DEF Read

LEMMA Eats ==
  ASSUME RingOK, got' = Nothing, EatTypeahead \/ KeepTypeahead
  PROVE  Seated /\ TypedOK /\ Stack!Next
  <1>1. CASE EatTypeahead
    <2>1. PICK kept \in 0 .. Len(typed) :
            PushAll([i \in 1 .. Len(typed) - kept |-> Plain(typed[kept + i])])
      BY <1>1 DEF EatTypeahead
    <2>2. TypedOK
      BY <1>1, TerminalAssumption DEF EatTypeahead, TypedOK
    <2> QED
      BY <2>1, <2>2, TypedStrings, Pushes DEF Stack!Next, RingOK
  <1>2. CASE KeepTypeahead
    BY <1>2 DEF KeepTypeahead, Stack!Next, Stack!Other, Seated, TypedOK, Stacked,
                ringVars, RingOK
  <1> QED
    BY <1>1, <1>2

-------------------------------------------------------------------------------
(* The invariant and the refinement.                                       *)

LEMMA RingInit == TerminalInit => RingOK /\ Stack!Init
  <1> SUFFICES ASSUME TerminalInit PROVE RingOK /\ Stack!Init
    OBVIOUS
  <1>1. Nothing \in Char
    BY DEF Nothing, Char
  <1>2. (0 - out) % PushSize = 0
    BY Within DEF TerminalInit
  <1> QED
    BY <1>1, <1>2, TerminalAssumption DEF TerminalInit, RingOK, Stack!Init, Stacked

\* Every step of the keyboard keeps the ring in order, and is one of the stack.
LEMMA RingStep ==
  ASSUME RingOK, TerminalNext
  PROVE  RingOK' /\ Stack!Next
  <1> USE DEF cmdVars, lineVars
  <1>1. ASSUME NEW k \in Keys, Type(k) PROVE RingOK' /\ Stack!Next
    <2>1. UNCHANGED <<ring, out, full>> /\ got' = Nothing
      BY <1>1 DEF Type, ringVars
    <2>2. Stack!Next
      BY <2>1 DEF Stack!Next, Stack!Other, Stacked
    <2>3. /\ UNCHANGED <<pc, curmap, expanding>>
          /\ typed' = Append(typed, k) /\ Len(typed) < MaxTyped
      BY <1>1 DEF Type, cmdVars
    <2>4. typed' \in Seq(Keys) /\ Len(typed') = Len(typed) + 1 /\ Len(typed) \in Nat
      BY <2>3 DEF RingOK
    <2>5. Len(typed') <= MaxTyped
      BY <2>3, <2>4, TerminalAssumption
    <2> QED
      BY <2>1, <2>2, <2>3, <2>4, <2>5 DEF RingOK, Defined
  <1>2. ASSUME NEW str \in Pushed, PushBack(str) PROVE RingOK' /\ Stack!Next
    BY <1>2, PushedStrings, Pushes DEF PushBack, Seated, RingOK, Stack!Next, Defined
  <1>3. ASSUME NEW str \in Starts, StartCommand(str) PROVE RingOK' /\ Stack!Next
    BY <1>3, PushedStrings, Pushes DEF StartCommand, Seated, RingOK, Stack!Next, Defined
  <1>4. ASSUME Prompt PROVE RingOK' /\ Stack!Next
    BY <1>4, Eats, TerminalAssumption DEF Prompt, Seated, TypedOK, RingOK
  <1>5. ASSUME DropMark PROVE RingOK' /\ Stack!Next
    <2>1. CASE hidden = 1
      BY <1>5, <2>1, Takes DEF DropMark, AtMark, Seated, RingOK, Stack!Next, Stack!EndHidden,
                               Defined
    <2>2. CASE hidden # 1
      BY <1>5, <2>2, Ends, FrontIs DEF DropMark, AtMark, Seated, RingOK, Stack!Next,
                                         Stack!EndHidden, Defined
    <2> QED
      BY <2>1, <2>2
  <1>6. ASSUME Expand PROVE RingOK' /\ Stack!Next
    BY <1>6, DefinedStrings, Pushes DEF Expand, Seated, RingOK, Stack!Next
  <1>7. ASSUME SettleDown PROVE RingOK' /\ Stack!Next
    BY <1>7, Clears DEF SettleDown, Seated, RingOK, Stack!Next, Stack!ThrowAway
  <1>8. ASSUME Settled PROVE RingOK' /\ Stack!Next
    BY <1>8, Eats DEF Settled, Seated, TypedOK, RingOK
  <1>9. ASSUME Complete \/ LineEnds \/ \E dbl \in BOOLEAN : FinishCommand(dbl)
        PROVE  RingOK' /\ Stack!Next
    BY <1>9 DEF Complete, LineEnds, Done, FinishCommand, ringVars, RingOK, Stack!Next,
                Stack!Other, Stacked
  <1>10. ASSUME NEW c \in Char,
                GetCommand(c) \/ EnterKeymap(c) \/ MeetMacro(c) \/ Unmapped(c) \/ LineKey(c)
         PROVE  RingOK' /\ Stack!Next
    <2>1. Seated /\ TypedOK /\ (Stack!Take \/ Stack!Other)
      BY <1>10, Reads DEF GetCommand, EnterKeymap, MeetMacro, Unmapped, LineKey
    <2>2. Map[curmap][c.key] \in Entry
      BY TerminalAssumption DEF Char, RingOK
    <2>3. curmap' \in Nodes
      BY <1>10, <2>2, TerminalAssumption
         DEF GetCommand, EnterKeymap, MeetMacro, Unmapped, LineKey, Entry, RingOK
    <2>4. pc' = "expand" => Defined(expanding)'
      <3>1. CASE MeetMacro(c)
        <4>1. Map[curmap][c.key] = [type |-> "string", str |-> Map[curmap][c.key].str]
          BY <2>2, <3>1 DEF MeetMacro, Entry
        <4> QED
          BY <3>1, <4>1 DEF MeetMacro, Defined, Char, RingOK
      <3>2. CASE ~MeetMacro(c)
        BY <1>10, <3>2 DEF GetCommand, EnterKeymap, Unmapped, LineKey, Done, RingOK
      <3> QED
        BY <3>1, <3>2
    <2> QED
      BY <2>1, <2>3, <2>4 DEF Seated, TypedOK, RingOK, Stack!Next
  <1> QED
    BY <1>1, <1>2, <1>3, <1>4, <1>5, <1>6, <1>7, <1>8, <1>9, <1>10 DEF TerminalNext

LEMMA RingInvariance == TerminalSpec => []RingOK
  <1>1. ASSUME RingOK, UNCHANGED terminalVars PROVE RingOK'
    BY <1>1 DEF terminalVars, RingOK, Defined
  <1> QED
    BY <1>1, RingInit, RingStep, PTL DEF TerminalSpec

\* The ring is a stack of strings: a macro, a start command and a partial key
\* sequence are read in their order, before what was pushed earlier, each
\* character once, until settle_down throws all of it away or an overflow ends
\* the program (push_char, read_tty, finput_pending, eat_typeahead).
THEOREM KeysAreStacked == TerminalSpec => RingIsAStack
  <1>1. ASSUME UNCHANGED terminalVars PROVE UNCHANGED Stack!vars
    BY <1>1 DEF terminalVars, Stack!vars, Stacked
  <1> QED
    BY <1>1, RingInit, RingStep, RingInvariance, PTL
       DEF TerminalSpec, RingIsAStack, Stack!Spec
===============================================================================
