--------------------------------- MODULE RcLine --------------------------------
(***************************************************************************)
(* The list of read articles of one newsrc line, " 1-4,7,9-12", and the    *)
(* operations trn performs on it as text: libtrn/rcln.cpp and              *)
(* libtrn/bits.cpp.                                                        *)
(*                                                                         *)
(* A line is a sequence of entries. The text "5" is a single number, "5-5" *)
(* a range, and they are edited differently; "1-0" (nothing read, written  *)
(* by bits_to_rc) and "4-3" (left by sub_art_num) are empty ranges.        *)
(***************************************************************************)
EXTENDS Integers, FiniteSets, SequencesExt

Single(n) == [lo |-> n, hi |-> n, rng |-> FALSE]
Span(a, b) == [lo |-> a, hi |-> b, rng |-> TRUE]

\* The lines that trn writes: ascending numbers and ranges, of which the empty
\* ones end just before they start.
IsRcLine(line) ==
  /\ line \in Seq([lo : Nat \ {0}, hi : Nat, rng : BOOLEAN])
  /\ \A i \in DOMAIN line :
       /\ line[i].lo <= line[i].hi + 1
       /\ ~line[i].rng => line[i].lo = line[i].hi
  /\ \A i, j \in DOMAIN line : i < j => line[i].hi < line[j].lo

\* The articles a line says are read.
Denotes(line) == UNION {line[i].lo .. line[i].hi : i \in DOMAIN line}

\* How many entries start at or below n: the scan of add_art_num, sub_art_num
\* and check_expired stops after them.
Leading(line, n) ==
  Max({k \in 0..Len(line) : \A j \in 1..k : line[j].lo <= n})

Before(line, n) == SubSeq(line, 1, Leading(line, n))
After(line, n) == SubSeq(line, Leading(line, n) + 1, Len(line))

-------------------------------------------------------------------------------
\* A number is appended to a line that ends in "1-0": its digits are glued to
\* the zero, "1-05".
Glues(line, n) ==
  /\ line # <<>>
  /\ After(line, n) = <<>>
  /\ Last(line).hi = 0

\* The entry written for n between the entries before it and those after it
\* swallows the range or number it adjoins on either side.
Insert(before, n, after) ==
  LET joins == before # <<>> /\ Last(before).hi # 0 /\ n = Last(before).hi + 1
      meets == after # <<>> /\ Head(after).lo = n + 1
      entry == [lo  |-> IF joins THEN Last(before).lo ELSE n,
                hi  |-> IF meets THEN Head(after).hi ELSE n,
                rng |-> joins \/ meets]
  IN (IF joins THEN Front(before) ELSE before)
       \o <<entry>>
       \o (IF meets THEN Tail(after) ELSE after)

AddArtNum(line, n) ==
  IF n \in Denotes(line)
  THEN line
  ELSE IF Glues(line, n)
  THEN Append(Front(line), Span(Last(line).lo, n))
  ELSE Insert(Before(line, n), n, After(line, n))

\* Mutant: splitting a range drops its upper part.
WithoutNumAbove(entry, n) ==
  IF entry.rng /\ n # entry.lo THEN <<Span(entry.lo, n - 1)>> ELSE <<>>

\* What is left of a range when n is taken out.
WithoutNum(entry, n) ==
  LET a == IF n = entry.lo THEN n + 1 ELSE entry.lo
      b == IF n # entry.lo /\ n = entry.hi THEN n - 1 ELSE entry.hi
  IN IF ~entry.rng
     THEN <<>>
     ELSE IF n \notin {entry.lo, entry.hi}
     THEN <<Span(entry.lo, n - 1), Span(n + 1, entry.hi)>>
     ELSE IF a = b THEN <<Single(a)>> ELSE <<Span(a, b)>>

SubArtNum(line, n) ==
  IF n \notin Denotes(line)
  THEN line
  ELSE LET i == CHOOSE i \in DOMAIN line : n \in line[i].lo .. line[i].hi
       IN SubSeq(line, 1, i - 1)
            \o WithoutNum(line[i], n)
            \o SubSeq(line, i + 1, Len(line))

\* The range that stands for the entries up to first once everything below
\* first is read: one that straddles first is stretched down to 1.
Stretched(before, first) ==
  LET last == Last(before)
  IN IF before = <<>> THEN Span(1, first - 1)
     ELSE IF last.rng /\ last.hi > first THEN Span(1, last.hi)
     ELSE IF last.hi = first THEN Span(1, first)
     ELSE Span(1, first - 1)

\* Everything below first becomes read.
CheckExpired(line, first) ==
  IF first <= 1
  THEN line
  ELSE <<Stretched(Before(line, first), first)>> \o After(line, first)

-------------------------------------------------------------------------------
\* set_to_read's tally: the unread count that the line leaves of the articles
\* up to size, and the size itself, raised when the line goes beyond it. The
\* strict check gives up on such a line instead (-1).
TallyStep(t, e, lax) ==
  LET rest == t.unread - (e.hi - e.lo) - (IF e.hi # 0 THEN 1 ELSE 0)
  IN IF t.reset \/ (e.hi > t.size /\ ~lax)
     THEN [unread |-> -1, size |-> t.size, reset |-> TRUE]
     ELSE IF e.hi <= t.size
     THEN [t EXCEPT !.unread = rest]
     ELSE [t EXCEPT !.unread = rest + e.hi - t.size, !.size = e.hi]

Tally(line, size, lax) ==
  LET t[k \in 0..Len(line)] ==
        IF k = 0 THEN [unread |-> size, size |-> size, reset |-> FALSE]
        ELSE TallyStep(t[k - 1], line[k], lax)
  IN t[Len(line)]

-------------------------------------------------------------------------------
\* The members of a finite set of numbers, in ascending order.
Ascends(s, S) ==
  /\ \A i, j \in DOMAIN s : i < j => s[i] < s[j]
  /\ \A n \in S : \E i \in DOMAIN s : s[i] = n

Ascending(S) == CHOOSE s \in [1..Cardinality(S) -> S] : Ascends(s, S)

\* bits_to_rc: the line rebuilt from the unread articles of first..last.
BitsToRc(unread, first, last) ==
  LET unreadHere == unread \cap (first..last)
      i == IF unreadHere = {} THEN last + 1 ELSE Min(unreadHere)
      starts == {n \in (i + 1)..last : n \notin unread /\ n - 1 \in unread}
      End(n) == Max({m \in n..last : \A k \in n..m : k \notin unread})
      Entry(n) == IF End(n) = n THEN Single(n) ELSE Span(n, End(n))
      sorted == Ascending(starts)
  IN <<Span(1, i - 1)>> \o [k \in DOMAIN sorted |-> Entry(sorted[k])]

\* rc_to_bits: the articles of first..last that the line leaves unread. A
\* leading "1-" range moves the scan's start, and an entry below the start is
\* raised to it.
RcToBits(line, first, last) ==
  LET leads == line # <<>> /\ line[1].rng /\ line[1].lo = 1
      start == IF leads /\ line[1].hi + 1 > first THEN line[1].hi + 1 ELSE first
      scanned == IF leads THEN 2..Len(line) ELSE 1..Len(line)
      Raised(n) == IF n < start THEN start ELSE n
      Covered(e) == IF e.rng THEN Raised(e.lo) .. e.hi ELSE {Raised(e.lo)}
  IN (start..last) \ UNION {Covered(line[i]) : i \in scanned}

\* A single number below the scan's start: it is raised to an article that it
\* does not name.
RaisesSingle(line, first) ==
  LET leads == line # <<>> /\ line[1].rng /\ line[1].lo = 1
      start == IF leads /\ line[1].hi + 1 > first THEN line[1].hi + 1 ELSE first
  IN \E i \in DOMAIN line : ~line[i].rng /\ line[i].lo < start
===============================================================================
