--------------------------------- MODULE Pages ---------------------------------
(***************************************************************************)
(* The pages of trn's selectors (libtrn/rt-page.cpp): which of the items   *)
(* of a list are on the page that starts at a given item, the counts of    *)
(* objects before it and on it, moving by pages, and finding an item.      *)
(*                                                                         *)
(* A selector is a record s. The fields that the operators of this module  *)
(* use are                                                                 *)
(*   order  the items in their order          inc    the INCLUDED ones     *)
(*   start  the page's first item or None     next   that of the next page *)
(*   prior, objs, total  objects before the page, on it, on all pages      *)
(*   cnt    items on the page                 index  the current one       *)
(*   items, shown        what the screen shows, with which marks; after the *)
(*                       page's last one, what former pages left          *)
(* The source has this code once for each kind of item, with a pointer of  *)
(* its own; the differences are stated where they are.                     *)
(***************************************************************************)
EXTENDS Integers, Sequences, FiniteSets, FiniteSetsExt

CONSTANTS
  PerPage,       \* letters, or lines, for items (max_per_page)
  MaxLines,      \* lines for items (max_line_cnt)
  Weight(_, _),  \* objects that an item stands for: m_misc, or 1
  Height(_, _),  \* lines that an item takes
  Mark(_, _),    \* how an item is marked on the screen
  None           \* no item

Least(a, b) == IF a < b THEN a ELSE b

Positions(s) == DOMAIN s.order
PosOf(s, x) == CHOOSE i \in Positions(s) : s.order[i] = x
ItemAt(s, i) == IF i \in Positions(s) THEN s.order[i] ELSE None
LastItem(s) == ItemAt(s, Len(s.order))
StartPos(s) == IF s.start = None THEN Len(s.order) + 1 ELSE PosOf(s, s.start)

Lines(s, x) == Least(Height(s, x), MaxLines)
\* The positions whose items take a place on a page.
Live(s) == {i \in Positions(s) : s.order[i] \in s.inc /\ Height(s, s.order[i]) > 0}

WeightAt(s, I) == MapThenSumSet(LAMBDA i : Weight(s, s.order[i]), I)
LinesAt(s, I) == MapThenSumSet(LAMBDA i : Lines(s, s.order[i]), I)

\* Items at these positions are on one page together.
Fits(s, I) == Cardinality(I) <= PerPage /\ LinesAt(s, I) <= MaxLines
Between(I, from, to) == {i \in I : from <= i /\ i <= to}

\* What fits on the page that starts at a position, by items and lines.
PageFrom(s, from) ==
  LET On(live) == {i \in live : i >= from /\ Fits(s, Between(live, from, i))}
  IN On(Live(s))
\* As calc_page counts it: g_term_line stays at 2, so lines do not end a page.
CountedFrom(s, from) ==
  LET On(live) == {i \in live : i >= from
                     /\ Cardinality(Between(live, from, i)) <= PerPage}
  IN On(Live(s))
\* The page that ends just before a position.
PageBefore(s, to) ==
  LET On(live) == {i \in live : i < to /\ Fits(s, Between(live, i, to - 1))}
  IN On(Live(s))

\* Where a scan stops: after the last item of a full page, or at the first
\* item that is left over.
FirstOf(s, I) == IF I = {} THEN Len(s.order) + 1 ELSE Min(I)
StopsAt(s, page) ==
  IF page # {} /\ Cardinality(page) = PerPage THEN Max(page) + 1
  ELSE IF page = {} THEN Len(s.order) + 1
  ELSE FirstOf(s, {i \in Live(s) : \A j \in page : j < i})

-------------------------------------------------------------------------------
\* Moving.

StartAt(s, I) == [s EXCEPT !.start = IF I = {} THEN @ ELSE s.order[Min(I)]]

FirstPage(s) ==
  [StartAt(s, {i \in Positions(s) : s.order[i] \in s.inc}) EXCEPT !.prior = 0]

PrevPage(s) ==
  LET Back(I) == [StartAt(s, I) EXCEPT !.prior = @ - WeightAt(s, I)]
  IN Back(PageBefore(s, StartPos(s)))

LastPage(s) ==
  [PrevPage([s EXCEPT !.prior = s.total, !.start = None])
     EXCEPT !.start = IF @ = None THEN s.start ELSE @]

HasNextPage(s) ==
  s.total # 0 /\ s.prior + s.objs < s.total /\ s.next # None
NextPage(s) ==
  IF HasNextPage(s) THEN [s EXCEPT !.start = s.next, !.prior = @ + s.objs] ELSE s

-------------------------------------------------------------------------------
\* calc_page: the counts of the page, and the index of a wanted item.

Search(x) == [search |-> TRUE, item |-> x]
NoSearch == [search |-> FALSE, item |-> None]

\* The index of a wanted item that a scan from from to to meets.
IndexIn(s, x, page, from, to) ==
  LET At(I) == IF I = {} THEN s.index ELSE Cardinality({j \in page : j < Min(I)})
  IN At({i \in Between(Positions(s), from, to) : s.order[i] = x})

\* One pass: it passes the items up to the one where it stops, INCLUDED or not.
CalcPass(s, u) ==
  LET Counted(page, stop) ==
        [s EXCEPT !.objs = WeightAt(s, page),
                  !.cnt = Cardinality(page),
                  !.next = ItemAt(s, stop),
                  !.index = IndexIn(s, u.item, page, StartPos(s), stop - 1)]
      Stopped(page) == Counted(page, StopsAt(s, page))
  IN Stopped(CountedFrom(s, StartPos(s)))

NotFound(s) == [FirstPage(s) EXCEPT !.index = 0]

\* The item is not there: the first page, if that is another, then the next
\* ones, and in the end the first page again, with the last one's counts.
CalcPage(s, u) ==
  LET Turned(q) == IF q.index >= 0 \/ ~HasNextPage(q) THEN q
                   ELSE CalcPass(NextPage(q), u)
      Reached(q) == IF q.index >= 0 THEN q ELSE NotFound(q)
      Pages(p) ==
        LET pass[n \in 0..Len(s.order)] == IF n = 0 THEN p ELSE Turned(pass[n - 1])
        IN pass[Len(s.order)]
      Again(begun, fst) ==
        IF fst.start = begun.start THEN fst ELSE CalcPass(fst, u)
      Found(begun) == IF ~u.search \/ begun.index >= 0 THEN begun
                      ELSE Reached(Pages(Again(begun, FirstPage(begun))))
  IN Found(CalcPass([s EXCEPT !.index = IF u.search THEN -1 ELSE @], u))

-------------------------------------------------------------------------------
\* init_pages, once the items are INCLUDED or not.

Arrive(s, fillLast) ==
  LET Filled(c) == IF c.prior + c.objs = c.total THEN LastPage(c) ELSE c
  IN IF s.start = None THEN FirstPage(s)
     ELSE IF s.start = LastItem(s) THEN LastPage(s)
     ELSE IF s.prior = 0 \/ ~fillLast THEN s
     ELSE Filled(CalcPage(s, NoSearch))

\* Counted anew: the objects of all pages, and of those before the page.
Recount(s) ==
  LET inc == {i \in Positions(s) : s.order[i] \in s.inc}
  IN [s EXCEPT !.total = WeightAt(s, inc),
               !.prior = IF s.start = None THEN 0
                         ELSE WeightAt(s, {i \in inc : i < PosOf(s, s.start)})]

-------------------------------------------------------------------------------
\* display_page.

\* The items from the start on, with their marks; here is the item that the
\* cursor is to be on, if the scan meets it. A scan of newsgroups goes on to the next INCLUDED one (past).
Drawn(s, here, past) ==
  LET Stop(page) ==
        IF past THEN FirstOf(s, {i \in Live(s) \ page : i >= StartPos(s)})
        ELSE StopsAt(s, page)
      Show(page, order, stop) ==
        [s EXCEPT
          !.objs = WeightAt(s, page),
          !.cnt = Cardinality(page),
          !.items = [k \in DOMAIN @ |->
                       IF k \in DOMAIN order THEN s.order[order[k]] ELSE @[k]],
          !.shown = [k \in DOMAIN @ |->
                       IF k \in DOMAIN order THEN Mark(s, s.order[order[k]]) ELSE @[k]],
          !.next = ItemAt(s, stop),
          !.index = IndexIn(s, here, page, StartPos(s), IF past THEN stop ELSE stop - 1)]
      Draw(page) ==
        Show(page, [k \in 1..Cardinality(page) |->
                      CHOOSE i \in page : Cardinality({j \in page : j <= i}) = k],
             Stop(page))
  IN IF s.total = 0 THEN [s EXCEPT !.objs = 0, !.cnt = 0]
     ELSE Draw(PageFrom(s, StartPos(s)))

\* An empty page gives way to the last one.
DisplayPage(s, here, past) ==
  LET Again(last) == IF last.start = s.start THEN last
                     ELSE Drawn(last, here, past)
      Try(d) == IF s.total = 0 \/ d.objs # 0 THEN d ELSE Again(LastPage(d))
  IN Try(Drawn(s, here, past))

\* update_page draws the marks that changed, and the cursor goes one on from
\* the last of them, or from where it was.
UpdatePage(s) ==
  LET At(i) == IF i = s.cnt THEN 0 ELSE i
      Update(new) ==
        [s EXCEPT !.shown = new,
                  !.index = At(IF new = s.shown THEN @ + 1
                               ELSE Max({k \in DOMAIN new : new[k] # s.shown[k]}))]
  IN Update([k \in DOMAIN s.shown |->
               IF k <= s.cnt THEN Mark(s, s.items[k]) ELSE s.shown[k]])
================================================================================
