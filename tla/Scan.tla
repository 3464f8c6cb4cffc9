--------------------------------- MODULE Scan ----------------------------------
(***************************************************************************)
(* Scan mode: a group's articles as a list on pages, with a pointer, in    *)
(* which they are marked for reading, selected and killed (libtrn/scan.cpp,*)
(* spage.cpp, sorder.cpp, scmd.cpp, sdisp.cpp and the sa*.cpp files).      *)
(*                                                                         *)
(* The entries of the list are 1, 2, ... in the order of their articles'   *)
(* numbers. Some articles are gone without anybody knowing; this comes out *)
(* when something of them is fetched, and then they count as read. A score *)
(* is a constant here, module Scores says where it comes from; an entry    *)
(* has it or not. PageLines is the height of the screen without the bars.  *)
(***************************************************************************)
EXTENDS Integers, Sequences, FiniteSets, SequencesExt, FiniteSetsExt

CONSTANTS
  Lists,      \* groups: [arts |-> sequence of [subject, score, lines, hit, gone],
              \*   absFirst (g_abs_first, an article's number), long (with summaries),
              \*   stay (g_sa_mark_stay), refold (g_sa_unzoom_refold)]
  Starts,     \* how the list is shown at first: [fold, byScore]
  PageLines,
  Arrivals,   \* entries of a list that come later
  Bars,       \* the scores that one may kill by
  MaxCommands \* bound on the user's commands

ASSUME ScanAssumption ==
  \A l \in Lists : /\ Len(l.arts) > Arrivals
                   /\ \A e \in DOMAIN l.arts : l.arts[e].lines \in 1..PageLines

VARIABLES
  list,     \* the group
  scan,     \* g_art_scan and g_sa_ents, see Begin
  commands,
  command   \* history: the command that made the last step, "" when it was another

scanVars == <<list, scan, commands, command>>

\* at: "page" is s_cmd_loop, "group" is the loop over articles, "left" and "lost": the
\* code uses a page without entries or entries that do not exist. ptr is ptr_page_line + 1.
\* calm: since the page was filled nothing was scored or found to be gone.
Begin(n, start) ==
  [at |-> "group", in |-> FALSE, target |-> 0,
   read |-> {}, found |-> {}, scored |-> {}, marked |-> {}, selected |-> {},
   fold |-> start.fold, byScore |-> start.byScore, zoom |-> FALSE, readToo |-> FALSE,
   newFirst |-> FALSE,
   order |-> [e \in 1..n |-> e], changed |-> TRUE,
   page |-> <<>>, top |-> -1, ptr |-> 1, refill |-> TRUE, ref |-> TRUE, calm |-> FALSE]

-------------------------------------------------------------------------------
\* The order of the entries.

\* sa_compare: does a come before b?
Before(w, a, b) ==
  IF ~w.byScore \/ {a, b} \cap w.scored = {} THEN a < b
  ELSE IF ~({a, b} \subseteq w.scored) THEN a \in w.scored
  ELSE \/ list.arts[a].score > list.arts[b].score
       \/ list.arts[a].score = list.arts[b].score /\ IF w.newFirst THEN a > b ELSE a < b

\* sort_basic: the larger son of the place that has j as its first
Son(w, s, j, n) == IF j < n /\ Before(w, s[j], s[j + 1]) THEN j + 1 ELSE j
RECURSIVE Sift(_, _, _, _, _)
SiftFrom(w, s, t, k, n) ==
  IF Before(w, s[k], t) THEN [s EXCEPT ![k \div 2] = t]
  ELSE Sift(w, [s EXCEPT ![k \div 2] = s[k]], t, 2 * k, n)
Sift(w, s, t, j, n) ==
  IF j > n THEN [s EXCEPT ![j \div 2] = t] ELSE SiftFrom(w, s, t, Son(w, s, j, n), n)
RECURSIVE Drain(_, _, _)
\* From the end on, the first of the heap is put where the heap ends.
Drain(w, s, n) ==
  IF n < 2 THEN s ELSE Drain(w, Sift(w, [s EXCEPT ![n] = s[1]], s[n], 2, n - 1), n - 1)
RECURSIVE HeapSort(_, _, _)
HeapSort(w, s, i) ==
  IF i = 0 THEN Drain(w, s, Len(s)) ELSE HeapSort(w, Sift(w, s, s[i], 2 * i, Len(s)), i - 1)
Sort(w) == [w EXCEPT !.order = HeapSort(w, @, Len(@) \div 2), !.changed = FALSE]
\* What first, last, next and prev begin with.
Sorted(w) == IF w.changed THEN Sort(w) ELSE w
Place(w, e) == CHOOSE i \in DOMAIN w.order : w.order[i] = e
Later(w, e) == SubSeq(w.order, Place(w, e) + 1, Len(w.order))
Earlier(w, e) == Reverse(SubSeq(w.order, 1, Place(w, e) - 1))

-------------------------------------------------------------------------------
\* Which entries are shown. What looks at articles may find that one is gone, so that
\* each of these has the new state as w and its result as e (0 for none) or ok.

\* sa_desc_subject; a header that cannot be had gives "(no subject)"
Subject(e) == IF list.arts[e].gone THEN "(no subject)" ELSE list.arts[e].subject
\* Something of the articles is fetched: one_missing for those that are gone.
Fetched(w, es) ==
  LET gone == {e \in es : list.arts[e].gone}
  IN [w EXCEPT !.found = @ \cup gone, !.read = @ \cup gone]
\* score_art and set_score
Score(w, e) ==
  IF e \in w.scored \cup w.found THEN w
  ELSE IF list.arts[e].gone THEN Fetched(w, {e})
  ELSE [w EXCEPT !.scored = @ \cup {e}, !.changed = TRUE]
\* sa_ent_lines
EntLines(e) == IF list.long /\ ~list.arts[e].gone THEN list.arts[e].lines ELSE 1
Measured(w, e) == IF list.long THEN Fetched(w, {e}) ELSE w
\* s_get_desc: the score and the subject are shown
Described(w, e) == Fetched(Score(w, e), {e})

\* sa_basic_elig
Basic(w, e) ==
  /\ w.readToo \/ e \notin w.read
  /\ w.zoom => e \in w.selected
  /\ w.byScore => e \in w.scored
  /\ e \notin w.found
\* sa_subj_thread_prev and sa_subj_thread_next, where es are the entries to look at
SubjThread(w, e, es) ==
  LET basic == SelectSeq(es, LAMBDA b : Basic(w, b))
      same == {i \in DOMAIN basic : Subject(basic[i]) = Subject(e)}
      n == IF same = {} THEN Len(basic) ELSE Min(same)
  IN [w |-> Fetched(w, {e} \cup {basic[i] : i \in 1..n}),
      e |-> IF same = {} THEN 0 ELSE basic[n]]
\* sa_eligible; in fold mode an entry is one if it is the first of its thread.
IfAlone(t) == [w |-> t.w, ok |-> t.e = 0]
Foremost(w, e) ==
  IF ~Basic(w, e) THEN [w |-> w, ok |-> FALSE] ELSE IfAlone(SubjThread(w, e, Earlier(w, e)))
Eligible(w, e) ==
  IF w.fold THEN Foremost(Sorted(w), e) ELSE [w |-> w, ok |-> Basic(w, e)]
RECURSIVE FirstElig(_, _)
OrFirstElig(el, es) ==
  IF el.ok THEN [w |-> el.w, e |-> Head(es)] ELSE FirstElig(el.w, Tail(es))
FirstElig(w, es) ==
  IF es = <<>> THEN [w |-> w, e |-> 0] ELSE OrFirstElig(Eligible(w, Head(es)), es)
FirstLater(w, e) == FirstElig(w, Later(w, e))
FirstEarlier(w, e) == FirstElig(w, Earlier(w, e))
NextElig(w, e) == FirstLater(Sorted(w), e)
PrevElig(w, e) == FirstEarlier(Sorted(w), e)
\* The first eligible entry, from the top.
FirstOf(w) == FirstElig(w, w.order)
TopElig(w) == FirstOf(Sorted(w))

-------------------------------------------------------------------------------
\* The page.

Lines(es) == FoldLeft(LAMBDA n, e : n + EntLines(e), 0, es)
RECURSIVE Take(_, _, _)
\* Behind the entries got, those eligible ones that still fit
TakeOn(n, forward, got) ==
  LET w == IF n.e = 0 THEN n.w ELSE Measured(n.w, n.e)
  IN IF n.e = 0 \/ Lines(got) + EntLines(n.e) > PageLines THEN [w |-> w, got |-> got]
     ELSE Take(w, forward, Append(got, n.e))
Take(w, forward, got) ==
  TakeOn(IF forward THEN NextElig(w, Last(got)) ELSE PrevElig(w, Last(got)), forward, got)
\* page_has_unavailable_entries
Unavailable(w) == Range(w.page) \cap w.found # {}

Paged(w, page) ==
  [w EXCEPT !.page = page, !.ref = TRUE, !.calm = TRUE,
            !.ptr = IF @ > Len(page) THEN Len(page) ELSE @]
RECURSIVE Fill(_, _, _)
FillDone(w, start, forward) ==
  IF Unavailable(w) THEN Fill(w, start, forward) ELSE [w |-> w, ok |-> TRUE]
OnPage(t, forward) ==
  LET page == IF forward THEN t.got ELSE Reverse(t.got)
  IN [Paged(t.w, page) EXCEPT !.top = page[1]]
FillFrom(n, start, forward) ==
  IF n.e = 0 THEN [w |-> n.w, ok |-> FALSE]
  ELSE FillDone(OnPage(Take(Measured(n.w, n.e), forward, <<n.e>>), forward), start, forward)
ThisOrNext(this, e, forward) ==
  IF this.ok THEN [w |-> this.w, e |-> e]
  ELSE IF forward THEN NextElig(this.w, e) ELSE PrevElig(this.w, e)
\* fill_page_forward and fill_page_backward
Fill(w, start, forward) ==
  LET empty == [w EXCEPT !.page = <<>>, !.ref = TRUE, !.calm = TRUE]
  IN IF start \notin DOMAIN w.order THEN [w |-> [empty EXCEPT !.at = "lost"], ok |-> TRUE]
     ELSE FillFrom(ThisOrNext(Eligible(empty, start), start, forward), start, forward)

\* A plausible mistake: an entry of the page that is still eligible stays, even if
\* another one now comes before it.
GoodAlways(w, e, a) == TRUE
\* Is e, which is on the page, still the next eligible entry?
Good(w, e, a) == e = a
RECURSIVE Kept(_, _, _)
KeptOne(el, a, got, rest) ==
  IF a = 0 \/ ~el.ok \/ ~Good(el.w, Head(rest), a) THEN [w |-> el.w, got |-> got]
  ELSE Kept(NextElig(el.w, a), Append(got, Head(rest)), Tail(rest))
\* Of the rest of the page, the entries that are still the next ones
Kept(n, got, rest) ==
  IF rest = <<>> THEN [w |-> n.w, got |-> got]
  ELSE KeptOne(Eligible(n.w, Head(rest)), n.e, got, rest)
RECURSIVE Refill(_)
RefillDone(w) == IF Unavailable(w) THEN Refill(w) ELSE [w |-> w, ok |-> TRUE]
RefillOn(t) == RefillDone(Paged(t.w, t.got))
RefillBehind(good) == RefillOn(Take(good.w, TRUE, good.got))
RefillFrom(first, top, page) ==
  IF ~first.ok THEN Fill(first.w, top, TRUE)
  ELSE RefillBehind(Kept(NextElig(first.w, page[1]), <<page[1]>>, Tail(page)))
\* refill_page
Refill(w) ==
  IF Len(w.page) < 2 \/ w.top < 1 \/ w.top # w.page[1] THEN Fill(w, w.top, TRUE)
  ELSE RefillFrom(Eligible(w, w.page[1]), w.top, w.page)

\* go_top_ents: without eligible entries an article's number is taken for an entry.
Topped(t) ==
  [t.w EXCEPT !.top = IF t.e = 0 THEN list.absFirst ELSE t.e, !.refill = TRUE, !.ptr = 1]
GoTop(w) == Topped(TopElig(w))
\* "downgrade eligibility standards"
ZoomOut(w) == GoTop([w EXCEPT !.zoom = FALSE, !.fold = @ \/ list.refold])
RECURSIVE AllElig(_, _)
AndAllElig(el, es) == IF el.ok THEN AllElig(el.w, es) ELSE el
AllElig(w, es) ==
  IF es = <<>> THEN [w |-> w, ok |-> TRUE] ELSE AndAllElig(Eligible(w, Head(es)), Tail(es))
RECURSIVE FillPage(_)
FillAgain(check) == IF ~check.ok \/ Unavailable(check.w) THEN FillPage(check.w) ELSE check
FillCheck(b) ==
  IF b.w.at = "lost" THEN b
  ELSE IF b.ok THEN FillAgain(AllElig(b.w, b.w.page))
  ELSE IF b.w.zoom THEN FillPage(ZoomOut(b.w)) ELSE b
OrBackward(r) == FillCheck(IF r.ok THEN r ELSE Fill(r.w, r.w.top, FALSE))
\* fill_page
FillPage(w) ==
  OrBackward(Refill([w EXCEPT !.refill = FALSE, !.top = IF @ < 1 THEN Sorted(w).order[1] ELSE @]))

\* s_refresh: what is shown is fetched; the bottom line says whether there is more.
LookedAround(d) == NextElig(PrevElig(d, d.page[1]).w, Last(d.page)).w
ShownAs(x, w) ==
  [x EXCEPT !.ref = FALSE,
            !.calm = @ /\ x.found = w.found /\ (w.byScore => x.scored = w.scored)]
Shown(w) ==
  IF w.page = <<>> THEN [w EXCEPT !.at = "lost"]
  ELSE IF ~w.ref THEN w
  ELSE ShownAs(LookedAround(FoldLeft(Described, w, w.page)), w)
\* The loop of s_cmd_loop, from a command to the next.
ShowFilled(f) ==
  IF ~f.ok THEN [f.w EXCEPT !.at = "left"] ELSE IF f.w.at = "lost" THEN f.w ELSE Shown(f.w)
Looped(w) ==
  IF w.at # "page" THEN w
  ELSE ShowFilled(IF w.refill THEN FillPage(w) ELSE [w |-> w, ok |-> TRUE])

-------------------------------------------------------------------------------
\* Killing, marking and selecting.

Kill(w, es) == [w EXCEPT !.read = @ \cup es, !.marked = @ \ es]
KillUnmarked(w, es) == [w EXCEPT !.read = @ \cup (es \ w.marked)]
KillMarked(w, es) == Kill(w, es \cap w.marked)
Toggled(S, es) == (S \ es) \cup (es \ S)
Mark1(w, es) == [w EXCEPT !.marked = Toggled(@, es)]
\* In zoom mode an entry that is no longer selected goes from the page.
Select1(w, es) ==
  [w EXCEPT !.selected = Toggled(@, es), !.refill = @ \/ (w.zoom /\ es \cap w.selected # {})]
\* sa_art_cmd_prim: one primitive for all of es
Prim(prim, w, es) ==
  CASE prim = "kill" -> Kill(w, es)
    [] prim = "kill_unmarked" -> KillUnmarked(w, es)
    [] prim = "mark" -> Mark1(w, es)
    [] prim = "select" -> Select1(w, es)
\* sa_art_cmd: prim for e and, if there are several, for those behind it with its subject
Behind(w, e) == SelectSeq(Later(w, e), LAMBDA b : Basic(w, b))
Multiple(prim, w, e, behind) ==
  Prim(prim, Fetched(w, {e} \cup behind),
       {e} \cup {b \in behind : Subject(b) = Subject(e)})
ThreadCmd(prim, w, e) == Multiple(prim, w, e, Range(Behind(w, e)))
ArtCmd(multiple, prim, w, e) ==
  IF multiple THEN ThreadCmd(prim, Sorted(w), e) ELSE Prim(prim, w, {e})
\* sa_read_marked_elig: the first of the marked entries, if there is one
MarkedElig(w) == SelectSeq(w.order, LAMBDA e : Basic(w, e) /\ e \in w.marked)
\* sa_main returns to have the article of e read.
Return(w, e) == [w EXCEPT !.at = "group", !.target = e]
ReadOr(es, w, otherwise) ==
  IF es = <<>> THEN otherwise ELSE Return([w EXCEPT !.marked = @ \ {es[1]}], es[1])
ReadSorted(w, otherwise) == ReadOr(MarkedElig(w), w, otherwise)
ReadMarked(w, otherwise) == ReadSorted(Sorted(w), otherwise)
\* After a mark or a selection the pointer moves on, and around.
MovedOn(w) == [w EXCEPT !.ptr = IF list.stay THEN @ ELSE IF @ < Len(w.page) THEN @ + 1 ELSE 1]
Refilled(w) == [w EXCEPT !.refill = TRUE]

This == scan.page[scan.ptr]

-------------------------------------------------------------------------------
\* The commands: s_do_cmd and sa_do_cmd.

Command(name, w) ==
  /\ scan.at = "page" /\ commands < MaxCommands /\ commands' = commands + 1
  /\ \E x \in {w} : \E y \in {Looped(x)} : scan' = y
  /\ command' = name
  /\ UNCHANGED list

Filled(f, ptr) == IF f.ok THEN [f.w EXCEPT !.ptr = ptr] ELSE [f.w EXCEPT !.at = "lost"]
\* go_next_page, where the page is filled again; it must not fail.
TurnTo(n) == Filled(Fill(n.w, n.e, TRUE), 1)
NextPageOf(w) == TurnTo(NextElig(w, Last(w.page)))
Refetched(f) == IF ~f.ok THEN [f.w EXCEPT !.at = "lost"] ELSE Filled(Refill(f.w), 1)
TurnBackTo(p) == Refetched(Fill(p.w, p.e, FALSE))
PrevPageOf(w) == TurnBackTo(PrevElig(w, w.page[1]))
AtItsEnd(w) == IF w.at = "lost" THEN w ELSE [w EXCEPT !.ptr = Len(w.page)]

OnTo(n) == IF n.e = 0 THEN Refilled(n.w) ELSE NextPageOf(n.w)
NextArt ==     \* n
  Command("n", IF scan.ptr < Len(scan.page) THEN [scan EXCEPT !.ptr = @ + 1]
               ELSE OnTo(NextElig(scan, Last(scan.page))))
BackTo(p) == IF p.e = 0 THEN Refilled(p.w) ELSE AtItsEnd(PrevPageOf(p.w))
PrevArt ==     \* p
  Command("p", IF scan.ptr > 1 THEN [scan EXCEPT !.ptr = @ - 1]
               ELSE BackTo(PrevElig(scan, scan.page[1])))
PageIfMore(n) == IF n.e = 0 THEN n.w ELSE NextPageOf(n.w)
NextPage == Command(">", PageIfMore(NextElig(scan, Last(scan.page))))
PageIfBefore(p) == IF p.e = 0 THEN p.w ELSE PrevPageOf(p.w)
PrevPage == Command("<", PageIfBefore(PrevElig(scan, scan.page[1])))
TopOfList == Command("T", GoTop(scan))
AtBottom(f) == IF f.ok THEN [f.w EXCEPT !.ptr = Len(f.w.page)] ELSE [f.w EXCEPT !.at = "left"]
LastFilled(w) == AtBottom(Fill(w, Last(w.order), FALSE))
EndOfList == Command("B", LastFilled(Sorted(scan)))
\* t, b, and an item's number
Item == \E i \in DOMAIN scan.page : i # scan.ptr /\ Command("item", [scan EXCEPT !.ptr = i])

\* forward_search and backward_search among the entries es: descriptions are made until
\* one has the text.
HasText(e) == list.arts[e].hit /\ ~list.arts[e].gone
Made(w, e) == Described(Measured(w, e), e)
RECURSIVE SearchIn(_, _)
SearchFrom(el, es) ==
  IF ~el.ok THEN SearchIn(el.w, Tail(es))
  ELSE IF HasText(Head(es)) THEN [w |-> Made(el.w, Head(es)), e |-> Head(es)]
  ELSE SearchIn(Made(el.w, Head(es)), Tail(es))
SearchIn(w, es) ==
  IF es = <<>> THEN [w |-> w, e |-> 0] ELSE SearchFrom(Eligible(w, Head(es)), es)
SearchLater(w, e) == SearchIn(w, Later(w, e))
SearchEarlier(w, e) == SearchIn(w, Earlier(w, e))
\* From the top, the first entry is looked at whether it is eligible or not.
FromTop(w, top) ==
  IF HasText(top) THEN [w |-> Made(w, top), e |-> top] ELSE SearchLater(Sorted(Made(w, top)), top)
AllFromTop(w) == FromTop(w, w.order[1])
OrFromTop(s) ==
  IF s.e # 0 THEN s ELSE [AllFromTop(Sorted(s.w)) EXCEPT !.e = IF @ = This THEN 0 ELSE @]
ShowHit(f, ch) ==
  [f.w EXCEPT !.ptr = IF ch = "?" THEN Len(f.w.page) ELSE 1, !.refill = @ \/ ch = "?"]
GoToHit(hit, ch) ==
  LET on == {i \in DOMAIN hit.w.page : hit.w.page[i] = hit.e}
  IN IF hit.e = 0 THEN [hit.w EXCEPT !.ref = TRUE]
     ELSE IF on # {} THEN [hit.w EXCEPT !.ptr = Min(on)]
     ELSE ShowHit(Fill(hit.w, hit.e, ch # "?"), ch)
ScanSearch(ch) ==      \* /, ? and g
  Command(ch, GoToHit(CASE ch = "?" -> SearchEarlier(Sorted(scan), This)
                        [] ch = "/" -> SearchLater(Sorted(scan), This)
                        [] ch = "g" -> OrFromTop(SearchLater(Sorted(scan), This)), ch))

\* kill_threshold: an entry without a score has 0.
KillBelowScore(t) ==   \* K
  LET ScoreOf(e) == IF e \in scan.scored THEN list.arts[e].score ELSE 0
  IN Command("K", Refilled([scan EXCEPT !.read = @ \cup {e \in DOMAIN scan.order :
                              ScoreOf(e) <= t /\ Basic(scan, e)}]))
\* A plausible mistake: in fold mode the rest of a thread goes whose first is marked.
SparedNever(w, e) == FALSE
\* Is e left alone by D?
Spared(w, e) == e \in w.marked /\ w.fold
ReadMarkedOrFill(w) == ReadMarked(w, Refilled(w))
KillPage ==            \* D
  Command("D", LET Op(w, e) == IF Spared(w, e) THEN w ELSE ArtCmd(w.fold, "kill_unmarked", w, e)
               IN ReadMarkedOrFill(FoldLeft(Op, scan, scan.page)))
JunkMarked ==          \* J
  Command("J", LET Op(w, e) == IF ~w.fold THEN KillMarked(w, {e})
                               ELSE IF e \in w.marked THEN ArtCmd(TRUE, "kill", w, e) ELSE w
               IN Refilled(FoldLeft(Op, scan, scan.page)))
JunkUnmarked ==        \* X
  Command("X", LET \* Of a thread, those behind a marked article stay.
                   Op(w, e) ==
                     LET before == {b \in Range(Earlier(w, e)) : Basic(w, b) /\ b \in w.marked
                                                                /\ Subject(b) = Subject(e)}
                         looked == {e} \cup {b \in Range(Earlier(w, e)) :
                                             Basic(w, b) /\ \A m \in before : ~Before(w, b, m)}
                         x == IF w.fold THEN Fetched(w, looked) ELSE w
                     IN IF ~Basic(w, e) \/ e \in w.marked THEN w
                        ELSE IF w.fold /\ before # {} THEN x
                        ELSE [x EXCEPT !.read = @ \cup {e}]
                   Over(w) == FoldLeft(Op, w, w.order)
               IN ReadMarkedOrFill(Over(Sorted(scan))))
CatchUpTo(n) ==        \* c; n articles at the end stay
  Command("c", Refilled([scan EXCEPT !.read = @ \cup (1..(Len(scan.order) - n))]))
JunkThis == Command("j", Refilled(ArtCmd(FALSE, "kill", scan, This)))
KillThread == Command("k", Refilled(ArtCmd(TRUE, "kill", scan, This)))
MarkIt(multiple) == Command("m", MovedOn(ArtCmd(multiple, "mark", scan, This)))
SelectIt(multiple) ==
  Command("s", LET w == ArtCmd(multiple, "select", scan, This)
               IN IF w.zoom THEN w ELSE MovedOn(w))

ToggleOrder ==         \* o
  Command("o", GoTop(Sort([scan EXCEPT !.byScore = ~@])))
ToggleNewFirst ==      \* O
  scan.byScore /\ Command("O", GoTop(Sort([scan EXCEPT !.newFirst = ~@])))
\* init scores the last article that it can.
LastScored(w) ==
  LET there == {e \in DOMAIN w.order : ~list.arts[e].gone}
      m == Max(there)
  IN Score(Fetched(w, m..Len(w.order)), m)
RescoreAll ==          \* R
  Command("R", GoTop(Sort([LastScored([scan EXCEPT !.scored = {}]) EXCEPT !.top = -1])))
\* Every mode that hides or shows entries goes to the top, unless nothing is left.
Changed(name, w, otherwise) ==
  Command(name, LET t == TopElig(w) IN IF t.e # 0 THEN GoTop(t.w) ELSE otherwise)
ToggleReadToo ==       \* U; without anything to show scan mode is left
  LET w == [scan EXCEPT !.readToo = ~@] IN Changed("U", w, [w EXCEPT !.at = "left"])
Fold == Command("F", Refilled([scan EXCEPT !.fold = ~@]))
Zoomed(w) == [w EXCEPT !.zoom = ~@, !.fold = @ \/ (list.refold /\ w.zoom)]
Zoom ==                \* z; back again if nothing is selected
  Changed("z", Zoomed(scan), [Zoomed(scan) EXCEPT !.zoom = ~@])
Zero ==                \* Z
  LET w == [scan EXCEPT !.selected = {}]
  IN IF w.zoom THEN Changed("Z", Zoomed(w), [Zoomed(w) EXCEPT !.zoom = ~@]) ELSE Command("Z", w)

\* ^N and ^P: to the next eligible entry with this subject
RECURSIVE SameSubject(_, _)
SubjectFrom(el, es) ==
  LET x == Fetched(el.w, {Head(es)})
  IN IF ~el.ok THEN SameSubject(el.w, Tail(es))
     ELSE IF Subject(Head(es)) = Subject(This) THEN [w |-> x, e |-> Head(es)]
     ELSE SameSubject(x, Tail(es))
SameSubject(w, es) ==
  IF es = <<>> THEN [w |-> w, e |-> 0] ELSE SubjectFrom(Eligible(w, Head(es)), es)
ShowSame(f, forward) ==
  IF forward \/ ~f.ok THEN [f.w EXCEPT !.ptr = 1]
  ELSE Refill([f.w EXCEPT !.ptr = Len(f.w.page)]).w
GoToSame(b, forward) ==
  LET on == {i \in DOMAIN b.w.page : b.w.page[i] = b.e
                 /\ IF forward THEN i > scan.ptr ELSE i < scan.ptr}
  IN IF b.e = 0 THEN b.w
     ELSE IF on # {} THEN [b.w EXCEPT !.ptr = Min(on)]
     ELSE ShowSame(Fill(b.w, b.e, forward), forward)
SameOf(w, forward) ==
  SameSubject(Fetched(w, {This}), IF forward THEN Later(w, This) ELSE Earlier(w, This))
FollowSubject(forward) == Command("^", GoToSame(SameOf(Sorted(scan), forward), forward))

ReadThis == Command("r", Return(scan, This))
StartReading(stay) ==  \* space and Q
  Command("space", ReadMarked([scan EXCEPT !.in = stay], Return([scan EXCEPT !.in = stay], This)))
GoToArticle(e) == Command("G", Return(scan, e))
Selector == Command("+", [Return(scan, This) EXCEPT !.in = FALSE])
LeaveList == Command("q", [scan EXCEPT !.at = "left"])    \* q, N, P and `

-------------------------------------------------------------------------------
\* While the user thinks, articles are scored, one by one.
ScoreOne(e) ==
  /\ scan.at = "page" /\ commands < MaxCommands
  /\ e \in DOMAIN scan.order \ (scan.scored \cup scan.found)
  /\ scan.readToo \/ e \notin scan.read
  /\ scan' = [Score(scan, e) EXCEPT !.calm = @ /\ ~scan.byScore /\ ~list.arts[e].gone]
  /\ command' = "" /\ UNCHANGED <<list, commands>>

\* In the loop over articles.
InGroup(w) ==
  /\ scan.at = "group" /\ commands < MaxCommands /\ commands' = commands + 1
  /\ scan' = w /\ command' = "" /\ UNCHANGED list
ReadTarget ==
  scan.target # 0 /\ InGroup([Fetched(scan, {scan.target}) EXCEPT
                                !.read = @ \cup {scan.target}, !.target = 0])
MakeUnread(e) == e \in scan.read \ scan.found /\ InGroup([scan EXCEPT !.read = @ \ {e}])
\* sa_grow; new articles are scored at once.
Grow ==
  LET n == Len(scan.order) + 1
  IN /\ n \in DOMAIN list.arts
     /\ InGroup(Score([scan EXCEPT !.order = Append(@, n), !.changed = TRUE], n))
\* sa_main: with ';' the list is shown, without the next marked article is read first.
SaMainLoop(w) == ShowFilled(FillPage([w EXCEPT !.ref = TRUE, !.at = "page"]))
SaMain(w, explicit) == IF explicit THEN SaMainLoop(w) ELSE ReadMarked(w, SaMainLoop(w))
Resume(explicit) ==
  /\ explicit \/ scan.in
  /\ scan.at = "group" /\ \E w \in {SaMain([scan EXCEPT !.in = TRUE], explicit)} : scan' = w
  /\ command' = "" /\ UNCHANGED <<list, commands>>
\* sa_sel_threads: what was selected in the thread selector is selected here. When read
\* articles are shown too, only they are.
FromSelector(S) ==
  /\ scan.at = "group" /\ commands < MaxCommands /\ commands' = commands + 1
  /\ LET es == {e \in S : scan.readToo <=> e \in scan.read}
         w == [scan EXCEPT !.selected = es]
         x == IF w.byScore THEN FoldLeft(Score, w, SetToSortSeq(es, <)) ELSE w
     IN \E y \in {SaMain([Sort(x) EXCEPT !.in = TRUE, !.zoom = TRUE, !.top = -1], TRUE)} : scan' = y
  /\ command' = "" /\ UNCHANGED list

ScanInit ==
  /\ list \in Lists
  /\ \E start \in Starts, read \in {{}, {1}} :
       scan = LastScored([Begin(Len(list.arts) - Arrivals, start) EXCEPT !.read = read])
  /\ commands = 0 /\ command = ""

ScanNext ==
  \/ NextArt \/ PrevArt \/ NextPage \/ PrevPage \/ TopOfList \/ EndOfList \/ Item
  \/ \E ch \in {"/", "?", "g"} : ScanSearch(ch)
  \/ \E t \in Bars : KillBelowScore(t)
  \/ \E n \in 0..1 : CatchUpTo(n)
  \/ KillPage \/ JunkMarked \/ JunkUnmarked \/ JunkThis \/ KillThread
  \/ \E b \in BOOLEAN : MarkIt(b) \/ SelectIt(b) \/ FollowSubject(b) \/ StartReading(b) \/ Resume(b)
  \/ ToggleOrder \/ ToggleNewFirst \/ RescoreAll \/ ToggleReadToo \/ Fold \/ Zoom \/ Zero
  \/ ReadThis \/ Selector \/ LeaveList \/ ReadTarget \/ Grow
  \/ \E e \in DOMAIN scan.order : GoToArticle(e) \/ ScoreOne(e) \/ MakeUnread(e)
  \/ \E S \in SUBSET (DOMAIN scan.order \ scan.found) : FromSelector(S)
ScanSpec == ScanInit /\ [][ScanNext]_scanVars

-------------------------------------------------------------------------------
\* What the list should show: in order, the better score first and those without one at
\* the end, the articles that count, in fold mode the first of each subject.
Listed(w) ==
  LET sorted == SetToSortSeq(DOMAIN w.order, LAMBDA a, b : Before(w, a, b))
      basic == SelectSeq(sorted, LAMBDA e : Basic(w, e))
  IN IF ~w.fold THEN basic
     ELSE [i \in 1..Cardinality({Subject(e) : e \in Range(basic)}) |->
             LET Rank(k) == Cardinality({Subject(basic[j]) : j \in 1..k})
             IN basic[Min({k \in DOMAIN basic : Rank(k) = i})]]
\* A page that waits for a command has the pointer on one of its entries. After it was
\* filled, however it was reached and whatever was killed, selected, folded or sorted
\* before, it shows the entries of the list one after the other, and as many as fit. It
\* is lost only where an article turned out to be gone, or when nothing at all is left
\* to list and zoom mode looks for the entry of the first article's number.
PageIsTheList ==
  /\ scan.at = "page" => scan.ptr \in DOMAIN scan.page
  /\ scan.at = "page" /\ scan.calm =>
       \E l \in {Listed(scan)} : \E i \in DOMAIN l :
         LET n == Len(scan.page)
         IN /\ i + n - 1 <= Len(l) /\ scan.page = SubSeq(l, i, i + n - 1)
            /\ i + n > Len(l) \/ Lines(scan.page) + EntLines(l[i + n]) > PageLines
  /\ scan.at = "lost" => scan.found # {} \/ Listed(scan) = <<>>

\* What one command makes read, beyond the articles that turn out to be gone.
KilledBy(c, w) ==
  LET On(e) == \E i \in DOMAIN w.page : w.page[i] = e
      With(e, M) == \E i \in DOMAIN w.page : w.page[i] \in M /\ Subject(w.page[i]) = Subject(e)
      all == DOMAIN w.order
      basic == {e \in all : Basic(w, e)}
      before(e) == {b \in basic : Subject(b) = Subject(e) /\ Before(w, b, e)}
  IN CASE c = "D" -> {e \in basic \ w.marked : IF w.fold THEN With(e, all \ w.marked) ELSE On(e)}
       [] c = "J" -> {e \in basic : IF w.fold THEN With(e, w.marked) ELSE On(e) /\ e \in w.marked}
       [] c = "X" -> {e \in basic \ w.marked : w.fold => before(e) \cap w.marked = {}}
       [] c = "k" -> {e \in basic : Subject(e) = Subject(w.page[w.ptr])
                                      /\ ~Before(w, e, w.page[w.ptr])}
       [] c = "j" -> {w.page[w.ptr]}
       [] OTHER -> {}
\* On a page that is up to date the commands that kill make read what they say and no
\* more: D the page without its marked articles, J the marked ones, X what is not marked,
\* in fold mode with the threads behind the entries; and no other command but K and c does.
KillsAreExact ==
  [][command' \notin {"", "K", "c"} /\ scan.calm =>
       (scan'.read \ scan.read) \ scan'.found
         = KilledBy(command', scan) \ (scan.read \cup scan'.found)]_scanVars
================================================================================
