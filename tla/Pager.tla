--------------------------------- MODULE Pager ---------------------------------
(***************************************************************************)
(* The article pager (libtrn/art.cpp) on top of the presentation buffer    *)
(* (artio.cpp) and the array of line positions (backpage.cpp), with the    *)
(* article level's commands that show the article again (ng.cpp).          *)
(*                                                                         *)
(* A text is its screen rows. A buffered line is a row and those after it  *)
(* that overflow from it ("over"); a line that the buffer has wrapped goes *)
(* on in a buffered line of kind "wrap". A position is the number of rows  *)
(* before it. The header's lines, with the empty line that ends it, are    *)
(* the first rows. What a row shows is its number.                         *)
(***************************************************************************)
EXTENDS Integers, Sequences

CONSTANTS
  Sessions,  \* what is shown, and how: [text |-> [head, rows of [kind, hide, feed, hits]],
             \*   mode |-> [erase (-e), marking (-m), insert (terminal), remote]]
  Patterns,  \* what the user searches for; rows have those that match in "hits"
  LINES,     \* g_tc_LINES
  InitLines, \* g_init_lines, -i
  VARY_SIZE, \* entries of the window onto the array of positions
  MaxInputs, \* bound on commands other than going forward
  MaxStops   \* bound on interrupts

ASSUME SessionsAssumption ==
  \A s \in Sessions : s.text.head \in 2..Len(s.text.rows) /\ ~s.text.rows[s.text.head].hide
ASSUME LinesAssumption == LINES > 2 /\ InitLines \in 1..LINES /\ VARY_SIZE > 0

VARIABLES
  text,    \* the article
  mode,    \* the options
  place,   \* "page", "line", "paged", "prompt"; "read", "stopped", "left" are
           \* do_article's results; "lost" is what the code leaves undefined
  pager,   \* struct ArticlePager
  input,   \* g_art_input: [pos, line_num]
  buf,     \* g_art_buf's position, and g_art_size, -1 until it is known: [pos, size]
  local,   \* of do_article: [line_num, hide, head (in_header), from, to (body_line)]
  vary,    \* BackPageCache: [win, block, file]
  screen,  \* history: the rows on the screen, [row, line]; the title is line -1
  sought,  \* history: the row that a search has found, until the next input
  strayed, \* history: with the rest of a line to come, a command moved the buffer's
           \* position and left it to come
  inputs,
  stops

pagerVars == <<text, mode, place, pager, input, buf, local, vary, screen, sought, strayed,
               inputs, stops>>

Rows == text.rows
HeadRows == text.head
Size == Len(Rows)
Larger(a, b) == IF a < b THEN b ELSE a
Size0(a) == IF a < 0 THEN -a ELSE a

Work == [pager |-> pager, input |-> input, buf |-> buf, local |-> local, vary |-> vary,
         screen |-> screen, place |-> place]
Do(work) ==
  \E w \in {work} :
    /\ pager' = w.pager /\ input' = w.input /\ buf' = w.buf /\ local' = w.local
    /\ vary' = w.vary /\ screen' = w.screen /\ place' = w.place

-------------------------------------------------------------------------------
\* The array of positions: a window onto a file.

BlockOf(n) == n \div VARY_SIZE
Blank == [i \in 0..(VARY_SIZE - 1) |-> 0]
Moved(v, n) ==
  LET Saved == [b \in DOMAIN v.file \cup {v.block} |-> IF b = v.block THEN v.win ELSE v.file[b]]
  IN IF n < 0 \/ BlockOf(n) = v.block THEN v
     ELSE [block |-> BlockOf(n), file |-> Saved,
           win |-> IF BlockOf(n) \in DOMAIN Saved THEN Saved[BlockOf(n)] ELSE v.win]
\* What vary_read returns.
VaryRead(v, n) == IF n < 0 THEN 0 ELSE Moved(v, n).win[n % VARY_SIZE]
PosOf(w, n) == Size0(VaryRead(w.vary, n))
Look(w, n) == [w EXCEPT !.vary = Moved(@, n)]
Write(w, n, pos) ==
  [w EXCEPT !.vary = [Moved(@, n) EXCEPT !.win[n % VARY_SIZE] = pos]]
Note(w) == Write(w, w.input.line_num, w.input.pos)

-------------------------------------------------------------------------------
\* The presentation buffer.

\* Where the buffered line from a position ends.
LineEnd(pos) ==
  CHOOSE e \in (pos + 1)..Size :
    /\ e = Size \/ Rows[e + 1].kind # "over"
    /\ \A i \in (pos + 2)..e : Rows[i].kind = "over"
AtEnd(w) == w.buf.pos >= Size
\* read_art_buf, unless AtEnd
ReadLine(w) == [w EXCEPT !.buf.pos = LineEnd(@)]
Seek(w, pos) == [w EXCEPT !.buf.pos = pos]
\* finish_body and size_from_raw
Sized(w) == [w EXCEPT !.buf.size = Size]

-------------------------------------------------------------------------------
\* One line of a page.

Clear(w) == [w EXCEPT !.screen = <<>>]
Shown(w, row) ==
  [w EXCEPT !.screen =
     LET all == Append(@, [row |-> row, line |-> w.input.line_num])
     IN SubSeq(all, Larger(Len(all) - (LINES - 1), 0) + 1, Len(all))]

\* The row that is next and whether it continues one: the rest of the line that
\* overflowed, a header line, or a line of the buffer. What is not in body_line is an empty text:
\* that is what the header's last line is, and otherwise row 0.
NextRow(w) ==
  LET r == w.pager.restart
  IN IF r # 0
     THEN [row |-> IF w.local.from <= r /\ r < w.local.to THEN r + 1
                   ELSE IF r + 1 = HeadRows THEN HeadRows ELSE 0,
           cont |-> TRUE,
           w |-> [w EXCEPT !.pager.restart = 0]]
     ELSE IF w.local.head /\ w.input.pos < HeadRows
     THEN [row |-> w.input.pos + 1, cont |-> FALSE, w |-> w]
     ELSE [row |-> w.buf.pos + 1, cont |-> Rows[w.input.pos + 1].kind = "wrap",
           w |-> [ReadLine(w) EXCEPT !.local.from = w.input.pos,
                                     !.local.to = w.input.pos + LineEnd(w.buf.pos) - w.buf.pos]]
NoMore(w) ==
  w.pager.restart = 0 /\ ~(w.local.head /\ w.input.pos < HeadRows) /\ AtEnd(w)

\* The position was set before the buffer's text, by a command given in the header:
\* where the header ends, what is read next is undefined.
Astray(w) == w.pager.restart = 0 /\ w.input.pos + 1 >= HeadRows /\ w.buf.pos < HeadRows

\* parse_line: a header line is hidden or not; an empty one ends the header.
HeaderRow(w, row) ==
  IF row \in {0, HeadRows} THEN [w EXCEPT !.local.head = FALSE, !.local.hide = FALSE]
  ELSE [w EXCEPT !.local.hide = Rows[row].hide]
\* A line of the text is hidden with what it is continued by.
BodyRow(w, row, cont) ==
  [w EXCEPT !.local.hide = IF cont THEN @ ELSE row # 0 /\ Rows[row].hide]

\* The top line follows what is scrolled off.
TopFollows(w) == [w EXCEPT !.pager.topLine = Larger(w.input.line_num + 1 - LINES, @)]

\* An ordinary line is put out; a form feed at its start, or what matches the
\* page terminator, ends the page.
Endless == 32700
Put(w, row) ==
  LET lit == w.pager.highlight = w.input.line_num
      Out(v) == IF v.pager.hideEverything = "" THEN Shown(v, row) ELSE v
      over == row # 0 /\ row < w.local.to /\ row > w.local.from
      Fed(v) == IF row # 0 /\ Rows[row].feed /\ ~lit
                THEN [v EXCEPT !.local.line_num = Endless] ELSE v
      Counted(v) == [v EXCEPT !.input.line_num = @ + 1,
                              !.pager.restart = IF over THEN row ELSE 0,
                              !.pager.highlight = IF lit THEN -1 ELSE @]
  IN TopFollows(Counted(Fed(Out(w))))
\* A line of the header, through tree_puts.
PutHeader(w, row) == [Shown(w, row) EXCEPT !.input.line_num = @ + 1]

\* A plausible mistake: what overflows is taken to have ended its line.
AdvanceToLineEnd(w) ==
  [w EXCEPT !.input.pos = IF w.local.head THEN @ + 1 ELSE w.buf.pos]
\* The position after the row.
Advance(w) ==
  [w EXCEPT !.input.pos = IF w.pager.restart # 0
                          THEN @ + (w.pager.restart - w.pager.aLineBegin)
                          ELSE IF w.local.head THEN @ + 1 ELSE w.buf.pos]

OneRow(w) ==
  LET n == NextRow(w)
      Begun == [n.w EXCEPT !.pager.aLineBegin = w.input.pos, !.pager.continuation = n.cont]
      Parsed == IF w.local.head THEN HeaderRow(Begun, n.row)
                ELSE BodyRow(Begun, n.row, n.cont)
      Count(v) == [v EXCEPT !.local.line_num = @ + 1]
      Dealt == IF Parsed.local.hide THEN Parsed
               ELSE IF Parsed.local.head THEN Count(PutHeader(Parsed, n.row))
               ELSE Count(Put(Parsed, n.row))
  IN Note(Advance(Dealt))

\* inner_more: the lines up to what was looked for are passed, and then shown
\* by the command that waits in hide_everything.
OnPage(w) == w.input.pos >= w.pager.innerSearch
Found(w) ==
  IF ~OnPage(w) THEN w
  ELSE [w EXCEPT
          !.pager.iSearchLine = w.input.line_num,
          !.pager.highlight = IF w.pager.innerLight # 0 THEN w.pager.innerLight
                              ELSE w.input.line_num - 1,
          !.pager.topLine = Larger(w.input.line_num - (w.pager.gotoLine + 1), -1)]
PageFull(w) ==
  IF w.pager.innerSearch # 0 THEN ~w.local.head /\ OnPage(w)
  ELSE IF w.pager.special THEN w.local.line_num >= w.pager.specialLines
  ELSE IF w.pager.firstPage /\ ~w.local.head THEN w.local.line_num >= InitLines
  ELSE w.local.line_num >= LINES

-------------------------------------------------------------------------------
\* A page.

\* do_fseek: to where the line begins.
Positioned(w) ==
  LET pos == IF w.pager.firstPage THEN 0 ELSE PosOf(w, w.input.line_num)
      v == [Look(w, w.input.line_num) EXCEPT
              !.input.pos = pos, !.pager.doFseek = FALSE, !.pager.restart = 0]
  IN IF pos < HeadRows THEN Seek([v EXCEPT !.local.head = TRUE], HeadRows) ELSE Seek(v, pos)
\* The first page begins with a title of its own.
Titled(w) ==
  Write([w EXCEPT !.screen = <<[row |-> 0, line |-> -1]>>, !.local.line_num = 2,
                  !.local.head = TRUE, !.local.hide = FALSE, !.pager.restart = 0,
                  !.input = [pos |-> 0, line_num |-> 0]], 0, 0)
Placed(w) ==
  LET v == [(IF w.pager.doFseek THEN Positioned(w) ELSE w) EXCEPT
              !.local.line_num = 1, !.place = "line"]
  IN IF v.pager.firstPage THEN Titled(v) ELSE v

\* do_article is entered.
DoArticle(w) ==
  [w EXCEPT !.place = "page", !.pager.firstPage = w.pager.topLine < 0,
            !.buf.pos = IF w.pager.topLine < 0 THEN HeadRows ELSE @,
            !.local.from = 0, !.local.to = 0]

Refreshed(w) ==
  [Clear(w) EXCEPT !.pager.doFseek = TRUE, !.pager.firstPage = w.pager.topLine < 0,
                   !.input.line_num = Larger(w.pager.topLine, 0), !.place = "page"]
\* b, or B: up to the target or to what follows a form feed.
BackUp(w, target) ==
  LET t == w.pager.topLine
      Stop(l) == l < 0 \/ l <= target \/ VaryRead(w.vary, l - 1) < 0
      top == IF t < 0 THEN t ELSE CHOOSE l \in -1..(t - 1) : Stop(l) /\ \A k \in (l + 1)..(t - 1) : ~Stop(k)
  IN Refreshed([Look(w, top - 1) EXCEPT !.pager.topLine = top])
PageUp(w) == BackUp(w, w.pager.topLine - (LINES - 2))
LineUp(w) == BackUp(w, w.pager.topLine - 1)
\* ^E: the rest is passed, and then a page up.
ToEnd(w) ==
  [Seek(Sized(w), w.input.pos) EXCEPT !.pager.topLine = w.input.line_num,
                   !.pager.innerLight = w.input.line_num - 1,
                   !.pager.innerSearch = Size, !.pager.gotoLine = 0,
                   !.pager.hideEverything = "b", !.place = "page"]

\* The page is full, or there is no more: a command that waits is done at once.
\* A form feed is remembered by a negative position.
Closed(w) ==
  LET v == [w EXCEPT !.pager.special = FALSE, !.pager.firstPage = FALSE, !.pager.highlight = -1]
      l == w.input.line_num - 1
  IN IF w.local.line_num >= Endless THEN Write(v, l, -VaryRead(w.vary, l)) ELSE v
\* recheck_pager: the rest of the text is hidden.
RestHidden(w) ==
  /\ ~w.local.head /\ w.pager.restart = 0
  /\ ~(w.local.from < w.local.to /\ w.local.to < Size /\ Rows[w.local.to + 1].kind = "wrap")
  /\ \A i \in (w.buf.pos + 1)..Size : Rows[i].kind = "line" => Rows[i].hide
Rechecked(w) ==
  LET v == IF RestHidden(w) THEN Note([w EXCEPT !.input.pos = Size, !.buf.pos = Size]) ELSE w
  IN [v EXCEPT !.place = IF v.input.pos = v.buf.size THEN "read" ELSE "prompt"]
PageDone(w) ==
  LET v == [w EXCEPT !.pager.innerSearch = 0, !.pager.hideEverything = ""]
  IN IF w.pager.hideEverything = "l" THEN Refreshed(v)
     ELSE IF w.pager.hideEverything = "b" THEN PageUp(v)
     ELSE Rechecked(Closed(v))

-------------------------------------------------------------------------------
\* The pager's commands.

\* A plausible mistake: what ended with a form feed is shown again as well.
GoForwardFromFeed(w) ==
  LET l == w.input.line_num - 1
  IN IF w.pager.special /\ ~mode.marking THEN [w EXCEPT !.pager.specialLines = @ - 1]
     ELSE [w EXCEPT !.pager.restart = w.pager.aLineBegin,
                    !.input = [pos |-> w.pager.aLineBegin, line_num |-> l],
                    !.pager.topLine = IF w.pager.special THEN @ ELSE l]
\* go_forward: the last line is shown again at the top, or on a scrolled screen
\* at its place, unless it ended with a form feed.
GoForward(w) ==
  IF Rows[w.pager.aLineBegin + 1].feed THEN w
  ELSE IF w.pager.special /\ ~mode.marking THEN [w EXCEPT !.pager.specialLines = @ - 1]
  ELSE LET l == w.input.line_num - 1
       IN [w EXCEPT !.pager.restart = w.pager.aLineBegin,
                    !.input = [pos |-> w.pager.aLineBegin, line_num |-> l],
                    !.screen = IF w.pager.special THEN SubSeq(@, 1, Len(@) - 1) ELSE @,
                    !.pager.topLine = IF w.pager.special THEN @ ELSE l,
                    !.pager.highlight = IF mode.marking THEN l ELSE @]
Scrolling(w, lines) ==
  [w EXCEPT !.pager.special = TRUE, !.pager.specialLines = lines, !.place = "page"]
Space(w) ==
  GoForward(IF mode.erase THEN [Clear(w) EXCEPT !.place = "page"] ELSE Scrolling(w, LINES))
HalfPage(w) ==
  LET odd == LINES % 2 = 1 /\ w.input.line_num % (LINES - 2) >= LINES \div 2 - 1
  IN GoForward(Scrolling(w, LINES \div 2 + (IF odd THEN 2 ELSE 1)))

\* g, G, ^G and ^I: the row that matches, from a place on the page or after it;
\* 0 for none.
HitFrom(w, p, n) ==
  LET after == n >= w.input.line_num
      start == Larger(IF after THEN w.input.pos ELSE PosOf(w, n), HeadRows)
      hits == {i \in (start + 1)..Size : p \in Rows[i].hits}
  IN IF hits = {} THEN 0 ELSE CHOOSE i \in hits : \A j \in hits : i <= j
Find(w, hit) ==
  IF hit = 0 THEN Seek(w, w.input.pos)
  ELSE IF hit > w.input.pos
  THEN [w EXCEPT !.pager.doFseek = TRUE, !.pager.hideEverything = "l",
                 !.pager.innerSearch = hit, !.place = "page"]
  ELSE LET t == w.pager.topLine + 1
           l == CHOOSE l \in t..(Size + VARY_SIZE) :
                  VaryRead(w.vary, l) >= hit /\ \A k \in t..(l - 1) : VaryRead(w.vary, k) < hit
       IN Refreshed([Look(w, l) EXCEPT
            !.pager.highlight = l - 1,
            !.pager.topLine = Larger(l - 1 - w.pager.gotoLine, -1)])
Search(w, p, goto, tab) ==
  LET g == IF goto > LINES - 2 THEN LINES - 2 ELSE goto
      v == [w EXCEPT !.pager.gotoLine = g, !.pager.innerLight = 0, !.pager.innerSearch = 0]
      from == IF tab THEN v.input.line_num ELSE v.pager.topLine + g + 1
      hit == HitFrom(v, p, from)
  IN [w |-> Find(IF from < v.input.line_num THEN Look(v, from) ELSE v, hit), hit |-> hit]

\* B where lines can be inserted: a row is inserted at the top, and the last is
\* erased.
Inserted(w) ==
  LET l == w.input.line_num - 1
      row == [row |-> PosOf(w, w.pager.topLine - 1) + 1, line |-> w.pager.topLine - 1]
  IN Seek([Look(Look(w, l), l - 1) EXCEPT
       !.pager.topLine = @ - 1, !.input = [pos |-> PosOf(w, l), line_num |-> l],
       !.pager.aLineBegin = PosOf(w, l - 1),
       !.screen = <<row>> \o SubSeq(@, 1, Len(@) - 1)], PosOf(w, l))
CanInsert(w) == mode.insert /\ PosOf(w, w.pager.topLine - 1) >= HeadRows

-------------------------------------------------------------------------------
Unopened ==
  /\ \E s \in Sessions : text = s.text /\ mode = s.mode
  /\ pager = [doFseek |-> FALSE, firstPage |-> TRUE, topLine |-> -1, restart |-> 0,
              special |-> FALSE, specialLines |-> 0, highlight |-> -1, innerSearch |-> 0,
              innerLight |-> 0, iSearchLine |-> 0, gotoLine |-> 0, hideEverything |-> "",
              aLineBegin |-> 0, continuation |-> FALSE]
  /\ input = [pos |-> 0, line_num |-> 0]
  /\ buf = [pos |-> text.head, size |-> IF mode.remote THEN -1 ELSE Len(text.rows)]
  /\ local = [line_num |-> 1, hide |-> FALSE, head |-> TRUE, from |-> 0, to |-> 0]
  /\ vary = [win |-> Blank, block |-> -1, file |-> <<>>]
  /\ screen = <<>> /\ sought = 0 /\ strayed = FALSE /\ inputs = 0 /\ stops = 0
PagerInit == Unopened /\ place = "page"

Page ==
  /\ place = "page" /\ Do(Placed(Work))
  /\ strayed' = (strayed /\ ~pager.firstPage)
  /\ UNCHANGED <<text, mode, sought, inputs, stops>>
Line ==
  /\ place = "line" /\ ~PageFull(Work)
  /\ Do(IF Astray(Work) THEN [Work EXCEPT !.place = "lost"]
        ELSE IF NoMore(Work)
        THEN [(IF pager.innerSearch # 0 THEN Found(Work) ELSE Work) EXCEPT
                !.pager.special = FALSE, !.place = "paged",
                !.local.from = input.pos, !.local.to = input.pos]
        ELSE OneRow(Work))
  /\ UNCHANGED <<text, mode, sought, strayed, inputs, stops>>
Full ==
  /\ place = "line" /\ PageFull(Work)
  /\ Do([(IF pager.innerSearch # 0 THEN Found(Work) ELSE Work) EXCEPT !.place = "paged"])
  /\ UNCHANGED <<text, mode, sought, strayed, inputs, stops>>
\* A remote article's size is known when all of it has come; that is so when
\* its end has been read.
Paged ==
  /\ place = "paged"
  /\ \E known \in IF AtEnd(Work) THEN {TRUE} ELSE BOOLEAN :
       Do(PageDone(IF known THEN Sized(Work) ELSE Work))
  /\ UNCHANGED <<text, mode, sought, strayed, inputs, stops>>
\* cache_until_key
Learn ==
  /\ place = "prompt" /\ buf.size < 0
  /\ Do(Rechecked(Sized(Work)))
  /\ UNCHANGED <<text, mode, sought, strayed, inputs, stops>>
\* An interrupt between two lines. What is being looked for stays.
Interrupt ==
  /\ place = "line" /\ ~PageFull(Work) /\ stops < MaxStops
  /\ Do([Work EXCEPT !.pager.special = FALSE, !.place = "stopped"])
  /\ sought' = 0 /\ stops' = stops + 1
  /\ UNCHANGED <<text, mode, strayed, inputs>>

Forward ==
  /\ place = "prompt" /\ Do(Space(Work)) /\ sought' = 0
  /\ UNCHANGED <<text, mode, strayed, inputs, stops>>
\* The command seeks in the buffer, and body_line and restart stay for the next page.
Strays(w) ==
  /\ w.pager.restart # 0
  /\ w.place = "prompt" \/ (w.pager.hideEverything # "" /\ ~w.pager.doFseek)
Asked(w) ==
  /\ place = "prompt" /\ inputs < MaxInputs /\ inputs' = inputs + 1
  /\ strayed' = (strayed \/ Strays(w))
  /\ Do(w) /\ UNCHANGED <<text, mode, stops>>
Half == Asked(HalfPage(Work)) /\ sought' = 0
OneDown == Asked(Scrolling(Work, 2)) /\ sought' = 0
Redraw == Asked(Refreshed(Work)) /\ sought' = 0
\* _C also shows the article from its top.
NextMode == Asked(Refreshed([Work EXCEPT !.pager.topLine = -1, !.buf.pos = HeadRows])) /\ sought' = 0
Back == Asked(PageUp(Work)) /\ sought' = 0
BackLine ==
  /\ pager.topLine >= 0
  /\ Asked(IF CanInsert(Work) THEN Inserted(Work) ELSE LineUp(Work))
  /\ sought' = 0
End == Asked(ToEnd(Work)) /\ sought' = 0
SearchFor ==
  \E p \in Patterns, how \in {"g", "^G", "^I"} :
    \E s \in {Search(Work, p, IF how = "g" THEN pager.gotoLine ELSE 3, how = "^I")} :
      Asked(s.w) /\ sought' = s.hit
Quit == Asked([Work EXCEPT !.place = "left"]) /\ sought' = 0

\* At the article level's prompt.
Again(w) ==
  /\ place \in {"read", "stopped"} /\ inputs < MaxInputs /\ inputs' = inputs + 1
  /\ Do(DoArticle(w)) /\ sought' = 0
  /\ UNCHANGED <<text, mode, strayed, stops>>
RedrawRead == Again(Refreshed(Work))
BackRead == Again(PageUp(Work))
BackLineRead == Again(LineUp(Work))
EndRead == Again([ToEnd(Work) EXCEPT !.pager.doFseek = TRUE])
FromTop ==
  Again([Clear(Work) EXCEPT !.pager.topLine = -1, !.pager.doFseek = FALSE, !.input.line_num = 0])


PagerNext ==
  \/ Page \/ Line \/ Full \/ Paged \/ Learn \/ Interrupt \/ Forward \/ Half \/ OneDown
  \/ Redraw \/ NextMode \/ Back \/ BackLine \/ End \/ SearchFor \/ Quit
  \/ RedrawRead \/ BackRead \/ BackLineRead \/ EndRead \/ FromTop

\* The program goes on, and the user presses SPACE when it waits.
Going == Page \/ Line \/ Full \/ Paged
PagesOn ==
  /\ []<>(place \notin {"page", "line", "paged"}) \/ []<><<Going>>_pagerVars
  /\ []<>(place # "prompt") \/ []<><<Forward>>_pagerVars
PagerSpec == PagerInit /\ [][PagerNext]_pagerVars /\ PagesOn

-------------------------------------------------------------------------------
\* The rows that are shown, in order: line l is the l+1st.
Hidden(i) == \E j \in 1..i : Rows[j].kind = "line" /\ Rows[j].hide
                            /\ \A k \in (j + 1)..i : Rows[k].kind # "line"
Visible == SelectSeq([i \in 1..Size |-> i], LAMBDA i : ~Hidden(i))
Waiting == place \in {"prompt", "read"}

\* Whatever was scrolled, searched for, backed up over or drawn again, the screen
\* shows successive lines of the text, each one once: none that is not hidden is
\* left out, also where a line overflows from one page to the next.
ScreenIsTheText ==
  Waiting =>
    \A i \in DOMAIN screen :
      /\ screen[i].line = screen[1].line + i - 1
      /\ screen[i].row = IF screen[i].line = -1 THEN 0 ELSE Visible[screen[i].line + 1]

\* The array of positions holds for every line up to the current one a position
\* from which that line is what is shown next.
PositionsAreRight ==
  \A l \in 0..input.line_num :
    /\ PosOf(Work, l) >= IF l = 0 THEN 0 ELSE Visible[l]
    /\ PosOf(Work, l) < IF l < Len(Visible) THEN Visible[l + 1] ELSE Size + 1

\* The pager knows what is on the screen: its top line is the first one, the
\* current line follows the last one. (The top line does not follow the screen in
\* the header, and with -e after a form feed.)
TopIsOnTop ==
  Waiting /\ screen # <<>> =>
    /\ ~local.head /\ ~(mode.erase /\ \E i \in 1..Size : Rows[i].feed) =>
         screen[1].line = pager.topLine
    /\ screen[Len(screen)].line = input.line_num - 1

\* What a search has found is on the screen when the user is asked again, unless
\* the page ends with a form feed before it.
FoundIsShown ==
  Waiting /\ sought # 0 =>
    \E i \in DOMAIN screen : screen[i].row = sought \/ (screen[i].row # 0 /\ Rows[screen[i].row].feed)

\* An article is taken to have been read to its end when its last line that is
\* not hidden is on the screen, and only then.
EndIsEnd ==
  Waiting /\ screen # <<>> /\ buf.size >= 0 =>
    (place = "read" <=> screen[Len(screen)].row = Visible[Len(Visible)])

\* What the user sees when he is asked is the text, at the place the pager takes it
\* to be, with what was searched for and the end where it is. Exempt is what follows
\* when a search that finds nothing, ^E or an inserted line moved the buffer's position
\* (art.cpp:1127, :1205, :1253) at a page that ends inside a line: the next page begins
\* with the rest of the line from body_line and then reads it again from the buffer,
\* until the article is shown from its top. Even then the pager knows its top line, and
\* what is searched for is shown.
ScreenIsRight ==
  /\ TopIsOnTop /\ FoundIsShown
  /\ strayed \/ (ScreenIsTheText /\ PositionsAreRight /\ EndIsEnd)

\* A user who keeps pressing SPACE comes to the end of the article.
SpacesEnd == <>[](place \in {"read", "stopped", "left", "lost"})
================================================================================
