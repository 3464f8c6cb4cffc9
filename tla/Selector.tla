-------------------------------- MODULE Selector -------------------------------
(***************************************************************************)
(* trn's newsgroup selector and its selector of groups to add: marks given *)
(* by letter, ranges, paging, rereading, exclusive display, the commands   *)
(* that mark groups as read, and the visits to the groups that were chosen.*)
(*                                                                         *)
(* Translated from libtrn/rt-select.cpp with the pages of libtrn/rt-page.  *)
(* One action is one command with all that the code does up to the next    *)
(* prompt: the command, init_pages, and the new display. Reading a group,  *)
(* and the commands of the newsgroup prompt that the selector passes on,   *)
(* are external: they change groups in any of the ways they can.           *)
(***************************************************************************)
EXTENDS Integers, Sequences, FiniteSets, FiniteSetsExt

CONSTANTS
  Groups,      \* the newsgroups of the list
  Modes,       \* the selectors: "newsgroup", "add"
  Orders,      \* the orders that the list may be sorted in
  FileOrder,   \* the one that it starts in, of the newsrc or of the server
  SourceOf,    \* the server of each group
  FullList,    \* whether the server's list says how many articles a group has
  News,        \* the numbers of unread articles that the groups may start with
  PerPage,     \* letters for groups
  None,
  MaxMarks,    \* bound on the letters, moves of the cursor and visits
  MaxInputs    \* bound on the other commands

ASSUME ModesAssumption == Modes \subseteq {"newsgroup", "add"}
ASSUME OrdersAssumption ==
  \A o \in Orders : Len(o) = Cardinality(Groups) /\ {o[i] : i \in DOMAIN o} = Groups
ASSUME FileOrderAssumption == FileOrder \in Orders
ASSUME PerPageAssumption == PerPage \in Nat \ {0}

Mask(t) == IF t.reread THEN "DEL_SEL" ELSE "SEL"
Has(t, g, flag) == flag \in t.flags[g]
\* How a group is marked on the screen: + when chosen, - when to be deleted.
Shown(t, g) ==
  (IF Has(t, g, Mask(t)) THEN 1 ELSE 0) + (IF Has(t, g, "DEL") THEN 2 ELSE 0)

One(t, g) == 1
INSTANCE Pages WITH
  MaxLines <- PerPage, Weight <- One, Height <- One, Mark <- Shown

VARIABLES
  s,       \* g_sel, g_sel_page, the marks and the counts of the groups
  pc,      \* "input", "batch": visiting the chosen groups, or "out"
  marks,   \* letters, moves of the cursor and visits so far
  inputs   \* other commands so far

vars == <<s, pc, marks, inputs>>

Unsub == -1
Flags == {"SEL", "DEL", "DEL_SEL", "VISIT", "EXCLUDED"}

Masked(t) == {g \in Groups : Has(t, g, Mask(t))}
Clear(flags, gs, drop) ==
  [g \in Groups |-> IF g \in gs THEN flags[g] \ drop ELSE flags[g]]
Set(flags, gs, add) ==
  [g \in Groups |-> IF g \in gs THEN flags[g] \cup add ELSE flags[g]]

-------------------------------------------------------------------------------
\* init_pages: which groups are listed.

\* Fewer groups to list than are read or not, for this list.
Worth(t, toRead) == IF t.reread THEN toRead = 0 ELSE toRead >= 1

\* The unread articles are counted up to the first group that will be listed;
\* the rest waits until it is displayed, and is taken to be listed.
CountGroups(t) ==
  LET Count(now, later) ==
        [t EXCEPT
          !.counted = @ \cup now,
          !.toRead = [g \in Groups |->
                        IF g \in now THEN t.real[g]
                        ELSE IF g \in later THEN (IF t.reread THEN 0 ELSE 1)
                        ELSE @[g]]]
      Split(waiting, now) == Count({t.order[i] : i \in now},
                                   {t.order[i] : i \in waiting \ now})
      UpTo(waiting, hit) ==
        Split(waiting, {i \in waiting : FullList \/ i <= hit})
      Wait(waiting) ==
        UpTo(waiting, FirstOf(t, {i \in waiting : (t.real[t.order[i]] > 0) # t.reread}))
  IN Wait({i \in DOMAIN t.order :
             t.toRead[t.order[i]] # Unsub /\ t.order[i] \notin t.counted})

Listed(t) == {t.order[i] : i \in DOMAIN t.order}
Kept(t, eligible) == IF t.exclusive THEN eligible \cap Masked(t) ELSE eligible
Included(t, inc) ==
  [t EXCEPT !.inc = inc,
            !.flags = IF t.reread THEN Set(@, inc \ Masked(t), {"DEL"}) ELSE @]

Counted(t) == [t EXCEPT !.count = Cardinality(t.inc \cap Masked(t))]
IncludeGroups(t) ==
  Counted(Included(t, Kept(t, {g \in Listed(t) :
    t.toRead[g] # Unsub /\ (g \in Masked(t) \/ Worth(t, t.toRead[g]))})))

IncludeAdd(t) ==
  Included(t, Kept(t, {g \in Listed(t) : t.reread = Has(t, g, "EXCLUDED")}))

Include(t) ==
  IF t.mode = "newsgroup" THEN IncludeGroups(CountGroups(t)) ELSE IncludeAdd(t)

\* A list of marked groups only that is empty gives way to the whole list.
InitPages(t, fillLast) ==
  LET Whole(u) == IF u.inc = {} /\ u.exclusive
                  THEN Include([u EXCEPT !.exclusive = FALSE, !.start = None])
                  ELSE u
  IN Arrive(Recount(Whole(Include(t))), fillLast)

-------------------------------------------------------------------------------
\* display_page, with the counts that init_pages put off.

\* A plausible mistake: the total keeps them.
LeaveListUncounted(t, gone) == [t EXCEPT !.inc = @ \ gone]
\* Groups that turn out to have nothing for this list leave it.
LeaveList(t, gone) ==
  [t EXCEPT !.inc = @ \ gone, !.total = @ - Cardinality(gone)]
\* It counts the groups that it meets until the page is full and one more is
\* met; those that turn out not to be worth listing leave the list.
CountShown(t) ==
  LET Count(met) ==
        [LeaveList(t, {g \in met : ~Worth(t, t.real[g])}) EXCEPT
          !.counted = @ \cup met,
          !.toRead = [g \in Groups |-> IF g \in met THEN t.real[g] ELSE @[g]]]
      UpTo(shown, extra) ==
        Count({t.order[i] : i \in {j \in shown : \A k \in extra : j <= k}} \ t.counted)
      Meet(shown, keeps) ==
        UpTo(shown, {i \in keeps : Cardinality({j \in keeps : j < i}) = PerPage})
      Scan(shown) ==
        Meet(shown, {i \in shown :
          t.order[i] \in t.counted \/ Worth(t, t.real[t.order[i]])})
  IN IF t.total = 0 THEN t ELSE Scan({i \in Live(t) : i >= StartPos(t)})

RECURSIVE DisplayGroups(_)
DisplayGroups(t) ==
  LET Again(last) == IF last.start = t.start THEN last ELSE DisplayGroups(last)
      Try(d) == IF t.total = 0 \/ d.objs # 0 THEN d ELSE Again(LastPage(d))
  IN Try(Drawn(CountShown(t), t.cur, TRUE))

DisplayAdd(t) == DisplayPage(t, None, FALSE)

Display(t) ==
  LET Land(d) == [d EXCEPT !.index = IF @ >= d.cnt THEN 0 ELSE @]
  IN Land(IF t.mode = "newsgroup" THEN DisplayGroups(t) ELSE DisplayAdd(t))

\* From sel_restart on.
Restart(t) ==
  LET From(start) == IF t.mode = "newsgroup" /\ ~t.reread THEN start ELSE None
  IN Display([InitPages([t EXCEPT !.start = From(@)], TRUE) EXCEPT
               !.index = 0, !.range = -1, !.action = "+"])

-------------------------------------------------------------------------------
\* Marks.

Select(t, g) ==
  [t EXCEPT !.count = IF g \in Masked(t) THEN @ ELSE @ + 1,
            !.flags[g] = (@ \ {"DEL"}) \cup {Mask(t)}]

\* Only a group that was chosen counts; a plausible mistake counts them all.
UncountedAll(t, g) == t.count - 1
Uncounted(t, g) == IF g \in Masked(t) THEN t.count - 1 ELSE t.count

\* rereading is the value of g_sel.rereading during the call; the mask stays.
Deselect(t, g, rereading) ==
  [t EXCEPT !.count = Uncounted(t, g),
            !.flags[g] = LET left == @ \ {Mask(t)}
                         IN IF rereading THEN left \cup {"DEL"}
                            ELSE IF t.mode = "newsgroup" THEN left \ {"DEL"}
                            ELSE left]

\* What an action does to an item that is shown with a mark.
Means(t, action, mark) ==
  IF action # "@" THEN action
  ELSE CASE mark = 2 -> IF t.reread THEN "+" ELSE "none"
         [] mark = 1 -> IF t.reread THEN "k" ELSE "-"
         [] OTHER -> "+"

Apply(t, k) ==
  LET Do(g, ch, said) ==
        CASE ch = "+" -> [Select(t, g) EXCEPT !.shown[k] = 1, !.marked = said]
          [] ch = "-" -> [Deselect(t, g, FALSE) EXCEPT !.shown[k] = 0, !.marked = said]
          [] ch = "k" -> [Deselect(t, g, TRUE) EXCEPT !.shown[k] = 2, !.marked = said]
          [] OTHER -> t
      Say(g, ch) == Do(g, ch, IF ~t.reread /\ ch = "k" THEN t.marked \cup {g}
                              ELSE t.marked \ {g})
  IN Say(t.items[k], Means(t, t.action, t.shown[k]))

\* From the index on, around the page, until it comes to an index.
RECURSIVE ApplyUntil(_, _)
ApplyUntil(t, end) ==
  LET On(v) == IF v.index = end THEN v ELSE ApplyUntil(v, end)
      Move(u) == [u EXCEPT !.index = IF @ + 1 = t.cnt THEN 0 ELSE @ + 1]
  IN On(Move(Apply(t, t.index + 1)))

\* A letter or a current-item command for item j, alone or ending a range.
Operate(t, j, dash) ==
  LET Ranged(u) == [u EXCEPT !.range = IF u.index # 0 THEN u.index ELSE u.cnt]
      Run(from, end) == Ranged(ApplyUntil([t EXCEPT !.index = from],
                                          IF end = t.cnt THEN 0 ELSE end))
      Reach(after) == IF j < after THEN Run(j, after) ELSE Run(t.index, j + 1)
  IN IF dash THEN Reach(IF t.range >= 0 THEN t.range ELSE t.index + 1)
     ELSE Run(j, j + 1)

Toggle(t, j) ==
  IF t.shown[j + 1] = 1 THEN IF t.reread THEN "k" ELSE "-" ELSE "+"

Marking == pc = "input" /\ marks < MaxMarks
Mark(t) == s' = t /\ marks' = marks + 1 /\ UNCHANGED <<pc, inputs>>

Commanding == pc = "input" /\ inputs < MaxInputs
Leads(t, where) ==
  s' = t /\ pc' = where /\ inputs' = inputs + 1 /\ UNCHANGED marks
Step(t) == Leads(t, "input")

\* Off the page the code goes on with what is left in the array
\* of items, and a range never ends: the model has no such steps.
OnPage == s.index < s.cnt

Letter ==
  /\ Marking
  /\ \E j \in 0..(s.cnt - 1) :
       \/ Mark(Operate([s EXCEPT !.action = Toggle(s, j)], j, FALSE))
       \/ OnPage /\ Mark(Operate(s, j, TRUE))

\* y . * toggle the current item, k deletes it, m unmarks it.
Current ==
  /\ Marking /\ OnPage
  /\ \E action \in {Toggle(s, s.index), "k", "-"}, dash \in BOOLEAN :
       Mark(Operate([s EXCEPT !.action = action], s.index, dash))

\* @ toggles the whole page.
WholePage ==
  /\ Marking /\ s.cnt > 0
  /\ Mark(Operate([s EXCEPT !.index = 0, !.range = -1, !.action = "@"],
                  s.cnt - 1, TRUE))

Cursor ==
  /\ Marking
  /\ \/ Mark([s EXCEPT !.range = -1,
               !.index = IF @ > 0 THEN @ - 1 ELSE IF s.cnt > 0 THEN s.cnt - 1 ELSE 0])
     \/ Mark([s EXCEPT !.range = -1, !.index = IF @ + 1 >= s.cnt THEN 0 ELSE @ + 1])

\* Control-g and a letter.
GoTo ==
  /\ Marking
  /\ \E j \in 0..(s.cnt - 1) : Mark([s EXCEPT !.index = j, !.range = j + 1])

-------------------------------------------------------------------------------
\* Commands that both selectors have.

\* The group of the current item becomes the current group.
Command(t) ==
  [t EXCEPT !.range = -1,
            !.cur = IF t.mode # "newsgroup" THEN @
                    ELSE IF t.index < t.cnt THEN t.items[t.index + 1] ELSE None]

Turned(old, new) == IF new.start = old.start THEN new ELSE Display(new)

Turn ==
  /\ Commanding
  /\ \E t \in {[Command(s) EXCEPT !.index = 0]} :
       \E u \in {NextPage(t), PrevPage(t), FirstPage(t), LastPage(t)} :
         Step(Turned(t, u))

Redraw == Commanding /\ Step(Display(Command(s)))

\* Marking all of the articles as read. It makes an unsubscribed group visible.
CatchUp(t, gs) ==
  [t EXCEPT !.toRead = [g \in Groups |-> IF g \in gs THEN 0 ELSE @[g]],
            !.real = [g \in Groups |-> IF g \in gs THEN 0 ELSE @[g]]]

\* sel_cleanup: what was deleted is caught up, or excluded; what was chosen
\* among the groups without news is chosen among those with news.
\* A plausible mistake: the deletions of the one list are left to the other.
CleanupRereadKeepsDel(t) ==
  LET back == {g \in Listed(t) : Has(t, g, "DEL_SEL")}
  IN [t EXCEPT !.flags = Set(Clear(@, back, {"DEL_SEL"}), back, {"SEL"})]
CleanupReread(t) ==
  LET drop == IF t.mode = "add" THEN {"DEL_SEL", "EXCLUDED"} ELSE {"DEL_SEL"}
      Back(back) ==
        [t EXCEPT
          !.count = @ + Cardinality({g \in back : ~Has(t, g, "SEL")}),
          !.flags = Clear(Set(Clear(@, back, drop), back, {"SEL"}), Listed(t), {"DEL"})]
  IN Back({g \in Listed(t) : Has(t, g, "DEL_SEL")})
CleanupKilled(t) ==
  LET Kill(u, del) == IF t.mode = "newsgroup" THEN CatchUp(u, del)
                      ELSE [u EXCEPT !.flags = Set(@, del, {"EXCLUDED"})]
      Unmark(del) ==
        Kill([t EXCEPT !.flags = Clear(@, del, {"DEL"}), !.marked = @ \ del], del)
  IN Unmark({g \in Listed(t) : Has(t, g, "DEL")})
Cleanup(t) == IF t.reread THEN CleanupReread(t) ELSE CleanupKilled(t)
CleanupNormal(t) == IF t.reread THEN t ELSE Cleanup(t)

\* The selector is left without reading.
Leave(t) ==
  Leads(Cleanup([t EXCEPT !.count = IF t.mode = "add" THEN 0 ELSE @]), "out")

\* The chosen groups are added. A group to add that was chosen is subscribed to.
AddChosen(t) == Leave([t EXCEPT !.flags = Clear(@, Groups, {"SEL"})])

\* The chosen groups, or all on the list if none is, are to be visited.
VisitChosen(t) ==
  \E chosen \in {{g \in t.inc : t.count = 0 \/ g \in Masked(t)}} :
    Leads([t EXCEPT !.flags = Set(Clear(@, Listed(t), {"VISIT"}), chosen, {"VISIT"}),
                    !.saved = t.count, !.at = 1, !.go = FALSE], "batch")

Chosen(t) == IF t.mode = "newsgroup" THEN VisitChosen(t) ELSE AddChosen(t)

\* Return chooses the current item if nothing is chosen and it is not deleted.
Return ==
  /\ Commanding /\ (s.cnt = 0 \/ OnPage)
  /\ \E t \in {Command(s)} :
       Chosen(IF t.count = 0 /\ t.cnt > 0 /\ (t.reread \/ t.shown[t.index + 1] # 2)
              THEN [Select(t, t.items[t.index + 1]) EXCEPT
                     !.marked = @ \ {t.items[t.index + 1]}]
              ELSE t)

\* Z, tab, and in the newsgroup selector ; go on, q and others do not.
Quit ==
  Commanding /\ \E t \in {Command(s)} : Chosen(t) \/ Leave(t)

\* U: the list of the groups without news, or of the excluded ones, or back.
Reread ==
  /\ Commanding
  /\ Step(Restart([Cleanup(Command(s)) EXCEPT !.reread = ~@, !.start = None]))

\* O, R.
Sort ==
  /\ Commanding
  /\ \E order \in Orders :
       /\ {order[i] : i \in DOMAIN order} = Listed(s)
       /\ Step(Display(InitPages([CleanupNormal(Command(s)) EXCEPT
                                   !.order = order, !.start = None], TRUE)))

\* E: only the chosen groups.
Exclusive ==
  /\ Commanding
  /\ Step(Display([InitPages([CleanupNormal(Command(s)) EXCEPT
                               !.exclusive = ~@, !.start = None], TRUE) EXCEPT
                     !.index = IF s.mode = "newsgroup" THEN 0 ELSE @]))

-------------------------------------------------------------------------------
\* X, D and J: all groups that are not chosen, those of the page, or all that
\* are chosen.

Scope(t, key) ==
  IF key # "D" THEN Listed(t)
  ELSE {t.order[i] : i \in {j \in DOMAIN t.order :
          j >= StartPos(t) /\ (t.next = None \/ j < PosOf(t, t.next))}}

Junk(t, key) ==
  LET Gone(u, gone) ==
        IF t.mode = "newsgroup" THEN CatchUp(u, {g \in gone : t.toRead[g] # Unsub})
        ELSE [u EXCEPT !.flags = Set(@, gone, {"EXCLUDED"})]
      Hit(hit) ==
        Gone([t EXCEPT !.flags = Clear(@, hit, {"DEL", "SEL"}), !.marked = @ \ hit],
             {g \in hit : key = "J" \/ g \in t.inc})
  IN Hit({g \in Scope(t, key) :
            \/ Has(t, g, "SEL") = (key = "J")
               /\ (t.mode = "newsgroup" => t.toRead[g] # Unsub)
            \/ Has(t, g, "DEL")})

JunkGroups ==
  /\ Commanding
  /\ \E key \in {"X", "D", "J"}, t \in {Command(s)} :
       IF t.reread
       THEN IF key = "J"
            THEN Step(Display([t EXCEPT !.count = 0,
                        !.flags = Clear(@, Listed(t), {"DEL_SEL"})]))
            ELSE Leave(t)
       ELSE \E junked \in {Junk(t, key)} :
         IF key = "J" \/ (key = "D" /\ t.count = 0)
         THEN \E u \in {InitPages(junked, TRUE)} :
                IF u.total > 0 THEN Step(Display([u EXCEPT !.index = 0])) ELSE Leave(u)
         ELSE Leave(junked)

-------------------------------------------------------------------------------
\* Commands of the newsgroup selector.

Newsgroups == Commanding /\ s.mode = "newsgroup"

\* =: the groups are counted again, after new articles may have come.
Recheck ==
  /\ Newsgroups
  /\ \E g \in Groups, n \in 0..1 :
       Step(Restart([Cleanup(Command(s)) EXCEPT
              !.counted = {x \in @ : x \notin Listed(s)}, !.real[g] = n]))

\* newsgroup_perform: + - c u on one group.
Perform(t, g, cmd) ==
  LET down(u) ==
        IF g \notin Masked(t) THEN u
        ELSE [u EXCEPT !.count = @ - 1,
               !.flags[g] = (@ \ {Mask(t)}) \cup
                 (IF t.reread /\ u.toRead[g] # Unsub THEN {"DEL"} ELSE {})]
  IN CASE cmd = "+" -> IF g \in Masked(t) THEN t
                       ELSE [Select(t, g) EXCEPT !.marked = @ \ {g}]
       [] cmd = "-" -> down(t)
       [] cmd = "c" -> down(CatchUp(t, {g}))
       [] cmd = "u" -> down([t EXCEPT !.toRead[g] = Unsub, !.bang = @ \cup {g}])

\* Those that a command is for: after : the marked ones, after :: the others,
\* after :. the current one, after ::. the others than that.
Performed(t, all, dot) ==
  IF dot /\ ~all THEN {t.cur}
  ELSE {g \in Listed(t) :
         /\ t.toRead[g] # Unsub /\ Worth(t, t.toRead[g])
         /\ IF dot THEN g # t.cur
            ELSE IF all THEN g \notin Masked(t) ELSE g \in t.inc \cap Masked(t)}

PerformAll(t, gs, cmd) ==
  FoldSet(LAMBDA g, u : Perform(u, g, cmd), t, gs)

\* The page is only updated if it stays the same and the screen is clean.
Performing ==
  LET Place(v, here) == IF here \in v.inc THEN CalcPage(v, Search(here))
                        ELSE [v EXCEPT !.index = 0]
  IN
  /\ Newsgroups
  /\ \E t \in {Command(s)}, cmd \in {"+", "-", "c", "u"}, all, dot, clean \in BOOLEAN :
       /\ dot => t.cur # None
       /\ \E v \in {InitPages([PerformAll(t, Performed(t, all, dot), cmd) EXCEPT
                               !.index = IF dot THEN @ ELSE 0], FALSE)} :
            Step(IF clean /\ v.total = t.total /\ v.start = t.start
                 THEN UpdatePage(CalcPage(v, NoSearch))
                 ELSE Display(IF dot THEN Place(v, t.cur) ELSE v))

\* c: the current group is caught up, but for some articles, and unsubscribed
\* from, if the user says so. Its count of unread articles keeps it visible.
CatchUpCurrent ==
  /\ Newsgroups /\ OnPage
  /\ LET t == Command(s)
     IN \/ Step(t)
        \/ \E n \in 0..1, off \in BOOLEAN :
             Step(Display([t EXCEPT !.toRead[t.cur] = n, !.real[t.cur] = n,
                                    !.bang = IF off THEN @ \cup {t.cur} ELSE @]))

\* Any other key is a command of the newsgroup prompt: it may change a group
\* and go to another one. What it says decides how the page is found again; a
\* command that changes a group says so on a line that the page must make up for.
Prompted(t, g, n, here) ==
  [t EXCEPT !.toRead[g] = n, !.cur = here,
            !.real[g] = IF n = Unsub THEN @ ELSE n,
            !.counted = @ \cup {g},
            !.bang = IF n = Unsub THEN @ \cup {g} ELSE @ \ {g}]

BackFrom(t, result, clean) ==
  LET Below(u) == result = "SPECIAL" /\ t.cur # None /\ u.toRead[t.cur] < 1
      Put(u) == IF Below(u) /\ t.cur \notin u.inc
                THEN [u EXCEPT !.inc = @ \cup {t.cur}, !.total = @ + 1] ELSE u
      Top(w) == IF t.prior = 0 THEN FirstPage(w) ELSE w
      Show(w, was) ==
        IF result = "MESSAGE" \/ (clean /\ (w.start # was \/ result = "DISPLAY" \/ Below(w)))
        THEN Display(w)
        ELSE IF clean THEN Top(w) ELSE Display(Top(w))
      Find(v) == Show(CalcPage(v, Search(t.cur)), v.start)
  IN Find(Put(InitPages([t EXCEPT !.index = 0], FALSE)))

Prompt ==
  /\ Newsgroups
  /\ \E t \in {Command(s)}, g \in Listed(s), n \in -1..1, clean \in BOOLEAN,
        to \in {"changed", "current", "end"},
        result \in {"ASK", "SPECIAL", "DISPLAY", "MESSAGE", "RESTART"} :
       /\ clean => n = s.toRead[g]
       /\ \E u \in {Prompted(t, g, n, CASE to = "changed" -> g
                                        [] to = "current" -> t.cur [] OTHER -> None)} :
            Step(IF result = "RESTART" THEN Restart(u) ELSE BackFrom(u, result, clean))

-------------------------------------------------------------------------------
\* sel_do_groups.

Visiting == s.order[s.at]

Batching == pc = "batch"
Arrived == s.at <= Len(s.order) /\ (Has(s, Visiting, "VISIT") \/ s.go)
Goes(t) == s' = t /\ UNCHANGED <<pc, inputs>>

\* All that were chosen have been visited: the list again.
BatchDone(t) ==
  /\ s' = Restart([t EXCEPT !.count = t.saved, !.saved = 0, !.at = 1, !.go = FALSE])
  /\ pc' = "input"
  /\ UNCHANGED inputs

EndBatch ==
  Batching /\ s.at > Len(s.order) /\ BatchDone(s) /\ UNCHANGED marks
Skip ==
  Batching /\ s.at <= Len(s.order) /\ ~Arrived
  /\ Goes([s EXCEPT !.at = @ + 1]) /\ UNCHANGED marks

\* The user reads a group, and leaves it in one of the ways there are.
Read(t, n) ==
  LET g == t.order[t.at]
  IN [t EXCEPT !.saved = IF Has(t, g, "SEL") THEN @ - 1 ELSE @,
               !.flags[g] = @ \ {"SEL"},
               !.toRead[g] = n, !.real[g] = IF n = Unsub THEN @ ELSE n,
               !.bang = IF n = Unsub THEN @ \cup {g} ELSE @ \ {g},
               !.counted = @ \cup {g}, !.cur = g, !.go = FALSE]

Visit ==
  /\ Batching /\ Arrived
  /\ marks < MaxMarks /\ marks' = marks + 1
  /\ \E n \in -1..1 : \E t \in {Read(s, n)} :
       \E before \in {{i \in 1..(t.at - 1) : Has(t, t.order[i], "VISIT")}} :
         \/ Goes([t EXCEPT !.at = @ + 1])
         \/ BatchDone(t)
         \/ IF before = {} THEN BatchDone(FirstPage(t))
            ELSE Goes([t EXCEPT !.at = Max(before), !.go = TRUE])
         \/ \E i \in DOMAIN t.order : Goes([t EXCEPT !.at = i, !.go = TRUE])

\* recover_group_batch: the groups of a server that died are gone; the marks of
\* the others stay, and the next one to visit is that of another server.
Without(t, dead) ==
  [t EXCEPT !.order = SelectSeq(@, LAMBDA g : g \notin dead),
            !.flags = Clear(@, dead, Flags),
            !.saved = Cardinality({g \in Groups \ dead :
                                     t.toRead[g] # Unsub /\ "SEL" \in t.flags[g]}),
            !.start = None, !.next = None, !.cur = None, !.go = TRUE,
            !.marked = @ \ dead, !.inc = @ \ dead]
ServerDied ==
  /\ Batching /\ Arrived
  /\ \E t \in {Without(s, {g \in Groups : SourceOf[g] = SourceOf[Visiting]})} :
       \E nexts \in {{i \in DOMAIN t.order :
                        Has(t, t.order[i], "VISIT") /\ PosOf(s, t.order[i]) > s.at}} :
         IF t.order = <<>>
         THEN s' = Cleanup(t) /\ pc' = "out" /\ UNCHANGED <<marks, inputs>>
         ELSE /\ IF nexts = {} THEN BatchDone(t) ELSE Goes([t EXCEPT !.at = Min(nexts)])
              /\ UNCHANGED marks

-------------------------------------------------------------------------------
\* A new selector: the marks of newsgroups stay from the one before.
Opened(mode, t) ==
  Restart([t EXCEPT !.mode = mode, !.reread = FALSE, !.exclusive = FALSE,
                    !.count = 0])

Fresh(order, real) ==
  [mode |-> "newsgroup", order |-> order, inc |-> {}, start |-> None, next |-> None,
   prior |-> 0, total |-> 0, objs |-> 0, cnt |-> 0, index |-> 0,
   items |-> [k \in 1..PerPage |-> None], shown |-> [k \in 1..PerPage |-> 0],
   flags |-> [g \in Groups |-> {}], toRead |-> real, real |-> real,
   counted |-> {}, reread |-> FALSE, exclusive |-> FALSE,
   count |-> 0, range |-> -1, action |-> "+", cur |-> None,
   marked |-> {}, bang |-> {}, saved |-> 0, at |-> 1, go |-> FALSE]

Init ==
  /\ \E mode \in Modes, real \in News :
       s = Opened(mode, Fresh(FileOrder, IF mode = "add" THEN [g \in Groups |-> 0]
                                         ELSE real))
  /\ pc = "input"
  /\ marks = 0
  /\ inputs = 0

Reopen ==
  /\ pc = "out" /\ s.mode = "newsgroup" /\ s.order # <<>>
  /\ inputs < MaxInputs
  /\ Step(Opened("newsgroup", s))

Next ==
  \/ Letter \/ Current \/ WholePage \/ Cursor \/ GoTo \/ Turn \/ Redraw
  \/ Return \/ Quit \/ Reread \/ Sort \/ Exclusive \/ JunkGroups
  \/ Recheck \/ Performing \/ CatchUpCurrent \/ Prompt
  \/ EndBatch \/ Skip \/ Visit \/ ServerDied \/ Reopen

Spec == Init /\ [][Next]_vars

-------------------------------------------------------------------------------
\* Properties.

AtPrompt == pc = "input"

\* The counts of groups before the page, and of all groups, are those of the
\* list, so that the prompt's percentage and the end of the list are right.
PlaceAgrees ==
  AtPrompt => LET t == Recount(s) IN s.total = t.total /\ s.prior = t.prior

\* The count of chosen groups, on which it depends whether all groups are
\* visited or some, is the number of groups marked as chosen, but for groups
\* that were unsubscribed: one that stays on the screen is not counted when the
\* command returns, and its mark may be taken off afterwards.
CountAgrees ==
  AtPrompt /\ s.mode = "newsgroup" =>
    LET chosen == Masked(s) \cap Listed(s)
        off == {g \in Listed(s) : g \in s.bang}
    IN s.count \in (Cardinality(chosen \ off) - Cardinality(off \ chosen))..Cardinality(chosen)

\* Only what the user deleted, and did not unmark, is marked for deletion: a
\* mark that the list of groups without news leaves behind would lose articles.
KillMarksAreTheUsers ==
  AtPrompt /\ s.mode = "newsgroup" /\ ~s.reread =>
    {g \in Listed(s) : Has(s, g, "DEL")} = s.marked \cap Listed(s)
================================================================================
