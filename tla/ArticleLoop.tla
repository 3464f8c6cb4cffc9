------------------------------ MODULE ArticleLoop ------------------------------
(***************************************************************************)
(* The loop in which a newsgroup is read: do_newsgroup, art_switch and the *)
(* commands it dispatches, over g_nav (the article to show, the one that   *)
(* is shown, the one before) and the flags and counts of the articles.     *)
(*                                                                         *)
(* Translated from libtrn/ng.cpp, rthread.cpp, Article.cpp, Subject.cpp,   *)
(* ngstuff.cpp and ngdata.cpp. The threads themselves are given (module    *)
(* Threads builds them), and the whole group is in the cache. One action   *)
(* is one turn of the loop or one command up to its result. The text of    *)
(* articles, cross-posts, kill files, scoring and scan modes are left out. *)
(***************************************************************************)
EXTENDS Integers, FiniteSets, SequencesExt

CONSTANTS
  Groups,       \* the groups that can be entered, see Shape
  None,         \* no article
  MaxCommands,  \* bound on the commands other than the default
  MaxCancels    \* bound on the articles that go away while the group is read

VARIABLES
  group,     \* the group: its articles, threads and subjects
  g,         \* g_nav, the flags of articles and subjects, the counts
  pc,        \* "loop", "more": in the pager, "raised" and "marked": a command
             \* given in the pager, "prompt", "selector", "left" or "crashed"
  commands,  \* commands so far
  cancels    \* articles gone so far

vars == <<group, g, pc, commands, cancels>>

\* Numbers count from 1, a group has finitely many articles, and the places of
\* articles and subjects are numbers.
ASSUME GroupsAssumption ==
  \A r \in Groups :
    /\ IsFiniteSet(r.posted) /\ r.posted \subseteq Nat \ {0}
    /\ IsFiniteSet(r.fakes)
    /\ \A n \in r.posted \cup r.fakes : r.pos[n] \in Nat /\ r.subj[n] \in Nat
    /\ r.last \in Nat

\* A group has articles with numbers; a number may have none. fakes stand for
\* articles that are only referred to. pos is the place in the order that
\* next_article follows; a subject is a number too, in the order of the list.
Nodes == group.posted \cup group.fakes
Above(n) == group.above[n]              \* the ancestors of n
Depth(n) == Cardinality(Above(n))
Subj(n) == group.subj[n]
Thread(s) == group.thread[s]
Pos(n) == group.pos[n]
FirstIn(ns) == CHOOSE n \in ns : \A m \in ns : Pos(n) <= Pos(m)
LastIn(ns) == CHOOSE n \in ns : \A m \in ns : Pos(m) <= Pos(n)
Sorted(ns, sooner(_, _)) ==
  [i \in 1..Cardinality(ns) |->
     CHOOSE n \in ns : Cardinality({m \in ns : sooner(m, n)}) = i - 1]
Ascending(ns) == Sorted(ns, <)
Least(ns) == CHOOSE n \in ns : \A m \in ns : n <= m
Greatest(ns) == CHOOSE n \in ns : \A m \in ns : m <= n

NumOf(n) == IF n \in group.fakes THEN 0 ELSE n
At(n) == [num |-> NumOf(n), art |-> n]
End(h) == [num |-> h.last + 1, art |-> None]
Before == [num |-> 0, art |-> None]     \* article_before(g_abs_first)
\* GroupArticleCache::find.
Find(h, num) == IF num \in group.posted /\ num <= h.last THEN num ELSE None

\* The articles and fakes there are by now; an article that is gone stays a
\* node of its thread but is in no subject's list.
Arrived(h) == {n \in Nodes : NumOf(n) <= h.last}
Sub(h, n) == {m \in Arrived(h) : m = n \/ n \in Above(m)}
Subjects(h) == {Subj(n) : n \in Arrived(h)}
Listed(h, ss) == {n \in h.exists : Subj(n) \in ss}
InThread(h, s) ==
  IF group.threaded THEN {r \in Subjects(h) : Thread(r) = Thread(s)} ELSE {s}

-------------------------------------------------------------------------------
\* Moving about. An article without AF_EXISTS is passed over; it is read.

Wanted(h, sel, reread, n) == (reread \/ n \in h.unread) /\ (sel => n \in h.sel)

\* next_article and prev_article go through a thread or, in a group without
\* threads, through the list of a subject.
OneWalk(h, s) == Listed(h, InThread(h, s))

InOrder(h, n) == n \in ToSet(h.order)
Place(h, n) == CHOOSE i \in DOMAIN h.order : h.order[i] = n
NextInOrder(h, from, sel, reread) ==
  LET rest == {i \in DOMAIN h.order :
                 /\ from # None => InOrder(h, from) /\ i > Place(h, from)
                 /\ Wanted(h, sel, reread, h.order[i])}
  IN IF rest = {} THEN End(h) ELSE At(h.order[Least(rest)])
PrevInOrder(h, from, sel, reread) ==
  LET rest == {i \in DOMAIN h.order :
                 /\ from # None /\ InOrder(h, from) => i < Place(h, from)
                 /\ Wanted(h, sel, reread, h.order[i])}
  IN IF rest = {} THEN Before ELSE At(h.order[Greatest(rest)])

\* next_subject and prev_subject: in the thread mode, not of the same thread.
OtherWalk(s, r) == group.byThread => Thread(s) # Thread(r)
Visited(h, reread) == {s \in Subjects(h) : reread \/ s \in h.visit}

NextByWalk(h, from, sel, reread) ==
  LET here == {n \in OneWalk(h, Subj(from)) :
                 Pos(n) > Pos(from) /\ Wanted(h, sel, reread, n)}
      found(s) == {n \in OneWalk(h, s) : Wanted(h, sel, reread, n)}
      later == {s \in Visited(h, reread) :
                  /\ from # None => s > Subj(from) /\ OtherWalk(Subj(from), s)
                  /\ found(s) # {}}
  IN IF from # None /\ here # {} THEN At(FirstIn(here))
     ELSE IF later # {} THEN At(FirstIn(found(Least(later))))
     ELSE End(h)
PrevByWalk(h, from, sel, reread) ==
  LET here == {n \in OneWalk(h, Subj(from)) :
                 Pos(n) < Pos(from) /\ Wanted(h, sel, reread, n)}
      found(s) == {n \in OneWalk(h, s) : Wanted(h, sel, reread, n)}
      sooner == {s \in Visited(h, reread) :
                   /\ from # None => s < Subj(from) /\ OtherWalk(Subj(from), s)
                   /\ found(s) # {}}
  IN IF from # None /\ here # {} THEN At(LastIn(here))
     ELSE IF sooner # {} THEN At(LastIn(found(Greatest(sooner))))
     ELSE Before

NextByNumber(h, num, sel, reread) ==
  LET rest == {n \in h.exists : n > num /\ Wanted(h, sel, reread, n)}
  IN IF rest = {} THEN End(h) ELSE At(Least(rest))
PrevByNumber(h, num, sel, reread) ==
  LET rest == {n \in h.exists : n < num /\ Wanted(h, sel, reread, n)}
  IN IF rest = {} THEN Before ELSE At(Greatest(rest))

ByWalk(h, from, reread) ==
  /\ group.threaded \/ h.search
  /\ from # None \/ Visited(h, reread) # {}

\* ArticleLocation::next and prev, from h.target.
NextLoc(h, sel, reread) ==
  LET from == h.target.art IN
  IF h.order # << >> THEN NextInOrder(h, from, sel, reread)
  ELSE IF ByWalk(h, from, reread) THEN NextByWalk(h, from, sel, reread)
  ELSE NextByNumber(h, IF from = None THEN h.first - 1 ELSE h.target.num, sel, reread)
PrevLoc(h, sel, reread) ==
  LET from == h.target.art IN
  IF h.order # << >> THEN PrevInOrder(h, from, sel, reread)
  ELSE IF ByWalk(h, from, reread) THEN PrevByWalk(h, from, sel, reread)
  ELSE PrevByNumber(h, h.target.num, sel, reread)
\* prev_article looks for the article before one that its list has lost.
PrevIsLost(h) ==
  /\ h.order = << >> /\ ~group.threaded /\ h.search
  /\ h.target.art # None /\ h.target.art \notin h.exists

To(h, loc) == [h EXCEPT !.target = loc]
\* ArticleLocation::first.
ToFirst(h) == To(h, NextLoc(To(h, End(h)), h.selOnly, FALSE))
Restore(h) == To(h, h.current)

\* Subject::subj_article: the first unread article, or the first at all, which
\* is then to be read again. The mode says what a subject's articles are.
OfSubject(h, s) == Listed(h, IF group.byThread THEN InThread(h, s) ELSE {s})
SubjArticle(h, s) ==
  LET all == OfSubject(h, s)
      new == {n \in all : n \in h.unread /\ (h.selOnly => n \in h.sel)}
      old == {n \in all : h.selOnly /\ n \in h.sel}
  IN IF new # {} THEN To(h, At(FirstIn(new)))
     ELSE [h EXCEPT !.target = At(FirstIn(IF old # {} THEN old ELSE all)),
                    !.reread = TRUE]
\* visit_next_thread and visit_prev_thread: past the subjects without articles.
Visitable(h, side(_)) ==
  {s \in h.visit : side(s) /\ OfSubject(h, s) # {}}
VisitNext(h) ==
  LET from == h.target.art
      ahead == Visitable(h, LAMBDA s : from # None =>
                               s > Subj(from) /\ OtherWalk(Subj(from), s))
  IN IF ahead = {} THEN [To(h, End(h)) EXCEPT !.force = TRUE]
     ELSE SubjArticle(h, Least(ahead))
VisitPrev(h) ==
  LET from == h.target.art
      back == Visitable(h, LAMBDA s : from # None =>
                              s < Subj(from) /\ OtherWalk(Subj(from), s))
  IN IF back = {} THEN [To(h, End(h)) EXCEPT !.force = TRUE]
     ELSE SubjArticle(h, Greatest(back))

\* find_parent, find_leaf and the articles of the same level.
Parent(n) == CHOOSE m \in Above(n) : Depth(m) = Depth(n) - 1
Root(n) == CHOOSE m \in Above(n) : Depth(m) = 0
Children(h, n) == {m \in Sub(h, n) : Depth(m) = Depth(n) + 1}
FirstChild(h, n) == IF Children(h, n) = {} THEN n ELSE FirstIn(Children(h, n))
Leaf(h, n) ==
  CHOOSE m \in Sub(h, n) :
    /\ Children(h, m) = {}
    /\ \A a \in ({m} \cup Above(m)) \ ({n} \cup Above(n)) : a = FirstChild(h, Parent(a))
Level(h, n) ==
  {m \in Arrived(h) : Thread(Subj(m)) = Thread(Subj(n)) /\ Depth(m) = Depth(n)}
Relatives(h, n) ==
  (IF Above(n) = {} THEN {} ELSE {Parent(n), Root(n)})
    \cup (IF Children(h, n) = {} THEN {} ELSE {FirstChild(h, n), Leaf(h, n)})
    \cup (LET later == {m \in Level(h, n) : Pos(m) > Pos(n)}
              sooner == {m \in Level(h, n) : Pos(m) < Pos(n)}
          IN (IF later = {} THEN {} ELSE {FirstIn(later)})
               \cup (IF sooner = {} THEN {} ELSE {LastIn(sooner)}))

\* next_with_subject and prev_with_subject.
WithSubject(h, ahead) ==
  LET from == h.target.art
      same == {n \in Listed(h, {Subj(from)}) : h.selOnly => n \in h.sel}
  IN IF from = None THEN {}
     ELSE IF ahead THEN {n \in same : from \notin group.fakes /\ n > from /\ n \in h.unread}
     ELSE {n \in same : from \in h.exists /\ n < from}
\* art_search for the subject: ahead for an unread article, from the top at the
\* end of the group, and back for any.
Alike(h) ==
  {n \in h.exists : /\ h.target.art # None => Subj(n) = Subj(h.target.art)
                    /\ h.selOnly => n \in h.sel}
Ahead(h) ==
  LET at == IF h.target.num = 0 THEN h.first
            ELSE IF h.target.num > h.last THEN h.first - 1 ELSE h.target.num
  IN {n \in Alike(h) : n > at /\ n \in h.unread}
Behind(h) ==
  LET at == IF h.target.num = 0 THEN h.last ELSE h.target.num
  IN {n \in Alike(h) : n < at}

-------------------------------------------------------------------------------
\* Reading, selecting and counting.

\* Mutant: one_less that does not ask whether the article was read already.
LessAnyway(h, ns) ==
  [h EXCEPT !.unread = @ \ ns, !.sel = @ \ ns,
            !.selCount = @ - Cardinality(ns \cap h.sel),
            !.toRead = IF @ > Cardinality(ns) THEN @ - Cardinality(ns) ELSE 0]
\* one_less and one_more for each article of a set.
Less(h, ns) ==
  LET gone == ns \cap h.unread IN
  [h EXCEPT !.unread = @ \ gone, !.sel = @ \ gone,
            !.selCount = @ - Cardinality(gone \cap h.sel),
            !.toRead = IF @ > Cardinality(gone) THEN @ - Cardinality(gone) ELSE 0]
More(h, ns) ==
  LET new  == ns \ h.unread
      with == {n \in new : h.selOnly /\ Subj(n) \in h.ssel /\ n \notin h.sel}
  IN [h EXCEPT !.unread = @ \cup new,
               !.toRead = @ + Cardinality(new),
               !.first = Least({@} \cup new),
               !.sel = @ \cup with,
               !.selCount = @ + Cardinality(with),
               !.visit = IF h.selOnly THEN @ ELSE @ \cup {Subj(n) : n \in new}]

\* count_subjects: what it counts, what it keeps of the visits, and which of
\* the subjects stay selected.
Counted(h, s) == Listed(h, {s}) \cap h.unread
CountWith(h, visit, ssel, taken) ==
  LET full == {s \in Subjects(h) : Counted(h, s) # {}}
      all  == UNION {Counted(h, s) : s \in full}
  IN [h EXCEPT !.visit = visit \cup {s \in full : h.selOnly => s \in ssel},
               !.ssel = ssel, !.misc = full,
               !.selCount = Cardinality((UNION {Counted(h, s) : s \in taken}) \cap h.sel),
               !.first = IF all = {} THEN h.last + 1 ELSE Least(all)]
HasSelected(h, s) == Counted(h, s) \cap h.sel # {}
Selected(h) == {s \in h.ssel : HasSelected(h, s)}
VisitAll(h) ==
  IF h.misc = {} /\ ~h.selOnly THEN [h EXCEPT !.visit = Subjects(h)] ELSE h
\* Mutant: the subjects are not counted at the end of the group.
CountRetainNot(h) == h
CountRetain(h) == CountWith(h, h.visit, h.ssel, Selected(h))
CountNorm(h) == VisitAll(CountWith(h, {}, h.ssel, Selected(h)))
CountUnselect(h) == VisitAll(CountWith(h, {}, Selected(h), Selected(h)))
CountUnselStore(h) ==
  LET ss == {s \in Subjects(h) : HasSelected(h, s)}
  IN VisitAll(CountWith(h, {}, ss, ss))
CountReselect(h, visit) == CountWith(h, visit, visit, visit)
\* Mutant: the articles to read are not counted again at the end of the group.
RecountedNot(h) == h
Recounted(h) == [h EXCEPT !.toRead = Cardinality(Listed(h, Subjects(h)) \cap h.unread)]

\* select_article for each article of a set.
SelectArticles(h, ns) ==
  LET new == ((ns \cap h.exists) \cap h.unread) \ h.sel
      ss  == {Subj(n) : n \in ns}
  IN [h EXCEPT !.sel = @ \cup new, !.selCount = @ + Cardinality(new),
               !.ssel = @ \cup ss, !.visit = @ \cup ss,
               !.selOnly = @ \/ h.selCount + Cardinality(new) # 0]
SelectSubjects(h, ss) ==
  LET new  == (Listed(h, ss) \cap h.unread) \ h.sel
      subs == {Subj(n) : n \in new}
  IN [h EXCEPT !.sel = @ \cup new, !.selCount = @ + Cardinality(new),
               !.ssel = @ \cup subs, !.visit = @ \cup subs,
               !.selOnly = @ \/ new # {}]
\* select_articles_thread and select_articles_subject.
SelectWith(h, n, ss) ==
  IF Listed(h, {Subj(n)}) = {} /\ ~group.threaded THEN SelectArticles(h, {n})
  ELSE SelectSubjects(h, ss)
SelectSub(h, n) ==
  LET new == (Sub(h, n) \cap h.exists \cap h.unread) \ h.sel IN
  IF new = {} THEN h
  ELSE [h EXCEPT !.sel = @ \cup new, !.selCount = @ + Cardinality(new),
                 !.ssel = @ \cup {Subj(n)}, !.visit = @ \cup {Subj(n)},
                 !.selOnly = TRUE]
Deselect(h, n) ==
  [h EXCEPT !.sel = @ \ {n}, !.selCount = @ - Cardinality({n} \cap h.sel)]
DeselectSubjects(h, ss) ==
  LET old == Listed(h, ss) \cap h.sel IN
  [h EXCEPT !.sel = @ \ old, !.selCount = @ - Cardinality(old),
            !.ssel = @ \ ss, !.visit = @ \ ss]

Return(h, ns) == [h EXCEPT !.yank = @ \cup (ns \ group.fakes)]
KillSubjects(h, ss) == [Less(h, Listed(h, ss)) EXCEPT !.visit = @ \ ss]
KillSub(h, n) == Less(h, Sub(h, n) \cap h.exists)
\* Article::unkill_thread and unkill_sub_thread.
UnkillThread(h, s) ==
  LET all == Listed(h, InThread(h, s))
      u   == More(h, all)
      new == IF h.selOnly THEN all \ u.sel ELSE {}
      subs == {Subj(n) : n \in IF h.selOnly THEN all \ h.sel ELSE {}} \ h.ssel
  IN [u EXCEPT !.sel = @ \cup new, !.selCount = @ + Cardinality(new),
               !.ssel = @ \cup subs, !.visit = @ \cup subs]
UnkillSub(h, n) ==
  LET all == Sub(h, n) \cap h.exists
      u   == IF h.selOnly THEN SelectArticles(More(h, all), all) ELSE More(h, all)
  IN [u EXCEPT !.ssel = @ \cup {Subj(n)}, !.visit = @ \cup {Subj(n)},
               !.selOnly = @ \/ u.selCount # 0]
YankBack(h) ==
  LET back == h.yank \cap h.exists
      u    == More([h EXCEPT !.yank = {}], back)
  IN IF h.selOnly THEN SelectArticles(u, back) ELSE u
\* uncache_article: the article is not to be had.
Lost(h, n) == [Less(h, {n}) EXCEPT !.exists = @ \ {n}, !.yank = @ \ {n}]

\* perform: a command of a list, for one article.
Marks == {"j", "m", "M", "+", "-", ".", ",", "++", "--", "J", "k"}
ThreadOf(h, n) == IF group.byThread THEN InThread(h, Subj(n)) ELSE {Subj(n)}
Perform(h, n, mark) ==
  CASE mark = "j"  -> Less(h, {n})
    [] mark = "m"  -> More(h, {n} \cap h.exists)
    [] mark = "M"  -> Less(Return(h, {n}), {n})
    [] mark = "+"  -> SelectArticles(h, {n})
    [] mark = "-"  -> Deselect(h, n)
    [] mark = "."  -> SelectSub(h, n)
    [] mark = ","  -> KillSub(h, n)
    [] mark = "++" -> SelectWith(h, n, ThreadOf(h, n))
    [] mark = "--" -> DeselectSubjects(h, ThreadOf(h, n))
    [] mark = "J"  -> KillSubjects(h, ThreadOf(h, n))
    [] mark = "k"  -> KillSubjects(h, {Subj(n)})

\* A list of commands goes through a sequence, what of whose members it takes
\* being given by how: all (num_num), or the articles or the subjects that
\* thread_perform wants.
Takes(k, x, how) ==
  CASE how.of = "numbers"  -> TRUE
    [] how.of = "articles" -> /\ (x \in k.unread) <=> (how.mark # "m")
                              /\ (x \in k.sel) <=> ~how.all
    [] how.of = "subjects" -> /\ (x \in k.ssel) <=> ~how.all
                              /\ x \in k.misc /\ OfSubject(k, x) # {}
PerformOn(k, x, how) ==
  IF ~Takes(k, x, how) THEN k
  ELSE Perform(k, IF how.of = "subjects" THEN FirstIn(OfSubject(k, x)) ELSE x, how.mark)
Through(h, seq, how) ==
  LET f[i \in 0..Len(seq)] ==
        IF i = 0 THEN h
        ELSE CHOOSE k \in {PerformOn(j, seq[i], how) : j \in {f[i - 1]}} : TRUE
  IN f[Len(seq)]
PerformAll(h, ns, mark) ==
  Through(h, Ascending(ns), [of |-> "numbers", mark |-> mark, all |-> TRUE])

\* thread_perform: the subjects it visits, and their articles in their order.
FirstOfThread(ss, s) ==
  \A r \in ss : r < s => ~(group.byThread /\ Thread(r) = Thread(s))
Chain(h, all) ==
  LET ss == {s \in Subjects(h) : all \/ s \in h.visit}
  IN {s \in ss : FirstOfThread(ss, s)}
OfChain(h, s) == IF group.byThread THEN OneWalk(h, s) ELSE Listed(h, {s})
Sooner(m, n) == IF group.byThread THEN Pos(m) < Pos(n) ELSE m < n
Ordered(h, ss) ==
  LET links == UNION {{s} \X OfChain(h, s) : s \in ss}
      seq   == Sorted(links, LAMBDA k, l : \/ k[1] < l[1]
                                           \/ k[1] = l[1] /\ Sooner(k[2], l[2]))
  IN [i \in DOMAIN seq |-> seq[i][2]]
ThreadPerform(h, ss, mark, all) ==
  LET how == [of |-> IF mark \in {"++", "--", "J"} THEN "subjects" ELSE "articles",
              mark |-> mark, all |-> all]
  IN Through(h, IF how.of = "subjects" THEN Ascending(ss)
                ELSE IF h.order # << >> THEN h.order
                ELSE Ordered(h, ss), how)

\* The article selector, up to the way out of it: ss are the subjects that it
\* leaves selected, dead the ones marked to be killed.
Chosen(h, ss, dead) ==
  LET all  == Subjects(h)
      off  == DeselectSubjects(h, all \ ss)
      on   == SelectSubjects(off, ss)
      kept == Less(on, {n \in Listed(on, dead) : n \notin on.sel})
  IN [kept EXCEPT !.visit = @ \ dead]
\* The subjects whose read articles are to be unread again (unkill_subject).
Unkilled(h, ss) ==
  LET new  == Listed(h, ss) \ h.unread
      more == {Subj(n) : n \in new}
  IN [h EXCEPT !.unread = @ \cup new, !.sel = @ \cup new,
               !.toRead = @ + Cardinality(new), !.selCount = @ + Cardinality(new),
               !.ssel = @ \cup more, !.visit = @ \cup more]
OutOfSelector(h, before, back, byArticle) ==
  LET way == [h EXCEPT !.selOnly = IF back THEN before.selOnly ELSE h.selCount # 0,
                       !.search = ~byArticle /\ (@ \/ ~group.threaded),
                       !.order = IF byArticle THEN @ ELSE << >>]
  IN IF back THEN Restore(CountReselect(way, before.visit))
     ELSE ToFirst(CountUnselect(way))

-------------------------------------------------------------------------------
\* The loop. Every step leads to the top of the loop ("loop"), to the prompt,
\* into the pager, or out of the group.

Ask(h) == [Restore(h) EXCEPT !.reread = FALSE, !.force = FALSE]
Commit(h) ==
  IF h.target = h.current THEN h
  ELSE [h EXCEPT !.recent = h.current, !.current = h.target]
DeselectAll(h) ==
  [h EXCEPT !.sel = {}, !.ssel = {}, !.visit = {}, !.selCount = 0, !.selOnly = FALSE]

Turn(h, to) ==
  /\ pc' = to
  /\ g' = CASE to = "prompt" -> Ask(h)
            [] to = "left" -> YankBack(DeselectAll(h))
            [] OTHER -> h
  /\ UNCHANGED group

\* grow_newsgroup and thread_grow: up to the number last has arrived.
Grow(h, last) ==
  LET new   == {n \in group.posted : n > h.last /\ n <= last}
      big   == [h EXCEPT !.last = last, !.exists = @ \cup new, !.unread = @ \cup new,
                         !.toRead = @ + Cardinality(new), !.grow = FALSE]
      count == CountNorm(big)
      order == IF h.order = << >> THEN << >> ELSE Ascending(count.unread)
      at    == IF h.force /\ h.target.num > h.last THEN last + 1 ELSE h.target.num
  IN [IF new = {} THEN [h EXCEPT !.grow = FALSE] ELSE [count EXCEPT !.order = order]
        EXCEPT !.target.num = at]
Growths(h) ==
  IF h.target.num > h.last \/ h.grow
  THEN {Grow(h, last) : last \in {h.last} \cup {n \in group.posted : n > h.last}}
  ELSE {h}
Found(h) ==
  LET num == h.target.num IN
  IF num # 0 \/ h.target.art \notin group.fakes \cup {None}
  THEN To(h, [num |-> num, art |-> Find(h, num)]) ELSE h

PastEnd(h) == h.target.num > h.last
OnlySelected(h) == ~h.force /\ h.toRead > 0 /\ h.selOnly /\ h.selCount = 0
AtTheEnd(h) ==
  IF OnlySelected(h) THEN Turn(Restore(h), "selector")
  ELSE \E k \in {Commit(Recounted(CountRetain(To(h, End(h)))))} :
         IF k.toRead = 0 /\ ~k.force THEN Turn(k, "left")
         ELSE Turn([k EXCEPT !.search = FALSE], "prompt")

WasRead(h) == Find(h, h.target.num) \notin h.unread
Skipped(h) == ~h.reread /\ (WasRead(h) \/ (h.selOnly /\ h.target.art \notin h.sel))
NextExisting(h) ==
  LET rest == {n \in h.exists : n > h.target.num}
  IN IF rest = {} THEN End(h) ELSE At(Least(rest))
\* newsgroup_skip, over the network and in a spool directory.
Skip(h) == \/ Turn(To(h, NextExisting(h)), "loop")
           \/ Turn(To(h, NextLoc(h, h.selOnly, FALSE)), "loop")
ShownRead(h) == IF h.target.art \in group.posted THEN Less(h, {h.target.art}) ELSE h
Unavailable(h) == Turn(ShownRead([h EXCEPT !.search = FALSE]), "prompt")

\* One turn at the top of the loop, gone: the server no longer has the article.
Show(gone) ==
  /\ pc = "loop"
  /\ \E grown \in Growths(g) : \E h \in {Found(grown)} :
       LET n == h.target.art IN
       /\ gone => n \in h.exists /\ ~PastEnd(h) /\ ~Skipped(h) /\ cancels < MaxCancels
       /\ IF PastEnd(h) THEN AtTheEnd(h)
          ELSE IF Skipped(h) THEN Turn(To(h, NextLoc(h, h.selOnly, FALSE)), "loop")
          ELSE IF ~h.reread /\ gone THEN Skip(Lost(h, n))
          ELSE IF ~h.reread /\ n \notin h.exists THEN Skip(Less(h, {n}))
          ELSE IF gone THEN Unavailable(Lost(Commit(h), n))
          ELSE IF n \notin h.exists THEN Unavailable(Commit(h))
          ELSE Turn(Commit(h), "more")
  /\ cancels' = cancels + (IF gone THEN 1 ELSE 0)
  /\ UNCHANGED commands

\* The article is read to its end.
EndArticle ==
  /\ pc = "more"
  /\ Turn(ShownRead(g), "prompt")
  /\ UNCHANGED <<commands, cancels>>
\* A key of the pager that is a command of the loop; some mark the article read.
Raise ==
  /\ pc = "more"
  /\ commands < MaxCommands
  /\ \/ Turn([g EXCEPT !.reread = FALSE], "raised")
     \/ Turn(ShownRead([g EXCEPT !.reread = FALSE]), "marked")
  /\ UNCHANGED <<commands, cancels>>

Key(where) ==
  /\ pc \in {"prompt", where}
  /\ commands < MaxCommands
  /\ commands' = commands + 1
  /\ UNCHANGED cancels

NextSubject ==
  Key("raised") /\ (Turn(VisitNext(g), "loop") \/ Turn(VisitPrev(g), "loop"))
Relative ==
  /\ Key("raised")
  /\ group.threaded /\ g.target.art # None
  /\ \E n \in Relatives(g, g.target.art) :
       Turn([To(g, At(n)) EXCEPT !.reread = TRUE], "loop")

\* p and P.
PrevUnread ==
  /\ Key("raised")
  /\ IF PrevIsLost(g) THEN Turn(g, "crashed")
     ELSE \E loc \in {PrevLoc(g, g.selOnly, FALSE)} :
            Turn([To(g, loc) EXCEPT !.search = FALSE],
                 IF loc.num >= g.first THEN "loop" ELSE "prompt")
PrevArticle ==
  /\ Key("raised")
  /\ IF PrevIsLost(g) THEN Turn(g, "crashed")
     ELSE \E loc \in {PrevLoc(g, FALSE, TRUE)} :
            IF loc.num < 1 THEN Turn(g, "prompt")
            ELSE Turn([To(g, loc) EXCEPT !.reread = TRUE, !.search = FALSE], "loop")
\* The key - and the key $.
Recent ==
  /\ Key("raised")
  /\ \/ Turn([To(g, g.recent) EXCEPT !.reread = TRUE, !.force = TRUE], "loop")
     \/ Turn([To(g, End(g)) EXCEPT !.force = TRUE, !.search = FALSE], "loop")

\* n, also as the default.
NextUnread ==
  \E h \in {IF PastEnd(g) THEN g ELSE To(g, NextLoc(g, g.selOnly, FALSE))} :
    IF PastEnd(g) /\ g.toRead = 0 THEN Turn(g, "left")
    ELSE Turn([IF PastEnd(h) THEN ToFirst(h) ELSE h EXCEPT !.search = FALSE], "loop")
\* N: the next article; at the end of the group, the first one of all.
NextArticle ==
  LET list == Listed(g, {Least(Subjects(g))})
      first == IF g.order # << >> THEN NextLoc(To(g, End(g)), FALSE, TRUE)
               ELSE At(Least(list))
      goes(h) == Turn([h EXCEPT !.search = FALSE, !.reread = ~PastEnd(h),
                                !.force = @ \/ PastEnd(h)], "loop")
  IN IF ~PastEnd(g) THEN goes(To(g, NextLoc(g, FALSE, TRUE)))
     ELSE IF g.order = << >> /\ list = {} THEN Turn(g, "crashed")
     ELSE goes(To(g, first))
\* ^N: the next unread article of the subject, else the first one to read.
NextOfSubject ==
  LET near == WithSubject(g, TRUE)
      far  == Ahead(g)
      h    == [g EXCEPT !.search = TRUE]
  IN IF near # {} THEN Turn(To(h, At(Least(near))), "loop")
     ELSE IF far # {} THEN Turn(To(h, At(Least(far))), "loop")
     ELSE Turn(ToFirst(h), "loop")
PrevOfSubject ==
  LET near == WithSubject(g, FALSE)
      far  == Behind(g)
  IN IF near # {} THEN Turn(To(g, At(Greatest(near))), "loop")
     ELSE IF far = {} THEN Turn([g EXCEPT !.search = TRUE], "prompt")
     ELSE Turn([To(g, At(Greatest(far))) EXCEPT !.search = TRUE], "loop")

\* The space bar at the prompt: set_default_cmd.
Default ==
  /\ pc = "prompt"
  /\ IF g.toRead # 0 /\ g.search THEN NextOfSubject ELSE NextUnread
  /\ UNCHANGED <<commands, cancels>>
Forward ==
  /\ Key("marked")
  /\ NextUnread \/ NextArticle \/ NextOfSubject
Ctrl_P == Key("raised") /\ PrevOfSubject

\* A number: that article is shown; with commands, and ranges, they are done.
Number ==
  /\ Key("raised")
  /\ \E num \in 1..g.last :
       Turn([g EXCEPT !.target = [num |-> num, art |-> Find(g, num)],
                      !.reread = TRUE, !.force = TRUE], "loop")
Ranges ==
  /\ Key("raised")
  /\ \E low, high \in group.posted \cap 1..g.last : \E mark \in Marks :
       /\ low <= high
       /\ Turn(PerformAll(g, group.posted \cap low..high, mark), "prompt")
\* : and ::, for all or with a dot for the thread or subject of the article.
Colon ==
  /\ Key("raised")
  /\ \E all \in BOOLEAN, mark \in Marks :
       \/ Turn(ThreadPerform(g, Chain(g, all), mark, all), "prompt")
       \/ /\ g.target.art # None
          /\ Turn(ThreadPerform(g, {Least(ThreadOf(g, g.target.art))}, mark, all), "prompt")
\* A search that finds an article, and one with a command for all it finds.
Search ==
  /\ Key("raised")
  /\ \/ \E n \in g.exists : Turn([To(g, At(n)) EXCEPT !.reread = TRUE], "loop")
     \/ \E s \in Subjects(g), mark \in Marks :
          LET ns == {n \in Listed(g, {s}) : n \in g.unread \/ mark = "m"}
              h  == PerformAll(g, ns, mark)
          IN IF g.search THEN Turn(ToFirst(h), "loop") ELSE Turn(h, "prompt")
\* _P and _N: the number before and after.
Adjacent ==
  /\ Key("raised")
  /\ LET goes(num) == Turn([g EXCEPT !.target = [num |-> num, art |-> Find(g, num)],
                                     !.reread = num <= g.last, !.search = FALSE], "loop")
     IN \/ IF g.target.num <= 1 THEN Turn(g, "prompt") ELSE goes(g.target.num - 1)
        \/ goes(IF PastEnd(g) THEN 1 ELSE g.target.num + 1)

\* M, m and j take it for granted that the number has an article.
MarkArticle ==
  /\ Key("raised")
  /\ ~PastEnd(g)
  /\ IF g.target.art = None THEN Turn(g, "crashed")
     ELSE \/ Turn(Perform(g, g.target.art, "M"), "prompt")
          \/ /\ g.target.num >= 1
             /\ \/ Turn(More(g, {g.target.art}), "prompt")
                \/ Turn(Less(g, {g.target.art}), "prompt")
\* The keys k, K, J and comma, and T and A with them: what is killed.
Kill ==
  /\ Key("marked")
  /\ g.target.art # None
  /\ LET n == g.target.art
         h == KillSubjects(g, {Subj(n)})
     IN \/ Turn(h, "loop")
        \/ group.threaded /\ Turn(KillSubjects(g, InThread(g, Subj(n))), "loop")
        \/ Turn(IF group.threaded THEN KillSub(g, n) ELSE Less(g, {n}), "loop")
        \/ ~group.threaded /\ IF g.search THEN Turn(ToFirst(h), "loop") ELSE Turn(h, "prompt")
\* _m and _M: killed, to return when the group is left.
KillForNow ==
  /\ Key("raised")
  /\ g.target.art # None
  /\ LET n == g.target.art
         ss == InThread(g, Subj(n))
     IN \/ Turn(KillSub(Return(g, Sub(g, n)), n), "loop")
        \/ Turn(KillSubjects(Return(g, Listed(g, ss)), ss), "loop")
\* T and A that select: the subject, the thread or what follows the article.
Memorize ==
  /\ Key("marked")
  /\ g.target.art # None
  /\ LET n == g.target.art
     IN \/ Turn(SelectWith(g, n, {Subj(n)}), "prompt")
        \/ group.threaded /\ Turn(SelectWith(g, n, InThread(g, Subj(n))), "prompt")
        \/ group.threaded /\ Turn(SelectSub(g, n), "prompt")
\* _+ and _-.
SelectKeys ==
  /\ Key("raised")
  /\ g.target.art # None
  /\ LET n == g.target.art
         ss == InThread(g, Subj(n))
         new == {m \in OneWalk(g, Subj(n)) : m \in g.unread}
     IN \/ Turn(DeselectSubjects(g, ss), "prompt")
        \/ \E h \in {SelectWith(g, n, ss)} :
             IF new # {} /\ FirstIn(new) # n
             THEN Turn(To(h, At(FirstIn(new))), "loop")
             ELSE Turn(h, "prompt")
\* U: the thread, what follows the article, or all are unread again.
Unread ==
  /\ Key("raised")
  /\ LET n  == g.target.art
         ns == OneWalk(g, Subj(n))
     IN \/ /\ n # None
           /\ \E h \in {UnkillThread(g, Subj(n))} :
                Turn(IF ns = {} THEN [h EXCEPT !.target.art = None]
                     ELSE To(h, At(FirstIn(ns))), "loop")
        \/ n # None /\ Turn(UnkillSub(g, n), "loop")
        \/ Turn(Recounted(CountNorm([g EXCEPT !.unread = g.exists])), "loop")
\* c, leaving some unread or none.
CatchUp(leave) ==
  LET gone == {n \in group.posted : n <= g.last - leave}
      h    == [g EXCEPT !.unread = @ \ gone, !.sel = @ \ gone]
  IN IF leave > 0 THEN Recounted(CountNorm(h))
     ELSE YankBack([h EXCEPT !.selCount = 0, !.selOnly = FALSE, !.toRead = 0])
CatchUpAll ==
  /\ Key("raised")
  /\ \E leave \in 0..1 :
       \/ Turn([To(CatchUp(leave), End(g)) EXCEPT !.force = FALSE], "loop")
       \/ Turn(CatchUp(leave), "left")
\* Y and ^.
FromTop ==
  /\ Key("raised")
  /\ \/ Turn(ToFirst(YankBack(g)), "loop")
     \/ Turn([ToFirst(g) EXCEPT !.search = FALSE], "loop")
\* f posts an article, that may arrive; ^R and x, and l and b, show the article
\* again; q leaves the article, and q, Q and u the group; the other keys come
\* back to the prompt.
Others ==
  \/ Key("more") /\ Turn(g, "prompt")
  \/ Key("marked") /\ Turn([g EXCEPT !.grow = TRUE], "prompt")
  \/ Key("marked") /\ Turn(g, "prompt")
  \/ Key("raised") /\ Turn([g EXCEPT !.reread = ~PastEnd(g), !.force = @ \/ PastEnd(g)], "loop")
  \/ Key("raised") /\ Turn([g EXCEPT !.reread = ~PastEnd(g)], "loop")
  \/ Key("raised") /\ Turn(g, "left")
\* pager_mouse: a click in the tree, which is shown with the article.
TreeClick ==
  /\ Key("more")
  /\ g.target.art # None
  /\ LET again(h) == Turn([h EXCEPT !.reread = TRUE], "loop") IN
     \E n \in {m \in Arrived(g) : Thread(Subj(m)) = Thread(Subj(g.target.art))} :
       again(To(g, At(n))) \/ again(SelectSub(g, n)) \/ again(KillSub(g, n))

\* The article selector, from which back ("+") leads to the prompt.
ToSelector(h) == CountUnselStore([To(h, End(h)) EXCEPT !.selOnly = TRUE])
FromSelector(h, back) ==
  Turn(h, IF back THEN "prompt" ELSE IF h.toRead > 0 THEN "loop" ELSE "left")
SortedIf(h, byArticle, ns) ==
  [h EXCEPT !.order = IF byArticle THEN Ascending(ns) ELSE << >>]
Select ==
  /\ Key(IF pc = "selector" THEN "selector" ELSE "raised")
  /\ \E back, byArticle \in BOOLEAN, ss \in SUBSET Subjects(g) :
     \E dead \in {{}} \cup {{s} : s \in Subjects(g) \ ss} :
     \E h \in {SortedIf(Chosen(ToSelector(g), ss, dead), byArticle, g.unread)} :
       FromSelector(OutOfSelector(h, g, back, byArticle), back)
SelectNone ==
  /\ pc = "selector"
  /\ FromSelector(OutOfSelector(ToSelector(g), g, FALSE, FALSE), FALSE)
  /\ UNCHANGED <<commands, cancels>>
\* U+: over the articles that were read.
SelectRead ==
  /\ Key("raised")
  /\ \E back, byArticle \in BOOLEAN, ss \in SUBSET Subjects(g) :
     \E h \in {Unkilled([To(g, End(g)) EXCEPT !.selOnly = TRUE, !.visit = {},
                                              !.selCount = 0], ss)} :
       FromSelector(OutOfSelector(SortedIf(h, byArticle, h.unread), g, back, byArticle), back)

\* do_newsgroup: the group is entered with some articles read.
Init ==
  /\ group \in Groups
  /\ \E unread \in SUBSET {n \in group.posted : n <= group.last} :
       g = ToFirst(CountNorm(
             [exists |-> {n \in group.posted : n <= group.last},
              unread |-> unread, sel |-> {}, yank |-> {}, visit |-> {}, ssel |-> {},
              misc |-> {}, selCount |-> 0, selOnly |-> FALSE,
              toRead |-> Cardinality(unread), first |-> 1, last |-> group.last,
              target |-> [num |-> group.last + 1, art |-> None],
              current |-> [num |-> group.last + 1, art |-> None],
              recent |-> [num |-> group.last + 1, art |-> None],
              reread |-> FALSE, force |-> TRUE, grow |-> FALSE, search |-> FALSE,
              order |-> << >>]))
  /\ pc = "loop"
  /\ commands = 0
  /\ cancels = 0

Moves ==
  \/ NextSubject \/ Relative \/ PrevUnread \/ PrevArticle \/ Recent \/ Forward
  \/ Ctrl_P \/ Number \/ Search \/ Adjacent \/ FromTop \/ TreeClick
Changes ==
  \/ Ranges \/ Colon \/ MarkArticle \/ Kill \/ KillForNow \/ Memorize
  \/ SelectKeys \/ Unread
  \/ CatchUpAll \/ Select \/ SelectRead
Next ==
  \/ Show(TRUE) \/ Show(FALSE) \/ EndArticle \/ Raise \/ Default \/ SelectNone
  \/ Moves \/ Changes \/ Others

\* The user goes on, which is WF_vars(Next) written out: a step is possible
\* until the group is left.
Over == pc \in {"left", "crashed"}
Spec == Init /\ [][Next]_vars /\ ([]<>Over \/ []<><<Next>>_vars)

-------------------------------------------------------------------------------

\* The counts that decide whether the group is left, and whether only what is
\* selected is shown, agree with the flags of the articles, whatever mixture of
\* keys, ranges, lists of commands, selections and arrivals came before. As long
\* as no article went away there are exactly toRead unread ones; later it can be
\* less by those that are gone: "m" makes one unread, and the end of the group
\* does not count it.
Gone(h) == {n \in group.posted : n <= h.last} \ h.exists
CountsAgree ==
  /\ g.toRead \in Cardinality(g.unread) - Cardinality(Gone(g))..Cardinality(g.unread)
  /\ g.selCount <= Cardinality(g.sel)

\* When the end of the group is shown, "n" finds an article if there is one to
\* read: the visits of the subjects (SF_VISIT), which kills, deselections and
\* the selector take away, do not hide the last of them (count_subjects).
Reachable ==
  /\ ~g.selOnly /\ g.unread \cap g.exists # {} => ~PastEnd(ToFirst(g))
  /\ g.selOnly /\ g.selCount > 0 => ~PastEnd(ToFirst(g))
EndHidesNothing ==
  [][pc = "loop" /\ pc' = "prompt" /\ PastEnd(g)' /\ g'.order = << >> => Reachable']_vars

\* The space bar alone always comes out of the group, if there is no order.
SpaceLeaves == <>(Over \/ g.order # << >>)
===============================================================================
