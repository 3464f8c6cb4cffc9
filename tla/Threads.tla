------------------------------- MODULE Threads -------------------------------
(***************************************************************************)
(* The article tree of a group: Article.cpp (valid_article,                *)
(* thread_article, link_child, the walks over a thread), Subject.cpp,      *)
(* rt-process.cpp (get_article, unlink_child, merge_threads), the subject  *)
(* list of cache.cpp and the group walk of rthread.cpp.                    *)
(*                                                                         *)
(* A node of the tree is a message id: the hash of message ids holds one   *)
(* Article for each, a fake made when a reference named it or the real     *)
(* article that took the fake's place, links and all.  m_child1 and        *)
(* m_sibling are a sequence per parent; m_thread is the sequence of roots  *)
(* a subject points at; the ring of m_thread_link is the set of subjects   *)
(* on it.  All of it is one record, forest, that the operators below     *)
(* transform the way the functions of the source do, in their order.       *)
(***************************************************************************)
EXTENDS SequencesExt, Integers

CONSTANTS Ids,        \* message ids
          Subjects,   \* subjects, without their "Re: "
          Dates,      \* the dates articles carry
          Posts,      \* articles that may arrive: id, subject, date, references
          Junk,       \* a reference valid_message_id refuses
          None,       \* a null pointer
          Prefix,     \* the first g_join_subject_len characters of a subject
          MaxReplies  \* bound: articles read whose In-Reply-To line adds an id

ASSUME ThreadsAssumption ==
  /\ None \notin Ids \cup Subjects /\ Junk \notin Ids
  /\ Dates \subseteq Nat \ {0}    \* 0 is the date of a node nobody filled in
  /\ Posts \subseteq [id : Ids, subj : Subjects, date : Dates,
                      refs : Seq(Ids \cup {Junk})]

VARIABLES forest,  \* the web
          real,    \* nodes without AF_FAKE: the articles themselves
          line,    \* the references each real article was last threaded on
          replied, \* articles whose In-Reply-To line has been added to them
          join     \* g_join_subject_len is set

threadsVars == <<forest, real, line, replied, join>>

(* The web.                                                                *)
Top(v, s) == IF v.roots[s] = <<>> THEN None ELSE Head(v.roots[s])

Siblings(v, a) ==
  IF v.parent[a] = None THEN v.roots[v.subj[a]] ELSE v.kids[v.parent[a]]

-----------------------------------------------------------------------------
(* Lists sorted by date, and the two operations on a node's links.         *)

InsertByDate(v, q, a) ==
  LET later == {i \in DOMAIN q : v.date[q[i]] > v.date[a]}
      at == IF later = {} THEN Len(q) + 1
            ELSE CHOOSE i \in later : \A j \in later : i <= j
  IN InsertAt(q, at, a)

SetSiblings(v, a, q) ==
  IF v.parent[a] = None
  THEN [v EXCEPT !.roots = [s \in Subjects |->
           IF s \in v.ring[v.subj[a]] THEN q ELSE @[s]]]
  ELSE [v EXCEPT !.kids[v.parent[a]] = q]

LinkChild(v, a) == SetSiblings(v, a, InsertByDate(v, Siblings(v, a), a))

UnlinkChild(v, a) == SetSiblings(v, a, Remove(Siblings(v, a), a))

RECURSIVE LinkAll(_, _)
LinkAll(v, q) ==
  IF q = <<>> THEN v ELSE LinkAll(LinkChild(v, Head(q)), Tail(q))

\* Mutant: subjects of merged threads stay where they are.
AdjoinNot(v, s1, s2) == v

(* splice_after, for the run of subjects around s2 that shares s1's        *)
(* thread: it moves behind s1 unless s1 is a member of it already.         *)
Adjoin(v, s1, s2) ==
  LET q == v.order
      Around(lo, hi) ==
        /\ \E i \in lo .. hi : q[i] = s2
        /\ \A i \in lo .. hi : q[i] = s2 \/ Top(v, q[i]) = Top(v, s1)
      run == CHOOSE r \in {r \in (DOMAIN q) \X (DOMAIN q) : Around(r[1], r[2])} :
               \A lo, hi \in DOMAIN q : Around(lo, hi) => hi - lo <= r[2] - r[1]
      moved == SubSeq(q, run[1], run[2])
      rest == SubSeq(q, 1, run[1] - 1) \o SubSeq(q, run[2] + 1, Len(q))
      at(s) == CHOOSE i \in DOMAIN rest : rest[i] = s
  IN IF Contains(moved, s1) THEN v
     ELSE [v EXCEPT !.order = SubSeq(rest, 1, at(s1)) \o moved
                              \o SubSeq(rest, at(s1) + 1, Len(rest))]

(* merge_threads, in thread mode and outside the selector: all of s2's     *)
(* thread joins s1's, root by root.                                        *)
MergeThreads(v, s1, s2) ==
  LET both == v.ring[s1] \cup v.ring[s2]
      Joined(u) ==
        [u EXCEPT !.roots = [s \in Subjects |->
                     IF s \in u.ring[s2] THEN u.roots[s1] ELSE @[s]],
                  !.ring = [s \in Subjects |-> IF s \in both THEN both ELSE @[s]]]
  IN LinkAll(Adjoin(Joined(v), s1, s2), v.roots[s2])

MergeIfApart(v, s1, s2) ==
  IF Top(v, s1) = Top(v, s2) THEN v ELSE MergeThreads(v, s1, s2)

-----------------------------------------------------------------------------
(* The subject list.                                                       *)

(* find_or_create of set_subj_line.                                        *)
FindSubject(v, s) ==
  IF Contains(v.order, s) THEN v
  ELSE [v EXCEPT !.order = Append(@, s), !.ring[s] = {s}]

(* check_for_near_subj: the subjects from the first one on when the table  *)
(* is new, otherwise the article's own if it is the newest.                *)
RECURSIVE JoinNear(_, _)
JoinNear(v, q) ==
  LET Near(s) == v.short[Prefix[s]] IN
  IF q = <<>> THEN v
  ELSE IF v.roots[Head(q)] = <<>> THEN JoinNear(v, Tail(q))
  ELSE IF Near(Head(q)) = None
       THEN JoinNear([v EXCEPT !.short[Prefix[Head(q)]] = Head(q)], Tail(q))
  ELSE JoinNear(MergeIfApart(v, Near(Head(q)), Head(q)), Tail(q))

CheckForNearSubj(v, s) ==
  IF \A p \in Range(Prefix) : v.short[p] = None THEN JoinNear(v, v.order)
  ELSE IF s = Last(v.order) THEN JoinNear(v, <<s>>)
  ELSE v

(* cache_article: the subject's own list, by date.                         *)
CacheArticle(v, a) ==
  LET s == v.subj[a]
      listed == [v EXCEPT !.arts[s] = InsertByDate(v, @, a)]
  IN IF join THEN CheckForNearSubj(listed, s) ELSE listed

-----------------------------------------------------------------------------
(* thread_article.                                                         *)

(* The fake references above a with no other child, which go when a turns  *)
(* out to be real.                                                         *)
RECURSIVE FakesAbove(_, _)
FakesAbove(v, a) ==
  LET p == v.parent[a] IN
  IF p = None \/ p \in real \/ Len(v.kids[p]) > 1 THEN <<>>
  ELSE <<p>> \o FakesAbove(v, p)

RECURSIVE Forget(_, _)
Forget(v, q) ==
  IF q = <<>> THEN v
  ELSE Forget([UnlinkChild(v, Head(q)) EXCEPT
                 !.date[Head(q)] = 0, !.subj[Head(q)] = None,
                 !.parent[Head(q)] = None], Tail(q))

(* The real article a with subject s leaves the place its fake had.        *)
LeaveFakePlace(v, a, s) ==
  LET Out(u) ==
        [Forget(UnlinkChild(u, a), FakesAbove(u, a)) EXCEPT !.parent[a] = None]
      Renamed(u) == [u EXCEPT !.subj[a] = s]
  IN Out(Renamed(MergeIfApart(v, v.subj[a], s)))

(* The references, from the right end: each becomes the parent of the one  *)
(* before it until a known article stops the walk.  The result's ap is     *)
(* where it stopped, None if the line gave nothing.                        *)
RECURSIVE Refer(_, _, _, _, _)
Refer(v, a, refs, prev, ap) ==
  LET Again(r) == r = a \/ (v.date[r] # 0 /\ v.subj[r] = None)
      Free == IF a \in real /\ v.subj[prev] # None THEN UnlinkChild(v, prev) ELSE v
      Under(r) == LinkChild([Free EXCEPT !.parent[prev] = r], prev)
  IN
  IF refs = <<>> \/ Last(refs) = Junk THEN [web |-> v, ap |-> ap]
  ELSE IF Again(Last(refs))
       THEN Refer(v, a, Front(refs), prev, IF prev = a THEN None ELSE prev)
  ELSE IF v.subj[Last(refs)] # None
       THEN [web |-> Under(Last(refs)), ap |-> Last(refs)]
  ELSE Refer([Under(Last(refs)) EXCEPT !.date[Last(refs)] = v.date[a]],
             a, Front(refs), Last(refs), Last(refs))

(* The walk's end joins a's thread, or starts it.                          *)
Attach(v, a, ap) ==
  IF v.subj[ap] # None THEN MergeIfApart(v, v.subj[ap], v.subj[a])
  ELSE LinkChild([v EXCEPT !.subj[ap] = v.subj[a]], ap)

(* Fakes made on the way take a's subject.                                 *)
RECURSIVE NameFakes(_, _, _)
NameFakes(v, a, s) ==
  IF v.parent[a] = None THEN v
  ELSE IF v.subj[v.parent[a]] # None THEN v
  ELSE NameFakes([v EXCEPT !.subj[v.parent[a]] = s], v.parent[a], s)

\* Mutant: a circle of references is not cut.
CutNothing(v, a, ap) == v

(* A child of a that is also an ancestor is cut off and made a root.       *)
RECURSIVE CutCircle(_, _, _)
CutCircle(v, a, ap) ==
  IF ap = None THEN v
  ELSE IF v.parent[ap] = a
       THEN LinkChild([UnlinkChild(v, ap) EXCEPT !.parent[ap] = None], ap)
  ELSE CutCircle(v, a, v.parent[ap])

\* Mutant: the references are taken from the left end.
ThreadFromLeft(v, a, refs) ==
  LET Placed(found) ==
        IF found.ap # None
        THEN CutCircle(NameFakes(Attach(found.web, a, found.ap), a, v.subj[a]),
                       a, found.ap)
        ELSE IF a \in real THEN found.web
        ELSE LinkChild(found.web, a)
  IN Placed(Refer(v, a, Reverse(refs), a, None))

(* The rest of thread_article for a subject and place already settled.     *)
Thread(v, a, refs) ==
  LET Placed(found) ==
        IF found.ap # None
        THEN CutCircle(NameFakes(Attach(found.web, a, found.ap), a, v.subj[a]),
                       a, found.ap)
        ELSE IF a \in real THEN found.web
        ELSE LinkChild(found.web, a)
  IN Placed(Refer(v, a, refs, a, None))

-----------------------------------------------------------------------------
ThreadsInit ==
  /\ forest = [parent |-> [a \in Ids |-> None],   kids |-> [a \in Ids |-> <<>>],
          subj |-> [a \in Ids |-> None],     date |-> [a \in Ids |-> 0],
          roots |-> [s \in Subjects |-> <<>>], ring |-> [s \in Subjects |-> {s}],
          arts |-> [s \in Subjects |-> <<>>],  order |-> <<>>,
          short |-> [p \in Range(Prefix) |-> None]]
  /\ real = {} /\ replied = {} /\ join = FALSE
  /\ line = [a \in Ids |-> <<>>]

(* A line of the overview or a header is read: set_subj_line,              *)
(* valid_article, thread_article, cache_article.                           *)
ThreadArrival(post) ==
  LET a == post.id
      Dated == [FindSubject(forest, post.subj) EXCEPT !.date[a] = post.date]
      Ready == IF forest.subj[a] # None THEN LeaveFakePlace(Dated, a, post.subj)
               ELSE [Dated EXCEPT !.subj[a] = post.subj]
  IN
  /\ a \notin real
  /\ forest' = CacheArticle(Thread(Ready, a, post.refs), a)
  /\ real' = real \cup {a}
  /\ line' = [line EXCEPT ![a] = post.refs]
  /\ UNCHANGED <<replied, join>>

(* end_header: the header of a threaded article is read, and has an        *)
(* In-Reply-To line, which goes behind the references.                     *)
ReadHeader(a, refs) ==
  /\ a \in real
  /\ \/ a \in replied /\ refs = line[a]
     \/ a \notin replied /\ Cardinality(replied) < MaxReplies
        /\ \E x \in Ids : refs = Append(line[a], x)
  /\ forest' = Thread(forest, a, refs)
  /\ line' = [line EXCEPT ![a] = refs]
  /\ replied' = replied \cup {a}
  /\ UNCHANGED <<real, join>>

(* change_join_subject_len.                                                *)
ChangeJoinSubjectLen ==
  LET Cleared == [forest EXCEPT !.short = [p \in DOMAIN @ |-> None]] IN
  /\ join' = ~join
  /\ forest' = IF join' /\ forest.order # <<>> /\ forest.arts[Head(forest.order)] # <<>>
          THEN CheckForNearSubj(Cleared, Head(forest.order)) ELSE Cleared
  /\ UNCHANGED <<real, line, replied>>

ThreadsNext ==
  \/ \E post \in Posts : ThreadArrival(post)
  \/ \E a \in Ids, x \in Ids : ReadHeader(a, Append(line[a], x))
  \/ \E a \in Ids : ReadHeader(a, line[a])
  \/ ChangeJoinSubjectLen

ThreadsSpec == ThreadsInit /\ [][ThreadsNext]_threadsVars

-----------------------------------------------------------------------------
(* Walking a thread: depth first, or breadth first when b, the value of    *)
(* g_breadth_first.                                                        *)

After(q, a) ==
  LET later == {i \in DOMAIN q : i > 1 /\ q[i - 1] = a}
  IN IF later = {} THEN None ELSE q[CHOOSE i \in later : TRUE]

RECURSIVE Depth(_, _)
Depth(v, a) == IF v.parent[a] = None THEN 0 ELSE 1 + Depth(v, v.parent[a])

(* x, or y when x is null.                                                 *)
Or(x, y) == IF x # None THEN x ELSE y

(* bump_article: the node it comes to, and how deep it then is.            *)
RECURSIVE Climb(_, _, _)
Climb(v, a, depth) ==
  LET Beside(next) ==
        IF next # None THEN <<next, depth>>
        ELSE IF v.parent[a] = None THEN <<None, depth - 1>>
        ELSE Climb(v, v.parent[a], depth - 1)
  IN Beside(After(Siblings(v, a), a))

Bump(v, a, depth, descend) ==
  IF descend /\ v.kids[a] # <<>> THEN <<Head(v.kids[a]), depth + 1>>
  ELSE Climb(v, a, depth)

RECURSIVE BumpTo(_, _, _)
BumpTo(v, at, level) ==
  IF at[1] = None \/ at[2] = level THEN at[1]
  ELSE BumpTo(v, Bump(v, at[1], at[2], at[2] < level), level)

NextOnLevel(v, a, level) == BumpTo(v, Bump(v, a, 0, 0 < level), level)

(* last_on_level: the last from a on, at a's level, that is not before.    *)
RECURSIVE LastFrom(_, _, _, _)
LastFrom(v, last, a, before) ==
  IF a \in {None, before} THEN last
  ELSE LastFrom(v, a, NextOnLevel(v, a, 0), before)

LastOnLevel(v, root, level, before) ==
  LastFrom(v, None, IF level = 0 THEN root ELSE NextOnLevel(v, root, level), before)

NextNode(v, a, b) ==
  IF b THEN Or(NextOnLevel(v, a, 0),
               NextOnLevel(v, Top(v, v.subj[a]), Depth(v, a) + 1))
  ELSE Bump(v, a, 0, TRUE)[1]

RECURSIVE Rightmost(_, _)
Rightmost(v, a) == IF v.kids[a] = <<>> THEN a ELSE Rightmost(v, Last(v.kids[a]))

Before(q, a) == q[CHOOSE i \in DOMAIN q : i < Len(q) /\ q[i + 1] = a]

PrevNode(v, a, b) ==
  LET Level(level, before) == LastOnLevel(v, Top(v, v.subj[a]), level, before)
      Left(q) == IF Head(q) = a THEN v.parent[a] ELSE Rightmost(v, Before(q, a))
  IN IF ~b THEN Left(Siblings(v, a))
     ELSE IF v.parent[a] = None THEN Level(0, a)
     ELSE Or(Level(Depth(v, a), a), Level(Depth(v, a) - 1, None))

(* next_article and prev_article step over nodes without AF_EXISTS.        *)
RECURSIVE SkipOn(_, _, _)
SkipOn(v, a, b) ==
  IF a \in real \cup {None} THEN a ELSE SkipOn(v, NextNode(v, a, b), b)

RECURSIVE SkipBack(_, _, _)
SkipBack(v, a, b) ==
  IF a \in real \cup {None} THEN a ELSE SkipBack(v, PrevNode(v, a, b), b)

NextArticle(v, a, b) == SkipOn(v, NextNode(v, a, b), b)
PrevArticle(v, a, b) == SkipBack(v, PrevNode(v, a, b), b)

(* The breadth-first tail is the rightmost node of the deepest level.      *)
RECURSIVE Deepest(_, _, _)
Deepest(v, root, level) ==
  IF NextOnLevel(v, root, level + 1) # None THEN Deepest(v, root, level + 1)
  ELSE LastOnLevel(v, root, level, None)

FirstArt(v, s, b) == SkipOn(v, Top(v, s), b)

LastArt(v, s, b) ==
  IF v.roots[s] = <<>> THEN None
  ELSE SkipBack(v, IF b THEN Deepest(v, Top(v, s), 0)
                   ELSE Rightmost(v, Last(v.roots[s])), b)

(* next_subject and prev_subject in thread mode: from s the next subject   *)
(* along q that has another thread.                                        *)
RECURSIVE NextThread(_, _, _)
NextThread(v, q, s) ==
  LET From(next) ==
        IF next = None THEN None
        ELSE IF Top(v, next) = Top(v, s) THEN NextThread(v, q, next) ELSE next
  IN From(After(q, s))

(* ArticleLocation's first, next and prev over a whole group when          *)
(* rereading; the direction is the order the subjects are taken in.        *)
Way(v, forward) == IF forward THEN v.order ELSE Reverse(v.order)

RECURSIVE Enter(_, _, _, _)
Enter(v, s, b, forward) ==
  IF s = None THEN None
  ELSE Or(IF forward THEN FirstArt(v, s, b) ELSE LastArt(v, s, b),
          Enter(v, NextThread(v, Way(v, forward), s), b, forward))

Place(v, a, b, forward) ==
  IF a # None
  THEN Or(IF forward THEN NextArticle(v, a, b) ELSE PrevArticle(v, a, b),
          Enter(v, NextThread(v, Way(v, forward), v.subj[a]), b, forward))
  ELSE IF v.order = <<>> THEN None
  ELSE Enter(v, Head(Way(v, forward)), b, forward)

-----------------------------------------------------------------------------
(* Properties.                                                             *)

(* Types; a subject stands in the list of subjects once.                   *)
Linked == {a \in Ids : forest.subj[a] # None}

RECURSIVE Ancestors(_, _)
Ancestors(a, n) ==
  IF n = 0 \/ forest.parent[a] = None THEN {}
  ELSE {forest.parent[a]} \cup Ancestors(forest.parent[a], n - 1)

Above(a) == Ancestors(a, Cardinality(Ids))

(* Whatever order articles and references arrive in, circular ones         *)
(* included, the links form a forest: parent and list of children agree,   *)
(* a node stands in one list, once, nothing is its own ancestor.           *)
ThreadsAreTrees ==
  /\ \A a \in Linked : /\ \E i \in DOMAIN Siblings(forest, a) : Siblings(forest, a)[i] = a
                       /\ a \notin Above(a)
  /\ \A a \in Ids : /\ IsInjective(forest.kids[a])
                    /\ \A x \in Range(forest.kids[a]) : x \in Linked /\ forest.parent[x] = a
  /\ \A s \in Subjects :
       /\ IsInjective(forest.roots[s])
       /\ \A x \in Range(forest.roots[s]) : x \in Linked /\ forest.parent[x] = None

(* An answer is in its parent's thread, subjects of one ring point at one  *)
(* list of roots, and no other subject does.                               *)
ThreadsAgree ==
  /\ \A a \in Linked : forest.parent[a] # None =>
        forest.subj[forest.parent[a]] \in forest.ring[forest.subj[a]]
  /\ \A s1, s2 \in Range(forest.order) :
        /\ (s1 \in forest.ring[s2]) = (s2 \in forest.ring[s1])
        /\ (s1 \in forest.ring[s2]) = (Top(forest, s1) = Top(forest, s2))
        /\ s1 \in forest.ring[s2] => forest.roots[s1] = forest.roots[s2]

(* Answers to one article, and the roots of a thread, stay in the order of *)
(* their dates.                                                            *)
SiblingsByDate ==
  \A q \in {forest.kids[a] : a \in Ids} \cup {forest.roots[s] : s \in Subjects} :
    \A i, j \in DOMAIN q : i < j => forest.date[q[i]] <= forest.date[q[j]]

(* However the articles arrive, the threads are sound: trees, whose nodes  *)
(* agree with the subjects and stand by date.                              *)
ForestIsSound == ThreadsAreTrees /\ ThreadsAgree /\ SiblingsByDate

(* The last reference of a line that is not refused and not the article.   *)
RECURSIVE Named(_, _)
Named(a, refs) ==
  IF refs = <<>> \/ Last(refs) = Junk THEN None
  ELSE IF Last(refs) = a THEN Named(a, Front(refs)) ELSE Last(refs)

(* What the lines read so far say: each id answers the one before it.      *)
Said ==
  UNION {LET q == Append(line[a], a)
         IN {<<q[i + 1], q[i]>> : i \in 1 .. Len(line[a])} : a \in real}

RECURSIVE SaidAbove(_, _)
SaidAbove(xs, n) ==
  IF n = 0 THEN xs ELSE SaidAbove(xs \cup {e[2] : e \in {d \in Said : d[1] \in xs}}, n - 1)

Contradicted(a) ==
  \E e \in Said : e[1] = a /\ e[2] # a /\ a \in SaidAbove({e[2]}, Cardinality(Ids))

(* An article hangs under the last reference it was read with, however     *)
(* late that one arrives and whatever was cut out around it, unless the    *)
(* lines read so far contradict each other about it.                       *)
NamedParentKept ==
  \A a \in real :
    forest.parent[a] = Named(a, line[a]) \/ (forest.parent[a] = None /\ Contradicted(a))

RECURSIVE Walk(_, _, _, _)
Walk(done, a, b, forward) ==
  IF a = None \/ Len(done) > Cardinality(Ids) THEN done
  ELSE Walk(Append(done, a), Place(forest, a, b, forward), b, forward)

Tour(b, forward) == Walk(<<>>, Place(forest, None, b, forward), b, forward)

(* Going on from article to article through a group meets each article     *)
(* once, and going back is the same way backwards, in both orders.  Across *)
(* threads this needs their subjects to stand together in the list.        *)
WalkMeetsEveryone ==
  LET Complete(there, back) ==
        /\ Range(there) = real /\ Len(there) = Cardinality(real)
        /\ back = Reverse(there)
  IN \A b \in BOOLEAN : Complete(Tour(b, TRUE), Tour(b, FALSE))
=============================================================================
