------------------------- MODULE ArticleLoopProofs -------------------------
(***************************************************************************)
(* Proofs about ArticleLoop: the number of articles to read and the number *)
(* of selected ones agree with the flags of the articles, and the end of   *)
(* the group hides nothing that is left to read, in groups of any size,    *)
(* after any number of commands and cancelled articles.                    *)
(***************************************************************************)
EXTENDS ArticleLoop, FiniteSetTheorems, WellFoundedInduction, TLAPS

-------------------------------------------------------------------------------
(* What every state of the group, also one in the middle of a command, is  *)
(* like.                                                                   *)

Fields == {"exists", "unread", "sel", "yank", "visit", "ssel", "misc", "selCount",
           "selOnly", "toRead", "first", "last", "target", "current", "recent",
           "reread", "force", "grow", "search", "order"}

\* The articles that arrived, with those that are gone.
Here(h) == {n \in group.posted : n <= h.last}

\* An article with a number is one that arrived.
Placed(h, loc) == loc.num >= 1 /\ loc.art # None => loc.art \in Here(h)

Whole(h) ==
  /\ DOMAIN h = Fields
  /\ h.last \in Nat
  /\ h.exists \subseteq Here(h)
  /\ h.unread \subseteq Here(h)
  /\ IsFiniteSet(h.sel)
  /\ Placed(h, h.current)
  /\ Len(h.order) \in Nat
ReadExact(h) ==
  /\ h.toRead \in Nat
  /\ h.toRead <= Cardinality(h.unread)
  /\ Cardinality(h.unread) <= h.toRead + Cardinality(Gone(h))
SelExact(h) ==
  /\ h.selCount \in Int
  /\ h.selCount <= Cardinality(h.sel)
Fit(h) == Whole(h) /\ ReadExact(h) /\ SelExact(h)

\* In the pager and at the prompt the target is placed, too.
IInv ==
  /\ group \in Groups
  /\ Fit(g)
  /\ pc \in {"prompt", "more", "raised", "marked"} => Placed(g, g.target)

LEMMA HereIsFinite ==
  ASSUME group \in Groups, NEW h, NEW S, S \subseteq Here(h)
  PROVE  /\ IsFiniteSet(S)
         /\ Cardinality(S) \in Nat
  <1>1. IsFiniteSet(group.posted) /\ S \in SUBSET group.posted
    BY GroupsAssumption DEF Here
  <1>2. IsFiniteSet(S)
    BY <1>1, FS_Subset
  <1> QED
    BY <1>2, FS_CardinalityType

LEMMA Sums ==
  ASSUME NEW S, IsFiniteSet(S), NEW T, IsFiniteSet(T), S \cap T = {}
  PROVE  /\ IsFiniteSet(S \cup T)
         /\ Cardinality(S \cup T) = Cardinality(S) + Cardinality(T)
         /\ Cardinality(S) \in Nat /\ Cardinality(T) \in Nat
  <1>1. Cardinality(S \cap T) = 0
    BY FS_EmptySet
  <1>2. Cardinality(S) \in Nat /\ Cardinality(T) \in Nat
    BY FS_CardinalityType
  <1>3. /\ IsFiniteSet(S \cup T)
        /\ Cardinality(S \cup T) = Cardinality(S) + Cardinality(T) - Cardinality(S \cap T)
    BY FS_Union
  <1> QED
    BY <1>1, <1>2, <1>3

LEMMA Differences ==
  ASSUME NEW S, IsFiniteSet(S), NEW T, T \subseteq S
  PROVE  /\ IsFiniteSet(S \ T) /\ IsFiniteSet(T)
         /\ Cardinality(S \ T) = Cardinality(S) - Cardinality(T)
         /\ Cardinality(S) \in Nat /\ Cardinality(T) \in Nat
         /\ Cardinality(T) <= Cardinality(S)
  <1>1. S \cap T = T /\ T \in SUBSET S
    OBVIOUS
  <1>2. IsFiniteSet(S \ T) /\ Cardinality(S \ T) = Cardinality(S) - Cardinality(S \cap T)
    BY FS_Difference
  <1>3. IsFiniteSet(T) /\ Cardinality(T) <= Cardinality(S)
    BY <1>1, FS_Subset
  <1>4. Cardinality(S) \in Nat /\ Cardinality(T) \in Nat
    BY <1>3, FS_CardinalityType
  <1> QED
    BY <1>1, <1>2, <1>3, <1>4

LEMMA GoneIsFinite ==
  ASSUME group \in Groups, NEW h
  PROVE  IsFiniteSet(Gone(h)) /\ Cardinality(Gone(h)) \in Nat
  <1>1. Gone(h) \subseteq Here(h)
    BY DEF Gone, Here
  <1> QED
    BY <1>1, HereIsFinite

-------------------------------------------------------------------------------
(* How flags and counts may change together.                               *)

\* What a command does not touch.
Frame(h, k) ==
  /\ DOMAIN k = Fields
  /\ k.last = h.last
  /\ k.exists = h.exists
  /\ k.current = h.current
  /\ k.order = h.order

LEMMA FrameIs ==
  ASSUME NEW h, NEW k, Frame(h, k)
  PROVE  /\ Here(k) = Here(h) /\ Gone(k) = Gone(h)
         /\ Whole(h) /\ k.unread \subseteq Here(h) /\ IsFiniteSet(k.sel) => Whole(k)
  <1>1. Here(k) = Here(h) /\ Gone(k) = Gone(h)
    BY DEF Here, Gone, Frame
  <1> QED
    BY <1>1 DEF Frame, Whole, Placed

\* Only what is selected changes, or what is counted as selected.
Keeps(h, k) ==
  /\ Frame(h, k)
  /\ k.unread = h.unread
  /\ k.toRead = h.toRead
  /\ IsFiniteSet(k.sel)

LEMMA KeepsFit ==
  ASSUME NEW h, Whole(h), NEW k, Keeps(h, k)
  PROVE  /\ Whole(k)
         /\ ReadExact(h) => ReadExact(k)
         /\ ReadExact(h) /\ SelExact(k) => Fit(k)
  <1>1. Whole(k) /\ Gone(k) = Gone(h)
    BY FrameIs DEF Keeps, Whole
  <1>2. ReadExact(h) => ReadExact(k)
    BY <1>1 DEF ReadExact, Keeps
  <1> QED
    BY <1>1, <1>2 DEF Fit

\* Something else changes.


LEMMA SameFits ==
  ASSUME NEW h, Fit(h), NEW k, Frame(h, k), k.unread = h.unread, k.toRead = h.toRead,
         k.sel = h.sel, k.selCount = h.selCount
  PROVE  Fit(k)
  <1>1. Keeps(h, k)
    BY DEF Keeps, Fit, Whole
  <1>2. SelExact(k)
    BY DEF Fit, SelExact
  <1> QED
    BY <1>1, <1>2, KeepsFit DEF Fit

\* A few articles more are selected.
LEMMA SelectsFit ==
  ASSUME NEW h, Fit(h), NEW k, Frame(h, k), k.unread = h.unread, k.toRead = h.toRead,
         NEW with, IsFiniteSet(with), with \cap h.sel = {},
         k.sel = h.sel \cup with, k.selCount = h.selCount + Cardinality(with)
  PROVE  Fit(k)
  <1>1. IsFiniteSet(h.sel) /\ h.sel \cap with = {}
    BY DEF Fit, Whole
  <1>2. /\ IsFiniteSet(k.sel)
        /\ Cardinality(k.sel) = Cardinality(h.sel) + Cardinality(with)
        /\ Cardinality(h.sel) \in Nat /\ Cardinality(with) \in Nat
    <2> DEFINE old == h.sel
    <2>1. IsFiniteSet(old) /\ old \cap with = {} /\ k.sel = old \cup with
      BY <1>1
    <2> HIDE DEF old
    <2>2. /\ IsFiniteSet(old \cup with)
          /\ Cardinality(old \cup with) = Cardinality(old) + Cardinality(with)
          /\ Cardinality(old) \in Nat /\ Cardinality(with) \in Nat
      BY <2>1, Sums
    <2> QED
      BY <2>1, <2>2 DEF old
  <1>3. Keeps(h, k)
    BY <1>2 DEF Keeps
  <1>4. SelExact(k)
    BY <1>2 DEF Fit, SelExact
  <1> QED
    BY <1>3, <1>4, KeepsFit DEF Fit

LEMMA DeselectsFit ==
  ASSUME NEW h, Fit(h), NEW k, Frame(h, k), k.unread = h.unread, k.toRead = h.toRead,
         NEW off, off \subseteq h.sel,
         k.sel = h.sel \ off, k.selCount = h.selCount - Cardinality(off)
  PROVE  Fit(k)
  <1>1. IsFiniteSet(h.sel)
    BY DEF Fit, Whole
  <1>2. /\ IsFiniteSet(k.sel)
        /\ Cardinality(k.sel) = Cardinality(h.sel) - Cardinality(off)
        /\ Cardinality(h.sel) \in Nat /\ Cardinality(off) \in Nat
    BY <1>1, Differences
  <1>3. Keeps(h, k)
    BY <1>2 DEF Keeps
  <1>4. SelExact(k)
    BY <1>2 DEF Fit, SelExact
  <1> QED
    BY <1>3, <1>4, KeepsFit DEF Fit

\* A few articles more are unread.
LEMMA GainsFit ==
  ASSUME group \in Groups, NEW h, Fit(h), NEW k, Frame(h, k), SelExact(k), IsFiniteSet(k.sel),
         NEW new, new \subseteq Here(h), new \cap h.unread = {},
         k.unread = h.unread \cup new, k.toRead = h.toRead + Cardinality(new)
  PROVE  Fit(k)
  <1>1. IsFiniteSet(h.unread) /\ IsFiniteSet(new) /\ h.unread \cap new = {}
    BY HereIsFinite DEF Fit, Whole
  <1>2. /\ Cardinality(k.unread) = Cardinality(h.unread) + Cardinality(new)
        /\ Cardinality(h.unread) \in Nat /\ Cardinality(new) \in Nat
    BY <1>1, Sums
  <1>3. Gone(k) = Gone(h) /\ Cardinality(Gone(h)) \in Nat
    BY FrameIs, GoneIsFinite
  <1>4. Whole(k)
    BY FrameIs DEF Fit, Whole
  <1>5. ReadExact(k)
    BY <1>2, <1>3 DEF Fit, ReadExact
  <1> QED
    BY <1>4, <1>5 DEF Fit

\* A few articles are read; the count does not go below zero.
LEMMA LosesFit ==
  ASSUME group \in Groups, NEW h, Fit(h), NEW k, Frame(h, k), SelExact(k), IsFiniteSet(k.sel),
         NEW gone, gone \subseteq h.unread, k.unread = h.unread \ gone,
         k.toRead = IF h.toRead > Cardinality(gone) THEN h.toRead - Cardinality(gone) ELSE 0
  PROVE  Fit(k)
  <1>1. IsFiniteSet(h.unread)
    BY HereIsFinite DEF Fit, Whole
  <1>2. /\ Cardinality(k.unread) = Cardinality(h.unread) - Cardinality(gone)
        /\ Cardinality(h.unread) \in Nat /\ Cardinality(gone) \in Nat
        /\ Cardinality(gone) <= Cardinality(h.unread)
    BY <1>1, Differences
  <1>3. Gone(k) = Gone(h) /\ Cardinality(Gone(h)) \in Nat
    BY FrameIs, GoneIsFinite
  <1>4. Whole(k)
    BY FrameIs DEF Fit, Whole
  <1>5. ReadExact(k)
    <2>1. /\ h.toRead \in Nat /\ h.toRead <= Cardinality(h.unread)
          /\ Cardinality(h.unread) <= h.toRead + Cardinality(Gone(h))
      BY DEF Fit, ReadExact
    <2>2. CASE h.toRead > Cardinality(gone)
      <3>1. k.toRead = h.toRead - Cardinality(gone)
        BY <2>2
      <3> QED
        BY <2>1, <2>2, <3>1, <1>2, <1>3 DEF ReadExact
    <2>3. CASE ~(h.toRead > Cardinality(gone))
      <3>1. k.toRead = 0
        BY <2>3
      <3> QED
        BY <2>1, <2>3, <3>1, <1>2, <1>3 DEF ReadExact
    <2> QED
      BY <2>2, <2>3
  <1> QED
    BY <1>4, <1>5 DEF Fit

-------------------------------------------------------------------------------
(* Reading, selecting and counting.                                        *)

LEMMA LessFits ==
  ASSUME group \in Groups, NEW h, Fit(h), NEW ns
  PROVE  Fit(Less(h, ns))
  <1> DEFINE gone == ns \cap h.unread
             off == gone \cap h.sel
             k == Less(h, ns)
  <1>1. /\ Frame(h, k) /\ k.unread = h.unread \ gone /\ k.sel = h.sel \ off
        /\ k.selCount = h.selCount - Cardinality(off)
    BY DEF Less, Fit, Whole, Fields, Frame
  <1>2. k.toRead = IF h.toRead > Cardinality(gone) THEN h.toRead - Cardinality(gone) ELSE 0
    BY DEF Less, Fit, Whole, Fields
  <1>3. gone \subseteq h.unread /\ off \subseteq h.sel
    OBVIOUS
  <1> HIDE DEF k, gone, off
  <1>4. /\ IsFiniteSet(k.sel)
        /\ Cardinality(k.sel) = Cardinality(h.sel) - Cardinality(off)
        /\ Cardinality(h.sel) \in Nat /\ Cardinality(off) \in Nat
    BY <1>1, <1>3, Differences DEF Fit, Whole
  <1>5. SelExact(k)
    BY <1>1, <1>4 DEF Fit, SelExact
  <1>6. Fit(k)
    BY <1>1, <1>2, <1>3, <1>4, <1>5, LosesFit
  <1> QED
    BY <1>6 DEF k

LEMMA MoreFits ==
  ASSUME group \in Groups, NEW h, Fit(h), NEW ns, ns \subseteq Here(h)
  PROVE  Fit(More(h, ns))
  <1> DEFINE new == ns \ h.unread
             with == {n \in new : h.selOnly /\ Subj(n) \in h.ssel /\ n \notin h.sel}
             k == More(h, ns)
  <1>1. /\ Frame(h, k) /\ k.unread = h.unread \cup new /\ k.sel = h.sel \cup with
        /\ k.selCount = h.selCount + Cardinality(with)
        /\ k.toRead = h.toRead + Cardinality(new)
    BY DEF More, Fit, Whole, Fields, Frame
  <1>2. /\ with \subseteq Here(h) /\ h.sel \cap with = {}
        /\ new \subseteq Here(h) /\ new \cap h.unread = {}
    OBVIOUS
  <1> HIDE DEF k, new, with
  <1>3. IsFiniteSet(with) /\ IsFiniteSet(h.sel)
    BY <1>2, HereIsFinite DEF Fit, Whole
  <1>4. /\ IsFiniteSet(h.sel \cup with)
        /\ Cardinality(h.sel \cup with) = Cardinality(h.sel) + Cardinality(with)
        /\ Cardinality(h.sel) \in Nat /\ Cardinality(with) \in Nat
    BY <1>2, <1>3, Sums
  <1>5. SelExact(k) /\ IsFiniteSet(k.sel)
    BY <1>1, <1>4 DEF Fit, SelExact
  <1>6. Fit(k)
    BY <1>1, <1>2, <1>5, GainsFit
  <1> QED
    BY <1>6 DEF k

\* count_subjects makes the count of the selected articles right, whatever it was.
LEMMA CountWithIs ==
  ASSUME NEW h, Whole(h), NEW visit, NEW ssel, NEW taken
  PROVE  /\ Keeps(h, CountWith(h, visit, ssel, taken))
         /\ SelExact(CountWith(h, visit, ssel, taken))
         /\ CountWith(h, visit, ssel, taken).sel = h.sel
  <1> DEFINE all == UNION {Counted(h, s) : s \in taken}
             with == all \cap h.sel
             k == CountWith(h, visit, ssel, taken)
  <1>1. /\ Frame(h, k) /\ k.unread = h.unread /\ k.toRead = h.toRead /\ k.sel = h.sel
        /\ k.selCount = Cardinality(with)
    BY DEF CountWith, Whole, Fields, Frame
  <1> HIDE DEF k, all
  <1>2. with \subseteq h.sel /\ IsFiniteSet(h.sel)
    BY DEF Whole
  <1> HIDE DEF with
  <1>3. Cardinality(with) \in Nat /\ Cardinality(with) <= Cardinality(h.sel)
    BY <1>2, Differences
  <1>4. Keeps(h, k) /\ SelExact(k)
    BY <1>1, <1>2, <1>3 DEF Keeps, SelExact
  <1> QED
    BY <1>4, <1>1 DEF k

\* It does not look at the counts that there were.
Counts(h, k) == Keeps(h, k) /\ SelExact(k)

LEMMA CountsIs ==
  ASSUME NEW h, Whole(h), NEW k, Counts(h, k)
  PROVE  Whole(k) /\ (ReadExact(h) => Fit(k))
  BY KeepsFit DEF Counts

LEMMA VisitAllIs ==
  ASSUME NEW h, Whole(h), NEW k, Counts(h, k)
  PROVE  Counts(h, VisitAll(k))
  <1> DEFINE v == VisitAll(k)
  <1>1. DOMAIN k = Fields
    BY DEF Counts, Keeps, Frame
  <1>2. /\ DOMAIN v = Fields /\ v.last = k.last /\ v.exists = k.exists
        /\ v.current = k.current /\ v.order = k.order
        /\ v.unread = k.unread /\ v.toRead = k.toRead
        /\ v.sel = k.sel /\ v.selCount = k.selCount
    BY <1>1 DEF VisitAll, Fields
  <1> HIDE DEF v
  <1>3. Counts(h, v)
    BY <1>2 DEF Counts, Keeps, Frame, SelExact
  <1> QED
    BY <1>3 DEF v

LEMMA CountSubjectsIs ==
  ASSUME NEW h, Whole(h)
  PROVE  /\ Counts(h, CountRetain(h))
         /\ Counts(h, CountNorm(h))
         /\ Counts(h, CountUnselect(h))
         /\ Counts(h, CountUnselStore(h))
         /\ \A visit : Counts(h, CountReselect(h, visit))
  <1>1. \A visit, ssel, taken : Counts(h, CountWith(h, visit, ssel, taken))
    BY CountWithIs DEF Counts
  <1>2. Counts(h, CountRetain(h)) /\ \A visit : Counts(h, CountReselect(h, visit))
    BY <1>1 DEF CountRetain, CountReselect
  <1>3. Counts(h, CountNorm(h))
    BY <1>1, VisitAllIs DEF CountNorm
  <1>4. Counts(h, CountUnselect(h))
    BY <1>1, VisitAllIs DEF CountUnselect
  <1>5. Counts(h, CountUnselStore(h))
    <2> DEFINE ss == {s \in Subjects(h) : HasSelected(h, s)}
    <2>1. CountUnselStore(h) = VisitAll(CountWith(h, {}, ss, ss))
      BY DEF CountUnselStore
    <2> HIDE DEF ss
    <2> QED
      BY <1>1, <2>1, VisitAllIs
  <1> QED
    BY <1>2, <1>3, <1>4, <1>5

\* Recounted makes the count of the unread articles right, whatever it was: an
\* article that is not counted is gone.
LEMMA RecountedFits ==
  ASSUME group \in Groups, NEW h, Whole(h), SelExact(h)
  PROVE  Fit(Recounted(h))
  <1> DEFINE all == Listed(h, Subjects(h))
             k == Recounted(h)
  <1>1. all = h.exists
    <2>1. \A n \in h.exists : n \in Arrived(h)
      BY DEF Arrived, Nodes, NumOf, Whole, Here
    <2> QED
      BY <2>1 DEF Listed, Subjects
  <1>2. /\ Frame(h, k) /\ k.unread = h.unread /\ k.sel = h.sel /\ k.selCount = h.selCount
        /\ k.toRead = Cardinality(all \cap h.unread)
    BY DEF Recounted, Whole, Fields, Frame
  <1> HIDE DEF all, k
  <1> DEFINE counted == h.exists \cap h.unread
             lost == h.unread \ counted
  <1>3. IsFiniteSet(h.unread) /\ counted \subseteq h.unread /\ lost \subseteq Gone(h)
    BY HereIsFinite DEF Whole, Gone, Here
  <1>4. k.toRead = Cardinality(counted)
    BY <1>1, <1>2
  <1> HIDE DEF counted
  <1>5. /\ Cardinality(lost) = Cardinality(h.unread) - Cardinality(counted)
        /\ Cardinality(h.unread) \in Nat /\ Cardinality(counted) \in Nat
        /\ Cardinality(counted) <= Cardinality(h.unread)
    BY <1>3, Differences
  <1>6. Cardinality(lost) <= Cardinality(Gone(h)) /\ Cardinality(Gone(h)) \in Nat
    BY <1>3, GoneIsFinite, Differences
  <1>7. Whole(k) /\ Gone(k) = Gone(h)
    BY <1>2, FrameIs DEF Whole
  <1>8. ReadExact(k)
    BY <1>2, <1>4, <1>5, <1>6, <1>7 DEF ReadExact
  <1>9. SelExact(k)
    BY <1>2 DEF SelExact
  <1>10. Fit(k)
    BY <1>7, <1>8, <1>9 DEF Fit
  <1> QED
    BY <1>10 DEF k

LEMMA SelectArticlesFits ==
  ASSUME group \in Groups, NEW h, Fit(h), NEW ns
  PROVE  Fit(SelectArticles(h, ns))
  <1> DEFINE new == ((ns \cap h.exists) \cap h.unread) \ h.sel
             k == SelectArticles(h, ns)
  <1>1. /\ Frame(h, k) /\ k.unread = h.unread /\ k.toRead = h.toRead
        /\ k.sel = h.sel \cup new /\ k.selCount = h.selCount + Cardinality(new)
    BY DEF SelectArticles, Fit, Whole, Fields, Frame
  <1>2. new \subseteq Here(h) /\ new \cap h.sel = {}
    BY DEF Fit, Whole
  <1> HIDE DEF k, new
  <1>3. Fit(k)
    BY <1>1, <1>2, HereIsFinite, SelectsFit
  <1> QED
    BY <1>3 DEF k

LEMMA SelectSubjectsFits ==
  ASSUME group \in Groups, NEW h, Fit(h), NEW ss
  PROVE  Fit(SelectSubjects(h, ss))
  <1> DEFINE new == (Listed(h, ss) \cap h.unread) \ h.sel
             k == SelectSubjects(h, ss)
  <1>1. /\ Frame(h, k) /\ k.unread = h.unread /\ k.toRead = h.toRead
        /\ k.sel = h.sel \cup new /\ k.selCount = h.selCount + Cardinality(new)
    BY DEF SelectSubjects, Fit, Whole, Fields, Frame
  <1>2. new \subseteq Here(h) /\ new \cap h.sel = {}
    BY DEF Fit, Whole
  <1> HIDE DEF k, new
  <1>3. Fit(k)
    BY <1>1, <1>2, HereIsFinite, SelectsFit
  <1> QED
    BY <1>3 DEF k

LEMMA SelectSubFits ==
  ASSUME group \in Groups, NEW h, Fit(h), NEW n
  PROVE  Fit(SelectSub(h, n))
  <1> DEFINE new == (Sub(h, n) \cap h.exists \cap h.unread) \ h.sel
             k == SelectSub(h, n)
  <1>1. CASE new = {}
    <2>1. k = h
      BY <1>1 DEF SelectSub
    <2> QED
      BY <2>1
  <1>2. CASE new # {}
    <2>1. k = [h EXCEPT !.sel = @ \cup new, !.selCount = @ + Cardinality(new),
                        !.ssel = @ \cup {Subj(n)}, !.visit = @ \cup {Subj(n)},
                        !.selOnly = TRUE]
      BY <1>2 DEF SelectSub
    <2>2. new \subseteq Here(h) /\ new \cap h.sel = {}
      BY DEF Fit, Whole
    <2> HIDE DEF k, new
    <2>3. /\ Frame(h, k) /\ k.unread = h.unread /\ k.toRead = h.toRead
          /\ k.sel = h.sel \cup new /\ k.selCount = h.selCount + Cardinality(new)
      BY <2>1 DEF Fit, Whole, Fields, Frame
    <2>4. Fit(k)
      BY <2>2, <2>3, HereIsFinite, SelectsFit
    <2> QED
      BY <2>4 DEF k
  <1> QED
    BY <1>1, <1>2

LEMMA SelectWithFits ==
  ASSUME group \in Groups, NEW h, Fit(h), NEW n, NEW ss
  PROVE  Fit(SelectWith(h, n, ss))
  BY SelectArticlesFits, SelectSubjectsFits DEF SelectWith

LEMMA DeselectFits ==
  ASSUME NEW h, Fit(h), NEW n
  PROVE  Fit(Deselect(h, n))
  <1> DEFINE off == {n} \cap h.sel
             k == Deselect(h, n)
  <1>1. /\ Frame(h, k) /\ k.unread = h.unread /\ k.toRead = h.toRead
        /\ k.sel = h.sel \ off /\ k.selCount = h.selCount - Cardinality(off)
        /\ off \subseteq h.sel
    BY DEF Deselect, Fit, Whole, Fields, Frame
  <1> HIDE DEF k, off
  <1>2. Fit(k)
    BY <1>1, DeselectsFit
  <1> QED
    BY <1>2 DEF k

LEMMA DeselectSubjectsFits ==
  ASSUME NEW h, Fit(h), NEW ss
  PROVE  Fit(DeselectSubjects(h, ss))
  <1> DEFINE off == Listed(h, ss) \cap h.sel
             k == DeselectSubjects(h, ss)
  <1>1. /\ Frame(h, k) /\ k.unread = h.unread /\ k.toRead = h.toRead
        /\ k.sel = h.sel \ off /\ k.selCount = h.selCount - Cardinality(off)
        /\ off \subseteq h.sel
    BY DEF DeselectSubjects, Fit, Whole, Fields, Frame
  <1> HIDE DEF k, off
  <1>2. Fit(k)
    BY <1>1, DeselectsFit
  <1> QED
    BY <1>2 DEF k

\* Changes of what neither is counted nor says what is there.
LEMMA OthersFit ==
  ASSUME NEW h, Fit(h), NEW x
  PROVE  /\ Fit([h EXCEPT !.yank = x]) /\ Fit([h EXCEPT !.visit = x])
         /\ Fit([h EXCEPT !.target = x]) /\ Fit([h EXCEPT !.target.art = x])
         /\ Fit([h EXCEPT !.target.num = x]) /\ Fit([h EXCEPT !.recent = x])
         /\ Fit([h EXCEPT !.reread = x]) /\ Fit([h EXCEPT !.force = x])
         /\ Fit([h EXCEPT !.grow = x]) /\ Fit([h EXCEPT !.search = x])
         /\ Fit([h EXCEPT !.selOnly = x]) /\ Fit([h EXCEPT !.ssel = x])
  <1> DEFINE Only(k) == /\ Frame(h, k) /\ k.unread = h.unread /\ k.toRead = h.toRead
                        /\ k.sel = h.sel /\ k.selCount = h.selCount
  <1>1. \A k : Only(k) => Fit(k)
    BY SameFits
  <1>2. DOMAIN h = Fields
    BY DEF Fit, Whole
  <1>3. /\ Only([h EXCEPT !.yank = x]) /\ Only([h EXCEPT !.visit = x])
        /\ Only([h EXCEPT !.target = x])
        /\ Only([h EXCEPT !.target.num = x]) /\ Only([h EXCEPT !.recent = x])
    BY <1>2 DEF Fields, Frame
  <1>4. /\ Only([h EXCEPT !.reread = x]) /\ Only([h EXCEPT !.force = x])
        /\ Only([h EXCEPT !.target.art = x])
        /\ Only([h EXCEPT !.grow = x]) /\ Only([h EXCEPT !.search = x])
    BY <1>2 DEF Fields, Frame
  <1>5. Only([h EXCEPT !.selOnly = x]) /\ Only([h EXCEPT !.ssel = x])
    BY <1>2 DEF Fields, Frame
  <1> HIDE DEF Only
  <1> QED
    BY <1>1, <1>3, <1>4, <1>5

LEMMA KillsFit ==
  ASSUME group \in Groups, NEW h, Fit(h)
  PROVE  /\ \A ns : Fit(Return(h, ns))
         /\ \A ss : Fit(KillSubjects(h, ss))
         /\ \A n : Fit(KillSub(h, n))
  <1>1. \A ns : Fit(Return(h, ns))
    BY OthersFit DEF Return
  <1>2. \A ss : Fit(KillSubjects(h, ss))
    <2> TAKE ss
    <2> DEFINE k == Less(h, Listed(h, ss))
    <2>1. Fit(k)
      BY LessFits
    <2>2. KillSubjects(h, ss) = [k EXCEPT !.visit = @ \ ss]
      BY DEF KillSubjects
    <2> HIDE DEF k
    <2>3. Fit([k EXCEPT !.visit = @ \ ss])
      BY <2>1, OthersFit
    <2> QED
      BY <2>2, <2>3
  <1>3. \A n : Fit(KillSub(h, n))
    BY LessFits DEF KillSub
  <1> QED
    BY <1>1, <1>2, <1>3

LEMMA MoreIs ==
  ASSUME NEW h, Fit(h), NEW ns
  PROVE  Frame(h, More(h, ns))
  BY DEF More, Fit, Whole, Fields, Frame

LEMMA UnkillThreadFits ==
  ASSUME group \in Groups, NEW h, Fit(h), NEW s
  PROVE  Fit(UnkillThread(h, s))
  <1> DEFINE all == Listed(h, InThread(h, s))
             u == More(h, all)
             new == IF h.selOnly THEN all \ u.sel ELSE {}
             subs == {Subj(n) : n \in IF h.selOnly THEN all \ h.sel ELSE {}} \ h.ssel
             k == UnkillThread(h, s)
  <1>1. all \subseteq Here(h)
    BY DEF Listed, Fit, Whole
  <1> HIDE DEF all
  <1>2. Fit(u)
    BY <1>1, MoreFits
  <1>3. new \subseteq Here(h) /\ new \cap u.sel = {}
    BY <1>1
  <1>4. k = [u EXCEPT !.sel = @ \cup new, !.selCount = @ + Cardinality(new),
                      !.ssel = @ \cup subs, !.visit = @ \cup subs]
    BY DEF UnkillThread, all
  <1> HIDE DEF k, u, new, subs
  <1>5. /\ Frame(u, k) /\ k.unread = u.unread /\ k.toRead = u.toRead
        /\ k.sel = u.sel \cup new /\ k.selCount = u.selCount + Cardinality(new)
    BY <1>2, <1>4 DEF Fit, Whole, Fields, Frame
  <1>6. Fit(k)
    BY <1>2, <1>3, <1>5, HereIsFinite, SelectsFit
  <1> QED
    BY <1>6 DEF k

LEMMA UnkillSubFits ==
  ASSUME group \in Groups, NEW h, Fit(h), NEW n
  PROVE  Fit(UnkillSub(h, n))
  <1> DEFINE all == Sub(h, n) \cap h.exists
             m == More(h, all)
             u == IF h.selOnly THEN SelectArticles(m, all) ELSE m
             k == UnkillSub(h, n)
  <1>1. all \subseteq Here(h)
    BY DEF Fit, Whole
  <1> HIDE DEF all
  <1>2. Fit(m)
    BY <1>1, MoreFits
  <1> HIDE DEF m
  <1>3. Fit(u)
    BY <1>2, SelectArticlesFits
  <1>4. k = [u EXCEPT !.ssel = @ \cup {Subj(n)}, !.visit = @ \cup {Subj(n)},
                      !.selOnly = @ \/ u.selCount # 0]
    BY DEF UnkillSub, all, m
  <1> HIDE DEF u, k
  <1>5. /\ Frame(u, k) /\ k.unread = u.unread /\ k.toRead = u.toRead
        /\ k.sel = u.sel /\ k.selCount = u.selCount
    BY <1>3, <1>4 DEF Fit, Whole, Fields, Frame
  <1>6. Fit(k)
    BY <1>3, <1>5, SameFits
  <1> QED
    BY <1>6 DEF k

LEMMA YankBackFits ==
  ASSUME group \in Groups, NEW h, Fit(h)
  PROVE  Fit(YankBack(h))
  <1> DEFINE back == h.yank \cap h.exists
             y == [h EXCEPT !.yank = {}]
             u == More(y, back)
  <1>1. Fit(y) /\ Frame(h, y)
    BY OthersFit DEF Fit, Whole, Fields, Frame
  <1>2. back \subseteq Here(y)
    BY <1>1, FrameIs DEF Fit, Whole
  <1> HIDE DEF y, back
  <1>3. Fit(u)
    BY <1>1, <1>2, MoreFits
  <1>4. YankBack(h) = IF h.selOnly THEN SelectArticles(u, back) ELSE u
    BY DEF YankBack, y, back
  <1> HIDE DEF u
  <1> QED
    BY <1>3, <1>4, SelectArticlesFits

LEMMA LostFits ==
  ASSUME group \in Groups, NEW h, Fit(h), NEW n
  PROVE  Fit(Lost(h, n))
  <1> DEFINE l == Less(h, {n})
             k == Lost(h, n)
  <1>1. Fit(l)
    BY LessFits
  <1>2. k = [l EXCEPT !.exists = @ \ {n}, !.yank = @ \ {n}]
    BY DEF Lost
  <1> HIDE DEF l, k
  <1>3. /\ DOMAIN k = Fields /\ k.last = l.last /\ k.current = l.current
        /\ k.order = l.order /\ k.unread = l.unread /\ k.sel = l.sel
        /\ k.toRead = l.toRead /\ k.selCount = l.selCount
        /\ k.exists = l.exists \ {n}
    BY <1>1, <1>2 DEF Fit, Whole, Fields
  <1>4. Here(k) = Here(l)
    BY <1>3 DEF Here
  <1>5. Whole(k)
    BY <1>1, <1>3, <1>4 DEF Fit, Whole, Placed
  <1>6. Gone(l) \subseteq Gone(k)
    BY <1>3 DEF Gone
  <1>7. /\ Cardinality(Gone(l)) <= Cardinality(Gone(k))
        /\ Cardinality(Gone(l)) \in Nat /\ Cardinality(Gone(k)) \in Nat
    BY <1>6, GoneIsFinite, Differences
  <1>8. Cardinality(k.unread) \in Nat
    BY <1>5, HereIsFinite DEF Whole
  <1>9. ReadExact(k) /\ SelExact(k)
    BY <1>1, <1>3, <1>7, <1>8 DEF Fit, ReadExact, SelExact
  <1>10. Fit(k)
    BY <1>5, <1>9 DEF Fit
  <1> QED
    BY <1>10 DEF k

-------------------------------------------------------------------------------
(* Lists of commands.                                                      *)

LEMMA PerformFits ==
  ASSUME group \in Groups, NEW h, Fit(h), NEW n, NEW mark \in Marks
  PROVE  Fit(Perform(h, n, mark))
  <1>1. CASE mark = "j"
    <2>1. Perform(h, n, mark) = Less(h, {n})
      BY <1>1 DEF Perform
    <2> QED
      BY <2>1, LessFits
  <1>2. CASE mark = "m"
    <2>1. Perform(h, n, mark) = More(h, {n} \cap h.exists)
      BY <1>2 DEF Perform
    <2>2. {n} \cap h.exists \subseteq Here(h)
      BY DEF Fit, Whole
    <2> QED
      BY <2>1, <2>2, MoreFits
  <1>3. CASE mark = "M"
    <2>1. Perform(h, n, mark) = Less(Return(h, {n}), {n})
      BY <1>3 DEF Perform
    <2> QED
      BY <2>1, LessFits, KillsFit
  <1>4. CASE mark = "+"
    <2>1. Perform(h, n, mark) = SelectArticles(h, {n})
      BY <1>4 DEF Perform
    <2> QED
      BY <2>1, SelectArticlesFits
  <1>5. CASE mark = "-"
    <2>1. Perform(h, n, mark) = Deselect(h, n)
      BY <1>5 DEF Perform
    <2> QED
      BY <2>1, DeselectFits
  <1>6. CASE mark = "."
    <2>1. Perform(h, n, mark) = SelectSub(h, n)
      BY <1>6 DEF Perform
    <2> QED
      BY <2>1, SelectSubFits
  <1>7. CASE mark = ","
    <2>1. Perform(h, n, mark) = KillSub(h, n)
      BY <1>7 DEF Perform
    <2> QED
      BY <2>1, KillsFit
  <1>8. CASE mark = "++"
    <2>1. Perform(h, n, mark) = SelectWith(h, n, ThreadOf(h, n))
      BY <1>8 DEF Perform
    <2> QED
      BY <2>1, SelectWithFits
  <1>9. CASE mark = "--"
    <2>1. Perform(h, n, mark) = DeselectSubjects(h, ThreadOf(h, n))
      BY <1>9 DEF Perform
    <2> QED
      BY <2>1, DeselectSubjectsFits
  <1>10. CASE mark = "J"
    <2>1. Perform(h, n, mark) = KillSubjects(h, ThreadOf(h, n))
      BY <1>10 DEF Perform
    <2> QED
      BY <2>1, KillsFit
  <1>11. CASE mark = "k"
    <2>1. Perform(h, n, mark) = KillSubjects(h, {Subj(n)})
      BY <1>11 DEF Perform
    <2> QED
      BY <2>1, KillsFit
  <1> QED
    BY <1>1, <1>2, <1>3, <1>4, <1>5, <1>6, <1>7, <1>8, <1>9, <1>10, <1>11 DEF Marks

LEMMA PerformOnFits ==
  ASSUME group \in Groups, NEW k, Fit(k), NEW x, NEW how, how.mark \in Marks
  PROVE  Fit(PerformOn(k, x, how))
  <1>1. CASE ~Takes(k, x, how)
    BY <1>1 DEF PerformOn
  <1>2. CASE Takes(k, x, how)
    <2> DEFINE n == IF how.of = "subjects" THEN FirstIn(OfSubject(k, x)) ELSE x
    <2>1. PerformOn(k, x, how) = Perform(k, n, how.mark)
      BY <1>2 DEF PerformOn
    <2> HIDE DEF n
    <2> QED
      BY <2>1, PerformFits
  <1> QED
    BY <1>1, <1>2

LEMMA LeastOf ==
  ASSUME NEW T \in SUBSET Nat, T # {}
  PROVE  \E m \in T : \A n \in T : m <= n
  <1> DEFINE R == OpToRel(<, Nat)
  <1>1. \A n, m \in Nat : n < m => <<n, m>> \in R
    BY DEF OpToRel
  <1>2. IsWellFoundedOn(R, Nat)
    BY NatLessThanWellFounded
  <1> HIDE DEF R
  <1>3. PICK m \in T : \A n \in T : ~(<<n, m>> \in R)
    BY <1>2, WFMin, Zenon
  <1>4. ASSUME NEW n \in T PROVE m <= n
    <2>1. n \in Nat /\ m \in Nat
      OBVIOUS
    <2>2. ~(n < m)
      BY <1>1, <1>3, <2>1, Zenon
    <2> QED
      BY <2>1, <2>2
  <1> QED
    BY <1>4

\* The value for i of the function of Through.
Follows(f, seq, how, i) ==
  CHOOSE k \in {PerformOn(j, seq[i], how) : j \in {f[i - 1]}} : TRUE

LEMMA FollowsIs ==
  ASSUME NEW f, NEW seq, NEW how, NEW i
  PROVE  Follows(f, seq, how, i) = PerformOn(f[i - 1], seq[i], how)
  <1> DEFINE v == PerformOn(f[i - 1], seq[i], how)
  <1>1. {PerformOn(j, seq[i], how) : j \in {f[i - 1]}} = {v}
    OBVIOUS
  <1> HIDE DEF v
  <1>2. (CHOOSE k \in {v} : TRUE) = v
    OBVIOUS
  <1> QED
    BY <1>1, <1>2 DEF Follows, v

\* f is that function over the first l members of seq.
IsRun(f, h, seq, how, l) ==
  f = [i \in 0..l |-> IF i = 0 THEN h ELSE Follows(f, seq, how, i)]

\* There is such a function, for every number of members.
LEMMA RunExists ==
  ASSUME NEW h, NEW seq, NEW how, NEW n \in Nat
  PROVE  \E f : IsRun(f, h, seq, how, n)
  <1> DEFINE Bad == {m \in Nat : ~\E f : IsRun(f, h, seq, how, m)}
  <1> SUFFICES ASSUME Bad # {} PROVE FALSE
    OBVIOUS
  <1>1. PICK m \in Bad : \A j \in Bad : m <= j
    <2>1. Bad \in SUBSET Nat
      OBVIOUS
    <2> HIDE DEF Bad
    <2> QED
      BY <2>1, LeastOf
  <1>2. m \in Nat /\ ~\E f : IsRun(f, h, seq, how, m)
    OBVIOUS
  <1>3. CASE m = 0
    <2> DEFINE f == [i \in 0..0 |-> h]
    <2>1. f = [i \in 0..m |-> IF i = 0 THEN h ELSE Follows(f, seq, how, i)]
      BY <1>3
    <2> HIDE DEF f
    <2> QED
      BY <2>1, <1>2 DEF IsRun
  <1>4. CASE m # 0
    <2>1. m - 1 \in Nat /\ ~(m - 1 \in Bad)
      BY <1>1, <1>2, <1>4
    <2>2. PICK b : IsRun(b, h, seq, how, m - 1)
      BY <2>1
    <2> DEFINE Value(i) == IF i = m THEN Follows(b, seq, how, m) ELSE b[i]
               f == [i \in 0..m |-> Value(i)]
    <2>3. \A i \in 0..m : f[i] = Value(i)
      OBVIOUS
    <2>4. \A i \in 0..m - 1 : b[i] = IF i = 0 THEN h ELSE Follows(b, seq, how, i)
      BY <2>2 DEF IsRun
    <2>5. ASSUME NEW i \in 0..m
          PROVE  Value(i) = IF i = 0 THEN h ELSE Follows(f, seq, how, i)
      <3>1. CASE i = 0
        <4>1. 0 \in 0..m - 1 /\ i # m
          BY <2>1, <1>4, <3>1
        <4> QED
          BY <4>1, <3>1, <2>4
      <3>2. CASE i # 0
        <4>1. i - 1 \in 0..m /\ i - 1 # m /\ (i # m => i \in 0..m - 1)
          BY <1>2, <3>2
        <4>2. f[i - 1] = b[i - 1]
          BY <4>1, <2>3
        <4>3. Follows(f, seq, how, i) = Follows(b, seq, how, i)
          BY <4>2, FollowsIs
        <4> QED
          BY <3>2, <4>1, <4>3, <2>4
      <3> QED
        BY <3>1, <3>2
    <2> HIDE DEF Value
    <2>6. f = [i \in 0..m |-> IF i = 0 THEN h ELSE Follows(f, seq, how, i)]
      BY <2>5
    <2> HIDE DEF f
    <2> QED
      BY <2>6, <1>2 DEF IsRun
  <1> QED
    BY <1>3, <1>4

\* What every command keeps, a list of commands keeps.
LEMMA ThroughFits ==
  ASSUME group \in Groups, NEW h, Fit(h), NEW seq, Len(seq) \in Nat,
         NEW how, how.mark \in Marks
  PROVE  Fit(Through(h, seq, how))
  <1> DEFINE f == CHOOSE f : IsRun(f, h, seq, how, Len(seq))
  <1>1. Through(h, seq, how) = f[Len(seq)]
    BY DEF Through, IsRun, Follows
  <1>2. IsRun(f, h, seq, how, Len(seq))
    BY RunExists
  <1> HIDE DEF f
  <1>3. \A i \in 0..Len(seq) : f[i] = IF i = 0 THEN h ELSE PerformOn(f[i - 1], seq[i], how)
    BY <1>2, FollowsIs DEF IsRun
  <1> DEFINE Bad == {i \in 0..Len(seq) : ~Fit(f[i])}
  <1>4. Bad = {}
    <2> SUFFICES ASSUME Bad # {} PROVE FALSE
      OBVIOUS
    <2>1. PICK m \in Bad : \A j \in Bad : m <= j
      <3>1. Bad \in SUBSET Nat
        OBVIOUS
      <3> HIDE DEF Bad
      <3> QED
        BY <3>1, LeastOf
    <2>2. m \in 0..Len(seq) /\ ~Fit(f[m])
      OBVIOUS
    <2>3. m # 0
      BY <2>2, <1>3
    <2>4. m - 1 \in 0..Len(seq) /\ ~(m - 1 \in Bad)
      BY <2>1, <2>2, <2>3
    <2>5. Fit(f[m - 1])
      BY <2>4
    <2>6. f[m] = PerformOn(f[m - 1], seq[m], how)
      BY <2>2, <2>3, <1>3
    <2>7. Fit(f[m])
      BY <2>5, <2>6, PerformOnFits
    <2> QED
      BY <2>2, <2>7
  <1>5. Len(seq) \in 0..Len(seq)
    OBVIOUS
  <1> QED
    BY <1>1, <1>4, <1>5

LEMMA SortedIs ==
  ASSUME NEW ns, IsFiniteSet(ns)
  PROVE  Len(Ascending(ns)) \in Nat
  <1>1. Cardinality(ns) \in Nat
    BY FS_CardinalityType
  <1> DEFINE l == Cardinality(ns)
             v(i) == CHOOSE n \in ns : Cardinality({m \in ns : m < n}) = i - 1
  <1>2. Ascending(ns) = [i \in 1..l |-> v(i)]
    BY DEF Ascending, Sorted
  <1> HIDE DEF v, l
  <1>3. Len([i \in 1..l |-> v(i)]) \in Nat
    BY <1>1 DEF l
  <1> QED
    BY <1>2, <1>3

\* The subjects of a group, and what a command with a chain goes through.
LEMMA SubjectsAreFinite ==
  ASSUME group \in Groups, NEW h, NEW S, S \subseteq Subjects(h)
  PROVE  IsFiniteSet(S)
  <1> DEFINE A == Arrived(h)
             f == [n \in A |-> Subj(n)]
  <1>1. IsFiniteSet(group.posted) /\ IsFiniteSet(group.fakes)
    BY GroupsAssumption
  <1>2. IsFiniteSet(Nodes)
    BY <1>1, FS_Union DEF Nodes
  <1>3. A \in SUBSET Nodes
    BY DEF Arrived
  <1> HIDE DEF A
  <1>4. IsFiniteSet(A)
    BY <1>2, <1>3, FS_Subset
  <1>5. f \in Surjection(A, {Subj(n) : n \in A})
    BY DEF Surjection
  <1> HIDE DEF f
  <1>6. IsFiniteSet({Subj(n) : n \in A})
    BY <1>4, <1>5, FS_Surjection
  <1>7. S \in SUBSET {Subj(n) : n \in A}
    BY DEF Subjects, A
  <1> QED
    BY <1>6, <1>7, FS_Subset

LEMMA OrderedIs ==
  ASSUME group \in Groups, NEW h, Fit(h), NEW ss, IsFiniteSet(ss)
  PROVE  Len(Ordered(h, ss)) \in Nat
  <1> DEFINE links == UNION {{s} \X OfChain(h, s) : s \in ss}
             l == Cardinality(links)
             v(i) == CHOOSE n \in links :
                       Cardinality({m \in links :
                         \/ m[1] < n[1]
                         \/ m[1] = n[1] /\ Sooner(m[2], n[2])}) = i - 1
             seq == [i \in 1..l |-> v(i)]
  <1>1. Ordered(h, ss) = [i \in DOMAIN seq |-> seq[i][2]]
    BY DEF Ordered, Sorted
  <1>2. \A s \in ss : OfChain(h, s) \subseteq h.exists
    BY DEF OfChain, OneWalk, Listed
  <1>3. links \in SUBSET (ss \X h.exists)
    BY <1>2
  <1>4. IsFiniteSet(ss \X h.exists)
    <2>1. IsFiniteSet(h.exists)
      BY HereIsFinite DEF Fit, Whole
    <2> QED
      BY <2>1, FS_Product
  <1> HIDE DEF links
  <1>5. l \in Nat
    BY <1>3, <1>4, FS_Subset, FS_CardinalityType
  <1> HIDE DEF l, v
  <1>6. DOMAIN seq = 1..l
    OBVIOUS
  <1> HIDE DEF seq
  <1>7. Len([i \in 1..l |-> seq[i][2]]) \in Nat
    BY <1>5
  <1> QED
    BY <1>1, <1>6, <1>7

LEMMA PerformAllFits ==
  ASSUME group \in Groups, NEW h, Fit(h), NEW ns, IsFiniteSet(ns), NEW mark \in Marks
  PROVE  Fit(PerformAll(h, ns, mark))
  <1> DEFINE how == [of |-> "numbers", mark |-> mark, all |-> TRUE]
             seq == Ascending(ns)
  <1>1. PerformAll(h, ns, mark) = Through(h, seq, how) /\ how.mark \in Marks
    BY DEF PerformAll
  <1>2. Len(seq) \in Nat
    BY SortedIs
  <1> HIDE DEF how, seq
  <1> QED
    BY <1>1, <1>2, ThroughFits

LEMMA ThreadPerformFits ==
  ASSUME group \in Groups, NEW h, Fit(h), NEW ss, IsFiniteSet(ss), NEW mark \in Marks, NEW all
  PROVE  Fit(ThreadPerform(h, ss, mark, all))
  <1> DEFINE how == [of |-> IF mark \in {"++", "--", "J"} THEN "subjects" ELSE "articles",
                     mark |-> mark, all |-> all]
             seq == IF how.of = "subjects" THEN Ascending(ss)
                    ELSE IF h.order # << >> THEN h.order
                    ELSE Ordered(h, ss)
  <1>1. ThreadPerform(h, ss, mark, all) = Through(h, seq, how) /\ how.mark \in Marks
    BY DEF ThreadPerform
  <1> HIDE DEF how
  <1>2. Len(seq) \in Nat
    <2>1. Len(Ascending(ss)) \in Nat /\ Len(Ordered(h, ss)) \in Nat /\ Len(h.order) \in Nat
      BY SortedIs, OrderedIs DEF Fit, Whole
    <2> QED
      BY <2>1
  <1> HIDE DEF seq
  <1> QED
    BY <1>1, <1>2, ThroughFits

-------------------------------------------------------------------------------
(* The selector, and the turns of the loop.                                *)

LEMMA ChosenFits ==
  ASSUME group \in Groups, NEW h, Fit(h), NEW ss, NEW dead
  PROVE  Fit(Chosen(h, ss, dead))
  <1> DEFINE off == DeselectSubjects(h, Subjects(h) \ ss)
             on == SelectSubjects(off, ss)
             kept == Less(on, {n \in Listed(on, dead) : n \notin on.sel})
  <1>1. Fit(off)
    BY DeselectSubjectsFits
  <1> HIDE DEF off
  <1>2. Fit(on)
    BY <1>1, SelectSubjectsFits
  <1> HIDE DEF on
  <1>3. Fit(kept)
    BY <1>2, LessFits
  <1>4. Chosen(h, ss, dead) = [kept EXCEPT !.visit = @ \ dead]
    BY DEF Chosen, kept, on, off
  <1> HIDE DEF kept
  <1>5. Fit([kept EXCEPT !.visit = @ \ dead])
    BY <1>3, OthersFit
  <1> QED
    BY <1>4, <1>5

LEMMA UnkilledFits ==
  ASSUME group \in Groups, NEW h, Fit(h), h.selCount = 0, NEW ss
  PROVE  Fit(Unkilled(h, ss))
  <1> DEFINE new == Listed(h, ss) \ h.unread
             k == Unkilled(h, ss)
  <1>1. /\ Frame(h, k) /\ k.unread = h.unread \cup new /\ k.sel = h.sel \cup new
        /\ k.toRead = h.toRead + Cardinality(new)
        /\ k.selCount = h.selCount + Cardinality(new)
    BY DEF Unkilled, Fit, Whole, Fields, Frame
  <1>2. new \subseteq Here(h) /\ new \cap h.unread = {}
    BY DEF Listed, Fit, Whole
  <1> HIDE DEF k, new
  <1>3. IsFiniteSet(new) /\ IsFiniteSet(h.sel)
    BY <1>2, HereIsFinite DEF Fit, Whole
  <1>4. IsFiniteSet(k.sel) /\ new \subseteq k.sel
    <2>1. IsFiniteSet(h.sel \cup new)
      BY <1>3, FS_Union
    <2> QED
      BY <2>1, <1>1
  <1>5. Cardinality(new) \in Nat /\ Cardinality(new) <= Cardinality(k.sel)
    BY <1>4, Differences
  <1>6. SelExact(k)
    BY <1>1, <1>5 DEF SelExact
  <1>7. Fit(k)
    BY <1>1, <1>2, <1>4, <1>6, GainsFit
  <1> QED
    BY <1>7 DEF k

LEMMA ToFirstFits ==
  ASSUME NEW h, Fit(h)
  PROVE  Fit(ToFirst(h)) /\ (\A loc : Fit(To(h, loc))) /\ Fit(Restore(h))
  BY OthersFit DEF ToFirst, To, Restore

LEMMA SubjArticleFits ==
  ASSUME NEW h, Fit(h), NEW s
  PROVE  Fit(SubjArticle(h, s))
  <1> DEFINE T(x) == [h EXCEPT !.target = x, !.reread = TRUE]
  <1>1. \A x : Fit(T(x))
    <2> TAKE x
    <2>1. /\ Frame(h, T(x)) /\ T(x).unread = h.unread /\ T(x).toRead = h.toRead
          /\ T(x).sel = h.sel /\ T(x).selCount = h.selCount
      BY DEF Fit, Whole, Fields, Frame
    <2> HIDE DEF T
    <2> QED
      BY <2>1, SameFits
  <1> DEFINE all == OfSubject(h, s)
             new == {n \in all : n \in h.unread /\ (h.selOnly => n \in h.sel)}
             old == {n \in all : h.selOnly /\ n \in h.sel}
             one == At(FirstIn(new))
             any == At(FirstIn(IF old # {} THEN old ELSE all))
  <1>2. SubjArticle(h, s) = IF new # {} THEN To(h, one) ELSE T(any)
    BY Zenon DEF SubjArticle, At, To
  <1> HIDE DEF T, one, any, new
  <1>3. Fit(To(h, one)) /\ Fit(T(any))
    BY <1>1, ToFirstFits
  <1> QED
    BY <1>2, <1>3

LEMMA VisitsFit ==
  ASSUME NEW h, Fit(h)
  PROVE  Fit(VisitNext(h)) /\ Fit(VisitPrev(h))
  <1> DEFINE stop == [To(h, End(h)) EXCEPT !.force = TRUE]
  <1>1. Fit(stop)
    BY ToFirstFits, OthersFit
  <1> HIDE DEF stop
  <1>2. \/ VisitNext(h) = stop
        \/ \E s : VisitNext(h) = SubjArticle(h, s)
    BY DEF VisitNext, stop
  <1>3. \/ VisitPrev(h) = stop
        \/ \E s : VisitPrev(h) = SubjArticle(h, s)
    BY DEF VisitPrev, stop
  <1> QED
    BY <1>1, <1>2, <1>3, SubjArticleFits

LEMMA AskFits ==
  ASSUME NEW h, Fit(h)
  PROVE  Fit(Ask(h)) /\ Placed(Ask(h), Ask(h).target)
  <1> DEFINE k == Ask(h)
  <1>1. /\ Frame(h, k) /\ k.unread = h.unread /\ k.toRead = h.toRead
        /\ k.sel = h.sel /\ k.selCount = h.selCount
        /\ k.target = k.current
    BY DEF Ask, Restore, To, Fit, Whole, Fields, Frame
  <1> HIDE DEF k
  <1>2. Fit(k)
    BY <1>1, SameFits
  <1>3. Placed(k, k.target)
    BY <1>1, <1>2 DEF Fit, Whole
  <1> QED
    BY <1>2, <1>3 DEF k

LEMMA DeselectAllFits ==
  ASSUME NEW h, Fit(h)
  PROVE  Fit(DeselectAll(h))
  <1> DEFINE k == DeselectAll(h)
  <1>1. /\ Frame(h, k) /\ k.unread = h.unread /\ k.toRead = h.toRead
        /\ k.sel = {} /\ k.selCount = 0
    BY DEF DeselectAll, Fit, Whole, Fields, Frame
  <1> HIDE DEF k
  <1>2. IsFiniteSet(k.sel) /\ Cardinality(k.sel) = 0
    BY <1>1, FS_EmptySet
  <1>3. Keeps(h, k) /\ SelExact(k)
    BY <1>1, <1>2 DEF Keeps, SelExact
  <1> QED
    BY <1>3, KeepsFit DEF k, Fit

\* A turn leads to a fit state; at the prompt the target is the current article.
LEMMA TurnKeeps ==
  ASSUME group \in Groups, NEW h, Fit(h), NEW to,
         Turn(h, to), to \in {"more", "raised", "marked"} => Placed(h, h.target)
  PROVE  IInv'
  <1>1. group' = group /\ pc' = to
    BY DEF Turn
  <1>2. Fit(g') /\ (to \in {"prompt", "more", "raised", "marked"} => Placed(g', g'.target))
    <2>1. CASE to = "prompt"
      <3>1. g' = Ask(h)
        BY <2>1 DEF Turn
      <3> QED
        BY <3>1, AskFits
    <2>2. CASE to = "left"
      <3>1. g' = YankBack(DeselectAll(h))
        BY <2>2 DEF Turn
      <3> QED
        BY <2>2, <3>1, DeselectAllFits, YankBackFits
    <2>3. CASE to \notin {"prompt", "left"}
      <3>1. g' = h
        BY <2>3 DEF Turn
      <3> QED
        BY <2>3, <3>1
    <2> QED
      BY <2>1, <2>2, <2>3
  <1>3. Here(g)' = Here(g') /\ Gone(g)' = Gone(g')
    BY <1>1 DEF Here, Gone
  <1>4. Fit(g)' /\ (Placed(g, g.target)' <=> Placed(g', g'.target))
    BY <1>2, <1>3 DEF Fit, Whole, ReadExact, SelExact, Placed
  <1> QED
    BY <1>1, <1>2, <1>4 DEF IInv

LEMMA CommitFits ==
  ASSUME NEW h, Fit(h), Placed(h, h.target)
  PROVE  Fit(Commit(h)) /\ Placed(Commit(h), Commit(h).target)
  <1>1. CASE h.target = h.current
    BY <1>1 DEF Commit
  <1>2. CASE h.target # h.current
    <2> DEFINE k == Commit(h)
    <2>1. /\ DOMAIN k = Fields /\ k.last = h.last /\ k.exists = h.exists
          /\ k.order = h.order /\ k.unread = h.unread /\ k.toRead = h.toRead
          /\ k.sel = h.sel /\ k.selCount = h.selCount
          /\ k.current = h.target /\ k.target = h.target
      BY <1>2 DEF Commit, Fit, Whole, Fields
    <2> HIDE DEF k
    <2>2. Here(k) = Here(h) /\ Gone(k) = Gone(h)
      BY <2>1 DEF Here, Gone
    <2>3. Whole(k) /\ Placed(k, k.target)
      BY <2>1, <2>2 DEF Fit, Whole, Placed
    <2>4. ReadExact(k) /\ SelExact(k)
      BY <2>1, <2>2 DEF Fit, ReadExact, SelExact
    <2> QED
      BY <2>3, <2>4 DEF Fit, k
  <1> QED
    BY <1>1, <1>2

LEMMA FoundFits ==
  ASSUME group \in Groups, NEW h, Fit(h)
  PROVE  Fit(Found(h)) /\ Placed(Found(h), Found(h).target)
  <1> DEFINE loc == [num |-> h.target.num, art |-> Find(h, h.target.num)]
  <1>1. CASE h.target.num # 0 \/ h.target.art \notin group.fakes \cup {None}
    <2>1. Found(h) = To(h, loc)
      BY <1>1 DEF Found
    <2>2. To(h, loc).target = loc /\ Frame(h, To(h, loc))
      BY DEF To, Fit, Whole, Fields, Frame
    <2>3. Placed(h, loc)
      BY DEF Placed, Find, Here
    <2> HIDE DEF loc
    <2>4. Placed(To(h, loc), loc)
      BY <2>2, <2>3, FrameIs DEF Placed
    <2> QED
      BY <2>1, <2>2, <2>4, ToFirstFits
  <1>2. CASE ~(h.target.num # 0 \/ h.target.art \notin group.fakes \cup {None})
    <2>1. Found(h) = h /\ ~(h.target.num >= 1)
      BY <1>2 DEF Found
    <2> QED
      BY <2>1 DEF Placed
  <1> QED
    BY <1>1, <1>2

\* What arrives is unread, and it is counted.
LEMMA GrowFits ==
  ASSUME group \in Groups, NEW h, Fit(h), NEW last \in Nat, h.last <= last
  PROVE  Fit(Grow(h, last))
  <1> DEFINE new == {n \in group.posted : n > h.last /\ n <= last}
             big == [h EXCEPT !.last = last, !.exists = @ \cup new, !.unread = @ \cup new,
                              !.toRead = @ + Cardinality(new), !.grow = FALSE]
             count == CountNorm(big)
             order == IF h.order = << >> THEN << >> ELSE Ascending(count.unread)
             at == IF h.force /\ h.target.num > h.last THEN last + 1 ELSE h.target.num
             all == [count EXCEPT !.order = order]
             none == [h EXCEPT !.grow = FALSE]
  <1>1. Grow(h, last) = [IF new = {} THEN none ELSE all EXCEPT !.target.num = at]
    BY DEF Grow
  <1>2. Fit(none)
    BY OthersFit
  <1>3. Fit(all)
    <2>1. /\ DOMAIN big = Fields /\ big.last = last /\ big.exists = h.exists \cup new
          /\ big.unread = h.unread \cup new /\ big.toRead = h.toRead + Cardinality(new)
          /\ big.sel = h.sel /\ big.selCount = h.selCount /\ big.current = h.current
          /\ big.order = h.order
      BY DEF Fit, Whole, Fields
    <2>2. group.posted \subseteq Nat /\ h.last \in Nat
      BY GroupsAssumption DEF Fit, Whole
    <2>3. /\ Here(h) \subseteq Here(big) /\ new \subseteq Here(big)
          /\ new \cap Here(h) = {} /\ Here(big) = Here(h) \cup new
      BY <2>1, <2>2 DEF Here
    <2>4. Gone(big) = Gone(h)
      <3>1. Gone(big) = Here(big) \ big.exists /\ Gone(h) = Here(h) \ h.exists
        BY DEF Gone, Here
      <3> HIDE DEF big, new
      <3> QED
        BY <2>1, <2>3, <3>1
    <2> HIDE DEF big, new, count, order, all
    <2>5. Whole(big)
      BY <2>1, <2>3 DEF Fit, Whole, Placed
    <2>6. SelExact(big)
      BY <2>1 DEF Fit, SelExact
    <2>7. ReadExact(big)
      <3>1. IsFiniteSet(h.unread) /\ IsFiniteSet(new) /\ h.unread \cap new = {}
        BY <2>3, HereIsFinite DEF Fit, Whole
      <3>2. /\ Cardinality(h.unread \cup new) = Cardinality(h.unread) + Cardinality(new)
            /\ Cardinality(h.unread) \in Nat /\ Cardinality(new) \in Nat
        BY <3>1, Sums
      <3>3. Cardinality(Gone(h)) \in Nat
        BY GoneIsFinite
      <3> QED
        BY <2>1, <2>4, <3>2, <3>3 DEF Fit, ReadExact
    <2>8. Fit(count)
      BY <2>5, <2>7, CountSubjectsIs, CountsIs DEF count
    <2>9. Len(order) \in Nat
      <3>1. IsFiniteSet(count.unread)
        BY <2>8, HereIsFinite DEF Fit, Whole
      <3>2. Len(Ascending(count.unread)) \in Nat
        BY <3>1, SortedIs
      <3>3. Len(<< >>) \in Nat
        OBVIOUS
      <3> QED
        BY <3>2, <3>3 DEF order
    <2>10. /\ DOMAIN all = Fields /\ all.last = count.last /\ all.exists = count.exists
           /\ all.unread = count.unread /\ all.toRead = count.toRead
           /\ all.sel = count.sel /\ all.selCount = count.selCount
           /\ all.current = count.current /\ all.order = order
      BY <2>8 DEF all, Fit, Whole, Fields
    <2>11. Here(all) = Here(count) /\ Gone(all) = Gone(count)
      BY <2>10 DEF Here, Gone
    <2>12. Whole(all)
      BY <2>8, <2>9, <2>10, <2>11 DEF Fit, Whole, Placed
    <2>13. ReadExact(all) /\ SelExact(all)
      BY <2>8, <2>10, <2>11 DEF Fit, ReadExact, SelExact
    <2> QED
      BY <2>12, <2>13 DEF Fit
  <1> HIDE DEF all, none, at
  <1>4. Fit([none EXCEPT !.target.num = at]) /\ Fit([all EXCEPT !.target.num = at])
    BY <1>2, <1>3, OthersFit
  <1> HIDE DEF new
  <1> QED
    BY <1>1, <1>4

LEMMA GrowthsFit ==
  ASSUME group \in Groups, NEW h, Fit(h), NEW k \in Growths(h)
  PROVE  Fit(k)
  <1>1. CASE k = h
    BY <1>1
  <1>2. CASE \E last \in {h.last} \cup {n \in group.posted : n > h.last} : k = Grow(h, last)
    <2>1. PICK last \in {h.last} \cup {n \in group.posted : n > h.last} : k = Grow(h, last)
      BY <1>2
    <2>2. last \in Nat /\ h.last <= last
      BY GroupsAssumption DEF Fit, Whole
    <2> QED
      BY <2>1, <2>2, GrowFits
  <1> QED
    BY <1>1, <1>2 DEF Growths

LEMMA SeveralFit ==
  ASSUME NEW h, Fit(h), NEW x, NEW y, NEW z
  PROVE  /\ Fit([h EXCEPT !.reread = x, !.search = y])
         /\ Fit([h EXCEPT !.reread = x, !.force = y])
         /\ Fit([h EXCEPT !.force = x, !.search = y])
         /\ Fit([h EXCEPT !.search = x, !.reread = y, !.force = z])
         /\ Fit([h EXCEPT !.target = x, !.reread = y, !.force = z])
         /\ Fit([h EXCEPT !.target = x, !.reread = y, !.search = z])
  <1> DEFINE Only(k) == /\ Frame(h, k) /\ k.unread = h.unread /\ k.toRead = h.toRead
                        /\ k.sel = h.sel /\ k.selCount = h.selCount
  <1>1. \A k : Only(k) => Fit(k)
    BY SameFits
  <1>2. DOMAIN h = Fields
    BY DEF Fit, Whole
  <1>3. /\ Only([h EXCEPT !.reread = x, !.search = y])
        /\ Only([h EXCEPT !.reread = x, !.force = y])
        /\ Only([h EXCEPT !.force = x, !.search = y])
    BY <1>2 DEF Fields, Frame
  <1>4. /\ Only([h EXCEPT !.search = x, !.reread = y, !.force = z])
        /\ Only([h EXCEPT !.target = x, !.reread = y, !.force = z])
        /\ Only([h EXCEPT !.target = x, !.reread = y, !.search = z])
    BY <1>2 DEF Fields, Frame
  <1> HIDE DEF Only
  <1> QED
    BY <1>1, <1>3, <1>4

\* Only in the pager, and from it, the target matters.
LEMMA TurnFits ==
  ASSUME group \in Groups, NEW h, Fit(h), NEW to, to \notin {"more", "raised", "marked"},
         Turn(h, to)
  PROVE  IInv'
  BY TurnKeeps

LEMMA GoesFits ==
  ASSUME group \in Groups, NEW h, Fit(h), NEW loc, Turn(To(h, loc), "loop")
  PROVE  IInv'
  <1> DEFINE k == To(h, loc)
  <1>1. Fit(k) /\ Turn(k, "loop")
    BY ToFirstFits
  <1> HIDE DEF k
  <1>2. "loop" \notin {"more", "raised", "marked"}
    OBVIOUS
  <1> QED
    BY <1>1, <1>2, TurnFits

LEMMA CountRetainTarget ==
  ASSUME NEW h, Whole(h)
  PROVE  Recounted(CountRetain(h)).target = h.target
  <1> DEFINE k == CountRetain(h)
  <1>1. k.target = h.target /\ DOMAIN k = Fields
    BY DEF CountRetain, CountWith, Whole, Fields
  <1> HIDE DEF k
  <1> QED
    BY <1>1 DEF Recounted, k, Fields

LEMMA AtTheEndKeeps ==
  ASSUME group \in Groups, NEW h, Fit(h), AtTheEnd(h)
  PROVE  IInv'
  <1>1. CASE OnlySelected(h)
    <2>1. Turn(Restore(h), "selector")
      BY <1>1 DEF AtTheEnd
    <2> QED
      BY <2>1, TurnFits, ToFirstFits
  <1>2. CASE ~OnlySelected(h)
    <2> DEFINE e == To(h, End(h))
               c == CountRetain(e)
               r == Recounted(c)
               k == Commit(r)
    <2>1. Fit(e) /\ e.target.art = None
      <3>1. e.target = End(h)
        BY DEF To, Fit, Whole, Fields
      <3> QED
        BY <3>1, ToFirstFits DEF End
    <2>2. r.target.art = None
      BY <2>1, CountRetainTarget DEF Fit
    <2>3. Fit(c)
      BY <2>1, CountSubjectsIs, CountsIs DEF Fit
    <2>4. Fit(r)
      BY <2>3, RecountedFits DEF Fit
    <2>5. Placed(r, r.target)
      BY <2>2 DEF Placed
    <2> HIDE DEF r
    <2>6. Fit(k)
      BY <2>4, <2>5, CommitFits
    <2>7. IF k.toRead = 0 /\ ~k.force THEN Turn(k, "left")
          ELSE Turn([k EXCEPT !.search = FALSE], "prompt")
      BY <1>2 DEF AtTheEnd, r
    <2> HIDE DEF k
    <2>8. Fit([k EXCEPT !.search = FALSE])
      BY <2>6, OthersFit
    <2> QED
      BY <2>6, <2>7, <2>8, TurnFits
  <1> QED
    BY <1>1, <1>2

LEMMA SkipKeeps ==
  ASSUME group \in Groups, NEW h, Fit(h), Skip(h)
  PROVE  IInv'
  <1>1. PICK loc : Turn(To(h, loc), "loop")
    BY DEF Skip
  <1> QED
    BY <1>1, GoesFits

LEMMA ShownReadFits ==
  ASSUME group \in Groups, NEW h, Fit(h)
  PROVE  Fit(ShownRead(h))
  BY LessFits DEF ShownRead

LEMMA UnavailableKeeps ==
  ASSUME group \in Groups, NEW h, Fit(h), Unavailable(h)
  PROVE  IInv'
  <1> DEFINE k == [h EXCEPT !.search = FALSE]
  <1>1. Fit(k)
    BY OthersFit
  <1>2. Turn(ShownRead(k), "prompt")
    BY DEF Unavailable
  <1> HIDE DEF k
  <1>3. Fit(ShownRead(k))
    BY <1>1, ShownReadFits
  <1> QED
    BY <1>2, <1>3, TurnFits

LEMMA ShowKeeps ==
  ASSUME IInv, NEW gone, Show(gone)
  PROVE  IInv'
  <1>1. group \in Groups /\ Fit(g)
    BY DEF IInv
  <1>2. PICK grown \in Growths(g) : \E k \in {Found(grown)} :
          LET n == k.target.art IN
          IF PastEnd(k) THEN AtTheEnd(k)
          ELSE IF Skipped(k) THEN Turn(To(k, NextLoc(k, k.selOnly, FALSE)), "loop")
          ELSE IF ~k.reread /\ gone THEN Skip(Lost(k, n))
          ELSE IF ~k.reread /\ n \notin k.exists THEN Skip(Less(k, {n}))
          ELSE IF gone THEN Unavailable(Lost(Commit(k), n))
          ELSE IF n \notin k.exists THEN Unavailable(Commit(k))
          ELSE Turn(Commit(k), "more")
    BY DEF Show
  <1> DEFINE h == Found(grown)
             n == h.target.art
  <1>3. Fit(grown)
    BY <1>1, GrowthsFit
  <1>4. Fit(h) /\ Placed(h, h.target)
    BY <1>1, <1>3, FoundFits
  <1>5. IF PastEnd(h) THEN AtTheEnd(h)
        ELSE IF Skipped(h) THEN Turn(To(h, NextLoc(h, h.selOnly, FALSE)), "loop")
        ELSE IF ~h.reread /\ gone THEN Skip(Lost(h, n))
        ELSE IF ~h.reread /\ n \notin h.exists THEN Skip(Less(h, {n}))
        ELSE IF gone THEN Unavailable(Lost(Commit(h), n))
        ELSE IF n \notin h.exists THEN Unavailable(Commit(h))
        ELSE Turn(Commit(h), "more")
    BY <1>2
  <1> HIDE DEF h, n
  <1>6. Fit(Commit(h)) /\ Placed(Commit(h), Commit(h).target)
    BY <1>4, CommitFits
  <1>7. Fit(Lost(h, n)) /\ Fit(Less(h, {n})) /\ Fit(Lost(Commit(h), n))
    BY <1>1, <1>4, <1>6, LostFits, LessFits
  <1>8. CASE AtTheEnd(h)
    BY <1>1, <1>4, <1>8, AtTheEndKeeps
  <1>9. CASE Turn(To(h, NextLoc(h, h.selOnly, FALSE)), "loop")
    BY <1>1, <1>4, <1>9, GoesFits
  <1>10. CASE Skip(Lost(h, n)) \/ Skip(Less(h, {n}))
    BY <1>1, <1>7, <1>10, SkipKeeps
  <1>11. CASE Unavailable(Lost(Commit(h), n)) \/ Unavailable(Commit(h))
    BY <1>1, <1>6, <1>7, <1>11, UnavailableKeeps
  <1>12. CASE Turn(Commit(h), "more")
    BY <1>1, <1>6, <1>12, TurnKeeps
  <1> QED
    BY <1>5, <1>8, <1>9, <1>10, <1>11, <1>12

-------------------------------------------------------------------------------
(* The keys.                                                               *)

LEMMA EndArticleKeeps ==
  ASSUME IInv, EndArticle
  PROVE  IInv'
  <1>1. group \in Groups /\ Fit(g) /\ Turn(ShownRead(g), "prompt")
    BY DEF IInv, EndArticle
  <1> QED
    BY <1>1, ShownReadFits, TurnFits

LEMMA RaiseKeeps ==
  ASSUME IInv, Raise
  PROVE  IInv'
  <1> DEFINE h == [g EXCEPT !.reread = FALSE]
  <1>1. group \in Groups /\ Fit(g) /\ Placed(g, g.target)
    BY DEF IInv, Raise
  <1>2. Fit(h)
    BY <1>1, OthersFit
  <1>3. Placed(h, h.target)
    <2>1. h.target = g.target /\ h.last = g.last
      BY <1>1 DEF Fit, Whole, Fields
    <2> QED
      BY <1>1, <2>1 DEF Placed, Here
  <1>4. Turn(h, "raised") \/ Turn(ShownRead(h), "marked")
    BY DEF Raise
  <1> HIDE DEF h
  <1>5. Fit(ShownRead(h))
    BY <1>1, <1>2, ShownReadFits
  <1>6. Placed(ShownRead(h), ShownRead(h).target)
    <2>1. ShownRead(h).target = h.target /\ ShownRead(h).last = h.last
      BY <1>2 DEF ShownRead, Less, Fit, Whole, Fields
    <2> QED
      BY <1>3, <2>1 DEF Placed, Here
  <1>7. CASE Turn(h, "raised")
    BY <1>1, <1>2, <1>3, <1>7, TurnKeeps
  <1>8. CASE Turn(ShownRead(h), "marked")
    BY <1>1, <1>5, <1>6, <1>8, TurnKeeps
  <1> QED
    BY <1>4, <1>7, <1>8

LEMMA NextUnreadKeeps ==
  ASSUME IInv, NextUnread
  PROVE  IInv'
  <1>1. group \in Groups /\ Fit(g)
    BY DEF IInv
  <1> DEFINE h == IF PastEnd(g) THEN g ELSE To(g, NextLoc(g, g.selOnly, FALSE))
             k == IF PastEnd(h) THEN ToFirst(h) ELSE h
  <1>2. Turn(g, "left") \/ Turn([k EXCEPT !.search = FALSE], "loop")
    BY DEF NextUnread
  <1>3. Fit(h)
    BY <1>1, ToFirstFits
  <1> HIDE DEF h
  <1>4. Fit(k)
    BY <1>3, ToFirstFits
  <1> HIDE DEF k
  <1>5. Fit([k EXCEPT !.search = FALSE])
    BY <1>4, OthersFit
  <1> QED
    BY <1>1, <1>2, <1>5, TurnFits

LEMMA NextArticleKeeps ==
  ASSUME IInv, NextArticle
  PROVE  IInv'
  <1>1. group \in Groups /\ Fit(g)
    BY DEF IInv
  <1>2. \/ Turn(g, "crashed")
        \/ \E loc : Turn([To(g, loc) EXCEPT !.search = FALSE, !.reread = ~PastEnd(To(g, loc)),
                                    !.force = @ \/ PastEnd(To(g, loc))], "loop")
    BY DEF NextArticle
  <1>3. CASE Turn(g, "crashed")
    BY <1>1, <1>3, TurnFits
  <1>4. ASSUME NEW loc,
               Turn([To(g, loc) EXCEPT !.search = FALSE, !.reread = ~PastEnd(To(g, loc)),
                                    !.force = @ \/ PastEnd(To(g, loc))], "loop")
        PROVE  IInv'
    <2> DEFINE h == To(g, loc)
    <2>1. Turn([h EXCEPT !.search = FALSE, !.reread = ~PastEnd(h),
                         !.force = @ \/ PastEnd(h)], "loop")
      BY <1>4
    <2>2. Fit(h)
      BY <1>1, ToFirstFits
    <2> HIDE DEF h
    <2>3. Fit([h EXCEPT !.search = FALSE, !.reread = ~PastEnd(h), !.force = @ \/ PastEnd(h)])
      BY <2>2, SeveralFit
    <2> QED
      BY <1>1, <2>1, <2>3, TurnFits
  <1> QED
    BY <1>2, <1>3, <1>4

LEMMA OfSubjectKeeps ==
  ASSUME IInv, NextOfSubject \/ PrevOfSubject
  PROVE  IInv'
  <1>1. group \in Groups /\ Fit(g)
    BY DEF IInv
  <1> DEFINE h == [g EXCEPT !.search = TRUE]
  <1>2. Fit(h)
    BY <1>1, OthersFit
  <1>3. CASE NextOfSubject
    <2>1. (\E loc : Turn(To(h, loc), "loop")) \/ Turn(ToFirst(h), "loop")
      BY <1>3 DEF NextOfSubject
    <2> HIDE DEF h
    <2> QED
      BY <1>1, <1>2, <2>1, ToFirstFits, TurnFits
  <1>4. CASE PrevOfSubject
    <2>1. \/ \E loc : Turn(To(g, loc), "loop")
          \/ Turn(h, "prompt")
          \/ \E loc : Turn([To(g, loc) EXCEPT !.search = TRUE], "loop")
      BY <1>4 DEF PrevOfSubject
    <2> HIDE DEF h
    <2>2. CASE \E loc : Turn(To(g, loc), "loop")
      BY <1>1, <2>2, GoesFits
    <2>3. CASE Turn(h, "prompt")
      BY <1>1, <1>2, <2>3, TurnFits
    <2>4. ASSUME NEW loc, Turn([To(g, loc) EXCEPT !.search = TRUE], "loop")
          PROVE  IInv'
      <3> DEFINE k == To(g, loc)
      <3>1. Fit(k) /\ Turn([k EXCEPT !.search = TRUE], "loop")
        BY <1>1, <2>4, ToFirstFits
      <3> HIDE DEF k
      <3>2. Fit([k EXCEPT !.search = TRUE])
        BY <3>1, OthersFit
      <3> QED
        BY <1>1, <3>1, <3>2, TurnFits
    <2> QED
      BY <2>1, <2>2, <2>3, <2>4
  <1> QED
    BY <1>3, <1>4

LEMMA ThereFits ==
  ASSUME NEW h, Fit(h), NEW loc, NEW x, NEW y
  PROVE  /\ Fit([To(h, loc) EXCEPT !.search = x])
         /\ Fit([To(h, loc) EXCEPT !.reread = x])
         /\ Fit([To(h, loc) EXCEPT !.force = x])
         /\ Fit([To(h, loc) EXCEPT !.reread = x, !.search = y])
         /\ Fit([To(h, loc) EXCEPT !.reread = x, !.force = y])
         /\ Fit([To(h, loc) EXCEPT !.force = x, !.search = y])
  <1> DEFINE k == To(h, loc)
  <1>1. Fit(k)
    BY ToFirstFits
  <1> HIDE DEF k
  <1>2. /\ Fit([k EXCEPT !.search = x]) /\ Fit([k EXCEPT !.reread = x])
        /\ Fit([k EXCEPT !.force = x])
    BY <1>1, OthersFit
  <1>3. /\ Fit([k EXCEPT !.reread = x, !.search = y])
        /\ Fit([k EXCEPT !.reread = x, !.force = y])
        /\ Fit([k EXCEPT !.force = x, !.search = y])
    BY <1>1, SeveralFit
  <1> QED
    BY <1>2, <1>3 DEF k

LEMMA RereadKeeps ==
  ASSUME group \in Groups, NEW h, Fit(h), NEW loc, NEW x,
         Turn([To(h, loc) EXCEPT !.reread = x], "loop")
  PROVE  IInv'
  <1> DEFINE k == [To(h, loc) EXCEPT !.reread = x]
  <1>1. Fit(k) /\ Turn(k, "loop")
    BY ThereFits
  <1> HIDE DEF k
  <1> QED
    BY <1>1, TurnFits

LEMMA NextSubjectKeeps ==
  ASSUME IInv, NextSubject
  PROVE  IInv'
  <1>1. group \in Groups /\ Fit(g)
    BY DEF IInv
  <1>2. Turn(VisitNext(g), "loop") \/ Turn(VisitPrev(g), "loop")
    BY DEF NextSubject
  <1> QED
    BY <1>1, <1>2, VisitsFit, TurnFits

LEMMA RelativeKeeps ==
  ASSUME IInv, Relative
  PROVE  IInv'
  <1>1. group \in Groups /\ Fit(g)
    BY DEF IInv
  <1>2. PICK n \in Relatives(g, g.target.art) :
          Turn([To(g, At(n)) EXCEPT !.reread = TRUE], "loop")
    BY DEF Relative
  <1> QED
    BY <1>1, <1>2, RereadKeeps

LEMMA PrevUnreadKeeps ==
  ASSUME IInv, PrevUnread
  PROVE  IInv'
  <1>1. group \in Groups /\ Fit(g)
    BY DEF IInv
  <1>2. CASE Turn(g, "crashed")
    BY <1>1, <1>2, TurnFits
  <1>3. ASSUME NEW loc, Turn([To(g, loc) EXCEPT !.search = FALSE],
                             IF loc.num >= g.first THEN "loop" ELSE "prompt")
        PROVE  IInv'
    <2> DEFINE h == [To(g, loc) EXCEPT !.search = FALSE]
    <2>1. Fit(h)
      BY <1>1, ThereFits
    <2>2. PICK to \in {"loop", "prompt"} : Turn(h, to)
      BY <1>3
    <2> HIDE DEF h
    <2> QED
      BY <1>1, <2>1, <2>2, TurnFits
  <1> QED
    BY <1>2, <1>3 DEF PrevUnread

LEMMA PrevArticleKeeps ==
  ASSUME IInv, PrevArticle
  PROVE  IInv'
  <1>1. group \in Groups /\ Fit(g)
    BY DEF IInv
  <1>2. CASE Turn(g, "crashed") \/ Turn(g, "prompt")
    BY <1>1, <1>2, TurnFits
  <1>3. ASSUME NEW loc, Turn([To(g, loc) EXCEPT !.reread = TRUE, !.search = FALSE], "loop")
        PROVE  IInv'
    <2> DEFINE h == [To(g, loc) EXCEPT !.reread = TRUE, !.search = FALSE]
    <2>1. Fit(h) /\ Turn(h, "loop")
      BY <1>1, <1>3, ThereFits
    <2> HIDE DEF h
    <2> QED
      BY <1>1, <2>1, TurnFits
  <1> QED
    BY <1>2, <1>3 DEF PrevArticle

LEMMA RecentKeeps ==
  ASSUME IInv, Recent
  PROVE  IInv'
  <1>1. group \in Groups /\ Fit(g)
    BY DEF IInv
  <1> DEFINE a == [To(g, g.recent) EXCEPT !.reread = TRUE, !.force = TRUE]
             b == [To(g, End(g)) EXCEPT !.force = TRUE, !.search = FALSE]
  <1>2. Fit(a) /\ Fit(b)
    BY <1>1, ThereFits
  <1>3. Turn(a, "loop") \/ Turn(b, "loop")
    BY DEF Recent
  <1> HIDE DEF a, b
  <1> QED
    BY <1>1, <1>2, <1>3, TurnFits

LEMMA NumberKeeps ==
  ASSUME IInv, Number
  PROVE  IInv'
  <1>1. group \in Groups /\ Fit(g)
    BY DEF IInv
  <1>2. PICK num : Turn([g EXCEPT !.target = [num |-> num, art |-> Find(g, num)],
                                 !.reread = TRUE, !.force = TRUE], "loop")
    BY DEF Number
  <1> DEFINE h == [g EXCEPT !.target = [num |-> num, art |-> Find(g, num)],
                            !.reread = TRUE, !.force = TRUE]
  <1>3. Fit(h) /\ Turn(h, "loop")
    BY <1>1, <1>2, SeveralFit
  <1> HIDE DEF h
  <1> QED
    BY <1>1, <1>3, TurnFits

LEMMA AdjacentKeeps ==
  ASSUME IInv, Adjacent
  PROVE  IInv'
  <1>1. group \in Groups /\ Fit(g)
    BY DEF IInv
  <1> DEFINE h(num) == [g EXCEPT !.target = [num |-> num, art |-> Find(g, num)],
                                 !.reread = num <= g.last, !.search = FALSE]
  <1>2. \A num : Fit(h(num))
    BY <1>1, SeveralFit
  <1>3. Turn(g, "prompt") \/ \E num : Turn(h(num), "loop")
    BY Zenon DEF Adjacent
  <1> HIDE DEF h
  <1> QED
    BY <1>1, <1>2, <1>3, TurnFits

LEMMA RangesKeep ==
  ASSUME IInv, Ranges
  PROVE  IInv'
  <1>1. group \in Groups /\ Fit(g)
    BY DEF IInv
  <1>2. PICK low \in group.posted, high \in group.posted, mark \in Marks :
          Turn(PerformAll(g, group.posted \cap low..high, mark), "prompt")
    BY DEF Ranges
  <1> DEFINE ns == group.posted \cap low..high
  <1>3. IsFiniteSet(ns)
    BY <1>1, GroupsAssumption, FS_Intersection
  <1> HIDE DEF ns
  <1>4. Fit(PerformAll(g, ns, mark))
    BY <1>1, <1>3, PerformAllFits
  <1> QED
    BY <1>1, <1>2, <1>4, TurnFits DEF ns

LEMMA ColonKeeps ==
  ASSUME IInv, Colon
  PROVE  IInv'
  <1>1. group \in Groups /\ Fit(g)
    BY DEF IInv
  <1>2. PICK all \in BOOLEAN, mark \in Marks :
          \/ Turn(ThreadPerform(g, Chain(g, all), mark, all), "prompt")
          \/ Turn(ThreadPerform(g, {Least(ThreadOf(g, g.target.art))}, mark, all), "prompt")
    BY DEF Colon
  <1>3. IsFiniteSet(Chain(g, all))
    <2>1. Chain(g, all) \subseteq Subjects(g)
      BY DEF Chain
    <2> QED
      BY <1>1, <2>1, SubjectsAreFinite
  <1>4. IsFiniteSet({Least(ThreadOf(g, g.target.art))})
    BY FS_Singleton
  <1>5. ASSUME NEW ss, IsFiniteSet(ss), Turn(ThreadPerform(g, ss, mark, all), "prompt")
        PROVE  IInv'
    <2>1. Fit(ThreadPerform(g, ss, mark, all))
      BY <1>1, <1>5, ThreadPerformFits
    <2> QED
      BY <1>1, <1>5, <2>1, TurnFits
  <1> QED
    BY <1>2, <1>3, <1>4, <1>5

LEMMA SearchKeeps ==
  ASSUME IInv, Search
  PROVE  IInv'
  <1>1. group \in Groups /\ Fit(g)
    BY DEF IInv
  <1>2. CASE \E n \in g.exists : Turn([To(g, At(n)) EXCEPT !.reread = TRUE], "loop")
    BY <1>1, <1>2, RereadKeeps
  <1>3. ASSUME NEW s, NEW mark \in Marks,
               LET ns == {n \in Listed(g, {s}) : n \in g.unread \/ mark = "m"}
                   h  == PerformAll(g, ns, mark)
               IN IF g.search THEN Turn(ToFirst(h), "loop") ELSE Turn(h, "prompt")
        PROVE  IInv'
    <2> DEFINE ns == {n \in Listed(g, {s}) : n \in g.unread \/ mark = "m"}
               h  == PerformAll(g, ns, mark)
    <2>1. ns \subseteq Here(g)
      BY <1>1 DEF Listed, Fit, Whole
    <2>2. Turn(ToFirst(h), "loop") \/ Turn(h, "prompt")
      BY <1>3
    <2> HIDE DEF ns
    <2>3. IsFiniteSet(ns)
      BY <1>1, <2>1, HereIsFinite
    <2>4. Fit(h)
      BY <1>1, <2>3, PerformAllFits
    <2> HIDE DEF h
    <2>5. Fit(ToFirst(h))
      BY <2>4, ToFirstFits
    <2> QED
      BY <1>1, <2>2, <2>4, <2>5, TurnFits
  <1> QED
    BY <1>2, <1>3 DEF Search

LEMMA MarkArticleKeeps ==
  ASSUME IInv, MarkArticle
  PROVE  IInv'
  <1>1. group \in Groups /\ Fit(g) /\ Placed(g, g.target)
    BY DEF IInv, MarkArticle, Key
  <1> DEFINE n == g.target.art
  <1>2. Fit(Perform(g, n, "M")) /\ Fit(Less(g, {n}))
    BY <1>1, PerformFits, LessFits DEF Marks
  <1>3. CASE Turn(g, "crashed")
    BY <1>1, <1>3, TurnFits
  <1>4. CASE Turn(Perform(g, n, "M"), "prompt")
    BY <1>1, <1>2, <1>4, TurnFits
  <1>5. CASE g.target.num >= 1 /\ n # None /\ Turn(More(g, {n}), "prompt")
    <2>1. {n} \subseteq Here(g)
      BY <1>1, <1>5 DEF Placed
    <2>2. Fit(More(g, {n}))
      BY <1>1, <2>1, MoreFits
    <2> QED
      BY <1>1, <1>5, <2>2, TurnFits
  <1>6. CASE Turn(Less(g, {n}), "prompt")
    BY <1>1, <1>2, <1>6, TurnFits
  <1> QED
    BY <1>3, <1>4, <1>5, <1>6 DEF MarkArticle

LEMMA KillKeeps ==
  ASSUME IInv, Kill
  PROVE  IInv'
  <1> DEFINE n == g.target.art
             h == KillSubjects(g, {Subj(n)})
             k == KillSubjects(g, InThread(g, Subj(n)))
             l == IF group.threaded THEN KillSub(g, n) ELSE Less(g, {n})
  <1>1. group \in Groups /\ Fit(g)
    BY DEF IInv
  <1>2. Fit(h) /\ Fit(k) /\ Fit(l)
    BY <1>1, KillsFit, LessFits
  <1>3. \/ Turn(h, "loop") \/ Turn(k, "loop") \/ Turn(l, "loop")
        \/ Turn(ToFirst(h), "loop") \/ Turn(h, "prompt")
    BY DEF Kill
  <1> HIDE DEF h, k, l
  <1>4. Fit(ToFirst(h))
    BY <1>2, ToFirstFits
  <1>5. CASE Turn(h, "loop") \/ Turn(k, "loop") \/ Turn(l, "loop")
    BY <1>1, <1>2, <1>5, TurnFits
  <1>6. CASE Turn(ToFirst(h), "loop") \/ Turn(h, "prompt")
    BY <1>1, <1>2, <1>4, <1>6, TurnFits
  <1> QED
    BY <1>3, <1>5, <1>6

LEMMA KillForNowKeeps ==
  ASSUME IInv, KillForNow
  PROVE  IInv'
  <1> DEFINE n == g.target.art
             ss == InThread(g, Subj(n))
             a == Return(g, Sub(g, n))
             b == Return(g, Listed(g, ss))
  <1>1. group \in Groups /\ Fit(g)
    BY DEF IInv
  <1>2. Fit(a) /\ Fit(b)
    BY <1>1, KillsFit
  <1>3. Turn(KillSub(a, n), "loop") \/ Turn(KillSubjects(b, ss), "loop")
    BY DEF KillForNow
  <1> HIDE DEF a, b, ss, n
  <1>4. Fit(KillSub(a, n)) /\ Fit(KillSubjects(b, ss))
    BY <1>1, <1>2, KillsFit
  <1> QED
    BY <1>1, <1>3, <1>4, TurnFits

LEMMA MemorizeKeeps ==
  ASSUME IInv, Memorize
  PROVE  IInv'
  <1> DEFINE n == g.target.art
             a == SelectWith(g, n, {Subj(n)})
             b == SelectWith(g, n, InThread(g, Subj(n)))
             c == SelectSub(g, n)
  <1>1. group \in Groups /\ Fit(g)
    BY DEF IInv
  <1>2. Fit(a) /\ Fit(b) /\ Fit(c)
    BY <1>1, SelectWithFits, SelectSubFits
  <1>3. Turn(a, "prompt") \/ Turn(b, "prompt") \/ Turn(c, "prompt")
    BY DEF Memorize
  <1> HIDE DEF a, b, c
  <1> QED
    BY <1>1, <1>2, <1>3, TurnFits

LEMMA SelectKeysKeep ==
  ASSUME IInv, SelectKeys
  PROVE  IInv'
  <1> DEFINE n == g.target.art
             ss == InThread(g, Subj(n))
             a == DeselectSubjects(g, ss)
             h == SelectWith(g, n, ss)
  <1>1. group \in Groups /\ Fit(g)
    BY DEF IInv
  <1>2. Fit(a) /\ Fit(h)
    BY <1>1, SelectWithFits, DeselectSubjectsFits
  <1>3. \/ Turn(a, "prompt") \/ Turn(h, "prompt")
        \/ \E loc : Turn(To(h, loc), "loop")
    BY DEF SelectKeys
  <1> HIDE DEF a, h
  <1>4. CASE Turn(a, "prompt") \/ Turn(h, "prompt")
    BY <1>1, <1>2, <1>4, TurnFits
  <1>5. CASE \E loc : Turn(To(h, loc), "loop")
    BY <1>1, <1>2, <1>5, GoesFits
  <1> QED
    BY <1>3, <1>4, <1>5

LEMMA UnreadKeeps ==
  ASSUME IInv, Unread
  PROVE  IInv'
  <1> DEFINE n == g.target.art
             ns == OneWalk(g, Subj(n))
             h == UnkillThread(g, Subj(n))
             k == UnkillSub(g, n)
             a == [g EXCEPT !.unread = g.exists]
             r == Recounted(CountNorm(a))
  <1>1. group \in Groups /\ Fit(g)
    BY DEF IInv
  <1>2. Fit(h) /\ Fit(k)
    BY <1>1, UnkillThreadFits, UnkillSubFits
  <1>3. \/ Turn(IF ns = {} THEN [h EXCEPT !.target.art = None]
                ELSE To(h, At(FirstIn(ns))), "loop")
        \/ Turn(k, "loop")
        \/ Turn(r, "loop")
    BY DEF Unread
  <1>4. Fit(r)
    <2>1. Whole(a)
      <3>1. Frame(g, a) /\ a.unread = g.exists /\ a.sel = g.sel
        BY <1>1 DEF Fit, Whole, Fields, Frame
      <3> HIDE DEF a
      <3> QED
        BY <1>1, <3>1, FrameIs DEF Fit, Whole
    <2> HIDE DEF a
    <2>2. Whole(CountNorm(a)) /\ SelExact(CountNorm(a))
      BY <2>1, CountSubjectsIs, CountsIs DEF Counts
    <2> QED
      BY <1>1, <2>2, RecountedFits
  <1> HIDE DEF h, k, r
  <1>5. CASE Turn(IF ns = {} THEN [h EXCEPT !.target.art = None]
                  ELSE To(h, At(FirstIn(ns))), "loop")
    <2>1. Turn([h EXCEPT !.target.art = None], "loop") \/ Turn(To(h, At(FirstIn(ns))), "loop")
      BY <1>5
    <2>2. Fit([h EXCEPT !.target.art = None]) /\ Fit(To(h, At(FirstIn(ns))))
      BY <1>2, OthersFit, ToFirstFits
    <2> QED
      BY <1>1, <2>1, <2>2, TurnFits
  <1>6. CASE Turn(k, "loop") \/ Turn(r, "loop")
    BY <1>1, <1>2, <1>4, <1>6, TurnFits
  <1> QED
    BY <1>3, <1>5, <1>6

\* What is caught up with is read; the rest is counted again.
LEMMA CatchUpFits ==
  ASSUME group \in Groups, Fit(g), NEW leave \in 0..1
  PROVE  Fit(CatchUp(leave))
  <1> DEFINE gone == {n \in group.posted : n <= g.last - leave}
             h == [g EXCEPT !.unread = @ \ gone, !.sel = @ \ gone]
  <1>1. Frame(g, h) /\ h.unread = g.unread \ gone /\ h.sel = g.sel \ gone
    BY DEF Fit, Whole, Fields, Frame
  <1>2. leave = 0 => h.unread = {}
    <2>1. leave = 0 => gone = Here(g)
      BY DEF Here, Fit, Whole
    <2> HIDE DEF gone
    <2> QED
      BY <1>1, <2>1 DEF Fit, Whole
  <1> HIDE DEF gone
  <1>3. IsFiniteSet(h.sel)
    BY <1>1, FS_Difference DEF Fit, Whole
  <1>4. Whole(h)
    <2> HIDE DEF h
    <2>1. h.unread \subseteq Here(g)
      BY <1>1 DEF Fit, Whole
    <2> QED
      BY <1>1, <1>3, <2>1, FrameIs DEF Fit
  <1>5. CASE leave > 0
    <2>1. CatchUp(leave) = Recounted(CountNorm(h))
      BY <1>5 DEF CatchUp, gone
    <2> HIDE DEF h
    <2>2. Whole(CountNorm(h)) /\ SelExact(CountNorm(h))
      BY <1>4, CountSubjectsIs, CountsIs DEF Counts
    <2> QED
      BY <2>1, <2>2, RecountedFits
  <1>6. CASE leave = 0
    <2> DEFINE k == [h EXCEPT !.selCount = 0, !.selOnly = FALSE, !.toRead = 0]
    <2>1. CatchUp(leave) = YankBack(k)
      BY <1>6 DEF CatchUp, gone
    <2> HIDE DEF h
    <2>2. Frame(h, k) /\ k.unread = {} /\ k.sel = h.sel /\ k.selCount = 0 /\ k.toRead = 0
      BY <1>2, <1>4, <1>6 DEF Whole, Fields, Frame
    <2> HIDE DEF k
    <2>3. Whole(k)
      BY <1>3, <1>4, <2>2, FrameIs
    <2>4. Cardinality(k.unread) = 0 /\ Cardinality(k.sel) \in Nat /\ Cardinality(Gone(k)) \in Nat
      BY <1>3, <2>2, FS_EmptySet, FS_CardinalityType, GoneIsFinite
    <2>5. ReadExact(k) /\ SelExact(k)
      BY <2>2, <2>4 DEF ReadExact, SelExact
    <2> QED
      BY <2>1, <2>3, <2>5, YankBackFits DEF Fit
  <1> QED
    BY <1>5, <1>6

LEMMA CatchUpAllKeeps ==
  ASSUME IInv, CatchUpAll
  PROVE  IInv'
  <1>1. group \in Groups /\ Fit(g)
    BY DEF IInv
  <1>2. PICK leave \in 0..1 :
          \/ Turn([To(CatchUp(leave), End(g)) EXCEPT !.force = FALSE], "loop")
          \/ Turn(CatchUp(leave), "left")
    BY DEF CatchUpAll
  <1> DEFINE h == [To(CatchUp(leave), End(g)) EXCEPT !.force = FALSE]
  <1>3. Fit(CatchUp(leave)) /\ Fit(h)
    BY <1>1, CatchUpFits, ThereFits
  <1>4. Turn(h, "loop") \/ Turn(CatchUp(leave), "left")
    BY <1>2
  <1> HIDE DEF h
  <1> QED
    BY <1>1, <1>3, <1>4, TurnFits

LEMMA FromTopKeeps ==
  ASSUME IInv, FromTop
  PROVE  IInv'
  <1> DEFINE y == YankBack(g)
             f == ToFirst(g)
             k == [f EXCEPT !.search = FALSE]
  <1>1. group \in Groups /\ Fit(g)
    BY DEF IInv
  <1>2. Fit(y) /\ Fit(f)
    BY <1>1, YankBackFits, ToFirstFits
  <1>3. Turn(ToFirst(y), "loop") \/ Turn(k, "loop")
    BY DEF FromTop
  <1> HIDE DEF y, f
  <1>4. Fit(ToFirst(y)) /\ Fit(k)
    BY <1>2, ToFirstFits, OthersFit
  <1> HIDE DEF k
  <1> QED
    BY <1>1, <1>3, <1>4, TurnFits

LEMMA OthersKeep ==
  ASSUME IInv, Others
  PROVE  IInv'
  <1> DEFINE a == [g EXCEPT !.grow = TRUE]
             b == [g EXCEPT !.reread = ~PastEnd(g), !.force = @ \/ PastEnd(g)]
             c == [g EXCEPT !.reread = ~PastEnd(g)]
  <1>1. group \in Groups /\ Fit(g)
    BY DEF IInv
  <1>2. Fit(a) /\ Fit(b) /\ Fit(c)
    BY <1>1, OthersFit, SeveralFit
  <1>3. \/ Turn(g, "prompt") \/ Turn(g, "left")
        \/ Turn(a, "prompt") \/ Turn(b, "loop") \/ Turn(c, "loop")
    BY DEF Others
  <1> HIDE DEF a, b, c
  <1> QED
    BY <1>1, <1>2, <1>3, TurnFits

LEMMA TreeClickKeeps ==
  ASSUME IInv, TreeClick
  PROVE  IInv'
  <1>1. group \in Groups /\ Fit(g)
    BY DEF IInv
  <1>2. PICK n : \/ Turn([To(g, At(n)) EXCEPT !.reread = TRUE], "loop")
                 \/ Turn([SelectSub(g, n) EXCEPT !.reread = TRUE], "loop")
                 \/ Turn([KillSub(g, n) EXCEPT !.reread = TRUE], "loop")
    BY DEF TreeClick
  <1>3. CASE Turn([To(g, At(n)) EXCEPT !.reread = TRUE], "loop")
    BY <1>1, <1>3, RereadKeeps
  <1>4. ASSUME NEW h, Fit(h), Turn([h EXCEPT !.reread = TRUE], "loop")
        PROVE  IInv'
    <2>1. Fit([h EXCEPT !.reread = TRUE])
      BY <1>4, OthersFit
    <2> QED
      BY <1>1, <1>4, <2>1, TurnFits
  <1>5. Fit(SelectSub(g, n)) /\ Fit(KillSub(g, n))
    BY <1>1, SelectSubFits, KillsFit
  <1> QED
    BY <1>2, <1>3, <1>4, <1>5

LEMMA OrderFits ==
  ASSUME NEW h, Fit(h), NEW x, Len(x) \in Nat, NEW y, NEW z
  PROVE  /\ Fit([h EXCEPT !.order = x])
         /\ Fit([h EXCEPT !.selOnly = y, !.search = z, !.order = x])
  <1>1. ASSUME NEW k, DOMAIN k = Fields, k.last = h.last, k.exists = h.exists,
               k.current = h.current, k.unread = h.unread, k.toRead = h.toRead,
               k.sel = h.sel, k.selCount = h.selCount, k.order = x
        PROVE  Fit(k)
    <2>1. Here(k) = Here(h) /\ Gone(k) = Gone(h)
      BY <1>1 DEF Here, Gone
    <2>2. Whole(k)
      BY <1>1, <2>1 DEF Fit, Whole, Placed
    <2>3. ReadExact(k) /\ SelExact(k)
      BY <1>1, <2>1 DEF Fit, ReadExact, SelExact
    <2> QED
      BY <2>2, <2>3 DEF Fit
  <1>2. Fit([h EXCEPT !.order = x])
    <2> DEFINE k == [h EXCEPT !.order = x]
    <2>1. /\ DOMAIN k = Fields /\ k.last = h.last /\ k.exists = h.exists
          /\ k.current = h.current /\ k.unread = h.unread /\ k.toRead = h.toRead
          /\ k.sel = h.sel /\ k.selCount = h.selCount /\ k.order = x
      BY DEF Fit, Whole, Fields
    <2> HIDE DEF k
    <2>2. Fit(k)
      BY <2>1, <1>1
    <2> QED
      BY <2>2 DEF k
  <1>3. Fit([h EXCEPT !.selOnly = y, !.search = z, !.order = x])
    <2> DEFINE k == [h EXCEPT !.selOnly = y, !.search = z, !.order = x]
    <2>1. /\ DOMAIN k = Fields /\ k.last = h.last /\ k.exists = h.exists
          /\ k.current = h.current /\ k.unread = h.unread /\ k.toRead = h.toRead
          /\ k.sel = h.sel /\ k.selCount = h.selCount /\ k.order = x
      BY DEF Fit, Whole, Fields
    <2> HIDE DEF k
    <2>2. Fit(k)
      BY <2>1, <1>1
    <2> QED
      BY <2>2 DEF k
  <1> QED
    BY <1>2, <1>3

LEMMA SortedIfFits ==
  ASSUME NEW h, Fit(h), NEW byArticle, NEW ns, IsFiniteSet(ns)
  PROVE  Fit(SortedIf(h, byArticle, ns))
  <1> DEFINE x == IF byArticle THEN Ascending(ns) ELSE << >>
  <1>1. Len(x) \in Nat
    <2>1. Len(Ascending(ns)) \in Nat
      BY SortedIs
    <2>2. Len(<< >>) \in Nat
      OBVIOUS
    <2> QED
      BY <2>1, <2>2
  <1>2. SortedIf(h, byArticle, ns) = [h EXCEPT !.order = x]
    BY DEF SortedIf
  <1> HIDE DEF x
  <1>3. Fit([h EXCEPT !.selOnly = FALSE, !.search = "", !.order = x])
        /\ Fit([h EXCEPT !.order = x])
    BY <1>1, OrderFits
  <1> QED
    BY <1>2, <1>3

LEMMA OutOfSelectorFits ==
  ASSUME NEW h, Fit(h), NEW before, NEW back, NEW byArticle
  PROVE  Fit(OutOfSelector(h, before, back, byArticle))
  <1> DEFINE only == IF back THEN before.selOnly ELSE h.selCount # 0
             search == ~byArticle /\ (h.search \/ ~group.threaded)
             order == IF byArticle THEN h.order ELSE << >>
             way == [h EXCEPT !.selOnly = IF back THEN before.selOnly ELSE h.selCount # 0,
                              !.search = ~byArticle /\ (@ \/ ~group.threaded),
                              !.order = IF byArticle THEN @ ELSE << >>]
  <1>1. Fit(way)
    <2>1. Len(order) \in Nat
      <3>1. Len(h.order) \in Nat /\ Len(<< >>) \in Nat
        BY DEF Fit, Whole
      <3> QED
        BY <3>1
    <2>2. way = [h EXCEPT !.selOnly = only, !.search = search, !.order = order]
      BY DEF Fit, Whole, Fields
    <2> HIDE DEF only, search, order, way
    <2>3. Fit([h EXCEPT !.selOnly = only, !.search = search, !.order = order])
      BY <2>1, OrderFits
    <2> QED
      BY <2>2, <2>3
  <1>2. OutOfSelector(h, before, back, byArticle) =
          IF back THEN Restore(CountReselect(way, before.visit))
          ELSE ToFirst(CountUnselect(way))
    BY DEF OutOfSelector
  <1> HIDE DEF way
  <1>3. Fit(CountReselect(way, before.visit)) /\ Fit(CountUnselect(way))
    BY <1>1, CountSubjectsIs, CountsIs DEF Fit
  <1> QED
    BY <1>2, <1>3, ToFirstFits

LEMMA FromSelectorKeeps ==
  ASSUME group \in Groups, NEW h, Fit(h), NEW back, FromSelector(h, back)
  PROVE  IInv'
  <1>1. PICK to \in {"prompt", "loop", "left"} : Turn(h, to)
    BY DEF FromSelector
  <1> QED
    BY <1>1, TurnFits

LEMMA ToSelectorFits ==
  ASSUME group \in Groups, NEW h, Fit(h)
  PROVE  Fit(ToSelector(h))
  <1> DEFINE t == To(h, End(h))
             k == [t EXCEPT !.selOnly = TRUE]
  <1>1. Fit(t)
    BY ToFirstFits
  <1>2. ToSelector(h) = CountUnselStore(k)
    BY DEF ToSelector
  <1> HIDE DEF t
  <1>3. Fit(k)
    BY <1>1, OthersFit
  <1> HIDE DEF k
  <1> QED
    BY <1>2, <1>3, CountSubjectsIs, CountsIs DEF Fit

LEMMA SelectKeeps ==
  ASSUME IInv, Select
  PROVE  IInv'
  <1>1. group \in Groups /\ Fit(g)
    BY DEF IInv
  <1>2. PICK back, byArticle, ss, dead :
          FromSelector(OutOfSelector(SortedIf(Chosen(ToSelector(g), ss, dead), byArticle, g.unread),
                                     g, back, byArticle), back)
    BY Zenon DEF Select
  <1> DEFINE c == Chosen(ToSelector(g), ss, dead)
             h == SortedIf(c, byArticle, g.unread)
             k == OutOfSelector(h, g, back, byArticle)
  <1>3. Fit(c)
    BY <1>1, ToSelectorFits, ChosenFits
  <1> HIDE DEF c
  <1>4. IsFiniteSet(g.unread)
    BY <1>1, HereIsFinite DEF Fit, Whole
  <1>5. Fit(h)
    BY <1>3, <1>4, SortedIfFits
  <1> HIDE DEF h
  <1>6. Fit(k)
    BY <1>5, OutOfSelectorFits
  <1>7. FromSelector(k, back)
    BY <1>2 DEF h, c
  <1> HIDE DEF k
  <1> QED
    BY <1>1, <1>6, <1>7, FromSelectorKeeps

LEMMA SelectNoneKeeps ==
  ASSUME IInv, SelectNone
  PROVE  IInv'
  <1> DEFINE t == ToSelector(g)
             k == OutOfSelector(t, g, FALSE, FALSE)
  <1>1. group \in Groups /\ Fit(g)
    BY DEF IInv
  <1>2. Fit(t)
    BY <1>1, ToSelectorFits
  <1>3. FromSelector(k, FALSE)
    BY Zenon DEF SelectNone
  <1> HIDE DEF t
  <1>4. Fit(k)
    BY <1>2, OutOfSelectorFits
  <1> HIDE DEF k
  <1> QED
    BY <1>1, <1>3, <1>4, FromSelectorKeeps

LEMMA SelectReadKeeps ==
  ASSUME IInv, SelectRead
  PROVE  IInv'
  <1> DEFINE t == To(g, End(g))
             z == [t EXCEPT !.selOnly = TRUE, !.visit = {}, !.selCount = 0]
  <1>1. group \in Groups /\ Fit(g)
    BY DEF IInv
  <1>2. PICK back, byArticle, ss :
          \E h \in {Unkilled(z, ss)} :
            FromSelector(OutOfSelector(SortedIf(h, byArticle, h.unread), g, back, byArticle), back)
    BY Zenon DEF SelectRead
  <1>3. Fit(t)
    BY <1>1, ToFirstFits
  <1> HIDE DEF t
  <1>4. Fit(z) /\ z.selCount = 0
    <2>1. /\ Frame(t, z) /\ z.unread = t.unread /\ z.toRead = t.toRead
          /\ z.sel = t.sel /\ z.selCount = 0
      BY <1>3 DEF Fit, Whole, Fields, Frame
    <2> HIDE DEF z
    <2>2. IsFiniteSet(z.sel) /\ Cardinality(z.sel) \in Nat
      BY <1>3, <2>1, FS_CardinalityType DEF Fit, Whole
    <2>3. Keeps(t, z) /\ SelExact(z)
      BY <2>1, <2>2 DEF Keeps, SelExact
    <2> QED
      BY <1>3, <2>1, <2>3, KeepsFit DEF Fit
  <1> HIDE DEF z
  <1> DEFINE h == Unkilled(z, ss)
             s == SortedIf(h, byArticle, h.unread)
             k == OutOfSelector(s, g, back, byArticle)
  <1>5. FromSelector(k, back)
    BY <1>2
  <1>6. Fit(h)
    BY <1>1, <1>4, UnkilledFits
  <1> HIDE DEF h
  <1>7. IsFiniteSet(h.unread)
    BY <1>1, <1>6, HereIsFinite DEF Fit, Whole
  <1>8. Fit(s)
    BY <1>6, <1>7, SortedIfFits
  <1> HIDE DEF s
  <1>9. Fit(k)
    BY <1>8, OutOfSelectorFits
  <1> HIDE DEF k
  <1> QED
    BY <1>1, <1>5, <1>9, FromSelectorKeeps

-------------------------------------------------------------------------------
(* The loop.                                                               *)

LEMMA InitIsFit == Init => IInv
  <1> SUFFICES ASSUME Init PROVE IInv
    OBVIOUS
  <1> DEFINE here == {n \in group.posted : n <= group.last}
             loc == [num |-> group.last + 1, art |-> None]
             start(u) ==
               [exists |-> here, unread |-> u, sel |-> {}, yank |-> {}, visit |-> {},
                ssel |-> {}, misc |-> {}, selCount |-> 0, selOnly |-> FALSE,
                toRead |-> Cardinality(u), first |-> 1, last |-> group.last,
                target |-> loc, current |-> loc, recent |-> loc,
                reread |-> FALSE, force |-> TRUE, grow |-> FALSE, search |-> FALSE,
                order |-> << >>]
  <1>1. group \in Groups /\ pc = "loop"
    BY DEF Init
  <1>2. PICK u \in SUBSET here : g = ToFirst(CountNorm(start(u)))
    BY Zenon DEF Init
  <1> DEFINE h == start(u)
  <1>3. /\ DOMAIN h = Fields /\ h.last = group.last /\ h.exists = here /\ h.unread = u
        /\ h.sel = {} /\ h.selCount = 0 /\ h.toRead = Cardinality(u)
        /\ h.current = loc /\ h.order = << >>
    BY DEF Fields
  <1>4. g = ToFirst(CountNorm(h))
    BY <1>2
  <1> HIDE DEF h
  <1>5. Here(h) = here /\ u \subseteq Here(h)
    BY <1>2, <1>3 DEF Here
  <1>6. Whole(h)
    <2>1. group.last \in Nat
      BY <1>1, GroupsAssumption
    <2>2. Len(<< >>) \in Nat /\ IsFiniteSet({})
      BY FS_EmptySet
    <2>3. Placed(h, h.current)
      BY <1>3 DEF Placed
    <2> QED
      BY <1>3, <1>5, <2>1, <2>2, <2>3 DEF Whole
  <1>7. ReadExact(h) /\ SelExact(h)
    <2>1. Cardinality(u) \in Nat /\ Cardinality(Gone(h)) \in Nat /\ Cardinality({}) = 0
      BY <1>1, <1>5, HereIsFinite, GoneIsFinite, FS_EmptySet
    <2> QED
      BY <1>3, <2>1 DEF ReadExact, SelExact
  <1>8. Fit(CountNorm(h))
    BY <1>6, <1>7, CountSubjectsIs, CountsIs
  <1> QED
    BY <1>1, <1>4, <1>8, ToFirstFits DEF IInv

LEMMA StepKeeps == IInv /\ [Next]_vars => IInv'
  <1> SUFFICES ASSUME IInv, [Next]_vars PROVE IInv'
    OBVIOUS
  <1>1. CASE Show(TRUE) \/ Show(FALSE)
    BY <1>1, ShowKeeps
  <1>2. CASE EndArticle \/ Raise \/ SelectNone \/ Others
    BY <1>2, EndArticleKeeps, RaiseKeeps, SelectNoneKeeps, OthersKeep
  <1>3. CASE Default \/ Forward
    <2>1. NextUnread \/ NextArticle \/ NextOfSubject
      BY <1>3 DEF Default, Forward
    <2> QED
      BY <2>1, NextUnreadKeeps, NextArticleKeeps, OfSubjectKeeps
  <1>4. CASE Moves
    <2>1. CASE Forward \/ Ctrl_P
      <3>1. NextUnread \/ NextArticle \/ NextOfSubject \/ PrevOfSubject
        BY <2>1 DEF Forward, Ctrl_P
      <3> QED
        BY <3>1, NextUnreadKeeps, NextArticleKeeps, OfSubjectKeeps
    <2>2. CASE NextSubject \/ Relative \/ PrevUnread \/ PrevArticle \/ Recent
      BY <2>2, NextSubjectKeeps, RelativeKeeps, PrevUnreadKeeps, PrevArticleKeeps, RecentKeeps
    <2>3. CASE Number \/ Search \/ Adjacent \/ FromTop \/ TreeClick
      BY <2>3, NumberKeeps, SearchKeeps, AdjacentKeeps, FromTopKeeps, TreeClickKeeps
    <2> QED
      BY <1>4, <2>1, <2>2, <2>3 DEF Moves
  <1>5. CASE Changes
    <2>1. CASE Ranges \/ Colon \/ MarkArticle \/ Kill \/ KillForNow \/ Memorize
      BY <2>1, RangesKeep, ColonKeeps, MarkArticleKeeps, KillKeeps, KillForNowKeeps, MemorizeKeeps
    <2>2. CASE SelectKeys \/ Unread \/ CatchUpAll \/ Select \/ SelectRead
      BY <2>2, SelectKeysKeep, UnreadKeeps, CatchUpAllKeeps, SelectKeeps, SelectReadKeeps
    <2> QED
      BY <1>5, <2>1, <2>2 DEF Changes
  <1>6. CASE UNCHANGED vars
    BY <1>6 DEF vars, IInv, Fit, Whole, ReadExact, SelExact, Placed, Here, Gone
  <1> QED
    BY <1>1, <1>2, <1>3, <1>4, <1>5, <1>6 DEF Next

\* In a group of any size, and after any number of commands, arrivals and
\* articles that went away, the number of articles to read and the number of the
\* selected ones agree with the flags of the articles: what do_newsgroup asks to
\* see whether the group is left is right.
THEOREM LoopCountsStayRight == Spec => []CountsAgree
  <1>1. IInv => CountsAgree
    <2> SUFFICES ASSUME IInv PROVE CountsAgree
      OBVIOUS
    <2>1. group \in Groups /\ Fit(g)
      BY DEF IInv
    <2>2. Cardinality(g.unread) \in Nat /\ Cardinality(Gone(g)) \in Nat
      BY <2>1, HereIsFinite, GoneIsFinite DEF Fit, Whole
    <2> QED
      BY <2>1, <2>2 DEF CountsAgree, Fit, ReadExact, SelExact
  <1> QED
    BY <1>1, InitIsFit, StepKeeps, PTL DEF Spec

-------------------------------------------------------------------------------
(* The end of the group: the next command finds what is left to read.      *)

LEMMA LeastIs ==
  ASSUME NEW T \in SUBSET Nat, T # {}
  PROVE  Least(T) \in T /\ \A n \in T : Least(T) <= n
  <1>1. \E m \in T : \A n \in T : m <= n
    BY LeastOf
  <1> QED
    BY <1>1 DEF Least

LEMMA FirstInIs ==
  ASSUME group \in Groups, NEW S, S \subseteq Nodes, S # {}
  PROVE  FirstIn(S) \in S
  <1> DEFINE P == {Pos(n) : n \in S}
  <1>1. P \in SUBSET Nat /\ P # {}
    BY GroupsAssumption DEF Nodes, Pos
  <1>2. PICK p \in P : \A q \in P : p <= q
    <2> HIDE DEF P
    <2> QED
      BY <1>1, LeastOf
  <1>3. PICK n \in S : Pos(n) = p
    OBVIOUS
  <1>4. \A m \in S : Pos(n) <= Pos(m)
    BY <1>2, <1>3
  <1> QED
    BY <1>4 DEF FirstIn

\* What the recount at the end knows: the subjects it visits, the first article
\* to read, and a selected one if it counted any.
Full(k) == {s \in Subjects(k) : Counted(k, s) # {}}
Left(k) == UNION {Counted(k, s) : s \in Full(k)}
Ready(k) ==
  /\ DOMAIN k = Fields
  /\ k.last \in Nat
  /\ k.exists \subseteq Here(k)
  /\ {s \in Full(k) : k.selOnly => s \in k.ssel} \subseteq k.visit
  /\ k.first = IF Left(k) = {} THEN k.last + 1 ELSE Least(Left(k))
  /\ k.selOnly /\ k.selCount > 0 =>
       \E n \in (k.exists \cap k.unread) \cap k.sel : Subj(n) \in k.ssel

LEMMA LeftIs ==
  ASSUME group \in Groups, NEW k, k.last \in Nat, k.exists \subseteq Here(k)
  PROVE  /\ \A n \in k.exists : Subj(n) \in Subjects(k)
         /\ \A n \in k.exists \cap k.unread : Subj(n) \in Full(k) /\ n \in Left(k)
         /\ Left(k) \subseteq k.exists
  <1>1. ASSUME NEW n \in k.exists
        PROVE  Subj(n) \in Subjects(k)
    <2>1. n \in Nodes /\ NumOf(n) <= k.last
      BY <1>1 DEF Nodes, NumOf, Here
    <2> QED
      BY <2>1 DEF Subjects, Arrived
  <1>2. ASSUME NEW n \in k.exists \cap k.unread
        PROVE  Subj(n) \in Full(k) /\ n \in Left(k)
    <2>1. n \in Counted(k, Subj(n)) /\ Subj(n) \in Subjects(k)
      BY <1>1 DEF Counted, Listed
    <2> QED
      BY <2>1 DEF Full, Left
  <1>3. Left(k) \subseteq k.exists
    BY DEF Left, Counted, Listed
  <1> QED
    BY <1>1, <1>2, <1>3

\* An article that is to be read, of a subject that is visited, is found.
LEMMA Reaches ==
  ASSUME group \in Groups, NEW k, Ready(k), k.order = << >>, k.search = FALSE,
         NEW n \in k.exists \cap k.unread,
         k.selOnly => n \in k.sel /\ Subj(n) \in k.ssel
  PROVE  ~PastEnd(ToFirst(k))
  <1> DEFINE e == To(k, End(k))
             loc == NextLoc(e, k.selOnly, FALSE)
  <1>1. /\ DOMAIN e = Fields /\ e.target = End(k) /\ e.exists = k.exists
        /\ e.unread = k.unread /\ e.sel = k.sel /\ e.visit = k.visit
        /\ e.order = k.order /\ e.search = k.search /\ e.last = k.last /\ e.first = k.first
    BY DEF To, Ready, Fields
  <1>2. PastEnd(ToFirst(k)) <=> loc.num > k.last
    <2>1. ToFirst(k) = To(k, loc)
      BY DEF ToFirst
    <2> HIDE DEF loc
    <2>2. To(k, loc).target = loc /\ To(k, loc).last = k.last
      BY DEF To, Ready, Fields
    <2> QED
      BY <2>1, <2>2 DEF PastEnd
  <1>3. \A m \in Here(k) : NumOf(m) <= k.last
    BY DEF NumOf, Here, Ready
  <1>4. ASSUME NEW m \in Here(k), loc = At(m)
        PROVE  ~(loc.num > k.last)
    <2> HIDE DEF loc
    <2>1. loc.num = NumOf(m)
      BY <1>4 DEF At
    <2>2. NumOf(m) \in Nat /\ k.last \in Nat
      BY GroupsAssumption DEF NumOf, Here, Ready
    <2> QED
      BY <1>3, <2>1, <2>2
  <1>5. Wanted(e, k.selOnly, FALSE, n) /\ n \in Here(k) /\ Here(k) \subseteq Nodes
    BY <1>1 DEF Wanted, Ready, Here, Nodes
  <1>6. Subj(n) \in k.visit /\ Subj(n) \in Subjects(k) /\ n \in Left(k)
    BY LeftIs DEF Ready
  <1>7. End(k).art = None
    BY DEF End
  <1>8. CASE ByWalk(e, None, FALSE)
    <2> DEFINE found(s) == {m \in OneWalk(e, s) : Wanted(e, k.selOnly, FALSE, m)}
               later == {s \in Visited(e, FALSE) :
                           /\ None # None => s > Subj(None) /\ OtherWalk(Subj(None), s)
                           /\ found(s) # {}}
    <2>1. loc = NextByWalk(e, None, k.selOnly, FALSE)
      BY <1>1, <1>7, <1>8 DEF NextLoc
    <2>2. loc = IF later # {} THEN At(FirstIn(found(Least(later)))) ELSE End(e)
      BY <2>1, Zenon DEF NextByWalk
    <2>3. n \in OneWalk(e, Subj(n))
      <3>1. Subjects(e) = Subjects(k)
        BY <1>1 DEF Subjects, Arrived
      <3>2. Subj(n) \in InThread(e, Subj(n))
        BY <1>6, <3>1 DEF InThread
      <3> QED
        BY <1>1, <3>2 DEF OneWalk, Listed
    <2>4. Subj(n) \in later
      <3>1. Subjects(e) = Subjects(k)
        BY <1>1 DEF Subjects, Arrived
      <3>2. Subj(n) \in Visited(e, FALSE)
        BY <1>1, <1>6, <3>1 DEF Visited
      <3>3. n \in found(Subj(n))
        BY <1>5, <2>3
      <3> QED
        BY <3>2, <3>3
    <2>5. later \in SUBSET Nat
      BY <1>1, GroupsAssumption DEF Visited, Subjects, Arrived, Nodes, Subj
    <2>6. Least(later) \in later
      <3> HIDE DEF later
      <3> QED
        BY <2>4, <2>5, LeastIs
    <2>7. found(Least(later)) # {} /\ found(Least(later)) \subseteq Here(k)
      <3>1. \A s : found(s) \subseteq Here(k)
        BY <1>1 DEF OneWalk, Listed, Ready
      <3> QED
        BY <2>6, <3>1
    <2> HIDE DEF found, loc
    <2>8. FirstIn(found(Least(later))) \in Here(k)
      BY <1>5, <2>7, FirstInIs
    <2>9. loc = At(FirstIn(found(Least(later))))
      BY <2>2, <2>4
    <2> QED
      BY <1>2, <1>4, <2>8, <2>9 DEF loc
  <1>9. CASE ~ByWalk(e, None, FALSE)
    <2> DEFINE rest == {m \in e.exists : m > k.first - 1 /\ Wanted(e, k.selOnly, FALSE, m)}
    <2>1. loc = NextByNumber(e, k.first - 1, k.selOnly, FALSE)
      BY <1>1, <1>7, <1>9 DEF NextLoc
    <2>2. loc = IF rest = {} THEN End(e) ELSE At(Least(rest))
      BY <2>1 DEF NextByNumber
    <2>3. Left(k) \in SUBSET Nat /\ k.exists \in SUBSET Nat
      BY LeftIs, GroupsAssumption DEF Ready, Here
    <2>4. k.first = Least(Left(k)) /\ Least(Left(k)) \in Left(k) /\ Least(Left(k)) <= n
      BY <1>6, <2>3, LeastIs DEF Ready
    <2>5. n > k.first - 1
      BY <2>3, <2>4
    <2>6. n \in rest
      BY <1>1, <1>5, <2>5
    <2>7. rest \in SUBSET Nat /\ rest \subseteq Here(k)
      BY <1>1, <2>3 DEF Ready
    <2> HIDE DEF rest, loc
    <2>8. Least(rest) \in Here(k)
      BY <2>6, <2>7, LeastIs
    <2>9. loc = At(Least(rest))
      BY <2>2, <2>6
    <2> QED
      BY <1>2, <1>4, <2>8, <2>9 DEF loc
  <1> QED
    BY <1>8, <1>9

LEMMA RetainIs ==
  ASSUME NEW h, Whole(h)
  PROVE  Ready(CountRetain(h))
  <1> DEFINE k == CountRetain(h)
             full == {s \in Subjects(h) : Counted(h, s) # {}}
             all == UNION {Counted(h, s) : s \in full}
             chosen == (UNION {Counted(h, s) : s \in Selected(h)}) \cap h.sel
  <1>1. /\ DOMAIN k = Fields /\ k.last = h.last /\ k.exists = h.exists
        /\ k.unread = h.unread /\ k.sel = h.sel /\ k.ssel = h.ssel /\ k.selOnly = h.selOnly
        /\ k.visit = h.visit \cup {s \in full : h.selOnly => s \in h.ssel}
        /\ k.selCount = Cardinality(chosen)
        /\ k.first = IF all = {} THEN h.last + 1 ELSE Least(all)
    BY DEF CountRetain, CountWith, Whole, Fields
  <1> HIDE DEF k
  <1>2. Subjects(k) = Subjects(h) /\ \A s : Counted(k, s) = Counted(h, s)
    BY <1>1 DEF Subjects, Arrived, Counted, Listed
  <1>3. Full(k) = full /\ Left(k) = all
    BY <1>2 DEF Full, Left
  <1>4. Here(k) = Here(h)
    BY <1>1 DEF Here
  <1>5. ASSUME k.selCount > 0
        PROVE  \E n \in (k.exists \cap k.unread) \cap k.sel : Subj(n) \in k.ssel
    <2>1. chosen # {}
      <3>1. k.selCount = Cardinality(chosen)
        BY <1>1
      <3> HIDE DEF chosen
      <3>2. Cardinality({}) = 0
        BY FS_EmptySet
      <3> QED
        BY <1>5, <3>1, <3>2
    <2>2. PICK n \in chosen : TRUE
      BY <2>1
    <2>3. n \in h.sel /\ \E s \in h.ssel : n \in Counted(h, s)
      BY <2>2 DEF Selected
    <2> QED
      BY <1>1, <2>3 DEF Counted, Listed
  <1> HIDE DEF full, all, chosen
  <1>6. Ready(k)
    BY <1>1, <1>3, <1>4, <1>5 DEF Ready, Whole
  <1> QED
    BY <1>6 DEF k

\* What Ready looks at.
SameLeft(h, k) ==
  /\ DOMAIN k = Fields
  /\ k.last = h.last /\ k.exists = h.exists /\ k.unread = h.unread /\ k.sel = h.sel
  /\ k.visit = h.visit /\ k.ssel = h.ssel /\ k.selOnly = h.selOnly
  /\ k.selCount = h.selCount /\ k.first = h.first

LEMMA ReadyStays ==
  ASSUME NEW h, Ready(h), NEW k, SameLeft(h, k)
  PROVE  Ready(k)
  <1>1. Subjects(k) = Subjects(h) /\ \A s : Counted(k, s) = Counted(h, s)
    BY DEF Subjects, Arrived, Counted, Listed, SameLeft
  <1>2. Full(k) = Full(h) /\ Left(k) = Left(h)
    BY <1>1 DEF Full, Left
  <1>3. Here(k) = Here(h)
    BY DEF Here, SameLeft
  <1> QED
    BY <1>2, <1>3 DEF Ready, SameLeft

\* At the end of the group the prompt comes after the recount, and with nothing
\* to search for.
Prompted == Ready(g) /\ g.search = FALSE

LEMMA AtTheEndPrompts ==
  ASSUME NEW h, Fit(h), AtTheEnd(h), pc' = "prompt"
  PROVE  Prompted'
  <1>1. ~OnlySelected(h)
    BY DEF AtTheEnd, Turn
  <1> DEFINE e == To(h, End(h))
             c == CountRetain(e)
             r == Recounted(c)
             k == Commit(r)
             q == Ask([k EXCEPT !.search = FALSE])
  <1>2. g' = q /\ group' = group
    <2>1. IF k.toRead = 0 /\ ~k.force THEN Turn(k, "left")
          ELSE Turn([k EXCEPT !.search = FALSE], "prompt")
      BY <1>1 DEF AtTheEnd
    <2> HIDE DEF k
    <2> QED
      BY <2>1 DEF Turn
  <1>3. Whole(e)
    BY ToFirstFits DEF Fit
  <1> HIDE DEF e
  <1>4. Ready(c) /\ DOMAIN c = Fields
    BY <1>3, RetainIs DEF Ready
  <1> HIDE DEF c
  <1>5. SameLeft(c, r)
    BY <1>4 DEF Recounted, SameLeft, Fields
  <1> HIDE DEF r
  <1>6. SameLeft(r, k)
    BY <1>5 DEF Commit, SameLeft, Fields
  <1> HIDE DEF k
  <1>7. SameLeft(k, q) /\ q.search = FALSE
    BY <1>6 DEF Ask, Restore, To, SameLeft, Fields
  <1> HIDE DEF q
  <1>8. Ready(q)
    BY <1>4, <1>5, <1>6, <1>7, ReadyStays
  <1>9. Subjects(g)' = Subjects(g') /\ \A s : Counted(g, s)' = Counted(g', s)
    BY <1>2 DEF Subjects, Arrived, Nodes, NumOf, Counted, Listed, Subj
  <1>10. Full(g)' = Full(g') /\ Left(g)' = Left(g')
    BY <1>9 DEF Full, Left
  <1>11. Here(g)' = Here(g')
    BY <1>2 DEF Here
  <1>12. Ready(g)'
    BY <1>2, <1>8, <1>10, <1>11 DEF Ready, Subj
  <1> QED
    BY <1>2, <1>7, <1>12 DEF Prompted

\* An article that is not to be had was at most the last one.
LEMMA UnavailableIsNotTheEnd ==
  ASSUME group \in Groups, NEW h, Fit(h), h.current = h.target, ~PastEnd(h), Unavailable(h)
  PROVE  ~PastEnd(g)'
  <1> DEFINE k == [h EXCEPT !.search = FALSE]
             r == ShownRead(k)
  <1>1. g' = Ask(r)
    BY DEF Unavailable, Turn
  <1>2. DOMAIN k = Fields /\ k.last = h.last /\ k.current = h.current
    BY DEF Fit, Whole, Fields
  <1> HIDE DEF k
  <1>3. DOMAIN r = Fields /\ r.last = h.last /\ r.current = h.current
    BY <1>2 DEF ShownRead, Less, Fields
  <1> HIDE DEF r
  <1>4. g'.target = h.target /\ g'.last = h.last
    BY <1>1, <1>3 DEF Ask, Restore, To, Fields
  <1> QED
    BY <1>4 DEF PastEnd

LEMMA CommitIs ==
  ASSUME NEW h, Fit(h)
  PROVE  /\ DOMAIN Commit(h) = Fields /\ Commit(h).last = h.last
         /\ Commit(h).target = h.target /\ Commit(h).current = h.target
  BY DEF Commit, Fit, Whole, Fields

LEMMA LostIs ==
  ASSUME NEW h, DOMAIN h = Fields, NEW n
  PROVE  Lost(h, n).last = h.last /\ Lost(h, n).target = h.target
           /\ Lost(h, n).current = h.current
  <1> DEFINE l == Less(h, {n})
  <1>1. /\ DOMAIN l = Fields /\ l.last = h.last /\ l.target = h.target
        /\ l.current = h.current
    BY DEF Less, Fields
  <1>2. Lost(h, n) = [l EXCEPT !.exists = @ \ {n}, !.yank = @ \ {n}]
    BY DEF Lost
  <1> HIDE DEF l
  <1> QED
    BY <1>1, <1>2 DEF Fields

LEMMA ShowPrompts ==
  ASSUME IInv, NEW gone, Show(gone), pc' = "prompt", PastEnd(g)'
  PROVE  Prompted'
  <1>1. group \in Groups /\ Fit(g)
    BY DEF IInv
  <1>2. PICK grown \in Growths(g) : \E k \in {Found(grown)} :
          LET n == k.target.art IN
          IF PastEnd(k) THEN AtTheEnd(k)
          ELSE IF Skipped(k) THEN Turn(To(k, NextLoc(k, k.selOnly, FALSE)), "loop")
          ELSE IF ~k.reread /\ gone THEN Skip(Lost(k, n))
          ELSE IF ~k.reread /\ n \notin k.exists THEN Skip(Less(k, {n}))
          ELSE IF gone THEN Unavailable(Lost(Commit(k), n))
          ELSE IF n \notin k.exists THEN Unavailable(Commit(k))
          ELSE Turn(Commit(k), "more")
    BY DEF Show
  <1> DEFINE h == Found(grown)
             n == h.target.art
             c == Commit(h)
             l == Lost(c, n)
  <1>3. Fit(grown)
    BY <1>1, GrowthsFit
  <1>4. Fit(h) /\ Placed(h, h.target)
    BY <1>1, <1>3, FoundFits
  <1>5. \/ AtTheEnd(h)
        \/ ~PastEnd(h) /\ (Unavailable(l) \/ Unavailable(c))
        \/ \E k : Skip(k) \/ Turn(k, "loop") \/ Turn(k, "more")
    BY <1>2
  <1> HIDE DEF h, n
  <1>6. Fit(c) /\ Fit(l)
    BY <1>1, <1>4, CommitFits, LostFits
  <1>7. /\ DOMAIN c = Fields /\ c.last = h.last /\ c.target = h.target
        /\ c.current = h.target
    BY <1>4, CommitIs
  <1> HIDE DEF c
  <1>8. l.last = h.last /\ l.target = h.target /\ l.current = h.target
    BY <1>7, LostIs
  <1> HIDE DEF l
  <1>9. CASE ~PastEnd(h) /\ (Unavailable(l) \/ Unavailable(c))
    <2>1. ~PastEnd(l) /\ ~PastEnd(c)
      BY <1>7, <1>8, <1>9 DEF PastEnd
    <2> QED
      BY <1>1, <1>6, <1>7, <1>8, <1>9, <2>1, UnavailableIsNotTheEnd
  <1>10. ~\E k : Skip(k) \/ Turn(k, "loop") \/ Turn(k, "more")
    BY DEF Skip, Turn
  <1> QED
    BY <1>4, <1>5, <1>9, <1>10, AtTheEndPrompts

\* Only the top of the loop comes to the prompt without a command.
LEMMA TopIsShow ==
  ASSUME Next, pc = "loop"
  PROVE  \E gone \in BOOLEAN : Show(gone)
  <1>1. \A where \in {"raised", "marked", "more", "selector"} : ~Key(where)
    BY DEF Key
  <1>2. ~(EndArticle \/ Raise \/ Default \/ SelectNone)
    BY DEF EndArticle, Raise, Default, SelectNone
  <1>3. ~(NextSubject \/ Relative \/ PrevUnread \/ PrevArticle \/ Recent \/ Forward)
    BY <1>1 DEF NextSubject, Relative, PrevUnread, PrevArticle, Recent, Forward
  <1>4. ~(Ctrl_P \/ Number \/ Search \/ Adjacent \/ FromTop \/ TreeClick)
    BY <1>1, Zenon DEF Ctrl_P, Number, Search, Adjacent, FromTop, TreeClick
  <1>5. ~(Ranges \/ Colon \/ MarkArticle \/ Kill \/ KillForNow \/ Memorize)
    BY <1>1, Zenon DEF Ranges, Colon, MarkArticle, Kill, KillForNow, Memorize
  <1>6. ~(SelectKeys \/ Unread \/ CatchUpAll \/ Select \/ SelectRead)
    <2>1. ~Key(IF pc = "selector" THEN "selector" ELSE "raised")
      BY <1>1
    <2> QED
      BY <1>1, <2>1, Zenon DEF SelectKeys, Unread, CatchUpAll, Select, SelectRead
  <1>7. ~Others
    BY <1>1, Zenon DEF Others
  <1>8. ~Moves /\ ~Changes
    BY <1>3, <1>4, <1>5, <1>6 DEF Moves, Changes
  <1> QED
    BY <1>2, <1>7, <1>8 DEF Next

LEMMA PromptedReaches ==
  ASSUME IInv, Prompted, g.order = << >>
  PROVE  Reachable
  <1>1. group \in Groups /\ Ready(g) /\ g.search = FALSE
    BY DEF IInv, Prompted
  <1>2. ASSUME ~g.selOnly, g.unread \cap g.exists # {}
        PROVE  ~PastEnd(ToFirst(g))
    <2>1. PICK n \in g.exists \cap g.unread : TRUE
      BY <1>2
    <2> QED
      BY <1>1, <1>2, Reaches
  <1>3. ASSUME g.selOnly, g.selCount > 0
        PROVE  ~PastEnd(ToFirst(g))
    <2>1. PICK n \in (g.exists \cap g.unread) \cap g.sel : Subj(n) \in g.ssel
      BY <1>1, <1>3 DEF Ready
    <2> QED
      BY <1>1, <1>3, <2>1, Reaches
  <1> QED
    BY <1>2, <1>3 DEF Reachable

\* When the prompt comes up at the end of a group, whatever was killed, selected,
\* deselected, posted or cancelled before, "n" from there finds an article if
\* one is left to read: count_subjects gives every subject with such an article
\* its visit again, and the first article in terms of numbers, before it asks.
THEOREM EndOfGroupHidesNothing == Spec => EndHidesNothing
  <1> DEFINE AtEnd == pc = "loop" /\ pc' = "prompt" /\ PastEnd(g)' /\ g'.order = << >>
  <1>1. IInv /\ [Next]_vars /\ AtEnd => Prompted'
    <2> SUFFICES ASSUME IInv, [Next]_vars, AtEnd PROVE Prompted'
      OBVIOUS
    <2>1. Next
      BY DEF vars
    <2>2. PICK gone \in BOOLEAN : Show(gone)
      BY <2>1, TopIsShow
    <2> QED
      BY <2>2, ShowPrompts
  <1>2. IInv /\ Prompted /\ g.order = << >> => Reachable
    BY PromptedReaches
  <1>3. [Next]_vars /\ AtEnd => (g.order = << >>)'
    OBVIOUS
  <1> QED
    BY <1>1, <1>2, <1>3, InitIsFit, StepKeeps, PTL DEF Spec, EndHidesNothing

===============================================================================
