----------------------------- MODULE ReadMarksProofs ----------------------------
(***************************************************************************)
(* For every set of groups, of cross-posts, of newsrcs and every bound:    *)
(* lines are edited exactly, nothing becomes read that nobody read, the    *)
(* unread counts stay right, and once a group is left the user's last word *)
(* on an article is in the line of every group it was posted to.           *)
(***************************************************************************)
EXTENDS ReadMarks, RcLineProofs

-------------------------------------------------------------------------------
(* The inductive invariant.                                                *)

NewsOK(d) ==
  /\ d \in [line : Seq(Entries), toRead : Int, absFirst : Nat, ngMax : Nat]
  /\ IsRcLine(d.line)

TypesOK ==
  /\ srvFirst \in [Groups -> Nat \ {0}]
  /\ srvLast \in [Groups -> Nat \ {0}]
  /\ news = [g \in Groups |-> news[g]]
  /\ \A g \in Groups : NewsOK(news[g])
  /\ pc \in {"list", "reading", "chasing", "leaving"}
  /\ cur \in Groups \cup {NoGroup}
  /\ first \in Nat \ {0}
  /\ last \in Nat
  /\ unread \in SUBSET Int /\ IsFiniteSet(unread)
  /\ yank \in SUBSET Int /\ IsFiniteSet(yank)

\* A group is being read unless the list of newsgroups is shown; the cache
\* and the newsgroup's high-water mark are that group's.
PlacesOK ==
  /\ pc = "list" <=> cur = NoGroup
  /\ cur # NoGroup => cached = cur /\ news[cur].ngMax = last

\* Articles wait to be marked elsewhere because they were read.
ChasesOK ==
  \A n \in kchase : Same(cached, n) \subseteq told

\* What a line records as read was read.
LinesOK ==
  \A g \in Groups \ misread : \A n \in 1..Top :
    n \in Denotes(news[g].line) /\ n >= srvFirst[g] => <<g, n>> \in told

\* What the flags of the current group record as read was read.
FlagsOK ==
  cur \notin misread \cup {NoGroup} =>
    /\ first <= srvFirst[cur]
    /\ last <= srvLast[cur]
    /\ \A n \in 1..Top :
         n \in first..last /\ n >= srvFirst[cur] /\ n \notin unread => <<cur, n>> \in told

\* The flags of the current group are about its articles, and are counted.
FlagsCount ==
  cur \notin drift \cup {NoGroup} =>
    /\ last <= srvLast[cur]
    /\ first <= last + 1
    /\ unread \subseteq first..last
    /\ yank \subseteq first..last
    /\ news[cur].toRead = Cardinality(unread)

\* No entry of a line goes beyond the newsgroup's high-water mark.
Bounded(d) == \A e \in Range(d.line) : e.hi <= d.ngMax

Exact(d) ==
  ~Miscounted(d.line) => d.toRead = Cardinality(Unread(d))

\* The lines of the other groups that were looked at are counted.
LinesCount ==
  \A g \in Groups \ {cur} : news[g].absFirst # 0 =>
    /\ Bounded(news[g])
    /\ g \notin drift => Exact(news[g])

IInv ==
  /\ TypesOK
  /\ PlacesOK
  /\ ChasesOK
  /\ LinesOK
  /\ FlagsOK
  /\ FlagsCount
  /\ LinesCount

-------------------------------------------------------------------------------
(* The operators.                                                          *)

LEMMA Constants ==
  /\ LastArt \in Nat \ {0} /\ Top \in Nat
  /\ FirstArt \in [Groups -> 1 .. LastArt]
  /\ NoGroup \notin Groups
  BY RangeAssumption, GroupsAssumption

LEMMA PlacesOfXrefs == \A x \in Xrefs : x \subseteq Place
  BY XrefsAssumption, RangeAssumption DEF Place

LEMMA NewsIs ==
  ASSUME NEW d, NewsOK(d)
  PROVE  /\ d.line \in Seq(Entries) /\ IsRcLine(d.line)
         /\ d.toRead \in Int /\ d.absFirst \in Nat /\ d.ngMax \in Nat
  BY DEF NewsOK

LEMMA NewsBy ==
  ASSUME NEW line, IsRcLine(line), NEW toRead \in Int, NEW absFirst \in Nat,
         NEW ngMax \in Nat
  PROVE  NewsOK([line |-> line, toRead |-> toRead, absFirst |-> absFirst, ngMax |-> ngMax])
  BY LineIs DEF NewsOK

LEMMA UnreadIsFinite ==
  ASSUME NEW d, NewsOK(d)
  PROVE  IsFiniteSet(Unread(d)) /\ Cardinality(Unread(d)) \in Nat
  <1>1. d.ngMax \in Nat
    BY NewsIs
  <1>2. IsFiniteSet(1 .. d.ngMax)
    BY <1>1, FS_Interval
  <1>3. IsFiniteSet(Unread(d))
    BY <1>2, FS_Subset DEF Unread
  <1> QED
    BY <1>3, FS_CardinalityType

LEMMA IntervalSize ==
  ASSUME NEW a \in Int, NEW b \in Int
  PROVE  /\ IsFiniteSet(a .. b)
         /\ a <= b + 1 => Cardinality(a .. b) = b - a + 1
  <1>1. /\ IsFiniteSet(a .. b)
        /\ Cardinality(a .. b) = IF a > b THEN 0 ELSE b - a + 1
    BY FS_Interval
  <1> QED
    BY <1>1

LEMMA MiscountedIs ==
  ASSUME NEW line
  PROVE  Miscounted(line) <=> \E e \in Range(line) : e.hi = 0
  BY DEF Miscounted, Range

ServerOK ==
  srvFirst \in [Groups -> Nat \ {0}] /\ srvLast \in [Groups -> Nat \ {0}]

\* What set_to_read makes of a newsgroup: it is counted, and all that it may
\* record as read beyond what was read has expired.
LEMMA SetToReadIs ==
  ASSUME ServerOK, NEW g \in Groups, NEW d, NewsOK(d), NEW lax \in BOOLEAN
  PROVE  LET r == SetToRead(d, g, lax) IN
         /\ NewsOK(r)
         /\ r.absFirst # 0
         /\ Denotes(r.line) \subseteq
              Denotes(d.line) \cup (IF d.absFirst = 0 THEN 1 .. srvFirst[g] - 1 ELSE {})
         /\ Bounded(r)
         /\ Exact(r)
  <1> DEFINE virgin == d.absFirst = 0
             low0 == IF virgin THEN srvFirst[g] ELSE d.absFirst
             size == IF srvLast[g] > d.ngMax THEN srvLast[g] ELSE d.ngMax
             line == IF virgin /\ d.line # <<Span(1, size)>>
                     THEN CheckExpired(d.line, low0)
                     ELSE d.line
             expired == IF virgin THEN 1 .. srvFirst[g] - 1 ELSE {}
             t == Tally(line, size, lax)
             r == Counted(line, low0, t, size)
  <1>1. /\ d.line \in Seq(Entries) /\ IsRcLine(d.line)
        /\ d.toRead \in Int /\ d.absFirst \in Nat /\ d.ngMax \in Nat
    BY NewsIs
  <1>2. low0 \in Nat \ {0} /\ size \in Nat
    BY <1>1 DEF ServerOK
  <1>3. IsRcLine(line) /\ Denotes(line) \subseteq Denotes(d.line) \cup expired
    <2>1. CASE virgin /\ d.line # <<Span(1, size)>>
      <3>1. line = CheckExpired(d.line, srvFirst[g]) /\ expired = 1 .. srvFirst[g] - 1
        BY <2>1
      <3>2. srvFirst[g] \in Nat
        BY DEF ServerOK
      <3> HIDE DEF line, expired
      <3>3. /\ IsRcLine(CheckExpired(d.line, srvFirst[g]))
            /\ Denotes(CheckExpired(d.line, srvFirst[g])) =
                 Denotes(d.line) \cup (1 .. srvFirst[g] - 1)
        BY <1>1, <3>2, CheckExpiredIs
      <3> QED
        BY <3>1, <3>3
    <2>2. CASE ~(virgin /\ d.line # <<Span(1, size)>>)
      <3>1. line = d.line
        BY <2>2
      <3> HIDE DEF line
      <3> QED
        BY <3>1, <1>1
    <2> QED
      BY <2>1, <2>2
  <1>4. SetToRead(d, g, lax) = r
    BY DEF SetToRead
  <1> HIDE DEF low0, size, line
  <1>5. /\ t.unread \in Int /\ t.size \in Nat /\ size <= t.size
        /\ t.unread >= 0 =>
             /\ \A e \in Range(line) : e.hi <= t.size
             /\ (\A e \in Range(line) : e.hi # 0) =>
                  t.unread = Cardinality((1 .. t.size) \ Denotes(line))
    <2>1. Tallies(t, line, size, lax)
      BY <1>2, <1>3, TallyIs
    <2> QED
      BY <2>1 DEF Tallies
  <1> HIDE DEF t
  <1>6. CASE t.unread < 0
    <2>1. r = [line |-> <<>>, toRead |-> size, absFirst |-> low0, ngMax |-> size]
      BY <1>6 DEF Counted
    <2> HIDE DEF r
    <2>2. /\ r.line = <<>> /\ r.toRead = size /\ r.absFirst = low0 /\ r.ngMax = size
      BY <2>1
    <2>3. NewsOK(r)
      BY <2>1, <1>2, NewsBy, EmptyLine
    <2>4. Range(<<>>) = {}
      BY DEF Range
    <2>5. Unread(r) = 1 .. size
      BY <2>2, EmptyLine DEF Unread
    <2>6. Cardinality(1 .. size) = size
      BY <1>2, IntervalSize
    <2>7. Bounded(r)
      BY <2>2, <2>4 DEF Bounded
    <2>8. Exact(r)
      BY <2>2, <2>5, <2>6 DEF Exact
    <2>9. Denotes(r.line) = {}
      BY <2>2, EmptyLine
    <2> QED
      BY <2>2, <2>3, <2>7, <2>8, <2>9, <1>2, <1>4
  <1>7. CASE ~(t.unread < 0)
    <2>1. r = [line |-> line, toRead |-> t.unread, absFirst |-> low0, ngMax |-> t.size]
      BY <1>7 DEF Counted
    <2> HIDE DEF r
    <2>2. /\ r.line = line /\ r.toRead = t.unread /\ r.absFirst = low0
          /\ r.ngMax = t.size
      BY <2>1
    <2>3. NewsOK(r)
      BY <2>1, <1>2, <1>3, <1>5, NewsBy
    <2>4. t.unread >= 0
      BY <1>5, <1>7
    <2>5. Bounded(r)
      BY <2>2, <2>4, <1>5 DEF Bounded
    <2>6. Exact(r)
      BY <2>2, <2>4, <1>5, MiscountedIs DEF Exact, Unread
    <2> QED
      BY <2>2, <2>3, <2>5, <2>6, <1>2, <1>3, <1>4
  <1> QED
    BY <1>6, <1>7

LEMMA TalliedIs ==
  ASSUME ServerOK, NEW g \in Groups, NEW d, NewsOK(d)
  PROVE  LET r == Tallied(d, g) IN
         /\ NewsOK(r)
         /\ r.absFirst # 0
         /\ Denotes(r.line) \subseteq Denotes(d.line) \cup (1 .. srvFirst[g] - 1)
         /\ d.absFirst = 0 => Bounded(r) /\ Exact(r)
         /\ d.absFirst # 0 => r = d
  <1>1. CASE d.absFirst = 0
    <2>1. Tallied(d, g) = SetToRead(d, g, TRUE)
      BY <1>1 DEF Tallied
    <2> QED
      BY <1>1, <2>1, SetToReadIs
  <1>2. CASE d.absFirst # 0
    <2>1. Tallied(d, g) = d
      BY <1>2 DEF Tallied
    <2> QED
      BY <1>2, <2>1
  <1> QED
    BY <1>1, <1>2

\* Numbers above the high-water mark are counted, unless nothing was unread.
LEMMA GrownIs ==
  ASSUME NEW d, NewsOK(d), NEW n \in Nat
  PROVE  LET r == Grown(d, n) IN
         /\ NewsOK(r)
         /\ r.line = d.line /\ r.absFirst = d.absFirst
         /\ n <= r.ngMax
         /\ Bounded(d) => Bounded(r)
         /\ Bounded(d) /\ Exact(d) /\ ~(d.toRead = 0 /\ n > d.ngMax) => Exact(r)
  <1>1. /\ d.line \in Seq(Entries) /\ IsRcLine(d.line)
        /\ d.toRead \in Int /\ d.absFirst \in Nat /\ d.ngMax \in Nat
    BY NewsIs
  <1>2. CASE n > d.ngMax
    <2> DEFINE more == IF d.toRead > 0 THEN d.toRead + n - d.ngMax ELSE d.toRead
               r == [d EXCEPT !.ngMax = n, !.toRead = more]
    <2>1. Grown(d, n) = r
      BY <1>2 DEF Grown
    <2>2. more \in Int
      BY <1>1
    <2> HIDE DEF more
    <2>3. /\ r.line = d.line /\ r.absFirst = d.absFirst /\ r.ngMax = n /\ r.toRead = more
          /\ NewsOK(r)
      BY <2>2 DEF NewsOK
    <2> HIDE DEF r
    <2>4. ASSUME Bounded(d) PROVE Bounded(r)
      <3>1. \A e \in Range(d.line) : e.hi \in Nat
        BY <1>1, LineIs DEF Range
      <3> QED
        BY <2>4, <2>3, <3>1, <1>1, <1>2 DEF Bounded
    <2>5. ASSUME Bounded(d), Exact(d), d.toRead # 0, ~Miscounted(d.line)
          PROVE  more = Cardinality(Unread(r))
      <3> DEFINE new == d.ngMax + 1 .. n
                 old == Unread(d)
      <3>1. d.toRead = Cardinality(old)
        BY <2>5 DEF Exact
      <3>2. Unread(r) = old \cup new
        <4>1. ASSUME NEW k \in new PROVE k \notin Denotes(d.line)
          <5>1. ASSUME NEW e \in Range(d.line) PROVE ~(k \in e.lo .. e.hi)
            <6>1. e.hi <= d.ngMax /\ e.hi \in Nat /\ e.lo \in Nat
              BY <2>5, <1>1, LineIs DEF Bounded, Range
            <6> QED
              BY <6>1, <1>1
          <5> QED
            BY <5>1, DenotesBy
        <4>2. 1 .. n = (1 .. d.ngMax) \cup new
          BY <1>1, <1>2
        <4>3. Unread(r) = (1 .. n) \ Denotes(d.line)
          BY <2>3 DEF Unread
        <4> HIDE DEF new
        <4> QED
          BY <4>1, <4>2, <4>3 DEF Unread
      <3>3. old \cap new = {}
        BY <1>1 DEF Unread
      <3>4. IsFiniteSet(old) /\ Cardinality(old) \in Nat
        BY UnreadIsFinite
      <3>5. IsFiniteSet(new) /\ Cardinality(new) = n - d.ngMax
        <4> DEFINE a == d.ngMax + 1
        <4>1. a \in Int /\ n \in Int /\ a <= n + 1
          BY <1>1, <1>2
        <4> HIDE DEF a
        <4>2. IsFiniteSet(a .. n) /\ Cardinality(a .. n) = n - a + 1
          BY <4>1, IntervalSize
        <4> QED
          BY <4>2, <1>1 DEF a
      <3> HIDE DEF old, new
      <3>6. Cardinality(old \cup new) = Cardinality(old) + Cardinality(new) - Cardinality({})
        BY <3>3, <3>4, <3>5, FS_Union
      <3>7. Cardinality({}) = 0
        BY FS_EmptySet
      <3>8. more = d.toRead + n - d.ngMax
        BY <3>1, <3>4, <2>5 DEF more
      <3> QED
        BY <3>1, <3>2, <3>4, <3>5, <3>6, <3>7, <3>8, <1>1
    <2>6. n <= r.ngMax
      BY <2>3
    <2>7. Bounded(d) /\ Exact(d) /\ ~(d.toRead = 0 /\ n > d.ngMax) => Exact(r)
      BY <2>3, <2>5, <1>2 DEF Exact
    <2> QED
      BY <2>1, <2>3, <2>4, <2>6, <2>7
  <1>3. CASE ~(n > d.ngMax)
    <2>1. Grown(d, n) = d
      BY <1>3 DEF Grown
    <2>2. n <= d.ngMax
      BY <1>1, <1>3
    <2> QED
      BY <2>1, <2>2
  <1> QED
    BY <1>2, <1>3

LEMMA HighIsNat ==
  ASSUME NEW line, IsRcLine(line)
  PROVE  \A e \in Range(line) : e.lo \in Nat /\ e.hi \in Nat
  BY LineIs DEF Range

\* What a line records is not beyond the newsgroup's high-water mark.
LEMMA BoundedIs ==
  ASSUME NEW d, NewsOK(d), Bounded(d)
  PROVE  \A n \in Denotes(d.line) : n \in Int /\ n <= d.ngMax
  <1>1. ASSUME NEW n \in Denotes(d.line) PROVE n \in Int /\ n <= d.ngMax
    <2>1. PICK e \in Range(d.line) : n \in e.lo .. e.hi
      BY DenotesBy
    <2>2. e.hi <= d.ngMax /\ e.lo \in Nat /\ e.hi \in Nat /\ d.ngMax \in Nat
      BY HighIsNat, NewsIs DEF Bounded
    <2> QED
      BY <2>1, <2>2
  <1> QED
    BY <1>1

\* A line whose entries stay within the old ones, or n, stays bounded.
LEMMA StaysBounded ==
  ASSUME NEW line, IsRcLine(line), NEW r, IsRcLine(r), NEW m \in Nat, NEW n \in Int,
         n <= m,
         \A e \in Range(line) : e.hi <= m,
         \A e \in Range(r) : e.hi <= n \/ \E f \in Range(line) : e.hi <= f.hi
  PROVE  \A e \in Range(r) : e.hi <= m
  <1>1. ASSUME NEW e \in Range(r), NEW f \in Range(line), e.hi <= f.hi PROVE e.hi <= m
    <2>1. e.hi \in Nat /\ f.hi \in Nat /\ f.hi <= m
      BY HighIsNat
    <2> QED
      BY <1>1, <2>1
  <1>2. ASSUME NEW e \in Range(r), e.hi <= n PROVE e.hi <= m
    <2>1. e.hi \in Nat
      BY HighIsNat
    <2> QED
      BY <1>2, <2>1
  <1> QED
    BY <1>1, <1>2

\* "1-0" is not taken out of a line.
LEMMA StaysMiscounted ==
  ASSUME NEW line, NEW r, NEW n, Within(r, line, n), Miscounted(line)
  PROVE  Miscounted(r)
  BY MiscountedIs DEF Within

LEMMA MarkedIs ==
  ASSUME NEW d, NewsOK(d), NEW n \in Nat \ {0}, n <= d.ngMax
  PROVE  LET r == Marked(d, n) IN
         /\ NewsOK(r)
         /\ r.absFirst = d.absFirst
         /\ Bounded(d) => Bounded(r)
         /\ n \in Denotes(d.line) \/ ~Glues(d.line, n) =>
              /\ Denotes(r.line) = Denotes(d.line) \cup {n}
              /\ Exact(d) => Exact(r)
  <1>1. /\ d.line \in Seq(Entries) /\ IsRcLine(d.line)
        /\ d.toRead \in Int /\ d.absFirst \in Nat /\ d.ngMax \in Nat
    BY NewsIs
  <1>2. CASE n \in Denotes(d.line)
    <2>1. Marked(d, n) = d
      BY <1>2 DEF Marked
    <2> QED
      BY <1>2, <2>1
  <1>3. CASE n \notin Denotes(d.line)
    <2> DEFINE line == AddArtNum(d.line, n)
               less == IF d.toRead > 0 THEN d.toRead - 1 ELSE d.toRead
               r == [d EXCEPT !.line = line, !.toRead = less]
    <2>1. Marked(d, n) = r
      BY <1>3 DEF Marked
    <2>2. less \in Int
      BY <1>1
    <2>3. /\ IsRcLine(line)
          /\ \A e \in Range(line) : e.hi <= n \/ \E f \in Range(d.line) : e.hi <= f.hi
          /\ ~Glues(d.line, n) =>
               Denotes(line) = Denotes(d.line) \cup {n} /\ Within(line, d.line, n)
      BY <1>1, AddIs
    <2>4. line \in Seq(Entries)
      BY <2>3, LineIs
    <2> HIDE DEF line, less
    <2>5. /\ r.line = line /\ r.absFirst = d.absFirst /\ r.ngMax = d.ngMax
          /\ r.toRead = less /\ NewsOK(r)
      BY <2>2, <2>3, <2>4 DEF NewsOK
    <2> HIDE DEF r
    <2>6. ASSUME Bounded(d) PROVE Bounded(r)
      <3>1. \A e \in Range(line) : e.hi <= d.ngMax
        BY <2>6, <2>3, <1>1, StaysBounded DEF Bounded
      <3> QED
        BY <3>1, <2>5 DEF Bounded
    <2>7. ASSUME ~Glues(d.line, n), Exact(d), ~Miscounted(line)
          PROVE  less = Cardinality(Unread(r))
      <3> DEFINE old == Unread(d)
      <3>1. ~Miscounted(d.line)
        BY <2>3, <2>7, StaysMiscounted
      <3>2. d.toRead = Cardinality(old)
        BY <2>7, <3>1 DEF Exact
      <3>3. n \in old
        BY <1>1, <1>3 DEF Unread
      <3>4. Unread(r) = old \ {n}
        BY <2>3, <2>5, <2>7 DEF Unread
      <3>5. IsFiniteSet(old) /\ Cardinality(old) \in Nat
        BY UnreadIsFinite
      <3> HIDE DEF old
      <3>6. Cardinality(old \ {n}) = Cardinality(old) - 1 /\ Cardinality(old) # 0
        BY <3>3, <3>5, FS_RemoveElement, FS_EmptySet
      <3> QED
        BY <3>2, <3>4, <3>5, <3>6 DEF less
    <2>8. ~Glues(d.line, n) =>
            /\ Denotes(r.line) = Denotes(d.line) \cup {n}
            /\ Exact(d) => Exact(r)
      BY <2>3, <2>5, <2>7 DEF Exact
    <2> QED
      BY <2>1, <2>5, <2>6, <2>8, <1>3
  <1> QED
    BY <1>2, <1>3

\* What the mark of an article n, read elsewhere, makes of a newsgroup.
Added(r, d, g, n) ==
  /\ NewsOK(r)
  /\ r.absFirst # 0
  /\ (d.absFirst # 0 => Bounded(d)) => Bounded(r)
  /\ ~Overreads(d, g, n) =>
       /\ Denotes(r.line) \subseteq Denotes(d.line) \cup (1 .. srvFirst[g] - 1) \cup {n}
       /\ ~Uncounted(d, g, n) /\ (d.absFirst # 0 => Bounded(d) /\ Exact(d)) => Exact(r)

LEMMA AddInIs ==
  ASSUME ServerOK, NEW g \in Groups, NEW d, NewsOK(d), NEW n \in Nat \ {0}
  PROVE  Added(AddIn(d, g, n), d, g, n)
  <1> DEFINE t == Tallied(d, g)
             u == Grown(t, n)
             r == Marked(u, n)
  <1>1. /\ NewsOK(t) /\ t.absFirst # 0
        /\ Denotes(t.line) \subseteq Denotes(d.line) \cup (1 .. srvFirst[g] - 1)
        /\ d.absFirst = 0 => Bounded(t) /\ Exact(t)
        /\ d.absFirst # 0 => t = d
    BY TalliedIs
  <1>2. AddIn(d, g, n) = r
    BY DEF AddIn
  <1>3. Overreads(d, g, n) <=> n \notin Denotes(t.line) /\ Glues(t.line, n)
    BY DEF Overreads
  <1>4. Uncounted(d, g, n) <=> t.toRead = 0 /\ n > t.ngMax
    BY DEF Uncounted
  <1> HIDE DEF t
  <1>5. /\ NewsOK(u) /\ u.line = t.line /\ u.absFirst = t.absFirst /\ n <= u.ngMax
        /\ Bounded(t) => Bounded(u)
        /\ Bounded(t) /\ Exact(t) /\ ~(t.toRead = 0 /\ n > t.ngMax) => Exact(u)
    BY <1>1, GrownIs
  <1> HIDE DEF u
  <1>6. /\ NewsOK(r) /\ r.absFirst = u.absFirst /\ (Bounded(u) => Bounded(r))
        /\ n \in Denotes(u.line) \/ ~Glues(u.line, n) =>
              /\ Denotes(r.line) = Denotes(u.line) \cup {n}
              /\ Exact(u) => Exact(r)
    BY <1>5, MarkedIs
  <1> HIDE DEF r
  <1> QED
    BY <1>1, <1>2, <1>3, <1>4, <1>5, <1>6 DEF Added

\* ... and its mark as unread.
Subbed(r, d) ==
  /\ NewsOK(r)
  /\ r.absFirst = d.absFirst
  /\ Denotes(r.line) \subseteq Denotes(d.line)
  /\ Bounded(d) => Bounded(r) /\ (Exact(d) => Exact(r))

LEMMA SubInIs ==
  ASSUME NEW d, NewsOK(d), NEW n
  PROVE  Subbed(SubIn(d, n), d)
  <1>1. /\ d.line \in Seq(Entries) /\ IsRcLine(d.line)
        /\ d.toRead \in Int /\ d.absFirst \in Nat /\ d.ngMax \in Nat
    BY NewsIs
  <1>2. CASE n \in Denotes(d.line)
    <2> DEFINE line == SubArtNum(d.line, n)
               more == d.toRead + 1
               r == [d EXCEPT !.line = line, !.toRead = more]
    <2>1. SubIn(d, n) = r /\ more \in Int
      BY <1>1, <1>2 DEF SubIn
    <2>2. /\ IsRcLine(line)
          /\ Denotes(line) = Denotes(d.line) \ {n}
          /\ Within(line, d.line, n)
      BY <1>1, SubIs
    <2>3. line \in Seq(Entries)
      BY <2>2, LineIs
    <2> HIDE DEF line, more
    <2>4. /\ r.line = line /\ r.absFirst = d.absFirst /\ r.ngMax = d.ngMax
          /\ r.toRead = more /\ NewsOK(r)
      BY <2>1, <2>2, <2>3 DEF NewsOK
    <2> HIDE DEF r
    <2>5. ASSUME Bounded(d) PROVE n \in Int /\ n <= d.ngMax /\ Bounded(r)
      <3>1. n \in Int /\ n <= d.ngMax
        BY <1>2, <2>5, BoundedIs
      <3>2. \A e \in Range(line) : e.hi <= d.ngMax
        BY <2>5, <2>2, <3>1, <1>1, StaysBounded DEF Bounded, Within
      <3> QED
        BY <3>1, <3>2, <2>4 DEF Bounded
    <2>6. ASSUME Bounded(d), Exact(d), ~Miscounted(line)
          PROVE  r.toRead = Cardinality(Unread(r))
      <3> DEFINE old == Unread(d)
      <3>1. ~Miscounted(d.line)
        BY <2>2, <2>6, StaysMiscounted
      <3>2. d.toRead = Cardinality(old)
        BY <2>6, <3>1 DEF Exact
      <3>3. n \in 1 .. d.ngMax /\ n \notin old
        <4>1. PICK i \in 1 .. Len(d.line) : n \in d.line[i].lo .. d.line[i].hi
          BY <1>1, <1>2, DenotesIs
        <4>2. d.line[i].lo \in Nat \ {0}
          BY <1>1, LineIs
        <4>3. n \in Int /\ n <= d.ngMax
          BY <2>5, <2>6
        <4> QED
          BY <4>1, <4>2, <4>3, <1>1, <1>2 DEF Unread
      <3>4. Unread(r) = old \cup {n}
        BY <2>2, <2>4, <3>3 DEF Unread
      <3>5. IsFiniteSet(old) /\ Cardinality(old) \in Nat
        BY UnreadIsFinite
      <3> HIDE DEF old
      <3>6. Cardinality(old \cup {n}) = Cardinality(old) + 1
        BY <3>3, <3>5, FS_AddElement
      <3> QED
        BY <3>2, <3>4, <3>6, <2>4 DEF more
    <2>7. Bounded(d) => Bounded(r) /\ (Exact(d) => Exact(r))
      BY <2>4, <2>5, <2>6 DEF Exact
    <2> QED
      BY <2>1, <2>2, <2>4, <2>7 DEF Subbed
  <1>3. CASE n \notin Denotes(d.line)
    <2>1. SubIn(d, n) = d
      BY <1>3 DEF SubIn
    <2> QED
      BY <2>1 DEF Subbed
  <1> QED
    BY <1>2, <1>3

LEMMA Fewer ==
  ASSUME NEW s, IsFiniteSet(s), NEW nums
  PROVE  /\ IsFiniteSet(s \ nums)
         /\ Cardinality(s) \in Nat /\ Cardinality(nums \cap s) \in Nat
         /\ Cardinality(s \ nums) = Cardinality(s) - Cardinality(nums \cap s)
  <1>1. /\ IsFiniteSet(s \ nums)
        /\ Cardinality(s \ nums) = Cardinality(s) - Cardinality(s \cap nums)
    BY FS_Difference
  <1>2. IsFiniteSet(s \cap nums) /\ s \cap nums = nums \cap s
    BY FS_Intersection
  <1> QED
    BY <1>1, <1>2, FS_CardinalityType

LEMMA More ==
  ASSUME NEW s, IsFiniteSet(s), NEW nums, IsFiniteSet(nums)
  PROVE  /\ IsFiniteSet(s \cup nums)
         /\ Cardinality(s) \in Nat /\ Cardinality(nums \ s) \in Nat
         /\ Cardinality(s \cup nums) = Cardinality(s) + Cardinality(nums \ s)
  <1> DEFINE new == nums \ s
  <1>1. IsFiniteSet(new)
    BY FS_Difference
  <1>2. s \cup nums = s \cup new /\ s \cap new = {}
    OBVIOUS
  <1> HIDE DEF new
  <1>3. IsFiniteSet(s \cup nums)
    BY FS_Union
  <1>4. Cardinality(s \cup new) = Cardinality(s) + Cardinality(new) - Cardinality({})
    BY <1>1, <1>2, FS_Union
  <1>5. Cardinality({}) = 0 /\ Cardinality(s) \in Nat /\ Cardinality(new) \in Nat
    BY <1>1, FS_EmptySet, FS_CardinalityType
  <1>6. Cardinality(s \cup nums) = Cardinality(s) + Cardinality(new)
    <2>1. Cardinality(s \cup nums) = Cardinality(s \cup new)
      BY <1>2, Zenon
    <2>2. Cardinality(s \cup new) = Cardinality(s) + Cardinality(new) - Cardinality({})
      BY <1>2, <1>4, Zenon
    <2> QED
      BY <2>1, <2>2, <1>5
  <1> QED
    BY <1>3, <1>5, <1>6 DEF new

-------------------------------------------------------------------------------
(* Every step keeps the invariant.                                         *)

LEMMA InitHolds == Init => IInv
  <1> SUFFICES ASSUME Init PROVE IInv
    OBVIOUS
  <1>1. PICK lines \in InitLines :
          /\ news = [g \in Groups |-> Fresh(lines[g])]
          /\ told = {p \in Place : p[2] \in Denotes(lines[p[1]])}
    BY DEF Init
  <1>2. /\ srvFirst = FirstArt /\ srvLast = [g \in Groups |-> LastArt]
        /\ pc = "list" /\ cur = NoGroup /\ first = 1 /\ last = 0
        /\ unread = {} /\ yank = {} /\ kchase = {}
    BY DEF Init
  <1>3. ASSUME NEW g \in Groups
        PROVE  /\ NewsOK(news[g]) /\ news[g].line = lines[g] /\ news[g].absFirst = 0
    <2>1. IsRcLine(lines[g])
      BY LinesAssumption
    <2>2. news[g] = [line |-> lines[g], toRead |-> 0, absFirst |-> 0, ngMax |-> 0]
      BY <1>1 DEF Fresh
    <2>3. NewsOK(news[g])
      BY <2>1, <2>2, NewsBy
    <2> QED
      BY <2>2, <2>3
  <1>4. TypesOK
    <2>1. srvFirst \in [Groups -> Nat \ {0}] /\ srvLast \in [Groups -> Nat \ {0}]
      BY <1>2, Constants
    <2>2. news = [g \in Groups |-> news[g]]
      BY <1>1
    <2>3. IsFiniteSet({})
      BY FS_EmptySet
    <2> QED
      BY <1>2, <1>3, <2>1, <2>2, <2>3 DEF TypesOK
  <1>5. LinesOK
    BY <1>1, <1>3, Constants DEF LinesOK, Place
  <1>6. LinesCount
    BY <1>3 DEF LinesCount
  <1> QED
    BY <1>2, <1>4, <1>5, <1>6, Constants DEF IInv, PlacesOK, ChasesOK, FlagsOK, FlagsCount

LEMMA ArriveKeeps ==
  ASSUME IInv, NEW gs \in SUBSET Groups, Arrive(gs) PROVE IInv'
  <1>1. /\ srvLast' = [g \in Groups |-> IF g \in gs THEN srvLast[g] + 1 ELSE srvLast[g]]
        /\ UNCHANGED <<srvFirst, news, reading, cache, chase, history>>
    BY DEF Arrive
  <1>2. srvLast \in [Groups -> Nat \ {0}]
    BY DEF IInv, TypesOK
  <1>3. srvLast' \in [Groups -> Nat \ {0}] /\ \A g \in Groups : srvLast[g] <= srvLast'[g]
    BY <1>1, <1>2
  <1>4. ASSUME NEW g \in Groups, last <= srvLast[g] PROVE last <= srvLast'[g]
    BY <1>2, <1>3, <1>4 DEF IInv, TypesOK
  <1>5. cur \in Groups \cup {NoGroup}
    BY DEF IInv, TypesOK
  <1>6. TypesOK'
    BY <1>1, <1>3 DEF IInv, TypesOK, reading, chase
  <1>7. PlacesOK' /\ ChasesOK' /\ LinesOK'
    BY <1>1 DEF IInv, PlacesOK, ChasesOK, LinesOK, reading, chase, cache, history
  <1>8. FlagsOK'
    BY <1>1, <1>4, <1>5 DEF IInv, FlagsOK, reading, history
  <1>9. FlagsCount'
    BY <1>1, <1>4, <1>5 DEF IInv, FlagsCount, reading, history
  <1>10. LinesCount'
    BY <1>1 DEF IInv, LinesCount, reading, history, Bounded, Exact, Miscounted, Unread
  <1> QED
    BY <1>6, <1>7, <1>8, <1>9, <1>10 DEF IInv

LEMMA ExpireKeeps ==
  ASSUME IInv, NEW h \in Groups, Expire(h) PROVE IInv'
  <1>1. /\ srvFirst' = [srvFirst EXCEPT ![h] = @ + 1]
        /\ UNCHANGED <<srvLast, news, reading, cache, chase, history>>
    BY DEF Expire
  <1>2. srvFirst \in [Groups -> Nat \ {0}] /\ cur \in Groups \cup {NoGroup} /\ first \in Nat
    BY DEF IInv, TypesOK
  <1>3. srvFirst' \in [Groups -> Nat \ {0}] /\ \A g \in Groups : srvFirst[g] <= srvFirst'[g]
    BY <1>1, <1>2
  <1>4. \A g \in Groups : \A n \in 1 .. Top : n >= srvFirst'[g] => n >= srvFirst[g]
    BY <1>2, <1>3, Constants
  <1>5. \A g \in Groups : first <= srvFirst[g] => first <= srvFirst'[g]
    BY <1>2, <1>3
  <1>6. TypesOK'
    BY <1>1, <1>3 DEF IInv, TypesOK, reading, chase
  <1>7. PlacesOK' /\ ChasesOK'
    BY <1>1 DEF IInv, PlacesOK, ChasesOK, reading, chase, cache, history
  <1>8. LinesOK'
    BY <1>1, <1>4 DEF IInv, LinesOK, history
  <1>9. FlagsOK'
    BY <1>1, <1>2, <1>4, <1>5 DEF IInv, FlagsOK, reading, history
  <1>10. FlagsCount'
    BY <1>1 DEF IInv, FlagsCount, reading, history
  <1>11. LinesCount'
    BY <1>1 DEF IInv, LinesCount, reading, history, Bounded, Exact, Miscounted, Unread
  <1> QED
    BY <1>6, <1>7, <1>8, <1>9, <1>10, <1>11 DEF IInv

\* At the list of newsgroups, a newsgroup is counted anew.
LEMMA NewLine ==
  ASSUME IInv, pc = "list", NEW h \in Groups, NEW d, NewsOK(d),
         news' = [news EXCEPT ![h] = d],
         told \subseteq told', misread' = misread, drift' = drift \ {h},
         UNCHANGED <<server, reading, cache, chase>>,
         \A n \in 1 .. Top :
           n \in Denotes(d.line) /\ n >= srvFirst[h] /\ h \notin misread => <<h, n>> \in told',
         Bounded(d), Exact(d)
  PROVE  IInv'
  <1>1. /\ srvFirst' = srvFirst /\ srvLast' = srvLast /\ cur' = cur /\ first' = first
        /\ last' = last /\ unread' = unread /\ yank' = yank /\ cached' = cached
        /\ kchase' = kchase /\ pc' = pc /\ cur = NoGroup
    BY DEF server, reading, cache, chase, IInv, PlacesOK
  <1>2. /\ news' = [g \in Groups |-> news'[g]]
        /\ news'[h] = d
        /\ \A g \in Groups : g # h => news'[g] = news[g]
    BY DEF IInv, TypesOK
  <1>3. TypesOK'
    BY <1>1, <1>2 DEF IInv, TypesOK, NewsOK
  <1>4. PlacesOK'
    BY <1>1 DEF IInv, PlacesOK
  <1>5. ChasesOK'
    BY <1>1 DEF IInv, ChasesOK
  <1>6. LinesOK'
    BY <1>1, <1>2 DEF IInv, LinesOK
  <1>7. FlagsOK' /\ FlagsCount'
    BY <1>1 DEF FlagsOK, FlagsCount
  <1>8. LinesCount'
    <2>1. ASSUME NEW g \in Groups, news'[g].absFirst # 0
          PROVE  Bounded(news'[g]) /\ (g \notin drift' => Exact(news'[g]))
      <3>1. CASE g = h
        BY <3>1, <1>2
      <3>2. CASE g # h
        BY <3>2, <2>1, <1>1, <1>2, Constants DEF IInv, LinesCount
      <3> QED
        BY <3>1, <3>2
    <2> QED
      BY <2>1, <1>1 DEF LinesCount
  <1> QED
    BY <1>3, <1>4, <1>5, <1>6, <1>7, <1>8 DEF IInv

LEMMA RecountKeeps ==
  ASSUME IInv, NEW h \in Groups, Recount(h) PROVE IInv'
  <1> DEFINE d == SetToRead(news[h], h, TRUE)
  <1>1. /\ pc = "list" /\ news' = [news EXCEPT ![h] = d] /\ drift' = drift \ {h}
        /\ told' = told /\ misread' = misread
        /\ UNCHANGED <<server, reading, cache, chase>>
    BY DEF Recount
  <1>2. /\ NewsOK(d) /\ Bounded(d) /\ Exact(d)
        /\ Denotes(d.line) \subseteq
             Denotes(news[h].line)
               \cup (IF news[h].absFirst = 0 THEN 1 .. srvFirst[h] - 1 ELSE {})
    BY SetToReadIs DEF IInv, TypesOK, ServerOK
  <1> HIDE DEF d
  <1>3. ASSUME NEW n \in 1 .. Top,
               n \in Denotes(d.line), n >= srvFirst[h], h \notin misread
        PROVE  <<h, n>> \in told'
    <2>1. ~(n \in 1 .. srvFirst[h] - 1)
      BY <1>3 DEF IInv, TypesOK
    <2>2. n \in Denotes(news[h].line)
      BY <2>1, <1>2, <1>3
    <2> QED
      BY <2>2, <1>1, <1>3 DEF IInv, LinesOK
  <1> QED
    BY <1>1, <1>2, <1>3, NewLine

LEMMA CatchUpKeeps ==
  ASSUME IInv, NEW h \in Groups, NEW leave \in 0 .. 1, CatchUp(h, leave) PROVE IInv'
  <1> DEFINE size == IF srvLast[h] > news[h].ngMax THEN srvLast[h] ELSE news[h].ngMax
             up == size - leave + 1
             most == [news[h] EXCEPT !.line = CheckExpired(@, up)]
             all == [news[h] EXCEPT !.line = <<Span(1, size)>>, !.toRead = 0, !.ngMax = size]
             d == IF leave > 0 THEN SetToRead(most, h, FALSE) ELSE all
  <1>1. /\ pc = "list" /\ news[h].absFirst # 0 /\ news' = [news EXCEPT ![h] = d]
        /\ told' = told \cup ({h} \X (1 .. size - leave))
        /\ drift' = drift \ {h} /\ misread' = misread
        /\ UNCHANGED <<server, reading, cache, chase>>
    BY DEF CatchUp
  <1>2. /\ NewsOK(news[h]) /\ IsRcLine(news[h].line) /\ news[h].ngMax \in Nat
        /\ news[h].absFirst \in Nat /\ srvLast[h] \in Nat \ {0}
    BY NewsIs DEF IInv, TypesOK
  <1>3. size \in Nat \ {0} /\ up \in Nat /\ size - leave \in Nat /\ up - 1 = size - leave
    BY <1>2
  <1> HIDE DEF size, up
  <1>4. /\ NewsOK(d) /\ Bounded(d) /\ Exact(d)
        /\ Denotes(d.line) \subseteq Denotes(news[h].line) \cup (1 .. size - leave)
    <2>1. CASE leave > 0
      <3> DEFINE line == CheckExpired(news[h].line, up)
      <3>1. IsRcLine(line) /\ Denotes(line) = Denotes(news[h].line) \cup (1 .. up - 1)
        BY <1>2, <1>3, CheckExpiredIs
      <3>2. line \in Seq(Entries)
        BY <3>1, LineIs
      <3> HIDE DEF line
      <3>3. most = [news[h] EXCEPT !.line = line]
        BY DEF line
      <3> HIDE DEF most
      <3>4. NewsOK(most) /\ most.absFirst = news[h].absFirst /\ most.line = line
        BY <3>1, <3>2, <3>3, <1>2 DEF NewsOK
      <3> DEFINE r == SetToRead(most, h, FALSE)
      <3>5. /\ NewsOK(r) /\ Bounded(r) /\ Exact(r)
            /\ Denotes(r.line) \subseteq
                 Denotes(most.line)
                   \cup (IF most.absFirst = 0 THEN 1 .. srvFirst[h] - 1 ELSE {})
        BY <3>4, SetToReadIs DEF IInv, TypesOK, ServerOK
      <3>6. d = r
        BY <2>1
      <3> HIDE DEF r, d
      <3> QED
        BY <3>1, <3>4, <3>5, <3>6, <1>1, <1>3
    <2>2. CASE ~(leave > 0)
      <3> DEFINE e == Span(1, size)
                 line == <<e>>
      <3>1. e.lo = 1 /\ e.hi = size /\ IsEntry(e)
        BY <1>3 DEF Span, IsEntry, Entries
      <3> HIDE DEF e
      <3>2. IsRcLine(line) /\ Denotes(line) = 1 .. size /\ Range(line) = {e}
        BY <3>1, OneEntry
      <3>3. line \in Seq(Entries)
        BY <3>2, LineIs
      <3>4. d = [news[h] EXCEPT !.line = line, !.toRead = 0, !.ngMax = size]
        BY <2>2 DEF e
      <3> HIDE DEF line, d
      <3>5. /\ NewsOK(d) /\ d.line = line /\ d.toRead = 0 /\ d.ngMax = size
        <4> DEFINE b == news[h]
        <4>1. size \in Nat /\ NewsOK(b) /\ b.absFirst \in Nat
          BY <1>2, <1>3
        <4>2. d = [b EXCEPT !.line = line, !.toRead = 0, !.ngMax = size]
          BY <3>4
        <4> HIDE DEF b
        <4>3. d = [line |-> line, toRead |-> 0, absFirst |-> b.absFirst, ngMax |-> size]
          BY <4>1, <4>2 DEF NewsOK
        <4> QED
          BY <4>1, <4>3, <3>2, NewsBy
      <3>6. Bounded(d)
        BY <3>1, <3>2, <3>5, <1>3 DEF Bounded
      <3>7. Unread(d) = {}
        BY <3>2, <3>5 DEF Unread
      <3>8. Exact(d)
        BY <3>5, <3>7, FS_EmptySet DEF Exact
      <3>9. size - leave = size
        BY <2>2, <1>3
      <3> QED
        BY <3>2, <3>5, <3>6, <3>8, <3>9
    <2> QED
      BY <2>1, <2>2
  <1> HIDE DEF d
  <1>5. ASSUME NEW n \in 1 .. Top,
               n \in Denotes(d.line), n >= srvFirst[h], h \notin misread
        PROVE  <<h, n>> \in told'
    BY <1>1, <1>4, <1>5 DEF IInv, LinesOK
  <1> QED
    BY <1>1, <1>4, <1>5, NewLine

LEMMA BitsWithin ==
  ASSUME NEW line, IsRcLine(line), NEW f \in Nat, NEW l \in Nat
  PROVE  RcToBits(line, f, l) \subseteq f .. l
  <1> DEFINE leads == line # <<>> /\ line[1].rng /\ line[1].lo = 1
             start == IF leads /\ line[1].hi + 1 > f THEN line[1].hi + 1 ELSE f
  <1>1. leads => line[1].hi \in Nat
    <2>1. line # <<>> => 1 \in 1 .. Len(line)
      BY EmptyIs, LineIs
    <2> QED
      BY <2>1, LineIs
  <1>2. start \in Nat /\ f <= start
    BY <1>1
  <1> HIDE DEF leads
  <1>3. RcToBits(line, f, l) \subseteq start .. l
    BY DEF RcToBits, leads
  <1> HIDE DEF start
  <1> QED
    BY <1>2, <1>3

\* What the reply to GROUP makes of a newsgroup.
LEMMA GroupReplyIs ==
  ASSUME ServerOK, NEW g \in Groups, NEW b, NewsOK(b)
  PROVE  LET d == GroupReply(b, g) IN
         /\ NewsOK(d) /\ d.line = b.line /\ d.toRead = b.toRead
         /\ d.absFirst \in Nat \ {0} /\ d.ngMax \in Nat
         /\ srvFirst[g] <= srvLast[g] => d.absFirst = srvFirst[g] /\ d.ngMax = srvLast[g]
         /\ srvFirst[g] > srvLast[g] => d.absFirst = b.ngMax + 1 /\ d.ngMax = b.ngMax
  <1>1. srvFirst[g] \in Nat \ {0} /\ srvLast[g] \in Nat /\ b.ngMax \in Nat
    BY NewsIs DEF ServerOK
  <1>2. CASE srvFirst[g] > srvLast[g]
    <2> DEFINE after == b.ngMax + 1
    <2>1. after \in Nat \ {0}
      BY <1>1
    <2>2. GroupReply(b, g) = [b EXCEPT !.absFirst = after]
      BY <1>2 DEF GroupReply
    <2>3. ~(srvFirst[g] <= srvLast[g])
      BY <1>1, <1>2
    <2> HIDE DEF after
    <2>4. NewsOK([b EXCEPT !.absFirst = after])
      BY <2>1 DEF NewsOK
    <2>5. /\ [b EXCEPT !.absFirst = after].line = b.line
          /\ [b EXCEPT !.absFirst = after].toRead = b.toRead
          /\ [b EXCEPT !.absFirst = after].ngMax = b.ngMax
          /\ [b EXCEPT !.absFirst = after].absFirst = after
      BY DEF NewsOK
    <2> QED
      BY <1>1, <2>1, <2>2, <2>3, <2>4, <2>5 DEF after
  <1>3. CASE ~(srvFirst[g] > srvLast[g])
    <2> DEFINE d == [b EXCEPT !.absFirst = srvFirst[g], !.ngMax = srvLast[g]]
    <2>1. GroupReply(b, g) = d
      BY <1>3 DEF GroupReply
    <2>2. NewsOK(d)
      BY <1>1 DEF NewsOK
    <2>3. d.line = b.line /\ d.toRead = b.toRead /\ d.ngMax = srvLast[g]
          /\ d.absFirst = srvFirst[g]
      BY DEF NewsOK
    <2> HIDE DEF d
    <2> QED
      BY <1>1, <1>3, <2>1, <2>2, <2>3
  <1> QED
    BY <1>2, <1>3

LEMMA EnterGroupKeeps ==
  ASSUME IInv, NEW h \in Groups, NEW aged \in BOOLEAN, EnterGroup(h, aged) PROVE IInv'
  <1> DEFINE b == news[h]
             d == GroupReply(b, h)
             size == IF srvLast[h] > d.ngMax THEN srvLast[h] ELSE d.ngMax
             line == IF d.absFirst > b.absFirst
                     THEN CheckExpired(d.line, d.absFirst)
                     ELSE d.line
             bits == RcToBits(line, d.absFirst, size)
             here == srvFirst[h] .. srvLast[h]
             new == [line |-> line, toRead |-> Cardinality(unread'),
                     absFirst |-> d.absFirst, ngMax |-> size]
  <1>1. /\ pc = "list" /\ pc' = "reading" /\ cur' = h /\ cached' = h /\ yank' = {}
        /\ first' = d.absFirst /\ last' = size
        /\ unread' = bits \cap here
        /\ news' = [news EXCEPT ![h] = new]
        /\ kchase' = IF cached = h /\ ~aged THEN kchase ELSE {}
        /\ misread' = IF RaisesSingle(line, d.absFirst) \/ Beyond(d, h)
                      THEN misread \cup {h} ELSE misread
        /\ drift' = IF Beyond(d, h) THEN drift \cup {h} ELSE drift \ {h}
        /\ srvFirst' = srvFirst /\ srvLast' = srvLast /\ told' = told
    BY DEF EnterGroup, server
  <1>2. ServerOK /\ NewsOK(b) /\ cur = NoGroup
    BY <1>1 DEF IInv, TypesOK, ServerOK, PlacesOK
  <1>3. /\ srvFirst[h] \in Nat \ {0} /\ srvLast[h] \in Nat \ {0}
        /\ b.absFirst \in Nat /\ b.ngMax \in Nat /\ IsRcLine(b.line)
    BY <1>2, NewsIs DEF ServerOK
  <1>4. /\ NewsOK(d) /\ d.line = b.line
        /\ d.absFirst \in Nat \ {0} /\ d.ngMax \in Nat
        /\ srvFirst[h] <= srvLast[h] => d.absFirst = srvFirst[h] /\ d.ngMax = srvLast[h]
        /\ srvFirst[h] > srvLast[h] => d.absFirst = b.ngMax + 1 /\ d.ngMax = b.ngMax
    BY <1>2, GroupReplyIs
  <1>5. Beyond(d, h) <=> d.absFirst > srvLast[h] + 1
    BY DEF Beyond
  <1> HIDE DEF b, d
  <1>6. /\ size \in Nat /\ d.absFirst <= size + 1
        /\ ~Beyond(d, h) => size = srvLast[h] /\ d.absFirst <= srvFirst[h]
    BY <1>3, <1>4, <1>5
  <1>7. IsRcLine(line) /\ Denotes(line) \subseteq Denotes(b.line) \cup (1 .. d.absFirst - 1)
    <2>1. CASE d.absFirst > b.absFirst
      <3>1. line = CheckExpired(b.line, d.absFirst)
        BY <2>1, <1>4
      <3> HIDE DEF line
      <3> QED
        BY <3>1, <1>3, <1>4, CheckExpiredIs
    <2>2. CASE ~(d.absFirst > b.absFirst)
      <3>1. line = b.line
        BY <2>2, <1>4
      <3> HIDE DEF line
      <3> QED
        BY <3>1, <1>3
    <2> QED
      BY <2>1, <2>2
  <1> HIDE DEF size, line
  <1>8. bits \subseteq d.absFirst .. size
    BY <1>4, <1>6, <1>7, BitsWithin
  <1>9. ASSUME ~RaisesSingle(line, d.absFirst), NEW n \in d.absFirst .. size, n \notin bits
        PROVE  n \in Denotes(line)
    BY <1>9, <1>4, <1>6, <1>7, RcToBitsIs
  <1> HIDE DEF bits
  <1>10. unread' \subseteq d.absFirst .. size /\ IsFiniteSet(unread')
         /\ Cardinality(unread') \in Nat
    <2>1. unread' \subseteq d.absFirst .. size
      BY <1>1, <1>8
    <2>2. IsFiniteSet(d.absFirst .. size)
      <3> DEFINE f == d.absFirst
      <3>1. f \in Int /\ size \in Int
        BY <1>4, <1>6
      <3> HIDE DEF f
      <3>2. IsFiniteSet(f .. size)
        BY <3>1, IntervalSize
      <3> QED
        BY <3>2 DEF f
    <2>3. IsFiniteSet(unread')
      BY <2>1, <2>2, FS_Subset
    <2> QED
      BY <2>1, <2>3, FS_CardinalityType
  <1>11. NewsOK(new)
    BY <1>4, <1>6, <1>7, <1>10, NewsBy
  <1>12. /\ new.line = line /\ new.toRead = Cardinality(unread') /\ new.ngMax = size
    OBVIOUS
  <1> HIDE DEF new
  <1>13. /\ news' = [g \in Groups |-> news'[g]]
         /\ news'[h] = new
         /\ \A g \in Groups : g # h => news'[g] = news[g]
    BY <1>1 DEF IInv, TypesOK
  <1>14. TypesOK'
    <2>1. unread' \in SUBSET Int
      BY <1>4, <1>6, <1>10
    <2>2. \A g \in Groups : NewsOK(news'[g])
      BY <1>11, <1>13 DEF IInv, TypesOK
    <2>3. IsFiniteSet({})
      BY FS_EmptySet
    <2>4. (\A g \in Groups : NewsOK(news[g]))'
      BY <2>2 DEF NewsOK
    <2> QED
      BY <1>1, <1>2, <1>4, <1>6, <1>10, <1>13, <2>1, <2>3, <2>4 DEF TypesOK, ServerOK
  <1>15. PlacesOK'
    BY <1>1, <1>12, <1>13, Constants DEF PlacesOK
  <1>16. ChasesOK'
    BY <1>1 DEF IInv, ChasesOK, Same
  <1>17. ASSUME NEW n \in 1 .. Top, n \in Denotes(line), n >= srvFirst[h], h \notin misread'
         PROVE  <<h, n>> \in told
    <2>1. d.absFirst <= srvFirst[h] /\ h \notin misread
      BY <1>1, <1>6, <1>17
    <2>2. n \in Denotes(b.line)
      BY <2>1, <1>3, <1>4, <1>7, <1>17
    <2> QED
      BY <2>1, <2>2, <1>17 DEF IInv, LinesOK, b
  <1>18. LinesOK'
    <2>1. \A g \in Groups : g \notin misread' => g \notin misread
      BY <1>1
    <2> QED
      BY <2>1, <1>1, <1>12, <1>13, <1>17 DEF IInv, LinesOK
  <1>19. FlagsOK'
    <2> SUFFICES ASSUME h \notin misread'
                 PROVE  /\ d.absFirst <= srvFirst[h] /\ size <= srvLast[h]
                        /\ \A n \in 1 .. Top :
                             n \in d.absFirst .. size /\ n >= srvFirst[h]
                             /\ n \notin unread' => <<h, n>> \in told
      BY <1>1 DEF FlagsOK
    <2>1. ~RaisesSingle(line, d.absFirst) /\ ~Beyond(d, h)
      BY <1>1
    <2>2. size = srvLast[h] /\ d.absFirst <= srvFirst[h]
      BY <2>1, <1>6
    <2>3. ASSUME NEW n \in 1 .. Top, n \in d.absFirst .. size, n >= srvFirst[h],
                 n \notin unread'
          PROVE  <<h, n>> \in told
      <3>1. n \in here
        BY <2>2, <2>3, <1>3
      <3>2. n \in Denotes(line)
        BY <3>1, <2>1, <2>3, <1>1, <1>9
      <3> QED
        BY <3>2, <2>3, <1>17
    <2> QED
      BY <2>2, <2>3, <1>3
  <1>20. FlagsCount'
    <2> SUFFICES ASSUME h \notin drift'
                 PROVE  /\ size <= srvLast[h] /\ d.absFirst <= size + 1
                        /\ unread' \subseteq d.absFirst .. size
                        /\ new.toRead = Cardinality(unread')
      BY <1>1, <1>13 DEF FlagsCount
    <2>1. ~Beyond(d, h)
      BY <1>1
    <2> QED
      BY <2>1, <1>3, <1>6, <1>10, <1>12
  <1>21. LinesCount'
    <2>1. ASSUME NEW g \in Groups \ {h}, news'[g].absFirst # 0
          PROVE  Bounded(news'[g]) /\ (g \notin drift' => Exact(news'[g]))
      <3>1. g \notin drift' => g \notin drift
        BY <1>1
      <3>2. news'[g] = news[g] /\ g \in Groups \ {cur}
        BY <1>2, <1>13, Constants
      <3> QED
        BY <3>1, <3>2, <2>1 DEF IInv, LinesCount
    <2> QED
      BY <2>1, <1>1 DEF LinesCount
  <1> QED
    BY <1>14, <1>15, <1>16, <1>18, <1>19, <1>20, <1>21 DEF IInv

\* A command in the current group: articles become read or unread, and what
\* becomes read was read by the user.
LEMMA NewFlags ==
  ASSUME IInv, pc # "list", pc' \in {"reading", "chasing", "leaving"},
         NEW c \in Int, news' = [news EXCEPT ![cur].toRead = c],
         UNCHANGED <<server, cur, first, last, cached, drift, misread>>,
         unread' \in SUBSET Int, IsFiniteSet(unread'),
         yank' \in SUBSET Int, IsFiniteSet(yank'),
         told \subseteq told',
         \A n \in kchase' : Same(cached, n) \subseteq told',
         \A n \in 1 .. Top :
           n \in first .. last /\ n \in unread /\ n \notin unread' => <<cur, n>> \in told',
         cur \notin drift =>
           unread' \subseteq first .. last /\ yank' \subseteq first .. last
             /\ c = Cardinality(unread')
  PROVE  IInv'
  <1>1. /\ srvFirst' = srvFirst /\ srvLast' = srvLast /\ cur' = cur /\ first' = first
        /\ last' = last /\ cached' = cached /\ drift' = drift /\ misread' = misread
        /\ cur \in Groups /\ cur # NoGroup
    BY Constants DEF server, IInv, PlacesOK, TypesOK
  <1> DEFINE d == [news[cur] EXCEPT !.toRead = c]
  <1>2. /\ news' = [g \in Groups |-> news'[g]]
        /\ news'[cur] = d
        /\ \A g \in Groups : g # cur => news'[g] = news[g]
    BY <1>1 DEF IInv, TypesOK
  <1>3. NewsOK(news[cur])
    BY <1>1 DEF IInv, TypesOK
  <1>4. /\ NewsOK(d) /\ d.line = news[cur].line /\ d.toRead = c
        /\ d.ngMax = news[cur].ngMax
    BY <1>3 DEF NewsOK
  <1> HIDE DEF d
  <1>5. TypesOK'
    <2>1. \A g \in Groups : NewsOK(news'[g])
      BY <1>2, <1>4 DEF IInv, TypesOK
    <2>2. (\A g \in Groups : NewsOK(news[g]))'
      BY <2>1 DEF NewsOK
    <2> QED
      BY <1>1, <1>2, <2>2 DEF IInv, TypesOK
  <1>6. PlacesOK'
    BY <1>1, <1>2, <1>4 DEF IInv, PlacesOK
  <1>7. ChasesOK'
    BY <1>1 DEF ChasesOK
  <1>8. LinesOK'
    <2>1. \A g \in Groups : news'[g].line = news[g].line
      BY <1>2, <1>4
    <2> QED
      BY <2>1, <1>1 DEF IInv, LinesOK
  <1>9. FlagsOK'
    BY <1>1 DEF IInv, FlagsOK
  <1>10. FlagsCount'
    BY <1>1, <1>2, <1>4 DEF IInv, FlagsCount
  <1>11. LinesCount'
    <2>1. ASSUME NEW g \in Groups \ {cur}, news'[g].absFirst # 0
          PROVE  Bounded(news'[g]) /\ (g \notin drift' => Exact(news'[g]))
      BY <2>1, <1>1, <1>2 DEF IInv, LinesCount
    <2> QED
      BY <2>1, <1>1 DEF LinesCount
  <1> QED
    BY <1>5, <1>6, <1>7, <1>8, <1>9, <1>10, <1>11 DEF IInv

\* What the commands know of the current group.
LEMMA Here ==
  ASSUME IInv, pc # "list"
  PROVE  /\ cur \in Groups /\ cur # NoGroup /\ cached = cur
         /\ first \in Nat \ {0} /\ last \in Nat
         /\ NewsOK(news[cur]) /\ news[cur].toRead \in Int /\ news[cur].ngMax = last
         /\ unread \in SUBSET Int /\ IsFiniteSet(unread)
         /\ yank \in SUBSET Int /\ IsFiniteSet(yank)
         /\ cur \notin drift =>
              /\ last <= srvLast[cur] /\ first <= last + 1
              /\ unread \subseteq first .. last /\ yank \subseteq first .. last
              /\ news[cur].toRead = Cardinality(unread)
  BY NewsIs, Constants DEF IInv, PlacesOK, TypesOK, FlagsCount

LEMMA MarkAsReadKeeps ==
  ASSUME IInv, NEW n \in 1 .. Top, MarkAsRead(n) PROVE IInv'
  <1> DEFINE c == news[cur].toRead - Cardinality({n} \cap unread)
  <1>1. /\ pc = "reading" /\ pc' = pc /\ n \in first .. last
        /\ unread' = unread \ {n}
        /\ news' = [news EXCEPT ![cur].toRead = c]
        /\ \A m \in kchase' : m \in kchase \/ m = n
        /\ told' = told \cup Same(cur, n)
        /\ UNCHANGED <<server, cur, first, last, cached, drift, misread, yank>>
    BY DEF MarkAsRead, Command, OneLess
  <1>2. /\ IsFiniteSet(unread') /\ unread' \in SUBSET Int /\ c \in Int
        /\ news[cur].toRead = Cardinality(unread) => c = Cardinality(unread')
    <2> DEFINE nums == {n}
               rest == unread \ nums
    <2>1. unread' = rest /\ c = news[cur].toRead - Cardinality(nums \cap unread)
      BY <1>1
    <2>2. IsFiniteSet(unread) /\ unread \in SUBSET Int /\ news[cur].toRead \in Int
      BY <1>1, Here
    <2> HIDE DEF nums, c
    <2>3. /\ IsFiniteSet(rest) /\ rest \in SUBSET Int
          /\ Cardinality(unread) \in Nat /\ Cardinality(nums \cap unread) \in Nat
          /\ Cardinality(rest) = Cardinality(unread) - Cardinality(nums \cap unread)
      BY <2>2, Fewer
    <2> HIDE DEF rest
    <2> QED
      BY <2>1, <2>2, <2>3
  <1>3. \A m \in kchase' : Same(cached, m) \subseteq told'
    BY <1>1, Here DEF IInv, ChasesOK
  <1>4. <<cur, n>> \in told'
    BY <1>1 DEF Same
  <1> HIDE DEF c
  <1> QED
    BY <1>1, <1>2, <1>3, <1>4, Here, NewFlags

\* Articles of the group return.
LEMMA ReturnOf ==
  ASSUME IInv, pc = "reading", NEW nums \in SUBSET Int, IsFiniteSet(nums),
         Unmark(nums), cur \notin drift => nums \subseteq first .. last,
         UNCHANGED <<server, cur, first, last, cached, kchase, pc, told, drift, misread>>,
         yank' \in SUBSET yank
  PROVE  IInv'
  <1> DEFINE c == news[cur].toRead + Cardinality(nums \ unread)
  <1>1. unread' = unread \cup nums /\ news' = [news EXCEPT ![cur].toRead = c]
    BY DEF Unmark, OneMore
  <1>2. /\ IsFiniteSet(unread') /\ unread' \in SUBSET Int /\ c \in Int
        /\ news[cur].toRead = Cardinality(unread) => c = Cardinality(unread')
    BY <1>1, Here, More
  <1>3. yank' \in SUBSET Int /\ IsFiniteSet(yank')
    BY Here, FS_Subset
  <1>4. \A m \in kchase' : Same(cached, m) \subseteq told'
    BY DEF IInv, ChasesOK
  <1> HIDE DEF c
  <1> QED
    BY <1>1, <1>2, <1>3, <1>4, Here, NewFlags

LEMMA UnmarkAsReadKeeps ==
  ASSUME IInv, NEW n \in 1 .. Top, UnmarkAsRead(n) PROVE IInv'
  <1>1. /\ pc = "reading" /\ n \in first .. last /\ Unmark({n})
        /\ UNCHANGED <<server, cur, first, last, cached, kchase, pc, told, drift, misread>>
        /\ yank' = yank
    BY DEF UnmarkAsRead, Command
  <1>2. IsFiniteSet({n}) /\ {n} \in SUBSET Int
    <2>1. {n} \in SUBSET Int
      OBVIOUS
    <2> QED
      BY <2>1, FS_Singleton
  <1> QED
    BY <1>1, <1>2, ReturnOf

LEMMA YankBackKeeps ==
  ASSUME IInv, YankBack PROVE IInv'
  <1>1. /\ pc = "reading" /\ Unmark(yank)
        /\ UNCHANGED <<server, cur, first, last, cached, kchase, pc, told, drift, misread>>
        /\ yank' = {}
    BY DEF YankBack, Returned
  <1> QED
    BY <1>1, Here, ReturnOf

LEMMA DelayUnmarkKeeps ==
  ASSUME IInv, NEW n \in 1 .. Top, DelayUnmark(n) PROVE IInv'
  <1> DEFINE c == news[cur].toRead - Cardinality({n} \cap unread)
  <1>1. /\ pc = "reading" /\ pc' = pc /\ n \in first .. last
        /\ unread' = unread \ {n}
        /\ news' = [news EXCEPT ![cur].toRead = c]
        /\ yank' = yank \cup {n}
        /\ told' = told \cup {<<cur, n>>}
        /\ UNCHANGED <<server, cur, first, last, cached, kchase, drift, misread>>
    BY DEF DelayUnmark, Command, OneLess, cache, chase
  <1>2. /\ IsFiniteSet(unread') /\ unread' \in SUBSET Int /\ c \in Int
        /\ news[cur].toRead = Cardinality(unread) => c = Cardinality(unread')
    <2> DEFINE nums == {n}
               rest == unread \ nums
    <2>1. unread' = rest /\ c = news[cur].toRead - Cardinality(nums \cap unread)
      BY <1>1
    <2>2. IsFiniteSet(unread) /\ unread \in SUBSET Int /\ news[cur].toRead \in Int
      BY <1>1, Here
    <2> HIDE DEF nums, c
    <2>3. /\ IsFiniteSet(rest) /\ rest \in SUBSET Int
          /\ Cardinality(unread) \in Nat /\ Cardinality(nums \cap unread) \in Nat
          /\ Cardinality(rest) = Cardinality(unread) - Cardinality(nums \cap unread)
      BY <2>2, Fewer
    <2> HIDE DEF rest
    <2> QED
      BY <2>1, <2>2, <2>3
  <1>3. yank' \in SUBSET Int /\ IsFiniteSet(yank')
    BY <1>1, Here, FS_AddElement
  <1>4. \A m \in kchase' : Same(cached, m) \subseteq told'
    BY <1>1 DEF IInv, ChasesOK
  <1> HIDE DEF c
  <1> QED
    BY <1>1, <1>2, <1>3, <1>4, Here, NewFlags

LEMMA MarkAllReadKeeps ==
  ASSUME IInv, MarkAllRead PROVE IInv'
  <1> DEFINE c == Cardinality(yank)
  <1>1. /\ pc = "reading" /\ pc' = pc
        /\ unread' = yank
        /\ news' = [news EXCEPT ![cur].toRead = c]
        /\ yank' = {}
        /\ told' = told \cup ({cur} \X (first .. last))
        /\ UNCHANGED <<server, cur, first, last, cached, kchase, drift, misread>>
    BY DEF MarkAllRead
  <1>2. c \in Int /\ c = Cardinality(unread')
    BY <1>1, Here, FS_CardinalityType
  <1>3. {} \in SUBSET Int /\ IsFiniteSet({})
    BY FS_EmptySet
  <1>4. \A m \in kchase' : Same(cached, m) \subseteq told'
    BY <1>1 DEF IInv, ChasesOK
  <1> HIDE DEF c
  <1> QED
    BY <1>1, <1>2, <1>3, <1>4, Here, NewFlags

\* A walk begins or ends.
LEMMA WalkKeeps ==
  ASSUME IInv, pc # "list", pc' \in {"reading", "chasing", "leaving"},
         UNCHANGED <<server, news, reading, cache, history>>
  PROVE  IInv'
  <1>1. /\ srvFirst' = srvFirst /\ srvLast' = srvLast /\ news' = news /\ cur' = cur
        /\ first' = first /\ last' = last /\ cached' = cached /\ kchase' = kchase
        /\ unread' = unread /\ yank' = yank /\ told' = told
        /\ drift' = drift /\ misread' = misread
    BY DEF server, reading, cache, history
  <1>2. TypesOK'
    BY <1>1 DEF IInv, TypesOK
  <1>3. PlacesOK'
    BY <1>1 DEF IInv, PlacesOK
  <1>4. ChasesOK' /\ LinesOK'
    BY <1>1 DEF IInv, ChasesOK, LinesOK
  <1>5. FlagsOK' /\ FlagsCount'
    BY <1>1 DEF IInv, FlagsOK, FlagsCount
  <1>6. LinesCount'
    BY <1>1 DEF IInv, LinesCount
  <1> QED
    BY <1>2, <1>3, <1>4, <1>5, <1>6 DEF IInv

\* New articles at the end of the group.
LEMMA GrowNewsgroupKeeps ==
  ASSUME IInv, GrowNewsgroup PROVE IInv'
  <1> DEFINE d == GroupReply(news[cur], cur)
             new == (last + 1 .. d.ngMax) \cap (srvFirst[cur] .. srvLast[cur])
             c == d.toRead + Cardinality(new)
             e == [d EXCEPT !.toRead = c]
  <1>1. /\ pc = "reading" /\ pc' = pc
        /\ last' = d.ngMax
        /\ unread' = unread \cup new
        /\ news' = [news EXCEPT ![cur] = e]
        /\ UNCHANGED <<server, cur, first, yank, cached, kchase, told, drift, misread>>
    BY DEF GrowNewsgroup, cache, chase, history
  <1>2. /\ cur \in Groups /\ cur # NoGroup /\ cached = cur
        /\ first \in Nat \ {0} /\ last \in Nat
        /\ NewsOK(news[cur]) /\ news[cur].ngMax = last
        /\ unread \in SUBSET Int /\ IsFiniteSet(unread)
        /\ ServerOK /\ srvFirst' = srvFirst /\ srvLast' = srvLast
        /\ srvFirst[cur] \in Nat \ {0} /\ srvLast[cur] \in Nat
    BY <1>1, Here DEF IInv, TypesOK, ServerOK, server
  <1>3. /\ NewsOK(d) /\ d.line = news[cur].line /\ d.toRead = news[cur].toRead
        /\ d.absFirst \in Nat \ {0} /\ d.ngMax \in Nat /\ d.toRead \in Int
        /\ srvFirst[cur] <= srvLast[cur] => d.ngMax = srvLast[cur]
        /\ srvFirst[cur] > srvLast[cur] => d.ngMax = last
    BY <1>2, GroupReplyIs, NewsIs
  <1> HIDE DEF d
  <1>4. /\ new \subseteq last + 1 .. d.ngMax /\ new \in SUBSET Int
        /\ IsFiniteSet(new) /\ Cardinality(new) \in Nat
    <2> DEFINE a == last + 1
    <2>1. a \in Int
      BY <1>2
    <2> HIDE DEF a
    <2>2. IsFiniteSet(a .. d.ngMax)
      BY <2>1, <1>3, IntervalSize
    <2>3. new \subseteq a .. d.ngMax
      BY DEF a
    <2> HIDE DEF new
    <2>4. IsFiniteSet(new)
      BY <2>2, <2>3, FS_Subset
    <2> QED
      BY <2>3, <2>4, FS_CardinalityType DEF a
  <1>5. ASSUME NEW n \in last + 1 .. d.ngMax, n >= srvFirst[cur] PROVE n \in new
    BY <1>5, <1>2, <1>3
  <1> HIDE DEF new
  <1>6. c \in Int
    BY <1>3, <1>4
  <1> HIDE DEF c
  <1>7. NewsOK(e) /\ e.line = news[cur].line /\ e.toRead = c /\ e.ngMax = d.ngMax
    BY <1>3, <1>6 DEF NewsOK
  <1> HIDE DEF e
  <1>8. /\ news' = [g \in Groups |-> news'[g]]
        /\ news'[cur] = e
        /\ \A g \in Groups : g # cur => news'[g] = news[g]
    BY <1>1, <1>2 DEF IInv, TypesOK
  <1>9. IsFiniteSet(unread') /\ unread' \in SUBSET Int
    BY <1>1, <1>2, <1>4, FS_Union
  <1>10. TypesOK'
    <2>1. \A g \in Groups : NewsOK(news'[g])
      BY <1>7, <1>8 DEF IInv, TypesOK
    <2>2. (\A g \in Groups : NewsOK(news[g]))'
      BY <2>1 DEF NewsOK
    <2> QED
      BY <1>1, <1>2, <1>3, <1>8, <1>9, <2>2 DEF IInv, TypesOK
  <1>11. PlacesOK'
    BY <1>1, <1>2, <1>7, <1>8 DEF IInv, PlacesOK
  <1>12. ChasesOK'
    BY <1>1 DEF IInv, ChasesOK
  <1>13. LinesOK'
    <2>1. \A g \in Groups : news'[g].line = news[g].line
      BY <1>7, <1>8
    <2> QED
      BY <2>1, <1>1, <1>2 DEF IInv, LinesOK
  <1>14. FlagsOK'
    <2> SUFFICES ASSUME cur \notin misread
                 PROVE  /\ first <= srvFirst[cur] /\ d.ngMax <= srvLast[cur]
                        /\ \A n \in 1 .. Top :
                             n \in first .. d.ngMax /\ n >= srvFirst[cur]
                             /\ n \notin unread' => <<cur, n>> \in told
      BY <1>1, <1>2 DEF FlagsOK
    <2>1. /\ first <= srvFirst[cur] /\ last <= srvLast[cur]
          /\ \A n \in 1 .. Top :
               n \in first .. last /\ n >= srvFirst[cur] /\ n \notin unread
                 => <<cur, n>> \in told
      BY <1>2 DEF IInv, FlagsOK
    <2>2. ASSUME NEW n \in 1 .. Top, n \in first .. d.ngMax, n >= srvFirst[cur],
                 n \notin unread'
          PROVE  <<cur, n>> \in told
      <3>1. ~(n \in last + 1 .. d.ngMax)
        BY <2>2, <1>1, <1>5
      <3>2. n \in first .. last
        BY <2>2, <3>1, <1>2, <1>3
      <3> QED
        BY <2>1, <2>2, <3>2, <1>1
    <2> QED
      BY <2>1, <2>2, <1>2, <1>3
  <1>15. FlagsCount'
    <2> SUFFICES ASSUME cur \notin drift
                 PROVE  /\ d.ngMax <= srvLast[cur] /\ first <= d.ngMax + 1
                        /\ unread' \subseteq first .. d.ngMax
                        /\ yank \subseteq first .. d.ngMax
                        /\ c = Cardinality(unread')
      BY <1>1, <1>2, <1>7, <1>8 DEF FlagsCount
    <2>1. /\ last <= srvLast[cur] /\ first <= last + 1
          /\ unread \subseteq first .. last /\ yank \subseteq first .. last
          /\ news[cur].toRead = Cardinality(unread)
      BY <1>1, Here
    <2>2. d.ngMax <= srvLast[cur] /\ last <= d.ngMax
      BY <2>1, <1>2, <1>3
    <2>3. first .. last \subseteq first .. d.ngMax
          /\ last + 1 .. d.ngMax \subseteq first .. d.ngMax
          /\ first <= d.ngMax + 1
      BY <2>1, <2>2, <1>2, <1>3
    <2>4. new \ unread = new
      <3>1. \A n \in unread : ~(n \in last + 1 .. d.ngMax)
        BY <2>1, <1>2
      <3> QED
        BY <3>1, <1>4
    <2>5. Cardinality(unread') = Cardinality(unread) + Cardinality(new)
      BY <2>4, <1>1, <1>2, <1>4, More
    <2> QED
      BY <2>1, <2>2, <2>3, <2>5, <1>1, <1>3, <1>4 DEF c
  <1>16. LinesCount'
    <2>1. ASSUME NEW g \in Groups \ {cur}, news'[g].absFirst # 0
          PROVE  Bounded(news'[g]) /\ (g \notin drift' => Exact(news'[g]))
      BY <2>1, <1>1, <1>8 DEF IInv, LinesCount
    <2> QED
      BY <2>1, <1>1 DEF LinesCount
  <1> QED
    BY <1>10, <1>11, <1>12, <1>13, <1>14, <1>15, <1>16 DEF IInv

-------------------------------------------------------------------------------
(* The chase of one article.                                               *)

NewsSound(nw) ==
  /\ nw = [g \in Groups |-> nw[g]]
  /\ \A g \in Groups : NewsOK(nw[g])

\* What chase_xref does to the newsgroups and to the flags of this one.
Chases(t, s, n, read) ==
  /\ NewsSound(t.news)
  /\ t.news[cur].line = s.news[cur].line /\ t.news[cur].ngMax = s.news[cur].ngMax
  /\ t.unread \in SUBSET Int /\ IsFiniteSet(t.unread)
  /\ t.unread \subseteq s.unread \cup (first .. last)
  /\ s.news[cur].toRead = Cardinality(s.unread) =>
       t.news[cur].toRead = Cardinality(t.unread)
  /\ \A m \in s.unread \ t.unread : read /\ <<cur, m>> \in Same(cur, n)
  /\ \A g \in Groups \ {cur} :
       \/ t.news[g] = s.news[g]
       \/ read /\ \E x \in Numbers(g, Same(cur, n)) : Added(t.news[g], s.news[g], g, x)
       \/ ~read /\ Subbed(t.news[g], s.news[g])

LEMMA ChasedIs ==
  ASSUME ServerOK, cur \in Groups, first \in Nat, last \in Nat,
         NEW s, NewsSound(s.news), s.unread \in SUBSET Int, IsFiniteSet(s.unread),
         NEW n, NEW read \in BOOLEAN
  PROVE  Chases(Chased(s, n, read), s, n, read)
  <1> DEFINE here == Numbers(cur, Same(cur, n)) \cap (first .. last)
             Elsewhere(g) == Numbers(g, Same(cur, n))
             x(g) == CHOOSE x \in Elsewhere(g) : TRUE
             NewIn(g) == IF read THEN AddIn(s.news[g], g, x(g)) ELSE SubIn(s.news[g], x(g))
             delta == IF read THEN - Cardinality(here \cap s.unread)
                              ELSE Cardinality(here \ s.unread)
             count == s.news[cur].toRead + delta
             now == IF read THEN s.unread \ here ELSE s.unread \cup here
             Of(g) == IF g = cur THEN [s.news[g] EXCEPT !.toRead = @ + delta]
                      ELSE IF Elsewhere(g) = {} THEN s.news[g]
                      ELSE NewIn(g)
             t == Chased(s, n, read)
  <1>1. t.unread = now /\ t.news = [g \in Groups |-> Of(g)]
    BY DEF Chased
  <1> HIDE DEF t
  <1>2. here \in SUBSET Int /\ here \subseteq first .. last /\ IsFiniteSet(here)
        /\ \A m \in here : <<cur, m>> \in Same(cur, n)
    <2>1. here \subseteq first .. last
      OBVIOUS
    <2>2. IsFiniteSet(first .. last)
      BY IntervalSize
    <2>3. \A m \in here : <<cur, m>> \in Same(cur, n)
      BY DEF Numbers
    <2> HIDE DEF here
    <2>4. IsFiniteSet(here)
      BY <2>1, <2>2, FS_Subset
    <2> QED
      BY <2>1, <2>3, <2>4
  <1> HIDE DEF here
  <1>3. s.news[cur].toRead \in Int /\ NewsOK(s.news[cur])
    BY NewsIs DEF NewsSound
  <1>4. /\ now \in SUBSET Int /\ IsFiniteSet(now) /\ delta \in Int
        /\ Cardinality(now) = Cardinality(s.unread) + delta
        /\ now \subseteq s.unread \cup (first .. last)
        /\ \A m \in s.unread \ now : read /\ <<cur, m>> \in Same(cur, n)
    <2>1. CASE read
      <3> DEFINE rest == s.unread \ here
      <3>1. now = rest /\ delta = - Cardinality(here \cap s.unread)
        BY <2>1
      <3>2. rest \in SUBSET Int /\ rest \subseteq s.unread
            /\ \A m \in s.unread \ rest : m \in here
        OBVIOUS
      <3>3. /\ IsFiniteSet(rest) /\ Cardinality(s.unread) \in Nat
            /\ Cardinality(here \cap s.unread) \in Nat
            /\ Cardinality(rest) = Cardinality(s.unread) - Cardinality(here \cap s.unread)
        BY Fewer
      <3> HIDE DEF rest, now, delta
      <3>4. delta \in Int /\ Cardinality(now) = Cardinality(s.unread) + delta
        BY <3>1, <3>3
      <3> QED
        BY <2>1, <3>1, <3>2, <3>3, <3>4, <1>2
    <2>2. CASE ~read
      <3> DEFINE all == s.unread \cup here
      <3>1. now = all /\ delta = Cardinality(here \ s.unread)
        BY <2>2
      <3>2. all \in SUBSET Int /\ all \subseteq s.unread \cup (first .. last)
            /\ s.unread \ all = {}
        BY <1>2
      <3>3. /\ IsFiniteSet(all) /\ Cardinality(s.unread) \in Nat
            /\ Cardinality(here \ s.unread) \in Nat
            /\ Cardinality(all) = Cardinality(s.unread) + Cardinality(here \ s.unread)
        BY <1>2, More
      <3> HIDE DEF all, now, delta
      <3>4. delta \in Int /\ Cardinality(now) = Cardinality(s.unread) + delta
        BY <3>1, <3>3
      <3> QED
        BY <2>2, <3>1, <3>2, <3>3, <3>4
    <2> QED
      BY <2>1, <2>2
  <1> HIDE DEF now, delta
  <1>5. count \in Int
    BY <1>3, <1>4
  <1>6. /\ t.news[cur] = [s.news[cur] EXCEPT !.toRead = count]
    BY <1>1
  <1> HIDE DEF count
  <1>7. /\ NewsOK(t.news[cur]) /\ t.news[cur].line = s.news[cur].line
        /\ t.news[cur].ngMax = s.news[cur].ngMax /\ t.news[cur].toRead = count
    BY <1>3, <1>5, <1>6 DEF NewsOK
  <1>8. ASSUME NEW g \in Groups \ {cur}
        PROVE  /\ NewsOK(t.news[g])
               /\ \/ t.news[g] = s.news[g]
                  \/ read /\ \E k \in Elsewhere(g) : Added(t.news[g], s.news[g], g, k)
                  \/ ~read /\ Subbed(t.news[g], s.news[g])
    <2>1. NewsOK(s.news[g])
      BY DEF NewsSound
    <2>2. CASE Elsewhere(g) = {}
      <3>1. t.news[g] = s.news[g]
        BY <2>2, <1>1
      <3> QED
        BY <2>1, <3>1
    <2>3. CASE Elsewhere(g) # {}
      <3>1. x(g) \in Elsewhere(g)
        BY <2>3
      <3>2. x(g) \in Nat \ {0}
        <4>1. \A k \in Elsewhere(g) : k \in Nat \ {0}
          BY Constants DEF Numbers
        <4> HIDE DEF x
        <4> QED
          BY <3>1, <4>1
      <3>3. CASE read
        <4>1. t.news[g] = AddIn(s.news[g], g, x(g))
          BY <2>3, <3>3, <1>1
        <4> HIDE DEF x, Elsewhere
        <4>2. Added(t.news[g], s.news[g], g, x(g))
          BY <4>1, <2>1, <3>2, AddInIs
        <4> QED
          BY <4>2, <3>1, <3>3 DEF Added
      <3>4. CASE ~read
        <4>1. t.news[g] = SubIn(s.news[g], x(g))
          BY <2>3, <3>4, <1>1
        <4> HIDE DEF x, Elsewhere
        <4>2. Subbed(t.news[g], s.news[g])
          BY <4>1, <2>1, SubInIs
        <4> QED
          BY <4>2, <3>4 DEF Subbed
      <3> QED
        BY <3>3, <3>4
    <2> QED
      BY <2>2, <2>3
  <1>9. NewsSound(t.news)
    BY <1>1, <1>7, <1>8 DEF NewsSound
  <1>10. s.news[cur].toRead = Cardinality(s.unread) => t.news[cur].toRead = Cardinality(t.unread)
    BY <1>1, <1>4, <1>7 DEF count
  <1>11. Chases(t, s, n, read)
    BY <1>1, <1>4, <1>7, <1>8, <1>9, <1>10 DEF Chases
  <1> QED
    BY <1>11 DEF t

LEMMA ChaseArticleKeeps ==
  ASSUME IInv, NEW n \in 1 .. Top, ChaseArticle(n) PROVE IInv'
  <1> DEFINE s == [count |-> chaseCount, unread |-> unread, news |-> news]
             read == n \in kchase
             t == IF read THEN Chased(s, n, TRUE) ELSE s
             u == Chased(t, n, FALSE)
             Wrong(g) == read /\ \E x \in Numbers(g, Same(cur, n)) : Overreads(news[g], g, x)
             Off(g) == read /\ \E x \in Numbers(g, Same(cur, n)) : Uncounted(news[g], g, x)
  <1>1. /\ pc \in {"chasing", "leaving"} /\ pc' = pc
        /\ kchase' = kchase \ {n}
        /\ \/ unread' = u.unread /\ news' = u.news
           \/ unread' = t.unread /\ news' = t.news
        /\ drift' = drift \cup {g \in Groups \ {cur} : Off(g)}
                          \cup {g \in Groups \ {cur} : Wrong(g)}
        /\ misread' = misread \cup {g \in Groups \ {cur} : Wrong(g)}
        /\ UNCHANGED <<server, cur, first, last, yank, cached, told>>
    BY Zenon DEF ChaseArticle, CheckChase, ChasedTo
  <1>2. /\ cur \in Groups /\ cur # NoGroup /\ cached = cur
        /\ first \in Nat \ {0} /\ last \in Nat
        /\ unread \in SUBSET Int /\ IsFiniteSet(unread)
        /\ yank \in SUBSET Int /\ IsFiniteSet(yank)
        /\ ServerOK /\ NewsSound(news) /\ news[cur].ngMax = last
        /\ srvFirst' = srvFirst /\ srvLast' = srvLast
    BY <1>1, Here DEF IInv, TypesOK, ServerOK, server, NewsSound
  <1>3. s.news = news /\ s.unread = unread
    OBVIOUS
  <1> HIDE DEF s
  <1>4. \/ read /\ Chases(t, s, n, TRUE)
        \/ ~read /\ t = s
    BY <1>2, <1>3, ChasedIs
  <1>5. NewsSound(t.news) /\ t.unread \in SUBSET Int /\ IsFiniteSet(t.unread)
    BY <1>2, <1>3, <1>4 DEF Chases
  <1> HIDE DEF t
  <1>6. Chases(u, t, n, FALSE)
    BY <1>2, <1>5, ChasedIs
  <1> HIDE DEF u
  \* The articles of the current group.
  <1>7. read => Same(cur, n) \subseteq told
    BY <1>2 DEF IInv, ChasesOK
  <1>8. /\ news'[cur].line = news[cur].line /\ news'[cur].ngMax = last
        /\ unread' \in SUBSET Int /\ IsFiniteSet(unread')
        /\ unread' \subseteq unread \cup (first .. last)
        /\ NewsSound(news')
        /\ news[cur].toRead = Cardinality(unread) => news'[cur].toRead = Cardinality(unread')
    BY <1>1, <1>2, <1>3, <1>4, <1>5, <1>6 DEF Chases
  <1>9. \A m \in unread \ unread' : <<cur, m>> \in told
    BY <1>1, <1>3, <1>4, <1>6, <1>7 DEF Chases
  \* The lines of the other groups.
  <1> DEFINE Told(d, g) ==
               g \notin misread' =>
                 \A k \in 1 .. Top :
                   k \in Denotes(d.line) /\ k >= srvFirst[g] => <<g, k>> \in told
             Right(d, g) ==
               d.absFirst # 0 => Bounded(d) /\ (g \notin drift' => Exact(d))
  <1>10. ASSUME NEW g \in Groups \ {cur}
         PROVE  Told(news[g], g) /\ Right(news[g], g)
    BY <1>1 DEF IInv, LinesOK, LinesCount
  <1>11. ASSUME NEW g \in Groups \ {cur}
         PROVE  Told(t.news[g], g) /\ Right(t.news[g], g)
    <2>1. CASE t.news[g] = news[g]
      <3>1. Told(news[g], g) /\ Right(news[g], g)
        BY <1>10
      <3> HIDE DEF Told, Right
      <3> QED
        BY <2>1, <3>1
    <2>2. CASE read /\ \E x \in Numbers(g, Same(cur, n)) : Added(t.news[g], news[g], g, x)
      <3> DEFINE d == t.news[g]
                 b == news[g]
      <3>1. PICK x \in Numbers(g, Same(cur, n)) : Added(d, b, g, x)
        BY <2>2
      <3>2. <<g, x>> \in told
        BY <2>2, <1>7 DEF Numbers
      <3>3. /\ Overreads(b, g, x) => g \in misread' /\ g \in drift'
            /\ Uncounted(b, g, x) => g \in drift'
        BY <2>2, <1>1
      <3>4. srvFirst[g] \in Nat \ {0}
        BY <1>2 DEF ServerOK
      <3>5. Told(b, g) /\ Right(b, g)
        BY <1>10
      <3> HIDE DEF d, b
      <3>6. ASSUME g \notin misread', NEW k \in 1 .. Top, k \in Denotes(d.line),
                   k >= srvFirst[g]
            PROVE  <<g, k>> \in told
        <4>1. k \in Denotes(b.line) \cup (1 .. srvFirst[g] - 1) \cup {x}
          BY <3>1, <3>3, <3>6 DEF Added
        <4>2. ~(k \in 1 .. srvFirst[g] - 1)
          BY <3>4, <3>6
        <4> QED
          BY <4>1, <4>2, <3>2, <3>5, <3>6
      <3>7. Right(d, g)
        BY <3>1, <3>3, <3>5 DEF Added
      <3> QED
        BY <3>6, <3>7 DEF d
    <2> QED
      BY <2>1, <2>2, <1>3, <1>4 DEF Chases
  <1>12. ASSUME NEW g \in Groups \ {cur}
         PROVE  Told(u.news[g], g) /\ Right(u.news[g], g)
    <2>1. Told(t.news[g], g) /\ Right(t.news[g], g)
      BY <1>11
    <2>2. u.news[g] = t.news[g] \/ Subbed(u.news[g], t.news[g])
      BY <1>6 DEF Chases
    <2> QED
      BY <2>1, <2>2 DEF Subbed
  <1>13. ASSUME NEW g \in Groups \ {cur}
         PROVE  Told(news'[g], g) /\ Right(news'[g], g)
    BY <1>1, <1>11, <1>12
  <1>14. TypesOK'
    <2>1. news' = [g \in Groups |-> news'[g]] /\ \A g \in Groups : NewsOK(news'[g])
      BY <1>8 DEF NewsSound
    <2>2. (\A g \in Groups : NewsOK(news[g]))'
      BY <2>1 DEF NewsOK
    <2> QED
      BY <1>1, <1>2, <1>8, <2>1, <2>2 DEF IInv, TypesOK
  <1>15. PlacesOK'
    BY <1>1, <1>2, <1>8 DEF IInv, PlacesOK
  <1>16. ChasesOK'
    BY <1>1 DEF IInv, ChasesOK
  <1>17. LinesOK'
    <2>1. cur \notin misread' => cur \notin misread
      BY <1>1
    <2> QED
      BY <2>1, <1>1, <1>2, <1>8, <1>13 DEF IInv, LinesOK
  <1>18. FlagsOK'
    <2> SUFFICES ASSUME cur \notin misread'
                 PROVE  /\ first <= srvFirst[cur] /\ last <= srvLast[cur]
                        /\ \A m \in 1 .. Top :
                             m \in first .. last /\ m >= srvFirst[cur]
                             /\ m \notin unread' => <<cur, m>> \in told
      BY <1>1, <1>2 DEF FlagsOK
    <2>1. cur \notin misread
      BY <1>1
    <2> QED
      BY <2>1, <1>2, <1>9 DEF IInv, FlagsOK
  <1>19. FlagsCount'
    <2>1. cur \notin drift' => cur \notin drift
      BY <1>1
    <2> QED
      BY <2>1, <1>1, <1>2, <1>8 DEF IInv, FlagsCount
  <1>20. LinesCount'
    BY <1>1, <1>13 DEF LinesCount
  <1> QED
    BY <1>14, <1>15, <1>16, <1>17, <1>18, <1>19, <1>20 DEF IInv

-------------------------------------------------------------------------------
(* The line is written.                                                    *)

Written(line, bits, f, l) ==
  /\ IsRcLine(line)
  /\ \A n \in Denotes(line) : n \in 1 .. l /\ (n \in f .. l => n \notin bits)
  /\ \A e \in Range(line) : e.hi <= l
  /\ Cardinality((1 .. l) \ Denotes(line)) = Cardinality(bits \cap (f .. l))
  /\ Cardinality(bits \cap (f .. l)) \in Nat

LEMMA BitsAre ==
  ASSUME NEW bits \in SUBSET Int, NEW f \in Nat \ {0}, NEW l \in Nat
  PROVE  Written(BitsToRc(bits, f, l), bits, f, l)
  <1> DEFINE line == BitsToRc(bits, f, l)
             here == bits \cap (f .. l)
  <1>1. /\ IsRcLine(line)
        /\ Denotes(line) = (1 .. l) \ here
        /\ \A e \in Range(line) : e.hi <= l
    BY BitsToRcIs
  <1>2. here \subseteq 1 .. l
    OBVIOUS
  <1>3. IsFiniteSet(1 .. l)
    BY IntervalSize
  <1>4. \A n \in f .. l : n \notin here => n \notin bits
    OBVIOUS
  <1> HIDE DEF line, here
  <1>5. IsFiniteSet(here)
    BY <1>2, <1>3, FS_Subset
  <1>6. Cardinality(here) \in Nat
    BY <1>5, FS_CardinalityType
  <1>7. Cardinality((1 .. l) \ Denotes(line)) = Cardinality(here)
    <2>1. (1 .. l) \ Denotes(line) = here
      BY <1>1, <1>2
    <2> QED
      BY <2>1, Zenon
  <1> QED
    BY <1>1, <1>4, <1>6, <1>7 DEF line, here, Written

\* The line written from flags with more unread articles than the group has
\* records as read only what was read.
LEMMA WrittenIs ==
  ASSUME IInv, pc # "list", NEW bits \in SUBSET Int, unread \subseteq bits
  PROVE  LET line == BitsToRc(bits, first, last)
             d == [news[cur] EXCEPT !.line = line,
                                    !.toRead = Cardinality(bits \cap (first .. last))]
         IN /\ IsRcLine(line)
            /\ NewsOK(d) /\ d.line = line /\ d.ngMax = last
            /\ d.toRead = Cardinality(bits \cap (first .. last))
            /\ Bounded(d) /\ Exact(d)
            /\ cur \notin misread => \A n \in 1 .. Top :
                 n \in Denotes(line) /\ n >= srvFirst[cur] => <<cur, n>> \in told
  <1> DEFINE line == BitsToRc(bits, first, last)
             c == Cardinality(bits \cap (first .. last))
             d == [news[cur] EXCEPT !.line = line, !.toRead = c]
  <1>1. /\ cur \in Groups /\ cur # NoGroup /\ first \in Nat \ {0} /\ last \in Nat
        /\ NewsOK(news[cur]) /\ news[cur].ngMax = last
    BY Here
  <1>2. /\ IsRcLine(line)
        /\ \A n \in Denotes(line) : n \in 1 .. last /\ (n \in first .. last => n \notin bits)
        /\ \A e \in Range(line) : e.hi <= last
        /\ Cardinality((1 .. last) \ Denotes(line)) = c
        /\ c \in Nat
    <2>1. Written(line, bits, first, last)
      BY <1>1, BitsAre
    <2> HIDE DEF line
    <2> QED
      BY <2>1 DEF Written
  <1>3. line \in Seq(Entries)
    BY <1>2, LineIs
  <1> HIDE DEF line, c
  <1>4. NewsOK(d) /\ d.line = line /\ d.ngMax = last /\ d.toRead = c
    <2> DEFINE b == news[cur]
    <2>1. NewsOK(b) /\ b.ngMax = last /\ d = [b EXCEPT !.line = line, !.toRead = c]
      BY <1>1
    <2>2. c \in Int
      BY <1>2
    <2> HIDE DEF b, d
    <2> QED
      BY <2>1, <2>2, <1>2, <1>3 DEF NewsOK
  <1> HIDE DEF d
  <1>5. Bounded(d)
    BY <1>2, <1>4 DEF Bounded
  <1>6. Exact(d)
    BY <1>2, <1>4 DEF Exact, Unread
  <1>7. ASSUME cur \notin misread, NEW n \in 1 .. Top, n \in Denotes(line), n >= srvFirst[cur]
        PROVE  <<cur, n>> \in told
    <2>1. /\ first <= srvFirst[cur]
          /\ \A m \in 1 .. Top :
               m \in first .. last /\ m >= srvFirst[cur] /\ m \notin unread
                 => <<cur, m>> \in told
      BY <1>1, <1>7 DEF IInv, FlagsOK
    <2>2. srvFirst[cur] \in Nat
      BY <1>1 DEF IInv, TypesOK
    <2>3. n \in first .. last
      BY <2>1, <2>2, <1>1, <1>2, <1>7
    <2> QED
      BY <2>1, <2>3, <1>2, <1>7
  <1> QED
    BY <1>2, <1>4, <1>5, <1>6, <1>7 DEF line, c, d

LEMMA CheckpointKeeps ==
  ASSUME IInv, Checkpoint PROVE IInv'
  <1> DEFINE line == BitsToRc(unread, first, last)
             c == Cardinality(unread \cap (first .. last))
             d == [news[cur] EXCEPT !.line = line, !.toRead = c]
  <1>1. /\ pc = "reading" /\ news' = [news EXCEPT ![cur] = d]
        /\ UNCHANGED <<server, reading, cache, chase, history>>
    BY DEF Checkpoint, LineFromBits
  <1>2. /\ srvFirst' = srvFirst /\ srvLast' = srvLast /\ cur' = cur
        /\ first' = first /\ last' = last /\ cached' = cached /\ kchase' = kchase
        /\ unread' = unread /\ yank' = yank /\ told' = told /\ pc' = pc
        /\ drift' = drift /\ misread' = misread
        /\ cur \in Groups /\ cur # NoGroup
    BY <1>1, Here DEF server, reading, cache, chase, history
  <1>3. /\ NewsOK(d) /\ d.line = line /\ d.ngMax = last /\ d.toRead = c
        /\ cur \notin misread => \A n \in 1 .. Top :
             n \in Denotes(line) /\ n >= srvFirst[cur] => <<cur, n>> \in told
    BY <1>1, Here, WrittenIs
  <1>4. cur \notin drift => c = Cardinality(unread)
    <2>1. cur \notin drift => unread \cap (first .. last) = unread
      BY <1>1, Here
    <2> QED
      BY <2>1
  <1> HIDE DEF d, c, line
  <1>5. /\ news' = [g \in Groups |-> news'[g]]
        /\ news'[cur] = d
        /\ \A g \in Groups : g # cur => news'[g] = news[g]
    BY <1>1, <1>2 DEF IInv, TypesOK
  <1>6. TypesOK'
    <2>1. \A g \in Groups : NewsOK(news'[g])
      BY <1>3, <1>5 DEF IInv, TypesOK
    <2>2. (\A g \in Groups : NewsOK(news[g]))'
      BY <2>1 DEF NewsOK
    <2> QED
      BY <1>2, <1>5, <2>2 DEF IInv, TypesOK
  <1>7. PlacesOK'
    BY <1>2, <1>3, <1>5 DEF IInv, PlacesOK
  <1>8. ChasesOK'
    BY <1>2 DEF IInv, ChasesOK
  <1>9. LinesOK'
    BY <1>2, <1>3, <1>5 DEF IInv, LinesOK
  <1>10. FlagsOK'
    BY <1>2 DEF IInv, FlagsOK
  <1>11. FlagsCount'
    BY <1>2, <1>3, <1>4, <1>5 DEF IInv, FlagsCount
  <1>12. LinesCount'
    <2>1. ASSUME NEW g \in Groups \ {cur}, news'[g].absFirst # 0
          PROVE  Bounded(news'[g]) /\ (g \notin drift' => Exact(news'[g]))
      BY <2>1, <1>2, <1>5 DEF IInv, LinesCount
    <2> QED
      BY <2>1, <1>2 DEF LinesCount
  <1> QED
    BY <1>6, <1>7, <1>8, <1>9, <1>10, <1>11, <1>12 DEF IInv

LEMMA LeaveGroupKeeps ==
  ASSUME IInv, LeaveGroup PROVE IInv'
  <1> DEFINE bits == unread \cup yank
             line == BitsToRc(bits, first, last)
             c == Cardinality(bits \cap (first .. last))
             d == [news[cur] EXCEPT !.line = line, !.toRead = c]
  <1>1. /\ pc = "leaving" /\ pc' = "list" /\ cur' = NoGroup /\ first' = 1 /\ last' = 0
        /\ unread' = {} /\ yank' = {}
        /\ news' = [news EXCEPT ![cur] = d]
        /\ UNCHANGED <<server, cached, kchase, told, drift, misread>>
    BY DEF LeaveGroup, LineFromBits
  <1>2. /\ srvFirst' = srvFirst /\ srvLast' = srvLast
        /\ cur \in Groups /\ cur # NoGroup /\ bits \in SUBSET Int /\ unread \subseteq bits
    BY <1>1, Here DEF server
  <1> HIDE DEF bits
  <1>3. /\ NewsOK(d) /\ d.line = line /\ Bounded(d) /\ Exact(d)
        /\ cur \notin misread => \A n \in 1 .. Top :
             n \in Denotes(line) /\ n >= srvFirst[cur] => <<cur, n>> \in told
    BY <1>1, <1>2, WrittenIs
  <1> HIDE DEF d, c, line
  <1>4. /\ news' = [g \in Groups |-> news'[g]]
        /\ news'[cur] = d
        /\ \A g \in Groups : g # cur => news'[g] = news[g]
    BY <1>1, <1>2 DEF IInv, TypesOK
  <1>5. TypesOK'
    <2>1. \A g \in Groups : NewsOK(news'[g])
      BY <1>3, <1>4 DEF IInv, TypesOK
    <2>2. (\A g \in Groups : NewsOK(news[g]))'
      BY <2>1 DEF NewsOK
    <2>3. {} \in SUBSET Int /\ IsFiniteSet({})
      BY FS_EmptySet
    <2> QED
      BY <1>1, <1>2, <1>4, <2>2, <2>3 DEF IInv, TypesOK
  <1>6. PlacesOK' /\ FlagsOK' /\ FlagsCount'
    BY <1>1 DEF PlacesOK, FlagsOK, FlagsCount
  <1>7. ChasesOK'
    BY <1>1 DEF IInv, ChasesOK
  <1>8. LinesOK'
    BY <1>1, <1>2, <1>3, <1>4 DEF IInv, LinesOK
  <1>9. LinesCount'
    <2>1. ASSUME NEW g \in Groups, news'[g].absFirst # 0
          PROVE  Bounded(news'[g]) /\ (g \notin drift' => Exact(news'[g]))
      <3>1. CASE g = cur
        BY <3>1, <1>3, <1>4
      <3>2. CASE g # cur
        BY <3>2, <2>1, <1>1, <1>4 DEF IInv, LinesCount
      <3> QED
        BY <3>1, <3>2
    <2> QED
      BY <2>1 DEF LinesCount
  <1> QED
    BY <1>5, <1>6, <1>7, <1>8, <1>9 DEF IInv

\* A process starts with lines that record as read only what was read.
LEMMA NewProcessKeeps ==
  ASSUME IInv, NEW lines, NewProcess(lines), told' = told,
         \A g \in Groups : IsRcLine(lines[g]),
         \A g \in Groups \ misread : \A n \in 1 .. Top :
           n \in Denotes(lines[g]) /\ n >= srvFirst[g] => <<g, n>> \in told
  PROVE  IInv'
  <1>1. /\ news' = [g \in Groups |-> Fresh(lines[g])]
        /\ pc' = "list" /\ cur' = NoGroup /\ first' = 1 /\ last' = 0
        /\ unread' = {} /\ yank' = {} /\ kchase' = {}
        /\ srvFirst' = srvFirst /\ srvLast' = srvLast /\ misread' = misread
    BY DEF NewProcess, server
  <1>2. ASSUME NEW g \in Groups
        PROVE  /\ NewsOK(news'[g]) /\ news'[g].line = lines[g] /\ news'[g].absFirst = 0
    <2>1. news'[g] = [line |-> lines[g], toRead |-> 0, absFirst |-> 0, ngMax |-> 0]
      BY <1>1 DEF Fresh
    <2>2. NewsOK(news'[g])
      BY <2>1, NewsBy
    <2> QED
      BY <2>1, <2>2
  <1>3. TypesOK'
    <2>1. (\A g \in Groups : NewsOK(news[g]))'
      BY <1>2 DEF NewsOK
    <2>2. {} \in SUBSET Int /\ IsFiniteSet({})
      BY FS_EmptySet
    <2>3. news' = [g \in Groups |-> news'[g]]
      BY <1>1
    <2> QED
      BY <1>1, <2>1, <2>2, <2>3 DEF IInv, TypesOK
  <1>4. PlacesOK' /\ ChasesOK' /\ FlagsOK' /\ FlagsCount'
    BY <1>1 DEF PlacesOK, ChasesOK, FlagsOK, FlagsCount
  <1>5. LinesOK'
    BY <1>1, <1>2 DEF LinesOK
  <1>6. LinesCount'
    BY <1>2 DEF LinesCount
  <1> QED
    BY <1>3, <1>4, <1>5, <1>6 DEF IInv

LEMMA RestartKeeps ==
  ASSUME IInv, Restart PROVE IInv'
  <1>1. NewProcess(Lines) /\ told' = told
    BY DEF Restart, NewProcess
  <1>2. \A g \in Groups : Lines[g] = news[g].line
    BY DEF Lines
  <1>3. \A g \in Groups : IsRcLine(Lines[g])
    BY <1>2, NewsIs DEF IInv, TypesOK
  <1>4. \A g \in Groups \ misread : \A n \in 1 .. Top :
          n \in Denotes(Lines[g]) /\ n >= srvFirst[g] => <<g, n>> \in told
    BY <1>2 DEF IInv, LinesOK
  <1> QED
    BY <1>1, <1>3, <1>4, NewProcessKeeps

LEMMA HangupKeeps ==
  ASSUME IInv, Hangup PROVE IInv'
  <1> DEFINE bits == unread \cup yank
             line == BitsToRc(bits, first, last)
             lines == [Lines EXCEPT ![cur] = line]
  <1>1. NewProcess(lines) /\ told' = told /\ pc # "list"
    BY DEF Hangup, NewProcess
  <1>2. cur \in Groups /\ bits \in SUBSET Int /\ unread \subseteq bits
    BY <1>1, Here
  <1> HIDE DEF bits
  <1>3. /\ IsRcLine(line)
        /\ cur \notin misread => \A n \in 1 .. Top :
             n \in Denotes(line) /\ n >= srvFirst[cur] => <<cur, n>> \in told
    BY <1>1, <1>2, WrittenIs
  <1> HIDE DEF line
  <1>4. /\ lines[cur] = line
        /\ \A g \in Groups : g # cur => lines[g] = news[g].line
    BY <1>2 DEF Lines
  <1> HIDE DEF lines
  <1>5. \A g \in Groups : IsRcLine(lines[g])
    BY <1>3, <1>4, NewsIs DEF IInv, TypesOK
  <1>6. \A g \in Groups \ misread : \A n \in 1 .. Top :
          n \in Denotes(lines[g]) /\ n >= srvFirst[g] => <<g, n>> \in told
    BY <1>3, <1>4 DEF IInv, LinesOK
  <1> QED
    BY <1>1, <1>5, <1>6, NewProcessKeeps

-------------------------------------------------------------------------------
LEMMA StutterKeeps ==
  ASSUME IInv, UNCHANGED vars PROVE IInv'
  <1>1. /\ UNCHANGED <<server, news, reading, cache, chase, history>>
    BY DEF vars
  <1>2. /\ srvFirst' = srvFirst /\ srvLast' = srvLast /\ news' = news /\ cur' = cur
        /\ first' = first /\ last' = last /\ cached' = cached /\ kchase' = kchase
        /\ unread' = unread /\ yank' = yank /\ told' = told /\ pc' = pc
        /\ drift' = drift /\ misread' = misread
    BY <1>1 DEF server, reading, cache, chase, history
  <1> QED
    BY <1>2 DEF IInv, TypesOK, PlacesOK, ChasesOK, LinesOK, FlagsOK, FlagsCount, LinesCount

LEMMA StepKeeps == IInv /\ [Next]_vars => IInv'
  <1> SUFFICES ASSUME IInv, [Next]_vars PROVE IInv'
    OBVIOUS
  <1>1. ASSUME NEW gs \in SUBSET Groups, Arrive(gs) PROVE IInv'
    BY <1>1, ArriveKeeps
  <1>2. ASSUME NEW g \in Groups, Expire(g) PROVE IInv'
    BY <1>2, ExpireKeeps
  <1>3. ASSUME NEW g \in Groups, Recount(g) PROVE IInv'
    BY <1>3, RecountKeeps
  <1>4. ASSUME NEW g \in Groups, NEW leave \in 0 .. 1, CatchUp(g, leave) PROVE IInv'
    BY <1>4, CatchUpKeeps
  <1>5. ASSUME NEW g \in Groups, NEW aged \in BOOLEAN, EnterGroup(g, aged) PROVE IInv'
    BY <1>5, EnterGroupKeeps
  <1>6. ASSUME NEW n \in 1 .. Top, MarkAsRead(n) PROVE IInv'
    BY <1>6, MarkAsReadKeeps
  <1>7. ASSUME NEW n \in 1 .. Top, UnmarkAsRead(n) PROVE IInv'
    BY <1>7, UnmarkAsReadKeeps
  <1>8. ASSUME NEW n \in 1 .. Top, DelayUnmark(n) PROVE IInv'
    BY <1>8, DelayUnmarkKeeps
  <1>9. CASE YankBack
    BY <1>9, YankBackKeeps
  <1>10. CASE MarkAllRead
    BY <1>10, MarkAllReadKeeps
  <1>11. CASE GrowNewsgroup
    BY <1>11, GrowNewsgroupKeeps
  <1>12. CASE StartChase
    BY <1>12, WalkKeeps DEF StartChase
  <1>13. ASSUME NEW n \in 1 .. Top, ChaseArticle(n) PROVE IInv'
    BY <1>13, ChaseArticleKeeps
  <1>14. CASE EndChase
    BY <1>14, WalkKeeps DEF EndChase
  <1>15. CASE StartLeave
    BY <1>15, WalkKeeps DEF StartLeave
  <1>16. CASE LeaveGroup
    BY <1>16, LeaveGroupKeeps
  <1>17. CASE Checkpoint
    BY <1>17, CheckpointKeeps
  <1>18. CASE Restart
    BY <1>18, RestartKeeps
  <1>19. CASE Hangup
    BY <1>19, HangupKeeps
  <1>20. CASE UNCHANGED vars
    BY <1>20, StutterKeeps
  <1> QED
    BY <1>1, <1>2, <1>3, <1>4, <1>5, <1>6, <1>7, <1>8, <1>9, <1>10, <1>11, <1>12, <1>13,
       <1>14, <1>15, <1>16, <1>17, <1>18, <1>19, <1>20 DEF Next

LEMMA Invariant == Spec => []IInv
  <1>1. Init => IInv
    BY InitHolds
  <1>2. IInv /\ [Next]_vars => IInv'
    BY StepKeeps
  <1> QED
    BY <1>1, <1>2, PTL DEF Spec

\* Whatever lines the newsrcs hold at first and whatever edits, tallies and
\* rebuildings they go through: taking one article in or out of the text of a
\* line, and marking all below the first, do to the set of read articles just
\* that (add_art_num, sub_art_num, check_expired).
THEOREM LinesAreEditedExactly == Spec => []EditsAreExact
  <1>1. IInv => EditsAreExact
    <2> SUFFICES ASSUME IInv, NEW g \in Groups, NEW n \in 1 .. Top
                 PROVE  LET line == news[g].line IN
                        /\ ~Glues(line, n) =>
                             Denotes(AddArtNum(line, n)) = Denotes(line) \cup {n}
                        /\ Denotes(SubArtNum(line, n)) = Denotes(line) \ {n}
                        /\ Denotes(CheckExpired(line, n)) = Denotes(line) \cup (1 .. (n - 1))
      BY DEF EditsAreExact
    <2> DEFINE line == news[g].line
    <2>1. IsRcLine(line) /\ n \in Nat \ {0} /\ n \in Nat
      BY NewsIs, Constants DEF IInv, TypesOK
    <2> HIDE DEF line
    <2>2. ~Glues(line, n) => Denotes(AddArtNum(line, n)) = Denotes(line) \cup {n}
      BY <2>1, AddIs
    <2>3. Denotes(SubArtNum(line, n)) = Denotes(line) \ {n}
      BY <2>1, SubIs
    <2>4. Denotes(CheckExpired(line, n)) = Denotes(line) \cup (1 .. (n - 1))
      BY <2>1, CheckExpiredIs
    <2> QED
      BY <2>2, <2>3, <2>4 DEF line
  <1> QED
    BY <1>1, Invariant, PTL

\* However many groups and cross-posts there are, and in whatever order
\* commands, chases, checkpoints, hangups, arrivals and expiries come: a line
\* only records articles that the user read, that were read at first, or that
\* have expired.
THEOREM NothingReadByAccident == Spec => []ReadOnlyIfTold
  <1>1. IInv => ReadOnlyIfTold
    BY DEF IInv, LinesOK, ReadOnlyIfTold, Place
  <1> QED
    BY <1>1, Invariant, PTL

\* The count of unread articles shown for a newsgroup is the number that its
\* flags, or its line, leave unread, whichever way articles were marked.
THEOREM CountsStayRight == Spec => []CountsAgree
  <1>1. IInv => CountsAgree
    <2> SUFFICES ASSUME IInv, NEW g \in Groups \ drift
                 PROVE  /\ g = cur => news[g].toRead = Cardinality(unread)
                        /\ g # cur /\ news[g].absFirst # 0 /\ ~Miscounted(news[g].line) =>
                             news[g].toRead = Cardinality(Unread(news[g]))
      BY DEF CountsAgree
    <2>1. g = cur => news[g].toRead = Cardinality(unread)
      BY Constants DEF IInv, FlagsCount
    <2>2. g # cur /\ news[g].absFirst # 0 /\ ~Miscounted(news[g].line) =>
            news[g].toRead = Cardinality(Unread(news[g]))
      BY DEF IInv, LinesCount, Exact
    <2> QED
      BY <2>1, <2>2
  <1> QED
    BY <1>1, Invariant, PTL


-------------------------------------------------------------------------------
(* The inductive invariant of the last word, on top of IInv.               *)

\* Places about which nothing is promised.
Loose == stale \cup cut

\* The chases still to come mark a place as read, or as unread.
ToRead(p) == \E m \in kchase : p \in Same(cached, m)
ToUnread(p) == \E m \in mchase : p \in Same(cached, m)

\* The user speaks about articles that the server has.
WordsOK ==
  \A p \in Place :
    /\ word[p] \in {"none", "read", "unread"}
    /\ word[p] # "none" => p[2] <= srvLast[p[1]]

\* A cross-posted article is at the server in all its groups, or in none yet.
PostedOK ==
  \A x \in Xrefs :
    \/ \A p \in x : p[2] <= srvLast[p[1]]
    \/ \A p \in x : p[2] > srvLast[p[1]]

RangeOK ==
  cur # NoGroup =>
    /\ last <= srvLast[cur] \/ first > last
    /\ yank \subseteq first .. last

\* A pending chase carries the last word; none is left over at the list.
PendingAt(p) ==
  p \notin Loose =>
    /\ ToUnread(p) => word[p] = "unread"
    /\ ToRead(p) /\ ~ToUnread(p) => word[p] = "read"
    /\ pc = "list" => ~ToRead(p) /\ ~ToUnread(p)

PendingOK ==
  /\ \A m \in kchase \cup mchase : Same(cached, m) # {<<cached, m>>}
  /\ \A p \in Place : PendingAt(p)

\* The flags of the current group carry the last word.
FlagAt(n) ==
  <<cur, n>> \notin Loose =>
    /\ word[<<cur, n>>] = "read" => n <= last /\ n \notin unread \ yank
    /\ word[<<cur, n>>] = "unread" /\ n >= srvFirst[cur] =>
         n \in unread \cup yank \cup mchase

FlagsObey ==
  cur \notin misread \cup {NoGroup} =>
    /\ first <= last + 1
    /\ unread \subseteq first .. last
    /\ \A n \in 1 .. Top : FlagAt(n)

\* The lines of the other groups do, or a pending chase does.
LineAt(p) ==
  LET line == news[p[1]].line IN
  p \notin Loose /\ p[1] \notin misread \cup {cur} =>
    /\ word[p] = "read" => p[2] \in Denotes(line) \/ ToRead(p)
    /\ word[p] = "unread" /\ p[2] >= srvFirst[p[1]] =>
         p[2] \notin Denotes(line) \/ ToUnread(p)

LinesObey == \A p \in Place : LineAt(p)

WInv ==
  /\ WordsOK
  /\ PostedOK
  /\ RangeOK
  /\ PendingOK
  /\ FlagsObey
  /\ LinesObey
-------------------------------------------------------------------------------
(* Articles and their places.                                              *)

LEMMA PlaceIs ==
  /\ \A p \in Place : p[1] \in Groups /\ p[2] \in 1 .. Top /\ p = <<p[1], p[2]>>
  /\ \A g \in Groups, n \in 1 .. Top : <<g, n>> \in Place
  BY DEF Place

LEMMA SameMember ==
  ASSUME NEW g, NEW n, NEW p
  PROVE  p \in Same(g, n) <=> p = <<g, n>> \/ \E x \in Xrefs : <<g, n>> \in x /\ p \in x
  BY DEF Same

LEMMA OneArticle ==
  ASSUME NEW g, NEW n, NEW m, NEW p, p \in Same(g, n), p \in Same(g, m)
  PROVE  m = n
  <1>1. \A x, y \in Xrefs : p \in x /\ p \in y => x = y
    BY ArticlesAssumption
  <1>2. \A x \in Xrefs : <<g, n>> \in x /\ <<g, m>> \in x => n = m
    BY ArticlesAssumption
  <1>3. p = <<g, n>> \/ \E x \in Xrefs : <<g, n>> \in x /\ p \in x
    BY SameMember
  <1>4. p = <<g, m>> \/ \E x \in Xrefs : <<g, m>> \in x /\ p \in x
    BY SameMember
  <1> QED
    BY <1>1, <1>2, <1>3, <1>4

LEMMA OneNumber ==
  ASSUME NEW g, NEW n, NEW h, NEW a, NEW b,
         <<h, a>> \in Same(g, n), <<h, b>> \in Same(g, n)
  PROVE  a = b
  <1>1. \A x \in Xrefs : <<h, a>> \in x /\ <<h, b>> \in x => a = b
    BY ArticlesAssumption
  <1>2. \A x, y \in Xrefs : <<g, n>> \in x /\ <<g, n>> \in y => x = y
    BY ArticlesAssumption
  <1>3. <<h, a>> = <<g, n>> \/ \E x \in Xrefs : <<g, n>> \in x /\ <<h, a>> \in x
    BY SameMember
  <1>4. <<h, b>> = <<g, n>> \/ \E x \in Xrefs : <<g, n>> \in x /\ <<h, b>> \in x
    BY SameMember
  <1> QED
    BY <1>1, <1>2, <1>3, <1>4

LEMMA OwnNumber ==
  ASSUME NEW g, NEW n
  PROVE  /\ <<g, n>> \in Same(g, n)
         /\ \A k : <<g, k>> \in Same(g, n) => k = n
  <1>1. <<g, n>> \in Same(g, n)
    BY SameMember
  <1> QED
    BY <1>1, OneNumber

\* The server has an article in all its groups or in none.
LEMMA AllPosted ==
  ASSUME ServerOK, PostedOK, NEW g \in Groups, NEW n \in 1 .. Top, n <= srvLast[g],
         NEW p \in Same(g, n)
  PROVE  p[2] <= srvLast[p[1]]
  <1>1. CASE p = <<g, n>>
    BY <1>1
  <1>2. CASE \E x \in Xrefs : <<g, n>> \in x /\ p \in x
    <2>1. PICK x \in Xrefs : <<g, n>> \in x /\ p \in x
      BY <1>2
    <2>2. ~(n > srvLast[g])
      BY DEF ServerOK
    <2>3. ~ \A q \in x : q[2] > srvLast[q[1]]
      BY <2>1, <2>2
    <2> QED
      BY <2>1, <2>3 DEF PostedOK
  <1> QED
    BY <1>1, <1>2, SameMember

-------------------------------------------------------------------------------
(* What the operators do to the articles that a line records.              *)

\* The lenient tally takes no article out of a line.
LEMMA LaxKeeps ==
  ASSUME ServerOK, NEW g \in Groups, NEW d, NewsOK(d)
  PROVE  Denotes(d.line) \subseteq Denotes(SetToRead(d, g, TRUE).line)
  <1> DEFINE virgin == d.absFirst = 0
             low0 == IF virgin THEN srvFirst[g] ELSE d.absFirst
             size == IF srvLast[g] > d.ngMax THEN srvLast[g] ELSE d.ngMax
             line == IF virgin /\ d.line # <<Span(1, size)>>
                     THEN CheckExpired(d.line, low0)
                     ELSE d.line
             t == Tally(line, size, TRUE)
             r == Counted(line, low0, t, size)
  <1>1. /\ IsRcLine(d.line) /\ d.absFirst \in Nat /\ d.ngMax \in Nat
        /\ srvFirst[g] \in Nat \ {0} /\ srvLast[g] \in Nat \ {0}
    BY NewsIs DEF ServerOK
  <1>2. low0 \in Nat /\ size \in Nat
    BY <1>1
  <1>3. SetToRead(d, g, TRUE) = r
    BY DEF SetToRead
  <1>4. IsRcLine(line) /\ Denotes(d.line) \subseteq Denotes(line)
    <2>1. CASE virgin /\ d.line # <<Span(1, size)>>
      <3>1. line = CheckExpired(d.line, low0)
        BY <2>1
      <3> HIDE DEF line, low0
      <3>2. /\ IsRcLine(CheckExpired(d.line, low0))
            /\ Denotes(CheckExpired(d.line, low0)) = Denotes(d.line) \cup (1 .. low0 - 1)
        BY <1>1, <1>2, CheckExpiredIs
      <3> QED
        BY <3>1, <3>2
    <2>2. CASE ~(virgin /\ d.line # <<Span(1, size)>>)
      <3>1. line = d.line
        BY <2>2
      <3> HIDE DEF line
      <3> QED
        BY <3>1, <1>1
    <2> QED
      BY <2>1, <2>2
  <1> HIDE DEF low0, size, line
  <1>5. ~(t.unread < 0)
    <2>1. Tallies(t, line, size, TRUE)
      BY <1>2, <1>4, TallyIs
    <2> HIDE DEF t
    <2> QED
      BY <2>1 DEF Tallies
  <1> HIDE DEF t
  <1>6. r.line = line
    BY <1>5 DEF Counted
  <1> QED
    BY <1>3, <1>4, <1>6

\* The strict one leaves a line alone that does not go beyond the group.
LEMMA StrictKeeps ==
  ASSUME ServerOK, NEW g \in Groups, NEW d, NewsOK(d), d.absFirst # 0,
         \A e \in Range(d.line) : e.hi <= IF srvLast[g] > d.ngMax THEN srvLast[g] ELSE d.ngMax
  PROVE  SetToRead(d, g, FALSE).line = d.line
  <1> DEFINE size == IF srvLast[g] > d.ngMax THEN srvLast[g] ELSE d.ngMax
             t == Tally(d.line, size, FALSE)
             r == Counted(d.line, d.absFirst, t, size)
  <1>1. IsRcLine(d.line) /\ size \in Nat
    BY NewsIs DEF ServerOK
  <1>2. SetToRead(d, g, FALSE) = r
    BY DEF SetToRead
  <1>3. \A e \in Range(d.line) : ~(e.hi > size)
    BY <1>1, HighIsNat
  <1> HIDE DEF size
  <1>4. ~(t.unread < 0)
    <2>1. Tallies(t, d.line, size, FALSE)
      BY <1>1, TallyIs
    <2> HIDE DEF t
    <2> QED
      BY <2>1, <1>3 DEF Tallies
  <1> HIDE DEF t
  <1>5. r.line = d.line
    BY <1>4 DEF Counted
  <1> QED
    BY <1>2, <1>5

\* An article marked as read in another group is in its line.
LEMMA AddInMarks ==
  ASSUME ServerOK, NEW g \in Groups, NEW d, NewsOK(d), NEW n \in Nat \ {0},
         ~Overreads(d, g, n)
  PROVE  Denotes(d.line) \cup {n} \subseteq Denotes(AddIn(d, g, n).line)
  <1> DEFINE t == Tallied(d, g)
             u == Grown(t, n)
             r == Marked(u, n)
  <1>1. AddIn(d, g, n) = r
    BY DEF AddIn
  <1>2. NewsOK(t)
    BY TalliedIs
  <1>3. Denotes(d.line) \subseteq Denotes(t.line)
    <2>1. CASE d.absFirst = 0
      <3>1. t = SetToRead(d, g, TRUE)
        BY <2>1 DEF Tallied
      <3> HIDE DEF t
      <3> QED
        BY <3>1, LaxKeeps
    <2>2. CASE d.absFirst # 0
      <3>1. t = d
        BY <2>2 DEF Tallied
      <3> QED
        BY <3>1
    <2> QED
      BY <2>1, <2>2
  <1>4. n \in Denotes(t.line) \/ ~Glues(t.line, n)
    BY DEF Overreads
  <1> HIDE DEF t
  <1>5. NewsOK(u) /\ u.line = t.line /\ n <= u.ngMax
    BY <1>2, GrownIs
  <1> HIDE DEF u
  <1>6. Denotes(r.line) = Denotes(u.line) \cup {n}
    BY <1>4, <1>5, MarkedIs
  <1> HIDE DEF r
  <1> QED
    BY <1>1, <1>3, <1>5, <1>6

\* One marked as unread is taken out of it.
LEMMA SubInUnmarks ==
  ASSUME NEW d, NewsOK(d), NEW n
  PROVE  Denotes(SubIn(d, n).line) = Denotes(d.line) \ {n}
  <1>1. IsRcLine(d.line)
    BY NewsIs
  <1>2. CASE n \in Denotes(d.line)
    <2> DEFINE line == SubArtNum(d.line, n)
    <2>1. Denotes(line) = Denotes(d.line) \ {n}
      BY <1>1, SubIs
    <2>2. SubIn(d, n) = [d EXCEPT !.line = line, !.toRead = @ + 1]
      BY <1>2 DEF SubIn
    <2> HIDE DEF line
    <2>3. SubIn(d, n).line = line
      BY <2>2 DEF NewsOK
    <2> QED
      BY <2>1, <2>3
  <1>3. CASE n \notin Denotes(d.line)
    BY <1>3 DEF SubIn
  <1> QED
    BY <1>2, <1>3

\* rc_to_bits leaves no article unread that the line records as read.
LEMMA RcToBitsMisses ==
  ASSUME NEW line, IsRcLine(line), NEW f \in Nat \ {0}, NEW l \in Int,
         NEW n \in RcToBits(line, f, l)
  PROVE  n \in f .. l /\ n \notin Denotes(line)
  <1> DEFINE leads == line # <<>> /\ line[1].rng /\ line[1].lo = 1
             start == IF leads /\ line[1].hi + 1 > f THEN line[1].hi + 1 ELSE f
             scanned == IF leads THEN 2 .. Len(line) ELSE 1 .. Len(line)
             Raised(m) == IF m < start THEN start ELSE m
             Covered(e) == IF e.rng THEN Raised(e.lo) .. e.hi ELSE {Raised(e.lo)}
  <1>1. /\ Len(line) \in Nat
        /\ \A i \in 1 .. Len(line) : /\ line[i].lo \in Nat \ {0}
                                     /\ line[i].hi \in Nat
                                     /\ IsEntry(line[i])
    BY LineIs
  <1>2. leads => 1 \in 1 .. Len(line)
    BY <1>1, EmptyIs
  <1>3. start \in Nat /\ f <= start /\ (leads => line[1].hi < start)
    BY <1>1, <1>2
  <1>4. n \in start .. l /\ \A i \in scanned : n \notin Covered(line[i])
    BY DEF RcToBits
  <1> HIDE DEF leads, start
  <1>5. ASSUME NEW i \in 1 .. Len(line), n \in line[i].lo .. line[i].hi PROVE FALSE
    <2>1. CASE leads /\ i = 1
      BY <2>1, <1>1, <1>3, <1>4, <1>5
    <2>2. CASE ~(leads /\ i = 1)
      <3>1. i \in scanned
        BY <2>2, <1>1
      <3>2. n \notin Covered(line[i])
        BY <3>1, <1>4
      <3>3. CASE line[i].rng
        BY <3>2, <3>3, <1>1, <1>3, <1>4, <1>5
      <3>4. CASE ~line[i].rng
        BY <3>2, <3>4, <1>1, <1>3, <1>4, <1>5 DEF IsEntry
      <3> QED
        BY <3>3, <3>4
    <2> QED
      BY <2>1, <2>2
  <1> QED
    BY <1>3, <1>4, <1>5, DenotesIs
-------------------------------------------------------------------------------
(* Every step keeps the invariant.                                         *)

LEMMA InitObeys == Init => WInv
  <1> SUFFICES ASSUME Init PROVE WInv
    OBVIOUS
  <1>1. /\ srvLast = [g \in Groups |-> LastArt] /\ cur = NoGroup
        /\ word = [p \in Place |-> "none"] /\ kchase = {} /\ mchase = {}
    BY DEF Init
  <1>2. WordsOK
    BY <1>1 DEF WordsOK
  <1>3. PostedOK
    <2> SUFFICES ASSUME NEW x \in Xrefs
                 PROVE  \/ \A p \in x : p[2] <= srvLast[p[1]]
                        \/ \A p \in x : p[2] > srvLast[p[1]]
      BY DEF PostedOK
    <2>1. CASE x \subseteq Groups \X (1 .. LastArt)
      BY <2>1, <1>1, Constants
    <2>2. CASE x \subseteq Groups \X ((LastArt + 1) .. Top)
      BY <2>2, <1>1, Constants
    <2> QED
      BY <2>1, <2>2, XrefsAssumption
  <1>4. PendingOK
    BY <1>1 DEF PendingOK, PendingAt, ToRead, ToUnread
  <1>5. LinesObey
    BY <1>1 DEF LinesObey, LineAt
  <1> QED
    BY <1>1, <1>2, <1>3, <1>4, <1>5 DEF WInv, RangeOK, FlagsObey

\* What the variables that the invariant is about look like in a step that
\* only concerns the server, or where the program is.
LEMMA SameWords ==
  ASSUME IInv, WInv, UNCHANGED <<news, reading, cache, history>>,
         pc' = "list" <=> pc = "list"
  PROVE  /\ PendingOK'
         /\ srvFirst' = srvFirst => FlagsObey' /\ LinesObey'
         /\ srvLast' = srvLast => WordsOK' /\ PostedOK' /\ RangeOK'
  <1>1. /\ news' = news /\ cur' = cur /\ first' = first /\ last' = last
        /\ unread' = unread /\ yank' = yank /\ cached' = cached
        /\ kchase' = kchase /\ mchase' = mchase /\ word' = word
        /\ stale' = stale /\ cut' = cut /\ misread' = misread
    BY DEF reading, cache, history
  <1>2. \A p : /\ (p \in Loose)' <=> p \in Loose
               /\ ToRead(p)' <=> ToRead(p)
               /\ ToUnread(p)' <=> ToUnread(p)
    BY <1>1 DEF Loose, ToRead, ToUnread
  <1>3. PendingOK'
    BY <1>1, <1>2 DEF WInv, PendingOK, PendingAt
  <1>4. ASSUME srvFirst' = srvFirst PROVE FlagsObey' /\ LinesObey'
    <2>1. FlagsObey'
      BY <1>1, <1>2, <1>4 DEF WInv, FlagsObey, FlagAt
    <2>2. LinesObey'
      BY <1>1, <1>2, <1>4 DEF WInv, LinesObey, LineAt
    <2> QED
      BY <2>1, <2>2
  <1>5. ASSUME srvLast' = srvLast PROVE WordsOK' /\ PostedOK' /\ RangeOK'
    BY <1>1, <1>5 DEF WInv, WordsOK, PostedOK, RangeOK
  <1> QED
    BY <1>3, <1>4, <1>5

LEMMA ArriveObeys ==
  ASSUME IInv, WInv, NEW gs \in SUBSET Groups, Arrive(gs) PROVE WInv'
  <1>1. /\ srvLast' = [g \in Groups |-> IF g \in gs THEN srvLast[g] + 1 ELSE srvLast[g]]
        /\ UNION {Same(g, srvLast[g] + 1) : g \in gs} = {<<g, srvLast[g] + 1>> : g \in gs}
        /\ srvFirst' = srvFirst
        /\ UNCHANGED <<news, reading, cache, chase, history>>
    BY DEF Arrive
  <1>2. srvLast \in [Groups -> Nat \ {0}] /\ cur \in Groups \cup {NoGroup} /\ last \in Nat
    BY DEF IInv, TypesOK
  <1>3. \A g \in Groups : srvLast'[g] \in Nat /\ srvLast[g] <= srvLast'[g]
    BY <1>1, <1>2
  <1>4. /\ cur' = cur /\ first' = first /\ last' = last /\ yank' = yank
        /\ word' = word /\ pc' = pc
    BY <1>1 DEF reading, history, chase
  <1>5. WordsOK'
    <2> SUFFICES ASSUME NEW p \in Place
                 PROVE  /\ word[p] \in {"none", "read", "unread"}
                        /\ word[p] # "none" => p[2] <= srvLast'[p[1]]
      BY <1>4 DEF WordsOK
    <2>1. p[1] \in Groups /\ p[2] \in Int
      BY PlaceIs
    <2>2. /\ word[p] \in {"none", "read", "unread"}
          /\ word[p] # "none" => p[2] <= srvLast[p[1]]
      BY DEF WInv, WordsOK
    <2> QED
      BY <2>1, <2>2, <1>2, <1>3
  <1>6. PostedOK'
    <2> SUFFICES ASSUME NEW x \in Xrefs
                 PROVE  \/ \A p \in x : p[2] <= srvLast'[p[1]]
                        \/ \A p \in x : p[2] > srvLast'[p[1]]
      BY DEF PostedOK
    <2>1. \A p \in x : p[1] \in Groups /\ p[2] \in 1 .. Top /\ p = <<p[1], p[2]>>
      BY PlacesOfXrefs, PlaceIs
    <2>2. CASE \A p \in x : p[2] <= srvLast[p[1]]
      <3>1. ASSUME NEW p \in x PROVE p[2] <= srvLast'[p[1]]
        BY <2>1, <2>2, <1>2, <1>3
      <3> QED
        BY <3>1
    <2>3. CASE \A p \in x : p[2] > srvLast[p[1]]
      <3> SUFFICES ASSUME NEW p \in x, ~(p[2] > srvLast'[p[1]]), NEW q \in x
                   PROVE  q[2] <= srvLast'[q[1]]
        OBVIOUS
      <3> DEFINE g == p[1]
                 n == srvLast[g] + 1
      <3>1. g \in gs /\ p[2] = n
        <4>1. g \in Groups /\ p[2] \in Int /\ p[2] > srvLast[g] /\ ~(p[2] > srvLast'[g])
          BY <2>1, <2>3
        <4> QED
          BY <4>1, <1>1, <1>2
      <3>2. q \in Same(g, n)
        BY <2>1, <3>1, SameMember
      <3>3. q \in {<<h, srvLast[h] + 1>> : h \in gs}
        BY <3>1, <3>2, <1>1, Zenon
      <3>4. PICK h \in gs : q = <<h, srvLast[h] + 1>>
        BY <3>3
      <3>5. srvLast'[h] = srvLast[h] + 1 /\ srvLast[h] \in Nat
        BY <1>1, <1>2
      <3> QED
        BY <3>4, <3>5
    <2> QED
      BY <2>2, <2>3 DEF WInv, PostedOK
  <1>7. RangeOK'
    BY <1>2, <1>3, <1>4 DEF WInv, RangeOK
  <1>8. PendingOK' /\ FlagsObey' /\ LinesObey'
    BY <1>1, <1>4, SameWords
  <1> QED
    BY <1>5, <1>6, <1>7, <1>8 DEF WInv

LEMMA ExpireObeys ==
  ASSUME IInv, WInv, NEW h \in Groups, Expire(h) PROVE WInv'
  <1>1. /\ srvFirst' = [srvFirst EXCEPT ![h] = @ + 1] /\ srvLast' = srvLast
        /\ UNCHANGED <<news, reading, cache, chase, history>>
    BY DEF Expire
  <1>2. /\ news' = news /\ cur' = cur /\ first' = first /\ last' = last
        /\ unread' = unread /\ yank' = yank /\ cached' = cached
        /\ kchase' = kchase /\ mchase' = mchase /\ word' = word
        /\ stale' = stale /\ cut' = cut /\ misread' = misread /\ pc' = pc
    BY <1>1 DEF reading, cache, history, chase
  <1>3. srvFirst \in [Groups -> Nat \ {0}] /\ cur \in Groups \cup {NoGroup}
    BY DEF IInv, TypesOK
  <1>4. \A g \in Groups : \A n \in 1 .. Top : n >= srvFirst'[g] => n >= srvFirst[g]
    BY <1>1, <1>3, Constants
  <1>5. WordsOK' /\ PostedOK' /\ RangeOK' /\ PendingOK'
    BY <1>1, <1>2, SameWords
  <1>6. \A p : /\ (p \in Loose)' <=> p \in Loose
               /\ ToRead(p)' <=> ToRead(p)
               /\ ToUnread(p)' <=> ToUnread(p)
    BY <1>2 DEF Loose, ToRead, ToUnread
  <1>7. FlagsObey'
    <2> SUFFICES ASSUME cur \notin misread \cup {NoGroup}
                 PROVE  /\ first <= last + 1 /\ unread \subseteq first .. last
                        /\ \A n \in 1 .. Top : FlagAt(n)'
      BY <1>2 DEF FlagsObey
    <2>1. cur \in Groups /\ first <= last + 1 /\ unread \subseteq first .. last
          /\ \A n \in 1 .. Top : FlagAt(n)
      BY <1>3 DEF WInv, FlagsObey
    <2>2. \A n \in 1 .. Top : FlagAt(n)'
      BY <2>1, <1>2, <1>4, <1>6 DEF FlagAt
    <2> QED
      BY <2>1, <2>2
  <1>8. LinesObey'
    BY <1>2, <1>4, <1>6, PlaceIs DEF WInv, LinesObey, LineAt
  <1> QED
    BY <1>5, <1>7, <1>8 DEF WInv

\* A walk begins or ends.
LEMMA WalkObeys ==
  ASSUME IInv, WInv, pc # "list", pc' # "list",
         UNCHANGED <<server, news, reading, cache, history>>
  PROVE  WInv'
  <1>1. srvFirst' = srvFirst /\ srvLast' = srvLast
    BY DEF server
  <1> QED
    BY <1>1, SameWords DEF WInv

\* At the list of newsgroups no chase is left, and one line is edited: the
\* words change with the line.
LEMMA NewLineObeys ==
  ASSUME IInv, WInv, pc = "list", NEW h \in Groups, NEW d,
         news' = [news EXCEPT ![h] = d],
         UNCHANGED <<server, reading, cache, chase, stale, cut, misread>>,
         \A p \in Place :
           /\ word'[p] \in {"none", "read", "unread"}
           /\ word'[p] # "none" => p[2] <= srvLast[p[1]]
           /\ p[1] # h => word'[p] = word[p],
         \A n \in 1 .. Top : h \notin misread /\ <<h, n>> \notin Loose =>
           /\ word'[<<h, n>>] = "read" =>
                \/ n \in Denotes(d.line)
                \/ word[<<h, n>>] = "read" /\ n \notin Denotes(news[h].line)
           /\ word'[<<h, n>>] = "unread" /\ n >= srvFirst[h] =>
                /\ word[<<h, n>>] = "unread"
                /\ n \in Denotes(d.line) => n \in Denotes(news[h].line)
  PROVE  WInv'
  <1>1. /\ srvFirst' = srvFirst /\ srvLast' = srvLast /\ cur' = cur /\ cur = NoGroup
        /\ cached' = cached /\ pc' = pc
        /\ kchase' = kchase /\ mchase' = mchase
        /\ stale' = stale /\ cut' = cut /\ misread' = misread
    BY DEF server, reading, cache, chase, IInv, PlacesOK
  <1>2. /\ news'[h] = d
        /\ \A g \in Groups : g # h => news'[g] = news[g]
    BY DEF IInv, TypesOK
  <1>3. \A p : /\ (p \in Loose)' <=> p \in Loose
               /\ ToRead(p)' <=> ToRead(p)
               /\ ToUnread(p)' <=> ToUnread(p)
    BY <1>1 DEF Loose, ToRead, ToUnread
  <1>4. \A p \in Place : p \notin Loose => ~ToRead(p) /\ ~ToUnread(p)
    BY DEF WInv, PendingOK, PendingAt
  <1>5. WordsOK'
    BY <1>1 DEF WordsOK
  <1>6. PostedOK'
    BY <1>1 DEF WInv, PostedOK
  <1>7. RangeOK' /\ FlagsObey'
    BY <1>1 DEF RangeOK, FlagsObey
  <1>8. PendingOK'
    <2>1. \A m \in kchase' \cup mchase' : Same(cached', m) # {<<cached', m>>}
      BY <1>1 DEF WInv, PendingOK
    <2>2. \A p \in Place : PendingAt(p)'
      BY <1>3, <1>4 DEF PendingAt
    <2> QED
      BY <2>1, <2>2 DEF PendingOK
  <1>9. ASSUME NEW p \in Place PROVE LineAt(p)'
    <2>1. p[1] \in Groups /\ p[2] \in 1 .. Top /\ p = <<p[1], p[2]>>
      BY PlaceIs
    <2>2. CASE p[1] # h
      BY <2>1, <2>2, <1>1, <1>2, <1>3 DEF WInv, LinesObey, LineAt
    <2>3. CASE p[1] = h
      <3> DEFINE n == p[2]
      <3>1. p = <<h, n>> /\ n \in 1 .. Top
        BY <2>1, <2>3
      <3> SUFFICES ASSUME p \notin Loose, h \notin misread
                   PROVE  /\ word'[p] = "read" => n \in Denotes(d.line)
                          /\ word'[p] = "unread" /\ n >= srvFirst[h] => n \notin Denotes(d.line)
        BY <2>3, <1>1, <1>2, <1>3 DEF LineAt
      <3>2. /\ word[p] = "read" => n \in Denotes(news[h].line)
            /\ word[p] = "unread" /\ n >= srvFirst[h] => n \notin Denotes(news[h].line)
        BY <2>3, <1>1, <1>4, Constants DEF WInv, LinesObey, LineAt
      <3> QED
        BY <3>1, <3>2
    <2> QED
      BY <2>2, <2>3
  <1> QED
    BY <1>5, <1>6, <1>7, <1>8, <1>9 DEF WInv, LinesObey

LEMMA RecountObeys ==
  ASSUME IInv, WInv, NEW h \in Groups, Recount(h) PROVE WInv'
  <1> DEFINE d == SetToRead(news[h], h, TRUE)
  <1>1. /\ pc = "list" /\ news' = [news EXCEPT ![h] = d]
        /\ word' = word /\ UNCHANGED <<server, reading, cache, chase, stale, cut, misread>>
    BY DEF Recount
  <1>2. /\ Denotes(d.line) \subseteq
             Denotes(news[h].line)
               \cup (IF news[h].absFirst = 0 THEN 1 .. srvFirst[h] - 1 ELSE {})
        /\ Denotes(news[h].line) \subseteq Denotes(d.line)
    BY SetToReadIs, LaxKeeps DEF IInv, TypesOK, ServerOK
  <1> HIDE DEF d
  <1>3. srvFirst[h] \in Nat
    BY DEF IInv, TypesOK
  <1>4. \A n \in 1 .. Top : n \in Denotes(d.line) /\ n >= srvFirst[h] => n \in Denotes(news[h].line)
    BY <1>2, <1>3
  <1>5. \A p \in Place : /\ word[p] \in {"none", "read", "unread"}
                         /\ word[p] # "none" => p[2] <= srvLast[p[1]]
    BY DEF WInv, WordsOK
  <1> QED
    BY <1>1, <1>2, <1>4, <1>5, NewLineObeys

LEMMA CatchUpObeys ==
  ASSUME IInv, WInv, NEW h \in Groups, NEW leave \in 0 .. 1, CatchUp(h, leave) PROVE WInv'
  <1> DEFINE b == news[h]
             size == IF srvLast[h] > b.ngMax THEN srvLast[h] ELSE b.ngMax
             up == size - leave + 1
             most == [b EXCEPT !.line = CheckExpired(@, up)]
             all == [b EXCEPT !.line = <<Span(1, size)>>, !.toRead = 0, !.ngMax = size]
             d == IF leave > 0 THEN SetToRead(most, h, FALSE) ELSE all
  <1>1. /\ pc = "list" /\ b.absFirst # 0 /\ news' = [news EXCEPT ![h] = d]
        /\ word' = [p \in Place |->
                      IF p \in {h} \X (1 .. size - leave) /\ p[2] <= srvLast[h]
                      THEN "read" ELSE word[p]]
        /\ UNCHANGED <<server, reading, cache, chase, stale, cut, misread>>
    BY DEF CatchUp
  <1>2. /\ NewsOK(b) /\ IsRcLine(b.line) /\ b.ngMax \in Nat /\ ServerOK
        /\ srvFirst[h] \in Nat \ {0} /\ srvLast[h] \in Nat \ {0}
        /\ b.line \in Seq(Entries)
    BY NewsIs DEF IInv, TypesOK, ServerOK
  <1>3. /\ size \in Nat \ {0} /\ srvLast[h] <= size /\ b.ngMax <= size
        /\ up \in Nat /\ up - 1 = size - leave /\ size - leave \in Nat /\ size - leave <= size
    <2>1. size \in Nat \ {0} /\ srvLast[h] <= size /\ b.ngMax <= size
      BY <1>2
    <2> HIDE DEF size
    <2>2. /\ up \in Nat /\ up - 1 = size - leave /\ size - leave \in Nat
          /\ size - leave <= size
      BY <2>1
    <2> QED
      BY <2>1, <2>2
  <1>4. Bounded(b)
    BY <1>1, Constants DEF IInv, PlacesOK, LinesCount
  <1>5. ASSUME NEW p \in Place
        PROVE  /\ word'[p] = IF p[1] = h /\ p[2] \in 1 .. size - leave /\ p[2] <= srvLast[h]
                             THEN "read" ELSE word[p]
               /\ word[p] \in {"none", "read", "unread"}
               /\ word[p] # "none" => p[2] <= srvLast[p[1]]
    <2>1. p \in {h} \X (1 .. size - leave) <=> p[1] = h /\ p[2] \in 1 .. size - leave
      BY PlaceIs
    <2> HIDE DEF size
    <2> QED
      BY <2>1, <1>1 DEF WInv, WordsOK
  <1> HIDE DEF size, up
  <1>6. \/ Denotes(d.line) = Denotes(b.line) \cup (1 .. size - leave)
        \/ leave = 0 /\ Denotes(d.line) = 1 .. size
    <2>1. CASE leave > 0
      <3> DEFINE line == CheckExpired(b.line, up)
      <3>1. /\ IsRcLine(line) /\ Denotes(line) = Denotes(b.line) \cup (1 .. up - 1)
            /\ \A e \in Range(line) : e.hi <= up - 1 \/ \E f \in Range(b.line) : e.hi <= f.hi
        BY <1>2, <1>3, CheckExpiredIs
      <3>2. line \in Seq(Entries)
        BY <3>1, LineIs
      <3> HIDE DEF line
      <3>3. most = [b EXCEPT !.line = line]
        BY DEF line
      <3> HIDE DEF b, most
      <3>4. NewsOK(most) /\ most.absFirst = b.absFirst /\ most.line = line /\ most.ngMax = b.ngMax
        BY <3>1, <3>2, <3>3, <1>2 DEF NewsOK
      <3>5. \A e \in Range(line) : e.hi <= size
        <4>1. \A e \in Range(b.line) : e.hi <= size
          <5> TAKE e \in Range(b.line)
          <5>1. e.hi <= b.ngMax /\ e.hi \in Nat
            BY <1>2, <1>4, HighIsNat DEF Bounded
          <5> QED
            BY <5>1, <1>2, <1>3
        <4>2. up - 1 \in Int /\ up - 1 <= size
          BY <1>3
        <4> QED
          BY <3>1, <4>1, <4>2, <1>2, <1>3, StaysBounded
      <3>6. SetToRead(most, h, FALSE).line = most.line
        <4>1. size = IF srvLast[h] > most.ngMax THEN srvLast[h] ELSE most.ngMax
          BY <3>4 DEF size
        <4>2. most.absFirst # 0
          BY <3>4, <1>1
        <4>3. \A e \in Range(most.line) :
                e.hi <= IF srvLast[h] > most.ngMax THEN srvLast[h] ELSE most.ngMax
          BY <3>4, <3>5, <4>1
        <4> QED
          BY <3>4, <4>2, <4>3, <1>2, StrictKeeps
      <3>7. d.line = line
        BY <2>1, <3>4, <3>6
      <3> HIDE DEF d
      <3>8. 1 .. up - 1 = 1 .. size - leave
        BY <1>3
      <3>9. Denotes(d.line) = Denotes(b.line) \cup (1 .. size - leave)
        BY <3>1, <3>7, <3>8, Zenon
      <3> QED
        BY <3>9
    <2>2. CASE ~(leave > 0)
      <3> DEFINE e == Span(1, size)
                 line == <<e>>
      <3>1. e.lo = 1 /\ e.hi = size /\ IsEntry(e)
        BY <1>3 DEF Span, IsEntry, Entries
      <3> HIDE DEF e
      <3>2. Denotes(line) = 1 .. size
        BY <3>1, OneEntry
      <3>3. d = [b EXCEPT !.line = line, !.toRead = 0, !.ngMax = size]
        BY <2>2 DEF e
      <3> HIDE DEF line, d, b
      <3>4. d.line = line
        BY <3>3, <1>2 DEF NewsOK
      <3> QED
        BY <2>2, <3>2, <3>4
    <2> QED
      BY <2>1, <2>2
  <1> HIDE DEF d
  <1>7. ASSUME NEW n \in 1 .. Top
        PROVE  /\ word'[<<h, n>>] = "read" =>
                    \/ n \in Denotes(d.line)
                    \/ word[<<h, n>>] = "read" /\ n \notin Denotes(b.line)
               /\ word'[<<h, n>>] = "unread" =>
                    /\ word[<<h, n>>] = "unread"
                    /\ n \in Denotes(d.line) => n \in Denotes(b.line)
    <2> DEFINE p == <<h, n>>
    <2>1. /\ word'[p] = IF n \in 1 .. size - leave /\ n <= srvLast[h] THEN "read" ELSE word[p]
          /\ word[p] \in {"none", "read", "unread"}
          /\ word[p] # "none" => n <= srvLast[h]
      <3>1. p \in Place /\ p[1] = h /\ p[2] = n
        BY PlaceIs
      <3> HIDE DEF p
      <3> QED
        BY <3>1, <1>5
    <2> HIDE DEF p
    <2>2. CASE Denotes(d.line) = Denotes(b.line) \cup (1 .. size - leave)
      BY <2>1, <2>2 DEF p
    <2>3. CASE leave = 0 /\ Denotes(d.line) = 1 .. size
      BY <2>1, <2>3, <1>2, <1>3 DEF p
    <2> QED
      BY <2>2, <2>3, <1>6
  <1> HIDE DEF b
  <1>8. \A p \in Place :
          /\ word'[p] \in {"none", "read", "unread"}
          /\ word'[p] # "none" => p[2] <= srvLast[p[1]]
          /\ p[1] # h => word'[p] = word[p]
    BY <1>5
  <1> QED
    BY <1>1, <1>7, <1>8, NewLineObeys DEF b

LEMMA SameLines ==
  ASSUME IInv, NEW c, news' = [news EXCEPT ![cur].toRead = c]
  PROVE  \A g \in Groups : news'[g].line = news[g].line
  <1>1. /\ news = [g \in Groups |-> news[g]]
        /\ \A g \in Groups : NewsOK(news[g])
    BY DEF IInv, TypesOK
  <1>2. ASSUME NEW g \in Groups PROVE news'[g].line = news[g].line
    <2>1. CASE g = cur
      <3>1. news'[g] = [news[g] EXCEPT !.toRead = c]
        BY <1>1, <2>1
      <3>2. NewsOK(news[g])
        BY <1>1
      <3> QED
        BY <3>1, <3>2 DEF NewsOK
    <2>2. CASE g # cur
      <3>1. news'[g] = news[g]
        BY <1>1, <2>2
      <3> QED
        BY <3>1
    <2> QED
      BY <2>1, <2>2
  <1> QED
    BY <1>2

\* What a command knows: the articles of the group are at the server, so are
\* their copies.
LEMMA HereObeys ==
  ASSUME IInv, WInv, pc # "list"
  PROVE  /\ cur \in Groups /\ cur # NoGroup /\ cached = cur /\ ServerOK
         /\ first \in Nat \ {0} /\ last \in Nat /\ srvLast[cur] \in Nat
         /\ unread \in SUBSET Int /\ yank \subseteq first .. last
         /\ \A n \in first .. last : n <= srvLast[cur]
         /\ \A n \in first .. last, p \in Place :
              n \in 1 .. Top /\ p \in Same(cur, n) => p[2] <= srvLast[p[1]]
  <1>1. /\ cur \in Groups /\ cur # NoGroup /\ cached = cur /\ ServerOK
        /\ first \in Nat \ {0} /\ last \in Nat /\ srvLast[cur] \in Nat
        /\ unread \in SUBSET Int
    BY Here DEF IInv, TypesOK, ServerOK
  <1>2. yank \subseteq first .. last /\ (last <= srvLast[cur] \/ first > last)
    BY <1>1 DEF WInv, RangeOK
  <1>3. \A n \in first .. last : n <= srvLast[cur]
    BY <1>1, <1>2
  <1>4. ASSUME NEW n \in first .. last, NEW p \in Place, n \in 1 .. Top, p \in Same(cur, n)
        PROVE  p[2] <= srvLast[p[1]]
    BY <1>1, <1>3, <1>4, AllPosted DEF WInv
  <1> QED
    BY <1>1, <1>2, <1>3, <1>4

LEMMA MarkAsReadObeys ==
  ASSUME IInv, WInv, NEW n \in 1 .. Top, MarkAsRead(n) PROVE WInv'
  <1> DEFINE c == news[cur].toRead - Cardinality({n} \cap unread)
  <1>1. /\ pc = "reading" /\ pc' = pc /\ n \in first .. last
        /\ unread' = unread \ {n}
        /\ news' = [news EXCEPT ![cur].toRead = c]
        /\ word' = [p \in Place |-> IF p \in Same(cur, n) THEN "read" ELSE word[p]]
        /\ stale' = IF n \in mchase THEN stale \cup Same(cur, n) ELSE stale
        /\ srvFirst' = srvFirst /\ srvLast' = srvLast /\ cur' = cur /\ first' = first
        /\ last' = last /\ yank' = yank /\ cached' = cached /\ mchase' = mchase
        /\ cut' = cut /\ misread' = misread
    BY DEF MarkAsRead, Command, OneLess, server
  <1>2. kchase' = IF HasXrefs(n) THEN kchase \cup {n} ELSE kchase
    BY DEF MarkAsRead
  <1>3. HasXrefs(n) <=> Same(cur, n) # {<<cur, n>>}
    BY DEF HasXrefs
  <1>4. /\ cur \in Groups /\ cur # NoGroup /\ cached = cur
        /\ \A p \in Place : p \in Same(cur, n) => p[2] <= srvLast[p[1]]
    BY <1>1, HereObeys
  <1>5. \A g \in Groups : news'[g].line = news[g].line
    <2> HIDE DEF c
    <2> QED
      BY <1>1, SameLines
  <1> HIDE DEF c
  <1>6. <<cur, n>> \in Same(cur, n) /\ \A k : <<cur, k>> \in Same(cur, n) => k = n
    BY OwnNumber
  <1>7. \A m, p : p \in Same(cur, n) /\ p \in Same(cur, m) => m = n
    BY OneArticle
  <1>8. \A p : /\ (p \in Loose)' => p \in Loose \/ (n \in mchase /\ p \in Same(cur, n))
               /\ p \in Loose => (p \in Loose)'
               /\ n \in mchase /\ p \in Same(cur, n) => (p \in Loose)'
    BY <1>1 DEF Loose
  <1>9. \A p : /\ ToUnread(p)' <=> ToUnread(p)
               /\ ToRead(p) => ToRead(p)'
               /\ ToRead(p)' => ToRead(p) \/ p \in Same(cur, n)
               /\ HasXrefs(n) /\ p \in Same(cur, n) => ToRead(p)'
               /\ ToUnread(p) /\ p \in Same(cur, n) => n \in mchase
    BY <1>1, <1>2, <1>4, <1>7 DEF ToRead, ToUnread
  <1>10. WordsOK'
    BY <1>1, <1>4 DEF WInv, WordsOK
  <1>11. PostedOK' /\ RangeOK'
    BY <1>1 DEF WInv, PostedOK, RangeOK
  <1>12. PendingOK'
    <2>1. \A m \in kchase' \cup mchase' : Same(cached', m) # {<<cached', m>>}
      BY <1>1, <1>2, <1>3, <1>4 DEF WInv, PendingOK
    <2>2. ASSUME NEW p \in Place PROVE PendingAt(p)'
      <3>1. PendingAt(p)
        BY DEF WInv, PendingOK
      <3>2. CASE p \in Same(cur, n)
        BY <3>2, <1>1, <1>8, <1>9 DEF PendingAt
      <3>3. CASE p \notin Same(cur, n)
        BY <3>1, <3>3, <1>1, <1>8, <1>9 DEF PendingAt
      <3> QED
        BY <3>2, <3>3
    <2> QED
      BY <2>1, <2>2 DEF PendingOK
  <1>13. FlagsObey'
    <2> SUFFICES ASSUME cur \notin misread
                 PROVE  /\ first <= last + 1 /\ unread \ {n} \subseteq first .. last
                        /\ \A k \in 1 .. Top : FlagAt(k)'
      BY <1>1 DEF FlagsObey
    <2>1. /\ first <= last + 1 /\ unread \subseteq first .. last
          /\ \A k \in 1 .. Top : FlagAt(k)
      BY <1>4 DEF WInv, FlagsObey
    <2>2. ASSUME NEW k \in 1 .. Top PROVE FlagAt(k)'
      <3>1. <<cur, k>> \in Place
        BY <1>4, PlaceIs
      <3>2. CASE k = n
        <4>1. word'[<<cur, k>>] = "read"
          BY <3>1, <3>2, <1>1, <1>6
        <4>2. k <= last
          BY <3>2, <1>1
        <4> QED
          BY <4>1, <4>2, <3>2, <1>1 DEF FlagAt
      <3>3. CASE k # n
        <4>1. <<cur, k>> \notin Same(cur, n)
          BY <3>3, <1>6
        <4>2. word'[<<cur, k>>] = word[<<cur, k>>]
          BY <4>1, <3>1, <1>1
        <4> QED
          BY <4>1, <4>2, <3>3, <2>1, <1>1, <1>8 DEF FlagAt
      <3> QED
        BY <3>2, <3>3
    <2> QED
      BY <2>1, <2>2
  <1>14. LinesObey'
    <2> SUFFICES ASSUME NEW p \in Place PROVE LineAt(p)'
      BY DEF LinesObey
    <2>1. p[1] \in Groups /\ LineAt(p)
      BY PlaceIs DEF WInv, LinesObey
    <2>2. CASE p \in Same(cur, n)
      <3>1. p[1] # cur => HasXrefs(n)
        BY <2>2, <1>3
      <3> QED
        BY <3>1, <2>2, <1>1, <1>9 DEF LineAt
    <2>3. CASE p \notin Same(cur, n)
      BY <2>1, <2>3, <1>1, <1>5, <1>8, <1>9 DEF LineAt
    <2> QED
      BY <2>2, <2>3
  <1> QED
    BY <1>10, <1>11, <1>12, <1>13, <1>14 DEF WInv

LEMMA UnmarkAsReadObeys ==
  ASSUME IInv, WInv, NEW n \in 1 .. Top, UnmarkAsRead(n) PROVE WInv'
  <1> DEFINE c == news[cur].toRead + Cardinality({n} \ unread)
  <1>1. /\ pc = "reading" /\ pc' = pc /\ n \in first .. last
        /\ unread' = unread \cup {n}
        /\ news' = [news EXCEPT ![cur].toRead = c]
        /\ word' = [p \in Place |-> IF p \in Same(cur, n) THEN "unread" ELSE word[p]]
        /\ stale' = stale
        /\ srvFirst' = srvFirst /\ srvLast' = srvLast /\ cur' = cur /\ first' = first
        /\ last' = last /\ yank' = yank /\ cached' = cached /\ kchase' = kchase
        /\ cut' = cut /\ misread' = misread
    BY DEF UnmarkAsRead, Command, Unmark, OneMore, server
  <1>2. mchase' = IF HasXrefs(n) THEN mchase \cup {n} ELSE mchase
    BY DEF UnmarkAsRead, Unmark
  <1>3. HasXrefs(n) <=> Same(cur, n) # {<<cur, n>>}
    BY DEF HasXrefs
  <1>4. /\ cur \in Groups /\ cur # NoGroup /\ cached = cur
        /\ \A p \in Place : p \in Same(cur, n) => p[2] <= srvLast[p[1]]
    BY <1>1, HereObeys
  <1>5. \A g \in Groups : news'[g].line = news[g].line
    <2> HIDE DEF c
    <2> QED
      BY <1>1, SameLines
  <1> HIDE DEF c
  <1>6. <<cur, n>> \in Same(cur, n) /\ \A k : <<cur, k>> \in Same(cur, n) => k = n
    BY OwnNumber
  <1>7. \A m, p : p \in Same(cur, n) /\ p \in Same(cur, m) => m = n
    BY OneArticle
  <1>8. \A p : (p \in Loose)' <=> p \in Loose
    BY <1>1 DEF Loose
  <1>9. \A p : /\ ToRead(p)' <=> ToRead(p)
               /\ ToUnread(p) => ToUnread(p)'
               /\ ToUnread(p)' => ToUnread(p) \/ p \in Same(cur, n)
               /\ HasXrefs(n) /\ p \in Same(cur, n) => ToUnread(p)'
    BY <1>1, <1>2, <1>4, <1>7 DEF ToRead, ToUnread
  <1>10. \A p : ToRead(p) /\ p \in Same(cur, n) => HasXrefs(n)
    BY <1>3, <1>4, <1>7 DEF ToRead, WInv, PendingOK
  <1>11. WordsOK'
    BY <1>1, <1>4 DEF WInv, WordsOK
  <1>12. PostedOK' /\ RangeOK'
    BY <1>1 DEF WInv, PostedOK, RangeOK
  <1>13. PendingOK'
    <2>1. \A m \in kchase' \cup mchase' : Same(cached', m) # {<<cached', m>>}
      BY <1>1, <1>2, <1>3, <1>4 DEF WInv, PendingOK
    <2>2. ASSUME NEW p \in Place PROVE PendingAt(p)'
      <3>1. PendingAt(p)
        BY DEF WInv, PendingOK
      <3>2. CASE p \in Same(cur, n)
        BY <3>2, <1>1, <1>8, <1>9, <1>10 DEF PendingAt
      <3>3. CASE p \notin Same(cur, n)
        BY <3>1, <3>3, <1>1, <1>8, <1>9 DEF PendingAt
      <3> QED
        BY <3>2, <3>3
    <2> QED
      BY <2>1, <2>2 DEF PendingOK
  <1>14. FlagsObey'
    <2> SUFFICES ASSUME cur \notin misread
                 PROVE  /\ first <= last + 1 /\ unread \cup {n} \subseteq first .. last
                        /\ \A k \in 1 .. Top : FlagAt(k)'
      BY <1>1 DEF FlagsObey
    <2>1. /\ first <= last + 1 /\ unread \subseteq first .. last
          /\ \A k \in 1 .. Top : FlagAt(k)
      BY <1>4 DEF WInv, FlagsObey
    <2>2. ASSUME NEW k \in 1 .. Top PROVE FlagAt(k)'
      <3>1. <<cur, k>> \in Place
        BY <1>4, PlaceIs
      <3>2. CASE k = n
        <4>1. word'[<<cur, k>>] = "unread"
          BY <3>1, <3>2, <1>1, <1>6
        <4> QED
          BY <4>1, <3>2, <1>1 DEF FlagAt
      <3>3. CASE k # n
        <4>1. <<cur, k>> \notin Same(cur, n)
          BY <3>3, <1>6
        <4>2. word'[<<cur, k>>] = word[<<cur, k>>]
          BY <4>1, <3>1, <1>1
        <4> QED
          BY <4>2, <3>3, <2>1, <1>1, <1>2, <1>8 DEF FlagAt
      <3> QED
        BY <3>2, <3>3
    <2> QED
      BY <2>1, <2>2, <1>1
  <1>15. LinesObey'
    <2> SUFFICES ASSUME NEW p \in Place PROVE LineAt(p)'
      BY DEF LinesObey
    <2>1. p[1] \in Groups /\ LineAt(p)
      BY PlaceIs DEF WInv, LinesObey
    <2>2. CASE p \in Same(cur, n)
      <3>1. p[1] # cur => HasXrefs(n)
        BY <2>2, <1>3
      <3> QED
        BY <3>1, <2>2, <1>1, <1>9 DEF LineAt
    <2>3. CASE p \notin Same(cur, n)
      BY <2>1, <2>3, <1>1, <1>5, <1>8, <1>9 DEF LineAt
    <2> QED
      BY <2>2, <2>3
  <1> QED
    BY <1>11, <1>12, <1>13, <1>14, <1>15 DEF WInv

LEMMA DelayUnmarkObeys ==
  ASSUME IInv, WInv, NEW n \in 1 .. Top, DelayUnmark(n) PROVE WInv'
  <1> DEFINE c == news[cur].toRead - Cardinality({n} \cap unread)
  <1>1. /\ pc = "reading" /\ n \in first .. last
        /\ unread' = unread \ {n} /\ yank' = yank \cup {n}
        /\ news' = [news EXCEPT ![cur].toRead = c]
        /\ pc' = pc /\ word' = word /\ stale' = stale
        /\ srvFirst' = srvFirst /\ srvLast' = srvLast /\ cur' = cur /\ first' = first
        /\ last' = last /\ cached' = cached /\ kchase' = kchase /\ mchase' = mchase
        /\ cut' = cut /\ misread' = misread
    BY DEF DelayUnmark, Command, OneLess, server, cache, chase
  <1>2. cur \in Groups /\ cur # NoGroup
    BY <1>1, HereObeys
  <1>3. \A g \in Groups : news'[g].line = news[g].line
    <2> HIDE DEF c
    <2> QED
      BY <1>1, SameLines
  <1> HIDE DEF c
  <1>4. \A p : /\ (p \in Loose)' <=> p \in Loose
               /\ ToRead(p)' <=> ToRead(p)
               /\ ToUnread(p)' <=> ToUnread(p)
    BY <1>1 DEF Loose, ToRead, ToUnread
  <1>5. WordsOK' /\ PostedOK' /\ RangeOK'
    BY <1>1 DEF WInv, WordsOK, PostedOK, RangeOK
  <1>6. PendingOK'
    BY <1>1, <1>4 DEF WInv, PendingOK, PendingAt
  <1>7. FlagsObey'
    BY <1>1, <1>4 DEF WInv, FlagsObey, FlagAt
  <1>8. LinesObey'
    BY <1>1, <1>3, <1>4, PlaceIs DEF WInv, LinesObey, LineAt
  <1> QED
    BY <1>5, <1>6, <1>7, <1>8 DEF WInv

LEMMA EverywhereIs ==
  ASSUME NEW nums, NEW p
  PROVE  p \in Everywhere(nums) <=> \E n \in nums : p \in Same(cur, n)
  BY DEF Everywhere

LEMMA YankBackObeys ==
  ASSUME IInv, WInv, YankBack PROVE WInv'
  <1> DEFINE c == news[cur].toRead + Cardinality(yank \ unread)
             crossed == {n \in yank : HasXrefs(n)}
  <1>1. /\ pc = "reading" /\ pc' = pc
        /\ unread' = unread \cup yank /\ yank' = {}
        /\ news' = [news EXCEPT ![cur].toRead = c]
        /\ mchase' = mchase \cup (crossed \ mchase)
        /\ word' = [p \in Place |-> IF p \in {cur} \X yank THEN "unread" ELSE word[p]]
        /\ stale' = stale \cup Everywhere(crossed)
        /\ srvFirst' = srvFirst /\ srvLast' = srvLast /\ cur' = cur /\ first' = first
        /\ last' = last /\ cached' = cached /\ kchase' = kchase
        /\ cut' = cut /\ misread' = misread
    BY DEF YankBack, Unmark, OneMore, Returned, server
  <1>2. \A m : m \in crossed <=> m \in yank /\ Same(cur, m) # {<<cur, m>>}
    BY DEF HasXrefs
  <1>3. /\ cur \in Groups /\ cur # NoGroup /\ cached = cur
        /\ yank \subseteq first .. last /\ \A n \in first .. last : n <= srvLast[cur]
    BY <1>1, HereObeys
  <1>4. \A g \in Groups : news'[g].line = news[g].line
    <2> HIDE DEF c
    <2> QED
      BY <1>1, SameLines
  <1> HIDE DEF c, crossed
  <1>5. \A m, k : <<cur, k>> \in Same(cur, m) => k = m
    BY OwnNumber
  <1>6. \A p : /\ p \in Loose => (p \in Loose)'
               /\ (\E m \in crossed : p \in Same(cur, m)) => (p \in Loose)'
    BY <1>1, EverywhereIs DEF Loose
  <1>7. \A p : /\ ToRead(p)' <=> ToRead(p)
               /\ ToUnread(p) => ToUnread(p)'
               /\ ToUnread(p)' => ToUnread(p) \/ (p \in Loose)'
    BY <1>1, <1>3, <1>6 DEF ToRead, ToUnread
  <1>8. ASSUME NEW p \in Place
        PROVE  /\ p \in {cur} \X yank <=> p[1] = cur /\ p[2] \in yank
               /\ p[1] \in Groups /\ p = <<p[1], p[2]>>
    BY PlaceIs
  <1>9. WordsOK'
    <2> SUFFICES ASSUME NEW p \in Place
                 PROVE  /\ word'[p] \in {"none", "read", "unread"}
                        /\ word'[p] # "none" => p[2] <= srvLast[p[1]]
      BY <1>1 DEF WordsOK
    <2>1. /\ word[p] \in {"none", "read", "unread"}
          /\ word[p] # "none" => p[2] <= srvLast[p[1]]
      BY DEF WInv, WordsOK
    <2> QED
      BY <2>1, <1>1, <1>3, <1>8
  <1>10. PostedOK'
    BY <1>1 DEF WInv, PostedOK
  <1>11. RangeOK'
    BY <1>1 DEF WInv, RangeOK
  <1>12. PendingOK'
    <2>1. \A m \in kchase' \cup mchase' : Same(cached', m) # {<<cached', m>>}
      BY <1>1, <1>2, <1>3 DEF WInv, PendingOK
    <2>2. ASSUME NEW p \in Place PROVE PendingAt(p)'
      <3>1. PendingAt(p)
        BY DEF WInv, PendingOK
      <3>2. CASE p \in {cur} \X yank
        <4>1. word'[p] = "unread"
          BY <3>2, <1>1
        <4>2. ToRead(p) => (p \in Loose)'
          <5> SUFFICES ASSUME NEW m \in kchase, p \in Same(cur, m)
                       PROVE  (p \in Loose)'
            BY <1>3 DEF ToRead
          <5>1. m \in yank
            BY <3>2, <1>5, <1>8
          <5>2. Same(cur, m) # {<<cur, m>>}
            BY <1>3 DEF WInv, PendingOK
          <5> QED
            BY <5>1, <5>2, <1>2, <1>6
        <4> QED
          BY <4>1, <4>2, <1>1, <1>7 DEF PendingAt
      <3>3. CASE p \notin {cur} \X yank
        <4>1. word'[p] = word[p]
          BY <3>3, <1>1
        <4> QED
          BY <4>1, <3>1, <1>1, <1>6, <1>7 DEF PendingAt
      <3> QED
        BY <3>2, <3>3
    <2> QED
      BY <2>1, <2>2 DEF PendingOK
  <1>13. FlagsObey'
    <2> SUFFICES ASSUME cur \notin misread
                 PROVE  /\ first <= last + 1 /\ unread \cup yank \subseteq first .. last
                        /\ \A k \in 1 .. Top : FlagAt(k)'
      BY <1>1 DEF FlagsObey
    <2>1. /\ first <= last + 1 /\ unread \subseteq first .. last
          /\ \A k \in 1 .. Top : FlagAt(k)
      BY <1>3 DEF WInv, FlagsObey
    <2>2. ASSUME NEW k \in 1 .. Top PROVE FlagAt(k)'
      <3>1. <<cur, k>> \in Place
        BY <1>3, PlaceIs
      <3>2. word'[<<cur, k>>] = IF k \in yank THEN "unread" ELSE word[<<cur, k>>]
        BY <3>1, <1>1
      <3>3. FlagAt(k)
        BY <2>1
      <3>4. CASE k \in yank
        BY <3>2, <3>4, <1>1 DEF FlagAt
      <3>5. CASE k \notin yank
        BY <3>2, <3>3, <3>5, <1>1, <1>6 DEF FlagAt
      <3> QED
        BY <3>4, <3>5
    <2> QED
      BY <2>1, <2>2, <1>3
  <1>14. LinesObey'
    <2> SUFFICES ASSUME NEW p \in Place PROVE LineAt(p)'
      BY DEF LinesObey
    <2>1. p[1] \in Groups /\ LineAt(p)
      BY PlaceIs DEF WInv, LinesObey
    <2>2. CASE p[1] = cur
      BY <2>2, <1>1 DEF LineAt
    <2>3. CASE p[1] # cur
      <3>1. word'[p] = word[p]
        BY <2>3, <1>1, <1>8
      <3> QED
        BY <3>1, <2>1, <1>1, <1>4, <1>6, <1>7 DEF LineAt
    <2> QED
      BY <2>2, <2>3
  <1> QED
    BY <1>9, <1>10, <1>11, <1>12, <1>13, <1>14 DEF WInv

LEMMA MarkAllReadObeys ==
  ASSUME IInv, WInv, MarkAllRead PROVE WInv'
  <1> DEFINE c == Cardinality(yank)
             crossed == {n \in yank : HasXrefs(n)}
  <1>1. /\ pc = "reading" /\ pc' = pc
        /\ unread' = yank /\ yank' = {}
        /\ news' = [news EXCEPT ![cur].toRead = c]
        /\ mchase' = mchase \cup (crossed \ mchase)
        /\ word' = [p \in Place |-> IF p \in {cur} \X yank THEN "unread"
                                    ELSE IF p \in {cur} \X (first .. last) THEN "read"
                                    ELSE word[p]]
        /\ stale' = stale \cup Everywhere(mchase \cup crossed)
        /\ srvFirst' = srvFirst /\ srvLast' = srvLast /\ cur' = cur /\ first' = first
        /\ last' = last /\ cached' = cached /\ kchase' = kchase
        /\ cut' = cut /\ misread' = misread
    BY DEF MarkAllRead, server
  <1>2. \A m : m \in crossed <=> m \in yank /\ Same(cur, m) # {<<cur, m>>}
    BY DEF HasXrefs
  <1>3. /\ cur \in Groups /\ cur # NoGroup /\ cached = cur
        /\ yank \subseteq first .. last /\ \A n \in first .. last : n <= srvLast[cur]
        /\ first \in Nat /\ last \in Nat
    BY <1>1, HereObeys
  <1>4. \A g \in Groups : news'[g].line = news[g].line
    <2> HIDE DEF c
    <2> QED
      BY <1>1, SameLines
  <1> HIDE DEF c, crossed
  <1>5. \A m, k : <<cur, k>> \in Same(cur, m) => k = m
    BY OwnNumber
  <1>6. \A p : /\ p \in Loose => (p \in Loose)'
               /\ (\E m \in mchase \cup crossed : p \in Same(cur, m)) => (p \in Loose)'
    BY <1>1, EverywhereIs DEF Loose
  <1>7. \A p : /\ ToRead(p)' <=> ToRead(p)
               /\ ToUnread(p) => (p \in Loose)'
               /\ ToUnread(p)' => (p \in Loose)'
    BY <1>1, <1>3, <1>6 DEF ToRead, ToUnread
  <1>8. ASSUME NEW p \in Place
        PROVE  /\ p \in {cur} \X yank <=> p[1] = cur /\ p[2] \in yank
               /\ p \in {cur} \X (first .. last) <=> p[1] = cur /\ p[2] \in first .. last
               /\ p[1] \in Groups /\ p = <<p[1], p[2]>>
    BY PlaceIs
  <1>9. WordsOK'
    <2> SUFFICES ASSUME NEW p \in Place
                 PROVE  /\ word'[p] \in {"none", "read", "unread"}
                        /\ word'[p] # "none" => p[2] <= srvLast[p[1]]
      BY <1>1 DEF WordsOK
    <2>1. /\ word[p] \in {"none", "read", "unread"}
          /\ word[p] # "none" => p[2] <= srvLast[p[1]]
      BY DEF WInv, WordsOK
    <2> QED
      BY <2>1, <1>1, <1>3, <1>8
  <1>10. PostedOK'
    BY <1>1 DEF WInv, PostedOK
  <1>11. RangeOK'
    BY <1>1 DEF WInv, RangeOK
  <1>12. PendingOK'
    <2>1. \A m \in kchase' \cup mchase' : Same(cached', m) # {<<cached', m>>}
      BY <1>1, <1>2, <1>3 DEF WInv, PendingOK
    <2>2. ASSUME NEW p \in Place PROVE PendingAt(p)'
      <3>1. PendingAt(p)
        BY DEF WInv, PendingOK
      <3>2. CASE p \in {cur} \X yank
        <4>1. ToRead(p) => (p \in Loose)'
          <5> SUFFICES ASSUME NEW m \in kchase, p \in Same(cur, m)
                       PROVE  (p \in Loose)'
            BY <1>3 DEF ToRead
          <5>1. m \in yank
            BY <3>2, <1>5, <1>8
          <5>2. Same(cur, m) # {<<cur, m>>}
            BY <1>3 DEF WInv, PendingOK
          <5> QED
            BY <5>1, <5>2, <1>2, <1>6
        <4> QED
          BY <4>1, <1>1, <1>7 DEF PendingAt
      <3>3. CASE p \notin {cur} \X yank
        <4>1. word'[p] = "read" \/ word'[p] = word[p]
          BY <3>3, <1>1
        <4> QED
          BY <4>1, <3>1, <1>1, <1>6, <1>7 DEF PendingAt
      <3> QED
        BY <3>2, <3>3
    <2> QED
      BY <2>1, <2>2 DEF PendingOK
  <1>13. FlagsObey'
    <2> SUFFICES ASSUME cur \notin misread
                 PROVE  /\ first <= last + 1 /\ yank \subseteq first .. last
                        /\ \A k \in 1 .. Top : FlagAt(k)'
      BY <1>1 DEF FlagsObey
    <2>1. /\ first <= last + 1 /\ unread \subseteq first .. last
          /\ \A k \in 1 .. Top : FlagAt(k)
      BY <1>3 DEF WInv, FlagsObey
    <2>2. ASSUME NEW k \in 1 .. Top PROVE FlagAt(k)'
      <3>1. <<cur, k>> \in Place
        BY <1>3, PlaceIs
      <3>2. word'[<<cur, k>>] = IF k \in yank THEN "unread"
                                ELSE IF k \in first .. last THEN "read" ELSE word[<<cur, k>>]
        BY <3>1, <1>1
      <3>3. FlagAt(k)
        BY <2>1
      <3>4. CASE k \in yank
        BY <3>2, <3>4, <1>1 DEF FlagAt
      <3>5. CASE k \notin yank /\ k \in first .. last
        BY <3>2, <3>5, <1>1, <1>3 DEF FlagAt
      <3>6. CASE k \notin yank /\ k \notin first .. last
        BY <2>1, <3>2, <3>3, <3>6, <1>1, <1>6 DEF FlagAt
      <3> QED
        BY <3>4, <3>5, <3>6
    <2> QED
      BY <2>1, <2>2, <1>3
  <1>14. LinesObey'
    <2> SUFFICES ASSUME NEW p \in Place PROVE LineAt(p)'
      BY DEF LinesObey
    <2>1. p[1] \in Groups /\ LineAt(p)
      BY PlaceIs DEF WInv, LinesObey
    <2>2. CASE p[1] = cur
      BY <2>2, <1>1 DEF LineAt
    <2>3. CASE p[1] # cur
      <3>1. word'[p] = word[p]
        BY <2>3, <1>1, <1>8
      <3> QED
        BY <3>1, <2>1, <1>1, <1>4, <1>6, <1>7 DEF LineAt
    <2> QED
      BY <2>2, <2>3
  <1> QED
    BY <1>9, <1>10, <1>11, <1>12, <1>13, <1>14 DEF WInv

LEMMA GrowNewsgroupObeys ==
  ASSUME IInv, WInv, GrowNewsgroup PROVE WInv'
  <1> DEFINE d == GroupReply(news[cur], cur)
             new == (last + 1 .. d.ngMax) \cap (srvFirst[cur] .. srvLast[cur])
             e == [d EXCEPT !.toRead = @ + Cardinality(new)]
  <1>1. /\ pc = "reading" /\ last' = d.ngMax
        /\ unread' = unread \cup new
        /\ news' = [news EXCEPT ![cur] = e]
        /\ srvFirst' = srvFirst /\ srvLast' = srvLast /\ cur' = cur /\ first' = first
        /\ yank' = yank /\ cached' = cached /\ kchase' = kchase /\ mchase' = mchase
        /\ pc' = pc /\ word' = word /\ stale' = stale /\ cut' = cut /\ misread' = misread
    BY DEF GrowNewsgroup, server, cache, chase, history
  <1>2. /\ cur \in Groups /\ cur # NoGroup /\ ServerOK
        /\ first \in Nat \ {0} /\ last \in Nat /\ yank \subseteq first .. last
        /\ NewsOK(news[cur]) /\ news[cur].ngMax = last
        /\ srvFirst[cur] \in Nat /\ srvLast[cur] \in Nat
    BY <1>1, Here, HereObeys DEF ServerOK
  <1>3. /\ NewsOK(d) /\ d.line = news[cur].line /\ d.ngMax \in Nat
        /\ srvFirst[cur] <= srvLast[cur] => d.ngMax = srvLast[cur]
        /\ srvFirst[cur] > srvLast[cur] => d.ngMax = last
    BY <1>2, GroupReplyIs
  <1> HIDE DEF d
  <1>4. e.line = news[cur].line
    BY <1>3 DEF NewsOK
  <1>5. new \subseteq last + 1 .. d.ngMax
    OBVIOUS
  <1> HIDE DEF e, new
  <1>6. \A g \in Groups : news'[g].line = news[g].line
    BY <1>1, <1>4 DEF IInv, TypesOK
  <1>7. \A p : /\ (p \in Loose)' <=> p \in Loose
               /\ ToRead(p)' <=> ToRead(p)
               /\ ToUnread(p)' <=> ToUnread(p)
    BY <1>1 DEF Loose, ToRead, ToUnread
  <1>8. WordsOK' /\ PostedOK'
    BY <1>1 DEF WInv, WordsOK, PostedOK
  <1>9. RangeOK'
    <2>1. last <= srvLast[cur] \/ first > last
      BY <1>2 DEF WInv, RangeOK
    <2>2. d.ngMax <= srvLast[cur] \/ first > d.ngMax
      BY <2>1, <1>2, <1>3
    <2>3. yank \subseteq first .. d.ngMax
      <3>1. CASE last <= srvLast[cur]
        <4>1. last <= d.ngMax
          BY <3>1, <1>2, <1>3
        <4> QED
          BY <4>1, <1>2, <1>3
      <3>2. CASE first > last
        <4>1. first .. last = {}
          BY <3>2, <1>2
        <4> QED
          BY <4>1, <1>2
      <3> QED
        BY <2>1, <3>1, <3>2
    <2> QED
      BY <2>2, <2>3, <1>1 DEF RangeOK
  <1>10. PendingOK'
    BY <1>1, <1>7 DEF WInv, PendingOK, PendingAt
  <1>11. FlagsObey'
    <2> SUFFICES ASSUME cur \notin misread
                 PROVE  /\ first <= d.ngMax + 1 /\ unread \cup new \subseteq first .. d.ngMax
                        /\ \A k \in 1 .. Top : FlagAt(k)'
      BY <1>1 DEF FlagsObey
    <2>1. /\ first <= last + 1 /\ unread \subseteq first .. last
          /\ \A k \in 1 .. Top : FlagAt(k)
      BY <1>2 DEF WInv, FlagsObey
    <2>2. last <= srvLast[cur]
      BY <1>2 DEF IInv, FlagsOK
    <2>3. last <= d.ngMax
      BY <2>2, <1>2, <1>3
    <2>4. unread \cup new \subseteq first .. d.ngMax
      BY <2>1, <2>3, <1>2, <1>3, <1>5
    <2>5. ASSUME NEW k \in 1 .. Top PROVE FlagAt(k)'
      <3>1. FlagAt(k)
        BY <2>1
      <3>2. k <= last => k \notin new
        BY <1>2, <1>3, <1>5
      <3>3. k <= last => k <= d.ngMax
        BY <2>3, <1>2, <1>3
      <3> QED
        BY <3>1, <3>2, <3>3, <1>1, <1>7 DEF FlagAt
    <2> QED
      BY <2>1, <2>3, <2>4, <2>5, <1>2, <1>3
  <1>12. LinesObey'
    BY <1>1, <1>6, <1>7, PlaceIs DEF WInv, LinesObey, LineAt
  <1> QED
    BY <1>8, <1>9, <1>10, <1>11, <1>12 DEF WInv

-------------------------------------------------------------------------------
(* The chase of one article.                                               *)

\* What chase_xref does to the flags here, and to the lines elsewhere.
Carries(t, s, n, read) ==
  /\ NewsSound(t.news)
  /\ t.news[cur].line = s.news[cur].line
  /\ \A m : m # n => (m \in t.unread <=> m \in s.unread)
  /\ ~read /\ n \in first .. last => n \in t.unread
  /\ read => n \notin t.unread \/ n \in s.unread
  /\ \A g \in Groups \ {cur} :
       LET there == Numbers(g, Same(cur, n)) IN
       /\ read /\ (\A x \in there : ~Overreads(s.news[g], g, x)) =>
            /\ Denotes(s.news[g].line) \cup there \subseteq Denotes(t.news[g].line)
            /\ Denotes(t.news[g].line) \subseteq
                 Denotes(s.news[g].line) \cup (1 .. srvFirst[g] - 1) \cup there
       /\ ~read => Denotes(t.news[g].line) = Denotes(s.news[g].line) \ there

LEMMA ChasedCarries ==
  ASSUME ServerOK, cur \in Groups, first \in Nat, last \in Nat,
         NEW s, NewsSound(s.news), s.unread \in SUBSET Int, IsFiniteSet(s.unread),
         NEW n \in 1 .. Top, NEW read \in BOOLEAN
  PROVE  Carries(Chased(s, n, read), s, n, read)
  <1> DEFINE here == Numbers(cur, Same(cur, n)) \cap (first .. last)
             Elsewhere(g) == Numbers(g, Same(cur, n))
             x(g) == CHOOSE x \in Elsewhere(g) : TRUE
             NewIn(g) == IF read THEN AddIn(s.news[g], g, x(g)) ELSE SubIn(s.news[g], x(g))
             delta == IF read THEN - Cardinality(here \cap s.unread)
                              ELSE Cardinality(here \ s.unread)
             now == IF read THEN s.unread \ here ELSE s.unread \cup here
             Of(g) == IF g = cur THEN [s.news[g] EXCEPT !.toRead = @ + delta]
                      ELSE IF Elsewhere(g) = {} THEN s.news[g]
                      ELSE NewIn(g)
             t == Chased(s, n, read)
  <1>1. t.unread = now /\ t.news = [g \in Groups |-> Of(g)]
    BY DEF Chased
  <1>2. Chases(t, s, n, read)
    BY ChasedIs
  <1> HIDE DEF t
  <1>3. here = {n} \cap (first .. last)
    BY OwnNumber DEF Numbers
  <1>4. /\ \A m : m # n => (m \in now <=> m \in s.unread)
        /\ ~read /\ n \in first .. last => n \in now
        /\ read => n \notin now \/ n \in s.unread
    BY <1>3
  <1>5. ASSUME NEW g \in Groups \ {cur}
        PROVE  LET there == Numbers(g, Same(cur, n)) IN
               /\ read /\ (\A k \in there : ~Overreads(s.news[g], g, k)) =>
                    /\ Denotes(s.news[g].line) \cup there \subseteq Denotes(t.news[g].line)
                    /\ Denotes(t.news[g].line) \subseteq
                         Denotes(s.news[g].line) \cup (1 .. srvFirst[g] - 1) \cup there
               /\ ~read => Denotes(t.news[g].line) = Denotes(s.news[g].line) \ there
    <2>1. NewsOK(s.news[g])
      BY DEF NewsSound
    <2>2. CASE Elsewhere(g) = {}
      <3>1. t.news[g] = s.news[g]
        BY <2>2, <1>1
      <3> QED
        BY <2>2, <3>1
    <2>3. CASE Elsewhere(g) # {}
      <3>1. x(g) \in Elsewhere(g)
        BY <2>3
      <3>2. x(g) \in Nat \ {0}
        <4>1. \A k \in Elsewhere(g) : k \in Nat \ {0}
          BY Constants DEF Numbers
        <4> HIDE DEF x
        <4> QED
          BY <3>1, <4>1
      <3>3. Elsewhere(g) = {x(g)}
        <4>1. \A k \in Elsewhere(g) : <<g, k>> \in Same(cur, n)
          BY DEF Numbers
        <4>2. \A a, b : <<g, a>> \in Same(cur, n) /\ <<g, b>> \in Same(cur, n) => a = b
          BY OneNumber
        <4> HIDE DEF x, Elsewhere
        <4> QED
          BY <3>1, <4>1, <4>2
      <3>4. CASE read
        <4>1. t.news[g] = AddIn(s.news[g], g, x(g))
          BY <2>3, <3>4, <1>1
        <4> DEFINE k == x(g)
                   d == s.news[g]
        <4>2. k \in Nat \ {0} /\ Elsewhere(g) = {k} /\ NewsOK(d) /\ t.news[g] = AddIn(d, g, k)
          BY <2>1, <3>2, <3>3, <4>1
        <4> HIDE DEF k, d
        <4>3. Added(AddIn(d, g, k), d, g, k)
          BY <4>2, AddInIs
        <4>4. ~Overreads(d, g, k) => Denotes(d.line) \cup {k} \subseteq Denotes(AddIn(d, g, k).line)
          BY <4>2, AddInMarks
        <4>5. ASSUME \A j \in Elsewhere(g) : ~Overreads(d, g, j)
              PROVE  /\ Denotes(d.line) \cup Elsewhere(g) \subseteq Denotes(t.news[g].line)
                     /\ Denotes(t.news[g].line) \subseteq
                          Denotes(d.line) \cup (1 .. srvFirst[g] - 1) \cup Elsewhere(g)
          <5> HIDE DEF Elsewhere
          <5>1. ~Overreads(d, g, k)
            BY <4>2, <4>5
          <5> QED
            BY <5>1, <4>2, <4>3, <4>4 DEF Added
        <4> QED
          BY <4>5, <3>4 DEF d
      <3>5. CASE ~read
        <4>1. t.news[g] = SubIn(s.news[g], x(g))
          BY <2>3, <3>5, <1>1
        <4> HIDE DEF x, Elsewhere
        <4>2. Denotes(t.news[g].line) = Denotes(s.news[g].line) \ {x(g)}
          BY <4>1, <2>1, SubInUnmarks
        <4>3. Denotes(t.news[g].line) = Denotes(s.news[g].line) \ Elsewhere(g)
          BY <4>2, <3>3
        <4> QED
          BY <4>3, <3>5 DEF Elsewhere
      <3> QED
        BY <3>4, <3>5
    <2> QED
      BY <2>2, <2>3
  <1> HIDE DEF now
  <1>6. Carries(t, s, n, read)
    BY <1>1, <1>2, <1>4, <1>5 DEF Carries, Chases
  <1> QED
    BY <1>6 DEF t

LEMMA ChaseArticleObeys ==
  ASSUME IInv, WInv, NEW n \in 1 .. Top, ChaseArticle(n) PROVE WInv'
  <1> DEFINE s == [count |-> chaseCount, unread |-> unread, news |-> news]
             read == n \in kchase
             t == IF read THEN Chased(s, n, TRUE) ELSE s
             u == Chased(t, n, FALSE)
             both == n \in mchase /\ t.count > 0
             Wrong(g) == read /\ \E x \in Numbers(g, Same(cur, n)) : Overreads(news[g], g, x)
  <1>1. /\ pc \in {"chasing", "leaving"} /\ pc' = pc /\ n <= last
        /\ kchase' = kchase \ {n}
        /\ both => mchase' = mchase \ {n} /\ unread' = u.unread /\ news' = u.news
        /\ ~both => mchase' = mchase /\ unread' = t.unread /\ news' = t.news
        /\ misread' = misread \cup {g \in Groups \ {cur} : Wrong(g)}
        /\ UNCHANGED <<server, cur, first, last, yank, cached, word, stale, cut>>
    BY Zenon DEF ChaseArticle, CheckChase, ChasedTo
  <1>2. /\ cur \in Groups /\ cur # NoGroup /\ cached = cur
        /\ first \in Nat \ {0} /\ last \in Nat
        /\ unread \in SUBSET Int /\ IsFiniteSet(unread)
        /\ ServerOK /\ NewsSound(news)
        /\ srvFirst[cur] \in Nat /\ srvFirst' = srvFirst /\ srvLast' = srvLast
    BY <1>1, Here DEF IInv, TypesOK, ServerOK, server, NewsSound
  <1>3. s.news = news /\ s.unread = unread
    OBVIOUS
  <1> HIDE DEF s
  <1>4. \/ read /\ Chases(t, s, n, TRUE) /\ Carries(t, s, n, TRUE)
        \/ ~read /\ t = s
    BY <1>2, <1>3, ChasedIs, ChasedCarries
  <1>5. NewsSound(t.news) /\ t.unread \in SUBSET Int /\ IsFiniteSet(t.unread)
    BY <1>2, <1>3, <1>4 DEF Chases
  <1>6. n \in mchase \/ ~both
    OBVIOUS
  <1> HIDE DEF t, both
  <1>7. Chases(u, t, n, FALSE) /\ Carries(u, t, n, FALSE)
    BY <1>2, <1>5, ChasedIs, ChasedCarries
  <1> HIDE DEF u
  \* Which places wait for a chase.
  <1>8. \A m, p : p \in Same(cur, n) /\ p \in Same(cur, m) => m = n
    BY OneArticle
  <1>9. \A m, k, p : p \in Same(cur, k) /\ p \in Same(cur, m) => m = k
    BY OneArticle
  <1>10. /\ n \in mchase' <=> n \in mchase /\ ~both
         /\ \A m : m # n => (m \in mchase' <=> m \in mchase)
    BY <1>1, <1>6
  <1>11. \A p : /\ (p \in Loose)' <=> p \in Loose
                /\ ToRead(p)' => ToRead(p)
                /\ ToUnread(p)' => ToUnread(p)
                /\ p \notin Same(cur, n) => /\ ToRead(p)' <=> ToRead(p)
                                            /\ ToUnread(p)' <=> ToUnread(p)
    <2>1. \A p : (p \in Loose)' <=> p \in Loose
      BY <1>1 DEF Loose
    <2>2. \A p : /\ ToRead(p)' => ToRead(p)
                 /\ p \notin Same(cur, n) => (ToRead(p)' <=> ToRead(p))
      BY <1>1, <1>2 DEF ToRead
    <2>3. \A p : /\ ToUnread(p)' => ToUnread(p)
                 /\ p \notin Same(cur, n) => (ToUnread(p)' <=> ToUnread(p))
      BY <1>1, <1>2, <1>10 DEF ToUnread
    <2> QED
      BY <2>1, <2>2, <2>3
  <1>12. \A p \in Same(cur, n) : /\ ToRead(p) <=> read
                                 /\ ToUnread(p) <=> n \in mchase
                                 /\ ToUnread(p)' <=> n \in mchase'
    BY <1>1, <1>2, <1>8 DEF ToRead, ToUnread
  <1>13. WordsOK' /\ PostedOK' /\ RangeOK'
    BY <1>1, <1>2 DEF WInv, WordsOK, PostedOK, RangeOK
  <1>14. PendingOK'
    <2>1. \A m \in kchase' \cup mchase' : Same(cached', m) # {<<cached', m>>}
      BY <1>1, <1>10 DEF WInv, PendingOK
    <2>2. ASSUME NEW p \in Place PROVE PendingAt(p)'
      <3>1. PendingAt(p)
        BY DEF WInv, PendingOK
      <3>2. ToRead(p)' /\ ToUnread(p) => ToUnread(p)'
        <4> SUFFICES ASSUME NEW m \in kchase \ {n}, p \in Same(cur, m),
                            NEW k \in mchase, p \in Same(cur, k)
                     PROVE  ToUnread(p)'
          BY <1>1, <1>2 DEF ToRead, ToUnread
        <4>1. k = m /\ k \in mchase'
          BY <1>9, <1>10
        <4> QED
          BY <4>1, <1>1, <1>2 DEF ToUnread
      <3> QED
        BY <3>1, <3>2, <1>1, <1>11 DEF PendingAt
    <2> QED
      BY <2>1, <2>2 DEF PendingOK
  \* The articles of the current group.
  <1>15. /\ \A m : m # n => (m \in unread' <=> m \in unread)
         /\ both /\ n \in first .. last => n \in unread'
         /\ ~both => /\ n \in unread' => n \in unread
                     /\ ~read => unread' = unread
         /\ unread' \subseteq unread \cup (first .. last)
    <2>1. /\ \A m : m # n => (m \in t.unread <=> m \in unread)
          /\ n \in t.unread => n \in unread
          /\ ~read => t.unread = unread
          /\ t.unread \subseteq unread \cup (first .. last)
      BY <1>3, <1>4 DEF Carries, Chases
    <2>2. CASE both
      BY <2>1, <2>2, <1>1, <1>7 DEF Carries, Chases
    <2>3. CASE ~both
      BY <2>1, <2>3, <1>1
    <2> QED
      BY <2>2, <2>3
  <1>16. FlagsObey'
    <2> SUFFICES ASSUME cur \notin misread'
                 PROVE  /\ first <= last + 1 /\ unread' \subseteq first .. last
                        /\ \A k \in 1 .. Top : FlagAt(k)'
      BY <1>1 DEF FlagsObey
    <2>1. /\ first <= last + 1 /\ unread \subseteq first .. last
          /\ \A k \in 1 .. Top : FlagAt(k)
          /\ first <= srvFirst[cur]
      BY <1>1, <1>2 DEF WInv, FlagsObey, IInv, FlagsOK
    <2>2. ASSUME NEW k \in 1 .. Top PROVE FlagAt(k)'
      <3>1. FlagAt(k)
        BY <2>1
      <3>2. CASE k # n
        BY <3>1, <3>2, <1>1, <1>2, <1>10, <1>11, <1>15 DEF FlagAt
      <3>3. CASE k = n
        <4> DEFINE p == <<cur, n>>
        <4>1. p \in Same(cur, n) /\ p \in Place
          BY <1>2, OwnNumber, PlaceIs
        <4>2. PendingAt(p) /\ (ToRead(p) <=> read) /\ (ToUnread(p) <=> n \in mchase)
          BY <4>1, <1>12 DEF WInv, PendingOK
        <4> HIDE DEF p
        <4> SUFFICES ASSUME p \notin Loose
                     PROVE  /\ word[p] = "read" => n <= last /\ n \notin unread' \ yank
                            /\ word[p] = "unread" /\ n >= srvFirst[cur] =>
                                 n \in unread' \cup yank \cup mchase'
          BY <3>3, <1>1, <1>2, <1>11 DEF FlagAt, p
        <4>3. /\ word[p] = "read" => n \notin unread \ yank
              /\ word[p] = "unread" /\ n >= srvFirst[cur] =>
                   n \in unread \cup yank \cup mchase
          BY <3>1, <3>3 DEF FlagAt, p
        <4>4. /\ n \in mchase => word[p] = "unread"
              /\ read /\ n \notin mchase => word[p] = "read"
          BY <4>2 DEF PendingAt
        <4>5. n >= srvFirst[cur] => n \in first .. last
          BY <2>1, <1>1, <1>2
        <4>6. CASE both
          BY <4>4, <4>5, <4>6, <1>6, <1>15
        <4>7. CASE ~both
          BY <4>3, <4>4, <4>7, <1>1, <1>10, <1>15
        <4> QED
          BY <4>6, <4>7
      <3> QED
        BY <3>2, <3>3
    <2> QED
      BY <2>1, <2>2, <1>15
  \* The lines of the other groups.
  <1>17. ASSUME NEW g \in Groups \ {cur}, g \notin misread', NEW k \in 1 .. Top
         PROVE  LET there == k \in Numbers(g, Same(cur, n))
                    was == k \in Denotes(news[g].line)
                    is == k \in Denotes(news'[g].line)
                IN /\ ~there => /\ was => is
                                /\ is /\ k >= srvFirst[g] => was
                   /\ there /\ both => ~is
                   /\ there /\ ~both /\ read => is
                   /\ ~both /\ ~read => (is <=> was)
    <2> DEFINE there == Numbers(g, Same(cur, n))
               L == Denotes(news[g].line)
               Lt == Denotes(t.news[g].line)
    <2>1. srvFirst[g] \in Nat
      BY <1>2 DEF ServerOK
    <2>2. read => /\ L \cup there \subseteq Lt
                  /\ Lt \subseteq L \cup (1 .. srvFirst[g] - 1) \cup there
      BY <1>1, <1>3, <1>4, <1>17 DEF Carries
    <2>3. ~read => Lt = L
      BY <1>3, <1>4
    <2>4. both => Denotes(news'[g].line) = Lt \ there
      BY <1>1, <1>7 DEF Carries
    <2>5. ~both => Denotes(news'[g].line) = Lt
      BY <1>1
    <2> HIDE DEF there, L, Lt
    <2>6. /\ k \notin there /\ k \in Lt /\ k >= srvFirst[g] => k \in L
          /\ k \in L => k \in Lt
          /\ read /\ k \in there => k \in Lt
      BY <2>1, <2>2, <2>3
    <2> QED
      BY <2>3, <2>4, <2>5, <2>6 DEF there, L, Lt
  <1>18. LinesObey'
    <2> SUFFICES ASSUME NEW p \in Place, p \notin Loose, p[1] \notin misread',
                        p[1] # cur
                 PROVE  LET line == news'[p[1]].line IN
                        /\ word[p] = "read" => p[2] \in Denotes(line) \/ ToRead(p)'
                        /\ word[p] = "unread" /\ p[2] >= srvFirst[p[1]] =>
                             p[2] \notin Denotes(line) \/ ToUnread(p)'
      BY <1>1, <1>2, <1>11 DEF LinesObey, LineAt
    <2> DEFINE g == p[1]
               k == p[2]
               there == k \in Numbers(g, Same(cur, n))
               was == k \in Denotes(news[g].line)
               is == k \in Denotes(news'[g].line)
    <2>1. g \in Groups \ {cur} /\ k \in 1 .. Top /\ p = <<g, k>>
      BY PlaceIs
    <2>2. /\ word[p] = "read" => was \/ ToRead(p)
          /\ word[p] = "unread" /\ k >= srvFirst[g] => ~was \/ ToUnread(p)
      BY <1>1 DEF WInv, LinesObey, LineAt
    <2>3. there <=> p \in Same(cur, n)
      BY <2>1 DEF Numbers
    <2>4. /\ ~there => /\ was => is
                       /\ is /\ k >= srvFirst[g] => was
          /\ there /\ both => ~is
          /\ there /\ ~both /\ read => is
          /\ ~both /\ ~read => (is <=> was)
      BY <2>1, <1>17
    <2>5. /\ ToUnread(p) => word[p] = "unread"
          /\ ToRead(p) /\ ~ToUnread(p) => word[p] = "read"
      BY DEF WInv, PendingOK, PendingAt
    <2> HIDE DEF there, was, is, g, k, read
    <2>6. CASE ~there
      BY <2>2, <2>3, <2>4, <2>6, <1>11 DEF is, g, k
    <2>7. CASE there
      <3>1. /\ ToRead(p) <=> read
            /\ ToUnread(p) <=> n \in mchase
            /\ ToUnread(p)' <=> n \in mchase /\ ~both
        BY <2>3, <2>7, <1>10, <1>12
      <3>2. /\ word[p] = "read" => is \/ ToRead(p)'
            /\ word[p] = "unread" /\ k >= srvFirst[g] => ~is \/ ToUnread(p)'
        BY <3>1, <2>2, <2>4, <2>5, <2>7, <1>6
      <3> QED
        BY <3>2 DEF is, g, k
    <2> QED
      BY <2>6, <2>7
  <1> QED
    BY <1>13, <1>14, <1>16, <1>18 DEF WInv

-------------------------------------------------------------------------------
(* The group is left.                                                      *)

\* When the group's line is written, what it owes to the other groups is no
\* longer promised.
LEMMA WrittenObeys ==
  ASSUME IInv, WInv, pc # "list", pc' = "list", cur' = NoGroup,
         Returned, cut' = cut \cup Everywhere(kchase \cup mchase),
         UNCHANGED <<server, misread>>,
         \A g \in Groups \ {cur} : news'[g].line = news[g].line,
         news'[cur].line = BitsToRc(unread \cup yank, first, last),
         kchase' \subseteq kchase,
         mchase' \subseteq mchase \cup {n \in yank : HasXrefs(n)},
         kchase' \cup mchase' = {} \/ cached' = cached
  PROVE  WInv'
  <1> DEFINE crossed == {n \in yank : HasXrefs(n)}
             bits == unread \cup yank
  <1>1. /\ srvFirst' = srvFirst /\ srvLast' = srvLast /\ misread' = misread
        /\ word' = [p \in Place |-> IF p \in {cur} \X yank THEN "unread" ELSE word[p]]
        /\ stale' = stale \cup Everywhere(crossed)
    BY DEF Returned, server
  <1>2. \A m : m \in crossed <=> m \in yank /\ Same(cur, m) # {<<cur, m>>}
    BY DEF HasXrefs
  <1>3. /\ cur \in Groups /\ cur # NoGroup /\ cached = cur
        /\ first \in Nat \ {0} /\ last \in Nat
        /\ yank \subseteq first .. last /\ \A n \in first .. last : n <= srvLast[cur]
    BY HereObeys
  <1>4. mchase' \subseteq mchase \cup crossed
    OBVIOUS
  <1> HIDE DEF crossed
  <1>5. \A p : /\ p \in Loose => (p \in Loose)'
               /\ (\E m \in kchase \cup mchase \cup crossed : p \in Same(cur, m)) =>
                    (p \in Loose)'
    BY <1>1, EverywhereIs DEF Loose
  <1>6. \A p : /\ ToRead(p) \/ ToUnread(p) => (p \in Loose)'
               /\ ToRead(p)' \/ ToUnread(p)' => (p \in Loose)'
    BY <1>3, <1>4, <1>5 DEF ToRead, ToUnread
  <1>7. ASSUME NEW p \in Place
        PROVE  /\ word'[p] = IF p[1] = cur /\ p[2] \in yank THEN "unread" ELSE word[p]
               /\ p[1] \in Groups /\ p[2] \in 1 .. Top /\ p = <<p[1], p[2]>>
    BY <1>1, PlaceIs
  <1>8. WordsOK'
    <2> SUFFICES ASSUME NEW p \in Place
                 PROVE  /\ word'[p] \in {"none", "read", "unread"}
                        /\ word'[p] # "none" => p[2] <= srvLast[p[1]]
      BY <1>1 DEF WordsOK
    <2>1. /\ word[p] \in {"none", "read", "unread"}
          /\ word[p] # "none" => p[2] <= srvLast[p[1]]
      BY DEF WInv, WordsOK
    <2> QED
      BY <2>1, <1>3, <1>7
  <1>9. PostedOK'
    BY <1>1 DEF WInv, PostedOK
  <1>10. RangeOK' /\ FlagsObey'
    BY DEF RangeOK, FlagsObey
  <1>11. PendingOK'
    <2>1. \A m \in kchase \cup mchase \cup crossed : Same(cur, m) # {<<cur, m>>}
      BY <1>2, <1>3 DEF WInv, PendingOK
    <2>2. \A m \in kchase' \cup mchase' : Same(cached', m) # {<<cached', m>>}
      BY <2>1, <1>3, <1>4
    <2>3. \A p \in Place : PendingAt(p)'
      BY <1>6 DEF PendingAt
    <2> QED
      BY <2>2, <2>3 DEF PendingOK
  <1>12. LinesObey'
    <2> SUFFICES ASSUME NEW p \in Place, (p \notin Loose)', p[1] \notin misread
                 PROVE  LET line == news'[p[1]].line IN
                        /\ word'[p] = "read" => p[2] \in Denotes(line)
                        /\ word'[p] = "unread" /\ p[2] >= srvFirst[p[1]] =>
                             p[2] \notin Denotes(line)
      BY <1>1 DEF LinesObey, LineAt
    <2>1. p \notin Loose /\ ~ToRead(p) /\ ~ToUnread(p)
      BY <1>5, <1>6
    <2>2. CASE p[1] # cur
      <3>1. news'[p[1]].line = news[p[1]].line /\ word'[p] = word[p]
        BY <2>2, <1>7
      <3> QED
        BY <3>1, <2>1, <2>2 DEF WInv, LinesObey, LineAt
    <2>3. CASE p[1] = cur
      <3> DEFINE n == p[2]
                 line == BitsToRc(bits, first, last)
      <3>1. n \in 1 .. Top /\ p = <<cur, n>>
        BY <2>3, <1>7
      <3>2. Denotes(line) = (1 .. last) \ (bits \cap (first .. last))
        <4> HIDE DEF bits
        <4> QED
          BY <1>3, BitsToRcIs
      <3>3. news'[p[1]].line = line
        BY <2>3
      <3> HIDE DEF line
      <3>4. FlagAt(n) /\ unread \subseteq first .. last
        BY <3>1, <2>3, <1>3 DEF WInv, FlagsObey
      <3>5. n \notin mchase
        <4>1. p \in Same(cur, n)
          BY <3>1, OwnNumber
        <4> QED
          BY <4>1, <1>5
      <3>6. word'[p] = IF n \in yank THEN "unread" ELSE word[p]
        BY <2>3, <1>7
      <3>7. /\ word[p] = "read" => n <= last /\ n \notin unread \ yank
            /\ word[p] = "unread" /\ n >= srvFirst[cur] => n \in unread \cup yank
        BY <3>1, <3>4, <3>5, <2>1 DEF FlagAt
      <3>8. n \in Denotes(line) <=> n \in 1 .. last /\ n \notin bits
        BY <3>2, <3>4, <1>3
      <3> HIDE DEF n
      <3>9. /\ word'[p] = "read" => n \in Denotes(line)
            /\ word'[p] = "unread" /\ n >= srvFirst[cur] => n \notin Denotes(line)
        <4>1. n \in Nat \ {0}
          BY <3>1, Constants
        <4> QED
          BY <4>1, <3>6, <3>7, <3>8, <1>3
      <3> QED
        BY <3>3, <3>9, <2>3 DEF n
    <2> QED
      BY <2>2, <2>3
  <1> QED
    BY <1>8, <1>9, <1>10, <1>11, <1>12 DEF WInv

LEMMA LeaveGroupObeys ==
  ASSUME IInv, WInv, LeaveGroup PROVE WInv'
  <1> DEFINE bits == unread \cup yank
             line == BitsToRc(bits, first, last)
             c == Cardinality(bits \cap (first .. last))
             d == [news[cur] EXCEPT !.line = line, !.toRead = c]
             crossed == {n \in yank : HasXrefs(n)}
  <1>1. /\ pc = "leaving" /\ pc' = "list" /\ cur' = NoGroup
        /\ news' = [news EXCEPT ![cur] = d]
        /\ mchase' = mchase \cup (crossed \ mchase)
        /\ Returned /\ cut' = cut \cup Everywhere(kchase \cup mchase)
        /\ UNCHANGED <<server, misread>> /\ kchase' = kchase /\ cached' = cached
    BY DEF LeaveGroup, LineFromBits
  <1>2. cur \in Groups /\ bits \in SUBSET Int /\ unread \subseteq bits
    BY <1>1, Here
  <1> HIDE DEF bits
  <1>3. d.line = line
    BY <1>1, <1>2, WrittenIs
  <1> HIDE DEF d, c, line
  <1>4. news'[cur].line = line /\ \A g \in Groups \ {cur} : news'[g].line = news[g].line
    BY <1>1, <1>2, <1>3 DEF IInv, TypesOK
  <1>5. kchase' \subseteq kchase /\ mchase' \subseteq mchase \cup crossed
    BY <1>1
  <1>6. news'[cur].line = BitsToRc(unread \cup yank, first, last)
    BY <1>4 DEF line, bits
  <1> QED
    BY <1>1, <1>4, <1>5, <1>6, WrittenObeys

LEMMA HangupObeys ==
  ASSUME IInv, WInv, Hangup PROVE WInv'
  <1> DEFINE line == BitsToRc(unread \cup yank, first, last)
             lines == [Lines EXCEPT ![cur] = line]
  <1>1. /\ pc # "list" /\ pc' = "list" /\ cur' = NoGroup
        /\ news' = [g \in Groups |-> Fresh(lines[g])]
        /\ kchase' = {} /\ mchase' = {}
        /\ Returned /\ cut' = cut \cup Everywhere(kchase \cup mchase)
        /\ UNCHANGED <<server, misread>>
    BY DEF Hangup, NewProcess
  <1>2. cur \in Groups
    BY <1>1, Here
  <1> HIDE DEF line
  <1>3. lines[cur] = line /\ \A g \in Groups \ {cur} : lines[g] = news[g].line
    BY <1>2 DEF Lines
  <1> HIDE DEF lines
  <1>4. \A g \in Groups : news'[g].line = lines[g]
    BY <1>1 DEF Fresh
  <1>5. /\ \A g \in Groups \ {cur} : news'[g].line = news[g].line
        /\ news'[cur].line = BitsToRc(unread \cup yank, first, last)
    BY <1>2, <1>3, <1>4 DEF line
  <1>6. kchase' \cup mchase' = {}
    BY <1>1
  <1> QED
    BY <1>1, <1>5, <1>6, WrittenObeys

\* The line written while the group is read is not looked at.
LEMMA CheckpointObeys ==
  ASSUME IInv, WInv, Checkpoint PROVE WInv'
  <1>1. /\ \A g \in Groups : g # cur => news'[g] = news[g]
        /\ srvFirst' = srvFirst /\ srvLast' = srvLast /\ cur' = cur
        /\ first' = first /\ last' = last /\ unread' = unread /\ yank' = yank
        /\ cached' = cached /\ kchase' = kchase /\ mchase' = mchase
        /\ pc' = pc /\ word' = word
        /\ stale' = stale /\ cut' = cut /\ misread' = misread
    <2>1. UNCHANGED <<server, reading, cache, chase, history>>
      BY DEF Checkpoint
    <2>2. \A g \in Groups : g # cur => news'[g] = news[g]
      BY DEF Checkpoint, LineFromBits, IInv, TypesOK
    <2> QED
      BY <2>1, <2>2 DEF server, reading, cache, chase, history
  <1>2. \A p : /\ (p \in Loose)' <=> p \in Loose
               /\ ToRead(p)' <=> ToRead(p)
               /\ ToUnread(p)' <=> ToUnread(p)
    BY <1>1 DEF Loose, ToRead, ToUnread
  <1>3. WordsOK' /\ PostedOK' /\ RangeOK'
    BY <1>1 DEF WInv, WordsOK, PostedOK, RangeOK
  <1>4. PendingOK'
    BY <1>1, <1>2 DEF WInv, PendingOK, PendingAt
  <1>5. FlagsObey'
    BY <1>1, <1>2 DEF WInv, FlagsObey, FlagAt
  <1>6. LinesObey'
    BY <1>1, <1>2, PlaceIs DEF WInv, LinesObey, LineAt
  <1> QED
    BY <1>3, <1>4, <1>5, <1>6 DEF WInv

LEMMA RestartObeys ==
  ASSUME IInv, WInv, Restart PROVE WInv'
  <1>1. /\ pc = "list" /\ cur' = NoGroup /\ kchase' = {} /\ mchase' = {}
        /\ news' = [g \in Groups |-> Fresh(news[g].line)]
        /\ srvFirst' = srvFirst /\ srvLast' = srvLast
        /\ word' = word /\ stale' = stale /\ cut' = cut /\ misread' = misread
    BY DEF Restart, NewProcess, Lines, server
  <1>2. cur = NoGroup
    BY <1>1 DEF IInv, PlacesOK
  <1>3. \A g \in Groups : news'[g].line = news[g].line
    BY <1>1 DEF Fresh
  <1>4. \A p : /\ (p \in Loose)' <=> p \in Loose
               /\ ~ToRead(p)'
               /\ ~ToUnread(p)'
    BY <1>1 DEF Loose, ToRead, ToUnread
  <1>5. WordsOK' /\ PostedOK'
    BY <1>1 DEF WInv, WordsOK, PostedOK
  <1>6. RangeOK' /\ FlagsObey'
    BY <1>1 DEF RangeOK, FlagsObey
  <1>7. PendingOK'
    BY <1>1, <1>4 DEF PendingOK, PendingAt
  <1>8. LinesObey'
    <2> SUFFICES ASSUME NEW p \in Place PROVE LineAt(p)'
      BY DEF LinesObey
    <2>1. p[1] \in Groups /\ p[1] # NoGroup /\ LineAt(p) /\ PendingAt(p)
      BY PlaceIs, Constants DEF WInv, LinesObey, PendingOK
    <2> QED
      BY <2>1, <1>1, <1>2, <1>3, <1>4 DEF LineAt, PendingAt
  <1> QED
    BY <1>5, <1>6, <1>7, <1>8 DEF WInv

-------------------------------------------------------------------------------
(* A group is entered: its flags are read from its line.                   *)

LEMMA EnterGroupObeys ==
  ASSUME IInv, WInv, NEW h \in Groups, NEW aged \in BOOLEAN, EnterGroup(h, aged)
  PROVE  WInv'
  <1> DEFINE b == news[h]
             d == GroupReply(b, h)
             size == IF srvLast[h] > d.ngMax THEN srvLast[h] ELSE d.ngMax
             line == IF d.absFirst > b.absFirst
                     THEN CheckExpired(d.line, d.absFirst)
                     ELSE d.line
             bits == RcToBits(line, d.absFirst, size)
             here == srvFirst[h] .. srvLast[h]
             new == [line |-> line, toRead |-> Cardinality(unread'),
                     absFirst |-> d.absFirst, ngMax |-> size]
  <1>1. /\ pc = "list" /\ pc' = "reading" /\ cur' = h /\ cached' = h /\ yank' = {}
        /\ first' = d.absFirst /\ last' = size
        /\ unread' = bits \cap here
        /\ news' = [news EXCEPT ![h] = new]
        /\ kchase' = IF cached = h /\ ~aged THEN kchase ELSE {}
        /\ mchase' = IF cached = h /\ ~aged THEN mchase ELSE {}
        /\ misread' = IF RaisesSingle(line, d.absFirst) \/ Beyond(d, h)
                      THEN misread \cup {h} ELSE misread
        /\ srvFirst' = srvFirst /\ srvLast' = srvLast
        /\ word' = word /\ stale' = stale /\ cut' = cut
    BY DEF EnterGroup, server
  <1>2. ServerOK /\ NewsOK(b) /\ cur = NoGroup /\ h # NoGroup
    BY <1>1, Constants DEF IInv, TypesOK, ServerOK, PlacesOK
  <1>3. /\ srvFirst[h] \in Nat \ {0} /\ srvLast[h] \in Nat \ {0}
        /\ b.absFirst \in Nat /\ b.ngMax \in Nat /\ IsRcLine(b.line)
    BY <1>2, NewsIs DEF ServerOK
  <1>4. /\ d.line = b.line
        /\ d.absFirst \in Nat \ {0} /\ d.ngMax \in Nat
        /\ srvFirst[h] <= srvLast[h] => d.absFirst = srvFirst[h] /\ d.ngMax = srvLast[h]
        /\ srvFirst[h] > srvLast[h] => d.absFirst = b.ngMax + 1 /\ d.ngMax = b.ngMax
    BY <1>2, GroupReplyIs
  <1>5. Beyond(d, h) <=> d.absFirst > srvLast[h] + 1
    BY DEF Beyond
  <1>6. \A g \in Groups : g # h => news'[g] = news[g]
    BY <1>1 DEF IInv, TypesOK
  <1> HIDE DEF b, d, new
  <1>7. /\ size \in Nat /\ d.absFirst <= size + 1
        /\ size <= srvLast[h] \/ d.absFirst > size
        /\ ~Beyond(d, h) => size = srvLast[h] /\ d.absFirst <= srvFirst[h]
    BY <1>3, <1>4, <1>5
  <1>8. /\ IsRcLine(line)
        /\ Denotes(b.line) \subseteq Denotes(line)
        /\ Denotes(line) \subseteq Denotes(b.line) \cup (1 .. d.absFirst - 1)
    <2>1. CASE d.absFirst > b.absFirst
      <3>1. line = CheckExpired(b.line, d.absFirst)
        BY <2>1, <1>4
      <3> HIDE DEF line
      <3>2. /\ IsRcLine(line)
            /\ Denotes(line) = Denotes(b.line) \cup (1 .. d.absFirst - 1)
        BY <3>1, <1>3, <1>4, CheckExpiredIs
      <3> QED
        BY <3>2
    <2>2. CASE ~(d.absFirst > b.absFirst)
      <3>1. line = b.line
        BY <2>2, <1>4
      <3> HIDE DEF line
      <3> QED
        BY <3>1, <1>3
    <2> QED
      BY <2>1, <2>2
  <1> HIDE DEF size, line
  <1>9. \A n \in bits : n \in d.absFirst .. size /\ n \notin Denotes(line)
    BY <1>4, <1>7, <1>8, RcToBitsMisses
  <1>10. ASSUME ~RaisesSingle(line, d.absFirst), NEW n \in d.absFirst .. size, n \notin bits
         PROVE  n \in Denotes(line)
    BY <1>10, <1>4, <1>7, <1>8, RcToBitsIs
  <1> HIDE DEF bits
  <1>11. \A p : /\ (p \in Loose)' <=> p \in Loose
                /\ ToRead(p)' => ToRead(p)
                /\ ToUnread(p)' => ToUnread(p)
    BY <1>1 DEF Loose, ToRead, ToUnread
  <1>12. \A p \in Place : p \notin Loose => ~ToRead(p) /\ ~ToUnread(p)
    BY <1>1 DEF WInv, PendingOK, PendingAt
  <1>13. WordsOK' /\ PostedOK'
    BY <1>1 DEF WInv, WordsOK, PostedOK
  <1>14. RangeOK'
    BY <1>1, <1>7 DEF RangeOK
  <1>15. PendingOK'
    <2>1. \A m \in kchase' \cup mchase' : Same(cached', m) # {<<cached', m>>}
      BY <1>1 DEF WInv, PendingOK
    <2>2. \A p \in Place : PendingAt(p)'
      BY <1>11, <1>12 DEF PendingAt
    <2> QED
      BY <2>1, <2>2 DEF PendingOK
  <1>16. FlagsObey'
    <2> SUFFICES ASSUME h \notin misread'
                 PROVE  /\ d.absFirst <= size + 1 /\ unread' \subseteq d.absFirst .. size
                        /\ \A n \in 1 .. Top : FlagAt(n)'
      BY <1>1 DEF FlagsObey
    <2>1. h \notin misread /\ ~RaisesSingle(line, d.absFirst) /\ ~Beyond(d, h)
      BY <1>1
    <2>2. size = srvLast[h] /\ d.absFirst <= srvFirst[h]
      BY <2>1, <1>7
    <2>3. ASSUME NEW n \in 1 .. Top PROVE FlagAt(n)'
      <3> DEFINE p == <<h, n>>
      <3>1. p \in Place /\ p[1] = h /\ p[2] = n
        BY PlaceIs
      <3> HIDE DEF p
      <3> SUFFICES ASSUME p \notin Loose
                   PROVE  /\ word[p] = "read" => n <= size /\ n \notin unread'
                          /\ word[p] = "unread" /\ n >= srvFirst[h] => n \in unread'
        BY <1>1, <1>11 DEF FlagAt, p
      <3>2. /\ word[p] = "read" => n \in Denotes(b.line)
            /\ word[p] = "unread" /\ n >= srvFirst[h] => n \notin Denotes(b.line)
        BY <3>1, <2>1, <1>2, <1>12 DEF WInv, LinesObey, LineAt, b
      <3>3. word[p] # "none" => n <= srvLast[h]
        BY <3>1 DEF WInv, WordsOK
      <3>4. ASSUME word[p] = "read" PROVE n <= size /\ n \notin unread'
        BY <3>2, <3>3, <3>4, <2>2, <1>1, <1>8, <1>9
      <3>5. ASSUME word[p] = "unread", n >= srvFirst[h] PROVE n \in unread'
        <4>1. n \in Nat /\ n <= srvLast[h]
          BY <3>3, <3>5, Constants
        <4>2. n \in d.absFirst .. size /\ n \in here
          BY <4>1, <3>5, <2>2, <1>3, <1>4
        <4>3. n \notin Denotes(line)
          BY <4>2, <3>2, <3>5, <1>4, <1>7, <1>8
        <4> QED
          BY <4>2, <4>3, <2>1, <1>1, <1>10
      <3> QED
        BY <3>4, <3>5
    <2> QED
      BY <2>3, <1>1, <1>7, <1>9
  <1>17. LinesObey'
    <2> SUFFICES ASSUME NEW p \in Place, p \notin Loose, p[1] \notin misread', p[1] # h
                 PROVE  LET line0 == news[p[1]].line IN
                        /\ word[p] = "read" => p[2] \in Denotes(line0)
                        /\ word[p] = "unread" /\ p[2] >= srvFirst[p[1]] =>
                             p[2] \notin Denotes(line0)
      BY <1>1, <1>6, <1>11, PlaceIs DEF LinesObey, LineAt
    <2>1. p[1] \notin misread /\ p[1] # NoGroup
      BY <1>1, PlaceIs, Constants
    <2> QED
      BY <2>1, <1>2, <1>12 DEF WInv, LinesObey, LineAt
  <1> QED
    BY <1>13, <1>14, <1>15, <1>16, <1>17 DEF WInv

-------------------------------------------------------------------------------
LEMMA IdleObeys ==
  ASSUME IInv, WInv, UNCHANGED vars PROVE WInv'
  <1>1. /\ UNCHANGED <<news, reading, cache, history>>
        /\ srvFirst' = srvFirst /\ srvLast' = srvLast /\ pc' = pc
    BY DEF vars, server, chase
  <1> QED
    BY <1>1, SameWords DEF WInv

LEMMA StepObeys == IInv /\ WInv /\ [Next]_vars => WInv'
  <1> SUFFICES ASSUME IInv, WInv, [Next]_vars PROVE WInv'
    OBVIOUS
  <1>1. ASSUME NEW gs \in SUBSET Groups, Arrive(gs) PROVE WInv'
    BY <1>1, ArriveObeys
  <1>2. ASSUME NEW g \in Groups, Expire(g) PROVE WInv'
    BY <1>2, ExpireObeys
  <1>3. ASSUME NEW g \in Groups, Recount(g) PROVE WInv'
    BY <1>3, RecountObeys
  <1>4. ASSUME NEW g \in Groups, NEW leave \in 0 .. 1, CatchUp(g, leave) PROVE WInv'
    BY <1>4, CatchUpObeys
  <1>5. ASSUME NEW g \in Groups, NEW aged \in BOOLEAN, EnterGroup(g, aged) PROVE WInv'
    BY <1>5, EnterGroupObeys
  <1>6. ASSUME NEW n \in 1 .. Top, MarkAsRead(n) PROVE WInv'
    BY <1>6, MarkAsReadObeys
  <1>7. ASSUME NEW n \in 1 .. Top, UnmarkAsRead(n) PROVE WInv'
    BY <1>7, UnmarkAsReadObeys
  <1>8. ASSUME NEW n \in 1 .. Top, DelayUnmark(n) PROVE WInv'
    BY <1>8, DelayUnmarkObeys
  <1>9. CASE YankBack
    BY <1>9, YankBackObeys
  <1>10. CASE MarkAllRead
    BY <1>10, MarkAllReadObeys
  <1>11. CASE GrowNewsgroup
    BY <1>11, GrowNewsgroupObeys
  <1>12. CASE StartChase
    BY <1>12, WalkObeys DEF StartChase
  <1>13. ASSUME NEW n \in 1 .. Top, ChaseArticle(n) PROVE WInv'
    BY <1>13, ChaseArticleObeys
  <1>14. CASE EndChase
    BY <1>14, WalkObeys DEF EndChase
  <1>15. CASE StartLeave
    BY <1>15, WalkObeys DEF StartLeave
  <1>16. CASE LeaveGroup
    BY <1>16, LeaveGroupObeys
  <1>17. CASE Checkpoint
    BY <1>17, CheckpointObeys
  <1>18. CASE Restart
    BY <1>18, RestartObeys
  <1>19. CASE Hangup
    BY <1>19, HangupObeys
  <1>20. CASE UNCHANGED vars
    BY <1>20, IdleObeys
  <1> QED
    BY <1>1, <1>2, <1>3, <1>4, <1>5, <1>6, <1>7, <1>8, <1>9, <1>10, <1>11, <1>12, <1>13,
       <1>14, <1>15, <1>16, <1>17, <1>18, <1>19, <1>20 DEF Next

\* Whatever order commands, chases, hangups, arrivals and expiries come in:
\* at the list of newsgroups the user's last word on an article is in the line
\* of every group it was posted to, unless its chase was cut short or met an
\* older pending unmark (mark_as_read, unmark_as_read, yank_back, chase_xref,
\* bits_to_rc).
THEOREM LastWordIsObeyed == Spec => []LastWordWins
  <1>1. Init => WInv
    BY InitObeys
  <1>2. IInv /\ WInv /\ [Next]_vars => WInv'
    BY StepObeys
  <1>3. IInv /\ WInv => LastWordWins
    <2> SUFFICES ASSUME IInv, WInv, pc = "list", NEW p \in Place,
                        p \notin stale, p \notin cut, p[1] \notin misread
                 PROVE  Obeyed(p)
      BY DEF LastWordWins
    <2>1. cur = NoGroup /\ p[1] # cur
      BY PlaceIs, Constants DEF IInv, PlacesOK
    <2>2. p \notin Loose
      BY DEF Loose
    <2>3. ~ToRead(p) /\ ~ToUnread(p)
      BY <2>2 DEF WInv, PendingOK, PendingAt
    <2>4. LineAt(p)
      BY DEF WInv, LinesObey
    <2> QED
      BY <2>1, <2>2, <2>3, <2>4 DEF LineAt, Obeyed
  <1> QED
    BY <1>1, <1>2, <1>3, Invariant, PTL DEF Spec
===============================================================================
