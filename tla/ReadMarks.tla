------------------------------- MODULE ReadMarks -------------------------------
(***************************************************************************)
(* How a user's reading of articles ends up in the lines of all the groups *)
(* an article was posted to: the article flags of the group being read,    *)
(* the deferred chasing of Xref lines (in the background between           *)
(* keystrokes, and when the group is left), articles marked to return, the *)
(* unread counts, and a server that gains and expires articles meanwhile.  *)
(*                                                                         *)
(* Translated from libtrn/bits.cpp, libtrn/rcln.cpp, libtrn/Article.cpp,   *)
(* libtrn/ngdata.cpp, libtrn/cache.cpp (build_cache) and libtrn/ng.cpp,    *)
(* for a remote source, subscribed groups and the default build (MCHASE).  *)
(***************************************************************************)
EXTENDS RcLine

CONSTANTS
  Groups,     \* newsgroups of one data source
  NoGroup,    \* no group is being read, or cached
  Xrefs,      \* cross-posted articles: each a set of <<group, number>>
  FirstArt,   \* the server's lowest article of each group at first
  LastArt,    \* the server's highest article at first
  Top,        \* bound on article numbers
  InitLines,  \* the newsrcs there may be at first: a line for each group
  MaxOps,     \* bound on the user's marking commands
  MaxNews     \* bound on arrivals and expiries at the server

ASSUME RangeAssumption ==
  /\ LastArt \in Nat \ {0} /\ Top \in Nat /\ LastArt <= Top
  /\ FirstArt \in [Groups -> 1..LastArt]
ASSUME LinesAssumption ==
  \A lines \in InitLines : \A g \in Groups : IsRcLine(lines[g])
ASSUME GroupsAssumption == NoGroup \notin Groups
\* An article is at the server in all its groups or in none.
ASSUME XrefsAssumption ==
  \A x \in Xrefs :
    \/ x \subseteq Groups \X (1..LastArt)
    \/ x \subseteq Groups \X ((LastArt + 1)..Top)
\* An article has one number in each group, and a number names one article.
ASSUME ArticlesAssumption ==
  /\ \A x \in Xrefs : \A p, q \in x : p[1] = q[1] => p = q
  /\ \A x, y \in Xrefs : x \cap y # {} => x = y
ASSUME BoundsAssumption == MaxOps \in Nat /\ MaxNews \in Nat

Place == Groups \X (1..Top)

VARIABLES
  srvFirst,    \* the server's lowest article of each group
  srvLast,     \* and its highest
  news,        \* NewsgroupData: line, toRead, absFirst (m_abs_first), ngMax
  pc,          \* at the newsgroup list, reading, chasing or leaving a group
  cur,         \* g_newsgroup_ptr while g_in_ng
  first,       \* g_abs_first
  last,        \* g_last_art
  unread,      \* articles of first..last with AF_UNREAD
  cached,      \* g_cache.cached_ng
  low,         \* the lowest article in the cache
  kchase,      \* AF_K_CHASE: to be marked as read in the other groups
  mchase,      \* AF_M_CHASE: to be marked as unread in the other groups
  yank,        \* AF_YANK_BACK: to be returned when the group is left
  chaseCount,  \* s_chase_count
  pos          \* the article the chase has walked to

\* History variables.
VARIABLES
  ops,      \* marking commands given so far
  events,   \* arrivals and expiries so far
  word,     \* the user's last word on the article at a place
  told,     \* places that were read at first, or that the user marked as read
  stale,    \* places whose last word met an older pending unmark
  cut,      \* places whose chase was still pending when the group was left
  drift,    \* groups whose line was extended without being counted, or which were
            \* taken to start above the server's next article
  misread   \* groups where one article read made others read: an entry below the
            \* first article was raised to it, a number was glued to "1-0", or an
            \* empty group was taken to start above the server's next article

server == <<srvFirst, srvLast, events>>
reading == <<cur, first, last, unread, yank>>
cache == <<cached, low, kchase, mchase>>
chase == <<pc, pos, chaseCount>>
history == <<ops, word, told, stale, cut, drift, misread>>
vars == <<server, news, reading, cache, chase, history>>

\* All the places of the article at a place, as its Xref line lists them.
Same(g, n) == {<<g, n>>} \cup UNION {x \in Xrefs : <<g, n>> \in x}

\* Mutant: two colons are not enough for an Xref line.
HasXrefsTooFew(n) == Cardinality(Same(cur, n)) > 2

\* The article of the current group was posted to other groups too.
HasXrefs(n) == Same(cur, n) # {<<cur, n>>}

\* Mutant: an article is marked elsewhere under its number in this group.
NumbersHere(g, places) == {n \in 1..Top : <<cur, n>> \in places}

Numbers(g, places) == {n \in 1..Top : <<g, n>> \in places}
Everywhere(nums) == UNION {Same(cur, n) : n \in nums}

Unread(d) == (1..d.ngMax) \ Denotes(d.line)

-------------------------------------------------------------------------------
\* A newsgroup once its line has been tallied; a line that the tally finds bad
\* is emptied.
Counted(line, low0, tally, size) ==
  IF tally.unread < 0
  THEN [line |-> <<>>, toRead |-> size, absFirst |-> low0, ngMax |-> size]
  ELSE [line |-> line, toRead |-> tally.unread, absFirst |-> low0,
        ngMax |-> tally.size]

\* NewsgroupData::set_to_read. A group not looked at before has its expired
\* articles marked first, unless its line is "1-<size>" already.
SetToRead(d, g, lax) ==
  LET virgin == d.absFirst = 0
      low0 == IF virgin THEN srvFirst[g] ELSE d.absFirst
      size == IF srvLast[g] > d.ngMax THEN srvLast[g] ELSE d.ngMax
      line == IF virgin /\ d.line # <<Span(1, size)>>
              THEN CheckExpired(d.line, low0)
              ELSE d.line
  IN Counted(line, low0, Tally(line, size, lax), size)

\* A newsgroup whose highest article is at least n: the articles in between
\* are counted, but not those of a group that has none to read.
Grown(d, n) ==
  IF n > d.ngMax
  THEN [d EXCEPT !.ngMax = n,
                 !.toRead = IF @ > 0 THEN @ + n - d.ngMax ELSE @]
  ELSE d

Marked(d, n) ==
  IF n \in Denotes(d.line)
  THEN d
  ELSE [d EXCEPT !.line = AddArtNum(@, n),
                 !.toRead = IF @ > 0 THEN @ - 1 ELSE @]

\* A group that was not looked at before is tallied first.
Tallied(d, g) == IF d.absFirst = 0 THEN SetToRead(d, g, TRUE) ELSE d

\* add_art_num on a group other than the current one.
AddIn(d, g, n) == Marked(Grown(Tallied(d, g), n), n)

\* add_art_num raises the high-water mark of a group believed to be all read.
Uncounted(d, g, n) == Tallied(d, g).toRead = 0 /\ n > Tallied(d, g).ngMax

\* add_art_num marks the articles below n too.
Overreads(d, g, n) ==
  /\ n \notin Denotes(Tallied(d, g).line)
  /\ Glues(Tallied(d, g).line, n)

\* Mutant: the count of unread articles is left alone.
SubInUncounted(d, n) == [d EXCEPT !.line = SubArtNum(@, n)]

\* sub_art_num.
SubIn(d, n) ==
  IF n \in Denotes(d.line)
  THEN [d EXCEPT !.line = SubArtNum(@, n), !.toRead = @ + 1]
  ELSE d

-------------------------------------------------------------------------------
Fresh(line) == [line |-> line, toRead |-> 0, absFirst |-> 0, ngMax |-> 0]

Init ==
  /\ srvFirst = FirstArt
  /\ srvLast = [g \in Groups |-> LastArt]
  /\ \E lines \in InitLines :
       /\ news = [g \in Groups |-> Fresh(lines[g])]
       /\ told = {p \in Place : p[2] \in Denotes(lines[p[1]])}
  /\ pc = "list"
  /\ cur = NoGroup
  /\ first = 1 /\ last = 0
  /\ unread = {}
  /\ cached = NoGroup
  /\ low = 1
  /\ kchase = {} /\ mchase = {} /\ yank = {}
  /\ chaseCount = 0
  /\ pos = 0
  /\ ops = 0 /\ events = 0
  /\ word = [p \in Place |-> "none"]
  /\ stale = {} /\ cut = {} /\ drift = {} /\ misread = {}

\* The server.

\* An article arrives in all the groups it is posted to at once.
Arrive(gs) ==
  /\ gs # {}
  /\ \A g \in gs : srvLast[g] < Top
  /\ UNION {Same(g, srvLast[g] + 1) : g \in gs} = {<<g, srvLast[g] + 1>> : g \in gs}
  /\ events < MaxNews
  /\ events' = events + 1
  /\ srvLast' = [g \in Groups |-> IF g \in gs THEN srvLast[g] + 1 ELSE srvLast[g]]
  /\ UNCHANGED <<srvFirst, news, reading, cache, chase, history>>

Expire(g) ==
  /\ srvFirst[g] <= srvLast[g]
  /\ events < MaxNews
  /\ events' = events + 1
  /\ srvFirst' = [srvFirst EXCEPT ![g] = @ + 1]
  /\ UNCHANGED <<srvLast, news, reading, cache, chase, history>>

-------------------------------------------------------------------------------
\* At the newsgroup list.

\* do_multirc recounts a group before it offers it.
Recount(g) ==
  /\ pc = "list"
  /\ news' = [news EXCEPT ![g] = SetToRead(@, g, TRUE)]
  /\ drift' = drift \ {g}
  /\ UNCHANGED <<server, reading, cache, chase,
                 ops, word, told, stale, cut, misread>>

\* NewsgroupData::catch_up: all articles but the last `leave` ones.
CatchUp(g, leave) ==
  /\ pc = "list"
  /\ news[g].absFirst # 0
  /\ ops < MaxOps
  /\ ops' = ops + 1
  /\ LET size == IF srvLast[g] > news[g].ngMax THEN srvLast[g] ELSE news[g].ngMax
         here == {g} \X (1..(size - leave))
         most == [news[g] EXCEPT !.line = CheckExpired(@, size - leave + 1)]
     IN /\ news' = [news EXCEPT ![g] =
                      IF leave > 0 THEN SetToRead(most, g, FALSE)
                      ELSE [@ EXCEPT !.line = <<Span(1, size)>>,
                                     !.toRead = 0, !.ngMax = size]]
        /\ word' = [p \in Place |-> IF p \in here /\ p[2] <= srvLast[g]
                                    THEN "read" ELSE word[p]]
        /\ told' = told \cup here
  /\ drift' = drift \ {g}
  /\ UNCHANGED <<server, reading, cache, chase, stale, cut, misread>>

\* nntp_group: what the reply to GROUP makes of a newsgroup. An empty group
\* starts after the highest article known of it.
GroupReply(d, g) ==
  IF srvFirst[g] > srvLast[g]
  THEN [d EXCEPT !.absFirst = d.ngMax + 1]
  ELSE [d EXCEPT !.absFirst = srvFirst[g], !.ngMax = srvLast[g]]

\* A group whose line goes beyond an empty group's next article.
Beyond(d, g) == d.absFirst > srvLast[g] + 1

\* access_newsgroup: GROUP, check_expired if the first article moved, then
\* build_cache; articles that do not exist are marked as missing. The cache of
\* the group read last is kept, with the flags in it, for six hours.
EnterGroup(g, aged) ==
  /\ pc = "list"
  /\ news[g].absFirst # 0
  /\ LET d == GroupReply(news[g], g)
         size == IF srvLast[g] > d.ngMax THEN srvLast[g] ELSE d.ngMax
         line == IF d.absFirst > news[g].absFirst
                 THEN CheckExpired(d.line, d.absFirst)
                 ELSE d.line
         keep == cached = g /\ ~aged
     IN /\ first' = d.absFirst
        /\ last' = size
        /\ unread' = RcToBits(line, d.absFirst, size)
                       \cap (srvFirst[g]..srvLast[g])
        /\ news' = [news EXCEPT ![g] =
                      [line |-> line, toRead |-> Cardinality(unread'),
                       absFirst |-> d.absFirst, ngMax |-> size]]
        /\ low' = IF keep THEN low ELSE d.absFirst
        /\ kchase' = IF keep THEN kchase ELSE {}
        /\ mchase' = IF keep THEN mchase ELSE {}
        /\ misread' = IF RaisesSingle(line, d.absFirst) \/ Beyond(d, g)
                      THEN misread \cup {g} ELSE misread
        /\ drift' = IF Beyond(d, g) THEN drift \cup {g} ELSE drift \ {g}
  /\ pc' = "reading"
  /\ cur' = g
  /\ cached' = g
  /\ yank' = {}
  /\ UNCHANGED <<server, pos, chaseCount, ops, word, told, stale, cut>>

-------------------------------------------------------------------------------
\* Reading the group.

Command(n) ==
  /\ pc = "reading"
  /\ n \in first..last
  /\ ops < MaxOps
  /\ ops' = ops + 1

OneLess(nums) ==
  /\ unread' = unread \ nums
  /\ news' = [news EXCEPT ![cur].toRead = @ - Cardinality(nums \cap unread)]

OneMore(nums) ==
  /\ unread' = unread \cup nums
  /\ news' = [news EXCEPT ![cur].toRead = @ + Cardinality(nums \ unread)]

\* Article::mark_as_read, after the article was displayed or junked.
MarkAsRead(n) ==
  /\ Command(n)
  /\ OneLess({n})
  /\ IF HasXrefs(n) /\ n \notin kchase
     THEN kchase' = kchase \cup {n} /\ chaseCount' = chaseCount + 1
     ELSE UNCHANGED <<kchase, chaseCount>>
  /\ word' = [p \in Place |-> IF p \in Same(cur, n) THEN "read" ELSE word[p]]
  /\ told' = told \cup Same(cur, n)
  /\ stale' = IF n \in mchase THEN stale \cup Same(cur, n) ELSE stale
  /\ UNCHANGED <<server, cur, first, last, yank, cached, low, mchase, pc, pos,
                 cut, drift, misread>>

\* Article::unmark_as_read of several articles.
Unmark(nums) ==
  /\ OneMore(nums)
  /\ LET new == {n \in nums : HasXrefs(n)} \ mchase IN
       /\ mchase' = mchase \cup new
       /\ chaseCount' = chaseCount + Cardinality(new)

\* The 'm' command.
UnmarkAsRead(n) ==
  /\ Command(n)
  /\ Unmark({n})
  /\ word' = [p \in Place |-> IF p \in Same(cur, n) THEN "unread" ELSE word[p]]
  /\ UNCHANGED <<server, cur, first, last, yank, cached, low, kchase, pc, pos,
                 told, stale, cut, drift, misread>>

\* The 'M' command: read until the group is left, and not chased.
DelayUnmark(n) ==
  /\ Command(n)
  /\ OneLess({n})
  /\ yank' = yank \cup {n}
  /\ told' = told \cup {<<cur, n>>}
  /\ UNCHANGED <<server, cur, first, last, cache, chase,
                 word, stale, cut, drift, misread>>

\* What the user has said once the articles marked to return are returned.
Returned ==
  /\ word' = [p \in Place |->
                IF p \in {cur} \X yank THEN "unread" ELSE word[p]]
  /\ stale' = stale \cup Everywhere({n \in yank : HasXrefs(n)})

\* yank_back, the 'Y' command.
YankBack ==
  /\ pc = "reading"
  /\ yank # {}
  /\ Unmark(yank)
  /\ yank' = {}
  /\ Returned
  /\ UNCHANGED <<server, cur, first, last, cached, low, kchase, pc, pos,
                 ops, told, cut, drift, misread>>

\* The 'c' command inside a group: mark_all_read, no article is chased; what
\* was marked to return is returned at once.
MarkAllRead ==
  /\ pc = "reading"
  /\ ops < MaxOps
  /\ ops' = ops + 1
  /\ unread' = yank
  /\ news' = [news EXCEPT ![cur].toRead = Cardinality(yank)]
  /\ LET new == {n \in yank : HasXrefs(n)} \ mchase IN
       /\ mchase' = mchase \cup new
       /\ chaseCount' = chaseCount + Cardinality(new)
  /\ yank' = {}
  /\ word' = [p \in Place |-> IF p \in {cur} \X yank THEN "unread"
                              ELSE IF p \in {cur} \X (first..last) THEN "read"
                              ELSE word[p]]
  /\ told' = told \cup ({cur} \X (first..last))
  /\ stale' = stale \cup Everywhere(mchase \cup {n \in yank : HasXrefs(n)})
  /\ UNCHANGED <<server, cur, first, last, cached, low, kchase, pc, pos,
                 cut, drift, misread>>

\* At the end of the group a GROUP command asks for new articles: it moves
\* m_abs_first too, but neither g_abs_first nor the line.
GrowNewsgroup ==
  /\ pc = "reading"
  /\ LET d == GroupReply(news[cur], cur)
         new == ((last + 1)..d.ngMax) \cap (srvFirst[cur]..srvLast[cur])
     IN /\ last' = d.ngMax
        /\ unread' = unread \cup new
        /\ news' = [news EXCEPT ![cur] =
                      [d EXCEPT !.toRead = @ + Cardinality(new)]]
  /\ UNCHANGED <<server, cur, first, yank, cache, chase, history>>

-------------------------------------------------------------------------------
\* chase_xrefs.

\* chase_xref for the article n of the current group: in this group the copies
\* within first..last, in every other group its line.
Chased(s, n, read) ==
  LET here == Numbers(cur, Same(cur, n)) \cap (first..last)
      Elsewhere(g) == Numbers(g, Same(cur, n))
      NewIn(d, g) ==
        LET x == CHOOSE x \in Elsewhere(g) : TRUE
        IN IF read THEN AddIn(d, g, x) ELSE SubIn(d, x)
      delta == IF read THEN - Cardinality(here \cap s.unread)
                       ELSE Cardinality(here \ s.unread)
  IN [count  |-> s.count - 1,
      unread |-> IF read THEN s.unread \ here ELSE s.unread \cup here,
      news   |-> [g \in Groups |->
                    IF g = cur THEN [s.news[g] EXCEPT !.toRead = @ + delta]
                    ELSE IF Elsewhere(g) = {} THEN s.news[g]
                    ELSE NewIn(s.news[g], g)]]

ChasedTo(s) == chaseCount' = s.count /\ unread' = s.unread /\ news' = s.news

\* check_chase: the article is chased as read, then as unread, until the count
\* of chases is used up.
CheckChase(n) ==
  LET s == [count |-> chaseCount, unread |-> unread, news |-> news]
      read == n \in kchase
  IN /\ kchase' = kchase \ {n}
     /\ \E t \in {IF read THEN Chased(s, n, TRUE) ELSE s} :
          IF n \in mchase /\ t.count > 0
          THEN mchase' = mchase \ {n} /\ ChasedTo(Chased(t, n, FALSE))
          ELSE mchase' = mchase /\ ChasedTo(t)
     /\ LET Others(Slips(_, _, _)) ==
              {g \in Groups \ {cur} : read /\
                 \E x \in Numbers(g, Same(cur, n)) : Slips(news[g], g, x)}
        IN /\ drift' = drift \cup Others(Uncounted) \cup Others(Overreads)
           /\ misread' = misread \cup Others(Overreads)

\* cache_until_key, while trn waits for a keystroke.
StartChase ==
  /\ pc = "reading"
  /\ chaseCount # 0
  /\ pc' = "chasing"
  /\ pos' = low - 1
  /\ UNCHANGED <<server, news, reading, cache, chaseCount, history>>

ChaseArticle(n) ==
  /\ pc \in {"chasing", "leaving"}
  /\ chaseCount # 0
  /\ n = pos + 1
  /\ n <= last
  /\ CheckChase(n)
  /\ pos' = n
  /\ UNCHANGED <<server, cur, first, last, yank, cached, low, pc,
                 ops, word, told, stale, cut>>

\* A key was pressed, or the walk is over: s_chase_count is reset either way.
EndChase ==
  /\ pc = "chasing"
  /\ pos >= low \/ chaseCount = 0
  /\ pc' = "reading"
  /\ chaseCount' = 0
  /\ pos' = 0
  /\ UNCHANGED <<server, news, reading, cache, history>>

\* The end of do_newsgroup.
StartLeave ==
  /\ pc = "reading"
  /\ pc' = "leaving"
  /\ pos' = low - 1
  /\ UNCHANGED <<server, news, reading, cache, chaseCount, history>>

\* bits_to_rc.
LineFromBits(bits) ==
  news' = [news EXCEPT ![cur].line = BitsToRc(bits, first, last),
                       ![cur].toRead = Cardinality(bits \cap (first..last))]

\* ... which ends with yank_back and bits_to_rc.
LeaveGroup ==
  /\ pc = "leaving"
  /\ pos >= last \/ chaseCount = 0
  /\ LET new == {n \in yank : HasXrefs(n)} \ mchase IN
       /\ mchase' = mchase \cup new
       /\ chaseCount' = Cardinality(new)
  /\ LineFromBits(unread \cup yank)
  /\ unread' = {}
  /\ yank' = {}
  /\ Returned
  /\ cut' = cut \cup Everywhere(kchase \cup mchase)
  /\ pc' = "list"
  /\ cur' = NoGroup
  /\ first' = 1
  /\ last' = 0
  /\ pos' = 0
  /\ UNCHANGED <<server, cached, low, kchase, ops, told, drift, misread>>

\* checkpoint_newsrcs, from the pager: the articles marked to return are
\* written as read.
Checkpoint ==
  /\ pc = "reading"
  /\ LineFromBits(unread)
  /\ UNCHANGED <<server, reading, cache, chase, history>>

\* A process ends and another starts, which only knows the lines.
NewProcess(lines) ==
  /\ news' = [g \in Groups |-> Fresh(lines[g])]
  /\ pc' = "list"
  /\ cur' = NoGroup
  /\ first' = 1
  /\ last' = 0
  /\ unread' = {}
  /\ cached' = NoGroup
  /\ low' = 1
  /\ kchase' = {}
  /\ mchase' = {}
  /\ yank' = {}
  /\ chaseCount' = 0
  /\ pos' = 0
  /\ drift' = {}
  /\ UNCHANGED <<server, ops, told, misread>>

Lines == [g \in Groups |-> news[g].line]

Restart ==
  /\ pc = "list"
  /\ cached # NoGroup
  /\ NewProcess(Lines)
  /\ UNCHANGED <<word, stale, cut>>

\* sig_catcher: yank_back and bits_to_rc, but no chase.
Hangup ==
  /\ pc \in {"reading", "chasing", "leaving"}
  /\ NewProcess([Lines EXCEPT ![cur] = BitsToRc(unread \cup yank, first, last)])
  /\ Returned
  /\ cut' = cut \cup Everywhere(kchase \cup mchase)

-------------------------------------------------------------------------------
Next ==
  \/ \E gs \in SUBSET Groups : Arrive(gs)
  \/ \E g \in Groups : Expire(g)
  \/ \E g \in Groups : Recount(g)
  \/ \E g \in Groups, leave \in 0..1 : CatchUp(g, leave)
  \/ \E g \in Groups, aged \in BOOLEAN : EnterGroup(g, aged)
  \/ \E n \in 1..Top : MarkAsRead(n)
  \/ \E n \in 1..Top : UnmarkAsRead(n)
  \/ \E n \in 1..Top : DelayUnmark(n)
  \/ YankBack
  \/ MarkAllRead
  \/ GrowNewsgroup
  \/ StartChase
  \/ \E n \in 1..Top : ChaseArticle(n)
  \/ EndChase
  \/ StartLeave
  \/ LeaveGroup
  \/ Checkpoint
  \/ Restart
  \/ Hangup

Spec == Init /\ [][Next]_vars

-------------------------------------------------------------------------------
\* Nothing becomes read by accident: whatever commands, chases, expiries and
\* arrivals came together, a line only records articles that were read before,
\* that the user marked here or where they were cross-posted, or that have
\* expired (rc_to_bits, bits_to_rc, add_art_num, check_expired).
ReadOnlyIfTold ==
  \A p \in Place :
    /\ p[2] \in Denotes(news[p[1]].line)
    /\ p[2] >= srvFirst[p[1]]
    /\ p[1] \notin misread
    => p \in told

\* The user's last word on an article is what every group it was posted to has
\* in its line once the group is left, unless a chase was cut short or an older
\* pending unmark was in the way (the deferral of chase_xrefs).
Obeyed(p) ==
  /\ word[p] = "read" => p[2] \in Denotes(news[p[1]].line)
  /\ word[p] = "unread" /\ p[2] >= srvFirst[p[1]] =>
       p[2] \notin Denotes(news[p[1]].line)

LastWordWins ==
  pc = "list" =>
    \A p \in Place : p \notin stale /\ p \notin cut /\ p[1] \notin misread
      => Obeyed(p)

\* "1-0" is counted as one unread article more.
Miscounted(line) == \E i \in DOMAIN line : line[i].hi = 0

\* m_to_read is the number of articles that the group's flags, or its line,
\* leave unread, however the articles were marked (one_less, one_more,
\* add_art_num, sub_art_num, set_to_read, grow_newsgroup).
CountsAgree ==
  \A g \in Groups \ drift :
    IF g = cur
    THEN news[g].toRead = Cardinality(unread)
    ELSE news[g].absFirst # 0 /\ ~Miscounted(news[g].line) =>
           news[g].toRead = Cardinality(Unread(news[g]))

\* Editing a line as text does to the set of read articles what it should,
\* whatever shape earlier edits gave the line: one article more, one article
\* less, all below the first.
EditsAreExact ==
  \A g \in Groups : LET line == news[g].line IN
    /\ \A n \in 1..Top :
         /\ ~Glues(line, n) =>
              Denotes(AddArtNum(line, n)) = Denotes(line) \cup {n}
         /\ Denotes(SubArtNum(line, n)) = Denotes(line) \ {n}
         /\ Denotes(CheckExpired(line, n)) = Denotes(line) \cup (1..(n - 1))

===============================================================================
