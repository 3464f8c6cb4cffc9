------------------------------- MODULE Newsgroups ------------------------------
(***************************************************************************)
(* The list of newsgroups and the loop that walks it.                      *)
(*                                                                         *)
(* The groups of the newsrcs lie in one array that moves when it grows     *)
(* (libtrn/rcstuff.cpp). Beside it stand the order in which they are       *)
(* visited (libtrn/ngdata.cpp), the hash that finds them by name, and the  *)
(* pointers of the loop. The loop (libtrn/trn.cpp) stops at groups with    *)
(* unread news; at a group that is no longer on the server it moves bogus  *)
(* groups to the end, and deletes them if the user says so, while it walks.*)
(*                                                                         *)
(* A pointer names the block it was taken in: one of an earlier block      *)
(* dangles. How the unread articles are counted is the business of module  *)
(* ReadMarks; here the server has a number of them for each group.         *)
(***************************************************************************)
EXTENDS Integers, Sequences, FiniteSets, SequencesExt, TLC

CONSTANTS
  Names,       \* the names of newsgroups
  Rank,        \* their place in the alphabet
  Files,       \* the newsrcs: sequences of <<name, mark>>, mark ":", "!" or " "
  Slack,       \* groups that the first block has room for beyond the newsrc
  Orders,      \* the sort orders that the user chooses from
  Suppose,     \* what the server may have at the start: unread articles, or Gone
  Limits,      \* the restrictions that the user may ask for: sets of names
  MaxNews,     \* bound on the changes on the server
  MaxInputs    \* bound on the commands at the prompt

ASSUME RankAssumption == Rank \in [Names -> Nat]
ASSUME SlackAssumption == Slack \in Nat \ {0}
ASSUME OrdersAssumption == Orders \subseteq {"natural", "reverse", "count", "name"}

VARIABLES
  groups,   \* the list: its groups, order, hash and the pointers into it
  news,     \* the articles on the server that are unread, by group, or Gone
  loop,     \* the locals of do_multirc, g_only, and whether ^ was the command
  changes,  \* changes on the server so far
  inputs    \* commands so far

newsgroupsVars == <<groups, news, loop, changes, inputs>>

Gone == -9
NoneToRead == 0
Unsub == -1
Ignore == -2
Bogus == -3
JunkLine == -4
Deleted == "deleted"
Null == [block |-> 0, at |-> 0]

-------------------------------------------------------------------------------
\* The array, the order and the hash.

Ptr(g, i) == [block |-> g.block, at |-> i]
Group(g, p) == g.items[p.at]
Live(g) == {i \in DOMAIN g.items : g.items[i].name # Deleted}
At(g, p) == CHOOSE k \in DOMAIN g.order : g.order[k] = p
First(g) == IF g.order = <<>> THEN Null ELSE Head(g.order)
Final(g) == IF g.order = <<>> THEN Null ELSE Last(g.order)
NextOf(g, p) ==
  IF p = Null \/ p = Final(g) \/ ~Contains(g.order, p) THEN Null
  ELSE g.order[At(g, p) + 1]
PrevOf(g, p) ==
  IF p = Null \/ p = First(g) \/ ~Contains(g.order, p) THEN Null
  ELSE g.order[At(g, p) - 1]

Hashed(g, i) == [g EXCEPT !.hash[g.items[i].name] = Ptr(g, i)]

\* A plausible mistake: a pointer is left as it was.
RebaseMost(g, to) ==
  LET Rebased(p) == IF p = Null THEN Null ELSE [p EXCEPT !.block = to]
  IN [g EXCEPT !.block = to,
               !.order = [k \in DOMAIN @ |-> Rebased(@[k])],
               !.ng = Rebased(@), !.current = Rebased(@), !.start = Rebased(@)]
\* Every pointer goes to the same index of the new block.
Rebase(g, to) ==
  LET Rebased(p) == IF p = Null THEN Null ELSE [p EXCEPT !.block = to]
  IN [g EXCEPT !.block = to,
               !.order = [k \in DOMAIN @ |-> Rebased(@[k])],
               !.ng = Rebased(@), !.current = Rebased(@),
               !.recent = Rebased(@), !.start = Rebased(@)]
\* Names are hashed again in the order of the array, duplicates too.
Rehash(g) ==
  [g EXCEPT !.hash =
     [n \in Names |->
        LET named == {i \in Live(g) : g.items[i].name = n /\ g.items[i].read # JunkLine}
        IN IF named = {} THEN Null ELSE Ptr(g, CHOOSE i \in named : \A j \in named : j <= i)]]
Grown(g) ==
  IF Len(g.items) < g.room THEN g
  ELSE Rehash([Rebase(g, g.block + 1) EXCEPT
                 !.room = @ + (IF @ > Slack THEN @ ELSE Slack)])

Append1(g, item) ==
  LET On(h) == [h EXCEPT !.items = Append(@, [item EXCEPT !.num = Len(h.order)]),
                         !.order = Append(@, Ptr(h, Len(h.items) + 1)),
                         !.count = @ + 1]
  IN On(Grown(g))

\* NewsgroupOrder::sort: groups that compare equal stay as they are.
SortedBy(g, key, direction) ==
  LET Value(i) == CASE key = "count" -> Group(g, g.order[i]).read
                    [] key = "name" -> Rank[Group(g, g.order[i]).name]
                    [] OTHER -> Group(g, g.order[i]).num
      Ties(i, j) == LET a == Group(g, g.order[i]).num
                        b == Group(g, g.order[j]).num
                    IN IF key = "count" /\ a # b THEN a < b ELSE i < j
      Before(i, j) == IF Value(i) = Value(j) THEN Ties(i, j)
                      ELSE Value(i) * direction < Value(j) * direction
      Places == SortSeq([i \in DOMAIN g.order |-> i], Before)
  IN [g EXCEPT !.direction = direction, !.order = [k \in DOMAIN @ |-> @[Places[k]]]]

Renumber(g) ==
  [g EXCEPT !.items = [i \in DOMAIN @ |->
     IF Contains(g.order, Ptr(g, i)) THEN [@[i] EXCEPT !.num = At(g, Ptr(g, i)) - 1]
     ELSE @[i]]]
\* NewsgroupOrder::move.
Moved(g, p, num) ==
  LET Into(rest) == [g EXCEPT !.order =
        InsertAt(rest, (IF num > Len(rest) THEN Len(rest) ELSE num) + 1, p)]
  IN Renumber(Into(Remove(g.order, p)))

\* The order that is shown: a reversed one falls back to the order of the
\* newsrc, and every one is shown forwards once the list has been sorted for it.
Resort(g) ==
  IF g.by = "natural" THEN g
  ELSE SortedBy(g, IF g.by = "reverse" THEN "natural" ELSE g.by, 1)
\* Around a save of the newsrcs, which writes them in their own order.
Saved(g) == IF g.by = "natural" THEN g ELSE Resort(SortedBy(g, "natural", 1))

-------------------------------------------------------------------------------
\* NewsgroupData::relocate_newsgroup.

\* A plausible mistake: the list stays sorted as it is shown.
NaturalAsShown(g, keep) == g
\* Before a group is moved the list takes the order of the newsrc, unless the
\* user would have the newsrc take the order that is shown.
Natural(g, keep) ==
  IF g.by = "natural" THEN g
  ELSE IF keep THEN [g EXCEPT !.by = "natural", !.direction = 1]
  ELSE SortedBy(g, "natural", 1)

ToEnd(g, p, keep) ==
  LET On(h) == [Moved(h, p, h.count - 1) EXCEPT !.start = Null] IN On(Natural(g, keep))
\* Where the answer puts the group, which is at the end when it is asked.
Position(g, where) ==
  CASE where[1] = "^" -> 0
    [] where[1] = "$" -> g.count - 1
    [] where[1] = "." -> Group(g, g.current).num
    [] where[1] = "-" -> Group(g, g.hash[where[2]]).num
    [] where[1] = "+" -> Group(g, g.hash[where[2]]).num + 1
Placed(g, p, num) == Resort(IF num < g.count - 1 THEN Moved(g, p, num) ELSE g)

-------------------------------------------------------------------------------
\* Counting, and the groups that the server does not have any more.

\* NewsgroupData::set_to_read with get_newsgroup_size.
SetToRead(g, p) ==
  LET n == Group(g, p).name
  IN IF news[n] = Gone
     THEN [g EXCEPT !.items[p.at].read = Bogus, !.items[p.at].mark = "!",
                    !.paranoid = TRUE]
     ELSE [g EXCEPT !.items[p.at].read =
             IF Group(g, p).mark = "!" THEN Unsub ELSE news[n]]

Checked(g) ==
  LET Check(h, p) == IF Group(h, p).read >= Unsub THEN SetToRead(h, p) ELSE h
  IN FoldLeft(Check, g, g.order)

IsBogus(g, k) == Group(g, g.order[k]).read = Bogus
\* The place up to which the list is searched for groups to move.
Rest(g) ==
  IF \A k \in DOMAIN g.order : IsBogus(g, k) THEN 0
  ELSE CHOOSE k \in DOMAIN g.order :
         ~IsBogus(g, k) /\ \A j \in k + 1 .. Len(g.order) : IsBogus(g, j)

\* It walks backwards from there over a list that it sorts and sorts again: the
\* group before is read before this one moves.
RECURSIVE MoveBogus(_, _)
MoveBogus(g, p) ==
  LET Gather(prev) ==
        MoveBogus(IF Group(g, p).read = Bogus
                  THEN Placed(ToEnd(g, p, FALSE), p, g.count - 1) ELSE g, prev)
  IN IF p = Null THEN g ELSE Gather(PrevOf(g, p))

\* A plausible mistake: the count keeps the group.
PopUncounted(g) ==
  [g EXCEPT !.hash[Group(g, Final(g)).name] = Null,
            !.items[Final(g).at].name = Deleted, !.order = Front(@)]
Pop(g) ==
  [g EXCEPT !.hash[Group(g, Final(g)).name] = Null,
            !.items[Final(g).at].name = Deleted,
            !.order = Front(@), !.count = @ - 1]
RECURSIVE DeleteBogus(_)
DeleteBogus(g) ==
  IF g.order # <<>> /\ IsBogus(g, Len(g.order)) THEN DeleteBogus(Pop(g)) ELSE g
\* Pointers at deleted groups go back to the first one.
Retarget(g) ==
  LET Target(p) == IF p # Null /\ Group(g, p).name = Deleted THEN First(g) ELSE p
  IN [g EXCEPT !.current = Target(@), !.recent = Target(@), !.ng = Target(@)]

\* cleanup_newsrc: with many of them bogus the list of the server is to blame.
Cleanup(g, delete) ==
  LET Amount(h) == Cardinality({k \in 1 .. Rest(h) : IsBogus(h, k)})
      Tidy(h) ==
        IF Amount(h) = 0 \/ (h.count > 5 /\ Amount(h) > h.count \div 2) THEN h
        ELSE LET Ask(moved) == IF delete THEN Retarget(DeleteBogus(moved)) ELSE moved
             IN Ask(MoveBogus(h, h.order[Rest(h)]))
      Done(h) == [h EXCEPT !.paranoid = FALSE]
  IN Done(Tidy(Checked(g)))

-------------------------------------------------------------------------------
\* The loop: one step for each group that it comes to.

Wanted(n) == loop.only = {} \/ n \in loop.only

\* Past the last group: a restriction under which nothing was found is dropped.
AtEnd ==
  /\ loop' = [loop EXCEPT !.pc = "prompt", !.special = FALSE,
       !.only = IF loop.retry THEN @ ELSE {},
       !.retry = @ \/ loop.only # {}]
  /\ groups' = IF groups.current = Null THEN groups
          ELSE [groups EXCEPT !.recent = groups.current, !.current = Null]

\* A plausible mistake: it keeps going backwards.
OnwardBackwards(g) ==
  /\ groups' = [g EXCEPT !.ng = IF loop.forward THEN NextOf(g, @)
                           ELSE IF PrevOf(g, @) = Null THEN NextOf(g, First(g))
                           ELSE PrevOf(g, @)]
  /\ UNCHANGED loop
\* Before the first group it turns round.
Onward(g) ==
  /\ groups' = [g EXCEPT !.ng = IF loop.forward THEN NextOf(g, @)
                           ELSE IF PrevOf(g, @) = Null THEN NextOf(g, First(g))
                           ELSE PrevOf(g, @)]
  /\ loop' = [loop EXCEPT !.forward = @ \/ PrevOf(g, g.ng) = Null]

\* The group is offered, or passed over for having nothing unread.
Judge(g, shoeFits) ==
  IF Group(g, g.ng).read < (IF loop.special THEN NoneToRead ELSE 1) \/ ~shoeFits
  THEN Onward(g)
  ELSE /\ groups' = IF g.ng = g.current THEN g
               ELSE [g EXCEPT !.recent = g.current, !.current = g.ng]
       /\ loop' = [loop EXCEPT !.pc = "prompt", !.special = FALSE,
                     !.retry = @ \/ Group(g, g.ng).read > 0]

Came(g) == [g EXCEPT !.recent = g.current, !.current = g.ng]
Stays(g) == [g EXCEPT !.ng = g.current]
Examine ==
  LET it == Group(groups, groups.ng)
      fits == Wanted(it.name)
  IN \/ it.read < NoneToRead /\ Onward(groups)
     \/ /\ it.read >= NoneToRead
        /\ \E g \in {IF fits THEN SetToRead(groups, groups.ng) ELSE groups} :
             \/ ~g.paranoid /\ Judge(g, fits)
             \/ g.paranoid /\ \E delete \in BOOLEAN :
                  \E h \in {Stays(Cleanup(Came(g), delete))} : Judge(h, fits)

Scan ==
  /\ loop.pc = "scan"
  /\ IF groups.ng = Null THEN AtEnd ELSE Examine
  /\ UNCHANGED <<news, changes, inputs>>

-------------------------------------------------------------------------------
\* input_newsgroup: the commands of the prompt.

Command(go, special, forward) ==
  /\ loop.pc = "prompt" /\ inputs < MaxInputs
  /\ inputs' = inputs + 1
  /\ UNCHANGED changes
  /\ loop' = [loop EXCEPT !.pc = IF go THEN "scan" ELSE "prompt",
                !.special = special, !.forward = forward, !.fromFirst = FALSE]
Goto(p) == groups' = [groups EXCEPT !.ng = p]

\* p and P
Previous ==
  /\ \E special \in BOOLEAN : Command(TRUE, special, FALSE)
  /\ Goto(IF groups.ng = Null THEN Final(groups)
          ELSE IF groups.ng = First(groups) THEN groups.ng ELSE PrevOf(groups, groups.ng))
  /\ UNCHANGED news
\* N and n; at the end n starts the list again.
Next1 ==
  /\ groups.ng # Null
  /\ \E special \in BOOLEAN : Command(TRUE, special, TRUE)
  /\ Goto(NextOf(groups, groups.ng))
  /\ UNCHANGED news
Again ==
  /\ groups.ng = Null /\ loop.pc = "prompt" /\ inputs < MaxInputs
  /\ inputs' = inputs + 1
  /\ loop' = [loop EXCEPT !.pc = "scan", !.retry = FALSE, !.forward = TRUE,
                !.fromFirst = FALSE]
  /\ groups' = IF groups.start # Null THEN [groups EXCEPT !.ng = groups.start, !.start = Null]
          ELSE [groups EXCEPT !.ng = First(groups)]
  /\ UNCHANGED <<news, changes>>
\* 1 and $, and ^, which looks for unread news from the first group on.
Jump ==
  /\ \/ Command(TRUE, TRUE, TRUE) /\ Goto(First(groups))
     \/ Command(TRUE, FALSE, TRUE) /\ Goto(Null)
  /\ UNCHANGED news
FirstUnread ==
  /\ loop.pc = "prompt" /\ inputs < MaxInputs
  /\ inputs' = inputs + 1
  /\ loop' = [loop EXCEPT !.pc = "scan", !.forward = TRUE, !.fromFirst = TRUE]
  /\ Goto(First(groups))
  /\ UNCHANGED <<news, changes>>

\* The group that was asked for, found or not; '-' comes back to the recent one.
Found(g) == Group(g, g.ng).read >= NoneToRead
Arrive(g, orElse) == groups' = IF Found(g) THEN g ELSE [g EXCEPT !.ng = orElse]
\* - and g, of a group in the newsrc: an unsubscribed one is asked about.
GoTo(n, p) ==
  /\ Command(TRUE, TRUE, TRUE)
  /\ UNCHANGED news
  /\ p # Null
  /\ \E g \in {[groups EXCEPT !.ng = p]} :
       \/ Group(groups, p).mark # "!" /\ Arrive(SetToRead(g, p), groups.current)
       \/ /\ Group(groups, p).mark = "!"
          /\ \/ groups' = [groups EXCEPT !.ng = groups.current]
             \/ Arrive(SetToRead([g EXCEPT !.items[p.at].mark = ":"], p), groups.current)
Recall ==
  \/ /\ groups.recent = Null /\ Command(TRUE, TRUE, TRUE) /\ Goto(Null) /\ UNCHANGED news
  \/ groups.recent # Null /\ GoTo(Group(groups, groups.recent).name, groups.hash[Group(groups, groups.recent).name])
GoToNamed == \E n \in Names : GoTo(n, groups.hash[n])

New(n, mark) == [name |-> n, mark |-> mark, read |-> NoneToRead, num |-> 0]
\* g of a group that is not in the newsrc: it is added, unsubscribed if the user
\* declines it, and put where the user says.
Add ==
  \E n \in {m \in Names : groups.hash[m] = Null /\ news[m] # Gone} :
    /\ Command(TRUE, TRUE, TRUE)
    /\ UNCHANGED news
    /\ \/ \E g \in {Append1(groups, New(n, "!"))} :
            groups' = [Hashed(g, Len(g.items)) EXCEPT !.ng = g.current]
       \/ \E g \in {Append1(groups, New(n, ":"))} :
          \E p \in {Ptr(g, Len(g.items))} :
          \E h \in {SetToRead([Hashed(g, p.at) EXCEPT !.ng = p], p)} :
          \E keep \in IF h.by = "natural" THEN {FALSE} ELSE BOOLEAN :
          \E r \in {ToEnd(h, p, keep)} :
            \/ \E where \in {<<"^">>, <<"$">>}
                    \cup (IF r.current = Null THEN {} ELSE {<<".">>})
                    \cup {<<w, m>> : w \in {"-", "+"}, m \in {x \in Names : r.hash[x] # Null}} :
                 groups' = Placed(r, p, Position(r, where))
            \/ groups' = [r EXCEPT !.ng = r.current]    \* q leaves it at the end

\* c, with its u: the caught-up group is saved with the others.
CatchUp ==
  \E unsub \in BOOLEAN :
    /\ groups.ng # Null /\ news[Group(groups, groups.ng).name] # Gone
    /\ Command(TRUE, FALSE, TRUE)
    /\ news' = [news EXCEPT ![Group(groups, groups.ng).name] = 0]
    /\ \E g \in {Saved([groups EXCEPT !.items[groups.ng.at].read = IF unsub THEN Unsub ELSE NoneToRead,
                                 !.items[groups.ng.at].mark = IF unsub THEN "!" ELSE @])} :
         groups' = [g EXCEPT !.ng = NextOf(g, @)]
\* u
Unsubscribe ==
  /\ groups.ng # Null /\ Group(groups, groups.ng).read >= NoneToRead
  /\ Command(TRUE, FALSE, TRUE)
  /\ groups' = [groups EXCEPT !.items[groups.ng.at].mark = "!", !.items[groups.ng.at].read = Unsub,
                    !.ng = NextOf(groups, @)]
  /\ UNCHANGED news

\* y: the group is read, or cannot be; the user leaves it for the next one, for
\* the one before, for the prompt or for the recent one.
Visit ==
  \E left \in {0, 1}, how \in {"next", "prior", "ask", "minus"} :
    /\ groups.ng # Null
    /\ \E n \in {Group(groups, groups.ng).name} :
         \E g \in {IF news[n] = Gone THEN [groups EXCEPT !.items[groups.ng.at].read = Bogus]
                   ELSE [groups EXCEPT !.items[groups.ng.at].read =
                           IF Group(groups, groups.ng).mark = "!" THEN Unsub
                           ELSE IF left < news[n] THEN left ELSE news[n]]} :
           /\ (news[n] = Gone) => how = "next"
           /\ news' = IF left < news[n] THEN [news EXCEPT ![n] = left] ELSE news
           /\ Command(how # "ask", how = "minus", how # "prior")
           /\ groups' = [g EXCEPT !.ng =
                CASE how = "next" -> NextOf(g, @)
                  [] how = "prior" -> (IF @ = First(g) THEN @ ELSE PrevOf(g, @))
                  [] how = "minus" -> g.recent
                  [] OTHER -> @]

\* o: only some groups.
Only ==
  \E limit \in Limits :
    /\ loop.pc = "prompt" /\ inputs < MaxInputs
    /\ inputs' = inputs + 1
    /\ loop' = [loop EXCEPT !.pc = "scan", !.retry = FALSE, !.forward = TRUE,
                  !.fromFirst = FALSE, !.only = limit]
    /\ Goto(First(groups))
    /\ UNCHANGED <<news, changes>>

\* The newsgroup selector sorts the list.
Sort ==
  \E by \in Orders :
    /\ Command(FALSE, FALSE, TRUE)
    /\ groups' = SortedBy([groups EXCEPT !.by = by], IF by = "reverse" THEN "natural" ELSE by,
                     IF by = "reverse" THEN -1 ELSE 1)
    /\ UNCHANGED news

\* Articles come to the server, and groups go.
ServerChanges ==
  /\ loop.pc = "prompt" /\ changes < MaxNews
  /\ changes' = changes + 1
  /\ \E n \in Names, v \in {Gone, 1} : news[n] # v /\ news' = [news EXCEPT ![n] = v]
  /\ UNCHANGED <<groups, loop, inputs>>

-------------------------------------------------------------------------------
\* Starting: the newsrc is read into the list.

Load(g, line) ==
  LET dup == line[2] # " " /\ g.hash[line[1]] # Null
      read == IF line[2] = " " THEN JunkLine ELSE IF dup THEN Ignore
              ELSE IF line[2] = "!" THEN Unsub ELSE NoneToRead
      Add1(h) == IF read < Unsub THEN h ELSE Hashed(h, Len(h.items))
      Count(h, p) == IF read # NoneToRead THEN h
                     ELSE LET c == SetToRead(h, p)
                          IN IF c.start = Null /\ Group(c, p).read > 0
                             THEN [c EXCEPT !.start = p] ELSE c
      On(h) == Count(h, Ptr(h, Len(h.items)))
  IN On(Add1(Append1(g, [name |-> line[1], mark |-> line[2], read |-> read, num |-> 0])))

Empty(room) ==
  [block |-> 1, room |-> room, items |-> <<>>, order |-> <<>>, count |-> 0,
   hash |-> [n \in Names |-> Null], by |-> "natural", direction |-> 1,
   paranoid |-> FALSE, ng |-> Null, current |-> Null, recent |-> Null, start |-> Null]

\* A newsrc with nothing to read starts at the last group.
Started(g) ==
  LET start == IF g.start = Null THEN Final(g) ELSE g.start
  IN [g EXCEPT !.ng = start, !.start = Null, !.current = First(g)]
NewsgroupsInit ==
  /\ news \in Suppose
  /\ \E f \in Files, delete \in BOOLEAN :
     \E g \in {FoldLeft(Load, Empty(Len(f) + Slack), f)} :
       groups = Started(IF g.paranoid THEN Cleanup(g, delete) ELSE g)
  /\ loop = [pc |-> "scan", forward |-> TRUE, special |-> FALSE, retry |-> FALSE,
             only |-> {}, fromFirst |-> FALSE]
  /\ changes = 0 /\ inputs = 0

NewsgroupsNext ==
  \/ Scan \/ Previous \/ Next1 \/ Again \/ Jump \/ FirstUnread \/ Recall \/ GoToNamed \/ Add
  \/ CatchUp \/ Unsubscribe \/ Visit \/ Only \/ Sort \/ ServerChanges

\* The loop runs on by itself until it asks. This is WF_newsgroupsVars(Scan), written out
\* because Scan can be taken exactly when the loop is scanning.
ScanIsFair == []<>(loop.pc # "scan") \/ []<><<Scan>>_newsgroupsVars
NewsgroupsSpec == NewsgroupsInit /\ [][NewsgroupsNext]_newsgroupsVars /\ ScanIsFair

-------------------------------------------------------------------------------
Pointers == {groups.ng, groups.current, groups.recent, groups.start}

\* Whatever grew the array, moved groups or deleted some, each pointer that is
\* kept points into the block that is in use, at a group that was not deleted.
PointersAreLive ==
  \A p \in Pointers \cup Range(groups.order) \cup {groups.hash[n] : n \in Names} :
    p # Null => p.block = groups.block /\ p.at \in Live(groups)

\* Every group stays in the order, once, however often the list is sorted, and
\* can be found by its name unless it is one of several of that name.
OrderIsComplete ==
  /\ groups.count = Len(groups.order) /\ IsInjective(groups.order)
  /\ {p.at : p \in Range(groups.order)} = Live(groups)
  /\ \A i \in Live(groups) : groups.items[i].read \notin {JunkLine, Ignore} =>
       \E p \in {groups.hash[groups.items[i].name]} :
         p # Null /\ Group(groups, p).name = groups.items[i].name

\* Moving the bogus groups away, in whatever order the list is shown, does not
\* change the order of the other groups in the newsrc.
CleanupKeepsOrder ==
  [][groups.paranoid' # TRUE /\ loop.pc = "scan" =>
       \A i, j \in Live(groups) :
         (i \in Live(groups)' /\ j \in Live(groups)' /\ groups'.items[i].read # Bogus
            /\ groups'.items[j].read # Bogus /\ groups.items[i].num < groups.items[j].num)
           => groups'.items[i].num < groups'.items[j].num]_groups

\* The loop comes to the prompt, in either direction, whatever it finds.
ComesToPrompt == loop.pc = "scan" ~> loop.pc = "prompt"
================================================================================
