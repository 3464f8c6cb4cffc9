------------------------------- MODULE KillFiles -------------------------------
(***************************************************************************)
(* trn's memorized commands (libtrn/kfile.cpp): commands on threads,       *)
(* subjects and articles, which articles carry as auto flags and the       *)
(* message-id hash keeps between groups, and the search commands of the    *)
(* group's KILL file, which are run over the articles that arrive.         *)
(*                                                                         *)
(* With KILLTHREADS the thread commands of all groups are in one file with *)
(* the day each was last used, to which new ones are appended and which is *)
(* now and then rewritten; without it those of a group are in its own KILL *)
(* file. The group is in threaded mode. What commands do to the read marks *)
(* is in module ArticleLoop; here they leave their flags.                  *)
(***************************************************************************)
EXTENDS Integers, Sequences, FiniteSets, SequencesExt

CONSTANTS
  Articles,   \* the numbers that the group's articles have or may get, 1..n
  Posted,     \* the last one that is there at first
  Fakes,      \* ids that no article of the group has
  Foreign,    \* ids of other groups with lines in the thread file
  Walk,       \* all of these in the order in which the hash is walked
  Reply,      \* Articles -> the article that each answers, or 0
  SubjectOf,  \* Articles -> its subject
  Letters,    \* the commands in use, of "JK,j+S.m"
  Lines,      \* search commands that the KILL file may hold
  Always,     \* those of Lines that ignore THRU (modifier I)
  MaxDays,    \* KF_MAX_DAYS
  MaxInputs   \* bound on commands, visits and days

ASSUME ArticlesAssumption ==
  /\ Articles \subseteq Nat \ {0}
  /\ \A a \in Articles : 1..a \subseteq Articles
  /\ Posted \in Articles
  /\ \A a \in Articles : Reply[a] \in 0..(a - 1)
ASSUME IdsAssumption ==
  /\ (Articles \cup {0}) \cap (Fakes \cup Foreign) = {}
  /\ Range(Walk) = Articles \cup Fakes \cup Foreign

VARIABLES
  shared,    \* KFS_GLOBAL_THREAD_FILE: there is a KILLTHREADS file
  threads,   \* that file: lines [id, cmd, day]
  kill,      \* the group's KILL file: [exists, thru, search, commands]
  hash,      \* g_msg_id_hash: what is known of each id
  last,      \* g_last_art
  place,     \* "stopped", "top", "group"
  threaded,  \* the articles up to this one are in the group's cache
  state,     \* KillFilePersistence::state: the changes to be written
  local,     \* the same: what the KILL file has; whether local_kfp is open, and the
             \* file was run in this visit (g_kill.first)
  tally,     \* change_thread_cnt, thread_cnt and day_num
  today,
  inputs,
  told,      \* history: the command that was given for each id, or ""
  outranked, \* history: the ids for which a weaker command of the group's KILL file
             \* took the place of a stronger one
  due,       \* history: search commands and the articles they have yet to meet
  lost       \* history: "unwritten", a thread file was not; "emptied", commands of the
             \* group that only they had were given up with its KILL file

vars == <<shared, threads, kill, hash, last, place, threaded, state, local, tally,
          today, inputs, told, outranked, due, lost>>

Ids == Articles \cup Fakes \cup Foreign
InOrder(ids) == SelectSeq(Walk, LAMBDA id : id \in ids)
\* s_thread_cmd_ltr: from the strongest on.
Order == <<"J", "K", ",", "j", "+", "S", ".", "m">>
Rank(c) == IF c = "" THEN 0 ELSE 9 - (CHOOSE i \in DOMAIN Order : Order[i] = c)
Strongest(cmds) ==
  IF cmds = {} THEN "" ELSE CHOOSE c \in cmds : \A d \in cmds : Rank(d) <= Rank(c)

Unknown == [kind |-> "none", cmds |-> {}, age |-> 0, old |-> FALSE]
Pending(c, age) == [kind |-> "pending", cmds |-> {c}, age |-> age, old |-> FALSE]

-------------------------------------------------------------------------------
\* The working state of an operation: w.hash, w.state, w.tally, w.told,
\* w.outranked, and w.last, the last article.

Work == [hash |-> hash, state |-> state, tally |-> tally, told |-> told,
         outranked |-> outranked, last |-> last]
Do(w) == /\ hash' = w.hash /\ state' = w.state /\ tally' = w.tally
         /\ told' = w.told /\ outranked' = w.outranked

Changed(w, n) == [w EXCEPT !.tally.changed = @ + n]
\* A plausible mistake: without a thread file nothing tells of a change to the
\* group's.
NotedForThreads(w) == [w EXCEPT !.state.threadChanges = TRUE]
\* thread_change_set
Noted(w) ==
  [w EXCEPT !.state.threadChanges = TRUE, !.state.localChanges = @ \/ ~shared]

\* get_article, valid_article: a pending id becomes an article.
Known(w, id) ==
  LET e == w.hash[id]
      Adopted(v) == [v EXCEPT !.hash[id] = [kind |-> "art", cmds |-> e.cmds,
                                            age |-> 0, old |-> e.cmds # {} /\ e.age = 0]]
  IN IF e.kind = "art" THEN w
     ELSE Adopted(IF e.kind = "pending" /\ e.age > 0 THEN Changed(w, 1) ELSE w)

\* A command replaces a weaker one only.
ChangeAutoFlags(w, id, c) ==
  IF Rank(c) <= Rank(Strongest(w.hash[id].cmds)) THEN w
  ELSE Noted([Changed(w, IF w.hash[id].old THEN 1 ELSE 0) EXCEPT
                !.hash[id].cmds = {c}, !.hash[id].old = FALSE, !.told[id] = c,
                !.outranked = @ \ {id}])
ClearAutoFlags(w, id) ==
  IF w.hash[id].cmds = {} THEN w
  ELSE Noted([Changed(w, IF w.hash[id].old THEN 1 ELSE 0) EXCEPT
                !.hash[id].cmds = {}, !.hash[id].old = FALSE, !.told[id] = "",
                !.outranked = @ \ {id}])

ToAll(w, ids, c) == FoldLeft(LAMBDA v, id : ChangeAutoFlags(v, id, c), w, InOrder(ids))
ClearAll(w, ids) == FoldLeft(LAMBDA v, id : ClearAutoFlags(v, id), w, InOrder(ids))

-------------------------------------------------------------------------------
\* The articles that a command is for.

Here(w) == {a \in Articles : a <= w.last /\ w.hash[a].kind = "art"}

\* Every article from a up.
Above(a) ==
  LET up[n \in 0..Cardinality(Articles)] ==
        IF n = 0 THEN {a} ELSE up[n - 1] \cup ({Reply[b] : b \in up[n - 1] \ {0}} \ {0})
  IN up[Cardinality(Articles)]
SubThread(arts, a) == {b \in arts : a \in Above(b)}
SubjectArts(arts, a) == {b \in arts : SubjectOf[b] = SubjectOf[a]}
RootOf(a) == CHOOSE b \in Above(a) : Reply[b] = 0
Thread(arts, a) == {b \in arts : RootOf(b) = RootOf(a)}

Meant(arts, a, c) ==
  IF c \in {"J", "+"} THEN Thread(arts, a)
  ELSE IF c \in {"K", "S"} THEN SubjectArts(arts, a)
  ELSE IF c \in {",", "."} THEN SubThread(arts, a)
  ELSE {a}
Perform(w, a, c) == ToAll(w, Meant(Here(w), a, c), c)

\* The eldest of a subject, at the head of its list.
Eldest(arts) == CHOOSE b \in arts : \A d \in arts : b <= d
FlagsOf(w, arts) == UNION {w.hash[b].cmds : b \in arts}

\* thread_article and perform_auto_flags: an article that is threaded takes up
\* the commands for its thread, its subject, and the articles it follows.
PerformAutoFlags(w, a) ==
  LET arts == Here(w)
      chain == FlagsOf(w, (Above(a) \cap arts) \cup {Eldest(SubjectArts(arts, a))})
      subject == FlagsOf(w, (Above(a) \cap SubjectArts(arts, a))
                            \cup {Eldest(SubjectArts(arts, a))})
      thread == chain \cup FlagsOf(w, {Eldest(SubjectArts(arts, b)) : b \in Thread(arts, a)})
      First(cs) ==
        SelectSeq(cs, LAMBDA c : c \in (IF c \in {"J", "+"} THEN thread
                                        ELSE IF c \in {"K", "S"} THEN subject
                                        ELSE IF c \in {",", "."} THEN chain
                                        ELSE w.hash[a].cmds))
      Take(v, cs) == IF cs = <<>> THEN v ELSE Perform(v, a, Head(cs))
  IN Take(Take(w, First(<<"+", "S", ".">>)), First(<<"J", "K", ",">>))

\* A fake that stood for the article hands its command on.
ThreadArticle(w, a) ==
  LET Real(v) == IF w.hash[a].kind = "art" /\ w.hash[a].cmds # {} THEN Noted(v) ELSE v
  IN PerformAutoFlags(Real(Known(w, a)), a)
ThreadUpTo(w, n) ==
  FoldLeft(ThreadArticle, w, [i \in 1..(n - threaded) |-> threaded + i])

-------------------------------------------------------------------------------
\* The thread file.

\* init: the lines of the file as pending ids; the last line for an id holds,
\* and lines that are too old are left out.
ReadLine(w, line) ==
  LET age == today - line.day
      Counted(v) == [v EXCEPT !.tally.lines = @ + 1,
                              !.hash[line.id] = Pending(line.cmd, age),
                              !.told[line.id] = line.cmd]
  IN IF age > MaxDays THEN Changed(w, 1)
     ELSE Counted(IF w.hash[line.id] = Unknown THEN w ELSE Changed(w, 1))

NoState == [threadChanges |-> FALSE, localChanges |-> FALSE]
NotOpen == [normal |-> FALSE, thread |-> FALSE, open |-> FALSE, first |-> FALSE]
Blank == [hash |-> [id \in Ids |-> Unknown], state |-> NoState,
          tally |-> [changed |-> 0, lines |-> 0, day |-> today],
          told |-> [id \in Ids |-> ""], outranked |-> {}, last |-> last]

\* age_thread_commands: unused commands grow older and are given up; those in
\* use are written again, with the new day.
Age(w, days) ==
  LET gone == {id \in Ids : w.hash[id].kind = "pending" /\ w.hash[id].age + days > MaxDays}
      used == {id \in Ids : w.hash[id].kind = "art" /\ w.hash[id].old}
      Aged(id) == IF id \in gone THEN Unknown
                  ELSE IF id \in used THEN [w.hash[id] EXCEPT !.old = FALSE]
                  ELSE IF w.hash[id].kind = "pending" THEN [w.hash[id] EXCEPT !.age = @ + days]
                  ELSE w.hash[id]
  IN IF days = 0 THEN w
     ELSE [Changed(w, Cardinality(gone) + Cardinality(used)) EXCEPT
             !.hash = [id \in Ids |-> Aged(id)],
             !.told = [id \in Ids |-> IF id \in gone THEN "" ELSE @[id]],
             !.state.threadChanges = @ \/ used # {},
             !.tally.day = today]

\* write_global_thread_commands, for the ids that are written.
LineFor(w, id) ==
  [id |-> id, cmd |-> Strongest(w.hash[id].cmds),
   day |-> today - (IF w.hash[id].kind = "pending" THEN w.hash[id].age ELSE 0)]
Written(w, ids) ==
  [w EXCEPT !.tally.lines = @ + Cardinality(ids),
            !.state.threadChanges = FALSE,
            !.hash = [id \in Ids |-> IF id \in ids /\ @[id].kind = "art"
                                     THEN [@[id] EXCEPT !.old = TRUE] ELSE @[id]]]
WriteLines(file, w, ids) ==
  file \o [i \in 1..Cardinality(ids) |-> LineFor(w, InOrder(ids)[i])]

\* update_thread_kill_file: rewritten when more than a fifth of it changed.
Crowded(w) == w.tally.changed * 5 > w.tally.lines
\* If it cannot be written, the old one may be gone.
Update(w, fails, removed) ==
  LET Save(v) ==
        LET all == {id \in Ids : v.hash[id].cmds # {}}
            new == {id \in all : v.hash[id].kind = "art" /\ ~v.hash[id].old}
            Emptied(u) == [u EXCEPT !.tally.lines = 0, !.tally.changed = 0]
        IN IF Crowded(v)
           THEN [w |-> Written(Emptied(v), all), file |-> WriteLines(<<>>, v, all)]
           ELSE [w |-> Written(v, new), file |-> WriteLines(threads, v, new)]
      Try(v) == IF ~v.state.threadChanges THEN [w |-> v, file |-> threads]
                ELSE IF fails
                     THEN [w |-> v, file |-> IF Crowded(v) /\ removed THEN <<>> ELSE threads]
                ELSE Save(v)
  IN IF ~shared THEN [w |-> w, file |-> threads] ELSE Try(Age(w, today - w.tally.day))
Unwritten(fails, w) == IF fails /\ w.state.threadChanges THEN {"unwritten"} ELSE {}
\* A write that may fail.
Saved(w, given) ==
  \E fails, removed \in BOOLEAN :
    \E u \in {Update(w, fails, removed)} :
      /\ Do(u.w)
      /\ threads' = u.file
      /\ lost' = lost \cup Unwritten(fails, u.w) \cup given

\* cleanup_msg_id_hash: the articles are forgotten, their commands become
\* pending again as if they had been used today.
CleanupHash(w) ==
  [w EXCEPT
    !.hash = [id \in Ids |->
               IF @[id].kind # "art" THEN @[id]
               ELSE IF shared /\ @[id].cmds # {}
                    THEN [@[id] EXCEPT !.kind = "pending", !.age = 0, !.old = FALSE]
               ELSE Unknown],
    !.told = [id \in Ids |-> IF shared THEN @[id] ELSE ""]]

-------------------------------------------------------------------------------
\* The group's KILL file.

NoFile == [exists |-> FALSE, thru |-> 0, search |-> {}, commands |-> {}]

\* write_local_thread_commands
LocalCommands(w) ==
  {[id |-> a, cmd |-> Strongest(w.hash[a].cmds)] : a \in {b \in Here(w) : w.hash[b].cmds # {}}}

\* rewrite_kill_file: outdated thread commands are left out; those of articles
\* in the group are written if no thread file has them. A file that seemed to
\* have nothing is removed.
HasContent == (local.thread /\ ~shared) \/ kill.search # {}
Rewritten(w) ==
  IF ~HasContent THEN NoFile
  ELSE [exists |-> TRUE, thru |-> last, search |-> kill.search,
        commands |-> IF shared THEN {} ELSE LocalCommands(w)]
GivenUp(w) ==
  IF ~shared /\ ~HasContent /\ LocalCommands(w) # {} THEN {"emptied"} ELSE {}
RewriteState(w) ==
  [w EXCEPT !.state.localChanges = FALSE, !.state.threadChanges = @ /\ shared]
RewrittenLocal == [local EXCEPT !.normal = FALSE, !.open = HasContent]

\* do_file: a thread command of the file. An article has the command performed; an
\* id that only others name has its flag set to it, whatever it was.
LocalCommand(w, cmd) ==
  LET Set(v) == [v EXCEPT
                   !.hash[cmd.id].cmds = {cmd.cmd}, !.hash[cmd.id].old = FALSE,
                   !.outranked = IF Rank(cmd.cmd) < Rank(Strongest(v.hash[cmd.id].cmds))
                                 THEN @ \cup {cmd.id} ELSE @]
      Give(v) == IF cmd.id \in Articles /\ cmd.id <= w.last THEN Perform(v, cmd.id, cmd.cmd)
                 ELSE Set(v)
  IN Give(Known(w, cmd.id))
LocalCommandsDone(w) == FoldLeft(LocalCommand, w, SetToSeq(kill.commands))

\* art_search in a KILL file: from THRU on, or from the first article.
SearchFirst(line, thru) == IF line \in Always THEN 1 ELSE thru + 1
Unmet(todo, lines, from, thru) ==
  {d \in todo : ~(d.line \in lines /\ d.art >= from /\ d.art >= SearchFirst(d.line, thru))}

-------------------------------------------------------------------------------
\* Starting, and the group.

Input == inputs < MaxInputs /\ inputs' = inputs + 1

Start ==
  /\ place = "stopped" /\ place' = "top"
  /\ Do(FoldLeft(ReadLine, Blank, IF shared THEN threads ELSE <<>>))
  /\ local' = NotOpen
  /\ lost' = {}
  /\ threaded' = 0
  /\ UNCHANGED <<shared, threads, kill, last, today, inputs, due>>

\* do_newsgroup up to the first article.
Entered(w) ==
  IF kill.exists THEN LocalCommandsDone([w EXCEPT !.state.localChanges = TRUE]) ELSE w
Opened ==
  IF kill.exists
  THEN [normal |-> kill.search # {}, thread |-> kill.commands # {}, open |-> TRUE,
        first |-> TRUE]
  ELSE NotOpen
EnterGroup ==
  /\ place = "top" /\ place' = "group"
  /\ Input
  /\ Do(Entered(ThreadUpTo([Work EXCEPT !.state = NoState], last)))
  /\ local' = Opened
  /\ due' = Unmet(due, kill.search, 1, kill.thru)
  /\ threaded' = last
  /\ UNCHANGED <<shared, threads, kill, last, today, lost>>

InGroup == place = "group" /\ UNCHANGED <<shared, place, today>>

\* A T: command at an article (ask_memorize), and c and C there.
Memorize ==
  /\ InGroup /\ Input
  /\ \E a \in Here(Work), c \in Letters : Do(Perform(Work, a, c))
  /\ UNCHANGED <<threads, kill, last, threaded, local, due, lost>>
Forget ==
  /\ InGroup /\ Input
  /\ \E a \in Here(Work) :
       \E arts \in {SubThread(Here(Work), a), Thread(Here(Work), a)} :
         Do(ClearAll(Work, arts))
  /\ UNCHANGED <<threads, kill, last, threaded, local, due, lost>>

\* A search with modifier K from some article on: it is run, and appended.
Deposit ==
  /\ InGroup /\ Input
  /\ \E line \in Lines \ kill.search, from \in Articles :
       /\ from <= last
       /\ kill' = [kill EXCEPT !.exists = TRUE, !.search = @ \cup {line}]
       /\ due' = Unmet(due, {line}, from, 0)
  /\ local' = [local EXCEPT !.normal = TRUE, !.open = TRUE]
  /\ UNCHANGED <<threads, hash, last, threaded, state, tally, told, outranked, lost>>

\* A plausible mistake: more news is threaded and no more.
GrowQuietly(w, n, todo) ==
  [thr |-> ThreadUpTo([w EXCEPT !.last = n], n), local |-> local, due |-> todo]
\* get_newsgroup_size: more news, for which the file is run from its first article
\* on, if it has search commands. Its thread commands are performed only when the
\* file was not run before in this visit: there was none when the group was entered.
Grow(w, n, todo) ==
  LET Run(v) ==
        IF ~local.open THEN v
        ELSE LET u == [v EXCEPT !.state.localChanges = TRUE]
             IN IF local.first THEN u ELSE LocalCommandsDone(u)
      Grown(v) ==
        IF local.normal
        THEN [thr |-> Run(v),
              local |-> [local EXCEPT !.thread = @ \/ (local.open /\ kill.commands # {}),
                                      !.first = @ \/ local.open],
              due |-> Unmet(todo, kill.search, last + 1, kill.thru)]
        ELSE [thr |-> v, local |-> local, due |-> todo]
  IN Grown(ThreadUpTo([w EXCEPT !.last = n], n))
\* Articles arrive, in the group or while the user is elsewhere.
NewsFor(n) == {[line |-> l, art |-> n] : l \in kill.search}
NewsHere ==
  /\ InGroup
  /\ last + 1 \in Articles
  /\ \E g \in {Grow(Work, last + 1, due \cup NewsFor(last + 1))} :
       /\ Do(g.thr)
       /\ local' = g.local
       /\ due' = g.due
  /\ last' = last + 1 /\ threaded' = last + 1
  /\ UNCHANGED <<threads, kill, inputs, lost>>
NewsElsewhere ==
  /\ place # "group"
  /\ last + 1 \in Articles /\ last' = last + 1
  /\ due' = due \cup NewsFor(last + 1)
  /\ UNCHANGED <<shared, threads, kill, hash, place, threaded, state, local, tally,
                 today, inputs, told, outranked, lost>>

\* Ctl-K: the file is brought up to date, edited, and its thread commands are
\* added to what the articles carry.
Edited(w, file) ==
  LET Add(v, cmd) == [v EXCEPT !.hash[cmd.id].cmds = @ \cup {cmd.cmd}]
      AddKnown(v, cmd) == Add(Known(v, cmd.id), cmd)
  IN IF ~file.exists THEN w ELSE FoldLeft(AddKnown, w, SetToSeq(file.commands))
EditedLocal(file) ==
  LET base == IF state.localChanges THEN RewrittenLocal ELSE local
  IN IF ~file.exists THEN [base EXCEPT !.open = FALSE]
     ELSE [base EXCEPT !.open = TRUE, !.normal = file.search # {}]
EditedFile(search, cmds) ==
  LET base == IF state.localChanges THEN Rewritten(Work) ELSE kill
  IN [base EXCEPT !.exists = search # {} \/ cmds # {} \/ base.exists,
                  !.search = search, !.commands = cmds]
Edit ==
  /\ InGroup /\ Input
  /\ \E search \in SUBSET Lines, cmds \in {{}} \cup
                    {{[id |-> id, cmd |-> c]} : id \in Articles \cup Fakes, c \in Letters} :
       LET Clean(v) == IF shared THEN v ELSE ClearAll(v, Here(v))
       IN /\ Do(Edited(Clean(IF state.localChanges THEN RewriteState(Work) ELSE Work),
                       EditedFile(search, cmds)))
          /\ local' = EditedLocal(EditedFile(search, cmds))
          /\ kill' = EditedFile(search, cmds)
          /\ due' = {d \in due : d.line \in search}
  /\ lost' = lost \cup IF state.localChanges THEN GivenUp(Work) ELSE {}
  /\ UNCHANGED <<threads, last, threaded>>

\* The pager's checkpoint.
Checkpoint ==
  /\ InGroup
  /\ Saved(Work, {})
  /\ UNCHANGED <<kill, last, threaded, local, inputs, due>>

\* Leaving the group: kill_unwanted, and the thread file after the newsrcs.
Leave ==
  /\ place = "group" /\ place' = "top"
  /\ \E w \in {IF state.localChanges THEN RewriteState(Work) ELSE Work} :
       Saved(w, IF state.localChanges THEN GivenUp(Work) ELSE {})
  /\ kill' = IF state.localChanges THEN Rewritten(Work) ELSE kill
  /\ local' = [IF state.localChanges THEN RewrittenLocal ELSE local EXCEPT !.open = FALSE]
  /\ UNCHANGED <<shared, last, threaded, today, inputs, due>>

\* Another group is visited: thread_close for this one. The flags of the state
\* are the other group's by then.
VisitOther ==
  /\ place = "top" /\ Input
  /\ \E fails, removed \in BOOLEAN :
       \E u \in {Update([Work EXCEPT !.state = NoState], fails, removed)} :
         /\ Do(CleanupHash(u.w))
         /\ threads' = u.file
         /\ lost' = lost \cup Unwritten(fails, u.w)
  /\ local' = NotOpen
  /\ threaded' = 0
  /\ UNCHANGED <<shared, kill, last, place, today, due>>

\* finalize, from wherever it is called.
Quit ==
  /\ place # "stopped" /\ place' = "stopped"
  /\ Saved(Work, {})
  /\ UNCHANGED <<shared, kill, last, threaded, local, today, inputs, due>>
Crash ==
  /\ place # "stopped" /\ place' = "stopped"
  /\ Input
  /\ UNCHANGED <<shared, threads, kill, hash, last, threaded, state, local, tally,
                 today, told, outranked, due, lost>>

NextDay ==
  /\ Input
  /\ today' = today + 1
  /\ UNCHANGED <<shared, threads, kill, hash, last, place, threaded, state, local,
                 tally, told, outranked, due, lost>>

\* The files of a first visit; or the group's has a command from before there was a
\* thread file, for an id that has a stronger one in that by now (which took inputs).
LinesFor(ids, c) ==
  [i \in 1..Cardinality(ids) |-> [id |-> InOrder(ids)[i], cmd |-> c, day |-> 0]]
Init ==
  /\ shared \in BOOLEAN
  /\ \/ /\ threads = LinesFor(Foreign, "m")
        /\ kill \in {NoFile, [NoFile EXCEPT !.exists = TRUE, !.search = Lines]}
        /\ inputs = 0
     \/ /\ shared
        /\ threads = LinesFor(Foreign, "m") \o LinesFor(Fakes, "J")
        /\ kill = [NoFile EXCEPT !.exists = TRUE,
                                 !.commands = {[id |-> id, cmd |-> "m"] : id \in Fakes}]
        /\ inputs = 1
  /\ last = Posted /\ place = "stopped" /\ threaded = 0
  /\ today = 0
  /\ hash = Blank.hash /\ state = NoState /\ local = NotOpen
  /\ tally = Blank.tally /\ told = Blank.told /\ outranked = {}
  /\ due = {[line |-> l, art |-> a] : l \in kill.search, a \in 1..Posted}
  /\ lost = {}

Next ==
  \/ Start \/ EnterGroup \/ Memorize \/ Forget \/ Deposit \/ NewsHere \/ NewsElsewhere
  \/ Edit \/ Checkpoint \/ Leave \/ VisitOther \/ Quit \/ Crash \/ NextDay

Spec == Init /\ [][Next]_vars

-------------------------------------------------------------------------------
(***************************************************************************)
(* Properties.                                                             *)
(***************************************************************************)
\* What the thread file has for an id: its last line.
Says(id) ==
  LET of == {i \in DOMAIN threads : threads[i].id = id}
  IN IF of = {} THEN "" ELSE threads[CHOOSE i \in of : \A j \in of : j <= i].cmd

\* Each search command meets each article that arrives once it is in the KILL
\* file: the file's THRU, from which the next visit searches, does not pass an
\* article that was not searched, whatever arrives, is appended, edited and
\* rewritten in between.
ThruWaits ==
  \A d \in due : d.line \in kill.search \ Always => d.art > kill.thru

\* While trn runs, and unless a write failed, a command that the thread file
\* does not have is one that the flag for unsaved changes tells of. The file
\* may have a stronger one. Exempt are the ids in outranked: for an id that only
\* others name, do_file assigns the flag of the group's KILL file (kfile.cpp:350-361)
\* where an article would keep a stronger command, and drops the mark that it is
\* saved, so that the weaker one follows it into the thread file.
UnsavedIsFlagged ==
  shared /\ place # "stopped" /\ lost = {} /\ ~state.threadChanges =>
    \A id \in Ids \ outranked : Rank(Says(id)) >= Rank(told[id])

Kept == \A a \in Articles : told[a] # "" =>
          \E c \in kill.commands : c.id = a /\ Rank(c.cmd) >= Rank(told[a])
\* Without a thread file, once the group is left its KILL file has the commands
\* for its articles, unless it had nothing when the file was last rewritten.
GroupFileKeeps ==
  ~shared /\ place = "top" /\ lost = {} => Kept

\* What was memorized is in a file, or is known to be unsaved.
MemorizedIsSafe == UnsavedIsFlagged /\ GroupFileKeeps
================================================================================
