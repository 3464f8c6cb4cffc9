----------------------------- MODULE KillFilesProofs ---------------------------
(***************************************************************************)
(* Proof that THRU never passes an article that a search command of the    *)
(* group's KILL file has yet to meet (ThruWaits of module KillFiles).      *)
(*                                                                         *)
(* ThruWaits is not inductive: rewrite_kill_file sets THRU to the last     *)
(* article, whatever has been searched. It may, because while the group is *)
(* read nothing is due: the visit began with a search from THRU on, a new  *)
(* command is run when it is appended, and arrivals are searched as they   *)
(* come, if the flag for search commands is set when there are any.        *)
(***************************************************************************)
EXTENDS KillFiles, TLAPS

\* The shapes of the state that the argument is about.
KillShape ==
  kill = [exists |-> kill.exists, thru |-> kill.thru, search |-> kill.search,
          commands |-> kill.commands]
TypeInv ==
  /\ last \in Articles
  /\ kill.thru \in Nat
  /\ KillShape
  /\ local \in [normal : BOOLEAN, thread : BOOLEAN, open : BOOLEAN, first : BOOLEAN]

\* What is due is due for a command of the file, of an article of the group.
DueInv == \A d \in due : d.line \in kill.search /\ d.art \in Articles

\* THRU is an article that has arrived, and a file with commands exists.
FileInv ==
  /\ kill.thru <= last
  /\ kill.search # {} => kill.exists = TRUE

\* While the group is read no article is due, and the flag for search commands
\* (KFS_NORMAL_LINES) is set when there are some.
GroupInv ==
  place = "group" => due = {} /\ (kill.search # {} => local.normal)

TInv == TypeInv /\ DueInv /\ FileInv /\ ThruWaits /\ GroupInv

-------------------------------------------------------------------------------
(***************************************************************************)
(* Searching, and what is due.                                             *)
(***************************************************************************)
\* A search meets some of what is due and adds nothing to it.
LEMMA UnmetIsDue ==
  ASSUME NEW todo, NEW cmds, NEW from, NEW thru
  PROVE  Unmet(todo, cmds, from, thru) \subseteq todo
BY DEF Unmet

\* A visit searches every article that is due: those that THRU passed are due
\* only for commands that ignore it.
LEMMA VisitMeetsAll ==
  ASSUME TypeInv, DueInv, ThruWaits
  PROVE  Unmet(due, kill.search, 1, kill.thru) = {}
<1> SUFFICES ASSUME NEW d \in due
             PROVE  /\ d.line \in kill.search
                    /\ d.art >= 1
                    /\ d.art >= SearchFirst(d.line, kill.thru)
  BY DEF Unmet
<1>1. d.line \in kill.search /\ d.art \in Nat \ {0}
  BY ArticlesAssumption DEF DueInv
<1>2. d.art >= SearchFirst(d.line, kill.thru)
  <2>1. CASE d.line \in Always
    BY <1>1, <2>1 DEF SearchFirst
  <2>2. CASE d.line \notin Always
    <3>1. d.art > kill.thru
      BY <1>1, <2>2 DEF ThruWaits
    <3>2. SearchFirst(d.line, kill.thru) = kill.thru + 1
      BY <2>2 DEF SearchFirst
    <3> QED BY <1>1, <3>1, <3>2 DEF TypeInv
  <2> QED BY <2>1, <2>2
<1> QED BY <1>1, <1>2

\* An arrival is searched by every command of the file, if its first article is
\* beyond THRU.
LEMMA ArrivalIsMet ==
  ASSUME TypeInv, FileInv, last + 1 \in Articles
  PROVE  Unmet(NewsFor(last + 1), kill.search, last + 1, kill.thru) = {}
<1> SUFFICES ASSUME NEW line \in kill.search
             PROVE  /\ last + 1 >= last + 1
                    /\ last + 1 >= SearchFirst(line, kill.thru)
  BY DEF Unmet, NewsFor
<1>1. last \in Nat /\ kill.thru \in Nat /\ kill.thru <= last
  BY ArticlesAssumption DEF TypeInv, FileInv
<1> QED BY <1>1 DEF SearchFirst

\* What is due stays what ThruWaits says as long as THRU and the commands stay.
LEMMA LessIsDue ==
  ASSUME DueInv, ThruWaits, due' \subseteq due, kill' = kill
  PROVE  DueInv' /\ ThruWaits'
BY DEF DueInv, ThruWaits

-------------------------------------------------------------------------------
(***************************************************************************)
(* Each action preserves the invariant.                                    *)
(***************************************************************************)
\* Initially the file has no THRU line: everything is still to be searched.
LEMMA InitEstablishes == Init => TInv
<1> SUFFICES ASSUME Init PROVE TInv
  OBVIOUS
<1>1. kill.thru = 0 /\ KillShape /\ (kill.search # {} => kill.exists = TRUE)
  <2>1. NoFile = [exists |-> FALSE, thru |-> 0, search |-> {}, commands |-> {}]
    BY DEF NoFile
  <2>2. CASE kill = NoFile
    BY <2>1, <2>2 DEF KillShape
  <2>3. CASE kill = [NoFile EXCEPT !.exists = TRUE, !.search = Lines]
    <3>1. kill = [exists |-> TRUE, thru |-> 0, search |-> Lines, commands |-> {}]
      BY <2>1, <2>3
    <3> QED BY <3>1 DEF KillShape
  <2>4. CASE \E cmds : kill = [NoFile EXCEPT !.exists = TRUE, !.commands = cmds]
    <3>1. PICK cmds : kill = [NoFile EXCEPT !.exists = TRUE, !.commands = cmds]
      BY <2>4
    <3>2. kill = [exists |-> TRUE, thru |-> 0, search |-> {}, commands |-> cmds]
      BY <2>1, <3>1
    <3> QED BY <3>2 DEF KillShape
  <2> QED BY <2>2, <2>3, <2>4 DEF Init
<1>2. last \in Nat \ {0} /\ TypeInv
  BY <1>1, ArticlesAssumption DEF Init, TypeInv, NotOpen
<1>3. FileInv
  BY <1>1, <1>2 DEF FileInv
<1>4. \A d \in due : d.line \in kill.search /\ d.art \in 1..Posted
  BY DEF Init
<1>5. DueInv
  BY <1>4, ArticlesAssumption DEF DueInv
<1>6. ThruWaits
  BY <1>1, <1>4, ArticlesAssumption DEF ThruWaits
<1>7. GroupInv
  BY DEF Init, GroupInv
<1> QED BY <1>2, <1>3, <1>5, <1>6, <1>7 DEF TInv

\* Starting reads the thread file, and nothing of the group's.
LEMMA StartKeeps == TInv /\ Start => TInv'
BY DEF TInv, Start, TypeInv, KillShape, DueInv, FileInv, ThruWaits, GroupInv, NotOpen

\* A visit meets everything that is due, and notes that the file has commands.
LEMMA EnterGroupKeeps == TInv /\ EnterGroup => TInv'
<1> SUFFICES ASSUME TInv, EnterGroup PROVE TInv'
  OBVIOUS
<1>1. kill' = kill /\ last' = last /\ place' = "group" /\ local' = Opened
  BY DEF EnterGroup
<1>2. due' = {}
  BY VisitMeetsAll DEF TInv, EnterGroup
<1>3. TypeInv'
  BY <1>1 DEF TInv, TypeInv, KillShape, Opened, NotOpen
<1>4. FileInv'
  BY <1>1 DEF TInv, FileInv
<1>5. kill.search # {} => Opened.normal
  BY DEF TInv, FileInv, Opened
<1> QED BY <1>1, <1>2, <1>3, <1>4, <1>5 DEF TInv, DueInv, ThruWaits, GroupInv

\* Commands on articles leave the search commands alone.
LEMMA CommandsKeep == TInv /\ (Memorize \/ Forget \/ Checkpoint) => TInv'
BY DEF TInv, Memorize, Forget, Checkpoint, InGroup, TypeInv, KillShape, DueInv, FileInv,
       ThruWaits, GroupInv

\* A search that is appended has been run.
LEMMA DepositKeeps == TInv /\ Deposit => TInv'
<1> SUFFICES ASSUME TInv, Deposit PROVE TInv'
  OBVIOUS
<1>1. PICK line \in Lines \ kill.search, from \in Articles :
        /\ kill' = [kill EXCEPT !.exists = TRUE, !.search = @ \cup {line}]
        /\ due' = Unmet(due, {line}, from, 0)
  BY DEF Deposit
<1>2. last' = last /\ place = "group" /\ place' = place
      /\ local' = [local EXCEPT !.normal = TRUE, !.open = TRUE]
  BY DEF Deposit, InGroup
<1>3. kill'.thru = kill.thru /\ kill'.exists = TRUE /\ KillShape'
  BY <1>1 DEF TInv, TypeInv, KillShape
<1>4. due' = {}
  BY <1>1, <1>2, UnmetIsDue DEF TInv, GroupInv
<1>5. TypeInv' /\ local'.normal = TRUE
  BY <1>2, <1>3 DEF TInv, TypeInv
<1> QED BY <1>2, <1>3, <1>4, <1>5 DEF TInv, DueInv, FileInv, ThruWaits, GroupInv

\* News that arrives in the group is searched at once.
LEMMA NewsHereKeeps == TInv /\ NewsHere => TInv'
<1> SUFFICES ASSUME TInv, NewsHere PROVE TInv'
  OBVIOUS
<1> DEFINE todo == due \cup NewsFor(last + 1)
           g == Grow(Work, last + 1, todo)
<1>1. /\ kill' = kill /\ place = "group" /\ place' = place
      /\ last + 1 \in Articles /\ last' = last + 1
      /\ local' = g.local /\ due' = g.due
  BY DEF NewsHere, InGroup
<1>2. todo = NewsFor(last + 1)
  BY <1>1 DEF TInv, GroupInv
<1>3. due' = {}
  <2>1. CASE local.normal
    <3>1. g.due = Unmet(todo, kill.search, last + 1, kill.thru)
      BY <2>1 DEF Grow
    <3> QED BY <1>1, <1>2, <3>1, ArrivalIsMet DEF TInv
  <2>2. CASE ~local.normal
    <3>1. kill.search = {}
      BY <1>1, <2>2 DEF TInv, GroupInv
    <3>2. g.due = todo
      BY <2>2 DEF Grow
    <3> QED BY <1>1, <1>2, <3>1, <3>2 DEF NewsFor
  <2> QED BY <2>1, <2>2
<1>4. local'.normal = local.normal
      /\ local' \in [normal : BOOLEAN, thread : BOOLEAN, open : BOOLEAN, first : BOOLEAN]
  <2>1. CASE local.normal
    BY <1>1, <2>1 DEF Grow, TInv, TypeInv
  <2>2. CASE ~local.normal
    BY <1>1, <2>2 DEF Grow, TInv, TypeInv
  <2> QED BY <2>1, <2>2
<1>5. TypeInv'
  BY <1>1, <1>4 DEF TInv, TypeInv, KillShape
<1>6. FileInv'
  BY <1>1, ArticlesAssumption DEF TInv, TypeInv, FileInv
<1> QED BY <1>1, <1>3, <1>4, <1>5, <1>6 DEF TInv, DueInv, ThruWaits, GroupInv

\* News that arrives elsewhere is beyond THRU.
LEMMA NewsElsewhereKeeps == TInv /\ NewsElsewhere => TInv'
<1> SUFFICES ASSUME TInv, NewsElsewhere PROVE TInv'
  OBVIOUS
<1>1. /\ kill' = kill /\ local' = local /\ place # "group" /\ place' = place
      /\ last + 1 \in Articles /\ last' = last + 1
      /\ due' = due \cup NewsFor(last + 1)
  BY DEF NewsElsewhere
<1>2. \A d \in NewsFor(last + 1) : d.line \in kill.search /\ d.art = last + 1
  BY DEF NewsFor
<1>3. last \in Nat /\ kill.thru < last + 1 /\ kill.thru <= last + 1
  BY ArticlesAssumption DEF TInv, TypeInv, FileInv
<1>4. TypeInv' /\ FileInv'
  BY <1>1, <1>3 DEF TInv, TypeInv, KillShape, FileInv
<1>5. DueInv'
  BY <1>1, <1>2 DEF TInv, DueInv
<1>6. ThruWaits'
  BY <1>1, <1>2, <1>3 DEF TInv, TypeInv, ThruWaits
<1> QED BY <1>1, <1>4, <1>5, <1>6 DEF TInv, GroupInv

\* rewrite_kill_file in the group, where nothing is due: THRU becomes the last
\* article, or there is no file, and then there were no commands.
LEMMA RewriteIsRight ==
  ASSUME TypeInv, FileInv
  PROVE  /\ Rewritten(Work).thru \in Nat
         /\ Rewritten(Work).thru <= last
         /\ Rewritten(Work).search = kill.search
         /\ Rewritten(Work).search # {} => Rewritten(Work).exists = TRUE
         /\ Rewritten(Work) =
              [exists |-> Rewritten(Work).exists, thru |-> Rewritten(Work).thru,
               search |-> Rewritten(Work).search, commands |-> Rewritten(Work).commands]
<1>1. last \in Nat
  BY ArticlesAssumption DEF TypeInv
<1>2. CASE HasContent
  <2> DEFINE cmds == IF shared THEN {} ELSE LocalCommands(Work)
  <2>1. Rewritten(Work) =
          [exists |-> TRUE, thru |-> last, search |-> kill.search, commands |-> cmds]
    BY <1>2 DEF Rewritten
  <2> HIDE DEF cmds
  <2> QED BY <1>1, <2>1
<1>3. CASE ~HasContent
  <2>1. Rewritten(Work) =
          [exists |-> FALSE, thru |-> 0, search |-> {}, commands |-> {}]
    BY <1>3 DEF Rewritten, NoFile
  <2>2. kill.search = {}
    BY <1>3 DEF HasContent
  <2> QED BY <1>1, <2>1, <2>2
<1> QED BY <1>2, <1>3

\* The user edits the file: nothing is due while the group is read, and the
\* flag is set again if the file has search commands then.
LEMMA EditKeeps == TInv /\ Edit => TInv'
<1> SUFFICES ASSUME TInv, Edit PROVE TInv'
  OBVIOUS
<1> DEFINE base == IF state.localChanges THEN Rewritten(Work) ELSE kill
           was == IF state.localChanges THEN RewrittenLocal ELSE local
<1>1. PICK search, cmds :
        /\ local' = EditedLocal(EditedFile(search, cmds))
        /\ kill' = EditedFile(search, cmds)
        /\ due' = {d \in due : d.line \in search}
  BY DEF Edit
<1>2. last' = last /\ place = "group" /\ place' = place
  BY DEF Edit, InGroup
<1>3. due' = {}
  BY <1>1, <1>2 DEF TInv, GroupInv
<1>4. /\ base.thru \in Nat /\ base.thru <= last
      /\ base = [exists |-> base.exists, thru |-> base.thru, search |-> base.search,
                 commands |-> base.commands]
  BY RewriteIsRight DEF TInv, TypeInv, FileInv, KillShape
<1>5. was \in [normal : BOOLEAN, thread : BOOLEAN, open : BOOLEAN, first : BOOLEAN]
  BY DEF TInv, TypeInv, RewrittenLocal, HasContent
<1> DEFINE exists == search # {} \/ cmds # {} \/ base.exists
<1>6. kill' = [base EXCEPT !.exists = exists, !.search = search, !.commands = cmds]
  BY <1>1 DEF EditedFile
<1>7. local' = IF ~kill'.exists THEN [was EXCEPT !.open = FALSE]
               ELSE [was EXCEPT !.open = TRUE, !.normal = kill'.search # {}]
  BY <1>1 DEF EditedLocal
<1> HIDE DEF base, was
<1>8. kill' = [exists |-> exists, thru |-> base.thru, search |-> search,
               commands |-> cmds]
  BY <1>4, <1>6
<1>9. local' \in [normal : BOOLEAN, thread : BOOLEAN, open : BOOLEAN, first : BOOLEAN]
  BY <1>5, <1>7
<1>10. kill'.search # {} => kill'.exists /\ local'.normal
  BY <1>5, <1>7, <1>8
<1>11. kill'.search # {} => kill'.exists = TRUE
  BY <1>8
<1>12. TypeInv' /\ FileInv'
  BY <1>2, <1>4, <1>8, <1>9, <1>11 DEF TInv, TypeInv, KillShape, FileInv
<1> QED BY <1>2, <1>3, <1>10, <1>12 DEF TInv, DueInv, ThruWaits, GroupInv

\* Leaving the group rewrites its file with nothing due.
LEMMA LeaveKeeps == TInv /\ Leave => TInv'
<1> SUFFICES ASSUME TInv, Leave PROVE TInv'
  OBVIOUS
<1>1. /\ place = "group" /\ place' = "top" /\ last' = last /\ due' = due
      /\ kill' = IF state.localChanges THEN Rewritten(Work) ELSE kill
      /\ local' = [IF state.localChanges THEN RewrittenLocal ELSE local
                     EXCEPT !.open = FALSE]
  BY DEF Leave
<1>2. due' = {}
  BY <1>1 DEF TInv, GroupInv
<1>3. /\ kill'.thru \in Nat /\ kill'.thru <= last
      /\ kill'.search # {} => kill'.exists = TRUE
      /\ KillShape'
  BY <1>1, RewriteIsRight DEF TInv, TypeInv, FileInv, KillShape
<1>4. local' \in [normal : BOOLEAN, thread : BOOLEAN, open : BOOLEAN, first : BOOLEAN]
  BY <1>1 DEF TInv, TypeInv, RewrittenLocal, HasContent
<1>5. TypeInv' /\ FileInv'
  BY <1>1, <1>3, <1>4 DEF TInv, TypeInv, FileInv
<1> QED BY <1>1, <1>2, <1>5 DEF TInv, DueInv, ThruWaits, GroupInv

\* The rest leaves the KILL file and what is due.
LEMMA OthersKeep ==
  TInv /\ (VisitOther \/ Quit \/ Crash \/ NextDay \/ UNCHANGED vars) => TInv'
<1> SUFFICES ASSUME TInv, VisitOther \/ Quit \/ Crash \/ NextDay \/ UNCHANGED vars
             PROVE  TInv'
  OBVIOUS
<1>1. /\ kill' = kill /\ last' = last /\ due' = due
      /\ local' \in {local, NotOpen}
      /\ place' = "group" => place = "group" /\ local' = local
  <2>1. CASE VisitOther
    BY <2>1 DEF VisitOther
  <2>2. CASE Quit
    BY <2>2 DEF Quit
  <2>3. CASE Crash \/ NextDay \/ UNCHANGED vars
    BY <2>3 DEF Crash, NextDay, vars
  <2> QED BY <2>1, <2>2, <2>3
<1>2. TypeInv' /\ FileInv'
  <2>1. local' \in [normal : BOOLEAN, thread : BOOLEAN, open : BOOLEAN, first : BOOLEAN]
    <3>1. NotOpen \in [normal : BOOLEAN, thread : BOOLEAN, open : BOOLEAN, first : BOOLEAN]
      BY DEF NotOpen
    <3> QED BY <1>1, <3>1 DEF TInv, TypeInv
  <2> QED BY <1>1, <2>1 DEF TInv, TypeInv, KillShape, FileInv
<1>3. DueInv' /\ ThruWaits'
  BY <1>1, LessIsDue DEF TInv
<1>4. GroupInv'
  BY <1>1 DEF TInv, GroupInv
<1> QED BY <1>2, <1>3, <1>4 DEF TInv

LEMMA NextKeeps == TInv /\ [Next]_vars => TInv'
BY StartKeeps, EnterGroupKeeps, CommandsKeep, DepositKeeps, NewsHereKeeps,
   NewsElsewhereKeeps, EditKeeps, LeaveKeeps, OthersKeep DEF Next

\* THRU waits for the search commands (kill_unwanted, get_newsgroup_size,
\* append, edit_kill_file, rewrite_kill_file): whatever arrives, is appended,
\* edited and rewritten in between, and wherever trn stops, THRU never passes an
\* article that a command of the file which heeds it has yet to be run over.
THEOREM ThruKeepsWaiting == Spec => []ThruWaits
<1>1. TInv => ThruWaits
  BY DEF TInv
<1> QED BY InitEstablishes, NextKeeps, <1>1, PTL DEF Spec

\* While the group is read no command of its KILL file has an article to meet:
\* what kill_unwanted, append and grow_newsgroup search is all that is due.
THEOREM NothingIsDueInTheGroup == Spec => [](place = "group" => due = {})
<1>1. TInv => (place = "group" => due = {})
  BY DEF TInv, GroupInv
<1> QED BY InitEstablishes, NextKeeps, <1>1, PTL DEF Spec
================================================================================
