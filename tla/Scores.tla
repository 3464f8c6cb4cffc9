-------------------------------- MODULE Scores ----------------------------------
(***************************************************************************)
(* The scores of a group's articles (libtrn/score.cpp): computed from the  *)
(* rules of score files (scorefile.cpp), a few at a time while the user is *)
(* thinking, and saved between visits in compressed lines (scoresave.cpp). *)
(*                                                                         *)
(* A line of a score file is a record: a "rule" for the header h that      *)
(* matches the articles m and adds s, an "include" or "exclude" of the     *)
(* file f, a "header" h to be known, a "killthreshold", "newauthor" or     *)
(* "reply" with s, "savescores" with s = 1 for on. A score file includes   *)
(* no file that includes it. A saved line is a sequence of tokens: "v"     *)
(* with a score, "r" to repeat it n times and "s" to skip n articles.      *)
(***************************************************************************)
EXTENDS Integers, Sequences, FiniteSets, SequencesExt, FiniteSetsExt

CONSTANTS
  Articles,    \* [gone, replies, has]: the numbers without an article, the articles that
               \* are replies, and for each header those that have it
  FileOrder,   \* the score files that are read for the group, most general first
  Texts,       \* what the score files hold at first: file -> lines, those that exist
  MoreLines,   \* the lines that the user may add
  Thresholds,  \* the scores that he may kill by
  LineLength,  \* the tokens after which a saved line ends
  First, MaxLast, \* bounds on the numbers of articles: at first, and after arrivals
  MaxInputs    \* bound on the user's actions

ASSUME ScoresAssumption ==
  First \in Nat \ {0} /\ MaxLast >= First /\ LineLength \in Nat \ {0}
  /\ \A A \in Articles : A.gone \subseteq 2..(First - 1)

VARIABLES
  group,      \* the group's articles
  exists, unread, lastArt, firstArt,   \* firstArt is the first that was unread
  entries,    \* the numbers in the cache
  held,       \* the group is the one that is in the cache
  score,      \* article -> score, of the articles that are SFLAG_SCORED
  author,     \* the articles that are SFLAG_AUTHOR: a rule knew the author
  files, fileCache,    \* the score files, and what is remembered of them
  rules, applied,      \* g_score_rules: the entries and the ones that are marked as done
  known,      \* the headers that score files made known
  bonus,      \* the threshold and the scores of new authors and replies, {} without one
  fillMax, fillRead, readElig, keep,   \* keep is save_scores
  mem, disk,  \* the saved scores in memory and in the file: <<>> or <<one>>
  in,         \* is the user in the group?
  inputs,
  given,      \* history: article -> the scores that the rules ever gave it
  late,       \* history: the articles that became unread after they were passed over,
              \* and the first one when read articles are scored too: it is left out
  spanned     \* history: scores were saved as one run over a missing number

groupVars == <<group, exists, unread, lastArt, firstArt, entries, held>>
ruleVars == <<files, fileCache, rules, applied, known, bonus>>
scoresVars == <<groupVars, score, author, ruleVars, fillMax, fillRead, readElig, keep, mem, disk,
                in, inputs, given, late, spanned>>

-------------------------------------------------------------------------------
\* The score files.

NoBonus == [threshold |-> {}, newauthor |-> {}, reply |-> {}]
\* open_file: what is known of the file f, which is remembered.
Opened(c, f) ==
  IF f \in DOMAIN c.cache THEN c
  ELSE [c EXCEPT !.cache = (f :> IF f \in DOMAIN files THEN <<files[f]>> ELSE <<>>) @@ @]
Mark(k, f) == [k |-> k, f |-> f, h |-> "", m |-> {}, s |-> 0]
\* exclude_file: the first block of the file goes.
Excluded(es, f) ==
  LET starts == {i \in DOMAIN es : es[i].k = "start" /\ es[i].f = f}
      ends == {j \in DOMAIN es : es[j].k = "end" /\ es[j].f = f /\ starts # {} /\ j > Min(starts)}
  IN IF ends = {} THEN es
     ELSE SubSeq(es, 1, Min(starts) - 1) \o SubSeq(es, Min(ends) + 1, Len(es))

RECURSIVE DoFile(_, _)
\* do_line and do_command: c is the compiler's state.
DoLine(c, l) ==
  CASE l.k = "rule" /\ l.h \notin {"from", "subject"} \cup c.known -> c
    [] l.k = "include" -> DoFile(c, l.f)
    [] l.k = "exclude" -> [c EXCEPT !.es = Excluded(@, l.f)]
    [] l.k = "header" -> [c EXCEPT !.known = @ \cup {l.h}]
    [] l.k = "savescores" -> [c EXCEPT !.keep = l.s = 1]
    [] OTHER -> [c EXCEPT !.es = Append(@, l)]
DoFile(c, f) ==
  LET o == Opened(c, f)
      marked == [o EXCEPT !.es = Append(@, Mark("start", f))]
      read == FoldLeft(DoLine, marked, o.cache[f][1])
  IN IF o.cache[f] = <<>> THEN o ELSE [read EXCEPT !.es = Append(@, Mark("end", f))]
\* What do_line says of a line that is only checked.
Accepted(l) == l.k # "rule" \/ l.h \in {"from", "subject"} \cup known

\* sf_init: the most specific of the settings counts.
LastOf(es, k) ==
  LET is == {i \in DOMAIN es : es[i].k = k} IN IF is = {} THEN {} ELSE {es[Max(is)].s}
SfInit(remembered) ==
  LET c == FoldLeft(DoFile, [es |-> <<>>, known |-> {}, cache |-> remembered, keep |-> TRUE],
                    FileOrder)
  IN [es |-> c.es, cache |-> c.cache, keep |-> c.keep, known |-> c.known,
      bonus |-> [k \in DOMAIN NoBonus |->
                   LastOf(c.es, IF k = "threshold" THEN "killthreshold" ELSE k)]]

-------------------------------------------------------------------------------
\* Scoring an article. w holds what scoring changes; w.rules and w.bonus are in force.

\* sf_score: for each header the rules are tried together when the first is met, and
\* marked so that they are left out when their turn comes.
RuleScore(w, a) ==
  LET Apply(acc, i) ==
        LET e == w.rules[i]
            same == {j \in i..Len(w.rules) : w.rules[j].k = "rule" /\ w.rules[j].h = e.h}
            hits == {j \in same : a \in w.rules[j].m}
        IN IF e.k # "rule" THEN acc
           ELSE IF i \in acc.done THEN [acc EXCEPT !.done = @ \ {i}]
           ELSE IF a \notin group.has[e.h] THEN acc
           ELSE [sum |-> acc.sum + MapThenSumSet(LAMBDA j : w.rules[j].s, hits),
                 done |-> acc.done \cup (same \ {i}),
                 known |-> acc.known \/ (e.h = "from" /\ hits # {})]
  IN FoldLeft(Apply, [sum |-> 0, done |-> w.applied, known |-> a \in w.author],
              [i \in DOMAIN w.rules |-> i])
\* What the rules say of an article, by themselves.
Meant(w, a, knownAuthor) ==
  MapThenSumSet(LAMBDA i : w.rules[i].s,
                {i \in DOMAIN w.rules : w.rules[i].k = "rule" /\ a \in w.rules[i].m})
  + SumSet(IF knownAuthor THEN {} ELSE w.bonus.newauthor)
  + SumSet(IF a \in group.replies THEN w.bonus.reply ELSE {})

Now == [rules |-> rules, bonus |-> bonus, applied |-> applied, score |-> score,
        unread |-> unread, author |-> author, given |-> given]
\* set_score: the threshold marks articles as read.
SetScore(w, a, s) ==
  [w EXCEPT !.score = (a :> s) @@ @,
            !.unread = IF \E t \in w.bonus.threshold : s <= t THEN @ \ {a} ELSE @]
\* score_art_basic, of an available article
ScoreBasic(w, a) ==
  LET r == RuleScore(w, a)
      s == r.sum + SumSet(IF r.known THEN {} ELSE w.bonus.newauthor)
                 + SumSet(IF a \in group.replies THEN w.bonus.reply ELSE {})
  IN [SetScore(w, a, s) EXCEPT !.applied = r.done,
        !.author = IF r.known THEN @ \cup {a} ELSE @,
        !.given[a] = @ \cup {Meant(w, a, r.known)}]
\* score_art
ScoreArt(w, a) == IF a \in DOMAIN w.score THEN w ELSE ScoreBasic(w, a)
ScoreAll(w, as) == FoldLeft(ScoreArt, w, SetToSortSeq(as, <))

Scored(w) ==
  /\ score' = w.score /\ unread' = w.unread /\ author' = w.author
  /\ applied' = w.applied /\ given' = w.given

-------------------------------------------------------------------------------
\* The cache of article numbers.

NextEntry(a) == Min({b \in entries : b > a} \cup {lastArt + 1})
FirstEntry(a) == NextEntry(a - 1)

\* make_line until it has reached the last article. A run of one score is counted in
\* articles that are in the cache.
\* A plausible mistake: what was left out before an article is forgotten.
SkipUncounted(last, a) == <<>>
Skip(last, a) == IF last = a - 1 THEN <<>> ELSE <<[k |-> "s", n |-> a - last - 1]>>
Saved ==
  LET Arts == SetToSortSeq({a \in entries : a >= firstArt}, <)
      Kept(i) == Arts[i] \in unread /\ Arts[i] \in DOMAIN score
      RunEnd(i) == Max({j \in i..Len(Arts) : \A h \in i..j : Kept(h) /\ score[Arts[h]] = score[Arts[i]]})
      Begin(z) == IF Len(z.line) < LineLength THEN z
                  ELSE [z EXCEPT !.lines = Append(@, z.line), !.line = <<>>]
      Put(z0, i) ==
        LET z == Begin(z0)
            skip == Skip(z.last, Arts[i])
            repeats == z.line # <<>> /\ z.prior = {score[Arts[i]]}
            j == IF repeats THEN RunEnd(i) ELSE i
        IN IF i <= z.done \/ ~Kept(i) THEN z
           ELSE [z EXCEPT !.done = j, !.last = Arts[j], !.prior = {score[Arts[i]]},
                   !.line = @ \o skip \o <<IF repeats THEN [k |-> "r", n |-> j - i + 1]
                                            ELSE [k |-> "v", n |-> score[Arts[i]]]>>,
                   !.spanned = @ \/ Arts[j] - Arts[i] # j - i]
      z == FoldLeft(Put, [lines |-> <<>>, line |-> <<>>, last |-> firstArt - 1, prior |-> {},
                          done |-> 0, spanned |-> FALSE], [i \in DOMAIN Arts |-> i])
  IN [start |-> firstArt, spanned |-> z.spanned,
      lines |-> IF z.line = <<>> THEN z.lines ELSE Append(z.lines, z.line)]
\* use_line: the articles and scores that the tokens stand for.
Uses(z, t) ==
  CASE t.k = "s" -> [z EXCEPT !.a = @ + t.n]
    [] t.k = "v" -> [z EXCEPT !.a = @ + 1, !.s = t.n, !.got = @ \cup {<<z.a, t.n>>}]
    [] OTHER -> [z EXCEPT !.a = @ + t.n, !.got = @ \cup {<<b, z.s>> : b \in z.a..(z.a + t.n - 1)}]
Loaded(rec) ==
  FoldLeft(LAMBDA z, line : FoldLeft(Uses, [z EXCEPT !.s = 0], line),
           [a |-> rec.start, s |-> 0, got |-> {}], rec.lines).got

-------------------------------------------------------------------------------
ScoresInit ==
  /\ group \in Articles
  /\ lastArt = First /\ exists = (1..First) \ group.gone
  /\ unread \in {exists, exists \ {1}}
  /\ firstArt = Min(unread)
  /\ entries = {} /\ held = FALSE /\ score = <<>> /\ author = {}
  /\ files = Texts /\ fileCache = <<>> /\ rules = <<>> /\ applied = {} /\ known = {}
  /\ bonus = NoBonus
  /\ fillMax = 0 /\ fillRead = FALSE /\ readElig = FALSE /\ keep = FALSE
  /\ mem = <<>> /\ disk = <<>> /\ in = FALSE /\ inputs = 0
  /\ given = [a \in 1..MaxLast |-> {}] /\ late = {} /\ spanned = FALSE

Input == inputs < MaxInputs /\ inputs' = inputs + 1

\* ScoringSession::init, with the scores that were loaded in w. The last article that
\* can be is scored; without rules all are.
Start(w0, c, es, first) ==
  LET w == [w0 EXCEPT !.rules = c.es, !.bonus = c.bonus, !.applied = {}]
      some == es \cap exists
      one == IF DOMAIN w.score \cap es # {} \/ some = {} THEN {} ELSE {Max(some)}
  IN /\ Scored(ScoreAll(w, IF c.es = <<>> THEN some ELSE one))
     /\ rules' = c.es /\ known' = c.known /\ bonus' = c.bonus /\ keep' = c.keep
     /\ fileCache' = c.cache
     /\ fillMax' = 0 /\ fillRead' = (readElig \/ first > lastArt) /\ late' = {}

\* do_newsgroup enters the group: scores are loaded before the rules are known.
Enter ==
  /\ ~in /\ Input /\ in' = TRUE /\ held' = TRUE
  /\ \E es \in IF held THEN {entries} ELSE {exists, 1..lastArt} :
     \E first \in {Min(unread \cup {lastArt + 1})}, store \in {IF mem = <<>> THEN disk ELSE mem} :
       /\ entries' = es /\ firstArt' = first /\ mem' = store
       /\ LET use == {g \in IF store = <<>> THEN {} ELSE Loaded(store[1]) :
                        g[1] \in es \cap exists \cap unread}
               old == IF held THEN score ELSE <<>>
               all == [a \in DOMAIN old \cup {g[1] : g \in use} |->
                         IF \E g \in use : g[1] = a
                         THEN (CHOOSE g \in use : g[1] = a)[2] ELSE old[a]]
           IN \E c \in {SfInit(fileCache)} :
                Start([Now EXCEPT !.score = all, !.author = IF held THEN @ ELSE {}], c, es, first)
  /\ UNCHANGED <<group, exists, lastArt, files, readElig, disk, spanned>>

\* look_ahead, up to the next article that is scored.
FillStart ==
  IF fillMax < firstArt /\ ~fillRead THEN FirstEntry(firstArt) - 1 ELSE FirstEntry(fillMax)
LookAhead ==
  /\ in /\ \E from \in {FillStart} :
       /\ from < lastArt
       /\ LET Wanted(a) == a \notin DOMAIN score /\ (fillRead \/ a \in unread)
               to == Min({a \in entries : a > from /\ (Wanted(a) \/ a = lastArt)} \cup {lastArt})
           IN /\ fillMax' = to
              /\ late' = IF fillRead /\ from > fillMax THEN late \cup {from} ELSE late
              /\ IF Wanted(to) /\ to \in exists THEN Scored(ScoreArt(Now, to))
                 ELSE UNCHANGED <<score, unread, author, applied, given>>
  /\ UNCHANGED <<group, exists, lastArt, firstArt, entries, held, files, fileCache, rules, known, bonus,
                 fillRead, readElig, keep, mem, disk, in, inputs, spanned>>

\* A display or a sort asks for one article's score.
Ask(a) ==
  /\ in /\ Input /\ a \in exists \cap entries /\ a \notin DOMAIN score
  /\ Scored(ScoreArt(Now, a))
  /\ UNCHANGED <<group, exists, lastArt, firstArt, entries, held, files, fileCache, rules, known, bonus,
                 fillMax, fillRead, readElig, keep, mem, disk, in, late, spanned>>

Rest == <<ruleVars, score, author, keep, mem, disk, in, given, spanned>>
Read(a) ==
  /\ in /\ Input /\ a \in unread /\ unread' = unread \ {a}
  /\ UNCHANGED <<group, exists, lastArt, firstArt, entries, held, Rest, fillMax, fillRead, readElig, late>>
Unread(a) ==
  /\ in /\ Input /\ a \in (exists \cap entries) \ unread
  /\ unread' = unread \cup {a} /\ firstArt' = Min({firstArt, a}) /\ late' = late \cup {a}
  /\ UNCHANGED <<group, exists, lastArt, entries, held, Rest, fillMax, fillRead, readElig>>
Cancel(a) ==
  /\ in /\ Input /\ a \in exists /\ a # lastArt
  /\ exists' = exists \ {a} /\ unread' = unread \ {a}
  /\ UNCHANGED <<group, lastArt, firstArt, entries, held, Rest, fillMax, fillRead, readElig, late>>
\* kill_threshold: an article without a score counts as 0.
KillBelow(t) ==
  /\ in /\ Input
  /\ unread' = {a \in unread : a < firstArt \/ (IF a \in DOMAIN score THEN score[a] ELSE 0) > t}
  /\ UNCHANGED <<group, exists, lastArt, firstArt, entries, held, Rest, fillMax, fillRead, readElig, late>>
\* Scan mode shows read articles or does so no more.
ToggleRead ==
  /\ in /\ Input /\ readElig' = ~readElig /\ fillRead' = ~readElig
  /\ fillMax' = IF readElig THEN fillMax ELSE 0
  /\ UNCHANGED <<groupVars, Rest, late>>
\* grow_newsgroup: new articles are scored as they come.
Arrive ==
  /\ in /\ lastArt < MaxLast /\ Input
  /\ lastArt' = lastArt + 1 /\ exists' = exists \cup {lastArt + 1}
  /\ entries' = entries \cup {lastArt + 1}
  /\ Scored(ScoreArt([Now EXCEPT !.unread = @ \cup {lastArt + 1}], lastArt + 1))
  /\ UNCHANGED <<group, firstArt, held, files, fileCache, rules, known, bonus, fillMax, fillRead,
                 readElig, keep, mem, disk, in, late, spanned>>

-------------------------------------------------------------------------------
\* sf_append with '!': the line is in force at once, and every article is scored again.
AppendNow(l) ==
  /\ in /\ Input
  /\ \E c \in {DoLine([es |-> rules, known |-> known, cache |-> fileCache, keep |-> keep], l)} :
       /\ rules' = c.es /\ known' = c.known /\ fileCache' = c.cache /\ keep' = c.keep
       /\ Scored(FoldLeft(ScoreBasic, [Now EXCEPT !.rules = c.es],
                          SetToSortSeq(exists \cap entries, <)))
  /\ UNCHANGED <<groupVars, files, bonus, fillMax, fillRead, readElig, mem, disk, in, late, spanned>> 

\* file_clear
Forgotten == <<>>
\* sf_append to a file, sf_edit_file
AppendTo(f, l) ==
  /\ in /\ Input /\ Accepted(l)
  /\ files' = (f :> (IF f \in DOMAIN files THEN files[f] ELSE <<>>) \o <<l>>) @@ files
  /\ fileCache' = Forgotten
  /\ UNCHANGED <<groupVars, score, author, rules, applied, known, bonus, fillMax, fillRead, readElig,
                 keep, mem, disk, in, given, late, spanned>>

\* cleanup: the scores are saved in memory, if they are to be.
SaveScores ==
  /\ mem' = IF keep THEN <<[start |-> Saved.start, lines |-> Saved.lines]>> ELSE mem
  /\ spanned' = (spanned \/ (keep /\ Saved.spanned))
\* rescore
Rescore ==
  /\ in /\ Input /\ SaveScores
  /\ \E c \in {SfInit(Forgotten)} :
       Start([Now EXCEPT !.score = <<>>, !.author = {}], c, entries, firstArt)
  /\ UNCHANGED <<group, exists, lastArt, firstArt, entries, held, files, readElig, disk, in>>
Leave ==
  /\ in /\ Input /\ SaveScores
  /\ in' = FALSE /\ readElig' = FALSE
  /\ rules' = <<>> /\ known' = {} /\ applied' = {}
  /\ UNCHANGED <<groupVars, score, author, files, fileCache, bonus, fillMax, fillRead, keep, disk,
                 given, late>>
\* Another group takes the cache.
Visit ==
  /\ ~in /\ held /\ Input /\ held' = FALSE /\ score' = <<>> /\ author' = {} /\ entries' = {}
  /\ UNCHANGED <<group, exists, unread, lastArt, firstArt, ruleVars, fillMax, fillRead, readElig,
                 keep, mem, disk, in, given, late, spanned>>

\* The program ends, by itself or by a signal (finalize), or is killed, perhaps after
\* the old file was removed; and is started again.
Restart(d) ==
  /\ Input /\ disk' = d
  /\ in' = FALSE /\ held' = FALSE /\ score' = <<>> /\ author' = {} /\ entries' = {}
  /\ mem' = <<>> /\ fileCache' = <<>> /\ rules' = <<>> /\ known' = {} /\ applied' = {}
  /\ bonus' = NoBonus /\ readElig' = FALSE
  /\ UNCHANGED <<group, exists, unread, lastArt, firstArt, files, fillMax, fillRead, keep, given, late, spanned>>
Exit == Restart(IF mem = <<>> THEN disk ELSE mem)
Killed == mem # <<>> /\ \E d \in {disk, <<>>} : Restart(d)

ScoresNext ==
  \/ Enter \/ LookAhead \/ ToggleRead \/ Arrive \/ Rescore \/ Leave \/ Visit \/ Exit \/ Killed
  \/ \E a \in 1..lastArt : Ask(a) \/ Read(a) \/ Unread(a) \/ Cancel(a)
  \/ \E t \in Thresholds : KillBelow(t)
  \/ \E l \in MoreLines : AppendNow(l) \/ \E f \in {"global", "group"} : AppendTo(f, l)
ScoresSpec == ScoresInit /\ [][ScoresNext]_scoresVars

-------------------------------------------------------------------------------
\* Whatever is computed, saved, loaded and scored again, the score of an article is
\* one that the rules gave to that article; but after a run of one score was saved
\* over a missing number, the articles behind it may get another's.
ScoreIsItsOwn == spanned \/ \A a \in DOMAIN score : score[a] \in given[a]

\* Scoring in the background leaves nobody out: of the articles that it has passed all
\* that it looks for have a score, but those that became unread later and, when it
\* went through read articles too, the very first.
FilledIsScored ==
  in => \A a \in exists \cap entries :
          a <= fillMax /\ (fillRead \/ (a \in unread /\ a >= firstArt)) /\ a \notin late
            => a \in DOMAIN score

\* An article has the score that the rules give it, once it was looked for.
ScoresAreRight == ScoreIsItsOwn /\ FilledIsScored
================================================================================
