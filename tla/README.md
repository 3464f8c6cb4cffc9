# A verification project for trn

trn is a threaded newsreader: one process, one thread, a terminal, a news
server (or a local spool), and a handful of files in which a user's reading
history lives. What it must never do is lose or corrupt that history; most of
what is hard about it comes from signal handlers that write files in the
middle of other code that writes them, from work that is deferred until the
user pauses, and from a server that changes under a session.

This directory holds TLA+ models of that code, TLC configurations that check
them on small instances, and proofs checked by TLAPS. Paths below are relative
to `src/`, and `libtrn/` is left out where there is no doubt.

## The system

| Component | State | Operations | Talks to |
|---|---|---|---|
| Newsrc files: `rcstuff.cpp`, `final.cpp`, `NewsrcCheckpoint.cpp`, `SourceCheckpoint.cpp`, `last.cpp` | the files `newsrc`, `.old`, `.new`, `.LOCK`, `.info`; `RF_RC_CHANGED`, `RF_ACTIVE`; `g_multirc` | open and back up, write, checkpoint, roll back, lock; signal handlers; `finalize` | everything that changes a group's line |
| Read-article lists: `rcln.cpp`, `bits.cpp`, `ngdata.cpp` | each group's line, `m_to_read`, `m_abs_first`, `m_ng_max`; the article flags of the current group; the order of groups | add, subtract and expire numbers; line to flags and back; chase cross-posts; count | newsrc files, article cache, active files, the server |
| Article and header cache: `cache.cpp`, `Article.cpp`, `Subject.cpp`, `head.cpp` | articles, their flags, subjects, cached headers | fill, look ahead between keystrokes, mark, select, kill, clear | server, threads, selector |
| Threads: `rthread.cpp`, `rt-*.cpp`, parts of `Article.cpp` | parent, child, sibling and thread links; message-id hash; overview data | link an article by its references, merge and split threads, order, count | article cache, server |
| NNTP session: `nntp/*.cpp`, `nntp.cpp` | connection, last command and reply, capabilities, credentials, partly read body | command, reply, reconnect after a timeout, authenticate, fetch | data sources, newsgroup loops |
| Data sources: `datasrc.cpp`, `hash.cpp`, `edit_dist.cpp`, `DataSourceConfig.cpp`, `RcGroupConfig.cpp` | active and description files, their caches and ages | open, refresh, look a group up, close | NNTP session, newsrc files |
| Newsgroup loop: `trn.cpp`, `ngsrch.cpp`, `only.cpp`, `addng.cpp`, `autosub.cpp` | current, recent and next group, restrictions | choose a group, count it, enter it, add groups, quit | all of the above |
| Article loop: `ng.cpp`, `ngstuff.cpp` | current article, pending commands | navigate, mark, catch up, grow, leave | article lists, pager, selector |
| Selector: `rt-select.cpp`, `rt-page.cpp` | a page of items, marks, position | page, select, resort | article loop, newsgroup loop |
| Pager: `art.cpp`, `artio.cpp`, `backpage.cpp` | line positions, article buffer | show, page back, search | server, decoders, checkpoint |
| Kill files and searches: `kfile.cpp`, `artsrch.cpp`, `search.cpp` | kill entries, remembered threads | apply, edit, expire, rewrite | article flags |
| Scoring and scan modes: `score*.cpp`, `s*.cpp` | scores, the range they cover, scan contexts | score, save, load, order | article cache |
| Decoders: `mime.cpp`, `decode.cpp`, `uudecode.cpp`, `yenc.cpp`, `utf.cpp`, `charsubst.cpp` | decoding state, section stack, files of parts | decode lines, gather parts | pager, saving |
| Terminal: `terminal.cpp`, `color.cpp` | pushback ring, macros, cursor | push, take, expand, edit | all loops |
| Universal selector: `univ.cpp` | menu items | choose, visit | newsrc files, newsgroup loop |
| Options: `opt.cpp`, `sw.cpp`, `Ini*.cpp`, `Option*.cpp` | settings | parse, apply, save | all |
| Posting, saving: `respond.cpp`, `intrp.cpp` | - | format, pipe, save | external programs |
| Start-up and helpers; `inews/`, `nntplist/`, `trn-artchk/`, `tool/`; `parsedate/`, `wildmat/` | - | - | - |

What makes it hard:

- Signals. SIGTSTP's handler checkpoints the newsrcs and *returns* into the code
  it interrupted, which may be the same write. A fatal signal's handler rebuilds
  the current line, writes and exits, on top of either; it does not block SIGTSTP,
  whose handler may then run on top of it.
- Partial failure. A full disk while one of several newsrcs is written.
- Deferral. Marking an article read in other groups is put off until the user
  pauses or leaves; a keystroke interrupts it, the user may change his mind
  meanwhile, and the group's cache outlives the visit.
- A protocol client that calls itself. Any reply may make trn reconnect, secure
  or authenticate before it goes on with what it was doing, which may have been
  one of the three.
- Moving ground. The server gains and expires articles; the line, the flags and
  three counters must follow.
- Text as data structure. The list of read articles is edited in place as a
  string, where "5", "5-5", "1-0" and "4-3" behave differently.

What makes each part correct, in a sentence: a newsrc is never lost and never
half written; memory, flag and file agree; nothing is read that the user did
not read, and what he read is read everywhere; counts are counts; a thread's
links form a forest whatever the order of arrival; the server's answers are
matched with the questions that were asked; a page shows what the list holds.

## Modules

| Module | Models | Source |
|---|---|---|
| `Newsrc` | the life of the newsrc files through faults and signals | `rcstuff.cpp`, `NewsrcCheckpoint.cpp`, `final.cpp` |
| `NewsrcLock` | the lock files of several trn processes | `rcstuff.cpp` |
| `RcLine`, `ReadMarks` | a newsrc line as an edited text; marks, chases, counts over several groups | `rcln.cpp`, `bits.cpp`, `ngdata.cpp`, `Article.cpp` |
| `NntpClient` | the session with a news server | `nntp/*.cpp`, `nntp.cpp` |
| `Pages`, `Selector` | the pages of a selector and the order of its items; the newsgroup selector and the one that adds groups | `rt-page.cpp`, `rt-select.cpp` |
| `Newsgroups` | the array of newsgroups, its order, its hash, and the loop over it | `trn.cpp`, `rcstuff.cpp`, `ngsrch.cpp` |
| `Threads` | articles linked into threads by references and subjects | `Article.cpp`, `rthread.cpp`, `rt-*.cpp` |
| `GroupsAndThreads` | the two above, side by side | - |
| `KeyStack` | abstract: what pushed-back keys promise | `terminal.h` |
| `Terminal` | the ring of pushed-back keys, macros, `get_cmd`, line editing | `terminal.cpp` |
| `Pager` | the rows of an article on the screen | `art.cpp`, `artio.cpp`, `backpage.cpp` |
| `Console` | `Terminal` and `Pager`, side by side | - |
| `ArticleLoop` | choosing articles within a group, its end, counts | `ng.cpp`, `ngstuff.cpp`, `rthread.cpp` |
| `KillFiles` | memorized thread commands, KILL files, THRU | `kfile.cpp`, `artsrch.cpp` |
| `Mime` | the sections of a MIME article, shown, extracted, viewed | `mime.cpp`, `artio.cpp` |
| `Decode` | files posted in pieces, uuencoded or yEnc | `decode.cpp`, `uudecode.cpp`, `yenc.cpp` |
| `Attachments` | the two above, side by side | `respond.cpp` |
| `Scores`, `Scan` | scores of articles and where they are kept; the list of the article scan mode | `score*.cpp`, `sa*.cpp`, `spage.cpp`, `sorder.cpp` |
| `ScoredList` | the two above, side by side | - |
| `MC<module>` | constants for TLC, one `.cfg` per run | - |
| `NewsrcProofs`, `NewsrcLockProofs`, `TerminalProofs`, `RcLineProofs`, `ReadMarksProofs`, `ArticleLoopProofs`, `KillFilesProofs`, `NntpClientProofs` | theorems and their proofs | - |

The modules that put two others side by side (`Console`, `Attachments`,
`GroupsAndThreads`, `ScoredList`) pick one of them in each behaviour, in a
variable that never changes: the two share no state that either changes, and a
run of the composition is a run of each.

A definition whose comment starts with "Mutant:" is what a plausible bug would
make of the definition that follows it; no specification uses it. "map" in
`PROJECT.json` names the source lines of the main definitions; the small
helpers beside them translate the same lines.

### Newsrc

The text of a newsrc is the set of things it records (`Marks`, and `Lines` for
what was there before); a file is such a set or `NoFile`. `rcFile`, `oldFile`
and `newFile` are `rp->name`, `rp->old_name` and `rp->new_name`. Every remove,
rename, truncation and flag update of `write_newsrcs`, `get_old_newsrcs` and
`open_newsrc` is a step of its own, because a signal or a crash can come
between any two.

Several activations can be in `write_newsrcs` at once, so `pc`, `idx` (the newsrc
the loop is at), `ok` (`total_success`), `cont` (where it returns to) and `fd`
are functions of a `Level`: the main line ("main"), the stop handler on top of it
("stop"), the fatal handler on top of either ("fatal"), and the stop handler on
top of the fatal one ("late"). `Current(l)` says which of them runs. `fd[l]` is
what the open stream of `l` refers to by now: `.new`, the newsrc itself (a handler
on top of `l` renamed the file under it, `Move`), or a file without a name; what is
then written to it goes there (`WriteAstray`).

| Actions | Code |
|---|---|
| `Start`, `OpenMissing`, `Seed`, `OpenRefused`, `RemoveOld`, `CopyOld`, `CopyFails`, `Load`, `OpenDone` | `use_multirc`, `open_newsrc` |
| `WriteSkip` ... `WriteRename`, `WriteReturn` | `write_newsrcs` |
| `EnterGroup`, `ReadArticle`, `Checkpoint`, `LeaveGroup` | `do_newsgroup`, `mark_as_read`, `checkpoint_newsrcs` |
| `EditLine`, `CatchUp` | subscribing, adding a group, `catch_up` |
| `Quit`, `BugOut`, `GetOldRemove` ... `GetOldDone` | `q`, `x`, the end of `do_multirc`, `get_old_newsrcs`, `unuse_multirc` |
| `StopSignal`, `StopInFatal`, `Continue`, `FatalSignal`, `FatalFinalize`, `Exit`, `Crash` | `stop_catcher`, `sig_catcher`, `finalize` |

`StopSignal` and `StopInFatal` are both `StopCatcher`, which looks at `g_waiting`
only. SIGTSTP does not interrupt its own handler.

`base`, `backed`, `saved`, `marked`, `failed`, `interrupted`, `restored` and
`overlaid` are history variables; no action of the program reads them. `restored`
are the newsrcs that `get_old_newsrcs` took, `overlaid` those whose `.new` was
rewritten by SIGTSTP's handler while a fatal signal's had it open or filled.

### RcLine and ReadMarks

`RcLine` keeps a line as a sequence of entries, each a single number or a
range, with the distinctions the text makes: "5" is not "5-5", a range may be
empty by one. `AddArtNum`, `SubArtNum`, `CheckExpired`, `Tally`, `BitsToRc` and
`RcToBits` are what `add_art_num`, `sub_art_num`, `check_expired`,
`set_to_read`, `bits_to_rc` and `rc_to_bits` do to it. `IsRcLine` says which
lines trn writes: ascending, an empty entry ends just before it starts.

`ReadMarks` has one `NewsgroupData` per group (line, `m_to_read`, `m_abs_first`,
`m_ng_max`), the server's first and last article of each group, the flags of
the current group (`unread`, `kchase`, `mchase`, `yank` for `AF_UNREAD`,
`AF_K_CHASE`, `AF_M_CHASE`, `AF_YANK_BACK`), the group the cache belongs to, and
`s_chase_count`. `Xrefs` gives the cross-posted articles. A chase is a walk
(`StartChase`, `ChaseArticle`, `EndChase`) that a keystroke may end after any
article; the one at the end of a group runs to its end but can be cut by a
hangup. `word` records the user's last word on each article, `told` what he
ever marked as read. Three history variables name what the code gets wrong, so
that the properties can be exact elsewhere: `misread` (one article read made
others read), `drift` (articles not counted) and `stale` (an older unmark was
pending). The group's first articles and the newsrcs are constants; an article
arrives in all its groups at once.

It covers a remote source, subscribed groups, headers that are in the cache
(so that `has_xrefs` answers), article numbers without gaps, and the default
build, in which unmarked articles are chased too (`MCHASE`).

### NntpClient

`command`, `check`, `nntp_handle_timeout`, `nntp_start_tls`,
`nntp_handle_auth_err`, `nntp_refresh_capabilities` and `server_init` call one
another, so the module keeps the calls in progress as a stack of frames: where
the call goes on (`at`), the command it works for (`cmd`), and its other locals
(`note`). `ret` is what the last call returned. An action runs the top frame up
to its next call or return; `Call`, `Become` (a tail call), `Goto` and `Return`
are the moves. `s` is `g_nntp` with its link, and the static
`handling_timeout`; `srv` is the server's end, with the replies under way in
`out`; a multi-line reply is one reply and one `Data` for all its lines.

| Actions | Code |
|---|---|
| `Command` ... `CommandWriteFails` | `NntpSession::command`, `nntp_handle_nested_lists` |
| `CheckRead` ... `CheckAuthorised` | `NntpSession::check`, `remember_selection` |
| `Timeout` ... `TimeoutRepeated` | `nntp_handle_timeout` |
| `Ask`, `Asked`, `Answered` | a command and its reply: `nntp_group`, `nntp_stat`, `nntp_list`, the article cache |
| `Refresh` ... `RefreshAnswered` | `nntp_refresh_capabilities` |
| `RequireTls`, `StartTls` ... `StartTlsRestored` | `nntp_require_tls`, `nntp_start_tls` |
| `Auth` ... `AuthResent` | `nntp_handle_auth_err`, `authenticate_user_pass` |
| `Connect` ... `Resecured` | `nntp_connect`, `server_init` |
| `Quit`, `QuitAnswered` | `NntpSession::close(true)` |
| `Open`, `Enter`, `Stat`, `Fetch`, `ReadBody`, `List`, `Rest` and their ends | the callers: `DataSource::open`, `access_newsgroup`, `nntp_stat`, `NntpArticleCache`, `find_active_group`, `check_data_sources` |

The server (`Codes`, `Served`, `Drop`) is external. A `Hosts` record says which
capabilities it has, whether it knows CAPABILITIES, and what it refuses with
480 or 483. The connection can be lost at any moment, with or without the
replies under way, and a command can meet a temporary error (503). Time is one
bit: whether more than a minute passed since the last command.

One group and one data source; no posting, overview or header queries (whose
only state is the cache of unsupported commands), and no line that is longer
than trn's buffer. A group's GROUP, STAT, LIST and article commands stand for
the rest.

### NewsrcLock

Each process walks `lock_newsrc`, `open_newsrc`, `unlock_newsrc` for the
newsrcs of a multirc step by step: read the lock file (`ReadLock`), judge it,
create one (`Create`), write the pid (`Write`), remove it (`Unlock`, `Unuse`). The
lock of a process that may be alive ends trn (`TurnedAway`: another host's, or one
that runs here), the process's own is passed over (`OwnPid`), and any other is
replaced (`Judged`). `Groups` gives the multircs of the access file; one may name a
newsrc twice, in two entries that each have a lock name (`named`). Around it stand
the scans for a multirc that can be used: the one of `rcstuff_init`, which ends at
the default multirc, and those of ^N and ^P (`Another`), both `Scan`; and a server
that dies (`ServerDied`), after which the multirc is used without its newsrcs.

Three history variables name what the properties exempt: `overlapped`, the newsrcs
that two processes were locking at the same time (both between the test and the
write of the lock); `twice`, those that a process tried to lock while it had them,
by which it loses the lock; and `abrupt`, the processes that once ended without
giving their newsrcs back, whose locks may stay. `Exclusion` needs the first two,
`LocksAreHeld` the third.

### Pages and Selector

`Pages` holds the operators of `rt-page.cpp`: which items are eligible, how many
fit, where a page starts and ends, moving by pages. `Selector` is `sel_command`
and the batch that visits what was chosen, for the newsgroup selector and the
one that adds groups. `s` is `g_sel` with `g_sel_page` and the marks; `marks`
and `inputs` bound the run.

### Newsgroups, Threads

`Newsgroups` keeps the array of `NewsgroupData` as a block with slots, because
what is hard about it is pointers into an array that moves (`ngdata` grows by
`Slack`), `relocate_newsgroup`, deletion in `cleanup_newsrc`, and a hash table
with duplicate lines. `Scan` is one turn of `do_multirc`'s loop.

`Threads` keeps the web of `parent`, `child1`, `sibling` links as `forest`:
`ThreadArrival` is `thread_article` for a header, `ReadHeader` the same article
once more with a longer References line; `real` and `line` are history. The
two walks are `bump_article` and the threaded `next_article`.

### Terminal and KeyStack, Pager

`Terminal` translates the ring: `push_char`, `push_string`, `get_a_char`,
`get_cmd_into` with its keymaps and its loop detector, `eat_typeahead`,
`finish_command` and `finish_dbl_char`. `KeyStack` says in four actions what
callers rely on; `RingIsAStack` is `KeyStack`'s specification under the mapping
of the ring to the sequence of characters between `out` and 0.

`Pager` translates `ArticlePager` and `BackPageCache`: an article is a list of
rows with what matters of each (hidden, wrapped, too long, form feed, header),
and `screen` records the rows that were put on the screen. `strayed` (history) says
that a command moved the buffer's position while the rest of a line was still to
come; it is cleared when the article is shown from its top.

### ArticleLoop, KillFiles

`ArticleLoop` is `do_newsgroup`'s loop with `default_command`: which article
comes next by number, subject, thread, reference; what a command does to the
flags; the recount at the end; growth and cancellation. `g` is `g_nav` with the
flags and the counts.

`KillFiles` has the group's KILL file (`kill`, with its THRU line, search lines
and memorized commands), the KILLTHREADS file (`threads`), the hash of ids in
memory, and the state bits of `KillFilePersistence`, in `state` (what has changed)
and `local` (what the KILL file has, and whether it is open). `due` (history) pairs each
search line with the articles that it has still to meet; `told` is the command
given last for each id; `outranked` (history) are the ids without an article of
their own whose command the group's KILL file replaced by a weaker one
(`LocalCommand`). The commands of the KILL file are performed when the group is
entered, or, when there was no KILL file then, at the first growth after one was
made (`local.first`, which is `g_kill.first`).

### Mime and Decode

`Mime` is the stack of sections of `mime_set_article`, `art_transform` and the
extraction of attachments, over articles of two levels of nesting, each with
what the reader should see (`reads`) and get (`holds`). `firstView` is
`g_first_view`, which `Inline` sets to the current line, so that every image on a
later line is shown inline too. `Decode` is
`decode_piece` and the two decoders: pieces kept in part files, the CT file with
the number of pieces, the assembly, the copies to their place. A process can be
killed between any two writes. A yEnc write can fail, of a piece, of the count, of
the staged file or of its copy, and leaves whatever part of the file was written
in the place of what was there (`TornPart`, `TornFile`); of the writes of the
uuencoded side the code looks at none but the opening, and they do not fail here.

### Scores, Scan

`Scores` is what gives an article its score: rules, background scoring
(`look_ahead`), scores loaded from and saved to the scores file as runs, lines
added while scoring. `given` (history) records what the rules gave each
article. `Scan` is `sa_main_loop`: entries, eligibility, order, folding, pages
filled forwards and backwards, the commands.

## Runs

| Run | Instance | Distinct states |
|---|---|---|
| `newsrc` | 2 newsrcs, 1 mark, 2 faults (failed write, signal, crash) and a third once a newsrc is rolled back, any number of sessions | 2.68 million |
| `newsrc_stopped` | 1 newsrc, 2 faults: expects a violation | - |
| `newsrc_lock` | 3 processes on 2 hosts, 2 newsrcs, 3 multircs, 3 starts, 2 faults; symmetric in the processes of a host | 4.1 million |
| `read_marks` | 2 groups, articles 1 (or 2) to 4, two articles posted to both in opposite orders and one that arrives in both, an empty line and "1-1,3", 2 marking commands, 1 arrival or expiry | 0.96 million |
| `session` | 3 calls, 2 faults, 5 settings, 6 servers, 2 articles | 1.16 million |
| `selector` | 3 groups, pages of 2, 2 marks, 2 commands | 0.17 million |
| `groups_and_threads` | 3 names with duplicates and vanished groups, 2 inputs, 2 changes on the server; 3 message ids in every order, 1 late header | 0.45 million |
| `console` | ring of 4, 3 keymap nodes, 2 typed keys; articles of 8 to 11 rows, 4 lines of screen, 2 commands, 1 interrupt | 0.83 million |
| `article_loop` | 2 groups (a thread with a fake and two subjects; an unthreaded group with a gap), 2 commands, 1 cancellation, 1 arrival | 0.24 million |
| `kill_files` | 3 articles, one late, commands `J`, `.`, `m`, 2 search lines (one ignores THRU), 5 ids of other groups, 4 inputs | 2.9 million |
| `attachments` | MIME trees of two levels with up to 2 children; postings of up to 3 parts, 5 extractions, 1 crash | 0.62 million |
| `scored_list` | 5 articles and 1 arrival, runs of 3, 4 inputs; 4 entries and 1 arrival, 2 subjects, 3 commands | 0.67 million |

`ACTION_CONSTRAINT LaterFaults` (newsrc) is the bound on the faults: the third comes
only while or after `get_old_newsrcs` rolls a newsrc back. `OneFile` (attachments)
lets a behaviour be about the postings of one file name.

### What they show

- `BackupSurvives`: whatever is interrupted, the newsrc a session started from
  is whole under one of its three names, until a later start finds no newsrc;
  with one exemption, below, that takes three faults in a row.
- `UnchangedMeansSaved`: a clear `RF_RC_CHANGED` means that the file is what is
  in memory, unless a signal cut into the work on it.
- `SavedStaysWhole`: the last successful write is whole under the newsrc's name
  or `.new`, crash or not; never half a newsrc.
- `ExitsAsAsked`: orderly exits and hangups leave all marks in the file; `x`
  restores the old newsrc and keeps the changes in `.new`.
- `Exclusion`, `LocksAreHeld`: two processes use a newsrc only after a race for
  its lock; a lock file names a process that has the newsrc, or one that ended
  abruptly.
- `ReadOnlyIfTold`: nothing becomes read by accident.
- `LastWordWins`: the user's last word on an article is in every group's line
  once the group is left, but for a chase cut short or an older pending unmark.
- `CountsAgree` (of `ReadMarks`): `m_to_read` is the number of unread articles.
- `EditsAreExact`: each edit of a line adds or removes exactly its articles.
- `RepliesInStep`: no read without a reply to come, and no command is sent before
  the last reply is read.
- `SessionAgrees`: a successful call leaves the reply to its own command; trn
  never reads from or writes to a connection that it closed itself; the group
  and article that trn believes selected are; security and capabilities are those of this connection; trn is never
  authenticated without the server knowing. The converse is not so: a
  connection lost while AUTHINFO is sent is authenticated again by the
  reconnection, the command sent again is refused, and the outer call concludes
  that it is not authenticated.
- `CredentialsUnderTls`: "Require TLS For Auth" holds on every connection of a
  server that lists its capabilities, and on the first of any.
- `CallsReturn`: every call returns.
- `PlaceAgrees`, `CountAgrees`, `KillMarksAreTheUsers`: the counts before the
  page, of the list and of the chosen groups are right at each prompt, and
  no group is marked for deletion that the user did not mark.
- `PointersAreLive`, `OrderIsComplete`, `CleanupKeepsOrder`, `ComesToPrompt`: no
  pointer to a moved or deleted newsgroup; the order has each group once; a
  cleanup keeps the order; the loop always comes to its prompt.
- `ForestIsSound`, `NamedParentKept`, `WalkMeetsEveryone`: the threads are trees
  in every order of arrival, an article is below the parent it names, and both
  walks meet each article once.
- `RingIsAStack`, `MacroLoopEnds`, `SpacesEnd`, `ScreenIsRight`: the ring behaves
  as `KeyStack`; macros that lead to themselves are left; the space bar comes to
  the end of an article; the screen shows the visible rows around its top line,
  but for what follows a command that seeks while the rest of a line is to come
  (`strayed`).
- `CountsAgree` (of `ArticleLoop`), `SpaceLeaves`, `EndHidesNothing`: counts agree
  with flags; the space bar alone comes out of a group; at the end of a group no
  unread article is left that the next command would find.
- `ThruWaits`, `MemorizedIsSafe`: no arrival escapes a search line; a command that
  was given is in the group's file or flagged as unsaved, unless the group's KILL
  file had a weaker one for an id that only others name (`outranked`).
- `ReadsAsMeant`, `EachIsExtracted`, `PostingsAreDecoded`, `NothingLost`: what is
  shown and extracted of a MIME article is what was meant, later images included; a
  posting whose pieces were all extracted is decoded, from whole pieces, and no piece
  is lost before. Where the code reports that a yEnc piece or its file could not be
  written, that article has to be extracted again; where it reports so of the count
  of pieces, all of them.
- `ScoresAreRight`, `PageIsTheList`, `KillsAreExact`: each score is one that the
  rules gave the article and background scoring leaves nobody out; the page is
  the list; only what is meant is killed.

`newsrc_stopped` is a disagreement of code and comment that `PROJECT.json` quotes:
the checkpoint taken when trn is stopped does not protect a newsrc whose rewrite
it interrupts, because `RF_RC_CHANGED` is cleared before the new file is renamed
into place (`rcstuff.cpp:1891`).

### Why the bounds are enough

Two newsrcs let a loop be between newsrcs and let one fail while the other is
written; two faults let a handler run inside a handler, a second failure hit the
recovery from the first, and a crash follow either. What loses a newsrc needs a
failed write, then two signals one within the other's handler; the run's third fault
makes that happen, and without its exemption `BackupSurvives` is violated there.
(Two newsrcs with three faults at any place, 11.8 million states, and one newsrc with
four, 0.7 million, were checked once.) Three processes are what it
takes for two to race behind the back of the third. In `read_marks` two
commands on one article produce every order of the two pending chases, two
articles let a chase be cut between them, and the cross-posts have different
numbers in the two groups so that numbers cannot be mixed up unnoticed. In
`session` three calls open, enter a group and leave something half done; two
faults let a connection be lost while the loss of another is repaired. The
servers differ in what makes the code take another way. By hand, the safety
properties of `NntpClient` but `CredentialsUnderTls` were also run with 16
settings and 128 servers (two calls, two faults: 10.7 million states) and with
three calls and three faults for two settings (14.6 million). Three ids give every
shape of merge of two threads; three groups on pages of two give a full, a
partial and an empty page; a ring of four wraps around within two commands. In
`kill_files` four inputs are memorize, arrive, append and rewrite in any order.

### Fairness

`session` assumes weak fairness of `Step`: a call that can go on does. That is
the scheduling of a sequential program; it waits only for a reply, and the
server answers or the connection is lost. `console` assumes that `get_cmd` goes
on while there is something to read, that the pager goes on while it is not
waiting, and, for `SpacesEnd`, that the user presses SPACE when it waits.
`groups_and_threads` assumes that the loop goes on until it asks
(`ScanIsFair`). `article_loop` assumes that a user who is asked answers.
Where ENABLED of an action is expensive the fairness is written out with the
guard it is equivalent to.

Deadlock is checked where a session can always go on or end (`newsrc`,
`read_marks`). The other runs end after a bounded number of inputs, or when the
program exits: an overflow of the ring ends it.

### What the code does besides

Things met while modelling that no property forbids, or that a property
exempts by name. Each is what the code does, and the models do it too.

Newsrc files, lines and marks:
- a write of a newsrc fails, and `get_old_newsrcs` renames `.old` over it; before the
  flag is cleared a fatal signal arrives, and its handler opens `.new`; SIGTSTP
  arrives, and its checkpoint rewrites the same `.new` and renames it. After SIGCONT
  the fatal handler writes over the newsrc by its open stream, removes it, and has no
  `.new` to rename (`final.cpp:282`, `rcstuff.cpp:1893-1897`, `:1923-1926`). No name
  holds the newsrc then (`BackupSurvives` exempts `restored` with `overlaid`).
- both chase flags of an article set: it ends unread, though the user junked it
  last (`bits.cpp:576-594`; exempt as `stale`); a chase cut short by a hangup is
  forgotten (`bits.cpp:570`; `cut`); an entry below the first article is raised
  to it, which marks an article that nobody read (`bits.cpp:131`; `misread`); a
  number appended to "1-0" is glued to it, "1-05", which marks those below it
  (`rcln.cpp:225`; `Glues`, `misread`).
- the entry "1-0", which `bits_to_rc` writes when nothing is read, is counted by
  `set_to_read` as one unread article too many (`rcln.cpp:529-541`; `Miscounted`);
  a number above the high-water mark of a group with nothing unread is not counted
  (`rcln.cpp:131`; `drift`).
- an empty group starts after the highest number known of it (`nntp.cpp`); when
  its line goes beyond the server's articles it starts above the next one to
  arrive, which is then read unseen (`Beyond`, in `misread` and `drift`). The proof
  of the counts found it: the run's newsrcs stay within the server's articles.
- "restoring older version" without an `.old` loses a newsrc that was just
  created (`rcstuff.cpp:1923`).
- '.' at the relocation prompt with no current group dereferences null
  (`rcstuff.cpp:1503`); a cleanup leaves bogus groups behind when a sort order is
  in use; the selector and `relocate` lose `g_sel.direction`.

Session:
- `handling_timeout` stays set when a reconnection fails (`nntp.cpp:716-728`): no
  later lost connection is repaired.
- `NNTP_NEW_CMD_OK` stays clear after a connection is lost in a list
  (`nntp.cpp:697`): the next command fails instead of reconnecting.
- a reconnection within STARTTLS is reported as an upgrade that was done
  (`nntpclient.cpp:411`).

Article loop, threads:
- after ^L, `v` or `b` at the end with nothing unread the group is left; an
  explicit article order omits articles made unread later, so that SPACE may stay
  at the end for ever (`SpaceLeaves` exempts it); `m` on a cancelled article marks
  it unread; `p`, `N` and typed numbers reach a null pointer for articles that are
  gone (pc "crashed").
- an undated article whose references name an id twice defeats the check for
  duplicates (`Article.cpp:1016`): `Dates` excludes it.

Terminal, pager:
- `finish_dbl_char` restores `s_not_echoing` after its mark was consumed.
- a failed search, ^E or an inserted `B` while a line is unfinished shows its rest
  twice (`art.cpp:1127`, `:1205`, `:1253`; exempt as `strayed`); -e and -m pages that end inside a long header
  skip the header's rest; a negative entry is skipped by a search on the page.

Kill files:
- with KILLTHREADS off the first command memorized in a group without a KILL file
  is lost (`kfile.cpp:535`, `:623`); a cleared command reappears after a restart
  when the file was only appended to; after a failed write `ng.cpp:296` clears the
  flag and the command is never saved; a rewrite removes the old file first; for an
  id that only others name the group's KILL file replaces a stronger command of the
  thread file, and the weaker line is appended to that (`kfile.cpp:355`; exempt as
  `outranked`).

Decoders:
- a run killed while it keeps a uuencoded piece leaves a torn piece that counts as
  present (exempt as `torn`); a yEnc copy or piece that cannot be written destroys the
  good one that was there, and a failed write of the count forgets how many pieces
  there are; pieces of different postings of one name mix; a
  decoder that fails after the boundary takes the next part with it (`mime.cpp`;
  exempt as `skipped`); an empty part loses the boundary that follows.

Scores, scan:
- a run of one score saved over a missing number shifts the scores behind it
  (`scoresave.cpp:296`; exempt as `spanned`); background scoring of read articles
  skips the first (`score.cpp:339`); articles that become unread later stay
  unscored while "100% scored" is shown.
- `go_top_ents` with nothing eligible takes an article number for an entry number
  (`spage.cpp:417`; at = "lost"); `g` wraps to the first entry without testing it.

## Proofs

All theorems hold for every value of the constants that the modules' ASSUMEs
allow; the assumptions are typing, non-emptiness, and that a sentinel is not a
value. TLC evaluates them in the run of the module.

| Module | Theorem | States |
|---|---|---|
| `NewsrcProofs` | `TypeCorrect` | `Spec => []TypeOK` |
| | `NewsrcSurvives` | `Spec => []BackupSurvives` |
| | `ClearMeansSaved` | `Spec => []UnchangedMeansSaved` |
| | `SavedIsWhole` | `Spec => []SavedStaysWhole` |
| | `ExitsKeepTheirWord` | `Spec => []ExitsAsAsked` |
| `NewsrcLockProofs` | `LockTypeCorrect` | `Spec => []TypeOK` |
| | `MutualExclusion` | `Spec => []Exclusion` |
| | `LocksHeld` | `Spec => []LocksAreHeld` |
| `TerminalProofs` | `KeysAreStacked` | `TerminalSpec => RingIsAStack` |
| `RcLineProofs` | lemmas only | what each edit, tally and rebuilding makes of a line of any length |
| `ReadMarksProofs` | `LinesAreEditedExactly` | `Spec => []EditsAreExact` |
| | `NothingReadByAccident` | `Spec => []ReadOnlyIfTold` |
| | `CountsStayRight` | `Spec => []CountsAgree` |
| | `LastWordIsObeyed` | `Spec => []LastWordWins` |
| `ArticleLoopProofs` | `LoopCountsStayRight` | `Spec => []CountsAgree` |
| | `EndOfGroupHidesNothing` | `Spec => EndHidesNothing` |
| `KillFilesProofs` | `ThruKeepsWaiting` | `Spec => []ThruWaits` |
| | `NothingIsDueInTheGroup` | `Spec => [](place = "group" => due = {})` |
| `NntpClientProofs` | `RepliesStayInStep` | `Spec => []RepliesInStep` |

### Newsrc

`BackupSurvives` is not inductive: it says nothing about memory or about where
the handlers are. The invariant `IInv` adds that

- `LevelShape`, `ActiveShape`: the levels are only where the code can put them,
  and only active newsrcs are being written;
- `OpenShape`: while a newsrc is opened, the copy is made from the base;
- `MemoryHolds`: what is in memory of an active newsrc includes the base, so
  that writing it can lose nothing;
- `RolledIsRestored`: only `get_old_newsrcs` takes a newsrc's backup away, so that
  the exemption (`restored` with `overlaid`) covers no other newsrc;
- `HandlerStreams`: a handler's stream writes to `.new`, unless SIGTSTP cut into a
  fatal signal's handler between the opening and the clearing of the flag, and then
  the newsrc is `overlaid`;
- `RolledShape`: the backup of an active newsrc is the base, *or* the newsrc
  has been rolled back; then, unless it is `overlaid`, the base is under the
  newsrc's name, except while a handler that cut into `get_old_newsrcs` before the
  flag was cleared has removed it, and then that handler's `.new` holds it; and no
  two handlers are in the middle of it in a way that one could remove the newsrc and
  the other take `.new` away;
- `InactiveSurvives`: `BackupSurvives` for newsrcs that no session has open.

The central argument is `RolledShape`: a rolled back newsrc has no
backup any more, so no level may start to rewrite it once its flag is clear,
and the only handler that still can is one that arrived in between, whose
memory holds the base. SIGTSTP within that handler is harmless before the handler
opens `.new` and after it has cleared the flag; in between it marks the newsrc
`overlaid`, and that is exactly the combination in which the code does lose it.

The other three properties are about what was saved, and need `SavedInv` on top
of it: `StreamShape` (a level's stream still writes to `.new` unless a handler moved
that file, and a flag cleared before the rename stays clear), `SavedShape` (where
the text of the last good write is: under the newsrc's name, or in `.new` while
some level is between remove and rename), `MarkedShape` (a mark is in the line or
in the bits of the current group), `PastShape` (a level on its way out leaves a
changed newsrc behind only if its write failed or was cut into) and
`RestoredShape` (what `x` has put back stays put back). One lemma per action,
one step per conjunct; `IInv` is used for the places of the levels.

### NewsrcLock

`Inv` says of each process what its place in the code implies for the newsrcs it
has (`Shape`), and of each newsrc nobody raced for (`LockShape`) that its lock
names whoever has it, that one process at most is between looking and creating,
and that such a process saw the holder's lock, or there is no holder. The lemmas
are per action; `LeavePlaces`, `NextEntryPlaces`, `ScanPlaces` are about the walk
over the multircs, for any access file.

### Terminal

`KeysAreStacked` is a refinement: `RingOK` (indices are within the ring, all of
it is typed) is invariant, the mapping takes `out`, `out+1`, ... modulo the size to
the pending characters (`Stacked`), and each action is a push, a take, the end
of a hidden command, a throw-away or a stutter of `KeyStack`. `PushedAt` and
`Takes` are the two lemmas with modular arithmetic.

### RcLine and ReadMarks

`RcLineProofs` proves of the text edits, for lines of any length, that each
result is a line again (`IsRcLine`) and what it records: `AddIs`, `SubIs`,
`CheckExpiredIs`, `BitsToRcIs`, `RcToBitsIs`, `TallyIs`. The scan of a line is the
maximum of a set of positions (`LeadingIs`), and an edit puts few entries in the
place of a few others (`IsSplice`); lines stay ascending by that alone. The tally
is a recursive function over the entries. Its value is found without induction:
a function with the required unfolding exists for every length (`TallyExists`),
and a property that a step keeps holds of every step (`TallyIs`), each by the
least number at which it would fail (`LeastOf`, from the well-foundedness of `<`).

The invariant of `ReadMarks` has these parts:

- `LinesOK` is `ReadOnlyIfTold`. By itself it is not inductive: the flags of the
  current group become its line when it is left. `FlagsOK` says the same of
  flags, and that the group starts no later than the server's first article and
  ends no later than its last, so that a number the flags do not know is not one
  that will arrive. `ChasesOK` says that the articles waiting to be marked
  elsewhere were read, so that a chase, whenever it runs, marks what it may.
- `FlagsCount` and `LinesCount` are `CountsAgree` with what it rests on: the flags
  are about articles of the group (or `bits_to_rc` would not count them), and no
  entry of a counted line goes beyond the high-water mark (or raising it would
  count read articles).

TLC checked these parts on the run's instance, and on one group whose line goes
beyond the server's articles through five arrivals and expiries.

`LastWordIsObeyed` needs a second invariant, `WInv`, on top of it. `LastWordWins`
speaks of the newsgroup list only; while a group is read, the last word on an
article is in one of three places, and `WInv` says in which:

- `FlagsObey`: for the articles of the current group, in its flags (or in the
  articles marked to return, or in an unmark still to be chased);
- `LinesObey`: for the copies in the other groups, in their lines, or in a chase
  that is still to come (`ToRead`, `ToUnread`);
- `PendingOK`: such a chase carries the last word. An article may wait to be
  chased both ways; then it is the unmark that counts, since `check_chase` does it
  last. At the list none is left over, but for the places in `cut` and `stale`;
- `RangeOK`, `PostedOK`, `WordsOK`: the user speaks of articles that the server has,
  in all their groups, so that an article read here is in range there.

The proof has one lemma per action. The two that carry it are `ChaseArticleObeys`
(`ChasedCarries` says what `chase_xref` does to flags and lines, and the step moves
the word from the pending chase to the line) and `WrittenObeys` (leaving or hanging
up moves it from the flags to the line). It rests on `ArticlesAssumption`: an
article has one number in each group, and a number names one article.

### ArticleLoop

`CountsAgree` bounds the two counts the loop decides by: `m_to_read` is never more
than the unread articles and falls short of them by at most the articles that are
gone; `selCount` is never more than the selected articles. (It may be less: the
end of a group counts only what can be read.) It holds in every state, within the
pager too.

The invariant `IInv` says of the record `g` that it `Fits`: the flags are about
articles that arrived (`Whole`), the counts are within those bounds (`ReadExact`,
`SelExact`), and, where a command may use the target, that the target is an
article of the group (`Placed`). The last part is why the bound survives `one_more`
and `one_less`: an article number nobody posted would be counted without having
a flag to count.

The operators work on a copy of `g` and are composed, so the proof has one lemma
for each (`LessFits`, `MoreFits`, `KillsFit`, `PerformFits`...: what fits still fits
afterwards) and one for each command (`...Keeps`). `thread_perform` and ranges run
a command over articles one after the other, in an order that is a CHOOSE;
`Through` is a recursive function over it. That it preserves `Fit` is shown by the
least place where it would fail (`LeastOf`, `RunExists`, `ThroughFits`), for any order
and any number of articles.

An earlier form of the property, stated at the prompt only, had for lower bound the
unread articles that exist. It is false: `m` makes a cancelled article unread, the
end of the group recounts without it, and a later command that reads it takes one
off. It takes more commands than the run's bound (2) to see; the proof of that step
failed, and TLC found the behaviour with four commands. The count is
then short of what can be read by the articles that are gone, which is what
`CountsAgree` now says. A larger instance (four commands, two cancelled articles,
two groups) was checked once with it.

`EndHidesNothing` is an action property: the state in which the prompt comes up at
the end of a group is one where `n` finds what is left. Commands take visits away
and leave `g_first_art` behind the first unread article, so it is no invariant; it
holds there because `count_subjects` and the recount come before the prompt.
`Ready` is what they leave behind: every subject with an unread article is visited
(in a selection, every selected one), `first` is the least unread article, and
a count of selected articles above 0 has one to show for it. `Reaches` is the
rest: from such a state `ArticleLocation::first` ends at an article, whether it
goes by threads and subjects, by subjects for a search that was dropped, or by
number. Besides `IInv` this takes that only the top of the loop comes to the prompt
without a command (`TopIsShow`), and that the other way to the prompt, an article
that is not to be had, is not past the end (`UnavailableIsNotTheEnd`). The
assumption on the groups is that numbers count from 1, that there are finitely many
articles, and that the articles and subjects have places in an order.

### KillFiles

`ThruWaits` is not inductive: `rewrite_kill_file` sets THRU to the last article
whatever has been searched. `TInv` adds why it may. While the group is read no
command of the file has an article to meet, and the flag for search commands is
set when there are any (`GroupInv`): a visit searches from THRU on, and by
`ThruWaits` itself that is everything that is due (`VisitMeetsAll`); a command is
run when it is appended; an arrival is searched by every command because it lies
beyond THRU (`ArrivalIsMet`), which never passes the last article (`FileInv`).
Elsewhere articles only arrive beyond THRU. The proof needs nothing of what commands
on threads do, and holds for any articles, search commands and bounds.

### NntpClient

`RepliesInStep` speaks of two places, the read of a reply and the write of a
command, but what makes it true is spread over the calls in progress, of which
there may be any number: a command that times out is repeated from within
`check`, which may authenticate, which may start TLS, which may time out. So the
invariant `FInv` is about the whole stack:

- `StackOK`: each frame fits those below it (`Fit`). It was called by one of its
  callers (`Callers`). A frame that holds or goes by a command with a long reply
  stands only on frames that will hand that reply on (`Bulk`), because only the
  reader's own LIST, ARTICLE and BODY and the request for capabilities have one:
  a long reply never reaches a caller that would not read its rest. The same for
  the request for capabilities (`FitCaps`), which holds only while
  `handling_timeout` is not left set by a timeout that failed (`Orderly`). There is
  one timeout being handled at most.
- `Flow`: while a reply is awaited or handed on (`InFlight`), it is there, alone and
  whole, or the connection is lost (`Coming`); otherwise nothing is under way, but
  for the rest of a long reply that the session knows to be unread (`Quiet`), or
  that the very next steps will own up to (`UnreadCaps`, `UnreadLong`: `check` clears
  the flag for the codes 101 and 215 only, so that after a 220 the session does not
  know until the article cache says so).
- `WriteOK`, `GreetOK`, `AnswerOK`, `WaitOK`, `HandlingOK`, `PhaseOK` say what the
  frames on top know: which command is being sent, that a greeting is one line and
  a timeout while it is awaited is not retried, who awaits the reply under way.

`RepliesInStep` follows from `Flow` and `WriteOK` alone; the rest is there because
what `Flow` says after a return depends on the frame that is returned to. There is
one lemma per action (`Keep...`), over lemmas on stacks of any depth (`Jumped`,
`Called`, `Popped`, `NewLast`) that say when a changed stack still fits. TLC checked
`FInv` on the run's instance first. The proof holds for any settings, servers,
groups and bounds, and without fairness.

### What is only model-checked

- Liveness (`CallsReturn`, `ComesToPrompt`, `MacroLoopEnds`, `SpacesEnd`,
  `SpaceLeaves`) and the fairness it rests on: TLAPS here has no ENABLED.
- Everything in a module that needs a RECURSIVE operator, which the prover does
  not support: `Newsgroups`, `Threads`, `Selector`, `Scores`, `Scan`.
- `SessionAgrees` and `CredentialsUnderTls` of `NntpClient`, `MemorizedIsSafe`, and
  the safety properties of `Pager`, `Mime` and `Decode`: TLC checks them on the
  instances above and no proof of them is written yet.

## Not modelled

Formatting, colours, help, option parsing and posting (sequential, and covered
by unit tests), the helper programs, and the vendored `parsedate` and `wildmat`.
The `.info` and last-run files only carry counts and times. Within the modelled
parts:

- `Newsrc`: file permissions; the sorting of the group list around a write when it
  is shown in another order. A handler whose own `.new` cannot be opened sorts the
  list that the code it interrupted is writing, which may then skip a line; such a
  newsrc is `interrupted`, which the properties about its text exempt, and its base is
  in `.old`, or it was rolled back and is `overlaid`.
- `ReadMarks`: local spools, unsubscribed groups, gaps in the numbers.
- `NntpClient`: one group and one source; no posting, overview or header queries,
  partial lines.
- `Selector`: the article, option, universal and multi-newsrc selectors, the
  mouse. `Newsgroups`: patterns and restrictions by name, descriptions.
- `Threads`: undated articles, automatic selection flags, articles that are lost
  and followed by a duplicate under their subject.
- `Terminal`: mouse, terminal capabilities. `Pager`: rows of the tree, header
  continuations, charsets, marking areas, notesfiles.
- `ArticleLoop`: memorizing through searches, prefetch of fakes, scan mode,
  cross-posts (see `ReadMarks`), a change of the selector's mode.
- `KillFiles`: interrupts of a search, the global KILL file, `X`, `*` and include
  lines, lines that are read marks; a clock that goes back.
- `Mime`, `Decode`: the encodings (a checksum is the data itself), HTML, charsets,
  shar, `message/partial`, where files are put, the limit of the prescan.
- `Scores`, `Scan`: abbreviations, patterns and URLs in score files, include
  cycles (assumed absent), other groups' blocks; vi mode, display toggles, lines
  longer than the page.

`PROJECT.json` lists component by component what is covered.

## Plan

Proofs first, in this order: the session (`CredentialsUnderTls`), the
pieces of `Decode`. After that the universal
selector and the active file, and several sources that share `g_nntp`.
