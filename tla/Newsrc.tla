-------------------------------- MODULE Newsrc --------------------------------
(***************************************************************************)
(* The life of the newsrc files on disk: opening and backing them up,      *)
(* rewriting them through ".new", rolling back to ".old", and everything   *)
(* that can interrupt it: a full disk, SIGTSTP (whose handler checkpoints  *)
(* and then returns into the interrupted code, be it the fatal signals'    *)
(* handler), a fatal signal (whose handler writes and exits) and a crash.  *)
(*                                                                         *)
(* Translated from libtrn/rcstuff.cpp (use_multirc, unuse_multirc,         *)
(* open_newsrc, checkpoint_newsrcs, write_newsrcs, get_old_newsrcs),       *)
(* libtrn/final.cpp (sig_catcher, stop_catcher, finalize) and their        *)
(* callers in libtrn/trn.cpp, libtrn/ng.cpp, libtrn/art.cpp and            *)
(* libtrn/rcln.cpp.                                                        *)
(***************************************************************************)
EXTENDS Integers

CONSTANTS
  NumRcs,         \* newsrcs in the multirc's list
  Marks,          \* what a user can record in a newsrc: articles, subscriptions
  Lines,          \* the group lines a newsrc has before anything is marked
  NoFile,         \* the file does not exist
  Subscriptions,  \* what a missing newsrc is filled with
  UnsafeRcSaves,  \* -U: do not write the newsrcs when a group is left
  MaxFaults       \* bound on signals, failed writes and crashes, in total

\* A newsrc's text is abstracted to the set of things it records; the empty
\* set is a zero-length file.
Content == SUBSET (Marks \cup {Lines})
File == {NoFile} \cup Content
Rcs == 1..NumRcs

ASSUME NumRcsAssumption == NumRcs \in Nat \ {0}
ASSUME NoFileAssumption == \A c \in Content : c # NoFile
ASSUME SubscriptionsAssumption == Subscriptions \in Content
ASSUME UnsafeAssumption == UnsafeRcSaves \in BOOLEAN
ASSUME MaxFaultsAssumption == MaxFaults \in Nat

\* The activations that can be inside write_newsrcs at once: the main line, the
\* SIGTSTP handler on top of it, a fatal signal's handler on top of either, and
\* ("late") the SIGTSTP handler on top of a fatal signal's.
Level == {"main", "stop", "fatal", "late"}

WritePC == {"next", "fill", "clear", "remove", "rename"}
OpenPC == {"open", "seed", "copy", "load"}
GetOldPC == {"goRemove", "goSave", "goRestore", "goClear"}
PC == {"idle", "down", "running", "bugout", "finalize", "stopped", "exit"}
        \cup WritePC \cup OpenPC \cup GetOldPC

VARIABLES
  rcFile,   \* rp->name
  oldFile,  \* rp->old_name
  newFile,  \* rp->new_name
  lines,    \* m_rc_line of the newsrc's groups, in memory
  changed,  \* RF_RC_CHANGED
  active,   \* RF_ACTIVE
  multirc,  \* g_multirc is set: use_multirc has come to its end
  ng,       \* newsrc of the group being read (g_doing_ng), 0 when none
  bits,     \* marks made in that group and not yet in its line
  restore,  \* g_restore_old_newsrc
  pc,       \* where each level is
  idx,      \* the newsrc each level's loop is at
  ok,       \* total_success of each level's write_newsrcs
  cont,     \* where each level's write_newsrcs returns to
  fd,       \* the file that each level's open stream on ".new" is by now
  faults    \* how many faults there were

\* History variables, read by the properties only.
VARIABLES
  base,         \* the newsrc as it was when the session backed it up
  backed,       \* base is meaningful
  saved,        \* what the last write that reported success wrote
  marked,       \* everything the user marked in this session
  failed,       \* the last write of this newsrc failed
  interrupted,  \* a signal arrived in the middle of work on this newsrc
  restored,     \* get_old_newsrcs took this newsrc
  overlaid      \* SIGTSTP's handler rewrote the ".new" that sig_catcher's
                \* write_newsrcs had open, or had written and not yet renamed

files == <<rcFile, oldFile, newFile>>
memory == <<lines, changed, active, multirc, ng, bits, restore>>
control == <<pc, idx, ok, cont, fd>>
history == <<base, backed, saved, marked, failed, interrupted, restored, overlaid>>
vars == <<files, memory, control, faults, history>>

Holds(file, what) == file # NoFile /\ what \subseteq file

\* The level whose code runs now.
Current(l) ==
  /\ pc[l] # "idle"
  /\ l = "main" => \A k \in Level \ {"main"} : pc[k] = "idle"
  /\ l = "stop" => pc["fatal"] = "idle"
  /\ l = "fatal" => pc["late"] = "idle"

Goto(l, p) == pc' = [pc EXCEPT ![l] = p]

\* The level l is somewhere between opening ".new" and renaming it, or
\* between the renames of get_old_newsrcs, for newsrc rc.
Mid(l, rc) ==
  /\ idx[l] = rc
  /\ pc[l] \in (WritePC \ {"next"}) \cup (GetOldPC \ {"goRemove"})
Busy(rc) == \E l \in Level : Mid(l, rc)

-------------------------------------------------------------------------------
Init ==
  /\ rcFile \in [Rcs -> {NoFile, {Lines}}]
  /\ oldFile = [rc \in Rcs |-> NoFile]
  /\ newFile = [rc \in Rcs |-> NoFile]
  /\ lines = [rc \in Rcs |-> {}]
  /\ changed = [rc \in Rcs |-> FALSE]
  /\ active = [rc \in Rcs |-> FALSE]
  /\ multirc = FALSE
  /\ ng = 0
  /\ bits = {}
  /\ restore = FALSE
  /\ pc = [l \in Level |-> IF l = "main" THEN "down" ELSE "idle"]
  /\ idx = [l \in Level |-> 1]
  /\ ok = [l \in Level |-> TRUE]
  /\ cont = [l \in Level |-> "exit"]
  /\ fd = [l \in Level |-> "new"]
  /\ faults = 0
  /\ base = [rc \in Rcs |-> {}]
  /\ backed = [rc \in Rcs |-> FALSE]
  /\ saved = rcFile
  /\ marked = [rc \in Rcs |-> {}]
  /\ failed = [rc \in Rcs |-> FALSE]
  /\ interrupted = [rc \in Rcs |-> FALSE]
  /\ restored = [rc \in Rcs |-> FALSE]
  /\ overlaid = [rc \in Rcs |-> FALSE]

\* A new trn process begins.
Start ==
  /\ pc["main"] = "down"
  /\ Goto("main", "open")
  /\ idx' = [idx EXCEPT !["main"] = 1]
  /\ UNCHANGED <<files, memory, ok, cont, fd, faults, history>>

\* The session opens newsrc rc, whose text is then `text`: its history starts.
NewSession(rc, text) ==
  /\ saved' = [saved EXCEPT ![rc] = text]
  /\ marked' = [marked EXCEPT ![rc] = {}]
  /\ failed' = [failed EXCEPT ![rc] = FALSE]
  /\ interrupted' = [interrupted EXCEPT ![rc] = FALSE]
  /\ restored' = [restored EXCEPT ![rc] = FALSE]
  /\ overlaid' = [overlaid EXCEPT ![rc] = FALSE]

\* write_newsrcs starts at level l and will return to c.
CallWrite(l, c) ==
  /\ Goto(l, "next")
  /\ idx' = [idx EXCEPT ![l] = 1]
  /\ ok' = [ok EXCEPT ![l] = TRUE]
  /\ cont' = [cont EXCEPT ![l] = c]

-------------------------------------------------------------------------------
\* use_multirc and open_newsrc, one newsrc after another.

Opening(p, rc) ==
  /\ pc["main"] = p
  /\ Current("main")
  /\ rc = idx["main"]
  /\ rc \in Rcs

\* fopen(name, "r") fails: the newsrc is created empty ...
OpenMissing(rc) ==
  /\ Opening("open", rc)
  /\ rcFile[rc] = NoFile
  /\ rcFile' = [rcFile EXCEPT ![rc] = {}]
  /\ backed' = [backed EXCEPT ![rc] = FALSE]
  /\ NewSession(rc, {})
  /\ Goto("main", "seed")
  /\ UNCHANGED <<oldFile, newFile, memory, idx, ok, cont, fd, faults, base>>

\* ... and filled with the subscriptions list; the backup is left alone.
Seed(rc) ==
  /\ Opening("seed", rc)
  /\ rcFile' = [rcFile EXCEPT ![rc] = Subscriptions]
  /\ saved' = [saved EXCEPT ![rc] = Subscriptions]
  /\ Goto("main", "load")
  /\ UNCHANGED <<oldFile, newFile, memory, idx, ok, cont, fd, faults,
                 base, backed, marked, failed, interrupted, restored, overlaid>>

\* A zero-length newsrc with a non-empty backup is refused; use_multirc goes on
\* with the next newsrc.
OpenRefused(rc) ==
  /\ Opening("open", rc)
  /\ rcFile[rc] = {}
  /\ oldFile[rc] \notin {NoFile, {}}
  /\ idx' = [idx EXCEPT !["main"] = @ + 1]
  /\ UNCHANGED <<files, memory, pc, ok, cont, fd, faults, history>>

\* The previous backup is removed ...
RemoveOld(rc) ==
  /\ Opening("open", rc)
  /\ rcFile[rc] # NoFile
  /\ rcFile[rc] = {} => oldFile[rc] \in {NoFile, {}}
  /\ oldFile' = [oldFile EXCEPT ![rc] = NoFile]
  /\ base' = [base EXCEPT ![rc] = rcFile[rc]]
  /\ backed' = [backed EXCEPT ![rc] = TRUE]
  /\ NewSession(rc, rcFile[rc])
  /\ Goto("main", "copy")
  /\ UNCHANGED <<rcFile, newFile, memory, idx, ok, cont, fd, faults>>

\* ... and the newsrc copied to it.
CopyOld(rc) ==
  /\ Opening("copy", rc)
  /\ oldFile' = [oldFile EXCEPT ![rc] = rcFile[rc]]
  /\ Goto("main", "load")
  /\ UNCHANGED <<rcFile, newFile, memory, idx, ok, cont, fd, faults, history>>

\* The copy fails half way: finalize(1), with no multirc in use yet.
CopyFails(rc) ==
  /\ Opening("copy", rc)
  /\ faults < MaxFaults
  /\ \E part \in SUBSET rcFile[rc] : oldFile' = [oldFile EXCEPT ![rc] = part]
  /\ Goto("main", "exit")
  /\ faults' = faults + 1
  /\ UNCHANGED <<rcFile, newFile, memory, idx, ok, cont, fd, history>>

\* The lines are read. check_expired may already correct one of them, which
\* marks the newsrc as changed.
Load(rc) ==
  /\ Opening("load", rc)
  /\ lines' = [lines EXCEPT ![rc] = rcFile[rc]]
  /\ \E c \in BOOLEAN : changed' = [changed EXCEPT ![rc] = c]
  /\ active' = [active EXCEPT ![rc] = TRUE]
  /\ Goto("main", "open")
  /\ idx' = [idx EXCEPT !["main"] = @ + 1]
  /\ UNCHANGED <<files, multirc, ng, bits, restore, ok, cont, fd, faults,
                 history>>

\* use_multirc ends by writing the newsrcs, if any could be opened.
OpenDone ==
  /\ pc["main"] = "open"
  /\ Current("main")
  /\ idx["main"] > NumRcs
  /\ IF \E rc \in Rcs : active[rc]
     THEN multirc' = TRUE /\ CallWrite("main", "running")
     ELSE Goto("main", "exit") /\ UNCHANGED <<multirc, idx, ok, cont>>
  /\ UNCHANGED <<files, lines, changed, active, ng, bits, restore, fd, faults,
                 history>>

-------------------------------------------------------------------------------
\* write_newsrcs at level l.

Writing(l, p, rc) ==
  /\ pc[l] = p
  /\ Current(l)
  /\ rc = idx[l]
  /\ rc \in Rcs

\* Level l takes a file of rc from one name to another, and with it the streams
\* that the levels it interrupted have open on that file.
Move(l, rc, from, to) ==
  fd' = [k \in Level |->
           IF k # l /\ pc[k] = "fill" /\ idx[k] = rc /\ fd[k] = from
             THEN to
             ELSE fd[k]]

WriteSkip(l, rc) ==
  /\ Writing(l, "next", rc)
  /\ ~(active[rc] /\ changed[rc])
  /\ idx' = [idx EXCEPT ![l] = @ + 1]
  /\ UNCHANGED <<files, memory, pc, ok, cont, fd, faults, history>>

\* fopen(new_name, "w") creates or truncates.
WriteOpen(l, rc) ==
  /\ Writing(l, "next", rc)
  /\ active[rc] /\ changed[rc]
  /\ newFile' = [newFile EXCEPT ![rc] = {}]
  /\ fd' = [fd EXCEPT ![l] = "new"]
  /\ Goto(l, "fill")
  /\ UNCHANGED <<rcFile, oldFile, memory, idx, ok, cont, faults, history>>

WriteOpenFails(l, rc) ==
  /\ Writing(l, "next", rc)
  /\ active[rc] /\ changed[rc]
  /\ faults < MaxFaults
  /\ ok' = [ok EXCEPT ![l] = FALSE]
  /\ idx' = [idx EXCEPT ![l] = @ + 1]
  /\ faults' = faults + 1
  /\ failed' = [failed EXCEPT ![rc] = TRUE]
  /\ UNCHANGED <<files, memory, pc, cont, fd,
                 base, backed, saved, marked, interrupted, restored, overlaid>>

\* Mutant: a write error goes unnoticed.
WriteFillUnchecked(l, rc) ==
  /\ Writing(l, "fill", rc)
  /\ \E part \in SUBSET lines[rc] : newFile' = [newFile EXCEPT ![rc] = part]
  /\ Goto(l, "clear")
  /\ UNCHANGED <<rcFile, oldFile, memory, idx, ok, cont, fd, faults, history>>

\* A handler on top of level l moved l's ".new" away, and l's stream writes over
\* what is now the newsrc, or into a file without a name.
WriteAstray(l, rc) ==
  \/ /\ fd[l] = "name"
     /\ \E mix \in SUBSET lines[rc] : rcFile' = [rcFile EXCEPT ![rc] = mix]
  \/ /\ fd[l] = "gone"
     /\ UNCHANGED rcFile

\* Every line is written and the stream closed without error.
WriteFill(l, rc) ==
  /\ Writing(l, "fill", rc)
  /\ \/ /\ fd[l] = "new"
        /\ newFile' = [newFile EXCEPT ![rc] = lines[rc]]
        /\ UNCHANGED rcFile
     \/ WriteAstray(l, rc) /\ UNCHANGED newFile
  /\ Goto(l, "clear")
  /\ UNCHANGED <<oldFile, memory, idx, ok, cont, fd, faults, history>>

\* Mutant: the flag is cleared although the write failed.
WriteFillFailsForgets(l, rc) ==
  /\ Writing(l, "fill", rc)
  /\ faults < MaxFaults
  /\ newFile' = [newFile EXCEPT ![rc] = NoFile]
  /\ changed' = [changed EXCEPT ![rc] = FALSE]
  /\ ok' = [ok EXCEPT ![l] = FALSE]
  /\ idx' = [idx EXCEPT ![l] = @ + 1]
  /\ Goto(l, "next")
  /\ faults' = faults + 1
  /\ failed' = [failed EXCEPT ![rc] = TRUE]
  /\ UNCHANGED <<rcFile, oldFile, lines, active, multirc, ng, bits, restore,
                 cont, fd, base, backed, saved, marked, interrupted, restored,
                 overlaid>>

\* ferror or fclose reports a write error: ".new" is removed.
WriteFillFails(l, rc) ==
  /\ Writing(l, "fill", rc)
  /\ faults < MaxFaults
  /\ newFile' = [newFile EXCEPT ![rc] = NoFile]
  /\ (fd[l] = "new" /\ UNCHANGED rcFile) \/ WriteAstray(l, rc)
  /\ Move(l, rc, "new", "gone")
  /\ ok' = [ok EXCEPT ![l] = FALSE]
  /\ idx' = [idx EXCEPT ![l] = @ + 1]
  /\ Goto(l, "next")
  /\ faults' = faults + 1
  /\ failed' = [failed EXCEPT ![rc] = TRUE]
  /\ UNCHANGED <<oldFile, memory, cont,
                 base, backed, saved, marked, interrupted, restored, overlaid>>

\* Mutant: the flag is not cleared before the renames.
WriteClearKeepsFlag(l, rc) ==
  /\ Writing(l, "clear", rc)
  /\ saved' = [saved EXCEPT ![rc] = lines[rc]]
  /\ failed' = [failed EXCEPT ![rc] = FALSE]
  /\ Goto(l, "remove")
  /\ UNCHANGED <<files, memory, idx, ok, cont, fd, faults,
                 base, backed, marked, interrupted, restored, overlaid>>

\* rp->flags &= ~RF_RC_CHANGED
WriteClear(l, rc) ==
  /\ Writing(l, "clear", rc)
  /\ changed' = [changed EXCEPT ![rc] = FALSE]
  /\ saved' = [saved EXCEPT ![rc] = lines[rc]]
  /\ failed' = [failed EXCEPT ![rc] = FALSE]
  /\ Goto(l, "remove")
  /\ UNCHANGED <<files, lines, active, multirc, ng, bits, restore, idx, ok, cont,
                 fd, faults, base, backed, marked, interrupted, restored, overlaid>>

\* fs::remove(rp->name)
WriteRemove(l, rc) ==
  /\ Writing(l, "remove", rc)
  /\ rcFile' = [rcFile EXCEPT ![rc] = NoFile]
  /\ Move(l, rc, "name", "gone")
  /\ Goto(l, "rename")
  /\ UNCHANGED <<oldFile, newFile, memory, idx, ok, cont, faults, history>>

\* fs::rename(rp->new_name, rp->name), its error ignored.
WriteRename(l, rc) ==
  /\ Writing(l, "rename", rc)
  /\ IF newFile[rc] = NoFile
     THEN UNCHANGED <<rcFile, newFile, fd>>
     ELSE /\ rcFile' = [rcFile EXCEPT ![rc] = newFile[rc]]
          /\ newFile' = [newFile EXCEPT ![rc] = NoFile]
          /\ Move(l, rc, "new", "name")
  /\ idx' = [idx EXCEPT ![l] = @ + 1]
  /\ Goto(l, "next")
  /\ UNCHANGED <<oldFile, memory, ok, cont, faults, history>>

WriteReturn(l) ==
  /\ pc[l] = "next"
  /\ Current(l)
  /\ idx[l] > NumRcs
  /\ Goto(l, cont[l])
  /\ UNCHANGED <<files, memory, idx, ok, cont, fd, faults, history>>

WriteStep(l, rc) ==
  \/ WriteSkip(l, rc)
  \/ WriteOpen(l, rc)
  \/ WriteOpenFails(l, rc)
  \/ WriteFill(l, rc)
  \/ WriteFillFails(l, rc)
  \/ WriteClear(l, rc)
  \/ WriteRemove(l, rc)
  \/ WriteRename(l, rc)

-------------------------------------------------------------------------------
\* The session.

Running == pc["main"] = "running" /\ Current("main")

\* Mutant: the line is rebuilt but the newsrc not marked as changed.
BitsToRcQuiet ==
  /\ lines' = IF ng = 0 THEN lines ELSE [lines EXCEPT ![ng] = @ \cup bits]
  /\ UNCHANGED changed

\* bits_to_rc: the group's line is rebuilt from the bits and the newsrc marked
\* as changed.
BitsToRc ==
  IF ng = 0
  THEN UNCHANGED <<lines, changed>>
  ELSE /\ lines' = [lines EXCEPT ![ng] = @ \cup bits]
       /\ changed' = [changed EXCEPT ![ng] = TRUE]

\* do_newsgroup enters the twilight zone.
EnterGroup(rc) ==
  /\ Running
  /\ ng = 0
  /\ active[rc]
  /\ ng' = rc
  /\ bits' = {}
  /\ changed' = [changed EXCEPT ![rc] = TRUE]
  /\ UNCHANGED <<files, lines, active, multirc, restore, control, faults, history>>

ReadArticle(m) ==
  /\ Running
  /\ ng # 0
  /\ m \notin bits
  /\ bits' = bits \cup {m}
  /\ marked' = [marked EXCEPT ![ng] = @ \cup {m}]
  /\ UNCHANGED <<files, lines, changed, active, multirc, ng, restore, control,
                 faults, base, backed, saved, failed, interrupted, restored, overlaid>>

\* checkpoint_newsrcs, called by the pager while an article is read.
Checkpoint ==
  /\ Running
  /\ ng # 0
  /\ BitsToRc
  /\ CallWrite("main", "running")
  /\ UNCHANGED <<files, active, multirc, ng, bits, restore, fd, faults, history>>

\* The end of do_newsgroup.
LeaveGroup ==
  /\ Running
  /\ ng # 0
  /\ BitsToRc
  /\ ng' = 0
  /\ bits' = {}
  /\ IF UnsafeRcSaves
     THEN UNCHANGED <<pc, idx, ok, cont>>
     ELSE CallWrite("main", "running")
  /\ UNCHANGED <<files, active, multirc, restore, fd, faults, history>>

\* A command between groups edits a line: subscribe, unsubscribe, add a group.
EditLine(rc, m) ==
  /\ Running
  /\ ng = 0
  /\ active[rc]
  /\ m \notin lines[rc]
  /\ lines' = [lines EXCEPT ![rc] = @ \cup {m}]
  /\ changed' = [changed EXCEPT ![rc] = TRUE]
  /\ marked' = [marked EXCEPT ![rc] = @ \cup {m}]
  /\ UNCHANGED <<files, active, multirc, ng, bits, restore, control, faults,
                 base, backed, saved, failed, interrupted, restored, overlaid>>

\* catch_up between groups: the line is replaced and the newsrcs written.
CatchUp(rc, m) ==
  /\ Running
  /\ ng = 0
  /\ active[rc]
  /\ m \notin lines[rc]
  /\ lines' = [lines EXCEPT ![rc] = @ \cup {m}]
  /\ changed' = [changed EXCEPT ![rc] = TRUE]
  /\ marked' = [marked EXCEPT ![rc] = @ \cup {m}]
  /\ CallWrite("main", "running")
  /\ UNCHANGED <<files, active, multirc, ng, bits, restore, fd, faults,
                 base, backed, saved, failed, interrupted, restored, overlaid>>

\* Leaving the group list: 'q', or 'x' to abandon the session's changes.
\* do_multirc's bug_out writes first in either case.
Quit(abandon) ==
  /\ Running
  /\ ng = 0
  /\ restore' = abandon
  /\ CallWrite("main", "bugout")
  /\ UNCHANGED <<files, lines, changed, active, multirc, ng, bits, fd, faults,
                 history>>

\* After bug_out's write: roll back if asked to or if the write failed, then
\* finalize(0), whose unuse_multirc writes once more.
BugOut ==
  /\ pc["main"] = "bugout"
  /\ Current("main")
  /\ restore' = (restore \/ ~ok["main"])
  /\ IF restore'
     THEN /\ Goto("main", "goRemove")
          /\ idx' = [idx EXCEPT !["main"] = 1]
          /\ UNCHANGED <<ok, cont>>
     ELSE CallWrite("main", "exit")
  /\ UNCHANGED <<files, lines, changed, active, multirc, ng, bits, fd, faults,
                 history>>

-------------------------------------------------------------------------------
\* get_old_newsrcs, one newsrc after another.

GetOldRemove(rc) ==
  /\ Opening("goRemove", rc)
  /\ IF active[rc]
     THEN /\ newFile' = [newFile EXCEPT ![rc] = NoFile]
          /\ Goto("main", "goSave")
          /\ UNCHANGED idx
     ELSE /\ idx' = [idx EXCEPT !["main"] = @ + 1]
          /\ UNCHANGED <<newFile, pc>>
  /\ UNCHANGED <<rcFile, oldFile, memory, ok, cont, fd, faults, history>>

GetOldSave(rc) ==
  /\ Opening("goSave", rc)
  /\ IF rcFile[rc] = NoFile
     THEN UNCHANGED <<rcFile, newFile>>
     ELSE /\ newFile' = [newFile EXCEPT ![rc] = rcFile[rc]]
          /\ rcFile' = [rcFile EXCEPT ![rc] = NoFile]
  /\ restored' = [restored EXCEPT ![rc] = TRUE]
  /\ Goto("main", "goRestore")
  /\ UNCHANGED <<oldFile, memory, idx, ok, cont, fd, faults,
                 base, backed, saved, marked, failed, interrupted, overlaid>>

\* The rename's error decides whether the newsrc still counts as changed.
GetOldRestore(rc) ==
  /\ Opening("goRestore", rc)
  /\ IF oldFile[rc] = NoFile
     THEN /\ Goto("main", "goRemove")
          /\ idx' = [idx EXCEPT !["main"] = @ + 1]
          /\ UNCHANGED <<rcFile, oldFile>>
     ELSE /\ rcFile' = [rcFile EXCEPT ![rc] = oldFile[rc]]
          /\ oldFile' = [oldFile EXCEPT ![rc] = NoFile]
          /\ Goto("main", "goClear")
          /\ UNCHANGED idx
  /\ UNCHANGED <<newFile, memory, ok, cont, fd, faults, history>>

GetOldClear(rc) ==
  /\ Opening("goClear", rc)
  /\ changed' = [changed EXCEPT ![rc] = FALSE]
  /\ idx' = [idx EXCEPT !["main"] = @ + 1]
  /\ Goto("main", "goRemove")
  /\ UNCHANGED <<files, lines, active, multirc, ng, bits, restore, ok, cont, fd,
                 faults, history>>

GetOldDone ==
  /\ pc["main"] = "goRemove"
  /\ Current("main")
  /\ idx["main"] > NumRcs
  /\ CallWrite("main", "exit")
  /\ UNCHANGED <<files, memory, fd, faults, history>>

-------------------------------------------------------------------------------
\* Signals, exits and crashes.

NoteInterrupt ==
  interrupted' = [rc \in Rcs |-> interrupted[rc] \/ Busy(rc)]

\* stop_catcher at level l: checkpoint ("good chance of crash while stopped"),
\* then stop.
StopCatcher(l) ==
  /\ faults < MaxFaults
  /\ faults' = faults + 1
  /\ NoteInterrupt
  /\ IF multirc  \* write_newsrcs(nullptr) does nothing
     THEN BitsToRc /\ CallWrite(l, "stopped")
     ELSE /\ Goto(l, "stopped")
          /\ ok' = [ok EXCEPT ![l] = TRUE]
          /\ UNCHANGED <<lines, changed, idx, cont>>
  /\ UNCHANGED <<files, active, multirc, ng, bits, restore, fd,
                 base, backed, saved, marked, failed, restored>>

StopSignal ==
  /\ pc["main"] # "down"
  /\ Current("main")
  /\ StopCatcher("stop")
  /\ UNCHANGED overlaid

\* sig_catcher leaves SIGTSTP as it is, and stop_catcher looks at g_waiting
\* only. Inside stop_catcher the signal is blocked, or stops the process and
\* runs no handler.
StopInFatal ==
  /\ Current("fatal")
  /\ pc["stop"] = "idle"
  /\ StopCatcher("late")
  /\ overlaid' =
       [rc \in Rcs |-> \/ overlaid[rc]
                       \/ pc["fatal"] \in {"fill", "clear"} /\ idx["fatal"] = rc]

\* SIGCONT: the handler returns into whatever it interrupted.
Continue(l) ==
  /\ pc[l] = "stopped"
  /\ Current(l)
  /\ Goto(l, "idle")
  /\ idx' = [idx EXCEPT ![l] = 1]
  /\ ok' = [ok EXCEPT ![l] = TRUE]
  /\ UNCHANGED <<files, memory, cont, fd, faults, history>>

\* sig_catcher: rebuild the line, write, then finalize.
FatalSignal ==
  /\ pc["main"] # "down"
  /\ pc["fatal"] = "idle"
  /\ faults < MaxFaults
  /\ faults' = faults + 1
  /\ NoteInterrupt
  /\ IF multirc  \* write_newsrcs(nullptr) does nothing
     THEN BitsToRc /\ CallWrite("fatal", "finalize")
     ELSE Goto("fatal", "exit") /\ UNCHANGED <<lines, changed, idx, ok, cont>>
  /\ ng' = 0
  /\ bits' = {}
  /\ UNCHANGED <<files, active, multirc, restore, fd,
                 base, backed, saved, marked, failed, restored, overlaid>>

\* finalize -> unuse_multirc writes whatever is still flagged.
FatalFinalize ==
  /\ pc["fatal"] = "finalize"
  /\ Current("fatal")
  /\ CallWrite("fatal", "exit")
  /\ UNCHANGED <<files, memory, fd, faults, history>>

\* The process is gone: its memory and its activations with it.
ProcessEnds ==
  /\ pc' = [l \in Level |-> IF l = "main" THEN "down" ELSE "idle"]
  /\ lines' = [rc \in Rcs |-> {}]
  /\ changed' = [rc \in Rcs |-> FALSE]
  /\ active' = [rc \in Rcs |-> FALSE]
  /\ multirc' = FALSE
  /\ ng' = 0
  /\ bits' = {}
  /\ restore' = FALSE
  /\ idx' = [l \in Level |-> 1]
  /\ ok' = [l \in Level |-> TRUE]
  /\ cont' = [l \in Level |-> "exit"]
  /\ fd' = [l \in Level |-> "new"]
  /\ UNCHANGED <<files, history>>

Exit ==
  /\ \E l \in Level : Current(l) /\ pc[l] = "exit"
  /\ ProcessEnds
  /\ UNCHANGED faults

\* kill -9, a power failure, or a fatal signal inside sig_catcher (abort).
Crash ==
  /\ pc["main"] # "down"
  /\ faults < MaxFaults
  /\ faults' = faults + 1
  /\ ProcessEnds

-------------------------------------------------------------------------------
OpenStep(rc) ==
  \/ OpenMissing(rc)
  \/ Seed(rc)
  \/ OpenRefused(rc)
  \/ RemoveOld(rc)
  \/ CopyOld(rc)
  \/ CopyFails(rc)
  \/ Load(rc)

GetOldStep(rc) ==
  \/ GetOldRemove(rc)
  \/ GetOldSave(rc)
  \/ GetOldRestore(rc)
  \/ GetOldClear(rc)

Next ==
  \/ Start
  \/ \E rc \in Rcs : OpenStep(rc)
  \/ OpenDone
  \/ \E l \in Level, rc \in Rcs : WriteStep(l, rc)
  \/ \E l \in Level : WriteReturn(l)
  \/ \E rc \in Rcs : EnterGroup(rc)
  \/ \E m \in Marks : ReadArticle(m)
  \/ Checkpoint
  \/ LeaveGroup
  \/ \E rc \in Rcs, m \in Marks : EditLine(rc, m) \/ CatchUp(rc, m)
  \/ \E abandon \in BOOLEAN : Quit(abandon)
  \/ BugOut
  \/ \E rc \in Rcs : GetOldStep(rc)
  \/ GetOldDone
  \/ StopSignal
  \/ StopInFatal
  \/ \E l \in {"stop", "late"} : Continue(l)
  \/ FatalSignal
  \/ FatalFinalize
  \/ Exit
  \/ Crash

Spec == Init /\ [][Next]_vars

-------------------------------------------------------------------------------
FilesOK ==
  /\ rcFile \in [Rcs -> File]
  /\ oldFile \in [Rcs -> File]
  /\ newFile \in [Rcs -> File]

MemoryOK ==
  /\ lines \in [Rcs -> Content]
  /\ changed \in [Rcs -> BOOLEAN]
  /\ active \in [Rcs -> BOOLEAN]
  /\ multirc \in BOOLEAN
  /\ ng \in Rcs \cup {0}
  /\ bits \in SUBSET Marks
  /\ restore \in BOOLEAN

Return == {"running", "bugout", "exit", "stopped", "finalize"}

ControlOK ==
  /\ pc \in [Level -> PC]
  /\ idx \in [Level -> 1..(NumRcs + 1)]
  /\ ok \in [Level -> BOOLEAN]
  /\ cont \in [Level -> Return]
  /\ fd \in [Level -> {"new", "name", "gone"}]
  /\ faults \in 0..MaxFaults

HistoryOK ==
  /\ base \in [Rcs -> Content]
  /\ backed \in [Rcs -> BOOLEAN]
  /\ saved \in [Rcs -> File]
  /\ marked \in [Rcs -> SUBSET Marks]
  /\ failed \in [Rcs -> BOOLEAN]
  /\ interrupted \in [Rcs -> BOOLEAN]
  /\ restored \in [Rcs -> BOOLEAN]
  /\ overlaid \in [Rcs -> BOOLEAN]

\* Every variable stays in its domain.
TypeOK == FilesOK /\ MemoryOK /\ ControlOK /\ HistoryOK

\* Whatever is interrupted, fails or crashes, in any combination but one, the
\* newsrc a session started from can still be found under one of the three names,
\* until a later startup finds no newsrc at all (open_newsrc's copy to old_name,
\* and the order of the removes and renames of write_newsrcs and
\* get_old_newsrcs). The combination that does lose it is exempt: after a failed
\* write get_old_newsrcs renames ".old" over the newsrc; before it has cleared
\* the flag a fatal signal arrives, whose handler writes ".new"; and while it
\* does, SIGTSTP's checkpoint rewrites the same ".new" and renames it (or its
\* write fails and it removes ".new"). After SIGCONT the fatal handler's stream
\* writes over the newsrc; then it removes it and has no ".new" left to rename
\* (final.cpp:277, rcstuff.cpp:1893-1897 and 1923-1926).
BackupSurvives ==
  \A rc \in Rcs : backed[rc] /\ ~(restored[rc] /\ overlaid[rc]) =>
    \/ Holds(rcFile[rc], base[rc])
    \/ Holds(oldFile[rc], base[rc])
    \/ Holds(newFile[rc], base[rc])

\* RF_RC_CHANGED is what tells write_newsrcs to skip a newsrc: whenever it is
\* clear, and no signal cut into the work on that newsrc, the file on disk is
\* what is in memory.
UnchangedMeansSaved ==
  \A rc \in Rcs :
    /\ active[rc]
    /\ ~changed[rc]
    /\ ~interrupted[rc]
    /\ ~restored[rc]
    /\ ~Busy(rc)
    => rcFile[rc] = lines[rc]

\* What the last successful write wrote is whole under the newsrc's name or
\* under ".new", also after a crash, unless a handler ran in the middle of the
\* rewrite: write_newsrcs never leaves a half-written newsrc.
SavedStaysWhole ==
  \A rc \in Rcs :
    ~interrupted[rc] /\ ~restored[rc] => saved[rc] \in {rcFile[rc], newFile[rc]}

AtExit == \E l \in Level : Current(l) /\ pc[l] = "exit"

\* A session that ends in an orderly way, or by a fatal signal that did not cut
\* into the work on the newsrc, leaves everything the user marked in the file,
\* unless the write failed or the changes were rolled back (sig_catcher's
\* bits_to_rc, the repeated writes of bug_out and unuse_multirc).
ExitKeepsMarks ==
  AtExit =>
    \A rc \in Rcs :
      active[rc] /\ ~interrupted[rc] /\ ~restored[rc] /\ ~failed[rc]
        => marked[rc] \subseteq rcFile[rc]

\* 'x' leaves the newsrc as it was when the session started and the abandoned
\* changes in ".new" ("The abandoned changes are in %s.new").
AbandonRestores ==
  pc["main"] = "exit" /\ Current("main") /\ restore =>
    \A rc \in Rcs :
      active[rc] /\ backed[rc] /\ ~interrupted[rc] /\ ~failed[rc]
        => /\ rcFile[rc] = base[rc]
           /\ Holds(newFile[rc], marked[rc])

\* Every way out of a session leaves on disk what it says: the marks, or with 'x'
\* the newsrc as it was.
ExitsAsAsked == ExitKeepsMarks /\ AbandonRestores

\* "good chance of crash while stopped": while trn is stopped by SIGTSTP, and
\* its checkpoint reported no error, all that is in memory is in the newsrcs.
StoppedIsSafe ==
  \A l \in {"stop", "late"} :
    pc[l] = "stopped" /\ Current(l) /\ ok[l] =>
      \A rc \in Rcs : active[rc] => rcFile[rc] = lines[rc]

-------------------------------------------------------------------------------
(***************************************************************************)
(* The inductive invariant behind BackupSurvives. A newsrc is Rolled when  *)
(* its backup has been renamed back over it; only then does the backup not *)
(* hold the base, and only a handler that cuts into get_old_newsrcs before *)
(* it clears the flag can still rewrite the newsrc. Unless the newsrc is   *)
(* overlaid, no handler is then between the remove and the rename while    *)
(* another one writes.                                                     *)
(***************************************************************************)
MidWrite == WritePC \ {"next"}

\* main is past the session: nothing is being read any more.
Ending ==
  \/ pc["main"] \in GetOldPC \cup {"bugout"}
  \/ pc["main"] \in WritePC \cup {"exit"} /\ cont["main"] \in {"bugout", "exit"}

LevelShape ==
  /\ pc["main"] \in PC \ {"idle", "stopped", "finalize"}
  /\ pc["stop"] \in WritePC \cup {"idle", "stopped"}
  /\ pc["fatal"] \in WritePC \cup {"idle", "finalize", "exit"}
  /\ cont["main"] \in {"running", "bugout", "exit"}
  /\ pc["stop"] \in WritePC => cont["stop"] = "stopped"
  /\ cont["fatal"] \in {"finalize", "exit"}
  /\ pc["late"] \in WritePC \cup {"idle", "stopped"}
  /\ pc["late"] \in WritePC => cont["late"] = "stopped"
  /\ pc["late"] # "idle" => pc["fatal"] # "idle" /\ pc["stop"] = "idle"
  /\ pc["main"] = "down" => pc["stop"] = "idle" /\ pc["fatal"] = "idle"
  /\ pc["main"] \in OpenPC \cup {"down"} => ~multirc
  /\ ~multirc => /\ pc["main"] \in OpenPC \cup {"down", "exit"}
                  /\ pc["stop"] \in {"idle", "stopped"}
                  /\ pc["fatal"] \in {"idle", "exit"}
                  /\ pc["late"] \in {"idle", "stopped"}
                  /\ ng = 0
  /\ Ending => ng = 0

ActiveShape ==
  /\ pc["main"] = "down" => \A rc \in Rcs : ~active[rc]
  /\ pc["main"] \in OpenPC => \A rc \in Rcs : rc >= idx["main"] => ~active[rc]
  /\ \A l \in Level : pc[l] \in MidWrite => idx[l] \in Rcs /\ active[idx[l]]
  /\ pc["main"] \in {"goSave", "goRestore", "goClear"} =>
       idx["main"] \in Rcs /\ active[idx["main"]]

OpenShape ==
  \A rc \in Rcs : idx["main"] = rc =>
    /\ pc["main"] \in {"seed", "copy", "load"} => rcFile[rc] # NoFile
    /\ pc["main"] = "seed" => ~backed[rc]
    /\ pc["main"] \in {"copy", "load"} /\ backed[rc] => rcFile[rc] = base[rc]
    /\ pc["main"] = "load" /\ backed[rc] => oldFile[rc] = base[rc]

MemoryHolds ==
  \A rc \in Rcs : active[rc] /\ backed[rc] => base[rc] \subseteq lines[rc]

Rolled(rc) == active[rc] /\ backed[rc] /\ oldFile[rc] # base[rc]

AtHandler(p, rc) ==
  \E l \in {"stop", "fatal", "late"} : pc[l] = p /\ idx[l] = rc

\* main has got at least as far as the flag of a rolled newsrc.
Late(rc) ==
  \/ pc["main"] = "goClear" /\ idx["main"] = rc
  \/ /\ ~changed[rc]
     /\ \/ pc["main"] \in GetOldPC /\ idx["main"] > rc
        \/ /\ cont["main"] = "exit"
           /\ \/ pc["main"] \in {"exit", "next"}
              \/ pc["main"] \in MidWrite /\ idx["main"] # rc

\* A newsrc is rolled by get_old_newsrcs only.
RolledIsRestored ==
  \A rc \in Rcs :
    /\ Rolled(rc) => restored[rc]
    /\ pc["main"] \in {"goRestore", "goClear"} /\ idx["main"] = rc => restored[rc]

\* A handler's stream writes to ".new", unless SIGTSTP cut into the fatal one.
HandlerStreams ==
  /\ pc["stop"] = "fill" /\ pc["fatal"] = "idle" => fd["stop"] = "new"
  /\ pc["late"] = "fill" => fd["late"] = "new"
  /\ \A rc \in Rcs :
       /\ /\ idx["fatal"] = rc
          /\ \/ pc["fatal"] \in {"fill", "clear"} /\ pc["late"] # "idle"
             \/ pc["fatal"] = "fill" /\ fd["fatal"] # "new"
          => overlaid[rc]
       /\ overlaid[rc] => interrupted[rc]

RolledShape ==
  \A rc \in Rcs : Rolled(rc) /\ ~overlaid[rc] =>
    /\ Late(rc)
    /\ \/ Holds(rcFile[rc], base[rc])
       \/ AtHandler("rename", rc)
    /\ AtHandler("remove", rc) \/ AtHandler("rename", rc) =>
         Holds(newFile[rc], base[rc]) /\ ~changed[rc]
    /\ ~ /\ pc["stop"] \in {"remove", "rename"} /\ idx["stop"] = rc
         /\ pc["fatal"] \in MidWrite /\ idx["fatal"] = rc
    /\ ~ (pc["fatal"] \in MidWrite /\ idx["fatal"] = rc /\ pc["late"] \in MidWrite
            /\ idx["late"] = rc)
    /\ \A l \in {"stop", "fatal", "late"} :
         idx[l] = rc /\ pc[l] \in {"fill", "clear"} /\ Current(l) =>
           /\ changed[rc]
           /\ pc[l] = "clear" => Holds(newFile[rc], base[rc])

InactiveSurvives ==
  \A rc \in Rcs : backed[rc] /\ ~active[rc] /\ ~(restored[rc] /\ overlaid[rc]) =>
    \/ Holds(rcFile[rc], base[rc])
    \/ Holds(oldFile[rc], base[rc])
    \/ Holds(newFile[rc], base[rc])

IInv ==
  /\ TypeOK
  /\ LevelShape
  /\ ActiveShape
  /\ OpenShape
  /\ MemoryHolds
  /\ RolledIsRestored
  /\ HandlerStreams
  /\ RolledShape
  /\ InactiveSurvives

(***************************************************************************)
(* What UnchangedMeansSaved, SavedStaysWhole and ExitsAsAsked rest on: of  *)
(* a newsrc into whose writing no signal cut, one level at most is in the  *)
(* middle, and it is the level that runs.                                  *)
(***************************************************************************)
Sound(rc) == ~interrupted[rc] /\ ~restored[rc]

Frozen ==
  \A l \in Level, rc \in Rcs : Mid(l, rc) /\ ~Current(l) => interrupted[rc]

At(l, ps, rc) == pc[l] \in ps /\ idx[l] = rc

\* A stream writes to ".new" unless a handler moved that file, and the flag
\* that was cleared stays clear up to the rename.
StreamShape ==
  \A rc \in Rcs : ~interrupted[rc] =>
    \A l \in Level :
      /\ At(l, {"fill"}, rc) => fd[l] = "new"
      /\ At(l, {"remove", "rename"}, rc) => ~changed[rc]

\* Where the text is that the last good write, or else the opening, has seen.
SavedShape ==
  \A rc \in Rcs : Sound(rc) =>
    /\ ~active[rc] => saved[rc] \in {rcFile[rc], newFile[rc]}
    /\ At("main", {"seed", "copy", "load"}, rc) => saved[rc] = rcFile[rc]
    /\ \A l \in Level : At(l, {"clear", "remove", "rename"}, rc) =>
          newFile[rc] = lines[rc]
    /\ active[rc] /\ ~changed[rc] => saved[rc] = lines[rc]
    /\ active[rc] =>
         \/ saved[rc] = rcFile[rc]
         \/ \E l \in Level : At(l, {"remove", "rename"}, rc)

\* What the user marked is in memory: in the line, or in the group's bits.
MarkedShape ==
  /\ pc["fatal"] # "idle" => ng = 0
  /\ pc["main"] \in OpenPC \cup {"down", "exit"} => cont["main"] = "exit"
  /\ ~multirc => ~restore
  /\ \A rc \in Rcs :
       /\ At("main", {"seed", "copy", "load"}, rc) =>
            marked[rc] = {} /\ ~restored[rc]
       /\ active[rc] /\ ~multirc => marked[rc] = {}
       /\ active[rc] => marked[rc] \subseteq lines[rc] \cup (IF ng = rc THEN bits ELSE {})

\* Level l, on its way out of the session, is past writing rc.
Past(l, rc) ==
  \/ pc[l] \in WritePC /\ cont[l] \in {"bugout", "exit"} /\ idx[l] > rc
  \/ pc[l] \in GetOldPC \cup {"bugout", "exit"}

PastShape ==
  multirc => \A l \in Level, rc \in Rcs :
    Past(l, rc) /\ active[rc] => ~changed[rc] \/ failed[rc] \/ interrupted[rc]

\* main, in get_old_newsrcs or after it, has given rc's backup its old name.
PastRestore(rc) ==
  \/ pc["main"] \in GetOldPC /\ idx["main"] > rc
  \/ At("main", {"goRestore", "goClear"}, rc)
  \/ cont["main"] = "exit" /\ pc["main"] \in WritePC \cup {"exit"}

RestoredShape ==
  \A rc \in Rcs : active[rc] =>
    /\ restored[rc] => PastRestore(rc)
    /\ pc["main"] \in GetOldPC => multirc
    /\ At("main", {"goRestore", "goClear"}, rc) => restored[rc]
    /\ restore /\ PastRestore(rc) => restored[rc]
    /\ restored[rc] /\ backed[rc] /\ ~interrupted[rc] =>
         /\ \A l \in Level : ~At(l, MidWrite, rc)
         /\ \/ At("main", {"goRestore"}, rc)
            \/ /\ rcFile[rc] = base[rc]
               /\ changed[rc] => At("main", {"goClear"}, rc)
         /\ ~failed[rc] => Holds(newFile[rc], marked[rc])

SavedInv ==
  /\ Frozen
  /\ StreamShape
  /\ SavedShape
  /\ MarkedShape
  /\ PastShape
  /\ RestoredShape

===============================================================================
