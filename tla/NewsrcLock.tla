------------------------------- MODULE NewsrcLock -------------------------------
(***************************************************************************)
(* Several trn processes and the lock files of their newsrcs.              *)
(*                                                                         *)
(* Translated from libtrn/rcstuff.cpp: lock_newsrc, unlock_newsrc,         *)
(* use_multirc, unuse_multirc, use_next_multirc, use_prev_multirc and      *)
(* rcstuff_init. A process reads a lock file, judges what it read, and     *)
(* then creates and fills one of its own; others run between those steps.  *)
(* What is done to the newsrcs themselves is the subject of Newsrc.        *)
(***************************************************************************)
EXTENDS Integers, Sequences, FiniteSets

CONSTANTS
  Procs,      \* the processes there may be: a host and a process number each
  HostOf,     \* the host of each
  Files,      \* the newsrcs
  Groups,     \* the groups of newsrcs that are used together, by number; the
              \* first one, number 0, is made when no other can be used
  First,      \* the one that the access file names first
  NoLock,     \* no lock file
  Empty,      \* a lock file that is created and not yet filled
  MaxStarts, MaxFaults   \* bounds

ASSUME GroupsAssumption ==
  Groups \in Seq(Seq(Files) \ {<<>>}) /\ First \in DOMAIN Groups \ {1}
ASSUME LockAssumption == {NoLock, Empty} \cap Procs = {} /\ NoLock # Empty
ASSUME BoundAssumption == MaxStarts \in Nat /\ MaxFaults \in Nat

VARIABLES
  lock,     \* the lock file of each newsrc: the process that it names
  pc,       \* where each process is
  group,    \* the multirc it uses or tries
  entry,    \* the newsrc of the multirc that it is at
  named,    \* the entries whose lock_name is set
  active,   \* the entries that are RF_ACTIVE
  down,     \* the newsrcs whose data source is DF_UNAVAILABLE
  saw,      \* what it read in the lock file
  why,      \* what it is using or leaving the multirc for
  low,      \* the lowest number there is
  home,     \* the multirc that the scan for another one started from
  way,      \* the direction of that scan, 0 for the one of rcstuff_init
  \* History: newsrcs that two processes were locking at the same time, that a
  \* process tried to lock when it had them, and processes that once ended
  \* without giving their newsrcs back.
  overlapped, twice, abrupt,
  starts, faults

counters == <<starts, faults>>
history == <<overlapped, twice, abrupt>>
place == <<group, entry, why, low, home, way>>
vars == <<lock, pc, place, named, active, down, saw, history, counters>>

FileOf(p, e) == Groups[group[p]][e]
Here(p) == FileOf(p, entry[p])
Locking(p) == pc[p] \in {"judge", "create", "write"}
Running(p) == pc[p] # "off"

\* A newsrc that the process has, by an entry that has a lock name and whose
\* lock is not just being made.
Holds(p, e, f) ==
  e \in named[p] /\ FileOf(p, e) = f /\ ~(Locking(p) /\ entry[p] = e)
Claims(p, f) == \E e \in named[p] : Holds(p, e, f)
Uses(p, f) ==
  \/ pc[p] = "open" /\ Here(p) = f
  \/ \E e \in active[p] : FileOf(p, e) = f

-------------------------------------------------------------------------------
\* use_multirc and what its callers do with its result.

At(p, m, e, reason) ==
  /\ pc' = [pc EXCEPT ![p] = "lock"]
  /\ group' = [group EXCEPT ![p] = m]
  /\ entry' = [entry EXCEPT ![p] = e]
  /\ why' = [why EXCEPT ![p] = reason]
Moves(p, where) ==
  pc' = [pc EXCEPT ![p] = where] /\ UNCHANGED place

\* The process ends; the lock files that it does not remove stay.
Ends(p) ==
  /\ pc' = [pc EXCEPT ![p] = "off"]
  /\ named' = [named EXCEPT ![p] = {}]
  /\ active' = [active EXCEPT ![p] = {}]
  /\ UNCHANGED place

\* The next one, around the numbers there are.
After(p) ==
  IF way[p] >= 0 THEN IF group[p] < Len(Groups) THEN group[p] + 1 ELSE low[p]
  ELSE IF group[p] > low[p] THEN group[p] - 1 ELSE Len(Groups)

\* When the scan is back where it started, that one is used again.
Scan(p) ==
  /\ At(p, After(p), 1, IF After(p) = home[p] THEN "home" ELSE "scan")
  /\ UNCHANGED <<low, home, way>>

\* None of the newsrcs could be used.
Failed(p) ==
  CASE why[p] = "scan" -> Scan(p)
    [] why[p] = "home" /\ way[p] = 0 ->
         /\ low' = [low EXCEPT ![p] = 1]
         /\ At(p, 1, 1, "default")
         /\ UNCHANGED <<home, way>>
    [] why[p] = "default" -> Moves(p, "off")
    [] OTHER -> Moves(p, "idle")

\* On to the next newsrc of the multirc, or use_multirc returns.
NextEntry(p, used) ==
  IF entry[p] < Len(Groups[group[p]])
  THEN At(p, group[p], entry[p] + 1, why[p]) /\ UNCHANGED <<low, home, way>>
  ELSE IF used # {} THEN Moves(p, "idle")
  ELSE Failed(p)

Start(p) ==
  /\ pc[p] = "off" /\ starts < MaxStarts
  /\ starts' = starts + 1
  /\ At(p, First, 1, "scan")
  /\ low' = [low EXCEPT ![p] = 2]
  /\ home' = [home EXCEPT ![p] = First]
  /\ way' = [way EXCEPT ![p] = 0]
  /\ down' = [down EXCEPT ![p] = {}]
  /\ UNCHANGED <<lock, named, active, saw, history, faults>>

Unavailable(p) ==
  /\ pc[p] = "lock" /\ Here(p) \in down[p]
  /\ NextEntry(p, active[p])
  /\ UNCHANGED <<lock, named, active, down, saw, history, counters>>

-------------------------------------------------------------------------------
\* lock_newsrc.

ReadLock(p) ==
  /\ pc[p] = "lock" /\ Here(p) \notin down[p]
  /\ named' = [named EXCEPT ![p] = @ \cup {entry[p]}]
  /\ saw' = [saw EXCEPT ![p] = lock[Here(p)]]
  /\ overlapped' = IF \E q \in Procs \ {p} : Locking(q) /\ Here(q) = Here(p)
                   THEN overlapped \cup {Here(p)} ELSE overlapped
  /\ Moves(p, "judge")
  /\ UNCHANGED <<lock, active, down, twice, abrupt, counters>>

\* The lock is that of another process that may be alive.
Foreign(p) ==
  saw[p] \in Procs /\ saw[p] # p /\ (HostOf[saw[p]] # HostOf[p] \/ Running(saw[p]))

\* finalize: g_multirc is not set, so the newsrcs that were locked before stay
\* locked.
TurnedAway(p) ==
  /\ pc[p] = "judge" /\ Foreign(p)
  /\ Ends(p)
  /\ abrupt' = abrupt \cup {p}
  /\ UNCHANGED <<lock, down, saw, overlapped, twice, counters>>

OwnPid(p) ==
  /\ pc[p] = "judge" /\ saw[p] = p
  /\ twice' = IF Claims(p, Here(p)) THEN twice \cup {Here(p)} ELSE twice
  /\ Moves(p, "unlock")
  /\ UNCHANGED <<lock, named, active, down, saw, overlapped, abrupt, counters>>

\* A plausible mistake: the process is looked for on this host only.
FreeHere(p) ==
  ~(saw[p] \in Procs /\ HostOf[saw[p]] = HostOf[p] /\ Running(saw[p]))
\* There was no lock, or its process is gone.
Free(p) == ~Foreign(p)
Judged(p) ==
  /\ pc[p] = "judge" /\ saw[p] # p /\ Free(p)
  /\ Moves(p, "create")
  /\ UNCHANGED <<lock, named, active, down, saw, history, counters>>

Create(p) ==
  /\ pc[p] = "create"
  /\ lock' = [lock EXCEPT ![Here(p)] = Empty]
  /\ Moves(p, "write")
  /\ UNCHANGED <<named, active, down, saw, history, counters>>

CannotCreate(p) ==
  /\ pc[p] = "create" /\ faults < MaxFaults
  /\ faults' = faults + 1
  /\ Ends(p)
  /\ abrupt' = abrupt \cup {p}
  /\ UNCHANGED <<lock, down, saw, overlapped, twice, starts>>

Write(p) ==
  /\ pc[p] = "write"
  /\ lock' = [lock EXCEPT ![Here(p)] = p]
  /\ Moves(p, "open")
  /\ UNCHANGED <<named, active, down, saw, history, counters>>

-------------------------------------------------------------------------------
\* DataSource::open and open_newsrc.

Open(p) ==
  /\ pc[p] = "open"
  /\ active' = [active EXCEPT ![p] = @ \cup {entry[p]}]
  /\ NextEntry(p, active'[p])
  /\ UNCHANGED <<lock, named, down, saw, history, counters>>

OpenFails(p) ==
  /\ pc[p] = "open" /\ faults < MaxFaults
  /\ faults' = faults + 1
  /\ Moves(p, "unlock")
  /\ UNCHANGED <<lock, named, active, down, saw, history, starts>>

\* unlock_newsrc removes the lock file, whatever it holds.
RemoveLock(p) ==
  /\ lock' = IF entry[p] \in named[p] THEN [lock EXCEPT ![Here(p)] = NoLock] ELSE lock
  /\ named' = [named EXCEPT ![p] = @ \ {entry[p]}]

\* A plausible mistake: the lock is forgotten, and its file stays.
UnlockForgets(p) ==
  /\ pc[p] = "unlock"
  /\ named' = [named EXCEPT ![p] = @ \ {entry[p]}]
  /\ NextEntry(p, active[p])
  /\ UNCHANGED <<lock, active, down, saw, history, counters>>
Unlock(p) ==
  /\ pc[p] = "unlock"
  /\ RemoveLock(p)
  /\ NextEntry(p, active[p])
  /\ UNCHANGED <<active, down, saw, history, counters>>

-------------------------------------------------------------------------------
\* The multirc is in use.

Leave(p, reason) ==
  /\ pc' = [pc EXCEPT ![p] = "unuse"]
  /\ entry' = [entry EXCEPT ![p] = 1]
  /\ why' = [why EXCEPT ![p] = reason]
  /\ UNCHANGED group

Quit(p) ==
  /\ pc[p] = "idle"
  /\ IF active[p] = {} THEN Moves(p, "off")
     ELSE Leave(p, "quit") /\ UNCHANGED <<low, home, way>>
  /\ UNCHANGED <<lock, named, active, down, saw, history, counters>>

\* Control-n and control-p. Without a multirc the code would follow a null
\* pointer.
Another(p) ==
  /\ pc[p] = "idle" /\ active[p] # {} /\ starts < MaxStarts
  /\ starts' = starts + 1
  /\ \E d \in {-1, 1} : way' = [way EXCEPT ![p] = d]
  /\ home' = [home EXCEPT ![p] = group[p]]
  /\ Leave(p, "scan")
  /\ UNCHANGED <<lock, named, active, down, saw, low, history, faults>>

\* nntp_server_died: the multirc again, without the newsrcs of that server.
ServerDied(p) ==
  /\ pc[p] = "idle" /\ faults < MaxFaults
  /\ faults' = faults + 1
  /\ \E e \in active[p] : down' = [down EXCEPT ![p] = @ \cup {FileOf(p, e)}]
  /\ Leave(p, "died")
  /\ UNCHANGED <<lock, named, active, saw, low, home, way, history, starts>>

\* unuse_multirc, newsrc by newsrc, and what its callers go on with.
Unuse(p) ==
  /\ pc[p] = "unuse"
  /\ RemoveLock(p)
  /\ active' = [active EXCEPT ![p] = @ \ {entry[p]}]
  /\ IF entry[p] < Len(Groups[group[p]])
     THEN /\ entry' = [entry EXCEPT ![p] = @ + 1]
          /\ UNCHANGED <<pc, group, why, low, home, way>>
     ELSE CASE why[p] = "quit" -> Moves(p, "off")
            [] why[p] = "scan" -> Scan(p)
            [] why[p] = "died" ->
                 At(p, group[p], 1, "died") /\ UNCHANGED <<low, home, way>>
  /\ UNCHANGED <<down, saw, history, counters>>

\* A crash, or a signal that is not caught.
Crash(p) ==
  /\ Running(p) /\ faults < MaxFaults
  /\ faults' = faults + 1
  /\ Ends(p)
  /\ abrupt' = abrupt \cup {p}
  /\ UNCHANGED <<lock, down, saw, overlapped, twice, starts>>

Init ==
  /\ lock = [f \in Files |-> NoLock]
  /\ pc = [p \in Procs |-> "off"]
  /\ group = [p \in Procs |-> First] /\ entry = [p \in Procs |-> 1]
  /\ named = [p \in Procs |-> {}] /\ active = [p \in Procs |-> {}]
  /\ down = [p \in Procs |-> {}]
  /\ saw = [p \in Procs |-> NoLock]
  /\ why = [p \in Procs |-> "scan"]
  /\ low = [p \in Procs |-> 2]
  /\ home = [p \in Procs |-> First] /\ way = [p \in Procs |-> 0]
  /\ overlapped = {} /\ twice = {} /\ abrupt = {}
  /\ starts = 0 /\ faults = 0

Next ==
  \E p \in Procs :
    \/ Start(p) \/ Unavailable(p) \/ ReadLock(p) \/ TurnedAway(p) \/ OwnPid(p)
    \/ Judged(p) \/ Create(p) \/ CannotCreate(p) \/ Write(p)
    \/ Open(p) \/ OpenFails(p) \/ Unlock(p)
    \/ Quit(p) \/ Another(p) \/ ServerDied(p) \/ Unuse(p) \/ Crash(p)

Spec == Init /\ [][Next]_vars

-------------------------------------------------------------------------------
\* Properties.

\* Every variable stays in its domain.
TypeOK ==
  /\ lock \in [Files -> Procs \cup {NoLock, Empty}]
  /\ pc \in [Procs -> {"off", "lock", "judge", "create", "write", "open", "unlock",
                       "idle", "unuse"}]
  /\ group \in [Procs -> DOMAIN Groups]
  /\ entry \in [Procs -> Nat \ {0}]
  /\ named \in [Procs -> SUBSET (Nat \ {0})]
  /\ active \in [Procs -> SUBSET (Nat \ {0})]
  /\ \A p \in Procs : named[p] \cup active[p] \cup {entry[p]} \subseteq DOMAIN Groups[group[p]]
  /\ down \in [Procs -> SUBSET Files]
  /\ saw \in [Procs -> Procs \cup {NoLock, Empty}]
  /\ why \in [Procs -> {"scan", "home", "default", "quit", "died"}]
  /\ low \in [Procs -> {1, 2}] /\ home \in [Procs -> DOMAIN Groups]
  /\ way \in [Procs -> {-1, 0, 1}]
  /\ overlapped \subseteq Files /\ twice \subseteq Files /\ abrupt \subseteq Procs
  /\ starts \in Nat /\ faults \in Nat

\* Two processes use a newsrc at the same time only if they were locking it at
\* the same time, or one of them had tried to lock it twice: no crash, stale
\* lock, dead server or failed open brings it about.
Exclusion ==
  \A f \in Files \ (overlapped \cup twice), p, q \in Procs :
    Uses(p, f) /\ Uses(q, f) => p = q

\* A lock file names a process that has the newsrc, or one that once ended
\* without giving its newsrcs back; a scan for another multirc, a server that
\* died and a newsrc that could not be opened leave no lock behind.
LocksAreHeld ==
  \A f \in Files, p \in Procs : lock[f] = p => Claims(p, f) \/ p \in abrupt
================================================================================
