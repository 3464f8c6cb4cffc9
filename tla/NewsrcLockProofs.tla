---------------------------- MODULE NewsrcLockProofs ---------------------------
(***************************************************************************)
(* Proofs about NewsrcLock, for any processes, hosts, newsrcs and access   *)
(* file: Inv is inductive, so a lock file names a process that has the     *)
(* newsrc or once died with it (LocksAreHeld), and two processes have a    *)
(* newsrc only if they raced for it (Exclusion).                           *)
(***************************************************************************)
EXTENDS NewsrcLock, TLAPS

USE GroupsAssumption, LockAssumption, BoundAssumption
USE DEF counters, history, place

-------------------------------------------------------------------------------
\* The invariant.

\* What each place in the code says of the newsrcs that the process has.
Shape(p) ==
  /\ active[p] \subseteq named[p]
  /\ pc[p] = "off" => named[p] = {}
  /\ pc[p] \in {"lock", "idle", "unuse"} => named[p] \subseteq active[p]
  /\ pc[p] \in {"judge", "create", "write", "open", "unlock"} =>
       entry[p] \in named[p] /\ named[p] \subseteq active[p] \cup {entry[p]}
  /\ pc[p] \in {"lock", "judge", "create", "write", "open", "unlock"} =>
       \A e \in active[p] : e < entry[p]
  /\ pc[p] = "unuse" =>
       why[p] \in {"quit", "scan", "died"} /\ \A e \in named[p] : entry[p] <= e

\* The lock of a newsrc that nobody raced for.
LockShape(f) ==
  /\ \A p \in Procs : Claims(p, f) => lock[f] = p
  /\ \A p, q \in Procs :
       Locking(p) /\ Locking(q) /\ Here(p) = f /\ Here(q) = f => p = q
  /\ \A p, q \in Procs :
       pc[p] = "judge" /\ Here(p) = f /\ Claims(q, f) => saw[p] = q
  /\ \A p, q \in Procs : pc[p] \in {"create", "write"} /\ Here(p) = f => ~Claims(q, f)
  /\ \A p \in Procs : pc[p] = "judge" /\ Here(p) = f /\ saw[p] = p => lock[f] = p
  /\ \A p \in Procs : \A d, e \in named[p] : Holds(p, d, f) /\ Holds(p, e, f) => d = e

Inv ==
  /\ TypeOK
  /\ \A p \in Procs : Shape(p)
  /\ \A f \in Files \ (overlapped \cup twice) : LockShape(f)
  /\ LocksAreHeld

-------------------------------------------------------------------------------
\* The places of use_multirc.

Reason == {"scan", "home", "default", "quit", "died"}
Placed ==
  /\ pc \in [Procs -> {"off", "lock", "judge", "create", "write", "open", "unlock",
                       "idle", "unuse"}]
  /\ group \in [Procs -> DOMAIN Groups]
  /\ entry \in [Procs -> Nat \ {0}]
  /\ \A p \in Procs : entry[p] \in DOMAIN Groups[group[p]]
  /\ why \in [Procs -> Reason]
  /\ low \in [Procs -> {1, 2}] /\ home \in [Procs -> DOMAIN Groups]
  /\ way \in [Procs -> {-1, 0, 1}]

\* The limits, the home and the way of a scan.
Scanning ==
  /\ low \in [Procs -> {1, 2}] /\ home \in [Procs -> DOMAIN Groups]
  /\ way \in [Procs -> {-1, 0, 1}]

\* Each group has a first newsrc.
LEMMA GroupsTyped ==
  /\ \A m \in DOMAIN Groups :
       /\ Groups[m] \in Seq(Files) /\ 1 \in DOMAIN Groups[m]
       /\ DOMAIN Groups[m] = 1..Len(Groups[m]) /\ Len(Groups[m]) \in Nat \ {0}
  /\ Len(Groups) \in Nat /\ Len(Groups) >= 2 /\ DOMAIN Groups = 1..Len(Groups)
  <1>1. \A m \in DOMAIN Groups : Groups[m] \in Seq(Files) \ {<<>>}
    OBVIOUS
  <1>2. ASSUME NEW s \in Seq(Files) \ {<<>>}
        PROVE  Len(s) \in Nat \ {0} /\ DOMAIN s = 1..Len(s) /\ 1 \in DOMAIN s
    OBVIOUS
  <1> QED
    BY <1>1, <1>2

\* A step of a process from one newsrc of a multirc to the next, or out of it.
LEMMA AfterTyped ==
  ASSUME Placed, NEW p \in Procs
  PROVE  After(p) \in DOMAIN Groups
  <1>1. group[p] \in 1..Len(Groups) /\ low[p] \in {1, 2}
    BY GroupsTyped DEF Placed
  <1>2. Len(Groups) \in Nat /\ Len(Groups) >= 2 /\ DOMAIN Groups = 1..Len(Groups)
    BY GroupsTyped
  <1>4. CASE way[p] >= 0
    <2>1. CASE group[p] < Len(Groups)
      <3>1. After(p) = group[p] + 1
        BY <1>4, <2>1 DEF After
      <3>2. group[p] + 1 \in 1..Len(Groups)
        BY <1>1, <1>2, <2>1
      <3> QED
        BY <1>2, <3>1, <3>2
    <2>2. CASE ~(group[p] < Len(Groups))
      <3>1. After(p) = low[p]
        BY <1>4, <2>2 DEF After
      <3> QED
        BY <1>1, <1>2, <3>1
    <2> QED
      BY <2>1, <2>2
  <1>5. CASE ~(way[p] >= 0)
    <2>1. CASE group[p] > low[p]
      <3>1. After(p) = group[p] - 1
        BY <1>5, <2>1 DEF After
      <3>2. group[p] - 1 \in 1..Len(Groups)
        BY <1>1, <1>2, <2>1
      <3> QED
        BY <1>2, <3>1, <3>2
    <2>2. CASE ~(group[p] > low[p])
      <3>1. After(p) = Len(Groups)
        BY <1>5, <2>2 DEF After
      <3> QED
        BY <1>2, <3>1
    <2> QED
      BY <2>1, <2>2
  <1> QED
    BY <1>4, <1>5

LEMMA AtPlaces ==
  ASSUME Placed, NEW p \in Procs, NEW m \in DOMAIN Groups,
         NEW e \in Nat, e \in DOMAIN Groups[m],
         NEW reason \in Reason,
         At(p, m, e, reason), Scanning'
  PROVE  /\ Placed'
         /\ pc' = [pc EXCEPT ![p] = "lock"]
         /\ entry'[p] = e /\ group'[p] = m
         /\ \A q \in Procs \ {p} : entry'[q] = entry[q] /\ group'[q] = group[q]
  <1>1. e \in Nat \ {0}
    BY GroupsTyped
  <1>2. /\ pc' \in [Procs -> {"off", "lock", "judge", "create", "write", "open", "unlock",
                       "idle", "unuse"}]
        /\ group' \in [Procs -> DOMAIN Groups]
        /\ entry' \in [Procs -> Nat \ {0}]
        /\ why' \in [Procs -> Reason]
    BY <1>1 DEF At, Placed
  <1>3. entry'[p] = e /\ group'[p] = m
    BY DEF At, Placed
  <1>4. \A q \in Procs \ {p} : entry'[q] = entry[q] /\ group'[q] = group[q]
    BY DEF At, Placed
  <1>5. \A q \in Procs : entry'[q] \in DOMAIN Groups[group'[q]]
    BY <1>3, <1>4 DEF Placed
  <1> QED
    BY <1>2, <1>3, <1>4, <1>5 DEF At, Placed, Scanning

LEMMA ScanPlaces ==
  ASSUME Placed, NEW p \in Procs, Scan(p)
  PROVE  /\ Placed'
         /\ pc' = [pc EXCEPT ![p] = "lock"]
         /\ entry'[p] = 1
         /\ \A q \in Procs \ {p} : entry'[q] = entry[q] /\ group'[q] = group[q]
  <1> DEFINE m == After(p)
  <1>1. m \in DOMAIN Groups /\ 1 \in DOMAIN Groups[m] /\ 1 \in Nat
    BY AfterTyped, GroupsTyped
  <1>2. Scanning'
    BY DEF Scan, Placed, Scanning
  <1>3. CASE After(p) = home[p]
    <2>1. At(p, m, 1, "home") /\ "home" \in Reason
      BY <1>3 DEF Scan, Reason
    <2> HIDE DEF m
    <2> QED
      BY <1>1, <1>2, <2>1, AtPlaces
  <1>4. CASE After(p) # home[p]
    <2>1. At(p, m, 1, "scan") /\ "scan" \in Reason
      BY <1>4 DEF Scan, Reason
    <2> HIDE DEF m
    <2> QED
      BY <1>1, <1>2, <2>1, AtPlaces
  <1> QED
    BY <1>3, <1>4

LEMMA FailedPlaces ==
  ASSUME Placed, NEW p \in Procs, Failed(p)
  PROVE  /\ Placed'
         /\ \/ pc' = [pc EXCEPT ![p] = "lock"] /\ entry'[p] = 1
            \/ pc' = [pc EXCEPT ![p] = "off"] /\ entry'[p] = entry[p] /\ group'[p] = group[p]
            \/ pc' = [pc EXCEPT ![p] = "idle"] /\ entry'[p] = entry[p] /\ group'[p] = group[p]
         /\ \A q \in Procs \ {p} : entry'[q] = entry[q] /\ group'[q] = group[q]
  <1>1. CASE why[p] = "scan"
    BY <1>1, ScanPlaces DEF Failed
  <1>2. CASE why[p] = "home" /\ way[p] = 0
    <2>1. 1 \in DOMAIN Groups /\ 1 \in DOMAIN Groups[1]
      BY GroupsTyped
    <2>2. At(p, 1, 1, "default") /\ low' = [low EXCEPT ![p] = 1] /\ UNCHANGED <<home, way>>
      BY <1>2 DEF Failed
    <2>3. Scanning' /\ "default" \in Reason
      BY <2>2 DEF Placed, Reason, Scanning
    <2> QED
      BY <2>1, <2>2, <2>3, AtPlaces
  <1>3. CASE why[p] # "scan" /\ ~(why[p] = "home" /\ way[p] = 0)
    BY <1>3 DEF Failed, Moves, Placed
  <1> QED
    BY <1>1, <1>2, <1>3

LEMMA NextEntryPlaces ==
  ASSUME Placed, NEW p \in Procs, NEW used, NextEntry(p, used)
  PROVE  /\ Placed'
         /\ \/ /\ pc' = [pc EXCEPT ![p] = "lock"]
               /\ entry'[p] = entry[p] + 1 /\ group'[p] = group[p]
            \/ used = {} /\ pc' = [pc EXCEPT ![p] = "lock"] /\ entry'[p] = 1
            \/ /\ pc' = [pc EXCEPT ![p] = "idle"]
               /\ entry'[p] = entry[p] /\ group'[p] = group[p]
            \/ /\ used = {} /\ pc' = [pc EXCEPT ![p] = "off"]
               /\ entry'[p] = entry[p] /\ group'[p] = group[p]
         /\ \A q \in Procs \ {p} : entry'[q] = entry[q] /\ group'[q] = group[q]
  <1>1. CASE entry[p] < Len(Groups[group[p]])
    <2>1. At(p, group[p], entry[p] + 1, why[p]) /\ UNCHANGED <<low, home, way>>
      BY <1>1 DEF NextEntry
    <2>2. group[p] \in DOMAIN Groups /\ entry[p] + 1 \in DOMAIN Groups[group[p]]
      BY <1>1, GroupsTyped DEF Placed
    <2>3. Scanning' /\ why[p] \in Reason
      BY <2>1 DEF Placed, Scanning
    <2> DEFINE e == entry[p] + 1
               m == group[p]
               reason == why[p]
    <2>4. /\ At(p, m, e, reason) /\ e \in Nat /\ reason \in Reason
          /\ m \in DOMAIN Groups /\ e \in DOMAIN Groups[m]
      BY <2>1, <2>2, <2>3 DEF Placed
    <2> HIDE DEF e, m, reason
    <2>5. /\ Placed' /\ pc' = [pc EXCEPT ![p] = "lock"]
          /\ entry'[p] = e /\ group'[p] = m
          /\ \A q \in Procs \ {p} : entry'[q] = entry[q] /\ group'[q] = group[q]
      BY <2>3, <2>4, AtPlaces
    <2> QED
      BY <2>5 DEF e, m
  <1>2. CASE ~(entry[p] < Len(Groups[group[p]])) /\ used # {}
    BY <1>2 DEF NextEntry, Moves, Placed
  <1>3. CASE ~(entry[p] < Len(Groups[group[p]])) /\ used = {}
    BY <1>3, FailedPlaces DEF NextEntry
  <1> QED
    BY <1>1, <1>2, <1>3

LEMMA LeavePlaces ==
  ASSUME Placed, NEW p \in Procs, NEW reason \in {"quit", "scan", "died"},
         Leave(p, reason), low' = low,
         home' \in [Procs -> DOMAIN Groups], way' \in [Procs -> {-1, 0, 1}]
  PROVE  /\ Placed'
         /\ pc' = [pc EXCEPT ![p] = "unuse"] /\ why'[p] = reason
         /\ entry'[p] = 1 /\ group' = group
         /\ \A q \in Procs \ {p} : entry'[q] = entry[q]
  <1>1. \A q \in Procs : 1 \in DOMAIN Groups[group[q]]
    BY GroupsTyped DEF Placed
  <1>2. \A q \in Procs \ {p} : entry'[q] = entry[q]
    BY DEF Leave, Placed
  <1>3. entry'[p] = 1 /\ group' = group
    BY DEF Leave, Placed
  <1>4. \A q \in Procs : entry'[q] \in DOMAIN Groups[group'[q]]
    BY <1>1, <1>2, <1>3 DEF Placed
  <1>5. /\ pc' \in [Procs -> {"off", "lock", "judge", "create", "write", "open", "unlock",
                       "idle", "unuse"}]
        /\ group' \in [Procs -> DOMAIN Groups] /\ entry' \in [Procs -> Nat \ {0}]
        /\ why' \in [Procs -> Reason]
        /\ low' \in [Procs -> {1, 2}]
    BY <1>3 DEF Leave, Placed, Reason
  <1>6. why'[p] = reason /\ pc' = [pc EXCEPT ![p] = "unuse"]
    BY DEF Leave, Placed
  <1> QED
    BY <1>2, <1>3, <1>4, <1>5, <1>6 DEF Placed

-------------------------------------------------------------------------------
\* Steps that do not touch a lock: the process that takes it has the newsrcs
\* that it had.

\* The lock files' part of the invariant, from what a step of p changes.
LEMMA QuietLocks ==
  ASSUME Inv, NEW p \in Procs,
         lock' = lock, overlapped' = overlapped, twice' = twice, saw' = saw,
         abrupt \subseteq abrupt',
         ~Locking(p)',
         \A q \in Procs \ {p} : pc'[q] = pc[q] /\ Here(q)' = Here(q),
         \A q \in Procs, f \in Files : \A e : Holds(q, e, f)' => Holds(q, e, f),
         \A q \in Procs, f \in Files : Claims(q, f) => Claims(q, f)' \/ q \in abrupt'
  PROVE  (\A f \in Files \ (overlapped \cup twice) : LockShape(f))' /\ LocksAreHeld'
  <1>1. ASSUME NEW f \in Files, f \notin overlapped \cup twice
        PROVE  LockShape(f)'
    <2>1. LockShape(f)
      BY <1>1 DEF Inv
    <2>2. \A q \in Procs : Locking(q)' => q # p /\ Locking(q)
      BY DEF Locking
    <2>3. \A q \in Procs : pc'[q] \in {"judge", "create", "write"} => q # p /\ pc'[q] = pc[q]
      BY DEF Locking
    <2>4. \A q \in Procs : Claims(q, f)' => Claims(q, f)
      BY DEF Claims, Holds
    <2>5. \A q \in Procs : \A d, e \in named'[q] :
            Holds(q, d, f)' /\ Holds(q, e, f)' => d = e
      BY <2>1 DEF LockShape, Holds
    <2> QED
      BY <1>1, <2>1, <2>2, <2>3, <2>4, <2>5 DEF LockShape
  <1>2. LocksAreHeld'
    BY DEF Inv, LocksAreHeld
  <1> QED
    BY <1>1, <1>2

\* A process that removes the lock of a newsrc that it has, which it then has
\* no more: the lock was its own, unless somebody raced for it.
LEMMA RemovedLock ==
  ASSUME Inv, NEW p \in Procs, Here(p) \in Files, Holds(p, entry[p], Here(p)),
         lock' = [lock EXCEPT ![Here(p)] = NoLock],
         overlapped' = overlapped, twice' = twice, saw' = saw, abrupt' = abrupt,
         ~Locking(p)',
         \A q \in Procs \ {p} : pc'[q] = pc[q] /\ Here(q)' = Here(q),
         \A q \in Procs \ {p}, f \in Files : \A e : Holds(q, e, f)' = Holds(q, e, f),
         \A f \in Files : \A e : Holds(p, e, f)' <=> Holds(p, e, f) /\ e # entry[p]
  PROVE  (\A f \in Files \ (overlapped \cup twice) : LockShape(f))' /\ LocksAreHeld'
  <1>1. Claims(p, Here(p))
    BY DEF Claims, Holds
  <1>2. \A f \in Files : lock'[f] = IF f = Here(p) THEN NoLock ELSE lock[f]
    BY DEF Inv, TypeOK
  <1>3. ASSUME NEW q \in Procs, NEW f \in Files, Claims(q, f)'
        PROVE  Claims(q, f)
    <2>1. PICK e \in named'[q] : Holds(q, e, f)'
      BY <1>3 DEF Claims
    <2>2. Holds(q, e, f)
      <3>1. CASE q = p
        BY <2>1, <3>1
      <3>2. CASE q # p
        BY <2>1, <3>2
      <3> QED
        BY <3>1, <3>2
    <2> QED
      BY <2>2 DEF Claims, Holds
  <1>4. ASSUME NEW q \in Procs, NEW f \in Files, f # Here(p) \/ q # p, Claims(q, f)
        PROVE  Claims(q, f)'
    <2>1. PICK e \in named[q] : Holds(q, e, f)
      BY <1>4 DEF Claims
    <2>2. q = p => e # entry[p]
      BY <1>4, <2>1 DEF Holds, Here
    <2>3. Holds(q, e, f)'
      BY <2>1, <2>2
    <2> QED
      BY <2>3 DEF Claims, Holds
  <1>5. ASSUME NEW f \in Files, f \notin overlapped \cup twice
        PROVE  LockShape(f)'
    <2>1. LockShape(f)
      BY <1>5 DEF Inv
    <2>2. \A q \in Procs : Locking(q)' => q # p /\ Locking(q)
      BY DEF Locking
    <2>3. \A q \in Procs : pc'[q] \in {"judge", "create", "write"} => q # p /\ pc'[q] = pc[q]
      BY DEF Locking
    <2>4. \A q \in Procs : \A d, e \in named'[q] :
            Holds(q, d, f)' /\ Holds(q, e, f)' => d = e
      BY <2>1 DEF LockShape, Holds
    <2>5. \A q \in Procs : Claims(q, f)' => f # Here(p)
      <3>1. ASSUME NEW q \in Procs, Claims(q, f)', f = Here(p)
            PROVE  FALSE
        <4>1. q = p
          BY <1>1, <1>3, <2>1, <3>1 DEF LockShape
        <4>2. PICK e : Holds(p, e, f)'
          BY <3>1, <4>1 DEF Claims
        <4>3. Holds(p, e, f) /\ e # entry[p]
          BY <4>2
        <4>4. e \in named[p] /\ entry[p] \in named[p]
          BY <4>3 DEF Holds
        <4> QED
          BY <2>1, <3>1, <4>3, <4>4 DEF LockShape
      <3> QED
        BY <3>1
    <2>6. \A q \in Procs : Claims(q, f)' => lock'[f] = q
      BY <1>2, <1>3, <2>1, <2>5 DEF LockShape
    <2>7. ASSUME NEW q \in Procs, pc'[q] = "judge", Here(q)' = f, saw'[q] = q
          PROVE  lock'[f] = q
      <3>1. f # Here(p)
        BY <1>1, <2>1, <2>3, <2>7 DEF LockShape
      <3> QED
        BY <1>2, <2>1, <2>3, <2>7, <3>1 DEF LockShape
    <2>8. \A q, r \in Procs :
            Locking(q)' /\ Locking(r)' /\ Here(q)' = f /\ Here(r)' = f => q = r
      BY <2>1, <2>2 DEF LockShape
    <2>9. \A q, r \in Procs :
            pc'[q] = "judge" /\ Here(q)' = f /\ Claims(r, f)' => saw'[q] = r
      BY <1>3, <2>1, <2>3 DEF LockShape
    <2>10. \A q, r \in Procs :
             pc'[q] \in {"create", "write"} /\ Here(q)' = f => ~Claims(r, f)'
      BY <1>3, <2>1, <2>3 DEF LockShape
    <2> QED
      BY <2>4, <2>6, <2>7, <2>8, <2>9, <2>10 DEF LockShape
  <1>6. LocksAreHeld'
    BY <1>2, <1>4 DEF Inv, LocksAreHeld
  <1> QED
    BY <1>5, <1>6

\* The other processes have what they had.
LEMMA OthersKeep ==
  ASSUME Inv, NEW p \in Procs,
         \A q \in Procs \ {p} :
           /\ pc'[q] = pc[q] /\ entry'[q] = entry[q] /\ group'[q] = group[q]
           /\ named'[q] = named[q] /\ active'[q] = active[q] /\ why'[q] = why[q]
  PROVE  \A q \in Procs \ {p} :
           /\ Shape(q)' /\ Here(q)' = Here(q)
           /\ Locking(q)' = Locking(q)
           /\ \A f \in Files : \A e : Holds(q, e, f)' = Holds(q, e, f)
  BY DEF Inv, Shape, Here, FileOf, Locking, Holds

\* A process that goes on to the next newsrc, or out of use_multirc, with the
\* newsrcs that are now in use.
LEMMA NextEntryKeeps ==
  ASSUME Inv, NEW p \in Procs, NextEntry(p, active'[p]),
         named' \in [Procs -> SUBSET (Nat \ {0})],
         active' \in [Procs -> SUBSET (Nat \ {0})],
         named'[p] = active'[p], active'[p] \subseteq DOMAIN Groups[group[p]],
         \A e \in active'[p] : e <= entry[p],
         \A q \in Procs \ {p} : named'[q] = named[q] /\ active'[q] = active[q]
  PROVE  /\ Placed' /\ \A q \in Procs : Shape(q)'
         /\ \A q \in Procs : named'[q] \cup active'[q] \cup {entry'[q]} \subseteq
                               DOMAIN Groups[group'[q]]
         /\ \A q \in Procs \ {p} :
              /\ pc'[q] = pc[q] /\ Here(q)' = Here(q)
              /\ \A f \in Files : \A e : Holds(q, e, f)' = Holds(q, e, f)
         /\ \A f \in Files : \A e : Holds(p, e, f)' <=> e \in named'[p] /\ FileOf(p, e) = f
         /\ ~Locking(p)'
  <1>1. Placed /\ Shape(p)
    BY DEF Inv, TypeOK, Placed, Reason
  <1>2. /\ Placed'
        /\ \/ /\ pc' = [pc EXCEPT ![p] = "lock"]
              /\ entry'[p] = entry[p] + 1 /\ group'[p] = group[p]
           \/ active'[p] = {} /\ pc' = [pc EXCEPT ![p] = "lock"] /\ entry'[p] = 1
           \/ /\ pc' = [pc EXCEPT ![p] = "idle"]
              /\ entry'[p] = entry[p] /\ group'[p] = group[p]
           \/ /\ active'[p] = {} /\ pc' = [pc EXCEPT ![p] = "off"]
              /\ entry'[p] = entry[p] /\ group'[p] = group[p]
        /\ \A q \in Procs \ {p} : entry'[q] = entry[q] /\ group'[q] = group[q]
    BY <1>1, NextEntryPlaces
  <1>3. \A q \in Procs \ {p} : pc'[q] = pc[q] /\ why'[q] = why[q]
    <2>1. CASE entry[p] < Len(Groups[group[p]])
      BY <1>1, <2>1 DEF NextEntry, At, Placed
    <2>2. CASE ~(entry[p] < Len(Groups[group[p]])) /\ active'[p] # {}
      BY <1>1, <2>2 DEF NextEntry, Moves, Placed
    <2>3. CASE ~(entry[p] < Len(Groups[group[p]])) /\ active'[p] = {}
      <3>1. Failed(p)
        BY <2>3 DEF NextEntry
      <3>2. CASE why[p] = "scan"
        BY <1>1, <3>1, <3>2 DEF Failed, Scan, At, Placed
      <3>3. CASE why[p] = "home" /\ way[p] = 0
        BY <1>1, <3>1, <3>3 DEF Failed, At, Placed
      <3>4. CASE why[p] # "scan" /\ ~(why[p] = "home" /\ way[p] = 0)
        BY <1>1, <3>1, <3>4 DEF Failed, Moves, Placed
      <3> QED
        BY <3>2, <3>3, <3>4
    <2> QED
      BY <2>1, <2>2, <2>3
  <1>4. pc'[p] \in {"lock", "idle", "off"} /\ (pc'[p] = "off" => active'[p] = {})
    BY <1>1, <1>2 DEF Placed
  <1>5. Shape(p)'
    <2>1. pc'[p] = "lock" => \A e \in active'[p] : e < entry'[p]
      <3>1. CASE active'[p] = {}
        BY <3>1
      <3>2. CASE entry'[p] = entry[p] + 1
        <4>1. entry[p] \in Nat /\ \A e \in active'[p] : e \in Nat /\ e <= entry[p]
          BY <1>1 DEF Placed
        <4> QED
          BY <3>2, <4>1
      <3>3. CASE pc' = [pc EXCEPT ![p] = "idle"]
        BY <1>1, <3>3 DEF Placed
      <3> QED
        BY <1>2, <3>1, <3>2, <3>3
    <2> QED
      BY <1>4, <2>1 DEF Shape
  <1>6. ~Locking(p)'
    BY <1>4 DEF Locking
  <1>7. active'[p] = {} \/ group'[p] = group[p]
    BY <1>2
  <1>8. \A f \in Files : \A e : Holds(p, e, f)' <=> e \in named'[p] /\ FileOf(p, e) = f
    BY <1>6, <1>7 DEF Holds, FileOf
  <1>9. named'[p] \cup active'[p] \cup {entry'[p]} \subseteq DOMAIN Groups[group'[p]]
    BY <1>2, <1>7 DEF Placed
  <1>10. \A q \in Procs \ {p} :
          named'[q] \cup active'[q] \cup {entry'[q]} \subseteq DOMAIN Groups[group'[q]]
    BY <1>2 DEF Inv, TypeOK
  <1>11. \A q \in Procs \ {p} :
          /\ Shape(q)' /\ Here(q)' = Here(q)
          /\ \A f \in Files : \A e : Holds(q, e, f)' = Holds(q, e, f)
    BY <1>2, <1>3, OthersKeep
  <1> QED
    BY <1>2, <1>3, <1>5, <1>6, <1>8, <1>9, <1>10, <1>11

-------------------------------------------------------------------------------
\* Every action keeps the invariant.

LEMMA InvInit == Init => Inv
  <1> SUFFICES ASSUME Init PROVE Inv
    OBVIOUS
  <1>1. TypeOK
    BY GroupsTyped DEF Init, TypeOK
  <1>2. \A p \in Procs : Shape(p)
    BY DEF Init, Shape
  <1>3. \A f \in Files : LockShape(f)
    BY DEF Init, LockShape, Claims, Locking
  <1>4. LocksAreHeld
    BY DEF Init, LocksAreHeld
  <1> QED
    BY <1>1, <1>2, <1>3, <1>4 DEF Inv

LEMMA InvPlaced ==
  ASSUME Inv
  PROVE  /\ Placed
         /\ \A p \in Procs : Shape(p) /\ Here(p) \in Files
  <1>1. Placed /\ \A p \in Procs : Shape(p)
    BY DEF Inv, TypeOK, Placed, Reason
  <1>2. \A m \in DOMAIN Groups : \A e \in DOMAIN Groups[m] : Groups[m][e] \in Files
    BY GroupsTyped
  <1> QED
    BY <1>1, <1>2 DEF Placed, Here, FileOf

LEMMA UnavailableKeeps ==
  ASSUME Inv, NEW p \in Procs, Unavailable(p)
  PROVE  Inv'
  <1> USE DEF Unavailable
  <1>1. Shape(p) /\ TypeOK
    BY DEF Inv
  <1>2. named'[p] = active'[p] /\ \A e \in active'[p] : e <= entry[p]
    <2>1. \A e \in active[p] : e < entry[p] /\ e \in Nat /\ entry[p] \in Nat
      BY <1>1 DEF Shape, TypeOK
    <2>2. named[p] = active[p]
      BY <1>1 DEF Shape
    <2> QED
      BY <2>1, <2>2
  <1>3. /\ Placed' /\ \A q \in Procs : Shape(q)'
        /\ \A q \in Procs : named'[q] \cup active'[q] \cup {entry'[q]} \subseteq
                              DOMAIN Groups[group'[q]]
        /\ \A q \in Procs \ {p} :
             /\ pc'[q] = pc[q] /\ Here(q)' = Here(q)
             /\ \A f \in Files : \A e : Holds(q, e, f)' = Holds(q, e, f)
        /\ \A f \in Files : \A e : Holds(p, e, f)' <=> e \in named'[p] /\ FileOf(p, e) = f
        /\ ~Locking(p)'
    BY <1>1, <1>2, NextEntryKeeps DEF TypeOK
  <1>4. \A f \in Files : \A e : Holds(p, e, f)' <=> Holds(p, e, f)
    BY <1>3 DEF Holds, Locking
  <1>5. TypeOK'
    BY <1>1, <1>3 DEF TypeOK, Placed, Reason
  <1>6. \A q \in Procs, f \in Files : \A e : Holds(q, e, f)' <=> Holds(q, e, f)
    BY <1>3, <1>4
  <1>7. \A q \in Procs, f \in Files : Claims(q, f) => Claims(q, f)'
    BY <1>6 DEF Claims, Holds
  <1>8. (\A f \in Files \ (overlapped \cup twice) : LockShape(f))' /\ LocksAreHeld'
    BY <1>3, <1>6, <1>7, QuietLocks
  <1> QED
    BY <1>3, <1>5, <1>8 DEF Inv

LEMMA OpenKeeps ==
  ASSUME Inv, NEW p \in Procs, Open(p)
  PROVE  Inv'
  <1> USE DEF Open
  <1>1. Shape(p) /\ TypeOK
    BY DEF Inv
  <1>2. /\ active'[p] = active[p] \cup {entry[p]}
        /\ \A q \in Procs \ {p} : active'[q] = active[q]
        /\ active' \in [Procs -> SUBSET (Nat \ {0})]
    BY <1>1 DEF TypeOK
  <1>3. /\ named'[p] = active'[p] /\ \A e \in active'[p] : e <= entry[p]
        /\ active'[p] \subseteq DOMAIN Groups[group[p]]
    BY <1>1, <1>2 DEF Shape, TypeOK
  <1>4. /\ Placed' /\ \A q \in Procs : Shape(q)'
        /\ \A q \in Procs : named'[q] \cup active'[q] \cup {entry'[q]} \subseteq
                              DOMAIN Groups[group'[q]]
        /\ \A q \in Procs \ {p} :
             /\ pc'[q] = pc[q] /\ Here(q)' = Here(q)
             /\ \A f \in Files : \A e : Holds(q, e, f)' = Holds(q, e, f)
        /\ \A f \in Files : \A e : Holds(p, e, f)' <=> e \in named'[p] /\ FileOf(p, e) = f
        /\ ~Locking(p)'
    BY <1>1, <1>2, <1>3, NextEntryKeeps DEF TypeOK
  <1>5. \A f \in Files : \A e : Holds(p, e, f)' <=> Holds(p, e, f)
    BY <1>4 DEF Holds, Locking
  <1>6. TypeOK'
    BY <1>1, <1>2, <1>4 DEF TypeOK, Placed, Reason
  <1>7. \A q \in Procs, f \in Files : \A e : Holds(q, e, f)' <=> Holds(q, e, f)
    BY <1>4, <1>5
  <1>8. \A q \in Procs, f \in Files : Claims(q, f) => Claims(q, f)'
    BY <1>7 DEF Claims, Holds
  <1>9. (\A f \in Files \ (overlapped \cup twice) : LockShape(f))' /\ LocksAreHeld'
    BY <1>4, <1>7, <1>8, QuietLocks
  <1> QED
    BY <1>4, <1>6, <1>9 DEF Inv

\* The lock that is removed was this process's, or somebody raced for it.
LEMMA UnlockKeeps ==
  ASSUME Inv, NEW p \in Procs, Unlock(p)
  PROVE  Inv'
  <1> USE DEF Unlock, RemoveLock
  <1>1. Shape(p) /\ TypeOK /\ Here(p) \in Files
    BY InvPlaced DEF Inv
  <1>2. /\ named'[p] = named[p] \ {entry[p]}
        /\ \A q \in Procs \ {p} : named'[q] = named[q]
        /\ named' \in [Procs -> SUBSET (Nat \ {0})]
        /\ lock' = [lock EXCEPT ![Here(p)] = NoLock]
        /\ lock' \in [Files -> Procs \cup {NoLock, Empty}]
    BY <1>1 DEF TypeOK, Shape
  <1>3. named'[p] = active'[p] /\ \A e \in active'[p] : e <= entry[p]
    BY <1>1, <1>2 DEF Shape, TypeOK
  <1>4. /\ Placed' /\ \A q \in Procs : Shape(q)'
        /\ \A q \in Procs : named'[q] \cup active'[q] \cup {entry'[q]} \subseteq
                              DOMAIN Groups[group'[q]]
        /\ \A q \in Procs \ {p} :
             /\ pc'[q] = pc[q] /\ Here(q)' = Here(q)
             /\ \A f \in Files : \A e : Holds(q, e, f)' = Holds(q, e, f)
        /\ \A f \in Files : \A e : Holds(p, e, f)' <=> e \in named'[p] /\ FileOf(p, e) = f
        /\ ~Locking(p)'
    BY <1>1, <1>2, <1>3, NextEntryKeeps DEF TypeOK
  <1>5. \A f \in Files : \A e : Holds(p, e, f)' <=> Holds(p, e, f) /\ e # entry[p]
    BY <1>2, <1>4 DEF Holds, Locking
  <1>6. Holds(p, entry[p], Here(p))
    BY <1>1 DEF Shape, Holds, Here, Locking
  <1>7. TypeOK'
    BY <1>1, <1>2, <1>4 DEF TypeOK, Placed, Reason
  <1>8. (\A f \in Files \ (overlapped \cup twice) : LockShape(f))' /\ LocksAreHeld'
    BY <1>1, <1>2, <1>4, <1>5, <1>6, RemovedLock
  <1> QED
    BY <1>4, <1>7, <1>8 DEF Inv

\* A process that ends leaves its lock files behind.
LEMMA EndsKeeps ==
  ASSUME Inv, NEW p \in Procs, Ends(p),
         UNCHANGED <<lock, down, saw, overlapped, twice>>,
         abrupt' = abrupt \cup {p}, starts' \in Nat, faults' \in Nat
  PROVE  Inv'
  <1>1. /\ TypeOK /\ Shape(p)
        /\ pc'[p] = "off" /\ named'[p] = {} /\ active'[p] = {}
        /\ \A q \in Procs \ {p} :
             /\ pc'[q] = pc[q] /\ entry'[q] = entry[q] /\ group'[q] = group[q]
             /\ named'[q] = named[q] /\ active'[q] = active[q] /\ why'[q] = why[q]
    BY DEF Inv, TypeOK, Ends
  <1>2. TypeOK'
    BY <1>1 DEF TypeOK, Ends
  <1>3. \A q \in Procs \ {p} :
          /\ Shape(q)' /\ Here(q)' = Here(q)
          /\ \A f \in Files : \A e : Holds(q, e, f)' = Holds(q, e, f)
    BY <1>1, OthersKeep
  <1>4. Shape(p)' /\ ~Locking(p)' /\ \A f \in Files : \A e : ~Holds(p, e, f)'
    BY <1>1 DEF Shape, Locking, Holds
  <1>5. \A q \in Procs, f \in Files : \A e : Holds(q, e, f)' => Holds(q, e, f)
    BY <1>3, <1>4
  <1>6. \A q \in Procs, f \in Files : Claims(q, f) => Claims(q, f)' \/ q \in abrupt'
    <2>1. \A q \in Procs \ {p}, f \in Files : Claims(q, f) => Claims(q, f)'
      BY <1>3 DEF Claims, Holds
    <2> QED
      BY <2>1
  <1>7. (\A f \in Files \ (overlapped \cup twice) : LockShape(f))' /\ LocksAreHeld'
    BY <1>1, <1>3, <1>4, <1>5, <1>6, QuietLocks
  <1> QED
    BY <1>2, <1>3, <1>4, <1>7 DEF Inv

LEMMA TurnedAwayKeeps ==
  ASSUME Inv, NEW p \in Procs, TurnedAway(p)
  PROVE  Inv'
  BY EndsKeeps DEF TurnedAway, Inv, TypeOK

LEMMA CannotCreateKeeps ==
  ASSUME Inv, NEW p \in Procs, CannotCreate(p)
  PROVE  Inv'
  <1>1. starts \in Nat /\ faults \in Nat
    BY DEF Inv, TypeOK
  <1>2. /\ Ends(p) /\ UNCHANGED <<lock, down, saw, overlapped, twice>>
        /\ abrupt' = abrupt \cup {p} /\ starts' \in Nat /\ faults' \in Nat
    BY <1>1 DEF CannotCreate
  <1> QED
    BY <1>2, EndsKeeps

LEMMA CrashKeeps ==
  ASSUME Inv, NEW p \in Procs, Crash(p)
  PROVE  Inv'
  <1>1. starts \in Nat /\ faults \in Nat
    BY DEF Inv, TypeOK
  <1>2. /\ Ends(p) /\ UNCHANGED <<lock, down, saw, overlapped, twice>>
        /\ abrupt' = abrupt \cup {p} /\ starts' \in Nat /\ faults' \in Nat
    BY <1>1 DEF Crash
  <1> QED
    BY <1>2, EndsKeeps

\* A step that stays at the same newsrc.
Spot == {"judge", "create", "write", "open", "unlock", "idle", "off"}
LEMMA MovesKeep ==
  ASSUME Inv, NEW p \in Procs, NEW where, Moves(p, where),
         where \in Spot, UNCHANGED <<active, down>>,
         lock' \in [Files -> Procs \cup {NoLock, Empty}],
         saw' \in [Procs -> Procs \cup {NoLock, Empty}],
         overlapped' \subseteq Files, twice' \subseteq Files, abrupt' = abrupt,
         starts' \in Nat, faults' \in Nat,
         named' \in [Procs -> SUBSET (Nat \ {0})],
         named'[p] \subseteq named[p] \cup {entry[p]},
         \A q \in Procs \ {p} : named'[q] = named[q]
  PROVE  /\ TypeOK'
         /\ pc'[p] = where
         /\ \A q \in Procs : Here(q)' = Here(q)
         /\ \A q \in Procs \ {p} :
              /\ Shape(q)' /\ pc'[q] = pc[q] /\ Locking(q)' = Locking(q)
              /\ \A f \in Files : \A e : Holds(q, e, f)' = Holds(q, e, f)
              /\ \A f \in Files : Claims(q, f)' = Claims(q, f)
         /\ \A e : FileOf(p, e)' = FileOf(p, e)
         /\ entry' = entry /\ why' = why
  <1>1. /\ TypeOK /\ pc'[p] = where
        /\ \A q \in Procs \ {p} :
             /\ pc'[q] = pc[q] /\ entry'[q] = entry[q] /\ group'[q] = group[q]
             /\ named'[q] = named[q] /\ active'[q] = active[q] /\ why'[q] = why[q]
    BY DEF Inv, TypeOK, Moves
  <1>2. \A q \in Procs : named'[q] \cup active'[q] \cup {entry'[q]} \subseteq
                            DOMAIN Groups[group'[q]]
    BY <1>1 DEF Moves, TypeOK
  <1>3. pc' \in [Procs -> {"off", "lock", "judge", "create", "write", "open", "unlock",
                           "idle", "unuse"}]
    BY <1>1 DEF Moves, TypeOK, Spot
  <1>4. TypeOK'
    BY <1>1, <1>2, <1>3 DEF Moves, TypeOK
  <1>5. \A q \in Procs \ {p} :
          /\ Shape(q)' /\ Locking(q)' = Locking(q)
          /\ \A f \in Files : \A e : Holds(q, e, f)' = Holds(q, e, f)
    BY <1>1, OthersKeep
  <1>6. \A q \in Procs \ {p}, f \in Files : Claims(q, f)' = Claims(q, f)
    BY <1>1, <1>5 DEF Claims
  <1>7. \A q \in Procs : Here(q)' = Here(q)
    BY DEF Moves, Here, FileOf
  <1>8. \A e : FileOf(p, e)' = FileOf(p, e)
    BY DEF Moves, FileOf
  <1> QED
    BY <1>1, <1>4, <1>5, <1>6, <1>7, <1>8 DEF Moves

LEMMA OpenFailsKeeps ==
  ASSUME Inv, NEW p \in Procs, OpenFails(p)
  PROVE  Inv'
  <1> USE DEF OpenFails
  <1>1. TypeOK /\ Shape(p)
    BY DEF Inv
  <1>2. /\ TypeOK' /\ pc'[p] = "unlock"
        /\ \A q \in Procs : Here(q)' = Here(q)
        /\ \A q \in Procs \ {p} :
             /\ Shape(q)' /\ pc'[q] = pc[q]
             /\ \A f \in Files : \A e : Holds(q, e, f)' = Holds(q, e, f)
        /\ \A e : FileOf(p, e)' = FileOf(p, e)
    <2>1. Moves(p, "unlock") /\ "unlock" \in Spot
      BY DEF Spot
    <2>2. /\ lock' \in [Files -> Procs \cup {NoLock, Empty}]
          /\ saw' \in [Procs -> Procs \cup {NoLock, Empty}]
          /\ overlapped' \subseteq Files /\ twice' \subseteq Files /\ abrupt' = abrupt
          /\ starts' \in Nat /\ faults' \in Nat
          /\ named' \in [Procs -> SUBSET (Nat \ {0})] /\ named' = named
      BY <1>1 DEF TypeOK
    <2> QED
      BY <2>1, <2>2, MovesKeep
  <1>3. Shape(p)' /\ ~Locking(p)'
    BY <1>1, <1>2 DEF Shape, Locking, Moves
  <1>4. \A f \in Files : \A e : Holds(p, e, f)' <=> Holds(p, e, f)
    BY <1>2 DEF Holds, Locking, Moves
  <1>5. \A q \in Procs, f \in Files : \A e : Holds(q, e, f)' <=> Holds(q, e, f)
    BY <1>2, <1>4
  <1>6. \A q \in Procs, f \in Files : Claims(q, f) => Claims(q, f)'
    BY <1>5 DEF Claims, Holds
  <1>7. (\A f \in Files \ (overlapped \cup twice) : LockShape(f))' /\ LocksAreHeld'
    BY <1>2, <1>3, <1>5, <1>6, QuietLocks
  <1> QED
    BY <1>2, <1>3, <1>7 DEF Inv

LEMMA ReadLockKeeps ==
  ASSUME Inv, NEW p \in Procs, ReadLock(p)
  PROVE  Inv'
  <1> USE DEF ReadLock
  <1>1. TypeOK /\ Shape(p) /\ Here(p) \in Files /\ pc[p] = "lock"
    BY InvPlaced DEF Inv
  <1>2. /\ TypeOK' /\ pc'[p] = "judge"
        /\ \A q \in Procs : Here(q)' = Here(q)
        /\ \A q \in Procs \ {p} :
             /\ Shape(q)' /\ pc'[q] = pc[q] /\ Locking(q)' = Locking(q)
             /\ \A f \in Files : \A e : Holds(q, e, f)' = Holds(q, e, f)
             /\ \A f \in Files : Claims(q, f)' = Claims(q, f)
        /\ \A e : FileOf(p, e)' = FileOf(p, e)
        /\ entry' = entry /\ why' = why
    <2>1. Moves(p, "judge") /\ "judge" \in Spot /\ UNCHANGED <<active, down>>
      BY DEF Spot
    <2>2. /\ lock' \in [Files -> Procs \cup {NoLock, Empty}]
          /\ saw' \in [Procs -> Procs \cup {NoLock, Empty}]
      BY <1>1 DEF TypeOK
    <2>3. /\ overlapped' \subseteq Files /\ twice' \subseteq Files /\ abrupt' = abrupt
          /\ starts' \in Nat /\ faults' \in Nat
      BY <1>1 DEF TypeOK
    <2>4. /\ named' \in [Procs -> SUBSET (Nat \ {0})]
          /\ named'[p] \subseteq named[p] \cup {entry[p]}
          /\ \A q \in Procs \ {p} : named'[q] = named[q]
      BY <1>1 DEF TypeOK
    <2> QED
      BY <2>1, <2>2, <2>3, <2>4, MovesKeep
  <1>3. named'[p] = named[p] \cup {entry[p]} /\ entry[p] \notin named[p]
    BY <1>1 DEF Shape, TypeOK
  <1>4. Shape(p)'
    BY <1>1, <1>2, <1>3 DEF Shape
  <1>5. \A f \in Files : \A e : Holds(p, e, f)' <=> Holds(p, e, f)
    BY <1>1, <1>2, <1>3 DEF Holds, Locking
  <1>6. \A q \in Procs, f \in Files :
          /\ \A e : Holds(q, e, f)' <=> Holds(q, e, f)
          /\ Claims(q, f)' <=> Claims(q, f)
    BY <1>2, <1>5 DEF Claims, Holds
  <1>7. ASSUME NEW f \in Files, f \notin overlapped' \cup twice'
        PROVE  LockShape(f)'
    <2>1. LockShape(f)
      BY <1>7 DEF Inv
    <2>2. f = Here(p) => \A q \in Procs \ {p} : ~(Locking(q) /\ Here(q) = f)
      BY <1>1, <1>7
    <2>3. /\ saw'[p] = lock[Here(p)]
          /\ \A q \in Procs \ {p} : saw'[q] = saw[q]
      BY <1>1 DEF TypeOK
    <2>4. \A q, r \in Procs :
            Locking(q)' /\ Locking(r)' /\ Here(q)' = f /\ Here(r)' = f => q = r
      BY <1>2, <2>1, <2>2 DEF LockShape
    <2>5. \A q, r \in Procs :
            pc'[q] = "judge" /\ Here(q)' = f /\ Claims(r, f)' => saw'[q] = r
      <3>1. SUFFICES ASSUME NEW q \in Procs, NEW r \in Procs,
                            pc'[q] = "judge", Here(q)' = f, Claims(r, f)'
                     PROVE  saw'[q] = r
        OBVIOUS
      <3>2. Here(q) = f /\ Claims(r, f)
        BY <1>2, <1>6, <3>1
      <3>3. CASE q = p
        <4>1. lock[f] = r
          BY <2>1, <3>2 DEF LockShape
        <4> QED
          BY <2>3, <3>2, <3>3, <4>1
      <3>4. CASE q # p
        <4>1. pc[q] = "judge" /\ saw'[q] = saw[q]
          BY <1>2, <2>3, <3>1, <3>4
        <4> QED
          BY <2>1, <3>2, <4>1 DEF LockShape
      <3> QED
        BY <3>3, <3>4
    <2>6. \A q, r \in Procs :
            pc'[q] \in {"create", "write"} /\ Here(q)' = f => ~Claims(r, f)'
      BY <1>2, <1>6, <2>1 DEF LockShape
    <2>7. \A q \in Procs :
            pc'[q] = "judge" /\ Here(q)' = f /\ saw'[q] = q => lock'[f] = q
      BY <1>2, <2>1, <2>3 DEF LockShape
    <2>8. \A q \in Procs : \A d, e \in named'[q] :
            Holds(q, d, f)' /\ Holds(q, e, f)' => d = e
      BY <1>6, <2>1 DEF LockShape, Holds
    <2> QED
      BY <1>6, <2>1, <2>4, <2>5, <2>6, <2>7, <2>8 DEF LockShape
  <1>8. LocksAreHeld'
    BY <1>6 DEF Inv, LocksAreHeld
  <1> QED
    BY <1>2, <1>4, <1>7, <1>8 DEF Inv

LEMMA JudgedKeeps ==
  ASSUME Inv, NEW p \in Procs, Judged(p)
  PROVE  Inv'
  <1> USE DEF Judged
  <1>1. TypeOK /\ Shape(p) /\ Here(p) \in Files /\ pc[p] = "judge"
    BY InvPlaced DEF Inv
  <1>2. /\ TypeOK' /\ pc'[p] = "create"
        /\ \A q \in Procs : Here(q)' = Here(q)
        /\ \A q \in Procs \ {p} :
             /\ Shape(q)' /\ pc'[q] = pc[q] /\ Locking(q)' = Locking(q)
             /\ \A f \in Files : \A e : Holds(q, e, f)' = Holds(q, e, f)
             /\ \A f \in Files : Claims(q, f)' = Claims(q, f)
        /\ \A e : FileOf(p, e)' = FileOf(p, e)
        /\ entry' = entry /\ why' = why
    <2>1. Moves(p, "create") /\ "create" \in Spot /\ UNCHANGED <<active, down>>
      BY DEF Spot
    <2>2. /\ lock' \in [Files -> Procs \cup {NoLock, Empty}]
          /\ saw' \in [Procs -> Procs \cup {NoLock, Empty}]
          /\ overlapped' \subseteq Files /\ twice' \subseteq Files /\ abrupt' = abrupt
          /\ starts' \in Nat /\ faults' \in Nat
          /\ named' \in [Procs -> SUBSET (Nat \ {0})]
          /\ named'[p] \subseteq named[p] \cup {entry[p]}
          /\ \A q \in Procs \ {p} : named'[q] = named[q]
      BY <1>1 DEF TypeOK
    <2> QED
      BY <2>1, <2>2, MovesKeep
  <1>3. Shape(p)'
    BY <1>1, <1>2 DEF Shape
  <1>4. \A f \in Files : \A e : Holds(p, e, f)' <=> Holds(p, e, f)
    BY <1>1, <1>2 DEF Holds, Locking
  <1>5. \A q \in Procs, f \in Files :
          /\ \A e : Holds(q, e, f)' <=> Holds(q, e, f)
          /\ Claims(q, f)' <=> Claims(q, f)
    BY <1>2, <1>4 DEF Claims, Holds
  \* The process that has the newsrc is alive and would have been respected.
  <1>6. ASSUME NEW f \in Files, f = Here(p), LockShape(f), NEW q \in Procs, Claims(q, f)
        PROVE  FALSE
    <2>1. saw[p] = q /\ q # p
      BY <1>1, <1>6 DEF LockShape
    <2>2. pc[q] = "off"
      BY <2>1 DEF Free, Foreign, Running
    <2>3. named[q] = {}
      BY <2>2 DEF Inv, Shape
    <2> QED
      BY <1>6, <2>3 DEF Claims
  <1>7. ASSUME NEW f \in Files, f \notin overlapped' \cup twice'
        PROVE  LockShape(f)'
    <2>1. LockShape(f)
      BY <1>7 DEF Inv
    <2>2. \A q \in Procs : Locking(q)' <=> Locking(q)
      BY <1>1, <1>2 DEF Locking
    <2>3. \A q, r \in Procs :
            pc'[q] = "judge" /\ Here(q)' = f /\ Claims(r, f)' => saw'[q] = r
      BY <1>2, <1>5, <2>1 DEF LockShape
    <2>4. \A q, r \in Procs :
            pc'[q] \in {"create", "write"} /\ Here(q)' = f => ~Claims(r, f)'
      BY <1>2, <1>5, <1>6, <2>1 DEF LockShape
    <2>5. \A q \in Procs :
            pc'[q] = "judge" /\ Here(q)' = f /\ saw'[q] = q => lock'[f] = q
      BY <1>2, <2>1 DEF LockShape
    <2>6. \A q \in Procs : \A d, e \in named'[q] :
            Holds(q, d, f)' /\ Holds(q, e, f)' => d = e
      BY <1>5, <2>1 DEF LockShape, Holds
    <2> QED
      BY <1>2, <1>5, <2>1, <2>2, <2>3, <2>4, <2>5, <2>6 DEF LockShape
  <1>8. LocksAreHeld'
    BY <1>5 DEF Inv, LocksAreHeld
  <1> QED
    BY <1>2, <1>3, <1>7, <1>8 DEF Inv

LEMMA CreateKeeps ==
  ASSUME Inv, NEW p \in Procs, Create(p)
  PROVE  Inv'
  <1> USE DEF Create
  <1>1. TypeOK /\ Shape(p) /\ Here(p) \in Files /\ pc[p] = "create"
    BY InvPlaced DEF Inv
  <1>2. /\ TypeOK' /\ pc'[p] = "write"
        /\ \A q \in Procs : Here(q)' = Here(q)
        /\ \A q \in Procs \ {p} :
             /\ Shape(q)' /\ pc'[q] = pc[q] /\ Locking(q)' = Locking(q)
             /\ \A f \in Files : \A e : Holds(q, e, f)' = Holds(q, e, f)
             /\ \A f \in Files : Claims(q, f)' = Claims(q, f)
        /\ \A e : FileOf(p, e)' = FileOf(p, e)
        /\ entry' = entry /\ why' = why
    <2>1. Moves(p, "write") /\ "write" \in Spot /\ UNCHANGED <<active, down>>
      BY DEF Spot
    <2>2. /\ lock' \in [Files -> Procs \cup {NoLock, Empty}]
          /\ saw' \in [Procs -> Procs \cup {NoLock, Empty}]
          /\ overlapped' \subseteq Files /\ twice' \subseteq Files /\ abrupt' = abrupt
          /\ starts' \in Nat /\ faults' \in Nat
          /\ named' \in [Procs -> SUBSET (Nat \ {0})]
          /\ named'[p] \subseteq named[p] \cup {entry[p]}
          /\ \A q \in Procs \ {p} : named'[q] = named[q]
      BY <1>1 DEF TypeOK
    <2> QED
      BY <2>1, <2>2, MovesKeep
  <1>3. Shape(p)'
    BY <1>1, <1>2 DEF Shape
  <1>4. \A f \in Files : \A e : Holds(p, e, f)' <=> Holds(p, e, f)
    BY <1>1, <1>2 DEF Holds, Locking
  <1>5. \A q \in Procs, f \in Files :
          /\ \A e : Holds(q, e, f)' <=> Holds(q, e, f)
          /\ Claims(q, f)' <=> Claims(q, f)
    BY <1>2, <1>4 DEF Claims, Holds
  <1>6. \A f \in Files : lock'[f] = IF f = Here(p) THEN Empty ELSE lock[f]
    BY <1>1 DEF TypeOK
  <1>7. ASSUME NEW f \in Files, f \notin overlapped' \cup twice'
        PROVE  LockShape(f)'
    <2>1. LockShape(f)
      BY <1>7 DEF Inv
    <2>2. \A q \in Procs : Locking(q)' <=> Locking(q)
      BY <1>1, <1>2 DEF Locking
    <2>3. f = Here(p) => \A q \in Procs : ~Claims(q, f)
      BY <1>1, <2>1 DEF LockShape
    <2>4. f = Here(p) => \A q \in Procs \ {p} : ~(Locking(q) /\ Here(q) = f)
      BY <1>1, <2>1 DEF LockShape, Locking
    <2>5. \A q \in Procs : Claims(q, f)' => lock'[f] = q
      BY <1>5, <1>6, <2>1, <2>3 DEF LockShape
    <2>6. \A q, r \in Procs :
            pc'[q] = "judge" /\ Here(q)' = f /\ Claims(r, f)' => saw'[q] = r
      BY <1>2, <1>5, <2>1 DEF LockShape
    <2>7. \A q, r \in Procs :
            pc'[q] \in {"create", "write"} /\ Here(q)' = f => ~Claims(r, f)'
      BY <1>1, <1>2, <1>5, <2>1 DEF LockShape
    <2>8. \A q \in Procs :
            pc'[q] = "judge" /\ Here(q)' = f /\ saw'[q] = q => lock'[f] = q
      BY <1>2, <1>6, <2>1, <2>4 DEF LockShape, Locking
    <2>9. \A q \in Procs : \A d, e \in named'[q] :
            Holds(q, d, f)' /\ Holds(q, e, f)' => d = e
      BY <1>5, <2>1 DEF LockShape, Holds
    <2> QED
      BY <1>2, <2>1, <2>2, <2>5, <2>6, <2>7, <2>8, <2>9 DEF LockShape
  <1>8. LocksAreHeld'
    BY <1>5, <1>6 DEF Inv, LocksAreHeld
  <1> QED
    BY <1>2, <1>3, <1>7, <1>8 DEF Inv

LEMMA OwnPidKeeps ==
  ASSUME Inv, NEW p \in Procs, OwnPid(p)
  PROVE  Inv'
  <1> USE DEF OwnPid
  <1>1. TypeOK /\ Shape(p) /\ Here(p) \in Files /\ pc[p] = "judge"
    BY InvPlaced DEF Inv
  <1>2. /\ TypeOK' /\ pc'[p] = "unlock"
        /\ \A q \in Procs : Here(q)' = Here(q)
        /\ \A q \in Procs \ {p} :
             /\ Shape(q)' /\ pc'[q] = pc[q] /\ Locking(q)' = Locking(q)
             /\ \A f \in Files : \A e : Holds(q, e, f)' = Holds(q, e, f)
             /\ \A f \in Files : Claims(q, f)' = Claims(q, f)
        /\ \A e : FileOf(p, e)' = FileOf(p, e)
        /\ entry' = entry /\ why' = why
    <2>1. Moves(p, "unlock") /\ "unlock" \in Spot /\ UNCHANGED <<active, down>>
      BY DEF Spot
    <2>2. /\ lock' \in [Files -> Procs \cup {NoLock, Empty}]
          /\ saw' \in [Procs -> Procs \cup {NoLock, Empty}]
          /\ overlapped' \subseteq Files /\ twice' \subseteq Files /\ abrupt' = abrupt
          /\ starts' \in Nat /\ faults' \in Nat
          /\ named' \in [Procs -> SUBSET (Nat \ {0})]
          /\ named'[p] \subseteq named[p] \cup {entry[p]}
          /\ \A q \in Procs \ {p} : named'[q] = named[q]
      BY <1>1 DEF TypeOK
    <2> QED
      BY <2>1, <2>2, MovesKeep
  <1>3. Shape(p)'
    BY <1>1, <1>2 DEF Shape
  <1>4. /\ entry[p] \in named[p] /\ named'[p] = named[p]
        /\ \A f \in Files : \A e :
             Holds(p, e, f)' <=> Holds(p, e, f) \/ (e = entry[p] /\ f = Here(p))
    BY <1>1, <1>2 DEF Shape, Holds, Locking, Here
  <1>5. /\ \A q \in Procs \ {p}, f \in Files : Claims(q, f)' <=> Claims(q, f)
        /\ \A f \in Files : Claims(p, f)' <=> Claims(p, f) \/ f = Here(p)
    BY <1>2, <1>4 DEF Claims
  <1>6. \A f \in Files : lock'[f] = lock[f]
    OBVIOUS
  <1>7. ASSUME NEW f \in Files, f \notin overlapped' \cup twice'
        PROVE  LockShape(f)'
    <2>1. LockShape(f)
      BY <1>7 DEF Inv
    <2>2. \A q \in Procs : Locking(q)' => Locking(q) /\ q # p
      BY <1>2 DEF Locking
    <2>3. f = Here(p) => lock'[f] = p /\ \A q \in Procs : ~Claims(q, f)
      BY <1>1, <1>6, <1>7, <2>1 DEF LockShape
    <2>4. f = Here(p) => \A q \in Procs \ {p} : ~(Locking(q) /\ Here(q) = f)
      BY <1>1, <2>1 DEF LockShape, Locking
    <2>5. \A q \in Procs : Claims(q, f)' => lock'[f] = q
      BY <1>5, <1>6, <2>1, <2>3 DEF LockShape
    <2>6. \A q, r \in Procs :
            pc'[q] = "judge" /\ Here(q)' = f /\ Claims(r, f)' => saw'[q] = r
      BY <1>2, <1>5, <2>1, <2>2, <2>4 DEF LockShape, Locking
    <2>7. \A q, r \in Procs :
            pc'[q] \in {"create", "write"} /\ Here(q)' = f => ~Claims(r, f)'
      BY <1>2, <1>5, <2>1, <2>2, <2>4 DEF LockShape, Locking
    <2>8. ASSUME NEW q \in Procs, pc'[q] = "judge", Here(q)' = f, saw'[q] = q
          PROVE  lock'[f] = q
      <3>1. Locking(q)'
        BY <2>8 DEF Locking
      <3>2. q # p /\ Locking(q)
        BY <2>2, <3>1
      <3>3. pc[q] = "judge" /\ Here(q) = f /\ saw[q] = q
        BY <1>2, <2>8, <3>2
      <3>4. f # Here(p) /\ lock[f] = q
        BY <2>1, <2>4, <3>2, <3>3 DEF LockShape
      <3> QED
        BY <1>6, <3>4
    <2>9. \A q \in Procs : \A d, e \in named'[q] :
            Holds(q, d, f)' /\ Holds(q, e, f)' => d = e
      BY <1>2, <1>4, <2>1, <2>3 DEF LockShape, Holds, Claims
    <2> QED
      BY <1>2, <2>1, <2>2, <2>5, <2>6, <2>7, <2>8, <2>9 DEF LockShape
  <1>8. LocksAreHeld'
    BY <1>5, <1>6 DEF Inv, LocksAreHeld
  <1> QED
    BY <1>2, <1>3, <1>7, <1>8 DEF Inv

LEMMA WriteKeeps ==
  ASSUME Inv, NEW p \in Procs, Write(p)
  PROVE  Inv'
  <1> USE DEF Write
  <1>1. TypeOK /\ Shape(p) /\ Here(p) \in Files /\ pc[p] = "write"
    BY InvPlaced DEF Inv
  <1>2. /\ TypeOK' /\ pc'[p] = "open"
        /\ \A q \in Procs : Here(q)' = Here(q)
        /\ \A q \in Procs \ {p} :
             /\ Shape(q)' /\ pc'[q] = pc[q] /\ Locking(q)' = Locking(q)
             /\ \A f \in Files : \A e : Holds(q, e, f)' = Holds(q, e, f)
             /\ \A f \in Files : Claims(q, f)' = Claims(q, f)
        /\ \A e : FileOf(p, e)' = FileOf(p, e)
        /\ entry' = entry /\ why' = why
    <2>1. Moves(p, "open") /\ "open" \in Spot /\ UNCHANGED <<active, down>>
      BY DEF Spot
    <2>2. /\ lock' \in [Files -> Procs \cup {NoLock, Empty}]
          /\ saw' \in [Procs -> Procs \cup {NoLock, Empty}]
          /\ overlapped' \subseteq Files /\ twice' \subseteq Files /\ abrupt' = abrupt
          /\ starts' \in Nat /\ faults' \in Nat
          /\ named' \in [Procs -> SUBSET (Nat \ {0})]
          /\ named'[p] \subseteq named[p] \cup {entry[p]}
          /\ \A q \in Procs \ {p} : named'[q] = named[q]
      BY <1>1 DEF TypeOK
    <2> QED
      BY <2>1, <2>2, MovesKeep
  <1>3. Shape(p)'
    BY <1>1, <1>2 DEF Shape
  <1>4. /\ entry[p] \in named[p] /\ named'[p] = named[p]
        /\ \A f \in Files : \A e :
             Holds(p, e, f)' <=> Holds(p, e, f) \/ (e = entry[p] /\ f = Here(p))
    BY <1>1, <1>2 DEF Shape, Holds, Locking, Here
  <1>5. /\ \A q \in Procs \ {p}, f \in Files : Claims(q, f)' <=> Claims(q, f)
        /\ \A f \in Files : Claims(p, f)' <=> Claims(p, f) \/ f = Here(p)
    BY <1>2, <1>4 DEF Claims
  <1>6. \A f \in Files : lock'[f] = IF f = Here(p) THEN p ELSE lock[f]
    BY <1>1 DEF TypeOK
  <1>7. ASSUME NEW f \in Files, f \notin overlapped' \cup twice'
        PROVE  LockShape(f)'
    <2>1. LockShape(f)
      BY <1>7 DEF Inv
    <2>2. \A q \in Procs : Locking(q)' => Locking(q) /\ q # p
      BY <1>2 DEF Locking
    <2>3. f = Here(p) => lock'[f] = p /\ \A q \in Procs : ~Claims(q, f)
      BY <1>1, <1>6, <2>1 DEF LockShape
    <2>4. f = Here(p) => \A q \in Procs \ {p} : ~(Locking(q) /\ Here(q) = f)
      BY <1>1, <2>1 DEF LockShape, Locking
    <2>5. \A q \in Procs : Claims(q, f)' => lock'[f] = q
      BY <1>5, <1>6, <2>1, <2>3 DEF LockShape
    <2>6. \A q, r \in Procs :
            pc'[q] = "judge" /\ Here(q)' = f /\ Claims(r, f)' => saw'[q] = r
      BY <1>2, <1>5, <2>1, <2>2, <2>4 DEF LockShape, Locking
    <2>7. \A q, r \in Procs :
            pc'[q] \in {"create", "write"} /\ Here(q)' = f => ~Claims(r, f)'
      BY <1>2, <1>5, <2>1, <2>2, <2>4 DEF LockShape, Locking
    <2>8. ASSUME NEW q \in Procs, pc'[q] = "judge", Here(q)' = f, saw'[q] = q
          PROVE  lock'[f] = q
      <3>1. Locking(q)'
        BY <2>8 DEF Locking
      <3>2. q # p /\ Locking(q)
        BY <2>2, <3>1
      <3>3. pc[q] = "judge" /\ Here(q) = f /\ saw[q] = q
        BY <1>2, <2>8, <3>2
      <3>4. f # Here(p) /\ lock[f] = q
        BY <2>1, <2>4, <3>2, <3>3 DEF LockShape
      <3> QED
        BY <1>6, <3>4
    <2>9. \A q \in Procs : \A d, e \in named'[q] :
            Holds(q, d, f)' /\ Holds(q, e, f)' => d = e
      BY <1>2, <1>4, <2>1, <2>3 DEF LockShape, Holds, Claims
    <2> QED
      BY <1>2, <2>1, <2>2, <2>5, <2>6, <2>7, <2>8, <2>9 DEF LockShape
  <1>8. LocksAreHeld'
    BY <1>5, <1>6 DEF Inv, LocksAreHeld
  <1> QED
    BY <1>2, <1>3, <1>7, <1>8 DEF Inv

\* A step into or out of the multirc, at which nothing is locked.
LEMMA LeaveKeeps ==
  ASSUME Inv, NEW p \in Procs, NEW reason \in {"quit", "scan", "died"},
         pc[p] = "idle", Leave(p, reason), low' = low,
         home' \in [Procs -> DOMAIN Groups], way' \in [Procs -> {-1, 0, 1}],
         UNCHANGED <<lock, named, active, saw, history>>,
         down' \in [Procs -> SUBSET Files], starts' \in Nat, faults' \in Nat
  PROVE  Inv'
  <1>1. TypeOK /\ Shape(p) /\ Placed
    BY InvPlaced DEF Inv
  <1>2. /\ Placed' /\ pc' = [pc EXCEPT ![p] = "unuse"] /\ why'[p] = reason
        /\ entry'[p] = 1 /\ group' = group
        /\ \A q \in Procs \ {p} : entry'[q] = entry[q]
    BY <1>1, LeavePlaces
  <1>3. \A q \in Procs \ {p} :
          /\ pc'[q] = pc[q] /\ entry'[q] = entry[q] /\ group'[q] = group[q]
          /\ named'[q] = named[q] /\ active'[q] = active[q] /\ why'[q] = why[q]
    BY <1>1, <1>2 DEF Leave, TypeOK
  <1>4. \A q \in Procs \ {p} :
          /\ Shape(q)' /\ Here(q)' = Here(q)
          /\ \A f \in Files : \A e : Holds(q, e, f)' = Holds(q, e, f)
    BY <1>3, OthersKeep
  <1>5. pc'[p] = "unuse"
    <2>1. DOMAIN pc = Procs
      BY <1>1 DEF TypeOK
    <2> QED
      BY <1>2, <2>1
  <1>6. Shape(p)' /\ ~Locking(p)'
    BY <1>1, <1>2, <1>5 DEF Shape, Locking, TypeOK
  <1>7. \A f \in Files : \A e : Holds(p, e, f)' <=> Holds(p, e, f)
    BY <1>2, <1>5 DEF Holds, Locking, FileOf
  <1>8. TypeOK'
    <2>1. \A q \in Procs : entry'[q] \in DOMAIN Groups[group'[q]]
      BY <1>2 DEF Placed
    <2>2. \A q \in Procs : named'[q] \cup active'[q] \cup {entry'[q]} \subseteq
                              DOMAIN Groups[group'[q]]
      <3>1. \A q \in Procs : named[q] \cup active[q] \subseteq DOMAIN Groups[group[q]]
        BY <1>1 DEF TypeOK
      <3> QED
        BY <1>2, <2>1, <3>1
    <2> QED
      BY <1>1, <1>2, <2>2 DEF TypeOK, Placed, Reason
  <1>9. \A q \in Procs, f \in Files : \A e : Holds(q, e, f)' <=> Holds(q, e, f)
    <2>1. ASSUME NEW q \in Procs, NEW f \in Files, NEW e
          PROVE  Holds(q, e, f)' <=> Holds(q, e, f)
      <3>1. CASE q = p
        BY <1>7, <3>1
      <3>2. CASE q # p
        BY <1>4, <3>2
      <3> QED
        BY <3>1, <3>2
    <2> QED
      BY <2>1
  <1>10. \A q \in Procs, f \in Files : Claims(q, f) => Claims(q, f)'
    BY <1>9 DEF Claims, Holds
  <1>11. (\A f \in Files \ (overlapped \cup twice) : LockShape(f))' /\ LocksAreHeld'
    BY <1>3, <1>4, <1>6, <1>9, <1>10, QuietLocks
  <1> QED
    BY <1>4, <1>6, <1>8, <1>11 DEF Inv

LEMMA AnotherKeeps ==
  ASSUME Inv, NEW p \in Procs, Another(p)
  PROVE  Inv'
  <1>1. TypeOK
    BY DEF Inv
  <1>2. PICK d \in {-1, 1} : way' = [way EXCEPT ![p] = d]
    BY DEF Another
  <1>3. way' \in [Procs -> {-1, 0, 1}] /\ home' \in [Procs -> DOMAIN Groups]
    BY <1>1, <1>2 DEF Another, TypeOK
  <1>4. /\ pc[p] = "idle" /\ Leave(p, "scan") /\ low' = low
        /\ UNCHANGED <<lock, named, active, saw, history>>
        /\ down' \in [Procs -> SUBSET Files] /\ starts' \in Nat /\ faults' \in Nat
    BY <1>1 DEF Another, TypeOK
  <1> QED
    BY <1>3, <1>4, LeaveKeeps

LEMMA ServerDiedKeeps ==
  ASSUME Inv, NEW p \in Procs, ServerDied(p)
  PROVE  Inv'
  <1>1. TypeOK
    BY DEF Inv
  <1>2. PICK e \in active[p] : down' = [down EXCEPT ![p] = @ \cup {FileOf(p, e)}]
    BY DEF ServerDied
  <1>3. FileOf(p, e) \in Files
    <2>1. group[p] \in DOMAIN Groups /\ e \in DOMAIN Groups[group[p]]
      BY <1>1 DEF TypeOK
    <2> QED
      BY <2>1, GroupsTyped DEF FileOf
  <1>4. down' \in [Procs -> SUBSET Files]
    <2>1. down \in [Procs -> SUBSET Files]
      BY <1>1 DEF TypeOK
    <2> QED
      BY <1>2, <1>3, <2>1
  <1>5. /\ pc[p] = "idle" /\ Leave(p, "died") /\ low' = low
        /\ home' \in [Procs -> DOMAIN Groups] /\ way' \in [Procs -> {-1, 0, 1}]
        /\ UNCHANGED <<lock, named, active, saw, history>>
        /\ starts' \in Nat /\ faults' \in Nat
    <2>1. /\ home \in [Procs -> DOMAIN Groups] /\ way \in [Procs -> {-1, 0, 1}]
          /\ starts \in Nat /\ faults \in Nat
      BY <1>1 DEF TypeOK
    <2>2. /\ pc[p] = "idle" /\ Leave(p, "died") /\ faults' = faults + 1
          /\ UNCHANGED <<lock, named, active, saw, low, home, way, history, starts>>
      BY DEF ServerDied
    <2> QED
      BY <2>1, <2>2
  <1> QED
    BY <1>4, <1>5, LeaveKeeps

\* A process that ends in good order has nothing.
LEMMA OffKeeps ==
  ASSUME Inv, NEW p \in Procs, active[p] = {}, pc[p] = "idle", Moves(p, "off"),
         UNCHANGED <<lock, named, active, down, saw, history, counters>>
  PROVE  Inv'
  <1>1. TypeOK /\ Shape(p) /\ named[p] = {}
    BY DEF Inv, Shape
  <1>2. /\ TypeOK' /\ pc'[p] = "off"
        /\ \A q \in Procs : Here(q)' = Here(q)
        /\ \A q \in Procs \ {p} :
             /\ Shape(q)' /\ pc'[q] = pc[q]
             /\ \A f \in Files : \A e : Holds(q, e, f)' = Holds(q, e, f)
    <2>1. "off" \in Spot
      BY DEF Spot
    <2>2. /\ lock' \in [Files -> Procs \cup {NoLock, Empty}]
          /\ saw' \in [Procs -> Procs \cup {NoLock, Empty}]
          /\ overlapped' \subseteq Files /\ twice' \subseteq Files /\ abrupt' = abrupt
          /\ starts' \in Nat /\ faults' \in Nat
          /\ named' \in [Procs -> SUBSET (Nat \ {0})] /\ named' = named
      BY <1>1 DEF TypeOK
    <2> QED
      BY <2>1, <2>2, MovesKeep
  <1>3. Shape(p)' /\ ~Locking(p)'
    BY <1>1, <1>2 DEF Shape, Locking
  <1>4. \A q \in Procs, f \in Files : \A e : Holds(q, e, f)' <=> Holds(q, e, f)
    BY <1>1, <1>2 DEF Holds
  <1>5. \A q \in Procs, f \in Files : Claims(q, f) => Claims(q, f)'
    BY <1>4 DEF Claims, Holds
  <1>6. (\A f \in Files \ (overlapped \cup twice) : LockShape(f))' /\ LocksAreHeld'
    BY <1>2, <1>3, <1>4, <1>5, QuietLocks
  <1> QED
    BY <1>2, <1>3, <1>6 DEF Inv

LEMMA QuitKeeps ==
  ASSUME Inv, NEW p \in Procs, Quit(p)
  PROVE  Inv'
  <1>1. CASE active[p] = {}
    BY <1>1, OffKeeps DEF Quit
  <1>2. CASE active[p] # {}
    <2>1. TypeOK
      BY DEF Inv
    <2>2. /\ pc[p] = "idle" /\ Leave(p, "quit") /\ low' = low
          /\ home' \in [Procs -> DOMAIN Groups] /\ way' \in [Procs -> {-1, 0, 1}]
          /\ UNCHANGED <<lock, named, active, saw, history>>
          /\ down' \in [Procs -> SUBSET Files] /\ starts' \in Nat /\ faults' \in Nat
      BY <1>2, <2>1 DEF Quit, TypeOK
    <2> QED
      BY <2>2, LeaveKeeps
  <1> QED
    BY <1>1, <1>2

LEMMA StartKeeps ==
  ASSUME Inv, NEW p \in Procs, Start(p)
  PROVE  Inv'
  <1>1. TypeOK /\ Shape(p) /\ Placed /\ named[p] = {} /\ active[p] = {}
    BY InvPlaced DEF Inv, Shape, Start
  <1>2. /\ Placed' /\ pc' = [pc EXCEPT ![p] = "lock"]
        /\ entry'[p] = 1 /\ group'[p] = First
        /\ \A q \in Procs \ {p} : entry'[q] = entry[q] /\ group'[q] = group[q]
    <2>1. First \in DOMAIN Groups /\ 1 \in DOMAIN Groups[First]
      BY GroupsTyped
    <2>2. At(p, First, 1, "scan") /\ "scan" \in Reason
      BY DEF Start, Reason
    <2>3. Scanning'
      BY <1>1 DEF Start, TypeOK, Scanning
    <2> QED
      BY <1>1, <2>1, <2>2, <2>3, AtPlaces
  <1>3. \A q \in Procs \ {p} :
          /\ pc'[q] = pc[q] /\ entry'[q] = entry[q] /\ group'[q] = group[q]
          /\ named'[q] = named[q] /\ active'[q] = active[q] /\ why'[q] = why[q]
    BY <1>1, <1>2 DEF Start, At, TypeOK
  <1>4. \A q \in Procs \ {p} :
          /\ Shape(q)' /\ Here(q)' = Here(q)
          /\ \A f \in Files : \A e : Holds(q, e, f)' = Holds(q, e, f)
    BY <1>3, OthersKeep
  <1>5. pc'[p] = "lock"
    BY <1>1, <1>2 DEF TypeOK
  <1>6. Shape(p)' /\ ~Locking(p)'
    BY <1>1, <1>2, <1>5 DEF Start, Shape, Locking
  <1>7. \A q \in Procs, f \in Files : \A e : Holds(q, e, f)' <=> Holds(q, e, f)
    <2>1. \A f \in Files : \A e : ~Holds(p, e, f)' /\ ~Holds(p, e, f)
      BY <1>1 DEF Start, Holds
    <2> QED
      BY <1>4, <2>1
  <1>8. \A q \in Procs, f \in Files : Claims(q, f) => Claims(q, f)'
    BY <1>7 DEF Claims, Holds
  <1>9. TypeOK'
    <2>1. \A q \in Procs : named'[q] \cup active'[q] \cup {entry'[q]} \subseteq
                              DOMAIN Groups[group'[q]]
      <3>1. \A q \in Procs : entry'[q] \in DOMAIN Groups[group'[q]]
        BY <1>2 DEF Placed
      <3>2. \A q \in Procs : named'[q] = named[q] /\ active'[q] = active[q]
        BY DEF Start
      <3>3. \A q \in Procs : named[q] \cup active[q] \subseteq DOMAIN Groups[group'[q]]
        <4>1. ASSUME NEW q \in Procs \ {p}
              PROVE  named[q] \cup active[q] \subseteq DOMAIN Groups[group'[q]]
          BY <1>1, <1>3 DEF TypeOK
        <4> QED
          BY <1>1, <4>1
      <3> QED
        BY <3>1, <3>2, <3>3
    <2>2. starts' \in Nat /\ down' \in [Procs -> SUBSET Files]
      BY <1>1 DEF Start, TypeOK
    <2> QED
      BY <1>1, <1>2, <2>1, <2>2 DEF Start, TypeOK, Placed, Reason
  <1>10. (\A f \in Files \ (overlapped \cup twice) : LockShape(f))' /\ LocksAreHeld'
    BY <1>3, <1>4, <1>6, <1>7, <1>8, QuietLocks DEF Start
  <1> QED
    BY <1>4, <1>6, <1>9, <1>10 DEF Inv

\* A newsrc that is given back, and the next one of the multirc.
LEMMA GivenBack ==
  ASSUME Inv, NEW p \in Procs, pc[p] = "unuse", RemoveLock(p),
         active' = [active EXCEPT ![p] = @ \ {entry[p]}]
  PROVE  /\ named'[p] = named[p] \ {entry[p]}
         /\ active'[p] = active[p] \ {entry[p]}
         /\ \A e \in named'[p] : entry[p] + 1 <= e /\ e <= Len(Groups[group[p]])
         /\ \A q \in Procs \ {p} : named'[q] = named[q] /\ active'[q] = active[q]
         /\ named' \in [Procs -> SUBSET (Nat \ {0})]
         /\ active' \in [Procs -> SUBSET (Nat \ {0})]
         /\ active'[p] \subseteq named'[p] /\ named'[p] \subseteq active'[p]
         /\ lock' \in [Files -> Procs \cup {NoLock, Empty}]
  <1>1. TypeOK /\ Shape(p) /\ Here(p) \in Files
    BY InvPlaced DEF Inv
  <1>2. /\ named'[p] = named[p] \ {entry[p]}
        /\ active'[p] = active[p] \ {entry[p]}
        /\ \A q \in Procs \ {p} : named'[q] = named[q] /\ active'[q] = active[q]
    BY <1>1 DEF TypeOK, RemoveLock
  <1>3. /\ named' \in [Procs -> SUBSET (Nat \ {0})]
        /\ active' \in [Procs -> SUBSET (Nat \ {0})]
    BY <1>1 DEF TypeOK, RemoveLock
  <1>4. lock' \in [Files -> Procs \cup {NoLock, Empty}]
    BY <1>1 DEF TypeOK, RemoveLock
  <1>5. \A e \in named'[p] : entry[p] + 1 <= e /\ e <= Len(Groups[group[p]])
    <2>1. \A e \in named[p] : e \in DOMAIN Groups[group[p]] /\ entry[p] <= e
      BY <1>1 DEF TypeOK, Shape
    <2>2. DOMAIN Groups[group[p]] = 1..Len(Groups[group[p]]) /\ Len(Groups[group[p]]) \in Nat
      BY <1>1, GroupsTyped DEF TypeOK
    <2>3. entry[p] \in Nat
      BY <1>1 DEF TypeOK
    <2> QED
      BY <1>2, <2>1, <2>2, <2>3
  <1>6. active'[p] \subseteq named'[p] /\ named'[p] \subseteq active'[p]
    BY <1>1, <1>2 DEF Shape
  <1> QED
    BY <1>2, <1>3, <1>4, <1>5, <1>6

LEMMA UnusePlaces ==
  ASSUME Inv, NEW p \in Procs, Unuse(p)
  PROVE  /\ Placed'
         /\ \/ /\ entry[p] < Len(Groups[group[p]]) /\ pc'[p] = "unuse"
               /\ entry'[p] = entry[p] + 1 /\ group'[p] = group[p] /\ why'[p] = why[p]
            \/ ~(entry[p] < Len(Groups[group[p]])) /\ pc'[p] \in {"off", "lock"}
         /\ \A q \in Procs \ {p} :
              /\ pc'[q] = pc[q] /\ entry'[q] = entry[q] /\ group'[q] = group[q]
              /\ why'[q] = why[q]
  <1>1. TypeOK /\ Placed /\ Shape(p) /\ why[p] \in {"quit", "scan", "died"}
    BY InvPlaced DEF Inv, Shape, Unuse
  <1>2. CASE entry[p] < Len(Groups[group[p]])
    <2>1. /\ entry' = [entry EXCEPT ![p] = @ + 1]
          /\ UNCHANGED <<pc, group, why, low, home, way>> /\ pc[p] = "unuse"
      BY <1>2 DEF Unuse
    <2>2. entry[p] + 1 \in DOMAIN Groups[group[p]] /\ entry[p] + 1 \in Nat \ {0}
      <3>1. group[p] \in DOMAIN Groups /\ entry[p] \in Nat \ {0}
        BY <1>1 DEF Placed
      <3> DEFINE last == Len(Groups[group[p]])
      <3>2. DOMAIN Groups[group[p]] = 1..last /\ last \in Nat /\ entry[p] < last
        BY <1>2, <3>1, GroupsTyped
      <3> HIDE DEF last
      <3> QED
        BY <3>1, <3>2
    <2> QED
      BY <1>1, <1>2, <2>1, <2>2 DEF Placed
  <1>3. CASE ~(entry[p] < Len(Groups[group[p]])) /\ why[p] = "quit"
    <2>1. Moves(p, "off")
      BY <1>3 DEF Unuse
    <2> QED
      BY <1>1, <1>3, <2>1 DEF Moves, Placed
  <1>4. CASE ~(entry[p] < Len(Groups[group[p]])) /\ why[p] = "scan"
    <2>1. Scan(p)
      BY <1>4 DEF Unuse
    <2>2. /\ Placed' /\ pc' = [pc EXCEPT ![p] = "lock"]
          /\ \A q \in Procs \ {p} : entry'[q] = entry[q] /\ group'[q] = group[q]
      BY <1>1, <2>1, ScanPlaces
    <2>3. \A q \in Procs \ {p} : why'[q] = why[q] /\ pc'[q] = pc[q]
      BY <1>1, <2>1, <2>2 DEF Scan, At, Placed
    <2> QED
      BY <1>1, <1>4, <2>2, <2>3 DEF Placed
  <1>5. CASE ~(entry[p] < Len(Groups[group[p]])) /\ why[p] = "died"
    <2>1. At(p, group[p], 1, "died") /\ UNCHANGED <<low, home, way>>
      BY <1>5 DEF Unuse
    <2>2. "died" \in Reason /\ group[p] \in DOMAIN Groups /\ 1 \in DOMAIN Groups[group[p]]
      BY <1>1, GroupsTyped DEF Reason, Placed
    <2>3. Scanning'
      BY <1>1, <2>1 DEF Placed, Scanning
    <2>4. /\ Placed' /\ pc' = [pc EXCEPT ![p] = "lock"]
          /\ \A q \in Procs \ {p} : entry'[q] = entry[q] /\ group'[q] = group[q]
      BY <1>1, <2>1, <2>2, <2>3, AtPlaces
    <2>5. \A q \in Procs \ {p} : why'[q] = why[q] /\ pc'[q] = pc[q]
      BY <1>1, <2>1, <2>4 DEF At, Placed
    <2> QED
      BY <1>1, <1>5, <2>4, <2>5 DEF Placed
  <1> QED
    BY <1>1, <1>2, <1>3, <1>4, <1>5

LEMMA UnuseKeeps ==
  ASSUME Inv, NEW p \in Procs, Unuse(p)
  PROVE  Inv'
  <1>1. /\ TypeOK /\ Shape(p) /\ Here(p) \in Files /\ pc[p] = "unuse" /\ RemoveLock(p)
        /\ active' = [active EXCEPT ![p] = @ \ {entry[p]}]
        /\ UNCHANGED <<down, saw, history, counters>>
    BY InvPlaced DEF Inv, Unuse
  <1>2. /\ named'[p] = named[p] \ {entry[p]}
        /\ active'[p] = active[p] \ {entry[p]}
        /\ \A e \in named'[p] : entry[p] + 1 <= e /\ e <= Len(Groups[group[p]])
        /\ \A q \in Procs \ {p} : named'[q] = named[q] /\ active'[q] = active[q]
        /\ named' \in [Procs -> SUBSET (Nat \ {0})]
        /\ active' \in [Procs -> SUBSET (Nat \ {0})]
        /\ active'[p] \subseteq named'[p] /\ named'[p] \subseteq active'[p]
        /\ lock' \in [Files -> Procs \cup {NoLock, Empty}]
    BY <1>1, GivenBack
  <1>3. /\ Placed'
        /\ \/ /\ entry[p] < Len(Groups[group[p]]) /\ pc'[p] = "unuse"
              /\ entry'[p] = entry[p] + 1 /\ group'[p] = group[p] /\ why'[p] = why[p]
           \/ ~(entry[p] < Len(Groups[group[p]])) /\ pc'[p] \in {"off", "lock"}
        /\ \A q \in Procs \ {p} :
             /\ pc'[q] = pc[q] /\ entry'[q] = entry[q] /\ group'[q] = group[q]
             /\ why'[q] = why[q]
    BY UnusePlaces
  <1>4. \A q \in Procs \ {p} :
          /\ Shape(q)' /\ Here(q)' = Here(q)
          /\ \A f \in Files : \A e : Holds(q, e, f)' = Holds(q, e, f)
    <2>1. \A q \in Procs \ {p} :
            /\ pc'[q] = pc[q] /\ entry'[q] = entry[q] /\ group'[q] = group[q]
            /\ named'[q] = named[q] /\ active'[q] = active[q] /\ why'[q] = why[q]
      BY <1>2, <1>3
    <2> QED
      BY <2>1, OthersKeep
  \* When the last one is given back, the process has none.
  <1>5. ~(entry[p] < Len(Groups[group[p]])) => named'[p] = {} /\ active'[p] = {}
    <2>1. entry[p] \in Nat /\ Len(Groups[group[p]]) \in Nat
      BY <1>1, GroupsTyped DEF TypeOK
    <2>2. \A e \in named'[p] : e \in Nat
      BY <1>2
    <2> DEFINE last == Len(Groups[group[p]])
    <2>3. \A e \in named'[p] : entry[p] + 1 <= e /\ e <= last
      BY <1>2
    <2>4. active'[p] \subseteq named'[p]
      BY <1>2
    <2>5. last \in Nat
      BY <2>1
    <2> HIDE DEF last
    <2>6. ~(entry[p] < last) => named'[p] = {}
      BY <2>1, <2>2, <2>3, <2>5
    <2> QED
      BY <2>4, <2>6 DEF last
  <1>6. ~Locking(p)'
    BY <1>3 DEF Locking
  <1>7. Shape(p)'
    <2>1. CASE entry[p] < Len(Groups[group[p]])
      BY <1>1, <1>2, <1>3, <2>1 DEF Shape
    <2>2. CASE ~(entry[p] < Len(Groups[group[p]]))
      BY <1>3, <1>5, <2>2 DEF Shape
    <2> QED
      BY <2>1, <2>2
  <1>8. \A f \in Files : \A e : Holds(p, e, f)' <=> Holds(p, e, f) /\ e # entry[p]
    <2>1. ~Locking(p)
      BY <1>1 DEF Locking
    <2>2. CASE entry[p] < Len(Groups[group[p]])
      BY <1>2, <1>3, <1>6, <2>1, <2>2 DEF Holds, FileOf
    <2>3. CASE ~(entry[p] < Len(Groups[group[p]]))
      BY <1>2, <1>5, <2>3 DEF Holds
    <2> QED
      BY <2>2, <2>3
  <1>9. TypeOK'
    <2>1. \A q \in Procs \ {p} : named'[q] \cup active'[q] \cup {entry'[q]} \subseteq
                                    DOMAIN Groups[group'[q]]
      BY <1>1, <1>2, <1>3 DEF TypeOK
    <2>2. named'[p] \cup active'[p] \subseteq DOMAIN Groups[group'[p]]
      <3>1. CASE entry[p] < Len(Groups[group[p]])
        BY <1>1, <1>2, <1>3, <3>1 DEF TypeOK
      <3>2. CASE ~(entry[p] < Len(Groups[group[p]]))
        BY <1>5, <3>2
      <3> QED
        BY <3>1, <3>2
    <2>3. entry'[p] \in DOMAIN Groups[group'[p]]
      BY <1>3 DEF Placed
    <2>4. \A q \in Procs : named'[q] \cup active'[q] \cup {entry'[q]} \subseteq
                              DOMAIN Groups[group'[q]]
      BY <2>1, <2>2, <2>3
    <2>5. /\ overlapped' \subseteq Files /\ twice' \subseteq Files /\ abrupt' \subseteq Procs
          /\ starts' \in Nat /\ faults' \in Nat
          /\ down' \in [Procs -> SUBSET Files]
          /\ saw' \in [Procs -> Procs \cup {NoLock, Empty}]
      BY <1>1 DEF TypeOK
    <2> QED
      BY <1>2, <1>3, <2>4, <2>5 DEF TypeOK, Placed, Reason
  <1>10. (\A f \in Files \ (overlapped \cup twice) : LockShape(f))' /\ LocksAreHeld'
    <2>1. CASE entry[p] \in named[p]
      <3>1. Holds(p, entry[p], Here(p))
        BY <1>1, <2>1 DEF Holds, Here, Locking
      <3>2. lock' = [lock EXCEPT ![Here(p)] = NoLock]
        BY <1>1, <2>1 DEF RemoveLock
      <3> QED
        BY <1>1, <1>3, <1>4, <1>6, <1>8, <3>1, <3>2, RemovedLock
    <2>2. CASE entry[p] \notin named[p]
      <3>1. lock' = lock
        BY <1>1, <2>2 DEF RemoveLock
      <3>2. \A f \in Files : \A e : Holds(p, e, f)' <=> Holds(p, e, f)
        BY <1>8, <2>2 DEF Holds
      <3>3. \A q \in Procs, f \in Files : \A e : Holds(q, e, f)' <=> Holds(q, e, f)
        BY <1>4, <3>2
      <3>4. \A q \in Procs, f \in Files : Claims(q, f) => Claims(q, f)'
        BY <3>3 DEF Claims, Holds
      <3> QED
        BY <1>1, <1>3, <1>4, <1>6, <3>1, <3>3, <3>4, QuietLocks
    <2> QED
      BY <2>1, <2>2
  <1> QED
    BY <1>4, <1>7, <1>9, <1>10 DEF Inv

-------------------------------------------------------------------------------
\* The theorems.

LEMMA InvStep == Inv /\ [Next]_vars => Inv'
  <1> SUFFICES ASSUME Inv, [Next]_vars PROVE Inv'
    OBVIOUS
  <1>1. CASE Next
    <2>1. PICK p \in Procs :
            \/ Start(p) \/ Unavailable(p) \/ ReadLock(p) \/ TurnedAway(p) \/ OwnPid(p)
            \/ Judged(p) \/ Create(p) \/ CannotCreate(p) \/ Write(p)
            \/ Open(p) \/ OpenFails(p) \/ Unlock(p)
            \/ Quit(p) \/ Another(p) \/ ServerDied(p) \/ Unuse(p) \/ Crash(p)
      BY <1>1 DEF Next
    <2> QED
      BY <2>1, StartKeeps, UnavailableKeeps, ReadLockKeeps, TurnedAwayKeeps, OwnPidKeeps,
         JudgedKeeps, CreateKeeps, CannotCreateKeeps, WriteKeeps, OpenKeeps, OpenFailsKeeps,
         UnlockKeeps, QuitKeeps, AnotherKeeps, ServerDiedKeeps, UnuseKeeps, CrashKeeps
  <1>2. CASE UNCHANGED vars
    <2>1. UNCHANGED <<lock, pc, place, named, active, down, saw, history, counters>>
      BY <1>2 DEF vars
    <2>2. TypeOK'
      BY <2>1 DEF Inv, TypeOK
    <2>3. \A p \in Procs : Shape(p)'
      BY <2>1 DEF Inv, Shape
    <2>4. (\A f \in Files \ (overlapped \cup twice) : LockShape(f))'
      BY <2>1 DEF Inv, LockShape, Claims, Holds, Locking, Here, FileOf
    <2>5. LocksAreHeld'
      BY <2>1 DEF Inv, LocksAreHeld, Claims, Holds, Locking, FileOf
    <2> QED
      BY <2>2, <2>3, <2>4, <2>5 DEF Inv
  <1> QED
    BY <1>1, <1>2

\* A process uses what it has.
LEMMA InvExcludes == Inv => Exclusion
  <1> SUFFICES ASSUME Inv, NEW f \in Files \ (overlapped \cup twice),
                      NEW p \in Procs, NEW q \in Procs, Uses(p, f), Uses(q, f)
               PROVE  p = q
    BY DEF Exclusion
  <1>1. ASSUME NEW r \in Procs, Uses(r, f) PROVE Claims(r, f)
    <2>1. Shape(r) /\ LockShape(f)
      BY DEF Inv
    <2>2. CASE pc[r] = "open" /\ Here(r) = f
      BY <2>1, <2>2 DEF Shape, Claims, Holds, Here, Locking
    <2>3. CASE \E e \in active[r] : FileOf(r, e) = f
      <3>1. PICK e \in active[r] : FileOf(r, e) = f
        BY <2>3
      <3>2. e \in named[r]
        BY <2>1, <3>1 DEF Shape
      <3>3. ~(Locking(r) /\ entry[r] = e)
        <4>1. e \in Nat
          BY <3>2 DEF Inv, TypeOK
        <4>2. Locking(r) => e < entry[r]
          BY <2>1, <3>1 DEF Shape, Locking
        <4> QED
          BY <4>1, <4>2
      <3> QED
        BY <3>1, <3>2, <3>3 DEF Claims, Holds
    <2> QED
      BY <1>1, <2>2, <2>3 DEF Uses
  <1>2. Claims(p, f) /\ Claims(q, f) /\ LockShape(f)
    BY <1>1 DEF Inv
  <1> QED
    BY <1>2 DEF LockShape

\* The types of the variables, for any number of processes and newsrcs.
THEOREM LockTypeCorrect == Spec => []TypeOK
  <1>1. Inv => TypeOK
    BY DEF Inv
  <1> QED
    BY <1>1, InvInit, InvStep, PTL DEF Spec

\* A lock file that names a process is of a newsrc that the process has, or is
\* left from an abrupt end of it: lock_newsrc, unlock_newsrc and the scans of
\* use_next_multirc leave no lock behind.
THEOREM LocksHeld == Spec => []LocksAreHeld
  <1>1. Inv => LocksAreHeld
    BY DEF Inv
  <1> QED
    BY <1>1, InvInit, InvStep, PTL DEF Spec

\* Two processes use a newsrc at the same time only if they were locking it at
\* the same time, or one of them had tried to lock it twice.
THEOREM MutualExclusion == Spec => []Exclusion
  BY InvExcludes, InvInit, InvStep, PTL DEF Spec
================================================================================
