-------------------------------- MODULE NewsrcProofs ---------------------------
(***************************************************************************)
(* Proofs about Newsrc, for any number of newsrcs, marks and faults:       *)
(* IInv is inductive, and so the variables keep their types and a newsrc   *)
(* is never lost (BackupSurvives). SavedInv is inductive relative to it,   *)
(* and so the flag, the last write and the exits of a session keep their   *)
(* promises (UnchangedMeansSaved, SavedStaysWhole, ExitsAsAsked).          *)
(***************************************************************************)
EXTENDS Newsrc, TLAPS

USE NumRcsAssumption, NoFileAssumption, SubscriptionsAssumption,
    UnsafeAssumption, MaxFaultsAssumption
USE DEF Rcs, Level, files, memory, control, history, Goto, Current,
        IInv, TypeOK

-------------------------------------------------------------------------------
\* A call of write_newsrcs keeps the control variables in their domains.
LEMMA CallWriteTyped ==
  ASSUME ControlOK, NEW l \in Level, NEW c \in Return, CallWrite(l, c),
         UNCHANGED fd, faults' \in 0..MaxFaults
  PROVE  ControlOK'
  BY DEF ControlOK, CallWrite, PC, WritePC

\* bits_to_rc keeps the lines and the flags in their domains.
LEMMA BitsToRcTyped ==
  ASSUME MemoryOK, BitsToRc
  PROVE  lines' \in [Rcs -> Content] /\ changed' \in [Rcs -> BOOLEAN]
  <1>1. CASE ng = 0
    BY <1>1 DEF MemoryOK, BitsToRc
  <1>2. CASE ng # 0
    <2>1. lines[ng] \cup bits \in Content
      BY <1>2 DEF MemoryOK, Content
    <2> QED
      BY <1>2, <2>1 DEF MemoryOK, BitsToRc
  <1> QED
    BY <1>1, <1>2

\* bits_to_rc takes no mark from a line.
LEMMA BitsToRcAdds ==
  ASSUME MemoryOK, BitsToRc
  PROVE  \A rc \in Rcs : lines[rc] \subseteq lines'[rc]
  <1>1. CASE ng = 0
    BY <1>1 DEF BitsToRc
  <1>2. CASE ng # 0
    BY <1>2 DEF MemoryOK, BitsToRc
  <1> QED
    BY <1>1, <1>2

\* A level that is in the middle of writing a newsrc writes an active one.
LEMMA WriterActive ==
  ASSUME IInv, NEW l \in Level, NEW rc \in Rcs, NEW p \in MidWrite,
         Writing(l, p, rc)
  PROVE  active[rc]
  BY DEF ActiveShape, Writing

\* The invariant holds initially.
LEMMA InvInit == Init => IInv
  <1> SUFFICES ASSUME Init PROVE IInv
    OBVIOUS
  <1>1. TypeOK
    <2>1. {} \in Content /\ {Lines} \in Content
      BY DEF Content
    <2>2. FilesOK /\ MemoryOK
      BY <2>1 DEF Init, FilesOK, MemoryOK, File
    <2>3. ControlOK
      BY DEF Init, ControlOK, Return, PC
    <2>4. HistoryOK
      BY <2>1, <2>2 DEF Init, FilesOK, HistoryOK
    <2> QED
      BY <2>2, <2>3, <2>4
  <1>2. LevelShape /\ ActiveShape /\ OpenShape
    BY DEF Init, LevelShape, ActiveShape, OpenShape, MidWrite, Ending,
           PC, WritePC, OpenPC, GetOldPC
  <1>3. /\ MemoryHolds /\ RolledIsRestored /\ HandlerStreams
        /\ RolledShape /\ InactiveSurvives
    BY DEF Init, MemoryHolds, RolledIsRestored, HandlerStreams, RolledShape,
       Rolled, InactiveSurvives
  <1> QED
    BY <1>1, <1>2, <1>3

-------------------------------------------------------------------------------
\* Starting and opening.

LEMMA StartKeeps ==
  ASSUME IInv, Start
  PROVE  IInv'
  <1>1. FilesOK'
    BY DEF Start, FilesOK
  <1>2. MemoryOK'
    BY DEF Start, MemoryOK
  <1>3. ControlOK'
    BY DEF Start, ControlOK, Return, PC, OpenPC, GetOldPC
  <1>4. HistoryOK'
    BY DEF Start, HistoryOK
  <1>5. LevelShape'
    BY DEF Start, ControlOK, LevelShape, Ending, WritePC, OpenPC, GetOldPC, PC
  <1>6. ActiveShape'
    BY DEF Start, ControlOK, ActiveShape, MidWrite, WritePC
  <1>7. OpenShape'
    BY DEF Start, OpenShape
  <1>8. MemoryHolds'
    BY DEF Start, MemoryHolds
  <1>9. RolledShape'
    BY DEF Start, ControlOK, RolledShape, Rolled, Late, AtHandler, Current,
       MidWrite, WritePC, GetOldPC
  <1>10. InactiveSurvives'
    BY DEF Start, InactiveSurvives
  <1>11. RolledIsRestored'
    BY DEF Start, FilesOK, ControlOK, HistoryOK, ActiveShape,
       RolledIsRestored, Rolled, OpenPC, GetOldPC
  <1>12. HandlerStreams'
    BY DEF Start, ControlOK, HistoryOK, LevelShape, HandlerStreams,
       WritePC
  <1> QED
    BY <1>1, <1>2, <1>3, <1>4, <1>5, <1>6, <1>7, <1>8, <1>9, <1>10, <1>11,
       <1>12

LEMMA OpenMissingKeeps ==
  ASSUME IInv, NEW rc \in Rcs, OpenMissing(rc)
  PROVE  IInv'
  <1>1. FilesOK'
    BY DEF OpenMissing, FilesOK, File, Content
  <1>2. MemoryOK'
    BY DEF OpenMissing, MemoryOK
  <1>3. ControlOK'
    BY DEF OpenMissing, Opening, ControlOK, Return, PC, OpenPC, GetOldPC
  <1>4. HistoryOK'
    BY DEF OpenMissing, NewSession, FilesOK, MemoryOK, HistoryOK, File,
       Content
  <1>5. LevelShape'
    BY DEF OpenMissing, Opening, ControlOK, LevelShape, Ending, WritePC,
       OpenPC, GetOldPC, PC
  <1>6. ActiveShape'
    BY DEF OpenMissing, Opening, ControlOK, ActiveShape, MidWrite, WritePC,
       OpenPC
  <1>7. OpenShape'
    BY DEF OpenMissing, Opening, NewSession, FilesOK, MemoryOK, ControlOK,
       HistoryOK, LevelShape, OpenShape, Content, PC, WritePC, OpenPC,
       GetOldPC
  <1>8. MemoryHolds'
    BY DEF OpenMissing, Opening, MemoryHolds
  <1>9. RolledShape'
    BY DEF OpenMissing, Opening, NewSession, FilesOK, MemoryOK, ControlOK,
       HistoryOK, LevelShape, ActiveShape, RolledShape, Rolled, Late,
       AtHandler, Current, MidWrite, WritePC, GetOldPC
  <1>10. InactiveSurvives'
    BY DEF OpenMissing, Opening, NewSession, FilesOK, MemoryOK, HistoryOK,
       ActiveShape, InactiveSurvives, Holds
  <1>11. RolledIsRestored'
    BY DEF OpenMissing, Opening, NewSession, FilesOK, ControlOK,
       HistoryOK, ActiveShape, RolledIsRestored, Rolled, OpenPC, GetOldPC
  <1>12. HandlerStreams'
    BY DEF OpenMissing, Opening, NewSession, ControlOK, HistoryOK,
       LevelShape, HandlerStreams, WritePC
  <1> QED
    BY <1>1, <1>2, <1>3, <1>4, <1>5, <1>6, <1>7, <1>8, <1>9, <1>10, <1>11,
       <1>12

LEMMA SeedKeeps ==
  ASSUME IInv, NEW rc \in Rcs, Seed(rc)
  PROVE  IInv'
  <1>1. FilesOK'
    BY DEF Seed, FilesOK, File, Content
  <1>2. MemoryOK'
    BY DEF Seed, MemoryOK
  <1>3. ControlOK'
    BY DEF Seed, Opening, ControlOK, Return, PC, OpenPC, GetOldPC
  <1>4. HistoryOK'
    BY DEF Seed, FilesOK, MemoryOK, HistoryOK, File, Content
  <1>5. LevelShape'
    BY DEF Seed, Opening, ControlOK, LevelShape, Ending, WritePC, OpenPC,
       GetOldPC, PC
  <1>6. ActiveShape'
    BY DEF Seed, Opening, ControlOK, ActiveShape, MidWrite, WritePC, OpenPC
  <1>7. OpenShape'
    BY DEF Seed, Opening, OpenShape
  <1>8. MemoryHolds'
    BY DEF Seed, Opening, MemoryHolds
  <1>9. RolledShape'
    BY DEF Seed, Opening, ControlOK, RolledShape, Rolled, Late, AtHandler,
       Current, MidWrite, WritePC, GetOldPC
  <1>10. InactiveSurvives'
    BY DEF Seed, Opening, FilesOK, MemoryOK, HistoryOK, ActiveShape,
       OpenShape, RolledShape, Rolled, InactiveSurvives, Holds, Content,
       WritePC, OpenPC, GetOldPC
  <1>11. RolledIsRestored'
    BY DEF Seed, Opening, FilesOK, ControlOK, HistoryOK, ActiveShape,
       RolledIsRestored, Rolled, OpenPC, GetOldPC
  <1>12. HandlerStreams'
    BY DEF Seed, Opening, ControlOK, HistoryOK, LevelShape,
       HandlerStreams, WritePC
  <1> QED
    BY <1>1, <1>2, <1>3, <1>4, <1>5, <1>6, <1>7, <1>8, <1>9, <1>10, <1>11,
       <1>12

LEMMA OpenRefusedKeeps ==
  ASSUME IInv, NEW rc \in Rcs, OpenRefused(rc)
  PROVE  IInv'
  <1>1. FilesOK'
    BY DEF OpenRefused, FilesOK
  <1>2. MemoryOK'
    BY DEF OpenRefused, MemoryOK
  <1>3. ControlOK'
    BY DEF OpenRefused, Opening, ControlOK
  <1>4. HistoryOK'
    BY DEF OpenRefused, HistoryOK
  <1>5. LevelShape'
    BY DEF OpenRefused, Opening, LevelShape, Ending
  <1>6. ActiveShape'
    BY DEF OpenRefused, Opening, ControlOK, ActiveShape, MidWrite, WritePC
  <1>7. OpenShape'
    BY DEF OpenRefused, Opening, OpenShape
  <1>8. MemoryHolds'
    BY DEF OpenRefused, Opening, MemoryHolds
  <1>9. RolledShape'
    BY DEF OpenRefused, Opening, ControlOK, RolledShape, Rolled, Late,
       AtHandler, Current, MidWrite, WritePC, GetOldPC
  <1>10. InactiveSurvives'
    BY DEF OpenRefused, Opening, InactiveSurvives
  <1>11. RolledIsRestored'
    BY DEF OpenRefused, Opening, FilesOK, ControlOK, HistoryOK,
       ActiveShape, RolledIsRestored, Rolled, OpenPC, GetOldPC
  <1>12. HandlerStreams'
    BY DEF OpenRefused, Opening, ControlOK, HistoryOK, LevelShape,
       HandlerStreams, WritePC
  <1> QED
    BY <1>1, <1>2, <1>3, <1>4, <1>5, <1>6, <1>7, <1>8, <1>9, <1>10, <1>11,
       <1>12

LEMMA RemoveOldKeeps ==
  ASSUME IInv, NEW rc \in Rcs, RemoveOld(rc)
  PROVE  IInv'
  <1>1. FilesOK'
    BY DEF RemoveOld, FilesOK, File, Content
  <1>2. MemoryOK'
    BY DEF RemoveOld, MemoryOK
  <1>3. ControlOK'
    BY DEF RemoveOld, Opening, ControlOK, Return, PC, OpenPC, GetOldPC
  <1>4. HistoryOK'
    BY DEF RemoveOld, NewSession, FilesOK, MemoryOK, HistoryOK, File, Content
  <1>5. LevelShape'
    BY DEF RemoveOld, Opening, ControlOK, LevelShape, Ending, WritePC, OpenPC,
       GetOldPC, PC
  <1>6. ActiveShape'
    BY DEF RemoveOld, Opening, ControlOK, ActiveShape, MidWrite, WritePC,
       OpenPC
  <1>7. OpenShape'
    BY DEF RemoveOld, Opening, FilesOK, ControlOK, HistoryOK, LevelShape,
       OpenShape, WritePC, OpenPC
  <1>8. MemoryHolds'
    BY DEF RemoveOld, Opening, MemoryOK, HistoryOK, ActiveShape, OpenShape,
       MemoryHolds, OpenPC
  <1>9. RolledShape'
    BY DEF RemoveOld, Opening, NewSession, FilesOK, MemoryOK, ControlOK,
       HistoryOK, LevelShape, ActiveShape, RolledShape, Rolled, Late,
       AtHandler, Current, MidWrite, WritePC, OpenPC, GetOldPC, Ending
  <1>10. InactiveSurvives'
    <2>1. rcFile[rc] # NoFile /\ base'[rc] = rcFile[rc] /\ rcFile' = rcFile
      BY DEF RemoveOld, HistoryOK
    <2>2. Holds(rcFile'[rc], base'[rc])
      BY <2>1 DEF Holds
    <2>3. \A r \in Rcs \ {rc} :
            /\ oldFile'[r] = oldFile[r] /\ newFile'[r] = newFile[r]
            /\ base'[r] = base[r] /\ backed'[r] = backed[r]
            /\ restored'[r] = restored[r] /\ overlaid'[r] = overlaid[r]
      BY DEF RemoveOld, NewSession, FilesOK, HistoryOK
    <2>4. active' = active
      BY DEF RemoveOld
    <2> QED
      BY <2>1, <2>2, <2>3, <2>4 DEF InactiveSurvives, Holds
  <1>11. RolledIsRestored'
    BY DEF RemoveOld, Opening, NewSession, FilesOK, ControlOK, HistoryOK,
       ActiveShape, RolledIsRestored, Rolled, OpenPC, GetOldPC
  <1>12. HandlerStreams'
    BY DEF RemoveOld, Opening, NewSession, ControlOK, HistoryOK,
       LevelShape, HandlerStreams, WritePC
  <1> QED
    BY <1>1, <1>2, <1>3, <1>4, <1>5, <1>6, <1>7, <1>8, <1>9, <1>10, <1>11,
       <1>12

LEMMA CopyOldKeeps ==
  ASSUME IInv, NEW rc \in Rcs, CopyOld(rc)
  PROVE  IInv'
  <1>1. FilesOK'
    BY DEF CopyOld, FilesOK
  <1>2. MemoryOK'
    BY DEF CopyOld, MemoryOK
  <1>3. ControlOK'
    BY DEF CopyOld, Opening, ControlOK, Return, PC, OpenPC, GetOldPC
  <1>4. HistoryOK'
    BY DEF CopyOld, HistoryOK
  <1>5. LevelShape'
    BY DEF CopyOld, Opening, ControlOK, LevelShape, Ending, WritePC, OpenPC,
       GetOldPC, PC
  <1>6. ActiveShape'
    BY DEF CopyOld, Opening, ControlOK, ActiveShape, MidWrite, WritePC, OpenPC
  <1>7. OpenShape'
    BY DEF CopyOld, Opening, FilesOK, ControlOK, HistoryOK, LevelShape,
       OpenShape, WritePC, OpenPC
  <1>8. MemoryHolds'
    BY DEF CopyOld, Opening, MemoryHolds
  <1>9. RolledShape'
    BY DEF CopyOld, Opening, MemoryOK, ControlOK, LevelShape, ActiveShape,
       RolledShape, Rolled, Late, AtHandler, Current, MidWrite, WritePC,
       OpenPC, GetOldPC, Ending
  <1>10. InactiveSurvives'
    BY DEF CopyOld, Opening, FilesOK, MemoryOK, HistoryOK, ActiveShape,
       OpenShape, RolledShape, Rolled, InactiveSurvives, Holds, Content,
       WritePC, OpenPC, GetOldPC
  <1>11. RolledIsRestored'
    BY DEF CopyOld, Opening, FilesOK, ControlOK, HistoryOK, ActiveShape,
       RolledIsRestored, Rolled, OpenPC, GetOldPC
  <1>12. HandlerStreams'
    BY DEF CopyOld, Opening, ControlOK, HistoryOK, LevelShape,
       HandlerStreams, WritePC
  <1> QED
    BY <1>1, <1>2, <1>3, <1>4, <1>5, <1>6, <1>7, <1>8, <1>9, <1>10, <1>11,
       <1>12

LEMMA CopyFailsKeeps ==
  ASSUME IInv, NEW rc \in Rcs, CopyFails(rc)
  PROVE  IInv'
  <1>1. FilesOK'
    BY DEF CopyFails, Opening, FilesOK, MemoryOK, HistoryOK, OpenShape, File,
       Content
  <1>2. MemoryOK'
    BY DEF CopyFails, MemoryOK
  <1>3. ControlOK'
    BY DEF CopyFails, Opening, ControlOK, PC
  <1>4. HistoryOK'
    BY DEF CopyFails, HistoryOK
  <1>5. LevelShape'
    BY DEF CopyFails, Opening, ControlOK, LevelShape, Ending, WritePC, OpenPC,
       GetOldPC, PC
  <1>6. ActiveShape'
    BY DEF CopyFails, Opening, ControlOK, ActiveShape, MidWrite, WritePC,
       OpenPC
  <1>7. OpenShape'
    BY DEF CopyFails, Opening, OpenShape
  <1>8. MemoryHolds'
    BY DEF CopyFails, Opening, MemoryHolds
  <1>9. RolledShape'
    BY DEF CopyFails, Opening, MemoryOK, ControlOK, LevelShape, ActiveShape,
       RolledShape, Rolled, Late, AtHandler, Current, MidWrite, WritePC,
       OpenPC, GetOldPC, Ending
  <1>10. InactiveSurvives'
    BY DEF CopyFails, Opening, FilesOK, MemoryOK, HistoryOK, ActiveShape,
       OpenShape, RolledShape, Rolled, InactiveSurvives, Holds, Content,
       WritePC, OpenPC, GetOldPC
  <1>11. RolledIsRestored'
    BY DEF CopyFails, Opening, FilesOK, ControlOK, HistoryOK, ActiveShape,
       RolledIsRestored, Rolled, OpenPC, GetOldPC
  <1>12. HandlerStreams'
    BY DEF CopyFails, Opening, ControlOK, HistoryOK, LevelShape,
       HandlerStreams, WritePC
  <1> QED
    BY <1>1, <1>2, <1>3, <1>4, <1>5, <1>6, <1>7, <1>8, <1>9, <1>10, <1>11,
       <1>12

LEMMA LoadKeeps ==
  ASSUME IInv, NEW rc \in Rcs, Load(rc)
  PROVE  IInv'
  <1>1. FilesOK'
    BY DEF Load, FilesOK
  <1>2. MemoryOK'
    BY DEF Load, Opening, FilesOK, MemoryOK, OpenShape, File, Content
  <1>3. ControlOK'
    BY DEF Load, Opening, ControlOK, Return, PC, OpenPC, GetOldPC
  <1>4. HistoryOK'
    BY DEF Load, HistoryOK
  <1>5. LevelShape'
    BY DEF Load, Opening, ControlOK, LevelShape, Ending, WritePC, OpenPC,
       GetOldPC, PC
  <1>6. ActiveShape'
    BY DEF Load, Opening, ControlOK, ActiveShape, MidWrite, WritePC, OpenPC
  <1>7. OpenShape'
    BY DEF Load, Opening, ControlOK, OpenShape
  <1>8. MemoryHolds'
    BY DEF Load, Opening, MemoryOK, HistoryOK, ActiveShape, OpenShape,
       MemoryHolds, OpenPC
  <1>9. RolledShape'
    BY DEF Load, Opening, FilesOK, MemoryOK, ControlOK, HistoryOK, LevelShape,
       ActiveShape, OpenShape, MemoryHolds, RolledShape, Rolled, Late,
       AtHandler, Mid, Holds, MidWrite, Ending, Content, File, PC, WritePC,
       OpenPC, GetOldPC
  <1>10. InactiveSurvives'
    BY DEF Load, Opening, InactiveSurvives
  <1>11. RolledIsRestored'
    BY DEF Load, Opening, FilesOK, ControlOK, HistoryOK, ActiveShape,
       OpenShape, MemoryOK, RolledIsRestored, Rolled, OpenPC, GetOldPC
  <1>12. HandlerStreams'
    BY DEF Load, Opening, ControlOK, HistoryOK, LevelShape,
       HandlerStreams, WritePC
  <1> QED
    BY <1>1, <1>2, <1>3, <1>4, <1>5, <1>6, <1>7, <1>8, <1>9, <1>10, <1>11,
       <1>12

LEMMA OpenDoneKeeps ==
  ASSUME IInv, OpenDone
  PROVE  IInv'
  <1>1. FilesOK'
    BY DEF OpenDone, FilesOK
  <1>2. MemoryOK'
    BY DEF OpenDone, MemoryOK
  <1>3. ControlOK'
    BY CallWriteTyped DEF OpenDone, ControlOK, Return, PC, WritePC, OpenPC,
       GetOldPC
  <1>4. HistoryOK'
    BY DEF OpenDone, HistoryOK
  <1>5. LevelShape'
    BY DEF OpenDone, CallWrite, ControlOK, LevelShape, Ending, WritePC,
       OpenPC, GetOldPC, PC
  <1>6. ActiveShape'
    BY DEF OpenDone, CallWrite, ControlOK, ActiveShape, MidWrite, WritePC,
       OpenPC
  <1>7. OpenShape'
    BY DEF OpenDone, CallWrite, ControlOK, OpenShape
  <1>8. MemoryHolds'
    BY DEF OpenDone, MemoryHolds
  <1>9. RolledShape'
    BY DEF OpenDone, CallWrite, ControlOK, RolledShape, Rolled, Late,
       AtHandler, Current, MidWrite, WritePC, GetOldPC
  <1>10. InactiveSurvives'
    BY DEF OpenDone, InactiveSurvives
  <1>11. RolledIsRestored'
    BY DEF OpenDone, CallWrite, FilesOK, ControlOK, HistoryOK,
       ActiveShape, RolledIsRestored, Rolled, OpenPC, GetOldPC
  <1>12. HandlerStreams'
    BY DEF OpenDone, CallWrite, ControlOK, HistoryOK, LevelShape,
       HandlerStreams, WritePC
  <1> QED
    BY <1>1, <1>2, <1>3, <1>4, <1>5, <1>6, <1>7, <1>8, <1>9, <1>10, <1>11,
       <1>12

-------------------------------------------------------------------------------
\* write_newsrcs.

LEMMA WriteSkipKeeps ==
  ASSUME IInv, NEW l \in Level, NEW rc \in Rcs, WriteSkip(l, rc)
  PROVE  IInv'
  <1>1. FilesOK'
    BY DEF WriteSkip, FilesOK
  <1>2. MemoryOK'
    BY DEF WriteSkip, MemoryOK
  <1>3. ControlOK'
    BY DEF WriteSkip, Writing, ControlOK
  <1>4. HistoryOK'
    BY DEF WriteSkip, HistoryOK
  <1>5. LevelShape'
    BY DEF WriteSkip, Writing, LevelShape, Ending
  <1>6. ActiveShape'
    BY DEF WriteSkip, Writing, ControlOK, ActiveShape, MidWrite, WritePC
  <1>7. OpenShape'
    BY DEF WriteSkip, Writing, OpenShape
  <1>8. MemoryHolds'
    BY DEF WriteSkip, Writing, MemoryHolds
  <1>9. RolledShape'
    BY DEF WriteSkip, Writing, ControlOK, RolledShape, Rolled, Late,
       AtHandler, Current, MidWrite, WritePC, GetOldPC
  <1>10. InactiveSurvives'
    BY DEF WriteSkip, Writing, InactiveSurvives
  <1>11. RolledIsRestored'
    BY DEF WriteSkip, Writing, FilesOK, ControlOK, HistoryOK, ActiveShape,
       RolledIsRestored, Rolled, OpenPC, GetOldPC
  <1>12. HandlerStreams'
    BY DEF WriteSkip, Writing, ControlOK, HistoryOK, LevelShape,
       HandlerStreams, WritePC
  <1> QED
    BY <1>1, <1>2, <1>3, <1>4, <1>5, <1>6, <1>7, <1>8, <1>9, <1>10, <1>11,
       <1>12

LEMMA WriteOpenKeeps ==
  ASSUME IInv, NEW l \in Level, NEW rc \in Rcs, WriteOpen(l, rc)
  PROVE  IInv'
  <1>1. FilesOK'
    BY DEF WriteOpen, FilesOK, File, Content
  <1>2. MemoryOK'
    BY DEF WriteOpen, MemoryOK
  <1>3. ControlOK'
    BY DEF WriteOpen, Writing, ControlOK, Return, PC, WritePC
  <1>4. HistoryOK'
    BY DEF WriteOpen, HistoryOK
  <1>5. LevelShape'
    BY DEF WriteOpen, Writing, ControlOK, LevelShape, Ending, WritePC, OpenPC,
       GetOldPC, PC
  <1>6. ActiveShape'
    BY DEF WriteOpen, Writing, ControlOK, ActiveShape, MidWrite, WritePC,
       OpenPC
  <1>7. OpenShape'
    BY DEF WriteOpen, Writing, OpenShape
  <1>8. MemoryHolds'
    BY DEF WriteOpen, Writing, MemoryHolds
  <1>9. RolledShape'
    BY DEF WriteOpen, Writing, ControlOK, HistoryOK, LevelShape,
       HandlerStreams, RolledShape, Rolled, Late,
       AtHandler, Current, MidWrite, WritePC, GetOldPC
  <1>10. InactiveSurvives'
    BY DEF WriteOpen, Writing, InactiveSurvives
  <1>11. RolledIsRestored'
    BY DEF WriteOpen, Writing, FilesOK, ControlOK, HistoryOK, ActiveShape,
       RolledIsRestored, Rolled, OpenPC, GetOldPC
  <1>12. HandlerStreams'
    BY DEF WriteOpen, Writing, ControlOK, HistoryOK, LevelShape,
       HandlerStreams, WritePC
  <1> QED
    BY <1>1, <1>2, <1>3, <1>4, <1>5, <1>6, <1>7, <1>8, <1>9, <1>10, <1>11,
       <1>12

LEMMA WriteOpenFailsKeeps ==
  ASSUME IInv, NEW l \in Level, NEW rc \in Rcs, WriteOpenFails(l, rc)
  PROVE  IInv'
  <1>1. FilesOK'
    BY DEF WriteOpenFails, FilesOK
  <1>2. MemoryOK'
    BY DEF WriteOpenFails, MemoryOK
  <1>3. ControlOK'
    BY DEF WriteOpenFails, Writing, ControlOK
  <1>4. HistoryOK'
    BY DEF WriteOpenFails, HistoryOK
  <1>5. LevelShape'
    BY DEF WriteOpenFails, Writing, LevelShape, Ending
  <1>6. ActiveShape'
    BY DEF WriteOpenFails, Writing, ControlOK, ActiveShape, MidWrite, WritePC
  <1>7. OpenShape'
    BY DEF WriteOpenFails, Writing, OpenShape
  <1>8. MemoryHolds'
    BY DEF WriteOpenFails, Writing, MemoryHolds
  <1>9. RolledShape'
    BY DEF WriteOpenFails, Writing, ControlOK, RolledShape, Rolled, Late,
       AtHandler, Current, MidWrite, WritePC, GetOldPC
  <1>10. InactiveSurvives'
    BY DEF WriteOpenFails, Writing, InactiveSurvives
  <1>11. RolledIsRestored'
    BY DEF WriteOpenFails, Writing, FilesOK, ControlOK, HistoryOK,
       ActiveShape, RolledIsRestored, Rolled, OpenPC, GetOldPC
  <1>12. HandlerStreams'
    BY DEF WriteOpenFails, Writing, ControlOK, HistoryOK, LevelShape,
       HandlerStreams, WritePC
  <1> QED
    BY <1>1, <1>2, <1>3, <1>4, <1>5, <1>6, <1>7, <1>8, <1>9, <1>10, <1>11,
       <1>12

LEMMA WriteFillKeeps ==
  ASSUME IInv, NEW l \in Level, NEW rc \in Rcs, WriteFill(l, rc)
  PROVE  IInv'
  <1>1. FilesOK'
    <2>1. lines[rc] \in Content
      BY DEF MemoryOK
    <2>2. \A mix \in SUBSET lines[rc] : mix \in Content
      BY <2>1 DEF Content
    <2> QED
      BY <2>1, <2>2 DEF WriteFill, WriteAstray, FilesOK, File
  <1>2. MemoryOK'
    BY DEF WriteFill, WriteAstray, MemoryOK
  <1>3. ControlOK'
    BY DEF WriteFill, WriteAstray, Writing, ControlOK, Return, PC, WritePC
  <1>4. HistoryOK'
    BY DEF WriteFill, WriteAstray, HistoryOK
  <1>5. LevelShape'
    BY DEF WriteFill, WriteAstray, Writing, ControlOK, LevelShape, Ending,
       WritePC, OpenPC, GetOldPC, PC
  <1>6. ActiveShape'
    BY DEF WriteFill, WriteAstray, Writing, ControlOK, ActiveShape, MidWrite,
       WritePC, OpenPC
  <1>7. OpenShape'
    BY DEF WriteFill, WriteAstray, Writing, ControlOK, LevelShape, OpenShape,
       PC, WritePC, OpenPC, GetOldPC
  <1>8. MemoryHolds'
    BY DEF WriteFill, WriteAstray, Writing, MemoryHolds
  <1>9. RolledShape'
    BY DEF WriteFill, WriteAstray, Writing, FilesOK, MemoryOK, ControlOK,
       HistoryOK, LevelShape, ActiveShape, OpenShape, MemoryHolds,
       HandlerStreams, RolledShape, Rolled, Late, AtHandler, Mid, Holds,
       MidWrite, Ending, Content, File, PC, WritePC, OpenPC, GetOldPC
  <1>10. InactiveSurvives'
    <2>1. active[rc]
      BY WriterActive DEF WriteFill, WriteAstray, MidWrite, WritePC
    <2>2. \A r \in Rcs \ {rc} : /\ rcFile'[r] = rcFile[r]
                               /\ newFile'[r] = newFile[r]
      BY DEF WriteFill, WriteAstray, FilesOK
    <2>3. UNCHANGED <<oldFile, active, backed, base, restored, overlaid>>
      BY DEF WriteFill
    <2> QED
      BY <2>1, <2>2, <2>3 DEF InactiveSurvives, Holds
  <1>11. RolledIsRestored'
    BY DEF WriteFill, Writing, WriteAstray, FilesOK, ControlOK, HistoryOK,
       ActiveShape, RolledIsRestored, Rolled, OpenPC, GetOldPC
  <1>12. HandlerStreams'
    BY DEF WriteFill, Writing, WriteAstray, ControlOK, HistoryOK,
       LevelShape, HandlerStreams, WritePC
  <1> QED
    BY <1>1, <1>2, <1>3, <1>4, <1>5, <1>6, <1>7, <1>8, <1>9, <1>10, <1>11,
       <1>12

LEMMA WriteFillFailsKeeps ==
  ASSUME IInv, NEW l \in Level, NEW rc \in Rcs, WriteFillFails(l, rc)
  PROVE  IInv'
  <1>1. FilesOK'
    <2>1. \A mix \in SUBSET lines[rc] : mix \in Content
      BY DEF MemoryOK, Content
    <2> QED
      BY <2>1 DEF WriteFillFails, WriteAstray, FilesOK, File
  <1>2. MemoryOK'
    BY DEF WriteFillFails, WriteAstray, MemoryOK
  <1>3. ControlOK'
    BY DEF WriteFillFails, WriteAstray, Move, Writing, ControlOK, Return, PC,
       WritePC
  <1>4. HistoryOK'
    BY DEF WriteFillFails, WriteAstray, HistoryOK
  <1>5. LevelShape'
    BY DEF WriteFillFails, WriteAstray, Move, Writing, ControlOK, LevelShape,
       Ending, WritePC, OpenPC, GetOldPC, PC
  <1>6. ActiveShape'
    BY DEF WriteFillFails, WriteAstray, Move, Writing, ControlOK, ActiveShape,
       MidWrite, WritePC, OpenPC
  <1>7. OpenShape'
    BY DEF WriteFillFails, WriteAstray, Move, Writing, ControlOK, LevelShape,
       OpenShape, PC, WritePC, OpenPC, GetOldPC
  <1>8. MemoryHolds'
    BY DEF WriteFillFails, WriteAstray, Move, Writing, MemoryHolds
  <1>9. RolledShape'
    BY DEF WriteFillFails, WriteAstray, Move, Writing, FilesOK, MemoryOK,
       ControlOK, HistoryOK, LevelShape, HandlerStreams, RolledShape, Rolled,
       Late, Holds, AtHandler, Current, MidWrite, WritePC, GetOldPC
  <1>10. InactiveSurvives'
    <2>1. active[rc]
      BY WriterActive DEF WriteFillFails, WriteAstray, MidWrite, WritePC
    <2>2. \A r \in Rcs \ {rc} : /\ rcFile'[r] = rcFile[r]
                               /\ newFile'[r] = newFile[r]
      BY DEF WriteFillFails, WriteAstray, FilesOK
    <2>3. UNCHANGED <<oldFile, active, backed, base, restored, overlaid>>
      BY DEF WriteFillFails
    <2> QED
      BY <2>1, <2>2, <2>3 DEF InactiveSurvives, Holds
  <1>11. RolledIsRestored'
    BY DEF WriteFillFails, Writing, Move, WriteAstray, FilesOK, ControlOK,
       HistoryOK, ActiveShape, RolledIsRestored, Rolled, OpenPC, GetOldPC
  <1>12. HandlerStreams'
    BY DEF WriteFillFails, Writing, Move, WriteAstray, ControlOK,
       HistoryOK, LevelShape, HandlerStreams, WritePC
  <1> QED
    BY <1>1, <1>2, <1>3, <1>4, <1>5, <1>6, <1>7, <1>8, <1>9, <1>10, <1>11,
       <1>12

LEMMA WriteClearKeeps ==
  ASSUME IInv, NEW l \in Level, NEW rc \in Rcs, WriteClear(l, rc)
  PROVE  IInv'
  <1>1. FilesOK'
    BY DEF WriteClear, FilesOK
  <1>2. MemoryOK'
    BY DEF WriteClear, MemoryOK
  <1>3. ControlOK'
    BY DEF WriteClear, Writing, ControlOK, Return, PC, WritePC
  <1>4. HistoryOK'
    BY DEF WriteClear, FilesOK, MemoryOK, HistoryOK, File, Content
  <1>5. LevelShape'
    BY DEF WriteClear, Writing, ControlOK, LevelShape, Ending, WritePC,
       OpenPC, GetOldPC, PC
  <1>6. ActiveShape'
    BY DEF WriteClear, Writing, ControlOK, ActiveShape, MidWrite, WritePC,
       OpenPC
  <1>7. OpenShape'
    BY DEF WriteClear, Writing, OpenShape
  <1>8. MemoryHolds'
    BY DEF WriteClear, Writing, MemoryHolds
  <1>9. RolledShape'
    BY DEF WriteClear, Writing, MemoryOK, ControlOK, LevelShape, ActiveShape,
       RolledShape, Rolled, Late, AtHandler, Current, MidWrite, Ending,
       WritePC, GetOldPC
  <1>10. InactiveSurvives'
    BY DEF WriteClear, Writing, InactiveSurvives
  <1>11. RolledIsRestored'
    BY DEF WriteClear, Writing, FilesOK, ControlOK, HistoryOK,
       ActiveShape, RolledIsRestored, Rolled, OpenPC, GetOldPC
  <1>12. HandlerStreams'
    BY DEF WriteClear, Writing, ControlOK, HistoryOK, LevelShape,
       HandlerStreams, WritePC
  <1> QED
    BY <1>1, <1>2, <1>3, <1>4, <1>5, <1>6, <1>7, <1>8, <1>9, <1>10, <1>11,
       <1>12

LEMMA WriteRemoveKeeps ==
  ASSUME IInv, NEW l \in Level, NEW rc \in Rcs, WriteRemove(l, rc)
  PROVE  IInv'
  <1>1. FilesOK'
    BY DEF WriteRemove, FilesOK, File, Content
  <1>2. MemoryOK'
    BY DEF WriteRemove, MemoryOK
  <1>3. ControlOK'
    BY DEF WriteRemove, Move, Writing, ControlOK, Return, PC, WritePC
  <1>4. HistoryOK'
    BY DEF WriteRemove, HistoryOK
  <1>5. LevelShape'
    BY DEF WriteRemove, Move, Writing, ControlOK, LevelShape, Ending, WritePC,
       OpenPC, GetOldPC, PC
  <1>6. ActiveShape'
    BY DEF WriteRemove, Move, Writing, ControlOK, ActiveShape, MidWrite,
       WritePC, OpenPC
  <1>7. OpenShape'
    BY DEF WriteRemove, Move, Writing, ControlOK, LevelShape, OpenShape,
       WritePC, OpenPC, GetOldPC
  <1>8. MemoryHolds'
    BY DEF WriteRemove, Move, Writing, MemoryHolds
  <1>9. RolledShape'
    BY DEF WriteRemove, Move, Writing, ControlOK, RolledShape, Rolled, Late,
       AtHandler, Current, MidWrite, WritePC, GetOldPC
  <1>10. InactiveSurvives'
    <2>1. active[rc]
      BY WriterActive DEF WriteRemove, MidWrite, WritePC
    <2>2. \A r \in Rcs \ {rc} : /\ rcFile'[r] = rcFile[r]
                               /\ newFile'[r] = newFile[r]
      BY DEF WriteRemove, FilesOK
    <2>3. UNCHANGED <<oldFile, active, backed, base, restored, overlaid>>
      BY DEF WriteRemove
    <2> QED
      BY <2>1, <2>2, <2>3 DEF InactiveSurvives, Holds
  <1>11. RolledIsRestored'
    BY DEF WriteRemove, Writing, Move, FilesOK, ControlOK, HistoryOK,
       ActiveShape, RolledIsRestored, Rolled, OpenPC, GetOldPC
  <1>12. HandlerStreams'
    BY DEF WriteRemove, Writing, Move, ControlOK, HistoryOK, LevelShape,
       HandlerStreams, WritePC
  <1> QED
    BY <1>1, <1>2, <1>3, <1>4, <1>5, <1>6, <1>7, <1>8, <1>9, <1>10, <1>11,
       <1>12

LEMMA WriteRenameKeeps ==
  ASSUME IInv, NEW l \in Level, NEW rc \in Rcs, WriteRename(l, rc)
  PROVE  IInv'
  <1>1. FilesOK'
    <2>1. CASE newFile[rc] = NoFile
      BY <2>1 DEF WriteRename, FilesOK
    <2>2. CASE newFile[rc] # NoFile
      BY <2>2 DEF WriteRename, FilesOK, File
    <2> QED
      BY <2>1, <2>2
  <1>2. MemoryOK'
    BY DEF WriteRename, MemoryOK
  <1>3. ControlOK'
    BY DEF WriteRename, Move, Writing, ControlOK, Return, PC, WritePC
  <1>4. HistoryOK'
    BY DEF WriteRename, HistoryOK
  <1>5. LevelShape'
    BY DEF WriteRename, Move, Writing, ControlOK, LevelShape, Ending, WritePC,
       OpenPC, GetOldPC, PC
  <1>6. ActiveShape'
    BY DEF WriteRename, Move, Writing, ControlOK, ActiveShape, MidWrite,
       WritePC, OpenPC
  <1>7. OpenShape'
    BY DEF WriteRename, Move, Writing, ControlOK, LevelShape, OpenShape,
       WritePC, OpenPC, GetOldPC
  <1>8. MemoryHolds'
    BY DEF WriteRename, Move, Writing, MemoryHolds
  <1>9. RolledShape'
    BY DEF WriteRename, Move, Writing, FilesOK, MemoryOK, ControlOK, HistoryOK,
       LevelShape, ActiveShape, OpenShape, MemoryHolds, RolledShape, Rolled,
       Late, AtHandler, Mid, Holds, MidWrite, Ending, Content, File, PC,
       WritePC, OpenPC, GetOldPC
  <1>10. InactiveSurvives'
    <2>1. active[rc]
      BY WriterActive DEF WriteRename, MidWrite, WritePC
    <2>2. \A r \in Rcs \ {rc} : /\ rcFile'[r] = rcFile[r]
                               /\ newFile'[r] = newFile[r]
      BY DEF WriteRename, FilesOK
    <2>3. UNCHANGED <<oldFile, active, backed, base, restored, overlaid>>
      BY DEF WriteRename
    <2> QED
      BY <2>1, <2>2, <2>3 DEF InactiveSurvives, Holds
  <1>11. RolledIsRestored'
    BY DEF WriteRename, Writing, Move, FilesOK, ControlOK, HistoryOK,
       ActiveShape, RolledIsRestored, Rolled, OpenPC, GetOldPC
  <1>12. HandlerStreams'
    BY DEF WriteRename, Writing, Move, ControlOK, HistoryOK, LevelShape,
       HandlerStreams, WritePC
  <1> QED
    BY <1>1, <1>2, <1>3, <1>4, <1>5, <1>6, <1>7, <1>8, <1>9, <1>10, <1>11,
       <1>12

LEMMA WriteReturnKeeps ==
  ASSUME IInv, NEW l \in Level, WriteReturn(l)
  PROVE  IInv'
  <1>1. FilesOK'
    BY DEF WriteReturn, FilesOK
  <1>2. MemoryOK'
    BY DEF WriteReturn, MemoryOK
  <1>3. ControlOK'
    BY DEF WriteReturn, ControlOK, Return, PC, WritePC
  <1>4. HistoryOK'
    BY DEF WriteReturn, HistoryOK
  <1>5. LevelShape'
    BY DEF WriteReturn, ControlOK, LevelShape, Ending, WritePC, OpenPC,
       GetOldPC, PC
  <1>6. ActiveShape'
    BY DEF WriteReturn, ControlOK, LevelShape, ActiveShape, MidWrite, WritePC,
       OpenPC, GetOldPC
  <1>7. OpenShape'
    BY DEF WriteReturn, OpenShape
  <1>8. MemoryHolds'
    BY DEF WriteReturn, MemoryHolds
  <1>9. RolledShape'
    BY DEF WriteReturn, MemoryOK, ControlOK, LevelShape, ActiveShape,
       RolledShape, Rolled, Late, AtHandler, Current, MidWrite, Ending,
       WritePC, GetOldPC
  <1>10. InactiveSurvives'
    BY DEF WriteReturn, InactiveSurvives
  <1>11. RolledIsRestored'
    BY DEF WriteReturn, FilesOK, ControlOK, HistoryOK, ActiveShape,
       RolledIsRestored, Rolled, OpenPC, GetOldPC
  <1>12. HandlerStreams'
    BY DEF WriteReturn, ControlOK, HistoryOK, LevelShape, HandlerStreams,
       WritePC
  <1> QED
    BY <1>1, <1>2, <1>3, <1>4, <1>5, <1>6, <1>7, <1>8, <1>9, <1>10, <1>11,
       <1>12

-------------------------------------------------------------------------------
\* The session.

LEMMA EnterGroupKeeps ==
  ASSUME IInv, NEW rc \in Rcs, EnterGroup(rc)
  PROVE  IInv'
  <1>1. FilesOK'
    BY DEF EnterGroup, FilesOK
  <1>2. MemoryOK'
    BY DEF EnterGroup, MemoryOK
  <1>3. ControlOK'
    BY DEF EnterGroup, Running, ControlOK
  <1>4. HistoryOK'
    BY DEF EnterGroup, Running, HistoryOK
  <1>5. LevelShape'
    <2>1. multirc
      BY DEF EnterGroup, Running, LevelShape, MemoryOK, OpenPC
    <2> QED
      BY <2>1 DEF EnterGroup, Running, LevelShape, Ending, GetOldPC, WritePC
  <1>6. ActiveShape'
    BY DEF EnterGroup, Running, ActiveShape
  <1>7. OpenShape'
    BY DEF EnterGroup, Running, OpenShape
  <1>8. MemoryHolds'
    BY DEF EnterGroup, Running, MemoryHolds
  <1>9. RolledShape'
    BY DEF EnterGroup, Running, ControlOK, RolledShape, Rolled, Late,
       AtHandler, Current, MidWrite, WritePC, GetOldPC
  <1>10. InactiveSurvives'
    BY DEF EnterGroup, Running, InactiveSurvives
  <1>11. RolledIsRestored'
    BY DEF EnterGroup, Running, FilesOK, ControlOK, HistoryOK,
       ActiveShape, RolledIsRestored, Rolled, OpenPC, GetOldPC
  <1>12. HandlerStreams'
    BY DEF EnterGroup, Running, ControlOK, HistoryOK, LevelShape,
       HandlerStreams, WritePC
  <1> QED
    BY <1>1, <1>2, <1>3, <1>4, <1>5, <1>6, <1>7, <1>8, <1>9, <1>10, <1>11,
       <1>12

LEMMA ReadArticleKeeps ==
  ASSUME IInv, NEW m \in Marks, ReadArticle(m)
  PROVE  IInv'
  <1>1. FilesOK'
    BY DEF ReadArticle, FilesOK
  <1>2. MemoryOK'
    BY DEF ReadArticle, MemoryOK
  <1>3. ControlOK'
    BY DEF ReadArticle, Running, ControlOK
  <1>4. HistoryOK'
    BY DEF ReadArticle, Running, HistoryOK
  <1>5. LevelShape'
    BY DEF ReadArticle, Running, LevelShape, Ending
  <1>6. ActiveShape'
    BY DEF ReadArticle, Running, ActiveShape
  <1>7. OpenShape'
    BY DEF ReadArticle, Running, OpenShape
  <1>8. MemoryHolds'
    BY DEF ReadArticle, Running, MemoryHolds
  <1>9. RolledShape'
    BY DEF ReadArticle, Running, RolledShape, Rolled, Late, AtHandler, Current
  <1>10. InactiveSurvives'
    BY DEF ReadArticle, Running, InactiveSurvives
  <1>11. RolledIsRestored'
    BY DEF ReadArticle, Running, FilesOK, ControlOK, HistoryOK,
       ActiveShape, RolledIsRestored, Rolled, OpenPC, GetOldPC
  <1>12. HandlerStreams'
    BY DEF ReadArticle, Running, ControlOK, HistoryOK, LevelShape,
       HandlerStreams, WritePC
  <1> QED
    BY <1>1, <1>2, <1>3, <1>4, <1>5, <1>6, <1>7, <1>8, <1>9, <1>10, <1>11,
       <1>12

LEMMA CheckpointKeeps ==
  ASSUME IInv, Checkpoint
  PROVE  IInv'
  <1>1. FilesOK'
    BY DEF Checkpoint, FilesOK
  <1>2. MemoryOK'
    BY BitsToRcTyped DEF Checkpoint, MemoryOK
  <1>3. ControlOK'
    BY DEF Checkpoint, Running, CallWrite, ControlOK, Return, PC, WritePC
  <1>4. HistoryOK'
    BY DEF Checkpoint, Running, HistoryOK
  <1>5. LevelShape'
    BY DEF Checkpoint, Running, CallWrite, ControlOK, LevelShape, Ending,
       WritePC, OpenPC, GetOldPC, PC
  <1>6. ActiveShape'
    BY DEF Checkpoint, Running, CallWrite, ControlOK, ActiveShape, MidWrite,
       WritePC, OpenPC
  <1>7. OpenShape'
    BY DEF Checkpoint, Running, CallWrite, OpenShape
  <1>8. MemoryHolds'
    BY DEF Checkpoint, Running, BitsToRc, MemoryOK, MemoryHolds
  <1>9. RolledShape'
    BY DEF Checkpoint, Running, BitsToRc, CallWrite, ControlOK, RolledShape,
       Rolled, Late, AtHandler, Current, MidWrite, WritePC, GetOldPC
  <1>10. InactiveSurvives'
    BY DEF Checkpoint, Running, InactiveSurvives
  <1>11. RolledIsRestored'
    BY DEF Checkpoint, Running, CallWrite, FilesOK, ControlOK, HistoryOK,
       ActiveShape, RolledIsRestored, Rolled, OpenPC, GetOldPC
  <1>12. HandlerStreams'
    BY DEF Checkpoint, Running, CallWrite, ControlOK, HistoryOK,
       LevelShape, HandlerStreams, WritePC
  <1> QED
    BY <1>1, <1>2, <1>3, <1>4, <1>5, <1>6, <1>7, <1>8, <1>9, <1>10, <1>11,
       <1>12

LEMMA LeaveGroupKeeps ==
  ASSUME IInv, LeaveGroup
  PROVE  IInv'
  <1>1. FilesOK'
    BY DEF LeaveGroup, FilesOK
  <1>2. MemoryOK'
    BY BitsToRcTyped DEF LeaveGroup, MemoryOK
  <1>3. ControlOK'
    BY CallWriteTyped DEF LeaveGroup, ControlOK, Return, PC, WritePC, OpenPC,
       GetOldPC
  <1>4. HistoryOK'
    BY DEF LeaveGroup, Running, HistoryOK
  <1>5. LevelShape'
    BY DEF LeaveGroup, Running, CallWrite, ControlOK, LevelShape, Ending,
       WritePC, OpenPC, GetOldPC, PC
  <1>6. ActiveShape'
    BY DEF LeaveGroup, Running, CallWrite, ControlOK, ActiveShape, MidWrite,
       WritePC, OpenPC
  <1>7. OpenShape'
    BY DEF LeaveGroup, Running, CallWrite, ControlOK, OpenShape
  <1>8. MemoryHolds'
    BY DEF LeaveGroup, Running, BitsToRc, MemoryOK, MemoryHolds
  <1>9. RolledShape'
    BY DEF LeaveGroup, Running, BitsToRc, CallWrite, ControlOK, RolledShape,
       Rolled, Late, AtHandler, Current, MidWrite, WritePC, GetOldPC
  <1>10. InactiveSurvives'
    BY DEF LeaveGroup, Running, InactiveSurvives
  <1>11. RolledIsRestored'
    BY DEF LeaveGroup, Running, CallWrite, FilesOK, ControlOK, HistoryOK,
       ActiveShape, RolledIsRestored, Rolled, OpenPC, GetOldPC
  <1>12. HandlerStreams'
    BY DEF LeaveGroup, Running, CallWrite, ControlOK, HistoryOK,
       LevelShape, HandlerStreams, WritePC
  <1> QED
    BY <1>1, <1>2, <1>3, <1>4, <1>5, <1>6, <1>7, <1>8, <1>9, <1>10, <1>11,
       <1>12

LEMMA EditLineKeeps ==
  ASSUME IInv, NEW rc \in Rcs, NEW m \in Marks, EditLine(rc, m)
  PROVE  IInv'
  <1>1. FilesOK'
    BY DEF EditLine, FilesOK
  <1>2. MemoryOK'
    BY DEF EditLine, MemoryOK, Content
  <1>3. ControlOK'
    BY DEF EditLine, Running, ControlOK
  <1>4. HistoryOK'
    BY DEF EditLine, Running, HistoryOK
  <1>5. LevelShape'
    BY DEF EditLine, Running, LevelShape, Ending
  <1>6. ActiveShape'
    BY DEF EditLine, Running, ActiveShape
  <1>7. OpenShape'
    BY DEF EditLine, Running, OpenShape
  <1>8. MemoryHolds'
    BY DEF EditLine, Running, MemoryHolds
  <1>9. RolledShape'
    BY DEF EditLine, Running, ControlOK, RolledShape, Rolled, Late, AtHandler,
       Current, MidWrite, WritePC, GetOldPC
  <1>10. InactiveSurvives'
    BY DEF EditLine, Running, InactiveSurvives
  <1>11. RolledIsRestored'
    BY DEF EditLine, Running, FilesOK, ControlOK, HistoryOK, ActiveShape,
       RolledIsRestored, Rolled, OpenPC, GetOldPC
  <1>12. HandlerStreams'
    BY DEF EditLine, Running, ControlOK, HistoryOK, LevelShape,
       HandlerStreams, WritePC
  <1> QED
    BY <1>1, <1>2, <1>3, <1>4, <1>5, <1>6, <1>7, <1>8, <1>9, <1>10, <1>11,
       <1>12

LEMMA CatchUpKeeps ==
  ASSUME IInv, NEW rc \in Rcs, NEW m \in Marks, CatchUp(rc, m)
  PROVE  IInv'
  <1>1. FilesOK'
    BY DEF CatchUp, FilesOK
  <1>2. MemoryOK'
    BY DEF CatchUp, MemoryOK, Content
  <1>3. ControlOK'
    BY CallWriteTyped DEF CatchUp, ControlOK, Return, PC, WritePC, OpenPC,
       GetOldPC
  <1>4. HistoryOK'
    BY DEF CatchUp, Running, HistoryOK
  <1>5. LevelShape'
    BY DEF CatchUp, Running, CallWrite, ControlOK, LevelShape, Ending,
       WritePC, OpenPC, GetOldPC, PC
  <1>6. ActiveShape'
    BY DEF CatchUp, Running, CallWrite, ControlOK, ActiveShape, MidWrite,
       WritePC, OpenPC
  <1>7. OpenShape'
    BY DEF CatchUp, Running, CallWrite, ControlOK, OpenShape
  <1>8. MemoryHolds'
    BY DEF CatchUp, Running, MemoryOK, MemoryHolds
  <1>9. RolledShape'
    BY DEF CatchUp, Running, CallWrite, ControlOK, RolledShape, Rolled, Late,
       AtHandler, Current, MidWrite, WritePC, GetOldPC
  <1>10. InactiveSurvives'
    BY DEF CatchUp, Running, InactiveSurvives
  <1>11. RolledIsRestored'
    BY DEF CatchUp, Running, CallWrite, FilesOK, ControlOK, HistoryOK,
       ActiveShape, RolledIsRestored, Rolled, OpenPC, GetOldPC
  <1>12. HandlerStreams'
    BY DEF CatchUp, Running, CallWrite, ControlOK, HistoryOK, LevelShape,
       HandlerStreams, WritePC
  <1> QED
    BY <1>1, <1>2, <1>3, <1>4, <1>5, <1>6, <1>7, <1>8, <1>9, <1>10, <1>11,
       <1>12

LEMMA QuitKeeps ==
  ASSUME IInv, NEW abandon \in BOOLEAN, Quit(abandon)
  PROVE  IInv'
  <1>1. FilesOK'
    BY DEF Quit, FilesOK
  <1>2. MemoryOK'
    BY DEF Quit, MemoryOK
  <1>3. ControlOK'
    BY DEF Quit, Running, CallWrite, ControlOK, Return, PC, WritePC
  <1>4. HistoryOK'
    BY DEF Quit, Running, HistoryOK
  <1>5. LevelShape'
    BY DEF Quit, Running, CallWrite, ControlOK, LevelShape, Ending, WritePC,
       OpenPC, GetOldPC, PC
  <1>6. ActiveShape'
    BY DEF Quit, Running, CallWrite, ControlOK, ActiveShape, MidWrite,
       WritePC, OpenPC
  <1>7. OpenShape'
    BY DEF Quit, Running, CallWrite, OpenShape
  <1>8. MemoryHolds'
    BY DEF Quit, Running, MemoryHolds
  <1>9. RolledShape'
    BY DEF Quit, Running, CallWrite, ControlOK, RolledShape, Rolled, Late,
       AtHandler, Current, MidWrite, WritePC, GetOldPC
  <1>10. InactiveSurvives'
    BY DEF Quit, Running, InactiveSurvives
  <1>11. RolledIsRestored'
    BY DEF Quit, Running, CallWrite, FilesOK, ControlOK, HistoryOK,
       ActiveShape, RolledIsRestored, Rolled, OpenPC, GetOldPC
  <1>12. HandlerStreams'
    BY DEF Quit, Running, CallWrite, ControlOK, HistoryOK, LevelShape,
       HandlerStreams, WritePC
  <1> QED
    BY <1>1, <1>2, <1>3, <1>4, <1>5, <1>6, <1>7, <1>8, <1>9, <1>10, <1>11,
       <1>12

LEMMA BugOutKeeps ==
  ASSUME IInv, BugOut
  PROVE  IInv'
  <1>1. FilesOK'
    BY DEF BugOut, FilesOK
  <1>2. MemoryOK'
    BY DEF BugOut, MemoryOK
  <1>3. ControlOK'
    BY CallWriteTyped DEF BugOut, ControlOK, Return, PC, WritePC, OpenPC,
       GetOldPC
  <1>4. HistoryOK'
    BY DEF BugOut, HistoryOK
  <1>5. LevelShape'
    BY DEF BugOut, CallWrite, ControlOK, LevelShape, Ending, WritePC, OpenPC,
       GetOldPC, PC
  <1>6. ActiveShape'
    BY DEF BugOut, CallWrite, ControlOK, ActiveShape, MidWrite, WritePC,
       OpenPC
  <1>7. OpenShape'
    BY DEF BugOut, CallWrite, ControlOK, OpenShape
  <1>8. MemoryHolds'
    BY DEF BugOut, MemoryHolds
  <1>9. RolledShape'
    BY DEF BugOut, CallWrite, ControlOK, RolledShape, Rolled, Late, AtHandler,
       Current, MidWrite, WritePC, GetOldPC
  <1>10. InactiveSurvives'
    BY DEF BugOut, InactiveSurvives
  <1>11. RolledIsRestored'
    BY DEF BugOut, CallWrite, FilesOK, ControlOK, HistoryOK, ActiveShape,
       RolledIsRestored, Rolled, OpenPC, GetOldPC
  <1>12. HandlerStreams'
    BY DEF BugOut, CallWrite, ControlOK, HistoryOK, LevelShape,
       HandlerStreams, WritePC
  <1> QED
    BY <1>1, <1>2, <1>3, <1>4, <1>5, <1>6, <1>7, <1>8, <1>9, <1>10, <1>11,
       <1>12

-------------------------------------------------------------------------------
\* get_old_newsrcs.

LEMMA GetOldRemoveKeeps ==
  ASSUME IInv, NEW rc \in Rcs, GetOldRemove(rc)
  PROVE  IInv'
  <1>1. FilesOK'
    BY DEF GetOldRemove, FilesOK, File, Content
  <1>2. MemoryOK'
    BY DEF GetOldRemove, MemoryOK
  <1>3. ControlOK'
    BY DEF GetOldRemove, Opening, ControlOK, Return, PC, OpenPC, GetOldPC
  <1>4. HistoryOK'
    BY DEF GetOldRemove, HistoryOK
  <1>5. LevelShape'
    BY DEF GetOldRemove, Opening, ControlOK, LevelShape, Ending, WritePC,
       OpenPC, GetOldPC, PC
  <1>6. ActiveShape'
    BY DEF GetOldRemove, Opening, ControlOK, ActiveShape, MidWrite, WritePC,
       OpenPC
  <1>7. OpenShape'
    BY DEF GetOldRemove, Opening, ControlOK, OpenShape
  <1>8. MemoryHolds'
    BY DEF GetOldRemove, Opening, MemoryHolds
  <1>9. RolledShape'
    BY DEF GetOldRemove, Opening, ControlOK, RolledShape, Rolled, Late,
       AtHandler, Current, MidWrite, WritePC, GetOldPC
  <1>10. InactiveSurvives'
    BY DEF GetOldRemove, Opening, FilesOK, MemoryOK, HistoryOK, ActiveShape,
       InactiveSurvives, Holds
  <1>11. RolledIsRestored'
    BY DEF GetOldRemove, Opening, FilesOK, ControlOK, HistoryOK,
       ActiveShape, RolledIsRestored, Rolled, OpenPC, GetOldPC
  <1>12. HandlerStreams'
    BY DEF GetOldRemove, Opening, ControlOK, HistoryOK, LevelShape,
       HandlerStreams, WritePC
  <1> QED
    BY <1>1, <1>2, <1>3, <1>4, <1>5, <1>6, <1>7, <1>8, <1>9, <1>10, <1>11,
       <1>12

LEMMA GetOldSaveKeeps ==
  ASSUME IInv, NEW rc \in Rcs, GetOldSave(rc)
  PROVE  IInv'
  <1>1. FilesOK'
    <2>1. CASE rcFile[rc] = NoFile
      BY <2>1 DEF GetOldSave, FilesOK
    <2>2. CASE rcFile[rc] # NoFile
      BY <2>2 DEF GetOldSave, FilesOK, File
    <2> QED
      BY <2>1, <2>2
  <1>2. MemoryOK'
    BY DEF GetOldSave, MemoryOK
  <1>3. ControlOK'
    BY DEF GetOldSave, Opening, ControlOK, Return, PC, OpenPC, GetOldPC
  <1>4. HistoryOK'
    BY DEF GetOldSave, HistoryOK
  <1>5. LevelShape'
    BY DEF GetOldSave, Opening, ControlOK, LevelShape, Ending, WritePC,
       OpenPC, GetOldPC, PC
  <1>6. ActiveShape'
    BY DEF GetOldSave, Opening, ControlOK, ActiveShape, MidWrite, WritePC,
       OpenPC
  <1>7. OpenShape'
    BY DEF GetOldSave, Opening, OpenShape
  <1>8. MemoryHolds'
    BY DEF GetOldSave, Opening, MemoryHolds
  <1>9. RolledShape'
    BY DEF GetOldSave, Opening, FilesOK, MemoryOK, ControlOK, HistoryOK,
       LevelShape, ActiveShape, OpenShape, MemoryHolds, RolledShape, Rolled,
       Late, AtHandler, Mid, Holds, MidWrite, Ending, Content, File, PC,
       WritePC, OpenPC, GetOldPC
  <1>10. InactiveSurvives'
    BY DEF GetOldSave, Opening, FilesOK, MemoryOK, HistoryOK, ActiveShape,
       InactiveSurvives, Holds
  <1>11. RolledIsRestored'
    BY DEF GetOldSave, Opening, FilesOK, ControlOK, HistoryOK,
       ActiveShape, RolledIsRestored, Rolled, OpenPC, GetOldPC
  <1>12. HandlerStreams'
    BY DEF GetOldSave, Opening, ControlOK, HistoryOK, LevelShape,
       HandlerStreams, WritePC
  <1> QED
    BY <1>1, <1>2, <1>3, <1>4, <1>5, <1>6, <1>7, <1>8, <1>9, <1>10, <1>11,
       <1>12

LEMMA GetOldRestoreKeeps ==
  ASSUME IInv, NEW rc \in Rcs, GetOldRestore(rc)
  PROVE  IInv'
  <1>1. FilesOK'
    BY DEF GetOldRestore, FilesOK, File, Content
  <1>2. MemoryOK'
    BY DEF GetOldRestore, MemoryOK
  <1>3. ControlOK'
    BY DEF GetOldRestore, Opening, ControlOK, Return, PC, OpenPC, GetOldPC
  <1>4. HistoryOK'
    BY DEF GetOldRestore, HistoryOK
  <1>5. LevelShape'
    BY DEF GetOldRestore, Opening, ControlOK, LevelShape, Ending, WritePC,
       OpenPC, GetOldPC, PC
  <1>6. ActiveShape'
    BY DEF GetOldRestore, Opening, ControlOK, ActiveShape, MidWrite, WritePC,
       OpenPC
  <1>7. OpenShape'
    BY DEF GetOldRestore, Opening, ControlOK, OpenShape
  <1>8. MemoryHolds'
    BY DEF GetOldRestore, Opening, MemoryHolds
  <1>9. RolledShape'
    BY DEF GetOldRestore, Opening, FilesOK, MemoryOK, ControlOK, HistoryOK,
       LevelShape, ActiveShape, OpenShape, MemoryHolds, RolledShape, Rolled,
       Late, AtHandler, Mid, Holds, MidWrite, Ending, Content, File, PC,
       WritePC, OpenPC, GetOldPC
  <1>10. InactiveSurvives'
    BY DEF GetOldRestore, Opening, FilesOK, MemoryOK, HistoryOK, ActiveShape,
       InactiveSurvives, Holds
  <1>11. RolledIsRestored'
    BY DEF GetOldRestore, Opening, FilesOK, ControlOK, HistoryOK,
       ActiveShape, RolledIsRestored, Rolled, OpenPC, GetOldPC
  <1>12. HandlerStreams'
    BY DEF GetOldRestore, Opening, ControlOK, HistoryOK, LevelShape,
       HandlerStreams, WritePC
  <1> QED
    BY <1>1, <1>2, <1>3, <1>4, <1>5, <1>6, <1>7, <1>8, <1>9, <1>10, <1>11,
       <1>12

LEMMA GetOldClearKeeps ==
  ASSUME IInv, NEW rc \in Rcs, GetOldClear(rc)
  PROVE  IInv'
  <1>1. FilesOK'
    BY DEF GetOldClear, FilesOK
  <1>2. MemoryOK'
    BY DEF GetOldClear, MemoryOK
  <1>3. ControlOK'
    BY DEF GetOldClear, Opening, ControlOK, Return, PC, OpenPC, GetOldPC
  <1>4. HistoryOK'
    BY DEF GetOldClear, HistoryOK
  <1>5. LevelShape'
    BY DEF GetOldClear, Opening, ControlOK, LevelShape, Ending, WritePC,
       OpenPC, GetOldPC, PC
  <1>6. ActiveShape'
    BY DEF GetOldClear, Opening, ControlOK, ActiveShape, MidWrite, WritePC,
       OpenPC
  <1>7. OpenShape'
    BY DEF GetOldClear, Opening, OpenShape
  <1>8. MemoryHolds'
    BY DEF GetOldClear, Opening, MemoryHolds
  <1>9. RolledShape'
    BY DEF GetOldClear, Opening, MemoryOK, ControlOK, LevelShape, ActiveShape,
       RolledShape, Rolled, Late, AtHandler, Current, MidWrite, Ending,
       WritePC, GetOldPC
  <1>10. InactiveSurvives'
    BY DEF GetOldClear, Opening, InactiveSurvives
  <1>11. RolledIsRestored'
    BY DEF GetOldClear, Opening, FilesOK, ControlOK, HistoryOK,
       ActiveShape, RolledIsRestored, Rolled, OpenPC, GetOldPC
  <1>12. HandlerStreams'
    BY DEF GetOldClear, Opening, ControlOK, HistoryOK, LevelShape,
       HandlerStreams, WritePC
  <1> QED
    BY <1>1, <1>2, <1>3, <1>4, <1>5, <1>6, <1>7, <1>8, <1>9, <1>10, <1>11,
       <1>12

LEMMA GetOldDoneKeeps ==
  ASSUME IInv, GetOldDone
  PROVE  IInv'
  <1>1. FilesOK'
    BY DEF GetOldDone, FilesOK
  <1>2. MemoryOK'
    BY DEF GetOldDone, MemoryOK
  <1>3. ControlOK'
    BY DEF GetOldDone, CallWrite, ControlOK, Return, PC, WritePC
  <1>4. HistoryOK'
    BY DEF GetOldDone, HistoryOK
  <1>5. LevelShape'
    BY DEF GetOldDone, CallWrite, ControlOK, LevelShape, Ending, WritePC,
       OpenPC, GetOldPC, PC
  <1>6. ActiveShape'
    BY DEF GetOldDone, CallWrite, ControlOK, ActiveShape, MidWrite, WritePC,
       OpenPC
  <1>7. OpenShape'
    BY DEF GetOldDone, CallWrite, OpenShape
  <1>8. MemoryHolds'
    BY DEF GetOldDone, MemoryHolds
  <1>9. RolledShape'
    BY DEF GetOldDone, CallWrite, ControlOK, RolledShape, Rolled, Late,
       AtHandler, Current, MidWrite, WritePC, GetOldPC
  <1>10. InactiveSurvives'
    BY DEF GetOldDone, InactiveSurvives
  <1>11. RolledIsRestored'
    BY DEF GetOldDone, CallWrite, FilesOK, ControlOK, HistoryOK,
       ActiveShape, RolledIsRestored, Rolled, OpenPC, GetOldPC
  <1>12. HandlerStreams'
    BY DEF GetOldDone, CallWrite, ControlOK, HistoryOK, LevelShape,
       HandlerStreams, WritePC
  <1> QED
    BY <1>1, <1>2, <1>3, <1>4, <1>5, <1>6, <1>7, <1>8, <1>9, <1>10, <1>11,
       <1>12

-------------------------------------------------------------------------------
\* Signals, exits and crashes.

LEMMA StopSignalKeeps ==
  ASSUME IInv, StopSignal
  PROVE  IInv'
  <1>1. FilesOK'
    BY DEF StopSignal, StopCatcher, FilesOK
  <1>2. MemoryOK'
    BY BitsToRcTyped DEF StopSignal, StopCatcher, MemoryOK
  <1>3. ControlOK'
    <2>1. CASE multirc
      BY <2>1, CallWriteTyped DEF StopSignal, StopCatcher, ControlOK, Return
    <2>2. CASE ~multirc
      <3>1. pc' \in [Level -> PC] /\ ok' \in [Level -> BOOLEAN]
        <4>1. pc' = [pc EXCEPT !["stop"] = "stopped"] /\ ok' = [ok EXCEPT !["stop"] = TRUE]
          BY <2>2 DEF StopSignal, StopCatcher
        <4> QED
          BY <4>1 DEF ControlOK, PC
      <3>2. UNCHANGED <<idx, cont, fd>> /\ faults' \in 0..MaxFaults
        BY <2>2 DEF StopSignal, StopCatcher, ControlOK
      <3> QED
        BY <3>1, <3>2 DEF ControlOK
    <2> QED
      BY <2>1, <2>2 DEF MemoryOK
  <1>4. HistoryOK'
    BY DEF StopSignal, StopCatcher, NoteInterrupt, HistoryOK
  <1>5. LevelShape'
    BY DEF StopSignal, StopCatcher, CallWrite, ControlOK, LevelShape, Ending,
       WritePC, OpenPC, GetOldPC, PC
  <1>6. ActiveShape'
    BY DEF StopSignal, StopCatcher, CallWrite, ControlOK, ActiveShape,
       MidWrite, WritePC
  <1>7. OpenShape'
    BY DEF StopSignal, StopCatcher, CallWrite, ControlOK, OpenShape
  <1>8. MemoryHolds'
    <2>1. \A rc \in Rcs : lines[rc] \subseteq lines'[rc]
      BY BitsToRcAdds DEF StopSignal, StopCatcher
    <2>2. UNCHANGED <<active, backed, base>>
      BY DEF StopSignal, StopCatcher
    <2> QED
      BY <2>1, <2>2 DEF MemoryHolds
  <1>9. RolledShape'
    BY DEF StopSignal, StopCatcher, BitsToRc, CallWrite, MemoryOK, ControlOK,
       LevelShape, ActiveShape, RolledShape, Rolled, Late, AtHandler, Current,
       MidWrite, Ending, WritePC, GetOldPC
  <1>10. InactiveSurvives'
    BY DEF StopSignal, StopCatcher, InactiveSurvives
  <1>11. RolledIsRestored'
    BY DEF StopSignal, CallWrite, StopCatcher, FilesOK, ControlOK,
       HistoryOK, ActiveShape, RolledIsRestored, Rolled, OpenPC, GetOldPC
  <1>12. HandlerStreams'
    BY DEF StopSignal, StopCatcher, NoteInterrupt, Busy, Mid, CallWrite,
       ControlOK, HistoryOK, LevelShape, HandlerStreams, WritePC, GetOldPC
  <1> QED
    BY <1>1, <1>2, <1>3, <1>4, <1>5, <1>6, <1>7, <1>8, <1>9, <1>10, <1>11,
       <1>12

LEMMA StopInFatalKeeps ==
  ASSUME IInv, StopInFatal
  PROVE  IInv'
  <1>1. FilesOK'
    BY DEF StopInFatal, StopCatcher, FilesOK
  <1>2. MemoryOK'
    BY BitsToRcTyped DEF StopInFatal, StopCatcher, MemoryOK
  <1>3. ControlOK'
    <2>1. CASE multirc
      BY <2>1, CallWriteTyped DEF StopInFatal, StopCatcher, ControlOK, Return
    <2>2. CASE ~multirc
      <3>1. pc' \in [Level -> PC] /\ ok' \in [Level -> BOOLEAN]
        <4>1. pc' = [pc EXCEPT !["late"] = "stopped"] /\ ok' = [ok EXCEPT !["late"] = TRUE]
          BY <2>2 DEF StopInFatal, StopCatcher
        <4> QED
          BY <4>1 DEF ControlOK, PC
      <3>2. UNCHANGED <<idx, cont, fd>> /\ faults' \in 0..MaxFaults
        BY <2>2 DEF StopInFatal, StopCatcher, ControlOK
      <3> QED
        BY <3>1, <3>2 DEF ControlOK
    <2> QED
      BY <2>1, <2>2 DEF MemoryOK
  <1>4. HistoryOK'
    BY DEF StopInFatal, StopCatcher, NoteInterrupt, HistoryOK
  <1>5. LevelShape'
    BY DEF StopInFatal, StopCatcher, CallWrite, ControlOK, LevelShape, Ending,
       WritePC, OpenPC, GetOldPC, PC
  <1>6. ActiveShape'
    BY DEF StopInFatal, StopCatcher, CallWrite, ControlOK, ActiveShape,
       MidWrite, WritePC
  <1>7. OpenShape'
    BY DEF StopInFatal, StopCatcher, CallWrite, ControlOK, OpenShape
  <1>8. MemoryHolds'
    <2>1. \A rc \in Rcs : lines[rc] \subseteq lines'[rc]
      BY BitsToRcAdds DEF StopInFatal, StopCatcher
    <2>2. UNCHANGED <<active, backed, base>>
      BY DEF StopInFatal, StopCatcher
    <2> QED
      BY <2>1, <2>2 DEF MemoryHolds
  <1>9. RolledShape'
    BY DEF StopInFatal, StopCatcher, BitsToRc, CallWrite, MemoryOK, ControlOK,
       LevelShape, ActiveShape, RolledShape, Rolled, Late, AtHandler, Current,
       MidWrite, Ending, WritePC, GetOldPC
  <1>10. InactiveSurvives'
    BY DEF StopInFatal, StopCatcher, InactiveSurvives
  <1>11. RolledIsRestored'
    BY DEF StopInFatal, CallWrite, StopCatcher, FilesOK, ControlOK,
       HistoryOK, ActiveShape, RolledIsRestored, Rolled, OpenPC, GetOldPC
  <1>12. HandlerStreams'
    <2>1. /\ pc' = [pc EXCEPT !["late"] = IF multirc THEN "next" ELSE "stopped"]
          /\ idx'["fatal"] = idx["fatal"]
          /\ fd' = fd
      BY DEF StopInFatal, StopCatcher, CallWrite, ControlOK, MemoryOK
    <2>2. pc'["late"] # "fill" /\ \A l \in {"stop", "fatal"} : pc'[l] = pc[l]
      BY <2>1 DEF ControlOK
    <2>3. ASSUME NEW rc \in Rcs
          PROVE  /\ overlaid[rc] => overlaid'[rc]
                 /\ pc["fatal"] \in {"fill", "clear"} /\ idx["fatal"] = rc => overlaid'[rc]
                 /\ overlaid'[rc] => \/ overlaid[rc]
                                     \/ pc["fatal"] \in {"fill", "clear"} /\ idx["fatal"] = rc
      <3>1. overlaid' = [r \in Rcs |->
              \/ overlaid[r]
              \/ pc["fatal"] \in {"fill", "clear"} /\ idx["fatal"] = r]
        BY DEF StopInFatal
      <3> QED
        BY <3>1
    <2>4. ASSUME NEW rc \in Rcs
          PROVE  interrupted[rc] \/ Busy(rc) => interrupted'[rc]
      <3>1. interrupted' = [r \in Rcs |-> interrupted[r] \/ Busy(r)]
        BY DEF StopInFatal, StopCatcher, NoteInterrupt
      <3> QED
        BY <3>1
    <2>5. \A rc \in Rcs :
            pc["fatal"] \in {"fill", "clear"} /\ idx["fatal"] = rc => Busy(rc)
      BY DEF Busy, Mid, WritePC
    <2>6. \A rc \in Rcs : overlaid'[rc] => interrupted'[rc]
      BY <2>3, <2>4, <2>5 DEF HandlerStreams
    <2> QED
      BY <2>1, <2>2, <2>3, <2>6 DEF HandlerStreams
  <1> QED
    BY <1>1, <1>2, <1>3, <1>4, <1>5, <1>6, <1>7, <1>8, <1>9, <1>10, <1>11,
       <1>12

LEMMA ContinueKeeps ==
  ASSUME IInv, NEW l \in {"stop", "late"}, Continue(l)
  PROVE  IInv'
  <1>1. FilesOK'
    BY DEF Continue, FilesOK
  <1>2. MemoryOK'
    BY DEF Continue, MemoryOK
  <1>3. ControlOK'
    BY DEF Continue, ControlOK, PC
  <1>4. HistoryOK'
    BY DEF Continue, HistoryOK
  <1>5. LevelShape'
    BY DEF Continue, LevelShape, Ending, WritePC
  <1>6. ActiveShape'
    BY DEF Continue, ControlOK, ActiveShape, MidWrite, WritePC
  <1>7. OpenShape'
    BY DEF Continue, OpenShape
  <1>8. MemoryHolds'
    BY DEF Continue, MemoryHolds
  <1>9. RolledShape'
    BY DEF Continue, ControlOK, LevelShape, HandlerStreams, RolledShape, Rolled,
       Late,
       AtHandler, Current, MidWrite, WritePC
  <1>10. InactiveSurvives'
    BY DEF Continue, InactiveSurvives
  <1>11. RolledIsRestored'
    BY DEF Continue, FilesOK, ControlOK, HistoryOK, ActiveShape,
       RolledIsRestored, Rolled, OpenPC, GetOldPC
  <1>12. HandlerStreams'
    BY DEF Continue, ControlOK, HistoryOK, LevelShape, HandlerStreams,
       WritePC
  <1> QED
    BY <1>1, <1>2, <1>3, <1>4, <1>5, <1>6, <1>7, <1>8, <1>9, <1>10, <1>11,
       <1>12

LEMMA FatalSignalKeeps ==
  ASSUME IInv, FatalSignal
  PROVE  IInv'
  <1>1. FilesOK'
    BY DEF FatalSignal, FilesOK
  <1>2. MemoryOK'
    BY BitsToRcTyped DEF FatalSignal, MemoryOK
  <1>3. ControlOK'
    BY CallWriteTyped DEF FatalSignal, ControlOK, Return, PC, WritePC, OpenPC,
       GetOldPC
  <1>4. HistoryOK'
    BY DEF FatalSignal, NoteInterrupt, HistoryOK
  <1>5. LevelShape'
    BY DEF FatalSignal, CallWrite, ControlOK, LevelShape, Ending, WritePC,
       OpenPC, GetOldPC, PC
  <1>6. ActiveShape'
    BY DEF FatalSignal, CallWrite, ControlOK, ActiveShape, MidWrite, WritePC
  <1>7. OpenShape'
    BY DEF FatalSignal, CallWrite, ControlOK, OpenShape
  <1>8. MemoryHolds'
    BY DEF FatalSignal, BitsToRc, MemoryOK, MemoryHolds
  <1>9. RolledShape'
    BY DEF FatalSignal, BitsToRc, CallWrite, MemoryOK, ControlOK, LevelShape,
       ActiveShape, RolledShape, Rolled, Late, AtHandler, Current, MidWrite,
       Ending, WritePC, GetOldPC
  <1>10. InactiveSurvives'
    BY DEF FatalSignal, InactiveSurvives
  <1>11. RolledIsRestored'
    BY DEF FatalSignal, CallWrite, FilesOK, ControlOK, HistoryOK,
       ActiveShape, RolledIsRestored, Rolled, OpenPC, GetOldPC
  <1>12. HandlerStreams'
    BY DEF FatalSignal, NoteInterrupt, Busy, Mid, CallWrite, ControlOK,
       HistoryOK, LevelShape, HandlerStreams, WritePC, GetOldPC
  <1> QED
    BY <1>1, <1>2, <1>3, <1>4, <1>5, <1>6, <1>7, <1>8, <1>9, <1>10, <1>11,
       <1>12

LEMMA FatalFinalizeKeeps ==
  ASSUME IInv, FatalFinalize
  PROVE  IInv'
  <1>1. FilesOK'
    BY DEF FatalFinalize, FilesOK
  <1>2. MemoryOK'
    BY DEF FatalFinalize, MemoryOK
  <1>3. ControlOK'
    BY DEF FatalFinalize, CallWrite, ControlOK, Return, PC, WritePC
  <1>4. HistoryOK'
    BY DEF FatalFinalize, HistoryOK
  <1>5. LevelShape'
    BY DEF FatalFinalize, CallWrite, LevelShape, Ending, WritePC
  <1>6. ActiveShape'
    BY DEF FatalFinalize, CallWrite, ControlOK, ActiveShape, MidWrite, WritePC
  <1>7. OpenShape'
    BY DEF FatalFinalize, CallWrite, OpenShape
  <1>8. MemoryHolds'
    BY DEF FatalFinalize, MemoryHolds
  <1>9. RolledShape'
    BY DEF FatalFinalize, CallWrite, ControlOK, RolledShape, Rolled, Late,
       AtHandler, Current, MidWrite, WritePC, GetOldPC
  <1>10. InactiveSurvives'
    BY DEF FatalFinalize, InactiveSurvives
  <1>11. RolledIsRestored'
    BY DEF FatalFinalize, CallWrite, FilesOK, ControlOK, HistoryOK,
       ActiveShape, RolledIsRestored, Rolled, OpenPC, GetOldPC
  <1>12. HandlerStreams'
    BY DEF FatalFinalize, CallWrite, ControlOK, HistoryOK, LevelShape,
       HandlerStreams, WritePC
  <1> QED
    BY <1>1, <1>2, <1>3, <1>4, <1>5, <1>6, <1>7, <1>8, <1>9, <1>10, <1>11,
       <1>12

LEMMA ExitKeeps ==
  ASSUME IInv, Exit
  PROVE  IInv'
  <1>1. FilesOK'
    BY DEF Exit, ProcessEnds, FilesOK
  <1>2. MemoryOK'
    BY DEF Exit, ProcessEnds, MemoryOK, Content
  <1>3. ControlOK'
    BY DEF Exit, ProcessEnds, ControlOK, Return, PC, WritePC
  <1>4. HistoryOK'
    BY DEF Exit, ProcessEnds, HistoryOK
  <1>5. LevelShape'
    BY DEF Exit, ProcessEnds, ControlOK, LevelShape, Ending, WritePC, OpenPC,
       GetOldPC, PC
  <1>6. ActiveShape'
    BY DEF Exit, ProcessEnds, ControlOK, ActiveShape, MidWrite, WritePC
  <1>7. OpenShape'
    BY DEF Exit, ProcessEnds, OpenShape
  <1>8. MemoryHolds'
    BY DEF Exit, ProcessEnds, MemoryHolds
  <1>9. RolledShape'
    BY DEF Exit, ProcessEnds, RolledShape, Rolled, Late, AtHandler, Current
  <1>10. InactiveSurvives'
    BY DEF Exit, ProcessEnds, FilesOK, MemoryOK, HistoryOK, ActiveShape,
       OpenShape, RolledIsRestored, RolledShape, Rolled, InactiveSurvives,
       Holds, Content, WritePC, OpenPC, GetOldPC
  <1>11. RolledIsRestored'
    BY DEF Exit, ProcessEnds, FilesOK, ControlOK, HistoryOK, ActiveShape,
       RolledIsRestored, Rolled, OpenPC, GetOldPC
  <1>12. HandlerStreams'
    BY DEF Exit, ProcessEnds, ControlOK, HistoryOK, LevelShape,
       HandlerStreams, WritePC
  <1> QED
    BY <1>1, <1>2, <1>3, <1>4, <1>5, <1>6, <1>7, <1>8, <1>9, <1>10, <1>11,
       <1>12

LEMMA CrashKeeps ==
  ASSUME IInv, Crash
  PROVE  IInv'
  <1>1. FilesOK'
    BY DEF Crash, ProcessEnds, FilesOK
  <1>2. MemoryOK'
    BY DEF Crash, ProcessEnds, MemoryOK, Content
  <1>3. ControlOK'
    BY DEF Crash, ProcessEnds, ControlOK, Return, PC, WritePC
  <1>4. HistoryOK'
    BY DEF Crash, ProcessEnds, HistoryOK
  <1>5. LevelShape'
    BY DEF Crash, ProcessEnds, ControlOK, LevelShape, Ending, WritePC, OpenPC,
       GetOldPC, PC
  <1>6. ActiveShape'
    BY DEF Crash, ProcessEnds, ControlOK, ActiveShape, MidWrite, WritePC
  <1>7. OpenShape'
    BY DEF Crash, ProcessEnds, OpenShape
  <1>8. MemoryHolds'
    BY DEF Crash, ProcessEnds, MemoryHolds
  <1>9. RolledShape'
    BY DEF Crash, ProcessEnds, RolledShape, Rolled, Late, AtHandler, Current
  <1>10. InactiveSurvives'
    BY DEF Crash, ProcessEnds, FilesOK, MemoryOK, HistoryOK, ActiveShape,
       OpenShape, RolledIsRestored, RolledShape, Rolled, InactiveSurvives,
       Holds, Content, WritePC, OpenPC, GetOldPC
  <1>11. RolledIsRestored'
    BY DEF Crash, ProcessEnds, FilesOK, ControlOK, HistoryOK, ActiveShape,
       RolledIsRestored, Rolled, OpenPC, GetOldPC
  <1>12. HandlerStreams'
    BY DEF Crash, ProcessEnds, ControlOK, HistoryOK, LevelShape,
       HandlerStreams, WritePC
  <1> QED
    BY <1>1, <1>2, <1>3, <1>4, <1>5, <1>6, <1>7, <1>8, <1>9, <1>10, <1>11,
       <1>12

LEMMA StutterKeeps ==
  ASSUME IInv, UNCHANGED vars
  PROVE  IInv'
  <1>1. FilesOK'
    BY DEF vars, FilesOK
  <1>2. MemoryOK'
    BY DEF vars, MemoryOK
  <1>3. ControlOK'
    BY DEF vars, ControlOK
  <1>4. HistoryOK'
    BY DEF vars, HistoryOK
  <1>5. LevelShape'
    BY DEF vars, LevelShape, Ending
  <1>6. ActiveShape'
    BY DEF vars, ActiveShape
  <1>7. OpenShape'
    BY DEF vars, OpenShape
  <1>8. MemoryHolds'
    BY DEF vars, MemoryHolds
  <1>9. RolledShape'
    BY DEF vars, RolledShape, Rolled, Late, AtHandler, Current
  <1>10. InactiveSurvives'
    BY DEF vars, InactiveSurvives
  <1>11. RolledIsRestored'
    BY DEF vars, FilesOK, ControlOK, HistoryOK, ActiveShape,
       RolledIsRestored, Rolled, OpenPC, GetOldPC
  <1>12. HandlerStreams'
    BY DEF vars, ControlOK, HistoryOK, LevelShape, HandlerStreams, WritePC
  <1> QED
    BY <1>1, <1>2, <1>3, <1>4, <1>5, <1>6, <1>7, <1>8, <1>9, <1>10, <1>11,
       <1>12

-------------------------------------------------------------------------------
\* Every step keeps the invariant.
LEMMA InvStep == IInv /\ [Next]_vars => IInv'
  <1> SUFFICES ASSUME IInv, [Next]_vars
               PROVE  IInv'
    OBVIOUS
  <1>1. ASSUME NEW rc \in Rcs, OpenStep(rc) PROVE IInv'
    BY <1>1, OpenMissingKeeps, SeedKeeps, OpenRefusedKeeps, RemoveOldKeeps,
       CopyOldKeeps, CopyFailsKeeps, LoadKeeps DEF OpenStep
  <1>2. ASSUME NEW l \in Level, NEW rc \in Rcs, WriteStep(l, rc) PROVE IInv'
    BY <1>2, WriteSkipKeeps, WriteOpenKeeps, WriteOpenFailsKeeps,
       WriteFillKeeps, WriteFillFailsKeeps, WriteClearKeeps, WriteRemoveKeeps,
       WriteRenameKeeps DEF WriteStep
  <1>3. ASSUME NEW rc \in Rcs, GetOldStep(rc) PROVE IInv'
    BY <1>3, GetOldRemoveKeeps, GetOldSaveKeeps, GetOldRestoreKeeps,
       GetOldClearKeeps DEF GetOldStep
  <1>4. ASSUME NEW l \in Level, WriteReturn(l) PROVE IInv'
    BY <1>4, WriteReturnKeeps
  <1>5. ASSUME NEW rc \in Rcs, EnterGroup(rc) PROVE IInv'
    BY <1>5, EnterGroupKeeps
  <1>6. ASSUME NEW m \in Marks, ReadArticle(m) PROVE IInv'
    BY <1>6, ReadArticleKeeps
  <1>7. ASSUME NEW rc \in Rcs, NEW m \in Marks,
               EditLine(rc, m) \/ CatchUp(rc, m)
        PROVE  IInv'
    BY <1>7, EditLineKeeps, CatchUpKeeps
  <1>8. ASSUME NEW abandon \in BOOLEAN, Quit(abandon) PROVE IInv'
    BY <1>8, QuitKeeps
  <1>9. CASE Start \/ OpenDone \/ Checkpoint \/ LeaveGroup \/ BugOut
    BY <1>9, StartKeeps, OpenDoneKeeps, CheckpointKeeps, LeaveGroupKeeps,
       BugOutKeeps
  <1>10. CASE GetOldDone \/ StopSignal \/ StopInFatal \/ FatalSignal
    BY <1>10, GetOldDoneKeeps, StopSignalKeeps, StopInFatalKeeps,
       FatalSignalKeeps
  <1>11. CASE FatalFinalize \/ Exit \/ Crash \/ UNCHANGED vars
    BY <1>11, FatalFinalizeKeeps, ExitKeeps, CrashKeeps, StutterKeeps
  <1>12. ASSUME NEW l \in {"stop", "late"}, Continue(l) PROVE IInv'
    BY <1>12, ContinueKeeps
  <1> QED
    BY <1>1, <1>2, <1>3, <1>4, <1>5, <1>6, <1>7, <1>8, <1>9, <1>10, <1>11,
       <1>12
       DEF Next

\* A newsrc that is active but not rolled still has its backup; a rolled one is
\* whole under its name, or under ".new" while a handler is about to rename it,
\* unless it is overlaid.
LEMMA InvImpliesSurvival == IInv => BackupSurvives
  <1> SUFFICES ASSUME IInv, NEW rc \in Rcs, backed[rc],
                      ~(restored[rc] /\ overlaid[rc])
               PROVE  \/ Holds(rcFile[rc], base[rc])
                      \/ Holds(oldFile[rc], base[rc])
                      \/ Holds(newFile[rc], base[rc])
    BY DEF BackupSurvives
  <1>1. CASE ~active[rc]
    BY <1>1 DEF InactiveSurvives
  <1>2. CASE active[rc] /\ oldFile[rc] = base[rc]
    <2>1. base[rc] \in Content
      BY DEF HistoryOK
    <2> QED
      BY <1>2, <2>1 DEF Holds
  <1>3. CASE Rolled(rc)
    BY <1>3 DEF RolledShape, RolledIsRestored, HistoryOK
  <1> QED
    BY <1>1, <1>2, <1>3 DEF Rolled, MemoryOK

\* The invariant holds of every reachable state.
LEMMA Invariance == Spec => []IInv
  BY InvInit, InvStep, PTL DEF Spec

\* Newsrc's variables keep their types, whatever is interrupted or fails.
THEOREM TypeCorrect == Spec => []TypeOK
  <1>1. IInv => TypeOK
    OBVIOUS
  <1> QED
    BY <1>1, Invariance, PTL

\* Whatever signals, write errors and crashes cut into write_newsrcs and
\* get_old_newsrcs, the newsrc a session backed up is still whole under one of
\* the newsrc's three names, unless get_old_newsrcs rolled it back and SIGTSTP
\* then cut into the fatal handler's rewrite of it.
THEOREM NewsrcSurvives == Spec => []BackupSurvives
  BY Invariance, InvImpliesSurvival, PTL

-------------------------------------------------------------------------------
\* What the flag, the last write and the exits of a session promise holds
\* whenever no signal cut into the work on a newsrc. SavedInv is inductive
\* relative to IInv.
USE DEF SavedInv

-------------------------------------------------------------------------------
\* The invariant holds initially.
LEMMA SavedInit == Init => SavedInv
  <1> SUFFICES ASSUME Init PROVE SavedInv
    OBVIOUS
  <1>1. Frozen /\ StreamShape /\ PastShape /\ RestoredShape
    BY DEF Init, Frozen, StreamShape, PastShape, RestoredShape, Mid, At,
       WritePC, GetOldPC
  <1>2. SavedShape /\ MarkedShape
    BY DEF Init, SavedShape, MarkedShape, At
  <1> QED
    BY <1>1, <1>2

-------------------------------------------------------------------------------
\* Each step keeps it: one lemma for each action, one step for each part.

LEMMA StartSaved ==
  ASSUME IInv, SavedInv, Start
  PROVE  SavedInv'
  <1>1. Frozen'
    BY DEF Start, Frozen, Mid, MidWrite, WritePC, OpenPC, GetOldPC, MemoryOK,
       ControlOK, HistoryOK, LevelShape
  <1>2. StreamShape'
    BY DEF Start, StreamShape, Frozen, Mid, At, MidWrite, WritePC, OpenPC,
       GetOldPC, MemoryOK, ControlOK, HistoryOK, LevelShape, ActiveShape
  <1>3. SavedShape'
    BY DEF Start, SavedShape, RestoredShape, StreamShape, Frozen, Mid, At,
       Sound, MidWrite, WritePC, OpenPC, GetOldPC, FilesOK, MemoryOK,
       ControlOK, HistoryOK, LevelShape, ActiveShape, OpenShape
  <1>4. MarkedShape'
    BY DEF Start, MarkedShape, At, MidWrite, WritePC, OpenPC, GetOldPC,
       MemoryOK, ControlOK, HistoryOK, LevelShape, ActiveShape, Ending
  <1>5. PastShape'
    BY DEF Start, PastShape, Past, StreamShape, SavedShape, Frozen, Mid, Sound,
       At, MidWrite, WritePC, OpenPC, GetOldPC, MemoryOK, ControlOK, HistoryOK,
       LevelShape, ActiveShape, Ending, MarkedShape
  <1>6. RestoredShape'
    BY DEF Start, RestoredShape, PastRestore, Past, PastShape, StreamShape,
       SavedShape, MarkedShape, RolledShape, Rolled, Late, Frozen, Mid, Sound,
       At, Holds, MidWrite, WritePC, OpenPC, GetOldPC, FilesOK, MemoryOK,
       ControlOK, HistoryOK, LevelShape, ActiveShape, Ending
  <1> QED
    BY <1>1, <1>2, <1>3, <1>4, <1>5, <1>6

LEMMA OpenMissingSaved ==
  ASSUME IInv, SavedInv, NEW rc \in Rcs, OpenMissing(rc)
  PROVE  SavedInv'
  <1>1. Frozen'
    BY DEF OpenMissing, Opening, NewSession, Frozen, Mid, MidWrite, WritePC,
       OpenPC, GetOldPC, MemoryOK, ControlOK, HistoryOK, LevelShape
  <1>2. StreamShape'
    BY DEF OpenMissing, Opening, NewSession, StreamShape, Frozen, Mid, At,
       MidWrite, WritePC, OpenPC, GetOldPC, MemoryOK, ControlOK, HistoryOK,
       LevelShape, ActiveShape
  <1>3. SavedShape'
    BY DEF OpenMissing, Opening, NewSession, SavedShape, RestoredShape,
       StreamShape, Frozen, Mid, At, Sound, MidWrite, WritePC, OpenPC,
       GetOldPC, FilesOK, MemoryOK, ControlOK, HistoryOK, LevelShape,
       ActiveShape, OpenShape
  <1>4. MarkedShape'
    BY DEF OpenMissing, Opening, NewSession, MarkedShape, At, MidWrite,
       WritePC, OpenPC, GetOldPC, MemoryOK, ControlOK, HistoryOK, LevelShape,
       ActiveShape, Ending
  <1>5. PastShape'
    BY DEF OpenMissing, Opening, NewSession, PastShape, Past, StreamShape,
       SavedShape, Frozen, Mid, Sound, At, MidWrite, WritePC, OpenPC, GetOldPC,
       MemoryOK, ControlOK, HistoryOK, LevelShape, ActiveShape, Ending,
       MarkedShape
  <1>6. RestoredShape'
    BY DEF OpenMissing, Opening, NewSession, RestoredShape, PastRestore, Past,
       PastShape, StreamShape, SavedShape, MarkedShape, RolledShape, Rolled,
       Late, Frozen, Mid, Sound, At, Holds, MidWrite, WritePC, OpenPC,
       GetOldPC, FilesOK, MemoryOK, ControlOK, HistoryOK, LevelShape,
       ActiveShape, Ending
  <1> QED
    BY <1>1, <1>2, <1>3, <1>4, <1>5, <1>6

LEMMA SeedSaved ==
  ASSUME IInv, SavedInv, NEW rc \in Rcs, Seed(rc)
  PROVE  SavedInv'
  <1>1. Frozen'
    BY DEF Seed, Opening, Frozen, Mid, MidWrite, WritePC, OpenPC, GetOldPC,
       MemoryOK, ControlOK, HistoryOK, LevelShape
  <1>2. StreamShape'
    BY DEF Seed, Opening, StreamShape, Frozen, Mid, At, MidWrite, WritePC,
       OpenPC, GetOldPC, MemoryOK, ControlOK, HistoryOK, LevelShape,
       ActiveShape
  <1>3. SavedShape'
    BY DEF Seed, Opening, SavedShape, RestoredShape, StreamShape, Frozen, Mid,
       At, Sound, MidWrite, WritePC, OpenPC, GetOldPC, FilesOK, MemoryOK,
       ControlOK, HistoryOK, LevelShape, ActiveShape, OpenShape
  <1>4. MarkedShape'
    BY DEF Seed, Opening, MarkedShape, At, MidWrite, WritePC, OpenPC, GetOldPC,
       MemoryOK, ControlOK, HistoryOK, LevelShape, ActiveShape, Ending
  <1>5. PastShape'
    BY DEF Seed, Opening, PastShape, Past, StreamShape, SavedShape, Frozen,
       Mid, Sound, At, MidWrite, WritePC, OpenPC, GetOldPC, MemoryOK,
       ControlOK, HistoryOK, LevelShape, ActiveShape, Ending, MarkedShape
  <1>6. RestoredShape'
    BY DEF Seed, Opening, RestoredShape, PastRestore, Past, PastShape,
       StreamShape, SavedShape, MarkedShape, RolledShape, Rolled, Late, Frozen,
       Mid, Sound, At, Holds, MidWrite, WritePC, OpenPC, GetOldPC, FilesOK,
       MemoryOK, ControlOK, HistoryOK, LevelShape, ActiveShape, Ending
  <1> QED
    BY <1>1, <1>2, <1>3, <1>4, <1>5, <1>6

LEMMA OpenRefusedSaved ==
  ASSUME IInv, SavedInv, NEW rc \in Rcs, OpenRefused(rc)
  PROVE  SavedInv'
  <1>1. Frozen'
    BY DEF OpenRefused, Opening, Frozen, Mid, MidWrite, WritePC, OpenPC,
       GetOldPC, MemoryOK, ControlOK, HistoryOK, LevelShape
  <1>2. StreamShape'
    BY DEF OpenRefused, Opening, StreamShape, Frozen, Mid, At, MidWrite,
       WritePC, OpenPC, GetOldPC, MemoryOK, ControlOK, HistoryOK, LevelShape,
       ActiveShape
  <1>3. SavedShape'
    BY DEF OpenRefused, Opening, SavedShape, RestoredShape, StreamShape,
       Frozen, Mid, At, Sound, MidWrite, WritePC, OpenPC, GetOldPC, FilesOK,
       MemoryOK, ControlOK, HistoryOK, LevelShape, ActiveShape, OpenShape
  <1>4. MarkedShape'
    BY DEF OpenRefused, Opening, MarkedShape, At, MidWrite, WritePC, OpenPC,
       GetOldPC, MemoryOK, ControlOK, HistoryOK, LevelShape, ActiveShape,
       Ending
  <1>5. PastShape'
    BY DEF OpenRefused, Opening, PastShape, Past, StreamShape, SavedShape,
       Frozen, Mid, Sound, At, MidWrite, WritePC, OpenPC, GetOldPC, MemoryOK,
       ControlOK, HistoryOK, LevelShape, ActiveShape, Ending, MarkedShape
  <1>6. RestoredShape'
    BY DEF OpenRefused, Opening, RestoredShape, PastRestore, Past, PastShape,
       StreamShape, SavedShape, MarkedShape, RolledShape, Rolled, Late, Frozen,
       Mid, Sound, At, Holds, MidWrite, WritePC, OpenPC, GetOldPC, FilesOK,
       MemoryOK, ControlOK, HistoryOK, LevelShape, ActiveShape, Ending
  <1> QED
    BY <1>1, <1>2, <1>3, <1>4, <1>5, <1>6

LEMMA RemoveOldSaved ==
  ASSUME IInv, SavedInv, NEW rc \in Rcs, RemoveOld(rc)
  PROVE  SavedInv'
  <1>1. Frozen'
    BY DEF RemoveOld, Opening, NewSession, Frozen, Mid, MidWrite, WritePC,
       OpenPC, GetOldPC, MemoryOK, ControlOK, HistoryOK, LevelShape
  <1>2. StreamShape'
    BY DEF RemoveOld, Opening, NewSession, StreamShape, Frozen, Mid, At,
       MidWrite, WritePC, OpenPC, GetOldPC, MemoryOK, ControlOK, HistoryOK,
       LevelShape, ActiveShape
  <1>3. SavedShape'
    BY DEF RemoveOld, Opening, NewSession, SavedShape, RestoredShape,
       StreamShape, Frozen, Mid, At, Sound, MidWrite, WritePC, OpenPC,
       GetOldPC, FilesOK, MemoryOK, ControlOK, HistoryOK, LevelShape,
       ActiveShape, OpenShape
  <1>4. MarkedShape'
    BY DEF RemoveOld, Opening, NewSession, MarkedShape, At, MidWrite, WritePC,
       OpenPC, GetOldPC, MemoryOK, ControlOK, HistoryOK, LevelShape,
       ActiveShape, Ending
  <1>5. PastShape'
    BY DEF RemoveOld, Opening, NewSession, PastShape, Past, StreamShape,
       SavedShape, Frozen, Mid, Sound, At, MidWrite, WritePC, OpenPC, GetOldPC,
       MemoryOK, ControlOK, HistoryOK, LevelShape, ActiveShape, Ending,
       MarkedShape
  <1>6. RestoredShape'
    BY DEF RemoveOld, Opening, NewSession, RestoredShape, PastRestore, Past,
       PastShape, StreamShape, SavedShape, MarkedShape, RolledShape, Rolled,
       Late, Frozen, Mid, Sound, At, Holds, MidWrite, WritePC, OpenPC,
       GetOldPC, FilesOK, MemoryOK, ControlOK, HistoryOK, LevelShape,
       ActiveShape, Ending
  <1> QED
    BY <1>1, <1>2, <1>3, <1>4, <1>5, <1>6

LEMMA CopyOldSaved ==
  ASSUME IInv, SavedInv, NEW rc \in Rcs, CopyOld(rc)
  PROVE  SavedInv'
  <1>1. Frozen'
    BY DEF CopyOld, Opening, Frozen, Mid, MidWrite, WritePC, OpenPC, GetOldPC,
       MemoryOK, ControlOK, HistoryOK, LevelShape
  <1>2. StreamShape'
    BY DEF CopyOld, Opening, StreamShape, Frozen, Mid, At, MidWrite, WritePC,
       OpenPC, GetOldPC, MemoryOK, ControlOK, HistoryOK, LevelShape,
       ActiveShape
  <1>3. SavedShape'
    BY DEF CopyOld, Opening, SavedShape, RestoredShape, StreamShape, Frozen,
       Mid, At, Sound, MidWrite, WritePC, OpenPC, GetOldPC, FilesOK, MemoryOK,
       ControlOK, HistoryOK, LevelShape, ActiveShape, OpenShape
  <1>4. MarkedShape'
    BY DEF CopyOld, Opening, MarkedShape, At, MidWrite, WritePC, OpenPC,
       GetOldPC, MemoryOK, ControlOK, HistoryOK, LevelShape, ActiveShape,
       Ending
  <1>5. PastShape'
    BY DEF CopyOld, Opening, PastShape, Past, StreamShape, SavedShape, Frozen,
       Mid, Sound, At, MidWrite, WritePC, OpenPC, GetOldPC, MemoryOK,
       ControlOK, HistoryOK, LevelShape, ActiveShape, Ending, MarkedShape
  <1>6. RestoredShape'
    BY DEF CopyOld, Opening, RestoredShape, PastRestore, Past, PastShape,
       StreamShape, SavedShape, MarkedShape, RolledShape, Rolled, Late, Frozen,
       Mid, Sound, At, Holds, MidWrite, WritePC, OpenPC, GetOldPC, FilesOK,
       MemoryOK, ControlOK, HistoryOK, LevelShape, ActiveShape, Ending
  <1> QED
    BY <1>1, <1>2, <1>3, <1>4, <1>5, <1>6

LEMMA CopyFailsSaved ==
  ASSUME IInv, SavedInv, NEW rc \in Rcs, CopyFails(rc)
  PROVE  SavedInv'
  <1>1. Frozen'
    BY DEF CopyFails, Opening, Frozen, Mid, MidWrite, WritePC, OpenPC,
       GetOldPC, MemoryOK, ControlOK, HistoryOK, LevelShape
  <1>2. StreamShape'
    BY DEF CopyFails, Opening, StreamShape, Frozen, Mid, At, MidWrite, WritePC,
       OpenPC, GetOldPC, MemoryOK, ControlOK, HistoryOK, LevelShape,
       ActiveShape
  <1>3. SavedShape'
    BY DEF CopyFails, Opening, SavedShape, RestoredShape, StreamShape, Frozen,
       Mid, At, Sound, MidWrite, WritePC, OpenPC, GetOldPC, FilesOK, MemoryOK,
       ControlOK, HistoryOK, LevelShape, ActiveShape, OpenShape
  <1>4. MarkedShape'
    BY DEF CopyFails, Opening, MarkedShape, At, MidWrite, WritePC, OpenPC,
       GetOldPC, MemoryOK, ControlOK, HistoryOK, LevelShape, ActiveShape,
       Ending
  <1>5. PastShape'
    BY DEF CopyFails, Opening, PastShape, Past, StreamShape, SavedShape,
       Frozen, Mid, Sound, At, MidWrite, WritePC, OpenPC, GetOldPC, MemoryOK,
       ControlOK, HistoryOK, LevelShape, ActiveShape, Ending, MarkedShape
  <1>6. RestoredShape'
    BY DEF CopyFails, Opening, RestoredShape, PastRestore, Past, PastShape,
       StreamShape, SavedShape, MarkedShape, RolledShape, Rolled, Late, Frozen,
       Mid, Sound, At, Holds, MidWrite, WritePC, OpenPC, GetOldPC, FilesOK,
       MemoryOK, ControlOK, HistoryOK, LevelShape, ActiveShape, Ending
  <1> QED
    BY <1>1, <1>2, <1>3, <1>4, <1>5, <1>6

LEMMA LoadSaved ==
  ASSUME IInv, SavedInv, NEW rc \in Rcs, Load(rc)
  PROVE  SavedInv'
  <1>1. Frozen'
    BY DEF Load, Opening, Frozen, Mid, MidWrite, WritePC, OpenPC, GetOldPC,
       MemoryOK, ControlOK, HistoryOK, LevelShape
  <1>2. StreamShape'
    BY DEF Load, Opening, StreamShape, Frozen, Mid, At, MidWrite, WritePC,
       OpenPC, GetOldPC, MemoryOK, ControlOK, HistoryOK, LevelShape,
       ActiveShape
  <1>3. SavedShape'
    BY DEF Load, Opening, SavedShape, RestoredShape, StreamShape, Frozen, Mid,
       At, Sound, MidWrite, WritePC, OpenPC, GetOldPC, FilesOK, MemoryOK,
       ControlOK, HistoryOK, LevelShape, ActiveShape, OpenShape
  <1>4. MarkedShape'
    BY DEF Load, Opening, MarkedShape, At, MidWrite, WritePC, OpenPC, GetOldPC,
       MemoryOK, ControlOK, HistoryOK, LevelShape, ActiveShape, Ending
  <1>5. PastShape'
    BY DEF Load, Opening, PastShape, Past, StreamShape, SavedShape, Frozen,
       Mid, Sound, At, MidWrite, WritePC, OpenPC, GetOldPC, MemoryOK,
       ControlOK, HistoryOK, LevelShape, ActiveShape, Ending, MarkedShape
  <1>6. RestoredShape'
    BY DEF Load, Opening, RestoredShape, PastRestore, Past, PastShape,
       StreamShape, SavedShape, MarkedShape, RolledShape, Rolled, Late, Frozen,
       Mid, Sound, At, Holds, MidWrite, WritePC, OpenPC, GetOldPC, FilesOK,
       MemoryOK, ControlOK, HistoryOK, LevelShape, ActiveShape, Ending
  <1> QED
    BY <1>1, <1>2, <1>3, <1>4, <1>5, <1>6

LEMMA OpenDoneSaved ==
  ASSUME IInv, SavedInv, OpenDone
  PROVE  SavedInv'
  <1>1. Frozen'
    BY DEF OpenDone, CallWrite, Frozen, Mid, MidWrite, WritePC, OpenPC,
       GetOldPC, MemoryOK, ControlOK, HistoryOK, LevelShape
  <1>2. StreamShape'
    BY DEF OpenDone, CallWrite, StreamShape, Frozen, Mid, At, MidWrite,
       WritePC, OpenPC, GetOldPC, MemoryOK, ControlOK, HistoryOK, LevelShape,
       ActiveShape
  <1>3. SavedShape'
    BY DEF OpenDone, CallWrite, SavedShape, RestoredShape, StreamShape, Frozen,
       Mid, At, Sound, MidWrite, WritePC, OpenPC, GetOldPC, FilesOK, MemoryOK,
       ControlOK, HistoryOK, LevelShape, ActiveShape, OpenShape
  <1>4. MarkedShape'
    BY DEF OpenDone, CallWrite, MarkedShape, At, MidWrite, WritePC, OpenPC,
       GetOldPC, MemoryOK, ControlOK, HistoryOK, LevelShape, ActiveShape,
       Ending
  <1>5. PastShape'
    <2>1. CASE \E rc \in Rcs : active[rc]
      <3>1. /\ pc' = [pc EXCEPT !["main"] = "next"]
            /\ cont' = [cont EXCEPT !["main"] = "running"]
        BY <2>1 DEF OpenDone, CallWrite
      <3>2. pc["stop"] = "idle" /\ pc["fatal"] = "idle" /\ pc["late"] = "idle"
        BY DEF OpenDone, ControlOK
      <3>3. \A l \in Level, rc \in Rcs : ~Past(l, rc)'
        BY <3>1, <3>2 DEF Past, ControlOK, WritePC, GetOldPC
      <3> QED
        BY <3>3 DEF PastShape
    <2>2. CASE ~ \E rc \in Rcs : active[rc]
      BY <2>2 DEF OpenDone, PastShape
    <2> QED
      BY <2>1, <2>2
  <1>6. RestoredShape'
    BY DEF OpenDone, CallWrite, RestoredShape, PastRestore, Past, PastShape,
       StreamShape, SavedShape, MarkedShape, RolledShape, Rolled, Late, Frozen,
       Mid, Sound, At, Holds, MidWrite, WritePC, OpenPC, GetOldPC, FilesOK,
       MemoryOK, ControlOK, HistoryOK, LevelShape, ActiveShape, Ending
  <1> QED
    BY <1>1, <1>2, <1>3, <1>4, <1>5, <1>6

LEMMA WriteSkipSaved ==
  ASSUME IInv, SavedInv, NEW l \in Level, NEW rc \in Rcs, WriteSkip(l, rc)
  PROVE  SavedInv'
  <1>1. Frozen'
    BY DEF WriteSkip, Writing, Frozen, Mid, MidWrite, WritePC, OpenPC,
       GetOldPC, MemoryOK, ControlOK, HistoryOK, LevelShape
  <1>2. StreamShape'
    BY DEF WriteSkip, Writing, StreamShape, Frozen, Mid, At, MidWrite, WritePC,
       OpenPC, GetOldPC, MemoryOK, ControlOK, HistoryOK, LevelShape,
       ActiveShape
  <1>3. SavedShape'
    BY DEF WriteSkip, Writing, SavedShape, RestoredShape, StreamShape, Frozen,
       Mid, At, Sound, MidWrite, WritePC, OpenPC, GetOldPC, FilesOK, MemoryOK,
       ControlOK, HistoryOK, LevelShape, ActiveShape, OpenShape
  <1>4. MarkedShape'
    BY DEF WriteSkip, Writing, MarkedShape, At, MidWrite, WritePC, OpenPC,
       GetOldPC, MemoryOK, ControlOK, HistoryOK, LevelShape, ActiveShape,
       Ending
  <1>5. PastShape'
    BY DEF WriteSkip, Writing, PastShape, Past, StreamShape, SavedShape,
       Frozen, Mid, Sound, At, MidWrite, WritePC, OpenPC, GetOldPC, MemoryOK,
       ControlOK, HistoryOK, LevelShape, ActiveShape, Ending, MarkedShape
  <1>6. RestoredShape'
    BY DEF WriteSkip, Writing, RestoredShape, PastRestore, Past, PastShape,
       StreamShape, SavedShape, MarkedShape, RolledShape, Rolled, Late, Frozen,
       Mid, Sound, At, Holds, MidWrite, WritePC, OpenPC, GetOldPC, FilesOK,
       MemoryOK, ControlOK, HistoryOK, LevelShape, ActiveShape, Ending
  <1> QED
    BY <1>1, <1>2, <1>3, <1>4, <1>5, <1>6

LEMMA WriteOpenSaved ==
  ASSUME IInv, SavedInv, NEW l \in Level, NEW rc \in Rcs, WriteOpen(l, rc)
  PROVE  SavedInv'
  <1>1. Frozen'
    BY DEF WriteOpen, Writing, Frozen, Mid, MidWrite, WritePC, OpenPC,
       GetOldPC, MemoryOK, ControlOK, HistoryOK, LevelShape
  <1>2. StreamShape'
    BY DEF WriteOpen, Writing, StreamShape, Frozen, Mid, At, MidWrite, WritePC,
       OpenPC, GetOldPC, MemoryOK, ControlOK, HistoryOK, LevelShape,
       ActiveShape
  <1>3. SavedShape'
    BY DEF WriteOpen, Writing, SavedShape, RestoredShape, StreamShape, Frozen,
       Mid, At, Sound, MidWrite, WritePC, OpenPC, GetOldPC, FilesOK, MemoryOK,
       ControlOK, HistoryOK, LevelShape, ActiveShape, OpenShape
  <1>4. MarkedShape'
    BY DEF WriteOpen, Writing, MarkedShape, At, MidWrite, WritePC, OpenPC,
       GetOldPC, MemoryOK, ControlOK, HistoryOK, LevelShape, ActiveShape,
       Ending
  <1>5. PastShape'
    BY DEF WriteOpen, Writing, PastShape, Past, StreamShape, SavedShape,
       Frozen, Mid, Sound, At, MidWrite, WritePC, OpenPC, GetOldPC, MemoryOK,
       ControlOK, HistoryOK, LevelShape, ActiveShape, Ending, MarkedShape
  <1>6. RestoredShape'
    BY DEF WriteOpen, Writing, RestoredShape, PastRestore, Past, PastShape,
       StreamShape, SavedShape, MarkedShape, RolledShape, Rolled, Late, Frozen,
       Mid, Sound, At, Holds, MidWrite, WritePC, OpenPC, GetOldPC, FilesOK,
       MemoryOK, ControlOK, HistoryOK, LevelShape, ActiveShape, Ending
  <1> QED
    BY <1>1, <1>2, <1>3, <1>4, <1>5, <1>6

LEMMA WriteOpenFailsSaved ==
  ASSUME IInv, SavedInv, NEW l \in Level, NEW rc \in Rcs, WriteOpenFails(l, rc)
  PROVE  SavedInv'
  <1>1. Frozen'
    BY DEF WriteOpenFails, Writing, Frozen, Mid, MidWrite, WritePC, OpenPC,
       GetOldPC, MemoryOK, ControlOK, HistoryOK, LevelShape
  <1>2. StreamShape'
    BY DEF WriteOpenFails, Writing, StreamShape, Frozen, Mid, At, MidWrite,
       WritePC, OpenPC, GetOldPC, MemoryOK, ControlOK, HistoryOK, LevelShape,
       ActiveShape
  <1>3. SavedShape'
    BY DEF WriteOpenFails, Writing, SavedShape, RestoredShape, StreamShape,
       Frozen, Mid, At, Sound, MidWrite, WritePC, OpenPC, GetOldPC, FilesOK,
       MemoryOK, ControlOK, HistoryOK, LevelShape, ActiveShape, OpenShape
  <1>4. MarkedShape'
    BY DEF WriteOpenFails, Writing, MarkedShape, At, MidWrite, WritePC, OpenPC,
       GetOldPC, MemoryOK, ControlOK, HistoryOK, LevelShape, ActiveShape,
       Ending
  <1>5. PastShape'
    BY DEF WriteOpenFails, Writing, PastShape, Past, StreamShape, SavedShape,
       Frozen, Mid, Sound, At, MidWrite, WritePC, OpenPC, GetOldPC, MemoryOK,
       ControlOK, HistoryOK, LevelShape, ActiveShape, Ending, MarkedShape
  <1>6. RestoredShape'
    BY DEF WriteOpenFails, Writing, RestoredShape, PastRestore, Past,
       PastShape, StreamShape, SavedShape, MarkedShape, RolledShape, Rolled,
       Late, Frozen, Mid, Sound, At, Holds, MidWrite, WritePC, OpenPC,
       GetOldPC, FilesOK, MemoryOK, ControlOK, HistoryOK, LevelShape,
       ActiveShape, Ending
  <1> QED
    BY <1>1, <1>2, <1>3, <1>4, <1>5, <1>6

LEMMA WriteFillSaved ==
  ASSUME IInv, SavedInv, NEW l \in Level, NEW rc \in Rcs, WriteFill(l, rc)
  PROVE  SavedInv'
  <1>1. Frozen'
    BY DEF WriteFill, WriteAstray, Writing, Frozen, Mid, MidWrite, WritePC,
       OpenPC, GetOldPC, MemoryOK, ControlOK, HistoryOK, LevelShape
  <1>2. StreamShape'
    BY DEF WriteFill, WriteAstray, Writing, StreamShape, Frozen, Mid, At,
       MidWrite, WritePC, OpenPC, GetOldPC, MemoryOK, ControlOK, HistoryOK,
       LevelShape, ActiveShape
  <1>3. SavedShape'
    BY DEF WriteFill, WriteAstray, Writing, SavedShape, RestoredShape,
       StreamShape, Frozen, Mid, At, Sound, MidWrite, WritePC, OpenPC,
       GetOldPC, FilesOK, MemoryOK, ControlOK, HistoryOK, LevelShape,
       ActiveShape, OpenShape
  <1>4. MarkedShape'
    BY DEF WriteFill, WriteAstray, Writing, MarkedShape, At, MidWrite, WritePC,
       OpenPC, GetOldPC, MemoryOK, ControlOK, HistoryOK, LevelShape,
       ActiveShape, Ending
  <1>5. PastShape'
    BY DEF WriteFill, WriteAstray, Writing, PastShape, Past, StreamShape,
       SavedShape, Frozen, Mid, Sound, At, MidWrite, WritePC, OpenPC, GetOldPC,
       MemoryOK, ControlOK, HistoryOK, LevelShape, ActiveShape, Ending,
       MarkedShape
  <1>6. RestoredShape'
    BY DEF WriteFill, WriteAstray, Writing, RestoredShape, PastRestore, Past,
       PastShape, StreamShape, SavedShape, MarkedShape, RolledShape, Rolled,
       Late, Frozen, Mid, Sound, At, Holds, MidWrite, WritePC, OpenPC,
       GetOldPC, FilesOK, MemoryOK, ControlOK, HistoryOK, LevelShape,
       ActiveShape, Ending
  <1> QED
    BY <1>1, <1>2, <1>3, <1>4, <1>5, <1>6

LEMMA WriteFillFailsSaved ==
  ASSUME IInv, SavedInv, NEW l \in Level, NEW rc \in Rcs, WriteFillFails(l, rc)
  PROVE  SavedInv'
  <1>1. Frozen'
    BY DEF WriteFillFails, WriteAstray, Writing, Move, Frozen, Mid, MidWrite,
       WritePC, OpenPC, GetOldPC, MemoryOK, ControlOK, HistoryOK, LevelShape
  <1>2. StreamShape'
    BY DEF WriteFillFails, WriteAstray, Writing, Move, StreamShape, Frozen,
       Mid, At, MidWrite, WritePC, OpenPC, GetOldPC, MemoryOK, ControlOK,
       HistoryOK, LevelShape, ActiveShape
  <1>3. SavedShape'
    BY DEF WriteFillFails, WriteAstray, Writing, Move, SavedShape,
       RestoredShape, StreamShape, Frozen, Mid, At, Sound, MidWrite, WritePC,
       OpenPC, GetOldPC, FilesOK, MemoryOK, ControlOK, HistoryOK, LevelShape,
       ActiveShape, OpenShape
  <1>4. MarkedShape'
    BY DEF WriteFillFails, WriteAstray, Writing, Move, MarkedShape, At,
       MidWrite, WritePC, OpenPC, GetOldPC, MemoryOK, ControlOK, HistoryOK,
       LevelShape, ActiveShape, Ending
  <1>5. PastShape'
    BY DEF WriteFillFails, WriteAstray, Writing, Move, PastShape, Past,
       StreamShape, SavedShape, Frozen, Mid, Sound, At, MidWrite, WritePC,
       OpenPC, GetOldPC, MemoryOK, ControlOK, HistoryOK, LevelShape,
       ActiveShape, Ending, MarkedShape
  <1>6. RestoredShape'
    BY DEF WriteFillFails, WriteAstray, Writing, Move, RestoredShape,
       PastRestore, Past, PastShape, StreamShape, SavedShape, MarkedShape,
       RolledShape, Rolled, Late, Frozen, Mid, Sound, At, Holds, MidWrite,
       WritePC, OpenPC, GetOldPC, FilesOK, MemoryOK, ControlOK, HistoryOK,
       LevelShape, ActiveShape, Ending
  <1> QED
    BY <1>1, <1>2, <1>3, <1>4, <1>5, <1>6

LEMMA WriteClearSaved ==
  ASSUME IInv, SavedInv, NEW l \in Level, NEW rc \in Rcs, WriteClear(l, rc)
  PROVE  SavedInv'
  <1>1. Frozen'
    BY DEF WriteClear, Writing, Frozen, Mid, MidWrite, WritePC, OpenPC,
       GetOldPC, MemoryOK, ControlOK, HistoryOK, LevelShape
  <1>2. StreamShape'
    BY DEF WriteClear, Writing, StreamShape, Frozen, Mid, At, MidWrite,
       WritePC, OpenPC, GetOldPC, MemoryOK, ControlOK, HistoryOK, LevelShape,
       ActiveShape
  <1>3. SavedShape'
    BY DEF WriteClear, Writing, SavedShape, RestoredShape, StreamShape, Frozen,
       Mid, At, Sound, MidWrite, WritePC, OpenPC, GetOldPC, FilesOK, MemoryOK,
       ControlOK, HistoryOK, LevelShape, ActiveShape, OpenShape
  <1>4. MarkedShape'
    BY DEF WriteClear, Writing, MarkedShape, At, MidWrite, WritePC, OpenPC,
       GetOldPC, MemoryOK, ControlOK, HistoryOK, LevelShape, ActiveShape,
       Ending
  <1>5. PastShape'
    BY DEF WriteClear, Writing, PastShape, Past, StreamShape, SavedShape,
       Frozen, Mid, Sound, At, MidWrite, WritePC, OpenPC, GetOldPC, MemoryOK,
       ControlOK, HistoryOK, LevelShape, ActiveShape, Ending, MarkedShape
  <1>6. RestoredShape'
    BY DEF WriteClear, Writing, RestoredShape, PastRestore, Past, PastShape,
       StreamShape, SavedShape, MarkedShape, RolledShape, Rolled, Late, Frozen,
       Mid, Sound, At, Holds, MidWrite, WritePC, OpenPC, GetOldPC, FilesOK,
       MemoryOK, ControlOK, HistoryOK, LevelShape, ActiveShape, Ending
  <1> QED
    BY <1>1, <1>2, <1>3, <1>4, <1>5, <1>6

LEMMA WriteRemoveSaved ==
  ASSUME IInv, SavedInv, NEW l \in Level, NEW rc \in Rcs, WriteRemove(l, rc)
  PROVE  SavedInv'
  <1>1. Frozen'
    BY DEF WriteRemove, Writing, Move, Frozen, Mid, MidWrite, WritePC,
       OpenPC, GetOldPC, MemoryOK, ControlOK, HistoryOK, LevelShape
  <1>2. StreamShape'
    BY DEF WriteRemove, Writing, Move, StreamShape, Frozen, Mid, At,
       MidWrite, WritePC, OpenPC, GetOldPC, MemoryOK, ControlOK, HistoryOK,
       LevelShape, ActiveShape
  <1>3. SavedShape'
    BY DEF WriteRemove, Writing, Move, SavedShape, RestoredShape,
       StreamShape, Frozen, Mid, At, Sound, MidWrite, WritePC, OpenPC,
       GetOldPC, FilesOK, MemoryOK, ControlOK, HistoryOK, LevelShape,
       ActiveShape, OpenShape
  <1>4. MarkedShape'
    BY DEF WriteRemove, Writing, Move, MarkedShape, At, MidWrite,
       WritePC, OpenPC, GetOldPC, MemoryOK, ControlOK, HistoryOK, LevelShape,
       ActiveShape, Ending
  <1>5. PastShape'
    BY DEF WriteRemove, Writing, Move, PastShape, Past, StreamShape,
       SavedShape, Frozen, Mid, Sound, At, MidWrite, WritePC, OpenPC, GetOldPC,
       MemoryOK, ControlOK, HistoryOK, LevelShape, ActiveShape, Ending,
       MarkedShape
  <1>6. RestoredShape'
    BY DEF WriteRemove, Writing, Move, RestoredShape, PastRestore, Past,
       PastShape, StreamShape, SavedShape, MarkedShape, RolledShape, Rolled,
       Late, Frozen, Mid, Sound, At, Holds, MidWrite, WritePC, OpenPC,
       GetOldPC, FilesOK, MemoryOK, ControlOK, HistoryOK, LevelShape,
       ActiveShape, Ending
  <1> QED
    BY <1>1, <1>2, <1>3, <1>4, <1>5, <1>6

LEMMA WriteRenameSaved ==
  ASSUME IInv, SavedInv, NEW l \in Level, NEW rc \in Rcs, WriteRename(l, rc)
  PROVE  SavedInv'
  <1>1. Frozen'
    BY DEF WriteRename, Writing, Move, Frozen, Mid, MidWrite, WritePC,
       OpenPC, GetOldPC, MemoryOK, ControlOK, HistoryOK, LevelShape
  <1>2. StreamShape'
    BY DEF WriteRename, Writing, Move, StreamShape, Frozen, Mid, At,
       MidWrite, WritePC, OpenPC, GetOldPC, MemoryOK, ControlOK, HistoryOK,
       LevelShape, ActiveShape
  <1>3. SavedShape'
    BY DEF WriteRename, Writing, Move, SavedShape, RestoredShape,
       StreamShape, Frozen, Mid, At, Sound, MidWrite, WritePC, OpenPC,
       GetOldPC, FilesOK, MemoryOK, ControlOK, HistoryOK, LevelShape,
       ActiveShape, OpenShape
  <1>4. MarkedShape'
    BY DEF WriteRename, Writing, Move, MarkedShape, At, MidWrite,
       WritePC, OpenPC, GetOldPC, MemoryOK, ControlOK, HistoryOK, LevelShape,
       ActiveShape, Ending
  <1>5. PastShape'
    BY DEF WriteRename, Writing, Move, PastShape, Past, StreamShape,
       SavedShape, Frozen, Mid, Sound, At, MidWrite, WritePC, OpenPC, GetOldPC,
       MemoryOK, ControlOK, HistoryOK, LevelShape, ActiveShape, Ending,
       MarkedShape
  <1>6. RestoredShape'
    BY DEF WriteRename, Writing, Move, RestoredShape, PastRestore, Past,
       PastShape, StreamShape, SavedShape, MarkedShape, RolledShape, Rolled,
       Late, Frozen, Mid, Sound, At, Holds, MidWrite, WritePC, OpenPC,
       GetOldPC, FilesOK, MemoryOK, ControlOK, HistoryOK, LevelShape,
       ActiveShape, Ending
  <1> QED
    BY <1>1, <1>2, <1>3, <1>4, <1>5, <1>6

LEMMA WriteReturnSaved ==
  ASSUME IInv, SavedInv, NEW l \in Level, WriteReturn(l)
  PROVE  SavedInv'
  <1>1. Frozen'
    BY DEF WriteReturn, Frozen, Mid, MidWrite, WritePC, OpenPC, GetOldPC,
       MemoryOK, ControlOK, HistoryOK, LevelShape
  <1>2. StreamShape'
    BY DEF WriteReturn, StreamShape, Frozen, Mid, At, MidWrite, WritePC,
       OpenPC, GetOldPC, MemoryOK, ControlOK, HistoryOK, LevelShape,
       ActiveShape
  <1>3. SavedShape'
    BY DEF WriteReturn, SavedShape, RestoredShape, StreamShape, Frozen, Mid,
       At, Sound, MidWrite, WritePC, OpenPC, GetOldPC, FilesOK, MemoryOK,
       ControlOK, HistoryOK, LevelShape, ActiveShape, OpenShape
  <1>4. MarkedShape'
    BY DEF WriteReturn, MarkedShape, At, MidWrite, WritePC, OpenPC, GetOldPC,
       MemoryOK, ControlOK, HistoryOK, LevelShape, ActiveShape, Ending
  <1>5. PastShape'
    BY DEF WriteReturn, PastShape, Past, StreamShape, SavedShape, Frozen, Mid,
       Sound, At, MidWrite, WritePC, OpenPC, GetOldPC, MemoryOK, ControlOK,
       HistoryOK, LevelShape, ActiveShape, Ending, MarkedShape
  <1>6. RestoredShape'
    BY DEF WriteReturn, RestoredShape, PastRestore, Past, PastShape,
       StreamShape, SavedShape, MarkedShape, RolledShape, Rolled, Late, Frozen,
       Mid, Sound, At, Holds, MidWrite, WritePC, OpenPC, GetOldPC, FilesOK,
       MemoryOK, ControlOK, HistoryOK, LevelShape, ActiveShape, Ending
  <1> QED
    BY <1>1, <1>2, <1>3, <1>4, <1>5, <1>6

LEMMA EnterGroupSaved ==
  ASSUME IInv, SavedInv, NEW rc \in Rcs, EnterGroup(rc)
  PROVE  SavedInv'
  <1>1. Frozen'
    BY DEF EnterGroup, Running, Frozen, Mid, MidWrite, WritePC, OpenPC,
       GetOldPC, MemoryOK, ControlOK, HistoryOK, LevelShape
  <1>2. StreamShape'
    BY DEF EnterGroup, Running, StreamShape, Frozen, Mid, At, MidWrite,
       WritePC, OpenPC, GetOldPC, MemoryOK, ControlOK, HistoryOK, LevelShape,
       ActiveShape
  <1>3. SavedShape'
    BY DEF EnterGroup, Running, SavedShape, RestoredShape, StreamShape, Frozen,
       Mid, At, Sound, MidWrite, WritePC, OpenPC, GetOldPC, FilesOK, MemoryOK,
       ControlOK, HistoryOK, LevelShape, ActiveShape, OpenShape
  <1>4. MarkedShape'
    BY DEF EnterGroup, Running, MarkedShape, At, MidWrite, WritePC, OpenPC,
       GetOldPC, MemoryOK, ControlOK, HistoryOK, LevelShape, ActiveShape,
       Ending
  <1>5. PastShape'
    BY DEF EnterGroup, Running, PastShape, Past, StreamShape, SavedShape,
       Frozen, Mid, Sound, At, MidWrite, WritePC, OpenPC, GetOldPC, MemoryOK,
       ControlOK, HistoryOK, LevelShape, ActiveShape, Ending, MarkedShape
  <1>6. RestoredShape'
    BY DEF EnterGroup, Running, RestoredShape, PastRestore, Past, PastShape,
       StreamShape, SavedShape, MarkedShape, RolledShape, Rolled, Late, Frozen,
       Mid, Sound, At, Holds, MidWrite, WritePC, OpenPC, GetOldPC, FilesOK,
       MemoryOK, ControlOK, HistoryOK, LevelShape, ActiveShape, Ending
  <1> QED
    BY <1>1, <1>2, <1>3, <1>4, <1>5, <1>6

LEMMA ReadArticleSaved ==
  ASSUME IInv, SavedInv, NEW m \in Marks, ReadArticle(m)
  PROVE  SavedInv'
  <1>1. Frozen'
    BY DEF ReadArticle, Running, Frozen, Mid, MidWrite, WritePC, OpenPC,
       GetOldPC, MemoryOK, ControlOK, HistoryOK, LevelShape
  <1>2. StreamShape'
    BY DEF ReadArticle, Running, StreamShape, Frozen, Mid, At, MidWrite,
       WritePC, OpenPC, GetOldPC, MemoryOK, ControlOK, HistoryOK, LevelShape,
       ActiveShape
  <1>3. SavedShape'
    BY DEF ReadArticle, Running, SavedShape, RestoredShape, StreamShape,
       Frozen, Mid, At, Sound, MidWrite, WritePC, OpenPC, GetOldPC, FilesOK,
       MemoryOK, ControlOK, HistoryOK, LevelShape, ActiveShape, OpenShape
  <1>4. MarkedShape'
    BY DEF ReadArticle, Running, MarkedShape, At, MidWrite, WritePC, OpenPC,
       GetOldPC, MemoryOK, ControlOK, HistoryOK, LevelShape, ActiveShape,
       Ending
  <1>5. PastShape'
    BY DEF ReadArticle, Running, PastShape, Past, StreamShape, SavedShape,
       Frozen, Mid, Sound, At, MidWrite, WritePC, OpenPC, GetOldPC, MemoryOK,
       ControlOK, HistoryOK, LevelShape, ActiveShape, Ending, MarkedShape
  <1>6. RestoredShape'
    BY DEF ReadArticle, Running, RestoredShape, PastRestore, Past, PastShape,
       StreamShape, SavedShape, MarkedShape, RolledShape, Rolled, Late, Frozen,
       Mid, Sound, At, Holds, MidWrite, WritePC, OpenPC, GetOldPC, FilesOK,
       MemoryOK, ControlOK, HistoryOK, LevelShape, ActiveShape, Ending
  <1> QED
    BY <1>1, <1>2, <1>3, <1>4, <1>5, <1>6

LEMMA CheckpointSaved ==
  ASSUME IInv, SavedInv, Checkpoint
  PROVE  SavedInv'
  <1>1. Frozen'
    BY DEF Checkpoint, Running, BitsToRc, CallWrite, Frozen, Mid, MidWrite,
       WritePC, OpenPC, GetOldPC, MemoryOK, ControlOK, HistoryOK, LevelShape
  <1>2. StreamShape'
    BY DEF Checkpoint, Running, BitsToRc, CallWrite, StreamShape, Frozen, Mid,
       At, MidWrite, WritePC, OpenPC, GetOldPC, MemoryOK, ControlOK, HistoryOK,
       LevelShape, ActiveShape
  <1>3. SavedShape'
    BY DEF Checkpoint, Running, BitsToRc, CallWrite, SavedShape, RestoredShape,
       StreamShape, Frozen, Mid, At, Sound, MidWrite, WritePC, OpenPC,
       GetOldPC, FilesOK, MemoryOK, ControlOK, HistoryOK, LevelShape,
       ActiveShape, OpenShape
  <1>4. MarkedShape'
    BY DEF Checkpoint, Running, BitsToRc, CallWrite, MarkedShape, At, MidWrite,
       WritePC, OpenPC, GetOldPC, MemoryOK, ControlOK, HistoryOK, LevelShape,
       ActiveShape, Ending
  <1>5. PastShape'
    BY DEF Checkpoint, Running, BitsToRc, CallWrite, PastShape, Past,
       StreamShape, SavedShape, Frozen, Mid, Sound, At, MidWrite, WritePC,
       OpenPC, GetOldPC, MemoryOK, ControlOK, HistoryOK, LevelShape,
       ActiveShape, Ending, MarkedShape
  <1>6. RestoredShape'
    BY DEF Checkpoint, Running, BitsToRc, CallWrite, RestoredShape,
       PastRestore, Past, PastShape, StreamShape, SavedShape, MarkedShape,
       RolledShape, Rolled, Late, Frozen, Mid, Sound, At, Holds, MidWrite,
       WritePC, OpenPC, GetOldPC, FilesOK, MemoryOK, ControlOK, HistoryOK,
       LevelShape, ActiveShape, Ending
  <1> QED
    BY <1>1, <1>2, <1>3, <1>4, <1>5, <1>6

LEMMA LeaveGroupSaved ==
  ASSUME IInv, SavedInv, LeaveGroup
  PROVE  SavedInv'
  <1>1. Frozen'
    BY DEF LeaveGroup, Running, BitsToRc, CallWrite, Frozen, Mid, MidWrite,
       WritePC, OpenPC, GetOldPC, MemoryOK, ControlOK, HistoryOK, LevelShape
  <1>2. StreamShape'
    BY DEF LeaveGroup, Running, BitsToRc, CallWrite, StreamShape, Frozen, Mid,
       At, MidWrite, WritePC, OpenPC, GetOldPC, MemoryOK, ControlOK, HistoryOK,
       LevelShape, ActiveShape
  <1>3. SavedShape'
    BY DEF LeaveGroup, Running, BitsToRc, CallWrite, SavedShape, RestoredShape,
       StreamShape, Frozen, Mid, At, Sound, MidWrite, WritePC, OpenPC,
       GetOldPC, FilesOK, MemoryOK, ControlOK, HistoryOK, LevelShape,
       ActiveShape, OpenShape
  <1>4. MarkedShape'
    BY DEF LeaveGroup, Running, BitsToRc, CallWrite, MarkedShape, At, MidWrite,
       WritePC, OpenPC, GetOldPC, MemoryOK, ControlOK, HistoryOK, LevelShape,
       ActiveShape, Ending
  <1>5. PastShape'
    BY DEF LeaveGroup, Running, BitsToRc, CallWrite, PastShape, Past,
       StreamShape, SavedShape, Frozen, Mid, Sound, At, MidWrite, WritePC,
       OpenPC, GetOldPC, MemoryOK, ControlOK, HistoryOK, LevelShape,
       ActiveShape, Ending, MarkedShape
  <1>6. RestoredShape'
    BY DEF LeaveGroup, Running, BitsToRc, CallWrite, RestoredShape,
       PastRestore, Past, PastShape, StreamShape, SavedShape, MarkedShape,
       RolledShape, Rolled, Late, Frozen, Mid, Sound, At, Holds, MidWrite,
       WritePC, OpenPC, GetOldPC, FilesOK, MemoryOK, ControlOK, HistoryOK,
       LevelShape, ActiveShape, Ending
  <1> QED
    BY <1>1, <1>2, <1>3, <1>4, <1>5, <1>6

LEMMA EditLineSaved ==
  ASSUME IInv, SavedInv, NEW rc \in Rcs, NEW m \in Marks, EditLine(rc, m)
  PROVE  SavedInv'
  <1>1. Frozen'
    BY DEF EditLine, Running, Frozen, Mid, MidWrite, WritePC, OpenPC, GetOldPC,
       MemoryOK, ControlOK, HistoryOK, LevelShape
  <1>2. StreamShape'
    BY DEF EditLine, Running, StreamShape, Frozen, Mid, At, MidWrite, WritePC,
       OpenPC, GetOldPC, MemoryOK, ControlOK, HistoryOK, LevelShape,
       ActiveShape
  <1>3. SavedShape'
    BY DEF EditLine, Running, SavedShape, RestoredShape, StreamShape, Frozen,
       Mid, At, Sound, MidWrite, WritePC, OpenPC, GetOldPC, FilesOK, MemoryOK,
       ControlOK, HistoryOK, LevelShape, ActiveShape, OpenShape
  <1>4. MarkedShape'
    BY DEF EditLine, Running, MarkedShape, At, MidWrite, WritePC, OpenPC,
       GetOldPC, MemoryOK, ControlOK, HistoryOK, LevelShape, ActiveShape,
       Ending
  <1>5. PastShape'
    BY DEF EditLine, Running, PastShape, Past, StreamShape, SavedShape, Frozen,
       Mid, Sound, At, MidWrite, WritePC, OpenPC, GetOldPC, MemoryOK,
       ControlOK, HistoryOK, LevelShape, ActiveShape, Ending, MarkedShape
  <1>6. RestoredShape'
    BY DEF EditLine, Running, RestoredShape, PastRestore, Past, PastShape,
       StreamShape, SavedShape, MarkedShape, RolledShape, Rolled, Late, Frozen,
       Mid, Sound, At, Holds, MidWrite, WritePC, OpenPC, GetOldPC, FilesOK,
       MemoryOK, ControlOK, HistoryOK, LevelShape, ActiveShape, Ending
  <1> QED
    BY <1>1, <1>2, <1>3, <1>4, <1>5, <1>6

LEMMA CatchUpSaved ==
  ASSUME IInv, SavedInv, NEW rc \in Rcs, NEW m \in Marks, CatchUp(rc, m)
  PROVE  SavedInv'
  <1>1. Frozen'
    BY DEF CatchUp, Running, CallWrite, Frozen, Mid, MidWrite, WritePC, OpenPC,
       GetOldPC, MemoryOK, ControlOK, HistoryOK, LevelShape
  <1>2. StreamShape'
    BY DEF CatchUp, Running, CallWrite, StreamShape, Frozen, Mid, At, MidWrite,
       WritePC, OpenPC, GetOldPC, MemoryOK, ControlOK, HistoryOK, LevelShape,
       ActiveShape
  <1>3. SavedShape'
    BY DEF CatchUp, Running, CallWrite, SavedShape, RestoredShape, StreamShape,
       Frozen, Mid, At, Sound, MidWrite, WritePC, OpenPC, GetOldPC, FilesOK,
       MemoryOK, ControlOK, HistoryOK, LevelShape, ActiveShape, OpenShape
  <1>4. MarkedShape'
    BY DEF CatchUp, Running, CallWrite, MarkedShape, At, MidWrite, WritePC,
       OpenPC, GetOldPC, MemoryOK, ControlOK, HistoryOK, LevelShape,
       ActiveShape, Ending
  <1>5. PastShape'
    BY DEF CatchUp, Running, CallWrite, PastShape, Past, StreamShape,
       SavedShape, Frozen, Mid, Sound, At, MidWrite, WritePC, OpenPC, GetOldPC,
       MemoryOK, ControlOK, HistoryOK, LevelShape, ActiveShape, Ending,
       MarkedShape
  <1>6. RestoredShape'
    BY DEF CatchUp, Running, CallWrite, RestoredShape, PastRestore, Past,
       PastShape, StreamShape, SavedShape, MarkedShape, RolledShape, Rolled,
       Late, Frozen, Mid, Sound, At, Holds, MidWrite, WritePC, OpenPC,
       GetOldPC, FilesOK, MemoryOK, ControlOK, HistoryOK, LevelShape,
       ActiveShape, Ending
  <1> QED
    BY <1>1, <1>2, <1>3, <1>4, <1>5, <1>6

LEMMA QuitSaved ==
  ASSUME IInv, SavedInv, NEW abandon \in BOOLEAN, Quit(abandon)
  PROVE  SavedInv'
  <1>1. Frozen'
    BY DEF Quit, Running, CallWrite, Frozen, Mid, MidWrite, WritePC, OpenPC,
       GetOldPC, MemoryOK, ControlOK, HistoryOK, LevelShape
  <1>2. StreamShape'
    BY DEF Quit, Running, CallWrite, StreamShape, Frozen, Mid, At, MidWrite,
       WritePC, OpenPC, GetOldPC, MemoryOK, ControlOK, HistoryOK, LevelShape,
       ActiveShape
  <1>3. SavedShape'
    BY DEF Quit, Running, CallWrite, SavedShape, RestoredShape, StreamShape,
       Frozen, Mid, At, Sound, MidWrite, WritePC, OpenPC, GetOldPC, FilesOK,
       MemoryOK, ControlOK, HistoryOK, LevelShape, ActiveShape, OpenShape
  <1>4. MarkedShape'
    BY DEF Quit, Running, CallWrite, MarkedShape, At, MidWrite, WritePC,
       OpenPC, GetOldPC, MemoryOK, ControlOK, HistoryOK, LevelShape,
       ActiveShape, Ending
  <1>5. PastShape'
    BY DEF Quit, Running, CallWrite, PastShape, Past, StreamShape, SavedShape,
       Frozen, Mid, Sound, At, MidWrite, WritePC, OpenPC, GetOldPC, MemoryOK,
       ControlOK, HistoryOK, LevelShape, ActiveShape, Ending, MarkedShape
  <1>6. RestoredShape'
    BY DEF Quit, Running, CallWrite, RestoredShape, PastRestore, Past,
       PastShape, StreamShape, SavedShape, MarkedShape, RolledShape, Rolled,
       Late, Frozen, Mid, Sound, At, Holds, MidWrite, WritePC, OpenPC,
       GetOldPC, FilesOK, MemoryOK, ControlOK, HistoryOK, LevelShape,
       ActiveShape, Ending
  <1> QED
    BY <1>1, <1>2, <1>3, <1>4, <1>5, <1>6

LEMMA BugOutSaved ==
  ASSUME IInv, SavedInv, BugOut
  PROVE  SavedInv'
  <1>1. Frozen'
    BY DEF BugOut, CallWrite, Frozen, Mid, MidWrite, WritePC, OpenPC, GetOldPC,
       MemoryOK, ControlOK, HistoryOK, LevelShape
  <1>2. StreamShape'
    BY DEF BugOut, CallWrite, StreamShape, Frozen, Mid, At, MidWrite, WritePC,
       OpenPC, GetOldPC, MemoryOK, ControlOK, HistoryOK, LevelShape,
       ActiveShape
  <1>3. SavedShape'
    BY DEF BugOut, CallWrite, SavedShape, RestoredShape, StreamShape, Frozen,
       Mid, At, Sound, MidWrite, WritePC, OpenPC, GetOldPC, FilesOK, MemoryOK,
       ControlOK, HistoryOK, LevelShape, ActiveShape, OpenShape
  <1>4. MarkedShape'
    BY DEF BugOut, CallWrite, MarkedShape, At, MidWrite, WritePC, OpenPC,
       GetOldPC, MemoryOK, ControlOK, HistoryOK, LevelShape, ActiveShape,
       Ending
  <1>5. PastShape'
    BY DEF BugOut, CallWrite, PastShape, Past, StreamShape, SavedShape, Frozen,
       Mid, Sound, At, MidWrite, WritePC, OpenPC, GetOldPC, MemoryOK,
       ControlOK, HistoryOK, LevelShape, ActiveShape, Ending, MarkedShape
  <1>6. RestoredShape'
    BY DEF BugOut, CallWrite, RestoredShape, PastRestore, Past, PastShape,
       StreamShape, SavedShape, MarkedShape, RolledShape, Rolled, Late, Frozen,
       Mid, Sound, At, Holds, MidWrite, WritePC, OpenPC, GetOldPC, FilesOK,
       MemoryOK, ControlOK, HistoryOK, LevelShape, ActiveShape, Ending
  <1> QED
    BY <1>1, <1>2, <1>3, <1>4, <1>5, <1>6

LEMMA GetOldRemoveSaved ==
  ASSUME IInv, SavedInv, NEW rc \in Rcs, GetOldRemove(rc)
  PROVE  SavedInv'
  <1>1. Frozen'
    BY DEF GetOldRemove, Opening, Frozen, Mid, MidWrite, WritePC, OpenPC,
       GetOldPC, MemoryOK, ControlOK, HistoryOK, LevelShape
  <1>2. StreamShape'
    BY DEF GetOldRemove, Opening, StreamShape, Frozen, Mid, At, MidWrite,
       WritePC, OpenPC, GetOldPC, MemoryOK, ControlOK, HistoryOK, LevelShape,
       ActiveShape
  <1>3. SavedShape'
    BY DEF GetOldRemove, Opening, SavedShape, RestoredShape, StreamShape,
       Frozen, Mid, At, Sound, MidWrite, WritePC, OpenPC, GetOldPC, FilesOK,
       MemoryOK, ControlOK, HistoryOK, LevelShape, ActiveShape, OpenShape
  <1>4. MarkedShape'
    BY DEF GetOldRemove, Opening, MarkedShape, At, MidWrite, WritePC, OpenPC,
       GetOldPC, MemoryOK, ControlOK, HistoryOK, LevelShape, ActiveShape,
       Ending
  <1>5. PastShape'
    BY DEF GetOldRemove, Opening, PastShape, Past, StreamShape, SavedShape,
       Frozen, Mid, Sound, At, MidWrite, WritePC, OpenPC, GetOldPC, MemoryOK,
       ControlOK, HistoryOK, LevelShape, ActiveShape, Ending, MarkedShape
  <1>6. RestoredShape'
    <2>1. pc["main"] = "goRemove" /\ idx["main"] = rc /\ (~restored[rc] \/ ~active[rc])
      BY DEF GetOldRemove, Opening, RestoredShape, PastRestore, At, WritePC
    <2> SUFFICES ASSUME NEW r \in Rcs, active[r]
                 PROVE  (/\ restored[r] => PastRestore(r)
                         /\ pc["main"] \in GetOldPC => multirc
                         /\ At("main", {"goRestore", "goClear"}, r) => restored[r]
                         /\ restore /\ PastRestore(r) => restored[r]
                         /\ restored[r] /\ backed[r] /\ ~interrupted[r] =>
                              /\ \A l \in Level : ~At(l, MidWrite, r)
                              /\ \/ At("main", {"goRestore"}, r)
                                 \/ /\ rcFile[r] = base[r]
                                    /\ changed[r] => At("main", {"goClear"}, r)
                              /\ ~failed[r] => Holds(newFile[r], marked[r]))'
      BY DEF GetOldRemove, RestoredShape
    <2>2. CASE active[rc]
      BY <2>1, <2>2 DEF GetOldRemove, Opening, RestoredShape, PastRestore, At,
         Holds, MidWrite, WritePC, GetOldPC, FilesOK, ControlOK
    <2>3. CASE ~active[rc]
      BY <2>3 DEF GetOldRemove, Opening, RestoredShape, PastRestore, At, Holds,
         MidWrite, WritePC, GetOldPC, ControlOK
    <2> QED
      BY <2>2, <2>3
  <1> QED
    BY <1>1, <1>2, <1>3, <1>4, <1>5, <1>6

LEMMA GetOldSaveSaved ==
  ASSUME IInv, SavedInv, NEW rc \in Rcs, GetOldSave(rc)
  PROVE  SavedInv'
  <1>1. Frozen'
    BY DEF GetOldSave, Opening, Frozen, Mid, MidWrite, WritePC, OpenPC,
       GetOldPC, MemoryOK, ControlOK, HistoryOK, LevelShape
  <1>2. StreamShape'
    BY DEF GetOldSave, Opening, StreamShape, Frozen, Mid, At, MidWrite,
       WritePC, OpenPC, GetOldPC, MemoryOK, ControlOK, HistoryOK, LevelShape,
       ActiveShape
  <1>3. SavedShape'
    BY DEF GetOldSave, Opening, SavedShape, RestoredShape, StreamShape, Frozen,
       Mid, At, Sound, MidWrite, WritePC, OpenPC, GetOldPC, FilesOK, MemoryOK,
       ControlOK, HistoryOK, LevelShape, ActiveShape, OpenShape
  <1>4. MarkedShape'
    BY DEF GetOldSave, Opening, MarkedShape, At, MidWrite, WritePC, OpenPC,
       GetOldPC, MemoryOK, ControlOK, HistoryOK, LevelShape, ActiveShape,
       Ending
  <1>5. PastShape'
    BY DEF GetOldSave, Opening, PastShape, Past, StreamShape, SavedShape,
       Frozen, Mid, Sound, At, MidWrite, WritePC, OpenPC, GetOldPC, MemoryOK,
       ControlOK, HistoryOK, LevelShape, ActiveShape, Ending, MarkedShape
  <1>6. RestoredShape'
    <2>1. /\ pc["main"] = "goSave" /\ idx["main"] = rc /\ active[rc] /\ ~restored[rc]
          /\ pc["stop"] = "idle" /\ pc["fatal"] = "idle" /\ pc["late"] = "idle" /\ multirc
      BY DEF GetOldSave, Opening, ActiveShape, RestoredShape, PastRestore, At,
         WritePC, GetOldPC
    <2>2. ~failed[rc] /\ ~interrupted[rc] => Holds(rcFile[rc], marked[rc])
      <3>1. ~failed[rc] /\ ~interrupted[rc] => ~changed[rc]
        BY <2>1 DEF PastShape, Past, GetOldPC
      <3>2. ~interrupted[rc] /\ ~changed[rc] => rcFile[rc] = lines[rc]
        BY <2>1 DEF SavedShape, Sound, At
      <3>3. marked[rc] \subseteq lines[rc] /\ lines[rc] # NoFile
        BY <2>1 DEF MarkedShape, LevelShape, Ending, GetOldPC, MemoryOK
      <3> QED
        BY <3>1, <3>2, <3>3 DEF Holds
    <2> SUFFICES ASSUME NEW r \in Rcs, active[r]
                 PROVE  (/\ restored[r] => PastRestore(r)
                         /\ pc["main"] \in GetOldPC => multirc
                         /\ At("main", {"goRestore", "goClear"}, r) => restored[r]
                         /\ restore /\ PastRestore(r) => restored[r]
                         /\ restored[r] /\ backed[r] /\ ~interrupted[r] =>
                              /\ \A l \in Level : ~At(l, MidWrite, r)
                              /\ \/ At("main", {"goRestore"}, r)
                                 \/ /\ rcFile[r] = base[r]
                                    /\ changed[r] => At("main", {"goClear"}, r)
                              /\ ~failed[r] => Holds(newFile[r], marked[r]))'
      BY DEF GetOldSave, RestoredShape
    <2>3. /\ pc' = [pc EXCEPT !["main"] = "goRestore"]
          /\ restored' = [restored EXCEPT ![rc] = TRUE]
          /\ UNCHANGED <<memory, idx, cont, base, backed, marked, failed, interrupted>>
      BY DEF GetOldSave
    <2>4. CASE r = rc
      <3>1. At("main", {"goRestore"}, r)' /\ PastRestore(r)' /\ restored'[r]
        BY <2>1, <2>3, <2>4 DEF PastRestore, At, ControlOK, HistoryOK
      <3>2. \A l \in Level : ~At(l, MidWrite, r)'
        BY <2>1, <2>3 DEF At, MidWrite, WritePC, ControlOK
      <3>3. ~failed[r] /\ ~interrupted[r] => newFile'[r] = rcFile[r]
        BY <2>2, <2>4 DEF GetOldSave, Holds, FilesOK
      <3> QED
        BY <2>1, <2>2, <2>3, <2>4, <3>1, <3>2, <3>3 DEF Holds
    <2>5. CASE r # rc
      BY <2>1, <2>3, <2>5 DEF GetOldSave, RestoredShape, PastRestore, At, Holds,
         MidWrite, WritePC, GetOldPC, FilesOK, ControlOK, HistoryOK
    <2> QED
      BY <2>4, <2>5
  <1> QED
    BY <1>1, <1>2, <1>3, <1>4, <1>5, <1>6

LEMMA GetOldRestoreSaved ==
  ASSUME IInv, SavedInv, NEW rc \in Rcs, GetOldRestore(rc)
  PROVE  SavedInv'
  <1>1. Frozen'
    BY DEF GetOldRestore, Opening, Frozen, Mid, MidWrite, WritePC, OpenPC,
       GetOldPC, MemoryOK, ControlOK, HistoryOK, LevelShape
  <1>2. StreamShape'
    BY DEF GetOldRestore, Opening, StreamShape, Frozen, Mid, At, MidWrite,
       WritePC, OpenPC, GetOldPC, MemoryOK, ControlOK, HistoryOK, LevelShape,
       ActiveShape
  <1>3. SavedShape'
    BY DEF GetOldRestore, Opening, SavedShape, RestoredShape, StreamShape,
       Frozen, Mid, At, Sound, MidWrite, WritePC, OpenPC, GetOldPC, FilesOK,
       MemoryOK, ControlOK, HistoryOK, LevelShape, ActiveShape, OpenShape
  <1>4. MarkedShape'
    BY DEF GetOldRestore, Opening, MarkedShape, At, MidWrite, WritePC, OpenPC,
       GetOldPC, MemoryOK, ControlOK, HistoryOK, LevelShape, ActiveShape,
       Ending
  <1>5. PastShape'
    BY DEF GetOldRestore, Opening, PastShape, Past, StreamShape, SavedShape,
       Frozen, Mid, Sound, At, MidWrite, WritePC, OpenPC, GetOldPC, MemoryOK,
       ControlOK, HistoryOK, LevelShape, ActiveShape, Ending, MarkedShape
  <1>6. RestoredShape'
    <2>1. active[rc] /\ restored[rc] /\ idx["main"] = rc /\ pc["main"] = "goRestore"
      BY DEF GetOldRestore, Opening, ActiveShape, RestoredShape, At
    <2>2. backed[rc] /\ ~interrupted[rc] => oldFile[rc] = base[rc] /\ oldFile[rc] # NoFile
      <3>1. ~Late(rc)
        BY <2>1 DEF Late, ControlOK, MidWrite, WritePC, OpenPC, GetOldPC
      <3> QED
        BY <2>1, <3>1 DEF RolledShape, Rolled, HandlerStreams, HistoryOK
    <2>3. pc["stop"] = "idle" /\ pc["fatal"] = "idle" /\ pc["late"] = "idle"
      BY DEF GetOldRestore, Opening, ControlOK
    <2> SUFFICES ASSUME NEW r \in Rcs, active[r]
                 PROVE  (/\ restored[r] => PastRestore(r)
                         /\ pc["main"] \in GetOldPC => multirc
                         /\ At("main", {"goRestore", "goClear"}, r) => restored[r]
                         /\ restore /\ PastRestore(r) => restored[r]
                         /\ restored[r] /\ backed[r] /\ ~interrupted[r] =>
                              /\ \A l \in Level : ~At(l, MidWrite, r)
                              /\ \/ At("main", {"goRestore"}, r)
                                 \/ /\ rcFile[r] = base[r]
                                    /\ changed[r] => At("main", {"goClear"}, r)
                              /\ ~failed[r] => Holds(newFile[r], marked[r]))'
      BY DEF GetOldRestore, RestoredShape
    <2>4. CASE oldFile[rc] = NoFile
      <3>1. /\ pc' = [pc EXCEPT !["main"] = "goRemove"]
            /\ idx' = [idx EXCEPT !["main"] = rc + 1]
            /\ UNCHANGED <<files, memory, cont, history>>
        BY <2>1, <2>4 DEF GetOldRestore
      <3>2. CASE r = rc
        BY <2>1, <2>2, <2>4, <3>1, <3>2 DEF RestoredShape, PastRestore, At,
           GetOldPC, ControlOK
      <3>3. CASE r # rc
        BY <2>1, <2>3, <3>1, <3>3 DEF RestoredShape, PastRestore, At, Holds,
           MidWrite, WritePC, OpenPC, GetOldPC, ControlOK
      <3> QED
        BY <3>2, <3>3
    <2>5. CASE oldFile[rc] # NoFile
      <3>1. /\ pc' = [pc EXCEPT !["main"] = "goClear"]
            /\ rcFile' = [rcFile EXCEPT ![rc] = oldFile[rc]]
            /\ UNCHANGED <<newFile, memory, idx, cont, history>>
        BY <2>5 DEF GetOldRestore
      <3>2. CASE r = rc
        <4>1. At("main", {"goClear"}, r)' /\ PastRestore(r)'
          BY <2>1, <3>1, <3>2 DEF PastRestore, At, ControlOK
        <4>2. \A l \in Level : ~At(l, MidWrite, r)'
          BY <2>3, <3>1 DEF At, MidWrite, WritePC, ControlOK
        <4>3. backed[r] /\ ~interrupted[r] => rcFile'[r] = base[r]
          BY <2>2, <3>1, <3>2 DEF FilesOK
        <4>4. ~At("main", {"goRestore"}, r)' /\ restore' = restore
          BY <3>1 DEF At, ControlOK
        <4>5. restored[r]' /\ multirc'
          BY <2>1, <3>1, <3>2 DEF RestoredShape, GetOldPC
        <4>6. ~failed[r] /\ backed[r] /\ ~interrupted[r] => Holds(newFile[r], marked[r])
          BY <2>1, <3>2 DEF RestoredShape
        <4> QED
          BY <3>1, <4>1, <4>2, <4>3, <4>4, <4>5, <4>6 DEF Holds
      <3>3. CASE r # rc
        BY <2>1, <2>3, <3>1, <3>3 DEF RestoredShape, PastRestore, At, Holds,
           MidWrite, WritePC, OpenPC, GetOldPC, FilesOK, ControlOK
      <3> QED
        BY <3>2, <3>3
    <2> QED
      BY <2>4, <2>5
  <1> QED
    BY <1>1, <1>2, <1>3, <1>4, <1>5, <1>6

LEMMA GetOldClearSaved ==
  ASSUME IInv, SavedInv, NEW rc \in Rcs, GetOldClear(rc)
  PROVE  SavedInv'
  <1>1. Frozen'
    BY DEF GetOldClear, Opening, Frozen, Mid, MidWrite, WritePC, OpenPC,
       GetOldPC, MemoryOK, ControlOK, HistoryOK, LevelShape
  <1>2. StreamShape'
    BY DEF GetOldClear, Opening, StreamShape, Frozen, Mid, At, MidWrite,
       WritePC, OpenPC, GetOldPC, MemoryOK, ControlOK, HistoryOK, LevelShape,
       ActiveShape
  <1>3. SavedShape'
    BY DEF GetOldClear, Opening, SavedShape, RestoredShape, StreamShape,
       Frozen, Mid, At, Sound, MidWrite, WritePC, OpenPC, GetOldPC, FilesOK,
       MemoryOK, ControlOK, HistoryOK, LevelShape, ActiveShape, OpenShape
  <1>4. MarkedShape'
    BY DEF GetOldClear, Opening, MarkedShape, At, MidWrite, WritePC, OpenPC,
       GetOldPC, MemoryOK, ControlOK, HistoryOK, LevelShape, ActiveShape,
       Ending
  <1>5. PastShape'
    BY DEF GetOldClear, Opening, PastShape, Past, StreamShape, SavedShape,
       Frozen, Mid, Sound, At, MidWrite, WritePC, OpenPC, GetOldPC, MemoryOK,
       ControlOK, HistoryOK, LevelShape, ActiveShape, Ending, MarkedShape
  <1>6. RestoredShape'
    BY DEF GetOldClear, Opening, RestoredShape, PastRestore, Past, PastShape,
       StreamShape, SavedShape, MarkedShape, RolledShape, Rolled, Late, Frozen,
       Mid, Sound, At, Holds, MidWrite, WritePC, OpenPC, GetOldPC, FilesOK,
       MemoryOK, ControlOK, HistoryOK, LevelShape, ActiveShape, Ending
  <1> QED
    BY <1>1, <1>2, <1>3, <1>4, <1>5, <1>6

LEMMA GetOldDoneSaved ==
  ASSUME IInv, SavedInv, GetOldDone
  PROVE  SavedInv'
  <1>1. Frozen'
    BY DEF GetOldDone, CallWrite, Frozen, Mid, MidWrite, WritePC, OpenPC,
       GetOldPC, MemoryOK, ControlOK, HistoryOK, LevelShape
  <1>2. StreamShape'
    BY DEF GetOldDone, CallWrite, StreamShape, Frozen, Mid, At, MidWrite,
       WritePC, OpenPC, GetOldPC, MemoryOK, ControlOK, HistoryOK, LevelShape,
       ActiveShape
  <1>3. SavedShape'
    BY DEF GetOldDone, CallWrite, SavedShape, RestoredShape, StreamShape,
       Frozen, Mid, At, Sound, MidWrite, WritePC, OpenPC, GetOldPC, FilesOK,
       MemoryOK, ControlOK, HistoryOK, LevelShape, ActiveShape, OpenShape
  <1>4. MarkedShape'
    BY DEF GetOldDone, CallWrite, MarkedShape, At, MidWrite, WritePC, OpenPC,
       GetOldPC, MemoryOK, ControlOK, HistoryOK, LevelShape, ActiveShape,
       Ending
  <1>5. PastShape'
    BY DEF GetOldDone, CallWrite, PastShape, Past, StreamShape, SavedShape,
       Frozen, Mid, Sound, At, MidWrite, WritePC, OpenPC, GetOldPC, MemoryOK,
       ControlOK, HistoryOK, LevelShape, ActiveShape, Ending, MarkedShape
  <1>6. RestoredShape'
    BY DEF GetOldDone, CallWrite, RestoredShape, PastRestore, Past, PastShape,
       StreamShape, SavedShape, MarkedShape, RolledShape, Rolled, Late, Frozen,
       Mid, Sound, At, Holds, MidWrite, WritePC, OpenPC, GetOldPC, FilesOK,
       MemoryOK, ControlOK, HistoryOK, LevelShape, ActiveShape, Ending
  <1> QED
    BY <1>1, <1>2, <1>3, <1>4, <1>5, <1>6

LEMMA StopSignalSaved ==
  ASSUME IInv, SavedInv, StopSignal
  PROVE  SavedInv'
  <1>1. Frozen'
    BY DEF StopSignal, StopCatcher, NoteInterrupt, Busy, BitsToRc, CallWrite,
       Frozen, Mid, MidWrite, WritePC, OpenPC, GetOldPC, MemoryOK, ControlOK,
       HistoryOK, LevelShape
  <1>2. StreamShape'
    BY DEF StopSignal, StopCatcher, NoteInterrupt, Busy, BitsToRc, CallWrite,
       StreamShape, Frozen, Mid, At, MidWrite, WritePC, OpenPC, GetOldPC,
       MemoryOK, ControlOK, HistoryOK, LevelShape, ActiveShape
  <1>3. SavedShape'
    BY DEF StopSignal, StopCatcher, NoteInterrupt, Busy, BitsToRc, CallWrite,
       SavedShape, RestoredShape, StreamShape, Frozen, Mid, At, Sound,
       MidWrite, WritePC, OpenPC, GetOldPC, FilesOK, MemoryOK, ControlOK,
       HistoryOK, LevelShape, ActiveShape, OpenShape
  <1>4. MarkedShape'
    BY DEF StopSignal, StopCatcher, NoteInterrupt, Busy, BitsToRc, CallWrite,
       MarkedShape, At, MidWrite, WritePC, OpenPC, GetOldPC, MemoryOK,
       ControlOK, HistoryOK, LevelShape, ActiveShape, Ending
  <1>5. PastShape'
    <2>1. /\ pc' = [pc EXCEPT !["stop"] = IF multirc THEN "next" ELSE "stopped"]
          /\ idx' = IF multirc THEN [idx EXCEPT !["stop"] = 1] ELSE idx
          /\ cont' = IF multirc THEN [cont EXCEPT !["stop"] = "stopped"] ELSE cont
          /\ UNCHANGED <<multirc, active, failed>>
      BY DEF StopSignal, StopCatcher, CallWrite, MemoryOK
    <2>2. \A l \in Level, rc \in Rcs : Past(l, rc)' => Past(l, rc)
      <3>1. \A rc \in Rcs : ~Past("stop", rc)'
        BY <2>1 DEF Past, ControlOK, WritePC, GetOldPC
      <3>2. \A l \in Level \ {"stop"}, rc \in Rcs : Past(l, rc)' => Past(l, rc)
        BY <2>1 DEF Past, ControlOK
      <3> QED
        BY <3>1, <3>2
    <2>3. ASSUME ng # 0, multirc, NEW l \in Level, NEW rc \in Rcs PROVE ~Past(l, rc)
      BY <2>3 DEF StopSignal, MarkedShape, Past, LevelShape, Ending, ControlOK,
         PC, WritePC, OpenPC, GetOldPC
    <2>4. ng = 0 => changed' = changed
      BY DEF StopSignal, StopCatcher, BitsToRc
    <2>5. \A rc \in Rcs : interrupted[rc] => interrupted'[rc]
      BY DEF StopSignal, StopCatcher, NoteInterrupt
    <2> QED
      BY <2>1, <2>2, <2>3, <2>4, <2>5 DEF PastShape
  <1>6. RestoredShape'
    BY DEF StopSignal, StopCatcher, NoteInterrupt, Busy, BitsToRc, CallWrite,
       RestoredShape, PastRestore, Past, PastShape, StreamShape, SavedShape,
       MarkedShape, RolledShape, Rolled, Late, Frozen, Mid, Sound, At, Holds,
       MidWrite, WritePC, OpenPC, GetOldPC, FilesOK, MemoryOK, ControlOK,
       HistoryOK, LevelShape, ActiveShape, Ending
  <1> QED
    BY <1>1, <1>2, <1>3, <1>4, <1>5, <1>6

LEMMA StopInFatalSaved ==
  ASSUME IInv, SavedInv, StopInFatal
  PROVE  SavedInv'
  <1>1. Frozen'
    BY DEF StopInFatal, StopCatcher, NoteInterrupt, Busy, BitsToRc, CallWrite,
       Frozen, Mid, MidWrite, WritePC, OpenPC, GetOldPC, MemoryOK, ControlOK,
       HistoryOK, LevelShape
  <1>2. StreamShape'
    BY DEF StopInFatal, StopCatcher, NoteInterrupt, Busy, BitsToRc, CallWrite,
       StreamShape, Frozen, Mid, At, MidWrite, WritePC, OpenPC, GetOldPC,
       MemoryOK, ControlOK, HistoryOK, LevelShape, ActiveShape
  <1>3. SavedShape'
    BY DEF StopInFatal, StopCatcher, NoteInterrupt, Busy, BitsToRc, CallWrite,
       SavedShape, RestoredShape, StreamShape, Frozen, Mid, At, Sound,
       MidWrite, WritePC, OpenPC, GetOldPC, FilesOK, MemoryOK, ControlOK,
       HistoryOK, LevelShape, ActiveShape, OpenShape
  <1>4. MarkedShape'
    BY DEF StopInFatal, StopCatcher, NoteInterrupt, Busy, BitsToRc, CallWrite,
       MarkedShape, At, MidWrite, WritePC, OpenPC, GetOldPC, MemoryOK,
       ControlOK, HistoryOK, LevelShape, ActiveShape, Ending
  <1>5. PastShape'
    <2>1. /\ pc' = [pc EXCEPT !["late"] = IF multirc THEN "next" ELSE "stopped"]
          /\ idx' = IF multirc THEN [idx EXCEPT !["late"] = 1] ELSE idx
          /\ cont' = IF multirc THEN [cont EXCEPT !["late"] = "stopped"] ELSE cont
          /\ UNCHANGED <<multirc, active, failed>>
      BY DEF StopInFatal, StopCatcher, CallWrite, MemoryOK
    <2>2. \A l \in Level, rc \in Rcs : Past(l, rc)' => Past(l, rc)
      <3>1. \A rc \in Rcs : ~Past("late", rc)'
        BY <2>1 DEF Past, ControlOK, WritePC, GetOldPC
      <3>2. \A l \in Level \ {"late"}, rc \in Rcs : Past(l, rc)' => Past(l, rc)
        BY <2>1 DEF Past, ControlOK
      <3> QED
        BY <3>1, <3>2
    <2>3. ASSUME ng # 0, multirc, NEW l \in Level, NEW rc \in Rcs PROVE ~Past(l, rc)
      BY <2>3 DEF StopInFatal, MarkedShape, Past, LevelShape, Ending,
         ControlOK, PC, WritePC, OpenPC, GetOldPC
    <2>4. ng = 0 => changed' = changed
      BY DEF StopInFatal, StopCatcher, BitsToRc
    <2>5. \A rc \in Rcs : interrupted[rc] => interrupted'[rc]
      BY DEF StopInFatal, StopCatcher, NoteInterrupt
    <2> QED
      BY <2>1, <2>2, <2>3, <2>4, <2>5 DEF PastShape
  <1>6. RestoredShape'
    BY DEF StopInFatal, StopCatcher, NoteInterrupt, Busy, BitsToRc, CallWrite,
       RestoredShape, PastRestore, Past, PastShape, StreamShape, SavedShape,
       MarkedShape, RolledShape, Rolled, Late, Frozen, Mid, Sound, At, Holds,
       MidWrite, WritePC, OpenPC, GetOldPC, FilesOK, MemoryOK, ControlOK,
       HistoryOK, LevelShape, ActiveShape, Ending
  <1> QED
    BY <1>1, <1>2, <1>3, <1>4, <1>5, <1>6

LEMMA ContinueSaved ==
  ASSUME IInv, SavedInv, NEW l \in {"stop", "late"}, Continue(l)
  PROVE  SavedInv'
  <1>1. Frozen'
    BY DEF Continue, Frozen, Mid, MidWrite, WritePC, OpenPC, GetOldPC,
       MemoryOK, ControlOK, HistoryOK, LevelShape
  <1>2. StreamShape'
    BY DEF Continue, StreamShape, Frozen, Mid, At, MidWrite, WritePC, OpenPC,
       GetOldPC, MemoryOK, ControlOK, HistoryOK, LevelShape, ActiveShape
  <1>3. SavedShape'
    BY DEF Continue, SavedShape, RestoredShape, StreamShape, Frozen, Mid, At,
       Sound, MidWrite, WritePC, OpenPC, GetOldPC, FilesOK, MemoryOK,
       ControlOK, HistoryOK, LevelShape, ActiveShape, OpenShape
  <1>4. MarkedShape'
    BY DEF Continue, MarkedShape, At, MidWrite, WritePC, OpenPC, GetOldPC,
       MemoryOK, ControlOK, HistoryOK, LevelShape, ActiveShape, Ending
  <1>5. PastShape'
    BY DEF Continue, PastShape, Past, StreamShape, SavedShape, Frozen, Mid,
       Sound, At, MidWrite, WritePC, OpenPC, GetOldPC, MemoryOK, ControlOK,
       HistoryOK, LevelShape, ActiveShape, Ending, MarkedShape
  <1>6. RestoredShape'
    BY DEF Continue, RestoredShape, PastRestore, Past, PastShape, StreamShape,
       SavedShape, MarkedShape, RolledShape, Rolled, Late, Frozen, Mid, Sound,
       At, Holds, MidWrite, WritePC, OpenPC, GetOldPC, FilesOK, MemoryOK,
       ControlOK, HistoryOK, LevelShape, ActiveShape, Ending
  <1> QED
    BY <1>1, <1>2, <1>3, <1>4, <1>5, <1>6

LEMMA FatalSignalSaved ==
  ASSUME IInv, SavedInv, FatalSignal
  PROVE  SavedInv'
  <1>1. Frozen'
    BY DEF FatalSignal, NoteInterrupt, Busy, BitsToRc, CallWrite, Frozen, Mid,
       MidWrite, WritePC, OpenPC, GetOldPC, MemoryOK, ControlOK, HistoryOK,
       LevelShape
  <1>2. StreamShape'
    BY DEF FatalSignal, NoteInterrupt, Busy, BitsToRc, CallWrite, StreamShape,
       Frozen, Mid, At, MidWrite, WritePC, OpenPC, GetOldPC, MemoryOK,
       ControlOK, HistoryOK, LevelShape, ActiveShape
  <1>3. SavedShape'
    BY DEF FatalSignal, NoteInterrupt, Busy, BitsToRc, CallWrite, SavedShape,
       RestoredShape, StreamShape, Frozen, Mid, At, Sound, MidWrite, WritePC,
       OpenPC, GetOldPC, FilesOK, MemoryOK, ControlOK, HistoryOK, LevelShape,
       ActiveShape, OpenShape
  <1>4. MarkedShape'
    BY DEF FatalSignal, NoteInterrupt, Busy, BitsToRc, CallWrite, MarkedShape,
       At, MidWrite, WritePC, OpenPC, GetOldPC, MemoryOK, ControlOK, HistoryOK,
       LevelShape, ActiveShape, Ending
  <1>5. PastShape'
    BY DEF FatalSignal, NoteInterrupt, Busy, BitsToRc, CallWrite, PastShape,
       Past, StreamShape, SavedShape, Frozen, Mid, Sound, At, MidWrite,
       WritePC, OpenPC, GetOldPC, MemoryOK, ControlOK, HistoryOK, LevelShape,
       ActiveShape, Ending, MarkedShape
  <1>6. RestoredShape'
    BY DEF FatalSignal, NoteInterrupt, Busy, BitsToRc, CallWrite,
       RestoredShape, PastRestore, Past, PastShape, StreamShape, SavedShape,
       MarkedShape, RolledShape, Rolled, Late, Frozen, Mid, Sound, At, Holds,
       MidWrite, WritePC, OpenPC, GetOldPC, FilesOK, MemoryOK, ControlOK,
       HistoryOK, LevelShape, ActiveShape, Ending
  <1> QED
    BY <1>1, <1>2, <1>3, <1>4, <1>5, <1>6

LEMMA FatalFinalizeSaved ==
  ASSUME IInv, SavedInv, FatalFinalize
  PROVE  SavedInv'
  <1>1. Frozen'
    BY DEF FatalFinalize, CallWrite, Frozen, Mid, MidWrite, WritePC, OpenPC,
       GetOldPC, MemoryOK, ControlOK, HistoryOK, LevelShape
  <1>2. StreamShape'
    BY DEF FatalFinalize, CallWrite, StreamShape, Frozen, Mid, At, MidWrite,
       WritePC, OpenPC, GetOldPC, MemoryOK, ControlOK, HistoryOK, LevelShape,
       ActiveShape
  <1>3. SavedShape'
    BY DEF FatalFinalize, CallWrite, SavedShape, RestoredShape, StreamShape,
       Frozen, Mid, At, Sound, MidWrite, WritePC, OpenPC, GetOldPC, FilesOK,
       MemoryOK, ControlOK, HistoryOK, LevelShape, ActiveShape, OpenShape
  <1>4. MarkedShape'
    BY DEF FatalFinalize, CallWrite, MarkedShape, At, MidWrite, WritePC,
       OpenPC, GetOldPC, MemoryOK, ControlOK, HistoryOK, LevelShape,
       ActiveShape, Ending
  <1>5. PastShape'
    BY DEF FatalFinalize, CallWrite, PastShape, Past, StreamShape, SavedShape,
       Frozen, Mid, Sound, At, MidWrite, WritePC, OpenPC, GetOldPC, MemoryOK,
       ControlOK, HistoryOK, LevelShape, ActiveShape, Ending, MarkedShape
  <1>6. RestoredShape'
    BY DEF FatalFinalize, CallWrite, RestoredShape, PastRestore, Past,
       PastShape, StreamShape, SavedShape, MarkedShape, RolledShape, Rolled,
       Late, Frozen, Mid, Sound, At, Holds, MidWrite, WritePC, OpenPC,
       GetOldPC, FilesOK, MemoryOK, ControlOK, HistoryOK, LevelShape,
       ActiveShape, Ending
  <1> QED
    BY <1>1, <1>2, <1>3, <1>4, <1>5, <1>6

LEMMA ExitSaved ==
  ASSUME IInv, SavedInv, Exit
  PROVE  SavedInv'
  <1>1. Frozen'
    BY DEF Exit, ProcessEnds, Frozen, Mid, MidWrite, WritePC, OpenPC, GetOldPC,
       MemoryOK, ControlOK, HistoryOK, LevelShape
  <1>2. StreamShape'
    BY DEF Exit, ProcessEnds, StreamShape, Frozen, Mid, At, MidWrite, WritePC,
       OpenPC, GetOldPC, MemoryOK, ControlOK, HistoryOK, LevelShape,
       ActiveShape
  <1>3. SavedShape'
    BY DEF Exit, ProcessEnds, SavedShape, RestoredShape, StreamShape, Frozen,
       Mid, At, Sound, MidWrite, WritePC, OpenPC, GetOldPC, FilesOK, MemoryOK,
       ControlOK, HistoryOK, LevelShape, ActiveShape, OpenShape
  <1>4. MarkedShape'
    BY DEF Exit, ProcessEnds, MarkedShape, At, MidWrite, WritePC, OpenPC,
       GetOldPC, MemoryOK, ControlOK, HistoryOK, LevelShape, ActiveShape,
       Ending
  <1>5. PastShape'
    BY DEF Exit, ProcessEnds, PastShape, Past, StreamShape, SavedShape, Frozen,
       Mid, Sound, At, MidWrite, WritePC, OpenPC, GetOldPC, MemoryOK,
       ControlOK, HistoryOK, LevelShape, ActiveShape, Ending, MarkedShape
  <1>6. RestoredShape'
    BY DEF Exit, ProcessEnds, RestoredShape, PastRestore, Past, PastShape,
       StreamShape, SavedShape, MarkedShape, RolledShape, Rolled, Late, Frozen,
       Mid, Sound, At, Holds, MidWrite, WritePC, OpenPC, GetOldPC, FilesOK,
       MemoryOK, ControlOK, HistoryOK, LevelShape, ActiveShape, Ending
  <1> QED
    BY <1>1, <1>2, <1>3, <1>4, <1>5, <1>6

LEMMA CrashSaved ==
  ASSUME IInv, SavedInv, Crash
  PROVE  SavedInv'
  <1>1. Frozen'
    BY DEF Crash, ProcessEnds, Frozen, Mid, MidWrite, WritePC, OpenPC,
       GetOldPC, MemoryOK, ControlOK, HistoryOK, LevelShape
  <1>2. StreamShape'
    BY DEF Crash, ProcessEnds, StreamShape, Frozen, Mid, At, MidWrite, WritePC,
       OpenPC, GetOldPC, MemoryOK, ControlOK, HistoryOK, LevelShape,
       ActiveShape
  <1>3. SavedShape'
    BY DEF Crash, ProcessEnds, SavedShape, RestoredShape, StreamShape, Frozen,
       Mid, At, Sound, MidWrite, WritePC, OpenPC, GetOldPC, FilesOK, MemoryOK,
       ControlOK, HistoryOK, LevelShape, ActiveShape, OpenShape
  <1>4. MarkedShape'
    BY DEF Crash, ProcessEnds, MarkedShape, At, MidWrite, WritePC, OpenPC,
       GetOldPC, MemoryOK, ControlOK, HistoryOK, LevelShape, ActiveShape,
       Ending
  <1>5. PastShape'
    BY DEF Crash, ProcessEnds, PastShape, Past, StreamShape, SavedShape,
       Frozen, Mid, Sound, At, MidWrite, WritePC, OpenPC, GetOldPC, MemoryOK,
       ControlOK, HistoryOK, LevelShape, ActiveShape, Ending, MarkedShape
  <1>6. RestoredShape'
    BY DEF Crash, ProcessEnds, RestoredShape, PastRestore, Past, PastShape,
       StreamShape, SavedShape, MarkedShape, RolledShape, Rolled, Late, Frozen,
       Mid, Sound, At, Holds, MidWrite, WritePC, OpenPC, GetOldPC, FilesOK,
       MemoryOK, ControlOK, HistoryOK, LevelShape, ActiveShape, Ending
  <1> QED
    BY <1>1, <1>2, <1>3, <1>4, <1>5, <1>6

LEMMA StutterSaved ==
  ASSUME IInv, SavedInv, UNCHANGED vars
  PROVE  SavedInv'
  <1>1. Frozen'
    BY DEF vars, Frozen, Mid, MidWrite, WritePC, OpenPC, GetOldPC, MemoryOK,
       ControlOK, HistoryOK, LevelShape
  <1>2. StreamShape'
    BY DEF vars, StreamShape, Frozen, Mid, At, MidWrite, WritePC, OpenPC,
       GetOldPC, MemoryOK, ControlOK, HistoryOK, LevelShape, ActiveShape
  <1>3. SavedShape'
    BY DEF vars, SavedShape, RestoredShape, StreamShape, Frozen, Mid, At,
       Sound, MidWrite, WritePC, OpenPC, GetOldPC, FilesOK, MemoryOK,
       ControlOK, HistoryOK, LevelShape, ActiveShape, OpenShape
  <1>4. MarkedShape'
    BY DEF vars, MarkedShape, At, MidWrite, WritePC, OpenPC, GetOldPC,
       MemoryOK, ControlOK, HistoryOK, LevelShape, ActiveShape, Ending
  <1>5. PastShape'
    BY DEF vars, PastShape, Past, StreamShape, SavedShape, Frozen, Mid, Sound,
       At, MidWrite, WritePC, OpenPC, GetOldPC, MemoryOK, ControlOK, HistoryOK,
       LevelShape, ActiveShape, Ending, MarkedShape
  <1>6. RestoredShape'
    BY DEF vars, RestoredShape, PastRestore, Past, PastShape, StreamShape,
       SavedShape, MarkedShape, RolledShape, Rolled, Late, Frozen, Mid, Sound,
       At, Holds, MidWrite, WritePC, OpenPC, GetOldPC, FilesOK, MemoryOK,
       ControlOK, HistoryOK, LevelShape, ActiveShape, Ending
  <1> QED
    BY <1>1, <1>2, <1>3, <1>4, <1>5, <1>6

-------------------------------------------------------------------------------
LEMMA SavedStep == IInv /\ SavedInv /\ [Next]_vars => SavedInv'
  <1> SUFFICES ASSUME IInv, SavedInv, [Next]_vars
               PROVE  SavedInv'
    OBVIOUS
  <1>1. ASSUME NEW rc \in Rcs, OpenStep(rc) PROVE SavedInv'
    BY <1>1, OpenMissingSaved, SeedSaved, OpenRefusedSaved, RemoveOldSaved,
       CopyOldSaved, CopyFailsSaved, LoadSaved DEF OpenStep
  <1>2. ASSUME NEW l \in Level, NEW rc \in Rcs, WriteStep(l, rc) PROVE SavedInv'
    BY <1>2, WriteSkipSaved, WriteOpenSaved, WriteOpenFailsSaved,
       WriteFillSaved, WriteFillFailsSaved, WriteClearSaved, WriteRemoveSaved,
       WriteRenameSaved DEF WriteStep
  <1>3. ASSUME NEW rc \in Rcs, GetOldStep(rc) PROVE SavedInv'
    BY <1>3, GetOldRemoveSaved, GetOldSaveSaved, GetOldRestoreSaved,
       GetOldClearSaved DEF GetOldStep
  <1>4. ASSUME NEW l \in Level, WriteReturn(l) PROVE SavedInv'
    BY <1>4, WriteReturnSaved
  <1>5. ASSUME NEW rc \in Rcs, EnterGroup(rc) PROVE SavedInv'
    BY <1>5, EnterGroupSaved
  <1>6. ASSUME NEW m \in Marks, ReadArticle(m) PROVE SavedInv'
    BY <1>6, ReadArticleSaved
  <1>7. ASSUME NEW rc \in Rcs, NEW m \in Marks,
               EditLine(rc, m) \/ CatchUp(rc, m)
        PROVE  SavedInv'
    BY <1>7, EditLineSaved, CatchUpSaved
  <1>8. ASSUME NEW abandon \in BOOLEAN, Quit(abandon) PROVE SavedInv'
    BY <1>8, QuitSaved
  <1>9. CASE Start \/ OpenDone \/ Checkpoint \/ LeaveGroup \/ BugOut
    BY <1>9, StartSaved, OpenDoneSaved, CheckpointSaved, LeaveGroupSaved,
       BugOutSaved
  <1>10. CASE GetOldDone \/ StopSignal \/ StopInFatal \/ FatalSignal
    BY <1>10, GetOldDoneSaved, StopSignalSaved, StopInFatalSaved,
       FatalSignalSaved
  <1>11. CASE FatalFinalize \/ Exit \/ Crash \/ UNCHANGED vars
    BY <1>11, FatalFinalizeSaved, ExitSaved, CrashSaved, StutterSaved
  <1>12. ASSUME NEW l \in {"stop", "late"}, Continue(l) PROVE SavedInv'
    BY <1>12, ContinueSaved
  <1> QED
    BY <1>1, <1>2, <1>3, <1>4, <1>5, <1>6, <1>7, <1>8, <1>9, <1>10, <1>11,
       <1>12
       DEF Next

LEMMA SavedInvariance == Spec => []SavedInv
  BY Invariance, SavedInit, SavedStep, PTL DEF Spec

-------------------------------------------------------------------------------
\* Whenever RF_RC_CHANGED is clear, and no signal cut into the work on that
\* newsrc, the file is what is in memory: write_newsrcs skips nothing that
\* would be lost.
THEOREM ClearMeansSaved == Spec => []UnchangedMeansSaved
  <1>1. ASSUME IInv, SavedInv PROVE UnchangedMeansSaved
    BY <1>1 DEF UnchangedMeansSaved, SavedShape, Sound, At, Busy, Mid, WritePC,
                GetOldPC
  <1> QED
    BY <1>1, Invariance, SavedInvariance, PTL

\* What the last successful write wrote stays whole under the newsrc's name or
\* under ".new", also after a crash.
THEOREM SavedIsWhole == Spec => []SavedStaysWhole
  <1>1. ASSUME IInv, SavedInv PROVE SavedStaysWhole
    <2> SUFFICES ASSUME NEW rc \in Rcs, Sound(rc)
                 PROVE  saved[rc] \in {rcFile[rc], newFile[rc]}
      BY DEF SavedStaysWhole, Sound
    <2>1. CASE ~active[rc]
      BY <1>1, <2>1 DEF SavedShape
    <2>2. CASE active[rc] /\ saved[rc] # rcFile[rc]
      <3>1. PICK l \in Level : At(l, {"remove", "rename"}, rc)
        BY <1>1, <2>2 DEF SavedShape
      <3>2. ~changed[rc] /\ newFile[rc] = lines[rc]
        BY <1>1, <3>1 DEF StreamShape, SavedShape, Sound, At
      <3> QED
        BY <1>1, <2>2, <3>2 DEF SavedShape
    <2> QED
      BY <2>1, <2>2
  <1> QED
    BY <1>1, Invariance, SavedInvariance, PTL

\* Every way out of a session leaves on disk what it says: the marks, or with
\* 'x' the newsrc as it was and the abandoned marks in ".new".
THEOREM ExitsKeepTheirWord == Spec => []ExitsAsAsked
  <1>1. ASSUME IInv, SavedInv PROVE ExitKeepsMarks
    <2> SUFFICES ASSUME AtExit, NEW rc \in Rcs,
                        active[rc], Sound(rc), ~failed[rc]
                 PROVE  marked[rc] \subseteq rcFile[rc]
      BY DEF ExitKeepsMarks, Sound
    <2>1. PICK l \in Level : Current(l) /\ pc[l] = "exit"
      BY DEF AtExit
    <2>2. ng = 0
      <3>1. CASE l = "main"
        BY <1>1, <2>1, <3>1 DEF MarkedShape, LevelShape, Ending
      <3>2. CASE l = "fatal"
        BY <1>1, <2>1, <3>2 DEF MarkedShape
      <3>3. CASE l \in {"stop", "late"}
        BY <1>1, <2>1, <3>3 DEF LevelShape, WritePC
      <3> QED
        BY <3>1, <3>2, <3>3
    <2>3. marked[rc] \subseteq lines[rc]
      BY <1>1, <2>2 DEF MarkedShape, HistoryOK, Ending, LevelShape
    <2>4. \A k \in Level : ~At(k, {"remove", "rename"}, rc)
      BY <1>1, <2>1 DEF Frozen, Mid, At, Sound, WritePC, LevelShape
    <2>5. CASE multirc
      BY <1>1, <2>1, <2>3, <2>4, <2>5 DEF PastShape, Past, SavedShape, Sound
    <2>6. CASE ~multirc
      <3>1. marked[rc] = {}
        BY <1>1, <2>6 DEF MarkedShape
      <3> QED
        BY <3>1
    <2> QED
      BY <2>5, <2>6
  <1>2. ASSUME IInv, SavedInv PROVE AbandonRestores
    BY <1>2 DEF AbandonRestores, RestoredShape, PastRestore, MarkedShape, At,
                LevelShape, OpenPC, MemoryOK
  <1> QED
    BY <1>1, <1>2, Invariance, SavedInvariance, PTL DEF ExitsAsAsked
===============================================================================
