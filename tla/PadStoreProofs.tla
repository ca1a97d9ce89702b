--------------------------- MODULE PadStoreProofs ---------------------------
(***************************************************************************)
(* Theorems of PadStore for every pad size and every set of materials.     *)
(***************************************************************************)
EXTENDS PadStore, TLAPS

LEMMA TypeInit == Init => TypeOK
<1> SUFFICES ASSUME Init PROVE TypeOK
  OBVIOUS
<1>1. ret \in Outcome /\ Zero \in Content /\ 0 \in Offset
  BY PadSizeAssumption DEF Init, Outcome, Content, Offset
<1>2. tmp \in File /\ journal \in File /\ durable \in File
  BY DEF Init, File
<1> QED BY <1>1, <1>2 DEF Init, NoStore, Idle, TypeOK

\* A record written by the store is a file.
LEMMA RecIsRecord ==
  ASSUME NEW o \in Offset, NEW k \in Content
  PROVE  Rec(o, k) \in Record
BY PadSizeAssumption DEF Rec, Record, Offset

LEMMA TypeStep == TypeOK /\ [Next]_vars => TypeOK'
<1>1. SUFFICES ASSUME TypeOK, [Next]_vars PROVE TypeOK'
  OBVIOUS
<1> USE PadSizeAssumption, ContentAssumption, OffsetAssumption, FileAssumption
<1>2. ASSUME NEW m \in Material, New(m) PROVE TypeOK'
  BY <1>1, <1>2 DEF New, TypeOK, disk, Content
<1>3. CASE NewDeferred
  BY <1>1, <1>3 DEF NewDeferred, Return, TypeOK, disk, Content, Offset, Outcome
<1>4. CASE NewRejected
  BY <1>1, <1>4 DEF NewRejected, Return, TypeOK, store, disk, Offset, Outcome
<1>5. ASSUME NEW m \in Material, Refillable, Populate(m) PROVE TypeOK'
  BY <1>1, <1>5 DEF Refillable, Populate, TypeOK, call, disk, Content
<1>6. CASE FinalizeFill
  BY <1>1, <1>6 DEF FinalizeFill, TypeOK, disk, Content, Offset
<1>7. CASE FinalizeAgain
  BY <1>1, <1>7 DEF FinalizeAgain, Return, TypeOK, store, disk, Offset, Outcome
<1>8. ASSUME NEW n \in 1 .. PadSize, Reserve(n) PROVE TypeOK'
  BY <1>1, <1>8 DEF Reserve, TypeOK, store, disk, Offset
<1>9. CASE ReserveRejected
  BY <1>1, <1>9 DEF ReserveRejected, Return, TypeOK, store, disk, Offset, Outcome
<1>10. CASE Clear
  BY <1>1, <1>10 DEF Clear, EraseBuf, Return, TypeOK, disk, Content, Offset, Outcome
<1>11. CASE Drop
  BY <1>1, <1>11 DEF Drop, Gone, TypeOK, call, disk, Content
<1>12. CASE LoadAbsent
  BY <1>1, <1>12 DEF LoadAbsent, TypeOK, store, disk
<1>13. CASE LoadAccepted
  <2>1. journal.off \in Offset
    BY <1>1, <1>13 DEF LoadAccepted, Accepts, TypeOK, Record, Offset
  <2> QED
    BY <1>1, <1>13, <2>1 DEF LoadAccepted, Adopt, Return, TypeOK, disk, Offset, Outcome
<1>14. ASSUME NEW r \in Outcome, pc # "idle", CallFails(r), UNCHANGED <<disk, issued>>
       PROVE  TypeOK'
  <2>1. CASE op = "new" /\ Gone
    BY <1>1, <1>14, <2>1 DEF CallFails, Gone, Return, TypeOK, disk, Content, Offset
  <2>2. CASE op = "finalize" /\ EraseBuf /\ UNCHANGED <<live, filled, consumed, key>>
    BY <1>1, <1>14, <2>2 DEF CallFails, EraseBuf, Return, TypeOK, disk, Content, Offset
  <2>3. CASE op = "reserve" /\ UNCHANGED store
    BY <1>1, <1>14, <2>3 DEF CallFails, Return, TypeOK, store, disk, Offset
  <2> QED BY <1>14, <2>1, <2>2, <2>3 DEF CallFails
<1>15. CASE LoadRefused
  BY <1>14, <1>15 DEF LoadRefused, Outcome
<1>16. CASE CreateTmp
  BY <1>1, <1>16 DEF CreateTmp, TypeOK, store, File
<1>17. CASE WriteTmp
  <2>1. Rec(Target, key) \in File
    BY <1>1, <1>17, RecIsRecord DEF WriteTmp, Target, TypeOK, File, Offset
  <2> QED BY <1>1, <1>17, <2>1 DEF WriteTmp, TypeOK, store
<1>18. CASE SyncTmp
  BY <1>1, <1>18 DEF SyncTmp, TypeOK, store
<1>19. CASE RenameTmp
  BY <1>1, <1>19 DEF RenameTmp, TypeOK, store, File
<1>20. CASE IoError
  BY <1>14, <1>20 DEF IoError, Outcome
<1>21. CASE CommitFill
  BY <1>1, <1>21 DEF CommitFill, Adopt, Return, Target, TypeOK, disk, Offset, Outcome
<1>22. CASE CommitReserve
  <2>1. Target \in Offset
    BY <1>1, <1>22 DEF CommitReserve, Target, TypeOK, Offset
  <2>2. issued' \in [Bytes -> Nat]
    BY <1>1, <1>22 DEF CommitReserve, TypeOK
  <2> QED
    BY <1>1, <1>22, <2>1, <2>2 DEF CommitReserve, Return, TypeOK, disk, Offset, Outcome
<1>23. CASE Crash
  <2>1. ret' \in Outcome /\ Zero \in Content /\ 0 \in Offset
    BY <1>23 DEF Crash, Return, Outcome, Content, Offset
  <2> QED BY <1>1, <1>23, <2>1 DEF Crash, Gone, Return, TypeOK, disk
<1>24. CASE PowerLoss
  <2>1. ret' \in Outcome /\ Zero \in Content /\ 0 \in Offset
    BY <1>24 DEF PowerLoss, Return, Outcome, Content, Offset
  <2>2. tmp' \in File /\ journal' \in File /\ durable' \in File
    BY <1>1, <1>24 DEF PowerLoss, TypeOK, File
  <2> QED BY <1>1, <1>24, <2>1, <2>2 DEF PowerLoss, Gone, Return, TypeOK
<1>25. CASE Damage
  <2>1. journal' \in File
    BY <1>1, <1>25 DEF Damage, Intact, TypeOK, File, Record
  <2> QED BY <1>1, <1>25, <2>1 DEF Damage, TypeOK, store, call
<1>26. CASE UNCHANGED vars
  BY <1>1, <1>26 DEF TypeOK, vars
<1> QED
  BY <1>1, <1>2, <1>3, <1>4, <1>5, <1>6, <1>7, <1>8, <1>9, <1>10, <1>11, <1>12,
     <1>13, <1>15, <1>16, <1>17, <1>18, <1>19, <1>20, <1>21, <1>22, <1>23,
     <1>24, <1>25, <1>26 DEF Next, Begin, Continue, Environment

\* The fields of a store are set whenever the code unwraps them, and every
\* value stays in its range, for every pad size and any material.
THEOREM TypeCorrect == Spec => []TypeOK
BY TypeInit, TypeStep, PTL DEF Spec

-----------------------------------------------------------------------------
(***************************************************************************)
(* The inductive invariant.  The conjuncts other than TypeOK are gathered  *)
(* in Rest, and each action has a step that shows the ones it disturbs.    *)
(***************************************************************************)
Rest ==
  /\ durable = journal
  /\ KeyOfBuffer /\ FirstRecord /\ TmpReady /\ JournalHeld
  /\ IssuedBelow /\ NoReuse

LEMMA IInvInit == Init => IInv
<1> SUFFICES ASSUME Init PROVE IInv
  OBVIOUS
<1>1. TypeOK
  BY TypeInit
<1>2. \A b \in Bytes : issued[b] = 0
  BY DEF Init
<1> QED
  BY <1>1, <1>2, FileAssumption
     DEF Init, NoStore, Idle, IInv, KeyOfBuffer, FirstRecord, TmpReady,
         JournalHeld, IssuedBelow, NoReuse, Holding

\* A step that changes neither the files nor the history and ends with no
\* call in progress and no usable store keeps the invariant.
LEMMA StopStep ==
  ASSUME Rest, TypeOK, ~filled', pc' = "idle",
         UNCHANGED <<disk, issued>>
  PROVE  Rest'
BY DEF Rest, disk, KeyOfBuffer, FirstRecord, TmpReady, JournalHeld, IssuedBelow,
       NoReuse, Holding

\* A step that changes neither the store, the files nor the history and
\* leaves or stays in no call.
LEMMA QuietStep ==
  ASSUME Rest, TypeOK, pc \notin {"load", "commit"}, pc' = "idle",
         UNCHANGED <<store, disk, issued>>
  PROVE  Rest'
BY DEF Rest, TypeOK, store, disk, KeyOfBuffer, FirstRecord, TmpReady,
       JournalHeld, IssuedBelow, NoReuse, Holding, Reach

LEMMA RestStep == RenameDurable /\ TypeOK /\ Rest /\ [Next]_vars => Rest'
<1>1. SUFFICES ASSUME RenameDurable, TypeOK, Rest, [Next]_vars PROVE Rest'
  OBVIOUS
<1>2. ASSUME NEW m \in Material, New(m) PROVE Rest'
  BY <1>1, <1>2 DEF New, TypeOK, Rest, disk, KeyOfBuffer, FirstRecord, TmpReady,
     JournalHeld, IssuedBelow, NoReuse, Holding
<1>3. CASE NewDeferred
  BY <1>1, <1>3, StopStep DEF NewDeferred, Return
<1>4. CASE NewRejected
  BY <1>1, <1>4, StopStep DEF NewRejected, Return, store, TypeOK
<1>5. ASSUME NEW m \in Material, Refillable, Populate(m) PROVE Rest'
  BY <1>1, <1>5, StopStep DEF Refillable, Populate, call
<1>6. CASE FinalizeFill
  BY <1>1, <1>6 DEF FinalizeFill, TypeOK, Rest, disk, KeyOfBuffer, FirstRecord,
     TmpReady, JournalHeld, IssuedBelow, NoReuse, Holding
<1>7. CASE FinalizeAgain
  BY <1>1, <1>7, QuietStep DEF FinalizeAgain, Return
<1>8. ASSUME NEW n \in 1 .. PadSize, Reserve(n) PROVE Rest'
  BY <1>1, <1>8 DEF Reserve, TypeOK, Rest, store, disk, KeyOfBuffer, FirstRecord,
     TmpReady, JournalHeld, IssuedBelow, NoReuse, Holding, Reach
<1>9. CASE ReserveRejected
  BY <1>1, <1>9, QuietStep DEF ReserveRejected, Return
<1>10. CASE Clear
  BY <1>1, <1>10, StopStep DEF Clear, Return
<1>11. CASE Drop
  BY <1>1, <1>11, StopStep DEF Drop, Gone, call
<1>12. CASE LoadAbsent
  BY <1>1, <1>12 DEF LoadAbsent, TypeOK, Rest, store, disk, KeyOfBuffer,
     FirstRecord, TmpReady, JournalHeld, IssuedBelow, NoReuse, Holding
<1>13. CASE LoadAccepted
  BY <1>1, <1>13, FileAssumption DEF LoadAccepted, Accepts, Adopt, Return, TypeOK, Rest, disk,
     KeyOfBuffer, FirstRecord, TmpReady, JournalHeld, IssuedBelow, NoReuse,
     Holding, Reach
<1>14. ASSUME NEW r, pc \notin {"idle", "commit"}, CallFails(r), UNCHANGED <<disk, issued>>
       PROVE  Rest'
  <2>1. CASE op = "reserve"
    <3>1. pc # "load"
      BY <1>1, <2>1 DEF TypeOK
    <3> QED BY <1>1, <1>14, <2>1, <3>1, QuietStep DEF CallFails, Return
  <2>2. CASE op # "reserve"
    BY <1>1, <1>14, <2>2, StopStep DEF CallFails, Gone, Return, TypeOK
  <2> QED BY <2>1, <2>2
<1>15. CASE LoadRefused
  BY <1>14, <1>15 DEF LoadRefused
<1>16. CASE CreateTmp
  BY <1>1, <1>16 DEF CreateTmp, TypeOK, Rest, store, KeyOfBuffer, FirstRecord,
     TmpReady, JournalHeld, IssuedBelow, NoReuse, Holding, Reach
<1>17. CASE WriteTmp
  BY <1>1, <1>17 DEF WriteTmp, TypeOK, Rest, store, KeyOfBuffer, FirstRecord,
     TmpReady, JournalHeld, IssuedBelow, NoReuse, Holding, Reach, Target
<1>18. CASE SyncTmp
  BY <1>1, <1>18 DEF SyncTmp, TypeOK, Rest, store, KeyOfBuffer, FirstRecord,
     TmpReady, JournalHeld, IssuedBelow, NoReuse, Holding, Reach, Target
<1>19. CASE RenameTmp
  <2>1. pc = "rename" /\ pc' = "commit" /\ UNCHANGED <<store, op, need, issued>>
    BY <1>19 DEF RenameTmp
  <2>2. journal' = Rec(Target, key) /\ durable' = journal'
    BY <1>1, <1>19 DEF RenameTmp, Rest, TmpReady
  <2>3. journal'.macOff = Target /\ journal'.macKey = key /\ journal' # Absent
    <3>1. Target \in Offset /\ key \in Content
      BY <1>1, <2>1, PadSizeAssumption DEF TypeOK, Target, Offset
    <3> QED BY <2>2, <3>1, RecIsRecord, FileAssumption DEF Rec
  <2>4. KeyOfBuffer' /\ TmpReady' /\ NoReuse'
    BY <1>1, <2>1 DEF Rest, store, KeyOfBuffer, TmpReady, NoReuse
  <2>5. FirstRecord'
    BY <2>1, <2>3 DEF FirstRecord
  <2>6. JournalHeld'
    BY <2>1, <2>3 DEF store, JournalHeld, Reach, Target
  <2>7. IssuedBelow'
    <3>1. CASE op = "reserve"
      <4>1. filled /\ Target = consumed + need /\ consumed \in Nat /\ need \in Nat
        BY <1>1, <3>1 DEF TypeOK, Offset, Target
      <4>2. ASSUME NEW b \in Bytes, issued[b] > 0
            PROVE  b[1] = key /\ b[2] < consumed /\ b[2] < Target
        <5>1. b[2] \in Nat
          BY PadSizeAssumption DEF Bytes, Position
        <5> QED BY <1>1, <4>1, <4>2, <5>1 DEF Rest, IssuedBelow, Holding
      <4> QED BY <2>1, <2>3, <4>1, <4>2 DEF store, IssuedBelow
    <3>2. CASE op # "reserve"
      <4>1. \A b \in Bytes : issued[b] = 0
        BY <1>1, <2>1, <3>2 DEF Rest, FirstRecord
      <4> QED BY <2>1, <4>1 DEF IssuedBelow
    <3> QED BY <3>1, <3>2
  <2> QED BY <2>2, <2>4, <2>5, <2>6, <2>7 DEF Rest
<1>20. CASE IoError
  BY <1>14, <1>20 DEF IoError
<1>21. CASE CommitFill
  BY <1>1, <1>21 DEF CommitFill, Adopt, Return, TypeOK, Rest, disk, KeyOfBuffer,
     FirstRecord, TmpReady, JournalHeld, IssuedBelow, NoReuse, Holding, Reach, Target
<1>22. CASE CommitReserve
  <2>1. /\ pc = "commit" /\ op = "reserve" /\ filled /\ key = buf
        /\ pc' = "idle" /\ consumed' = Target
        /\ UNCHANGED <<live, buf, filled, key, disk>>
    BY <1>1, <1>22 DEF CommitReserve, Return, TypeOK, Rest, KeyOfBuffer
  <2>2. /\ Target = consumed + need /\ consumed \in Nat /\ need \in Nat
        /\ Target \in Nat
    BY <1>1, <2>1 DEF TypeOK, Offset, Target
  <2>3. ASSUME NEW b \in Bytes
        PROVE  /\ issued'[b] <= 1
               /\ issued'[b] > 0 => b[1] = key /\ b[2] < Target
    <3>1. b[2] \in Nat /\ issued[b] \in Nat
      BY <1>1, PadSizeAssumption DEF Bytes, Position, TypeOK
    <3>2. issued'[b] = IF b[1] = buf /\ consumed <= b[2] /\ b[2] < Target
                       THEN issued[b] + 1 ELSE issued[b]
      BY <1>22 DEF CommitReserve
    <3>3. issued[b] <= 1 /\ (issued[b] > 0 => b[1] = key /\ b[2] < consumed)
      BY <1>1, <2>1 DEF Rest, NoReuse, IssuedBelow, Holding
    <3> QED BY <2>1, <2>2, <3>1, <3>2, <3>3
  <2>4. journal # Absent /\ (journal \in Record => journal.macKey = key
                                                    /\ journal.macOff = Target)
    BY <1>1, <2>1 DEF Rest, FirstRecord, JournalHeld, Holding, Reach
  <2>5. KeyOfBuffer' /\ TmpReady' /\ durable' = journal'
    BY <1>1, <2>1 DEF Rest, disk, KeyOfBuffer, TmpReady
  <2>6. FirstRecord' /\ JournalHeld'
    BY <2>1, <2>4 DEF disk, FirstRecord, JournalHeld, Holding, Reach
  <2>7. IssuedBelow' /\ NoReuse'
    BY <2>1, <2>3, <2>4 DEF disk, IssuedBelow, NoReuse
  <2> QED BY <2>5, <2>6, <2>7 DEF Rest
<1>23. CASE Crash
  BY <1>1, <1>23, StopStep DEF Crash, Gone, Return
<1>24. CASE PowerLoss
  BY <1>1, <1>24 DEF PowerLoss, Gone, Return, TypeOK, Rest, KeyOfBuffer,
     FirstRecord, TmpReady, JournalHeld, IssuedBelow, NoReuse, Holding
<1>25. CASE Damage
  BY <1>1, <1>25, FileAssumption DEF Damage, Intact, TypeOK, Rest, store, call, File, Record,
     KeyOfBuffer, FirstRecord, TmpReady, JournalHeld, IssuedBelow, NoReuse,
     Holding, Reach, Target
<1>26. CASE UNCHANGED vars
  BY <1>1, <1>26 DEF vars, Rest, KeyOfBuffer, FirstRecord, TmpReady, JournalHeld,
     IssuedBelow, NoReuse, Holding, Reach, Target
<1> QED
  BY <1>1, <1>2, <1>3, <1>4, <1>5, <1>6, <1>7, <1>8, <1>9, <1>10, <1>11, <1>12,
     <1>13, <1>15, <1>16, <1>17, <1>18, <1>19, <1>20, <1>21, <1>22, <1>23,
     <1>24, <1>25, <1>26 DEF Next, Begin, Continue, Environment

LEMMA IInvStep == RenameDurable /\ IInv /\ [Next]_vars => IInv'
BY TypeStep, RestStep DEF IInv, Rest

\* IInv holds of every store whose renames persist.
THEOREM Inductive == ASSUME RenameDurable PROVE Spec => []IInv
BY IInvInit, IInvStep, PTL DEF Spec

\* The promise of the pad store, for every pad size, any material and any
\* number of restarts, failed system calls and damaged files, as long as a
\* rename that returned survives power loss: no byte is returned twice.
THEOREM NeverReused == ASSUME RenameDurable PROVE Spec => []NoReuse
<1>1. IInv => NoReuse
  BY DEF IInv
<1> QED BY <1>1, Inductive, PTL

\* Every byte returned lies below the offset in the journal, so a restart at
\* any moment resumes above it.
THEOREM BurnedBeforeUsed == ASSUME RenameDurable PROVE Spec => []BurnBeforeUse
<1>1. IInv => BurnBeforeUse
  BY DEF IInv, IssuedBelow, FirstRecord, BurnBeforeUse, Intact, TypeOK
<1> QED BY <1>1, Inductive, PTL

\* Between calls the cache of a usable store agrees with an intact journal.
THEOREM CacheIsCoherent == ASSUME RenameDurable PROVE Spec => []CacheCoherent
<1>1. IInv => CacheCoherent
  <2> SUFFICES ASSUME IInv, filled, pc = "idle", Intact(journal)
               PROVE  journal = Rec(consumed, buf)
    BY DEF CacheCoherent
  <2>1. journal.macKey = buf /\ journal.macOff = consumed
    BY DEF IInv, JournalHeld, KeyOfBuffer, Holding, Reach, Intact
  <2>2. journal \in Record /\ journal.off = consumed
    BY <2>1 DEF Intact
  <2> QED BY <2>1, <2>2 DEF Record, Rec
<1> QED BY <1>1, Inductive, PTL

-----------------------------------------------------------------------------
(***************************************************************************)
(* What a step may do to the journal.                                      *)
(***************************************************************************)
LEMMA JournalStep ==
  ASSUME IInv, [Next]_vars
  PROVE  UNCHANGED journal \/ RenameTmp \/ Damage
<1>1. CASE PowerLoss
  BY <1>1 DEF PowerLoss, IInv
<1>2. CASE Begin
  BY <1>2 DEF Begin, New, NewDeferred, NewRejected, Populate, FinalizeFill,
     FinalizeAgain, Reserve, ReserveRejected, Clear, Drop, disk
<1>3. CASE Continue /\ ~RenameTmp
  BY <1>3 DEF Continue, LoadAbsent, LoadAccepted, LoadRefused, CreateTmp, WriteTmp,
     SyncTmp, IoError, CommitFill, CommitReserve, disk
<1> QED
  BY <1>1, <1>2, <1>3 DEF Next, Environment, Crash, disk, vars

\* RenameTmp installs the record of the call in progress.
LEMMA RenameInstalls ==
  ASSUME IInv, RenameTmp
  PROVE  /\ journal' = Rec(Target, key)
         /\ Target \in Offset /\ key \in Content
         /\ Intact(journal') /\ journal' # Torn /\ journal' # Absent
<1>1. journal' = Rec(Target, key)
  BY DEF RenameTmp, IInv, TmpReady
<1>2. Target \in Offset /\ key \in Content
  BY PadSizeAssumption DEF RenameTmp, IInv, TypeOK, Target, Offset
<1> QED BY <1>1, <1>2, RecIsRecord, FileAssumption DEF Intact, Rec

\* The recorded offset never goes back and the key never changes.
THEOREM OffsetsGrow ==
  ASSUME RenameDurable PROVE Spec => OffsetNeverRetreats
<1>1. ASSUME IInv, [Next]_vars, Intact(journal), Intact(journal')
      PROVE  journal'.macKey = journal.macKey /\ journal'.off >= journal.off
  <2>0. journal.off \in Nat /\ journal \in Record /\ journal # Absent
    BY <1>1, PadSizeAssumption, FileAssumption DEF Intact, Record
  <2>1. CASE UNCHANGED journal
    BY <2>0, <2>1
  <2>2. CASE RenameTmp
    <3>1. op = "reserve"
      BY <1>1, <2>0, <2>2 DEF RenameTmp, IInv, FirstRecord
    <3>2. /\ filled /\ consumed \in Nat /\ need \in Nat
          /\ Target = consumed + need
      BY <1>1, <3>1 DEF IInv, TypeOK, Offset, Target
    <3>3. journal.macKey = key /\ journal.off = consumed
      BY <1>1, <2>0, <2>2, <3>2
         DEF RenameTmp, IInv, JournalHeld, Holding, Reach, Intact
    <3> QED BY <1>1, <2>2, <3>2, <3>3, RenameInstalls DEF Rec
  <2>3. CASE Damage
    <3>1. PICK o \in 0 .. PadSize + 1 :
            o # journal.off /\ journal' = [journal EXCEPT !.off = o]
      BY <1>1, <2>3, FileAssumption DEF Damage, Intact
    <3> QED BY <1>1, <2>0, <3>1 DEF Intact, Record
  <2> QED BY <1>1, <2>1, <2>2, <2>3, JournalStep
<1> QED BY <1>1, Inductive, PTL DEF Spec, OffsetNeverRetreats

\* Whatever fails or dies, the program leaves no torn file at journal_path.
THEOREM JournalNeverTorn == ASSUME RenameDurable PROVE Spec => NeverTorn
<1>1. ASSUME IInv, [Next]_vars, journal # Torn, journal' = Torn PROVE Damage
  BY <1>1, JournalStep, RenameInstalls
<1> QED BY <1>1, Inductive, PTL DEF Spec, NeverTorn

\* A journal that a store with the same material wrote is never refused.
THEOREM RefusalMeansDamage ==
  ASSUME RenameDurable PROVE Spec => RefusesOnlyDamage
<1>1. ASSUME IInv, [Next]_vars, pc = "load", ret' = "CorruptJournal", pc' = "idle"
      PROVE  ~(Intact(journal) /\ journal.macKey = buf)
  <2>1. LoadRefused
    <3>1. CASE Begin
      BY <1>1, <3>1 DEF Begin, IInv, TypeOK, New, NewDeferred, NewRejected, Populate,
         FinalizeFill, FinalizeAgain, Reserve, ReserveRejected, Clear, Drop
    <3>2. CASE Continue
      BY <1>1, <3>2 DEF Continue, LoadAbsent, LoadAccepted, Adopt, Return, CreateTmp,
         WriteTmp, SyncTmp, RenameTmp, IoError, CommitFill, CommitReserve
    <3>3. CASE Environment
      BY <1>1, <3>3 DEF Environment, Crash, PowerLoss, Damage, Return, call
    <3> QED BY <1>1, <3>1, <3>2, <3>3 DEF Next, vars
  <2>2. ~Accepts(journal, key)
    BY <1>1, <2>1 DEF LoadRefused, CallFails, Return
  <2> QED
    BY <1>1, <2>2, PadSizeAssumption
       DEF IInv, KeyOfBuffer, Accepts, Intact, Record, Offset
<1> QED BY <1>1, Inductive, PTL DEF Spec, RefusesOnlyDamage

-----------------------------------------------------------------------------
(***************************************************************************)
(* Material in memory that is not locked.                                  *)
(***************************************************************************)
\* buf and locked change only where a store is made, filled, cleared, or gone.
LEMMA BufferStep ==
  ASSUME [Next]_vars
  PROVE  \/ UNCHANGED <<buf, locked>>
         \/ locked' /\ ~live
         \/ Refillable /\ live /\ locked' = locked
         \/ EraseBuf
         \/ Gone
<1>1. CASE Begin
  BY <1>1 DEF Begin, New, NewDeferred, NewRejected, Populate, FinalizeFill,
     FinalizeAgain, Reserve, ReserveRejected, Clear, Drop, store
<1>2. CASE Continue
  BY <1>2 DEF Continue, LoadAbsent, LoadAccepted, LoadRefused, CallFails, Adopt,
     CreateTmp, WriteTmp, SyncTmp, RenameTmp, IoError, CommitFill, CommitReserve, store
<1>3. CASE Environment
  BY <1>3 DEF Environment, Crash, PowerLoss, Damage, store
<1> QED
  BY <1>1, <1>2, <1>3 DEF Next, vars

\* clear() and every error path erase before they munlock, so no material is
\* ever left in memory that may be swapped - as long as nobody fills a store
\* that was cleared, which as_mut_ptr and finalize_fill do not refuse.
THEOREM MaterialStaysLocked ==
  ASSUME ReuseCleared = FALSE PROVE Spec => []MaterialLocked
<1>1. Init => MaterialLocked
  BY DEF Init, NoStore, MaterialLocked
<1>2. MaterialLocked /\ [Next]_vars => MaterialLocked'
  BY BufferStep DEF MaterialLocked, Refillable, EraseBuf, Gone
<1> QED
  BY <1>1, <1>2, PTL DEF Spec

-----------------------------------------------------------------------------
(***************************************************************************)
(* The store implements PadLedger.                                         *)
(***************************************************************************)
LEMMA LedgerInit == Init => Ledger!LInit
BY DEF Init, Ledger!LInit, Burned

\* A step that leaves the journal alone lets no other call take hold of it.
LEMMA HoldStep ==
  ASSUME IInv, [Next]_vars, UNCHANGED journal, journal # Absent, Holding',
         ~Intact(journal)
  PROVE  Holding /\ key' = key /\ Reach' = Reach
<1> USE DEF Holding, Reach
<1>1. CASE Begin
  BY <1>1 DEF Begin, IInv, TypeOK, New, NewDeferred, NewRejected, Populate,
     FinalizeFill, FinalizeAgain, Reserve, ReserveRejected, Clear, Drop, Gone, Return,
     store, call
<1>2. CASE Continue
  <2>1. ASSUME NEW r, CallFails(r), pc \notin {"idle", "commit"}
        PROVE  Holding /\ key' = key /\ Reach' = Reach
    <3>1. CASE op = "reserve"
      BY <2>1, <3>1 DEF CallFails, Return, IInv, TypeOK, store
    <3>2. CASE op # "reserve"
      <4>1. ~filled /\ pc' = "idle"
        BY <2>1, <3>2 DEF CallFails, Return, IInv, TypeOK
      <4>2. ~filled'
        BY <2>1, <3>2, <4>1 DEF CallFails, Gone
      <4> QED BY <4>1, <4>2
    <3> QED BY <3>1, <3>2
  <2>2. CASE LoadAccepted
    BY <2>2 DEF LoadAccepted, Accepts, Intact
  <2>3. CASE LoadRefused \/ IoError
    BY <2>1, <2>3 DEF LoadRefused, IoError
  <2>4. CASE LoadAbsent \/ CreateTmp \/ WriteTmp \/ SyncTmp
    BY <2>4 DEF LoadAbsent, CreateTmp, WriteTmp, SyncTmp, store, IInv, TypeOK
  <2>5. CASE RenameTmp
    BY <2>5, RenameInstalls
  <2>6. CASE CommitFill
    BY <2>6 DEF CommitFill, Adopt, Return
  <2>7. CASE CommitReserve
    BY <2>7 DEF CommitReserve, Return, IInv, TypeOK
  <2> QED BY <1>2, <2>2, <2>3, <2>4, <2>5, <2>6, <2>7 DEF Continue
<1>3. CASE Environment
  BY <1>3 DEF Environment, Crash, PowerLoss, Damage, Gone, Return, store, call,
     Target
<1>4. CASE UNCHANGED vars
  BY <1>4 DEF vars, Target
<1> QED BY <1>1, <1>2, <1>3, <1>4 DEF Next

\* No step takes a byte out of the record.
LEMMA BurnedGrows ==
  ASSUME IInv, [Next]_vars
  PROVE  Burned \subseteq Burned'
<1>1. CASE UNCHANGED journal
  <2>1. CASE journal = Absent \/ Intact(journal)
    BY <1>1, <2>1, FileAssumption DEF Burned, Intact
  <2>2. CASE journal # Absent /\ ~Intact(journal)
    <3>1. CASE Holding'
      <4>1. Holding /\ key' = key /\ Reach' = Reach
        BY <1>1, <2>2, <3>1, HoldStep
      <4> QED BY <1>1, <2>2, <3>1, <4>1 DEF Burned, Intact
    <3>2. CASE ~Holding'
      <4>1. Burned' = Bytes
        BY <1>1, <2>2, <3>2 DEF Burned, Intact
      <4> QED BY <4>1 DEF Burned
    <3> QED BY <3>1, <3>2
  <2> QED BY <2>1, <2>2
<1>2. CASE RenameTmp
  <2>1. Burned' = {b \in Bytes : b[1] = key /\ b[2] < Target}
    BY <1>2, RenameInstalls DEF Burned, Rec
  <2>2. CASE op = "reserve"
    <3>1. /\ filled /\ consumed \in Nat /\ need \in Nat
          /\ Target = consumed + need /\ journal # Absent /\ Reach = consumed
      BY <1>2, <2>2 DEF IInv, TypeOK, Offset, Target, FirstRecord, Holding, RenameTmp,
         Reach
    <3>2. Burned = {b \in Bytes : b[1] = key /\ b[2] < consumed}
      BY <3>1 DEF Burned, IInv, JournalHeld, Holding, Intact
    <3>3. \A b \in Bytes : b[2] \in Nat
      BY PadSizeAssumption DEF Bytes, Position
    <3> QED BY <2>1, <3>1, <3>2, <3>3
  <2>3. CASE op # "reserve"
    BY <1>2, <2>3 DEF Burned, RenameTmp, IInv, FirstRecord
  <2> QED BY <2>2, <2>3
<1>3. CASE Damage
  <2>1. Intact(journal) /\ ~Intact(journal') /\ journal # Absent /\ journal' # Absent
        /\ UNCHANGED <<filled, pc, key, consumed, op, need>>
    BY <1>3, FileAssumption DEF Damage, Intact, Record, store, call
  <2>2. CASE Holding
    <3>1. journal.macKey = key /\ journal.off = Reach
      BY <2>1, <2>2 DEF IInv, JournalHeld, Intact
    <3>2. Holding' /\ Reach' = Reach
      BY <2>1, <2>2 DEF Holding, Reach, Target
    <3> QED BY <2>1, <3>1, <3>2 DEF Burned
  <2>3. CASE ~Holding
    <3>1. Burned' = Bytes
      BY <2>1, <2>3 DEF Burned, Holding
    <3> QED BY <3>1 DEF Burned
  <2> QED BY <2>2, <2>3
<1> QED BY <1>1, <1>2, <1>3, JournalStep

\* Handing out bytes is a step of the ledger.
LEMMA CommitIssues ==
  ASSUME IInv, IInv', CommitReserve
  PROVE  Ledger!Issue
<1>1. /\ pc = "commit" /\ op = "reserve" /\ filled /\ key = buf /\ journal # Absent
      /\ pc' = "idle" /\ consumed' = Target /\ filled' /\ key' = key
      /\ journal' = journal
  BY DEF CommitReserve, Return, IInv, KeyOfBuffer, FirstRecord, Holding, disk, TypeOK
<1>2. Burned = {b \in Bytes : b[1] = key /\ b[2] < Target}
  BY <1>1 DEF Burned, IInv, JournalHeld, Holding, Reach, Intact
<1>3. Burned' = {b \in Bytes : b[1] = key /\ b[2] < Target}
  BY <1>1, <1>2 DEF Burned, Holding, Reach
<1>4. issued' \in [Bytes -> {0, 1}]
  <2>1. issued' \in [Bytes -> Nat] /\ \A b \in Bytes : issued'[b] <= 1
    BY DEF IInv, TypeOK, NoReuse
  <2>2. \A b \in Bytes : issued'[b] \in {0, 1}
    BY <2>1
  <2> QED BY <2>1, <2>2
<1>5. ASSUME NEW b \in Bytes, issued'[b] # issued[b]
      PROVE  b \in Burned /\ issued[b] = 0 /\ issued'[b] = 1
  <2>1. b[1] = buf /\ b[2] < Target /\ issued'[b] = issued[b] + 1
    BY <1>5 DEF CommitReserve
  <2>2. issued[b] \in Nat /\ issued'[b] \in {0, 1}
    BY <1>4 DEF IInv, TypeOK
  <2> QED BY <1>1, <1>2, <2>1, <2>2
<1> QED BY <1>2, <1>3, <1>4, <1>5 DEF Ledger!Issue

LEMMA LedgerStep ==
  ASSUME IInv, IInv', [Next]_vars
  PROVE  [Ledger!LNext]_Ledger!lvars
<1>1. CASE CommitReserve
  BY <1>1, CommitIssues DEF Ledger!LNext
<1>2. CASE ~CommitReserve
  <2>1. UNCHANGED issued
    BY <1>2 DEF Next, Begin, New, NewDeferred, NewRejected, Populate, FinalizeFill,
       FinalizeAgain, Reserve, ReserveRejected, Clear, Drop, Continue, LoadAbsent,
       LoadAccepted, LoadRefused, CreateTmp, WriteTmp, SyncTmp, RenameTmp, IoError,
       CommitFill, Environment, Crash, PowerLoss, Damage, vars
  <2>2. Burned' \subseteq Bytes
    BY DEF Burned
  <2> QED BY <2>1, <2>2, BurnedGrows DEF Ledger!LNext, Ledger!Burn
<1> QED BY <1>1, <1>2

\* Every behaviour of a store whose renames persist is one of the ledger:
\* bytes are burned for good, and issued once, after they are burned.
THEOREM StoreImplementsLedger ==
  ASSUME RenameDurable PROVE Spec => ImplementsLedger
<1>1. IInv /\ IInv' /\ [Next]_vars => [Ledger!LNext]_Ledger!lvars
  BY LedgerStep
<1> QED
  BY <1>1, LedgerInit, Inductive, PTL DEF Spec, ImplementsLedger, Ledger!LSpec
=============================================================================
