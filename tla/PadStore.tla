------------------------------ MODULE PadStore ------------------------------
(***************************************************************************)
(* The pad store of src/src/pad_store.rs: pad material in a locked buffer, *)
(* a cached offset of the first unconsumed byte, and a 40-byte journal     *)
(* file holding that offset under a MAC keyed by the material.  One store  *)
(* object at a time uses the journal path; objects follow one another      *)
(* through drops, process crashes and power losses.                        *)
(*                                                                         *)
(* Material is a model value: the keyed hash that derives the MAC key is   *)
(* taken to be injective, so a key is named by the content it comes from.  *)
(* A journal record is three values: the offset field and the offset and   *)
(* key its MAC was computed from.  Each call of File::create, write_all,   *)
(* sync_all and fs::rename is a step of its own that may fail, and the     *)
(* process may die between any two of them.                                *)
(***************************************************************************)
EXTENDS Naturals, FiniteSets

CONSTANTS
  PadSize,        \* bytes in the pad
  Material,       \* the pad materials callers bring
  Zero,           \* the content of an erased buffer
  None, Absent, Torn,
                  \* an unset Option; a missing file; a file of wrong length
  RenameDurable,  \* does a rename survive power loss once it returned?
  ReuseCleared    \* do callers refill a store after clear()?

Content == Material \cup {Zero}
Offset == 0 .. PadSize
Position == 0 .. PadSize - 1
Bytes == Content \X Position
Record == [off : 0 .. PadSize + 1, macOff : Offset, macKey : Content]
File == Record \cup {Absent, Torn}

ASSUME PadSizeAssumption == PadSize \in Nat \ {0}
ASSUME ContentAssumption == Zero \notin Material /\ None \notin Content
ASSUME OffsetAssumption == None \notin Nat
ASSUME FileAssumption == Absent # Torn /\ {Absent, Torn} \cap Record = {}
ASSUME SwitchAssumption == RenameDurable \in BOOLEAN /\ ReuseCleared \in BOOLEAN

VARIABLES
  live,      \* a PadStore object exists (or is being constructed)
  buf,       \* the content of its buffer
  locked,    \* LockedBuffer.locked
  filled,    \* PadStore.filled
  consumed,  \* PadStore.consumed_offset
  key,       \* PadStore.mac_key: the content it was derived from
  op,        \* the call in progress
  pc,        \* where that call stands
  need,      \* n of the reserve in progress
  ret,       \* the outcome of the last call
  tmp,       \* the journal's .tmp file
  synced,    \* sync_all of that file returned
  journal,   \* the file at journal_path
  durable,   \* what a power loss would leave at journal_path at worst
  issued     \* history: how often each byte was returned by reserve

store == <<live, buf, locked, filled, consumed, key>>
call == <<op, pc, need>>
disk == <<tmp, synced, journal, durable>>
vars == <<live, buf, locked, filled, consumed, key, op, pc, need, ret,
          tmp, synced, journal, durable, issued>>

(***************************************************************************)
(* The journal record                                                      *)
(***************************************************************************)
Rec(o, k) == [off |-> o, macOff |-> o, macKey |-> k]

\* The record is as some store wrote it.
Intact(f) == f \in Record /\ f.off = f.macOff

\* Mutant: the MAC is not compared.
Accepts_NoMac(f, k) == f \in Record /\ f.off <= PadSize

\* Mutant: an exhausted pad is out of bounds.
Accepts_Strict(f, k) ==
  f \in Record /\ f.off < PadSize /\ f.off = f.macOff /\ f.macKey = k

\* load_journal accepts the file: right length, offset in bounds, right MAC.
Accepts(f, k) ==
  /\ f \in Record
  /\ f.off <= PadSize
  /\ f.off = f.macOff
  /\ f.macKey = k

(***************************************************************************)
(* Construction and destruction of the object                              *)
(***************************************************************************)
NoStore ==
  /\ live = FALSE /\ buf = Zero /\ locked = FALSE /\ filled = FALSE
  /\ consumed = None /\ key = None

Idle == op = "none" /\ pc = "idle" /\ need = 0

Init ==
  /\ NoStore /\ Idle /\ ret = "none"
  /\ tmp = Absent /\ synced = FALSE
  /\ journal = Absent /\ durable = Absent
  /\ issued = [b \in Bytes |-> 0]

\* The object is gone: dropped, never returned, or lost with its process.
Gone ==
  /\ live' = FALSE /\ buf' = Zero /\ locked' = FALSE /\ filled' = FALSE
  /\ consumed' = None /\ key' = None

\* Mutant: munlock without erasing.
EraseBuf_Kept == buf' = buf /\ locked' = FALSE

\* LockedBuffer::clear: erase and munlock, unless already unlocked.
EraseBuf ==
  /\ buf' = IF locked THEN Zero ELSE buf
  /\ locked' = FALSE

Return(r) == ret' = r /\ op' = "none" /\ pc' = "idle" /\ need' = 0

\* A call in progress fails: the constructor and finalize_fill erase the
\* buffer, reserve leaves the store as it was.
CallFails(r) ==
  /\ Return(r)
  /\ \/ op = "new" /\ Gone
     \/ op = "finalize" /\ EraseBuf /\ UNCHANGED <<live, filled, consumed, key>>
     \/ op = "reserve" /\ UNCHANGED store

\* new with material m, given by the caller or drawn from /dev/urandom.
New(m) ==
  /\ ~live
  /\ live' = TRUE /\ buf' = m /\ locked' = TRUE /\ filled' = FALSE
  /\ consumed' = None /\ key' = m
  /\ op' = "new" /\ pc' = "load"
  /\ UNCHANGED <<need, ret, disk, issued>>

NewDeferred ==
  /\ ~live
  /\ live' = TRUE /\ buf' = Zero /\ locked' = TRUE /\ filled' = FALSE
  /\ consumed' = None /\ key' = None
  /\ Return("ok")
  /\ UNCHANGED <<disk, issued>>

\* The buffer cannot be had, the arguments do not fit, or /dev/urandom fails.
NewRejected ==
  /\ ~live
  /\ \E r \in {"Locked", "InvalidArgs", "Io"} : Return(r)
  /\ UNCHANGED <<store, disk, issued>>

Clear ==
  /\ live /\ pc = "idle"
  /\ EraseBuf
  /\ filled' = FALSE
  /\ Return("ok")
  /\ UNCHANGED <<live, consumed, key, disk, issued>>

Drop ==
  /\ live /\ pc = "idle"
  /\ Gone
  /\ UNCHANGED <<call, ret, disk, issued>>

(***************************************************************************)
(* Deferred filling                                                        *)
(***************************************************************************)
\* The caller writes content c through as_mut_ptr.
Populate(c) ==
  /\ live /\ pc = "idle"
  /\ buf' = c
  /\ UNCHANGED <<live, locked, filled, consumed, key, call, ret, disk, issued>>

FinalizeFill ==
  /\ live /\ pc = "idle" /\ ~filled
  /\ key' = buf
  /\ op' = "finalize" /\ pc' = "load"
  /\ UNCHANGED <<live, buf, locked, filled, consumed, need, ret, disk, issued>>

FinalizeAgain ==
  /\ live /\ pc = "idle" /\ filled
  /\ Return("AlreadyFinalized")
  /\ UNCHANGED <<store, disk, issued>>

(***************************************************************************)
(* load_journal                                                            *)
(***************************************************************************)
Adopt(o) ==
  /\ consumed' = o
  /\ filled' = TRUE
  /\ UNCHANGED <<live, buf, locked, key>>
  /\ Return("ok")

\* Mutant: a journal under another key is initialized afresh.
LoadAbsent_Reinit ==
  /\ pc = "load" /\ ~Accepts(journal, key)
  /\ pc' = "create"
  /\ UNCHANGED <<store, op, need, ret, disk, issued>>

LoadAbsent ==
  /\ pc = "load" /\ journal = Absent
  /\ pc' = "create"
  /\ UNCHANGED <<store, op, need, ret, disk, issued>>

LoadAccepted ==
  /\ pc = "load" /\ Accepts(journal, key)
  /\ Adopt(journal.off)
  /\ UNCHANGED <<disk, issued>>

LoadRefused ==
  /\ pc = "load" /\ journal # Absent
  /\ \/ ~Accepts(journal, key) /\ CallFails("CorruptJournal")
     \/ CallFails("Io")        \* fs::read fails
  /\ UNCHANGED <<disk, issued>>

(***************************************************************************)
(* reserve and reserve_into                                                *)
(***************************************************************************)
\* Mutant: the end of the reservation may lie one past the pad.
Reserve_OffByOne(n) ==
  /\ live /\ pc = "idle" /\ filled
  /\ n > 0 /\ consumed + n <= PadSize + 1
  /\ op' = "reserve" /\ pc' = "create" /\ need' = n
  /\ UNCHANGED <<store, ret, disk, issued>>

Reserve(n) ==
  /\ live /\ pc = "idle" /\ filled
  /\ n > 0 /\ consumed + n <= PadSize
  /\ op' = "reserve" /\ pc' = "create" /\ need' = n
  /\ UNCHANGED <<store, ret, disk, issued>>

ReserveRejected ==
  /\ live /\ pc = "idle"
  /\ \/ Return("InvalidArgs")                    \* n = 0, dest too short
     \/ ~filled /\ Return("NotFinalized")
     \/ filled /\ Return("Exhausted")
  /\ UNCHANGED <<store, disk, issued>>

(***************************************************************************)
(* write_journal_static                                                    *)
(***************************************************************************)
\* The offset being recorded: the end of the reservation, 0 for a new file.
Target == IF op = "reserve" THEN consumed + need ELSE 0

CreateTmp ==
  /\ pc = "create"
  /\ tmp' = Torn /\ synced' = FALSE
  /\ pc' = "write"
  /\ UNCHANGED <<store, op, need, ret, journal, durable, issued>>

WriteTmp ==
  /\ pc = "write"
  /\ tmp' = Rec(Target, key)
  /\ pc' = "sync"
  /\ UNCHANGED <<store, op, need, ret, synced, journal, durable, issued>>

\* Mutant: sync_all is left out.
SyncTmp_Skipped ==
  /\ pc = "sync"
  /\ pc' = "rename"
  /\ UNCHANGED <<store, op, need, ret, disk, issued>>

SyncTmp ==
  /\ pc = "sync"
  /\ synced' = TRUE
  /\ pc' = "rename"
  /\ UNCHANGED <<store, op, need, ret, tmp, journal, durable, issued>>

\* A rename that does not persist leaves what was there before, or, when that
\* was not on the medium yet either, what was there before that.
RenameTmp ==
  /\ pc = "rename"
  /\ journal' = tmp
  /\ IF RenameDurable THEN durable' = IF synced THEN tmp ELSE Torn
                      ELSE durable' \in {durable, journal}
  /\ tmp' = Absent /\ synced' = FALSE
  /\ pc' = "commit"
  /\ UNCHANGED <<store, op, need, ret, issued>>

\* Mutant: the error of a failed rename is dropped.
IoError_Ignored ==
  /\ pc \in {"create", "write", "sync", "rename"}
  /\ \/ pc = "rename" /\ pc' = "commit" /\ UNCHANGED <<store, op, need, ret>>
     \/ pc # "rename" /\ CallFails("Io")
  /\ UNCHANGED <<disk, issued>>

\* One of the four system calls fails; what the earlier ones did remains.
IoError ==
  /\ pc \in {"create", "write", "sync", "rename"}
  /\ CallFails("Io")
  /\ UNCHANGED <<disk, issued>>

\* The first record is in place: the store is filled.
CommitFill ==
  /\ pc = "commit" /\ op \in {"new", "finalize"}
  /\ Adopt(Target)
  /\ UNCHANGED <<disk, issued>>

\* Mutant: the cached offset is not advanced.
CommitReserve_Stale ==
  /\ pc = "commit" /\ op = "reserve"
  /\ issued' = [b \in Bytes |->
       IF b[1] = buf /\ consumed <= b[2] /\ b[2] < Target
       THEN issued[b] + 1 ELSE issued[b]]
  /\ Return("ok")
  /\ UNCHANGED <<store, disk>>

\* Mutant: one byte more is handed out than was recorded.
CommitReserve_PastEnd ==
  /\ pc = "commit" /\ op = "reserve"
  /\ consumed' = Target
  /\ issued' = [b \in Bytes |->
       IF b[1] = buf /\ consumed <= b[2] /\ b[2] <= Target
       THEN issued[b] + 1 ELSE issued[b]]
  /\ Return("ok")
  /\ UNCHANGED <<live, buf, locked, filled, key, disk>>

\* The advanced record is in place: update the cache, hand out the bytes.
CommitReserve ==
  /\ pc = "commit" /\ op = "reserve"
  /\ consumed' = Target
  /\ issued' = [b \in Bytes |->
       IF b[1] = buf /\ consumed <= b[2] /\ b[2] < Target
       THEN issued[b] + 1 ELSE issued[b]]
  /\ Return("ok")
  /\ UNCHANGED <<live, buf, locked, filled, key, disk>>

(***************************************************************************)
(* The environment                                                         *)
(***************************************************************************)
\* The process dies, at any point of any call.
Crash ==
  /\ live
  /\ Gone /\ Return("none")
  /\ UNCHANGED <<disk, issued>>

\* The machine dies: a rename not yet on the medium may be undone.
PowerLoss ==
  /\ Gone /\ Return("none")
  /\ journal' \in {journal, durable}
  /\ durable' = journal'
  /\ tmp' \in {tmp, Absent, Torn} /\ synced' = FALSE
  /\ UNCHANGED issued

\* Something else changes the file: its length, or its offset field.
Damage ==
  /\ Intact(journal)
  /\ \/ journal' = Torn
     \/ \E o \in 0 .. PadSize + 1 :
          o # journal.off /\ journal' = [journal EXCEPT !.off = o]
  /\ durable' = journal'
  /\ UNCHANGED <<store, call, ret, tmp, synced, issued>>

(***************************************************************************)
(* The specification                                                       *)
(***************************************************************************)
\* A caller that follows the documentation populates and finalizes a store
\* it deferred, and not one it cleared.
Refillable == ~filled /\ (locked \/ ReuseCleared)

Begin ==
  \/ \E m \in Material : New(m)
  \/ NewDeferred \/ NewRejected
  \/ \E m \in Material : Refillable /\ Populate(m)
  \/ Refillable /\ FinalizeFill
  \/ FinalizeAgain
  \/ \E n \in 1 .. PadSize : Reserve(n)
  \/ ReserveRejected
  \/ Clear \/ Drop

Continue ==
  \/ LoadAbsent \/ LoadAccepted \/ LoadRefused
  \/ CreateTmp \/ WriteTmp \/ SyncTmp \/ RenameTmp \/ IoError
  \/ CommitFill \/ CommitReserve

Environment == Crash \/ PowerLoss \/ Damage

Next == Begin \/ Continue \/ Environment

Spec == Init /\ [][Next]_vars

(***************************************************************************)
(* Properties                                                              *)
(***************************************************************************)
Outcome == {"none", "ok", "Locked", "Io", "CorruptJournal", "Exhausted",
            "NotFinalized", "AlreadyFinalized", "InvalidArgs"}

\* The types of the variables, and which fields are set when: the unwrap()s
\* of remaining, reserve_common and write_journal never meet a None.
TypeOK ==
  /\ live \in BOOLEAN /\ locked \in BOOLEAN /\ filled \in BOOLEAN
  /\ buf \in Content
  /\ consumed \in Offset \cup {None}
  /\ key \in Content \cup {None}
  /\ op \in {"none", "new", "finalize", "reserve"}
  /\ pc \in {"idle", "load", "create", "write", "sync", "rename", "commit"}
  /\ need \in Offset
  /\ ret \in Outcome
  /\ tmp \in File /\ synced \in BOOLEAN
  /\ journal \in File /\ durable \in File
  /\ issued \in [Bytes -> Nat]
  /\ filled => live /\ consumed # None
  /\ filled \/ pc # "idle" => key # None
  /\ pc = "idle" <=> op = "none"
  /\ pc # "idle" => live
  /\ op = "reserve" => filled /\ need > 0 /\ consumed + need <= PadSize
  /\ op \in {"new", "finalize"} => ~filled
  /\ op # "reserve" => need = 0
  /\ pc = "load" => op # "reserve"

\* No byte of pad material is ever returned twice, by one store object or by
\* two that follow each other on the journal across drops, crashes and
\* damage to the file (pad_store.rs, reserve_common and load_journal).
NoReuse == \A b \in Bytes : issued[b] <= 1

\* Burn before use: whatever was returned lies below the offset of the
\* journal file, so a restart at any moment resumes above it (reserve_common
\* writes the journal before it returns the slice).
BurnBeforeUse ==
  \A b \in Bytes : issued[b] > 0 =>
    /\ journal # Absent
    /\ Intact(journal) => b[1] = journal.macKey /\ b[2] < journal.off

\* Between calls the cached offset of a usable store is the journal's, under
\* the key of the material in the buffer: no failed call leaves them apart,
\* and an I/O error burns nothing (reserve_common, finalize_fill, new).
CacheCoherent ==
  filled /\ pc = "idle" /\ Intact(journal) =>
    journal = Rec(consumed, buf)

\* Material never sits in memory that clear() has munlocked
\* (locked_buffer.rs clear, pad_store.rs clear and the error paths).
MaterialLocked == buf # Zero => locked

\* The recorded offset never goes back and the journal never changes hands:
\* not by load_journal, not by a failed write, not by a restart.
OffsetNeverRetreats ==
  [][Intact(journal) /\ Intact(journal') =>
       /\ journal'.macKey = journal.macKey
       /\ journal'.off >= journal.off]_vars

\* No crash, power loss or failed system call of the store leaves a torn file
\* at journal_path; only something outside the program can.
NeverTorn == [][journal # Torn /\ journal' = Torn => Damage]_vars

\* load_journal refuses no journal that a store with the same material wrote,
\* not even that of an exhausted pad.
RefusesOnlyDamage ==
  [][pc = "load" /\ ret' = "CorruptJournal" /\ pc' = "idle" =>
       ~(Intact(journal) /\ journal.macKey = buf)]_vars

(***************************************************************************)
(* Why NoReuse holds: an inductive invariant, for a rename that persists.  *)
(***************************************************************************)
\* A call that has the journal in hand, and the offset that call will leave.
Holding == filled \/ pc = "commit"
Reach == IF pc = "commit" THEN Target ELSE consumed

\* While a key is in use it is the key of the material in the buffer.
KeyOfBuffer == filled \/ pc # "idle" => key = buf

\* Before the first record nothing was issued and no store is usable, and
\* only the first record is ever written by a constructor or finalize_fill.
FirstRecord ==
  /\ journal = Absent => ~Holding /\ \A b \in Bytes : issued[b] = 0
  /\ pc \in {"create", "write", "sync", "rename"} /\ op # "reserve" =>
       journal = Absent

\* The temporary file is complete and synced when it is renamed.
TmpReady ==
  /\ pc \in {"sync", "rename"} => tmp = Rec(Target, key)
  /\ pc = "rename" => synced

\* The MAC in the file is of the offset and key of the store that holds it.
JournalHeld ==
  Holding /\ journal \in Record =>
    journal.macKey = key /\ journal.macOff = Reach

\* What was issued lies below the offset the MAC vouches for, and below the
\* cached offset of a usable store (none at all if it never was usable).
IssuedBelow ==
  \A b \in Bytes : issued[b] > 0 =>
    /\ journal \in Record => b[1] = journal.macKey /\ b[2] < journal.macOff
    /\ Holding => filled /\ b[1] = key /\ b[2] < consumed

\* The inductive invariant of a store whose renames persist.
IInv ==
  /\ TypeOK
  /\ durable = journal
  /\ KeyOfBuffer /\ FirstRecord /\ TmpReady /\ JournalHeld
  /\ IssuedBelow /\ NoReuse

(***************************************************************************)
(* The store implements the ledger of PadLedger: a byte is burned once it  *)
(* lies below the recorded offset.  When the file was damaged the cache of *)
(* the live store still says how far; with no store left, no byte of any   *)
(* material can be issued any more.                                        *)
(***************************************************************************)
Burned ==
  IF journal = Absent THEN {}
  ELSE IF Intact(journal)
       THEN {b \in Bytes : b[1] = journal.macKey /\ b[2] < journal.off}
  ELSE IF Holding THEN {b \in Bytes : b[1] = key /\ b[2] < Reach}
  ELSE Bytes

Ledger == INSTANCE PadLedger WITH burned <- Burned

\* Every step burns bytes or issues burned bytes for the first time.
ImplementsLedger == Ledger!LSpec
=============================================================================
