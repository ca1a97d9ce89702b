--------------------------- MODULE SharedJournal ---------------------------
(***************************************************************************)
(* Several processes, each with a PadStore of pad_store.rs, in one         *)
(* directory.  Nothing locks a journal, and with_extension("tmp") gives    *)
(* every journal of one stem the same temporary file, so that stores meet  *)
(* in two ways: on a journal, whose offset each caches for itself, and in  *)
(* the temporary file, where one truncates what another is writing, or     *)
(* renames it away.                                                        *)
(*                                                                         *)
(* Files are inodes: a name refers to one, and so does an open descriptor, *)
(* which keeps it through truncation and renaming.  A store is opened by   *)
(* new or finalize_fill, which end in load_journal; what PadStore says of  *)
(* power loss, damage and the buffer is left out.                          *)
(***************************************************************************)
EXTENDS Naturals, FiniteSets, Functions

CONSTANTS
  Process,
  Path,       \* journal paths that differ in their extension only
  Tmp,        \* the temporary path they share
  Material,
  PadSize,
  None,       \* an unset field
  Absent,     \* no file of that name
  Torn        \* content of the wrong length

Offset == 0 .. PadSize
Bytes == Material \X (0 .. PadSize - 1)
Record == [off : Offset, key : Material]
Inode == 1 .. Cardinality(Path) + 1 + Cardinality(Process)

ASSUME SizeAssumption == PadSize \in Nat \ {0}
ASSUME FiniteAssumption == IsFiniteSet(Path) /\ IsFiniteSet(Process)
ASSUME NameAssumption == Tmp \notin Path /\ Torn \notin Record
ASSUME AbsentAssumption == Absent \notin Inode
ASSUME NoneAssumption == None \notin Inode \cup Offset \cup Path \cup Material

VARIABLES
  pc,        \* [Process -> where its store stands]
  material,  \* [Process -> the pad in its buffer]
  journal,   \* [Process -> journal_path]
  consumed,  \* [Process -> consumed_offset]
  target,    \* [Process -> the offset being recorded]
  fd,        \* [Process -> the inode of the temporary file it has open]
  name,      \* [Path and Tmp -> the inode of that name, or Absent]
  data,      \* [Inode -> its content]
  home,      \* history: [Material -> the path it was first opened at]
  twins,     \* history: materials with two stores at once, or at two paths
  met,       \* history: live stores that shared their time with another
  issued,    \* history: bytes returned of pads not among the twins
  reused     \* history: such a byte was returned again

store == <<material, journal, consumed, target>>
disk == <<fd, name, data>>
history == <<home, twins, met, issued, reused>>
vars == <<pc, store, disk, history>>

Init ==
  /\ pc = [p \in Process |-> "none"]
  /\ material = [p \in Process |-> None] /\ journal \in [Process -> Path]
  /\ consumed = [p \in Process |-> None] /\ target = [p \in Process |-> 0]
  /\ fd = [p \in Process |-> None]
  /\ name = [f \in Path \cup {Tmp} |-> Absent]
  /\ data = [i \in Inode |-> Torn]
  /\ home = [m \in Material |-> None] /\ twins = {} /\ met = {}
  /\ issued = {} /\ reused = FALSE

Goes(p, a, b) == pc[p] = a /\ pc' = [pc EXCEPT ![p] = b]

\* An inode with neither a name nor a descriptor is free; its data is gone.
Used(names, fds) == (Range(names) \cup Range(fds)) \cap Inode
Free == CHOOSE i \in Inode : i \notin Used(name, fd)
Settle(d) == data' = [i \in Inode |->
               IF i \in Used(name', fd') THEN d[i] ELSE Torn]

Live == {p \in Process : pc[p] # "none"}

(***************************************************************************)
(* Opening: new and finalize_fill, up to load_journal                      *)
(***************************************************************************)
Open(p, m) ==
  /\ Goes(p, "none", "load")
  /\ material' = [material EXCEPT ![p] = m]
  /\ home' = [home EXCEPT ![m] = IF @ = None THEN journal[p] ELSE @]
  /\ twins' = IF home'[m] # journal[p] \/ \E q \in Live : material[q] = m
              THEN twins \cup {m} ELSE twins
  /\ met' = IF Live = {} THEN met ELSE met \cup Live \cup {p}
  /\ issued' = {b \in issued : b[1] \notin twins'}
  /\ UNCHANGED <<journal, consumed, target, disk, reused>>

\* The object and its descriptor are gone: clear and drop, the process dies,
\* or a constructor returns its error.
Close(p) ==
  /\ pc[p] # "none" /\ pc' = [pc EXCEPT ![p] = "none"]
  /\ material' = [material EXCEPT ![p] = None]
  /\ consumed' = [consumed EXCEPT ![p] = None]
  /\ target' = [target EXCEPT ![p] = 0]
  /\ fd' = [fd EXCEPT ![p] = None]
  /\ met' = met \ {p}
  /\ UNCHANGED <<journal, name, home, twins, issued, reused>>
  /\ Settle(data)

LoadAbsent(p) ==
  /\ Goes(p, "load", "create") /\ name[journal[p]] = Absent
  /\ UNCHANGED <<store, disk, history>>

\* Mutant: the MAC is not looked at.
Accepts_NoMac(p, r) == r \in Record

\* The record is complete and under the key of the material in the buffer.
Accepts(p, r) == r \in Record /\ r.key = material[p]

\* The file is read while others may rename a new one over it; any other
\* content is refused, and the constructor fails (Close).
LoadAccepted(p) ==
  /\ Goes(p, "load", "idle") /\ name[journal[p]] # Absent
  /\ LET r == data[name[journal[p]]] IN
       /\ Accepts(p, r)
       /\ consumed' = [consumed EXCEPT ![p] = r.off]
  /\ UNCHANGED <<material, journal, target, disk, history>>

(***************************************************************************)
(* reserve_common and write_journal_static                                 *)
(***************************************************************************)
\* Mutant: the end of the reservation may lie one past the pad.
Reserve_OffByOne(p, n) ==
  /\ Goes(p, "idle", "create")
  /\ consumed[p] + n <= PadSize + 1
  /\ target' = [target EXCEPT ![p] = consumed[p] + n]
  /\ UNCHANGED <<material, journal, consumed, disk, history>>

\* From the cached offset, whatever the file says by now.
Reserve(p, n) ==
  /\ Goes(p, "idle", "create")
  /\ consumed[p] + n <= PadSize
  /\ target' = [target EXCEPT ![p] = consumed[p] + n]
  /\ UNCHANGED <<material, journal, consumed, disk, history>>

\* File::create: the file of that name is truncated, whoever has it open.
CreateTmp(p) ==
  /\ Goes(p, "create", "write")
  /\ LET i == IF name[Tmp] = Absent THEN Free ELSE name[Tmp] IN
       /\ name' = [name EXCEPT ![Tmp] = i]
       /\ fd' = [fd EXCEPT ![p] = i]
       /\ Settle([data EXCEPT ![i] = Torn])
  /\ UNCHANGED <<store, history>>

\* write_all, into the inode in hand, under whatever name it has by now;
\* sync_all, and the descriptor is closed.
WriteTmp(p) ==
  /\ Goes(p, "write", "rename")
  /\ fd' = [fd EXCEPT ![p] = None]
  /\ UNCHANGED <<store, name, history>>
  /\ Settle([data EXCEPT ![fd[p]] = [off |-> target[p], key |-> material[p]]])

\* Mutant: an error of rename is dropped.
RenameTmp_Unchecked(p) ==
  /\ Goes(p, "rename", "commit")
  /\ name' = IF name[Tmp] = Absent THEN name
             ELSE [name EXCEPT ![journal[p]] = name[Tmp], ![Tmp] = Absent]
  /\ UNCHANGED <<store, fd, history>>
  /\ Settle(data)

\* What is renamed is the file of that name, not the one that was written.
RenameTmp(p) ==
  /\ Goes(p, "rename", "commit") /\ name[Tmp] # Absent
  /\ name' = [name EXCEPT ![journal[p]] = name[Tmp], ![Tmp] = Absent]
  /\ UNCHANGED <<store, fd, history>>
  /\ Settle(data)

\* One of the system calls fails, as rename does when the name is gone; a
\* reserve returns its error and leaves the store as it was.
IoError(p) ==
  /\ pc[p] \in {"create", "write", "rename"} /\ consumed[p] # None
  /\ pc' = [pc EXCEPT ![p] = "idle"]
  /\ target' = [target EXCEPT ![p] = 0]
  /\ fd' = [fd EXCEPT ![p] = None]
  /\ UNCHANGED <<material, journal, consumed, name, history>>
  /\ Settle(data)

\* The bytes a reserve returns; none for a constructor.
Returned(p) ==
  {b \in Bytes : consumed[p] # None /\ b[1] = material[p]
                 /\ consumed[p] <= b[2] /\ b[2] < target[p]}

\* The cache advances, and reserve returns the bytes below.
Commit(p) ==
  /\ Goes(p, "commit", "idle")
  /\ consumed' = [consumed EXCEPT ![p] = target[p]]
  /\ target' = [target EXCEPT ![p] = 0]
  /\ IF material[p] \in twins THEN UNCHANGED <<issued, reused>>
     ELSE /\ issued' = issued \cup Returned(p)
          /\ reused' = (reused \/ Returned(p) \cap issued # {})
  /\ UNCHANGED <<material, journal, disk, home, twins, met>>

(***************************************************************************)
(* The specification                                                       *)
(***************************************************************************)
Step(p) ==
  \/ \E m \in Material : Open(p, m)
  \/ Close(p) \/ LoadAbsent(p) \/ LoadAccepted(p)
  \/ \E n \in 1 .. PadSize : Reserve(p, n)
  \/ CreateTmp(p) \/ WriteTmp(p) \/ RenameTmp(p)
  \/ IoError(p) \/ Commit(p)

Next == \E p \in Process : Step(p)

Spec == Init /\ [][Next]_vars

(***************************************************************************)
(* Properties                                                              *)
(***************************************************************************)
\* The types of the variables; a descriptor is open while it is written.
TypeOK ==
  /\ pc \in [Process -> {"none", "load", "create", "write", "rename", "commit",
                         "idle"}]
  /\ material \in [Process -> Material \cup {None}]
  /\ journal \in [Process -> Path]
  /\ consumed \in [Process -> Offset \cup {None}]
  /\ target \in [Process -> Offset]
  /\ fd \in [Process -> Inode \cup {None}]
  /\ name \in [Path \cup {Tmp} -> Inode \cup {Absent}]
  /\ data \in [Inode -> Record \cup {Torn}]
  /\ home \in [Material -> Path \cup {None}]
  /\ twins \subseteq Material /\ met \subseteq Live
  /\ issued \subseteq Bytes /\ reused \in BOOLEAN
  /\ \A p \in Process :
       /\ fd[p] # None <=> pc[p] = "write"
       /\ pc[p] = "idle" => consumed[p] # None
       /\ pc[p] \in {"none", "load"} => consumed[p] = None

\* A byte is returned twice only of a pad that two stores had open at a time,
\* or that was opened at two paths.  Stores of different pads may get into
\* each other's temporary file and journal in any way: that costs bytes and
\* journals, and never brings an offset back (load_journal's MAC).
ReuseNeedsTwins == ~reused

\* A store that was alone all its life finds its own offset under its own
\* key in its journal between calls, whatever dead stores left behind in the
\* temporary file or at the journal path.
AloneIsCoherent ==
  \A p \in Process : pc[p] = "idle" /\ p \notin met =>
    /\ name[journal[p]] # Absent
    /\ data[name[journal[p]]] = [off |-> consumed[p], key |-> material[p]]
=============================================================================
