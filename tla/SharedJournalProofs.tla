------------------------ MODULE SharedJournalProofs -------------------------
(***************************************************************************)
(* Theorems of SharedJournal for any number of processes, journals and     *)
(* materials, and any pad size.                                            *)
(***************************************************************************)
EXTENDS SharedJournal, TLAPS, FiniteSetTheorems

File == Path \cup {Tmp}

\* There are fewer names and descriptors than inodes, so that File::create
\* always finds one that is free.
LEMMA FreeExists ==
  ASSUME TypeOK, name[Tmp] = Absent
  PROVE  Free \in Inode /\ Free \notin Used(name, fd)
<1> DEFINE named == {name[f] : f \in Path}
           opened == {fd[p] : p \in Process}
<1>1. IsFiniteSet(named) /\ Cardinality(named) <= Cardinality(Path)
  <2> DEFINE g == [f \in Path |-> name[f]]
  <2>1. g \in Surjection(Path, named)
    BY DEF Surjection
  <2> HIDE DEF g, named
  <2> QED BY <2>1, FiniteAssumption, FS_Surjection
<1>2. IsFiniteSet(opened) /\ Cardinality(opened) <= Cardinality(Process)
  <2> DEFINE g == [p \in Process |-> fd[p]]
  <2>1. g \in Surjection(Process, opened)
    BY DEF Surjection
  <2> HIDE DEF g, opened
  <2> QED BY <2>1, FiniteAssumption, FS_Surjection
<1>3. Used(name, fd) \subseteq named \cup opened
  BY AbsentAssumption DEF Used, Range, TypeOK
<1>4. Cardinality(Path) \in Nat /\ Cardinality(Process) \in Nat
  BY FiniteAssumption, FS_CardinalityType
<1>5. Cardinality(Inode) = Cardinality(Path) + 1 + Cardinality(Process)
  BY <1>4, FS_Interval DEF Inode
<1> HIDE DEF named, opened
<1>6. IsFiniteSet(named \cup opened)
      /\ Cardinality(named \cup opened) <= Cardinality(named) + Cardinality(opened)
  <2>1. IsFiniteSet(named \cap opened) /\ IsFiniteSet(named \cup opened)
        /\ Cardinality(named \cup opened)
             = Cardinality(named) + Cardinality(opened) - Cardinality(named \cap opened)
    <3>1. named \cap opened \in SUBSET named
      OBVIOUS
    <3> QED BY <1>1, <1>2, <3>1, FS_Subset, FS_Union
  <2>2. Cardinality(named) \in Nat /\ Cardinality(opened) \in Nat
        /\ Cardinality(named \cap opened) \in Nat
    BY <1>1, <1>2, <2>1, FS_CardinalityType
  <2> QED
    BY <2>1, <2>2
<1>7. ~ (Inode \subseteq named \cup opened)
  <2> SUFFICES ASSUME Inode \subseteq named \cup opened PROVE FALSE
    OBVIOUS
  <2>1. Cardinality(Inode) <= Cardinality(named \cup opened)
    BY <1>6, FS_Subset
  <2>2. Cardinality(named) \in Nat /\ Cardinality(opened) \in Nat
        /\ Cardinality(named \cup opened) \in Nat
    BY <1>1, <1>2, <1>6, FS_CardinalityType
  <2> QED
    BY <1>1, <1>2, <1>4, <1>5, <1>6, <2>1, <2>2
<1>8. \E i \in Inode : i \notin Used(name, fd)
  BY <1>3, <1>7
<1> QED
  BY <1>8 DEF Free

(***************************************************************************)
(* Types                                                                   *)
(***************************************************************************)
\* A store that is opened has material.
HasMaterial == \A p \in Live : material[p] \in Material

LEMMA TypeInit == Init => TypeOK /\ HasMaterial
<1> SUFFICES ASSUME Init PROVE TypeOK /\ HasMaterial
  OBVIOUS
<1>1. 0 \in Offset
  BY SizeAssumption DEF Offset
<1>2. Live = {}
  BY DEF Init, Live
<1> QED
  BY <1>1, <1>2 DEF Init, TypeOK, HasMaterial

LEMMA TypeStep == TypeOK /\ HasMaterial /\ [Next]_vars => TypeOK' /\ HasMaterial'
<1> SUFFICES ASSUME TypeOK, HasMaterial, [Next]_vars PROVE TypeOK' /\ HasMaterial'
  OBVIOUS
<1> USE SizeAssumption, NoneAssumption DEF HasMaterial, Goes, Live, store, disk, history
<1>1. ASSUME NEW p \in Process, NEW m \in Material, Open(p, m)
      PROVE  TypeOK' /\ HasMaterial'
  BY <1>1 DEF Open, TypeOK
<1>2. ASSUME NEW p \in Process, Close(p) PROVE TypeOK' /\ HasMaterial'
  <2>1. data' \in [Inode -> Record \cup {Torn}]
    BY <1>2 DEF Close, Settle, TypeOK
  <2> QED
    BY <1>2, <2>1 DEF Close, TypeOK, Offset
<1>3. ASSUME NEW p \in Process, LoadAbsent(p) PROVE TypeOK' /\ HasMaterial'
  BY <1>3 DEF LoadAbsent, TypeOK
<1>4. ASSUME NEW p \in Process, LoadAccepted(p) PROVE TypeOK' /\ HasMaterial'
  <2>1. data[name[journal[p]]].off \in Offset
    BY <1>4 DEF LoadAccepted, Accepts, Record
  <2> QED
    BY <1>4, <2>1 DEF LoadAccepted, TypeOK
<1>5. ASSUME NEW p \in Process, NEW n \in 1 .. PadSize, Reserve(p, n)
      PROVE  TypeOK' /\ HasMaterial'
  <2>1. consumed[p] + n \in Offset
    BY <1>5 DEF Reserve, TypeOK, Offset
  <2> QED
    BY <1>5, <2>1 DEF Reserve, TypeOK
<1>6. ASSUME NEW p \in Process, CreateTmp(p) PROVE TypeOK' /\ HasMaterial'
  <2>1. \E i \in Inode : /\ name' = [name EXCEPT ![Tmp] = i]
                         /\ fd' = [fd EXCEPT ![p] = i]
                         /\ Settle([data EXCEPT ![i] = Torn])
    BY <1>6, FreeExists DEF CreateTmp, TypeOK
  <2>2. name' \in [File -> Inode \cup {Absent}]
        /\ data' \in [Inode -> Record \cup {Torn}]
    BY <2>1 DEF Settle, TypeOK, File
  <2> QED
    BY <1>6, <2>1, <2>2 DEF CreateTmp, TypeOK, File
<1>7. ASSUME NEW p \in Process, WriteTmp(p) PROVE TypeOK' /\ HasMaterial'
  <2>1. [off |-> target[p], key |-> material[p]] \in Record
    BY <1>7 DEF WriteTmp, TypeOK, Record
  <2>2. data' \in [Inode -> Record \cup {Torn}]
    BY <1>7, <2>1 DEF WriteTmp, Settle, TypeOK
  <2> QED
    BY <1>7, <2>2 DEF WriteTmp, TypeOK
<1>8. ASSUME NEW p \in Process, RenameTmp(p) PROVE TypeOK' /\ HasMaterial'
  <2>1. data' \in [Inode -> Record \cup {Torn}]
    BY <1>8 DEF RenameTmp, Settle, TypeOK
  <2>2. name' \in [File -> Inode \cup {Absent}]
    BY <1>8 DEF RenameTmp, TypeOK, File
  <2> QED
    BY <1>8, <2>1, <2>2 DEF RenameTmp, TypeOK, File
<1>9. ASSUME NEW p \in Process, IoError(p) PROVE TypeOK' /\ HasMaterial'
  <2>1. data' \in [Inode -> Record \cup {Torn}]
    BY <1>9 DEF IoError, Settle, TypeOK
  <2> QED
    BY <1>9, <2>1 DEF IoError, TypeOK, Offset
<1>10. ASSUME NEW p \in Process, Commit(p) PROVE TypeOK' /\ HasMaterial'
  <2>1. Returned(p) \subseteq Bytes
    BY DEF Returned
  <2>2. issued' \subseteq Bytes /\ reused' \in BOOLEAN
    BY <1>10, <2>1 DEF Commit, TypeOK
  <2>3. target[p] \in Offset /\ 0 \in Offset
    BY DEF TypeOK, Offset
  <2> QED
    BY <1>10, <2>2, <2>3 DEF Commit, TypeOK
<1>11. CASE UNCHANGED vars
  BY <1>11 DEF vars, TypeOK
<1> QED
  BY <1>1, <1>2, <1>3, <1>4, <1>5, <1>6, <1>7, <1>8, <1>9, <1>10, <1>11 DEF Next, Step

\* Every value stays in its range, and a descriptor is open while the file is
\* written and at no other time.
THEOREM TypeCorrect == Spec => []TypeOK
BY TypeInit, TypeStep, PTL DEF Spec

(***************************************************************************)
(* What the steps do to the files                                          *)
(***************************************************************************)
\* The file of name f holds the record r.
Holds(f, r) == name[f] \in Inode /\ data[name[f]] = r

\* The record that p writes.
Mine(p) == [off |-> target[p], key |-> material[p]]

\* File::create leaves no record under the temporary name, and makes none.
LEMMA CreateHolds ==
  ASSUME TypeOK, NEW p \in Process, CreateTmp(p),
         NEW f \in File, NEW r \in Record, Holds(f, r)'
  PROVE  f # Tmp /\ Holds(f, r)
<1>1. PICK i \in Inode : /\ name' = [name EXCEPT ![Tmp] = i]
                         /\ Settle([data EXCEPT ![i] = Torn])
  BY FreeExists DEF CreateTmp, TypeOK
<1>2. name'[f] \in Inode /\ name'[f] # i /\ r = data[name'[f]]
  BY <1>1, NameAssumption DEF Holds, Settle, TypeOK
<1>3. f # Tmp /\ name'[f] = name[f]
  BY <1>1, <1>2 DEF TypeOK, File
<1> QED
  BY <1>2, <1>3 DEF Holds

\* A write puts the writer's record into its inode, and into no other.
LEMMA WriteHolds ==
  ASSUME TypeOK, NEW p \in Process, WriteTmp(p),
         NEW f \in File, NEW r \in Record, Holds(f, r)'
  PROVE  r = Mine(p) \/ Holds(f, r)
BY NameAssumption DEF WriteTmp, Goes, Settle, Holds, Mine, TypeOK, File

\* A rename takes the temporary file, whosever it is, to the journal.
LEMMA RenameHolds ==
  ASSUME TypeOK, NEW p \in Process, RenameTmp(p),
         NEW f \in File, NEW r \in Record, Holds(f, r)'
  PROVE  f # Tmp /\ IF f = journal[p] THEN Holds(Tmp, r) ELSE Holds(f, r)
<1>1. name' = [name EXCEPT ![journal[p]] = name[Tmp], ![Tmp] = Absent]
      /\ journal[p] \in Path
  BY DEF RenameTmp, TypeOK
<1>2. f # Tmp
  BY <1>1, AbsentAssumption DEF Holds, TypeOK, File
<1>3. name'[f] = IF f = journal[p] THEN name[Tmp] ELSE name[f]
  BY <1>1, <1>2, NameAssumption DEF TypeOK, File
<1>4. r = data[name'[f]]
  BY NameAssumption DEF RenameTmp, Settle, Holds
<1> QED
  BY <1>2, <1>3, <1>4 DEF Holds

\* Closing a descriptor changes no file.
LEMMA ClosedHolds ==
  ASSUME Settle(data), name' = name,
         NEW f \in File, NEW r \in Record, Holds(f, r)'
  PROVE  Holds(f, r)
BY NameAssumption DEF Settle, Holds

(***************************************************************************)
(* Reuse                                                                   *)
(***************************************************************************)
Busy == {"create", "write", "rename", "commit"}

\* The bytes of m that were returned lie below o.
Below(m, o) == \A b \in issued : b[1] = m => b[2] < o

Plain == Material \ twins

\* A plain material has one store at a time, always at the same path.
OneStore ==
  /\ \A p, q \in Live : material[p] = material[q] /\ material[p] \in Plain => p = q
  /\ \A p \in Live : material[p] \in Plain => journal[p] = home[material[p]]

\* A record a store of m may ever read lies above what was returned, whichever
\* store brought it there: its journal, and the temporary file that some
\* store may rename to it.
FilesAhead ==
  \A m \in Plain, f \in File, r \in Record :
    Holds(f, r) /\ r.key = m /\ (f = Tmp \/ f = home[m]) => Below(m, r.off)

\* Where there is no journal nothing was returned.
NoFileNoBytes ==
  \A m \in Plain : home[m] = None \/ name[home[m]] = Absent => Below(m, 0)

\* The cache and the offset being recorded lie above what was returned.
StoreAhead ==
  \A p \in Live : material[p] \in Plain =>
    /\ consumed[p] # None => Below(material[p], consumed[p])
    /\ pc[p] \in Busy => Below(material[p], target[p])
    /\ pc[p] \in Busy /\ consumed[p] # None => consumed[p] <= target[p]

\* No file that a store of m may read falls behind the offset being recorded,
\* from the time the temporary file is truncated to the return of the bytes.
CallAhead ==
  \A p \in Live : material[p] \in Plain => \A r \in Record : r.key = material[p] =>
    /\ pc[p] = "write" => ~Holds(Tmp, r)
    /\ pc[p] \in {"rename", "commit"} /\ Holds(Tmp, r) => target[p] <= r.off
    /\ pc[p] = "commit" /\ Holds(journal[p], r) => target[p] <= r.off

\* Renamed is there.
CommitNamed == \A p \in Process : pc[p] = "commit" => name[journal[p]] # Absent

RInv ==
  /\ TypeOK /\ HasMaterial
  /\ OneStore /\ FilesAhead /\ NoFileNoBytes /\ StoreAhead /\ CallAhead
  /\ CommitNamed /\ ~reused

LEMMA RInit == Init => RInv
<1> SUFFICES ASSUME Init PROVE RInv
  OBVIOUS
<1>1. Live = {} /\ issued = {}
  BY DEF Init, Live
<1>2. \A m, o : Below(m, o)
  BY <1>1 DEF Below
<1>3. OneStore /\ FilesAhead /\ NoFileNoBytes /\ StoreAhead /\ CallAhead
  BY <1>1, <1>2 DEF OneStore, FilesAhead, NoFileNoBytes, StoreAhead, CallAhead
<1> QED
  BY <1>3, TypeInit DEF RInv, Init, CommitNamed

\* An opened store takes its material from the plain ones, or is the first of
\* that material and at its path.
LEMMA OpenKeepsRInv ==
  ASSUME RInv, NEW p \in Process, NEW m \in Material, Open(p, m)
  PROVE  /\ OneStore' /\ FilesAhead' /\ NoFileNoBytes' /\ StoreAhead'
         /\ CallAhead' /\ CommitNamed' /\ ~reused'
<1> USE DEF RInv
<1>1. /\ pc[p] = "none" /\ pc' = [pc EXCEPT ![p] = "load"]
      /\ material' = [material EXCEPT ![p] = m]
      /\ UNCHANGED <<journal, consumed, target, fd, name, data, reused>>
      /\ pc \in [Process -> {"none", "load", "create", "write", "rename",
                             "commit", "idle"}]
      /\ material \in [Process -> Material \cup {None}]
      /\ home \in [Material -> Path \cup {None}]
  BY DEF Open, Goes, disk, TypeOK
<1>2. Live' = Live \cup {p} /\ p \notin Live
  BY <1>1 DEF Live
<1>3. home' = [home EXCEPT ![m] = IF @ = None THEN journal[p] ELSE @]
      /\ twins \subseteq twins'
      /\ (m \notin twins' => home'[m] = journal[p] /\ \A q \in Live : material[q] # m)
  BY DEF Open
<1>4. Plain' \subseteq Plain /\ issued' \subseteq issued
  BY <1>3 DEF Plain, Open
<1>5. \A x, o : Below(x, o) => Below(x, o)'
  BY <1>4 DEF Below
<1>6. \A q \in Live : pc'[q] = pc[q] /\ material'[q] = material[q]
                      /\ material[q] \in Material
  BY <1>1, <1>2 DEF Live, HasMaterial
<1>7. pc'[p] = "load" /\ material'[p] = m
  BY <1>1
<1>8. OneStore'
  <2>1. ASSUME NEW q \in Live', NEW r \in Live', material'[q] = material'[r],
               material'[q] \in Plain'
        PROVE  q = r
    BY <1>2, <1>3, <1>4, <1>6, <1>7, <2>1 DEF OneStore, Plain
  <2>2. ASSUME NEW q \in Live', material'[q] \in Plain'
        PROVE  journal'[q] = home'[material'[q]]
    <3>1. CASE q = p
      BY <1>1, <1>3, <1>7, <2>2, <3>1 DEF Plain
    <3>2. CASE q # p
      <4>1. q \in Live /\ material[q] \in Plain /\ journal[q] = home[material[q]]
        BY <1>2, <1>4, <1>6, <2>2, <3>2 DEF OneStore
      <4>2. material[q] # m
        BY <1>3, <1>6, <2>2, <4>1 DEF Plain
      <4> QED
        BY <1>1, <1>3, <1>6, <4>1, <4>2
    <3> QED
      BY <3>1, <3>2
  <2> QED
    BY <2>1, <2>2 DEF OneStore
<1>9. ASSUME NEW x \in Plain', home[x] = None
      PROVE  \A r \in Record : Below(x, r.off)
  <2>1. Below(x, 0)
    BY <1>4, <1>9 DEF NoFileNoBytes
  <2> QED
    BY <2>1 DEF Below, TypeOK, Bytes, Record, Offset
<1>10. ASSUME NEW x \in Plain' PROVE home[x] = None \/ home'[x] = home[x]
  BY <1>1, <1>3, <1>10 DEF Plain
<1>11. FilesAhead'
  <2> SUFFICES ASSUME NEW x \in Plain', NEW f \in File, NEW r \in Record,
                      Holds(f, r)', r.key = x, f = Tmp \/ f = home'[x]
               PROVE  Below(x, r.off)
    BY <1>5 DEF FilesAhead
  <2>1. Holds(f, r)
    BY <1>1 DEF Holds
  <2> QED
    BY <1>4, <1>9, <1>10, <2>1 DEF FilesAhead
<1>12. NoFileNoBytes'
  <2> SUFFICES ASSUME NEW x \in Plain', home'[x] = None \/ name[home'[x]] = Absent
               PROVE  Below(x, 0)
    BY <1>1, <1>5 DEF NoFileNoBytes
  <2> QED
    BY <1>4, <1>10 DEF NoFileNoBytes
<1>13. StoreAhead'
  <2>1. consumed[p] = None
    BY <1>1 DEF TypeOK
  <2> QED
    BY <1>1, <1>2, <1>4, <1>5, <1>6, <1>7, <2>1 DEF StoreAhead, Busy
<1>14. CallAhead'
  BY <1>1, <1>2, <1>4, <1>6, <1>7 DEF CallAhead, Holds
<1>15. CommitNamed' /\ ~reused'
  BY <1>1 DEF CommitNamed
<1> QED
  BY <1>8, <1>11, <1>12, <1>13, <1>14, <1>15

\* A step of p that opens nothing and returns nothing.
Quiet(p) ==
  /\ UNCHANGED <<journal, home, twins, issued, reused>>
  /\ \A q \in Process \ {p} :
       /\ pc'[q] = pc[q] /\ material'[q] = material[q]
       /\ consumed'[q] = consumed[q] /\ target'[q] = target[q]

\* Such a step leaves alone what the invariant says of other stores.
LEMMA QuietOthers ==
  ASSUME NEW p \in Process, Quiet(p)
  PROVE  /\ Plain' = Plain /\ \A m, o : Below(m, o)' <=> Below(m, o)
         /\ \A q \in Process : q # p =>
              /\ q \in Live' <=> q \in Live
              /\ pc'[q] = pc[q] /\ material'[q] = material[q]
              /\ consumed'[q] = consumed[q] /\ target'[q] = target[q]
BY DEF Quiet, Plain, Below, Live

\* A step of a store that changes no file.
LEMMA StoreOnlyKeepsRInv ==
  ASSUME RInv, NEW p \in Process,
         \/ LoadAbsent(p) \/ LoadAccepted(p)
         \/ \E n \in 1 .. PadSize : Reserve(p, n)
  PROVE  /\ OneStore' /\ FilesAhead' /\ NoFileNoBytes' /\ StoreAhead'
         /\ CallAhead' /\ CommitNamed' /\ ~reused'
<1> DEFINE m == material[p]
<1>1. /\ p \in Live /\ m \in Material
      /\ UNCHANGED <<material, journal, name, data, home, twins, issued, reused>>
  BY DEF LoadAbsent, LoadAccepted, Reserve, Goes, Live, disk, store, history,
         RInv, HasMaterial
<1>2. Quiet(p)
  BY DEF LoadAbsent, LoadAccepted, Reserve, Goes, store, history, RInv, TypeOK, Quiet
<1>3. Live' = Live /\ pc'[p] \in {"idle", "create"}
      /\ \A q \in Process : q # p => pc'[q] = pc[q]
  BY DEF LoadAbsent, LoadAccepted, Reserve, Goes, Live, RInv, TypeOK
<1>4. OneStore' /\ FilesAhead' /\ NoFileNoBytes' /\ ~reused'
  BY <1>1, <1>2, <1>3, QuietOthers
  DEF RInv, OneStore, FilesAhead, NoFileNoBytes, Holds
<1>5. CallAhead' /\ CommitNamed'
  <2>1. \A q \in Process : pc'[q] \in {"write", "rename", "commit"} =>
          q # p /\ pc'[q] = pc[q] /\ target'[q] = target[q]
    BY <1>2, <1>3, QuietOthers
  <2>2. CommitNamed'
    BY <1>1, <2>1 DEF RInv, CommitNamed
  <2>3. ASSUME NEW q \in Live', material'[q] \in Plain', NEW r \in Record,
               r.key = material'[q]
        PROVE  /\ pc'[q] = "write" => ~Holds(Tmp, r)'
               /\ pc'[q] \in {"rename", "commit"} /\ Holds(Tmp, r)'
                    => target'[q] <= r.off
               /\ pc'[q] = "commit" /\ Holds(journal[q], r)'
                    => target'[q] <= r.off
    <3>1. q \in Live /\ material[q] \in Plain /\ r.key = material[q]
      BY <1>1, <1>2, <1>3, <2>3, QuietOthers
    <3>2. (Holds(Tmp, r)' <=> Holds(Tmp, r))
          /\ (Holds(journal[q], r)' <=> Holds(journal[q], r))
      BY <1>1 DEF Holds
    <3> QED
      BY <1>1, <2>1, <3>1, <3>2 DEF RInv, CallAhead, Live
  <2> QED
    BY <2>2, <2>3 DEF CallAhead
<1>6. ASSUME m \in Plain
      PROVE  /\ consumed'[p] # None => Below(m, consumed'[p])
             /\ pc'[p] \in Busy => Below(m, target'[p])
             /\ pc'[p] \in Busy /\ consumed'[p] # None => consumed'[p] <= target'[p]
  <2>1. CASE LoadAbsent(p)
    <3>1. consumed'[p] = None /\ target'[p] \in Offset
      BY <2>1 DEF LoadAbsent, Goes, store, RInv, TypeOK
    <3>2. Below(m, 0)
      BY <1>1, <1>6, <2>1 DEF LoadAbsent, RInv, OneStore, NoFileNoBytes
    <3>3. Below(m, target'[p])
      BY <3>1, <3>2 DEF Below, Bytes, Offset, RInv, TypeOK
    <3> QED
      BY <3>1, <3>3
  <2>2. CASE LoadAccepted(p)
    <3> DEFINE r == data[name[journal[p]]]
    <3>1. r \in Record /\ r.key = m /\ consumed'[p] = r.off /\ pc'[p] = "idle"
      BY <2>2 DEF LoadAccepted, Accepts, Goes, RInv, TypeOK
    <3>2. Holds(journal[p], r) /\ journal[p] \in File /\ journal[p] = home[m]
      BY <1>1, <1>6, <2>2 DEF LoadAccepted, Holds, RInv, TypeOK, OneStore, File
    <3>3. Below(m, r.off)
      BY <1>6, <3>1, <3>2 DEF RInv, FilesAhead
    <3> QED
      BY <3>1, <3>3 DEF Busy
  <2>3. ASSUME NEW n \in 1 .. PadSize, Reserve(p, n)
        PROVE  /\ consumed'[p] # None => Below(m, consumed'[p])
               /\ pc'[p] \in Busy => Below(m, target'[p])
               /\ pc'[p] \in Busy /\ consumed'[p] # None => consumed'[p] <= target'[p]
    <3>1. consumed[p] \in Offset /\ consumed'[p] = consumed[p]
          /\ target'[p] = consumed[p] + n
      BY <2>3, NoneAssumption DEF Reserve, Goes, RInv, TypeOK
    <3>2. Below(m, consumed[p])
      BY <1>1, <1>6, <3>1, NoneAssumption DEF RInv, StoreAhead
    <3>3. Below(m, target'[p])
      BY <3>1, <3>2 DEF Below, Bytes, Offset, RInv, TypeOK
    <3> QED
      BY <3>1, <3>2, <3>3 DEF Offset
  <2> QED
    BY <2>1, <2>2, <2>3
<1>7. StoreAhead'
  <2> SUFFICES ASSUME NEW q \in Live', material'[q] \in Plain'
               PROVE  /\ consumed'[q] # None => Below(material[q], consumed'[q])
                      /\ pc'[q] \in Busy => Below(material[q], target'[q])
                      /\ pc'[q] \in Busy /\ consumed'[q] # None
                           => consumed'[q] <= target'[q]
    BY <1>1, <1>2, QuietOthers DEF StoreAhead
  <2>1. q \in Live /\ material[q] \in Plain
    BY <1>1, <1>2, <1>3, QuietOthers
  <2>2. CASE q = p
    BY <1>6, <2>1, <2>2
  <2>3. CASE q # p
    BY <1>2, <2>1, <2>3, QuietOthers DEF RInv, StoreAhead, Live
  <2> QED
    BY <2>2, <2>3
<1> QED
  BY <1>4, <1>5, <1>7

\* The steps that work on files, of a call in progress or cut off.
FileStep(p) ==
  CreateTmp(p) \/ WriteTmp(p) \/ RenameTmp(p) \/ IoError(p) \/ Close(p)

LEMMA FileStepIsQuiet ==
  ASSUME TypeOK, NEW p \in Process, FileStep(p)
  PROVE  /\ Quiet(p) /\ p \in Live
         /\ p \in Live' => material'[p] = material[p] /\ consumed'[p] = consumed[p]
         /\ pc'[p] \in Busy => pc[p] \in Busy /\ target'[p] = target[p]
<1>1. Quiet(p)
  BY DEF FileStep, CreateTmp, WriteTmp, RenameTmp, IoError, Close, Goes, store,
         history, TypeOK, Quiet
<1>2. CASE CreateTmp(p) \/ WriteTmp(p) \/ RenameTmp(p)
  BY <1>1, <1>2 DEF CreateTmp, WriteTmp, RenameTmp, Goes, store, TypeOK, Live, Busy
<1>3. CASE IoError(p)
  BY <1>1, <1>3 DEF IoError, TypeOK, Live, Busy
<1>4. CASE Close(p)
  BY <1>1, <1>4 DEF Close, TypeOK, Live, Busy
<1> QED
  BY <1>2, <1>3, <1>4, <1>1 DEF FileStep

\* Whatever record a name holds after a step on files it held before, or it is
\* that of the writer, or it was the temporary file.
LEMMA FileStepHolds ==
  ASSUME TypeOK, NEW p \in Process, FileStep(p),
         NEW f \in File, NEW r \in Record, Holds(f, r)'
  PROVE  \/ Holds(f, r)
         \/ WriteTmp(p) /\ r = Mine(p)
         \/ RenameTmp(p) /\ f = journal[p] /\ Holds(Tmp, r)
<1>1. CASE CreateTmp(p)
  BY <1>1, CreateHolds
<1>2. CASE WriteTmp(p)
  BY <1>2, WriteHolds
<1>3. CASE RenameTmp(p)
  BY <1>3, RenameHolds
<1>4. CASE IoError(p)
  BY <1>4, ClosedHolds DEF IoError
<1>5. CASE Close(p)
  BY <1>5, ClosedHolds DEF Close
<1> QED
  BY <1>1, <1>2, <1>3, <1>4, <1>5 DEF FileStep

LEMMA NamesStay ==
  ASSUME TypeOK, NEW p \in Process, FileStep(p), NEW f \in Path, name'[f] = Absent
  PROVE  name[f] = Absent
<1>1. CASE CreateTmp(p)
  BY <1>1, FreeExists, AbsentAssumption, NameAssumption DEF CreateTmp, TypeOK
<1>2. CASE RenameTmp(p)
  BY <1>2, NameAssumption DEF RenameTmp, TypeOK
<1>3. CASE WriteTmp(p) \/ IoError(p) \/ Close(p)
  BY <1>3 DEF WriteTmp, IoError, Close
<1> QED
  BY <1>1, <1>2, <1>3 DEF FileStep

LEMMA FileStepKeepsRInv ==
  ASSUME RInv, NEW p \in Process, FileStep(p)
  PROVE  /\ OneStore' /\ FilesAhead' /\ NoFileNoBytes' /\ StoreAhead'
         /\ CallAhead' /\ CommitNamed' /\ ~reused'
<1>0. TypeOK
  BY DEF RInv
<1>1. /\ p \in Live /\ Live' \subseteq Live
      /\ UNCHANGED <<journal, home, twins, issued, reused>>
      /\ \A q \in Live' : material'[q] = material[q] /\ consumed'[q] = consumed[q]
      /\ \A q \in Live' : pc'[q] \in Busy => pc[q] \in Busy /\ target'[q] = target[q]
      /\ \A q \in Process : q # p => pc'[q] = pc[q]
  BY <1>0, FileStepIsQuiet, QuietOthers DEF Quiet, Live
<1>2. Plain' = Plain /\ \A m, o : Below(m, o)' <=> Below(m, o)
  BY <1>0, FileStepIsQuiet, QuietOthers
<1>3. OneStore' /\ ~reused'
  BY <1>1, <1>2 DEF RInv, OneStore
<1>4. StoreAhead'
  BY <1>1, <1>2 DEF RInv, StoreAhead
<1>5. NoFileNoBytes'
  <2> SUFFICES ASSUME NEW m \in Plain, home[m] = None \/ name'[home[m]] = Absent
               PROVE  Below(m, 0)
    BY <1>1, <1>2 DEF NoFileNoBytes
  <2>1. home[m] = None \/ name[home[m]] = Absent
    BY <1>0, NamesStay DEF Plain, TypeOK
  <2> QED
    BY <2>1 DEF RInv, NoFileNoBytes
<1>6. FilesAhead'
  <2> SUFFICES ASSUME NEW m \in Plain, NEW f \in File, NEW r \in Record,
                      Holds(f, r)', r.key = m, f = Tmp \/ f = home[m]
               PROVE  Below(m, r.off)
    BY <1>1, <1>2 DEF FilesAhead
  <2>1. CASE Holds(f, r) \/ Holds(Tmp, r)
    BY <2>1 DEF RInv, FilesAhead, File
  <2>2. CASE WriteTmp(p) /\ r = Mine(p)
    <3>1. material[p] = m /\ r.off = target[p] /\ pc[p] \in Busy
      BY <2>2 DEF Mine, WriteTmp, Goes, Busy
    <3> QED
      BY <1>1, <3>1 DEF RInv, StoreAhead
  <2> QED
    BY <1>0, <2>1, <2>2, FileStepHolds
<1>7. CommitNamed'
  <2> SUFFICES ASSUME NEW q \in Process, pc'[q] = "commit", name'[journal[q]] = Absent
               PROVE  FALSE
    BY <1>1 DEF CommitNamed
  <2>1. name[journal[q]] = Absent
    BY <1>0, NamesStay DEF TypeOK
  <2>2. CASE pc[q] = "commit"
    BY <2>1, <2>2 DEF RInv, CommitNamed
  <2>3. CASE pc[q] # "commit"
    <3>1. q = p /\ RenameTmp(p)
      BY <1>1, <2>3 DEF FileStep, CreateTmp, WriteTmp, RenameTmp, IoError, Close,
         Goes, RInv, TypeOK
    <3> QED
      BY <1>0, <3>1, NameAssumption DEF RenameTmp, TypeOK
  <2> QED
    BY <2>2, <2>3
<1>8. CallAhead'
  <2> SUFFICES ASSUME NEW q \in Live', material[q] \in Plain, NEW r \in Record,
                      r.key = material[q]
               PROVE  /\ pc'[q] = "write" => ~Holds(Tmp, r)'
                      /\ pc'[q] \in {"rename", "commit"} /\ Holds(Tmp, r)'
                           => target'[q] <= r.off
                      /\ pc'[q] = "commit" /\ Holds(journal[q], r)'
                           => target'[q] <= r.off
    BY <1>1, <1>2 DEF CallAhead
  <2>1. q \in Live /\ Tmp \in File /\ journal[q] \in File
    BY <1>0, <1>1 DEF TypeOK, File, Live
  <2>2. pc'[q] \in {"write", "rename", "commit"} => target'[q] = target[q]
    BY <1>1 DEF Busy
  <2>3. PICK j \in Path : j = journal[q] /\ (Holds(journal[q], r)' <=> Holds(j, r)')
    BY <1>0, <1>1 DEF Holds, TypeOK, Live
  <2>4. CASE q # p
    <3>1. material[q] # material[p] /\ pc'[q] = pc[q]
      BY <1>1, <2>1, <2>4 DEF RInv, OneStore, Live
    <3>2. r # Mine(p)
      BY <3>1 DEF Mine
    <3>3. Holds(Tmp, r)' => Holds(Tmp, r)
      BY <1>0, <2>1, <3>2, FileStepHolds
    <3>4. Holds(journal[q], r)' => Holds(journal[q], r) \/ Holds(Tmp, r)
      BY <1>0, <2>1, <2>3, <3>2, FileStepHolds DEF File
    <3> QED
      BY <2>1, <2>2, <3>1, <3>3, <3>4 DEF RInv, CallAhead
  <2>5. CASE q = p /\ CreateTmp(p)
    <3>1. pc'[q] = "write"
      BY <1>0, <2>5 DEF CreateTmp, Goes, TypeOK
    <3> QED
      BY <1>0, <2>1, <2>5, <3>1, CreateHolds
  <2>6. CASE q = p /\ WriteTmp(p)
    <3>1. pc[q] = "write" /\ pc'[q] = "rename"
      BY <1>0, <2>6 DEF WriteTmp, Goes, TypeOK
    <3>2. Holds(Tmp, r)' => r = Mine(p)
      BY <1>0, <2>1, <2>6, <3>1, WriteHolds DEF RInv, CallAhead
    <3>3. r = Mine(p) => target[q] <= r.off
      BY <1>0, <2>6 DEF Mine, TypeOK, Offset
    <3> QED
      BY <2>2, <3>1, <3>2, <3>3
  <2>7. CASE q = p /\ RenameTmp(p)
    <3>1. pc[q] = "rename" /\ pc'[q] = "commit"
      BY <1>0, <2>7 DEF RenameTmp, Goes, TypeOK
    <3>2. ~Holds(Tmp, r)' /\ (Holds(journal[q], r)' => Holds(Tmp, r))
      BY <1>0, <2>1, <2>7, <2>3, RenameHolds DEF File
    <3> QED
      BY <2>1, <2>2, <3>1, <3>2 DEF RInv, CallAhead
  <2>8. CASE q = p /\ (IoError(p) \/ Close(p))
    BY <1>0, <2>8 DEF IoError, Close, TypeOK
  <2> QED
    BY <2>4, <2>5, <2>6, <2>7, <2>8 DEF FileStep
<1> QED
  BY <1>3, <1>4, <1>5, <1>6, <1>7, <1>8

\* The bytes returned lie between the cache and the offset recorded: above
\* what was returned, and below every record of theirs.
LEMMA CommitKeepsRInv ==
  ASSUME RInv, NEW p \in Process, Commit(p)
  PROVE  /\ OneStore' /\ FilesAhead' /\ NoFileNoBytes' /\ StoreAhead'
         /\ CallAhead' /\ CommitNamed' /\ ~reused'
<1> DEFINE m == material[p]
<1>1. /\ p \in Live /\ m \in Material /\ pc[p] = "commit"
      /\ UNCHANGED <<material, journal, name, data, home, twins>>
      /\ pc' = [pc EXCEPT ![p] = "idle"]
      /\ consumed' = [consumed EXCEPT ![p] = target[p]]
      /\ target[p] \in Offset /\ journal[p] \in Path
  BY DEF Commit, Goes, Live, disk, RInv, HasMaterial, TypeOK
<1>2. /\ Live' = Live /\ Plain' = Plain
      /\ pc'[p] = "idle" /\ consumed'[p] = target[p]
      /\ \A q \in Process : q # p =>
           pc'[q] = pc[q] /\ consumed'[q] = consumed[q] /\ target'[q] = target[q]
  BY <1>1 DEF Commit, Live, Plain, RInv, TypeOK
<1>3. \A f, r : Holds(f, r)' <=> Holds(f, r)
  BY <1>1 DEF Holds
<1>4. ASSUME NEW x, NEW o, Below(x, o), x = m /\ m \in Plain => target[p] <= o, o \in Nat
      PROVE  Below(x, o)'
  <2> SUFFICES ASSUME NEW b \in issued', b[1] = x PROVE b[2] < o
    BY DEF Below
  <2>1. CASE b \in issued
    BY <1>4, <2>1 DEF Below
  <2>2. CASE b \notin issued
    <3>1. b \in Returned(p) /\ m \in Plain
      BY <1>1, <2>2 DEF Commit, Plain
    <3>2. x = m /\ b[2] \in Nat /\ b[2] < target[p]
      BY <3>1 DEF Returned, Bytes
    <3> QED
      BY <1>1, <1>4, <3>1, <3>2 DEF Offset
  <2> QED
    BY <2>1, <2>2
<1>5. OneStore'
  BY <1>1, <1>2 DEF RInv, OneStore
<1>6. FilesAhead'
  <2> SUFFICES ASSUME NEW x \in Plain, NEW f \in File, NEW r \in Record,
                      Holds(f, r), r.key = x, f = Tmp \/ f = home[x]
               PROVE  Below(x, r.off)'
    BY <1>1, <1>2, <1>3 DEF FilesAhead
  <2>1. Below(x, r.off)
    BY DEF RInv, FilesAhead
  <2>2. x = m => target[p] <= r.off
    BY <1>1 DEF RInv, CallAhead, OneStore
  <2> QED
    BY <1>4, <2>1, <2>2 DEF Record, Offset
<1>7. NoFileNoBytes'
  <2> SUFFICES ASSUME NEW x \in Plain, home[x] = None \/ name[home[x]] = Absent
               PROVE  Below(x, 0)'
    BY <1>1, <1>2 DEF NoFileNoBytes
  <2>1. Below(x, 0)
    BY DEF RInv, NoFileNoBytes
  <2>2. x # m
    BY <1>1, NoneAssumption DEF RInv, OneStore, CommitNamed
  <2> QED
    BY <1>4, <2>1, <2>2
<1>8. StoreAhead'
  <2> SUFFICES ASSUME NEW q \in Live, material[q] \in Plain
               PROVE  /\ consumed'[q] # None => Below(material[q], consumed[q])'
                      /\ pc'[q] \in Busy => Below(material[q], target[q])'
                      /\ pc'[q] \in Busy /\ consumed'[q] # None
                           => consumed'[q] <= target'[q]
    BY <1>1, <1>2 DEF StoreAhead
  <2>1. CASE q = p
    <3>1. \A b \in issued : b[1] = m => b[2] < target[p]
      BY <1>1, <2>1 DEF RInv, StoreAhead, Busy, Below
    <3>2. \A b \in Returned(p) : b[2] < target[p]
      BY DEF Returned
    <3>3. \A b \in issued' : b[1] = m => b[2] < target[p]
      BY <3>1, <3>2 DEF Commit
    <3> QED
      BY <1>1, <1>2, <2>1, <3>3 DEF Busy, Below
  <2>2. CASE q # p
    <3>1. material[q] # m
      BY <1>1, <2>2 DEF RInv, OneStore
    <3>2. \A b \in issued' : b[1] = material[q] => b \in issued
      BY <3>1 DEF Commit, Returned
    <3>3. /\ consumed[q] # None => Below(material[q], consumed[q])
          /\ pc[q] \in Busy => Below(material[q], target[q])
          /\ pc[q] \in Busy /\ consumed[q] # None => consumed[q] <= target[q]
      BY DEF RInv, StoreAhead
    <3> QED
      BY <1>1, <1>2, <2>2, <3>2, <3>3 DEF Below, Live
  <2> QED
    BY <2>1, <2>2
<1>9. CallAhead'
  BY <1>1, <1>2, <1>3 DEF RInv, CallAhead, Live
<1>10. CommitNamed'
  BY <1>1, <1>2 DEF RInv, CommitNamed
<1>11. ~reused'
  <2>1. CASE m \in twins
    BY <2>1 DEF Commit, RInv
  <2>2. CASE m \notin twins
    <3> SUFFICES ASSUME NEW b \in Returned(p), b \in issued PROVE FALSE
      BY <2>2 DEF Commit, RInv
    <3>1. consumed[p] # None /\ b[1] = m /\ b[2] \in Nat /\ consumed[p] <= b[2]
      BY DEF Returned, Bytes
    <3>2. Below(m, consumed[p])
      BY <1>1, <2>2, <3>1 DEF RInv, StoreAhead, Plain
    <3> QED
      BY <3>1, <3>2 DEF Below, RInv, TypeOK, Offset
  <2> QED
    BY <2>1, <2>2
<1> QED
  BY <1>5, <1>6, <1>7, <1>8, <1>9, <1>10, <1>11

LEMMA RStep == RInv /\ [Next]_vars => RInv'
<1> SUFFICES ASSUME RInv, [Next]_vars PROVE RInv'
  OBVIOUS
<1>1. TypeOK' /\ HasMaterial'
  BY TypeStep DEF RInv
<1>2. CASE UNCHANGED vars
  BY <1>1, <1>2 DEF RInv, vars, store, disk, history, OneStore, FilesAhead,
     NoFileNoBytes, StoreAhead, CallAhead, CommitNamed, Below, Plain, Holds, Live
<1>3. ASSUME NEW p \in Process, Step(p) PROVE RInv'
  BY <1>1, <1>3, OpenKeepsRInv, StoreOnlyKeepsRInv, FileStepKeepsRInv,
     CommitKeepsRInv
  DEF Step, FileStep, RInv
<1> QED
  BY <1>2, <1>3 DEF Next

\* However stores of different pads get into each other's journals and
\* temporary files, no byte of a pad is returned twice, unless two stores had
\* that pad open at a time or it was opened at two paths (reserve_common,
\* load_journal).
THEOREM ReuseTakesTwins == Spec => []ReuseNeedsTwins
<1>1. RInv => ReuseNeedsTwins
  BY DEF RInv, ReuseNeedsTwins
<1> QED
  BY <1>1, RInit, RStep, PTL DEF Spec

(***************************************************************************)
(* A store that was alone                                                  *)
(***************************************************************************)
\* No inode has two names.
Apart == \A f, g \in File : f # g /\ name[f] = name[g] => name[f] = Absent

OnlyLive == \A p \in Live : p \notin met => Live = {p}

Cached(p) == [off |-> consumed[p], key |-> material[p]]

\* What a store that was alone finds in the files, step by step.
FilesAreItsOwn ==
  \A p \in Live : p \notin met =>
    /\ pc[p] \notin {"load", "commit"} /\ consumed[p] # None
         => Holds(journal[p], Cached(p))
    /\ pc[p] = "write" => name[Tmp] = fd[p]
    /\ pc[p] = "rename" => Holds(Tmp, Mine(p))
    /\ pc[p] = "commit" => Holds(journal[p], Mine(p))

AInv == TypeOK /\ HasMaterial /\ Apart /\ OnlyLive /\ FilesAreItsOwn

LEMMA AInit == Init => AInv
BY TypeInit DEF Init, AInv, Apart, OnlyLive, FilesAreItsOwn, Live, File

LEMMA ApartStep ==
  ASSUME AInv, NEW p \in Process, Step(p)
  PROVE  Apart'
<1>1. CASE CreateTmp(p)
  <2>1. CASE name[Tmp] # Absent
    <3>1. name' = name
      BY <1>1, <2>1 DEF CreateTmp, AInv, TypeOK
    <3> QED
      BY <3>1 DEF AInv, Apart
  <2>2. CASE name[Tmp] = Absent
    <3>1. name' = [name EXCEPT ![Tmp] = Free]
      BY <1>1, <2>2 DEF CreateTmp
    <3>2. \A f \in File : name[f] # Free
      BY <2>2, FreeExists DEF AInv, TypeOK, Used, Range, File
    <3> QED
      BY <3>1, <3>2 DEF AInv, TypeOK, Apart, File
  <2> QED
    BY <2>1, <2>2
<1>2. CASE RenameTmp(p)
  <2>1. name' = [name EXCEPT ![journal[p]] = name[Tmp], ![Tmp] = Absent]
        /\ journal[p] \in Path
    BY <1>2 DEF RenameTmp, AInv, TypeOK
  <2> QED
    BY <2>1, NameAssumption DEF AInv, TypeOK, Apart, File
<1>3. CASE UNCHANGED name
  BY <1>3 DEF AInv, Apart
<1> QED
  BY <1>1, <1>2, <1>3 DEF Step, Open, Close, LoadAbsent, LoadAccepted, Reserve,
     WriteTmp, IoError, Commit, disk

LEMMA OnlyLiveStep ==
  ASSUME AInv, NEW p \in Process, Step(p)
  PROVE  OnlyLive'
<1>1. ASSUME NEW m \in Material, Open(p, m) PROVE OnlyLive'
  BY <1>1 DEF Open, Goes, AInv, TypeOK, OnlyLive, Live
<1>2. CASE Close(p)
  BY <1>2 DEF Close, AInv, TypeOK, OnlyLive, Live
<1>3. CASE Live' = Live /\ met' = met
  BY <1>3 DEF AInv, OnlyLive
<1>4. ASSUME LoadAbsent(p) \/ LoadAccepted(p) \/ (\E n \in 1 .. PadSize : Reserve(p, n))
      PROVE  Live' = Live /\ met' = met
  BY <1>4 DEF LoadAbsent, LoadAccepted, Reserve, Goes, history, Live, AInv, TypeOK
<1>5. ASSUME CreateTmp(p) \/ WriteTmp(p) \/ RenameTmp(p) \/ IoError(p) \/ Commit(p)
      PROVE  Live' = Live /\ met' = met
  BY <1>5 DEF CreateTmp, WriteTmp, RenameTmp, IoError, Commit, Goes, history, Live,
     AInv, TypeOK
<1> QED
  BY <1>1, <1>2, <1>3, <1>4, <1>5 DEF Step

\* The step is that of the store itself: there is no other.
LEMMA ItsOwnStep ==
  ASSUME AInv, NEW p \in Process, Step(p)
  PROVE  FilesAreItsOwn'
<1>0. TypeOK /\ OnlyLive /\ FilesAreItsOwn
  BY DEF AInv
<1>1. ASSUME NEW m \in Material, Open(p, m) PROVE FilesAreItsOwn'
  <2>1. \A q \in Live' : q \notin met' => q = p /\ pc'[q] = "load"
    BY <1>0, <1>1 DEF Open, Goes, TypeOK, Live
  <2> QED
    BY <2>1 DEF FilesAreItsOwn
<1>2. CASE Close(p)
  <2>1. \A q \in Live' : q \in met'
    BY <1>0, <1>2 DEF Close, TypeOK, Live, OnlyLive
  <2> QED
    BY <2>1 DEF FilesAreItsOwn
<1>3. ASSUME ~Close(p), ~ \E m \in Material : Open(p, m)
      PROVE  /\ p \in Live /\ met' = met /\ journal' = journal
             /\ material' = material
             /\ \A q \in Live' : q \notin met' => q = p /\ p \notin met
  BY <1>0, <1>3 DEF Step, LoadAbsent, LoadAccepted, Reserve, CreateTmp, WriteTmp,
     RenameTmp, IoError, Commit, Goes, store, history, TypeOK, Live, OnlyLive
<1> DEFINE Own ==
      /\ pc[p] \notin {"load", "commit"} /\ consumed[p] # None
           => Holds(journal[p], Cached(p))
      /\ pc[p] = "write" => name[Tmp] = fd[p]
      /\ pc[p] = "rename" => Holds(Tmp, Mine(p))
      /\ pc[p] = "commit" => Holds(journal[p], Mine(p))
<1>4. SUFFICES ASSUME ~Close(p), ~ \E m \in Material : Open(p, m), p \notin met
               PROVE  Own'
  BY <1>1, <1>2, <1>3 DEF FilesAreItsOwn
<1>5. Own /\ journal[p] \in Path /\ Tmp \in File /\ journal[p] \in File
  BY <1>0, <1>3, <1>4 DEF FilesAreItsOwn, TypeOK, File
<1>6. CASE LoadAbsent(p)
  BY <1>0, <1>6 DEF LoadAbsent, Goes, store, TypeOK
<1>7. CASE LoadAccepted(p)
  <2> DEFINE r == data[name[journal[p]]]
  <2>1. /\ pc'[p] = "idle" /\ consumed'[p] = r.off /\ r.key = material[p]
        /\ r \in Record /\ name[journal[p]] \in Inode
        /\ name' = name /\ data' = data /\ journal' = journal /\ material' = material
    BY <1>0, <1>4, <1>7 DEF LoadAccepted, Goes, Accepts, disk, TypeOK
  <2>2. r = [off |-> r.off, key |-> r.key]
    BY <2>1 DEF Record
  <2> QED
    BY <2>1, <2>2 DEF Holds, Cached
<1>8. ASSUME NEW n \in 1 .. PadSize, Reserve(p, n) PROVE Own'
  <2>1. /\ pc[p] = "idle" /\ pc'[p] = "create"
        /\ UNCHANGED <<name, data, journal, material, consumed>>
    BY <1>0, <1>8 DEF Reserve, Goes, disk, TypeOK
  <2> QED
    BY <1>5, <2>1 DEF Holds, Cached
<1>9. CASE CreateTmp(p)
  <2>1. PICK i \in Inode : /\ name' = [name EXCEPT ![Tmp] = i]
                           /\ fd' = [fd EXCEPT ![p] = i]
                           /\ Settle([data EXCEPT ![i] = Torn])
                           /\ i = name[Tmp] \/ i \notin Used(name, fd)
    BY <1>0, <1>9, FreeExists DEF CreateTmp, TypeOK
  <2>2. /\ pc[p] = "create" /\ pc'[p] = "write"
        /\ UNCHANGED <<journal, material, consumed>>
    BY <1>0, <1>9 DEF CreateTmp, Goes, store, TypeOK
  <2>3. name'[Tmp] = i /\ fd'[p] = i /\ name'[journal[p]] = name[journal[p]]
    BY <1>0, <1>5, <2>1, NameAssumption DEF TypeOK
  <2>4. ASSUME consumed[p] # None PROVE Holds(journal[p], Cached(p))'
    <3>1. Holds(journal[p], Cached(p))
      BY <1>5, <2>2, <2>4
    <3>2. name[journal[p]] \in Used(name', fd')
      BY <1>0, <1>5, <2>1, <2>3, <3>1 DEF Used, Range, Holds, TypeOK, File
    <3>3. name[journal[p]] # i
      <4>1. CASE i = name[Tmp]
        BY <1>5, <3>1, <4>1, AbsentAssumption, NameAssumption
        DEF AInv, Apart, Holds, File
      <4>2. CASE i \notin Used(name, fd)
        BY <1>0, <1>5, <3>1, <4>2 DEF Used, Range, Holds, TypeOK, File
      <4> QED
        BY <2>1, <4>1, <4>2
    <3>4. data'[name[journal[p]]] = data[name[journal[p]]]
      BY <1>0, <2>1, <3>1, <3>2, <3>3 DEF Settle, Holds, TypeOK
    <3> QED
      BY <2>2, <2>3, <3>1, <3>4 DEF Holds, Cached
  <2> QED
    BY <2>2, <2>3, <2>4
<1>10. CASE WriteTmp(p)
  <2>1. /\ pc[p] = "write" /\ pc'[p] = "rename"
        /\ UNCHANGED <<name, journal, material, consumed, target>>
        /\ Settle([data EXCEPT ![fd[p]] = Mine(p)])
    BY <1>0, <1>10 DEF WriteTmp, Goes, store, Mine, TypeOK
  <2>2. name[Tmp] = fd[p] /\ fd[p] \in Inode
    BY <1>0, <1>5, <2>1 DEF TypeOK
  <2>3. \A f \in File : name[f] \in Inode => name[f] \in Used(name', fd')
    BY <1>0, <2>1 DEF Used, Range, TypeOK, File
  <2>4. Holds(Tmp, Mine(p))'
    BY <1>0, <1>5, <2>1, <2>2, <2>3 DEF Settle, Holds, Mine, TypeOK
  <2>5. ASSUME consumed[p] # None PROVE Holds(journal[p], Cached(p))'
    <3>1. Holds(journal[p], Cached(p))
      BY <1>5, <2>1, <2>5
    <3>2. name[journal[p]] # fd[p]
      BY <1>5, <2>2, <3>1, AbsentAssumption, NameAssumption DEF AInv, Apart, Holds
    <3> QED
      BY <1>0, <1>5, <2>1, <2>3, <3>1, <3>2 DEF Settle, Holds, Cached, TypeOK
  <2> QED
    BY <2>1, <2>4, <2>5
<1>11. CASE RenameTmp(p)
  <2>1. /\ pc[p] = "rename" /\ pc'[p] = "commit"
        /\ UNCHANGED <<journal, material, target>> /\ Settle(data)
        /\ name' = [name EXCEPT ![journal[p]] = name[Tmp], ![Tmp] = Absent]
    BY <1>0, <1>11 DEF RenameTmp, Goes, store, TypeOK
  <2>2. name'[journal[p]] = name[Tmp] /\ Holds(Tmp, Mine(p))
    BY <1>0, <1>5, <2>1, NameAssumption DEF TypeOK, File
  <2>3. name[Tmp] \in Used(name', fd')
    BY <1>0, <1>5, <2>1, <2>2 DEF Used, Range, Holds, TypeOK, File
  <2>4. Holds(journal[p], Mine(p))'
    BY <2>1, <2>2, <2>3 DEF Settle, Holds, Mine
  <2> QED
    BY <2>1, <2>4
<1>12. CASE IoError(p)
  <2>1. /\ pc[p] \notin {"load", "commit"} /\ pc'[p] = "idle" /\ consumed[p] # None
        /\ UNCHANGED <<name, journal, material, consumed>> /\ Settle(data)
    BY <1>0, <1>12 DEF IoError, TypeOK
  <2>2. Holds(journal[p], Cached(p))
    BY <1>5, <2>1
  <2>3. name[journal[p]] \in Used(name', fd')
    BY <1>0, <1>5, <2>1, <2>2 DEF Used, Range, Holds, TypeOK, File
  <2> QED
    BY <2>1, <2>2, <2>3 DEF Settle, Holds, Cached
<1>13. CASE Commit(p)
  <2>1. /\ pc[p] = "commit" /\ pc'[p] = "idle" /\ consumed'[p] = target[p]
        /\ UNCHANGED <<name, data, journal, material>>
    BY <1>0, <1>13 DEF Commit, Goes, disk, TypeOK
  <2> QED
    BY <1>5, <2>1 DEF Holds, Cached, Mine
<1> QED
  BY <1>4, <1>6, <1>7, <1>8, <1>9, <1>10, <1>11, <1>12, <1>13 DEF Step

LEMMA AStep == AInv /\ [Next]_vars => AInv'
<1> SUFFICES ASSUME AInv, [Next]_vars PROVE AInv'
  OBVIOUS
<1>1. TypeOK' /\ HasMaterial'
  BY TypeStep DEF AInv
<1>2. CASE UNCHANGED vars
  BY <1>1, <1>2 DEF AInv, vars, store, disk, history, Apart, OnlyLive,
     FilesAreItsOwn, Holds, Cached, Mine, Live
<1>3. ASSUME NEW p \in Process, Step(p) PROVE AInv'
  BY <1>1, <1>3, ApartStep, OnlyLiveStep, ItsOwnStep DEF AInv
<1> QED
  BY <1>2, <1>3 DEF Next

\* A store that shared none of its time with another finds its own offset
\* under its own key in its journal between calls, whatever dead stores left
\* behind (write_journal_static, load_journal).
THEOREM AloneStaysCoherent == Spec => []AloneIsCoherent
<1>1. AInv => AloneIsCoherent
  <2> SUFFICES ASSUME AInv, NEW p \in Process, pc[p] = "idle", p \notin met
               PROVE  /\ name[journal[p]] # Absent
                      /\ data[name[journal[p]]] = Cached(p)
    BY DEF AloneIsCoherent, Cached
  <2>1. p \in Live /\ consumed[p] # None
    BY DEF AInv, TypeOK, Live
  <2> QED
    BY <2>1, AbsentAssumption DEF AInv, FilesAreItsOwn, Holds
<1> QED
  BY <1>1, AInit, AStep, PTL DEF Spec
=============================================================================
