------------------------- MODULE ShardEngineProofs --------------------------
(***************************************************************************)
(* Theorems of ShardEngine for any processes, threads, keys, message       *)
(* lengths and counter width.                                              *)
(***************************************************************************)
EXTENDS ShardEngine, TLAPS

\* A message takes one shard at least (max(1) in build_outbound_packets).
LEMMA OneShardAtLeast ==
  ASSUME NEW len \in Length
  PROVE  TotalShards(len) \in Nat \ {0}
<1> DEFINE n == len + ShardSize - 1
<1>1. len \in Nat /\ ShardSize \in Nat /\ ShardSize > 0
  BY SizeAssumption, LengthAssumption
<1>2. CASE len = 0
  BY <1>2 DEF TotalShards
<1>3. CASE len # 0
  <2>1. n \in Nat /\ n >= ShardSize
    BY <1>1, <1>3
  <2>2. n \div ShardSize \in Nat /\ n \div ShardSize >= 1
    BY <1>1, <2>1
  <2> QED
    BY <1>3, <2>2 DEF TotalShards
<1> QED BY <1>2, <1>3

\* A sum that fits is written as it is.
LEMMA NoWrap ==
  ASSUME NEW n \in Nat, n <= MaxCounter
  PROVE  n % (MaxCounter + 1) = n
BY SizeAssumption

(***************************************************************************)
(* Types                                                                   *)
(***************************************************************************)
\* What was issued was issued under keys drawn before, and so is the key on
\* disk one drawn before.
Known ==
  /\ issued \subseteq drawn \X Counter
  /\ keyFile \in Key => keyFile \in drawn

LEMMA TypeInit == Init => TypeOK /\ Known
<1> SUFFICES ASSUME Init PROVE TypeOK /\ Known
  OBVIOUS
<1>1. 0 \in Counter
  BY SizeAssumption DEF Counter
<1>2. Known
  BY KeyAssumption DEF Init, Known
<1> QED
  BY <1>1, <1>2 DEF Init, TypeOK, InitStep

LEMMA TypeStep == TypeOK /\ Known /\ [Next]_vars => TypeOK' /\ Known'
<1> SUFFICES ASSUME TypeOK, Known, [Next]_vars PROVE TypeOK' /\ Known'
  OBVIOUS
<1> USE SizeAssumption, KeyAssumption, FileAssumption
    DEF TypeOK, Known, InitStep, Counter, Goes, Moves, files, history
<1>1. ASSUME NEW p \in Process, Start(p) \/ ReadKey(p) PROVE TypeOK' /\ Known'
  <2>1. CASE Start(p)
    BY <2>1 DEF Start
  <2>2. CASE ReadKey(p)
    BY <2>2 DEF ReadKey
  <2> QED BY <1>1, <2>1, <2>2
<1>2. ASSUME NEW p \in Process, NEW k \in Key, DrawKey(p, k)
      PROVE  TypeOK' /\ Known'
  BY <1>2 DEF DrawKey
<1>3. ASSUME NEW p \in Process, CreateKey(p) \/ WriteKey(p)
      PROVE  TypeOK' /\ Known'
  <2>1. CASE CreateKey(p)
    BY <2>1 DEF CreateKey
  <2>2. CASE WriteKey(p)
    BY <2>2 DEF WriteKey
  <2> QED BY <1>3, <2>1, <2>2
<1>4. ASSUME NEW p \in Process, CounterExists(p) \/ CounterMissing(p)
      PROVE  TypeOK' /\ Known'
  <2>1. CASE CounterExists(p)
    BY <2>1 DEF CounterExists
  <2>2. CASE CounterMissing(p)
    BY <2>2 DEF CounterMissing
  <2> QED BY <1>4, <2>1, <2>2
<1>5. ASSUME NEW p \in Process, CreateCounter(p) \/ WriteCounter(p)
      PROVE  TypeOK' /\ Known'
  <2>1. CASE CreateCounter(p)
    BY <2>1 DEF CreateCounter
  <2>2. CASE WriteCounter(p)
    BY <2>2 DEF WriteCounter
  <2> QED BY <1>5, <2>1, <2>2
<1>6. ASSUME NEW p \in Process, InitFails(p) \/ Crash(p) PROVE TypeOK' /\ Known'
  <2>1. Stop(p) /\ UNCHANGED files
    BY <1>6 DEF InitFails, Crash
  <2> QED BY <2>1 DEF Stop
<1>7. ASSUME NEW p \in Process, NEW t \in Thread, NEW len \in Length,
             Reserve(p, t, len)
      PROVE  TypeOK' /\ Known'
  BY <1>7, OneShardAtLeast DEF Reserve, MutexFree
<1>8. ASSUME NEW p \in Process, NEW t \in Thread, ReadCounter(p, t)
      PROVE  TypeOK' /\ Known'
  BY <1>8 DEF ReadCounter, Fits
<1>9. ASSUME NEW p \in Process, NEW t \in Thread, WriteBack(p, t)
      PROVE  TypeOK' /\ Known'
  <2> DEFINE n == read[p] + count[p]
  <2>1. n \in Nat /\ n <= MaxCounter
    <3>1. tpc[p][t] = "write"
      BY <1>9 DEF WriteBack
    <3> QED BY <3>1
  <2>2. counterFile' \in Counter
    BY <1>9, <2>1, NoWrap DEF WriteBack
  <2> QED
    BY <1>9, <2>2 DEF WriteBack
<1>10. ASSUME NEW p \in Process, NEW t \in Thread, ReserveFails(p, t)
       PROVE  TypeOK' /\ Known'
  BY <1>10 DEF ReserveFails, Fails
<1>11. ASSUME NEW p \in Process, NEW t \in Thread, BuildPackets(p, t)
       PROVE  TypeOK' /\ Known'
  <2>1. tpc[p][t] = "sync"
    BY <1>11 DEF BuildPackets
  <2>2. current[p] \in drawn /\ read[p] \in Nat /\ count[p] \in Nat
        /\ read[p] + count[p] <= MaxCounter
    BY <2>1
  <2>3. Nonces(p) \subseteq drawn \X Counter
    BY <2>2 DEF Nonces
  <2> QED
    BY <1>11, <2>3 DEF BuildPackets
<1>12. CASE PowerLoss
  BY <1>12 DEF PowerLoss
<1>13. CASE UNCHANGED vars
  BY <1>13 DEF vars
<1> QED
  BY <1>1, <1>2, <1>3, <1>4, <1>5, <1>6, <1>7, <1>8, <1>9, <1>10, <1>11, <1>12, <1>13
  DEF Next, InitFromStorage, BuildOutboundPackets

\* Every value stays in its range, the mutex is held by one thread at most,
\* and what is about to be written to the counter file fits its eight bytes
\* (the checked_add of reserve_counters).
THEOREM TypeCorrect == Spec => []TypeOK
BY TypeInit, TypeStep, PTL DEF Spec

(***************************************************************************)
(* One process at a time                                                   *)
(***************************************************************************)
\* No two processes are on the directory.
Alone ==
  ~overlapped => \A p, q \in Process : ipc[p] # "down" /\ ipc[q] # "down" => p = q

\* From the time a process has read or written the key, it is that on disk.
HoldsKey ==
  ~overlapped => \A p \in Process :
    ipc[p] \in {"counter", "createCounter", "writeCounter", "up"}
      => current[p] = keyFile

\* The steps that tell one process from another: those of a process that is
\* up to something, and a loss of power.
LEMMA AloneStep == TypeOK /\ Alone /\ [Next]_vars => Alone'
<1> SUFFICES ASSUME TypeOK, Alone, [Next]_vars PROVE Alone'
  OBVIOUS
<1>1. ASSUME NEW p \in Process, Start(p) PROVE Alone'
  <2>1. ipc' = [ipc EXCEPT ![p] = "key"]
    BY <1>1 DEF Start, Goes
  <2>2. ~overlapped' => \A q \in Process : ipc[q] = "down"
    BY <1>1 DEF Start
  <2>3. \A q \in Process : q # p => ipc'[q] = ipc[q]
    BY <2>1 DEF TypeOK
  <2> QED
    BY <2>2, <2>3 DEF Alone
<1>2. ASSUME NEW p \in Process, ipc[p] # "down", overlapped' = overlapped,
             \E s \in InitStep : ipc' = [ipc EXCEPT ![p] = s]
      PROVE  Alone'
  BY <1>2 DEF Alone, TypeOK
<1>3. CASE PowerLoss
  BY <1>3 DEF PowerLoss, Alone
<1>4. CASE UNCHANGED <<ipc, overlapped>>
  BY <1>4 DEF Alone
<1>5. ASSUME NEW p \in Process, InitFromStorage(p), ~Start(p) PROVE Alone'
  BY <1>2, <1>5 DEF InitFromStorage, Goes, InitStep, ReadKey, DrawKey, CreateKey,
       WriteKey, CounterExists, CounterMissing, CreateCounter, WriteCounter,
       InitFails, Stop, history
<1>6. ASSUME NEW p \in Process, Crash(p) PROVE Alone'
  BY <1>2, <1>6 DEF Crash, Stop, InitStep, history
<1>7. ASSUME NEW p \in Process, NEW t \in Thread, BuildOutboundPackets(p, t)
      PROVE  Alone'
  BY <1>4, <1>7 DEF BuildOutboundPackets, Reserve, ReadCounter, WriteBack,
       ReserveFails, Fails, BuildPackets, history
<1> QED
  BY <1>1, <1>3, <1>4, <1>5, <1>6, <1>7 DEF Next, vars, history

LEMMA HoldsKeyStep == TypeOK /\ Alone /\ HoldsKey /\ [Next]_vars => HoldsKey'
<1> SUFFICES ASSUME TypeOK, Alone, HoldsKey, [Next]_vars PROVE HoldsKey'
  OBVIOUS
<1> USE DEF TypeOK, Alone, HoldsKey, InitStep, Goes, files, history
<1>1. ASSUME NEW p \in Process, InitFromStorage(p), ~InitFails(p) PROVE HoldsKey'
  BY <1>1 DEF InitFromStorage, Start, ReadKey, DrawKey, CreateKey, WriteKey,
       CounterExists, CounterMissing, CreateCounter, WriteCounter
<1>2. ASSUME NEW p \in Process, InitFails(p) \/ Crash(p) PROVE HoldsKey'
  BY <1>2 DEF InitFails, Crash, Stop
<1>3. ASSUME NEW p \in Process, NEW t \in Thread, BuildOutboundPackets(p, t)
      PROVE  HoldsKey'
  BY <1>3 DEF BuildOutboundPackets, Reserve, ReadCounter, WriteBack,
       ReserveFails, Fails, BuildPackets
<1>4. CASE PowerLoss
  BY <1>4 DEF PowerLoss
<1>5. CASE UNCHANGED vars
  BY <1>5 DEF vars
<1> QED
  BY <1>1, <1>2, <1>3, <1>4, <1>5 DEF Next, InitFromStorage

\* As long as no two processes overlap, an engine at work signs with the key
\* that the next one will read (init_from_storage), also when nothing it
\* wrote is sure to survive a power loss.
THEOREM EngineHoldsKeyOnDisk == Spec => []KeyOnDisk
<1>1. Init => Alone /\ HoldsKey
  BY DEF Init, Alone, HoldsKey
<1>2. HoldsKey => KeyOnDisk
  BY DEF HoldsKey, KeyOnDisk
<1> QED
  BY <1>1, <1>2, TypeCorrect, AloneStep, HoldsKeyStep, PTL DEF Spec

(***************************************************************************)
(* Nonces                                                                  *)
(***************************************************************************)
\* A key that is drawn and not yet written has signed nothing.
KeyUnused ==
  ~overlapped => \A p \in Process : ipc[p] \in {"createKey", "writeKey"} =>
    \A i \in issued : i[1] # current[p]

\* While a process makes the counter file there is no counter on disk.
NoCounterYet ==
  ~overlapped => \A p \in Process :
    ipc[p] \in {"createCounter", "writeCounter"} => counterFile \notin Counter

\* What a thread has read is still in the file when it writes, and still
\* above every nonce when it has written.
CallInHand ==
  ~overlapped => \A p \in Process, t \in Thread :
    /\ tpc[p][t] = "write" => counterFile = read[p]
    /\ tpc[p][t] = "sync" => counterFile = read[p] + count[p]
    /\ tpc[p][t] \in {"write", "sync"} =>
         \A i \in issued : i[1] = keyFile => i[2] < read[p]

IInv ==
  /\ TypeOK /\ Known /\ Alone /\ HoldsKey
  /\ KeyUnused /\ NoCounterYet /\ CallInHand
  /\ NonceOnce /\ BurnBeforeUse

\* The part of the invariant that is about nonces.
NInv == KeyUnused /\ NoCounterYet /\ CallInHand /\ NonceOnce /\ BurnBeforeUse

LEMMA NonceInit == Init => NInv
BY DEF Init, NInv, KeyUnused, NoCounterYet, CallInHand, NonceOnce, BurnBeforeUse

\* A process that is on the directory is the only one.
LEMMA OnlyOne ==
  ASSUME Alone, ~overlapped, NEW p \in Process, ipc[p] # "down",
         NEW q \in Process, q # p
  PROVE  ipc[q] = "down"
BY DEF Alone

LEMMA InitStepKeepsNonces ==
  ASSUME IInv, NEW p \in Process, InitFromStorage(p)
  PROVE  NInv'
<1> USE KeyAssumption, FileAssumption
    DEF IInv, NInv, Goes, files, history, KeyUnused, NoCounterYet, CallInHand,
        NonceOnce, BurnBeforeUse
<1>0. SUFFICES ASSUME ~overlapped' PROVE NInv'
  OBVIOUS
<1>1. ~overlapped
      /\ (ipc[p] # "down" => \A q \in Process : q # p => ipc[q] = "down")
  <2>1. ~overlapped
    BY <1>0 DEF InitFromStorage, Start, ReadKey, DrawKey, CreateKey, WriteKey,
       CounterExists, CounterMissing, CreateCounter, WriteCounter, InitFails, Stop
  <2> QED BY <2>1, OnlyOne
<1>2. tpc[p] = [t \in Thread |-> "idle"]
  BY DEF InitFromStorage, Start, ReadKey, DrawKey, CreateKey, WriteKey,
     CounterExists, CounterMissing, CreateCounter, WriteCounter, InitFails, TypeOK
<1>3. CASE Start(p) \/ ReadKey(p)
  <2>1. CASE Start(p)
    BY <1>1, <2>1 DEF Start, TypeOK
  <2>2. CASE ReadKey(p)
    BY <1>1, <2>2 DEF ReadKey, TypeOK
  <2> QED
    BY <1>3, <2>1, <2>2
<1>4. ASSUME NEW k \in Key, DrawKey(p, k) PROVE NInv'
  BY <1>1, <1>4 DEF DrawKey, TypeOK, Known
<1>5. CASE CreateKey(p)
  <2>1. \A q \in Process : q # p => ipc'[q] = "down"
    BY <1>1, <1>5 DEF CreateKey, TypeOK
  <2>2. KeyUnused' /\ NoCounterYet'
    BY <1>1, <1>5, <2>1 DEF CreateKey, TypeOK
  <2>3. CallInHand' /\ NonceOnce' /\ BurnBeforeUse'
    BY <1>1, <1>2, <1>5 DEF CreateKey, TypeOK
  <2> QED
    BY <2>2, <2>3
<1>6. CASE WriteKey(p)
  <2>1. \A q \in Process : q # p => ipc'[q] = "down"
    BY <1>1, <1>6 DEF WriteKey, TypeOK
  <2>2. \A i \in issued' : i[1] # keyFile'
    BY <1>1, <1>6 DEF WriteKey
  <2>3. NonceOnce' /\ BurnBeforeUse'
    BY <1>1, <1>6, <2>2 DEF WriteKey
  <2>4. KeyUnused' /\ NoCounterYet'
    BY <1>6, <2>1 DEF WriteKey, TypeOK
  <2>5. \A q \in Process, t \in Thread : tpc'[q][t] = "idle"
    BY <1>1, <1>2, <1>6 DEF WriteKey, TypeOK
  <2> QED
    BY <2>3, <2>4, <2>5
<1>7. CASE CounterExists(p) \/ CounterMissing(p)
  <2>1. NonceOnce' /\ BurnBeforeUse' /\ CallInHand'
    BY <1>1, <1>7 DEF CounterExists, CounterMissing
  <2>2. Absent \notin Counter
    BY DEF Counter
  <2>3. ipc[p] = "counter" /\ ipc'[p] \in {"up", "createCounter"}
        /\ \A q \in Process : q # p => ipc'[q] = "down"
    BY <1>1, <1>7 DEF CounterExists, CounterMissing, TypeOK
  <2>4. KeyUnused'
    BY <2>3
  <2>5. ipc'[p] = "createCounter" => counterFile' = Absent
    BY <1>7 DEF CounterExists, CounterMissing, TypeOK
  <2>6. NoCounterYet'
    BY <2>2, <2>3, <2>5
  <2> QED
    BY <2>1, <2>4, <2>6
<1>8. CASE CreateCounter(p) \/ WriteCounter(p)
  <2>1. \A i \in issued : i[1] # keyFile
    BY <1>1, <1>8 DEF CreateCounter, WriteCounter
  <2>2. Torn \notin Counter
    BY DEF Counter
  <2>3. \A i \in issued' : i[1] # keyFile'
    BY <1>8, <2>1 DEF CreateCounter, WriteCounter
  <2>4. NonceOnce' /\ BurnBeforeUse'
    BY <1>1, <1>8, <2>3 DEF CreateCounter, WriteCounter
  <2>5. \A q \in Process, t \in Thread : tpc'[q][t] = "idle"
    BY <1>1, <1>2, <1>8 DEF CreateCounter, WriteCounter, TypeOK
  <2>6. CallInHand'
    BY <2>5
  <2>7. KeyUnused'
    BY <1>1, <1>8 DEF CreateCounter, WriteCounter, TypeOK
  <2>8. NoCounterYet'
    BY <1>1, <1>8, <2>2 DEF CreateCounter, WriteCounter, TypeOK
  <2> QED
    BY <2>4, <2>6, <2>7, <2>8
<1>9. CASE InitFails(p)
  BY <1>1, <1>9 DEF InitFails, Stop, TypeOK
<1> QED
  BY <1>3, <1>4, <1>5, <1>6, <1>7, <1>8, <1>9 DEF InitFromStorage

LEMMA CallKeepsNonces ==
  ASSUME IInv, NEW p \in Process, NEW t \in Thread, BuildOutboundPackets(p, t)
  PROVE  NInv'
<1> USE DEF IInv, NInv, Moves, files, history, KeyUnused, NoCounterYet,
            CallInHand, NonceOnce, BurnBeforeUse
<1>0. SUFFICES ASSUME ~overlapped' PROVE NInv'
  OBVIOUS
<1>1. overlapped' = overlapped /\ ipc' = ipc /\ current' = current
      /\ keyFile' = keyFile
  BY DEF BuildOutboundPackets, Reserve, ReadCounter, WriteBack, ReserveFails,
         Fails, BuildPackets
<1>2. ipc[p] = "up"
  BY DEF BuildOutboundPackets, Reserve, ReadCounter, WriteBack, ReserveFails,
         BuildPackets, TypeOK
<1>3. current[p] = keyFile
      /\ \A q \in Process : q # p => ipc[q] = "down" /\ tpc[q] = [u \in Thread |-> "idle"]
  <2>1. \A q \in Process : q # p => ipc[q] = "down"
    BY <1>0, <1>1, <1>2, OnlyOne
  <2> QED
    BY <1>0, <1>1, <1>2, <2>1 DEF HoldsKey, TypeOK
<1>4. ASSUME NEW len \in Length, Reserve(p, t, len) PROVE NInv'
  BY <1>0, <1>1, <1>3, <1>4 DEF Reserve, TypeOK, MutexFree
<1>5. CASE ReadCounter(p, t)
  <2>1. counterFile \in Counter /\ \A i \in issued : i[1] = keyFile => i[2] < counterFile
    BY <1>0, <1>1, <1>5 DEF ReadCounter, Fits
  <2> QED
    BY <1>0, <1>1, <1>3, <1>5, <2>1 DEF ReadCounter, TypeOK
<1>6. CASE WriteBack(p, t)
  <2>1. read[p] \in Nat /\ count[p] \in Nat /\ read[p] + count[p] <= MaxCounter
        /\ read[p] < read[p] + count[p]
    <3>1. tpc[p][t] = "write"
      BY <1>6 DEF WriteBack
    <3> QED BY <3>1 DEF TypeOK, Counter
  <2>2. counterFile' = read[p] + count[p] /\ counterFile' \in Counter
    BY <1>6, <2>1, NoWrap, SizeAssumption DEF WriteBack, Counter
  <2>3. \A i \in issued : i[1] = keyFile => i[2] \in Nat /\ i[2] < read[p]
    BY <1>0, <1>1, <1>6 DEF WriteBack, TypeOK, Counter
  <2>4. NonceOnce' /\ KeyUnused' /\ NoCounterYet'
    BY <1>0, <1>1, <1>2, <1>3, <1>6 DEF WriteBack, TypeOK
  <2>5. CallInHand'
    <3>1. \A q \in Process, u \in Thread :
            tpc'[q][u] = IF q = p /\ u = t THEN "sync" ELSE "idle"
      BY <1>3, <1>6 DEF WriteBack, TypeOK
    <3>2. UNCHANGED <<read, count, issued, keyFile>>
      BY <1>6 DEF WriteBack
    <3> QED
      BY <2>2, <2>3, <3>1, <3>2
  <2>6. \A i \in issued : i[1] = keyFile => i[2] < read[p] + count[p]
    BY <2>1, <2>3
  <2>7. BurnBeforeUse'
    BY <1>0, <1>1, <1>6, <2>2, <2>6 DEF WriteBack
  <2> QED
    BY <2>4, <2>5, <2>7
<1>7. CASE ReserveFails(p, t)
  BY <1>0, <1>1, <1>3, <1>7 DEF ReserveFails, Fails, TypeOK
<1>8. CASE BuildPackets(p, t)
  <2>1. tpc[p][t] = "sync" /\ counterFile = read[p] + count[p]
        /\ counterFile \in Counter /\ read[p] \in Nat /\ count[p] \in Nat
    BY <1>0, <1>1, <1>8, SizeAssumption DEF BuildPackets, TypeOK, Counter
  <2>2. \A i \in issued : i[1] = keyFile => i[2] \in Nat /\ i[2] < read[p]
    BY <1>0, <1>1, <2>1 DEF TypeOK, Counter
  <2>3. \A i \in Nonces(p) : i[1] = keyFile /\ i[2] \in Nat /\ read[p] <= i[2]
                             /\ i[2] < counterFile
    BY <1>3, <2>1 DEF Nonces
  <2>4. Nonces(p) \cap issued = {}
    BY <2>1, <2>2, <2>3
  <2>5. \A i \in issued' : i[1] = keyFile' => i[2] < counterFile'
    BY <1>1, <1>8, <2>1, <2>2, <2>3 DEF BuildPackets
  <2>6. NonceOnce'
    BY <1>0, <1>1, <1>8, <2>4 DEF BuildPackets, TypeOK
  <2>7. BurnBeforeUse'
    BY <1>8, <2>1, <2>5 DEF BuildPackets
  <2>8. KeyUnused' /\ NoCounterYet' /\ CallInHand'
    BY <1>0, <1>1, <1>2, <1>3, <1>8 DEF BuildPackets, TypeOK
  <2> QED
    BY <2>6, <2>7, <2>8
<1> QED
  BY <1>4, <1>5, <1>6, <1>7, <1>8 DEF BuildOutboundPackets

\* The counter of a power loss is that on disk or the last one synced, both
\* above every nonce of the key on disk; if there was none, none was given out.
LEMMA StopKeepsNonces ==
  ASSUME EntryDurable, IInv, (\E p \in Process : Crash(p)) \/ PowerLoss
  PROVE  NInv'
<1> USE DEF IInv, NInv, files, history, KeyUnused, NoCounterYet, CallInHand,
            NonceOnce, BurnBeforeUse
<1>1. ASSUME NEW p \in Process, Crash(p) PROVE NInv'
  BY <1>1 DEF Crash, Stop, TypeOK
<1>2. CASE PowerLoss
  <2>1. KeyUnused' /\ NoCounterYet' /\ CallInHand' /\ NonceOnce'
    BY <1>2 DEF PowerLoss
  <2>2. ASSUME ~overlapped', NEW i \in issued', i[1] = keyFile'
        PROVE  counterFile' \in Counter /\ i[2] < counterFile'
    <3>1. ~overlapped /\ i \in issued /\ i[1] = keyFile
      BY <1>2, <2>2, KeyAssumption DEF PowerLoss, TypeOK
    <3>2. Absent \notin Counter
      BY FileAssumption DEF Counter
    <3>3. durable # Absent
      BY <3>1, <3>2
    <3> QED
      BY <1>2, <3>1, <3>3 DEF PowerLoss
  <2>3. BurnBeforeUse'
    BY <1>2, <2>2 DEF PowerLoss
  <2> QED
    BY <2>1, <2>3
<1> QED
  BY <1>1, <1>2

LEMMA IInvStep ==
  ASSUME EntryDurable
  PROVE  IInv /\ [Next]_vars => IInv'
<1> SUFFICES ASSUME IInv, [Next]_vars PROVE IInv'
  OBVIOUS
<1>1. TypeOK' /\ Known' /\ Alone' /\ HoldsKey'
  BY TypeStep, AloneStep, HoldsKeyStep DEF IInv
<1>2. CASE UNCHANGED vars
  BY <1>1, <1>2 DEF IInv, vars, files, history, KeyUnused, NoCounterYet, CallInHand,
     NonceOnce, BurnBeforeUse
<1>3. CASE Next
  BY <1>1, <1>3, InitStepKeepsNonces, CallKeepsNonces, StopKeepsNonces
  DEF IInv, NInv, Next
<1> QED
  BY <1>2, <1>3

\* The invariant IInv above holds of every directory that keeps the entry of a
\* file that was synced (reserve_counters syncs before it returns).
THEOREM Inductive ==
  ASSUME EntryDurable
  PROVE  Spec => []IInv
<1>1. Init => IInv
  BY TypeInit, NonceInit DEF IInv, NInv, Init, Alone, HoldsKey
<1> QED
  BY <1>1, IInvStep, PTL DEF Spec

\* If a file that was synced stays in its directory, no two shards ever carry
\* one nonce under one key until two processes overlap (reserve_counters).
THEOREM NoncesNeverReused ==
  ASSUME EntryDurable
  PROVE  Spec => []NonceOnce
BY Inductive, PTL DEF IInv

\* Nonces handed out lie below the counter on disk and below the one that a
\* power loss would bring back (the sync_all of reserve_counters).
THEOREM CounterAheadOfNonces ==
  ASSUME EntryDurable
  PROVE  Spec => []BurnBeforeUse
BY Inductive, PTL DEF IInv
=============================================================================
