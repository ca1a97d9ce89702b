---------------------------- MODULE ShardEngine ----------------------------
(***************************************************************************)
(* The ShardEngine of src/sovchaf/src/otp.rs: a transport key and a nonce  *)
(* counter kept in two files of one directory.  init_from_storage makes    *)
(* what is missing, unsynced; reserve_counters reads, adds to and rewrites *)
(* the counter in place under a mutex that only the threads of one process *)
(* share.  build_outbound_packets gives each shard of a message the next   *)
(* of the counters it reserved.                                            *)
(*                                                                         *)
(* A process may die at any step, and the machine may lose power.  The     *)
(* specification lets several processes use the directory at a time; what  *)
(* the properties promise, they promise up to the first time two do.       *)
(***************************************************************************)
EXTENDS Naturals, FiniteSets

CONSTANTS
  Process, Thread,
  Key,            \* the keys the entropy engine may draw, each once
  Length,         \* plaintext lengths, in bytes
  ShardSize,      \* SHARD_PAYLOAD_SIZE
  MaxCounter,     \* u64::MAX
  None,           \* no key in memory
  Absent, Torn,   \* a missing file; a file with too few bytes
  EntryDurable    \* is a file that was synced still in its directory
                  \* after a power loss?

Counter == 0 .. MaxCounter

ASSUME SizeAssumption == ShardSize \in Nat \ {0} /\ MaxCounter \in Nat
ASSUME LengthAssumption == Length \subseteq Nat
ASSUME KeyAssumption == {None, Absent, Torn} \cap Key = {}
ASSUME FileAssumption == Absent # Torn /\ {Absent, Torn} \cap Nat = {}
ASSUME SwitchAssumption == EntryDurable \in BOOLEAN

VARIABLES
  keyFile, counterFile,   \* transport.key and transport.counter
  durable,     \* the counter a power loss leaves at worst
  current,     \* [Process -> current_key in memory, or None]
  ipc,         \* [Process -> where init_from_storage stands]
  tpc,         \* [Process -> [Thread -> where reserve_counters stands]]
  read,        \* [Process -> current_counter of the call that holds the mutex]
  count,       \* [Process -> how many it asks for]
  drawn,       \* history: keys drawn so far
  issued,      \* history: <<key, nonce>> of every shard built
  reused,      \* history: some pair was issued twice
  overlapped   \* history: two processes were on the directory at a time

files == <<keyFile, counterFile, durable>>
history == <<drawn, issued, reused, overlapped>>
vars == <<files, current, ipc, tpc, read, count, history>>

Init ==
  /\ keyFile = Absent /\ counterFile = Absent /\ durable = Absent
  /\ current = [p \in Process |-> None]
  /\ ipc = [p \in Process |-> "down"]
  /\ tpc = [p \in Process |-> [t \in Thread |-> "idle"]]
  /\ read = [p \in Process |-> 0] /\ count = [p \in Process |-> 0]
  /\ drawn = {} /\ issued = {} /\ reused = FALSE /\ overlapped = FALSE

(***************************************************************************)
(* init_from_storage                                                       *)
(***************************************************************************)
Goes(p, a, b) == ipc[p] = a /\ ipc' = [ipc EXCEPT ![p] = b]

Start(p) ==
  /\ Goes(p, "down", "key")
  /\ overlapped' = (overlapped \/ \E q \in Process : ipc[q] # "down")
  /\ UNCHANGED <<files, current, tpc, read, count, drawn, issued, reused>>

\* The process is gone, or init_from_storage returned an error.
Stop(p) ==
  /\ ipc' = [ipc EXCEPT ![p] = "down"]
  /\ current' = [current EXCEPT ![p] = None]
  /\ tpc' = [tpc EXCEPT ![p] = [t \in Thread |-> "idle"]]
  /\ read' = [read EXCEPT ![p] = 0] /\ count' = [count EXCEPT ![p] = 0]
  /\ UNCHANGED history

ReadKey(p) ==
  /\ Goes(p, "key", "counter") /\ keyFile \in Key
  /\ current' = [current EXCEPT ![p] = keyFile]
  /\ UNCHANGED <<files, tpc, read, count, history>>

\* Hardware jitter fills the key.
DrawKey(p, k) ==
  /\ Goes(p, "key", "createKey") /\ keyFile = Absent
  /\ k \in Key \ drawn
  /\ drawn' = drawn \cup {k}
  /\ current' = [current EXCEPT ![p] = k]
  /\ UNCHANGED <<files, tpc, read, count, issued, reused, overlapped>>

CreateKey(p) ==
  /\ Goes(p, "createKey", "writeKey")
  /\ keyFile' = Torn
  /\ UNCHANGED <<counterFile, durable, current, tpc, read, count, history>>

WriteKey(p) ==
  /\ Goes(p, "writeKey", "counter")
  /\ keyFile' = current[p]
  /\ UNCHANGED <<counterFile, durable, current, tpc, read, count, history>>

\* Mutant: every start makes the counter anew.
CounterExists_Anew(p) ==
  /\ Goes(p, "counter", "createCounter") /\ counterFile # Absent
  /\ UNCHANGED <<files, current, tpc, read, count, history>>

CounterExists(p) ==
  /\ Goes(p, "counter", "up") /\ counterFile # Absent
  /\ UNCHANGED <<files, current, tpc, read, count, history>>

CounterMissing(p) ==
  /\ Goes(p, "counter", "createCounter") /\ counterFile = Absent
  /\ UNCHANGED <<files, current, tpc, read, count, history>>

\* File::create truncates a counter that another process has made meanwhile.
CreateCounter(p) ==
  /\ Goes(p, "createCounter", "writeCounter")
  /\ counterFile' = Torn
  /\ UNCHANGED <<keyFile, durable, current, tpc, read, count, history>>

WriteCounter(p) ==
  /\ Goes(p, "writeCounter", "up")
  /\ counterFile' = 0
  /\ UNCHANGED <<keyFile, durable, current, tpc, read, count, history>>

\* Mutant: an error of writing the key is dropped.
InitFails_Ignored(p) ==
  /\ Goes(p, "writeKey", "counter")
  /\ UNCHANGED <<files, current, tpc, read, count, history>>

\* A file is too short, cannot be made or written, or the entropy engine
\* fails; what was done to the files remains.
InitFails(p) ==
  /\ ipc[p] \in {"key", "createKey", "writeKey", "createCounter", "writeCounter"}
  /\ Stop(p)
  /\ UNCHANGED files

InitFromStorage(p) ==
  \/ Start(p) \/ ReadKey(p) \/ (\E k \in Key : DrawKey(p, k))
  \/ CreateKey(p) \/ WriteKey(p)
  \/ CounterExists(p) \/ CounterMissing(p) \/ CreateCounter(p) \/ WriteCounter(p)
  \/ InitFails(p)

(***************************************************************************)
(* build_outbound_packets and reserve_counters                             *)
(***************************************************************************)
Moves(p, t, a, b) == tpc[p][t] = a /\ tpc' = [tpc EXCEPT ![p][t] = b]

\* The call returns an error and the mutex is free.
Fails(p, t) ==
  /\ tpc' = [tpc EXCEPT ![p][t] = "idle"]
  /\ read' = [read EXCEPT ![p] = 0] /\ count' = [count EXCEPT ![p] = 0]
  /\ UNCHANGED <<files, current, ipc, history>>

\* One shard at least, also for an empty message.
TotalShards(len) ==
  IF len = 0 THEN 1 ELSE (len + ShardSize - 1) \div ShardSize

\* Mutant: the mutex is not taken.
MutexFree_Always(p) == TRUE

MutexFree(p) == \A t \in Thread : tpc[p][t] = "idle"

\* A thread has the mutex and opens the counter file.
Reserve(p, t, len) ==
  /\ ipc[p] = "up" /\ MutexFree(p)
  /\ Moves(p, t, "idle", "read")
  /\ count' = [count EXCEPT ![p] = TotalShards(len)]
  /\ UNCHANGED <<files, current, ipc, read, history>>

\* Mutant: the addition wraps.
Fits_Wraps(c, n) == c \in Counter

\* checked_add
Fits(c, n) == c \in Counter /\ c + n <= MaxCounter

ReadCounter(p, t) ==
  /\ Fits(counterFile, count[p])
  /\ Moves(p, t, "read", "write")
  /\ read' = [read EXCEPT ![p] = counterFile]
  /\ UNCHANGED <<files, current, ipc, count, history>>

WriteBack(p, t) ==
  /\ Moves(p, t, "write", "sync")
  /\ counterFile' = (read[p] + count[p]) % (MaxCounter + 1)
  /\ UNCHANGED <<keyFile, durable, current, ipc, read, count, history>>

\* The file cannot be opened or is too short, the sum overflows, or a system
\* call fails.
ReserveFails(p, t) ==
  /\ tpc[p][t] \in {"read", "write", "sync"}
  /\ Fails(p, t)

Nonces(p) == {current[p]} \X (read[p] .. read[p] + count[p] - 1)

\* sync_all returned; each shard is signed with a nonce of its own in it.  The
\* keystream a shard is encrypted with does not depend on that nonce, but on
\* the key and the serial number the caller counts up from.
BuildPackets(p, t) ==
  /\ Moves(p, t, "sync", "idle")
  /\ durable' = counterFile
  /\ issued' = issued \cup Nonces(p)
  /\ reused' = (reused \/ Nonces(p) \cap issued # {})
  /\ read' = [read EXCEPT ![p] = 0] /\ count' = [count EXCEPT ![p] = 0]
  /\ UNCHANGED <<keyFile, counterFile, current, ipc, drawn, overlapped>>

BuildOutboundPackets(p, t) ==
  \/ \E len \in Length : Reserve(p, t, len)
  \/ ReadCounter(p, t) \/ WriteBack(p, t)
  \/ ReserveFails(p, t) \/ BuildPackets(p, t)

(***************************************************************************)
(* The environment                                                         *)
(***************************************************************************)
Crash(p) ==
  /\ ipc[p] # "down"
  /\ Stop(p)
  /\ UNCHANGED files

\* Nothing but the counter is ever synced: the key may be gone or empty, and
\* so may be a counter not synced yet, or one whose entry was not.
PowerLoss ==
  /\ keyFile' \in {keyFile, Torn, Absent}
  /\ \/ counterFile' = counterFile
     \/ counterFile' = durable
     \/ counterFile' \in {Torn, Absent} /\ durable = Absent
     \/ counterFile' = Absent /\ ~EntryDurable
  /\ durable' = counterFile'
  /\ ipc' = [p \in Process |-> "down"]
  /\ current' = [p \in Process |-> None]
  /\ tpc' = [p \in Process |-> [t \in Thread |-> "idle"]]
  /\ read' = [p \in Process |-> 0] /\ count' = [p \in Process |-> 0]
  /\ UNCHANGED history

(***************************************************************************)
(* The specification                                                       *)
(***************************************************************************)
Next ==
  \/ \E p \in Process : InitFromStorage(p) \/ Crash(p)
  \/ \E p \in Process, t \in Thread : BuildOutboundPackets(p, t)
  \/ PowerLoss

Spec == Init /\ [][Next]_vars

(***************************************************************************)
(* Properties                                                              *)
(***************************************************************************)
InitStep == {"down", "key", "createKey", "writeKey", "counter",
             "createCounter", "writeCounter", "up"}

\* The types of the variables; a key is in memory from the first step that
\* needs one, at most one thread of a process has the counter in hand, and
\* what it is about to write fits the eight bytes of the file.
TypeOK ==
  /\ keyFile \in Key \cup {Absent, Torn}
  /\ {counterFile, durable} \subseteq Counter \cup {Absent, Torn}
  /\ current \in [Process -> Key \cup {None}]
  /\ ipc \in [Process -> InitStep]
  /\ tpc \in [Process -> [Thread -> {"idle", "read", "write", "sync"}]]
  /\ read \in [Process -> Counter] /\ count \in [Process -> Nat]
  /\ drawn \subseteq Key /\ issued \subseteq Key \X Counter
  /\ reused \in BOOLEAN /\ overlapped \in BOOLEAN
  /\ \A p \in Process :
       /\ ipc[p] \notin {"down", "key"} => current[p] \in drawn
       /\ \A t \in Thread : tpc[p][t] # "idle" =>
            /\ ipc[p] = "up" /\ count[p] > 0
            /\ \A u \in Thread \ {t} : tpc[p][u] = "idle"
            /\ tpc[p][t] # "read" => read[p] + count[p] <= MaxCounter

\* No two shards ever carry one nonce under one key, whatever the
\* threads of a process do and however processes follow one another through
\* crashes, power losses and failed calls (reserve_counters writes and syncs
\* the counter before it returns; init_from_storage keeps what exists).
NonceOnce == ~overlapped => ~reused

\* A nonce handed out under the key on disk lies below the counter on disk,
\* and below any counter a power loss would bring back: the next process
\* neither starts again nor finds the counter gone.
BurnBeforeUse ==
  ~overlapped => \A i \in issued : i[1] = keyFile =>
    \A c \in {counterFile, durable} : c \in Counter /\ i[2] < c

\* An engine at work holds the key that is on disk, so that the shards it
\* signs are verified by whoever opens the directory next.
KeyOnDisk ==
  ~overlapped => \A p \in Process : ipc[p] = "up" => current[p] = keyFile
=============================================================================
