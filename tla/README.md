# Verification of the S-vereign one-time-pad core

S-vereign keeps one-time pads in locked memory, hands out their bytes at most
once, and carries pads between two parties as signed, sealed, chunked messages
over files, pipes and screens. This directory holds TLA+ models of that core,
the TLC configurations that check them on small instances, and proofs for TLAPS.

Everything is translated from the sources: the pad pipeline from `src/src/*.rs`,
the shard engine from `src/sovchaf/src/otp.rs`, the watchdog and the key ceremony
from their Python files, where alone they exist. The Rust files under
`src/src/sovereign_core_verified/rust/src/` are byte-identical copies of those in
`src/src/` (except `lib.rs`), and every model holds for both; `SharedJournal` is
mapped to the copy, the other modules to the first. About half of the Rust lines
of the repository are therefore copies, and a good part of the rest is the tests
at the end of each file; neither is mapped a second time. The other Python files
are the originals the Rust code was ported from.

## 1. Inventory

| Component | State | Operations | Interacts with |
|---|---|---|---|
| `PadStore` (`pad_store.rs`) | locked buffer, `consumed_offset`, `mac_key`, `filled`; on disk the journal and its `.tmp` | `new` (given, random, deferred), `as_mut_ptr`, `finalize_fill`, `reserve`, `reserve_into`, `clear`, `drop` | owns a `LockedBuffer`; the file system, and through it any other store in the directory; filled by `ingest`, used by `export` |
| `LockedBuffer` (`locked_buffer.rs`) | memory, flag `locked` | `new`, writes, `clear`, `drop` | the allocator and the kernel's page locks, hence with every other buffer |
| Chunking (`chunking.rs`) | `ChunkReassembler`: session, total, slots, next number | `encode_chunks`, `ingest`, `assemble` | the adapters and whatever medium they use |
| Ingest (`ingest.rs`) | none of its own | `ingest_assembled_payload` | reassembler, transport, a deferred `PadStore` |
| Export (`export.rs`) | a short-lived `LockedBuffer` | `export_pad_payload` | `PadStore.reserve_into`, transport, `encode_chunks` |
| Transport (`transport.rs`, `sodium_ffi.rs`) | key pairs in locked memory | generate, seal, open, sign, verify | libsodium |
| File adapter (`file_adapter.rs`) | files in a directory | write, read | a writer and a reader process |
| Stream adapter (`stream_adapter.rs`) | position in a byte stream | read a chunk, iterate | a pipe |
| Optical adapter (`optical_adapter.rs`) | reassembler of frames | `encode_frame`, `ingest_frame`, `assemble` | a camera that skips and repeats |
| JNI bridge (`jni_bridge.rs`) | boxed buffers owned by the JVM | allocate, free | JVM |
| `ShardEngine` (`sovchaf/src/otp.rs`) | key file, counter file, in-process mutex | `init_from_storage`, `reserve_counters`, `build_outbound_packets` | other processes on the same directory |
| Posture watchdog (Python) | stop event, buffer registry | `start`, `stop`, monitor loop, shutdown | the ceremony thread, `SIGKILL` |

What is hard in this code, and what makes each part correct:

* **PadStore.** A write to the journal is four system calls, each of which can
  fail and between any two of which the process or the machine can die. Bytes
  may be wasted but never issued twice; the file must always be readable by the
  next store; cache and file must agree after every failure; a file that was
  damaged, or belongs to another pad, must be refused and not replaced. Nothing
  locks the journal, and journals of one stem share a temporary file: stores that
  meet there may cost each other bytes, but must not bring an offset back.
* **LockedBuffer.** Page locks do not nest, so buffers interact though they
  share no variable. Secrets must not reach swap or freed memory.
* **Chunking.** Chunks are lost, repeated, reordered, changed. What is assembled
  must have been sent, and refused chunks must not block the rest.
* **Export and ingest.** Each is a row of stages with an error path of its own,
  and either party may die between any two. A byte goes one way, sent or lost,
  and never both; what a receiver issues was sent, and is issued once; a failed
  ingest leaves nothing behind, and one tried again must get there.
* **File adapter.** A reader lists a directory while a writer renames files into
  it; writers die half-way; files are lost and copied on the way. What a read
  returns must be a beginning of a transmission, or be refused later.
* **Stream adapter.** No delimiters: after any error the framing is lost. An end
  in mid-chunk must not look like the end.
* **Optical adapter.** Frames in any order, again and again, of several loops,
  and frames whose number, count or payload is wrong: nothing checks them before
  the reassembler does, which latches tag and count first.
* **ShardEngine.** Several threads and, at different times, several processes on
  one counter file that is rewritten in place. A nonce must be used once per
  key, so the counter on disk must be ahead of all that were handed out, and the
  key at work must be the one on disk.
* **Watchdog.** Two threads on one set of buffers, a machine whose posture
  changes between two checks. A lasting violation must end the process, and the
  monitor must never end silently while keys are generated.

The full list, line by line, is `hazards` in `PROJECT.json`.

## 2. Modules

| Module | What it is |
|---|---|
| `PadLedger` | What a pad store promises: bytes are burned for good; only burned bytes are issued, once. |
| `PadStore`, `MCPadStore` | The pad store, its journal, crash, power loss, damage. Properties and the refinement mapping to `PadLedger` are at its end. |
| `SharedJournal`, `MCSharedJournal` | Several stores on journals of one stem: inodes, names and descriptors. |
| `LockedBuffer` | Buffers over page-wise locks. Checked directly: its constants are sets of model values. |
| `Ingest` | `ingest_assembled_payload` on the whole of `PadStore`. Has no run of its own; it is the receiver in `Exchange`. |
| `Exchange`, `MCExchange` | Export at a sender, a medium, ingest at a receiver. |
| `Chunking` | Encoder and reassembler. Has no run of its own; the three adapters extend it. |
| `FileAdapter`, `MCFileAdapter` | Writer, reader and carrier of a directory. |
| `OpticalAdapter`, `MCOpticalAdapter` | Loops on screens and a camera. |
| `StreamAdapter`, `MCStreamAdapter` | A pipe between writer and reader. |
| `ShardEngine`, `MCShardEngine` | Key and counter files under threads and processes. |
| `PostureWatchdog` | Ceremony thread and monitor thread. Has no constants and needs no MC module. |
| `PadStoreProofs`, `SharedJournalProofs`, `ExchangeProofs`, `FileAdapterProofs`, `ShardEngineProofs` | Theorems about those modules, with their proofs. |
| `ChunkingProofs` | What the proofs about the three adapters share: what `encode_chunks` cuts and `assemble` glues, and what a step of the reassembler keeps. |
| `PipeAndScreenProofs` | Theorems of `OpticalAdapter` and of `StreamAdapter`. |
| `SecretBufferProofs` | Theorems of `LockedBuffer` and of `PostureWatchdog`, the two modules about buffers that hold secrets. |

Operators named `X_Something` under a comment that begins with "Mutant" are
wrong versions of `X`; no specification uses them. Each is a plausible mistake,
and some property listed in `PROJECT.json` fails when it replaces `X`.

### PadStore

| Code | Model |
|---|---|
| `buf`, `locked`, `filled`, `consumed_offset`, `mac_key` | `buf`, `locked`, `filled`, `consumed`, `key`; `live` says that an object exists |
| journal file, `.tmp` file | `journal`, `tmp`: `Absent`, `Torn` (wrong length) or a record |
| the call in progress | `op`, `pc`, `need`; its outcome in `ret` |
| `new` | `New` (given or random), `NewDeferred`, `NewRejected` |
| `finalize_fill` | `FinalizeFill`, `FinalizeAgain` |
| `load_journal` | `LoadAbsent`, `LoadAccepted`, `LoadRefused` |
| `reserve`, `reserve_into`, `reserve_common` | `Reserve`, `ReserveRejected`, and `CommitReserve`, where the bytes are returned |
| `write_journal_static` | `CreateTmp`, `WriteTmp`, `SyncTmp`, `RenameTmp`, `IoError` |
| `clear`, `drop` | `Clear`, `Drop` |

`issued` counts how often each byte `<<material, position>>` was returned to a
caller. `durable` is what a power loss may leave at the journal path when a
rename is not on the medium yet; `synced` says whether the temporary file is.

Abstractions. Pad material is a model value: the key derivation (a keyed hash
of the material) is taken to be injective, and a MAC to match only the offset
and key it was made from. A record therefore has the offset field and the
offset and key of its MAC, so that damage to the field alone is visible. Random
material is any material. The check for `n = 0`, the short destination and the
exhausted pad are one action each of whose outcomes leaves the store alone.

Environment. `Crash` ends the process at any step; files keep what was written.
`PowerLoss` may also bring back the last durable journal. `Damage` changes the
length or the offset field of an intact journal. Deleting the file, or putting
an older intact copy in its place, is outside the model: no code in this program
could notice it.

Two constants select behaviour the code leaves to its surroundings.
`RenameDurable`: whether a rename that returned survives power loss (the code
syncs the file, never the directory). `ReuseCleared`: whether callers fill a
store again after `clear()`. The code lets them, and such a store is usable with
its buffer munlocked and never erased again, since `finalize_fill()` does not
look at `locked`. The theorems cover both values of `ReuseCleared`,
except `MaterialStaysLocked`, which is false of a store that is filled again.

### SharedJournal

`PadStore` has the file system to itself. Here each of several processes has a
store, and files are inodes: `name` maps the journal paths and the one temporary
path to inodes, `fd` is the descriptor a store writes through, `data` the content
of each inode. So a store may truncate the temporary file another has open
(`CreateTmp`), write into an inode that was renamed away (`WriteTmp`), or rename
what another wrote (`RenameTmp`). `Open` is `new` or `finalize_fill` up to
`load_journal`; power loss, damage and the buffer are left to `PadStore`, and a
`Close` is `drop`, a crash or a constructor's error alike. A store keeps the
journal path that `Init` chose for its process.

Stores that meet can leave each other torn journals, journals of the other's
pad, and caches that disagree with the file. TLC finds all of these at once; the
code promises nothing about them. What holds is the part that matters, and its
limits are in the history variables: `twins` are the pads that two stores had
open at a time, or that were opened at two paths (`home` is the first); only of
those is a byte ever returned twice. `met` are the live stores that shared their
time with another; one that did not is coherent with its journal, whatever dead
stores left in the files.

### LockedBuffer

`stage` follows a buffer through `alloc_zeroed`, `mlock`, use, the erasing loop,
`munlock`, `dealloc`; `pinned` is the kernel's set of locked pages, on which
`munlock` removes a page however often it was locked. `SwapOut` is the kernel.
A buffer lies on one page, which is the case that matters for keys of 32 bytes.
`drop` is `clear` followed by `Dealloc`. The code accepts writes after `clear()`
and never erases them (the Python original, `sovereign_memory.py:24`, refuses
them); `holds` tells such a secret, `Late`, from one written before, and the
properties promise nothing for it. `SharePages` says whether the allocator may
put two buffers on one page.

### Ingest and Exchange

`Ingest` EXTENDS `PadStore` and replaces `Populate` and `FinalizeFill` by the
ingest handler, which fills the buffer and runs `finalize_fill` step by step.
Reassembly, signature and sealed box enter as the kind of an envelope. Ingest
may be called on any store: fresh, cleared, or filled and in use.

`Exchange` adds the sender. `export_pad_payload` is `ExportReserve`, `SealPad`,
`SignAndWrap`, `EncodeChunks`, with `ExportFails` and `SenderCrash` in between.
Of the sender's store only the journal's offset is kept: that a `reserve` which
returned has advanced it for good is what `BurnBeforeUse` and
`OffsetNeverRetreats` say of `PadStore`. A pad is named by the span of the
sender's pad it comes from, so that `IssuedWasSent` can relate a byte issued at
the receiver to the byte burned at the sender. `wire` holds every transmission
that left; any can be delivered at any time, again, or never, and each as any of
the envelopes in `Assembled`: with chunks missing, signed or sealed with other
keys (both parties lose theirs when they die, and generate new ones), or whole,
and then too long, too short or exact for the receiver's store. Disk damage is
left out here.

### Chunking

`EncodeChunks` is a pure operator over sequences. A chunk that was changed fails
its hash (`IngestChanged`). The reassembler follows the code in taking session
and total from the first chunk that passes the hash and the bound, even if it
then refuses that chunk. `FreshSessions` says that no two transmissions share a
session id, which holds for the random ids of `encode_chunks` and is up to the
caller otherwise. The file and optical runs let ids be used again;
`AssembledWasSent` then promises what the reassembler can keep: if only one
transmission has the id and the number of chunks it follows, that one is what it
assembles.

### The adapters

All three EXTEND `Chunking` and give it a medium: they use its `Transmit` for
the sender and its `Ingest` for the reassembler at the other end.

`FileAdapter`: `write_chunks_to_dir` is a loop of `CreateTmp`, `WriteTmp`,
`SyncTmp`, `RenameTmp`, and may fail or die anywhere (`WriteFails`).
`read_chunks_from_dir` lists and reads one file at a time (`ReadEntry`, in any
order, while the directory changes), then sorts and checks: `ReadNothing`,
`ReadDuplicate`, `ReadGap`, `ReadReturns`. `Listed` says what `read_dir`
guarantees: a file that was there all the time is listed; one that comes or goes
meanwhile may be or not. Files are named by the number in their name; `Copies`
are names only a person gives, no numbers. A writer puts the chunks of any
payload into files, also of one that is beyond the reader's bound on chunks
(`Seqs`). `Carry` (lose, copy, truncate) happens while
neither side uses the directory; bytes that change in a file and leave its number
alone are left out, since the hash of the chunk refuses them at ingest. `MaxWrites` bounds the transmissions written.

`OpticalAdapter`: `shows` are the loops on screens, at most `MaxLoops`. A
captured frame takes one of the ways through `ingest_frame`: `CaptureOther`,
`CaptureOtherLoop`, `CaptureMisnumbered`, `CaptureDifferent`, `CaptureAgain`,
`CaptureNew`; `CaptureOther` stands for what is no frame, too short for its
header or of another magic, and changes nothing. The tag and count are latched
before the number and the payload are checked, as in the code, so every other
frame may be followed, those that are then refused too. Two loops may share a tag.
Callers of `encode_frame` may number from 1, as `tests/send_message.rs` does, give
any count up to `MaxCount` (0, too few, too many), and put a payload into a frame
that is no chunk (`Strays`, refused as too short for a chunk header or for what
stands in the place of its number). The properties say under which of this they
hold: `OneLoop` for any counts and payloads, if no two loops share a tag;
`LoopCompletes` once a loop is followed whose numbers and count are right.

`StreamAdapter`: a byte on the wire is `<<chunk, position>>`, so that it is
visible when bytes of two chunks are taken for one. `out` are the chunks still
to be written and `at` the bytes of the first that are out. One read or write
moves one byte; a longer one is several such steps. A header that does not lie
on a chunk boundary declares any length. `Faulty` allows abandoned writes and
failing reads.

### ShardEngine

`ipc` follows each process through `init_from_storage`, `tpc` each of its threads
through `reserve_counters`; the two files are created, written and, the counter
only, synced in steps of their own, so that crashes and other processes come in
between. The seek and the write of the counter's 8 bytes are one step (`WriteBack`):
a counter half written is not modelled. `build_outbound_packets` is the reservation plus the shards that carry
the nonces (`Nonces`). `durable` is the counter a power loss leaves at worst;
what was never synced may be torn or gone. `EntryDurable` says whether a file that
was synced keeps its directory entry, which `sync_all` does not promise and the
code, as `PadStore`, never syncs the directory for. With `FALSE` TLC finds the
counter gone while its key remains, and nonces used again; the run and the
theorems about nonces assume it.

The mutex is shared by the threads of one process only, so two processes at a
time reuse nonces. `overlapped` records that this happened, and the properties
hold up to then. The contents of a shard are left out, and with them a hazard
that stays in the list: the keystream depends on the key and on the serial number
the caller counts up from, not on the nonce (`otp.rs:161`), so that two messages
with one serial number are encrypted alike.

### PostureWatchdog

`cpc` and `mpc` are the two threads. `clean` is what each check would find, which
`PostureChanges` alters at any time, so a round of three checks sees a mixture.
`Clear` is `SecureKeyBuffer.clear`, atomic here: erasing twice is erasing once.
`GiveUp` are the failures of `mlock`, `start()` and key derivation. A check that
cannot be made counts as unclean in the code; it is `GiveUp` before the monitor
runs and `CheckRaises` after. Writing to stderr is taken to succeed.

## 3. Runs

| Run | Shows | Instance |
|---|---|---|
| `store_restarts` | With renames that persist: no reuse, burn before use, cache and file agree, material only in locked memory, the offset only grows, no torn file, no refusal of an intact journal, and the refinement to `PadLedger`. | 3 bytes, 2 materials, any number of restarts; cleared stores are not refilled |
| `store_powerloss` | Finding: reuse after a power loss. | 2 bytes, 1 material |
| `shared_journal` | However stores meet in journals and the temporary file, a byte is returned twice only of a pad that is among the twins; a store that was alone is coherent. | 2 processes, 2 pads of 2 bytes, 2 paths of one stem |
| `exchange` | Each byte of the sender goes one way; what the receiver issues was sent and is issued once; a failed ingest into a fresh store leaves nothing; a receiver that tries again gets its store. | 4 bytes at the sender, stores of 2, every split, every envelope |
| `buffers_own_pages` | No secret in swap or in freed memory, if buffers do not share pages. | 3 buffers, 3 pages |
| `buffers_shared_page` | Finding: clearing one buffer unlocks its neighbour. | 3 buffers, 3 pages |
| `file_directory` | The writer never tears a file; a read that succeeds has no hole; what is assembled was sent; a whole transmission is delivered. | 3 payloads of 1 and 2 chunks, 2 session ids used freely, 2 writes, 1 name for copies |
| `optical_loops` | Loops are never merged: what is assembled is a beginning of one, as long as its frames count, and nothing only where they count 0; a followed loop completes. | 3 payloads of 1, 2 and 3 chunks (the last beyond the bound on chunks), 2 session ids, 2 tags, 2 loops, numbers from 0 or 1, counts 0 to 2, frames without a chunk |
| `stream_faulty` | In step until an error; an end in mid-chunk is an error; allocation bounded; the end is reached. | 3 payloads of 1 and 2 chunks of 3 or 4 bytes, 2 sessions |
| `shard` | No nonce twice under a key, the counter ahead of every nonce, the key at work on disk, up to the first overlap of two processes. | 2 processes of 2 threads, 2 keys, messages of 0, 2 and 3 bytes in shards of 2, counters up to 3 |
| `watchdog_ceremony` | A lasting violation ends the process though the ceremony may hang; no silent end of the monitor; nothing left behind; the ceremony ends. | 3 checks, 3 buffers, as in the code |
| `watchdog_zeroed` | Finding: keys are written into buffers already cleared. | the same |

Why the bounds are enough. A pad of 3 bytes is reserved in every way (1+1+1,
1+2, 2+1, 3, with a rest), has a first, an inner and a last byte, and can be
exhausted. Two materials give every case of a store that meets a journal: none,
its own, another's. The number of restarts, failures and damages is not bounded:
states are finite because offsets only grow. Two processes are the least that
meet, two paths of one stem let them meet in the temporary file and not in the
journal, and two bytes let one be behind the other; what more processes or
journals could do is settled by the theorems. Four bytes at the sender allow two
exports of the receiver's size, one after a failure, and boxes that are too long
and too short. Three buffers on three pages include two that share and one that
does not. The payloads of the adapters are empty, exact multiples, one more, and
beyond the bound on chunks; a count of frames is 0, too small, right and too
large; two transmissions of two chunks are the least that
can be mixed up, a shorter one overwrites part of a longer one, and a header of
two bytes can be cut. A third transmission would meet what the second met: a
directory, a reassembler or a screen holds no more than the remains of one
before it. Messages of 0, 2 and 3 bytes take 1, 1 and 2 shards, the empty, the
full and the cut last one, and a counter of at most 3 overflows on the way. The
watchdog needs no bound: its loops are those of the code.

`shared_journal` and `shard` check invariants only and use the symmetry of their
processes, pads, paths, threads and keys.

Fairness. `exchange` assumes that a receiver goes on trying (`Retry`): it
generates its keys, opens a store, ingests a transmission that fits, and each
call it begins goes on. The premise of `RetrySucceeds` says the rest, that from
some time on no call fails and nothing is cut off; nothing is assumed of the
sender. `file_directory` assumes that a write and a read go on once begun and
that the receiver reads again after an error; nothing is assumed of when they
meet. `optical_loops` assumes that a frame still missing, which the loop shows
again and again, is caught at some time. `stream_faulty` assumes that the
receiver asks for the next chunk, as a `for` loop over the iterator does.
`watchdog_ceremony` assumes only that the interpreter lets the monitor run, so
that `ViolationEnds` does not rest on the ceremony ending by itself;
`CeremonyEnds` has the fairness of the ceremony in its statement. No fairness is
put on `PostureChanges`, on failures or on crashes.

No run disables the deadlock check.

## 4. Findings

1. **Power loss undoes a rename** (`store_powerloss`). The journal's directory
   is never synced, so the old journal, with its valid MAC, can return after the
   bytes were issued. The header of `pad_store.rs` promises that such bytes are
   burned.
2. **Page locks do not nest** (`buffers_shared_page`): clearing one small buffer
   unlocks the page of another.
3. **Keys after the purge** (`watchdog_zeroed`). The watchdog announces that the
   allocations are zeroed and sends SIGKILL; the ceremony may write keys into
   them in between, since it takes no lock and writes by address.

Met on the way, and kept as hazards or notes because no promise is broken, or
only for a caller who does what the documentation does not show:

* `ingest.rs:33-34` says that on any failure the store has been cleared. Errors
  of reassembly and signature, and a store already finalized, return without
  clearing (`ingest.rs:42,44,61`). Nothing was written to a fresh store then, so
  `FreshFailureClears` holds; a store that was in use stays in use, and an exact
  box ingested over it leaves the new pad in its buffer under the old key.
* A cleared buffer or store can be written again and is then neither locked nor
  erased.
* `pad_store.rs:230` asks `Path::exists()`, which is false for any error: a
  journal behind a link to a volume not mounted yet counts as none, and the
  store starts at offset 0.
* A directory with chunks of an earlier, longer transmission is read without
  complaint and fails at ingest for ever.
* One misnumbered frame, or one whose payload is no chunk, captured first, locks
  the optical reassembler on to its tag and count.
* A frame with a count of 0, captured first, is refused with `IndexOutOfRange`, but
  its count stays (`optical_adapter.rs:119-120,134`): `assemble` then succeeds and
  returns no chunk at all, where its own error for that case is "no frames
  received" (line 175). `ingest_frame` has not returned `Ok(true)` then (`OneLoop`
  says so), and a receiver that waits for it never sees the empty list. With a
  count too small, `assemble` returns the beginning of a loop, and the chunks'
  own count makes it incomplete later.
* The keystream of a shard does not depend on its nonce (`otp.rs:161`).
* The envelope encoder of `sovchaf/src/stream_adapter.rs:53` drops the last one
  or two bytes of a payload whose length is no multiple of three.
* `JNI_OnLoad` takes slot 0 of the invocation table, a reserved null entry, for
  the function it calls.
* `clear()` of the Python pad store keeps `_filled`, so `reserve` after it
  returns erased bytes; the Rust store refuses.

## 5. Proofs

Each theorem holds for every value of the constants that the named assumptions
of its module allow (sizes are positive, model values are what they are not);
TLC evaluates those assumptions in the runs. In parentheses is the property a run
checks that the theorem states. What it needs beyond the named assumptions is in
the third column.

| Module | Theorem (property) | Needs |
|---|---|---|
| `PadStoreProofs` | `TypeCorrect` (`TypeOK`) | – |
| | `Inductive`; `NeverReused` (`NoReuse`), `BurnedBeforeUsed` (`BurnBeforeUse`), `CacheIsCoherent` (`CacheCoherent`), `OffsetsGrow` (`OffsetNeverRetreats`), `JournalNeverTorn` (`NeverTorn`), `RefusalMeansDamage` (`RefusesOnlyDamage`), `StoreImplementsLedger` (`ImplementsLedger`) | `RenameDurable` |
| | `MaterialStaysLocked` (`MaterialLocked`) | `ReuseCleared = FALSE` |
| `SharedJournalProofs` | `TypeCorrect` (`TypeOK`), `ReuseTakesTwins` (`ReuseNeedsTwins`), `AloneStaysCoherent` (`AloneIsCoherent`) | – |
| `SecretBufferProofs` | `TypeCorrect`, `NothingLeftInFreedMemory` (`FreedErased`), `CeremonyWellTyped` (`WTypeOK`), `CeremonyLeavesNothing` (`LeavesNothing`), `MonitorNeverSilent` (`NeverSilent`) | – |
| | `SecretsStayInMemory` (`NeverSwapped`) | `SharePages = FALSE` |
| `ExchangeProofs` | `MaybeSentDefinitelyBurned` (`EachByteOneWay`), `BothWellTyped` (`XTypeOK`), `FailedIngestLeavesNothing` (`FreshFailureClears`) | – |
| | `IssuedWasSentOnce` (`IssuedWasSent`) | `RenameDurable` |
| `ChunkingProofs` | `EncodedIsWhole` | – |
| `FileAdapterProofs` | `FilesWellTyped` (`FTypeOK`), `FilesDeliverWhatWasSent` (`AssembledWasSent`), `NoTornFileIsNamed` (`WriterNeverTears`), `ReadsArePrefixes` (`ReadIsPrefix`) | – |
| `PipeAndScreenProofs` | `FramesWellTyped` (`OTypeOK`), `FramesDeliverWhatWasSent` (`AssembledWasSent`), `LoopsNeverMerge` (`OneLoop`) | – |
| | `BytesWellTyped` (`STypeOK`), `StreamDeliversWhatWasSent` (`AssembledWasSent`), `ReaderStaysInStep` (`InStep`), `CleanEndIsComplete` (`EndIsComplete`) | – |
| `ShardEngineProofs` | `TypeCorrect` (`TypeOK`), `EngineHoldsKeyOnDisk` (`KeyOnDisk`) | – |
| | `NoncesNeverReused` (`NonceOnce`), `CounterAheadOfNonces` (`BurnBeforeUse`) | `EntryDurable` |

**PadStore.** `NoReuse` is not inductive: a state in which the journal lags
behind what was issued satisfies it and the next step breaks it. `IInv` adds
what the code relies on without saying so:

* `JournalHeld`: while a store is usable, the offset and key *of the MAC* in the
  file are its own. Damage may change the offset field, never the MAC.
* `IssuedBelow`: what was issued lies below that offset, and below the cached
  one. The second half carries the argument when the file is damaged while a
  store is live, and the store then writes it anew.
* `FirstRecord`: as long as there is no file nothing was issued, so offset 0 is
  right; and `new` or `finalize_fill` write a record only then.
* `TmpReady`: the file that is renamed is complete and synced.
* `KeyOfBuffer`: a key in use is that of the material in the buffer.

The step lemmas go through the actions one by one. The refinement maps `burned`
to the bytes below the recorded offset; for a damaged file to those below the
cached offset while a store is live, and to all bytes once it is gone, since no
store will ever accept that file again. `BurnedGrows` shows that no step takes a
byte out of the record, `CommitIssues` that the only step that issues bytes
issues burned bytes not issued before.

**SharedJournal.** `FreeExists` counts names and descriptors against inodes, so
that `File::create` always has one. For reuse, all is stated for pads that are
not twins, whose only store is at its home path: every record such a store may
ever read, in its journal or in the temporary file that *any* store may rename
there, lies above what was returned (`FilesAhead`); where there is no journal
nothing was returned; and from the truncation of the temporary file to the
return of the bytes no file falls behind the offset being recorded
(`CallAhead`), whoever writes it. A MAC keeps records of other pads out. For
`AloneIsCoherent`, no inode has two names and the files of a store that was
alone are its own, step by step (`FilesAreItsOwn`).

**LockedBuffer.** A buffer that holds a secret written before `clear()` is between
`mlock` and the end of the erasing loop (`KeptIsLocked`); until `munlock` its page
is pinned (`LockedIsPinned`), and that is where pages of one's own are needed:
`munlock` of another buffer would unpin it.

**The key ceremony.** As long as the watchdog has not tripped, keys are in locked
buffers only (`InOrder`), and that is what makes `Clear` erase them: it does
nothing to a buffer that is not locked. The ceremony locks the buffers in order,
writes when all are locked, and leaves them in reverse. Once the watchdog has
tripped none of this holds (finding 3).

**Exchange.** `SInv` accounts for the sender's bytes. `WireInv` says that what is on
the wire are disjoint spans of bytes that were sent. The receiver's invariant
takes over from `IInv` what an ingest cannot disturb (`FirstRecord`, `TmpReady`,
`JournalHeld`) and adds that the pad of every record and of every store was
sent (`PadWasSent`), and that each position of a pad is issued once, of
whatever pad, below the recorded offset (`PositionOnce`, `PositionsBelow`).
`KeyOfBuffer` does not hold here: an ingest over a filled store puts another pad
under the old key, and the next bytes are the new pad's. That is why the
invariant speaks of the key of a record and of positions, and not of material.
Two bytes issued of different spans are different bytes of the sender, since the
spans are disjoint.

**Chunking.** The slices of a payload are consecutive and the last one ends where
the payload does (`ChunkCount`, `PrefixGrows`), so that they make the payload
(`SlicesMakePayload`, `EncodedIsWhole`). This is an induction along the slices
against the fold that `FlattenSeq` is (`FlattenIs`). The induction theorem of
the library cannot be used, since it takes an operator as a parameter; `Induct`
takes a set, and follows from the well-foundedness of `<` on the naturals.

`TypeOK` is not inductive: a reassembler without a session that has slots
satisfies it, and the first chunk would then leave slots empty below `next`.
`RInv` adds that a reassembler without a session has no slots, and `Sourced`: each
slot below `next` holds the slice of that place of a transmission that was sent
under the id and count followed. If there is one such transmission only, all
slots are its slices, and `assemble` returns it (`AssembledIsSent`). The lemmas
`...KeepsRInv` say this step by step for whatever feeds the reassembler, as long
as it feeds chunks that were sent (`SentChunk`); that it does is left to the
invariant of each adapter, and for that it has to follow the chunks all the way
through its medium.

**The adapters.** `FInv`: every chunk in a file, in a reader's hand, or fed was
sent (`DirInv`, `ReaderInv`); a file under a name the writer uses holds the chunk of
that number or is torn; a temporary file about to be renamed is complete
(`WriterInv`). A read returns the chunks sorted by number, and that these are
distinct and without a hole makes them a beginning of every transmission they
all belong to: the sorted list is the only increasing one (`InOrderIs`).

`FramesInv`: each frame taken is that of some loop with the tag and the count that
were latched, at its number; when no two loops share a tag that is one loop, and
as many frames as the count fill its beginning (`NoneMissing`, `SameBeginning`).
A count of 0 is only followed after its frame was refused, and no later frame is
accepted.
`OInv` adds that all that is shown was sent, and all that is fed was shown.

`SInv`: the bytes on the wire and in the reader's hand are bytes of chunks that
were sent, and the reader asks for no more than the bound. A chunk is only
ingested when the bytes in hand are all its own and no more, so it was sent,
also when the reader has been asked on after an error.

Until an error is reported more is true of the stream: what was written is always
what was returned, followed by what is in hand, followed by what is on the wire
(`Conserved`); what was written is a row of whole chunks but for the last
(`Framed`), the writer goes on where it stopped (`WriterAt`), and the reader is
within one chunk that began on a boundary and reads no further than its end
(`ReaderAt`).

**ShardEngine.** Up to the first overlap one process at most is not down (`Alone`),
and the key it has read or written is that on disk (`HoldsKey`). For the nonces:
a key that is drawn but not written has no nonces (`KeyUnused`), while a counter
file is being made there is no counter on disk (`NoCounterYet`), and the counter
in hand is that of the file, above every nonce (`CallInHand`).

Only model-checked: liveness, which is out of the prover's reach. These are
`RetrySucceeds`, `WholeIsDelivered`, `LoopCompletes`, `CloseIsSeen`,
`ViolationEnds` and `CeremonyEnds`. Every other property of a run that passes is a
theorem, some under the condition of the third column, which is also that of the
run.

## 6. Not modelled

* The JNI bridge. Its two native functions are `LockedBuffer::new` and `drop`
  of a boxed buffer; the class that would call them is not in the repository,
  and `JNI_OnLoad` cannot register them.
* libsodium and the hashes: abstracted as injective functions and unforgeable
  MACs and signatures. Of `transport.rs` the models have the outcomes its callers
  tell apart.
* The contents of a shard, and the fallback of `sovchaf`'s `LockedBuffer::new`.
* The HTTP handler and the stream envelope of `sovchaf`: a stateless handler, and
  a writer of envelopes nothing in the repository reads.
* The Android application, generated assets, and the Python originals of the
  Rust code: no logic of their own.
* A payload in a frame that is no chunk and yet has the number of its frame where
  a chunk has its own: it would be taken, and refused by the reassembler's hash.
* Timing, message wording, the short-lived copy of random material that
  `fill_with_os_random` keeps outside locked memory (its comment names it).
* Deletion of a journal, or its replacement by an older intact copy.

## 7. What could come next

* Power loss and damage in `SharedJournal`, which has crashes only.
* The composition of `Exchange` with one of the adapters in place of `Assembled`;
  the two meet in the envelope kinds, and what the adapters may deliver is a
  subset of them.
