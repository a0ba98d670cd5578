# TLA+ models of velarixdb's storage pipeline

This directory holds TLA+ models of the storage engine in `src/src/`. Each model is checked by TLC. Sections:

1. what the system is made of;
2. which module models which part, and how;
3. what each TLC run checks and what it shows;
4. the bounds and the fairness;
5. what is left out;
6. the plan for later work.

`PROJECT.json` maps every modelled definition to the source lines it translates.

## 1. The system

velarixdb is an LSM key-value engine with WiscKey-style value separation. Values live in an append-only **value log**. Memtables and SSTables hold only the value's offset in that log. The parts found in the repository:

| Part | Source | State it keeps | Operations that change state |
|---|---|---|---|
| BucketMap | `compaction/bucket_coordinator.rs` | bucket id ↦ (average size, ordered list of `SSTablePath{path, hotness}`); the data files on disk | `insert_to_appropriate_bucket`, `delete_sstables` (`extract_buckets_to_compact` reads only) |
| Flusher | `flusher/flusher.rs` | shared handles: the read-only memtable registry, BucketMap, the bloom-filter list, KeyRange | `flush` (four lock steps), `flush_handler` (spawns the flush, then a `try_broadcast`) |
| SSTable | `sstable/sst.rs` | data file, sparse index, entries, size | `new` (the file is named by the current ms), `write_to_file`/`write_block`, `from_file`; `get` and `range` read only |
| ValueLog | `vlog/v_log.rs` | the file, `size`, `head_offset`, `tail_offset` | `new`, `append`, `set_head`, `set_tail`, `clear_all` |
| GC tests | `tests/gc_test.rs` | none | they fix the GC contract: the tail moves only after a write syncs the GC's results |

**Not in the repository:** the compactor task, the garbage collector, Block, SparseIndex, BloomFilter, KeyRange, the memtable and the fs layer. Where a model needs them, it follows `spec.md` and marks those definitions `spec_modelled` in the map.

**How the parts interact:**

1. A sealed memtable goes to `flush_handler`, which spawns a task.
2. Under the BucketMap write lock, the task inserts the memtable into a bucket. That step writes the SSTable.
3. Still in the same task, it then registers the table in KeyRange, pushes its bloom filter and re-sorts the list. Each of these takes its own lock.
4. It removes the memtable from the read-only registry.
5. It spawns a `try_broadcast` of the flush signal.
6. The compactor listens on that channel. On a signal it runs a compaction round over the BucketMap.

Independently of flushing, every write appends its value to the ValueLog and keeps the returned offset. The GC scans from the tail, re-appends live values, and publishes their new offsets together with a cursor advance. The next write merges those offsets into the memtable and commits the cursors.

## 2. Modules

Every module is written from the source. Comments give the `file:line` each definition stands for, and `PROJECT.json` "map" lists them all.

### `BucketMap.tla`: bucket placement and the compaction round

**State:**
- `buckets`: id ↦ `[avg, sstables]`.
- `disk`: path ↦ length.
- `clock`: the ms stamp used in new file names.
- `bmResult`: what the last insert returned: ok, err or panic.
- `compactor`: the compaction task's phase and plan.
- Two ghosts, `holds` and `flushed`, which record which memtables' data each file holds.

**Actions and operators:**
- `InsertToAppropriateBucket` is the whole of `insert_to_appropriate_bucket`. Any matching bucket may be chosen, because HashMap iteration order is arbitrary. The action covers:
  - the push;
  - the hotness bump of every member, the new one included;
  - the average recomputed from file lengths;
  - the `fs::metadata().unwrap()` panic;
  - a write error;
  - the new-bucket branch.
- `Matches` is the code's float condition in exact integer form. `(avg*1.5) as usize` becomes `(3*avg) \div 2`.
- `Extracted` and `ExtractPanics` are `extract_buckets_to_compact`, including its out-of-range slice.
- `DeleteSstables` is `delete_sstables`, which keeps the prefix `[0..MAX_TRESHOLD]`.
- The compactor is spec-modelled as `CompactStart`, `CompactMerge` and `CompactDelete`. A merged table holds the entries of all its inputs.

### `Flusher.tla`: concurrent flush tasks composed with BucketMap

This module EXTENDS BucketMap and adds:
- the read-only registry;
- one task per sealed memtable, with a program counter;
- KeyRange;
- the bloom-filter list of `[path, hotness]` copies;
- the signal channel (bounded by `SignalCapacity`) and pending broadcasts.

`FlushInsert`, `FlushKeyRange`, `FlushPushBloom`, `FlushSortBloom` and `FlushDone` are the five lock acquisitions of `flush` and `flush_handler`. Any number of tasks interleave between them, and with compaction steps. `Broadcast` is `try_broadcast`, which drops the signal when the channel is full. `CompactorWake` (spec-modelled) takes one signal and starts a round. Inside this module the round also keeps the indexes, as spec.md §2 and §5(c) ask. `CompactMergeRegistered` registers each merged table in KeyRange and pushes and re-sorts its bloom filter. `CompactDeleteUnregistering` drops the KeyRange entries and bloom filters of the tables it deletes. Both are spec-modelled.

### `SSTable.tla`: write, read, range and recover at byte level

**State:**
- the memtable being written (any non-empty map from keys to `[off, tomb]`);
- the blocks built;
- the entries appended to the data file;
- `dataLen`, the bytes of the file that are present;
- the sparse index;
- a phase;
- the result of `from_file`.

**Actions and operators:**
- `BuildBlocks` is the loop of `write_to_file`. It casts `val_offset` to u32, and when the current block is full it pushes it, even an empty one.
- `WriteBlock` is `write_block`. It records the file length as u32 in the sparse index, then appends the block.
- `Crash` cuts the unsynced file at any byte.
- `ReadEntry` is one iteration of the three read loops, field by field. A 0-byte read of `key_len` is a clean EOF. A 0-byte read of any later field is `UnexpectedEOF`. A short read passes unnoticed.
- `GetFrom`, `RangeFrom` and `FromFileAt` are `get`, `range` and `from_file`, written as RECURSIVE scans.
- The properties compare them with the memtable, which serves as the reference.

### `ValueLog.tla`: append, the GC cycle and the two-phase sync

**State:**
- the entries physically in the file;
- `size`, `head` and `tail`;
- the memtable's key ↦ offset;
- the pending GC result;
- a ghost of each key's last value.

**Actions and operators:**
- `AppendOutcomes` is `append`. The offset handed out is `size`. A failed `write_all` is ignored, and `size` grows anyway.
- `Write` is the engine's put or delete, spec-modelled in three steps:
  1. `Sync` merges the pending GC offsets, commits tail and head through `set_tail` and `set_head`, and punches below the new tail;
  2. the write appends its entry;
  3. it points the memtable at the returned offset.
- `GcCycle` is spec-modelled. It reads a chunk from the tail (whole entries, until `ChunkSize` is reached), keeps the entries the memtable still points at, re-appends them with `append`, and publishes the new offsets.
- Spec.md §5 gives the GC exclusive use of the value log for a whole cycle. A cycle is therefore one step with respect to appends.
- `NewEntry` is `ValueLogEntry::new`, and `EntryLen` is the length `serialize` produces.
- `ReadValue(k)` is what a client's get returns: NoValue for a key never written or deleted, else the value of the entry at the memtable's offset, if an entry of that key is still there.

### `KVStore.tla`: the abstract key-value store

This is what the engine promises a client (spec.md §2): every key maps to the value of its last put, or to NoValue. Its only steps are a put and a delete of one key. `ValueLog.tla` instantiates it as `KV == INSTANCE KVStore WITH store <- [k \in Keys |-> ReadValue(k)]`. The refinement mapping is the store as reads see it. `ValueLogImplementsKV == KV!KVSpec` is checked as a PROPERTY. GC cycles and syncs must be stuttering steps of the abstract store, and each write must change only its own key, to the value written.

The `MC*.tla` modules declare the model values and the definitions the cfgs substitute.

## 3. Runs

### Passing runs

| Run | Module, cfg | Checks | Shows |
|---|---|---|---|
| BucketMapSafety | MCBucketMap, `BucketMapSafety.cfg` | `FlushedDataOnDisk` | Five flushes and whole compaction rounds over 3 buckets, with write failures and the metadata panic, never delete the last file holding a flushed memtable. |
| FlusherSafety | MCFlusher, `FlusherSafety.cfg` | `FlusherTypeOK`, `SealedDataReadable` | Every interleaving of three flush tasks' lock steps keeps every sealed memtable readable: it is in the registry, or in a file on disk that is in KeyRange and has a bloom filter. This holds with write failures and with compaction rounds that merge, register and delete. It holds through the prefix bug of `delete_sstables`, because the uncompacted tail stays on disk and in KeyRange even when the bucket forgets it. |
| FlusherLiveness | MCFlusher, `FlusherLiveness.cfg` | `FlushWakesCompactor` | Under weak fairness, a one-slot channel still wakes the compactor after every flush, because a signal is only dropped when one is already buffered. |
| SSTableRoundTrip | MCSSTable, `SSTableRoundTrip.cfg` | `GetFindsEveryKey`, `RangeReturnsBlocks`, `RecoveredIsWrittenPrefix` | For each of the 624 memtables over four keys, `get` (from the sparse-index offset) returns every key's offset and tombstone and None for absent keys. `range` between two index offsets returns exactly the blocks between them. `from_file` on a file cut at any byte returns an error or a prefix of what was written, and on a complete file returns everything. |
| ValueLogGC | MCValueLog, `ValueLogGC.cfg` | `VLogTypeOK`, `ValueLogImplementsKV`, `TailAdvanceBounded` | Across five puts and deletes, three GC cycles and the syncs: 0 ≤ tail ≤ head ≤ size. The value log with its GC implements `KVStore`: no cycle or sync changes what any read returns. A synced cycle moves the tail by at most `ChunkSize` plus one entry, as `gc_test.rs:179-227` and spec.md §8.5 state. |

Every property of a passing run has a mutant in `PROJECT.json`: a plausible bug in a mapped definition under which TLC finds the property violated. Examples of those bugs:
- the clock not counted;
- the tail unlinked instead of the prefix;
- no task spawned;
- registry removal at insert;
- an off-by-one on channel capacity;
- a missing `shift_remove`;
- skipping empty blocks;
- the GC deciding liveness by key only, instead of by key and offset;
- the chunk scan ignoring the chunk size;
- the last block not written;
- `>` for `>=` in `range`;
- the tombstone read unchecked;
- `set_head`/`set_tail` swapped;
- `size` not advanced;

### Violation runs

Each checks one property that TLC finds violated by the code's behaviour. `PROJECT.json` "findings" says what each shows.

| Run | Property | What the code does |
|---|---|---|
| BucketSizeDrift | `BucketSizeInvariant` | The average is recomputed after each push, so earlier members drift out of the 0.5–1.5 band that spec.md §3 calls an invariant. |
| ExtractPanic | `NoPanic` | `b.sstables[0..MAX_TRESHOLD]` panics for a bucket with MIN..MAX−1 members. |
| DeleteDropsTail | `FlushedDataReachable` | `delete_sstables` keeps the compacted prefix, so the uncompacted tail's data ends up in files no bucket lists. |
| SameMillisPaths | `UniqueSSTablePaths` | Two SSTables created in one ms in one bucket share an append-mode file. |
| BloomOrder | `BloomOrderedByHotness` | The bloom list is sorted on stale hotness copies. |
| ValOffsetTruncation | `GetFindsEveryKey` | `val_offset as u32` wraps, and `get` silently returns another offset. |
| AppendFailureShiftsOffsets | `LatestReadable` | `append` ignores the `write_all` error: the offset names bytes never written, and later entries sit below their offsets. |

## 4. Bounds and fairness

**BucketMap and Flusher.** The thresholds are scaled from 4/32 to 2/3 so that compaction happens within a few flushes. The liveness run uses 4/5 so that the extract panic (shown separately) does not end the compactor. FlusherSafety uses 1/2. That way a bucket of three tables, which three flushes reach, is compacted and its inputs deleted. A bucket of exactly two tables is compacted without a delete (the exact-`MAX_TRESHOLD` case), and a bucket of one table panics. With 2/3, deleting rounds need four concurrent flush tasks, and TLC did not finish that instance within half an hour. A new bucket takes any unused uuid, as `Uuid::new_v4` does. BucketMapSafety and FlusherSafety declare the bucket uuids a symmetry set (`MCBucketSymmetry`). The uuids are only compared for equality, and those runs check only invariants. The liveness run has no symmetry.

Sizes 10 and 40 cover both branches of the match:
- the small-file escape below `MIN_SSTABLE_SIZE` = 32;
- the 0.5–1.5 band.

Three bucket ids are enough for a new bucket per size class plus one more. The bounds `MaxFlushes` and `MaxTables` count flushes and created files. The safety run needs 5 flushes to reach the metadata panic after a round. The Flusher runs use 3 concurrent tasks, which gives every order of their 5 steps.

**SSTable.** Block target 45 bytes. Three 2-byte keys (19 bytes each) overflow one block, so a memtable of them spans two blocks. With a 30-byte key as well, it spans three, and `range` crosses two block boundaries. The 30-byte key fills a block of its own. The violation run `ValOffsetTruncation` keeps the earlier three-key instance (`MCKeyLen`). The memtable containing only that key is the one that produces an empty block. The u32 casts are scaled to `OffsetBits` = 7, so offsets ≥ 128 wrap, as offsets ≥ 2^32 do in the code.

**ValueLog.** `ChunkSize` 20 against entries of 18–19 bytes, so a chunk reads two entries and the last one is read whole. The bounds are 5 writes and 3 GC cycles. That is enough for a second cycle before a sync, and for a cycle that collects entries an earlier cycle re-appended. Keys and values are symmetry sets (`MCSymmetry`): the model only compares them for equality, and every property of the run is a safety property. The violation run keeps the smaller bounds and no symmetry.

**Fairness.** Only the liveness run assumes any: weak fairness on each flush task's steps, on the spawned broadcast, on the compactor's wake-up, and on its round. Tokio runs every spawned task that is ready, and the receiver is polled while a signal is buffered. Sealing and client writes are workload and get no fairness.

**Deadlock checking.** The runs set `CHECK_DEADLOCK FALSE`. The engine idles once the bounded workload ends.

## 5. Not modelled

- `clear_all`, which leaves `size` stale. It is called nowhere in the repository. What it does depends on writes through a handle to a removed file, which happens in fs.
- `ValueLog::recover` and `sync_to_disk`, which delegate to fs.
- `SSTable::new_with_exisiting_file_path` and bloom-filter building.
- What a read does with a KeyRange entry whose file is gone. A flush task registers its path at `flusher.rs:97`, one lock step after the insertion. A compaction round woken by an earlier signal can delete that table in between, and TLC reaches this in the FlusherSafety instance. The data stays readable through the merged table. The entry itself is never removed, and what a read does with it is code outside this repository.
- Hole-punching beyond "bytes below the tail read as zeros".
- `generate_random_id`.

## 6. Plan for later work

1. Spec.md §8.6 as a property: compaction removes exactly its inputs. It would catch a bucket of exactly `MAX_TRESHOLD` members, which is compacted but never put on the delete list. With the code's thresholds, the extract panic hides that case.
2. The sparse-index u32 cast with data files past `2^OffsetBits`, and a single entry larger than a block. Each needs a violation run of its own.
3. Two SSTables sharing one file (the same-ms case) read back through `from_file`.
4. A liveness violation run with write failures. A failed flush is only printed (`flusher.rs:168`) and never retried, so its memtable stays in the read-only registry.
