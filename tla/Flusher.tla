------------------------------- MODULE Flusher -------------------------------
(***************************************************************************)
(* The flush pipeline of src/flusher/flusher.rs composed with the bucket  *)
(* map of BucketMap.  Every sealed memtable gets its own spawned task      *)
(* (flush_handler) that runs Flusher::flush: insert into a bucket under   *)
(* the bucket map lock, register the key range, push the bloom filter,    *)
(* re-sort the bloom filters, then drop the memtable from the read-only   *)
(* registry and spawn a try_broadcast of the flush signal.  Each of those *)
(* is a separate lock acquisition, so tasks interleave between them.      *)
(* The compactor is a receiver of the signal channel; on a signal it runs *)
(* a compaction round of BucketMap.                                        *)
(***************************************************************************)
EXTENDS BucketMap

CONSTANT SignalCapacity   \* capacity of the async_broadcast flush channel

ASSUME SignalCapacity \in Nat \ {0}

VARIABLES
    readOnly,      \* read_only_memtable registry: ids of sealed memtables
    tasks,         \* flush task of each sealed memtable: pc, size, result
    keyRange,      \* KeyRange: data file paths registered by a flush
    bloomFilters,  \* the bloom filter list: [path, hotness] copies
    signals,       \* flush signals buffered in the broadcast channel
    broadcasts,    \* spawned try_broadcast tasks not yet run
    unanswered     \* ghost: a flush completed since the compactor last woke

flVars == <<readOnly, tasks, keyRange, bloomFilters, signals, broadcasts, unanswered>>
allVars == <<vars, flVars>>

Memtables == 1..MaxFlushes

(***************************************************************************)
(* Sealing (the engine, not in src/): a full memtable moves to the        *)
(* read-only registry and flush_handler spawns its task.                  *)
(***************************************************************************)
\* Mutant of SealMemtable: no flush task is spawned for the sealed table.
SealMemtableUnspawned ==
    /\ flushes < MaxFlushes
    /\ flushes' = flushes + 1
    /\ readOnly' = readOnly \cup {flushes + 1}
    /\ UNCHANGED <<bmVars, compactor, flushed, tasks, keyRange, bloomFilters,
                   signals, broadcasts, unanswered>>

SealMemtable ==
    /\ flushes < MaxFlushes
    /\ \E size \in TableSizes :
         LET m == flushes + 1 IN
         /\ flushes' = m
         /\ readOnly' = readOnly \cup {m}
         /\ tasks' = tasks @@ (m :> [pc |-> "insert", size |-> size,
                                     path |-> NoPath, hotness |-> 0])
    /\ UNCHANGED <<bmVars, compactor, flushed, keyRange, bloomFilters,
                   signals, broadcasts, unanswered>>

(***************************************************************************)
(* Flusher::flush, one step per lock acquisition                           *)
(***************************************************************************)

\* Mutant of FlushInsert: the memtable leaves the read-only registry as
\* soon as its SSTable is in a bucket, before KeyRange and bloom filter.
FlushInsertReleasing(m) ==
    /\ tasks[m].pc = "insert"
    /\ InsertToAppropriateBucket(tasks[m].size, 1, {m})
    /\ tasks' = [tasks EXCEPT ![m] =
                   IF bmResult'.status = "ok"
                   THEN [@ EXCEPT !.pc = "keyrange", !.path = bmResult'.path,
                                  !.hotness = bmResult'.hotness]
                   ELSE [@ EXCEPT !.pc = "failed"]]
    /\ readOnly' = IF bmResult'.status = "ok" THEN readOnly \ {m} ELSE readOnly
    /\ UNCHANGED <<compactor, flushes, flushed, keyRange, bloomFilters,
                   signals, broadcasts, unanswered>>

\* flusher.rs:84-93: snapshot the bloom filter and the key bounds, then
\* insert_to_appropriate_bucket(table, 1) under the bucket map write lock.
\* An error or a panic ends the task: the memtable stays read-only.
FlushInsert(m) ==
    /\ tasks[m].pc = "insert"
    /\ InsertToAppropriateBucket(tasks[m].size, 1, {m})
    /\ tasks' = [tasks EXCEPT ![m] =
                   IF bmResult'.status = "ok"
                   THEN [@ EXCEPT !.pc = "keyrange", !.path = bmResult'.path,
                                  !.hotness = bmResult'.hotness]
                   ELSE [@ EXCEPT !.pc = "failed"]]
    /\ UNCHANGED <<compactor, flushes, flushed, readOnly, keyRange, bloomFilters,
                   signals, broadcasts, unanswered>>

\* flusher.rs:95-102: key_range.write().set(data_file_path, ...)
FlushKeyRange(m) ==
    /\ tasks[m].pc = "keyrange"
    /\ keyRange' = keyRange \cup {tasks[m].path}
    /\ tasks' = [tasks EXCEPT ![m].pc = "push"]
    /\ UNCHANGED <<vars, readOnly, bloomFilters, signals, broadcasts, unanswered>>

\* flusher.rs:104-109: the bloom filter carries a copy of the returned
\* SSTablePath, hotness included, and is pushed under its own lock.
FlushPushBloom(m) ==
    /\ tasks[m].pc = "push"
    /\ bloomFilters' = Append(bloomFilters, [path |-> tasks[m].path,
                                             hotness |-> tasks[m].hotness])
    /\ tasks' = [tasks EXCEPT ![m].pc = "sort"]
    /\ UNCHANGED <<vars, readOnly, keyRange, signals, broadcasts, unanswered>>

\* sort_by of flusher.rs:111-116: stable, by the copies' hotness, descending.
SortByHotness(s) ==
    LET ord == SetToSortSeq(DOMAIN s, LAMBDA i, j :
                   \/ s[i].hotness > s[j].hotness
                   \/ s[i].hotness = s[j].hotness /\ i < j)
    IN  [k \in DOMAIN ord |-> s[ord[k]]]

\* flusher.rs:111-118: re-take the lock, sort, return Ok.
FlushSortBloom(m) ==
    /\ tasks[m].pc = "sort"
    /\ bloomFilters' = SortByHotness(bloomFilters)
    /\ flushed' = flushed \cup {m}
    /\ tasks' = [tasks EXCEPT ![m].pc = "remove"]
    /\ UNCHANGED <<bmVars, compactor, flushes, readOnly, keyRange, signals,
                   broadcasts, unanswered>>

\* flusher.rs:148-153: on Ok, shift_remove the memtable from the read-only
\* registry and spawn the broadcast of the flush signal.
FlushDone(m) ==
    /\ tasks[m].pc = "remove"
    /\ readOnly' = readOnly \ {m}
    /\ broadcasts' = broadcasts + 1
    /\ unanswered' = TRUE
    /\ tasks' = [tasks EXCEPT ![m].pc = "done"]
    /\ UNCHANGED <<vars, keyRange, bloomFilters, signals>>

\* Mutant of Broadcast: the channel counts as full one signal early.
BroadcastOffByOne ==
    /\ broadcasts > 0
    /\ broadcasts' = broadcasts - 1
    /\ signals' = IF signals < SignalCapacity - 1 THEN signals + 1 ELSE signals
    /\ UNCHANGED <<vars, readOnly, tasks, keyRange, bloomFilters, unanswered>>

\* flusher.rs:153-164: try_broadcast; a full channel drops the signal and
\* logs FlushSignalOverflowError.
Broadcast ==
    /\ broadcasts > 0
    /\ broadcasts' = broadcasts - 1
    /\ signals' = IF signals < SignalCapacity THEN signals + 1 ELSE signals
    /\ UNCHANGED <<vars, readOnly, tasks, keyRange, bloomFilters, unanswered>>

(***************************************************************************)
(* The compactor as a receiver of the flush signal (not in src/)          *)
(***************************************************************************)

\* An idle compactor takes one signal and starts a round; with no bucket to
\* compact it goes back to waiting.
CompactorWake ==
    /\ signals > 0
    /\ compactor.phase = "idle"
    /\ signals' = signals - 1
    /\ unanswered' = FALSE
    /\ \/ CompactStart
       \/ /\ ~ExtractPanics /\ Extracted.compact = {}
          /\ UNCHANGED <<bmVars, compactor, flushes, flushed>>
    /\ UNCHANGED <<readOnly, tasks, keyRange, bloomFilters, broadcasts>>

(***************************************************************************)
(* The compactor's index maintenance (spec.md 2 and 5(c); not in src/):   *)
(* a merged SSTable is registered in KeyRange and its bloom filter pushed *)
(* and re-sorted as a flush does; a table compacted away leaves both.     *)
(***************************************************************************)

\* Mutant of CompactMergeRegistered: the merged table is never registered.
CompactMergeUnregistered(c) ==
    /\ CompactMerge(c)
    /\ UNCHANGED flVars

CompactMergeRegistered(c) ==
    /\ CompactMerge(c)
    /\ IF bmResult'.status = "ok" /\ c.id \in compactor'.merged
       THEN /\ keyRange' = keyRange \cup {bmResult'.path}
            /\ bloomFilters' = SortByHotness(Append(bloomFilters,
                                  [path |-> bmResult'.path, hotness |-> bmResult'.hotness]))
       ELSE UNCHANGED <<keyRange, bloomFilters>>
    /\ UNCHANGED <<readOnly, tasks, signals, broadcasts, unanswered>>

CompactDeleteUnregistering ==
    LET gone == UNION {PathsOf(d.sstables) : d \in compactor.plan.delete}
    IN  /\ CompactDelete
        /\ keyRange' = keyRange \ gone
        /\ bloomFilters' = SelectSeq(bloomFilters, LAMBDA f : f.path \notin gone)
        /\ UNCHANGED <<readOnly, tasks, signals, broadcasts, unanswered>>

FlushStep(m) ==
    \/ FlushInsert(m)
    \/ FlushKeyRange(m)
    \/ FlushPushBloom(m)
    \/ FlushSortBloom(m)
    \/ FlushDone(m)

CompactStep ==
    \/ \E c \in compactor.plan.compact : CompactMergeRegistered(c)
    \/ CompactDeleteUnregistering

FlusherInit ==
    /\ Init
    /\ readOnly = {}
    /\ tasks = <<>>
    /\ keyRange = {}
    /\ bloomFilters = <<>>
    /\ signals = 0
    /\ broadcasts = 0
    /\ unanswered = FALSE

FlusherNext ==
    \/ SealMemtable
    \/ \E m \in DOMAIN tasks : FlushStep(m)
    \/ Broadcast
    \/ CompactorWake
    \/ CompactStep

\* Tokio runs every spawned task that is ready, and the channel's receiver
\* is polled whenever a signal is buffered; sealing is up to the workload.
FlusherSpec ==
    /\ FlusherInit /\ [][FlusherNext]_allVars
    /\ \A m \in Memtables : WF_allVars(m \in DOMAIN tasks /\ FlushStep(m))
    /\ WF_allVars(Broadcast)
    /\ WF_allVars(CompactorWake)
    /\ WF_allVars(CompactStep)

(***************************************************************************)
(* Properties                                                              *)
(***************************************************************************)

FlusherTypeOK ==
    /\ TypeOK
    /\ readOnly \subseteq DOMAIN tasks /\ DOMAIN tasks = 1..flushes
    /\ \A m \in DOMAIN tasks :
         tasks[m].pc \in {"insert", "keyrange", "push", "sort", "remove", "done", "failed"}
    /\ keyRange \subseteq Paths
    /\ bloomFilters \in Seq(SSTablePath)
    /\ signals \in 0..SignalCapacity /\ broadcasts \in 0..MaxFlushes
    /\ unanswered \in BOOLEAN

\* A read finds a memtable's entries through the read-only registry, or
\* through an SSTable registered in KeyRange, with a bloom filter, whose
\* file exists and holds them.
Readable(m) ==
    \/ m \in readOnly
    \/ \E p \in keyRange \cap DOMAIN disk :
          /\ m \in holds[p]
          /\ \E i \in DOMAIN bloomFilters : bloomFilters[i].path = p

\* spec.md 5(b): a flushed table becomes visible atomically.  However the
\* lock acquisitions of concurrent flush tasks interleave, the entries of
\* every sealed memtable stay readable at every moment.
SealedDataReadable == \A m \in DOMAIN tasks : Readable(m)

\* spec.md 4.1: the bloom filters are kept sorted by the hotness of their
\* owning SSTable, hottest first, so the hottest tables are consulted first.
LiveHotness(p) ==
    LET owners == UNION {{<<b, i>> : i \in {j \in DOMAIN buckets[b].sstables :
                                              buckets[b].sstables[j].path = p}}
                           : b \in DOMAIN buckets}
    IN  IF owners = {} THEN 0
        ELSE LET o == CHOOSE o \in owners : TRUE
             IN  buckets[o[1]].sstables[o[2]].hotness

BloomOrderedByHotness ==
    \A i, j \in DOMAIN bloomFilters :
        i < j => LiveHotness(bloomFilters[i].path) >= LiveHotness(bloomFilters[j].path)

\* flusher.rs:148-164: after every completed flush the compactor is woken;
\* a signal dropped on a full channel is covered by one already buffered.
FlushWakesCompactor == unanswered ~> ~unanswered

=============================================================================
