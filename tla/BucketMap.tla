------------------------------ MODULE BucketMap ------------------------------
(***************************************************************************)
(* Size-tiered placement of SSTables into buckets, and the compaction     *)
(* round that drives it: src/compaction/bucket_coordinator.rs             *)
(* (insert_to_appropriate_bucket, extract_buckets_to_compact,             *)
(* delete_sstables).  The compactor task itself is not in src/; its round *)
(* (extract, merge each bucket into one SSTable, insert it, delete the    *)
(* inputs) is taken from spec.md 4.2 and 8.6.                             *)
(*                                                                        *)
(* A data file is named <bucket dir>/sstable_<now in ms>_.db, so a path   *)
(* is a pair <<bucket, millisecond>>.  Sizes are the byte counts the code *)
(* compares; for an SSTable input its size() equals its data-file length *)
(* (sst.rs set_sst_size_from_entries and write_to_file count the same 17  *)
(* bytes of overhead per key), so one number stands for both.             *)
(***************************************************************************)
EXTENDS Naturals, Sequences, FiniteSets, TLC, SequencesExt, Functions

CONSTANTS
    BucketIds,          \* uuids a new bucket may get (model values)
    TableSizes,         \* sizes in bytes of the memtables handed to a flush
    MIN_SSTABLE_SIZE,   \* bucket_coordinator.rs:11
    MIN_TRESHOLD,       \* bucket_coordinator.rs:12
    MAX_TRESHOLD,       \* bucket_coordinator.rs:13
    MaxFlushes,         \* bound: memtables flushed in one behaviour
    MaxTables,          \* bound: SSTable files created (flushes and merges)
    SameMillisCreation, \* TRUE: two SSTables may be created in the same ms
    WriteMayFail        \* TRUE: SSTable::write_to_file may return an error

ASSUME /\ 0 < MIN_TRESHOLD /\ MIN_TRESHOLD < MAX_TRESHOLD  \* 4 < 32 in the source
       /\ TableSizes \subseteq Nat \ {0}
       /\ SameMillisCreation \in BOOLEAN /\ WriteMayFail \in BOOLEAN

VARIABLES
    buckets,    \* BucketMap.buckets: bucket id -> [avg, sstables]
    disk,       \* data files present on disk: path -> length in bytes
    clock,      \* Utc::now() in ms, the stamp in a new data file's name
    created,    \* SSTable files created so far
    bmResult,   \* what the last insert_to_appropriate_bucket returned
    compactor,  \* the compaction task: phase, extracted plan, merged ids
    flushes,    \* memtables handed to a flush so far (their ids are 1..)
    holds,      \* ghost: path -> ids of the memtables whose entries it holds
    flushed     \* ghost: memtables whose flush returned Ok

bmVars == <<buckets, disk, clock, created, bmResult, holds>>
vars == <<bmVars, compactor, flushes, flushed>>

Paths == BucketIds \X Nat
SSTablePath == [path : Paths, hotness : Nat]
NoPath == <<"none", 0>>

(***************************************************************************)
(* Helpers                                                                 *)
(***************************************************************************)

\* The condition of bucket_coordinator.rs:85-91, with BUCKET_LOW = 0.5 and
\* BUCKET_HIGH = 1.5 in exact integer form: avg*0.5 < size is avg < 2*size,
\* and (avg*1.5) as usize truncates to (3*avg) \div 2.
Matches(bk, size) ==
    \/ /\ bk.avg < 2 * size
       /\ size < (3 * bk.avg) \div 2
    \/ size < MIN_SSTABLE_SIZE /\ bk.avg < MIN_SSTABLE_SIZE

MatchingBuckets(size) == {b \in DOMAIN buckets : Matches(buckets[b], size)}

PathsOf(ss) == {ss[i].path : i \in DOMAIN ss}

\* The average of bucket_coordinator.rs:105: fs::metadata of every member
\* summed, divided by the member count (integer division).
AvgOf(ss, d) == SumFunction([i \in DOMAIN ss |-> d[ss[i].path]]) \div Len(ss)

\* SSTablePath::increase_hotness (the bucket map's own SSTablePath).
IncreaseHotness(s) == [s EXCEPT !.hotness = @ + 1]

\* SSTable::new stamps the file with the current millisecond; the next
\* creation happens in the same millisecond or a later one.
AdvanceClock ==
    /\ clock' \in IF SameMillisCreation THEN {clock, clock + 1} ELSE {clock + 1}
    /\ created' = created + 1

\* SSTable::new(dir, true) opens the data file with append+create and
\* write_to_file appends the table to it: a name already taken in the same
\* millisecond receives the new bytes after the old ones.
WriteFile(p, size, ids) ==
    /\ disk' = (p :> (IF p \in DOMAIN disk THEN disk[p] ELSE 0) + size) @@ disk
    /\ holds' = (p :> (IF p \in DOMAIN holds THEN holds[p] ELSE {}) \cup ids) @@ holds

\* write_to_file failed: the file was created but the bucket is untouched.
WriteFailed(p) ==
    /\ disk' = (p :> (IF p \in DOMAIN disk THEN disk[p] ELSE 0)) @@ disk
    /\ holds' = (p :> (IF p \in DOMAIN holds THEN holds[p] ELSE {})) @@ holds

(***************************************************************************)
(* insert_to_appropriate_bucket(memtable, hotness)                         *)
(***************************************************************************)

\* The first matching bucket of the HashMap iteration (any of them): push
\* the new path with the caller's hotness, bump every member (the new one
\* too), recompute the average.  If a member's file is gone the unwrap of
\* fs::metadata panics after the push and the bumps, with the average stale.
InsertToExisting(b, size, hot, ids) ==
    LET p      == <<b, clock>>
        pushed == Append(buckets[b].sstables, [path |-> p, hotness |-> hot])
        bumped == [i \in DOMAIN pushed |-> IncreaseHotness(pushed[i])]
    IN  /\ WriteFile(p, size, ids)
        /\ \/ /\ PathsOf(bumped) \subseteq DOMAIN disk'
              /\ buckets' = [buckets EXCEPT ![b] = [avg |-> AvgOf(bumped, disk'),
                                                    sstables |-> bumped]]
              /\ bmResult' = [status |-> "ok", path |-> p, hotness |-> hot]
           \/ /\ ~(PathsOf(bumped) \subseteq DOMAIN disk')
              /\ buckets' = [buckets EXCEPT ![b].sstables = bumped]
              /\ bmResult' = [status |-> "panic", path |-> p, hotness |-> hot]

\* Bucket::new: a fresh uuid directory, no members, average 0.
NewBucket == [avg |-> 0, sstables |-> <<>>]

\* No bucket matched: a fresh uuid directory seeded with the table at
\* hotness 1 and the table's file length as average.
InsertToNew(b, size, ids) ==
    LET p == <<b, clock>>
    IN  /\ WriteFile(p, size, ids)
        /\ buckets' = buckets @@ (b :> [NewBucket EXCEPT
                                           !.avg = size,
                                           !.sstables = <<[path |-> p, hotness |-> 1]>>])
        /\ bmResult' = [status |-> "ok", path |-> p, hotness |-> 1]

\* The bucket the loop settles on: a matching one, else a fresh random uuid
\* (Uuid::new_v4), any id not yet in use.
Targets(size) ==
    IF MatchingBuckets(size) # {} THEN MatchingBuckets(size)
    ELSE BucketIds \ DOMAIN buckets

InsertToAppropriateBucket(size, hot, ids) ==
    /\ created < MaxTables
    /\ MatchingBuckets(size) = {} => DOMAIN buckets # BucketIds
    /\ AdvanceClock
    /\ \E b \in Targets(size) :
          \/ b \in DOMAIN buckets /\ InsertToExisting(b, size, hot, ids)
          \/ b \notin DOMAIN buckets /\ InsertToNew(b, size, ids)
          \/ /\ WriteMayFail
             /\ WriteFailed(<<b, clock>>)
             /\ bmResult' = [status |-> "err", path |-> NoPath, hotness |-> 0]
             /\ UNCHANGED buckets

(***************************************************************************)
(* extract_buckets_to_compact and delete_sstables                          *)
(***************************************************************************)

\* Buckets with at least MIN_TRESHOLD members; each contributes its first
\* MAX_TRESHOLD members, and is listed for deletion only when it has more.
Extracted ==
    LET big == {b \in DOMAIN buckets : Len(buckets[b].sstables) >= MIN_TRESHOLD}
    IN  [compact |-> {[id |-> b, sstables |-> SubSeq(buckets[b].sstables, 1, MAX_TRESHOLD)]
                        : b \in big},
         delete  |-> {[id |-> b, sstables |-> SubSeq(buckets[b].sstables, 1, MAX_TRESHOLD)]
                        : b \in {c \in big : Len(buckets[c].sstables) > MAX_TRESHOLD}}]

\* b.sstables[0..MAX_TRESHOLD] is out of range for a bucket of fewer
\* members: the slice panics.
ExtractPanics ==
    \E b \in DOMAIN buckets : Len(buckets[b].sstables) \in MIN_TRESHOLD..(MAX_TRESHOLD - 1)

\* Mutant of DeleteSstables: the files of the uncompacted tail are
\* unlinked instead of the compacted ones.
DeleteSstablesTail(toDelete) ==
    LET ids  == {d.id : d \in toDelete}
        gone == UNION {PathsOf(SubSeq(buckets[d.id].sstables, MAX_TRESHOLD + 1,
                                      Len(buckets[d.id].sstables))) : d \in toDelete}
    IN  /\ buckets' = [b \in DOMAIN buckets |->
                          IF b \in ids
                          THEN [buckets[b] EXCEPT !.sstables = SubSeq(@, 1, MAX_TRESHOLD)]
                          ELSE buckets[b]]
        /\ disk' = Restrict(disk, DOMAIN disk \ gone)
        /\ holds' = Restrict(holds, DOMAIN holds \ gone)

\* Keep bucket.sstables[0..MAX_TRESHOLD] (average untouched), then unlink
\* every listed file; a failed unlink is only logged.
DeleteSstables(toDelete) ==
    LET ids  == {d.id : d \in toDelete}
        gone == UNION {PathsOf(d.sstables) : d \in toDelete}
    IN  /\ buckets' = [b \in DOMAIN buckets |->
                          IF b \in ids
                          THEN [buckets[b] EXCEPT !.sstables = SubSeq(@, 1, MAX_TRESHOLD)]
                          ELSE buckets[b]]
        /\ disk' = Restrict(disk, DOMAIN disk \ gone)
        /\ holds' = Restrict(holds, DOMAIN holds \ gone)

(***************************************************************************)
(* The compaction task (spec.md 4.2, 8.6; the compactor is not in src/)    *)
(***************************************************************************)

NoPlan == [compact |-> {}, delete |-> {}]

\* Woken up, the compactor extracts the buckets to compact.  A panic in the
\* extraction ends the task for good.
CompactStart ==
    /\ compactor.phase = "idle"
    /\ \/ /\ ExtractPanics
          /\ compactor' = [compactor EXCEPT !.phase = "crashed"]
       \/ /\ ~ExtractPanics
          /\ Extracted.compact # {}
          /\ compactor' = [phase |-> "merging", plan |-> Extracted, merged |-> {}]
    /\ UNCHANGED <<bmVars, flushes, flushed>>

\* Merge the extracted members of one bucket into one SSTable (its entries
\* are those of every input file) and insert it.  An input file that is
\* gone fails the read, an error of the insertion abandons the round, a
\* panic ends the task.
CompactMerge(c) ==
    LET inputs == PathsOf(c.sstables)
    IN
    /\ compactor.phase = "merging"
    /\ c \in compactor.plan.compact
    /\ c.id \notin compactor.merged
    /\ \/ /\ inputs \subseteq DOMAIN disk
          /\ InsertToAppropriateBucket(SumFunctionOnSet(disk, inputs), 1,
                                       UNION {holds[p] : p \in inputs})
          /\ compactor' = CASE bmResult'.status = "ok" ->
                                  [compactor EXCEPT !.merged = @ \cup {c.id}]
                            [] bmResult'.status = "err" ->
                                  [phase |-> "idle", plan |-> NoPlan, merged |-> {}]
                            [] OTHER -> [compactor EXCEPT !.phase = "crashed"]
       \/ /\ ~(inputs \subseteq DOMAIN disk)
          /\ compactor' = [phase |-> "idle", plan |-> NoPlan, merged |-> {}]
          /\ UNCHANGED bmVars
    /\ UNCHANGED <<flushes, flushed>>

\* Every bucket merged: delete_sstables on the extracted deletion list.
CompactDelete ==
    /\ compactor.phase = "merging"
    /\ {c.id : c \in compactor.plan.compact} = compactor.merged
    /\ DeleteSstables(compactor.plan.delete)
    /\ compactor' = [phase |-> "idle", plan |-> NoPlan, merged |-> {}]
    /\ UNCHANGED <<clock, created, bmResult, flushes, flushed>>

(***************************************************************************)
(* The bucket map driven by flushes and compaction rounds                  *)
(***************************************************************************)

\* A flush hands a memtable to insert_to_appropriate_bucket with hotness 1
\* (flusher.rs:87-93).
Flush(size) ==
    /\ flushes < MaxFlushes
    /\ flushes' = flushes + 1
    /\ InsertToAppropriateBucket(size, 1, {flushes + 1})
    /\ flushed' = IF bmResult'.status = "ok" THEN flushed \cup {flushes + 1} ELSE flushed
    /\ UNCHANGED compactor

Init ==
    /\ buckets = <<>>
    /\ disk = <<>>
    /\ clock = 0
    /\ created = 0
    /\ bmResult = [status |-> "ok", path |-> NoPath, hotness |-> 0]
    /\ compactor = [phase |-> "idle", plan |-> NoPlan, merged |-> {}]
    /\ flushes = 0
    /\ holds = <<>>
    /\ flushed = {}

Next ==
    \/ \E size \in TableSizes : Flush(size)
    \/ CompactStart
    \/ \E c \in compactor.plan.compact : CompactMerge(c)
    \/ CompactDelete

Spec == Init /\ [][Next]_vars

(***************************************************************************)
(* Properties                                                              *)
(***************************************************************************)

TypeOK ==
    /\ DOMAIN buckets \subseteq BucketIds
    /\ \A b \in DOMAIN buckets :
          buckets[b] \in [avg : Nat, sstables : Seq(SSTablePath)]
    /\ DOMAIN disk \subseteq Paths /\ DOMAIN holds = DOMAIN disk
    /\ \A p \in DOMAIN disk : disk[p] \in Nat /\ holds[p] \subseteq 1..flushes
    /\ clock \in 0..created /\ created \in 0..MaxTables
    /\ bmResult.status \in {"ok", "err", "panic"}
    /\ compactor.phase \in {"idle", "merging", "crashed"}
    /\ flushed \subseteq 1..flushes

\* Every SSTable path a bucket lists, in all buckets together.
Listed == UNION {PathsOf(buckets[b].sstables) : b \in DOMAIN buckets}

\* spec.md 5(c): compaction removes old SSTables only after the merged one
\* is on disk.  The entries of every memtable whose flush returned Ok are
\* always in some data file on disk, whatever flushes, merges and
\* delete_sstables calls interleave.
FlushedDataOnDisk ==
    \A m \in flushed : \E p \in DOMAIN disk : m \in holds[p]

\* The entries of every flushed memtable stay reachable through the bucket
\* map: some listed SSTable whose file exists holds them (spec.md 8.6: the
\* survivors of delete_sstables are the tail not compacted).
FlushedDataReachable ==
    \A m \in flushed : \E p \in Listed \cap DOMAIN disk : m \in holds[p]

\* The compactor task and the insertion never panic: not in the slice of
\* extract_buckets_to_compact nor in the unwrap of fs::metadata.
NoPanic == compactor.phase # "crashed" /\ bmResult.status # "panic"

\* spec.md 3 and 8.3: after any sequence of insertions every member of a
\* bucket has avg*0.5 < size < avg*1.5, or size and avg are both below
\* MIN_SSTABLE_SIZE.
BucketSizeInvariant ==
    \A b \in DOMAIN buckets : \A i \in DOMAIN buckets[b].sstables :
        LET p == buckets[b].sstables[i].path
            a == buckets[b].avg
        IN  p \in DOMAIN disk =>
               \/ a < 2 * disk[p] /\ 2 * disk[p] < 3 * a
               \/ disk[p] < MIN_SSTABLE_SIZE /\ a < MIN_SSTABLE_SIZE

\* SSTables are owned by exactly one bucket and never share a data file
\* (spec.md 3): no path is listed twice.
UniqueSSTablePaths ==
    \A b, c \in DOMAIN buckets :
        \A i \in DOMAIN buckets[b].sstables, j \in DOMAIN buckets[c].sstables :
            <<b, i>> # <<c, j>> =>
                buckets[b].sstables[i].path # buckets[c].sstables[j].path

=============================================================================
