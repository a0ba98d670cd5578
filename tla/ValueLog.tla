------------------------------ MODULE ValueLog ------------------------------
(***************************************************************************)
(* The value log of src/vlog/v_log.rs with the writers and the garbage     *)
(* collector that drive it.  append hands out `size` as the offset of the  *)
(* new entry and advances `size`; the engine's put and delete store that   *)
(* offset in the memtable.  A GC cycle (not in src/) scans a chunk from    *)
(* tail_offset, re-appends the live entries and publishes the new offsets *)
(* with the cursor advance; the next write merges them into the memtable,  *)
(* moves tail and head with set_tail/set_head and punches the old chunk.   *)
(* The memtable here stands for every index a read consults (memtables     *)
(* and SSTables): what matters is the offset it holds for a key.           *)
(***************************************************************************)
EXTENDS Naturals, Sequences, FiniteSets, SequencesExt, Functions

CONSTANTS
    Keys,          \* keys written by the client
    Values,        \* values written by the client
    NoValue,       \* payload of a tombstone
    KeyBytes,      \* byte length of a key
    ValBytes,      \* byte length of a value
    ChunkSize,     \* gc_chunk_size: bytes a GC cycle scans
    MaxWrites,     \* bound on client puts and deletes
    MaxGc,         \* bound on GC cycles
    WriteMayFail   \* whether write_all may return an error

ASSUME /\ NoValue \notin Values
       /\ {KeyBytes, ValBytes, ChunkSize, MaxWrites, MaxGc} \subseteq Nat
       /\ WriteMayFail \in BOOLEAN

NoPending == [entries |-> {}, tail |-> 0, head |-> 0, set |-> FALSE]

VARIABLES
    vfile,      \* entries physically in the log file, in file order
    size,       \* ValueLog.size
    head,       \* ValueLog.head_offset
    tail,       \* ValueLog.tail_offset
    mem,        \* key -> [off, tomb]: the offset a read of the key follows
    pending,    \* gc_updated_entries and the cursors waiting for a write
    latest,     \* ghost: key -> value (or NoValue) of its last write
    writes,     \* client writes so far
    gcRuns      \* GC cycles so far

vlVars == <<vfile, size, head, tail, mem, pending, latest, writes, gcRuns>>

LogEntry == [key: Keys, val: Values \cup {NoValue}, tomb: BOOLEAN]

\* ValueLogEntry::new; ksize, vsize and created_at are left out (EntryLen
\* recomputes the sizes, no property reads the time).
NewEntry(k, v, tomb) == [key |-> k, val |-> v, tomb |-> tomb]

\* ValueLogEntry::serialize: ksize:u32, vsize:u32, created_at:i64,
\* is_tombstone:u8, key, value.
EntryLen(e) == 4 + 4 + 8 + 1 + KeyBytes + (IF e.val = NoValue THEN 0 ELSE ValBytes)

BytesOf(s) == FoldLeft(LAMBDA acc, e : acc + EntryLen(e), 0, s)

\* Byte position of the i-th entry of the file.
PosOf(i) == BytesOf(SubSeq(vfile, 1, i - 1))

\* The value log's get (fs, not in src/): the entry starting at offset o,
\* unless o lies in a punched region, which reads back as zeros.
ReadAt(o) ==
    IF o < tail \/ ~\E i \in 1..Len(vfile) : PosOf(i) = o
    THEN [key |-> "zeros"]
    ELSE vfile[CHOOSE i \in 1..Len(vfile) : PosOf(i) = o]

(***************************************************************************)
(* ValueLog::append                                                        *)
(***************************************************************************)

\* v_log.rs:140-162: the offset handed out is `size` before the write; the
\* error of write_all is dropped and `size` advances whether or not the
\* bytes reached the file.
AppendOutcomes(e) ==
    LET next == size + EntryLen(e) IN
    { [file |-> Append(vfile, e), size |-> next, off |-> size] } \cup
    IF WriteMayFail THEN { [file |-> vfile, size |-> next, off |-> size] } ELSE {}

(***************************************************************************)
(* The two-phase GC sync (spec.md 4.5, not in src/)                        *)
(***************************************************************************)

\* The memtable with the pending GC offsets merged in.
SyncedMem ==
    [k \in DOMAIN mem \cup {p[1] : p \in pending.entries} |->
        IF \E p \in pending.entries : p[1] = k
        THEN [off |-> (CHOOSE p \in pending.entries : p[1] = k)[2], tomb |-> FALSE]
        ELSE mem[k]]

\* Mutant of Sync: set_head and set_tail get each other's argument.
SyncSwapped ==
    /\ tail' = IF pending.set THEN pending.head ELSE tail
    /\ head' = IF pending.set THEN pending.tail ELSE head
    /\ pending' = NoPending

\* Before its own write, a write merges gc_updated_entries and commits the
\* cursors with set_tail and set_head (v_log.rs:197-203); the region below
\* the new tail is punched.
Sync ==
    /\ tail' = IF pending.set THEN pending.tail ELSE tail
    /\ head' = IF pending.set THEN pending.head ELSE head
    /\ pending' = NoPending

\* A client put (tomb = FALSE) or delete (tomb = TRUE) of key k: sync, then
\* append to the value log and point the memtable at the returned offset.
Write(k, v, tomb) ==
    /\ writes < MaxWrites
    /\ writes' = writes + 1
    /\ Sync
    /\ \E r \in AppendOutcomes(NewEntry(k, v, tomb)) :
          /\ vfile' = r.file
          /\ size' = r.size
          /\ mem' = (k :> [off |-> r.off, tomb |-> tomb]) @@ SyncedMem
    /\ latest' = (k :> v) @@ latest
    /\ UNCHANGED gcRuns

Put(k, v) == Write(k, v, FALSE)
Delete(k) == Write(k, NoValue, TRUE)

(***************************************************************************)
(* A GC cycle (spec.md 4.5, not in src/), holding the value log            *)
(***************************************************************************)

\* Mutant of ChunkFrom: the scan ignores the chunk size and reads to the
\* end of the file.
ChunkFromUnbounded(t) ==
    LET from == SelectSeq([i \in 1..Len(vfile) |-> i], LAMBDA i : PosOf(i) >= t)
    IN  [idx |-> from, bytes |-> BytesOf([j \in 1..Len(from) |-> vfile[from[j]]])]

\* read_chunk_to_garbage_collect: the file entries from tail_offset, whole
\* entries, until the bytes read reach the chunk size.
ChunkFrom(t) ==
    LET from == SelectSeq([i \in 1..Len(vfile) |-> i], LAMBDA i : PosOf(i) >= t)
        step(acc, i) == IF acc.bytes >= ChunkSize THEN acc
                        ELSE [idx |-> Append(acc.idx, i),
                              bytes |-> acc.bytes + EntryLen(vfile[i])]
    IN  FoldLeft(step, [idx |-> <<>>, bytes |-> 0], from)

\* Mutant of Live: an entry counts as live when its key is live at all.
LiveKeyOnly(i) ==
    /\ ~vfile[i].tomb
    /\ vfile[i].key \in DOMAIN mem /\ ~mem[vfile[i].key].tomb

\* An entry is live iff it is no tombstone and the memtable still points
\* at its offset.
Live(i) ==
    /\ ~vfile[i].tomb
    /\ vfile[i].key \in DOMAIN mem
    /\ mem[vfile[i].key] = [off |-> PosOf(i), tomb |-> FALSE]

\* Scan a chunk, re-append its live entries with ValueLog::append and
\* publish their new offsets and the cursor advance for the next write.
GcCycle ==
    /\ gcRuns < MaxGc
    /\ gcRuns' = gcRuns + 1
    /\ LET c == ChunkFrom(tail)
           live == SelectSeq(c.idx, Live)
           moved == [j \in 1..Len(live) |-> vfile[live[j]]]
           offs == [j \in 1..Len(live) |-> size + BytesOf(SubSeq(moved, 1, j - 1))]
       IN  /\ Len(c.idx) > 0
           /\ \E kept \in SUBSET DOMAIN live :
                 /\ WriteMayFail \/ kept = DOMAIN live
                 /\ vfile' = vfile \o [m \in 1..Cardinality(kept) |->
                                          moved[SetToSortSeq(kept, <)[m]]]
                 /\ size' = size + BytesOf(moved)
                 /\ pending' = [entries |-> {<<moved[j].key, offs[j]>> : j \in DOMAIN live},
                                tail |-> tail + c.bytes, head |-> size', set |-> TRUE]
    /\ UNCHANGED <<head, tail, mem, latest, writes>>

VLInit ==
    /\ vfile = <<>> /\ size = 0 /\ head = 0 /\ tail = 0
    /\ mem = <<>> /\ pending = NoPending /\ latest = <<>>
    /\ writes = 0 /\ gcRuns = 0

VLNext ==
    \/ \E k \in Keys, v \in Values : Put(k, v)
    \/ \E k \in Keys : Delete(k)
    \/ GcCycle

VLSpec == VLInit /\ [][VLNext]_vlVars

(***************************************************************************)
(* Properties                                                              *)
(***************************************************************************)

\* Types, and the cursor order of spec.md 3: 0 <= tail <= head <= size.
VLogTypeOK ==
    /\ vfile \in Seq(LogEntry)
    /\ tail \in 0..head /\ head \in 0..size
    /\ mem \in [DOMAIN mem -> [off: Nat, tomb: BOOLEAN]] /\ DOMAIN mem \subseteq Keys
    /\ pending.entries \subseteq Keys \X Nat
    /\ writes \in 0..MaxWrites /\ gcRuns \in 0..MaxGc

\* The longest entry the log can hold: a put of KeyBytes and ValBytes.
MaxEntryLen == 4 + 4 + 8 + 1 + KeyBytes + ValBytes

\* gc_test.rs:179-227 (tail shifted to the correct position): once a write
\* has synced a GC cycle, tail_offset has moved by at most the chunk size
\* plus one entry, the entry at which the chunk scan crossed the size;
\* in particular a second cycle before the sync must not add to the first.
TailAdvanceBounded == [][tail' <= tail + ChunkSize + MaxEntryLen]_vlVars

\* The value a read of key k returns (spec.md 4.4): NoValue for a key never
\* written or deleted, else the value at the offset the memtable holds,
\* provided an entry of k is still there to read.
ReadValue(k) ==
    IF k \notin DOMAIN mem \/ mem[k].tomb THEN NoValue
    ELSE LET r == ReadAt(mem[k].off) IN IF r.key = k THEN r.val ELSE "unreadable"

KV == INSTANCE KVStore WITH store <- [k \in Keys |-> ReadValue(k)]

\* Refinement of KVStore (spec.md 2, 4.5): seen through reads, every put
\* and delete changes exactly its own key to the value written, and every
\* GC cycle and every sync of its results is invisible, whatever the
\* order of writes and cycles.
ValueLogImplementsKV == KV!KVSpec

\* spec.md 8.4 and 4.5: for a key whose last write is a put, the offset a
\* read follows, through any number of writes, GC cycles and syncs, holds
\* the key and its last written value, above the punched region.  (A
\* deleted key is answered from its tombstone flag alone.)
LatestReadable ==
    \A k \in DOMAIN mem :
        ~mem[k].tomb => ReadAt(mem[k].off) = [key |-> k, val |-> latest[k], tomb |-> FALSE]
====
