------------------------------- MODULE SSTable -------------------------------
(***************************************************************************)
(* One SSTable of src/sstable/sst.rs: write_to_file turns a memtable into  *)
(* blocks, appends them to the data file one write_block at a time and     *)
(* records a sparse-index entry per block; get, range and from_file then   *)
(* scan the data file field by field.  The file is modelled at byte level: *)
(* an entry is key_len:u32 | key | val_offset:u32 | created_at:u64 |       *)
(* is_tombstone:u8, so a crash may leave it cut at any byte.  Keys are     *)
(* ordered model values with a byte length; created_at is left out (no     *)
(* property reads it).                                                     *)
(***************************************************************************)
EXTENDS Naturals, Sequences, FiniteSets, SequencesExt, Functions

CONSTANTS
    Keys,         \* keys, ordered by <
    KeyLen,       \* Keys -> byte length of the key
    ValOffsets,   \* value-log offsets a memtable entry may carry
    BlockSize,    \* target byte size of a Block
    OffsetBits    \* width of the u32 casts (scaled down for TLC)

ASSUME /\ Keys \subseteq Nat /\ KeyLen \in [Keys -> Nat]
       /\ ValOffsets \subseteq Nat /\ BlockSize \in Nat \ {0}
       /\ OffsetBits \in Nat \ {0}

\* key_len, val_offset, created_at, is_tombstone (SIZE_OF_U32, _U32, _U64, _U8)
FieldLens(k) == <<4, KeyLen[k], 4, 8, 1>>
EntrySize(k) == KeyLen[k] + 17

\* `x as u32`
ToU32(x) == x % (2 ^ OffsetBits)

VARIABLES
    mem,        \* the memtable being written: key -> [off, tomb]
    blocks,     \* blocks built by write_to_file, in write order
    written,    \* number of blocks write_block has appended
    data,       \* entries appended to the data file, in file order
    dataLen,    \* bytes of the data file that are there to read
    index,      \* sparse index records [key, offset], one per written block
    phase,      \* "new", "writing", "written", "panicked", "crashed", "recovered"
    recovered   \* result of from_file

sstVars == <<mem, blocks, written, data, dataLen, index, phase, recovered>>

Entry == [key: Keys, off: Nat, tomb: BOOLEAN]
Memtables == UNION {[D -> [off: ValOffsets, tomb: BOOLEAN]] : D \in SUBSET Keys \ {{}}}

BytesOf(s) == FoldLeft(LAMBDA acc, e : acc + EntrySize(e.key), 0, s)

(***************************************************************************)
(* write_to_file                                                           *)
(***************************************************************************)

\* Block::is_full (not in src/): appending would pass the target size.
IsFull(curBytes, size) == curBytes + size > BlockSize

\* Mutant of BuildBlocks: the last, partly filled block is never written.
BuildBlocksNoTail(m) ==
    LET step(acc, k) ==
          LET e == [key |-> k, off |-> ToU32(m[k].off), tomb |-> m[k].tomb] IN
          IF IsFull(acc.bytes, EntrySize(k))
          THEN [done |-> Append(acc.done, acc.cur), cur |-> <<e>>, bytes |-> EntrySize(k)]
          ELSE [done |-> acc.done, cur |-> Append(acc.cur, e), bytes |-> acc.bytes + EntrySize(k)]
        r == FoldLeft(step, [done |-> <<>>, cur |-> <<>>, bytes |-> 0],
                      SetToSortSeq(DOMAIN m, <))
    IN  r.done

\* sst.rs:196-230: entries in key order, val_offset cast to u32; a full
\* current block is pushed (even when it is still empty) before the entry
\* goes into a new one; the current block is written last if non-empty.
BuildBlocks(m) ==
    LET step(acc, k) ==
          LET e == [key |-> k, off |-> ToU32(m[k].off), tomb |-> m[k].tomb] IN
          IF IsFull(acc.bytes, EntrySize(k))
          THEN [done |-> Append(acc.done, acc.cur), cur |-> <<e>>, bytes |-> EntrySize(k)]
          ELSE [done |-> acc.done, cur |-> Append(acc.cur, e), bytes |-> acc.bytes + EntrySize(k)]
        r == FoldLeft(step, [done |-> <<>>, cur |-> <<>>, bytes |-> 0],
                      SetToSortSeq(DOMAIN m, <))
    IN  IF r.cur # <<>> THEN Append(r.done, r.cur) ELSE r.done

\* sst.rs:190-219: the blocks are built in memory before anything is written.
StartWrite ==
    /\ phase = "new"
    /\ blocks' = BuildBlocks(mem)
    /\ phase' = "writing"
    /\ UNCHANGED <<mem, written, data, dataLen, index, recovered>>

\* sst.rs:221-224, 236-253: the offset is the file length before the block
\* is appended, cast to u32, and goes to the sparse index with the block's
\* first key.
WriteBlock ==
    /\ phase = "writing"
    /\ written < Len(blocks)
    /\ LET b == blocks[written + 1] IN
       IF b = <<>>
       THEN \* Block::get_first_entry of an empty block (not in src/)
            /\ phase' = "panicked"
            /\ UNCHANGED <<written, data, dataLen, index>>
       ELSE /\ index' = Append(index, [key |-> b[1].key, offset |-> ToU32(dataLen)])
            /\ data' = data \o b
            /\ dataLen' = dataLen + BytesOf(b)
            /\ written' = written + 1
            /\ UNCHANGED phase
    /\ UNCHANGED <<mem, blocks, recovered>>

\* sst.rs:232-233: the sparse index is persisted after the last block.
WriteIndex ==
    /\ phase = "writing"
    /\ written = Len(blocks)
    /\ phase' = "written"
    /\ UNCHANGED <<mem, blocks, written, data, dataLen, index, recovered>>

\* write_to_file never syncs: a crash keeps any prefix of the bytes written.
Crash ==
    /\ phase \in {"writing", "written"}
    /\ \E n \in 0..dataLen : dataLen' = n
    /\ phase' = "crashed"
    /\ UNCHANGED <<mem, blocks, written, data, index, recovered>>

(***************************************************************************)
(* Reading the data file                                                   *)
(***************************************************************************)

\* Byte position of the i-th entry of the file.
StartOf(i) == BytesOf(SubSeq(data, 1, i - 1))

\* file.read(&mut buf) with buf of n bytes at position q: what is left of
\* it before the end of the file; an empty buffer reads 0.
Got(q, n) == IF n = 0 \/ q >= dataLen THEN 0
             ELSE IF dataLen - q < n THEN dataLen - q ELSE n

\* Mutant of ReadEntry: the is_tombstone read is not checked for 0 bytes,
\* so the zero-initialised byte is taken as "not a tombstone".
ReadEntryNoTombCheck(p) ==
    LET i == CHOOSE j \in 1..Len(data) + 1 : j > Len(data) \/ StartOf(j) = p
        e == data[i]
        at(f) == p + FoldLeft(LAMBDA x, y : x + y, 0, SubSeq(FieldLens(e.key), 1, f - 1))
    IN  IF i > Len(data) \/ Got(p, 4) = 0 THEN [status |-> "eof"]
        ELSE IF \E f \in 2..4 : Got(at(f), FieldLens(e.key)[f]) = 0
        THEN [status |-> "unexpected_eof"]
        ELSE [status |-> "ok", entry |-> [e EXCEPT !.tomb = IF Got(at(5), 1) = 0
                                                       THEN FALSE ELSE e.tomb],
              next |-> p + EntrySize(e.key)]

\* One iteration of the read loops (sst.rs:270-342, 364-441, 547-621):
\* key_len reading 0 bytes is a clean end of file; any later field reading
\* 0 bytes is UnexpectedEOF.  A short read is not detected by itself.
ReadEntry(p) ==
    LET i == CHOOSE j \in 1..Len(data) + 1 : j > Len(data) \/ StartOf(j) = p
        e == data[i]
        at(f) == p + FoldLeft(LAMBDA x, y : x + y, 0, SubSeq(FieldLens(e.key), 1, f - 1))
    IN  IF i > Len(data) \/ Got(p, 4) = 0 THEN [status |-> "eof"]
        ELSE IF \E f \in 2..5 : Got(at(f), FieldLens(e.key)[f]) = 0
        THEN [status |-> "unexpected_eof"]
        ELSE [status |-> "ok", entry |-> e, next |-> p + EntrySize(e.key)]

\* SSTable::get (sst.rs:255-347): scan from start_offset to the key or EOF.
RECURSIVE GetFrom(_, _)
GetFrom(p, k) ==
    LET r == ReadEntry(p) IN
    CASE r.status = "eof" -> [status |-> "none"]
      [] r.status = "unexpected_eof" -> [status |-> "error"]
      [] r.entry.key = k -> [status |-> "some", off |-> r.entry.off, tomb |-> r.entry.tomb]
      [] OTHER -> GetFrom(r.next, k)

\* Mutant of Range: the loop stops only once past end_offset.
RECURSIVE RangeFromPast(_, _, _)
RangeFromPast(p, endOff, acc) ==
    LET r == ReadEntry(p) IN
    CASE r.status = "eof" -> [status |-> "ok", entries |-> acc]
      [] r.status = "unexpected_eof" -> [status |-> "error"]
      [] ToU32(r.next) > endOff -> [status |-> "ok", entries |-> Append(acc, r.entry)]
      [] OTHER -> RangeFromPast(r.next, endOff, Append(acc, r.entry))

\* SSTable::range (sst.rs:349-448): total_bytes_read starts at start_offset;
\* an entry is pushed, then the scan stops once total as u32 >= end_offset.
RECURSIVE RangeFrom(_, _, _)
RangeFrom(p, endOff, acc) ==
    LET r == ReadEntry(p) IN
    CASE r.status = "eof" -> [status |-> "ok", entries |-> acc]
      [] r.status = "unexpected_eof" -> [status |-> "error"]
      [] ToU32(r.next) >= endOff -> [status |-> "ok", entries |-> Append(acc, r.entry)]
      [] OTHER -> RangeFrom(r.next, endOff, Append(acc, r.entry))

\* SSTable::from_file (sst.rs:546-623): every entry is inserted into a
\* SkipMap, a later one replacing an earlier one with the same key.
RECURSIVE FromFileAt(_, _)
FromFileAt(p, m) ==
    LET r == ReadEntry(p) IN
    CASE r.status = "eof" -> [status |-> "ok", entries |-> m]
      [] r.status = "unexpected_eof" -> [status |-> "error"]
      [] OTHER -> FromFileAt(r.next, (r.entry.key :> [off |-> r.entry.off,
                                                    tomb |-> r.entry.tomb]) @@ m)

\* Engine open: SSTable::from_file on the data file left behind.
Recover ==
    /\ phase \in {"written", "crashed"}
    /\ recovered' = FromFileAt(0, <<>>)
    /\ phase' = "recovered"
    /\ UNCHANGED <<mem, blocks, written, data, dataLen, index>>

\* The sparse-index lookup (sparse_index.rs, not in src/): the offset of
\* the last block whose first key is <= the searched key.
LookupOffset(k) ==
    LET le == {i \in DOMAIN index : index[i].key <= k} IN
    IF le = {} THEN index[1].offset
    ELSE index[CHOOSE i \in le : \A j \in le : j <= i].offset

SSTInit ==
    /\ mem \in Memtables
    /\ blocks = <<>> /\ written = 0 /\ data = <<>> /\ dataLen = 0
    /\ index = <<>> /\ phase = "new" /\ recovered = [status |-> "none"]

SSTNext == StartWrite \/ WriteBlock \/ WriteIndex \/ Crash \/ Recover

SSTSpec == SSTInit /\ [][SSTNext]_sstVars

(***************************************************************************)
(* Properties                                                              *)
(***************************************************************************)

\* spec.md 4.1, SSTable read: after write_to_file, get from the offset
\* the sparse index gives for a key returns that key's value offset and
\* tombstone flag as the memtable held them, and None for any other key.
GetFindsEveryKey ==
    phase = "written" =>
        \A k \in Keys :
            GetFrom(LookupOffset(k), k) =
                IF k \in DOMAIN mem
                THEN [status |-> "some", off |-> mem[k].off, tomb |-> mem[k].tomb]
                ELSE [status |-> "none"]

\* spec.md 4.1, range read: range between the offsets of sparse-index
\* records i < j returns exactly the entries of blocks i .. j-1.
RangeReturnsBlocks ==
    phase = "written" =>
        \A i, j \in DOMAIN index : i < j =>
            RangeFrom(index[i].offset, index[j].offset, <<>>) =
                [status |-> "ok", entries |-> FlattenSeq(SubSeq(blocks, i, j - 1))]

\* The key -> [off, tomb] map of the first n entries of the file.
PrefixMap(n) ==
    [k \in {data[i].key : i \in 1..n} |->
        LET e == data[CHOOSE i \in 1..n : data[i].key = k] IN [off |-> e.off, tomb |-> e.tomb]]

\* spec.md 4.1, recovery: from_file on a file that a crash may have cut
\* anywhere either fails or returns exactly the entries of a prefix of
\* the file; once every block is written and no byte lost, it returns
\* every entry of the memtable.
RecoveredIsWrittenPrefix ==
    phase = "recovered" =>
        /\ recovered.status = "ok" =>
              \E n \in 0..Len(data) : recovered.entries = PrefixMap(n)
        /\ written = Len(blocks) /\ dataLen = BytesOf(data) =>
              recovered = [status |-> "ok",
                           entries |-> [k \in DOMAIN mem |-> [off |-> ToU32(mem[k].off),
                                                              tomb |-> mem[k].tomb]]]
====
