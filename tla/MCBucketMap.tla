---------------------------- MODULE MCBucketMap ----------------------------
(* Model-checking instance of BucketMap: three bucket uuids, memtable     *)
(* sizes on both sides of MIN_SSTABLE_SIZE, and the two thresholds scaled *)
(* down from 4 and 32 to 2 and 3 (same order, a bucket exceeds the upper  *)
(* one after four flushes).                                               *)
EXTENDS BucketMap, TLC

CONSTANTS b1, b2, b3

MCBucketIds == {b1, b2, b3}

\* Bucket uuids come from Uuid::new_v4 and are only compared for equality,
\* so permuting them is sound for the safety run.
MCBucketSymmetry == Permutations(MCBucketIds)
=============================================================================
