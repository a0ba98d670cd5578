----------------------------- MODULE MCFlusher -----------------------------
(* Model-checking instance of Flusher: three bucket uuids, a flush signal  *)
(* channel of capacity one, so that a second signal meets a full channel. *)
EXTENDS Flusher, TLC

CONSTANTS b1, b2, b3

MCBucketIds == {b1, b2, b3}

\* Bucket uuids come from Uuid::new_v4 and are only compared for equality;
\* which unused one a new bucket takes is immaterial, so permuting them is
\* sound for the safety run.
MCBucketSymmetry == Permutations(MCBucketIds)
=============================================================================
