------------------------------ MODULE KVStore ------------------------------
(***************************************************************************)
(* What the engine promises a client (spec.md 2): a map from every key to  *)
(* the value of its last put, or NoValue once it has been deleted or was   *)
(* never written.  Garbage collection, syncs and the value log's layout    *)
(* are invisible at this level: they are stuttering steps.                 *)
(***************************************************************************)
CONSTANTS Keys, Values, NoValue

VARIABLE store

KVInit == store = [k \in Keys |-> NoValue]

KVPut(k, v) == store' = [store EXCEPT ![k] = v]

KVDelete(k) == store' = [store EXCEPT ![k] = NoValue]

KVNext ==
    \/ \E k \in Keys, v \in Values : KVPut(k, v)
    \/ \E k \in Keys : KVDelete(k)

KVSpec == KVInit /\ [][KVNext]_store
====
