------------------------------ MODULE MCSSTable ------------------------------
EXTENDS SSTable

\* Two short keys share a block; the third key is longer than a whole block.
MCKeyLen == (1 :> 2) @@ (2 :> 2) @@ (3 :> 30)
\* Three short keys overflow one block; the fourth key is longer than a block.
MCKeyLen4 == (1 :> 2) @@ (2 :> 2) @@ (3 :> 2) @@ (4 :> 30)
====
