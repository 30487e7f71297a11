---------------------------- MODULE MCEmbedPass ----------------------------
(* Five items, ordered by weight without loss of generality.               *)
EXTENDS EmbedPass, TLC

Items     == 1 .. 5
Loads     == {w \in [Items -> {1, 3, 5}] : \A i, j \in Items : i < j => w[i] <= w[j]}
OneAtMost == {{}} \cup {{i} : i \in Items}
Buckets   == {2, 4}
Rows      == (2 :> 3) @@ (4 :> 1)
=============================================================================
