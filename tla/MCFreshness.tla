---------------------------- MODULE MCFreshness ----------------------------
(* An instance of Freshness for TLC.  Scopes: the whole repository, and one *)
(* phase or shard that leaves a node out.                                   *)
EXTENDS Freshness

CONSTANTS c, d

MCScope == {Node, Node \ {d}}
=============================================================================
