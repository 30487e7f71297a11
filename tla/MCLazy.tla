------------------------------- MODULE MCLazy -------------------------------
(* Instances of LazyEmbed for TLC.                                          *)
EXTENDS LazyEmbed

CONSTANTS c, d

MCScope == {Node}
=============================================================================
