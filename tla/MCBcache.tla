------------------------------- MODULE MCBcache -------------------------------
(* Instances of Bcache for TLC.                                            *)
EXTENDS Bcache, TLC

Symmetry == Permutations(Procs) \cup Permutations(Block)
===============================================================================
