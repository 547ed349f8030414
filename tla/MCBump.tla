------------------------------- MODULE MCBump -------------------------------
(* Two threads share an allocator whose first slab has room for four units.  *)
EXTENDS Bump

CONSTANTS j1, j2
MCThreads == {j1, j2}
MCBases == {SlabSize}
=============================================================================
