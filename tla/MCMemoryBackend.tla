--------------------------- MODULE MCMemoryBackend ---------------------------
(* Instances of MemoryBackend for TLC.                                     *)
EXTENDS MemoryBackend, TLC

Symmetry == Permutations(Keys) \cup Permutations(Txns)
=============================================================================
