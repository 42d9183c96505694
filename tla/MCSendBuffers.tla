--------------------------- MODULE MCSendBuffers ---------------------------
(* The buffer pool with two threads and chunks for one large packet or two  *)
(* small ones.  Of the chunks there are as many as threads and buffers can  *)
(* hold at once, so that making one is never refused.                       *)
EXTENDS SendBuffers, TLC

Symmetry == Permutations(Threads) \union Permutations(Chunks) \union Permutations(Buffers)
=============================================================================
