------------------------------ MODULE MCMemPool -----------------------------
(* A pool of five two-byte blocks; requests of zero, one, two and six      *)
(* blocks, two of them for the same number of blocks.                      *)
EXTENDS MemPool
=============================================================================
