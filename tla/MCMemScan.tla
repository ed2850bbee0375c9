------------------------------ MODULE MCMemScan -----------------------------
(* Every table of a pool of six blocks; requests of one to seven blocks.   *)
EXTENDS MemScan
=============================================================================
