------------------------------- MODULE MCBoot -------------------------------
(* The pool of the board scaled down by about 120: a set of boot buffers   *)
(* takes 12 blocks, the pool has room for two sets and part of a third.    *)
EXTENDS Boot

MCSizeOf == [s \in Slots |->
  CASE s \in {"DMARxDscrTab", "DMATxDscrTab"} -> 2
    [] s \in {"Rx_Buff", "Tx_Buff"}           -> 3
    [] s \in {"memp_memory", "ram_heap"}      -> 6
    [] s \in {"ip_tbuf", "tbuf"}              -> 2]
=============================================================================
