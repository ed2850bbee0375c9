------------------------------ MODULE MCEthTx ------------------------------
(* Main and the TIM2 interrupt on a ring of three descriptors: a full ring,*)
(* a wrapped one and one with a free descriptor between.                   *)
EXTENDS EthTx
=============================================================================
