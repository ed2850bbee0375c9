------------------------------ MODULE MCEthRx ------------------------------
(* The board's ring: five descriptors (ETH_RXBUFNB).                       *)
EXTENDS EthRx
=============================================================================
