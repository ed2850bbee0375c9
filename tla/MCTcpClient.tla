----------------------------- MODULE MCTcpClient -----------------------------
(* Three control blocks: the one in use, the one behind it and the rest of *)
(* the list.  Two turns of the loop between retries; memory for two        *)
(* connections where it is not ample.                                      *)
EXTENDS TcpClient
=============================================================================
