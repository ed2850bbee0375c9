------------------------------ MODULE MCConsole ------------------------------
(***************************************************************************)
(* A console small enough for TLC: a buffer of 2 characters, delays of a   *)
(* few units, chunks of 1 and a LOAD that wraps at 2.                      *)
(***************************************************************************)
EXTENDS Console, TLC

CONSTANTS a, z

MCChar == {a, z}

\* The last is longer than the buffer.
MCTexts == {<<a>>, <<z>>, <<z, a>>}

MCCommand == (<<a>> :> [fn |-> "delay_ms", n |-> 3]) @@
             (<<z>> :> [fn |-> "delay_us", n |-> 2]) @@
             (<<z, a>> :> [fn |-> "other", n |-> 0])
=============================================================================
