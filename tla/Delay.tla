-------------------------------- MODULE Delay --------------------------------
(***************************************************************************)
(* SysTick as delay.c uses it: one counter for every delay in the program, *)
(* loaded, started, polled and stopped by whoever waits.  A unit of time   *)
(* is a millisecond of delay_ms; LOAD keeps what its 24 bits can hold.     *)
(***************************************************************************)
EXTENDS Naturals

CONSTANTS Chunk,     \* the longest delay_xms that delay_ms asks for (540)
          LoadMod    \* what LOAD wraps at (2^24 cycles, 798.9 ms at 168 MHz)

ASSUME DelayAssumption == /\ Chunk \in Nat \ {0}
                          /\ LoadMod \in Nat /\ Chunk < LoadMod

VARIABLE systick     \* LOAD, what is left to count, ENABLE and COUNTFLAG

DelayTypeOK == systick \in [load : 0 .. LoadMod - 1, left : 0 .. LoadMod - 1,
                            on : BOOLEAN, flag : BOOLEAN]

DelayInit == systick = [load |-> 0, left |-> 0, on |-> FALSE, flag |-> FALSE]

\* Mutant: delay_ms asks for all of its time at once.
MutNextChunkWhole(left) == left

\* delay_ms waits in chunks; the last may be shorter.
NextChunk(left) == IF left < Chunk THEN left ELSE Chunk

SetLoad(n) == systick' = [systick EXCEPT !.load = n % LoadMod]

\* VAL = 0 and ENABLE: the counter starts from LOAD.  Reading CTRL to set the
\* bit clears COUNTFLAG.
Enable == systick' = [systick EXCEPT !.left = systick.load, !.on = TRUE,
                                     !.flag = FALSE]

\* Mutant: the loop waits for COUNTFLAG alone.
MutOverFlagOnly == systick.flag

\* The loop of delay_xms ends when the counter is off or has counted to 0.
Over == ~systick.on \/ systick.flag

Disable == systick' = [systick EXCEPT !.on = FALSE, !.flag = FALSE, !.left = 0]

\* One unit of time passes; a counter whose LOAD is 0 does not count.
Elapse ==
  systick' = IF ~systick.on \/ systick.load = 0 THEN systick
             ELSE IF systick.left <= 1
                  THEN [systick EXCEPT !.left = systick.load, !.flag = TRUE]
                  ELSE [systick EXCEPT !.left = @ - 1]
=============================================================================
