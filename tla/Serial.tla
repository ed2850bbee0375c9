-------------------------------- MODULE Serial -------------------------------
(***************************************************************************)
(* The receiving side of usart.c: USART1_IRQHandler assembles a line that  *)
(* ends in CR LF, and USART_RX_STA holds it until usmart has dealt with    *)
(* it.  The count in the low bits of USART_RX_STA is the length of buf.    *)
(***************************************************************************)
EXTENDS Naturals, Sequences

CONSTANTS RecLen,    \* USART_REC_LEN
          Char,      \* the characters of a line
          CR, LF

ASSUME SerialAssumption == /\ RecLen \in Nat \ {0, 1}
                           /\ CR # LF /\ {CR, LF} \cap Char = {}

VARIABLES done, cr,  \* bits 15 and 14 of USART_RX_STA
          buf        \* what USART_RX_BUF holds of the line

serialVars == <<done, cr, buf>>

SerialTypeOK == /\ done \in BOOLEAN /\ cr \in BOOLEAN
                /\ buf \in Seq(Char \cup {LF}) /\ Len(buf) < RecLen

SerialInit == done = FALSE /\ cr = FALSE /\ buf = <<>>

\* USART_RX_STA = 0
Clear == done' = FALSE /\ cr' = FALSE /\ buf' = <<>>

\* After a CR: LF completes the line, anything else begins anew.
AfterCR(c) == IF c = LF THEN done' = TRUE /\ UNCHANGED <<cr, buf>>
                        ELSE Clear

\* Mutant: the place of the last character is taken to be the limit.
MutStoreTooMany(c) ==
  IF Len(buf) + 1 > RecLen THEN Clear
  ELSE buf' = Append(buf, c) /\ UNCHANGED <<done, cr>>

\* A line that fills the buffer is thrown away.
Store(c) == IF Len(buf) + 1 > RecLen - 1 THEN Clear
            ELSE buf' = Append(buf, c) /\ UNCHANGED <<done, cr>>

\* A character comes out of the data register.
Receive(c) ==
  \/ done /\ UNCHANGED serialVars
  \/ ~done /\ cr /\ AfterCR(c)
  \/ ~done /\ ~cr /\ c = CR /\ cr' = TRUE /\ UNCHANGED <<done, buf>>
  \/ ~done /\ ~cr /\ c # CR /\ Store(c)
=============================================================================
