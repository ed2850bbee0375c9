------------------------------- MODULE EthTx -------------------------------
(***************************************************************************)
(* Frame transmission: low_level_output and ETH_Tx_Packet fill the ring of *)
(* transmit descriptors the Ethernet DMA empties.  lwIP calls              *)
(* low_level_output from main (timers, the TCP client), from the TIM2      *)
(* interrupt (the UDP telemetry) and from the Ethernet interrupt (ARP,     *)
(* ICMP and TCP replies), and nothing excludes one from another: a context *)
(* runs when no context of a higher priority is in the middle of a send.   *)
(* One access to a buffer, a descriptor, a register or DMATxDescToSet is   *)
(* one step.                                                               *)
(*                                                                         *)
(* The DMA is external: it sends the frames of the descriptors it owns in  *)
(* ring order, suspends at one it does not own and then waits for the      *)
(* transmit poll demand.                                                   *)
(***************************************************************************)
EXTENDS Integers, FiniteSets

CONSTANTS Contexts,    \* priorities: 0 is main, 1 TIM2, 2 the Ethernet interrupt
          NDesc,       \* descriptors in the ring (ETH_TXBUFNB)
          NSerials,    \* serial numbers of a context's frames
          Rereads      \* does the build read DMATxDescToSet at each statement

ASSUME TxAssumption == /\ Contexts \subseteq 0 .. 2
                       /\ NDesc \in Nat \ {0}
                       /\ NSerials \in Nat /\ NSerials > NDesc
                       /\ Rereads \in BOOLEAN

Desc    == 0 .. NDesc - 1
Frame   == Contexts \X (0 .. NSerials - 1)
NoFrame == <<>>

VARIABLES own,       \* descriptors the DMA owns (the OWN bit of Status)
          buf,       \* a transmit buffer: what its first and second half hold
          due,       \* the frame for which ETH_Tx_Packet gave the descriptor away
          dmaPos,    \* the descriptor the DMA sends next
          suspended, \* the transmit process is suspended
          tbus,      \* the TBUS bit of DMASR
          set,       \* DMATxDescToSet
          pc,        \* where each context is in low_level_output
          buffer,    \* its local variable buffer, as a descriptor
          held,      \* DMATxDescToSet as it last read it
          serial,    \* the number of its frame
          nested     \* the deepest a send was begun inside another, so far:
                     \* "none", in its "copy", or in its "handover"

dmaVars     == <<dmaPos, suspended, tbus>>
senderVars  == <<pc, buffer, held, serial>>
vars        == <<own, buf, due, dmaVars, set, senderVars, nested>>

\* Buffer2NextDescAddr, as ETH_DMATxDescChainInit links the descriptors.
Chained(d) == IF d = NDesc - 1 THEN 0 ELSE d + 1

\* ETH_DMATxDescChainInit; the DMA, started, finds nothing to send.
Init == /\ own = {}
        /\ buf = [d \in Desc |-> <<NoFrame, NoFrame>>]
        /\ due = [d \in Desc |-> NoFrame]
        /\ dmaPos = 0 /\ suspended = TRUE /\ tbus = TRUE
        /\ set = 0
        /\ pc = [c \in Contexts |-> "idle"]
        /\ buffer = [c \in Contexts |-> 0]
        /\ held = [c \in Contexts |-> 0]
        /\ serial = [c \in Contexts |-> 0]
        /\ nested = "none"

-----------------------------------------------------------------------------
(* The DMA sends a frame, closes its descriptor and fetches the next one.  *)

Transmit == /\ ~suspended /\ dmaPos \in own
            /\ own' = own \ {dmaPos}
            /\ due' = [due EXCEPT ![dmaPos] = NoFrame]
            /\ dmaPos' = Chained(dmaPos)
            /\ suspended' = (Chained(dmaPos) \notin own')
            /\ tbus' = (tbus \/ suspended')
            /\ UNCHANGED <<buf, set, senderVars, nested>>

-----------------------------------------------------------------------------
(* A context c sends.                                                      *)

Runs(c) == \A h \in Contexts : h > c => pc[h] = "idle"

At(c, label)   == Runs(c) /\ pc[c] = label
GoTo(c, label) == pc' = [pc EXCEPT ![c] = label]

\* What a send that begins now does to the one it has preempted, if any:
\* from the look at OWN to the advance, a send hands over a descriptor.
HandingOver(c) == pc[c] \in {"own", "poll", "advance"}
Nest == nested' = IF nested = "handover" \/ \E c \in Contexts : HandingOver(c)
                    THEN "handover"
                  ELSE IF \E c \in Contexts : pc[c] # "idle" THEN "copy"
                  ELSE nested

\* Every statement of ETH_Tx_Packet names DMATxDescToSet; it is not volatile,
\* so a build may read it each time or keep in a register what it read first.
Named(c) == IF Rereads THEN set ELSE held[c]

\* Fault: the address of the buffer after the current one.
MutEthGetCurrentTxBufferNext(c) ==
  /\ At(c, "idle")
  /\ buffer' = [buffer EXCEPT ![c] = Chained(set)]
  /\ GoTo(c, "head")
  /\ Nest
  /\ UNCHANGED <<own, buf, due, dmaVars, set, held, serial>>

\* buffer = ETH_GetCurrentTxBuffer()
EthGetCurrentTxBuffer(c) ==
  /\ At(c, "idle")
  /\ buffer' = [buffer EXCEPT ![c] = set]
  /\ GoTo(c, "head")
  /\ Nest
  /\ UNCHANGED <<own, buf, due, dmaVars, set, held, serial>>

\* The memcpy loop, over a frame of two pbufs.  Nothing is promised of the
\* contents once a send has begun within another, and they are not followed.
CopyHalf(c, half) ==
  buf' = IF nested = "none" THEN [buf EXCEPT ![buffer[c]][half] = <<c, serial[c]>>]
                            ELSE [d \in Desc |-> <<NoFrame, NoFrame>>]

CopyHead(c) == /\ At(c, "head") /\ CopyHalf(c, 1)
               /\ GoTo(c, "tail")
               /\ UNCHANGED <<own, due, dmaVars, set, buffer, held, serial, nested>>

CopyTail(c) == /\ At(c, "tail") /\ CopyHalf(c, 2)
               /\ buffer' = [buffer EXCEPT ![c] = 0]
               /\ GoTo(c, "check")
               /\ UNCHANGED <<own, due, dmaVars, set, held, serial, nested>>

\* Fault: ETH_Tx_Packet does not look whether the DMA owns the descriptor.
MutCheckOwnSkipped(c) == /\ At(c, "check")
                         /\ held' = [held EXCEPT ![c] = set]
                         /\ GoTo(c, "own")
                         /\ UNCHANGED <<own, buf, due, dmaVars, set, buffer, serial, nested>>

\* ETH_Tx_Packet: ETH_ERROR when the DMA owns the descriptor.
CheckOwn(c) == /\ At(c, "check")
               /\ held' = [held EXCEPT ![c] = IF set \in own THEN 0 ELSE set]
               /\ GoTo(c, IF set \in own THEN "idle" ELSE "own")
               /\ UNCHANGED <<own, buf, due, dmaVars, set, buffer, serial, nested>>

\* The length, LS, FS and OWN are set: the buffer is the DMA's.
SetOwn(c) == /\ At(c, "own")
             /\ own' = own \cup {Named(c)}
             /\ due' = [due EXCEPT ![Named(c)] = <<c, serial[c]>>]
             /\ serial' = [serial EXCEPT ![c] = (@ + 1) % NSerials]
             /\ GoTo(c, "poll")
             /\ UNCHANGED <<buf, dmaVars, set, buffer, held, nested>>

\* Fault: TBUS is acknowledged and no poll demand is written.
MutPollDemandForgotten(c) == /\ At(c, "poll")
                             /\ tbus' = FALSE
                             /\ GoTo(c, "advance")
                             /\ UNCHANGED <<own, buf, due, dmaPos, suspended, set,
                                            buffer, held, serial, nested>>

\* A set TBUS is acknowledged and the poll demand written: the DMA fetches
\* its descriptor again.
PollDemand(c) == /\ At(c, "poll")
                 /\ IF tbus THEN suspended' = (dmaPos \notin own) /\ tbus' = suspended'
                            ELSE UNCHANGED <<suspended, tbus, nested>>
                 /\ GoTo(c, "advance")
                 /\ UNCHANGED <<own, buf, due, dmaPos, set, buffer, held, serial, nested>>

\* DMATxDescToSet moves on; ETH_SUCCESS.
Advance(c) == /\ At(c, "advance")
              /\ set' = Chained(Named(c))
              /\ held' = [held EXCEPT ![c] = 0]
              /\ GoTo(c, "idle")
              /\ UNCHANGED <<own, buf, due, dmaVars, buffer, serial, nested>>

Finish(c) == CopyHead(c) \/ CopyTail(c) \/ CheckOwn(c) \/ SetOwn(c)
             \/ PollDemand(c) \/ Advance(c)

Next == Transmit \/ \E c \in Contexts : EthGetCurrentTxBuffer(c) \/ Finish(c)

\* The DMA sends what it can and a send that was begun is finished; nobody
\* has to send.
Spec == /\ Init /\ [][Next]_vars
        /\ WF_vars(Transmit)
        /\ \A c \in Contexts : WF_vars(Finish(c))

-----------------------------------------------------------------------------
(* Correctness.                                                            *)

TypeOK == /\ own \subseteq Desc
          /\ buf \in [Desc -> (Frame \cup {NoFrame}) \X (Frame \cup {NoFrame})]
          /\ due \in [Desc -> Frame \cup {NoFrame}]
          /\ dmaPos \in Desc /\ set \in Desc
          /\ suspended \in BOOLEAN /\ tbus \in BOOLEAN
          /\ pc \in [Contexts -> {"idle", "head", "tail", "check", "own", "poll",
                                  "advance"}]
          /\ buffer \in [Contexts -> Desc] /\ held \in [Contexts -> Desc]
          /\ serial \in [Contexts -> 0 .. NSerials - 1]
          /\ nested \in {"none", "copy", "handover"}

\* The driver and the DMA agree on the ring: the descriptors from the DMA's
\* position to the driver's are the DMA's, the others are free, and a sender's
\* frames leave in the order in which ETH_Tx_Packet took them
\* (lan8720.c:206-222).  A send begun within the copy of another does no harm
\* to that; one begun between the look at OWN and the advance does.
RingInStep ==
  LET Pos(k) == (dmaPos + k) % NDesc
      given  == \E c \in Contexts : pc[c] \in {"poll", "advance"}
  IN  /\ TypeOK
      /\ nested # "handover" =>
        \E n \in 0 .. NDesc :
          /\ own = {Pos(k) : k \in 0 .. n - 1}
          /\ Pos(n) = IF given THEN Chained(set) ELSE set
          /\ \A c \in Contexts :
               LET Mine == {k \in 0 .. n - 1 : due[Pos(k)][1] = c}
               IN  \A k \in Mine :
                     due[Pos(k)][2] = (serial[c] - Cardinality({j \in Mine : j >= k}))
                                        % NSerials

Damaged(d) == buf[d] # <<due[d], due[d]>>

\* "The OWN bit is set, the buffer belongs to the ETH DMA again"
\* (lan8720.c:212): a frame waiting for the DMA is what its sender put in the
\* buffer, as long as no send begins within another.  A full ring can cost only
\* the frame at its head, which the next send copies over before it asks who
\* owns the buffer (ethernetif.c:50-56).
OnlyHeadDamaged ==
  nested = "none" =>
    \A d \in own : Damaged(d) => d = dmaPos /\ own \cup {set} = Desc /\ set = d

\* ETH_Tx_Packet resumes transmission (lan8720.c:213-217): what it took is
\* eventually sent, unless a send was begun in another's handover.
AcceptedAreSent ==
  \A d \in Desc : d \in own ~> d \notin own \/ nested = "handover"
=============================================================================
