------------------------------- MODULE EthRx -------------------------------
(***************************************************************************)
(* Frame reception: the ring of receive descriptors shared by the Ethernet *)
(* DMA and the interrupt handler (ETH_IRQHandler, lwip_pkt_handle,         *)
(* ethernetif_input, low_level_input, ETH_Rx_Packet).  The handler runs at *)
(* the highest priority, so nothing but the DMA interleaves with it; one   *)
(* of its accesses to a descriptor or a DMA register is one step.          *)
(*                                                                         *)
(* The DMA is external and modelled by what the driver relies on: it fills *)
(* the descriptors in ring order, stops at one it does not own, and stays  *)
(* stopped until the driver writes the receive poll demand register.  (The *)
(* hardware may also resume on the next frame; nothing here needs that.)   *)
(*                                                                         *)
(* A frame is its number among the accepted ones, modulo NFrames; one that *)
(* comes while reception is suspended is flushed and leaves no trace.      *)
(***************************************************************************)
EXTENDS Naturals

CONSTANTS NDesc,       \* descriptors in the ring (ETH_RXBUFNB)
          NFrames,     \* frame numbers
          MaxLate      \* frames that can arrive between the handler's last
                       \* look at the ring and its clearing of the interrupt

ASSUME RingAssumption == /\ NDesc \in Nat \ {0}
                         /\ NFrames \in Nat /\ NFrames >= NDesc + 2
                         /\ MaxLate \in 0 .. NDesc - 1

Desc   == 0 .. NDesc - 1
Frame  == 0 .. NFrames - 1
NoDesc == NDesc        \* frame.descriptor = 0
NoData == NFrames      \* nothing; as a pbuf, NULL

VARIABLES own,       \* descriptors the DMA owns (the OWN bit of Status)
          es,        \* descriptors whose frame has an error (the ES bit)
          buf,       \* the contents of the receive buffers
          dmaPos,    \* the descriptor the DMA fills next
          suspended, \* the receive process is suspended
          rbus,      \* the RBUS bit of DMASR
          rs,        \* the RS bit of DMASR: the interrupt is pending
          get,       \* DMARxDescToGet
          pc,        \* where the handler is
          frame,     \* the descriptor ETH_Rx_Packet returned
          p,         \* the pbuf of low_level_input: its contents
          arriving,  \* number of the next frame the DMA accepts
          handling,  \* number of the oldest accepted frame not yet handled
          late       \* frames since the handler last found the ring empty

dmaVars     == <<own, es, buf, dmaPos, suspended, arriving, late>>
handlerVars == <<get, pc, frame, p, handling>>
vars        == <<dmaVars, rbus, rs, handlerVars>>

\* Buffer2NextDescAddr, as ETH_DMARxDescChainInit links the descriptors.
Chained(d) == IF d = NDesc - 1 THEN 0 ELSE d + 1

NextFrame(f) == IF f = NFrames - 1 THEN 0 ELSE f + 1

\* ETH_DMARxDescChainInit
Init == /\ own = Desc
        /\ es = {}
        /\ buf = [d \in Desc |-> NoData]
        /\ dmaPos = 0 /\ get = 0
        /\ suspended = FALSE /\ rbus = FALSE /\ rs = FALSE
        /\ pc = "idle" /\ frame = NoDesc /\ p = NoData
        /\ arriving = 0 /\ handling = 0 /\ late = 0

-----------------------------------------------------------------------------
(* The DMA.                                                                *)

\* ETH_MACDMA_Config: ETH_ForwardErrorFrames_Disable, the MAC drops bad frames.
ForwardErrorFrames == FALSE

\* The DMA stores a frame, closes its descriptor, raises the interrupt and
\* fetches the next descriptor, suspending if it does not own it.
Accept == /\ ~suspended /\ dmaPos \in own
          /\ pc = "clear" => late < MaxLate
          /\ buf' = [buf EXCEPT ![dmaPos] = arriving]
          /\ \E bad \in BOOLEAN :
               /\ bad => ForwardErrorFrames
               /\ es' = IF bad THEN es \cup {dmaPos} ELSE es \ {dmaPos}
          /\ own' = own \ {dmaPos}
          /\ dmaPos' = Chained(dmaPos)
          /\ suspended' = (Chained(dmaPos) \notin own')
          /\ rbus' = (rbus \/ suspended')
          /\ rs' = TRUE
          /\ arriving' = NextFrame(arriving)
          /\ late' = IF pc = "clear" THEN late + 1 ELSE late
          /\ UNCHANGED handlerVars

-----------------------------------------------------------------------------
(* The interrupt handler.                                                  *)

Enter == /\ pc = "idle" /\ rs
         /\ pc' = "check"
         /\ UNCHANGED <<dmaVars, rbus, rs, get, frame, p, handling>>

\* ETH_GetRxPktSize(d) # 0
HasPacket(d) == d \notin own /\ d \notin es /\ buf[d] # NoData

\* while(ETH_GetRxPktSize(DMARxDescToGet)!=0)
Check == /\ pc = "check"
         /\ pc' = IF HasPacket(get) THEN "rx" ELSE "clear"
         /\ late' = 0
         /\ UNCHANGED <<own, es, buf, dmaPos, suspended, arriving, rbus, rs,
                        get, frame, p, handling>>

\* if RBUS is set, acknowledge it and write the poll demand: the DMA fetches
\* its descriptor again
Restart == IF rbus THEN suspended' = (dmaPos \notin own) /\ rbus' = suspended'
                   ELSE UNCHANGED <<suspended, rbus>>

\* Fault: the descriptor is given back as soon as it has been read.
MutEthRxPacketReleases == /\ pc = "rx"
                          /\ frame' = get
                          /\ own' = own \cup {get}
                          /\ get' = Chained(get)
                          /\ pc' = "alloc"
                          /\ UNCHANGED <<es, buf, dmaPos, suspended, arriving, late,
                                         rbus, rs, p, handling>>

\* ETH_Rx_Packet: a descriptor of the DMA is no frame at all (and a set RBUS
\* is acknowledged); otherwise DMARxDescToGet moves on.
EthRxPacket ==
  /\ pc = "rx"
  /\ frame' = IF get \in own THEN NoDesc ELSE get
  /\ get' = IF get \in own THEN get ELSE Chained(get)
  /\ IF get \in own THEN Restart ELSE UNCHANGED <<suspended, rbus>>
  /\ pc' = "alloc"
  /\ UNCHANGED <<own, es, buf, dmaPos, arriving, late, rs, p, handling>>

\* pbuf_alloc(PBUF_RAW, len, PBUF_POOL), which may find the pool empty
PbufAlloc == /\ pc = "alloc"
             /\ pc' \in {"copy", "giveback"}
             /\ p' = NoData
             /\ UNCHANGED <<dmaVars, rbus, rs, get, frame, handling>>

\* the memcpy loop
Copy == /\ pc = "copy"
        /\ p' = IF frame = NoDesc THEN NoData ELSE buf[frame]
        /\ pc' = "giveback"
        /\ UNCHANGED <<dmaVars, rbus, rs, get, frame, handling>>

\* Fault: the descriptor DMARxDescToGet has moved on to is given back.
MutGiveBackNext == /\ pc = "giveback"
                   /\ own' = own \cup {get}
                   /\ pc' = "resume"
                   /\ UNCHANGED <<es, buf, dmaPos, suspended, arriving, late, rbus, rs,
                                  get, frame, p, handling>>

\* frame.descriptor->Status = ETH_DMARxDesc_OWN
GiveBack == /\ pc = "giveback"
            /\ own' = own \cup {frame}
            /\ es' = es \ {frame}
            /\ pc' = "resume"
            /\ UNCHANGED <<buf, dmaPos, suspended, arriving, late, rbus, rs,
                           get, frame, p, handling>>

\* Fault: RBUS is acknowledged and no poll demand is written.
MutResumeNoPollDemand == /\ pc = "resume"
                         /\ rbus' = FALSE
                         /\ pc' = "input"
                         /\ UNCHANGED <<dmaVars, rs, get, frame, p, handling>>

Resume == /\ pc = "resume"
          /\ Restart
          /\ pc' = "input"
          /\ UNCHANGED <<own, es, buf, dmaPos, arriving, late, rs,
                         get, frame, p, handling>>

\* Fault: the handler takes one frame per interrupt (if instead of while).
MutInputOnce == /\ pc = "input"
                /\ handling' = NextFrame(handling)
                /\ frame' = NoDesc /\ p' = NoData
                /\ pc' = "clear"
                /\ UNCHANGED <<dmaVars, rbus, rs, get>>

\* netif->input(p, netif), or ERR_MEM when there is no pbuf: either way the
\* frame has been dealt with and the while loop looks again.
Input == /\ pc = "input"
         /\ handling' = NextFrame(handling)
         /\ frame' = NoDesc /\ p' = NoData
         /\ pc' = "check"
         /\ UNCHANGED <<dmaVars, rbus, rs, get>>

\* ETH_DMAClearITPendingBit(ETH_DMA_IT_R); the summary bit NIS follows RS.
Clear == /\ pc = "clear"
         /\ rs' = FALSE
         /\ pc' = "idle"
         /\ UNCHANGED <<dmaVars, rbus, get, frame, p, handling>>

Handler == Enter \/ Check \/ EthRxPacket \/ PbufAlloc \/ Copy \/ GiveBack
           \/ Resume \/ Input \/ Clear

Next == Accept \/ Handler

\* The processor takes the interrupt and runs the handler; the network may
\* fall silent at any time.
Spec == Init /\ [][Next]_vars /\ WF_vars(Handler)

-----------------------------------------------------------------------------
(* Correctness.                                                            *)

TypeOK == /\ own \subseteq Desc /\ es \subseteq Desc
          /\ buf \in [Desc -> Frame \cup {NoData}]
          /\ dmaPos \in Desc /\ get \in Desc
          /\ suspended \in BOOLEAN /\ rbus \in BOOLEAN /\ rs \in BOOLEAN
          /\ pc \in {"idle", "check", "rx", "alloc", "copy", "giveback", "resume",
                     "input", "clear"}
          /\ frame \in Desc \cup {NoDesc}
          /\ p \in Frame \cup {NoData}
          /\ arriving \in Frame /\ handling \in Frame
          /\ late \in 0 .. MaxLate

\* What low_level_input hands to lwIP is the oldest frame received and not yet
\* handled: none is skipped, repeated, reordered, or overwritten by the DMA
\* while it is copied (ethernetif.c:63-90).
InOrder == pc = "input" /\ p # NoData => p = handling

\* The number of the frame d positions after the oldest one.
Later(f, d) == (f + d) % NFrames

Busy == {d \in Desc : d \notin own}

\* The driver and the DMA agree on the ring: the descriptors from the
\* driver's position to the DMA's hold the frames not yet handled, oldest
\* first, and the DMA owns the others; the one being read is the driver's, so
\* ETH_Rx_Packet never returns the null descriptor that low_level_input would
\* write through (lan8720.c:178-187, ethernetif.c:83).
Reading    == pc \in {"alloc", "copy", "giveback"}
RingInStep ==
  LET oldest == IF Reading THEN frame ELSE get
      first  == IF pc \in {"resume", "input"} THEN NextFrame(handling) ELSE handling
      At(k)  == (oldest + k) % NDesc
  IN  /\ TypeOK
      /\ \E n \in 0 .. NDesc :
        /\ Reading => frame \in Desc /\ get = Chained(frame) /\ n > 0
        /\ Later(first, n) = arriving
        /\ At(n) = dmaPos
        /\ Busy = {At(k) : k \in 0 .. n - 1}
        /\ \A k \in 0 .. n - 1 : buf[At(k)] = Later(first, k)

\* Reception never stays suspended while there is a descriptor to fill: only
\* between giving one back and the poll demand (ethernetif.c:83-88).
SuspendedOnlyWhenFull == suspended => own = {} \/ pc = "resume"

\* Frame f has been accepted and not yet handled.
Waiting(f) == \E k \in 0 .. NFrames - 1 :
                /\ Later(handling, k) = f
                /\ \A j \in 0 .. k : Later(handling, j) # arriving

\* The handler has cleared the interrupt of a frame that came after its last
\* look at the ring.
Overlooked == pc = "idle" /\ ~rs /\ late > 0

\* lwip_pkt_handle is "called when data has been received" (lwip_comm.c:154):
\* every accepted frame is eventually handled, unless it came between the last
\* look at the ring and the clearing of the interrupt (lan8720.c:164-168); and
\* on a network that never falls silent those frames are handled, too: the next
\* one that comes brings the handler back to them.
EveryFrameHandled ==
  /\ \A f \in Frame : Waiting(f) ~> ~Waiting(f) \/ Overlooked
  /\ WF_vars(Accept) => \A f \in Frame : Waiting(f) ~> ~Waiting(f)
=============================================================================
