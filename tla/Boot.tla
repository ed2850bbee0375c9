-------------------------------- MODULE Boot --------------------------------
(***************************************************************************)
(* The internal memory pool over the life of the program: lwip_comm_init   *)
(* and the retry loop of main, then the sessions main starts from its menu *)
(* (udp_demo_test and tcp_client_test).  The program is sequential here:   *)
(* pc is where main is; the network cable comes and goes on its own.       *)
(*                                                                         *)
(* The drivers' pointer variables (DMARxDscrTab, ...) are never reset, so  *)
(* slot keeps what they last held.  live is the set of pointers that have  *)
(* been allocated and not released, whether or not a variable still holds  *)
(* them; bootMap is the table as it was when main first reached its menu.  *)
(***************************************************************************)
EXTENDS Malloc, Sequences

CONSTANT SizeOf   \* bytes asked for, by pointer variable

EthSlots  == <<"DMARxDscrTab", "DMATxDscrTab", "Rx_Buff", "Tx_Buff">>
LwipSlots == <<"memp_memory", "ram_heap">>
SlotSet(s) == {s[k] : k \in 1 .. Len(s)}
BootSlots == SlotSet(EthSlots) \cup SlotSet(LwipSlots)
Slots     == BootSlots \cup {"ip_tbuf", "tbuf"}

ASSUME SizeAssumption == SizeOf \in [Slots -> Nat \ {0}]

VARIABLES slot,      \* the pointer variables
          live,      \* pointers allocated and not released
          pc, nth,   \* where main is, and the slot it allocates or frees next
          mode,      \* the session: "udp" or "tcp"
          cable,     \* is the cable plugged in
          fails,     \* LAN8720_Init failures so far
          bootMap    \* memmap when the menu was first reached

bootVars == <<memmap, slot, live, pc, nth, mode, cable, fails, bootMap>>

BootInit == /\ memmap = ZeroMap            \* mymem_init(SRAMIN)
            /\ slot = [s \in Slots |-> NULL]
            /\ live = {}
            /\ pc = "eth_malloc" /\ nth = 1
            /\ mode = "none"
            /\ cable \in BOOLEAN
            /\ fails = 0
            /\ bootMap = <<>>

\* s = mymalloc(SRAMIN, SizeOf[s])
Allocate(s) ==
  LET p == AllocPtr(memmap, SizeOf[s])
  IN  /\ memmap' = AllocMap(memmap, SizeOf[s])
      /\ slot' = [slot EXCEPT ![s] = p]
      /\ live' = live \cup ({p} \ {NULL})

\* myfree(SRAMIN, s); the variable keeps its value
Release(s) ==
  /\ memmap' = FreeMap(memmap, slot[s])
  /\ live' = live \ {slot[s]}
  /\ UNCHANGED slot

GoTo(label) == pc' = label /\ nth' = 1
Stay        == pc' = pc /\ nth' = nth + 1

AllGot(seq) == \A s \in SlotSet(seq) : slot'[s] # NULL

\* Every block of the sequence is asked for before any result is looked at.
AllocAll(seq, ok, failed) ==
  /\ Allocate(seq[nth])
  /\ IF nth < Len(seq) THEN Stay ELSE GoTo(IF AllGot(seq) THEN ok ELSE failed)
  /\ UNCHANGED <<mode, cable, fails, bootMap>>

ReleaseAll(seq, next) ==
  /\ Release(seq[nth])
  /\ IF nth < Len(seq) THEN Stay ELSE GoTo(next)
  /\ UNCHANGED <<mode, cable, fails, bootMap>>

\* ETH_Mem_Malloc and, when it fails, ETH_Mem_Free; lwip_comm_init returns 1.
EthMemMalloc == pc = "eth_malloc" /\ AllocAll(EthSlots, "lwip_malloc", "eth_free")
EthMemFree   == pc = "eth_free" /\ ReleaseAll(EthSlots, "retry")

\* lwip_comm_mem_malloc; when it fails only its own two blocks are released.
LwipMemMalloc == pc = "lwip_malloc" /\ AllocAll(LwipSlots, "phy", "lwip_free")
LwipMemFree   == pc = "lwip_free" /\ ReleaseAll(LwipSlots, "retry")

\* Fault: the result of ETH_MACDMA_Config (1 is success) is not inverted.
MutLan8720InitNotInverted ==
  /\ pc = "phy"
  /\ GoTo(IF cable THEN "retry" ELSE "dhcp")
  /\ fails' = IF cable THEN fails ELSE fails + 1
  /\ UNCHANGED <<memmap, slot, live, mode, cable, bootMap>>

\* LAN8720_Init waits for the link; without a cable it times out and
\* lwip_comm_init returns 2, releasing nothing.
Lan8720Init == /\ pc = "phy"
               /\ GoTo(IF cable THEN "dhcp" ELSE "retry")
               /\ fails' = IF cable THEN fails ELSE fails + 1
               /\ UNCHANGED <<memmap, slot, live, mode, cable, bootMap>>

\* main waits 1.2 s and calls lwip_comm_init again.
Retry == /\ pc = "retry"
         /\ GoTo("eth_malloc")
         /\ UNCHANGED <<memmap, slot, live, mode, cable, fails, bootMap>>

\* main waits for DHCP to succeed or to time out and draws the menu.
DhcpDone == /\ pc = "dhcp"
            /\ GoTo("menu")
            /\ bootMap' = memmap
            /\ UNCHANGED <<memmap, slot, live, mode, cable, fails>>

\* KEY1 starts the TCP client, KEY2 the UDP session.
KeyPressed == /\ pc = "menu"
              /\ GoTo("ip_alloc")
              /\ mode' \in {"udp", "tcp"}
              /\ UNCHANGED <<memmap, slot, live, cable, fails, bootMap>>

\* udp_demo_set_remoteip and tcp_client_set_remoteip: a buffer for the screen,
\* released when the address is set; they return at once without one.
IpAlloc == /\ pc = "ip_alloc"
           /\ Allocate("ip_tbuf")
           /\ GoTo(IF slot'["ip_tbuf"] = NULL THEN "buf_alloc" ELSE "ip_set")
           /\ UNCHANGED <<mode, cable, fails, bootMap>>

\* Fault: the buffer is released inside the loop that waits for the key.
MutIpSetFreesInLoop ==
  /\ pc = "ip_set"
  /\ Release("ip_tbuf")
  /\ GoTo("ip_set") \/ GoTo("buf_alloc")
  /\ UNCHANGED <<mode, cable, fails, bootMap>>

IpSet == /\ pc = "ip_set"
         /\ Release("ip_tbuf")
         /\ GoTo("buf_alloc")
         /\ UNCHANGED <<mode, cable, fails, bootMap>>

BufAlloc == /\ pc = "buf_alloc"
            /\ Allocate("tbuf")
            /\ GoTo(IF slot'["tbuf"] = NULL THEN "menu" ELSE "setup")
            /\ UNCHANGED <<mode, cable, fails, bootMap>>

\* The control block is set up (res = 0, the session runs) or it is not.
Setup == /\ pc = "setup"
         /\ GoTo("running") \/ GoTo("close")
         /\ UNCHANGED <<memmap, slot, live, mode, cable, fails, bootMap>>

\* KEY_UP leaves the TCP session; the UDP session has no way out.
Quit == /\ pc = "running" /\ mode = "tcp"
        /\ GoTo("close")
        /\ UNCHANGED <<memmap, slot, live, mode, cable, fails, bootMap>>

\* Fault: the session returns to the menu with its buffer still allocated.
MutCloseKeepsBuffer == /\ pc = "close"
                       /\ GoTo("menu")
                       /\ UNCHANGED <<memmap, slot, live, mode, cable, fails, bootMap>>

Close == /\ pc = "close"
         /\ Release("tbuf")
         /\ GoTo("menu")
         /\ UNCHANGED <<mode, cable, fails, bootMap>>

Boots == EthMemMalloc \/ EthMemFree \/ LwipMemMalloc \/ LwipMemFree
         \/ Lan8720Init \/ Retry \/ DhcpDone

Sessions == KeyPressed \/ IpAlloc \/ IpSet \/ BufAlloc \/ Setup \/ Quit \/ Close

PlugOrUnplug == /\ cable' = ~cable
                /\ UNCHANGED <<memmap, slot, live, pc, nth, mode, fails, bootMap>>

BootNext == Boots \/ Sessions \/ PlugOrUnplug

\* The boot sequence runs to its end; nobody has to press a key.
BootSpec == BootInit /\ [][BootNext]_bootVars /\ WF_bootVars(Boots)

-----------------------------------------------------------------------------
(* Correctness.                                                            *)

BootLabels    == {"eth_malloc", "eth_free", "lwip_malloc", "lwip_free", "phy", "retry"}
SessionLabels == {"menu", "ip_alloc", "ip_set", "buf_alloc", "setup", "running", "close"}

BootTypeOK == /\ memmap \in [Block -> 0 .. NBlocks]
              /\ slot \in [Slots -> Block \cup {NULL}]
              /\ live \subseteq Block
              /\ pc \in BootLabels \cup {"dhcp"} \cup SessionLabels
              /\ nth \in 1 .. Len(EthSlots)
              /\ mode \in {"none", "udp", "tcp"}
              /\ cable \in BOOLEAN
              /\ fails \in Nat

Freed == CASE pc = "eth_free"  -> EthSlots[nth]
           [] pc = "lwip_free" -> LwipSlots[nth]
           [] pc = "ip_set"    -> "ip_tbuf"
           [] pc = "close"     -> "tbuf"
           [] OTHER            -> "none"

\* Every pointer handed to myfree is one that is still allocated: the stale
\* values the driver variables keep from an earlier attempt are never freed
\* again, which would release blocks that now belong to somebody else
\* (lan8720.c:248-254, lwip_comm.c:67-71).
FreesOnlyLive == Freed # "none" => slot[Freed] \in live \cup {NULL}

\* The pointers whose memory is in use.
InUse == BootSlots
         \cup {s \in {"ip_tbuf"} : pc = "ip_set"}
         \cup {s \in {"tbuf"} : pc \in {"setup", "running", "close"}}

\* Once the stack runs, the descriptors, frame buffers and lwIP heaps it uses
\* are allocated, whole, and share no block with one another or with a
\* session's buffer (lan8720.c:233-245, lwip_comm.c:51-65).
DriverMemoryOwned ==
  pc \in {"dhcp"} \cup SessionLabels =>
    /\ \A s \in InUse : /\ slot[s] \in live
                        /\ memmap[slot[s]] * BlockSize >= SizeOf[s]
    /\ \A s, t \in InUse :
         s # t => Extent(memmap, slot[s]) \cap Extent(memmap, slot[t]) = {}

\* However many sessions were started and left, at the menu the pool is as it
\* was when the program booted (udp_demo.c:45-59, 80-149; tcp_client_demo.c:36-58,
\* 79-146).
SessionsLeakNothing == pc = "menu" => memmap = bootMap

Footprint == [s \in BootSlots |-> Nmemb(SizeOf[s])]
FootprintTotal ==
  Footprint["DMARxDscrTab"] + Footprint["DMATxDscrTab"] + Footprint["Rx_Buff"]
  + Footprint["Tx_Buff"] + Footprint["memp_memory"] + Footprint["ram_heap"]

\* The sets of buffers the empty pool has room for.
SetsInPool == NBlocks \div FootprintTotal

\* However the buffers come to lie, no attempt to boot runs out of memory as
\* long as fewer attempts than that have failed for want of a cable and left
\* their buffers behind (lan8720.c:233-245, lwip_comm.c:51-65, 113-152).
OutOfMemoryOnlyLate == pc \in {"eth_free", "lwip_free"} => fails >= SetsInPool

\* All three, with every pointer and table entry in its range.
MemoryAccounted ==
  BootTypeOK /\ DriverMemoryOwned /\ SessionsLeakNothing /\ OutOfMemoryOnlyLate

\* While the pool still holds a whole set of buffers beside those the failed
\* attempts have kept, plugging the cable in for good gets the program to its
\* menu (main.c:102-116, lwip_comm.c:113-152).
BootsWithSpareMemory ==
  <>[]cable => <>(pc = "menu" \/ fails >= SetsInPool)

\* "Retrying..." (main.c:107), after an attempt that failed because no cable
\* was plugged in (main.c:100): once the cable stays in, a retry succeeds.
RetrySucceeds == <>[]cable => <>(pc = "menu")
=============================================================================
