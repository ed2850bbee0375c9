# Verification of the power-electronic device monitor

The program is bare-metal firmware for an STM32F407 board: it samples six
channels of a three-phase system and sends them over Ethernet, with lwIP 1.4.1
(no operating system, `NO_SYS=1`), a LAN8720 PHY, an LCD and four keys. This
directory holds TLA+ specifications of its core logic, TLC configurations that
check them, and TLAPS proofs.

    tlc -config MCMemPool.cfg MCMemPool.tla      # one run
    tlapm MemPool_proof.tla                      # the proofs of one module

`PROJECT.json` lists the runs, the source lines every definition stands for, a
seeded fault for every property, the findings, the hazards and the theorems.

## 1. Inventory

### How the program runs

`main` initialises the peripherals, the three memory pools and the network
(retrying until that works), waits for DHCP and then serves a menu: KEY1 starts
a TCP client session, KEY2 a UDP session. Everything else is interrupts
(priority group 2, `misc.c`):

| context | priority | does |
|---|---|---|
| ETH_IRQHandler | 0/0 | takes received frames off the ring and runs the whole of lwIP on them, replies included |
| TIM3_IRQHandler | 0/3 | adds 10 to `lwip_localtime` |
| TIM2_IRQHandler | 2/3 | in the UDP session, every millisecond: takes six samples and `udp_send`s them |
| USART1_IRQHandler | 3/3 | assembles a line of text |
| TIM4 (usmart) | 3/3 | runs the function the line names, `delay_ms` and LCD functions included |
| main | none | menu and sessions, `lwip_periodic_handle`, key scanning, busy-waiting delays |

A context preempts those below it with a larger first number. The code has no
critical section, and lwIP is built without its own
(`SYS_LIGHTWEIGHT_PROT 0`, lwipopts.h:13).

### Components

| component | state | operations | talks to | what makes it correct | modules |
|---|---|---|---|---|---|
| memory pools (`MALLOC/malloc.c`) | for each pool a table with a length per block, a ready flag | init, malloc, free, realloc | main only | no block is shared or lost; a request fails only when there is no room; the loops end inside the table | `Malloc`, `Heap`, `MemPool`, `MemScan` |
| boot (`main.c`, `lwip_comm.c`, `lan8720.c`) | pointers to rings, buffers, heaps | allocate, initialise the PHY, release, retry | pools, Ethernet | the running stack owns its memory; a failure releases what was taken; a retry can succeed | `Boot` |
| Ethernet reception (`lan8720.c`, `ethernetif.c`) | receive ring, `DMARxDescToGet`, interrupt bits | ETH_IRQHandler and what it calls | DMA, lwIP | frames reach lwIP once, whole and in order; reception never stops for good; none is forgotten | `EthRx` |
| Ethernet transmission (same files) | transmit ring, `DMATxDescToSet` | `low_level_output` | DMA, every caller of lwIP | what is accepted is sent, once and as it was | `EthTx` |
| UDP session (`udp_demo.c`, `timer.c`) | control block, flag, send buffer, sample index | start, receive callback, send every ms | lwIP, TIM2, pbuf pool | pbufs are never lost or owned twice; samples go where the session was told; sending goes on | `Pbuf`, `UdpTelemetry` |
| TCP client session (`tcp_client_demo.c`) | control block, flag, per-connection struct | connect, callbacks, retry, quit | lwIP, pools | frees each control block once; one connection at a time; its flag tells the truth; reconnects | `TcpClient` |
| TCP server (`tcp_server_demo.c`) | as above | built, never called | | | |
| DHCP (`lwip_comm.c`, lwIP's `dhcp.c`) | `dhcpstatus`, `lwipdev`, `struct dhcp`, the interface | `lwip_dhcp_process_handle`, the client's timers, messages and answers | main and the Ethernet interrupt | the wait for an address ends; what is shown is what is used; a lease is given up in the end | `Dhcp` |
| time (`lwip_comm.c`, `timer.c`) | `lwip_localtime`, four time stamps | `lwip_periodic_handle`, TIM3 | lwIP's timers | no timer early, none late, across the wrap of the clock | `Periodic` |
| delay (`delay.c`) | the SysTick registers | `delay_us`, `delay_ms` | main and TIM4 | a delay lasts at least its time and ends | `Delay`, `Console` |
| serial line (`usart.c`, `usmart.c`) | `USART_RX_STA`, buffer | receive a character, run a line | two interrupts | a line is handed over whole and once | `Serial`, `Console` |
| keys (`key.c`) | `key_up` | `KEY_Scan` | main | one report per press | `Console` |
| ADC (`adc.c`) | `ADValue` | configured once, then DMA | nothing reads it | | |
| LCD, LED, buzzer, RTC, SRAM, vendor libraries | none of interest | | | | |

### Hard behaviour

* interleaving: the DMA with the interrupt handler; three contexts inside lwIP,
  its pools and the transmit ring with no mutual exclusion; one SysTick counter
  with two users;
* lost wake-ups: an interrupt bit cleared after the last look at the ring;
* partial failure and retry: an initialisation of many steps that fails late
  and starts again from the beginning; messages that cannot be allocated;
* exhaustion: rings, pbuf pool, memory pools;
* stale state: pointers kept after a release, control blocks freed by the stack,
  a state tested before an answer changes it;
* time: wrapping counters, timers that race late answers.

`hazards` in `PROJECT.json` lists each at its line, with the properties that
cover it.

## 2. What is modelled

One step of a model is what no other context can split, or can split without a
difference: an access to a register, a descriptor, a flag or a list head where
a higher context uses the same one; a whole handler where nothing above it
does. Data are model values or small numbers.

### Memory pools: `Malloc`, `Heap`, `MemPool`, `MemScan`

`Malloc` is the allocator as operators on its table: `Nmemb` (the block count,
in a u16), `FirstFit` (the highest place with a long enough run of free
blocks, because the code searches downwards), `AllocMap` and `FreeMap` (the
table after a call). A pointer is a block number, since every pointer the code
returns is a block number times the block size.

`MemPool` is a pool with its clients. `memmap` and `memrdy` are the code's;
`want` is what the program's own pointers are (the size of the request each
answers), which the allocator does not record; `call` is the last call and its
result. The allocator is called from main only, so `MyMalloc`, `MyFree`,
`MyRealloc` and `MemInit` are one action each. Tables start with garbage and
`memrdy` false, as those of the external and CCM pools do.

`Heap` is the abstract specification: intervals of blocks granted and given
back, wherever there is room. `MemPool` implements it (`ImplementsHeap`).

`MemScan` is one call, one loop iteration per step, with the u16 counters of the
code, on every table the allocator can have produced. It shows that the loops
compute the operators of `Malloc`. The table `memmap` is declared in `Malloc`;
`MemPool`, `MemScan` and `Boot` are three specifications over it (`Spec`,
`ScanSpec`, `BootSpec`).

### Boot and sessions: `Boot`

The life of the internal pool: `ETH_Mem_Malloc` and `lwip_comm_mem_malloc` with
their clean-up paths, `LAN8720_Init` (which fails when no cable is plugged
in), the retry loop, then sessions started and left. `slot` holds the pointer
variables, never reset by the code; `live` the pointers allocated and not yet
released. `pc` is where main is, and `nth` the slot a loop is at. The result of setting up a control block is
left open (`Setup`), since it depends on lwIP.

### Ethernet reception: `EthRx`

The ring of receive descriptors between the DMA (`Accept`, external) and the
handler, one access to a shared descriptor, buffer or register per step:
`Enter`, `Check` (the while condition), `EthRxPacket`, `PbufAlloc`, `Copy`,
`GiveBack`, `Resume`, `Input`, `Clear`. Nothing preempts the handler. A frame is
its number among those accepted, modulo `NFrames`, which is enough to see a
frame skipped, repeated, reordered or overwritten because no more than
`NDesc + 1` numbers are in play at once.

The DMA is modelled by what the driver relies on and no more: in particular a
suspended DMA waits for the poll demand, although the hardware may also resume
on the next frame. Bad frames are dropped by the MAC, as
`ETH_ForwardErrorFrames_Disable` asks; `Accept` would store them if
`ForwardErrorFrames` were true. The summary bit NIS is taken to follow RS,
which is the reading most favourable to the code.

### Ethernet transmission: `EthTx`

The ring of transmit descriptors between the DMA (`Transmit`, external) and the
contexts that send. A context is a priority; it takes a step when no context
above it is in the middle of a send, which is how nested interrupts run. A
send is `EthGetCurrentTxBuffer`, the copy in two halves (a frame of two
pbufs), `CheckOwn`, `SetOwn`, `PollDemand`, `Advance`. `due` records the frame
for which `ETH_SUCCESS` is returned. `nested` records the worst that has
happened so far: no send begun within another, one begun within another's
copy, or one begun between another's look at OWN and its advance (the
handover); what the driver still promises depends on it, and the properties
say how. `DMATxDescToSet` is not volatile; `Rereads` says whether the build
reads it at each statement or keeps it in a register.

### UDP session: `Pbuf`, `UdpTelemetry`

`Pbuf` is lwIP's pool of pbufs as a head and a link and reference count for
each, with the chain operations the two interrupts use: `TakeChain`
(`pbuf_alloc`, which gives back what it has taken when the pool runs dry) and
`ReleaseOne` and its repetition (`pbuf_free`).

`UdpTelemetry` is the session from the key to its endless loop (`SetRemoteIp`
to `Notice`), the TIM2 interrupt one access to the pool at a time (`Begin` to
`Count`: `memp_malloc`'s read of the head, of the link, its store of the head;
`udp_send`; `memp_free`'s two stores) and the Ethernet interrupt, which
preempts it, as one step: a frame takes a chain of pbufs, goes through
`udp_input` (`Matches`) and `udp_demo_recv` (`Deliver`) and is freed. `mixed`
records whether a frame of several pbufs has come while TIM2 was in the middle
of an access to the free list.

### TCP client session: `TcpClient`

Main and the Ethernet interrupt around one control block. `pc` is where main is
in `tcp_client_test`: `Start`, `New` and `ConnectSends` / `ConnectFails` open a
connection; `ReadFlag`, `WriteFlag`, `Status` and `Tick` are a turn of the loop;
`RetryAborts`, `RetryClears`, `QuitAborts` and `QuitClears` are
`tcp_client_connection_close` in its two uses. The flag is read and written
back in two steps, because it is in the code and the interrupt sets bits of it.
The interrupt is one action per kind of segment with the callback it leads to:
`SynAck` (`tcp_client_connected`), `Data` and `Fin` (`tcp_client_recv`), `Rst`
(`tcp_input` frees the block).

The pool of control blocks is lwIP's: `tab` is the head of the free list and
`word` the first word of each block, which links the list while the block is
free and is `local_ip` while it is not. `PcbFree` is what `tcp_abort` and
`tcp_input` do to it, whether or not the block was free already. `resets` and
`ample` are chosen at the start and never change: does the peer reset
connections, and is there always memory for the callback. Left out:
lwIP's own time-outs (the retry comes long before the first of them), the
copying of received data, and the sending functions, which nothing calls.

### DHCP: `Dhcp`

`lwip_dhcp_process_handle` and lwIP's client in the two contexts that run it.
Main: the timers (`FineTmr`, which does nothing or expires; `DhcpTimeout`;
`CoarseTmr`), the messages (`Build`, which sets the state and allocates
`p_out`, and `Send`), `Check`, `Bind`, and the program's wait (`Restart`,
`ReadIp`, `ReadMask`, `Found`, `GiveUp`, `SetRest`, `KeepWaiting`). The
interrupt: `Offer`, `OfferWithoutId`, `AckRequest`, `AckRenewal`, `Nak`,
`ArpReply`, each a whole handler, at any step of main. `asked` is what has been
sent under the present transaction id, and so what the server may answer; that
an answer never comes is a lost message. A lease stands for an address with its
netmask and gateway; `reg` is what main has read of the interface's three
fields so far. When the interrupt takes the message main is building away from
it, main writes through a null pointer: `pc = "fault"`, where the model ends.
`nakked`, `badOffer` and `declined` are history, for the properties only.
Once main has an address it may go to the screen at which KEY1 asks for the
remote one (`Ask`, `pc = "ask"`), whose loop serves no timer, and stay there as
long as nobody presses KEY_UP (`Answer`); the interrupt goes on.

### Time: `Periodic`

The clock that TIM3 advances and that wraps, the stamps, and a pass of
`lwip_periodic_handle` cut between the test of a timer, its stamp and its
service; main's loops around it (`place`, `Onward`), and at the menu its counter
`t`, which the code never initialises. `since` is the time that has really
passed since each stamp. Main calls `lwip_periodic_handle` in the wait for DHCP,
at the menu and in both sessions, but not at the screen that asks for the remote
address (`tcp_client_set_remoteip`): from `Ask` to `Answer` the clock runs on
and no timer is looked at.

### Delays, the serial line and the keys: `Delay`, `Serial`, `Console`

`Delay` is the SysTick counter as `delay.c` uses it (`SetLoad`, `Enable`,
`Over`, `Disable`, and `Elapse`, the hardware), `Serial` the receiving half of
`USART1_IRQHandler`. `Console` composes them: main scans the keys and waits
(`KeyScan`, `MChunk`, `MEnable`, `MPoll`, `Resample`), characters arrive
(`Arrive`, `Usart1`), and TIM4 runs the command a line stands for (`Scan`,
`Execute`, `HChunk`, `HEnable`, `HPoll`, `Finish`), `delay_ms` and `delay_us`
among them, on the counter main may be waiting for. `place` is the loop main is
in: the menu and the TCP session scan and wait, the screen for the remote address scans
without a wait, and the UDP session waits and never scans (`UdpTurn`) and never
ends. `Leads` says where a report may take main; the keys are not told apart, so
a report of any leads where that of one would.

## 3. The runs

| run | instance | distinct states | shows |
|---|---|---|---|
| `mempool` | 5 blocks of 2 bytes, five sizes including 0 and one that cannot fit, tables of 0 and 6 at power-on | 3 000 | `ExtentsDisjoint`, `BooksBalance`, `BigEnough`, `ImplementsHeap` |
| `memscan` | 6 blocks, u16 of 3 bits, all tables | 15 000 | `ScanAgrees`, `Returns` |
| `boot` | 34 blocks, a boot takes 12 | 160 | `FreesOnlyLive`, `MemoryAccounted`, `BootsWithSpareMemory` |
| `boot_retry` | 29 blocks | | violates `RetrySucceeds` |
| `ethrx` | 5 descriptors (the real number), 1 late frame | 2 700 | `InOrder`, `RingInStep`, `SuspendedOnlyWhenFull`, `EveryFrameHandled` |
| `ethtx` | 3 descriptors, main and TIM2 | 334 000 | `RingInStep`, `OnlyHeadDamaged`, `AcceptedAreSent` |
| `udp` | 3 pbufs, frames of 1 and 2, 2 samples, 2 hosts | 32 000 | `PoolSound`, `SentToTarget`, `SendsForEver` |
| `tcp_client` | 3 blocks, a retry every 2 turns, heap for 2 structures or ample, a peer that resets or does not | 5 600 | `PoolAccounted`, `FlagMeansConnected`, `OneConnection`, `PcbAvailable`, `KeepsConnecting` |
| `tcp_refused` | the same | | violates `MempSane` |
| `dhcp` | 2 leases (one of 1 and 2 coarse ticks, one without end), counters that wrap at 10 and 3, 1 failed allocation | 347 000 | `ShownWhole`, `TimerKept`, `DeclinedNotUsed`, `FallBackUp`, `WaitEnds`, `LeaseEnds` |
| `periodic` | 2 timers of 2 and 3 steps, a clock that wraps at 32 and a step of 3 | 616 000 | `NeverLate`, `NeverEarly`, `ServedForEver`, `Blinks` |
| `console` | a buffer of 2, texts of 1 and 2, chunks of 1, LOAD of 1 bit, 1 key | 950 000 | `TypeOK`, `DelaysLast`, `LineWhole`, `OneReport`, `HeldIsReported`, `MainReturns` |

A type invariant is a conjunct of the structural invariant of its module
(`ScanAgrees`, `MemoryAccounted`, the two `RingInStep`, `PoolSound`); in
`console` it is a property of its own, because there it says that no character
is stored past the end of the line buffer. Those of `MemPool`, `TcpClient`,
`Periodic` and `Dhcp` are proved (section 5).

What the properties say, where their names do not:

* `EveryFrameHandled`: every frame is handled unless it came between the
  handler's last look at the ring and the clearing of the interrupt bit
  (`Overlooked`); and on a network that never falls silent those are handled
  too.
* `RingInStep` and `AcceptedAreSent` of `EthTx` hold unless a send was begun in
  another's handover; `OnlyHeadDamaged` unless one was begun within another at
  all. Without nesting, a full ring can damage only the frame at its head.
* `PoolSound` and `SendsForEver`: as long as no frame of several pbufs comes
  while TIM2 is between its accesses to the free list. A frame of one pbuf
  leaves the list as it found it, so that TIM2's half-done operation stays
  right.
* `SentToTarget`: although `udp_demo_recv` writes the sender of any datagram
  into the control block, the block is connected and so only its own peer's
  datagrams get that far.
* `KeepsConnecting`: a session is connected in the end; and one whose
  connection is gone opens another, unless bit 5 of the flag is still set.
* `TimerKept`: while main waits for an address the client's timer runs, unless
  `dhcp_start` failed or an OFFER named no server. `WaitEnds`: the wait then
  ends, once the network stops refusing and answers stop coming inside main's
  calls of the client. `FallBackUp`: main's limit of tries comes before the
  client's own, which would take the interface down.
* `DeclinedNotUsed`: an address that another host has answered for is not used
  before it is granted again, unless the answer came when `dhcp_timeout` had
  seen `DHCP_CHECKING` and was on its way to `dhcp_check` or `dhcp_bind`.
* `DelaysLast`: a command's delay lasts its time, and main's unless a command
  delayed meanwhile. `MainReturns`: main always comes back to its loop, though
  commands stop the counter it waits for, unless a command's own delay counts
  nothing (`Hung`); "its loop" is whichever it is in, the UDP session's included.
  For `delay_us` the time a delay should last is what LOAD holds: that a longer
  one is cut to LOAD's 24 bits, as delay.c:178 warns, is not held against it.
* `HeldIsReported`: a key that is down while `key_up` is set is reported unless
  it is let go in time, a command never returns, or main is in the UDP session,
  which reports no key at all.
* `LeaseEnds`: a lease the server no longer confirms is given up, unless main
  stays for ever at the screen for the remote address.
* `LineWhole`: whatever was lost before, two lines later the receiver is in
  step again.
* `NeverLate`: the bound is the interval and two passes of main. It also keeps
  the difference of two clock values below the modulus. What main spends at the
  screen for the remote address is not held to it: the bound holds anew for each
  timer once the first pass after the screen has looked at it (`seen`).
* `ServedForEver`: every timer is served again and again, unless main stays for
  ever at that screen. However often main goes there and comes back, the
  timers catch up.

Bounds. Five blocks are enough for three allocations that leave holes, and for a
hole that is too small beside one that fits; size 11 needs more blocks than
there are, size 3 needs rounding up. In `boot` the pool has room for two sets
of buffers and part of a third, so that both `ETH_Mem_Malloc` and
`lwip_comm_mem_malloc` fail in some behaviour. The proportions follow the
board: of its 3200 blocks a boot takes 488 for rings and frame buffers (5
buffers of 1524 bytes each way) and about 930 for lwIP's two heaps. The receive
ring has its real size; `MaxLate` bounds the frames that can arrive in the few
instructions between the handler's last look at the ring and the clearing of
the bit; at 100 Mbit/s a frame takes more than 6 microseconds, so it is 1. The
bound matters: with as many late frames as descriptors, reception would stop
for good. The transmit ring has three descriptors instead of five so that two
senders fit: that is a full ring, an empty one and one in between, and a
sender may be as fast as it likes. A third context would add only deeper
nesting of the same kind. Three control blocks are the one in use, the one
behind it and the rest of the free list; a retry every two turns leaves one
turn without and one with it. Three pbufs let TIM2 hold one while a chain of
two is taken, and let a chain fail for want of a pbuf. In `dhcp` the u8 `tries`
wraps just past the largest limit the code compares it with (8), and a lease
expires before the 16-bit timers wrap and after; `CoarseTmr` does not run the
timers below 0 before there is an address, which leaves out waits of 65536
minutes. In `periodic` an interval is at least main's pace, and the clock wraps
after a few rounds of both timers, at a point the step does not divide. `Pace`
bounds the time between two calls except at the screen for the remote address;
a stay there that ends does so before the clock has gone round, which takes 49
days (`InRound`; a longer one would only put the timers off by up to an
interval once more). In
`console` a command's delay takes several chunks, a chunk is shorter than LOAD
as on the board, one delay is a multiple of what LOAD holds, and one text is
longer than the buffer; in the UDP session, which looks at no key, none is touched
(`Touch`).

Fairness. `MemScan`: the processor runs. `Boot`: the boot sequence runs to its
end (`WF_vars(Boots)`); nobody has to press a key. `EthRx`: the processor
takes a pending interrupt of the highest priority and runs its handler
(`WF_vars(Handler)`); that frames keep arriving, which a network with
broadcast traffic grants, is an assumption inside the second half of
`EveryFrameHandled` and nowhere else. `EthTx`: the DMA sends what it can and a
send that was begun is finished; there is no fairness on starting a send.
`UdpTelemetry`: TIM2 comes every millisecond and goes on between frames
(`WF_vars(Tim2)`); nothing is assumed of main or the network. `TcpClient`: main
runs; `tcp_connect` does not fail for ever; and of attempts without end one is
answered early (`AnsweredEarly`). Mere fairness of `SynAck` would not do: an
answer that comes each time between the decision to retry and the abort is
undone each time, and so is one that comes while main writes the flag back.
`Dhcp`: main runs; its timers are served again and again unless it stays at the
screen for the remote address (`SF_vars(FineTmr)`, `SF_vars(CoarseTmr)`: strong,
because main may go there between any two passes, and a pass follows each time
it comes back; this is `ServedForEver` of `Periodic`); and an armed request
timeout is a countdown that reaches its end even when an interrupt starts it
again now and then (`SF_vars(Expire)`). Nothing makes main come back from the
screen: there is no fairness on `Answer`. In the wait for an address
(main.c:113-116), which is what `WaitEnds` is about, main calls without a pause.
`Periodic`: main runs and TIM3 ticks; nobody has to press a key (no fairness on
`Ask` or `Answer`). `Console`: time passes, no key has to be touched or let go,
a TIM4 interrupt that has begun goes on, and main gets its turns
between them (`SF_vars(Main)`: TIM4 comes 10 ms after it has returned at the
earliest).

Deadlock is checked in every run except `memscan`, where a behaviour is one
call, which ends, and `dhcp`, where main may fault.

## 4. Findings

Two runs refute what the repository says of itself.

1. `boot_retry`. A failed `LAN8720_Init` releases none of what was allocated
   before it (lwip_comm.c:121; also line 120 for the driver's blocks). Two
   boots' worth of memory fits the pool: with the cable out for two attempts,
   the third runs out of memory, and "Retrying..." goes on for ever, cable or
   not.
2. `tcp_refused`. A control block that lwIP has freed after a refusal or a reset
   is freed again by the retry or the quit (tcp_client_demo.c:134, 145). The
   free list then consists of that block alone, linked to itself. `tcp_client`
   shows why the program does not fall over: it only ever needs one. The
   structure of a connection is never released; when lwIP's heap is used up,
   `tcp_client_connected` aborts its block without telling lwIP
   (tcp_client_demo.c:173-174), to the same effect.

The properties of the passing runs name the conditions under which they hold.
Where such a condition can fail on the board, something follows that a
maintainer should know of:

* A frame that arrives between the handler's last look at the ring and the
  clearing of the bit waits for the next frame (lan8720.c:164-168).
* `low_level_output` copies into the current buffer before `ETH_Tx_Packet` asks
  who owns it (ethernetif.c:50-56, lan8720.c:209): when the ring is full, the
  frame at its head is overwritten.
* `ETH_Tx_Packet` is not atomic and interrupts send. A send begun in another's
  handover (lan8720.c:206-222) can make both use one descriptor, after which
  the driver's position and the DMA's differ for good.
* A frame of several pbufs that comes in TIM2's window makes the pool lose a
  pbuf or hand one out twice (memp.c, with `SYS_LIGHTWEIGHT_PROT` off).
* A connection closed by the peer is never closed or replaced: nobody clears
  bit 5 (tcp_client_demo.c:132, 195).
* The UDP session cannot be left, though its screen names a key for that
  (udp_demo.c:78, 120): its loop never calls `KEY_Scan`, so no key is reported
  there, however long it is held.
* At the screen that asks for the TCP session's remote address
  (tcp_client_demo.c:47-57) main only scans keys until KEY_UP is pressed. None of
  lwIP's timers is served meanwhile, for TCP, ARP or DHCP: a lease is neither
  renewed nor given up and stays in use past its end.
* The interrupt's answer can take `dhcp->p_out` away while main is filling it
  (dhcp.c:1662); an OFFER without a server identifier stops the client for good
  (dhcp.c:1624), and so does a DISCOVER for which there is no pbuf
  (lwip_comm.c:211 does not look); refusals without end keep main waiting
  without end, since each clears `tries`.
* After the fall-back to the static address the client is still running
  (lwip_comm.c:243-250): its own limit, a late ACK or a NAK replaces that
  address or takes the interface down, and the screen keeps the old one.
* The u16 lease timers count on below zero and come to 1 again after 65536
  minutes, which is a renewal nobody asked for.
* `delay_us(0)`, and any multiple of 2^24 cycles, never ends (delay.c:182);
  the terminal can ask for it.
* A delay of main during which a command delays may be cut short (delay.c:203).
* TIM3's ticks are lost, not late, when the Ethernet handler runs for more than
  20 ms; `Periodic` counts time by those ticks.

## 5. What is proved

Eight modules hold proofs. Each finds an inductive invariant that implies the
invariants of its run; all were checked by TLC before they were proved.

`MemPool_proof`, for every number of blocks, block size, counter width and set
of request sizes that satisfy the assumptions of `Malloc` and `MemPool`:
`Invariance` (`Spec => []IInv`); `TypeCorrect`, `NeverOverlap`, `NoBlockLost`,
`LongEnough`: the invariants of the `mempool` run; `Refinement`:
`Spec => ImplementsHeap`. Assumptions: the table is shorter than a u16 can
count (`PoolAssumption`, true of the three tables, malloc.h:29-42), and no
request is for 2^16 blocks or more (`SizesAssumption`; the largest of the
program is about 16 KB).

The argument. None of the invariants is inductive: that extents do not overlap
says nothing of the table entries inside an extent, and `myfree` clears as
many blocks as the entry at the pointer says. `IInv` therefore relates the
table as the next call will see it (`Ready`: all zero until the pool is
initialised) to the clients' pointers through `Sound`: `LiveMarked` (each
pointer starts a run of entries equal to its block count), `LiveApart` (runs
do not meet) and `UsedHeld` (every used block is in a run). `AllocSound` and
`FreeSound` show that marking a free run and clearing a held one keep it;
`realloc` is the two in that order. `FirstFitCorrect` needs the existence of a
highest fitting block, by well-founded induction on the set of candidates.
For the refinement, `TakenIsUsed` turns `Sound` into "a block is in use exactly
when the heap says it is taken", so that a search that fails means there is no
room.

`LoopsAgree` (`ScanSpec => []ScanAgrees`) is about the loops the operators stand
for, on every table whose used blocks are tiled by allocations. `ScanInv` says
how far a loop has got: the search has counted the free blocks from the one it
is at up to the next one in use, and no run that fits begins higher up
(`Searching`); the marking and the clearing have written so many entries of the
run and no others (`Marking`, `Clearing`). That the u16 `cmemb` does not wrap
follows from its being below `nmemb`.

`FreesOnlyItsOwn` and `MemoryIsAccounted` are `Boot`'s two invariants, for every
pool and all buffer sizes that are among the requests (`Requests`). Neither is
inductive, and `Boot` keeps no record of what was asked for by a pointer that
main has forgotten: `Book` therefore says that there is some assignment of
requests to blocks for which the pool is `Sound`, whose pointers are those in
`live`, and in which the variables that main counts as its own (`Holding`, by
the place it is at) have a pointer each. `BookAllocate` and `BookRelease` carry
it over a call with `AllocSound` and `FreeSound`; `BookForgets` over the retry,
after which the variables still hold their old values and nothing may be
released through them. `FreeUndoesAlloc`, with `Restored`, is why a session
leaves the table as it was: nothing is allocated between its own pair of calls.
The last part of `MemoryAccounted` (`OutOfMemoryOnlyLate`) is the safety half of
`BootsWithSpareMemory`. Counting blocks is not enough for it, since a free count
says nothing of where they are: `SpareInv` says that up to the first failure
everything the boot sequence has asked for, the sets left behind included, lies
without a gap below the top of the pool (`Stacked`), which the downward search
keeps so (`StackedAlloc`), and `RoomForASet` is the arithmetic of the sets.

`TcpClient_proof`, for every number of control blocks, retry period and heap
(`TcpAssumption`): `TypeCorrect`; `NeverTwo` and `NeverWithoutPcb`, with resets
or without; and `FlagTruthful`, for a peer that does not reset connections.
`SInv` adds to the invariants that what main holds is a block and that while it
holds none the head of the free list is one (`HeadIsBlock`): nothing but main's
own block is ever on the list of active ones, so between an abort and the next
`tcp_new` the interrupt finds no block to free, and the block just aborted is
still the head. That is why no fact about the rest of the list is needed, and
why a damaged list does no harm here. `FInv` adds the copy of the flag that
main may be about to write back (`CopyMeansConnected`), without which the
invariant about bit 5 is not inductive. `PoolIsAccounted` (`PoolAccounted`, for a
peer that resets nothing and memory to send with) is about the whole list:
`PInv` says that there is a `Path`, a sequence of m different blocks, each linked
to the next and the last to nothing, over all blocks but main's. `FreeListIsPath`
shows that such a path is what the recursive `FreeList` computes. `tcp_new` takes
the path's first block and `PcbFree` puts one in front; that there is room in
front is the pigeonhole principle. The hypotheses are needed: with resets, or
without memory, a block is freed twice (the `tcp_refused` run).

`EthRx_proof`, for every ring size, number of late frames and modulus of the
frame numbers above the ring size (`RingAssumption`): `InOrderProved`,
`RingProved`, `SuspensionEnds`. `RInv` says that for some number n the n
descriptors from the oldest one on hold the n frames from the oldest one on and
that the DMA owns the others (`Ring`, in terms of distances round the two
circles, which is what the arithmetic lemmas are about); a frame accepted makes
n one more, one given back one less. It adds what the handler holds at each
step (`ReadOne`; `CopyTrue`: the copy is the oldest frame) and that a suspended
DMA has RBUS set, without which the poll demand would not be written.

`UdpTelemetry_proof`, for every pool, set of hosts and pair of ports:
`TargetKept` (`SentToTarget`). The invariant follows the control block through
main's steps (`Bound`, `Connected`) and shows that a delivery, wherever it
comes, writes back what is there. It needs nothing of the pool, which is why it
holds when the pool is upset as well. `PoolIsSound` (`PoolSound`) is the pool's
part, for every pool and frames of any number of pbufs. The loops of
`pbuf_alloc` and `pbuf_free` are recursive functions in `Pbuf`; `TakeTurns` and
`ReleaseTurns` show that each is a sequence of states in which one turn leads to
the next, and `TakenChain` and `FreedChain` follow them: `pbuf_alloc` takes the
first k pbufs of the path, linked as they were (`Chain`), and `pbuf_free` puts
these k back, the first one first (`Freed`). So a frame turns the first k pbufs
of the path round and leaves the rest (`FramePath`), and a frame of one pbuf
changes nothing. The invariant `ListInv` adds to the path what TIM2 has read and
still relies on (`StillSo`: the head, its link, the link of the pbuf it is about
to push); those are true at the moments a frame of several pbufs would spoil
them, which is what `mixed` records.

`EthTx_proof`, for every ring size, number of frames and set of contexts
(`RingAssumption`): `RingIsInStep` (`RingInStep`) and `OnlyTheHeadDamaged`
(`OnlyHeadDamaged`). `RInv` says that the DMA owns n descriptors from its
position on, that the driver's position is the one behind them or, once a frame
has been handed over and the position not yet moved, one before that (`Ring`),
that a sender's frames are in the order of their serial numbers (`InOrder`),
and what the context within its handover has found out (`HandsOver`). When no
send has begun within another at all, `OneSends` adds that every buffer waiting
holds its own frame, but for the one a sender is copying over, and that this is
the head of a full ring.

`Dhcp_proof`, for every set of leases, every renewal and rebinding time and
all widths of the counters above their limits (`DhcpAssumption`): `TypeCorrect`,
`ShownWholeProved`, `DeclinedNotUsedProved`, `TimerKeptProved`,
`FallBackUpProved`. `DInv` adds three parts to them: `MainInv`, which says what
main is doing and for whom; `WaitInv`, which holds until main has an address:
the client is in one of the states before BOUND with no configuration and both
lease timers at rest, or main has just bound one and is reading it, `tries` has
not passed main's limit, and the request timer runs; and `OfferInv`, which says
that the address being checked is not one that was declined, in any step from
which `dhcp_bind` can be reached. `WaitInv` is what makes main's three separate
reads one: a lease main still waits for is BOUND and its timers are served by
main alone, so nothing takes it away between the reads.

`Periodic_proof`, for every modulus, step, set of intervals and pace that leave
room below the modulus (`PeriodicAssumption`): `TypeCorrect`,
`NeverEarlyProved`, `NeverLateProved`. The invariant says that the difference of
clock and stamp modulo `W` is the time since the stamp, which is true only as
long as that time is below `W`, and so needs the bound that it is to imply:
both are proved together, by where in its pass main is. After a stay at the screen
for the remote address the time is below `W` by `InRound`, and the pass that
follows looks at every timer, so that each is in `seen` before the bound is
claimed of it again. No more is asked of the constants than that the step, the
first call and each interval with two passes are below the modulus.

`Console_proof`, for every chunk, width of LOAD, buffer length, set of texts
and commands: `TypeCorrect`, `DelaysLastProved`, `OneReportProved`.
`TimeOfCommand` and `TimeOfMain` say that what SysTick still has to count and
what is still to be asked of it cover what is due, by the place the waiter is
at, and that whoever loses the counter to a command has been marked by it;
`KeysSeen` that `key_up` is set only when all keys have been up.
`LineWholeProved` (`LineWhole`) needs to know how a line gets in step:
`Heard` says that in the first line after one that lost a character no earlier
line is still waiting and the receiver sees the end where it is, whatever its
buffer holds; `InStep` that from the second on the buffer holds what is kept of
the characters so far (`KeptTo`). `KeptStep` is the arithmetic of a buffer that starts
again every `RecLen` characters.

Only model-checked: every liveness property (liveness under fairness is outside
what the proof system does), and with them `BootsWithSpareMemory`, `Returns` and
the properties of the two runs that end in a violation. Every invariant that a
passing run checks is proved.

## 6. What is not modelled

* The LCD, LED, buzzer, RTC and SRAM drivers, start-up code and the peripheral
  library: register writes in sequence and pure output, with no state that
  another part reads back. The Ethernet driver library is modelled where the
  two rings use it (descriptor chains, packet size).
* The TCP server session and `HARDWARE/MALLOC` are not reached by the program.
* ADC sampling is configuration; nothing reads `ADValue`.
* USMART's parsing of names and parameters is one lookup (`Command`), and every
  function it can call but the delays one that changes nothing modelled.
* A USART overrun that comes between the handler's reads of the status and of the
  data register (usart.c:127-129): a character is lost only when it finds the
  register full.
* Of lwIP, what the program's contexts meet in: the DHCP client, the pbuf pool
  and its chains, the free list of TCP control blocks, the lookup of UDP control
  blocks. Its heap (`mem.c`), the ARP table, TCP's own time-outs and windows, IP
  fragments (which lwIP would keep between frames) and the encoding of DHCP
  options are not, nor is a first `dhcp_start` that fails before `netif->dhcp` is
  set. `DHCP_REBOOTING` cannot be reached, because nothing calls
  `netif_set_link_up`.
* Sockets, SNMP, PPP, AutoIP, DNS and most of the rest of lwIP are in the tree
  but not in the build, or not called.

The modelled code is the program's own logic and the parts of lwIP under it.
Most of the tree's lines are the device header, the peripheral library, fonts
and drawing, and the parts of lwIP just named, none of which holds behaviour of
this program; so the share of all lines that the models stand for stays small,
and modelling more of them would describe code the program does not run.

What could come next: a composition of `EthRx` and `EthTx` through a frame that
is answered from the handler, refining a lossy channel; lwIP's heap with its two
contexts.
