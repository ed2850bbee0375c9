----------------------------- MODULE UdpTelemetry ----------------------------
(***************************************************************************)
(* The UDP session: main opens the control block, connects and binds it,   *)
(* registers the callback and starts TIM2; from then on TIM2's interrupt   *)
(* sends a sample each millisecond while the Ethernet interrupt, which     *)
(* preempts it, allocates and frees pbufs from the same unprotected pool.  *)
(*                                                                         *)
(* An Ethernet frame is one step: it is received into a chain of pbufs,    *)
(* run through lwIP and freed before the interrupt returns (IP fragments,  *)
(* which lwIP keeps, are left out).  TIM2 goes one access to the pool at a *)
(* time.  udp_new, udp_connect and udp_bind do not fail: the six control   *)
(* blocks and all ports but DHCP's are free.                               *)
(***************************************************************************)
EXTENDS Pbuf

CONSTANTS Long,       \* pbufs of the longest frame
          NSamples,   \* length of SinValue
          Hosts,      \* other addresses on the network
          Chosen,     \* lwipdev's own network with .115
          Default,    \* lwipdev.remoteip as lwip_comm_default_ip_set leaves it
          DemoPort,   \* UDP_DEMO_PORT
          OtherPort,  \* any other, such as the one udp_new_port returns
          None

ASSUME UdpAssumption == /\ Long \in Nat /\ NSamples \in Nat \ {0}
                        /\ Chosen \in Hosts /\ Default \in Hosts
                        /\ None \notin Hosts \cup {DemoPort, OtherPort}
                        /\ DemoPort # OtherPort

VARIABLES mpc,        \* where main is
          remoteip,   \* lwipdev.remoteip
          pcb,        \* udppcb: its ports and remote address, and is recv set
          target,     \* what udp_connect was given
          flag,       \* bit 6 of udp_demo_flag
          t,          \* where TIM2's interrupt is
          cnt,        \* the sample's number
          p, h,       \* its pbuf and what it read from the pool
          sent,       \* the last datagram sent
          pool,
          mixed       \* has a frame of several pbufs come while TIM2 was in
                      \* the middle of an access to the free list

mainVars == <<mpc, target>>
tim2Vars == <<t, cnt, p, h, sent>>
vars     == <<mainVars, remoteip, pcb, flag, tim2Vars, pool, mixed>>

Ports == {DemoPort, OtherPort}
Peers == [ip : Hosts, port : Ports]

NoPcb == [local |-> None, ip |-> None, port |-> None, recv |-> FALSE]

Init == /\ mpc = "menu" /\ target = None /\ remoteip = Default
        /\ pcb = NoPcb /\ flag = FALSE
        /\ t = "off" /\ cnt = 0 /\ p = Null /\ h = Null /\ sent = None
        /\ pool = InitialPool /\ mixed = FALSE

-----------------------------------------------------------------------------
(***************************************************************************)
(* main: udp_demo_test.                                                    *)
(***************************************************************************)
Stay == UNCHANGED <<tim2Vars, pool, mixed>>

\* udp_demo_set_remoteip; without memory the old address stays.
SetRemoteIp == /\ mpc = "menu"
               /\ mpc' = "buffer"
               /\ remoteip' \in {remoteip, Chosen}
               /\ UNCHANGED <<pcb, target, flag>> /\ Stay

\* The buffer for the texts; without memory the session is over.
Buffer == /\ mpc = "buffer"
          /\ mpc' \in {"menu", "new"}
          /\ UNCHANGED <<remoteip, pcb, target, flag>> /\ Stay

\* udp_new, and udp_connect as far as binding to a free port.
New == /\ mpc = "new"
       /\ pcb' = [NoPcb EXCEPT !.local = OtherPort]
       /\ mpc' = "connect"
       /\ UNCHANGED <<remoteip, target, flag>> /\ Stay

Connect == /\ mpc = "connect"
           /\ pcb' = [pcb EXCEPT !.ip = remoteip, !.port = DemoPort]
           /\ target' = [ip |-> remoteip, port |-> DemoPort]
           /\ mpc' = "bind"
           /\ UNCHANGED <<remoteip, flag>> /\ Stay

Bind == /\ mpc = "bind"
        /\ pcb' = [pcb EXCEPT !.local = DemoPort]
        /\ mpc' = "recv"
        /\ UNCHANGED <<remoteip, target, flag>> /\ Stay

Recv == /\ mpc = "recv"
        /\ pcb' = [pcb EXCEPT !.recv = TRUE]
        /\ mpc' = "start"
        /\ UNCHANGED <<remoteip, target, flag>> /\ Stay

\* TIM2_Int_Init
Start == /\ mpc = "start"
         /\ t' = "idle"
         /\ mpc' = "loop"
         /\ UNCHANGED <<remoteip, pcb, target, flag, cnt, p, h, sent, pool, mixed>>

\* The loop: bit 6 is seen and cleared.  It scans no key and does not end.
Notice == /\ mpc = "loop" /\ flag
          /\ flag' = FALSE
          /\ UNCHANGED <<mainVars, remoteip, pcb>> /\ Stay

Main == SetRemoteIp \/ Buffer \/ New \/ Connect \/ Bind \/ Recv \/ Start \/ Notice

-----------------------------------------------------------------------------
(***************************************************************************)
(* TIM2_IRQHandler                                                         *)
(***************************************************************************)
At(l, m) == t = l /\ t' = m /\ UNCHANGED <<mainVars, remoteip, pcb, flag, mixed>>

\* The sample is put into udp_demo_sendbuf, and memp_malloc reads the head.
Begin == /\ \/ pool.head # Null /\ At("idle", "next")
            \/ pool.head = Null /\ At("idle", "count")
         /\ p' = pool.head
         /\ UNCHANGED <<cnt, h, sent, pool>>

ReadNext == /\ At("next", "store")
            /\ h' = pool.next[p]
            /\ UNCHANGED <<cnt, p, sent, pool>>

StoreHead == /\ At("store", "send")
             /\ pool' = [pool EXCEPT !.head = h]
             /\ UNCHANGED <<cnt, p, h, sent>>

\* pbuf_alloc completes the pbuf and udp_send sends it to the address and the
\* port the control block has at that time.
Send == /\ At("send", "free")
        /\ pool' = [pool EXCEPT !.next[p] = Null, !.ref[p] = 1]
        /\ sent' = [from |-> pcb.local, to |-> [ip |-> pcb.ip, port |-> pcb.port]]
        /\ UNCHANGED <<cnt, p, h>>

\* pbuf_free, as far as memp_free's store of the link.
Free == /\ \/ /\ At("free", "push") /\ pool.ref[p] = 1
              /\ pool' = [pool EXCEPT !.ref[p] = 0, !.next[p] = pool.head]
           \/ /\ At("free", "count") /\ pool.ref[p] # 1
              /\ pool' = ReleaseOne(pool, p)
        /\ UNCHANGED <<cnt, p, h, sent>>

Push == /\ At("push", "count")
        /\ pool' = [pool EXCEPT !.head = p]
        /\ UNCHANGED <<cnt, p, h, sent>>

Count == /\ At("count", "idle")
         /\ cnt' = (cnt + 1) % NSamples
         /\ UNCHANGED <<p, h, sent, pool>>

Tim2 == Begin \/ ReadNext \/ StoreHead \/ Send \/ Free \/ Push \/ Count

-----------------------------------------------------------------------------
(***************************************************************************)
(* The Ethernet interrupt                                                  *)
(***************************************************************************)

\* Mutant: udp_input compares the ports alone.
MutMatchesPorts(peer, port) == pcb.local = port /\ pcb.port = peer.port

\* udp_input hands the session what comes from where it is connected to.
Matches(peer, port) ==
  pcb.local = port /\ pcb.port = peer.port /\ pcb.ip = peer.ip

\* udp_demo_recv writes the sender into the control block and lwipdev.
Deliver(peer, port) ==
  IF pcb.recv /\ Matches(peer, port)
    THEN /\ pcb' = [pcb EXCEPT !.ip = peer.ip, !.port = peer.port]
         /\ remoteip' = peer.ip
         /\ flag' = TRUE
    ELSE UNCHANGED <<pcb, remoteip, flag>>

InFreeList == t \in {"next", "store", "push"}

\* A frame of n pbufs; a datagram when the pool had them.
Frame(n, peer, port) ==
  /\ pool' = TakeAndRelease(pool, n)
  /\ mixed' = (mixed \/ (InFreeList /\ n > 1))
  /\ IF TakeChain(pool, n).ok THEN Deliver(peer, port)
                              ELSE UNCHANGED <<pcb, remoteip, flag>>
  /\ UNCHANGED <<mainVars, tim2Vars>>

Eth == \E n \in 1 .. Long, peer \in Peers, port \in Ports : Frame(n, peer, port)

Next == Main \/ Tim2 \/ Eth

\* TIM2 comes each millisecond and its handler goes on; nobody has to press
\* the key that starts the session.
Spec == Init /\ [][Next]_vars /\ WF_vars(Tim2)

-----------------------------------------------------------------------------
TypeOK ==
  /\ mpc \in {"menu", "buffer", "new", "connect", "bind", "recv", "start", "loop"}
  /\ target \in Peers \cup {None} /\ remoteip \in Hosts /\ flag \in BOOLEAN
  /\ pcb \in [local : Ports \cup {None}, ip : Hosts \cup {None},
              port : Ports \cup {None}, recv : BOOLEAN]
  /\ t \in {"off", "idle", "next", "store", "send", "free", "push", "count"}
  /\ cnt \in 0 .. NSamples - 1
  /\ p \in Pbufs \cup {Null} /\ h \in Pbufs \cup {Null}
  /\ sent = None \/ sent \in [from : Ports, to : Peers]
  /\ pool \in Pools /\ mixed \in BOOLEAN

\* The pbuf TIM2 has taken from the list.
Held == IF t \in {"send", "free", "push"} THEN {p} ELSE {}

\* The pool: every pbuf is either free or TIM2's, although the Ethernet
\* interrupt allocates and frees in the middle of TIM2's accesses - as long as
\* no frame of several pbufs comes in such a moment.  Frames of one pbuf leave
\* the list as they found it.
PoolSound == /\ TypeOK
             /\ ~mixed => /\ FreeList(pool) \cup Held = Pbufs
                          /\ FreeList(pool) \cap Held = {}

\* The telemetry leaves from the bound port to the address udp_connect was
\* given, although the callback writes the sender of any datagram it gets into
\* the control block TIM2 sends with.
SentToTarget == sent # None => sent = [from |-> DemoPort, to |-> target]

\* Once the session runs, samples are sent for ever, as long as no frame of
\* several pbufs upsets the pool.
SendsForEver == mpc = "loop" ~> mixed \/ t = "free"
=============================================================================
