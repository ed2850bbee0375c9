-------------------------------- MODULE Dhcp --------------------------------
(***************************************************************************)
(* How the interface gets its address: lwip_periodic_handle and            *)
(* lwip_dhcp_process_handle in main, lwIP's DHCP client under them, and    *)
(* the Ethernet interrupt in which the server's answers and ARP replies    *)
(* reach the same client.                                                  *)
(*                                                                         *)
(* The interrupt is one step.  Main's steps are cut where the interrupt    *)
(* could change what main goes on to use: between the test of a timer and  *)
(* the test of the state, between building a message in dhcp->p_out and    *)
(* sending it, between the reads of the address, the netmask and the       *)
(* gateway.  A message built by the interrupt while main is building one   *)
(* takes main's away (dhcp_create_msg overwrites p_out, dhcp_delete_msg    *)
(* clears it), and main goes on writing through a null pointer: the model  *)
(* stops there ("fault").                                                  *)
(*                                                                         *)
(* A request_timeout is armed or not; how many ticks it counts is left     *)
(* open, as is the time a message takes.  Each first message of a state    *)
(* has a new transaction id, so what the server may still answer is the    *)
(* set of messages sent under the present one: asked.  A lease stands for  *)
(* the address, the netmask and the gateway that come with it.             *)
(*                                                                         *)
(* Main may leave the timers alone as long as it likes, once it has an     *)
(* address: KEY1 leads to the screen that asks for the remote address,     *)
(* whose loop waits for KEY_UP and calls nothing else ("ask").             *)
(*                                                                         *)
(* DHCP_REBOOTING is left out: only dhcp_network_changed leads to it, and  *)
(* nothing in the program calls netif_set_link_up.                         *)
(***************************************************************************)
EXTENDS Integers

CONSTANTS Leases,    \* what the server may grant
          Renew,     \* offered_t1_renew of a lease, in coarse ticks, or Forever
          Rebind,    \* offered_t2_rebind of a lease, likewise
          Static,    \* the configuration lwip_comm_default_ip_set leaves
          None,      \* the address 0.0.0.0
          U8, U16,   \* the moduli of the counters: 2^8 and 2^16
          MaxFail    \* bound: failures of pbuf_alloc

Forever == U16     \* 0xffffffff seconds, a lease without end

ASSUME DhcpAssumption ==
          /\ Static \notin Leases /\ None \notin Leases /\ None # Static
          /\ U8 \in Nat /\ U8 > 9
          /\ U16 \in Nat /\ U16 > 2
          /\ Renew \in [Leases -> 0 .. U16] /\ Rebind \in [Leases -> 0 .. U16]
          /\ MaxFail \in Nat

MaxTries == 4      \* LWIP_MAX_DHCP_TRIES
Configs  == Leases \cup {Static, None}
Kinds    == {"discover", "select", "renew", "rebind", "release"}
States   == {"OFF", "SELECTING", "REQUESTING", "CHECKING", "BOUND",
             "RENEWING", "REBINDING", "BACKING_OFF"}

VARIABLES pc,      \* where main is
          caller,  \* what main serves: a timer, dhcp_start or nothing
          msg,     \* the message it builds
          reg,     \* the address and netmask it has read
          status,  \* lwipdev.dhcpstatus: 0, 1, 2 or 0xFF
          shown,   \* lwipdev.ip, netmask and gateway
          st, tries, armed, off, pcb, pOut,   \* struct dhcp
          t1, t2,  \* t1_timeout and t2_timeout
          asked,   \* messages sent under the present transaction id
          ifc, up, \* the interface's configuration and its UP flag
          fails,   \* allocations that have failed
          nakked,  \* has a NAK been handled while main waits
          badOffer,\* has an OFFER without a server id, likewise
          declined \* [lease |-> the last lease declined since its ACK,
                   \*  late |-> was it declined when main had seen CHECKING]

mainVars   == <<pc, caller, msg, reg>>
appVars    == <<status, shown>>
clientVars == <<st, tries, armed, off, pcb, pOut, t1, t2, asked>>
ifcVars    == <<ifc, up>>
histVars   == <<fails, nakked, badOffer, declined>>
vars == <<mainVars, appVars, clientVars, ifcVars, histVars>>

NoReg      == [ip |-> None, mask |-> None]
All(c)     == [ip |-> c, mask |-> c, gw |-> c]
Undeclined == [lease |-> None, late |-> FALSE]

(***************************************************************************)
(* lwip_comm_init has added the interface, started the client a first time *)
(* and brought the interface up.                                           *)
(***************************************************************************)
Init == /\ pc = "idle" /\ caller = "none" /\ msg = "none"
        /\ reg = NoReg
        /\ status = "start" /\ shown = All(Static)
        /\ st = "SELECTING" /\ tries = 1 /\ armed = TRUE
        /\ off = None /\ pcb = TRUE /\ pOut = FALSE
        /\ t1 = 0 /\ t2 = 0 /\ asked = {"discover"}
        /\ ifc = All(None) /\ up = TRUE
        /\ fails = 0 /\ nakked = FALSE /\ badOffer = FALSE
        /\ declined = Undeclined

Configured == status \in {"leased", "static"}

StateOf(k) == CASE k = "discover" -> "SELECTING"
                [] k = "select"   -> "REQUESTING"
                [] k = "renew"    -> "RENEWING"
                [] k = "rebind"   -> "REBINDING"
                [] k = "release"  -> "OFF"

Asks(k) == CASE k = "discover" -> {"discover"}
             [] k = "release"  -> {}
             [] OTHER          -> {"request"}

\* Mutant: tries is cleared even if the state stays.
MutTriesInCleared(s) == 0

\* dhcp_set_state: a change of state clears tries and request_timeout.
TriesIn(s) == IF st = s THEN tries ELSE 0
ArmedIn(s) == st = s /\ armed
More(n)    == (n + 1) % U8

\* The fine tick is over; before the address is known main looks for it.
AfterFine == IF Configured THEN "idle" ELSE "handle"

-----------------------------------------------------------------------------
(***************************************************************************)
(* dhcp_fine_tmr                                                           *)
(***************************************************************************)
Count ==     \* not armed, or still counting
  /\ pc = "idle"
  /\ pc' = AfterFine
  /\ UNCHANGED <<caller, msg, reg, appVars, clientVars, ifcVars, histVars>>

Expire ==
  /\ pc = "idle" /\ armed
  /\ armed' = FALSE
  /\ caller' = "fine" /\ pc' = "expired"
  /\ UNCHANGED <<msg, reg, appVars, st, tries, off, pcb, pOut, t1, t2, asked,
                 ifcVars, histVars>>

FineTmr == Count \/ Expire

\* Mutant: an offer that is not acknowledged is released too early.
MutResendReleases ==
  CASE st \in {"BACKING_OFF", "SELECTING"} -> "discover"
    [] st = "REQUESTING" -> IF tries <= 3 THEN "select" ELSE "release"
    [] st = "RENEWING"   -> "renew"
    [] st = "REBINDING"  -> IF tries <= 8 THEN "rebind" ELSE "release"
    [] OTHER             -> "none"

\* Mutant: a lease is asked for again without end.
MutResendRebinds ==
  CASE st \in {"BACKING_OFF", "SELECTING"} -> "discover"
    [] st = "REQUESTING" -> IF tries <= 5 THEN "select" ELSE "release"
    [] st = "RENEWING"   -> "renew"
    [] st = "REBINDING"  -> "rebind"
    [] OTHER             -> "none"

\* Which message dhcp_timeout sends, if it sends one.
Resend ==
  CASE st \in {"BACKING_OFF", "SELECTING"} -> "discover"
    [] st = "REQUESTING" -> IF tries <= 5 THEN "select" ELSE "release"
    [] st = "RENEWING"   -> "renew"
    [] st = "REBINDING"  -> IF tries <= 8 THEN "rebind" ELSE "release"
    [] OTHER             -> "none"

DhcpTimeout ==
  /\ pc = "expired"
  /\ \/ /\ Resend # "none"
        /\ pc' = "build" /\ msg' = Resend /\ UNCHANGED caller
     \/ /\ st = "CHECKING"
        /\ pc' = IF tries <= 1 THEN "check" ELSE "bind"
        /\ UNCHANGED <<caller, msg>>
     \/ /\ st \in {"OFF", "BOUND"}
        /\ pc' = AfterFine /\ caller' = "none" /\ UNCHANGED msg
  /\ UNCHANGED <<reg, appVars, clientVars, ifcVars, histVars>>

(***************************************************************************)
(* dhcp_coarse_tmr: t2_timeout-- and t1_timeout-- run on below 0, and so   *)
(* come to 1 again after 2^16 minutes.  Bound: the wait for the first      *)
(* address is shorter than that.                                           *)
(***************************************************************************)

Down(t) == IF t = 0 /\ ~Configured THEN 0 ELSE (t - 1) % U16

CoarseTmr ==
  /\ pc = "idle"
  /\ t2' = Down(t2)
  /\ t1' = IF t2 = 1 THEN t1 ELSE Down(t1)
  /\ IF (t2 = 1 \/ t1 = 1) /\ st \in {"REQUESTING", "BOUND", "RENEWING"}
       THEN /\ pc' = "build" /\ caller' = "coarse"
            /\ msg' = IF t2 = 1 THEN "rebind" ELSE "renew"
       ELSE UNCHANGED <<pc, caller, msg>>
  /\ UNCHANGED <<reg, appVars, st, tries, armed, off, pcb, pOut, asked,
                 ifcVars, histVars>>

-----------------------------------------------------------------------------
(***************************************************************************)
(* dhcp_discover, dhcp_select, dhcp_renew, dhcp_rebind and dhcp_release in *)
(* main: the state is set and the message created, then it is sent.        *)
(***************************************************************************)

\* What follows in the caller once the message is sent or given up.
Finished ==
  /\ armed' = TRUE
  /\ IF msg = "release"
       THEN /\ ifc' = All(None) /\ up' = FALSE
            /\ msg' = "discover" /\ pc' = "build" /\ UNCHANGED caller
       ELSE /\ pc' = IF caller = "fine" THEN AfterFine ELSE "idle"
            /\ caller' = "none" /\ msg' = "none"
            /\ UNCHANGED <<ifc, up>>
  /\ status' = IF caller = "start" THEN "wait" ELSE status

\* dhcp_start gives the client up when its DISCOVER cannot be built.
Stopped == /\ pcb' = FALSE /\ st' = "OFF" /\ tries' = 0 /\ armed' = FALSE
           /\ pc' = "idle" /\ caller' = "none" /\ msg' = "none"
           /\ status' = "wait"
           /\ UNCHANGED <<ifc, up>>

Create ==
  LET s == StateOf(msg) IN
  /\ st' = s /\ tries' = TriesIn(s) /\ armed' = ArmedIn(s)
  /\ asked' = IF TriesIn(s) = 0 THEN {} ELSE asked
  /\ pOut' = TRUE
  /\ pc' = "send"
  /\ UNCHANGED <<caller, msg, status, pcb, ifc, up, fails>>

CreateFails ==
  /\ fails < MaxFail
  /\ fails' = fails + 1
  /\ pOut' = FALSE
  /\ UNCHANGED asked
  /\ \/ /\ caller = "start" /\ Stopped
     \/ /\ caller # "start"
        /\ st' = StateOf(msg) /\ tries' = More(TriesIn(StateOf(msg)))
        /\ Finished /\ UNCHANGED pcb

Build ==
  /\ pc = "build"
  /\ off' = IF msg \in {"discover", "release"} THEN None ELSE off
  /\ Create \/ CreateFails
  /\ UNCHANGED <<reg, shown, t1, t2, nakked, badOffer, declined>>

Send ==
  /\ pc = "send" /\ pOut
  /\ pOut' = FALSE
  /\ asked' = asked \cup Asks(msg)
  /\ tries' = More(tries)
  /\ Finished
  /\ UNCHANGED <<reg, shown, st, off, pcb, t1, t2, histVars>>

\* The interrupt has cleared p_out and msg_out; main writes through them.
SendNothing ==
  /\ pc = "send" /\ ~pOut
  /\ pc' = "fault"
  /\ UNCHANGED <<caller, msg, reg, appVars, clientVars, ifcVars, histVars>>

\* Mutant: no request_timeout for the second query.
MutCheckNoTimer ==
  /\ pc = "check"
  /\ st' = "CHECKING" /\ tries' = More(TriesIn("CHECKING"))
  /\ armed' = ArmedIn("CHECKING")
  /\ pc' = AfterFine /\ caller' = "none"
  /\ UNCHANGED <<msg, reg, appVars, off, pcb, pOut, t1, t2, asked, ifcVars,
                 histVars>>

\* dhcp_check, which asks the network once more for the offered address.
Check ==
  /\ pc = "check"
  /\ st' = "CHECKING" /\ tries' = More(TriesIn("CHECKING")) /\ armed' = TRUE
  /\ pc' = AfterFine /\ caller' = "none"
  /\ UNCHANGED <<msg, reg, appVars, off, pcb, pOut, t1, t2, asked, ifcVars,
                 histVars>>

\* The u16 timer of a lease; a lease without end leaves the old one.
Timer(term, old) == IF term = Forever THEN old
                    ELSE IF term = 0 THEN 1 ELSE term

DhcpBind ==
  /\ t2' = IF off = None THEN t2 ELSE Timer(Rebind[off], t2)
  /\ t1' = LET new == IF off = None THEN t1 ELSE Timer(Renew[off], t1)
           IN  IF new >= t2' /\ t2' > 0 THEN 0 ELSE new
  /\ ifc' = All(off) /\ up' = TRUE
  /\ st' = "BOUND"
  /\ tries' = TriesIn("BOUND") /\ armed' = ArmedIn("BOUND")

Bind ==
  /\ pc = "bind"
  /\ DhcpBind
  /\ pc' = AfterFine /\ caller' = "none"
  /\ UNCHANGED <<msg, reg, appVars, off, pcb, pOut, asked, histVars>>

-----------------------------------------------------------------------------
(***************************************************************************)
(* lwip_dhcp_process_handle                                                *)
(***************************************************************************)

\* Status 0: dhcp_start, which clears the client and begins again.
Restart ==
  /\ pc = "handle" /\ status = "start"
  /\ st' = "OFF" /\ tries' = 0 /\ armed' = FALSE /\ off' = None
  /\ t1' = 0 /\ t2' = 0 /\ asked' = {} /\ pOut' = FALSE
  /\ pc' = "build" /\ caller' = "start" /\ msg' = "discover"
  /\ UNCHANGED <<reg, appVars, pcb, ifcVars, histVars>>

ReadIp ==
  /\ pc = "handle" /\ status = "wait"
  /\ reg' = [reg EXCEPT !.ip = ifc.ip]
  /\ pc' = "mask"
  /\ UNCHANGED <<caller, msg, appVars, clientVars, ifcVars, histVars>>

ReadMask ==
  /\ pc = "mask"
  /\ reg' = [reg EXCEPT !.mask = ifc.mask]
  /\ pc' = "gw"
  /\ UNCHANGED <<caller, msg, appVars, clientVars, ifcVars, histVars>>

\* The wait is over.
Settled == /\ nakked' = FALSE /\ badOffer' = FALSE
           /\ UNCHANGED <<fails, declined>>

\* The gateway is read and the address read before is tested.
Found ==
  /\ pc = "gw" /\ reg.ip # None
  /\ status' = "leased"
  /\ shown' = [ip |-> reg.ip, mask |-> reg.mask, gw |-> ifc.gw]
  /\ reg' = NoReg /\ pc' = "idle"
  /\ Settled
  /\ UNCHANGED <<caller, msg, clientVars, ifcVars>>

GiveUp ==
  /\ pc = "gw" /\ reg.ip = None /\ tries > MaxTries
  /\ status' = "static"
  /\ ifc' = [ifc EXCEPT !.ip = shown.ip]
  /\ reg' = NoReg /\ pc' = "rest"
  /\ Settled
  /\ UNCHANGED <<caller, msg, shown, clientVars, up>>

SetRest ==
  /\ pc = "rest"
  /\ ifc' = [shown EXCEPT !.ip = ifc.ip]
  /\ pc' = "idle"
  /\ UNCHANGED <<caller, msg, reg, appVars, clientVars, up, histVars>>

KeepWaiting ==
  /\ pc = "gw" /\ reg.ip = None /\ tries <= MaxTries
  /\ reg' = NoReg /\ pc' = "idle"
  /\ UNCHANGED <<caller, msg, appVars, clientVars, ifcVars, histVars>>

Handle == \/ Restart \/ ReadIp \/ ReadMask \/ Found \/ GiveUp \/ SetRest
          \/ KeepWaiting

-----------------------------------------------------------------------------
\* KEY1: tcp_client_set_remoteip; the client goes on in the interrupt alone.
Ask ==
  /\ pc = "idle" /\ Configured
  /\ pc' = "ask"
  /\ UNCHANGED <<caller, msg, reg, appVars, clientVars, ifcVars, histVars>>

\* KEY_UP
Answer ==
  /\ pc = "ask"
  /\ pc' = "idle"
  /\ UNCHANGED <<caller, msg, reg, appVars, clientVars, ifcVars, histVars>>

-----------------------------------------------------------------------------
(***************************************************************************)
(* The Ethernet interrupt: dhcp_recv and dhcp_arp_reply.                   *)
(***************************************************************************)

\* An answer to message k gets through to the client.
Heard(k) == pc # "fault" /\ pcb /\ k \in asked

\* The interrupt sets state s and sends a message that the server answers
\* as it does those in k, or fails to allocate it.
IsrSend(s, k) ==
  /\ st' = s /\ tries' = More(TriesIn(s)) /\ armed' = TRUE
  /\ pOut' = FALSE
  /\ \/ /\ asked' = (IF TriesIn(s) = 0 THEN {} ELSE asked) \cup k
        /\ UNCHANGED fails
     \/ /\ fails < MaxFail /\ fails' = fails + 1
        /\ UNCHANGED asked

Offer(l) ==
  /\ Heard("discover") /\ st = "SELECTING"
  /\ off' = l
  /\ IsrSend("REQUESTING", {"request"})
  /\ UNCHANGED <<mainVars, appVars, pcb, t1, t2, ifcVars, nakked, badOffer,
                 declined>>

\* request_timeout is cleared before the server id is looked for.
OfferWithoutId ==
  /\ Heard("discover") /\ st = "SELECTING"
  /\ armed' = FALSE /\ badOffer' = ~Configured
  /\ UNCHANGED <<mainVars, appVars, st, tries, off, pcb, pOut, t1, t2, asked,
                 ifcVars, fails, nakked, declined>>

\* An ACK of the first request: dhcp_handle_ack and dhcp_check.
AckRequest(l) ==
  /\ Heard("request") /\ st = "REQUESTING"
  /\ off' = l
  /\ st' = "CHECKING" /\ tries' = More(TriesIn("CHECKING")) /\ armed' = TRUE
  /\ declined' = IF declined.lease = l THEN Undeclined ELSE declined
  /\ UNCHANGED <<mainVars, appVars, pcb, pOut, t1, t2, asked, ifcVars, fails,
                 nakked, badOffer>>

AckRenewal ==
  /\ Heard("request") /\ st \in {"REBINDING", "RENEWING"}
  /\ DhcpBind
  /\ declined' = IF declined.lease = off THEN Undeclined ELSE declined
  /\ UNCHANGED <<mainVars, appVars, off, pcb, pOut, asked, fails, nakked,
                 badOffer>>

\* Mutant: a NAK is taken in any state.
MutNakAnyState ==
  /\ Heard("request")
  /\ ifc' = All(None) /\ up' = FALSE
  /\ off' = None
  /\ IsrSend("SELECTING", {"discover"})
  /\ nakked' = ~Configured
  /\ UNCHANGED <<mainVars, appVars, pcb, t1, t2, badOffer, declined>>

\* dhcp_handle_nak takes the address away and discovers again.
Nak ==
  /\ Heard("request") /\ st \in {"REQUESTING", "REBINDING", "RENEWING"}
  /\ ifc' = All(None) /\ up' = FALSE
  /\ off' = None
  /\ IsrSend("SELECTING", {"discover"})
  /\ nakked' = ~Configured
  /\ UNCHANGED <<mainVars, appVars, pcb, t1, t2, badOffer, declined>>

\* Mutant: the DECLINE is sent but the state stays.
MutArpReplyStays ==
  /\ pc # "fault" /\ st = "CHECKING"
  /\ IsrSend("CHECKING", {})
  /\ declined' = [lease |-> off, late |-> pc \in {"check", "bind"}]
  /\ UNCHANGED <<mainVars, appVars, off, pcb, t1, t2, ifcVars, nakked, badOffer>>

\* Another host answers for the offered address: dhcp_decline.
ArpReply ==
  /\ pc # "fault" /\ st = "CHECKING"
  /\ IsrSend("BACKING_OFF", {})   \* a DECLINE is not answered
  /\ declined' = [lease |-> off, late |-> pc \in {"check", "bind"}]
  /\ UNCHANGED <<mainVars, appVars, off, pcb, t1, t2, ifcVars, nakked, badOffer>>

Ack     == AckRenewal \/ \E l \in Leases : AckRequest(l)
Refusal == Nak \/ ArpReply

-----------------------------------------------------------------------------
Main == DhcpTimeout \/ Build \/ Send \/ SendNothing \/ Check \/ Bind \/ Handle

Interrupt == \/ \E l \in Leases : Offer(l)
             \/ OfferWithoutId \/ Ack \/ Refusal

Next == FineTmr \/ CoarseTmr \/ Main \/ Ask \/ Answer \/ Interrupt

(***************************************************************************)
(* Each timer is served again and again unless main stays at "ask" for     *)
(* ever (ServedForEver of Periodic): a pass follows whenever main comes    *)
(* back from there, but nothing makes it come back.  A countdown that      *)
(* nothing restarts reaches its end.                                       *)
(***************************************************************************)
Spec == Init /\ [][Next]_vars
        /\ SF_vars(FineTmr) /\ SF_vars(Expire) /\ SF_vars(CoarseTmr)
        /\ WF_vars(Main)

-----------------------------------------------------------------------------
TypeOK ==
  /\ pc \in {"idle", "expired", "build", "send", "check", "bind", "handle",
             "mask", "gw", "rest", "ask", "fault"}
  /\ caller \in {"fine", "coarse", "start", "none"}
  /\ msg \in Kinds \cup {"none"}
  /\ reg \in [ip : Configs, mask : Configs]
  /\ status \in {"start", "wait", "leased", "static"}
  /\ shown \in [ip : Configs, mask : Configs, gw : Configs]
  /\ st \in States /\ tries \in 0 .. U8 - 1 /\ armed \in BOOLEAN
  /\ off \in Leases \cup {None}
  /\ pcb \in BOOLEAN /\ pOut \in BOOLEAN
  /\ t1 \in 0 .. U16 - 1 /\ t2 \in 0 .. U16 - 1
  /\ asked \subseteq {"discover", "request"}
  /\ ifc \in [ip : Configs, mask : Configs, gw : Configs]
  /\ up \in BOOLEAN
  /\ fails \in 0 .. MaxFail /\ nakked \in BOOLEAN /\ badOffer \in BOOLEAN
  /\ declined \in [lease : Leases \cup {None}, late : BOOLEAN]

\* What the screen shows is one configuration, never the address of one and
\* the netmask or gateway of another, though lwip_dhcp_process_handle reads
\* the three one after another while the interrupt may bind or take away.
ShownWhole == shown.ip # None /\ shown = All(shown.ip)

\* While main waits for an address the client's timer runs, so that tries
\* can reach its limit.  It stops only when dhcp_start could not build its
\* DISCOVER or an OFFER came without a server id (dhcp_recv disarms first).
TimerDead == pc = "idle" /\ status = "wait" /\ ~armed /\ ifc.ip = None
TimerKept == TimerDead => ~pcb \/ badOffer

\* An address another host has answered for is not brought into use before
\* the server grants it again, unless the ARP reply came when dhcp_timeout had
\* seen DHCP_CHECKING and was about to check again or to bind.
DeclinedNotUsed == ifc.ip = declined.lease /\ ifc.ip # None => declined.late

\* "DHCP timed out, using the static address" (lwip_comm.c:250): the fall-back
\* to the static address finds the interface up, unless a NAK has taken it
\* down: main gives up after LWIP_MAX_DHCP_TRIES, before dhcp_timeout would
\* release the offer and take the interface down itself.
FallBackUp == [][status # "static" /\ status' = "static" => up' \/ nakked]_vars

\* An answer that reaches the client while main is inside it.
Intrusion == Interrupt /\ pc \in {"expired", "build", "send", "check"}

\* main's wait for an address ends, once the network stops refusing what the
\* server offers (NAK or address in use) and answers come between main's calls
\* of the client and not within them, if the client's timer is kept.
WaitEnds == <>[][~Refusal /\ ~Intrusion]_vars =>
                <>(Configured \/ TimerDead \/ pc = "fault")

\* A lease the server no longer confirms is given up, unless main waits for ever
\* at the remote address: there its timers stand still and it stays in use
\* (tcp_client_demo.c:47-57).
LeaseEnds == <>[][~Ack]_vars => \/ <>[](ifc.ip \notin Leases \/ pc = "fault")
                                \/ <>[](pc = "ask")
=============================================================================
