------------------------------ MODULE TcpClient ------------------------------
(***************************************************************************)
(* The TCP client session (tcp_client_test and its callbacks) against the  *)
(* control blocks lwIP allocates and frees.  Two actors: main, which opens *)
(* a connection, retries it every Period turns of its loop and closes it,  *)
(* and the Ethernet interrupt, in which lwIP runs the segments of the peer *)
(* and calls the client back.  The interrupt is one step, since it runs to *)
(* its end before main goes on; main's steps are as long as what they      *)
(* touch allows.                                                           *)
(*                                                                         *)
(* Control blocks come from a pool of lwIP whose free list is threaded     *)
(* through the first word of the free elements; in an allocated block that *)
(* word is local_ip.  A block freed twice therefore has an effect, and     *)
(* which one is modelled.  Time-outs of lwIP itself are left out: a SYN is *)
(* given up after 6 retransmissions of 3 s, but the retry comes each 0.4 s,*)
(* and the client sends no data.                                           *)
(*                                                                         *)
(* The structure each connection allocates is never released: every call   *)
(* of tcp_client_connection_close passes none.  esUsed counts them.        *)
(***************************************************************************)
EXTENDS Naturals

CONSTANTS NPcbs,    \* elements of the pool (MEMP_NUM_TCP_PCB)
          Period,   \* turns of the loop between two retries (200)
          NEs       \* tcp_client_structs lwIP's heap can hold

ASSUME TcpAssumption == /\ NPcbs \in Nat \ {0}
                        /\ Period \in Nat \ {0}
                        /\ NEs \in Nat

Pcbs    == 1 .. NPcbs
NULL    == 0
LocalIp == NPcbs + 1      \* the interface's address, read as a pointer
Words   == Pcbs \cup {NULL, LocalIp}
Flags   == {"conn", "data"}     \* bits 5 and 6 of tcp_client_flag

VARIABLES pc,        \* where main is
          t,         \* turns of the loop since the last retry
          connflag,  \* has the loop shown "Connected"
          flag,      \* tcp_client_flag
          reg,       \* what main read from it to write it back
          tcppcb,    \* the client's control block
          state,     \* of each block
          active,    \* the blocks on tcp_active_pcbs
          tab,       \* memp_tab[MEMP_TCP_PCB], the head of the free list
          word,      \* the first word of each block
          esUsed,    \* tcp_client_structs allocated
          resets,    \* is the peer one that refuses and resets connections
          ample      \* is the heap taken never to be used up

loopVars == <<t, connflag, reg>>
pcbVars  == <<state, active, tab, word>>
envVars  == <<esUsed, resets, ample>>
vars     == <<pc, loopVars, flag, tcppcb, pcbVars, envVars>>

\* memp_init leaves each element in front of the one before it.
Init == /\ pc = "menu" /\ t = 0 /\ connflag = FALSE
        /\ flag = {} /\ reg = {} /\ tcppcb = NULL
        /\ state = [q \in Pcbs |-> "CLOSED"]
        /\ active = {}
        /\ tab = NPcbs
        /\ word = [q \in Pcbs |-> q - 1]
        /\ esUsed = 0
        /\ resets \in BOOLEAN /\ ample \in BOOLEAN

-----------------------------------------------------------------------------
(* lwIP                                                                    *)

\* Fault: the block stays on the list of active ones.
MutPcbFree(q) == /\ state' = [state EXCEPT ![q] = "CLOSED"]
                 /\ word' = [word EXCEPT ![q] = tab]
                 /\ tab' = q
                 /\ UNCHANGED active

\* tcp_pcb_remove and memp_free: nothing tells them the block is free already.
PcbFree(q) == /\ state' = [state EXCEPT ![q] = "CLOSED"]
              /\ active' = active \ {q}
              /\ word' = [word EXCEPT ![q] = tab]
              /\ tab' = q

\* tcp_new takes the head of the free list and zeroes it.  PcbAvailable shows
\* that it never has to look further.
TcpNew == /\ tab \in Pcbs
          /\ tcppcb' = tab
          /\ tab' = word[tab]
          /\ word' = [word EXCEPT ![tab] = NULL]
          /\ state' = [state EXCEPT ![tab] = "CLOSED"]
          /\ UNCHANGED active

-----------------------------------------------------------------------------
(* The peer's segments, in the Ethernet interrupt.  A segment for a        *)
(* connection that is not on the list of active blocks is answered with a  *)
(* reset and changes nothing.                                              *)

\* The answer to the SYN: tcp_client_connected.  Without memory for its
\* structure it aborts the block, and tcp_input goes on with it regardless.
SynAck ==
  \E q \in active :
    /\ state[q] = "SYN_SENT"
    /\ IF ample \/ esUsed < NEs
         THEN /\ state' = [state EXCEPT ![q] = "ESTABLISHED"]
              /\ esUsed' = IF esUsed < NEs THEN esUsed + 1 ELSE esUsed
              /\ flag' = flag \cup {"conn"}
              /\ UNCHANGED <<active, tab, word>>
         ELSE /\ PcbFree(q)
              /\ flag' = flag \ {"conn"}
              /\ UNCHANGED esUsed
    /\ UNCHANGED <<pc, loopVars, tcppcb, resets, ample>>

\* tcp_client_recv with data.
Data == /\ \E q \in active : state[q] = "ESTABLISHED"
        /\ flag' = flag \cup {"data"}
        /\ UNCHANGED <<pc, loopVars, tcppcb, pcbVars, envVars>>

\* tcp_client_recv without data marks its structure CLOSING; nothing acts on
\* that mark, since tcp_client_poll is empty and nobody sends.
Fin == \E q \in active :
         /\ state[q] = "ESTABLISHED"
         /\ state' = [state EXCEPT ![q] = "CLOSE_WAIT"]
         /\ UNCHANGED <<pc, loopVars, flag, tcppcb, active, tab, word, envVars>>

\* tcp_input frees the block; the client's error callback, when one is set
\* already, does nothing.
Rst == /\ resets
       /\ \E q \in active : PcbFree(q)
       /\ UNCHANGED <<pc, loopVars, flag, tcppcb, envVars>>

Interrupt == SynAck \/ Data \/ Fin \/ Rst

-----------------------------------------------------------------------------
(* main                                                                    *)

GoTo(from, to) == pc = from /\ pc' = to

\* tcp_client_test: res, t and connflag are its locals, tcp_client_flag is not.
Start == /\ GoTo("menu", "new")
         /\ t' = 0 /\ connflag' = FALSE
         /\ UNCHANGED <<reg, flag, tcppcb, pcbVars, envVars>>

New == /\ GoTo("new", "connect")
       /\ TcpNew
       /\ UNCHANGED <<loopVars, flag, envVars>>

\* tcp_connect succeeds: the SYN is sent.
ConnectSends == /\ GoTo("connect", "loop")
                /\ t' = 0
                /\ word' = [word EXCEPT ![tcppcb] = LocalIp]
                /\ state' = [state EXCEPT ![tcppcb] = "SYN_SENT"]
                /\ active' = active \cup {tcppcb}
                /\ UNCHANGED <<connflag, reg, flag, tcppcb, tab, envVars>>

\* tcp_connect finds no route or no memory; its result is not looked at.
ConnectFails == /\ GoTo("connect", "loop")
                /\ t' = 0
                /\ \E w \in {NULL, LocalIp} : word' = [word EXCEPT ![tcppcb] = w]
                /\ UNCHANGED <<connflag, reg, flag, tcppcb, state, active, tab, envVars>>

\* KEY_UP leaves the loop.
Quit == /\ GoTo("loop", "quit_abort")
        /\ UNCHANGED <<loopVars, flag, tcppcb, pcbVars, envVars>>

\* tcp_client_flag &= ~(1<<6), when bit 6 is set, is a read and a write.
ReadFlag == /\ GoTo("loop", IF "data" \in flag THEN "write_flag" ELSE "status")
            /\ reg' = flag
            /\ UNCHANGED <<t, connflag, flag, tcppcb, pcbVars, envVars>>

WriteFlag == /\ GoTo("write_flag", "status")
             /\ flag' = reg \ {"data"}
             /\ UNCHANGED <<loopVars, tcppcb, pcbVars, envVars>>

Status == /\ GoTo("status", "tick")
          /\ connflag' = ("conn" \in flag)
          /\ UNCHANGED <<t, reg, flag, tcppcb, pcbVars, envVars>>

\* Fault: a retry is made for a connection that is up, and not for one that is
\* not.
MutTickInverted ==
  /\ GoTo("tick", IF t + 1 = Period /\ connflag THEN "abort" ELSE "loop")
  /\ t' = IF t + 1 = Period THEN 0 ELSE t + 1
  /\ UNCHANGED <<connflag, reg, flag, tcppcb, pcbVars, envVars>>

Tick == LET retry == t + 1 = Period /\ ~ connflag /\ "conn" \notin flag
        IN  /\ GoTo("tick", IF retry THEN "abort" ELSE "loop")
            /\ t' = IF t + 1 = Period THEN 0 ELSE t + 1
            /\ UNCHANGED <<connflag, reg, flag, tcppcb, pcbVars, envVars>>

\* tcp_client_connection_close(tcppcb, 0): tcp_abort, then the callbacks are
\* cleared in the freed block, where they are not looked at again, then bit 5.
CloseAborts(from, to) == /\ GoTo(from, to)
                         /\ PcbFree(tcppcb)
                         /\ UNCHANGED <<loopVars, flag, tcppcb, envVars>>

\* Fault: bit 5 is left as it is.
MutCloseClears(from, to) == GoTo(from, to) /\ UNCHANGED <<loopVars, flag, tcppcb, pcbVars, envVars>>

CloseClears(from, to) == /\ GoTo(from, to)
                         /\ flag' = flag \ {"conn"}
                         /\ UNCHANGED <<loopVars, tcppcb, pcbVars, envVars>>

\* Fault: the retry opens a second connection beside the first.
MutRetryAborts == GoTo("abort", "clear") /\ UNCHANGED <<loopVars, flag, tcppcb, pcbVars, envVars>>

RetryAborts == CloseAborts("abort", "clear")
RetryClears == CloseClears("clear", "new")
QuitAborts  == CloseAborts("quit_abort", "quit_clear")
QuitClears  == CloseClears("quit_clear", "menu")

Loop == \/ New \/ ConnectSends \/ ConnectFails
        \/ ReadFlag \/ WriteFlag \/ Status \/ Tick
        \/ RetryAborts \/ RetryClears \/ QuitAborts \/ QuitClears

Next == Interrupt \/ Start \/ Quit \/ Loop

Spec == Init /\ [][Next]_vars

(* main runs; tcp_connect does not fail for ever; and the peer goes on      *)
(* listening, so that of attempts without end one is answered early, not   *)
(* each of them between the decision to retry and the abort.               *)
AnsweredEarly == SynAck /\ t = 0 /\ pc \in {"loop", "status"}

FairSpec == /\ Spec
            /\ WF_vars(Loop)
            /\ SF_vars(ConnectSends)
            /\ SF_vars(AnsweredEarly)

-----------------------------------------------------------------------------
(* Properties                                                              *)

Labels == {"menu", "new", "connect", "loop", "write_flag", "status", "tick",
           "abort", "clear", "quit_abort", "quit_clear"}

\* Types.  tcp_new never finds a word there that is not a pointer to a block.
TypeOK == /\ pc \in Labels
          /\ t \in 0 .. Period - 1 /\ connflag \in BOOLEAN
          /\ flag \subseteq Flags /\ reg \subseteq Flags
          /\ tcppcb \in Pcbs \cup {NULL}
          /\ state \in [Pcbs -> {"CLOSED", "SYN_SENT", "ESTABLISHED", "CLOSE_WAIT"}]
          /\ active \subseteq Pcbs
          /\ tab \in Words /\ word \in [Pcbs -> Words]
          /\ esUsed \in 0 .. NEs /\ resets \in BOOLEAN /\ ample \in BOOLEAN

\* What the client holds: a block between tcp_new and the next tcp_abort.
Held == IF pc \in {"menu", "new", "clear", "quit_clear"} THEN {} ELSE {tcppcb}

\* The free list, followed for as many links as there are elements.
FreeList[k \in 0 .. NPcbs] ==
  IF k = 0 THEN tab
  ELSE IF FreeList[k - 1] \in Pcbs THEN word[FreeList[k - 1]] ELSE NULL

\* The free list does not form a circle (memp_sanity).
MempSane == FreeList[NPcbs] = NULL

\* While lwIP frees no block behind the client's back, which it does after a
\* reset and the client itself does when its callback finds no memory, every
\* block of the pool is either on the free list, once, or the client's: the
\* retries, the quits and the failed connects of any number of sessions neither
\* lose one nor free one twice.
PoolAccounted ==
  ~ resets /\ ample => /\ MempSane
                       /\ {FreeList[k] : k \in 0 .. NPcbs} \ {NULL} = Pcbs \ Held

\* At most one connection exists, and it is the client's: none survives a
\* retry or the end of a session, where its callbacks would act on the next.
OneConnection == active \subseteq Held

\* When main asks for a control block there is one, also after the free list
\* was damaged by a block that was freed twice.
PcbAvailable == pc = "new" => tab \in Pcbs

\* With a peer that resets no connection, bit 5 of the flag is set only while
\* there is a connection, even though main writes the flag from a copy while the
\* interrupt sets it.  (The converse does not hold: such a write can undo the
\* setting of the bit, and the retry then replaces a connection that is up.)
FlagMeansConnected ==
  ~ resets /\ "conn" \in flag =>
    \/ \E q \in active : state[q] \in {"ESTABLISHED", "CLOSE_WAIT"}
    \/ pc \in {"clear", "quit_clear"}

InSession == pc # "menu"

\* With enough memory, a session that is not left shows "Connected" in the end,
\* whatever connects fail and whatever connections the peer resets or the retry
\* kills on the way.
Connects == InSession /\ ample ~> (connflag \/ ~ InSession)

\* A session whose connection is gone opens another or is left ("not connected:
\* try to reconnect", tcp_client_demo.c:132), whatever happened to the free list
\* and to the flag on the way, unless bit 5 is still set: the peer has closed
\* or reset a connection that was up, and nobody clears the bit.
ConnectionGone == InSession /\ \A q \in active : state[q] = "CLOSE_WAIT"
Reconnects == ConnectionGone ~> ~ ConnectionGone \/ "conn" \in flag

\* Both: the client keeps trying, and its trying has an end.
KeepsConnecting == Connects /\ Reconnects
=============================================================================
