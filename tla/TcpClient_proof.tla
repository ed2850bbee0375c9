--------------------------- MODULE TcpClient_proof ---------------------------
(***************************************************************************)
(* Proofs about the TCP client for every size of the pool, every retry     *)
(* period and every heap.  The argument: main is the only one to allocate  *)
(* control blocks and puts nothing but its own on the list of active ones, *)
(* so that between an abort and the next tcp_new the interrupt finds no    *)
(* block to act on, and the block just freed is still at the head of the   *)
(* free list.  For the accounts of the pool the list is given as a path    *)
(* that meets each free block once; a block freed is put in front of it,   *)
(* one allocated taken from its front.                                     *)
(***************************************************************************)
EXTENDS TcpClient, FiniteSetTheorems, FunctionTheorems, WellFoundedInduction, TLAPS

\* While the client holds no block, the head of the free list is a block.
HeadIsBlock == Held = {} => tab \in Pcbs

\* While it holds one, tcppcb is it.
HeldIsBlock == Held \subseteq Pcbs

Connected == \E q \in active : state[q] \in {"ESTABLISHED", "CLOSE_WAIT"}

\* The copy main is about to write back has bit 5 only if the flag may have it.
CopyMeansConnected == ~ resets /\ pc = "write_flag" /\ "conn" \in reg => Connected

SInv == TypeOK /\ OneConnection /\ HeadIsBlock /\ HeldIsBlock
\* A block is put on the list of active ones by tcp_connect only.
ConnectIsFirst == pc = "connect" => active = {}

FInv == FlagMeansConnected /\ CopyMeansConnected /\ ConnectIsFirst

\* The invariant about the pool holds at the start.
LEMMA InitSInv == Init => SInv
<1> SUFFICES ASSUME Init PROVE SInv
    OBVIOUS
<1>1. NPcbs \in Nat /\ NPcbs >= 1 /\ Period - 1 \in Nat /\ NEs \in Nat
      BY TcpAssumption
<1>2. Held = {} /\ active = {} /\ tab \in Pcbs /\ tab \in Words
      BY <1>1 DEF Init, Held, Pcbs, Words
<1>3. word \in [Pcbs -> Words]
  <2>1. \A q \in Pcbs : q - 1 \in Words
        BY <1>1 DEF Pcbs, Words, NULL
  <2> QED BY <2>1 DEF Init
<1>4. TypeOK
  <2>1. t \in 0 .. Period - 1 /\ esUsed \in 0 .. NEs
        BY <1>1 DEF Init
  <2>2. state \in [Pcbs -> {"CLOSED", "SYN_SENT", "ESTABLISHED", "CLOSE_WAIT"}]
        BY DEF Init
  <2> QED BY <1>2, <1>3, <2>1, <2>2 DEF Init, TypeOK, Labels
<1> QED BY <1>2, <1>4 DEF SInv, OneConnection, HeadIsBlock, HeldIsBlock

\* Freeing a block keeps the types.
LEMMA PcbFreeTypes ==
  ASSUME TypeOK, NEW q \in Pcbs, PcbFree(q)
  PROVE  /\ state' \in [Pcbs -> {"CLOSED", "SYN_SENT", "ESTABLISHED", "CLOSE_WAIT"}]
         /\ active' = active \ {q}
         /\ tab' = q /\ tab' \in Words
         /\ word' \in [Pcbs -> Words]
BY SMT DEF TypeOK, PcbFree, Words

\* No segment of the peer disturbs it.
LEMMA InterruptSInv == SInv /\ Interrupt => SInv'
<1> SUFFICES ASSUME SInv, Interrupt PROVE SInv'
    OBVIOUS
<1> USE TcpAssumption DEF SInv, OneConnection, HeadIsBlock, HeldIsBlock, Held, loopVars, pcbVars, envVars
<1>1. CASE SynAck
  <2>1. PICK q \in active :
          /\ state[q] = "SYN_SENT"
          /\ \/ /\ state' = [state EXCEPT ![q] = "ESTABLISHED"]
                /\ esUsed' = IF esUsed < NEs THEN esUsed + 1 ELSE esUsed
                /\ flag' = flag \cup {"conn"}
                /\ UNCHANGED <<active, tab, word>>
             \/ PcbFree(q) /\ flag' = flag \ {"conn"} /\ UNCHANGED esUsed
          /\ UNCHANGED <<pc, loopVars, tcppcb, resets, ample>>
        BY <1>1 DEF SynAck
  <2>2. q \in Pcbs /\ tcppcb = q /\ Held # {}
        BY DEF TypeOK
  <2>3. CASE PcbFree(q) /\ flag' = flag \ {"conn"} /\ UNCHANGED esUsed
    <3>1. TypeOK'
          BY <2>1, <2>2, <2>3, PcbFreeTypes DEF TypeOK
    <3> QED BY <2>1, <2>2, <2>3, <3>1, PcbFreeTypes
  <2>4. CASE ~ (PcbFree(q) /\ flag' = flag \ {"conn"} /\ UNCHANGED esUsed)
    <3>1. esUsed' \in 0 .. NEs
          BY <2>1, <2>4 DEF TypeOK
    <3>2. /\ state' \in [Pcbs -> {"CLOSED", "SYN_SENT", "ESTABLISHED", "CLOSE_WAIT"}]
          /\ flag' \subseteq Flags
          /\ UNCHANGED <<active, tab, word>>
          BY <2>1, <2>2, <2>4 DEF TypeOK, Flags
    <3>3. TypeOK'
          BY <2>1, <3>1, <3>2 DEF TypeOK
    <3>4. Held' = Held /\ active' = active /\ tab' = tab
          BY <2>1, <3>2
    <3> HIDE DEF Held
    <3> QED BY <3>3, <3>4
  <2> QED BY <2>1, <2>3, <2>4
<1>2. CASE Data
      BY <1>2 DEF Data, TypeOK, Flags
<1>3. CASE Fin
      BY <1>3 DEF Fin, TypeOK
<1>4. CASE Rst
  <2>1. PICK q \in active : PcbFree(q)
        BY <1>4 DEF Rst
  <2>2. q \in Pcbs /\ tcppcb = q /\ Held # {}
        BY DEF TypeOK
  <2>3. TypeOK'
        BY <1>4, <2>1, <2>2, PcbFreeTypes DEF Rst, TypeOK
  <2> QED BY <1>4, <2>1, <2>2, <2>3, PcbFreeTypes DEF Rst
<1> QED BY <1>1, <1>2, <1>3, <1>4 DEF Interrupt

\* Nor does a step of main.
LEMMA MainSInv == SInv /\ (Start \/ Quit \/ Loop) => SInv'
<1> SUFFICES ASSUME SInv, Start \/ Quit \/ Loop PROVE SInv'
    OBVIOUS
<1> USE DEF SInv, OneConnection, HeadIsBlock, HeldIsBlock, Held, GoTo
<1> DEFINE States == {"CLOSED", "SYN_SENT", "ESTABLISHED", "CLOSE_WAIT"}
<1>0. 0 \in 0 .. Period - 1 /\ LocalIp \in Words /\ NULL \in Words
      BY TcpAssumption DEF Words
<1>1. ASSUME NEW from, NEW to, CloseAborts(from, to),
             from \in Labels, to \in {"clear", "quit_clear"}, tcppcb \in Pcbs
      PROVE  SInv'
  <2>1. /\ PcbFree(tcppcb)
        /\ pc' = to
        /\ UNCHANGED <<t, connflag, reg, flag, tcppcb, esUsed, resets, ample>>
        BY <1>1 DEF CloseAborts, loopVars, envVars
  <2>2. TypeOK'
        BY <1>1, <2>1, PcbFreeTypes DEF TypeOK, Labels
  <2>3. active' = {} /\ tab' = tcppcb
        BY <1>1, <2>1, PcbFreeTypes
  <2> QED BY <1>1, <2>1, <2>2, <2>3
<1>2. ASSUME NEW from, NEW to, CloseClears(from, to),
             from \in {"clear", "quit_clear"}, to \in {"new", "menu"}
      PROVE  SInv'
  <2>1. /\ pc = from /\ pc' = to
        /\ flag' = flag \ {"conn"}
        /\ UNCHANGED <<t, connflag, reg, tcppcb, state, active, tab, word, esUsed, resets, ample>>
        BY <1>2 DEF CloseClears, loopVars, pcbVars, envVars
  <2>2. TypeOK'
        BY <1>2, <2>1 DEF TypeOK, Labels
  <2> QED BY <1>2, <2>1, <2>2
<1>3. CASE Start
  <2>1. TypeOK'
        BY <1>0, <1>3 DEF Start, TypeOK, Labels, pcbVars, envVars
  <2> QED BY <1>3, <2>1 DEF Start, pcbVars, envVars
<1>4. CASE Quit
  <2>1. TypeOK'
        BY <1>4 DEF Quit, TypeOK, Labels, pcbVars, envVars, loopVars
  <2> QED BY <1>4, <2>1 DEF Quit, pcbVars, envVars, loopVars
<1>5. CASE New
  <2>1. /\ pc = "new" /\ pc' = "connect"
        /\ tab \in Pcbs /\ tcppcb' = tab /\ tab' = word[tab]
        /\ word' = [word EXCEPT ![tab] = NULL]
        /\ state' = [state EXCEPT ![tab] = "CLOSED"]
        /\ UNCHANGED <<active, t, connflag, reg, flag, esUsed, resets, ample>>
        BY <1>5 DEF New, TcpNew, loopVars, envVars
  <2>2. TypeOK'
        BY <1>0, <2>1 DEF TypeOK, Labels
  <2> QED BY <2>1, <2>2
<1>6. CASE ConnectSends
  <2>1. tcppcb \in Pcbs
        BY <1>6 DEF ConnectSends
  <2>2. TypeOK'
        BY <1>0, <1>6, <2>1 DEF ConnectSends, TypeOK, Labels, envVars
  <2> QED BY <1>6, <2>1, <2>2 DEF ConnectSends
<1>7. CASE ConnectFails
  <2>1. PICK w \in {NULL, LocalIp} : word' = [word EXCEPT ![tcppcb] = w]
        BY <1>7 DEF ConnectFails
  <2>2. TypeOK'
        BY <1>0, <1>7, <2>1 DEF ConnectFails, TypeOK, Labels, envVars
  <2> QED BY <1>7, <2>2 DEF ConnectFails
<1>8. CASE ReadFlag
  <2>1. TypeOK'
        BY <1>8 DEF ReadFlag, TypeOK, Labels, pcbVars, envVars
  <2> QED BY <1>8, <2>1 DEF ReadFlag, pcbVars, envVars
<1>9. CASE WriteFlag
  <2>1. TypeOK'
        BY <1>9 DEF WriteFlag, TypeOK, Labels, pcbVars, envVars, loopVars
  <2> QED BY <1>9, <2>1 DEF WriteFlag, pcbVars, envVars, loopVars
<1>10. CASE Status
  <2>1. TypeOK'
        BY <1>10 DEF Status, TypeOK, Labels, pcbVars, envVars
  <2> QED BY <1>10, <2>1 DEF Status, pcbVars, envVars
<1>11. CASE Tick
  <2>1. /\ pc = "tick" /\ pc' \in {"abort", "loop"}
        /\ t' = (IF t + 1 = Period THEN 0 ELSE t + 1)
        /\ UNCHANGED <<connflag, reg, flag, tcppcb, state, active, tab, word, esUsed, resets, ample>>
        BY <1>11 DEF Tick, pcbVars, envVars
  <2>2. t' \in 0 .. Period - 1
        BY <2>1, TcpAssumption DEF TypeOK
  <2>3. TypeOK'
        BY <2>1, <2>2 DEF TypeOK, Labels
  <2> QED BY <2>1, <2>3
<1>12. CASE RetryAborts
  <2>1. pc = "abort"
        BY <1>12 DEF RetryAborts, CloseAborts
  <2> QED BY <1>1, <1>12, <2>1 DEF RetryAborts, Labels
<1>13. CASE QuitAborts
  <2>1. pc = "quit_abort"
        BY <1>13 DEF QuitAborts, CloseAborts
  <2> QED BY <1>1, <1>13, <2>1 DEF QuitAborts, Labels
<1>14. CASE RetryClears
       BY <1>2, <1>14 DEF RetryClears
<1>15. CASE QuitClears
       BY <1>2, <1>15 DEF QuitClears
<1> QED BY <1>3, <1>4, <1>5, <1>6, <1>7, <1>8, <1>9, <1>10, <1>11, <1>12, <1>13,
           <1>14, <1>15 DEF Loop

\* The invariant about the pool is one of the specification.
LEMMA PoolInvariance == Spec => []SInv
<1>1. SInv /\ UNCHANGED vars => SInv'
      BY DEF SInv, TypeOK, OneConnection, HeadIsBlock, HeldIsBlock, Held, vars, loopVars, pcbVars, envVars
<1>2. SInv /\ [Next]_vars => SInv'
      BY <1>1, InterruptSInv, MainSInv DEF Next
<1> QED BY InitSInv, <1>2, PTL DEF Spec

\* The client's variables, its blocks and the free list keep their types.
THEOREM TypeCorrect == Spec => []TypeOK
<1>1. SInv => TypeOK
      BY DEF SInv
<1> QED BY PoolInvariance, <1>1, PTL

\* There is never a second connection, whatever the peer sends and whenever,
\* and whether or not blocks are freed twice.
THEOREM NeverTwo == Spec => []OneConnection
<1>1. SInv => OneConnection
      BY DEF SInv
<1> QED BY PoolInvariance, <1>1, PTL

\* tcp_new is never called when the pool has nothing to give.
THEOREM NeverWithoutPcb == Spec => []PcbAvailable
<1>1. SInv => PcbAvailable
      BY DEF SInv, HeadIsBlock, Held, PcbAvailable
<1> QED BY PoolInvariance, <1>1, PTL

-----------------------------------------------------------------------------
(* Bit 5, when the peer does not reset connections.                        *)

\* The interrupt leaves bit 5 and main's copy of it true to the connection.
LEMMA InterruptFInv ==
  ASSUME SInv, FInv, Interrupt
  PROVE  FInv'
<1> USE DEF FInv, FlagMeansConnected, CopyMeansConnected, ConnectIsFirst, Connected, loopVars, pcbVars, envVars
<1>0. active \subseteq {tcppcb} /\ active \subseteq Pcbs
      BY DEF SInv, OneConnection, Held, TypeOK
<1>1. CASE SynAck
  <2>1. PICK q \in active :
          /\ state[q] = "SYN_SENT"
          /\ \/ /\ state' = [state EXCEPT ![q] = "ESTABLISHED"]
                /\ active' = active
             \/ PcbFree(q) /\ flag' = flag \ {"conn"}
          /\ UNCHANGED <<pc, reg, resets, ample>>
        BY <1>1 DEF SynAck
  <2>2. q = tcppcb /\ ~ Connected /\ q \in Pcbs
        BY <1>0, <2>1
  <2>3. CASE state' = [state EXCEPT ![q] = "ESTABLISHED"] /\ active' = active
    <3>1. Connected'
      <4>1. state'[q] = "ESTABLISHED" /\ q \in active'
            BY <2>1, <2>2, <2>3 DEF SInv, TypeOK
      <4> QED BY <4>1
    <3>2. pc # "connect" /\ pc' # "connect"
          BY <2>1
    <3> QED BY <3>1, <3>2
  <2>4. CASE PcbFree(q) /\ flag' = flag \ {"conn"}
        BY <2>1, <2>2, <2>4
  <2> QED BY <2>1, <2>3, <2>4
<1>2. CASE Data
      BY <1>2 DEF Data
<1>3. CASE Fin
  <2>1. PICK q \in active : /\ state' = [state EXCEPT ![q] = "CLOSE_WAIT"]
                            /\ UNCHANGED <<active, pc, reg, flag, resets, ample>>
        BY <1>3 DEF Fin
  <2>2. state'[q] = "CLOSE_WAIT" /\ q \in active'
        BY <1>0, <2>1 DEF SInv, TypeOK
  <2>3. pc # "connect" /\ pc' # "connect"
        BY <2>1
  <2> QED BY <2>2, <2>3
<1>4. CASE Rst
  <2>1. /\ resets /\ resets' = resets /\ pc' = pc
        /\ \E q \in active : active' = active \ {q}
        BY <1>4 DEF Rst, PcbFree, envVars
  <2> QED BY <2>1
<1> QED BY <1>1, <1>2, <1>3, <1>4 DEF Interrupt

\* So does main: it closes a connection before it clears the bit, and clears
\* the bit before it opens another.
LEMMA MainFInv ==
  ASSUME SInv, FInv, Start \/ Quit \/ Loop
  PROVE  FInv'
<1> USE DEF FInv, FlagMeansConnected, CopyMeansConnected, ConnectIsFirst, Connected, loopVars, pcbVars, envVars, GoTo
<1>0. pc \in {"menu", "new", "clear", "quit_clear"} => active = {}
      BY DEF SInv, OneConnection, Held
<1>1. CASE Start
      BY <1>1, SMT DEF Start
<1>2. CASE Quit
      BY <1>2, SMT DEF Quit
<1>3. CASE New
      BY <1>0, <1>3, SMT DEF New, TcpNew
<1>4. CASE ConnectSends
  <2>1. ~ resets => "conn" \notin flag
        BY <1>4 DEF ConnectSends
  <2> QED BY <1>4, <2>1 DEF ConnectSends
<1>5. CASE ConnectFails
      BY <1>5, SMT DEF ConnectFails
<1>6. CASE ReadFlag
      BY <1>6, SMT DEF ReadFlag
<1>7. CASE WriteFlag
      BY <1>7, SMT DEF WriteFlag
<1>8. CASE Status
      BY <1>8, SMT DEF Status
<1>9. CASE Tick
      BY <1>9, SMT DEF Tick
<1>10. CASE RetryAborts \/ QuitAborts
       BY <1>10 DEF RetryAborts, QuitAborts, CloseAborts
<1>11. CASE RetryClears \/ QuitClears
       BY <1>11 DEF RetryClears, QuitClears, CloseClears
<1> QED BY <1>1, <1>2, <1>3, <1>4, <1>5, <1>6, <1>7, <1>8, <1>9, <1>10, <1>11 DEF Loop

\* Bit 5 is set only while there is a connection, if the peer resets none.
THEOREM FlagTruthful == Spec => []FlagMeansConnected
<1>1. Init => FInv
      BY DEF Init, FInv, FlagMeansConnected, CopyMeansConnected, ConnectIsFirst
<1>2. FInv /\ UNCHANGED vars => FInv'
      BY DEF FInv, FlagMeansConnected, CopyMeansConnected, ConnectIsFirst, Connected, vars, loopVars, pcbVars, envVars
<1>3. SInv /\ FInv /\ [Next]_vars => FInv'
      BY <1>2, InterruptFInv, MainFInv DEF Next
<1>4. FInv => FlagMeansConnected
      BY DEF FInv
<1> QED BY <1>1, <1>3, <1>4, PoolInvariance, PTL DEF Spec

-----------------------------------------------------------------------------
(* The free list, when lwIP frees no block behind the client's back.       *)

\* lwIP frees a block only when the client asks for it.
Quiet == ~ resets /\ ample

\* p goes along the links of the free list, over m blocks and each once.
Path(p, m) ==
  /\ p \in [0 .. NPcbs -> Pcbs \cup {NULL}]
  /\ p[0] = tab
  /\ \A k \in 0 .. NPcbs : p[k] = NULL <=> k >= m
  /\ \A k \in 0 .. NPcbs - 1 : k < m => word[p[k]] = p[k + 1]
  /\ \A i, j \in 0 .. NPcbs : i < m /\ j < m /\ p[i] = p[j] => i = j

\* The blocks it goes over.
On(p, m) == {p[k] : k \in {i \in 0 .. NPcbs : i < m}}

PInv == Quiet => \E m \in 0 .. NPcbs : \E p : Path(p, m) /\ On(p, m) = Pcbs \ Held

LEMMA PoolSize == NPcbs \in Nat /\ NPcbs >= 1 /\ 0 \in 0 .. NPcbs /\ NULL \notin Pcbs
BY TcpAssumption DEF NULL, Pcbs

\* FreeList follows the path.
LEMMA FreeListIsPath ==
  ASSUME NEW m \in 0 .. NPcbs, NEW p, Path(p, m)
  PROVE  /\ MempSane
         /\ {FreeList[k] : k \in 0 .. NPcbs} \ {NULL} = On(p, m)
<1> USE PoolSize
<1> DEFINE Follows(g) == g = [k \in 0 .. NPcbs |->
                                IF k = 0 THEN tab
                                ELSE IF g[k - 1] \in Pcbs THEN word[g[k - 1]] ELSE NULL]
<1>1. \A k \in 0 .. NPcbs :
        p[k] = IF k = 0 THEN tab
               ELSE IF p[k - 1] \in Pcbs THEN word[p[k - 1]] ELSE NULL
  <2> TAKE k \in 0 .. NPcbs
  <2>1. CASE k = 0
        BY <2>1 DEF Path
  <2>2. CASE k # 0
    <3>1. k - 1 \in 0 .. NPcbs - 1 /\ k - 1 \in 0 .. NPcbs /\ (k - 1) + 1 = k
          BY <2>2
    <3>2. CASE k - 1 < m
      <4>1. p[k - 1] \in Pcbs /\ word[p[k - 1]] = p[k]
            BY <3>1, <3>2 DEF Path
      <4> QED BY <2>2, <4>1
    <3>3. CASE k - 1 >= m
      <4>1. p[k - 1] = NULL /\ p[k] = NULL
            BY <3>1, <3>3 DEF Path
      <4> QED BY <2>2, <4>1
    <3> QED BY <3>1, <3>2, <3>3
  <2> QED BY <2>1, <2>2
<1>2. Follows(p)
      BY <1>1 DEF Path
<1>3. FreeList = CHOOSE g : Follows(g)
      BY DEF FreeList
<1> HIDE DEF Follows
<1>4. Follows(FreeList)
      BY <1>2, <1>3
<1>5. \A k \in 0 .. NPcbs :
        FreeList[k] = IF k = 0 THEN tab
                      ELSE IF FreeList[k - 1] \in Pcbs THEN word[FreeList[k - 1]]
                      ELSE NULL
      BY <1>4 DEF Follows
<1>6. \A k \in 0 .. NPcbs : FreeList[k] = p[k]
  <2> DEFINE Apart == {k \in 0 .. NPcbs : FreeList[k] # p[k]}
  <2> SUFFICES ASSUME Apart # {} PROVE FALSE
      OBVIOUS
  <2>0. Apart \subseteq Nat
        OBVIOUS
  <2>1. PICK x \in Apart : \A y \in Apart : ~ (<<y, x>> \in OpToRel(<, Nat))
    <3> HIDE DEF Apart
    <3> QED BY <2>0, NatLessThanWellFounded, WFMin
  <2>2. \A y \in Apart : ~ (y < x)
    <3> HIDE DEF Apart
    <3> QED BY <2>0, <2>1 DEF OpToRel
  <2>3. x \in 0 .. NPcbs /\ x # 0
        BY <1>1, <1>5
  <2>4. x - 1 \in 0 .. NPcbs /\ FreeList[x - 1] = p[x - 1]
        BY <2>2, <2>3
  <2>5. FreeList[x] = p[x]
        BY <1>1, <1>5, <2>3, <2>4
  <2> QED BY <2>1, <2>5
<1>7. FreeList[NPcbs] = NULL
      BY <1>6 DEF Path
<1>8. {FreeList[k] : k \in 0 .. NPcbs} = {p[k] : k \in 0 .. NPcbs}
      BY <1>6
<1>9. {p[k] : k \in 0 .. NPcbs} \ {NULL} = On(p, m)
      BY DEF Path, On
<1> QED BY <1>7, <1>8, <1>9 DEF MempSane

\* At the start it goes over every block.
LEMMA InitPInv == Init => PInv
<1> SUFFICES ASSUME Init PROVE PInv
    OBVIOUS
<1> USE PoolSize
<1> DEFINE p == [k \in 0 .. NPcbs |-> NPcbs - k]
<1>1. Path(p, NPcbs)
  <2>1. /\ p \in [0 .. NPcbs -> Pcbs \cup {NULL}] /\ p[0] = tab
        /\ \A k \in 0 .. NPcbs : p[k] = NULL <=> k >= NPcbs
        BY DEF Init, Pcbs, NULL
  <2>2. \A k \in 0 .. NPcbs - 1 : word[p[k]] = p[k + 1]
    <3> TAKE k \in 0 .. NPcbs - 1
    <3>1. k + 1 \in 0 .. NPcbs /\ p[k] \in Pcbs /\ p[k + 1] = p[k] - 1
          BY DEF Pcbs
    <3> QED BY <3>1 DEF Init
  <2>3. \A i, j \in 0 .. NPcbs : p[i] = p[j] => i = j
        OBVIOUS
  <2> HIDE DEF p
  <2> QED BY <2>1, <2>2, <2>3 DEF Path
<1>2. On(p, NPcbs) = Pcbs
  <2>1. \A k \in 0 .. NPcbs : k < NPcbs => p[k] \in Pcbs
        BY DEF Pcbs
  <2>2. \A q \in Pcbs : NPcbs - q \in 0 .. NPcbs /\ NPcbs - q < NPcbs /\ p[NPcbs - q] = q
        BY DEF Pcbs
  <2>3. \A q \in Pcbs : q \in On(p, NPcbs)
        BY <2>2 DEF On
  <2> QED BY <2>1, <2>3 DEF On
<1>3. Held = {}
      BY DEF Init, Held
<1> HIDE DEF p
<1>4. NPcbs \in 0 .. NPcbs
      OBVIOUS
<1> QED BY <1>1, <1>2, <1>3, <1>4 DEF PInv

\* What touches no block off the list and no link on it leaves the list alone.
LEMMA PathKept ==
  ASSUME PInv, UNCHANGED <<tab, resets, ample>>, Held' = Held,
         \A q \in Pcbs \ Held : word'[q] = word[q]
  PROVE  PInv'
<1> USE PoolSize
<1> SUFFICES ASSUME Quiet' PROVE \E m \in 0 .. NPcbs : \E p : (Path(p, m) /\ On(p, m) = Pcbs \ Held)'
    BY DEF PInv
<1>1. PICK m \in 0 .. NPcbs : \E p : Path(p, m) /\ On(p, m) = Pcbs \ Held
      BY DEF PInv, Quiet
<1>2. PICK p : Path(p, m) /\ On(p, m) = Pcbs \ Held
      BY <1>1
<1>3. \A k \in 0 .. NPcbs : k < m => p[k] \in Pcbs \ Held
      BY <1>2 DEF On
<1>4. Path(p, m)'
      BY <1>2, <1>3 DEF Path
<1>5. On(p, m) = Pcbs \ Held'
      BY <1>2
<1> QED BY <1>4, <1>5

\* memp_free of the block the client holds: a list longer by one.
LEMMA PushPInv ==
  ASSUME PInv, TypeOK, tcppcb \in Pcbs, PcbFree(tcppcb), Held = {tcppcb}, Held' = {},
         UNCHANGED <<resets, ample>>
  PROVE  PInv'
<1> USE PoolSize
<1> SUFFICES ASSUME Quiet' PROVE \E m \in 0 .. NPcbs : \E p : (Path(p, m) /\ On(p, m) = Pcbs \ Held)'
    BY DEF PInv
<1>0. PICK q \in Pcbs : q = tcppcb
      OBVIOUS
<1>1. PICK m \in 0 .. NPcbs : \E p : Path(p, m) /\ On(p, m) = Pcbs \ {q}
      BY <1>0 DEF PInv, Quiet
<1>2. PICK p : Path(p, m) /\ On(p, m) = Pcbs \ {q}
      BY <1>1
<1>3. word' = [word EXCEPT ![q] = tab] /\ tab' = q
      BY <1>0 DEF PcbFree
<1>4. \A k \in 0 .. NPcbs : k < m => p[k] \in Pcbs \ {q}
      BY <1>2 DEF On
<1>5. m + 1 \in 0 .. NPcbs
  <2> DEFINE S == 0 .. m - 1
             T == Pcbs \ {q}
             f == [k \in S |-> p[k]]
  <2>1. f \in [S -> T] /\ \A i, j \in S : f[i] = f[j] => i = j
        BY <1>2, <1>4 DEF Path
  <2>2. IsFiniteSet(Pcbs) /\ Cardinality(Pcbs) = NPcbs
        BY FS_Interval DEF Pcbs
  <2>3. IsFiniteSet(T) /\ Cardinality(T) = NPcbs - 1
        BY <2>2, FS_RemoveElement
  <2>4. Cardinality(S) = m
        BY FS_Interval
  <2> HIDE DEF S, T, f
  <2>5. f \in Injection(S, T)
        BY <2>1 DEF Injection, IsInjective
  <2>6. Cardinality(S) <= Cardinality(T)
        BY <2>3, <2>5, FS_Injection
  <2> QED BY <2>3, <2>4, <2>6
<1> DEFINE r == [k \in 0 .. NPcbs |-> IF k = 0 THEN q ELSE p[k - 1]]
<1>6. r[0] = q /\ \A k \in 0 .. NPcbs : k # 0 => k - 1 \in 0 .. NPcbs /\ r[k] = p[k - 1]
      OBVIOUS
<1>7. \A k \in 0 .. NPcbs : r[k] = NULL <=> k >= m + 1
      BY <1>2, <1>6 DEF Path
<1>8. ASSUME NEW k \in 0 .. NPcbs - 1, k < m + 1
      PROVE  word'[r[k]] = r[k + 1]
  <2>1. k + 1 \in 0 .. NPcbs /\ r[k + 1] = p[k]
        BY <1>6
  <2>2. CASE k = 0
        BY <1>2, <1>3, <1>6, <2>1, <2>2 DEF Path, TypeOK
  <2>3. CASE k # 0
    <3>1. /\ k - 1 \in 0 .. NPcbs - 1 /\ k - 1 \in 0 .. NPcbs /\ k - 1 < m
          /\ (k - 1) + 1 = k /\ r[k] = p[k - 1]
          BY <1>6, <1>8, <2>3
    <3>2. p[k - 1] \in Pcbs \ {q} /\ word[p[k - 1]] = p[k]
          BY <1>2, <1>4, <3>1 DEF Path
    <3> QED BY <1>3, <2>1, <3>1, <3>2 DEF TypeOK
  <2> QED BY <2>2, <2>3
<1>9. ASSUME NEW i \in 0 .. NPcbs, NEW j \in 0 .. NPcbs, i < m + 1, j < m + 1, r[i] = r[j]
      PROVE  i = j
  <2>1. \A k \in 0 .. NPcbs : k < m + 1 /\ k # 0 => r[k] # q
        BY <1>4, <1>6
  <2>2. CASE i = 0 \/ j = 0
        BY <1>6, <1>9, <2>1, <2>2
  <2>3. CASE i # 0 /\ j # 0
    <3>1. p[i - 1] = p[j - 1] /\ i - 1 \in 0 .. NPcbs /\ j - 1 \in 0 .. NPcbs
          BY <1>6, <1>9, <2>3
    <3>2. i - 1 = j - 1
          BY <1>2, <1>9, <3>1 DEF Path
    <3> QED BY <3>2
  <2> QED BY <2>2, <2>3
<1>10. r \in [0 .. NPcbs -> Pcbs \cup {NULL}]
       BY <1>2 DEF Path
<1>11. \A x : x \in On(r, m + 1) <=> x \in Pcbs
  <2>1. \A k \in 0 .. NPcbs : k < m + 1 => r[k] \in Pcbs
        BY <1>4, <1>6
  <2>2. \A x \in Pcbs : x \in On(r, m + 1)
    <3> TAKE x \in Pcbs
    <3>1. CASE x = q
      <4>1. r[0] = x /\ 0 \in 0 .. NPcbs /\ 0 < m + 1
            BY <1>6, <3>1
      <4> HIDE DEF r
      <4> QED BY <4>1 DEF On
    <3>2. CASE x # q
      <4>1. PICK k \in 0 .. NPcbs : k < m /\ p[k] = x
            BY <1>2, <3>2 DEF On
      <4>2. k + 1 \in 0 .. NPcbs /\ k + 1 < m + 1 /\ r[k + 1] = x
            BY <1>5, <1>6, <4>1
      <4> HIDE DEF r
      <4> QED BY <4>2 DEF On
    <3> QED BY <3>1, <3>2
  <2> HIDE DEF r
  <2> QED BY <2>1, <2>2 DEF On
<1> HIDE DEF r
<1>12. Path(r, m + 1)'
       BY <1>3, <1>6, <1>7, <1>8, <1>9, <1>10 DEF Path
<1>13. On(r, m + 1) = Pcbs \ Held'
       BY <1>11
<1> QED BY <1>5, <1>12, <1>13

\* tcp_new takes the first block of the list.
LEMMA PopPInv == PInv /\ TypeOK /\ New => PInv'
<1> SUFFICES ASSUME PInv, TypeOK, New, Quiet'
             PROVE  \E m \in 0 .. NPcbs : \E p : (Path(p, m) /\ On(p, m) = Pcbs \ Held)'
    BY DEF PInv
<1> USE PoolSize
<1>1. /\ tab \in Pcbs /\ tcppcb' = tab /\ tab' = word[tab]
      /\ word' = [word EXCEPT ![tab] = NULL] /\ Quiet
      /\ Held = {} /\ Held' = {tab}
      BY DEF New, TcpNew, GoTo, Held, envVars, Quiet
<1>2. PICK m \in 0 .. NPcbs : \E p : Path(p, m) /\ On(p, m) = Pcbs
      BY <1>1 DEF PInv
<1>3. PICK p : Path(p, m) /\ On(p, m) = Pcbs
      BY <1>2
<1>4. PICK q \in Pcbs : q = tab
      BY <1>1
<1>5. p[0] = q /\ q # NULL /\ m >= 1 /\ m - 1 \in 0 .. NPcbs
  <2>1. p[0] = q /\ q # NULL
        BY <1>3, <1>4 DEF Path
  <2>2. ~ 0 >= m
        BY <1>3, <2>1 DEF Path
  <2> QED BY <2>1, <2>2
<1> DEFINE r == [k \in 0 .. NPcbs |-> IF k < NPcbs THEN p[k + 1] ELSE NULL]
<1>6. \A k \in 0 .. NPcbs : k < NPcbs => k + 1 \in 0 .. NPcbs /\ r[k] = p[k + 1]
      OBVIOUS
<1>7. \A k \in 0 .. NPcbs : r[k] = NULL <=> k >= m - 1
  <2> TAKE k \in 0 .. NPcbs
  <2>1. CASE k < NPcbs
        BY <1>3, <1>6, <2>1 DEF Path
  <2>2. CASE k = NPcbs
        BY <2>2
  <2> QED BY <2>1, <2>2
<1>8. \A k \in 0 .. NPcbs : k < m - 1 => r[k] \in Pcbs \ {q}
  <2> TAKE k \in 0 .. NPcbs
  <2> HAVE k < m - 1
  <2>1. k < NPcbs /\ k + 1 \in 0 .. NPcbs /\ k + 1 < m /\ r[k] = p[k + 1]
        BY <1>6
  <2>2. p[k + 1] # p[0]
        BY <1>3, <2>1 DEF Path
  <2>3. p[k + 1] \in Pcbs
        BY <1>3, <2>1 DEF On
  <2> QED BY <1>5, <2>1, <2>2, <2>3
<1>9. r[0] = word[q]
  <2>1. word[p[0]] = p[0 + 1] /\ r[0] = p[0 + 1]
        BY <1>3, <1>5, <1>6 DEF Path
  <2> QED BY <1>5, <2>1
<1>10. \A k \in 0 .. NPcbs - 1 : k < m - 1 => word'[r[k]] = r[k + 1]
  <2> TAKE k \in 0 .. NPcbs - 1
  <2> HAVE k < m - 1
  <2>1. /\ k \in 0 .. NPcbs /\ k + 1 \in 0 .. NPcbs - 1 /\ k + 1 \in 0 .. NPcbs /\ k + 1 < m
        /\ r[k] = p[k + 1] /\ r[k + 1] = p[(k + 1) + 1]
        BY <1>6
  <2>2. word[p[k + 1]] = p[(k + 1) + 1]
        BY <1>3, <2>1 DEF Path
  <2>3. r[k] \in Pcbs \ {q}
        BY <1>8, <2>1
  <2> QED BY <1>1, <1>4, <2>1, <2>2, <2>3 DEF TypeOK
<1>11. \A i, j \in 0 .. NPcbs : i < m - 1 /\ j < m - 1 /\ r[i] = r[j] => i = j
  <2> TAKE i, j \in 0 .. NPcbs
  <2> HAVE i < m - 1 /\ j < m - 1 /\ r[i] = r[j]
  <2>1. /\ i + 1 \in 0 .. NPcbs /\ j + 1 \in 0 .. NPcbs /\ p[i + 1] = p[j + 1]
        /\ i + 1 < m /\ j + 1 < m
        BY <1>6
  <2>2. i + 1 = j + 1
        BY <1>3, <2>1 DEF Path
  <2> QED BY <2>2
<1>12. r \in [0 .. NPcbs -> Pcbs \cup {NULL}]
  <2>1. p \in [0 .. NPcbs -> Pcbs \cup {NULL}]
        BY <1>3 DEF Path
  <2> QED BY <1>6, <2>1
<1>13. \A x \in Pcbs \ {q} : x \in On(r, m - 1)
  <2> TAKE x \in Pcbs \ {q}
  <2>1. PICK k \in 0 .. NPcbs : k < m /\ p[k] = x
        BY <1>3 DEF On
  <2>2. k # 0
        BY <1>5, <2>1
  <2>3. k - 1 \in 0 .. NPcbs /\ k - 1 < m - 1 /\ r[k - 1] = x
        BY <1>6, <2>1, <2>2
  <2> HIDE DEF r
  <2> QED BY <2>3 DEF On
<1> HIDE DEF r
<1>14. On(r, m - 1) = Pcbs \ Held'
       BY <1>1, <1>4, <1>8, <1>13 DEF On
<1>15. Path(r, m - 1)'
       BY <1>1, <1>4, <1>7, <1>9, <1>10, <1>11, <1>12 DEF Path
<1> QED BY <1>5, <1>14, <1>15

LEMMA PInvNext == SInv /\ PInv /\ [Next]_vars => PInv'
<1> SUFFICES ASSUME SInv, PInv, [Next]_vars PROVE PInv'
    OBVIOUS
<1> USE DEF GoTo, Held, envVars, loopVars, pcbVars
<1>1. TypeOK /\ Held \subseteq Pcbs /\ active \subseteq Held
      BY DEF SInv, HeldIsBlock, OneConnection
<1>2. CASE Interrupt
  <2>1. CASE SynAck
    <3>1. CASE Quiet
          BY <2>1, <3>1, PathKept DEF SynAck, Quiet
    <3>2. CASE ~ Quiet
          BY <2>1, <3>2 DEF SynAck, Quiet, PInv
    <3> QED BY <3>1, <3>2
  <2>2. CASE Data \/ Fin
        BY <2>2, PathKept DEF Data, Fin
  <2>3. CASE Rst
        BY <2>3 DEF Rst, PInv, Quiet
  <2> QED BY <1>2, <2>1, <2>2, <2>3 DEF Interrupt
<1>3. CASE New
      BY <1>1, <1>3, PopPInv
<1>4. CASE ConnectSends \/ ConnectFails
  <2>1. /\ Held' = Held /\ Held = {tcppcb} /\ UNCHANGED <<tab, resets, ample>>
        /\ \E w \in {NULL, LocalIp} : word' = [word EXCEPT ![tcppcb] = w]
        BY <1>4 DEF ConnectSends, ConnectFails
  <2>2. \A q \in Pcbs \ Held : word'[q] = word[q]
        BY <1>1, <2>1 DEF TypeOK
  <2> QED BY <2>1, <2>2, PathKept
<1>5. CASE RetryAborts \/ QuitAborts
  <2>1. /\ PcbFree(tcppcb) /\ Held = {tcppcb} /\ Held' = {} /\ UNCHANGED <<resets, ample>>
        BY <1>5 DEF RetryAborts, QuitAborts, CloseAborts
  <2>2. tcppcb \in Pcbs
        BY <1>1, <2>1
  <2> QED BY <1>1, <2>1, <2>2, PushPInv
<1>6. CASE Start \/ Quit \/ ReadFlag \/ WriteFlag \/ Status \/ Tick \/ RetryClears \/ QuitClears
  <2>1. UNCHANGED <<tab, word, resets, ample, tcppcb>>
        BY <1>6 DEF Start, Quit, ReadFlag, WriteFlag, Status, Tick, RetryClears,
           QuitClears, CloseClears
  <2>2. Held' = Held
        BY <1>6 DEF Start, Quit, ReadFlag, WriteFlag, Status, Tick, RetryClears,
           QuitClears, CloseClears
  <2> QED BY <2>1, <2>2, PathKept
<1>7. CASE UNCHANGED vars
  <2>1. UNCHANGED <<tab, word, resets, ample>> /\ Held' = Held
        BY <1>7 DEF vars
  <2> QED BY <2>1, PathKept
<1> QED BY <1>2, <1>3, <1>4, <1>5, <1>6, <1>7 DEF Next, Loop

\* Every block is on the free list once or the client's, while lwIP frees none
\* behind its back: over any number of sessions, retries and failed connects
\* the pool neither loses a block nor has one freed twice.
THEOREM PoolIsAccounted == Spec => []PoolAccounted
<1>1. PInv => PoolAccounted
  <2> SUFFICES ASSUME PInv, ~ resets, ample
               PROVE  MempSane /\ {FreeList[k] : k \in 0 .. NPcbs} \ {NULL} = Pcbs \ Held
      BY DEF PoolAccounted
  <2>1. PICK m \in 0 .. NPcbs : \E p : Path(p, m) /\ On(p, m) = Pcbs \ Held
        BY DEF PInv, Quiet
  <2> QED BY <2>1, FreeListIsPath
<1> QED BY <1>1, InitPInv, PInvNext, PoolInvariance, PTL DEF Spec
=============================================================================
