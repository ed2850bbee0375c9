------------------------- MODULE UdpTelemetry_proof --------------------------
(***************************************************************************)
(* Two results, for every pool, every set of hosts and whatever arrives.   *)
(*                                                                         *)
(* The telemetry keeps its target: once the callback is registered the     *)
(* control block is connected, and udp_input hands it only datagrams whose *)
(* sender is the one it is connected to, so that what the callback writes  *)
(* is what is there.                                                       *)
(*                                                                         *)
(* The pool is accounted for: the free list is a path over the pbufs TIM2  *)
(* does not hold.  The loops of pbuf_alloc and pbuf_free are followed turn *)
(* by turn: a frame takes the first pbufs of the path and puts them back   *)
(* in the other order, so that frames of one pbuf change nothing, and what *)
(* TIM2 has read of the list stays true.                                   *)
(***************************************************************************)
EXTENDS UdpTelemetry, FiniteSetTheorems, FunctionTheorems, WellFoundedInduction, TLAPS

PcbType == pcb \in [local : Ports \cup {None}, ip : Hosts \cup {None},
                    port : Ports \cup {None}, recv : BOOLEAN]

\* The control block on its way to the session.
Connected == target = [ip |-> pcb.ip, port |-> pcb.port]
Bound     == pcb.local = DemoPort

SetUp == /\ pcb.recv => mpc \in {"start", "loop"}
         /\ mpc \in {"bind", "recv", "start", "loop"} => Connected
         /\ mpc \in {"recv", "start", "loop"} => Bound

\* TIM2 runs only in the session, and nothing was sent before.
Running == /\ t # "off" => mpc = "loop"
           /\ t = "off" => sent = None

UInv == PcbType /\ remoteip \in Hosts /\ SetUp /\ Running /\ SentToTarget

LEMMA InitUInv == Init => UInv
BY UdpAssumption DEF Init, UInv, PcbType, SetUp, Running, SentToTarget, NoPcb

\* Main sets the control block up before TIM2 is started.
LEMMA MainUInv == UInv /\ Main => UInv'
<1> SUFFICES ASSUME UInv, Main PROVE UInv'
    OBVIOUS
<1> USE DEF UInv, PcbType, SetUp, Running, SentToTarget, Connected, Bound, Stay, tim2Vars
<1>1. CASE SetRemoteIp
      BY <1>1, UdpAssumption DEF SetRemoteIp
<1>2. CASE Buffer
      BY <1>2 DEF Buffer
<1>3. CASE New
  <2>1. /\ pcb' = [NoPcb EXCEPT !.local = OtherPort]
        /\ mpc = "new" /\ mpc' = "connect" /\ UNCHANGED <<remoteip, t, sent>>
        BY <1>3 DEF New
  <2>2. PcbType' /\ ~ pcb'.recv
        BY <2>1 DEF NoPcb, Ports
  <2> QED BY <2>1, <2>2
<1>4. CASE Connect
  <2>1. /\ pcb' = [pcb EXCEPT !.ip = remoteip, !.port = DemoPort]
        /\ target' = [ip |-> remoteip, port |-> DemoPort]
        /\ mpc = "connect" /\ mpc' = "bind" /\ UNCHANGED <<remoteip, t, sent>>
        BY <1>4 DEF Connect
  <2>2. PcbType' /\ pcb'.recv = pcb.recv /\ Connected'
        BY <2>1 DEF Ports
  <2> QED BY <2>1, <2>2
<1>5. CASE Bind
  <2>1. /\ pcb' = [pcb EXCEPT !.local = DemoPort]
        /\ mpc = "bind" /\ mpc' = "recv" /\ UNCHANGED <<remoteip, target, t, sent>>
        BY <1>5 DEF Bind, mainVars
  <2>2. /\ PcbType' /\ pcb'.recv = pcb.recv /\ pcb'.local = DemoPort
        /\ pcb'.ip = pcb.ip /\ pcb'.port = pcb.port
        BY <2>1 DEF Ports
  <2> QED BY <2>1, <2>2
<1>6. CASE Recv
  <2>1. /\ pcb' = [pcb EXCEPT !.recv = TRUE]
        /\ mpc = "recv" /\ mpc' = "start" /\ UNCHANGED <<remoteip, target, t, sent>>
        BY <1>6 DEF Recv, mainVars
  <2>2. /\ PcbType' /\ pcb'.local = pcb.local
        /\ pcb'.ip = pcb.ip /\ pcb'.port = pcb.port
        BY <2>1
  <2> QED BY <2>1, <2>2
<1>7. CASE Start
      BY <1>7 DEF Start
<1>8. CASE Notice
      BY <1>8 DEF Notice, mainVars
<1> QED BY <1>1, <1>2, <1>3, <1>4, <1>5, <1>6, <1>7, <1>8 DEF Main

\* TIM2 sends with the control block as the session has set it up.
LEMMA Tim2UInv == UInv /\ Tim2 => UInv'
<1> SUFFICES ASSUME UInv, Tim2 PROVE UInv'
    OBVIOUS
<1>1. /\ t # "off" /\ t' # "off" /\ UNCHANGED <<mpc, target, remoteip, pcb>>
      BY DEF Tim2, Begin, ReadNext, StoreHead, Send, Free, Push, Count, At, mainVars
<1>2. mpc = "loop" /\ Connected /\ Bound
      BY <1>1 DEF UInv, SetUp, Running
<1>3. SentToTarget'
  <2>1. CASE Send
        BY <1>1, <1>2, <2>1 DEF Send, SentToTarget, Connected, Bound
  <2>2. CASE ~ Send
    <3>1. UNCHANGED sent
          BY <2>2 DEF Tim2, Begin, ReadNext, StoreHead, Free, Push, Count
    <3> QED BY <1>1, <3>1 DEF UInv, SentToTarget
  <2> QED BY <2>1, <2>2
<1> QED BY <1>1, <1>2, <1>3 DEF UInv, PcbType, SetUp, Running, Connected, Bound

\* A datagram that reaches the callback comes from the target.
LEMMA EthUInv == UInv /\ Eth => UInv'
<1> SUFFICES ASSUME NEW n \in 1 .. Long, NEW peer \in Peers, NEW port \in Ports,
                    UInv, Frame(n, peer, port)
             PROVE  UInv'
    BY DEF Eth
<1>1. UNCHANGED <<mpc, target, t, sent>>
      BY DEF Frame, mainVars, tim2Vars
<1>2. \/ UNCHANGED <<pcb, remoteip>>
      \/ /\ Matches(peer, port)
         /\ pcb' = [pcb EXCEPT !.ip = peer.ip, !.port = peer.port]
         /\ remoteip' = peer.ip
      BY DEF Frame, Deliver
<1>3. pcb' = pcb /\ remoteip' \in Hosts
  <2>1. peer.ip \in Hosts
        BY DEF Peers
  <2>2. CASE UNCHANGED <<pcb, remoteip>>
        BY <2>2 DEF UInv
  <2>3. CASE /\ Matches(peer, port)
             /\ pcb' = [pcb EXCEPT !.ip = peer.ip, !.port = peer.port]
             /\ remoteip' = peer.ip
    <3>1. pcb' = pcb
          BY <2>3 DEF Matches, UInv, PcbType
    <3> QED BY <2>1, <2>3, <3>1
  <2> QED BY <1>2, <2>2, <2>3
<1> QED BY <1>1, <1>3 DEF UInv, PcbType, SetUp, Running, SentToTarget, Connected, Bound

\* Whatever arrives, every sample goes from the session's port to the address
\* and port udp_connect was given.
THEOREM TargetKept == Spec => []SentToTarget
<1>1. UInv /\ UNCHANGED vars => UInv'
      BY DEF UInv, PcbType, SetUp, Running, SentToTarget, Connected, Bound, vars,
             mainVars, tim2Vars
<1>2. UInv /\ [Next]_vars => UInv'
      BY <1>1, MainUInv, Tim2UInv, EthUInv DEF Next
<1>3. UInv => SentToTarget
      BY DEF UInv
<1> QED BY InitUInv, <1>2, <1>3, PTL DEF Spec

-----------------------------------------------------------------------------
(***************************************************************************)
(* What a loop of lwIP's computes: the state after i turns is a function   *)
(* of the state after i - 1.                                               *)
(***************************************************************************)

\* Counting up to N, as a fact about sets.
LEMMA UpTo ==
  ASSUME NEW N \in Nat, NEW T, 0 \in T, \A i \in 1 .. N : i - 1 \in T => i \in T
  PROVE  \A i \in 0 .. N : i \in T
<1> DEFINE Out == {i \in 0 .. N : i \notin T}
<1> SUFFICES ASSUME Out # {} PROVE FALSE
    OBVIOUS
<1>1. PICK x \in Out : \A y \in Out : ~ (<<y, x>> \in OpToRel(<, Nat))
  <2>1. Out \in SUBSET Nat
        OBVIOUS
  <2> HIDE DEF Out
  <2> QED BY <2>1, NatLessThanWellFounded, WFMin
<1>2. x \in 1 .. N /\ x - 1 \in 0 .. N /\ x - 1 < x
      OBVIOUS
<1>3. \A y \in Out : ~ y < x
  <2>1. Out \subseteq Nat
        OBVIOUS
  <2> HIDE DEF Out
  <2> QED BY <1>1, <2>1 DEF OpToRel
<1>4. x - 1 \in T
      BY <1>2, <1>3
<1> QED BY <1>2, <1>4

\* Two sequences that begin alike and go on alike are the same.
LEMMA SameTurns ==
  ASSUME NEW N \in Nat, NEW f, NEW g, f[0] = g[0],
         \A i \in 1 .. N : f[i - 1] = g[i - 1] => f[i] = g[i]
  PROVE  \A i \in 0 .. N : f[i] = g[i]
<1> DEFINE T == {i \in 0 .. N : f[i] = g[i]}
<1>1. 0 \in T /\ \A i \in 1 .. N : i - 1 \in T => i \in T
      OBVIOUS
<1> HIDE DEF T
<1>2. \A i \in 0 .. N : i \in T
      BY <1>1, UpTo
<1> QED BY <1>2 DEF T

Turns(f, N, S, g, s) == /\ f \in [0 .. N -> S] /\ f[0] = s
                        /\ \A i \in 1 .. N : f[i] = g[f[i - 1]]

\* As long as each turn leads from S to S there is such a sequence.
LEMMA TurnsExist ==
  ASSUME NEW N \in Nat, NEW S, NEW g \in [S -> S], NEW s \in S
  PROVE  \E f : Turns(f, N, S, g, s)
<1> DEFINE Good(n) == \E f \in [0 .. n -> S] :
                        f[0] = s /\ \A i \in 1 .. n : f[i] = g[f[i - 1]]
           T == {n \in 0 .. N : Good(n)}
<1>1. Good(0)
  <2>1. [i \in 0 .. 0 |-> s] \in [0 .. 0 -> S] /\ [i \in 0 .. 0 |-> s][0] = s
        OBVIOUS
  <2>2. \A i \in 1 .. 0 : FALSE
        OBVIOUS
  <2> QED BY <2>1, <2>2
<1>2. ASSUME NEW x \in 1 .. N, Good(x - 1) PROVE Good(x)
  <2>1. PICK f \in [0 .. x - 1 -> S] :
          f[0] = s /\ \A i \in 1 .. x - 1 : f[i] = g[f[i - 1]]
        BY <1>2
  <2> DEFINE e == [i \in 0 .. x |-> IF i = x THEN g[f[x - 1]] ELSE f[i]]
  <2>2. \A i \in 0 .. x : i # x => i \in 0 .. x - 1 /\ e[i] = f[i]
        OBVIOUS
  <2>3. e \in [0 .. x -> S] /\ e[0] = s
    <3>1. x - 1 \in 0 .. x - 1 /\ f[x - 1] \in S /\ 0 \in 0 .. x /\ 0 # x
          BY <2>1
    <3> QED BY <2>1, <2>2, <3>1
  <2>4. \A i \in 1 .. x : e[i] = g[e[i - 1]]
    <3> TAKE i \in 1 .. x
    <3>1. i - 1 \in 0 .. x /\ i - 1 # x /\ e[i - 1] = f[i - 1] /\ i \in 0 .. x
          BY <2>2
    <3>2. CASE i = x
          BY <3>1, <3>2
    <3>3. CASE i # x
      <4>1. i \in 1 .. x - 1 /\ e[i] = f[i]
            BY <2>2, <3>1, <3>3
      <4> QED BY <2>1, <3>1, <4>1
    <3> QED BY <3>2, <3>3
  <2> HIDE DEF e
  <2> QED BY <2>3, <2>4
<1>3. 0 \in T /\ \A i \in 1 .. N : i - 1 \in T => i \in T
  <2> HIDE DEF Good
  <2> QED BY <1>1, <1>2
<1> HIDE DEF T
<1>4. N \in T
      BY <1>3, UpTo
<1> QED BY <1>4 DEF T, Turns

-----------------------------------------------------------------------------
(***************************************************************************)
(* The free list as a path w over m pbufs, each linked to the next, none   *)
(* met twice.                                                              *)
(***************************************************************************)
Path(Q, w, m) ==
  /\ w \in [0 .. NPbufs -> Pbufs \cup {Null}] /\ w[0] = Q.head
  /\ \A k \in 0 .. NPbufs : w[k] = Null <=> k >= m
  /\ \A k \in 0 .. NPbufs - 1 : k < m => Q.next[w[k]] = w[k + 1]
  /\ \A i, j \in 0 .. NPbufs : i < m /\ w[i] = w[j] => i = j

On(w, m) == {w[k] : k \in 0 .. m - 1}

LEMMA Counts == NPbufs \in Nat /\ NPbufs >= 1 /\ 0 \in 0 .. NPbufs /\ Null \notin Pbufs
BY PbufAssumption DEF Null, Pbufs

\* Such a path is what FreeList finds.
LEMMA FreeListIsPath ==
  ASSUME NEW m \in 0 .. NPbufs, NEW Q, NEW w, Path(Q, w, m)
  PROVE  FreeList(Q) = On(w, m)
<1> USE Counts
<1> DEFINE Follows(g) == g = [i \in 0 .. NPbufs |->
                                IF i = 0 THEN Q.head
                                ELSE IF g[i - 1] = Null THEN Null ELSE Q.next[g[i - 1]]]
           at == CHOOSE g : Follows(g)
<1>1. ASSUME NEW i \in 1 .. NPbufs
      PROVE  w[i] = IF w[i - 1] = Null THEN Null ELSE Q.next[w[i - 1]]
  <2>1. i - 1 \in 0 .. NPbufs - 1 /\ i - 1 \in 0 .. NPbufs /\ (i - 1) + 1 = i
        OBVIOUS
  <2> QED BY <2>1 DEF Path
<1>2. Follows(w)
      BY <1>1 DEF Path
<1>3. FreeList(Q) = {at[i] : i \in 0 .. NPbufs} \ {Null}
      BY DEF FreeList
<1>4. Follows(at)
  <2> HIDE DEF Follows
  <2> QED BY <1>2
<1> HIDE DEF at
<1>5. /\ at[0] = w[0]
      /\ \A i \in 1 .. NPbufs : at[i - 1] = w[i - 1] => at[i] = w[i]
  <2>1. \A i \in 0 .. NPbufs :
          at[i] = IF i = 0 THEN Q.head
                  ELSE IF at[i - 1] = Null THEN Null ELSE Q.next[at[i - 1]]
        BY <1>4
  <2>2. at[0] = w[0]
        BY <2>1 DEF Path
  <2>3. \A i \in 1 .. NPbufs :
          at[i] = IF at[i - 1] = Null THEN Null ELSE Q.next[at[i - 1]]
        BY <2>1
  <2> QED BY <1>1, <2>2, <2>3
<1>6. \A i \in 0 .. NPbufs : at[i] = w[i]
      BY <1>5, SameTurns
<1>7. \A i \in 0 .. NPbufs : i \in 0 .. m - 1 <=> w[i] # Null
      BY DEF Path
<1>8. \A i \in 0 .. m - 1 : i \in 0 .. NPbufs
      OBVIOUS
<1> QED BY <1>3, <1>6, <1>7, <1>8 DEF On

-----------------------------------------------------------------------------
(***************************************************************************)
(* The loops of pbuf_alloc and pbuf_free, turn by turn.                    *)
(***************************************************************************)
TakeStart(Q) == [pool |-> Q, first |-> Null, last |-> Null, ok |-> TRUE]

TakeTurn(s) ==
  IF ~s.ok \/ s.pool.head = Null THEN [s EXCEPT !.ok = FALSE]
  ELSE [pool  |-> IF s.last = Null THEN Take(s.pool)
                  ELSE [Take(s.pool) EXCEPT !.next[s.last] = s.pool.head],
        first |-> IF s.first = Null THEN s.pool.head ELSE s.first,
        last  |-> s.pool.head, ok |-> TRUE]

Taking == [pool : Pools, first : Pbufs \cup {Null}, last : Pbufs \cup {Null}, ok : BOOLEAN]

ReleaseTurn(s) ==
  IF s.p = Null THEN s
  ELSE [pool |-> ReleaseOne(s.pool, s.p),
        p    |-> IF s.pool.ref[s.p] = 1 THEN s.pool.next[s.p] ELSE Null]

Releasing == [pool : Pools, p : Pbufs \cup {Null}]

LEMMA TakeTyped ==
  ASSUME NEW Q \in Pools, Q.head # Null
  PROVE  Take(Q) \in Pools
<1>1. 1 \in 0 .. RefMod - 1
      BY PbufAssumption
<1> QED BY <1>1 DEF Take, Pools

LEMMA ReleaseOneTyped ==
  ASSUME NEW Q \in Pools, NEW q \in Pbufs
  PROVE  ReleaseOne(Q, q) \in Pools
<1>1. 0 \in 0 .. RefMod - 1 /\ Q.ref[q] \in Nat /\ RefMod - 1 \in Nat
      BY PbufAssumption DEF Pools
<1>2. (Q.ref[q] + RefMod - 1) % RefMod \in 0 .. RefMod - 1
      BY <1>1, PbufAssumption
<1>3. Q.ref[q] + RefMod - 1 = Q.ref[q] + (RefMod - 1)
      BY <1>1, PbufAssumption
<1> QED BY <1>1, <1>2 DEF ReleaseOne, Pools

LEMMA TakeTurnTyped ==
  ASSUME NEW s \in Taking
  PROVE  TakeTurn(s) \in Taking
<1>1. CASE ~s.ok \/ s.pool.head = Null
      BY <1>1 DEF TakeTurn, Taking
<1>2. CASE s.ok /\ s.pool.head # Null
  <2>1. s.pool \in Pools /\ s.last \in Pbufs \cup {Null} /\ s.first \in Pbufs \cup {Null}
        BY DEF Taking
  <2>2. s.pool.head \in Pbufs
        BY <1>2, <2>1 DEF Pools
  <2>3. Take(s.pool) \in Pools
        BY <1>2, <2>1, TakeTyped
  <2>4. s.last # Null => [Take(s.pool) EXCEPT !.next[s.last] = s.pool.head] \in Pools
        BY <2>1, <2>2, <2>3 DEF Pools
  <2> QED BY <1>2, <2>1, <2>2, <2>3, <2>4 DEF TakeTurn, Taking
<1> QED BY <1>1, <1>2

LEMMA ReleaseTurnTyped ==
  ASSUME NEW s \in Releasing
  PROVE  ReleaseTurn(s) \in Releasing
<1>1. s.pool \in Pools /\ s.p \in Pbufs \cup {Null}
      BY DEF Releasing
<1>2. CASE s.p = Null
      BY <1>2 DEF ReleaseTurn
<1>3. CASE s.p # Null
  <2>1. s.p \in Pbufs
        BY <1>1, <1>3
  <2>2. ReleaseOne(s.pool, s.p) \in Pools
        BY <1>1, <2>1, ReleaseOneTyped
  <2>3. s.pool.next[s.p] \in Pbufs \cup {Null}
        BY <1>1, <2>1 DEF Pools
  <2> QED BY <1>3, <2>2, <2>3 DEF ReleaseTurn, Releasing
<1> QED BY <1>2, <1>3

\* f goes over the states of pbuf_alloc's loop, or of pbuf_free's.
TakeRun(f, Q, n) == /\ f \in [0 .. n -> Taking] /\ f[0] = TakeStart(Q)
                    /\ \A i \in 1 .. n : f[i] = TakeTurn(f[i - 1])
                    /\ TakeChain(Q, n) = f[n]

ReleaseRun(f, Q, q) == /\ f \in [0 .. NPbufs + 1 -> Releasing]
                       /\ f[0] = [pool |-> Q, p |-> q]
                       /\ \A i \in 1 .. NPbufs + 1 : f[i] = ReleaseTurn(f[i - 1])
                       /\ Release(Q, q) = f[NPbufs + 1].pool

LEMMA TakeTurns ==
  ASSUME NEW Q \in Pools, NEW n \in Nat
  PROVE  \E f : TakeRun(f, Q, n)
<1> DEFINE start == TakeStart(Q)
           turn == [s \in Taking |-> TakeTurn(s)]
           Follows(g) == g = [i \in 0 .. n |-> IF i = 0 THEN start
                                               ELSE TakeTurn(g[i - 1])]
           after == CHOOSE g : Follows(g)
<1>1. turn \in [Taking -> Taking] /\ start \in Taking
  <2>1. start \in Taking
        BY DEF TakeStart, Taking
  <2> QED BY <2>1, TakeTurnTyped
<1>2. TakeChain(Q, n) = after[n]
      BY DEF TakeChain, TakeTurn, TakeStart
<1> HIDE DEF start
<1>3. PICK f : Turns(f, n, Taking, turn, start)
  <2> HIDE DEF turn
  <2> QED BY <1>1, TurnsExist
<1>4. \A i \in 1 .. n : f[i] = TakeTurn(f[i - 1])
  <2> TAKE i \in 1 .. n
  <2>1. i - 1 \in 0 .. n
        OBVIOUS
  <2> QED BY <1>3, <2>1 DEF Turns
<1>5. Follows(f)
      BY <1>3, <1>4 DEF Turns
<1>6. Follows(after)
  <2> HIDE DEF Follows
  <2> QED BY <1>5
<1> HIDE DEF after
<1>7. \A i \in 0 .. n : after[i] = IF i = 0 THEN start ELSE TakeTurn(after[i - 1])
      BY <1>6
<1>8. after[0] = f[0] /\ \A i \in 1 .. n : after[i - 1] = f[i - 1] => after[i] = f[i]
  <2>1. \A i \in 1 .. n : after[i] = TakeTurn(after[i - 1])
        BY <1>7
  <2> QED BY <1>3, <1>4, <1>7, <2>1 DEF Turns
<1>9. after[n] = f[n]
      BY <1>8, SameTurns
<1> QED BY <1>2, <1>3, <1>4, <1>9 DEF TakeRun, Turns, start

LEMMA ReleaseTurns ==
  ASSUME NEW Q \in Pools, NEW q \in Pbufs \cup {Null}
  PROVE  \E f : ReleaseRun(f, Q, q)
<1> DEFINE n == NPbufs + 1
           start == [pool |-> Q, p |-> q]
           turn == [s \in Releasing |-> ReleaseTurn(s)]
           Follows(g) == g = [i \in 0 .. n |-> IF i = 0 THEN start
                                               ELSE ReleaseTurn(g[i - 1])]
           after == CHOOSE g : Follows(g)
<1>1. turn \in [Releasing -> Releasing] /\ start \in Releasing
  <2>1. start \in Releasing
        BY DEF Releasing
  <2> QED BY <2>1, ReleaseTurnTyped
<1>2. Release(Q, q) = after[n].pool
      BY DEF Release, ReleaseTurn
<1>0. n \in Nat
      BY Counts
<1> HIDE DEF n, start
<1>3. PICK f : Turns(f, n, Releasing, turn, start)
  <2> HIDE DEF turn
  <2> QED BY <1>0, <1>1, TurnsExist
<1>4. \A i \in 1 .. n : f[i] = ReleaseTurn(f[i - 1])
  <2> TAKE i \in 1 .. n
  <2>1. i - 1 \in 0 .. n
        BY <1>0
  <2> QED BY <1>3, <2>1 DEF Turns
<1>5. Follows(f)
      BY <1>0, <1>3, <1>4 DEF Turns
<1>6. Follows(after)
  <2> HIDE DEF Follows
  <2> QED BY <1>5
<1> HIDE DEF after
<1>7. \A i \in 0 .. n : after[i] = IF i = 0 THEN start ELSE ReleaseTurn(after[i - 1])
      BY <1>6
<1>8. after[0] = f[0] /\ \A i \in 1 .. n : after[i - 1] = f[i - 1] => after[i] = f[i]
  <2>1. \A i \in 1 .. n : after[i] = ReleaseTurn(after[i - 1])
        BY <1>0, <1>7
  <2> QED BY <1>0, <1>3, <1>4, <1>7, <2>1 DEF Turns
<1>9. after[n] = f[n]
      BY <1>0, <1>8, SameTurns
<1> QED BY <1>2, <1>3, <1>4, <1>9 DEF ReleaseRun, Turns, n, start

\* Whatever has become of the pool, allocating and freeing leave one.
LEMMA FrameTyped ==
  ASSUME NEW Q \in Pools, NEW n \in Nat
  PROVE  TakeAndRelease(Q, n) \in Pools
<1>1. PICK s \in Taking : s = TakeChain(Q, n)
  <2>1. PICK f : TakeRun(f, Q, n)
        BY TakeTurns
  <2> QED BY <2>1 DEF TakeRun
<1>2. PICK R \in Pools, q \in Pbufs \cup {Null} : R = s.pool /\ q = s.first
      BY DEF Taking
<1>3. PICK f : ReleaseRun(f, R, q)
      BY ReleaseTurns
<1>4. Release(R, q) \in Pools
      BY <1>3, Counts DEF ReleaseRun, Releasing
<1> QED BY <1>1, <1>2, <1>4 DEF TakeAndRelease

-----------------------------------------------------------------------------
(***************************************************************************)
(* A frame and the list: pbuf_alloc takes the first k pbufs of the path,   *)
(* linked as they were, and pbuf_free puts them back one by one, the first *)
(* of the chain first.                                                     *)
(***************************************************************************)

\* The chain holds the first k pbufs of the path w of the pool Q.
Chain(s, Q, w, k) ==
  /\ s.pool.head = w[k]
  /\ s.first = IF k = 0 THEN Null ELSE w[0]
  /\ s.last = IF k = 0 THEN Null ELSE w[k - 1]
  /\ \A q \in Pbufs : s.pool.next[q] = IF k # 0 /\ q = w[k - 1] THEN Null ELSE Q.next[q]
  /\ \A q \in On(w, k) : s.pool.ref[q] = 1
  /\ \A q \in Pbufs \ On(w, k) : s.pool.ref[q] = Q.ref[q]

\* Of these k the first r are on the list again.
Freed(s, Q, w, k, r) ==
  /\ s.p = IF r < k THEN w[r] ELSE Null
  /\ s.pool.head = IF r = 0 THEN w[k] ELSE w[r - 1]
  /\ \A j \in 0 .. k - 1 :
       s.pool.next[w[j]] = IF j < r THEN IF j = 0 THEN w[k] ELSE w[j - 1]
                           ELSE IF j = k - 1 THEN Null ELSE w[j + 1]
  /\ \A j \in r .. k - 1 : s.pool.ref[w[j]] = 1
  /\ \A q \in Pbufs \ On(w, k) : s.pool.next[q] = Q.next[q] /\ s.pool.ref[q] = Q.ref[q]

LEMMA OnPath ==
  ASSUME NEW m \in 0 .. NPbufs, NEW Q, NEW w, Path(Q, w, m)
  PROVE  /\ \A k \in 0 .. m - 1 : /\ k \in 0 .. NPbufs /\ w[k] \in Pbufs
                                  /\ k + 1 \in 0 .. m /\ Q.next[w[k]] = w[k + 1]
         /\ \A i, j \in 0 .. m - 1 : w[i] = w[j] => i = j
<1>1. ASSUME NEW k \in 0 .. m - 1
      PROVE  /\ k \in 0 .. NPbufs /\ w[k] \in Pbufs
             /\ k + 1 \in 0 .. m /\ Q.next[w[k]] = w[k + 1]
  <2>1. k \in 0 .. NPbufs /\ k \in 0 .. NPbufs - 1 /\ k + 1 \in 0 .. m /\ ~ k >= m /\ k < m
        BY Counts
  <2> QED BY <2>1 DEF Path
<1>2. \A i, j \in 0 .. m - 1 : w[i] = w[j] => i = j
  <2> TAKE i, j \in 0 .. m - 1
  <2> QED BY <1>1 DEF Path
<1> QED BY <1>1, <1>2

LEMMA TakeTurnChain ==
  ASSUME NEW Q \in Pools, NEW m \in 0 .. NPbufs, NEW w, Path(Q, w, m),
         NEW k \in 0 .. m, NEW s \in Taking, Chain(s, Q, w, k)
  PROVE  \/ Chain(TakeTurn(s), Q, w, k)
         \/ k + 1 \in 0 .. m /\ Chain(TakeTurn(s), Q, w, k + 1)
<1>1. CASE ~s.ok \/ s.pool.head = Null
  <2>1. /\ TakeTurn(s).pool = s.pool /\ TakeTurn(s).first = s.first
        /\ TakeTurn(s).last = s.last
        BY <1>1 DEF TakeTurn, Taking
  <2> QED BY <2>1 DEF Chain
<1>2. CASE s.ok /\ s.pool.head # Null
  <2> DEFINE u == TakeTurn(s)
             x == w[k]
  <2>1. s.pool \in Pools /\ s.pool.head = x
        BY DEF Taking, Chain
  <2>2. k \in 0 .. m - 1 /\ x \in Pbufs /\ k + 1 \in 0 .. m /\ Q.next[x] = w[k + 1]
    <3>0. k \in 0 .. NPbufs /\ x # Null
          BY <1>2, <2>1, Counts
    <3>1. k \in 0 .. NPbufs /\ ~ k >= m
          BY <3>0 DEF Path
    <3>2. k \in 0 .. m - 1
          BY <3>1
    <3> QED BY <3>2, OnPath
  <2>3. \A q \in On(w, k) : q # x
    <3>1. \A i \in 0 .. k - 1 : i \in 0 .. m - 1 /\ i # k
          OBVIOUS
    <3> QED BY <2>2, <3>1, OnPath DEF On
  <2>4. On(w, k + 1) = On(w, k) \cup {x}
    <3>1. \A i \in 0 .. (k + 1) - 1 : i = k \/ i \in 0 .. k - 1
          OBVIOUS
    <3>2. k \in 0 .. (k + 1) - 1 /\ \A i \in 0 .. k - 1 : i \in 0 .. (k + 1) - 1
          OBVIOUS
    <3> QED BY <3>1, <3>2 DEF On
  <2>5. /\ u.first = IF s.first = Null THEN x ELSE s.first
        /\ u.last = x
        /\ u.pool = IF s.last = Null THEN Take(s.pool)
                    ELSE [Take(s.pool) EXCEPT !.next[s.last] = x]
        BY <1>2, <2>1 DEF TakeTurn
  <2>6. /\ Take(s.pool) = [head |-> s.pool.next[x],
                           next |-> [s.pool.next EXCEPT ![x] = Null],
                           ref  |-> [s.pool.ref EXCEPT ![x] = 1]]
        BY <2>1 DEF Take
  <2>7. u.pool.head = s.pool.next[x] /\ u.pool.ref = [s.pool.ref EXCEPT ![x] = 1]
        BY <2>5, <2>6
  <2>8. u.pool.next = IF s.last = Null THEN [s.pool.next EXCEPT ![x] = Null]
                      ELSE [[s.pool.next EXCEPT ![x] = Null] EXCEPT ![s.last] = x]
        BY <2>5, <2>6
  <2> HIDE DEF u
  <2>9. k # 0 => /\ k - 1 \in 0 .. m - 1 /\ w[k - 1] \in Pbufs /\ w[k - 1] # x
                 /\ Q.next[w[k - 1]] = x
    <3> HAVE k # 0
    <3>1. k - 1 \in 0 .. m - 1 /\ (k - 1) + 1 = k /\ k - 1 # k
          OBVIOUS
    <3> QED BY <2>2, <3>1, OnPath
  <2>10. u.pool.head = w[k + 1]
    <3>1. s.pool.next[x] = Q.next[x]
          BY <2>2, <2>9 DEF Chain
    <3> QED BY <2>2, <2>7, <3>1
  <2>11. u.first = w[0] /\ u.last = w[(k + 1) - 1] /\ k + 1 # 0
    <3>1. k # 0 => w[0] # Null
      <4>1. 0 \in 0 .. m - 1
            BY <2>2
      <4>2. w[0] \in Pbufs
            BY <4>1, OnPath
      <4> QED BY <4>2, Counts
    <3>2. (k + 1) - 1 = k
          OBVIOUS
    <3> QED BY <2>5, <3>1, <3>2 DEF Chain
  <2>12. \A q \in Pbufs : u.pool.next[q] = IF q = x THEN Null ELSE Q.next[q]
    <3>1. s.pool.next \in [Pbufs -> Pbufs \cup {Null}]
          BY <2>1 DEF Pools
    <3>2. CASE k = 0
      <4>1. s.last = Null /\ \A q \in Pbufs : s.pool.next[q] = Q.next[q]
            BY <3>2 DEF Chain
      <4> QED BY <2>8, <3>1, <4>1
    <3>3. CASE k # 0
      <4>1. /\ s.last = w[k - 1] /\ s.last # Null
            /\ \A q \in Pbufs : s.pool.next[q] = IF q = w[k - 1] THEN Null ELSE Q.next[q]
            BY <2>9, <3>3, Counts DEF Chain
      <4>2. u.pool.next = [[s.pool.next EXCEPT ![x] = Null] EXCEPT ![w[k - 1]] = x]
            BY <2>8, <4>1
      <4> QED BY <2>9, <3>1, <3>3, <4>1, <4>2
    <3> QED BY <3>2, <3>3
  <2>13. /\ \A q \in On(w, k + 1) : u.pool.ref[q] = 1
         /\ \A q \in Pbufs \ On(w, k + 1) : u.pool.ref[q] = Q.ref[q]
    <3>1. s.pool.ref \in [Pbufs -> 0 .. RefMod - 1]
          BY <2>1 DEF Pools
    <3>2. On(w, k) \subseteq Pbufs
      <4>1. \A i \in 0 .. k - 1 : i \in 0 .. m - 1
            OBVIOUS
      <4> QED BY <4>1, OnPath DEF On
    <3> QED BY <2>2, <2>3, <2>4, <2>7, <3>1, <3>2 DEF Chain
  <2>14. Chain(u, Q, w, k + 1)
         BY <2>10, <2>11, <2>12, <2>13 DEF Chain
  <2> QED BY <2>2, <2>14 DEF u
<1> QED BY <1>1, <1>2

LEMMA ReleaseTurnFreed ==
  ASSUME NEW Q \in Pools, NEW m \in 0 .. NPbufs, NEW w, Path(Q, w, m), NEW k \in 0 .. m,
         NEW r \in 0 .. k, NEW s \in Releasing, Freed(s, Q, w, k, r)
  PROVE  \/ r = k /\ Freed(ReleaseTurn(s), Q, w, k, r)
         \/ r + 1 \in 0 .. k /\ Freed(ReleaseTurn(s), Q, w, k, r + 1)
<1>1. CASE r = k
  <2>1. ReleaseTurn(s) = s
        BY <1>1 DEF Freed, ReleaseTurn
  <2> QED BY <1>1, <2>1
<1>2. CASE r # k
  <2> DEFINE u == ReleaseTurn(s)
             x == w[r]
  <2>1. r < k /\ r \in 0 .. k - 1 /\ r + 1 \in 0 .. k /\ r \in r .. k - 1
        BY <1>2
  <2>2. \A j \in 0 .. k - 1 : /\ j \in 0 .. m - 1 /\ w[j] \in Pbufs
                              /\ w[j] = x => j = r
    <3>1. \A j \in 0 .. k - 1 : j \in 0 .. m - 1
          OBVIOUS
    <3> QED BY <2>1, <3>1, OnPath
  <2>3. x \in Pbufs /\ x # Null /\ x \in On(w, k)
        BY <2>1, <2>2, Counts DEF On
  <2>4. s.p = x /\ s.pool \in Pools /\ s.pool.ref[x] = 1
        BY <2>1 DEF Freed, Releasing
  <2>5. /\ u.pool = [head |-> x, next |-> [s.pool.next EXCEPT ![x] = s.pool.head],
                     ref |-> [s.pool.ref EXCEPT ![x] = 0]]
        /\ u.p = s.pool.next[x]
        BY <2>3, <2>4 DEF ReleaseTurn, ReleaseOne
  <2> HIDE DEF u
  <2>6. u.p = IF r + 1 < k THEN w[r + 1] ELSE Null
    <3>1. s.pool.next[x] = IF r = k - 1 THEN Null ELSE w[r + 1]
          BY <2>1 DEF Freed
    <3>2. r = k - 1 <=> ~ r + 1 < k
          BY <2>1
    <3> QED BY <2>5, <3>1, <3>2
  <2>7. u.pool.head = IF r + 1 = 0 THEN w[k] ELSE w[(r + 1) - 1]
    <3>1. r + 1 # 0 /\ (r + 1) - 1 = r
          OBVIOUS
    <3> QED BY <2>5, <3>1
  <2>8. /\ s.pool.next \in [Pbufs -> Pbufs \cup {Null}]
        /\ s.pool.ref \in [Pbufs -> 0 .. RefMod - 1]
        BY <2>4 DEF Pools
  <2>9. ASSUME NEW j \in 0 .. k - 1
        PROVE  u.pool.next[w[j]] = IF j < r + 1 THEN IF j = 0 THEN w[k] ELSE w[j - 1]
                                   ELSE IF j = k - 1 THEN Null ELSE w[j + 1]
    <3>1. CASE j = r
      <4>1. u.pool.next[x] = s.pool.head /\ j < r + 1
            BY <2>3, <2>5, <2>8, <3>1
      <4> QED BY <3>1, <4>1 DEF Freed
    <3>2. CASE j # r
      <4>1. u.pool.next[w[j]] = s.pool.next[w[j]]
            BY <2>2, <2>5, <2>8, <3>2
      <4>2. j < r + 1 <=> j < r
            BY <3>2
      <4> QED BY <4>1, <4>2 DEF Freed
    <3> QED BY <3>1, <3>2
  <2>10. \A j \in r + 1 .. k - 1 : u.pool.ref[w[j]] = 1
    <3> TAKE j \in r + 1 .. k - 1
    <3>1. j \in r .. k - 1 /\ j \in 0 .. k - 1 /\ j # r
          OBVIOUS
    <3>2. w[j] \in Pbufs /\ w[j] # x
          BY <2>2, <3>1
    <3>3. s.pool.ref[w[j]] = 1
          BY <3>1 DEF Freed
    <3> QED BY <2>5, <2>8, <3>2, <3>3
  <2>11. \A q \in Pbufs \ On(w, k) :
           u.pool.next[q] = Q.next[q] /\ u.pool.ref[q] = Q.ref[q]
         BY <2>3, <2>5, <2>8 DEF Freed
  <2>12. Freed(u, Q, w, k, r + 1)
         BY <2>6, <2>7, <2>9, <2>10, <2>11 DEF Freed
  <2> QED BY <2>1, <2>12 DEF u
<1> QED BY <1>1, <1>2

\* pbuf_alloc takes some k pbufs of the path, no more than were asked for.
LEMMA TakenChain ==
  ASSUME NEW Q \in Pools, NEW m \in 0 .. NPbufs, NEW w, Path(Q, w, m), NEW n \in Nat
  PROVE  \E k \in 0 .. m : k <= n /\ Chain(TakeChain(Q, n), Q, w, k)
<1>1. PICK f : TakeRun(f, Q, n)
      BY TakeTurns
<1> DEFINE T == {i \in 0 .. n : \E k \in 0 .. m : k <= i /\ Chain(f[i], Q, w, k)}
<1>2. 0 \in T
  <2>1. On(w, 0) = {}
        BY DEF On
  <2>2. Chain(TakeStart(Q), Q, w, 0)
        BY <2>1 DEF Chain, TakeStart, Path
  <2>3. f[0] = TakeStart(Q) /\ 0 \in 0 .. m /\ 0 <= 0 /\ 0 \in 0 .. n
        BY <1>1 DEF TakeRun
  <2> QED BY <2>2, <2>3
<1>3. ASSUME NEW i \in 1 .. n, i - 1 \in T PROVE i \in T
  <2>1. PICK k \in 0 .. m : k <= i - 1 /\ Chain(f[i - 1], Q, w, k)
        BY <1>3
  <2>2. f[i - 1] \in Taking /\ f[i] = TakeTurn(f[i - 1])
    <3>1. i - 1 \in 0 .. n
          OBVIOUS
    <3> QED BY <1>1, <3>1 DEF TakeRun
  <2>3. \/ Chain(f[i], Q, w, k)
        \/ k + 1 \in 0 .. m /\ Chain(f[i], Q, w, k + 1)
        BY <2>1, <2>2, TakeTurnChain
  <2>4. k <= i /\ k + 1 <= i /\ i \in 0 .. n
        BY <2>1
  <2> QED BY <2>3, <2>4
<1> HIDE DEF T
<1>4. n \in 0 .. n /\ \A i \in 0 .. n : i \in T
      BY <1>2, <1>3, UpTo
<1>5. n \in T
      BY <1>4
<1>6. TakeChain(Q, n) = f[n]
      BY <1>1 DEF TakeRun
<1> QED BY <1>5, <1>6 DEF T

\* pbuf_free gives these k back, and leaves the rest alone.
LEMMA FreedChain ==
  ASSUME NEW Q \in Pools, NEW m \in 0 .. NPbufs, NEW w, Path(Q, w, m), NEW k \in 0 .. m,
         NEW c \in Taking, Chain(c, Q, w, k)
  PROVE  \E e \in Releasing : e.pool = Release(c.pool, c.first) /\ Freed(e, Q, w, k, k)
<1>1. PICK R \in Pools, a \in Pbufs \cup {Null} : R = c.pool /\ a = c.first
      BY DEF Taking
<1>2. PICK f : ReleaseRun(f, R, a)
      BY ReleaseTurns
<1> DEFINE N == NPbufs + 1
           T == {i \in 0 .. N : \E r \in 0 .. k : (r = i \/ r = k) /\ Freed(f[i], Q, w, k, r)}
<1>3. N \in Nat /\ k < N
      BY Counts
<1>4. /\ f \in [0 .. N -> Releasing] /\ f[0] = [pool |-> R, p |-> a]
      /\ \A i \in 1 .. N : f[i] = ReleaseTurn(f[i - 1])
      /\ Release(R, a) = f[N].pool
      BY <1>2 DEF ReleaseRun
<1> HIDE DEF N
<1>5. Freed(f[0], Q, w, k, 0)
  <2>1. f[0].pool = c.pool /\ f[0].p = c.first
        BY <1>1, <1>4
  <2>2. f[0].p = IF 0 < k THEN w[0] ELSE Null
        BY <2>1 DEF Chain
  <2>3. f[0].pool.head = w[k]
        BY <2>1 DEF Chain
  <2>4. ASSUME NEW j \in 0 .. k - 1
        PROVE  f[0].pool.next[w[j]] = IF j = k - 1 THEN Null ELSE w[j + 1]
    <3>1. /\ j \in 0 .. m - 1 /\ k - 1 \in 0 .. m - 1 /\ k # 0
          OBVIOUS
    <3>2. /\ w[j] \in Pbufs /\ w[k - 1] \in Pbufs /\ Q.next[w[j]] = w[j + 1]
          /\ w[j] = w[k - 1] <=> j = k - 1
          BY <3>1, OnPath
    <3>3. f[0].pool.next[w[j]] = IF w[j] = w[k - 1] THEN Null ELSE Q.next[w[j]]
          BY <2>1, <3>1, <3>2 DEF Chain
    <3> QED BY <3>2, <3>3
  <2>5. \A j \in 0 .. k - 1 : f[0].pool.ref[w[j]] = 1
        BY <2>1 DEF Chain, On
  <2>6. \A q \in Pbufs \ On(w, k) :
          f[0].pool.next[q] = Q.next[q] /\ f[0].pool.ref[q] = Q.ref[q]
    <3> TAKE q \in Pbufs \ On(w, k)
    <3>1. k # 0 => q # w[k - 1]
      <4>1. k # 0 => k - 1 \in 0 .. k - 1
            OBVIOUS
      <4> QED BY <4>1 DEF On
    <3> QED BY <2>1, <3>1 DEF Chain
  <2>7. \A j \in 0 .. k - 1 : ~ j < 0
        OBVIOUS
  <2> QED BY <2>2, <2>3, <2>4, <2>5, <2>6, <2>7 DEF Freed
<1>6. 0 \in T
  <2>1. 0 \in 0 .. k /\ 0 \in 0 .. N
        BY <1>3
  <2> QED BY <1>5, <2>1
<1>7. ASSUME NEW i \in 1 .. N, i - 1 \in T PROVE i \in T
  <2>1. PICK r \in 0 .. k : (r = i - 1 \/ r = k) /\ Freed(f[i - 1], Q, w, k, r)
        BY <1>7
  <2>2. f[i - 1] \in Releasing /\ f[i] = ReleaseTurn(f[i - 1]) /\ i \in 0 .. N
    <3>1. i - 1 \in 0 .. N /\ i \in 0 .. N
          BY <1>3
    <3> QED BY <1>4, <3>1
  <2>3. \/ r = k /\ Freed(f[i], Q, w, k, r)
        \/ r + 1 \in 0 .. k /\ Freed(f[i], Q, w, k, r + 1)
        BY <2>1, <2>2, ReleaseTurnFreed
  <2>4. r + 1 \in 0 .. k => r + 1 = i
        BY <2>1
  <2> QED BY <2>2, <2>3, <2>4
<1> HIDE DEF T
<1>8. \A i \in 0 .. N : i \in T
      BY <1>3, <1>6, <1>7, UpTo
<1>9. N \in 0 .. N
      BY <1>3
<1>10. PICK r \in 0 .. k : (r = N \/ r = k) /\ Freed(f[N], Q, w, k, r)
       BY <1>8, <1>9 DEF T
<1>11. r = k /\ f[N] \in Releasing
       BY <1>3, <1>4, <1>9, <1>10
<1> QED BY <1>1, <1>4, <1>10, <1>11

\* So a frame turns the first k pbufs of the path round and changes nothing
\* else of the list; when k is at most one, it changes nothing.
LEMMA FramePath ==
  ASSUME NEW Q \in Pools, NEW m \in 0 .. NPbufs, NEW w, Path(Q, w, m), NEW n \in Nat,
         NEW R, R = TakeAndRelease(Q, n)
  PROVE  /\ \E v : Path(R, v, m) /\ On(v, m) = On(w, m)
         /\ \A q \in Pbufs \ On(w, m) : R.next[q] = Q.next[q] /\ R.ref[q] = Q.ref[q]
         /\ n <= 1 => R.head = Q.head /\ \A q \in Pbufs : R.next[q] = Q.next[q]
<1>1. PICK k \in 0 .. m : k <= n /\ Chain(TakeChain(Q, n), Q, w, k)
      BY TakenChain
<1>2. PICK c \in Taking : c = TakeChain(Q, n)
  <2>1. PICK f : TakeRun(f, Q, n)
        BY TakeTurns
  <2> QED BY <2>1 DEF TakeRun
<1>3. PICK e \in Releasing : e.pool = R /\ Freed(e, Q, w, k, k)
  <2>1. R = Release(c.pool, c.first)
        BY <1>2 DEF TakeAndRelease
  <2>2. Chain(c, Q, w, k)
        BY <1>1, <1>2
  <2> QED BY <2>1, <2>2, FreedChain
<1>4. /\ R.head = IF k = 0 THEN w[0] ELSE w[k - 1]
      /\ \A j \in 0 .. k - 1 : R.next[w[j]] = IF j = 0 THEN w[k] ELSE w[j - 1]
      /\ \A q \in Pbufs \ On(w, k) : R.next[q] = Q.next[q] /\ R.ref[q] = Q.ref[q]
  <2>1. \A j \in 0 .. k - 1 : j < k
        OBVIOUS
  <2> QED BY <1>3, <2>1 DEF Freed
<1>5. \A j \in 0 .. k - 1 : j \in 0 .. m - 1
      OBVIOUS
<1>6. On(w, k) \subseteq On(w, m)
      BY <1>5 DEF On
<1> DEFINE ix(j) == IF j < k THEN (k - 1) - j ELSE j
           v == [j \in 0 .. NPbufs |-> w[ix(j)]]
<1>7. \A j \in 0 .. m - 1 : ix(j) \in 0 .. m - 1 /\ ix(ix(j)) = j
      OBVIOUS
<1>8. \A j \in 0 .. NPbufs : /\ v[j] = w[ix(j)] /\ ix(j) \in 0 .. NPbufs
                             /\ j >= m => ix(j) = j
                             /\ j < m <=> j \in 0 .. m - 1
      BY Counts
<1>9. Path(R, v, m)
  <2>1. v \in [0 .. NPbufs -> Pbufs \cup {Null}]
        BY <1>8 DEF Path
  <2>2. v[0] = R.head
    <3>1. ix(0) = IF k = 0 THEN 0 ELSE k - 1
          OBVIOUS
    <3> QED BY <1>4, <1>8, <3>1, Counts
  <2>3. \A j \in 0 .. NPbufs : v[j] = Null <=> j >= m
    <3> TAKE j \in 0 .. NPbufs
    <3>1. CASE j >= m
          BY <1>8, <3>1 DEF Path
    <3>2. CASE ~ j >= m
      <4>1. j \in 0 .. m - 1 /\ ix(j) \in 0 .. m - 1
            BY <1>7, <3>2
      <4>2. w[ix(j)] \in Pbufs
            BY <4>1, OnPath
      <4> QED BY <1>8, <3>2, <4>2, Counts
    <3> QED BY <3>1, <3>2
  <2>4. ASSUME NEW j \in 0 .. NPbufs - 1, j < m
        PROVE  R.next[v[j]] = v[j + 1]
    <3>1. j \in 0 .. NPbufs /\ j + 1 \in 0 .. NPbufs /\ j \in 0 .. m - 1
          BY <2>4, Counts
    <3>2. v[j] = w[ix(j)] /\ v[j + 1] = w[ix(j + 1)]
          BY <1>8, <3>1
    <3>3. CASE j < k
      <4>1. /\ ix(j) \in 0 .. k - 1
            /\ ix(j + 1) = IF ix(j) = 0 THEN k ELSE ix(j) - 1
            BY <3>3
      <4> HIDE DEF ix
      <4> QED BY <1>4, <3>2, <4>1
    <3>4. CASE ~ j < k
      <4>1. ix(j) = j /\ ix(j + 1) = j + 1
            BY <3>4
      <4>2. w[j] \in Pbufs /\ Q.next[w[j]] = w[j + 1]
            BY <3>1, OnPath
      <4>3. w[j] \notin On(w, k)
        <5>1. \A i \in 0 .. k - 1 : i # j
              BY <3>4
        <5> QED BY <1>5, <3>1, <5>1, OnPath DEF On
      <4> QED BY <1>4, <3>2, <4>1, <4>2, <4>3
    <3> QED BY <3>3, <3>4
  <2>5. ASSUME NEW i \in 0 .. NPbufs, NEW j \in 0 .. NPbufs, i < m, v[i] = v[j]
        PROVE  i = j
    <3>1. i \in 0 .. m - 1 /\ ix(i) \in 0 .. m - 1 /\ ix(i) < m
          BY <1>7, <2>5
    <3>2. ix(i) = ix(j)
      <4>1. ix(i) \in 0 .. NPbufs /\ ix(j) \in 0 .. NPbufs /\ w[ix(i)] = w[ix(j)]
            BY <1>8, <2>5
      <4> HIDE DEF ix
      <4> QED BY <3>1, <4>1 DEF Path
    <3>3. j \in 0 .. m - 1
          BY <1>8, <3>1, <3>2
    <3> QED BY <1>7, <3>1, <3>2, <3>3
  <2> HIDE DEF v
  <2> QED BY <2>1, <2>2, <2>3, <2>4, <2>5 DEF Path
<1>10. On(v, m) = On(w, m)
  <2>1. \A j \in 0 .. m - 1 : j \in 0 .. NPbufs
        BY Counts
  <2>2. \A j \in 0 .. m - 1 : v[j] = w[ix(j)] /\ w[j] = v[ix(j)]
        BY <1>7, <1>8, <2>1
  <2> HIDE DEF v, ix
  <2> QED BY <1>7, <2>2 DEF On
<1>11. ASSUME n <= 1
       PROVE  R.head = Q.head /\ \A q \in Pbufs : R.next[q] = Q.next[q]
  <2>1. k = 0 \/ k = 1
        BY <1>1, <1>11
  <2>2. R.head = Q.head
        BY <1>4, <2>1 DEF Path
  <2>3. \A q \in On(w, k) : R.next[q] = Q.next[q]
    <3>1. CASE k = 0
          BY <3>1 DEF On
    <3>2. CASE k = 1
      <4>1. /\ 0 \in 0 .. k - 1 /\ 0 \in 0 .. m - 1 /\ 0 + 1 = k
            /\ \A j \in 0 .. k - 1 : j = 0
            BY <3>2
      <4>2. Q.next[w[0]] = w[k]
            BY <4>1, OnPath
      <4>3. R.next[w[0]] = w[k]
            BY <1>4, <4>1
      <4> QED BY <4>1, <4>2, <4>3 DEF On
    <3> QED BY <2>1, <3>1, <3>2
  <2> QED BY <1>4, <2>2, <2>3
<1> QED BY <1>4, <1>6, <1>9, <1>10, <1>11

-----------------------------------------------------------------------------
(***************************************************************************)
(* The list of all pbufs but those in held, and what TIM2's stores do to   *)
(* it.                                                                     *)
(***************************************************************************)
Listed(Q, held) == \E m \in 0 .. NPbufs : \E w : Path(Q, w, m) /\ On(w, m) = Pbufs \ held

LEMMA ListedIsFree ==
  ASSUME NEW Q, NEW held, Listed(Q, held)
  PROVE  FreeList(Q) = Pbufs \ held
<1>1. PICK m \in 0 .. NPbufs : \E w : Path(Q, w, m) /\ On(w, m) = Pbufs \ held
      BY DEF Listed
<1>2. PICK w : Path(Q, w, m) /\ On(w, m) = Pbufs \ held
      BY <1>1
<1> QED BY <1>2, FreeListIsPath

LEMMA ListedFrame ==
  ASSUME NEW Q \in Pools, NEW held \in SUBSET Pbufs, Listed(Q, held), NEW n \in Nat,
         NEW R, R = TakeAndRelease(Q, n)
  PROVE  /\ Listed(R, held)
         /\ \A q \in held : R.next[q] = Q.next[q] /\ R.ref[q] = Q.ref[q]
         /\ n <= 1 => R.head = Q.head /\ \A q \in Pbufs : R.next[q] = Q.next[q]
<1>1. PICK m \in 0 .. NPbufs : \E w : Path(Q, w, m) /\ On(w, m) = Pbufs \ held
      BY DEF Listed
<1>2. PICK w : Path(Q, w, m) /\ On(w, m) = Pbufs \ held
      BY <1>1
<1>3. /\ \E v : Path(R, v, m) /\ On(v, m) = On(w, m)
      /\ \A q \in Pbufs \ On(w, m) : R.next[q] = Q.next[q] /\ R.ref[q] = Q.ref[q]
      /\ n <= 1 => R.head = Q.head /\ \A q \in Pbufs : R.next[q] = Q.next[q]
      BY <1>2, FramePath
<1> QED BY <1>2, <1>3 DEF Listed

\* What changes no link on the list leaves it alone.
LEMMA ListedKept ==
  ASSUME NEW Q, NEW held, Listed(Q, held), NEW R, R.head = Q.head,
         \A q \in Pbufs \ held : R.next[q] = Q.next[q]
  PROVE  Listed(R, held)
<1>1. PICK m \in 0 .. NPbufs : \E w : Path(Q, w, m) /\ On(w, m) = Pbufs \ held
      BY DEF Listed
<1>2. PICK w : Path(Q, w, m) /\ On(w, m) = Pbufs \ held
      BY <1>1
<1>3. \A k \in 0 .. NPbufs - 1 : k < m => w[k] \in Pbufs \ held
  <2>1. \A k \in 0 .. NPbufs - 1 : k < m => k \in 0 .. m - 1
        OBVIOUS
  <2> QED BY <1>2, <2>1 DEF On
<1>4. Path(R, w, m)
      BY <1>2, <1>3 DEF Path
<1> QED BY <1>2, <1>4 DEF Listed

\* memp_malloc's store of the head.
LEMMA ListedPop ==
  ASSUME NEW Q, NEW q \in Pbufs, Listed(Q, {}), Q.head = q, NEW R, R.head = Q.next[q],
         \A x \in Pbufs : R.next[x] = Q.next[x]
  PROVE  Listed(R, {q})
<1>1. PICK m \in 0 .. NPbufs : \E w : Path(Q, w, m) /\ On(w, m) = Pbufs \ {}
      BY DEF Listed
<1>2. PICK w : Path(Q, w, m) /\ On(w, m) = Pbufs
      BY <1>1
<1> DEFINE v == [k \in 0 .. NPbufs |-> IF k < NPbufs THEN w[k + 1] ELSE Null]
<1>3. w[0] = q /\ m \in 1 .. NPbufs /\ m - 1 \in 0 .. NPbufs /\ 0 \in 0 .. m - 1
  <2>1. w[0] = q /\ q # Null
        BY <1>2, Counts DEF Path
  <2>2. ~ 0 >= m
        BY <1>2, <2>1, Counts DEF Path
  <2> QED BY <2>1, <2>2, Counts
<1>4. \A k \in 0 .. NPbufs : /\ k < NPbufs => v[k] = w[k + 1] /\ k + 1 \in 0 .. NPbufs
                             /\ k = NPbufs => v[k] = Null
                             /\ k < NPbufs \/ k = NPbufs
      BY Counts
<1> HIDE DEF v
<1>5. Path(R, v, m - 1)
  <2>1. v \in [0 .. NPbufs -> Pbufs \cup {Null}]
    <3>1. w \in [0 .. NPbufs -> Pbufs \cup {Null}]
          BY <1>2 DEF Path
    <3>2. \A k \in 0 .. NPbufs : v[k] \in Pbufs \cup {Null}
          BY <1>4, <3>1
    <3> QED BY <3>2 DEF v
  <2>2. v[0] = R.head
    <3>1. Q.next[w[0]] = w[0 + 1]
          BY <1>2, <1>3, OnPath
    <3> QED BY <1>3, <1>4, <3>1, Counts
  <2>3. \A k \in 0 .. NPbufs : v[k] = Null <=> k >= m - 1
    <3> TAKE k \in 0 .. NPbufs
    <3>1. CASE k < NPbufs
      <4>1. k + 1 >= m <=> k >= m - 1
            OBVIOUS
      <4> QED BY <1>2, <1>4, <3>1, <4>1 DEF Path
    <3>2. CASE k = NPbufs
          BY <1>4, <3>2
    <3> QED BY <1>4, <3>1, <3>2
  <2>4. ASSUME NEW k \in 0 .. NPbufs - 1, k < m - 1
        PROVE  R.next[v[k]] = v[k + 1]
    <3>1. /\ k \in 0 .. NPbufs /\ k < NPbufs /\ k + 1 \in 0 .. NPbufs /\ k + 1 < NPbufs
          /\ k + 1 \in 0 .. m - 1
          BY <2>4, Counts
    <3>2. w[k + 1] \in Pbufs /\ Q.next[w[k + 1]] = w[(k + 1) + 1]
          BY <1>2, <3>1, OnPath
    <3> QED BY <1>4, <3>1, <3>2
  <2>5. ASSUME NEW i \in 0 .. NPbufs, NEW j \in 0 .. NPbufs, i < m - 1, v[i] = v[j]
        PROVE  i = j
    <3>1. v[i] # Null /\ j < m - 1
          BY <2>3, <2>5
    <3>2. /\ i < NPbufs /\ j < NPbufs /\ i + 1 \in 0 .. NPbufs /\ j + 1 \in 0 .. NPbufs
          /\ i + 1 < m /\ w[i + 1] = w[j + 1]
          BY <1>4, <2>5, <3>1
    <3>3. i + 1 = j + 1
          BY <1>2, <3>2 DEF Path
    <3> QED BY <3>3
  <2> QED BY <2>1, <2>2, <2>3, <2>4, <2>5 DEF Path
<1>6. On(v, m - 1) = Pbufs \ {q}
  <2>1. \A k \in 0 .. m - 1 - 1 : v[k] = w[k + 1] /\ k + 1 \in 0 .. m - 1 /\ k + 1 # 0
    <3> TAKE k \in 0 .. m - 1 - 1
    <3>1. k \in 0 .. NPbufs /\ k < NPbufs /\ k + 1 \in 0 .. m - 1 /\ k + 1 # 0
          BY <1>3, Counts
    <3> QED BY <1>4, <3>1
  <2>2. \A k \in 0 .. m - 1 - 1 : v[k] \in Pbufs \ {q}
        BY <1>2, <1>3, <2>1, OnPath
  <2>3. \A x \in Pbufs \ {q} : \E k \in 0 .. m - 1 - 1 : v[k] = x
    <3> TAKE x \in Pbufs \ {q}
    <3>1. PICK k \in 0 .. m - 1 : w[k] = x
          BY <1>2 DEF On
    <3>2. k # 0
          BY <1>3, <3>1
    <3>3. k - 1 \in 0 .. m - 1 - 1 /\ (k - 1) + 1 = k
          BY <3>2
    <3>4. v[k - 1] = x
          BY <2>1, <3>1, <3>3
    <3> QED BY <3>3, <3>4
  <2> QED BY <2>2, <2>3 DEF On
<1> QED BY <1>3, <1>5, <1>6 DEF Listed

\* memp_free's store of the head, the link being in place.
LEMMA ListedPush ==
  ASSUME NEW Q, NEW q \in Pbufs, Listed(Q, {q}), Q.next[q] = Q.head, NEW R, R.head = q,
         \A x \in Pbufs : R.next[x] = Q.next[x]
  PROVE  Listed(R, {})
<1>1. PICK m \in 0 .. NPbufs : \E w : Path(Q, w, m) /\ On(w, m) = Pbufs \ {q}
      BY DEF Listed
<1>2. PICK w : Path(Q, w, m) /\ On(w, m) = Pbufs \ {q}
      BY <1>1
<1>3. \A k \in 0 .. m - 1 : w[k] \in Pbufs \ {q}
      BY <1>2 DEF On
<1>4. m + 1 \in 0 .. NPbufs
  <2> DEFINE S == 0 .. m - 1
             T == Pbufs \ {q}
             f == [k \in S |-> w[k]]
  <2>1. f \in [S -> T] /\ \A i, j \in S : f[i] = f[j] => i = j
        BY <1>2, <1>3, OnPath
  <2>2. IsFiniteSet(Pbufs) /\ Cardinality(Pbufs) = NPbufs
    <3>1. 1 \in Int /\ NPbufs \in Int /\ ~ 1 > NPbufs /\ NPbufs - 1 + 1 = NPbufs
          BY Counts
    <3>2. IsFiniteSet(1 .. NPbufs) /\ Cardinality(1 .. NPbufs) = NPbufs - 1 + 1
          BY <3>1, FS_Interval
    <3> QED BY <3>1, <3>2 DEF Pbufs
  <2>3. IsFiniteSet(T) /\ Cardinality(T) = NPbufs - 1
        BY <2>2, FS_RemoveElement
  <2>4. Cardinality(S) = m
        BY FS_Interval
  <2> HIDE DEF S, T, f
  <2>5. f \in Injection(S, T)
        BY <2>1 DEF Injection, IsInjective
  <2>6. Cardinality(S) <= Cardinality(T)
        BY <2>3, <2>5, FS_Injection
  <2> QED BY <2>3, <2>4, <2>6, Counts
<1> DEFINE v == [k \in 0 .. NPbufs |-> IF k = 0 THEN q ELSE w[k - 1]]
<1>5. /\ v[0] = q
      /\ \A k \in 0 .. NPbufs : k # 0 => k - 1 \in 0 .. NPbufs /\ v[k] = w[k - 1]
      BY Counts
<1> HIDE DEF v
<1>6. \A k \in 0 .. m : k # 0 => k - 1 \in 0 .. m - 1 /\ v[k] = w[k - 1] /\ v[k] # q
  <2> TAKE k \in 0 .. m
  <2> HAVE k # 0
  <2>1. k \in 0 .. NPbufs /\ k - 1 \in 0 .. m - 1
        BY Counts
  <2> QED BY <1>3, <1>5, <2>1
<1>7. Path(R, v, m + 1)
  <2>1. v \in [0 .. NPbufs -> Pbufs \cup {Null}]
    <3>1. w \in [0 .. NPbufs -> Pbufs \cup {Null}]
          BY <1>2 DEF Path
    <3>2. \A k \in 0 .. NPbufs : v[k] \in Pbufs \cup {Null}
          BY <1>5, <3>1
    <3> QED BY <3>2 DEF v
  <2>2. \A k \in 0 .. NPbufs : v[k] = Null <=> k >= m + 1
    <3> TAKE k \in 0 .. NPbufs
    <3>1. CASE k = 0
          BY <1>5, <3>1, Counts
    <3>2. CASE k # 0
      <4>1. k - 1 >= m <=> k >= m + 1
            OBVIOUS
      <4> QED BY <1>2, <1>5, <3>2, <4>1 DEF Path
    <3> QED BY <3>1, <3>2
  <2>3. ASSUME NEW k \in 0 .. NPbufs - 1, k < m + 1
        PROVE  R.next[v[k]] = v[k + 1]
    <3>1. /\ k + 1 \in 0 .. NPbufs /\ k + 1 # 0 /\ (k + 1) - 1 = k
          /\ k \in 0 .. NPbufs /\ k \in 0 .. m
          BY <2>3, Counts
    <3>2. v[k + 1] = w[k]
          BY <1>5, <3>1
    <3>3. CASE k = 0
          BY <1>2, <1>5, <3>2, <3>3 DEF Path
    <3>4. CASE k # 0
      <4>1. k - 1 \in 0 .. m - 1 /\ v[k] = w[k - 1] /\ (k - 1) + 1 = k
            BY <1>6, <3>1, <3>4
      <4>2. w[k - 1] \in Pbufs /\ Q.next[w[k - 1]] = w[k]
            BY <1>2, <4>1, OnPath
      <4> QED BY <3>2, <4>1, <4>2
    <3> QED BY <3>3, <3>4
  <2>4. ASSUME NEW i \in 0 .. NPbufs, NEW j \in 0 .. NPbufs, i < m + 1, v[i] = v[j]
        PROVE  i = j
    <3>1. i \in 0 .. m /\ j \in 0 .. m
      <4>1. i \in 0 .. m
            BY <2>4
      <4>2. v[j] # Null
            BY <2>2, <2>4
      <4> QED BY <2>2, <4>1, <4>2
    <3>2. CASE i = 0 \/ j = 0
          BY <1>5, <1>6, <2>4, <3>1, <3>2
    <3>3. CASE i # 0 /\ j # 0
      <4>1. /\ i - 1 \in 0 .. m - 1 /\ j - 1 \in 0 .. m - 1
            /\ w[i - 1] = w[j - 1]
            BY <1>6, <2>4, <3>1, <3>3
      <4>2. i - 1 = j - 1
            BY <1>2, <4>1, OnPath
      <4> QED BY <4>2
    <3> QED BY <3>2, <3>3
  <2> QED BY <1>5, <2>1, <2>2, <2>3, <2>4 DEF Path
<1>8. On(v, m + 1) = Pbufs
  <2>1. \A k \in 0 .. m : v[k] \in Pbufs
        BY <1>3, <1>5, <1>6
  <2>2. \A x \in Pbufs : \E k \in 0 .. m : v[k] = x
    <3> TAKE x \in Pbufs
    <3>1. CASE x = q
          BY <1>5, <3>1
    <3>2. CASE x # q
      <4>1. PICK k \in 0 .. m - 1 : w[k] = x
            BY <1>2, <3>2 DEF On
      <4>2. k + 1 \in 0 .. m /\ k + 1 # 0 /\ (k + 1) - 1 = k
            OBVIOUS
      <4>3. v[k + 1] = x
            BY <1>6, <4>1, <4>2
      <4> QED BY <4>2, <4>3
    <3> QED BY <3>1, <3>2
  <2>3. (m + 1) - 1 = m
        OBVIOUS
  <2> QED BY <2>1, <2>2, <2>3 DEF On
<1> QED BY <1>4, <1>7, <1>8 DEF Listed

-----------------------------------------------------------------------------
(***************************************************************************)
(* The pool through TIM2's accesses: as long as no frame of several pbufs  *)
(* has come in the middle of one, the list holds all but TIM2's pbuf, and  *)
(* what TIM2 has read of it is still so.                                   *)
(***************************************************************************)
Wired   == mpc \in {"bind", "recv", "start", "loop"} => pcb.ip \in Hosts /\ pcb.port \in Ports
HasPbuf == t \in {"next", "store", "send", "free", "push"} => p \in Pbufs

Types == TypeOK /\ Wired /\ HasPbuf

StillSo == /\ t \in {"next", "store"} => p = pool.head
           /\ t = "store" => h = pool.next[p]
           /\ t = "push"  => pool.next[p] = pool.head
           /\ t = "free"  => pool.ref[p] = 1

ListInv == ~ mixed => Listed(pool, Held) /\ StillSo

LEMMA InitListInv == Init => Types /\ ListInv
<1> SUFFICES ASSUME Init PROVE Types /\ ListInv
    OBVIOUS
<1>1. InitialPool \in Pools
      BY Counts, PbufAssumption DEF InitialPool, Pools, Pbufs, Null
<1>2. Types
  <2>1. pcb \in [local : Ports \cup {None}, ip : Hosts \cup {None},
                 port : Ports \cup {None}, recv : BOOLEAN]
        BY DEF Init, NoPcb
  <2>2. cnt \in 0 .. NSamples - 1
        BY UdpAssumption DEF Init
  <2>3. remoteip \in Hosts /\ pool \in Pools
        BY <1>1, UdpAssumption DEF Init
  <2> QED BY <2>1, <2>2, <2>3 DEF Init, Types, TypeOK, Wired, HasPbuf
<1> DEFINE w == [k \in 0 .. NPbufs |-> NPbufs - k]
<1>3. Path(InitialPool, w, NPbufs)
  <2>1. /\ w \in [0 .. NPbufs -> Pbufs \cup {Null}] /\ w[0] = InitialPool.head
        /\ \A k \in 0 .. NPbufs : w[k] = Null <=> k >= NPbufs
        BY Counts DEF InitialPool, Pbufs, Null
  <2>2. ASSUME NEW k \in 0 .. NPbufs - 1 PROVE InitialPool.next[w[k]] = w[k + 1]
    <3>1. w[k] \in Pbufs /\ w[k] = NPbufs - k /\ w[k + 1] = w[k] - 1
          BY Counts DEF Pbufs
    <3> QED BY <3>1 DEF InitialPool
  <2>3. \A i, j \in 0 .. NPbufs : w[i] = w[j] => i = j
        BY Counts
  <2> HIDE DEF w
  <2> QED BY <2>1, <2>2, <2>3 DEF Path
<1>4. On(w, NPbufs) = Pbufs
  <2>1. \A k \in 0 .. NPbufs - 1 : w[k] \in Pbufs
        BY Counts DEF Pbufs
  <2>2. \A x \in Pbufs : NPbufs - x \in 0 .. NPbufs - 1 /\ w[NPbufs - x] = x
        BY Counts DEF Pbufs
  <2> HIDE DEF w
  <2> QED BY <2>1, <2>2 DEF On
<1>5. Held = {} /\ StillSo /\ pool = InitialPool
      BY DEF Init, Held, StillSo
<1> HIDE DEF w
<1>6. NPbufs \in 0 .. NPbufs
      BY Counts
<1> QED BY <1>2, <1>3, <1>4, <1>5, <1>6 DEF ListInv, Listed

\* Main leaves the pool alone, and starts TIM2 when it is set up.
LEMMA MainListInv == UInv /\ Types /\ ListInv /\ Main => Types' /\ ListInv'
<1> SUFFICES ASSUME UInv, Types, ListInv, Main PROVE Types' /\ ListInv'
    OBVIOUS
<1>1. /\ UNCHANGED <<p, h, pool, mixed, cnt, sent>>
      /\ t' = t \/ (t' = "idle" /\ mpc = "start")
      BY DEF Main, SetRemoteIp, Buffer, New, Connect, Bind, Recv, Start, Notice, Stay, tim2Vars
<1>2. t' # t => t = "off"
      BY <1>1 DEF UInv, Running
<1>3. ListInv'
      BY <1>1, <1>2 DEF ListInv, Held, StillSo
<1>4. HasPbuf'
      BY <1>1 DEF Types, HasPbuf
<1>5. /\ mpc' \in {"menu", "buffer", "new", "connect", "bind", "recv", "start", "loop"}
      /\ target' \in Peers \cup {None} /\ remoteip' \in Hosts /\ flag' \in BOOLEAN
      /\ pcb' \in [local : Ports \cup {None}, ip : Hosts \cup {None},
                   port : Ports \cup {None}, recv : BOOLEAN]
      /\ Wired'
  <2> USE DEF Types, TypeOK, Wired, Stay
  <2>1. CASE SetRemoteIp
        BY <2>1, UdpAssumption DEF SetRemoteIp
  <2>2. CASE Buffer
        BY <2>2 DEF Buffer
  <2>3. CASE New
        BY <2>3 DEF New, NoPcb, Ports
  <2>4. CASE Connect
        BY <2>4 DEF Connect, Ports, Peers
  <2>5. CASE Bind
        BY <2>5 DEF Bind, Ports
  <2>6. CASE Recv
        BY <2>6 DEF Recv
  <2>7. CASE Start
        BY <2>7 DEF Start
  <2>8. CASE Notice
        BY <2>8 DEF Notice, mainVars
  <2> QED BY <2>1, <2>2, <2>3, <2>4, <2>5, <2>6, <2>7, <2>8 DEF Main
<1>6. TypeOK'
      BY <1>1, <1>5 DEF Types, TypeOK
<1> QED BY <1>3, <1>4, <1>5, <1>6 DEF Types

\* TIM2's own accesses.
LEMMA Tim2Types == UInv /\ Types /\ Tim2 => Types'
<1> SUFFICES ASSUME UInv, Types, Tim2 PROVE Types'
    OBVIOUS
<1>1. /\ t # "off" /\ t' \in {"idle", "next", "store", "send", "free", "push", "count"}
      /\ UNCHANGED <<mpc, target, remoteip, pcb, flag, mixed>>
      BY DEF Tim2, Begin, ReadNext, StoreHead, Send, Free, Push, Count, At, mainVars
<1>2. p \in Pbufs \cup {Null} /\ h \in Pbufs \cup {Null} /\ pool \in Pools
      /\ 0 \in 0 .. RefMod - 1 /\ 1 \in 0 .. RefMod - 1
      BY PbufAssumption DEF Types, TypeOK
<1>3. /\ p' \in Pbufs \cup {Null} /\ h' \in Pbufs \cup {Null} /\ pool' \in Pools
      /\ cnt' \in 0 .. NSamples - 1 /\ (sent' = sent \/ Send)
      /\ HasPbuf'
  <2> USE <1>2 DEF Types, HasPbuf, At
  <2>0. cnt \in 0 .. NSamples - 1 /\ Null \notin Pbufs
        BY Counts DEF TypeOK
  <2>1. CASE Begin
    <3>1. pool.head \in Pbufs \cup {Null}
          BY DEF Pools
    <3> QED BY <2>0, <2>1, <3>1 DEF Begin
  <2>2. CASE ReadNext
    <3>1. p \in Pbufs
          BY <2>2 DEF ReadNext
    <3>2. pool.next[p] \in Pbufs \cup {Null}
          BY <3>1 DEF Pools
    <3> QED BY <2>0, <2>2, <3>1, <3>2 DEF ReadNext
  <2>3. CASE StoreHead
    <3>1. pool' \in Pools
          BY <2>3 DEF StoreHead, Pools
    <3> QED BY <2>0, <2>3, <3>1 DEF StoreHead
  <2>4. CASE Send
    <3>1. pool' \in Pools
          BY <2>4 DEF Send, Pools, Null
    <3> QED BY <2>0, <2>4, <3>1 DEF Send
  <2>5. CASE Free
    <3>1. p \in Pbufs
          BY <2>5 DEF Free
    <3>2. pool.head \in Pbufs \cup {Null}
          BY DEF Pools
    <3>3. [pool EXCEPT !.ref[p] = 0, !.next[p] = pool.head] \in Pools
          BY <3>1, <3>2 DEF Pools
    <3>4. ReleaseOne(pool, p) \in Pools
          BY <3>1, ReleaseOneTyped
    <3> QED BY <2>0, <2>5, <3>1, <3>3, <3>4 DEF Free
  <2>6. CASE Push
    <3>1. p \in Pbufs
          BY <2>6 DEF Push
    <3>2. pool' \in Pools
          BY <2>6, <3>1 DEF Push, Pools
    <3> QED BY <2>0, <2>6, <3>1, <3>2 DEF Push
  <2>7. CASE Count
    <3>1. (cnt + 1) % NSamples \in 0 .. NSamples - 1
      <4>1. cnt + 1 \in Nat /\ NSamples \in Nat \ {0}
            BY <2>0, UdpAssumption
      <4> QED BY <4>1
    <3> QED BY <2>0, <2>7, <3>1 DEF Count
  <2> QED BY <2>1, <2>2, <2>3, <2>4, <2>5, <2>6, <2>7 DEF Tim2
<1>4. sent' = None \/ sent' \in [from : Ports, to : Peers]
  <2>1. CASE sent' = sent
        BY <2>1 DEF Types, TypeOK
  <2>2. CASE Send
    <3>1. mpc = "loop" /\ pcb.local = DemoPort /\ pcb.ip \in Hosts /\ pcb.port \in Ports
          BY <1>1 DEF UInv, Running, SetUp, Bound, Types, Wired
    <3>2. pcb.local \in Ports /\ [ip |-> pcb.ip, port |-> pcb.port] \in Peers
          BY <3>1 DEF Ports, Peers
    <3> QED BY <2>2, <3>2 DEF Send
  <2> QED BY <1>3, <2>1, <2>2
<1>5. TypeOK'
      BY <1>1, <1>3, <1>4 DEF Types, TypeOK
<1>6. Wired'
      BY <1>1 DEF Types, Wired
<1> QED BY <1>3, <1>5, <1>6 DEF Types

LEMMA Tim2ListInv == Types /\ ListInv /\ Tim2 => ListInv'
<1> SUFFICES ASSUME Types, ListInv, Tim2, ~ mixed' PROVE Listed(pool, Held)' /\ StillSo'
    BY DEF ListInv
<1>1. mixed' = mixed
      BY DEF Tim2, Begin, ReadNext, StoreHead, Send, Free, Push, Count, At
<1>2. Listed(pool, Held) /\ StillSo
      BY <1>1 DEF ListInv
<1>3. /\ pool \in Pools /\ pool.next \in [Pbufs -> Pbufs \cup {Null}]
      /\ pool.ref \in [Pbufs -> 0 .. RefMod - 1] /\ HasPbuf
      BY DEF Types, TypeOK, Pools
<1>4. CASE Begin
      BY <1>2, <1>4 DEF Begin, At, Held, StillSo
<1>5. CASE ReadNext
      BY <1>2, <1>5 DEF ReadNext, At, Held, StillSo
<1>6. CASE StoreHead
  <2>1. /\ t = "store" /\ t' = "send" /\ p' = p /\ p \in Pbufs /\ p = pool.head
        /\ h = pool.next[p] /\ pool' = [pool EXCEPT !.head = h]
        BY <1>2, <1>3, <1>6 DEF StoreHead, At, StillSo, HasPbuf
  <2>2. pool'.head = pool.next[p] /\ pool'.next = pool.next
        BY <1>3, <2>1 DEF Pools
  <2>3. Held = {} /\ Held' = {p}
        BY <2>1 DEF Held
  <2>4. Listed(pool', {p})
        BY <1>2, <2>1, <2>2, <2>3, ListedPop
  <2> QED BY <2>1, <2>3, <2>4 DEF StillSo
<1>7. CASE Send
  <2>1. /\ t = "send" /\ t' = "free" /\ p' = p /\ p \in Pbufs
        /\ pool' = [pool EXCEPT !.next[p] = Null, !.ref[p] = 1]
        BY <1>3, <1>7 DEF Send, At, HasPbuf
  <2>2. /\ pool'.head = pool.head /\ pool'.ref[p] = 1
        /\ \A q \in Pbufs \ {p} : pool'.next[q] = pool.next[q]
        BY <1>3, <2>1 DEF Pools
  <2>3. Held = {p} /\ Held' = {p}
        BY <2>1 DEF Held
  <2>4. Listed(pool', {p})
        BY <1>2, <2>2, <2>3, ListedKept
  <2> QED BY <2>1, <2>2, <2>3, <2>4 DEF StillSo
<1>8. CASE Free
  <2>1. /\ t = "free" /\ t' = "push" /\ p' = p /\ p \in Pbufs
        /\ pool' = [pool EXCEPT !.ref[p] = 0, !.next[p] = pool.head]
        BY <1>2, <1>3, <1>8 DEF Free, At, StillSo, HasPbuf
  <2>2. /\ pool'.head = pool.head /\ pool'.next[p] = pool.head
        /\ \A q \in Pbufs \ {p} : pool'.next[q] = pool.next[q]
        BY <1>3, <2>1 DEF Pools
  <2>3. Held = {p} /\ Held' = {p}
        BY <2>1 DEF Held
  <2>4. Listed(pool', {p})
        BY <1>2, <2>2, <2>3, ListedKept
  <2> QED BY <2>1, <2>2, <2>3, <2>4 DEF StillSo
<1>9. CASE Push
  <2>1. /\ t = "push" /\ t' = "count" /\ p \in Pbufs /\ pool.next[p] = pool.head
        /\ pool' = [pool EXCEPT !.head = p]
        BY <1>2, <1>3, <1>9 DEF Push, At, StillSo, HasPbuf
  <2>2. pool'.head = p /\ pool'.next = pool.next
        BY <1>3, <2>1 DEF Pools
  <2>3. Held = {p} /\ Held' = {}
        BY <2>1 DEF Held
  <2>4. Listed(pool', {})
        BY <1>2, <2>1, <2>2, <2>3, ListedPush
  <2> QED BY <2>1, <2>3, <2>4 DEF StillSo
<1>10. CASE Count
       BY <1>2, <1>10 DEF Count, At, Held, StillSo
<1> QED BY <1>4, <1>5, <1>6, <1>7, <1>8, <1>9, <1>10 DEF Tim2

\* A frame, between any two of TIM2's accesses.
LEMMA EthListInv == UInv /\ Types /\ ListInv /\ Eth => Types' /\ ListInv'
<1> SUFFICES ASSUME NEW n \in 1 .. Long, NEW peer \in Peers, NEW port \in Ports,
                    UInv, Types, ListInv, Frame(n, peer, port)
             PROVE  Types' /\ ListInv'
    BY DEF Eth
<1>1. /\ pool' = TakeAndRelease(pool, n) /\ mixed' = (mixed \/ (InFreeList /\ n > 1))
      /\ UNCHANGED <<mpc, target, t, cnt, p, h, sent>>
      BY DEF Frame, mainVars, tim2Vars
<1>2. n \in Nat /\ n >= 1 /\ pool \in Pools
      BY DEF Types, TypeOK
<1>3. pool' \in Pools
      BY <1>1, <1>2, FrameTyped
<1>4. pcb' = pcb /\ remoteip' \in Hosts /\ flag' \in BOOLEAN
  <2>1. peer.ip \in Hosts
        BY DEF Peers
  <2>2. CASE UNCHANGED <<pcb, remoteip, flag>>
        BY <2>2 DEF Types, TypeOK
  <2>3. CASE /\ Matches(peer, port)
             /\ pcb' = [pcb EXCEPT !.ip = peer.ip, !.port = peer.port]
             /\ remoteip' = peer.ip /\ flag' = TRUE
    <3>1. pcb' = pcb
          BY <2>3 DEF Matches, Types, TypeOK
    <3> QED BY <2>1, <2>3, <3>1
  <2>4. \/ UNCHANGED <<pcb, remoteip, flag>>
        \/ /\ Matches(peer, port)
           /\ pcb' = [pcb EXCEPT !.ip = peer.ip, !.port = peer.port]
           /\ remoteip' = peer.ip /\ flag' = TRUE
        BY DEF Frame, Deliver
  <2> QED BY <2>2, <2>3, <2>4
<1>5. Types'
  <2>1. mixed' \in BOOLEAN
        BY <1>1
  <2> QED BY <1>1, <1>3, <1>4, <2>1 DEF Types, TypeOK, Wired, HasPbuf
<1>6. ASSUME ~ mixed' PROVE Listed(pool, Held)' /\ StillSo'
  <2>1. ~ mixed /\ (t \in {"next", "store", "push"} => n <= 1)
    <3>1. ~ mixed /\ ~ (InFreeList /\ n > 1)
          BY <1>1, <1>6, Zenon
    <3> QED BY <1>2, <3>1 DEF InFreeList
  <2>2. Listed(pool, Held) /\ StillSo
        BY <2>1 DEF ListInv
  <2>3. Held \in SUBSET Pbufs /\ Held' = Held
        BY <1>1 DEF Types, HasPbuf, Held
  <2>4. PICK R : R = pool'
        OBVIOUS
  <2>5. /\ Listed(R, Held)
        /\ \A q \in Held : R.next[q] = pool.next[q] /\ R.ref[q] = pool.ref[q]
        /\ n <= 1 => R.head = pool.head /\ \A q \in Pbufs : R.next[q] = pool.next[q]
        BY <1>1, <1>2, <2>2, <2>3, <2>4, ListedFrame
  <2>6. Listed(pool', Held')
        BY <2>3, <2>4, <2>5
  <2>7. StillSo'
    <3>1. t \in {"next", "store", "push"} => /\ pool'.head = pool.head /\ p \in Pbufs
                                             /\ pool'.next[p] = pool.next[p]
          BY <2>1, <2>4, <2>5 DEF Types, HasPbuf
    <3>2. t = "free" => pool'.ref[p] = pool.ref[p]
          BY <2>4, <2>5 DEF Held
    <3> QED BY <1>1, <2>2, <3>1, <3>2 DEF StillSo
  <2> QED BY <2>6, <2>7
<1> QED BY <1>5, <1>6 DEF ListInv

\* Every pbuf is on the list or TIM2's, and never both, whatever frames the
\* interrupt allocates and frees between TIM2's accesses - as long as none of
\* several pbufs has come in the middle of TIM2's taking or giving back one.
THEOREM PoolIsSound == Spec => []PoolSound
<1> DEFINE Inv == UInv /\ Types /\ ListInv
<1>1. Init => Inv
      BY InitUInv, InitListInv
<1>2. Inv /\ [Next]_vars => Inv'
  <2> SUFFICES ASSUME Inv, [Next]_vars PROVE Inv'
      OBVIOUS
  <2>1. CASE Main
        BY <2>1, MainUInv, MainListInv
  <2>2. CASE Tim2
        BY <2>2, Tim2UInv, Tim2Types, Tim2ListInv
  <2>3. CASE Eth
        BY <2>3, EthUInv, EthListInv
  <2>4. CASE UNCHANGED vars
    <3>1. UInv'
          BY <2>4 DEF UInv, PcbType, SetUp, Running, SentToTarget, Connected, Bound, vars,
                      mainVars, tim2Vars
    <3>2. Types' /\ ListInv'
          BY <2>4 DEF Types, TypeOK, Wired, HasPbuf, ListInv, StillSo, Held, vars,
                      mainVars, tim2Vars
    <3> QED BY <3>1, <3>2
  <2> QED BY <2>1, <2>2, <2>3, <2>4 DEF Next
<1>3. Inv => PoolSound
  <2> SUFFICES ASSUME Types, ListInv PROVE PoolSound
      OBVIOUS
  <2>1. Held \subseteq Pbufs
        BY DEF Types, HasPbuf, Held
  <2>2. ~ mixed => FreeList(pool) = Pbufs \ Held
        BY ListedIsFree DEF ListInv
  <2> QED BY <2>1, <2>2 DEF PoolSound, Types
<1> QED BY <1>1, <1>2, <1>3, PTL DEF Spec
=============================================================================
