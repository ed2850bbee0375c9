----------------------------- MODULE EthTx_proof -----------------------------
(***************************************************************************)
(* The transmit ring for every number of descriptors and any contexts.     *)
(* The argument: as long as no send is begun in another's handover, one    *)
(* context at most is between its look at OWN and its advance, what it     *)
(* keeps of DMATxDescToSet is DMATxDescToSet, and there is a number n such *)
(* that the n descriptors from the DMA's position on are the DMA's and the *)
(* driver's position is n after it.                                        *)
(***************************************************************************)
EXTENDS EthTx, FiniteSetTheorems, FunctionTheorems, TLAPS

\* The place k after a, and how far d is after a, in a circle of N; the
\* number s - k of a circle of N.
Turn(N, a, k) == IF a + k < N THEN a + k ELSE a + k - N
Gap(N, a, d)  == IF d >= a THEN d - a ELSE d - a + N
Less(N, s, k) == IF s >= k THEN s - k ELSE s - k + N

\* A descriptor was handed over and DMATxDescToSet has not moved on.
Given == \E c \in Contexts : pc[c] \in {"poll", "advance"}
Place == IF Given THEN Chained(set) ELSE set

\* n descriptors are the DMA's.
Ring(n) == /\ Place = Turn(NDesc, dmaPos, n)
           /\ \A d \in Desc : d \in own <=> Gap(NDesc, dmaPos, d) < n

\* The frames of c the DMA has from the one in d on.
Later(c, d) == {e \in own : /\ due[e][1] = c
                            /\ Gap(NDesc, dmaPos, e) >= Gap(NDesc, dmaPos, d)}

\* They bear the last numbers c gave.
InOrder == \A d \in own :
             /\ due[d] \in Frame
             /\ due[d][2] = Less(NSerials, serial[due[d][1]],
                                 Cardinality(Later(due[d][1], d)))

\* Who hands a descriptor over has not been preempted, nor has it preempted
\* another that does, and its descriptor is the one at DMATxDescToSet.
HandsOver == \A c \in Contexts : HandingOver(c) =>
               /\ held[c] = set
               /\ pc[c] = "own" => set \notin own
               /\ \A d \in Contexts \ {c} :
                    ~ HandingOver(d) /\ (d > c => pc[d] = "idle")

\* No send was begun within another: only one is under way, its frame is in
\* the buffer as far as it was copied, and what waits in other buffers is whole.
OneSends == /\ \A c, d \in Contexts : pc[c] # "idle" /\ pc[d] # "idle" => c = d
            /\ \A c \in Contexts :
                 /\ pc[c] \in {"head", "tail"} => buffer[c] = set
                 /\ pc[c] = "tail" => buf[set][1] = <<c, serial[c]>>
                 /\ pc[c] \in {"check", "own"} =>
                      buf[set] = <<<<c, serial[c]>>, <<c, serial[c]>>>>
            /\ \A d \in own : d # set \/ Given => ~ Damaged(d)

RInv == /\ TypeOK
        /\ nested # "handover" => /\ \E n \in 0 .. NDesc : Ring(n)
                                  /\ InOrder /\ HandsOver
        /\ nested = "none" => OneSends

-----------------------------------------------------------------------------
(* Arithmetic on the circles.                                              *)

LEMMA Sizes == /\ NDesc \in Nat /\ NDesc >= 1
               /\ NSerials \in Nat /\ NSerials > NDesc
               /\ \A c \in Contexts : c \in 0 .. 2
BY TxAssumption

\* Turn is addition modulo N, and Less subtraction.
LEMMA ModTurn ==
  ASSUME NEW N \in Nat, N >= 1, NEW a \in 0 .. N - 1, NEW k \in 0 .. N
  PROVE  (a + k) % N = Turn(N, a, k)
<1>1. CASE a + k < N
      BY <1>1 DEF Turn
<1>2. CASE a + k >= N
  <2>1. a + k - N \in 0 .. N - 1
        BY <1>2
  <2>2. \A r \in 0 .. N - 1 : (r + N) % N = r
        BY SMTT(30)
  <2>3. ((a + k - N) + N) % N = a + k - N
        BY <2>1, <2>2
  <2> QED BY <1>2, <2>3 DEF Turn
<1> QED BY <1>1, <1>2

LEMMA ModLess ==
  ASSUME NEW N \in Nat, N >= 1, NEW s \in 0 .. N - 1, NEW k \in 0 .. N
  PROVE  (s - k) % N = Less(N, s, k)
<1>1. CASE s >= k
      BY <1>1 DEF Less
<1>2. CASE s < k
  <2>1. s - k + N \in 0 .. N - 1
        BY <1>2
  <2>2. \A r \in 0 .. N - 1 : (r - N) % N = r
        BY SMTT(30)
  <2>3. ((s - k + N) - N) % N = s - k + N
        BY <2>1, <2>2
  <2>4. (s - k + N) - N = s - k
        OBVIOUS
  <2> QED BY <1>2, <2>3, <2>4 DEF Less
<1> QED BY <1>1, <1>2

\* Turn and Gap undo each other.
LEMMA TurnGap ==
  ASSUME NEW N \in Nat, N >= 1, NEW a \in 0 .. N - 1
  PROVE  /\ \A k \in 0 .. N : Turn(N, a, k) \in 0 .. N - 1
         /\ \A d \in 0 .. N - 1 : /\ Gap(N, a, d) \in 0 .. N - 1
                                  /\ Turn(N, a, Gap(N, a, d)) = d
         /\ \A k \in 0 .. N - 1 : Gap(N, a, Turn(N, a, k)) = k
         /\ Turn(N, a, N) = a /\ Gap(N, a, a) = 0
BY DEF Turn, Gap

\* Chained is one place on.
LEMMA ChainedTurn ==
  ASSUME NEW a \in Desc
  PROVE  /\ Chained(a) \in Desc
         /\ \A k \in 0 .. NDesc - 1 :
              /\ Chained(Turn(NDesc, a, k)) = Turn(NDesc, a, k + 1)
              /\ Turn(NDesc, a, k + 1) = Turn(NDesc, Chained(a), k)
         /\ \A d \in Desc :
              d # a => Gap(NDesc, Chained(a), d) = Gap(NDesc, a, d) - 1
         /\ Gap(NDesc, Chained(a), a) = NDesc - 1
BY Sizes DEF Chained, Turn, Gap, Desc

\* One more number given, one more to go back.
LEMMA LessStep ==
  ASSUME NEW N \in Nat, N >= 1, NEW s \in 0 .. N - 1
  PROVE  /\ (s + 1) % N \in 0 .. N - 1
         /\ Less(N, (s + 1) % N, 1) = s
         /\ \A k \in 0 .. N - 1 : Less(N, (s + 1) % N, k + 1) = Less(N, s, k)
<1>1. (s + 1) % N = Turn(N, s, 1)
      BY ModTurn
<1> QED BY <1>1 DEF Turn, Less

-----------------------------------------------------------------------------
(* The types.                                                              *)

LEMMA TypeInit == Init => TypeOK
<1> SUFFICES ASSUME Init PROVE TypeOK
    OBVIOUS
<1> USE Sizes
<1>1. 0 \in Desc /\ 0 \in 0 .. NSerials - 1
      BY DEF Desc
<1>2. buf \in [Desc -> (Frame \cup {NoFrame}) \X (Frame \cup {NoFrame})]
      BY DEF Init
<1> QED BY <1>1, <1>2 DEF Init, TypeOK

LEMMA TypeNext == TypeOK /\ [Next]_vars => TypeOK'
<1> SUFFICES ASSUME TypeOK, [Next]_vars PROVE TypeOK'
    OBVIOUS
<1> USE Sizes
<1>1. CASE Transmit
  <2>1. Chained(dmaPos) \in Desc
        BY ChainedTurn DEF TypeOK
  <2> QED BY <1>1, <2>1 DEF TypeOK, Transmit, senderVars
<1>2. ASSUME NEW c \in Contexts, EthGetCurrentTxBuffer(c)
      PROVE  TypeOK'
      BY <1>2 DEF TypeOK, EthGetCurrentTxBuffer, GoTo, Nest, dmaVars
<1>3. ASSUME NEW c \in Contexts, NEW h \in {1, 2}, CopyHalf(c, h)
      PROVE  buf' \in [Desc -> (Frame \cup {NoFrame}) \X (Frame \cup {NoFrame})]
  <2>1. /\ <<c, serial[c]>> \in Frame \cup {NoFrame}
        /\ <<NoFrame, NoFrame>> \in (Frame \cup {NoFrame}) \X (Frame \cup {NoFrame})
        BY DEF TypeOK, Frame
  <2>2. CASE nested = "none"
    <3>1. buf[buffer[c]] \in (Frame \cup {NoFrame}) \X (Frame \cup {NoFrame})
          BY DEF TypeOK
    <3>2. [buf[buffer[c]] EXCEPT ![h] = <<c, serial[c]>>]
            \in (Frame \cup {NoFrame}) \X (Frame \cup {NoFrame})
          BY <2>1, <3>1
    <3> QED BY <1>3, <2>2, <3>2 DEF TypeOK, CopyHalf
  <2>3. CASE nested # "none"
        BY <1>3, <2>1, <2>3 DEF CopyHalf
  <2> QED BY <2>2, <2>3
<1>4. ASSUME NEW c \in Contexts, CopyHead(c)
      PROVE  TypeOK'
      BY <1>3, <1>4 DEF TypeOK, CopyHead, GoTo, dmaVars
<1>5. ASSUME NEW c \in Contexts, CopyTail(c)
      PROVE  TypeOK'
  <2>1. 0 \in Desc
        BY DEF Desc
  <2> QED BY <1>3, <1>5, <2>1 DEF TypeOK, CopyTail, GoTo, dmaVars
<1>6. ASSUME NEW c \in Contexts, CheckOwn(c)
      PROVE  TypeOK'
  <2>1. 0 \in Desc
        BY DEF Desc
  <2> QED BY <1>6, <2>1 DEF TypeOK, CheckOwn, GoTo, dmaVars
<1>7. ASSUME NEW c \in Contexts, SetOwn(c)
      PROVE  TypeOK'
  <2>1. <<c, serial[c]>> \in Frame /\ Named(c) \in Desc
        BY DEF TypeOK, Frame, Named
  <2>2. (serial[c] + 1) % NSerials \in 0 .. NSerials - 1
    <3>1. serial[c] \in 0 .. NSerials - 1 /\ NSerials >= 1
          BY DEF TypeOK
    <3> QED BY <3>1, LessStep
  <2> QED BY <1>7, <2>1, <2>2 DEF TypeOK, SetOwn, GoTo, dmaVars
<1>8. ASSUME NEW c \in Contexts, PollDemand(c)
      PROVE  TypeOK'
      BY <1>8 DEF TypeOK, PollDemand, GoTo
<1>9. ASSUME NEW c \in Contexts, Advance(c)
      PROVE  TypeOK'
  <2>1. Named(c) \in Desc /\ 0 \in Desc
        BY DEF TypeOK, Named, Desc
  <2>2. Chained(Named(c)) \in Desc
        BY <2>1, ChainedTurn
  <2> QED BY <1>9, <2>1, <2>2 DEF TypeOK, Advance, GoTo, dmaVars
<1>10. CASE UNCHANGED vars
       BY <1>10 DEF TypeOK, vars, dmaVars, senderVars
<1> QED BY <1>1, <1>2, <1>4, <1>5, <1>6, <1>7, <1>8, <1>9, <1>10 DEF Next, Finish

-----------------------------------------------------------------------------
(* Who hands over.                                                         *)

\* nested only ever deepens, and a send that leaves it be found none under way.
LEMMA Deepens ==
  ASSUME TypeOK, [Next]_vars
  PROVE  /\ nested' # "handover" => nested # "handover"
         /\ nested' = "none" => nested = "none"
         /\ \A c \in Contexts : EthGetCurrentTxBuffer(c) =>
              /\ nested' # "handover" => \A d \in Contexts : ~ HandingOver(d)
              /\ nested' = "none" => \A d \in Contexts : pc[d] = "idle"
<1>1. Transmit => nested' = nested
      BY DEF Transmit
<1>2. ASSUME NEW c \in Contexts, EthGetCurrentTxBuffer(c)
      PROVE  /\ nested' # "handover" => nested # "handover"
             /\ nested' = "none" => nested = "none"
             /\ nested' # "handover" => \A d \in Contexts : ~ HandingOver(d)
             /\ nested' = "none" => \A d \in Contexts : pc[d] = "idle"
      BY <1>2 DEF TypeOK, EthGetCurrentTxBuffer, Nest
<1>3. ASSUME NEW c \in Contexts, Finish(c)
      PROVE  nested' = nested
      BY <1>3 DEF Finish, CopyHead, CopyTail, CheckOwn, SetOwn, PollDemand, Advance
<1>4. UNCHANGED vars => nested' = nested
      BY DEF vars
<1>5. \A c \in Contexts : EthGetCurrentTxBuffer(c) =>
              /\ nested' # "handover" => \A d \in Contexts : ~ HandingOver(d)
              /\ nested' = "none" => \A d \in Contexts : pc[d] = "idle"
      BY <1>2
<1>6. nested' = nested \/ \E c \in Contexts : EthGetCurrentTxBuffer(c)
      BY <1>1, <1>3, <1>4 DEF Next
<1> QED BY <1>2, <1>5, <1>6

\* While one hands over no other acts but one of a higher priority that begins.
LEMMA Alone ==
  ASSUME TypeOK, HandsOver, NEW c \in Contexts, NEW d \in Contexts \ {c},
         HandingOver(d), Runs(c)
  PROVE  pc[c] = "idle"
<1>1. c \in 0 .. 2 /\ d \in 0 .. 2 /\ c # d
      BY Sizes
<1>2. CASE d > c
  <2>1. pc[d] = "idle"
        BY <1>2 DEF Runs
  <2> QED BY <2>1 DEF HandingOver
<1>3. CASE c > d
      BY <1>3 DEF HandsOver
<1> QED BY <1>1, <1>2, <1>3

LEMMA HandsNext ==
  ASSUME RInv, [Next]_vars, nested' # "handover"
  PROVE  HandsOver'
<1>1. TypeOK /\ HandsOver
      BY Deepens DEF RInv
<1>2. CASE Transmit
      BY <1>1, <1>2 DEF HandsOver, HandingOver, Transmit, senderVars
<1>3. ASSUME NEW c \in Contexts, EthGetCurrentTxBuffer(c)
      PROVE  HandsOver'
  <2>1. \A d \in Contexts : ~ HandingOver(d)
        BY <1>1, <1>3, Deepens
  <2>2. pc' = [pc EXCEPT ![c] = "head"]
        BY <1>3 DEF EthGetCurrentTxBuffer, GoTo
  <2>3. \A d \in Contexts : ~ HandingOver(d)'
        BY <1>1, <2>1, <2>2 DEF HandingOver, TypeOK
  <2> QED BY <2>3 DEF HandsOver
<1>4. ASSUME NEW c \in Contexts, Runs(c), pc[c] \in {"head", "tail", "check"},
             pc' = [pc EXCEPT ![c] = pc'[c]], held' = [held EXCEPT ![c] = held'[c]],
             UNCHANGED <<own, set>>,
             pc'[c] \in {"own", "poll", "advance"} =>
               pc'[c] = "own" /\ held'[c] = set /\ set \notin own
      PROVE  HandsOver'
  <2>1. \A d \in Contexts : ~ HandingOver(d)
    <3>1. ~ HandingOver(c)
          BY <1>4 DEF HandingOver
    <3>2. \A d \in Contexts \ {c} : ~ HandingOver(d)
          BY <1>1, <1>4, Alone
    <3> QED BY <3>1, <3>2
  <2>2. \A d \in Contexts \ {c} : pc'[d] = pc[d] /\ ~ HandingOver(d)'
        BY <1>1, <1>4, <2>1 DEF HandingOver, TypeOK
  <2>3. \A d \in Contexts \ {c} : d > c => pc[d] = "idle"
        BY <1>4 DEF Runs
  <2> QED BY <1>4, <2>2, <2>3 DEF HandsOver, HandingOver
<1>5. ASSUME NEW c \in Contexts, CopyHead(c) \/ CopyTail(c) \/ CheckOwn(c)
      PROVE  HandsOver'
  <2>1. /\ Runs(c) /\ pc[c] \in {"head", "tail", "check"}
        /\ pc' = [pc EXCEPT ![c] = pc'[c]] /\ held' = [held EXCEPT ![c] = held'[c]]
        /\ UNCHANGED <<own, set>>
        BY <1>1, <1>5 DEF TypeOK, CopyHead, CopyTail, CheckOwn, At, GoTo
  <2>2. pc'[c] \in {"own", "poll", "advance"} =>
          pc'[c] = "own" /\ held'[c] = set /\ set \notin own
        BY <1>1, <1>5 DEF TypeOK, CopyHead, CopyTail, CheckOwn, GoTo
  <2> QED BY <1>4, <2>1, <2>2
<1>6. ASSUME NEW c \in Contexts, SetOwn(c) \/ PollDemand(c) \/ Advance(c)
      PROVE  HandsOver'
  <2>1. /\ Runs(c) /\ HandingOver(c)
        /\ pc' = [pc EXCEPT ![c] = pc'[c]] /\ held' = [held EXCEPT ![c] = held'[c]]
        BY <1>1, <1>6 DEF TypeOK, SetOwn, PollDemand, Advance, At, GoTo, HandingOver
  <2>2. \A d \in Contexts \ {c} : ~ HandingOver(d) /\ (d > c => pc[d] = "idle")
        BY <1>1, <2>1 DEF HandsOver
  <2>3. \A d \in Contexts \ {c} : ~ HandingOver(d)' /\ (d > c => pc'[d] = "idle")
        BY <1>1, <2>1, <2>2 DEF HandingOver, TypeOK
  <2>4. HandingOver(c)' => held'[c] = set' /\ pc'[c] # "own"
        BY <1>1, <1>6, <2>1 DEF HandsOver, HandingOver, TypeOK, SetOwn, PollDemand,
           Advance, GoTo
  <2> QED BY <2>3, <2>4 DEF HandsOver
<1>7. CASE UNCHANGED vars
      BY <1>1, <1>7 DEF HandsOver, HandingOver, vars, senderVars
<1> QED BY <1>2, <1>3, <1>5, <1>6, <1>7 DEF Next, Finish

-----------------------------------------------------------------------------
(* The ring.                                                               *)

Busy(n) == Ring(n) /\ InOrder

\* What moves neither the ring nor the two positions leaves them in step.
LEMMA Unmoved ==
  ASSUME UNCHANGED <<own, due, dmaPos, set, serial>>, Given' = Given, NEW n, Busy(n)
  PROVE  Busy(n)'
<1>1. Ring(n)'
      BY DEF Busy, Ring, Place
<1>2. \A c, d : Later(c, d)' = Later(c, d)
      BY DEF Later
<1>3. InOrder'
      BY <1>2 DEF Busy, InOrder
<1> QED BY <1>1, <1>3 DEF Busy

\* The frames the DMA has are finitely many.
LEMMA LaterFinite ==
  ASSUME TypeOK, NEW c, NEW d
  PROVE  /\ IsFiniteSet(Later(c, d)) /\ Cardinality(Later(c, d)) \in 0 .. NDesc
         /\ d \in own /\ due[d][1] = c => d \in Later(c, d)
<1> USE Sizes
<1>1. IsFiniteSet(Desc) /\ Cardinality(Desc) = NDesc
  <2>1. 0 \in Int /\ NDesc - 1 \in Int /\ 0 <= NDesc - 1
        OBVIOUS
  <2> QED BY <2>1, FS_Interval DEF Desc
<1>2. Later(c, d) \subseteq Desc
      BY DEF Later, TypeOK
<1>3. /\ IsFiniteSet(Later(c, d)) /\ Cardinality(Later(c, d)) <= Cardinality(Desc)
      BY <1>1, <1>2, FS_Subset
<1>4. Cardinality(Later(c, d)) \in Nat
      BY <1>3, FS_CardinalityType
<1>5. d \in own /\ due[d][1] = c => d \in Later(c, d)
  <2> SUFFICES ASSUME d \in own, due[d][1] = c PROVE d \in Later(c, d)
      OBVIOUS
  <2>1. Gap(NDesc, dmaPos, d) \in Int
        BY DEF Gap, TypeOK, Desc
  <2> QED BY <2>1 DEF Later
<1> QED BY <1>1, <1>3, <1>4, <1>5

\* A frame sent: the DMA has one less.
LEMMA TransmitBusy ==
  ASSUME TypeOK, Transmit, NEW n \in 0 .. NDesc, Busy(n)
  PROVE  \E m \in 0 .. NDesc : Busy(m)'
<1> USE Sizes
<1>1. /\ dmaPos \in own /\ own' = own \ {dmaPos}
      /\ due' = [due EXCEPT ![dmaPos] = NoFrame] /\ dmaPos' = Chained(dmaPos)
      /\ UNCHANGED <<set, pc, serial>>
      BY DEF Transmit, senderVars
<1>2. dmaPos \in Desc /\ dmaPos \in 0 .. NDesc - 1 /\ own \subseteq Desc
      BY DEF TypeOK, Desc
<1>3. \A d \in Desc : Gap(NDesc, dmaPos, d) \in 0 .. NDesc - 1
      BY <1>2, TurnGap DEF Desc
<1>4. Gap(NDesc, dmaPos, dmaPos) = 0
      BY <1>2, TurnGap
<1>5. n - 1 \in 0 .. NDesc - 1
      BY <1>1, <1>2, <1>4 DEF Busy, Ring
<1>6. \A d \in Desc \ {dmaPos} :
        Gap(NDesc, dmaPos', d) = Gap(NDesc, dmaPos, d) - 1
      BY <1>1, <1>2, ChainedTurn
<1>7. Gap(NDesc, dmaPos', dmaPos) = NDesc - 1
      BY <1>1, <1>2, ChainedTurn
<1>8. Ring(n - 1)'
  <2>1. Place' = Place
        BY <1>1 DEF Place, Given
  <2>2. Turn(NDesc, dmaPos, (n - 1) + 1) = Turn(NDesc, dmaPos', n - 1)
        BY <1>1, <1>2, <1>5, ChainedTurn
  <2>3. Place' = Turn(NDesc, dmaPos', n - 1)
        BY <1>5, <2>1, <2>2 DEF Busy, Ring
  <2>4. \A d \in Desc : d \in own' <=> Gap(NDesc, dmaPos', d) < n - 1
    <3> TAKE d \in Desc
    <3>1. CASE d = dmaPos
          BY <1>1, <1>5, <1>7, <3>1
    <3>2. CASE d # dmaPos
      <4>1. d \in own <=> Gap(NDesc, dmaPos, d) < n
            BY DEF Busy, Ring
      <4> QED BY <1>1, <1>3, <1>6, <3>2, <4>1
    <3> QED BY <3>1, <3>2
  <2> QED BY <2>3, <2>4 DEF Ring
<1>9. \A c, d : d \in own' => Later(c, d)' = Later(c, d)
  <2> SUFFICES ASSUME NEW c, NEW d \in own' PROVE Later(c, d)' = Later(c, d)
      OBVIOUS
  <2>1. d \in Desc /\ d # dmaPos /\ Gap(NDesc, dmaPos, d) # 0
    <3>1. d \in Desc /\ d # dmaPos
          BY <1>1, <1>2
    <3>2. Turn(NDesc, dmaPos, Gap(NDesc, dmaPos, d)) = d /\ Turn(NDesc, dmaPos, 0) = dmaPos
          BY <1>2, <3>1, TurnGap DEF Desc, Turn
    <3> QED BY <3>1, <3>2
  <2>2. \A e : e \in Later(c, d)' <=> e \in Later(c, d)
    <3> SUFFICES ASSUME NEW e PROVE e \in Later(c, d)' <=> e \in Later(c, d)
        OBVIOUS
    <3>1. CASE e = dmaPos
      <4>1. e \notin Later(c, d)'
            BY <1>1, <3>1 DEF Later
      <4>2. e \notin Later(c, d)
        <5>1. ~ 0 >= Gap(NDesc, dmaPos, d)
              BY <1>3, <2>1
        <5> QED BY <1>4, <3>1, <5>1 DEF Later
      <4> QED BY <4>1, <4>2
    <3>2. CASE e # dmaPos /\ e \in own
      <4>1. due'[e] = due[e] /\ e \in own'
            BY <1>1, <1>2, <3>2 DEF TypeOK
      <4>2. Gap(NDesc, dmaPos', e) >= Gap(NDesc, dmaPos', d)
              <=> Gap(NDesc, dmaPos, e) >= Gap(NDesc, dmaPos, d)
            BY <1>2, <1>3, <1>6, <2>1, <3>2
      <4> QED BY <3>2, <4>1, <4>2 DEF Later
    <3>3. CASE e \notin own
          BY <1>1, <3>3 DEF Later
    <3> QED BY <3>1, <3>2, <3>3
  <2> QED BY <2>2
<1>10. InOrder'
  <2>1. \A d \in own' : d \in own /\ due'[d] = due[d]
        BY <1>1, <1>2 DEF TypeOK
  <2> QED BY <1>1, <1>9, <2>1 DEF Busy, InOrder
<1> QED BY <1>5, <1>8, <1>10 DEF Busy

\* A frame given away: the DMA has one more, and it is the last.
LEMMA SetOwnBusy ==
  ASSUME TypeOK, HandsOver, NEW c \in Contexts, SetOwn(c),
         NEW n \in 0 .. NDesc, Busy(n)
  PROVE  \E m \in 0 .. NDesc : Busy(m)'
<1> USE Sizes
<1>1. /\ held[c] = set /\ set \notin own /\ Named(c) = set
      /\ \A d \in Contexts \ {c} : ~ HandingOver(d)
      BY DEF HandsOver, HandingOver, SetOwn, At, Named
<1>2. /\ own' = own \cup {set} /\ due' = [due EXCEPT ![set] = <<c, serial[c]>>]
      /\ serial' = [serial EXCEPT ![c] = (serial[c] + 1) % NSerials]
      /\ pc' = [pc EXCEPT ![c] = "poll"] /\ UNCHANGED <<dmaPos, set>>
      BY <1>1 DEF SetOwn, GoTo, dmaVars
<1>3. /\ set \in Desc /\ dmaPos \in Desc /\ dmaPos \in 0 .. NDesc - 1
      /\ own \subseteq Desc
      BY DEF TypeOK, Desc
<1>4. ~ Given /\ Given'
  <2>1. pc[c] = "own"
        BY DEF SetOwn, At
  <2> QED BY <1>1, <1>2, <2>1 DEF Given, HandingOver, TypeOK
<1>5. \A d \in Desc : Gap(NDesc, dmaPos, d) \in 0 .. NDesc - 1
      BY <1>3, TurnGap DEF Desc
<1>6. n \in 0 .. NDesc - 1 /\ Gap(NDesc, dmaPos, set) = n
  <2>1. set = Turn(NDesc, dmaPos, n) /\ ~ Gap(NDesc, dmaPos, set) < n
        BY <1>1, <1>3, <1>4 DEF Busy, Ring, Place
  <2>2. n # NDesc
        BY <1>3, <2>1, <1>5
  <2>3. n \in 0 .. NDesc - 1
        BY <2>2
  <2> QED BY <1>3, <2>1, <2>3, TurnGap
<1>7. Ring(n + 1)'
  <2>1. Place = Turn(NDesc, dmaPos, n) /\ Place = set /\ Place' = Chained(set)
        BY <1>2, <1>4 DEF Busy, Ring, Place
  <2>2. Place' = Turn(NDesc, dmaPos, n + 1)
    <3>1. Chained(Turn(NDesc, dmaPos, n)) = Turn(NDesc, dmaPos, n + 1)
          BY <1>3, <1>6, ChainedTurn
    <3> QED BY <2>1, <3>1
  <2>3. \A d \in Desc : d \in own' <=> Gap(NDesc, dmaPos, d) < n + 1
    <3> TAKE d \in Desc
    <3>1. CASE d = set
          BY <1>2, <1>6, <3>1
    <3>2. CASE d # set
      <4>1. d \in own <=> Gap(NDesc, dmaPos, d) < n
            BY DEF Busy, Ring
      <4>2. Gap(NDesc, dmaPos, d) # n
            BY <1>3, <1>6, <3>2, TurnGap DEF Desc
      <4> QED BY <1>2, <1>5, <3>2, <4>1, <4>2
    <3> QED BY <3>1, <3>2
  <2> QED BY <1>2, <2>2, <2>3 DEF Ring
<1>8. \A d \in own : /\ d # set /\ due'[d] = due[d] /\ due[d] \in Frame
                     /\ Gap(NDesc, dmaPos, set) >= Gap(NDesc, dmaPos, d)
                     /\ ~ Gap(NDesc, dmaPos, d) >= Gap(NDesc, dmaPos, set)
  <2> TAKE d \in own
  <2>1. d # set /\ due'[d] = due[d] /\ due[d] \in Frame
        BY <1>1, <1>2, <1>3 DEF TypeOK, Busy, InOrder
  <2>2. Gap(NDesc, dmaPos, d) < n /\ Gap(NDesc, dmaPos, d) \in 0 .. NDesc - 1
        BY <1>3, <1>5 DEF Busy, Ring
  <2> QED BY <1>6, <2>1, <2>2
<1>9. due'[set] = <<c, serial[c]>> /\ <<c, serial[c]>> \in Frame
      BY <1>2, <1>3 DEF TypeOK, Frame
<1>10. \A d \in own :
         Later(due[d][1], d)' = IF due[d][1] = c THEN Later(c, d) \cup {set}
                                                ELSE Later(due[d][1], d)
  <2> SUFFICES ASSUME NEW d \in own, NEW e
               PROVE  e \in Later(due[d][1], d)' <=>
                        e \in IF due[d][1] = c THEN Later(c, d) \cup {set}
                                               ELSE Later(due[d][1], d)
      OBVIOUS
  <2>1. CASE e = set
        BY <1>1, <1>2, <1>8, <1>9, <2>1 DEF Later
  <2>2. CASE e # set
        BY <1>2, <1>8, <2>2 DEF Later
  <2> QED BY <2>1, <2>2
<1>11. Later(c, set)' = {set}
  <2>1. Gap(NDesc, dmaPos, set) >= Gap(NDesc, dmaPos, set)
        BY <1>6
  <2> QED BY <1>2, <1>8, <1>9, <2>1 DEF Later
<1>12. serial[c] \in 0 .. NSerials - 1 /\ NSerials >= 1
       BY DEF TypeOK
<1>13. InOrder'
  <2>1. /\ due'[set] \in Frame
        /\ due'[set][2] = Less(NSerials, serial'[due'[set][1]],
                               Cardinality(Later(due[set][1], set)'))
    <3>1. Cardinality({set}) = 1
          BY FS_Singleton
    <3>2. Less(NSerials, (serial[c] + 1) % NSerials, 1) = serial[c]
          BY <1>12, LessStep
    <3>3. Later(due[set][1], set)' = {set}
          BY <1>2, <1>9, <1>11
    <3>4. serial'[c] = (serial[c] + 1) % NSerials
          BY <1>2 DEF TypeOK
    <3> QED BY <1>9, <3>1, <3>2, <3>3, <3>4
  <2>2. ASSUME NEW d \in own
        PROVE  /\ due'[d] \in Frame
               /\ due'[d][2] = Less(NSerials, serial'[due'[d][1]],
                                    Cardinality(Later(due[d][1], d)'))
    <3>1. /\ due'[d] = due[d] /\ due[d] \in Frame
          /\ due[d][2] = Less(NSerials, serial[due[d][1]],
                              Cardinality(Later(due[d][1], d)))
          BY <1>8 DEF Busy, InOrder
    <3>2. CASE due[d][1] # c
      <4>1. serial'[due[d][1]] = serial[due[d][1]]
            BY <1>2, <3>1, <3>2 DEF Frame, TypeOK
      <4>2. Later(due[d][1], d)' = Later(due[d][1], d)
            BY <1>10, <3>2
      <4> QED BY <3>1, <4>1, <4>2
    <3>3. CASE due[d][1] = c
      <4>1. Later(due[d][1], d)' = Later(c, d) \cup {set}
            BY <1>10, <3>3
      <4>2. IsFiniteSet(Later(c, d)) /\ set \notin Later(c, d)
        <5>1. set \notin Later(c, d)
              BY <1>1 DEF Later
        <5> QED BY <5>1, LaterFinite
      <4>3. Cardinality(Later(c, d) \cup {set}) = Cardinality(Later(c, d)) + 1
            BY <4>2, FS_AddElement
      <4>4. Cardinality(Later(c, d)) \in 0 .. NSerials - 1
            BY LaterFinite
      <4>5. Less(NSerials, (serial[c] + 1) % NSerials, Cardinality(Later(c, d)) + 1)
              = Less(NSerials, serial[c], Cardinality(Later(c, d)))
            BY <1>12, <4>4, LessStep
      <4>6. serial'[c] = (serial[c] + 1) % NSerials
            BY <1>2 DEF TypeOK
      <4> QED BY <3>1, <3>3, <4>1, <4>3, <4>5, <4>6
    <3> QED BY <3>2, <3>3
  <2> QED BY <1>2, <2>1, <2>2 DEF InOrder
<1>14. n + 1 \in 0 .. NDesc
       BY <1>6
<1> QED BY <1>7, <1>13, <1>14 DEF Busy

\* DMATxDescToSet moves on to where the DMA's descriptors end.
LEMMA AdvanceBusy ==
  ASSUME TypeOK, HandsOver, NEW c \in Contexts, Advance(c), NEW n, Busy(n)
  PROVE  Busy(n)'
<1>1. /\ held[c] = set /\ Named(c) = set /\ Given
      /\ \A d \in Contexts \ {c} : ~ HandingOver(d)
      BY DEF HandsOver, HandingOver, Advance, At, Named, Given
<1>2. /\ set' = Chained(set) /\ pc' = [pc EXCEPT ![c] = "idle"]
      /\ UNCHANGED <<own, due, dmaPos, serial>>
      BY <1>1 DEF Advance, GoTo, dmaVars
<1>3. ~ Given'
      BY <1>1, <1>2 DEF Given, HandingOver, TypeOK
<1>4. Place' = Place
      BY <1>1, <1>2, <1>3 DEF Place
<1>5. Ring(n)'
      BY <1>2, <1>4 DEF Busy, Ring
<1>6. \A k, d : Later(k, d)' = Later(k, d)
      BY <1>2 DEF Later
<1>7. InOrder'
      BY <1>2, <1>6 DEF Busy, InOrder
<1> QED BY <1>5, <1>7 DEF Busy

LEMMA RingNext ==
  ASSUME RInv, [Next]_vars, nested' # "handover"
  PROVE  \E n \in 0 .. NDesc : Busy(n)'
<1>1. TypeOK /\ HandsOver
      BY Deepens DEF RInv
<1>2. PICK n \in 0 .. NDesc : Busy(n)
      BY Deepens DEF RInv, Busy
<1>3. CASE Transmit
      BY <1>1, <1>2, <1>3, TransmitBusy
<1>4. ASSUME NEW c \in Contexts, EthGetCurrentTxBuffer(c) \/ CopyHead(c) \/ CopyTail(c)
                                 \/ CheckOwn(c) \/ PollDemand(c)
      PROVE  \E m \in 0 .. NDesc : Busy(m)'
  <2>1. UNCHANGED <<own, due, dmaPos, set, serial>>
        BY <1>4 DEF EthGetCurrentTxBuffer, CopyHead, CopyTail, CheckOwn, PollDemand,
           dmaVars
  <2>2. Given' = Given
    <3>1. \A d \in Contexts \ {c} : pc'[d] = pc[d]
          BY <1>1, <1>4 DEF TypeOK, EthGetCurrentTxBuffer, CopyHead, CopyTail,
             CheckOwn, PollDemand, GoTo
    <3>2. pc'[c] \in {"poll", "advance"} <=> pc[c] \in {"poll", "advance"}
          BY <1>1, <1>4 DEF TypeOK, EthGetCurrentTxBuffer, CopyHead, CopyTail,
             CheckOwn, PollDemand, GoTo, At
    <3>3. Given' <=> Given
          BY <3>1, <3>2 DEF Given
    <3> QED BY <3>3, Zenon DEF Given
  <2> QED BY <1>2, <2>1, <2>2, Unmoved
<1>5. ASSUME NEW c \in Contexts, SetOwn(c)
      PROVE  \E m \in 0 .. NDesc : Busy(m)'
      BY <1>1, <1>2, <1>5, SetOwnBusy
<1>6. ASSUME NEW c \in Contexts, Advance(c)
      PROVE  \E m \in 0 .. NDesc : Busy(m)'
      BY <1>1, <1>2, <1>6, AdvanceBusy
<1>7. CASE UNCHANGED vars
  <2>1. UNCHANGED <<own, due, dmaPos, set, serial, pc>>
        BY <1>7 DEF vars, dmaVars, senderVars
  <2>2. Given' = Given
        BY <2>1 DEF Given
  <2> QED BY <1>2, <2>1, <2>2, Unmoved
<1> QED BY <1>3, <1>4, <1>5, <1>6, <1>7 DEF Next, Finish

-----------------------------------------------------------------------------
(* What waits in the buffers.                                              *)

\* The context that runs is the only one under way.
LEMMA Alike ==
  ASSUME TypeOK, OneSends, NEW c \in Contexts, pc[c] # "idle"
  PROVE  \A d \in Contexts \ {c} : pc[d] = "idle"
BY DEF OneSends

\* One whose own step goes on sends alone still.
LEMMA StillAlone ==
  ASSUME TypeOK, OneSends, NEW c \in Contexts, pc[c] # "idle",
         pc' = [pc EXCEPT ![c] = pc'[c]]
  PROVE  /\ \A a, d \in Contexts : pc'[a] # "idle" /\ pc'[d] # "idle" => a = d
         /\ \A d \in Contexts : d # c => pc[d] = "idle" /\ pc'[d] = "idle"
         /\ Given <=> pc[c] \in {"poll", "advance"}
         /\ Given' <=> pc'[c] \in {"poll", "advance"}
<1>1. \A d \in Contexts : d # c => pc[d] = "idle" /\ pc'[d] = "idle"
      BY Alike DEF TypeOK
<1> QED BY <1>1 DEF Given

LEMMA CopyOne ==
  ASSUME TypeOK, OneSends, nested = "none", NEW c \in Contexts,
         CopyHead(c) \/ CopyTail(c)
  PROVE  OneSends'
<1>1. /\ pc[c] \in {"head", "tail"} /\ pc' = [pc EXCEPT ![c] = pc'[c]]
      /\ UNCHANGED <<own, due, dmaPos, set, serial>>
      /\ ~ pc'[c] \in {"idle", "head", "own", "poll", "advance"}
      BY DEF TypeOK, CopyHead, CopyTail, At, GoTo, dmaVars
<1>2. /\ \A a, d \in Contexts : pc'[a] # "idle" /\ pc'[d] # "idle" => a = d
      /\ \A d \in Contexts : d # c => pc[d] = "idle" /\ pc'[d] = "idle"
      /\ ~ Given /\ ~ Given'
      BY <1>1, StillAlone
<1>3. buffer[c] = set /\ set \in Desc
      BY <1>1 DEF OneSends, TypeOK
<1>4. \A d \in Desc : d # set => buf'[d] = buf[d]
      BY <1>3 DEF TypeOK, CopyHead, CopyTail, CopyHalf
<1>5. \A d \in own : d # set => ~ Damaged(d)'
      BY <1>1, <1>2, <1>4 DEF OneSends, Damaged, TypeOK
<1>6. buf[set] \in (Frame \cup {NoFrame}) \X (Frame \cup {NoFrame})
      BY <1>3 DEF TypeOK
<1>7. CASE CopyHead(c)
  <2>1. /\ pc'[c] = "tail" /\ buffer'[c] = set
        /\ buf' = [buf EXCEPT ![set][1] = <<c, serial[c]>>]
        BY <1>3, <1>7 DEF TypeOK, CopyHead, CopyHalf, GoTo
  <2>2. buf'[set] = [buf[set] EXCEPT ![1] = <<c, serial[c]>>]
        BY <1>3, <2>1 DEF TypeOK
  <2>3. buf'[set][1] = <<c, serial[c]>>
        BY <1>6, <2>2
  <2> QED BY <1>1, <1>2, <1>5, <2>1, <2>3 DEF OneSends
<1>8. CASE CopyTail(c)
  <2>1. /\ pc'[c] = "check" /\ buf[set][1] = <<c, serial[c]>>
        /\ buf' = [buf EXCEPT ![set][2] = <<c, serial[c]>>]
        BY <1>3, <1>8 DEF TypeOK, CopyTail, CopyHalf, GoTo, At, OneSends
  <2>2. buf'[set] = [buf[set] EXCEPT ![2] = <<c, serial[c]>>]
        BY <1>3, <2>1 DEF TypeOK
  <2>3. buf'[set] = <<<<c, serial[c]>>, <<c, serial[c]>>>>
        BY <1>6, <2>1, <2>2
  <2> QED BY <1>1, <1>2, <1>5, <2>1, <2>3 DEF OneSends
<1> QED BY <1>7, <1>8

LEMMA OneNext ==
  ASSUME RInv, [Next]_vars, nested' = "none"
  PROVE  OneSends'
<1>1. TypeOK /\ nested = "none" /\ OneSends /\ HandsOver
      BY Deepens DEF RInv
<1>2. CASE Transmit
  <2>1. /\ own' = own \ {dmaPos} /\ due' = [due EXCEPT ![dmaPos] = NoFrame]
        /\ UNCHANGED <<buf, set, pc, buffer, serial>>
        BY <1>2 DEF Transmit, senderVars
  <2>2. \A d \in own' : d \in own /\ (Damaged(d)' <=> Damaged(d))
        BY <1>1, <2>1 DEF Damaged, TypeOK
  <2>3. Given' <=> Given
        BY <2>1 DEF Given
  <2> QED BY <1>1, <2>1, <2>2, <2>3 DEF OneSends
<1>3. ASSUME NEW c \in Contexts, EthGetCurrentTxBuffer(c)
      PROVE  OneSends'
  <2>1. \A d \in Contexts : pc[d] = "idle"
        BY <1>1, <1>3, Deepens
  <2>2. /\ pc' = [pc EXCEPT ![c] = "head"] /\ buffer' = [buffer EXCEPT ![c] = set]
        /\ UNCHANGED <<own, buf, due, set, serial>>
        BY <1>3 DEF EthGetCurrentTxBuffer, GoTo
  <2>3. pc'[c] = "head" /\ \A d \in Contexts : d # c => pc'[d] = "idle"
        BY <1>1, <2>1, <2>2 DEF TypeOK
  <2>4. ~ Given /\ ~ Given'
        BY <2>1, <2>3 DEF Given
  <2>5. buffer'[c] = set'
        BY <1>1, <2>2 DEF TypeOK
  <2>6. \A d : Damaged(d)' <=> Damaged(d)
        BY <2>2 DEF Damaged
  <2> QED BY <1>1, <2>2, <2>3, <2>4, <2>5, <2>6 DEF OneSends
<1>4. ASSUME NEW c \in Contexts, CopyHead(c) \/ CopyTail(c)
      PROVE  OneSends'
      BY <1>1, <1>4, CopyOne
<1>5. ASSUME NEW c \in Contexts, CheckOwn(c) \/ PollDemand(c) \/ Advance(c)
      PROVE  OneSends'
  <2>1. /\ pc[c] \in {"check", "poll", "advance"} /\ pc' = [pc EXCEPT ![c] = pc'[c]]
        /\ UNCHANGED <<own, due, buf, serial>>
        /\ pc'[c] \in {"idle", "own", "advance"}
        BY <1>1, <1>5 DEF TypeOK, CheckOwn, PollDemand, Advance, At, GoTo
  <2>2. /\ \A a, d \in Contexts : pc'[a] # "idle" /\ pc'[d] # "idle" => a = d
        /\ \A d \in Contexts : d # c => pc[d] = "idle" /\ pc'[d] = "idle"
        /\ Given <=> pc[c] \in {"poll", "advance"}
        /\ Given' <=> pc'[c] \in {"poll", "advance"}
        BY <1>1, <2>1, StillAlone
  <2>3. pc'[c] = "own" => /\ set' = set
                          /\ buf[set] = <<<<c, serial[c]>>, <<c, serial[c]>>>>
        BY <1>1, <1>5 DEF TypeOK, CheckOwn, PollDemand, Advance, At, GoTo, OneSends
  <2>4. Given \/ (set' = set /\ ~ Given')
        BY <1>1, <1>5, <2>2 DEF TypeOK, CheckOwn, PollDemand, Advance, At, GoTo
  <2>5. \A d : Damaged(d)' <=> Damaged(d)
        BY <2>1 DEF Damaged
  <2>6. \A d \in own' : d # set' \/ Given' => ~ Damaged(d)'
        BY <1>1, <2>1, <2>4, <2>5 DEF OneSends
  <2> QED BY <2>1, <2>2, <2>3, <2>6 DEF OneSends
<1>6. ASSUME NEW c \in Contexts, SetOwn(c)
      PROVE  OneSends'
  <2>1. /\ pc[c] = "own" /\ held[c] = set /\ set \notin own
        /\ buf[set] = <<<<c, serial[c]>>, <<c, serial[c]>>>>
        BY <1>1, <1>6 DEF SetOwn, At, HandsOver, HandingOver, OneSends
  <2>2. /\ own' = own \cup {set} /\ due' = [due EXCEPT ![set] = <<c, serial[c]>>]
        /\ pc' = [pc EXCEPT ![c] = "poll"] /\ UNCHANGED <<buf, set, buffer>>
        BY <1>6, <2>1 DEF SetOwn, Named, GoTo
  <2>3. /\ \A a, d \in Contexts : pc'[a] # "idle" /\ pc'[d] # "idle" => a = d
        /\ \A d \in Contexts : d # c => pc'[d] = "idle"
    <3>1. pc' = [pc EXCEPT ![c] = pc'[c]]
          BY <1>1, <2>2 DEF TypeOK
    <3> QED BY <1>1, <2>1, <3>1, StillAlone
  <2>4. pc'[c] = "poll"
        BY <1>1, <2>2 DEF TypeOK
  <2>5. \A d \in own : ~ Damaged(d)'
    <3>1. \A d \in own : d # set /\ ~ Damaged(d)
          BY <1>1, <2>1 DEF OneSends
    <3> QED BY <1>1, <2>2, <3>1 DEF Damaged, TypeOK
  <2>6. ~ Damaged(set)'
    <3>1. due'[set] = <<c, serial[c]>> /\ set' = set /\ buf' = buf
          BY <1>1, <2>2 DEF TypeOK
    <3> QED BY <2>1, <3>1 DEF Damaged
  <2>7. \A d \in own' : ~ Damaged(d)'
        BY <2>2, <2>5, <2>6 DEF Damaged
  <2> QED BY <2>3, <2>4, <2>7 DEF OneSends
<1>7. CASE UNCHANGED vars
  <2>1. UNCHANGED <<own, buf, due, set, pc, buffer, serial>>
        BY <1>7 DEF vars, senderVars
  <2>2. (Given' <=> Given) /\ \A d : Damaged(d)' <=> Damaged(d)
        BY <2>1 DEF Given, Damaged
  <2> QED BY <1>1, <2>1, <2>2 DEF OneSends
<1> QED BY <1>2, <1>3, <1>4, <1>5, <1>6, <1>7 DEF Next, Finish

-----------------------------------------------------------------------------
(* The invariant, and what it says.                                        *)

LEMMA InitRInv == Init => RInv
<1> SUFFICES ASSUME Init PROVE RInv
    OBVIOUS
<1> USE Sizes
<1>1. TypeOK
      BY TypeInit
<1>2. \A c \in Contexts : pc[c] = "idle"
      BY DEF Init
<1>3. ~ Given
      BY <1>2 DEF Given
<1>4. Ring(0)
  <2>1. 0 \in 0 .. NDesc - 1
        OBVIOUS
  <2>2. \A d \in Desc : Gap(NDesc, 0, d) \in 0 .. NDesc - 1
        BY <2>1, TurnGap DEF Desc
  <2>3. Turn(NDesc, 0, 0) = 0
        BY DEF Turn
  <2> QED BY <1>3, <2>2, <2>3 DEF Init, Ring, Place
<1>5. InOrder /\ HandsOver /\ OneSends
      BY <1>2 DEF Init, InOrder, HandsOver, HandingOver, OneSends
<1>6. 0 \in 0 .. NDesc
      OBVIOUS
<1> QED BY <1>1, <1>4, <1>5, <1>6 DEF RInv

LEMMA RInvNext == RInv /\ [Next]_vars => RInv'
<1> SUFFICES ASSUME RInv, [Next]_vars PROVE RInv'
    OBVIOUS
<1>1. TypeOK'
      BY TypeNext DEF RInv
<1>2. ASSUME nested' # "handover"
      PROVE  (\E n \in 0 .. NDesc : Ring(n)') /\ InOrder' /\ HandsOver'
      BY <1>2, RingNext, HandsNext DEF Busy
<1>3. nested' = "none" => OneSends'
      BY OneNext
<1> QED BY <1>1, <1>2, <1>3 DEF RInv

\* The ring is in step at every moment, until a send is begun in the handover
\* of another: low_level_output and ETH_Tx_Packet against the DMA, for every
\* ring and every set of contexts.
THEOREM RingIsInStep == Spec => []RingInStep
<1>1. RInv => RingInStep
  <2> SUFFICES ASSUME RInv PROVE RingInStep
      OBVIOUS
  <2> USE Sizes
  <2>1. CASE nested = "handover"
        BY <2>1 DEF RInv, RingInStep
  <2>2. CASE nested # "handover"
    <3> DEFINE Pos(k) == (dmaPos + k) % NDesc
    <3>1. PICK n \in 0 .. NDesc : Ring(n)
          BY <2>2 DEF RInv
    <3>2. TypeOK /\ InOrder
          BY <2>2 DEF RInv
    <3>3. dmaPos \in 0 .. NDesc - 1 /\ own \subseteq Desc
          BY <3>2 DEF TypeOK, Desc
    <3>4. \A k \in 0 .. NDesc : Pos(k) = Turn(NDesc, dmaPos, k)
          BY <3>3, ModTurn
    <3>5. \A k \in 0 .. NDesc - 1 : /\ Pos(k) \in Desc
                                    /\ Gap(NDesc, dmaPos, Pos(k)) = k
          BY <3>3, <3>4, TurnGap DEF Desc
    <3>6. \A d \in Desc : /\ Gap(NDesc, dmaPos, d) \in 0 .. NDesc - 1
                          /\ Pos(Gap(NDesc, dmaPos, d)) = d
          BY <3>3, <3>4, TurnGap DEF Desc
    <3>7. Pos(n) = IF Given THEN Chained(set) ELSE set
          BY <3>1, <3>4 DEF Ring, Place
    <3> HIDE DEF Pos
    <3>8. own = {Pos(k) : k \in 0 .. n - 1}
      <4>1. \A k \in 0 .. n - 1 : Pos(k) \in own
            BY <3>1, <3>5 DEF Ring
      <4>2. \A d \in own : Gap(NDesc, dmaPos, d) \in 0 .. n - 1
            BY <3>1, <3>3, <3>6 DEF Ring
      <4>3. \A d \in own : \E k \in 0 .. n - 1 : d = Pos(k)
            BY <3>3, <3>6, <4>2
      <4> QED BY <4>1, <4>3
    <3>9. ASSUME NEW c \in Contexts,
                 NEW k \in {i \in 0 .. n - 1 : due[Pos(i)][1] = c}
          PROVE  due[Pos(k)][2] =
                   (serial[c] - Cardinality({j \in {i \in 0 .. n - 1 :
                                                      due[Pos(i)][1] = c} : j >= k}))
                     % NSerials
      <4> DEFINE M == {j \in {i \in 0 .. n - 1 : due[Pos(i)][1] = c} : j >= k}
                 L == Later(c, Pos(k))
                 f == [e \in L |-> Gap(NDesc, dmaPos, e)]
      <4>1. /\ Pos(k) \in own /\ Gap(NDesc, dmaPos, Pos(k)) = k
            /\ due[Pos(k)][1] = c /\ k \in 0 .. n - 1
            BY <3>5, <3>8, <3>9
      <4>2. \A e \in L : f[e] \in M
        <5> TAKE e \in L
        <5>1. /\ e \in own /\ e \in Desc /\ due[e][1] = c
              /\ Gap(NDesc, dmaPos, e) >= k
              BY <3>3, <4>1 DEF Later
        <5>2. Gap(NDesc, dmaPos, e) \in 0 .. n - 1 /\ Pos(Gap(NDesc, dmaPos, e)) = e
              BY <3>1, <3>6, <5>1 DEF Ring
        <5> QED BY <5>1, <5>2
      <4>3. \A a, e \in L : f[a] = f[e] => a = e
            BY <3>3, <3>6 DEF Later
      <4>4. \A j \in M : \E e \in L : f[e] = j
        <5> TAKE j \in M
        <5>1. /\ j \in 0 .. n - 1 /\ j \in 0 .. NDesc - 1
              /\ due[Pos(j)][1] = c /\ j >= k
              OBVIOUS
        <5>2. Pos(j) \in own /\ Gap(NDesc, dmaPos, Pos(j)) = j
              BY <3>5, <3>8, <5>1
        <5>3. Pos(j) \in L
              BY <4>1, <5>1, <5>2 DEF Later
        <5> QED BY <5>2, <5>3
      <4>5. f \in [L -> M]
            BY <4>2
      <4> HIDE DEF f, M, L
      <4>6. f \in Bijection(L, M)
            BY <4>3, <4>4, <4>5, Fun_IsBij
      <4>7. Cardinality(M) = Cardinality(L)
        <5>1. IsFiniteSet(L)
              BY <3>2, LaterFinite DEF L
        <5>2. ExistsBijection(L, M)
              BY <4>6 DEF ExistsBijection
        <5> QED BY <5>1, <5>2, FS_Bijection
      <4>8. /\ due[Pos(k)] \in Frame
            /\ due[Pos(k)][2] = Less(NSerials, serial[c], Cardinality(L))
            BY <3>2, <4>1 DEF InOrder, L
      <4>9. /\ Cardinality(L) \in 0 .. NSerials /\ serial[c] \in 0 .. NSerials - 1
            /\ NSerials >= 1
            BY <3>2, LaterFinite DEF L, TypeOK
      <4>10. (serial[c] - Cardinality(L)) % NSerials
               = Less(NSerials, serial[c], Cardinality(L))
             BY <4>9, ModLess
      <4> QED BY <4>7, <4>8, <4>10 DEF M
    <3> QED BY <3>2, <3>7, <3>8, <3>9 DEF RingInStep, Given, Pos
  <2> QED BY <2>1, <2>2
<1> QED BY <1>1, InitRInv, RInvNext, PTL DEF Spec

\* A frame the DMA waits to send is whole, or it is at the head of a full ring
\* (lan8720.c:212, ethernetif.c:50-56), as long as no send begins in another.
THEOREM OnlyTheHeadDamaged == Spec => []OnlyHeadDamaged
<1>1. RInv => OnlyHeadDamaged
  <2> SUFFICES ASSUME RInv, nested = "none", NEW d \in own, Damaged(d)
               PROVE  d = dmaPos /\ own \cup {set} = Desc /\ set = d
      BY DEF OnlyHeadDamaged
  <2> USE Sizes
  <2>1. TypeOK /\ OneSends /\ \E n \in 0 .. NDesc : Ring(n)
        BY DEF RInv
  <2>2. PICK n \in 0 .. NDesc : Ring(n)
        BY <2>1
  <2>3. set = d /\ ~ Given
        BY <2>1 DEF OneSends
  <2>4. dmaPos \in 0 .. NDesc - 1 /\ own \subseteq Desc /\ set \in Desc
        BY <2>1 DEF TypeOK, Desc
  <2>5. set = Turn(NDesc, dmaPos, n) /\ Gap(NDesc, dmaPos, set) < n
        BY <2>2, <2>3, <2>4 DEF Ring, Place
  <2>6. n = NDesc
    <3>1. n \notin 0 .. NDesc - 1
          BY <2>4, <2>5, TurnGap
    <3> QED BY <3>1
  <2>7. set = dmaPos
        BY <2>4, <2>5, <2>6, TurnGap
  <2>8. \A e \in Desc : e \in own
    <3>1. \A e \in Desc : Gap(NDesc, dmaPos, e) \in 0 .. NDesc - 1
          BY <2>4, TurnGap DEF Desc
    <3> QED BY <2>2, <2>6, <3>1 DEF Ring
  <2> QED BY <2>3, <2>4, <2>7, <2>8
<1> QED BY <1>1, InitRInv, RInvNext, PTL DEF Spec
=============================================================================
