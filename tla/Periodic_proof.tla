--------------------------- MODULE Periodic_proof ----------------------------
(***************************************************************************)
(* lwIP's timers are neither early nor late, for every modulus, step,      *)
(* interval and pace that PeriodicAssumption admits.  The argument: the    *)
(* difference Minus takes is the time that has really passed as long as    *)
(* that is less than the modulus.  It is while main calls, because a timer *)
(* that was not due in this pass or the last cannot be older than its      *)
(* interval and two passes.  A wait for the remote address makes every     *)
(* timer one that was not looked at; the pass after it looks at them all.  *)
(***************************************************************************)
EXTENDS Periodic, TLAPS

\* Timer k has had its turn in the present pass.
Passed(k) == at = 0 \/ k < at \/ (k = at /\ do = "serve")

\* What the clock says of a timer is so, within a round.
Clock == \A k \in Timer : since[k] < W => Minus(now, stamp[k]) = since[k]

\* How old a timer can be that was looked at before.
Age == \A k \in seen :
         since[k] < Interval[k] + pass + (IF Passed(k) THEN 0 ELSE Pace)

\* One that was not is within a round till this pass, or the first, looks at it.
Reach == place # "ask" =>
           \A k \in Timer \ seen :
             since[k] + (IF at = 0 THEN Slack ELSE Pace) - pass < W

\* In the first pass the timers have been looked at in their order.
Order == /\ (seen = {} /\ at = 0) \/ \A k \in Timer : Passed(k) => k \in seen
         /\ do # "test" => at \in Timer
         /\ place = "ask" => at = 0 /\ seen = {}

\* A timer about to be stamped is due.
DueNow == do = "stamp" => since[at] >= Interval[at]

PInv == TypeOK /\ Clock /\ Age /\ Reach /\ Order /\ DueNow

\* The invariant holds when main calls for the first time.
LEMMA InitPInv == Init => PInv
<1> SUFFICES ASSUME Init PROVE PInv
    OBVIOUS
<1>1. /\ now \in Nat /\ now <= Boot /\ now < W /\ 0 < W /\ Timers \in Nat
      /\ Slack \in Nat /\ Boot + Slack < W
      BY PeriodicAssumption DEF Init, Slack
<1>2. \A k \in Timer : stamp[k] = 0 /\ since[k] = now
      BY DEF Init
<1>3. TypeOK
  <2>1. W \in Nat /\ Pace \in Nat /\ U8 \in Nat
        BY PeriodicAssumption
  <2>2. now \in 0 .. W - 1 /\ 0 \in 0 .. W - 1 /\ 0 \in 0 .. Pace /\ 0 \in 0 .. Timers + 1
        BY <1>1, <2>1
  <2>3. stamp \in [Timer -> 0 .. W - 1] /\ since \in [Timer -> Nat]
        BY <1>1, <2>2 DEF Init
  <2>4. t \in 0 .. U8 - 1 /\ place \in DOMAIN Onward /\ led \in BOOLEAN
        BY DEF Init, Onward
  <2> QED BY <2>2, <2>3, <2>4 DEF Init, TypeOK
<1>4. Clock
      BY <1>1, <1>2 DEF Clock, Minus
<1>5. Age /\ Reach /\ Order /\ DueNow
      BY <1>1, <1>2, PeriodicAssumption DEF Init, Age, Reach, Order, DueNow
<1> QED BY <1>3, <1>4, <1>5 DEF PInv

\* While main calls, no timer is a round behind.
LEMMA AgeBound ==
  ASSUME PInv, place # "ask", NEW k \in Timer
  PROVE  since[k] < W
<1>1. /\ Pace \in Nat /\ W \in Nat /\ Slack = Pace + Pace
      /\ Interval[k] \in Nat /\ since[k] \in Nat /\ pass \in 0 .. Pace
      /\ Interval[k] + Pace + Pace < W
      BY PeriodicAssumption DEF PInv, TypeOK, Slack
<1>2. CASE k \in seen
  <2>1. since[k] < Interval[k] + pass + Pace
        BY <1>1, <1>2 DEF PInv, Age
  <2> QED BY <1>1, <2>1
<1>3. CASE k \notin seen
      BY <1>1, <1>3 DEF PInv, Reach
<1> QED BY <1>2, <1>3

\* The difference of two times follows the clock across its end.
LEMMA MinusPlus ==
  ASSUME NEW n \in 0 .. W - 1, NEW s \in 0 .. W - 1, W \in Nat, Step \in Nat,
         Minus(n, s) + Step < W
  PROVE  /\ Plus(n, Step) \in 0 .. W - 1
         /\ Minus(Plus(n, Step), s) = Minus(n, s) + Step
BY DEF Plus, Minus

\* The clock's tick keeps what it says of each timer true.
LEMMA Tim3PInv == PInv /\ Tim3 => PInv'
<1> SUFFICES ASSUME PInv, Tim3 PROVE PInv'
    OBVIOUS
<1>1. /\ Timers \in Nat /\ Step \in Nat /\ Pace \in Nat /\ Boot \in Nat /\ W \in Nat
      /\ Interval \in [Timer -> Nat] /\ Step < W /\ Slack \in Nat
      BY PeriodicAssumption DEF Slack
<1>2. /\ since \in [Timer -> Nat] /\ stamp \in [Timer -> 0 .. W - 1]
      /\ now \in 0 .. W - 1 /\ pass \in 0 .. Pace /\ TypeOK
      BY DEF PInv, TypeOK
<1>3. /\ pass' \in 0 .. Pace
      /\ place # "ask" => pass' = pass + Step
      /\ now' = Plus(now, Step)
      /\ since' = [k \in Timer |-> Older(since[k])]
      /\ UNCHANGED <<stamp, at, do, seen, place, t, led>>
      BY <1>1, <1>2 DEF Tim3, callVars, turnVars
<1>4. \A k \in Timer : /\ since'[k] \in Nat /\ since'[k] >= since[k]
                       /\ since'[k] <= since[k] + Step
                       /\ since[k] < W => since'[k] = since[k] + Step
                       /\ since[k] >= W => since'[k] >= W
      BY <1>1, <1>2, <1>3 DEF Older
<1>5. Clock'
  <2> SUFFICES ASSUME NEW k \in Timer, since'[k] < W
               PROVE  Minus(now', stamp'[k]) = since'[k]
      BY DEF Clock
  <2>1. since[k] < W /\ since'[k] = since[k] + Step
        BY <1>1, <1>2, <1>4
  <2>2. Minus(now, stamp[k]) = since[k] /\ Minus(now, stamp[k]) + Step < W
        BY <2>1 DEF PInv, Clock
  <2>3. Minus(Plus(now, Step), stamp[k]) = Minus(now, stamp[k]) + Step
        BY <1>1, <1>2, <2>2, MinusPlus
  <2> QED BY <1>3, <2>1, <2>2, <2>3
<1>6. TypeOK'
  <2>1. now' \in 0 .. W - 1
        BY <1>1, <1>2, <1>3 DEF Plus
  <2>2. since' \in [Timer -> Nat]
        BY <1>1, <1>2, <1>3 DEF Older
  <2> QED BY <1>2, <1>3, <2>1, <2>2 DEF TypeOK
<1>7. Age'
  <2> SUFFICES ASSUME NEW k \in seen
               PROVE  since'[k] < Interval[k] + pass' + (IF Passed(k)' THEN 0 ELSE Pace)
      BY <1>3 DEF Age
  <2>1. k \in Timer /\ (Passed(k)' <=> Passed(k)) /\ place # "ask"
        BY <1>2, <1>3 DEF TypeOK, Passed, PInv, Order
  <2>2. since[k] < Interval[k] + pass + (IF Passed(k) THEN 0 ELSE Pace)
        BY DEF PInv, Age
  <2> QED BY <1>1, <1>2, <1>3, <1>4, <2>1, <2>2
<1>8. Reach'
  <2> SUFFICES ASSUME place # "ask", NEW k \in Timer \ seen
               PROVE  since'[k] + (IF at = 0 THEN Slack ELSE Pace) - pass' < W
      BY <1>3 DEF Reach
  <2>1. since[k] + (IF at = 0 THEN Slack ELSE Pace) - pass < W
        BY DEF PInv, Reach
  <2> QED BY <1>1, <1>2, <1>3, <1>4, <2>1
<1>9. Order'
      BY <1>3 DEF PInv, Order, Passed
<1>10. DueNow'
  <2> SUFFICES ASSUME do = "stamp" PROVE since'[at] >= Interval[at]
      BY <1>3 DEF DueNow
  <2>1. at \in Timer /\ since[at] >= Interval[at]
        BY DEF PInv, Order, DueNow
  <2> QED BY <1>1, <1>2, <1>4, <2>1
<1> QED BY <1>5, <1>6, <1>7, <1>8, <1>9, <1>10 DEF PInv

\* Main's next call begins with every timer looked at in the last, or with none
\* looked at and all of them within a round.
LEMMA EnterPInv ==
  ASSUME PInv, at = 0, place = "ask" => InRound, Enter
  PROVE  PInv'
<1>1. /\ Timers \in Nat /\ Timers >= 1 /\ Pace \in Nat /\ W \in Nat
      /\ Interval \in [Timer -> Nat] /\ Slack = Pace + Pace
      BY PeriodicAssumption DEF Slack
<1>2. /\ since \in [Timer -> Nat] /\ pass \in 0 .. Pace /\ TypeOK /\ seen \subseteq Timer
      /\ place \in DOMAIN Onward
      BY DEF PInv, TypeOK
<1>3. /\ at' = 1 /\ do' = "test" /\ pass' = 0 /\ place' \in Onward[place]
      /\ UNCHANGED <<now, since, stamp, seen, t, led>>
      BY DEF Enter
<1>4. \A k \in Timer : ~ Passed(k)' /\ Passed(k)
      BY <1>1, <1>3 DEF Passed, Timer
<1>5. place' \in DOMAIN Onward /\ place' # "ask"
      BY <1>2, <1>3 DEF Onward
<1>6. TypeOK'
      BY <1>1, <1>2, <1>3, <1>5 DEF TypeOK
<1>7. Age'
  <2> SUFFICES ASSUME NEW k \in seen
               PROVE  since'[k] < Interval[k] + pass' + (IF Passed(k)' THEN 0 ELSE Pace)
      BY <1>3 DEF Age
  <2>1. since[k] < Interval[k] + pass + (IF Passed(k) THEN 0 ELSE Pace)
        BY DEF PInv, Age
  <2> QED BY <1>1, <1>2, <1>3, <1>4, <2>1
<1>8. Reach'
  <2> SUFFICES ASSUME NEW k \in Timer \ seen PROVE since[k] + Pace < W
      BY <1>1, <1>3 DEF Reach
  <2>1. CASE place = "ask"
        BY <2>1 DEF InRound
  <2>2. CASE place # "ask"
    <3>1. since[k] + Slack - pass < W
          BY <2>2 DEF PInv, Reach
    <3> QED BY <1>1, <1>2, <3>1
  <2> QED BY <2>1, <2>2
<1> QED BY <1>1, <1>3, <1>4, <1>5, <1>6, <1>7, <1>8
        DEF PInv, Clock, Order, DueNow, Timer

\* While main waits for the remote address, no timer counts as looked at.
LEMMA AskPInv == PInv /\ Ask => PInv'
<1> SUFFICES ASSUME PInv, Ask PROVE PInv'
    OBVIOUS
<1>1. /\ at = 0 /\ place' = "ask" /\ seen' = {}
      /\ UNCHANGED <<now, since, pass, stamp, at, do, t, led>>
      BY DEF Ask, clockVars
<1>2. TypeOK'
      BY <1>1 DEF PInv, TypeOK, Onward
<1>3. 0 \notin Timer
      BY PeriodicAssumption DEF Timer
<1> QED BY <1>1, <1>2, <1>3 DEF PInv, Clock, Age, Reach, Order, DueNow

\* Where main goes from timer k, all up to k have had their turn.
LEMMA AfterPassed ==
  ASSUME NEW k \in Timer, Timers \in Nat, at' = After(k), do' = "test"
  PROVE  /\ at' \in 0 .. Timers + 1
         /\ \A j \in Timer : Passed(j)' <=> j <= k
         /\ at' = 0 => k = Timers
BY DEF Timer, After, Passed

\* A timer found not due is younger than its interval.
LEMMA TestPInv == ASSUME PInv, NEW k \in Timer, Test(k) PROVE PInv'
<1>1. /\ Timers \in Nat /\ Pace \in Nat /\ Boot \in Nat /\ W \in Nat
      /\ Interval \in [Timer -> Nat]
      BY PeriodicAssumption
<1>2. /\ since \in [Timer -> Nat] /\ pass \in 0 .. Pace /\ TypeOK /\ seen \subseteq Timer
      BY DEF PInv, TypeOK
<1>3. /\ at = k /\ do = "test" /\ k # 0
      /\ UNCHANGED <<now, since, stamp, pass, place, t, led>>
      BY <1>1 DEF Test, clockVars, turnVars, Timer
<1>4. Clock' /\ Minus(now, stamp[k]) = since[k] /\ place # "ask"
  <2>1. place # "ask"
        BY <1>3 DEF PInv, Order
  <2>2. since[k] < W
        BY <2>1, AgeBound
  <2> QED BY <1>3, <2>1, <2>2 DEF PInv, Clock
<1>5. CASE Due(k)
  <2>1. do' = "stamp" /\ UNCHANGED <<at, seen>> /\ since[k] >= Interval[k]
        BY <1>4, <1>5 DEF Test, Due
  <2>2. \A j \in Timer : Passed(j)' <=> Passed(j)
        BY <1>3, <2>1 DEF Passed
  <2>3. TypeOK'
        BY <1>2, <1>3, <2>1 DEF TypeOK
  <2>4. Age' /\ Reach'
        BY <1>2, <1>3, <2>1, <2>2 DEF PInv, Age, Reach
  <2>5. Order' /\ DueNow'
        BY <1>3, <2>1, <2>2 DEF PInv, Order, DueNow
  <2> QED BY <1>4, <2>3, <2>4, <2>5 DEF PInv
<1>6. CASE ~ Due(k)
  <2>1. do' = "test" /\ at' = After(k) /\ seen' = seen \cup {k}
        BY <1>6 DEF Test
  <2>2. since[k] < Interval[k]
        BY <1>1, <1>2, <1>4, <1>6 DEF Due
  <2>3. /\ at' \in 0 .. Timers + 1
        /\ \A j \in Timer : Passed(j)' <=> j <= k
        /\ at' = 0 => k = Timers
        BY <1>1, <2>1, AfterPassed
  <2>4. \A j \in Timer : Passed(j) <=> j < k
        BY <1>1, <1>3 DEF Passed, Timer
  <2>5. \A j \in Timer : j <= k => j \in seen'
        BY <1>1, <1>3, <2>1, <2>4 DEF PInv, Order, Timer
  <2>6. TypeOK'
        BY <1>2, <1>3, <2>1, <2>3 DEF TypeOK
  <2>7. Age'
    <3> SUFFICES ASSUME NEW j \in seen'
                 PROVE  since'[j] < Interval[j] + pass' + (IF Passed(j)' THEN 0 ELSE Pace)
        BY DEF Age
    <3>1. j \in Timer
          BY <1>2, <2>1
    <3>2. CASE j = k
          BY <1>1, <1>2, <1>3, <2>2, <3>2
    <3>3. CASE j # k
      <4>1. since[j] < Interval[j] + pass + (IF Passed(j) THEN 0 ELSE Pace)
            BY <2>1, <3>3 DEF PInv, Age
      <4>2. Passed(j)' <=> Passed(j)
            BY <1>1, <2>3, <2>4, <3>1, <3>3 DEF Timer
      <4> QED BY <1>3, <4>1, <4>2
    <3> QED BY <3>2, <3>3
  <2>8. Reach'
    <3> SUFFICES ASSUME place # "ask", NEW j \in Timer \ seen'
                 PROVE  since'[j] + (IF at' = 0 THEN Slack ELSE Pace) - pass' < W
        BY <1>3 DEF Reach
    <3>1. at' # 0
          BY <1>1, <2>3, <2>5 DEF Timer
    <3>2. since[j] + Pace - pass < W
          BY <1>3, <2>1 DEF PInv, Reach
    <3> QED BY <1>3, <3>1, <3>2
  <2>9. Order' /\ DueNow'
        BY <1>3, <1>4, <2>1, <2>3, <2>5 DEF Order, DueNow
  <2> QED BY <1>4, <2>6, <2>7, <2>8, <2>9 DEF PInv
<1> QED BY <1>5, <1>6

\* A timer stamped is of age 0.
LEMMA StampPInv == ASSUME PInv, NEW k \in Timer, Stamp(k) PROVE PInv'
<1>1. /\ Timers \in Nat /\ Pace \in Nat /\ Boot \in Nat /\ W \in Nat /\ W > 0
      /\ \A j \in Timer : Interval[j] \in Nat /\ Interval[j] > 0
      BY PeriodicAssumption DEF Slack
<1>2. /\ since \in [Timer -> Nat] /\ stamp \in [Timer -> 0 .. W - 1]
      /\ now \in 0 .. W - 1 /\ pass \in 0 .. Pace /\ TypeOK /\ seen \subseteq Timer
      BY DEF PInv, TypeOK
<1>3. /\ at = k /\ do = "stamp" /\ at' = k /\ do' = "serve"
      /\ stamp' = [stamp EXCEPT ![k] = now] /\ since' = [since EXCEPT ![k] = 0]
      /\ seen' = seen \cup {k}
      /\ UNCHANGED <<now, pass, place, t, led>>
      BY DEF Stamp, turnVars
<1>4. \A j \in Timer : j # k => (Passed(j)' <=> Passed(j))
      BY <1>3 DEF Passed
<1>5. TypeOK'
      BY <1>2, <1>3 DEF TypeOK
<1>6. Clock'
      BY <1>1, <1>2, <1>3 DEF PInv, Clock, Minus
<1>7. Age'
  <2> SUFFICES ASSUME NEW j \in seen'
               PROVE  since'[j] < Interval[j] + pass' + (IF Passed(j)' THEN 0 ELSE Pace)
      BY DEF Age
  <2>1. j \in Timer
        BY <1>2, <1>3
  <2>2. CASE j = k
        BY <1>1, <1>2, <1>3, <2>1, <2>2
  <2>3. CASE j # k
    <3>1. since[j] < Interval[j] + pass + (IF Passed(j) THEN 0 ELSE Pace)
          BY <1>3, <2>3 DEF PInv, Age
    <3> QED BY <1>2, <1>3, <1>4, <2>1, <2>3, <3>1
  <2> QED BY <2>2, <2>3
<1>8. Reach'
      BY <1>2, <1>3 DEF PInv, Reach
<1>9. Order' /\ DueNow'
  <2>1. \A j \in Timer : Passed(j)' => j \in seen'
        BY <1>3, <1>4 DEF PInv, Order, Timer
  <2>2. place' # "ask"
        BY <1>1, <1>3 DEF PInv, Order, Timer
  <2> QED BY <1>3, <2>1, <2>2 DEF Order, DueNow
<1> QED BY <1>5, <1>6, <1>7, <1>8, <1>9 DEF PInv

\* After its service main goes on to the next timer.
LEMMA ServePInv == ASSUME PInv, NEW k \in Timer, Serve(k) PROVE PInv'
<1>1. Timers \in Nat /\ Pace \in Nat
      BY PeriodicAssumption
<1>2. TypeOK /\ seen \subseteq Timer
      BY DEF PInv, TypeOK
<1>3. /\ at = k /\ do = "serve" /\ do' = "test" /\ at' = After(k) /\ k # 0
      /\ UNCHANGED <<now, since, stamp, pass, seen, place, t, led>>
      BY <1>1 DEF Serve, clockVars, turnVars, Timer
<1>4. /\ at' \in 0 .. Timers + 1
      /\ \A j \in Timer : Passed(j)' <=> j <= k
      /\ at' = 0 => k = Timers
      BY <1>1, <1>3, AfterPassed
<1>5. \A j \in Timer : Passed(j) <=> j <= k
      BY <1>1, <1>3 DEF Passed, Timer
<1>6. \A j \in Timer : j <= k => j \in seen
      BY <1>3, <1>5 DEF PInv, Order
<1>7. TypeOK'
      BY <1>2, <1>3, <1>4 DEF TypeOK
<1>8. Clock' /\ Age'
      BY <1>2, <1>3, <1>4, <1>5 DEF PInv, Clock, Age
<1>9. Reach'
      BY <1>1, <1>3, <1>4, <1>6 DEF PInv, Reach, Timer
<1>10. Order' /\ DueNow'
  <2>1. place' # "ask"
        BY <1>3 DEF PInv, Order
  <2> QED BY <1>3, <1>4, <1>6, <2>1 DEF Order, DueNow
<1> QED BY <1>7, <1>8, <1>9, <1>10 DEF PInv

\* Main's own turn is no timer's.
LEMMA TurnPInv == PInv /\ Turn => PInv'
<1> SUFFICES ASSUME PInv, Turn PROVE PInv'
    OBVIOUS
<1>1. Timers \in Nat /\ Pace \in Nat /\ Boot \in Nat /\ U8 \in Nat
      BY PeriodicAssumption
<1>2. TypeOK /\ seen \subseteq Timer /\ since \in [Timer -> Nat] /\ pass \in 0 .. Pace
      BY DEF PInv, TypeOK
<1>3. /\ at = Timers + 1 /\ at' = 0
      /\ UNCHANGED <<now, since, stamp, pass, do, seen, place>>
      BY DEF Turn, clockVars
<1>4. \A j \in Timer : Passed(j) /\ Passed(j)' /\ j \in seen
  <2>1. \A j \in Timer : Passed(j) /\ Passed(j)'
        BY <1>1, <1>3 DEF Passed, Timer
  <2> QED BY <1>1, <1>3, <2>1 DEF PInv, Order
<1>5. t' \in 0 .. U8 - 1 /\ led' \in BOOLEAN
  <2>1. t \in 0 .. U8 - 1 /\ U8 - 1 \in Nat
        BY <1>1 DEF PInv, TypeOK
  <2>2. t' \in 0 .. U8 - 1
        BY <1>1, <2>1 DEF Turn
  <2>3. led' \in BOOLEAN
        BY DEF Turn, PInv, TypeOK
  <2> QED BY <2>2, <2>3
<1>6. TypeOK'
      BY <1>1, <1>2, <1>3, <1>5 DEF TypeOK
<1>7. Clock' /\ Age' /\ Reach'
      BY <1>2, <1>3, <1>4 DEF PInv, Clock, Age, Reach
<1>8. do = "test"
      BY <1>1, <1>3 DEF PInv, Order, Timer
<1> QED BY <1>3, <1>4, <1>6, <1>7, <1>8 DEF PInv, Order, DueNow

\* The invariant is one of the specification.
LEMMA PeriodicInvariance == Spec => []PInv
<1>1. PInv /\ UNCHANGED vars => PInv'
      BY DEF vars, clockVars, callVars, turnVars, PInv, TypeOK, Clock, Age, Reach,
             Order, DueNow, Passed
<1>2. PInv /\ [Next]_vars => PInv'
  <2>1. PInv /\ Call => PInv'
        BY EnterPInv DEF Call
  <2>2. PInv /\ Answer => PInv'
        BY EnterPInv DEF Answer, PInv, Order
  <2> QED BY <1>1, <2>1, <2>2, Tim3PInv, AskPInv, TestPInv, StampPInv, ServePInv, TurnPInv
          DEF Next, Main
<1> QED BY InitPInv, <1>2, PTL DEF Spec

\* The clock, the stamps and main's counter keep their types.
THEOREM TypeCorrect == Spec => []TypeOK
<1>1. PInv => TypeOK
      BY DEF PInv
<1> QED BY PeriodicInvariance, <1>1, PTL

\* No timer is served before its interval has passed, wherever the clock wraps.
THEOREM NeverEarlyProved == Spec => NeverEarly
<1> DEFINE Early == \A k \in Timer : Stamp(k) => since[k] >= Interval[k]
<1>1. PInv => Early
  <2> SUFFICES ASSUME PInv, NEW k \in Timer, Stamp(k) PROVE since[k] >= Interval[k]
      OBVIOUS
  <2> QED BY DEF PInv, DueNow, Stamp
<1>2. PInv => [Early]_vars
      BY <1>1
<1> HIDE DEF Early
<1>3. Spec => [][Early]_vars
      BY PeriodicInvariance, <1>2, PTL
<1> QED BY <1>3 DEF Early, NeverEarly

\* No timer falls behind by more than two passes of main.
THEOREM NeverLateProved == Spec => []NeverLate
<1>1. PInv => NeverLate
  <2> SUFFICES ASSUME PInv, NEW k \in seen PROVE since[k] < Interval[k] + Slack
      BY DEF NeverLate
  <2>1. k \in Timer /\ since \in [Timer -> Nat] /\ pass \in 0 .. Pace /\ Pace \in Nat
        /\ Interval \in [Timer -> Nat]
        BY PeriodicAssumption DEF PInv, TypeOK
  <2>2. since[k] < Interval[k] + pass + (IF Passed(k) THEN 0 ELSE Pace)
        BY DEF PInv, Age
  <2> QED BY <2>1, <2>2 DEF Slack
<1> QED BY PeriodicInvariance, <1>1, PTL

=============================================================================
