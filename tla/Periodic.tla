------------------------------ MODULE Periodic -------------------------------
(***************************************************************************)
(* lwIP's time: the interrupt of TIM3 advances lwip_localtime, and main    *)
(* calls lwip_periodic_handle in each of its loops but one, where each     *)
(* timer is served when the clock has moved on by its interval since its   *)
(* stamp.  The one is the screen at which KEY1 asks for the remote         *)
(* address: it waits for KEY_UP, for ever if nobody presses it, and the    *)
(* clock runs on.                                                          *)
(* The clock wraps.  TIM3 comes between any two reads of it: between the   *)
(* test of a timer and its stamp, and between the stamp and the service.   *)
(*                                                                         *)
(* since counts the time that has really passed since the stamp.  Time is  *)
(* what TIM3 has counted; its interrupt is held up by the Ethernet's.      *)
(***************************************************************************)
EXTENDS Integers

CONSTANTS Timers,    \* how many there are: tcp, ARP, DHCP fine, DHCP coarse
          Interval,  \* their intervals
          W,         \* the modulus of the clock (2^32)
          Step,      \* what TIM3 adds to it (10), no divisor of W
          Pace,      \* bound: time from one call to the next, but for
                     \* what main spends at the remote address
          Boot,      \* bound: the clock when main calls for the first time
          U8,        \* the modulus of main's counter t
          Flash      \* the count at which main inverts the LED (200)

Timer == 1 .. Timers

\* How far a timer can be behind: two passes of main.
Slack == Pace + Pace

ASSUME PeriodicAssumption ==
  /\ Timers \in Nat \ {0} /\ Step \in Nat \ {0} /\ Pace \in Nat /\ Boot \in Nat
  /\ Interval \in [Timer -> Nat \ {0}]
  /\ W \in Nat /\ Step < W /\ Boot + Slack < W
  /\ \A k \in Timer : Interval[k] + Slack < W
  /\ U8 \in Nat /\ Flash \in 1 .. U8 - 1

VARIABLES now,    \* lwip_localtime
          stamp,  \* TCPTimer, ARPTimer, DHCPfineTimer, DHCPcoarseTimer
          at,     \* the timer lwip_periodic_handle looks at; 0: main is
                  \* elsewhere, Timers + 1: at the menu, behind the call
          do,     \* "test", "stamp" or "serve"
          since,  \* time since each timer's stamp
          seen,   \* timers found not due or served since the boot, or
                  \* since main last asked for the remote address
          pass,   \* time since the last call
          place,  \* the loop main is in
          t, led  \* main's t and LED0

clockVars == <<now, since, pass>>
callVars  == <<stamp, at, do, seen>>
turnVars  == <<place, t, led>>
vars      == <<clockVars, callVars, turnVars>>

\* u32 arithmetic
Plus(a, b)  == IF a + b < W THEN a + b ELSE a + b - W
Minus(a, b) == IF a >= b THEN a - b ELSE a - b + W

\* Bound: an age beyond the modulus is not told apart.
Older(age) == IF age < W THEN age + Step ELSE age

\* The loops main may be in when it next calls.  At the menu KEY1 leads to the
\* remote address and on to the TCP session, which KEY_UP leaves (or the lack
\* of memory); KEY2 leads to the UDP session, which has no end.
Onward == [boot |-> {"boot", "menu", "udp"}, menu |-> {"menu", "udp"},
           ask  |-> {"tcp", "menu"}, tcp |-> {"tcp", "menu"}, udp |-> {"udp"}]

\* main's t is not initialised.
Init == /\ now \in {n \in 0 .. Boot : n % Step = 0}
        /\ stamp = [k \in Timer |-> 0] /\ since = [k \in Timer |-> now]
        /\ at = 0 /\ do = "test" /\ seen = {} /\ pass = 0
        /\ place = "boot" /\ t \in 0 .. U8 - 1 /\ led = FALSE

-----------------------------------------------------------------------------
\* TIM3_IRQHandler, wherever main is
Tim3 == /\ IF place = "ask" THEN UNCHANGED pass
                            ELSE pass + Step <= Pace /\ pass' = pass + Step
        /\ now' = Plus(now, Step)
        /\ since' = [k \in Timer |-> Older(since[k])]
        /\ UNCHANGED <<callVars, turnVars>>

Enter == /\ at' = 1 /\ do' = "test" /\ pass' = 0
         /\ place' \in Onward[place]
         /\ UNCHANGED <<now, since, stamp, seen, t, led>>

\* main calls lwip_periodic_handle.
Call == at = 0 /\ place # "ask" /\ Enter

\* KEY1 at the menu: tcp_client_set_remoteip, whose loop does not call it.
Ask == /\ at = 0 /\ place \in {"boot", "menu"}
       /\ place' = "ask" /\ seen' = {}
       /\ UNCHANGED <<clockVars, stamp, at, do, t, led>>

\* Bound: a wait for KEY_UP that ends does so before the clock has gone round
\* (49 days) since a stamp.
InRound == \A k \in Timer : since[k] + Pace < W

\* KEY_UP: main calls again in the session, or back at the menu.
Answer == place = "ask" /\ InRound /\ Enter

\* What follows timer k; only the menu counts its turns in t.
After(k) == IF k < Timers \/ place = "menu" THEN k + 1 ELSE 0

\* Mutant: the clock is compared with the time the timer is due.
MutDueAbsolute(k) == now >= Plus(stamp[k], Interval[k])

\* lwip_localtime - TCPTimer >= TCP_TMR_INTERVAL, in u32
Due(k) == Minus(now, stamp[k]) >= Interval[k]

\* Mutant: the stamp is set whether the timer is due or not.
MutTest(k) == /\ at = k /\ do = "test"
              /\ stamp' = [stamp EXCEPT ![k] = now]
              /\ IF Due(k) THEN do' = "serve" /\ UNCHANGED at
                           ELSE do' = "test" /\ at' = After(k)
              /\ UNCHANGED <<clockVars, seen, turnVars>>

Test(k) == /\ at = k /\ do = "test"
           /\ IF Due(k) THEN do' = "stamp" /\ UNCHANGED <<at, seen>>
                        ELSE do' = "test" /\ at' = After(k) /\ seen' = seen \cup {k}
           /\ UNCHANGED <<clockVars, stamp, turnVars>>

\* Mutant: the stamp moves on by the interval, not to the present.
MutStamp(k) == /\ at = k /\ do = "stamp"
               /\ stamp' = [stamp EXCEPT ![k] = Plus(@, Interval[k])]
               /\ since' = [since EXCEPT ![k] = 0]
               /\ do' = "serve" /\ seen' = seen \cup {k}
               /\ UNCHANGED <<now, pass, at, turnVars>>

\* TCPTimer = lwip_localtime
Stamp(k) == /\ at = k /\ do = "stamp"
            /\ stamp' = [stamp EXCEPT ![k] = now]
            /\ since' = [since EXCEPT ![k] = 0]
            /\ do' = "serve" /\ seen' = seen \cup {k}
            /\ UNCHANGED <<now, pass, at, turnVars>>

\* tcp_tmr, etharp_tmr, dhcp_fine_tmr, dhcp_coarse_tmr
Serve(k) == /\ at = k /\ do = "serve"
            /\ do' = "test" /\ at' = After(k)
            /\ UNCHANGED <<clockVars, stamp, seen, turnVars>>

\* Mutant: a count the u8 never reaches.
MutTurnTooFar == /\ at = Timers + 1
                 /\ at' = 0
                 /\ t' = (t + 1) % U8 /\ UNCHANGED led
                 /\ UNCHANGED <<clockVars, stamp, do, seen, place>>

\* t++; at its last count it is cleared and the LED inverted.
Turn == /\ at = Timers + 1
        /\ at' = 0
        /\ LET n == IF t + 1 = U8 THEN 0 ELSE t + 1
           IN  IF n = Flash THEN t' = 0 /\ led' = ~led
                            ELSE t' = n /\ UNCHANGED led
        /\ UNCHANGED <<clockVars, stamp, do, seen, place>>

Main == Call \/ Turn \/ \E k \in Timer : Test(k) \/ Stamp(k) \/ Serve(k)

Next == Tim3 \/ Main \/ Ask \/ Answer

\* main runs, and so does TIM3.  Nothing makes anybody press a key: neither Ask
\* nor Answer ever has to happen.
Spec == Init /\ [][Next]_vars /\ WF_vars(Main) /\ WF_vars(Tim3)

-----------------------------------------------------------------------------
TypeOK == /\ now \in 0 .. W - 1 /\ stamp \in [Timer -> 0 .. W - 1]
          /\ at \in 0 .. Timers + 1 /\ do \in {"test", "stamp", "serve"}
          /\ since \in [Timer -> Nat] /\ seen \subseteq Timer
          /\ pass \in 0 .. Pace
          /\ place \in DOMAIN Onward /\ t \in 0 .. U8 - 1
          /\ led \in BOOLEAN

\* "tcp_tmr() is called every 250 ms" (lwip_comm.c:165): no timer is served
\* before its interval has passed, wherever the clock wraps.
NeverEarly == [][\A k \in Timer : Stamp(k) => since[k] >= Interval[k]]_vars

\* ... and none later than main's pace makes unavoidable: the interval and the
\* two passes a tick may just have missed.  What main spends at the remote
\* address is not held to this; it holds again from the first pass after it.
NeverLate == \A k \in seen : since[k] < Interval[k] + Slack

\* Every timer is served again and again, unless main waits for ever at the
\* remote address, where none is (tcp_client_demo.c:47-57).
ServedForEver == \A k \in Timer :
                   []<>(at = k /\ do = "serve") \/ <>[](place = "ask")

\* Whatever t holds at power-on, main's LED goes on blinking while main is at
\* its menu again and again (main.c:77, 137-148).
Blinks == []<>(at = Timers + 1) => []<>led /\ []<>~led
=============================================================================
