---------------------------- MODULE ExpiryClock ----------------------------
(***************************************************************************)
(* The arithmetic of has_key_expired (src/src/cmd_handler.c).  It computes *)
(* with floats: both times are rounded before they are subtracted, and the *)
(* difference and its multiple again.  Times are integers, in ticks, on    *)
(* the clock that starts with the machine (CLOCK_MONOTONIC).               *)
(***************************************************************************)
EXTENDS Integers

CONSTANTS
  Digits,       \* the 2^24 of a float: it is below this times the distance ...
  Ulps,         \* ... of the floats around it, a power of two
  TicksPerSec,  \* a power of two, so that ticks round as seconds do
  Kilo,         \* the 1000 milliseconds of a second
  MaxTime       \* bound on the clock

\* The distances double from 1 on, and at a power of two below them the floats
\* are twice as far apart as just under it.
ASSUME FloatAssumption ==
  /\ Ulps \subseteq Nat \ {0} /\ 1 \in Ulps
  /\ \A u, v \in Ulps : u < v => \E k \in 1 .. v : v = 2 * u * k
  /\ \A v \in Ulps \ {1} : \E u \in Ulps : v = 2 * u
  /\ Digits \in Nat \ {0} /\ \E h \in 1 .. Digits : Digits = 2 * h
ASSUME ClockAssumption ==
  /\ TicksPerSec \in Nat \ {0} /\ Kilo \in Nat \ {0} /\ MaxTime \in Nat
  /\ \E u \in Ulps : 4 * MaxTime * Kilo < Digits * u

\* The distance of the floats around t.
Ulp(t) == CHOOSE u \in Ulps :
  t < Digits * u /\ \A v \in Ulps : t < Digits * v => u <= v

\* The nearest float, of two the even one.
Float(t) ==
  LET u == Ulp(t)
      q == t \div u
      r == t % u
  IN  IF 2 * r < u \/ (2 * r = u /\ q % 2 = 0) THEN q * u ELSE (q + 1) * u

\* delta_sec, in ticks.
Delta(curr, prev) == Float(Float(curr) - Float(prev))

\* Mutant: >= for >.
Exceeds_early(curr, key) ==
  IF key.ex # 0 THEN Delta(curr, key.time) >= Float(key.ex) * TicksPerSec
  ELSE Float(Delta(curr, key.time) * Kilo) >= Float(key.px) * TicksPerSec

\* The two comparisons, for a key with an expiry.
Exceeds(curr, key) ==
  IF key.ex # 0 THEN Delta(curr, key.time) > Float(key.ex) * TicksPerSec
  ELSE Float(Delta(curr, key.time) * Kilo) > Float(key.px) * TicksPerSec

-----------------------------------------------------------------------------

\* How far the comparison may be off at the time t, in ticks: not at all while
\* the clock fits a float, later by four distances of the floats.
Blur(t) == IF t * Kilo < Digits THEN 0 ELSE 4 * Ulp(t)
=============================================================================
