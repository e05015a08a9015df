------------------------------ MODULE RateLimit ------------------------------
(***************************************************************************)
(* The rate limit of Analysis::DrawInfo (Analysis.cpp) against the clock   *)
(* it reads.  Analysis::Run sets last_time by gettimeofday before the      *)
(* capture loop; each DrawInfo with a non-empty batch computes             *)
(*   uint32_t diff_time = (now.tv_sec - last_time.tv_sec) * 1000           *)
(*                        + (now.tv_usec - last_time.tv_usec) / 1000;      *)
(* drops the batch when diff_time < 1000, and otherwise sets               *)
(* last_time = now and forwards it.  gettimeofday is the wall clock, which *)
(* an administrator or NTP may step back or forward while the capture     *)
(* loop runs; the model keeps beside it the time that really passed.       *)
(* Only the batches matter here, so every DrawInfo has one.                *)
(***************************************************************************)
EXTENDS Integers

CONSTANTS
  LoopGaps,   \* microseconds one capture-loop iteration may take
  ClockSteps, \* microseconds by which the wall clock may be set (+ or -)
  MaxReal,    \* bound: microseconds of real time explored
  MaxSkew     \* bound: how far the wall clock may drift from real time

USec == 1000000

VARIABLES
  now,      \* the wall clock, as gettimeofday gives it: [sec, usec]
  last,     \* last_time
  real,     \* the microseconds that really passed since the loop started
  lastFwd,  \* real at the latest forward (the loop's start before any)
  gap       \* real microseconds between the latest two forwards

vars == <<now, last, real, lastFwd, gap>>

\* The timeval t moved by d microseconds, usec normalised to 0 .. 999999.
Shift(t, d) ==
  LET u == t.sec * USec + t.usec + d
  IN [sec |-> u \div USec, usec |-> u % USec]

\* C integer division truncates toward zero.
CDiv(a, b) == IF a >= 0 THEN a \div b ELSE -((-a) \div b)

(* `diff_time < 1000` for the uint32 diff_time: the long expression is     *)
(* converted modulo 2^32, so a negative difference d (here |d| < 2^31)     *)
(* becomes d + 2^32, which is at least 2^31.                               *)
DiffTimeBelow(t, l, limit) ==
  LET d == (t.sec - l.sec) * 1000 + CDiv(t.usec - l.usec, 1000)
  IN 0 <= d /\ d < limit

-----------------------------------------------------------------------------
Init ==
  /\ now = [sec |-> 1, usec |-> 0]
  /\ last = now
  /\ real = 0
  /\ lastFwd = 0
  /\ gap = USec

\* usleep(interval) and the next frame: time passes.
Elapse ==
  \E g \in LoopGaps :
    /\ real + g <= MaxReal
    /\ real' = real + g
    /\ now' = Shift(now, g)
    /\ UNCHANGED <<last, lastFwd, gap>>

\* settimeofday by another process: the wall clock jumps, no time passes.
SetClock ==
  \E d \in ClockSteps :
    /\ LET skew == (now.sec - 1) * USec + now.usec + d - real
       IN -MaxSkew <= skew /\ skew <= MaxSkew
    /\ now' = Shift(now, d)
    /\ UNCHANGED <<last, real, lastFwd, gap>>

(* DrawInfo's rate limit on a non-empty batch: drop it, or take the time   *)
(* and forward it.                                                         *)
DrawInfo ==
  \/ /\ DiffTimeBelow(now, last, 1000)
     /\ UNCHANGED vars
  \/ /\ ~DiffTimeBelow(now, last, 1000)
     /\ last' = now
     /\ lastFwd' = real
     /\ gap' = real - lastFwd
     /\ UNCHANGED <<now, real>>

Next == Elapse \/ SetClock \/ DrawInfo

Spec == Init /\ [][Next]_vars

-----------------------------------------------------------------------------
(* Two batches are forwarded at least a second apart: spec 4.4 has the     *)
(* rate limit bound the outbound alarm rate ("at least a fixed minimum     *)
(* interval (e.g., 1 second) has elapsed since the last forward"), but     *)
(* DrawInfo measures the interval on the wall clock, and a step back makes *)
(* the unsigned diff_time huge.                                            *)
ForwardsSpaced ==
  gap >= USec
=============================================================================
