------------------------------- MODULE Clock -------------------------------
(***************************************************************************)
(* The wall clock that the login limiter, the AI rate limit and the OAuth  *)
(* states read (loginLimiter.now, ai.timeNow, time.Now), in ticks.         *)
(***************************************************************************)
EXTENDS Naturals

CONSTANT MaxClock  \* bound of the model

ASSUME ClockAssumption == MaxClock \in Nat

VARIABLE clock

ClockTicks == clock < MaxClock /\ clock' = clock + 1
=============================================================================
