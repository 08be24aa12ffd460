------------------------------- MODULE Limits -------------------------------
(***************************************************************************)
(* What the daemon keeps for a time: the failed logins and the states of   *)
(* provider logins, which live in memory, and the AI budgets, which live   *)
(* in the database; with the daemon's restarts.                            *)
(*                                                                         *)
(* The three share nothing but the clock.  So a behaviour is one of a      *)
(* single part, the others at rest, which TLC explores one by one.         *)
(***************************************************************************)
EXTENDS LoginLimiter, AiCalls, OAuthStates

CONSTANT MaxRestarts  \* bound of the model

ASSUME LimitsAssumption == MaxRestarts \in Nat

VARIABLES part,      \* the part this behaviour is about
          restarts

parts == <<loginVars, aiVars, stateVars>>
vars == <<parts, clock, part, restarts>>

Init ==
    /\ LoginInit /\ AiInit /\ StatesInit
    /\ clock = 0 /\ restarts = 0
    /\ part \in {"logins", "budgets", "states"}

Tick ==
    /\ ClockTicks
    /\ UNCHANGED <<parts, part, restarts>>

\* New failures are counted from nothing, the plugins' records are still there.
Restart ==
    /\ restarts < MaxRestarts
    /\ restarts' = restarts + 1
    /\ attempts' = [k \in Addresses |-> {}]
    /\ failures' = [k \in Addresses |-> {}]
    /\ trying' = [a \in Attempts |-> NoAddress]
    /\ call' = [c \in Calls |-> Resting]
    /\ StatesLost
    /\ UNCHANGED <<kv, charged, raced, clock, part>>

Next ==
    \/ Tick \/ Restart
    \/ part = "logins" /\ LoginStep /\ UNCHANGED <<aiVars, stateVars, part, restarts>>
    \/ part = "budgets" /\ AiStep /\ UNCHANGED <<loginVars, stateVars, part, restarts>>
    \/ part = "states" /\ StatesStep /\ UNCHANGED <<loginVars, aiVars, part, restarts>>

Spec == Init /\ [][Next]_vars
=============================================================================
