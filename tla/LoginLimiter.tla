---------------------------- MODULE LoginLimiter ----------------------------
(***************************************************************************)
(* The limit on failed logins: internal/api/ratelimit.go as handleLogin    *)
(* and handleMFAVerify (auth.go, mfa.go) use it.  The question whether an  *)
(* attempt may proceed and the record of its failure are two critical      *)
(* sections, and the attempt itself runs between them beside others from   *)
(* the same address.                                                       *)
(***************************************************************************)
EXTENDS Clock, Integers, FiniteSets

CONSTANTS Addresses,
          Attempts,     \* attempts in progress at one time
          LoginMax,     \* loginMaxAttempts
          LoginWindow,  \* loginWindow
          NoAddress,
          MaxFailures   \* bound of the model: failures of one address

ASSUME LoginAssumption ==
    /\ LoginMax \in Nat \ {0} /\ LoginWindow \in Nat \ {0} /\ MaxFailures \in Nat
    /\ NoAddress \notin Addresses /\ IsFiniteSet(Attempts)

VARIABLES attempts,  \* address -> its failures kept, as entries of failures
          trying,    \* trying[a]: the address of attempt a once admitted
          failures   \* history: address -> all its failures, numbered and timed

loginVars == <<attempts, trying, failures>>

LoginInit ==
    /\ attempts = [k \in Addresses |-> {}]
    /\ trying = [a \in Attempts |-> NoAddress]
    /\ failures = [k \in Addresses |-> {}]

After(kept, cutoff) == {f \in kept : f.at > cutoff}

\* Faulty Recent: a failure is forgotten one tick early.
RecentShort(k) == After(attempts[k], clock - LoginWindow + 1)

\* recentLocked: the failures of the last window.  Only their number is asked.
Recent(k) == After(attempts[k], clock - LoginWindow)

\* allow, when it says yes; it prunes the record whatever it says.
Allow(a, k) ==
    /\ trying[a] = NoAddress
    /\ attempts' = [attempts EXCEPT ![k] = Recent(k)]
    /\ trying' = [trying EXCEPT ![a] = IF Cardinality(Recent(k)) < LoginMax THEN k ELSE NoAddress]
    /\ UNCHANGED <<failures, clock>>

\* The password or the code was wrong.
RecordFailure(a) ==
    /\ trying[a] # NoAddress
    /\ LET k == trying[a]
           failure == [nth |-> Cardinality(failures[k]) + 1, at |-> clock] IN
        /\ Cardinality(failures[k]) < MaxFailures
        /\ attempts' = [attempts EXCEPT ![k] = Recent(k) \cup {failure}]
        /\ failures' = [failures EXCEPT ![k] = @ \cup {failure}]
    /\ trying' = [trying EXCEPT ![a] = NoAddress]
    /\ UNCHANGED clock

\* It was right, or the account deactivated, or the body no JSON.
Leave(a) ==
    /\ trying[a] # NoAddress
    /\ trying' = [trying EXCEPT ![a] = NoAddress]
    /\ UNCHANGED <<attempts, failures, clock>>

LoginStep ==
    \E a \in Attempts : RecordFailure(a) \/ Leave(a) \/ \E k \in Addresses : Allow(a, k)

-----------------------------------------------------------------------------
\* ratelimit.go:10-12, "at most loginMaxAttempts failures within loginWindow":
\* the failures of an address within any window, counted from all it ever made,
\* and the attempts under way that may still fail, exceed the limit by no more
\* than the attempts the daemon lets overlap.
LockoutHolds ==
    \A k \in Addresses :
        Cardinality(After(failures[k], clock - LoginWindow))
            + Cardinality({a \in Attempts : trying[a] = k})
        <= LoginMax - 1 + Cardinality(Attempts)
=============================================================================
