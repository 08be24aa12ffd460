---------------------------- MODULE GuardsProofs ----------------------------
(***************************************************************************)
(* Proofs about what stands before the daemon's API.  Limits, for any      *)
(* number of attempts, calls, browsers and restarts, any limits and any    *)
(* windows: the tokens of provider logins, the lockout of an address, the  *)
(* budget of an AI caller.  Access, for any accounts, scopes, documents    *)
(* and requests at a time: the doors, and the audit trail behind them.     *)
(***************************************************************************)
EXTENDS Limits, Access, FiniteSetTheorems, TLAPS

-----------------------------------------------------------------------------
\* The tokens of provider logins.  The inductive invariant ties the three places
\* a token occurs in to its start: a kept token was started, expires a lifetime
\* later and has admitted nobody; a cookie holds a token its browser started.

StartsTyped == started \in [Tokens -> [by : Browsers \cup {NoBrowser}, at : Nat]]
KeptWasStarted ==
    \A s \in states :
        /\ s.token \in Tokens /\ started[s.token].by \in Browsers
        /\ s.expires = started[s.token].at + StateTTL
        /\ admitted[s.token] = {}
CookiesAreOwn ==
    \A b \in Browsers, t \in Tokens : cookie[b] = t => started[t].by = b
UnstartedIsUnused ==
    \A t \in Tokens : started[t] = NotStarted => admitted[t] = {}

StatesInv ==
    /\ clock \in Nat
    /\ StartsTyped
    /\ cookie \in [Browsers -> Tokens \cup {0}]
    /\ admitted = [t \in Tokens |-> admitted[t]]
    /\ KeptWasStarted /\ CookiesAreOwn /\ UnstartedIsUnused
    /\ CallbackWasStarted

\* No state is kept, no cookie set.
LEMMA InitStates == Init => StatesInv
<1> SUFFICES ASSUME Init PROVE StatesInv
  OBVIOUS
<1>1. /\ clock \in Nat /\ StartsTyped /\ cookie \in [Browsers -> Tokens \cup {0}]
      /\ admitted = [t \in Tokens |-> admitted[t]] /\ KeptWasStarted /\ UnstartedIsUnused
  BY DEF Init, StatesInit, StartsTyped, NotStarted, KeptWasStarted, UnstartedIsUnused
<1>2. CookiesAreOwn
  BY DEF Init, StatesInit, CookiesAreOwn, Tokens
<1>3. CallbackWasStarted
  BY FS_EmptySet DEF Init, StatesInit, CallbackWasStarted
<1> QED
  BY <1>1, <1>2, <1>3 DEF StatesInv

\* A fresh token, started now by b.
LEMMA StartKeeps ==
    ASSUME StatesInv, NEW b \in Browsers, StartLogin(b) PROVE StatesInv'
<1> USE DEF StatesInv
<1>1. PICK t \in Tokens :
        /\ {u \in Tokens : started[u] # NotStarted} = 1 .. (t - 1)
        /\ states' = states \cup {[token |-> t, expires |-> clock + StateTTL]}
        /\ cookie' = [cookie EXCEPT ![b] = t]
        /\ started' = [started EXCEPT ![t] = [by |-> b, at |-> clock]]
        /\ UNCHANGED <<exchanging, admitted, clock>>
  BY DEF StartLogin
<1>2. t \notin 1 .. (t - 1)
  BY DEF Tokens
<1>3. started[t] = NotStarted /\ started[t].by = NoBrowser
  BY <1>1, <1>2 DEF NotStarted
<1>4. admitted[t] = {}
  BY <1>3 DEF UnstartedIsUnused
<1>5. StartsTyped'
  BY <1>1 DEF StartsTyped
<1>6. /\ started'[t] = [by |-> b, at |-> clock]
      /\ \A u \in Tokens \ {t} : started'[u] = started[u]
  BY <1>1 DEF StartsTyped
<1>7. cookie' \in [Browsers -> Tokens \cup {0}] /\ cookie'[b] = t
      /\ \A d \in Browsers \ {b} : cookie'[d] = cookie[d]
  BY <1>1
<1>8. KeptWasStarted'
  <2>1. \A s \in states : s.token # t
    BY <1>3, StatesAssumption DEF KeptWasStarted
  <2>2. ASSUME NEW s \in states
        PROVE /\ s.token \in Tokens /\ started'[s.token].by \in Browsers
              /\ s.expires = started'[s.token].at + StateTTL /\ admitted'[s.token] = {}
    BY <1>1, <1>6, <2>1 DEF KeptWasStarted
  <2>3. LET s == [token |-> t, expires |-> clock + StateTTL] IN
        /\ s.token \in Tokens /\ started'[s.token].by \in Browsers
        /\ s.expires = started'[s.token].at + StateTTL /\ admitted'[s.token] = {}
    BY <1>1, <1>4, <1>6
  <2> QED
    BY <1>1, <2>2, <2>3 DEF KeptWasStarted
<1>9. CookiesAreOwn'
  <2> SUFFICES ASSUME NEW d \in Browsers, NEW u \in Tokens, cookie'[d] = u
               PROVE started'[u].by = d
    BY DEF CookiesAreOwn
  <2>1. CASE d = b
    BY <1>6, <1>7, <2>1
  <2>2. CASE d # b
    <3>1. cookie[d] = u /\ started[u].by = d
      BY <1>7, <2>2 DEF CookiesAreOwn
    <3> QED
      BY <1>3, <1>6, <3>1, StatesAssumption
  <2> QED
    BY <2>1, <2>2
<1>10. UnstartedIsUnused'
  BY <1>1, <1>4, <1>6 DEF UnstartedIsUnused
<1>11. CallbackWasStarted'
  <2>1. ASSUME NEW u \in Tokens, u # t PROVE started'[u] = started[u]
    BY <1>6, <2>1
  <2> QED
    BY <1>1, <1>4, <2>1, FS_EmptySet DEF CallbackWasStarted
<1> QED
  BY <1>1, <1>5, <1>7, <1>8, <1>9, <1>10, <1>11

\* The kept token is used up; it admits its own browser or nobody.
LEMMA RedirectKeeps ==
    ASSUME StatesInv, NEW b \in Browsers, NEW t \in Tokens, OpenRedirect(b, t)
    PROVE StatesInv'
<1> USE DEF StatesInv
<1>1. /\ cookie[b] = t /\ Kept(t) # {} /\ states' = states \ Kept(t)
      /\ UNCHANGED <<cookie, started, clock>>
  BY DEF OpenRedirect, ConsumeState
<1>2. started[t].by = b /\ started[t].by \in Browsers
  BY <1>1 DEF CookiesAreOwn
<1>3. admitted[t] = {} /\ Cardinality({}) = 0
  BY <1>1, FS_EmptySet DEF Kept, KeptWasStarted
<1> DEFINE entry == [by |-> b, at |-> clock, nth |-> 0]
<1>4. \/ admitted' = admitted
      \/ /\ \E s \in Kept(t) : clock < s.expires
         /\ admitted' = [admitted EXCEPT ![t] = {entry}]
  BY <1>3 DEF OpenRedirect
<1>5. /\ admitted' = [u \in Tokens |-> admitted'[u]]
      /\ \A u \in Tokens \ {t} : admitted'[u] = admitted[u]
      /\ admitted'[t] \in {{}, {entry}}
  BY <1>3, <1>4
<1>6. admitted'[t] = {entry} => clock < started[t].at + StateTTL
  <2> SUFFICES ASSUME admitted'[t] = {entry} PROVE clock < started[t].at + StateTTL
    OBVIOUS
  <2>1. PICK s \in Kept(t) : clock < s.expires
    BY <1>3, <1>4
  <2> QED
    BY <2>1 DEF Kept, KeptWasStarted
<1>7. KeptWasStarted'
  BY <1>1, <1>5 DEF KeptWasStarted, Kept
<1>8. CookiesAreOwn' /\ StartsTyped'
  BY <1>1 DEF CookiesAreOwn, StartsTyped
<1>9. UnstartedIsUnused'
  <2>1. started[t] # NotStarted
    BY <1>2, StatesAssumption DEF NotStarted
  <2> QED
    BY <1>1, <1>5, <2>1 DEF UnstartedIsUnused
<1>10. CallbackWasStarted'
  <2>1. Cardinality({}) <= 1 /\ Cardinality({entry}) <= 1
    <3>1. Cardinality({}) = 0 /\ Cardinality({entry}) = 1
      BY FS_EmptySet, FS_Singleton, Zenon
    <3> QED
      BY <3>1
  <2>2. ASSUME NEW u \in Tokens, u # t
        PROVE /\ \A a \in admitted'[u] : /\ a.by = started'[u].by
                                         /\ a.at < started'[u].at + StateTTL
              /\ Cardinality(admitted'[u]) <= 1
    BY <1>1, <1>5, <2>2 DEF CallbackWasStarted
  <2>3. /\ \A a \in admitted'[t] : /\ a.by = started'[t].by
                                   /\ a.at < started'[t].at + StateTTL
        /\ Cardinality(admitted'[t]) <= 1
    <3>1. CASE admitted'[t] = {}
      BY <2>1, <3>1
    <3>2. CASE admitted'[t] = {entry}
      BY <1>1, <1>2, <1>6, <2>1, <3>2
    <3> QED
      BY <1>5, <3>1, <3>2
  <2> QED
    BY <2>2, <2>3 DEF CallbackWasStarted
<1> QED
  BY <1>1, <1>5, <1>7, <1>8, <1>9, <1>10

\* Answers, restarts, the clock and the other limits: no token is started or
\* accepted, kept tokens and cookies only go.
LEMMA OthersKeepStates ==
    ASSUME StatesInv, UNCHANGED <<started, admitted>>, clock' \in Nat, states' \subseteq states,
           cookie' \in [Browsers -> Tokens \cup {0}],
           \A b \in Browsers : cookie'[b] \in {cookie[b], 0}
    PROVE StatesInv'
<1>1. KeptWasStarted' /\ UnstartedIsUnused' /\ StartsTyped'
  BY DEF StatesInv, KeptWasStarted, UnstartedIsUnused, StartsTyped
<1>2. CookiesAreOwn'
  BY DEF StatesInv, CookiesAreOwn, Tokens
<1>3. CallbackWasStarted'
  BY DEF StatesInv, CallbackWasStarted
<1> QED
  BY <1>1, <1>2, <1>3 DEF StatesInv

\* Starts, redirects, answers, ticks and restarts keep the invariant.
LEMMA NextStates == StatesInv /\ [Next]_vars => StatesInv'
<1> SUFFICES ASSUME StatesInv, [Next]_vars PROVE StatesInv'
  OBVIOUS
<1>0. cookie \in [Browsers -> Tokens \cup {0}] /\ clock \in Nat
  BY DEF StatesInv
<1>1. CASE UNCHANGED <<stateVars, clock>>
  BY <1>0, <1>1, OthersKeepStates DEF stateVars
<1>2. CASE Tick
  BY <1>0, <1>2, OthersKeepStates DEF Tick, ClockTicks, parts, stateVars
<1>3. CASE Restart
  BY <1>0, <1>3, OthersKeepStates DEF Restart, StatesLost
<1>4. CASE LoginStep /\ UNCHANGED stateVars
  <2>1. UNCHANGED clock
    BY <1>4 DEF LoginStep, RecordFailure, Leave, Allow
  <2> QED
    BY <1>1, <1>4, <2>1
<1>5. CASE AiStep /\ UNCHANGED stateVars
  <2>1. UNCHANGED clock
    BY <1>5 DEF AiStep, Get, Refuse, Charge, FailCall, Enter
  <2> QED
    BY <1>1, <1>5, <2>1
<1>6. CASE StatesStep
  <2>1. ASSUME NEW x \in exchanging, AnswerCallback(x) PROVE StatesInv'
    <3>1. /\ UNCHANGED <<started, admitted, clock, states>>
          /\ cookie' \in {cookie, [cookie EXCEPT ![x.by] = 0]}
      BY <2>1 DEF AnswerCallback
    <3> QED
      BY <1>0, <3>1, OthersKeepStates
  <2> QED
    BY <1>6, <2>1, StartKeeps, RedirectKeeps DEF StatesStep
<1> QED
  BY <1>1, <1>2, <1>3, <1>4, <1>5, <1>6 DEF Next, vars, parts

\* oauth.go:72-75, consumeState: for any browsers, tokens, lifetime and restarts,
\* a callback is admitted at most once for a token, in the browser that started
\* it and before it expires.
THEOREM CallbacksStarted == Spec => []CallbackWasStarted
<1>1. StatesInv => CallbackWasStarted
  BY DEF StatesInv
<1> QED
  BY <1>1, InitStates, NextStates, PTL DEF Spec

-----------------------------------------------------------------------------
\* The lockout of an address.  What is kept of its failures is all of the last
\* window, so an attempt is admitted by the number the limit is about; and an
\* attempt that fails is one failure more and one attempt under way less.

Failure == [nth : Nat, at : Nat]

LoginTyped ==
    /\ clock \in Nat
    /\ trying \in [Attempts -> Addresses \cup {NoAddress}]
    /\ attempts \in [Addresses -> SUBSET Failure]
    /\ failures \in [Addresses -> SUBSET Failure]
FailuresNumbered ==
    \A k \in Addresses :
        /\ IsFiniteSet(failures[k])
        /\ \A f \in failures[k] : f.nth <= Cardinality(failures[k])
KeptAreRecent ==
    \A k \in Addresses :
        /\ attempts[k] \subseteq failures[k]
        /\ After(failures[k], clock - LoginWindow) \subseteq attempts[k]

LoginInv == LoginTyped /\ FailuresNumbered /\ KeptAreRecent /\ LockoutHolds

Under(k) == {a \in Attempts : trying[a] = k}

\* The attempts of any kind are no more than all of them.
LEMMA UnderIsBounded ==
    ASSUME NEW f, NEW k
    PROVE /\ IsFiniteSet({a \in Attempts : f[a] = k})
          /\ Cardinality({a \in Attempts : f[a] = k}) \in Nat
          /\ Cardinality(Attempts) \in Nat
          /\ Cardinality({a \in Attempts : f[a] = k}) <= Cardinality(Attempts)
<1>1. {a \in Attempts : f[a] = k} \subseteq Attempts /\ IsFiniteSet(Attempts)
  BY LoginAssumption
<1> QED
  BY <1>1, FS_Subset, FS_CardinalityType

\* No failure and no attempt.
LEMMA InitLogin == Init => LoginInv
<1> SUFFICES ASSUME Init PROVE LoginInv
  OBVIOUS
<1>1. LoginTyped /\ KeptAreRecent
  BY DEF Init, LoginInit, LoginTyped, KeptAreRecent, After
<1>2. FailuresNumbered
  BY FS_EmptySet DEF Init, LoginInit, FailuresNumbered
<1>3. ASSUME NEW k \in Addresses
      PROVE Cardinality(After(failures[k], clock - LoginWindow)) + Cardinality(Under(k))
              <= LoginMax - 1 + Cardinality(Attempts)
  <2>1. After(failures[k], clock - LoginWindow) = {} /\ Under(k) = {}
    BY LoginAssumption DEF Init, LoginInit, After, Under
  <2>2. Cardinality(Attempts) \in Nat /\ LoginMax \in Nat \ {0}
    BY UnderIsBounded, LoginAssumption
  <2>3. Cardinality({}) = 0
    BY FS_EmptySet
  <2> QED
    BY <2>1, <2>2, <2>3
<1>4. LockoutHolds
  BY <1>3 DEF LockoutHolds, Under
<1> QED
  BY <1>1, <1>2, <1>4 DEF LoginInv

\* An address's part of LockoutHolds survives when its failures of the window
\* and its attempts under way are no more than before.
LEMMA FewerHold ==
    ASSUME LoginInv, NEW k \in Addresses,
           After(failures'[k], clock' - LoginWindow) \subseteq After(failures[k], clock - LoginWindow),
           Under(k)' \subseteq Under(k)
    PROVE Cardinality(After(failures'[k], clock' - LoginWindow)) + Cardinality(Under(k)')
            <= LoginMax - 1 + Cardinality(Attempts)
<1> DEFINE old == After(failures[k], clock - LoginWindow)
           new == After(failures'[k], clock' - LoginWindow)
<1>1. IsFiniteSet(old)
  <2>1. old \subseteq failures[k] /\ IsFiniteSet(failures[k])
    BY DEF LoginInv, FailuresNumbered, After
  <2> QED
    BY <2>1, FS_Subset
<1>2. /\ Cardinality(new) \in Nat /\ Cardinality(old) \in Nat
      /\ Cardinality(new) <= Cardinality(old)
  <2> HIDE DEF old, new
  <2>1. new \subseteq old
    BY DEF old, new
  <2> QED
    BY <1>1, <2>1, FS_Subset, FS_CardinalityType
<1>3. /\ Cardinality(Under(k)') \in Nat /\ Cardinality(Under(k)) \in Nat
      /\ Cardinality(Under(k)') <= Cardinality(Under(k))
  <2>1. IsFiniteSet(Under(k))
    BY UnderIsBounded DEF Under
  <2> QED
    BY <2>1, FS_Subset, FS_CardinalityType
<1>4. Cardinality(old) + Cardinality(Under(k)) <= LoginMax - 1 + Cardinality(Attempts)
  BY DEF LoginInv, LockoutHolds, Under
<1>5. LoginMax \in Nat /\ Cardinality(Attempts) \in Nat
  BY LoginAssumption, UnderIsBounded
<1> HIDE DEF old, new
<1>6. Cardinality(new) + Cardinality(Under(k)') <= LoginMax - 1 + Cardinality(Attempts)
  BY <1>2, <1>3, <1>4, <1>5
<1> QED
  BY <1>6 DEF new

\* The clock, the other limits, an attempt that comes to nothing.
LEMMA FewerKeep ==
    ASSUME LoginInv, UNCHANGED <<attempts, failures>>, clock' \in Nat, clock <= clock',
           trying' \in [Attempts -> Addresses \cup {NoAddress}],
           \A a \in Attempts : trying'[a] \in {trying[a], NoAddress}
    PROVE LoginInv'
<1>1. LoginTyped' /\ FailuresNumbered'
  BY DEF LoginInv, LoginTyped, FailuresNumbered
<1>2. ASSUME NEW k \in Addresses
      PROVE /\ After(failures'[k], clock' - LoginWindow)
                \subseteq After(failures[k], clock - LoginWindow)
            /\ Under(k)' \subseteq Under(k)
  BY LoginAssumption DEF LoginInv, LoginTyped, Failure, After, Under
<1>3. KeptAreRecent'
  BY <1>2 DEF LoginInv, KeptAreRecent
<1>4. LockoutHolds'
  BY <1>2, FewerHold DEF LockoutHolds, Under
<1> QED
  BY <1>1, <1>3, <1>4 DEF LoginInv

\* An attempt is asked about: the record is pruned, and it is under way if the
\* limit is not reached.
LEMMA AllowKeeps ==
    ASSUME LoginInv, NEW a \in Attempts, NEW k \in Addresses, Allow(a, k) PROVE LoginInv'
<1> USE DEF LoginInv
<1>1. LoginTyped' /\ FailuresNumbered' /\ KeptAreRecent'
  BY DEF LoginTyped, FailuresNumbered, KeptAreRecent, Allow, Recent, After
<1>2. /\ failures' = failures /\ clock' = clock /\ trying[a] = NoAddress
      /\ trying'[a] \in {k, NoAddress} /\ \A b \in Attempts \ {a} : trying'[b] = trying[b]
      /\ trying'[a] = k => Cardinality(Recent(k)) < LoginMax
  BY LoginAssumption DEF LoginTyped, Allow
<1>3. Recent(k) = After(failures[k], clock - LoginWindow)
  BY DEF KeptAreRecent, Recent, After
<1>4. ASSUME NEW d \in Addresses
      PROVE Cardinality(After(failures'[d], clock' - LoginWindow)) + Cardinality(Under(d)')
              <= LoginMax - 1 + Cardinality(Attempts)
  <2>1. CASE d = k /\ trying'[a] = k
    <3>1. IsFiniteSet(Recent(k))
      <4>1. Recent(k) \subseteq failures[k] /\ IsFiniteSet(failures[k])
        BY <1>3 DEF FailuresNumbered, After
      <4> QED
        BY <4>1, FS_Subset
    <3>2. /\ Cardinality(Under(d)') \in Nat /\ Cardinality(Attempts) \in Nat
          /\ Cardinality(Under(d)') <= Cardinality(Attempts)
      BY UnderIsBounded DEF Under
    <3>3. Cardinality(Recent(k)) \in Nat /\ Cardinality(Recent(k)) <= LoginMax - 1
      BY <1>2, <2>1, <3>1, FS_CardinalityType, LoginAssumption
    <3> QED
      BY <1>2, <1>3, <2>1, <3>2, <3>3, LoginAssumption
  <2>2. CASE ~ (d = k /\ trying'[a] = k)
    <3>1. Under(d)' \subseteq Under(d)
      BY <1>2, <2>2, LoginAssumption DEF Under
    <3> QED
      BY <1>2, <3>1, FewerHold
  <2> QED
    BY <2>1, <2>2
<1>5. LockoutHolds'
  BY <1>4 DEF LockoutHolds, Under
<1> QED
  BY <1>1, <1>5

\* An attempt fails: one under way less, one failure more, with a number no
\* other has.
LEMMA FailureKeeps ==
    ASSUME LoginInv, NEW a \in Attempts, RecordFailure(a) PROVE LoginInv'
<1> USE DEF LoginInv
<1>0. PICK k \in Addresses : trying[a] = k
  BY DEF LoginTyped, RecordFailure
<1> DEFINE failure == [nth |-> Cardinality(failures[k]) + 1, at |-> clock]
<1>1. /\ trying[a] = k
      /\ attempts' = [attempts EXCEPT ![k] = Recent(k) \cup {failure}]
      /\ failures' = [failures EXCEPT ![k] = @ \cup {failure}]
      /\ trying' = [trying EXCEPT ![a] = NoAddress] /\ clock' = clock
  BY <1>0 DEF RecordFailure
<1>2. /\ IsFiniteSet(failures[k]) /\ Cardinality(failures[k]) \in Nat
      /\ \A f \in failures[k] : f.nth <= Cardinality(failures[k])
      /\ failure \notin failures[k] /\ failure \in Failure
  <2>1. /\ IsFiniteSet(failures[k]) /\ Cardinality(failures[k]) \in Nat
        /\ \A f \in failures[k] : f.nth <= Cardinality(failures[k])
    BY <1>1, FS_CardinalityType DEF FailuresNumbered
  <2> QED
    BY <2>1 DEF Failure, LoginTyped
<1> HIDE DEF failure
<1>3. /\ IsFiniteSet(failures[k] \cup {failure})
      /\ Cardinality(failures[k] \cup {failure}) = Cardinality(failures[k]) + 1
  BY <1>2, FS_AddElement
<1>4. /\ failures'[k] = failures[k] \cup {failure}
      /\ \A d \in Addresses \ {k} : failures'[d] = failures[d]
  BY <1>1 DEF LoginTyped
<1>5. LoginTyped'
  <2>1. Recent(k) \subseteq Failure
    BY <1>1 DEF LoginTyped, Recent, After
  <2> QED
    BY <1>1, <1>2, <2>1 DEF LoginTyped
<1>6. FailuresNumbered'
  <2>1. failure.nth <= Cardinality(failures[k]) + 1
    BY <1>2 DEF failure
  <2>2. IsFiniteSet(failures'[k]) /\ \A f \in failures'[k] : f.nth <= Cardinality(failures'[k])
    <3>1. ASSUME NEW f \in failures[k] PROVE f.nth <= Cardinality(failures[k]) + 1
      BY <1>2 DEF LoginTyped, Failure
    <3> QED
      BY <1>3, <1>4, <2>1, <3>1
  <2> QED
    BY <1>4, <2>2 DEF FailuresNumbered
<1>7. KeptAreRecent'
  <2>1. attempts'[k] = Recent(k) \cup {failure}
        /\ \A d \in Addresses \ {k} : attempts'[d] = attempts[d]
    BY <1>1 DEF LoginTyped
  <2> QED
    BY <1>1, <1>4, <2>1 DEF KeptAreRecent, Recent, After
<1>8. ASSUME NEW d \in Addresses
      PROVE Cardinality(After(failures'[d], clock' - LoginWindow)) + Cardinality(Under(d)')
              <= LoginMax - 1 + Cardinality(Attempts)
  <2>1. CASE d # k
    <3>1. Under(d)' \subseteq Under(d)
      BY <1>1, LoginAssumption DEF Under, LoginTyped
    <3> QED
      BY <1>1, <1>4, <2>1, <3>1, FewerHold
  <2>2. CASE d = k
    <3> DEFINE old == After(failures[k], clock - LoginWindow)
               under == Under(k)
    <3>1. /\ IsFiniteSet(old) /\ Cardinality(old) \in Nat /\ failure \notin old
      <4>1. old \subseteq failures[k]
        BY DEF After
      <4> QED
        BY <1>2, <4>1, FS_Subset, FS_CardinalityType
    <3>2. After(failures'[k], clock' - LoginWindow) = old \cup {failure}
      <4>1. failure.at = clock /\ clock > clock - LoginWindow
        BY LoginAssumption DEF failure, LoginTyped
      <4> QED
        BY <1>1, <1>4, <4>1 DEF After
    <3>3. Cardinality(old \cup {failure}) = Cardinality(old) + 1
      BY <3>1, FS_AddElement
    <3>4. /\ IsFiniteSet(under) /\ Cardinality(under) \in Nat /\ a \in under
          /\ Under(d)' = under \ {a}
      <4>1. IsFiniteSet(under) /\ Cardinality(under) \in Nat
        BY UnderIsBounded DEF Under
      <4>2. a \in under /\ Under(d)' = under \ {a}
        BY <1>1, <2>2, LoginAssumption DEF Under, LoginTyped
      <4> QED
        BY <4>1, <4>2
    <3>5. Cardinality(Under(d)') = Cardinality(under) - 1
      <4> HIDE DEF under
      <4>1. Cardinality(under \ {a}) = Cardinality(under) - 1
        BY <3>4, FS_RemoveElement
      <4> QED
        BY <3>4, <4>1
    <3>6. Cardinality(old) + Cardinality(under) <= LoginMax - 1 + Cardinality(Attempts)
      BY <1>1 DEF LockoutHolds, Under
    <3>7. LoginMax \in Nat /\ Cardinality(Attempts) \in Nat
      BY LoginAssumption, UnderIsBounded
    <3>8. Cardinality(After(failures'[d], clock' - LoginWindow)) = Cardinality(old) + 1
      BY <2>2, <3>2, <3>3
    <3>9. Cardinality(old) \in Nat /\ Cardinality(under) \in Nat
      BY <3>1, <3>4
    <3> HIDE DEF old, under
    <3> QED
      BY <3>5, <3>6, <3>7, <3>8, <3>9
  <2> QED
    BY <2>1, <2>2
<1>9. LockoutHolds'
  BY <1>8 DEF LockoutHolds, Under
<1> QED
  BY <1>5, <1>6, <1>7, <1>9

\* Attempts, ticks and restarts keep the invariant.
LEMMA NextLogin == LoginInv /\ [Next]_vars => LoginInv'
<1> SUFFICES ASSUME LoginInv, [Next]_vars PROVE LoginInv'
  OBVIOUS
<1>0. clock \in Nat /\ trying \in [Attempts -> Addresses \cup {NoAddress}]
  BY DEF LoginInv, LoginTyped
<1>1. CASE UNCHANGED <<loginVars, clock>>
  BY <1>0, <1>1, FewerKeep DEF loginVars
<1>2. CASE Tick
  BY <1>0, <1>2, FewerKeep DEF Tick, ClockTicks, parts, loginVars
<1>3. CASE Restart
  <2>1. /\ attempts' = [k \in Addresses |-> {}] /\ failures' = [k \in Addresses |-> {}]
        /\ trying' = [a \in Attempts |-> NoAddress] /\ clock' = clock
    BY <1>3 DEF Restart
  <2>2. LoginTyped' /\ KeptAreRecent'
    BY <1>0, <2>1 DEF LoginTyped, KeptAreRecent, After
  <2>3. FailuresNumbered'
    BY <2>1, FS_EmptySet DEF FailuresNumbered
  <2>4. ASSUME NEW k \in Addresses
        PROVE /\ After(failures'[k], clock' - LoginWindow)
                  \subseteq After(failures[k], clock - LoginWindow)
              /\ Under(k)' \subseteq Under(k)
    BY <2>1, LoginAssumption DEF After, Under
  <2>5. LockoutHolds'
    BY <2>4, FewerHold DEF LockoutHolds, Under
  <2> QED
    BY <2>2, <2>3, <2>5 DEF LoginInv
<1>4. CASE LoginStep
  <2>1. ASSUME NEW a \in Attempts, Leave(a) PROVE LoginInv'
    BY <1>0, <2>1, FewerKeep DEF Leave
  <2> QED
    BY <1>4, <2>1, AllowKeeps, FailureKeeps DEF LoginStep
<1>5. CASE AiStep /\ UNCHANGED loginVars
  <2>1. UNCHANGED clock
    BY <1>5 DEF AiStep, Get, Refuse, Charge, FailCall, Enter
  <2> QED
    BY <1>1, <1>5, <2>1
<1>6. CASE StatesStep /\ UNCHANGED loginVars
  <2>1. UNCHANGED clock
    BY <1>6 DEF StatesStep, StartLogin, OpenRedirect, AnswerCallback
  <2> QED
    BY <1>1, <1>6, <2>1
<1> QED
  BY <1>1, <1>2, <1>3, <1>4, <1>5, <1>6 DEF Next, vars, parts

\* ratelimit.go:10-12: for any addresses, attempts, limit, window and restarts,
\* the failures of a window exceed the limit by no more than the attempts that
\* overlap.
THEOREM AddressesLockedOut == Spec => []LockoutHolds
<1>1. LoginInv => LockoutHolds
  BY DEF LoginInv
<1> QED
  BY <1>1, InitLogin, NextLogin, PTL DEF Spec

-----------------------------------------------------------------------------
\* The budget of an AI caller.  Of a caller whose calls never wrote over each
\* other's count, the record says how many calls its window has; windows do not
\* overlap, and the call that opened one is on time in it.

Charged == [nth : Nat, start : Nat, time : Nat]

AiTyped ==
    /\ clock \in Nat /\ raced \subseteq Callers
    /\ kv \in [Callers -> Records \cup {NoRecord}]
    /\ call \in [Calls -> [at : {"idle", "get", "decide"}, caller : Callers \cup {NoCaller},
                           time : Nat, read : Records \cup {NoRecord}]]
    /\ \A c \in Calls : call[c].at # "idle" => call[c].caller \in Callers
    /\ charged \in [Callers -> SUBSET Charged]
ChargesNumbered ==
    \A k \in Callers :
        /\ IsFiniteSet(charged[k])
        /\ \A q \in charged[k] : q.nth <= Cardinality(charged[k])

RecordCounts(k) ==
    \/ kv[k] = NoRecord /\ charged[k] = {}
    \/ /\ kv[k] \in Records
       /\ Cardinality(SameWindow(k, kv[k])) = kv[k].count
       /\ \E q \in charged[k] : q.start = kv[k].start
       /\ \A q \in charged[k] : q.start = kv[k].start \/ q.start + AiWindow <= kv[k].start
WindowsApart(k) ==
    \A p \in charged[k], q \in charged[k] :
        p.start = q.start \/ p.start + AiWindow <= q.start \/ q.start + AiWindow <= p.start
WindowsOpened(k) ==
    \A q \in charged[k] :
        /\ q.time < q.start + AiWindow
        /\ \E p \in charged[k] : p.start = q.start /\ p.time = q.start
WindowsFull(k) == \A q \in charged[k] : Cardinality(SameWindow(k, q)) <= AiMax[k]

Accounted(k) == RecordCounts(k) /\ WindowsApart(k) /\ WindowsOpened(k) /\ WindowsFull(k)

AiInv ==
    /\ AiTyped /\ ChargesNumbered
    /\ \A k \in Callers \ (raced \cup {Compose}) : Accounted(k)

\* No record and no call.
LEMMA InitAi == Init => AiInv
<1> SUFFICES ASSUME Init PROVE AiInv
  OBVIOUS
<1>1. AiTyped
  BY AiAssumption DEF Init, AiInit, AiTyped, Resting
<1>2. ChargesNumbered
  BY FS_EmptySet DEF Init, AiInit, ChargesNumbered
<1>3. ASSUME NEW k \in Callers PROVE Accounted(k)
  BY DEF Init, AiInit, Accounted, RecordCounts, WindowsApart, WindowsOpened, WindowsFull
<1> QED
  BY <1>1, <1>2, <1>3 DEF AiInv

\* A caller's account depends on its record and its charges only.
LEMMA AccountsOfOthers ==
    ASSUME NEW k, Accounted(k), kv'[k] = kv[k], charged'[k] = charged[k]
    PROVE Accounted(k)'
BY DEF Accounted, RecordCounts, WindowsApart, WindowsOpened, WindowsFull, SameWindow

\* Every step but a charge: records and charges stay.
LEMMA UnchargedKeep ==
    ASSUME AiInv, UNCHANGED <<kv, charged, raced>>, clock' \in Nat,
           call' \in [Calls -> [at : {"idle", "get", "decide"}, caller : Callers \cup {NoCaller},
                               time : Nat, read : Records \cup {NoRecord}]],
           \A c \in Calls : call'[c].at # "idle" => call'[c].caller \in Callers
    PROVE AiInv'
<1>1. AiTyped' /\ ChargesNumbered'
  BY DEF AiInv, AiTyped, ChargesNumbered
<1>2. \A k \in Callers \ (raced' \cup {Compose}) : Accounted(k)'
  BY AccountsOfOthers DEF AiInv
<1> QED
  BY <1>1, <1>2 DEF AiInv

\* A call's window is a record.
LEMMA WindowIsRecord ==
    ASSUME NEW q, q.time \in Nat, q.read \in Records \cup {NoRecord}
    PROVE /\ WindowOf(q) \in Records
          /\ WindowOf(q) = q.read \/ WindowOf(q) = [start |-> q.time, count |-> 0]
BY DEF WindowOf, Records

\* The window a call of k is counted in: its own or the one of the record, which
\* has as many calls as the count says, has its opener, and is the latest.
LEMMA WindowIsLatest ==
    ASSUME AiInv, NEW k \in Callers, Accounted(k), NEW q, q.time \in Nat, q.read = kv[k],
           NEW w, w = WindowOf(q)
    PROVE /\ \A p \in charged[k] : p.start = w.start \/ p.start + AiWindow <= w.start
          /\ Cardinality(SameWindow(k, w)) = w.count
          /\ q.time < w.start + AiWindow
          /\ \/ q.time = w.start
             \/ \E p \in charged[k] : p.start = w.start /\ p.time = w.start
<1>0. AiWindow \in Nat \ {0} /\ NoRecord \notin Records
  BY AiAssumption
<1>1. charged[k] \subseteq Charged /\ kv[k] \in Records \cup {NoRecord}
  BY DEF AiInv, AiTyped
<1>2. CASE kv[k] = NoRecord
  <2>1. charged[k] = {} /\ w = [start |-> q.time, count |-> 0]
    BY <1>0, <1>2 DEF Accounted, RecordCounts, WindowOf
  <2>2. SameWindow(k, w) = {} /\ w.count = 0
    BY <2>1 DEF SameWindow
  <2>3. Cardinality(SameWindow(k, w)) = w.count
    BY <2>2, FS_EmptySet
  <2> QED
    BY <1>0, <2>1, <2>3
<1>3. CASE kv[k] # NoRecord /\ q.time - kv[k].start >= AiWindow
  <2>1. w = [start |-> q.time, count |-> 0]
    BY <1>3 DEF WindowOf
  <2>2. /\ kv[k].start \in Nat
        /\ \A p \in charged[k] : p.start = kv[k].start \/ p.start + AiWindow <= kv[k].start
    BY <1>1, <1>3 DEF Accounted, RecordCounts, Records
  <2>3. \A p \in charged[k] : p.start \in Nat /\ p.start + AiWindow <= q.time
    BY <1>0, <1>1, <1>3, <2>2 DEF Charged
  <2>4. SameWindow(k, w) = {}
    BY <1>0, <2>1, <2>3 DEF SameWindow
  <2>5. Cardinality(SameWindow(k, w)) = w.count
    BY <2>1, <2>4, FS_EmptySet
  <2> QED
    BY <1>0, <2>1, <2>3, <2>5
<1>4. CASE kv[k] # NoRecord /\ ~ (q.time - kv[k].start >= AiWindow)
  <2>1. w = kv[k]
    BY <1>4 DEF WindowOf
  <2>2. /\ w \in Records /\ w.start \in Nat
        /\ Cardinality(SameWindow(k, w)) = w.count
        /\ \E p \in charged[k] : p.start = w.start
        /\ \A p \in charged[k] : p.start = w.start \/ p.start + AiWindow <= w.start
    BY <1>1, <1>4, <2>1 DEF Accounted, RecordCounts, Records
  <2>3. \E p \in charged[k] : p.start = w.start /\ p.time = w.start
    BY <2>2 DEF Accounted, WindowsOpened
  <2>4. q.time < w.start + AiWindow
    BY <1>0, <1>4, <2>1, <2>2
  <2> QED
    BY <2>2, <2>3, <2>4
<1> QED
  BY <1>2, <1>3, <1>4

\* One call more in the latest window keeps the account.
LEMMA AccountKeeps ==
    ASSUME AiInv, NEW k \in Callers, Accounted(k), NEW q, q.time \in Nat, q.read = kv[k],
           NEW w, w = WindowOf(q), w.count < AiMax[k],
           NEW e, e = [nth |-> Cardinality(charged[k]) + 1, start |-> w.start, time |-> q.time],
           charged'[k] = charged[k] \cup {e},
           kv'[k] = [start |-> w.start, count |-> w.count + 1]
    PROVE Accounted(k)'
<1>0. AiWindow \in Nat \ {0} /\ AiMax[k] \in Nat
  BY AiAssumption
<1>1. charged[k] \subseteq Charged /\ kv[k] \in Records \cup {NoRecord}
  BY DEF AiInv, AiTyped
<1>2. w \in Records /\ w.start \in Nat /\ w.count \in Nat
  BY <1>1, WindowIsRecord DEF Records
<1>3. /\ \A p \in charged[k] : p.start = w.start \/ p.start + AiWindow <= w.start
      /\ Cardinality(SameWindow(k, w)) = w.count
      /\ q.time < w.start + AiWindow
      /\ \/ q.time = w.start
         \/ \E p \in charged[k] : p.start = w.start /\ p.time = w.start
  BY WindowIsLatest
<1>4. IsFiniteSet(SameWindow(k, w)) /\ e \notin SameWindow(k, w)
  <2>1. /\ IsFiniteSet(charged[k]) /\ Cardinality(charged[k]) \in Nat
        /\ \A p \in charged[k] : p.nth <= Cardinality(charged[k])
    BY FS_CardinalityType DEF AiInv, ChargesNumbered
  <2>2. e \notin charged[k]
    BY <1>1, <2>1 DEF Charged
  <2>3. SameWindow(k, w) \subseteq charged[k]
    BY DEF SameWindow
  <2> QED
    BY <2>1, <2>2, <2>3, FS_Subset
<1>5. Cardinality(SameWindow(k, w) \cup {e}) = w.count + 1
  <2>1. PICK S : S = SameWindow(k, w)
    OBVIOUS
  <2>2. Cardinality(S \cup {e}) = Cardinality(S) + 1
    BY <1>4, <2>1, FS_AddElement
  <2> QED
    BY <1>3, <2>1, <2>2
<1>6. ASSUME NEW p, p.start = w.start
      PROVE Cardinality({r \in charged'[k] : r.start = p.start}) = w.count + 1
  <2>1. {r \in charged'[k] : r.start = p.start} = SameWindow(k, w) \cup {e}
    BY <1>6 DEF SameWindow
  <2> QED
    BY <1>5, <2>1
<1>7. RecordCounts(k)'
  <2>1. kv'[k] \in Records /\ kv'[k].start = w.start /\ kv'[k].count = w.count + 1
    BY <1>2 DEF Records
  <2>2. Cardinality({r \in charged'[k] : r.start = kv'[k].start}) = kv'[k].count
    BY <1>6, <2>1
  <2>3. e \in charged'[k] /\ e.start = kv'[k].start
    BY <2>1
  <2>4. \A r \in charged'[k] : r.start = kv'[k].start \/ r.start + AiWindow <= kv'[k].start
    BY <1>3, <2>1
  <2> QED
    BY <2>1, <2>2, <2>3, <2>4 DEF RecordCounts, SameWindow
<1>8. WindowsApart(k)'
  BY <1>3 DEF WindowsApart, Accounted
<1>9. WindowsOpened(k)'
  BY <1>3 DEF WindowsOpened, Accounted
<1>10. WindowsFull(k)'
  <2> SUFFICES ASSUME NEW p \in charged'[k]
               PROVE Cardinality({r \in charged'[k] : r.start = p.start}) <= AiMax[k]
    BY DEF WindowsFull, SameWindow
  <2>1. CASE p.start = w.start
    BY <1>0, <1>2, <1>6, <2>1
  <2>2. CASE p.start # w.start
    <3>1. p \in charged[k] /\ {r \in charged'[k] : r.start = p.start} = SameWindow(k, p)
      BY <2>2 DEF SameWindow
    <3> QED
      BY <3>1 DEF Accounted, WindowsFull
  <2> QED
    BY <2>1, <2>2
<1> QED
  BY <1>7, <1>8, <1>9, <1>10 DEF Accounted

\* A call is charged.  The compose endpoint has no account; a caller whose record
\* is no longer what the call read loses its own.
LEMMA ChargeKeeps ==
    ASSUME AiInv, NEW c \in Calls, Charge(c) PROVE AiInv'
<1> DEFINE q == call[c]
<1>1. PICK k \in Callers : call[c].caller = k
  BY DEF AiInv, AiTyped, Charge
<1>2. PICK w : w = WindowOf(call[c])
  OBVIOUS
<1>3. PICK e : e = [nth |-> Cardinality(charged[k]) + 1, start |-> w.start, time |-> q.time]
  OBVIOUS
<1>4. /\ w.count < AiMax[k]
      /\ kv' = IF k = Compose THEN kv
               ELSE [kv EXCEPT ![k] = [start |-> w.start, count |-> w.count + 1]]
      /\ charged' = [charged EXCEPT ![k] = @ \cup {e}]
      /\ raced' = IF Stored(k) = q.read THEN raced ELSE raced \cup {k}
      /\ call' = [call EXCEPT ![c] = Resting] /\ clock' = clock
  BY <1>1, <1>2, <1>3 DEF Charge
<1>5. q.time \in Nat /\ q.read \in Records \cup {NoRecord}
  BY DEF AiInv, AiTyped
<1>6. w \in Records /\ w.start \in Nat /\ w.count \in Nat
  BY <1>2, <1>5, WindowIsRecord DEF Records
<1>7. /\ IsFiniteSet(charged[k]) /\ Cardinality(charged[k]) \in Nat
      /\ \A p \in charged[k] : p.nth <= Cardinality(charged[k])
      /\ charged[k] \subseteq Charged /\ e \in Charged /\ e \notin charged[k]
  <2>1. /\ IsFiniteSet(charged[k]) /\ Cardinality(charged[k]) \in Nat
        /\ \A p \in charged[k] : p.nth <= Cardinality(charged[k])
        /\ charged[k] \subseteq Charged
    BY FS_CardinalityType DEF AiInv, AiTyped, ChargesNumbered
  <2> QED
    BY <1>3, <1>5, <1>6, <2>1 DEF Charged
<1>8. /\ charged'[k] = charged[k] \cup {e}
      /\ \A d \in Callers \ {k} : charged'[d] = charged[d] /\ kv'[d] = kv[d]
  BY <1>4 DEF AiInv, AiTyped
<1>9. AiTyped'
  <2>1. call'[c] = Resting /\ \A x \in Calls \ {c} : call'[x] = call[x]
    BY <1>4 DEF AiInv, AiTyped
  <2>2. /\ call' \in [Calls -> [at : {"idle", "get", "decide"}, caller : Callers \cup {NoCaller},
                                time : Nat, read : Records \cup {NoRecord}]]
        /\ \A x \in Calls : call'[x].at # "idle" => call'[x].caller \in Callers
    BY <1>4, <2>1 DEF AiInv, AiTyped, Resting
  <2>3. kv' \in [Callers -> Records \cup {NoRecord}] /\ raced' \subseteq Callers
    BY <1>4, <1>6 DEF AiInv, AiTyped, Records
  <2>4. charged' \in [Callers -> SUBSET Charged]
    BY <1>4, <1>7 DEF AiInv, AiTyped
  <2>5. clock' \in Nat
    BY <1>4 DEF AiInv, AiTyped
  <2> QED
    BY <2>2, <2>3, <2>4, <2>5 DEF AiTyped
<1>10. ChargesNumbered'
  <2>1. /\ IsFiniteSet(charged'[k]) /\ Cardinality(charged'[k]) = Cardinality(charged[k]) + 1
    <3>1. PICK C : C = charged[k]
      OBVIOUS
    <3>2. IsFiniteSet(C \cup {e}) /\ Cardinality(C \cup {e}) = Cardinality(C) + 1
      BY <1>7, <3>1, FS_AddElement
    <3> QED
      BY <1>8, <3>1, <3>2
  <2>2. \A p \in charged[k] : p.nth <= Cardinality(charged[k]) + 1
    BY <1>7 DEF Charged
  <2>3. e.nth <= Cardinality(charged[k]) + 1
    BY <1>3, <1>7
  <2> QED
    BY <1>8, <2>1, <2>2, <2>3 DEF AiInv, ChargesNumbered
<1>11. ASSUME NEW d \in Callers \ (raced' \cup {Compose}) PROVE Accounted(d)'
  <2>1. d \notin raced /\ Accounted(d)
    BY <1>4 DEF AiInv
  <2>2. CASE d # k
    BY <1>8, <2>1, <2>2, AccountsOfOthers
  <2>3. CASE d = k
    <3>1. q.read = kv[k]
      BY <1>4, <1>11, <2>3 DEF Stored
    <3>2. kv'[k] = [start |-> w.start, count |-> w.count + 1]
      BY <1>4, <1>11, <2>3 DEF AiInv, AiTyped
    <3> QED
      BY <1>2, <1>3, <1>4, <1>5, <1>8, <2>1, <2>3, <3>1, <3>2, AccountKeeps
  <2> QED
    BY <2>2, <2>3
<1> QED
  BY <1>9, <1>10, <1>11 DEF AiInv

\* Calls, their ends, ticks and restarts keep the invariant.
LEMMA NextAi == AiInv /\ [Next]_vars => AiInv'
<1> SUFFICES ASSUME AiInv, [Next]_vars PROVE AiInv'
  OBVIOUS
<1> DEFINE Call == [at : {"idle", "get", "decide"}, caller : Callers \cup {NoCaller},
                    time : Nat, read : Records \cup {NoRecord}]
<1>0. /\ clock \in Nat /\ call \in [Calls -> Call] /\ Resting \in Call
      /\ \A c \in Calls : call[c].at # "idle" => call[c].caller \in Callers
      /\ \A k \in Callers : kv[k] \in Records \cup {NoRecord}
  BY DEF AiInv, AiTyped, Resting
<1>1. CASE UNCHANGED <<aiVars, clock>>
  BY <1>0, <1>1, UnchargedKeep DEF aiVars
<1>2. CASE Tick
  BY <1>0, <1>2, UnchargedKeep DEF Tick, ClockTicks, parts, aiVars
<1>3. CASE Restart
  <2>1. /\ UNCHANGED <<kv, charged, raced, clock>> /\ call' = [c \in Calls |-> Resting]
    BY <1>3 DEF Restart
  <2>2. /\ call' \in [Calls -> Call]
        /\ \A c \in Calls : call'[c].at # "idle" => call'[c].caller \in Callers
    BY <1>0, <2>1 DEF Resting
  <2> QED
    BY <1>0, <2>1, <2>2, UnchargedKeep
<1>4. CASE AiStep
  <2>1. ASSUME NEW c \in Calls, Refuse(c) \/ FailCall(c) PROVE AiInv'
    <3>1. UNCHANGED <<kv, charged, raced, clock>> /\ call' = [call EXCEPT ![c] = Resting]
      BY <2>1 DEF Refuse, FailCall
    <3>2. /\ call' \in [Calls -> Call]
          /\ \A x \in Calls : call'[x].at # "idle" => call'[x].caller \in Callers
      BY <1>0, <3>1 DEF Resting
    <3> QED
      BY <1>0, <3>1, <3>2, UnchargedKeep
  <2>2. ASSUME NEW c \in Calls, NEW k \in Callers, Enter(c, k) PROVE AiInv'
    <3>1. /\ UNCHANGED <<kv, charged, raced, clock>>
          /\ call' = [call EXCEPT ![c] = [at |-> "get", caller |-> k, time |-> clock,
                                          read |-> NoRecord]]
      BY <2>2 DEF Enter
    <3>2. /\ call' \in [Calls -> Call]
          /\ \A x \in Calls : call'[x].at # "idle" => call'[x].caller \in Callers
      BY <1>0, <3>1
    <3> QED
      BY <1>0, <3>1, <3>2, UnchargedKeep
  <2>3. ASSUME NEW c \in Calls, Get(c) PROVE AiInv'
    <3>1. /\ UNCHANGED <<kv, charged, raced, clock>> /\ call[c].at # "idle"
          /\ call' = [call EXCEPT ![c].at = "decide", ![c].read = Stored(call[c].caller)]
      BY <2>3 DEF Get
    <3>2. Stored(call[c].caller) \in Records \cup {NoRecord}
      BY <1>0, <3>1 DEF Stored
    <3>3. /\ call' \in [Calls -> Call]
          /\ \A x \in Calls : call'[x].at # "idle" => call'[x].caller \in Callers
      BY <1>0, <3>1, <3>2
    <3> QED
      BY <1>0, <3>1, <3>3, UnchargedKeep
  <2> QED
    BY <1>4, <2>1, <2>2, <2>3, ChargeKeeps DEF AiStep
<1>5. CASE LoginStep /\ UNCHANGED aiVars
  <2>1. UNCHANGED clock
    BY <1>5 DEF LoginStep, RecordFailure, Leave, Allow
  <2> QED
    BY <1>1, <1>5, <2>1
<1>6. CASE StatesStep /\ UNCHANGED aiVars
  <2>1. UNCHANGED clock
    BY <1>6 DEF StatesStep, StartLogin, OpenRedirect, AnswerCallback
  <2> QED
    BY <1>1, <1>6, <2>1
<1> QED
  BY <1>1, <1>2, <1>3, <1>4, <1>5, <1>6 DEF Next, vars, parts

\* A stretch that starts at a call on time meets the window of that call, whose
\* opener is before it unless the window is the stretch, and at most one later.
LEMMA StretchIsBounded ==
    ASSUME AiInv, NEW k \in Callers, Accounted(k), NEW p \in charged[k], ~ Behind(p)
    PROVE Cardinality({q \in Within(k, p) : ~ Behind(q)}) <= 2 * AiMax[k] - 1
<1> DEFINE S == {q \in Within(k, p) : ~ Behind(q)}
<1>0. AiWindow \in Nat \ {0} /\ AiMax[k] \in Nat \ {0}
  BY AiAssumption
<1>1. /\ \A q \in charged[k] : q.start \in Nat /\ q.time \in Nat /\ q.time < q.start + AiWindow
      /\ IsFiniteSet(charged[k])
  BY DEF AiInv, AiTyped, ChargesNumbered, Charged, Accounted, WindowsOpened
<1>2. \A q \in charged[k] : /\ IsFiniteSet(SameWindow(k, q))
                            /\ Cardinality(SameWindow(k, q)) \in Nat
                            /\ Cardinality(SameWindow(k, q)) <= AiMax[k]
  <2> SUFFICES ASSUME NEW q \in charged[k]
               PROVE IsFiniteSet(SameWindow(k, q)) /\ Cardinality(SameWindow(k, q)) \in Nat
    BY DEF Accounted, WindowsFull
  <2>1. SameWindow(k, q) \subseteq charged[k]
    BY DEF SameWindow
  <2> QED
    BY <1>1, <2>1, FS_Subset, FS_CardinalityType
<1>3. \A q \in S : /\ q \in charged[k] /\ q.start <= q.time
                   /\ p.time <= q.time /\ q.time < p.time + AiWindow
  BY <1>1 DEF Within, Behind
<1>4. p.start <= p.time
  BY <1>1 DEF Behind
<1> HIDE DEF S
<1>5. \A q \in S : q.start = p.start \/ p.start + AiWindow <= q.start
  BY <1>0, <1>1, <1>3, <1>4 DEF Accounted, WindowsApart
<1>6. CASE \A q \in S : q.start = p.start
  <2>1. S \subseteq SameWindow(k, p)
    BY <1>3, <1>6 DEF SameWindow
  <2>2. Cardinality(S) \in Nat /\ Cardinality(S) <= Cardinality(SameWindow(k, p))
    BY <1>2, <2>1, FS_Subset, FS_CardinalityType
  <2>3. Cardinality(S) <= 2 * AiMax[k] - 1
    BY <1>0, <1>2, <2>2
  <2> QED
    BY <2>3 DEF S
<1>7. CASE \E q \in S : q.start # p.start
  <2>1. PICK later \in S : later.start # p.start
    BY <1>7
  <2>2. later \in charged[k] /\ p.start + AiWindow <= later.start
    BY <1>3, <1>5, <2>1
  <2>3. PICK first \in charged[k] : first.start = p.start /\ first.time = p.start
    BY DEF Accounted, WindowsOpened
  <2>4. first \notin S
    BY <1>0, <1>1, <1>3, <2>1, <2>2, <2>3
  <2>5. S \subseteq (SameWindow(k, p) \ {first}) \cup SameWindow(k, later)
    <3> SUFFICES ASSUME NEW q \in S, q.start # p.start PROVE q.start = later.start
      BY <1>3, <2>4 DEF SameWindow
    <3>1. q \in charged[k] /\ p.start + AiWindow <= q.start
      BY <1>3, <1>5
    <3>2. q.start < p.time + AiWindow /\ later.start < p.time + AiWindow
      BY <1>0, <1>1, <1>3, <2>1
    <3>3. \/ q.start = later.start \/ q.start + AiWindow <= later.start
          \/ later.start + AiWindow <= q.start
      BY <2>2, <3>1 DEF Accounted, WindowsApart
    <3> QED
      BY <1>0, <1>1, <2>2, <3>1, <3>2, <3>3
  <2> DEFINE own == SameWindow(k, p)
             next == SameWindow(k, later)
  <2>6. /\ IsFiniteSet(own) /\ Cardinality(own) \in Nat /\ Cardinality(own) <= AiMax[k]
        /\ IsFiniteSet(next) /\ Cardinality(next) \in Nat /\ Cardinality(next) <= AiMax[k]
        /\ first \in own /\ S \subseteq (own \ {first}) \cup next
    BY <1>2, <2>2, <2>3, <2>5 DEF SameWindow
  <2> HIDE DEF own, next
  <2>7. IsFiniteSet(own \ {first}) /\ Cardinality(own \ {first}) = Cardinality(own) - 1
    BY <2>6, FS_RemoveElement
  <2>8. /\ IsFiniteSet((own \ {first}) \cup next)
        /\ Cardinality((own \ {first}) \cup next)
              = Cardinality(own \ {first}) + Cardinality(next)
                - Cardinality((own \ {first}) \cap next)
    BY <2>6, <2>7, FS_Union
  <2>9. Cardinality((own \ {first}) \cap next) \in Nat
    BY <2>7, FS_Intersection, FS_CardinalityType
  <2>10. Cardinality(S) \in Nat /\ Cardinality(S) <= Cardinality((own \ {first}) \cup next)
    BY <2>6, <2>8, FS_Subset, FS_CardinalityType
  <2>11. Cardinality(S) <= 2 * AiMax[k] - 1
    BY <1>0, <2>6, <2>7, <2>8, <2>9, <2>10
  <2> QED
    BY <2>11 DEF S
<1> QED
  BY <1>6, <1>7

\* ratelimit.go:11-15: for any callers, limits, window, calls at a time and
\* restarts, of a caller whose calls never wrote over each other's count no window
\* counts more than the limit, and no stretch as long holds twice the limit.
THEOREM BudgetsHold == Spec => []BudgetHolds
<1>1. AiInv => BudgetHolds
  <2> SUFFICES ASSUME AiInv, NEW k \in Callers \ (raced \cup {Compose}),
                      NEW p \in charged[k]
               PROVE /\ Cardinality(SameWindow(k, p)) <= AiMax[k]
                     /\ ~ Behind(p) =>
                           Cardinality({q \in Within(k, p) : ~ Behind(q)}) <= 2 * AiMax[k] - 1
    BY DEF BudgetHolds
  <2>1. Accounted(k)
    BY DEF AiInv
  <2> QED
    BY <2>1, StretchIsBounded DEF Accounted, WindowsFull
<1> QED
  BY <1>1, InitAi, NextAi, PTL DEF Spec
-----------------------------------------------------------------------------
\* The doors.  A request's caller, looked up now, is among those who stood for it;
\* so is whoever a door let through, and each answer is the verdict on one of them.

Standings == Roles \cup {NoRole}
ItemStatuses == {"none", "draft", "published", "gone"}

RequestRecords ==
    [pc : {"idle", "gate", "principal", "domain", "public", "refuse", "record", "revoke",
           "revoked"},
     door : {"rest", "graphql", "plugin"}, todo : Seq(Writes \cup Reads),
     cred : Credentials \cup {NoCredentials}, who : Standings, whom : Users \cup {Nobody},
     stood : SUBSET Standings, saw : ItemStatuses \cup {"gate"}]

Marks == ItemStatuses \cup Roles \cup {"active", "inactive"}
WriteRecords ==
    [op : Writes, door : {"rest", "graphql", "plugin"}, from : Marks, to : Marks,
     data : BOOLEAN, stood : SUBSET Standings]

AccessTyped ==
    /\ role \in [Users -> Roles] /\ live \subseteq Users
    /\ item \in [status : ItemStatuses, snapshots : Seq(ItemStatuses)]
    /\ request \in [Requests -> RequestRecords]
    /\ DOMAIN answer = Requests
    /\ wrote \in Seq(WriteRecords)

\* A plugin's request x has only the manifest's scopes to stand for it.
ScopeStands(x) ==
    /\ x.pc \in {"gate", "domain", "record"} /\ Head(x.todo) \in DOMAIN ScopeOf
    /\ x.pc # "gate" => ScopeOf[Head(x.todo)] \in Scopes /\ x.who = "admin"

\* Who was let into the domain, and while what they wrote is still to be finished.
Inside == {"domain", "record", "revoke", "revoked"}

CallerStands(x) ==
    /\ x.pc \in Inside \cup {"principal"} =>
          \E r \in x.stood : FieldStart(r, Head(x.todo)) = "domain"
    /\ x.pc = "public" => \E r \in x.stood : FieldStart(r, Head(x.todo)) = "public"
    /\ x.pc = "refuse" =>
          Head(x.todo) \in Writes /\ FieldStart(x.who, Head(x.todo)) # "domain"
    /\ (x.pc \in Inside \cup {"refuse"} \/ (x.door = "graphql" /\ x.pc # "gate"))
          => x.who \in x.stood
    /\ x.pc = "principal" => x.door = "rest"
    /\ (x.door = "graphql" /\ x.pc = "domain") => FieldStart(x.who, Head(x.todo)) = "domain"
    /\ (x.door = "rest" /\ x.pc # "gate" /\ Head(x.todo) \in Writes) => CsrfPasses(x.cred)

\* A request that has written: which operation, and what it found.
WroteStands(x) ==
    x.pc \in {"record", "revoke", "revoked"} =>
       /\ Head(x.todo) \in Writes /\ x.saw \in ItemStatuses
       /\ Head(x.todo) \notin {"create", "demote", "deactivate"} =>
             x.saw \in {"draft", "published"}
       /\ x.pc # "record" => Head(x.todo) = "deactivate"

Stands(x) ==
    /\ x.todo # <<>> /\ (x.door # "graphql" => Tail(x.todo) = <<>>)
    /\ RoleOf(x.cred, live, role) \in x.stood
    /\ IF x.door = "plugin" THEN ScopeStands(x) ELSE CallerStands(x)
    /\ WroteStands(x)

\* A read that answer a reports was of something there, and of a draft only for
\* somebody who may read them.
ShownRightly(a) ==
    (a.op \in Reads /\ a.said = Said(a.door, "ok")) =>
        /\ a.saw \in {"draft", "published"}
        /\ (a.op = "get" /\ a.saw = "draft") =>
               IF a.door = "plugin" THEN "read" \in Scopes
               ELSE HasStanding(a.stood, "content:read_drafts")

\* Answer a is the domain's verdict, in its door's words.
WordedRightly(a) ==
    CASE a.said = "none" -> TRUE
      [] a.said # "none" /\ a.door = "plugin" ->
             a.said = IF ScopeOf[a.op] \in Scopes THEN Verdict(a.op, "admin", a.saw)
                      ELSE "undeclared"
      [] a.said # "none" /\ a.door = "graphql" ->
             \E outcome \in DOMAIN Code : a.said = Code[outcome] /\ Earned(a, outcome)
      [] OTHER ->
             IF a.op \in Writes /\ ~a.mirrored THEN a.said = Status["denied"]
             ELSE \/ \E outcome \in DOMAIN Status :
                         a.said = Status[outcome] /\ Earned(a, outcome)
                  \/ /\ a.said = Status["denied"]
                     /\ \E r, s \in a.stood : May(r, a.op) /\ ~May(s, a.op)

AnswerStands(a) == ShownRightly(a) /\ WordedRightly(a)

\* The answer that a request x is given.
AnswerTo(x, outcome, saw) ==
    [door |-> x.door, op |-> Head(x.todo), saw |-> saw, stood |-> x.stood,
     mirrored |-> CsrfPasses(x.cred), said |-> Said(x.door, outcome)]

WriteStands(w) ==
    \A c \in Effects(w) : IF w.door = "plugin" THEN ScopeFor(c) \in Scopes
                          ELSE HasStanding(w.stood, c)

DoorsInv ==
    /\ AccessTyped
    /\ \A q \in Requests : request[q].pc # "idle" => Stands(request[q])
    /\ \A q \in Requests : AnswerStands(answer[q])
    /\ \A i \in DOMAIN wrote : WriteStands(wrote[i])

\* The operations by name, and what their gates say.
LEMMA Operations ==
    /\ Writes = {"create", "update", "delete", "rollback", "publish", "unpublish", "demote",
                 "deactivate"}
    /\ DOMAIN ScopeOf = {"get", "create", "update", "delete", "publish", "unpublish", "demote",
                         "deactivate"}
    /\ Reads = {"get", "versions"}
  BY DEF Writes, Required, ScopeOf, Reads

LEMMA Starts ==
    ASSUME NEW r \in Standings, NEW op \in Writes \cup Reads
    PROVE /\ op \in Writes => /\ FieldStart(r, op) = Gate(r, op)
                              /\ Gate(r, op) \in {"domain", "unauthenticated", "denied"}
                              /\ Gate(r, op) = "domain" <=> Allows(r, Required[op])
          /\ op = "get" => FieldStart(r, op) = IF Allows(r, "content:read_drafts")
                                               THEN "domain" ELSE "public"
          /\ op = "versions" => FieldStart(r, op) = "public"
          /\ op \in Reads => View(r, op) = FieldStart(r, op)
          /\ FieldStart(r, op) \in {"domain", "public", "unauthenticated", "denied"}
<1>1. op \in Writes => op \notin Reads
  BY Operations
<1>2. op \in Writes => ~ Allows(NoRole, Required[op])
  BY Operations DEF Allows, RoleCapabilities, NoRole
<1>3. op \in Writes => /\ Gate(r, op) \in {"domain", "unauthenticated", "denied"}
                       /\ Gate(r, op) = "domain" <=> Allows(r, Required[op])
  BY <1>2 DEF Gate
<1>4. op \notin Writes => FieldStart(r, op) = FieldView(r, op)
  BY DEF FieldStart
<1>5. op \in Writes => FieldStart(r, op) = Gate(r, op)
  BY DEF FieldStart
<1>6. op \in Reads => op \notin Writes
  BY <1>1
<1>7. "get" \in Reads /\ "versions" \in Reads
  BY Operations
<1> QED
  BY <1>1, <1>3, <1>4, <1>5, <1>6, <1>7 DEF FieldView, View

LEMMA SaidApart ==
    /\ DOMAIN Status = {"ok", "unauthenticated", "denied", "absent", "failed"}
    /\ DOMAIN Code = DOMAIN Status
    /\ \A o \in DOMAIN Status :
          /\ Said("rest", o) = Status[o] /\ Said("graphql", o) = Code[o] /\ Said("plugin", o) = o
          /\ Status[o] # "none" /\ Code[o] # "none" /\ o # "none"
          /\ (Status[o] = Status["ok"] \/ Code[o] = Code["ok"]) => o = "ok"
  BY DEF Said, Status, Code

LEMMA Verdicts ==
    ASSUME NEW op \in Writes \cup Reads, NEW r \in Standings, NEW s
    PROVE /\ Verdict(op, r, s) \in DOMAIN Status
          /\ op \in Writes /\ Gate(r, op) # "domain" => Verdict(op, r, s) = Gate(r, op)
          /\ (op \in Reads /\ Verdict(op, r, s) = "ok") =>
                /\ s \in {"draft", "published"}
                /\ (op = "get" /\ s = "draft") => Allows(r, "content:read_drafts")
          /\ (op \in Writes => Gate(r, op) = "domain") =>
                Verdict(op, r, s) =
                   IF \/ op \in {"create", "demote", "deactivate"}
                      \/ s = "published"
                      \/ s = "draft" /\ (op = "get" => Allows(r, "content:read_drafts"))
                   THEN "ok" ELSE "absent"
<1>1. op \in Reads => op \notin Writes /\ op \notin {"create", "demote", "deactivate"}
  BY Operations
<1>2. op \in Writes => Gate(r, op) =
          IF r = NoRole THEN "unauthenticated"
          ELSE IF Allows(r, Required[op]) THEN "domain" ELSE "denied"
  BY DEF Gate
<1>3. Verdict(op, r, s) =
          IF op \in Writes /\ r = NoRole THEN "unauthenticated"
          ELSE IF op \in Writes /\ ~ Allows(r, Required[op]) THEN "denied"
          ELSE IF \/ op \in {"create", "demote", "deactivate"}
                  \/ s = "published"
                  \/ s = "draft" /\ (op = "get" => Allows(r, "content:read_drafts"))
               THEN "ok" ELSE "absent"
  BY DEF Verdict
<1>4. DOMAIN Status = {"ok", "unauthenticated", "denied", "absent", "failed"}
  BY SaidApart
<1> QED
  BY <1>1, <1>2, <1>3, <1>4

\* A caller is somebody of a role, or nobody.
LEMMA CallersTyped ==
    ASSUME NEW cred, NEW open \in SUBSET Users, NEW roles \in [Users -> Roles]
    PROVE RoleOf(cred, open, roles) \in Standings
  BY DEF RoleOf, Standings

\* Request q goes on as x, and answers stand: the rest is as it was.
LEMMA RequestMoves ==
    ASSUME DoorsInv, NEW q \in Requests, NEW x \in RequestRecords,
           request' = [request EXCEPT ![q] = x], UNCHANGED <<role, live, item, wrote>>,
           x.pc # "idle" => Stands(x),
           DOMAIN answer' = Requests, \A p \in Requests : AnswerStands(answer'[p])
    PROVE DoorsInv'
<1>1. AccessTyped'
  BY DEF DoorsInv, AccessTyped
<1>2. ASSUME NEW p \in Requests, request'[p].pc # "idle" PROVE Stands(request[p])'
  <2>1. CASE p = q
    <3>1. request'[p] = x
      BY <2>1 DEF DoorsInv, AccessTyped
    <3>2. Stands(x)'
      BY <1>2, <3>1 DEF Stands, ScopeStands, CallerStands, WroteStands
    <3> QED
      BY <3>1, <3>2 DEF Stands, ScopeStands, CallerStands, WroteStands
  <2>2. CASE p # q
    <3>1. request'[p] = request[p]
      BY <2>2 DEF DoorsInv, AccessTyped
    <3>2. Stands(request[p])
      BY <1>2, <3>1 DEF DoorsInv
    <3> QED
      BY <3>1, <3>2 DEF Stands, ScopeStands, CallerStands, WroteStands
  <2> QED
    BY <2>1, <2>2
<1>3. \A p \in Requests : AnswerStands(answer[p])'
  BY DEF AnswerStands, ShownRightly, WordedRightly
<1>4. \A i \in DOMAIN wrote' : WriteStands(wrote'[i])
  BY DEF DoorsInv
<1> QED
  BY <1>1, <1>2, <1>3, <1>4 DEF DoorsInv, WriteStands

\* A field that is answered leaves its request at rest, or at the next field with
\* the same caller.
LEMMA GoesOnStands ==
    ASSUME DoorsInv, NEW q \in Requests, request[q].pc # "idle",
           request[q].door = "graphql" => request[q].pc # "gate"
    PROVE /\ GoesOn(q) \in RequestRecords
          /\ GoesOn(q).pc # "idle" => Stands(GoesOn(q))
<1>1. PICK y : y = request[q]
  OBVIOUS
<1>2. y \in RequestRecords /\ Stands(y)
  BY <1>1 DEF DoorsInv, AccessTyped
<1>3. PICK rest : rest = Tail(y.todo)
  OBVIOUS
<1>4. rest \in Seq(Writes \cup Reads)
  BY <1>2, <1>3 DEF Stands, RequestRecords
<1>5. CASE rest = <<>>
  <2>1. GoesOn(q) = Waiting
    BY <1>1, <1>3, <1>5 DEF GoesOn
  <2>2. Waiting \in RequestRecords /\ Waiting.pc = "idle"
    BY DEF Waiting, RequestRecords, Standings, NoRole
  <2> QED
    BY <2>1, <2>2
<1>6. CASE rest # <<>>
  <2>1. PICK op, start : op = Head(rest) /\ start = FieldStart(y.who, op)
    OBVIOUS
  <2>2. op \in Writes \cup Reads /\ y.who \in Standings
    BY <1>2, <1>4, <1>6, <2>1 DEF RequestRecords
  <2>3. PICK x : x = [y EXCEPT !.todo = rest,
                               !.pc = IF start \in {"domain", "public"} THEN start ELSE "refuse"]
    OBVIOUS
  <2>4. GoesOn(q) = x
    BY <1>1, <1>3, <1>6, <2>1, <2>3 DEF GoesOn
  <2>5. /\ x \in RequestRecords
        /\ x.todo = rest /\ x.door = y.door /\ x.cred = y.cred /\ x.who = y.who
        /\ x.stood = y.stood
        /\ x.pc = IF start \in {"domain", "public"} THEN start ELSE "refuse"
    BY <1>2, <1>4, <2>3 DEF RequestRecords
  <2>6. y.door = "graphql" /\ y.who \in y.stood
    <3>1. y.door = "graphql"
      BY <1>2, <1>3, <1>6 DEF Stands
    <3>2. y.pc # "gate" /\ CallerStands(y)
      BY <1>1, <1>2, <3>1 DEF Stands
    <3> QED
      BY <3>1, <3>2 DEF CallerStands
  <2>7. op \notin Writes => start \in {"domain", "public"}
    BY <2>1, <2>2, Starts, Operations
  <2>8. CallerStands(x)
    BY <2>1, <2>2, <2>5, <2>6, <2>7 DEF CallerStands, Inside
  <2>9. Stands(x)
    BY <1>2, <1>6, <2>5, <2>6, <2>8 DEF Stands, WroteStands
  <2> QED
    BY <2>4, <2>5, <2>9
<1> QED
  BY <1>5, <1>6

\* An answer that stands keeps the invariant.
LEMMA AnswerKeeps ==
    ASSUME DoorsInv, NEW q \in Requests, NEW outcome, NEW saw, Answered(q, outcome, saw),
           request[q].pc # "idle", request[q].door = "graphql" => request[q].pc # "gate",
           UNCHANGED <<role, live, item, wrote>>,
           AnswerStands(AnswerTo(request[q], outcome, saw))
    PROVE DoorsInv'
<1>1. PICK x : x = GoesOn(q)
  OBVIOUS
<1>2. x \in RequestRecords /\ (x.pc # "idle" => Stands(x))
  BY <1>1, GoesOnStands
<1>3. request' = [request EXCEPT ![q] = x]
  BY <1>1 DEF Answered
<1>4. answer' = [answer EXCEPT ![q] = AnswerTo(request[q], outcome, saw)]
  BY DEF Answered, AnswerTo, Op
<1>5. DOMAIN answer' = Requests /\ \A p \in Requests : AnswerStands(answer'[p])
  BY <1>4 DEF DoorsInv, AccessTyped
<1> QED
  BY <1>2, <1>3, <1>5, RequestMoves

\* What a request under way is, said once: the record and what stands for it.
LEMMA UnderWay ==
    ASSUME DoorsInv, NEW q \in Requests, request[q].pc # "idle"
    PROVE /\ request[q] \in RequestRecords /\ Stands(request[q])
          /\ Op(q) = Head(request[q].todo) /\ Op(q) \in Writes \cup Reads
          /\ Lookup(q) \in request[q].stood /\ Lookup(q) \in Standings
          /\ Lookup(q) = RoleOf(request[q].cred, live, role)
          /\ request[q].stood \subseteq Standings /\ request[q].who \in Standings
<1>1. request[q] \in RequestRecords /\ Stands(request[q])
  BY DEF DoorsInv, AccessTyped
<1>2. request[q].todo \in Seq(Writes \cup Reads) /\ request[q].todo # <<>>
  BY <1>1 DEF RequestRecords, Stands
<1>3. Op(q) = Head(request[q].todo) /\ Op(q) \in Writes \cup Reads
  BY <1>2 DEF Op
<1>4. Lookup(q) = RoleOf(request[q].cred, live, role) /\ Lookup(q) \in request[q].stood
  BY <1>1 DEF Lookup, Stands
<1>5. request[q].stood \subseteq Standings /\ request[q].who \in Standings
  BY <1>1 DEF RequestRecords
<1> QED
  BY <1>1, <1>3, <1>4, <1>5

LEMMA NoAnswerStands == AnswerStands(NoAnswer)
<1>1. Said("rest", "ok") # "none"
  BY SaidApart
<1> QED
  BY <1>1 DEF AnswerStands, ShownRightly, WordedRightly, NoAnswer

\* An answer that some role the caller had while it was served earns.
LEMMA EarnedStands ==
    ASSUME NEW x \in RequestRecords, Stands(x), x.door # "plugin", NEW op, op = Head(x.todo),
           x.pc = "gate" => x.door = "rest" /\ CsrfPasses(x.cred),
           NEW saw, NEW r \in x.stood, NEW outcome, outcome = Verdict(op, r, saw)
    PROVE AnswerStands(AnswerTo(x, outcome, saw))
<1>1. PICK a : a = AnswerTo(x, outcome, saw)
  OBVIOUS
<1>2. /\ x.todo \in Seq(Writes \cup Reads) /\ x.todo # <<>> /\ x.door \in {"rest", "graphql"}
      /\ x.stood \subseteq Standings
  BY DEF RequestRecords, Stands
<1>3. op \in Writes \cup Reads /\ r \in Standings
  BY <1>2
<1>4. /\ a.door = x.door /\ a.op = op /\ a.saw = saw /\ a.stood = x.stood
      /\ a.mirrored = CsrfPasses(x.cred) /\ a.said = Said(x.door, outcome)
  BY <1>1 DEF AnswerTo
<1>5. outcome \in DOMAIN Status
  BY <1>3, Verdicts
<1>6. Earned(a, outcome)
  BY <1>4 DEF Earned
<1>7. ShownRightly(a)
  <2> SUFFICES ASSUME op \in Reads, a.said = Said(a.door, "ok")
               PROVE /\ saw \in {"draft", "published"}
                     /\ (op = "get" /\ saw = "draft") =>
                           HasStanding(a.stood, "content:read_drafts")
    BY <1>2, <1>4 DEF ShownRightly
  <2>1. outcome = "ok"
    BY <1>2, <1>4, <1>5, SaidApart
  <2>2. /\ saw \in {"draft", "published"}
        /\ (op = "get" /\ saw = "draft") => Allows(r, "content:read_drafts")
    BY <1>3, <2>1, Verdicts
  <2> QED
    BY <1>4, <2>2 DEF HasStanding
<1>8. WordedRightly(a)
  <2>1. a.said # "none"
    BY <1>2, <1>4, <1>5, SaidApart
  <2>2. CASE x.door = "graphql"
    BY <1>4, <1>5, <1>6, <2>1, <2>2, SaidApart DEF WordedRightly
  <2>3. CASE x.door = "rest"
    <3>1. op \in Writes => a.mirrored
      <4>1. op \in Writes /\ x.pc # "gate" => CsrfPasses(x.cred)
        BY <2>3 DEF Stands, CallerStands
      <4> QED
        BY <1>4, <4>1
    <3> QED
      BY <1>4, <1>5, <1>6, <2>1, <2>3, <3>1, SaidApart DEF WordedRightly
  <2> QED
    BY <1>2, <2>2, <2>3
<1> QED
  BY <1>1, <1>7, <1>8 DEF AnswerStands

\* A caller who lost the capability between REST's two look-ups is denied.
LEMMA DeniedStands ==
    ASSUME NEW x \in RequestRecords, Stands(x), x.door = "rest", x.pc = "domain",
           NEW op \in Writes \cup Reads, op = Head(x.todo), ~ May(x.who, op), NEW saw
    PROVE AnswerStands(AnswerTo(x, "denied", saw))
<1>1. PICK a : a = AnswerTo(x, "denied", saw)
  OBVIOUS
<1>2. CallerStands(x) /\ x.stood \subseteq Standings
  BY DEF Stands, RequestRecords
<1>3. PICK r \in x.stood : FieldStart(r, op) = "domain"
  BY <1>2 DEF CallerStands, Inside
<1>4. x.who \in x.stood /\ (op \in Writes => CsrfPasses(x.cred))
  BY <1>2 DEF CallerStands, Inside
<1>5. May(r, op)
  BY <1>2, <1>3, Starts, Operations DEF May
<1>6. /\ a.door = "rest" /\ a.op = op /\ a.saw = saw /\ a.stood = x.stood
      /\ a.mirrored = CsrfPasses(x.cred) /\ a.said = Status["denied"]
  BY <1>1, SaidApart DEF AnswerTo
<1>7. a.said # "none" /\ a.said # Said(a.door, "ok")
  BY <1>6, SaidApart
<1>8. WordedRightly(a)
  BY <1>4, <1>5, <1>6, <1>7 DEF WordedRightly
<1> QED
  BY <1>1, <1>7, <1>8 DEF AnswerStands, ShownRightly

\* A deactivation whose sessions could not be revoked.
LEMMA FailedStands ==
    ASSUME NEW x \in RequestRecords, Stands(x), x.pc = "revoke", NEW saw
    PROVE AnswerStands(AnswerTo(x, "failed", saw))
<1>1. PICK a : a = AnswerTo(x, "failed", saw)
  OBVIOUS
<1>2. /\ x.door \in {"rest", "graphql"} /\ CallerStands(x) /\ Head(x.todo) = "deactivate"
      /\ x.stood \subseteq Standings
  BY DEF Stands, ScopeStands, WroteStands, RequestRecords
<1>3. PICK r \in x.stood : FieldStart(r, "deactivate") = "domain"
  BY <1>2 DEF CallerStands, Inside
<1>4. /\ "deactivate" \in Writes /\ "deactivate" \notin Reads
      /\ Required["deactivate"] = "users:manage"
  BY Operations DEF Required
<1>5. Allows(r, "users:manage")
  BY <1>2, <1>3, <1>4, Starts
<1>6. x.door = "rest" => CsrfPasses(x.cred)
  BY <1>2, <1>4 DEF CallerStands
<1>7. /\ a.door = x.door /\ a.op = "deactivate" /\ a.saw = saw /\ a.stood = x.stood
      /\ a.mirrored = CsrfPasses(x.cred) /\ a.said = Said(x.door, "failed")
  BY <1>1, <1>2 DEF AnswerTo
<1>8. Earned(a, "failed")
  BY <1>5, <1>7 DEF Earned, HasStanding
<1>9. "failed" \in DOMAIN Status /\ "failed" \in DOMAIN Code /\ a.said # "none"
  BY <1>2, <1>7, SaidApart
<1>10. WordedRightly(a)
  <2>1. CASE x.door = "rest"
    BY <1>6, <1>7, <1>8, <1>9, <2>1, SaidApart DEF WordedRightly
  <2>2. CASE x.door = "graphql"
    BY <1>7, <1>8, <1>9, <2>2, SaidApart DEF WordedRightly
  <2> QED
    BY <1>2, <2>1, <2>2
<1> QED
  BY <1>1, <1>4, <1>7, <1>10 DEF AnswerStands, ShownRightly

\* A plugin's request within its scopes has an administrator's verdict.
LEMMA PluginStands ==
    ASSUME NEW x \in RequestRecords, Stands(x), x.door = "plugin", x.pc # "gate",
           NEW op \in Writes \cup Reads, op = Head(x.todo), NEW saw,
           NEW outcome, outcome = Verdict(op, "admin", saw)
    PROVE AnswerStands(AnswerTo(x, outcome, saw))
<1>1. PICK a : a = AnswerTo(x, outcome, saw)
  OBVIOUS
<1>2. op \in DOMAIN ScopeOf /\ ScopeOf[op] \in Scopes
  BY DEF Stands, ScopeStands
<1>3. "admin" \in Standings
  BY DEF Standings, Roles
<1>4. outcome \in DOMAIN Status
  BY <1>3, Verdicts
<1>5. /\ a.door = "plugin" /\ a.op = op /\ a.saw = saw /\ a.said = outcome
  BY <1>1, <1>4, SaidApart DEF AnswerTo
<1>6. Said("plugin", "ok") = "ok"
  BY DEF Said
<1>7. (op \in Reads /\ outcome = "ok") => saw \in {"draft", "published"}
  BY <1>3, Verdicts
<1>8. op = "get" => "read" \in Scopes
  BY <1>2 DEF ScopeOf
<1>9. ShownRightly(a)
  BY <1>5, <1>6, <1>7, <1>8 DEF ShownRightly
<1>10. WordedRightly(a)
  BY <1>2, <1>5 DEF WordedRightly
<1> QED
  BY <1>1, <1>9, <1>10 DEF AnswerStands

\* A request comes in.
LEMMA BeginKeeps ==
    ASSUME DoorsInv, NEW q \in Requests, NEW door \in {"rest", "graphql", "plugin"},
           NEW todo \in Seq(Writes \cup Reads), todo # <<>>,
           door # "graphql" => Tail(todo) = <<>>,
           door = "plugin" => Head(todo) \in DOMAIN ScopeOf,
           NEW cred \in Credentials \cup {NoCredentials}, Begin(q, door, todo, cred)
    PROVE DoorsInv'
<1>1. PICK r : r = RoleOf(cred, live, role)
  OBVIOUS
<1>2. r \in Standings
  BY <1>1, CallersTyped DEF DoorsInv, AccessTyped
<1>3. PICK x : x = [pc |-> "gate", door |-> door, todo |-> todo, cred |-> cred,
                    who |-> NoRole, whom |-> Nobody, stood |-> {r}, saw |-> "gate"]
  OBVIOUS
<1>4. /\ request' = [request EXCEPT ![q] = x] /\ UNCHANGED <<role, live, item, wrote>>
      /\ answer' = [answer EXCEPT ![q] = NoAnswer]
  BY <1>1, <1>3 DEF Begin
<1>5. x \in RequestRecords
  BY <1>2, <1>3 DEF RequestRecords, Standings
<1>6. Stands(x)
  BY <1>1, <1>3 DEF Stands, ScopeStands, CallerStands, WroteStands, Inside
<1>7. DOMAIN answer' = Requests /\ \A p \in Requests : AnswerStands(answer'[p])
  BY <1>4, NoAnswerStands DEF DoorsInv, AccessTyped
<1> QED
  BY <1>4, <1>5, <1>6, <1>7, RequestMoves

LEMMA BeginsKeep ==
    ASSUME DoorsInv, NEW q \in Requests, BeginRest(q) \/ BeginGraph(q) \/ BeginPlugin(q)
    PROVE DoorsInv'
<1>1. ASSUME NEW op \in Writes \cup Reads
      PROVE <<op>> \in Seq(Writes \cup Reads) /\ <<op>> # <<>> /\ Tail(<<op>>) = <<>>
            /\ Head(<<op>>) = op
  OBVIOUS
<1>2. CASE BeginRest(q)
  BY <1>1, <1>2, BeginKeeps DEF BeginRest
<1>3. CASE BeginGraph(q)
  BY <1>3, BeginKeeps, AccessAssumption DEF BeginGraph
<1>4. CASE BeginPlugin(q)
  <2>1. PICK op \in DOMAIN ScopeOf : Begin(q, "plugin", <<op>>, NoCredentials)
    BY <1>4 DEF BeginPlugin
  <2>2. op \in Writes \cup Reads
    BY Operations
  <2> QED
    BY <1>1, <2>1, <2>2, BeginKeeps
<1> QED
  BY <1>2, <1>3, <1>4

\* A request that a door or a look-up moves on, without an answer.
LEMMA MovesOn ==
    ASSUME DoorsInv, NEW q \in Requests, request[q].pc # "idle", NEW x \in RequestRecords,
           request' = [request EXCEPT ![q] = x], Stands(x),
           UNCHANGED <<role, live, item, wrote, answer>>
    PROVE DoorsInv'
<1>1. DOMAIN answer' = Requests /\ \A p \in Requests : AnswerStands(answer'[p])
  BY DEF DoorsInv, AccessTyped
<1> QED
  BY <1>1, RequestMoves

\* REST: refused for the token it does not mirror, at the gate, or let through.
LEMMA RestKeeps ==
    ASSUME DoorsInv, NEW q \in Requests,
           RestUnmirrored(q) \/ RestGate(q) \/ RestView(q) \/ RestPrincipal(q)
    PROVE DoorsInv'
<1>0. /\ request[q].pc \in {"gate", "principal"}
      /\ request[q].pc = "gate" => request[q].door = "rest"
      /\ UNCHANGED <<role, live, item, wrote>>
  BY DEF RestUnmirrored, RestGate, RestView, RestPrincipal
<1>1. PICK y, op, r : y = request[q] /\ op = Op(q) /\ r = Lookup(q)
  OBVIOUS
<1>2. /\ y \in RequestRecords /\ Stands(y) /\ op = Head(y.todo) /\ op \in Writes \cup Reads
      /\ r \in y.stood /\ r \in Standings /\ r = RoleOf(y.cred, live, role)
      /\ y.stood \subseteq Standings
  BY <1>0, <1>1, UnderWay
<1>3. op \in Writes => op # "get"
  BY Operations
<1>4. CASE RestUnmirrored(q)
  <2>1. /\ y.door = "rest" /\ y.pc = "gate" /\ op \in Writes
        /\ Answered(q, "denied", "csrf")
    BY <1>1, <1>4 DEF RestUnmirrored
  <2>2. PICK a : a = AnswerTo(y, "denied", "csrf")
    OBVIOUS
  <2>3. /\ a.door = "rest" /\ a.op = op /\ a.mirrored = CsrfPasses(y.cred)
        /\ a.said = Status["denied"]
    BY <1>2, <2>1, <2>2, SaidApart DEF AnswerTo
  <2>4. ~ CsrfPasses(y.cred)
    BY <1>1, <1>4 DEF RestUnmirrored
  <2>5. a.said # "none" /\ a.said # Said(a.door, "ok")
    BY <2>3, SaidApart
  <2>6. AnswerStands(a)
    BY <2>1, <2>3, <2>4, <2>5 DEF AnswerStands, ShownRightly, WordedRightly
  <2> QED
    BY <1>0, <1>1, <2>1, <2>2, <2>6, AnswerKeeps
<1>5. CASE RestGate(q)
  <2>0. CsrfPasses(y.cred)
    BY <1>1, <1>5 DEF RestGate
  <2>1. /\ y.door = "rest" /\ y.pc = "gate" /\ op \in Writes
        /\ IF Gate(r, op) = "domain"
           THEN request' = [request EXCEPT ![q].pc = "principal"] /\ answer' = answer
           ELSE Answered(q, Gate(r, op), "gate")
    BY <1>1, <1>5 DEF RestGate
  <2>2. CASE Gate(r, op) = "domain"
    <3>1. PICK x : x = [y EXCEPT !.pc = "principal"]
      OBVIOUS
    <3>2. request' = [request EXCEPT ![q] = x] /\ answer' = answer
      BY <1>1, <2>1, <2>2, <3>1
    <3>3. x \in RequestRecords
      BY <1>2, <3>1 DEF RequestRecords
    <3>4. FieldStart(r, op) = "domain"
      BY <1>2, <2>1, <2>2, Starts
    <3>5. /\ x.pc = "principal" /\ x.door = "rest" /\ x.todo = y.todo /\ x.cred = y.cred
          /\ x.stood = y.stood
      BY <1>2, <2>1, <3>1 DEF RequestRecords
    <3>6. Stands(x)
      BY <1>2, <2>0, <2>1, <3>4, <3>5 DEF Stands, CallerStands, WroteStands, Inside
    <3> QED
      BY <1>0, <3>2, <3>3, <3>6, MovesOn
  <2>3. CASE Gate(r, op) # "domain"
    <3>1. PICK g : g = Gate(r, op)
      OBVIOUS
    <3>2. Answered(q, g, "gate")
      BY <2>1, <2>3, <3>1
    <3>3. g = Verdict(op, r, "gate")
      BY <1>2, <2>1, <2>3, <3>1, Verdicts
    <3>4. AnswerStands(AnswerTo(y, g, "gate"))
      BY <1>2, <2>0, <2>1, <3>3, EarnedStands
    <3> QED
      BY <1>0, <1>1, <2>1, <3>2, <3>4, AnswerKeeps
  <2> QED
    BY <2>2, <2>3
<1>6. CASE RestView(q)
  <2>1. /\ y.door = "rest" /\ y.pc = "gate" /\ op \in Reads /\ answer' = answer
        /\ request' = [request EXCEPT ![q].pc =
               IF View(r, op) = "domain" THEN "principal" ELSE "public"]
    BY <1>1, <1>6 DEF RestView
  <2>2. PICK x : x = [y EXCEPT !.pc = IF View(r, op) = "domain" THEN "principal" ELSE "public"]
    OBVIOUS
  <2>3. request' = [request EXCEPT ![q] = x]
    BY <1>1, <2>1, <2>2
  <2>4. /\ x \in RequestRecords /\ x.door = "rest" /\ x.todo = y.todo /\ x.cred = y.cred
        /\ x.stood = y.stood
        /\ x.pc = IF View(r, op) = "domain" THEN "principal" ELSE "public"
    BY <1>2, <2>1, <2>2 DEF RequestRecords
  <2>5. View(r, op) = FieldStart(r, op) /\ View(r, op) \in {"domain", "public"}
    BY <1>2, <2>1, Starts, Operations
  <2>6. x.pc \in {"principal", "public"}
        /\ FieldStart(r, op) = IF x.pc = "principal" THEN "domain" ELSE "public"
    BY <2>4, <2>5
  <2>7. CallerStands(x)
    BY <1>2, <1>3, <2>1, <2>4, <2>6, Operations DEF CallerStands, Inside
  <2>8. Stands(x)
    BY <1>2, <2>1, <2>4, <2>6, <2>7 DEF Stands, WroteStands
  <2> QED
    BY <1>0, <2>1, <2>3, <2>4, <2>8, MovesOn
<1>7. CASE RestPrincipal(q)
  <2>1. /\ y.pc = "principal" /\ answer' = answer
        /\ request' = [request EXCEPT ![q].pc = "domain", ![q].who = r]
    BY <1>1, <1>7 DEF RestPrincipal
  <2>2. PICK x : x = [y EXCEPT !.pc = "domain", !.who = r]
    OBVIOUS
  <2>3. request' = [request EXCEPT ![q] = x]
    BY <1>1, <1>2, <2>1, <2>2 DEF RequestRecords, DoorsInv, AccessTyped
  <2>4. /\ x \in RequestRecords /\ x.door = y.door /\ x.todo = y.todo /\ x.cred = y.cred
        /\ x.stood = y.stood /\ x.pc = "domain" /\ x.who = r
    BY <1>2, <2>1, <2>2 DEF RequestRecords
  <2>5. y.door = "rest" /\ CallerStands(y)
    BY <1>2, <2>1 DEF Stands, ScopeStands, CallerStands
  <2>6. CallerStands(x)
    BY <1>2, <2>1, <2>4, <2>5 DEF CallerStands, Inside
  <2>7. Stands(x)
    BY <1>2, <2>4, <2>5, <2>6 DEF Stands, WroteStands
  <2> QED
    BY <1>0, <2>1, <2>3, <2>4, <2>7, MovesOn
<1> QED
  BY <1>4, <1>5, <1>6, <1>7

\* GraphQL: one look-up for all the fields; a field refused.
LEMMA GraphKeeps ==
    ASSUME DoorsInv, NEW q \in Requests, GraphPrincipal(q) \/ GraphRefuse(q) PROVE DoorsInv'
<1>0. request[q].pc \in {"gate", "refuse"} /\ UNCHANGED <<role, live, item, wrote>>
  BY DEF GraphPrincipal, GraphRefuse
<1>1. PICK y, op, r : y = request[q] /\ op = Op(q) /\ r = Lookup(q)
  OBVIOUS
<1>2. /\ y \in RequestRecords /\ Stands(y) /\ op = Head(y.todo) /\ op \in Writes \cup Reads
      /\ r \in y.stood /\ r \in Standings /\ r = RoleOf(y.cred, live, role)
      /\ y.stood \subseteq Standings /\ y.who \in Standings
  BY <1>0, <1>1, UnderWay
<1>3. CASE GraphPrincipal(q)
  <2>1. PICK start : start = FieldStart(r, op)
    OBVIOUS
  <2>2. PICK x : x = [y EXCEPT !.who = r, !.pc = IF start \in {"domain", "public"} THEN start
                                                ELSE "refuse"]
    OBVIOUS
  <2>3. /\ y.pc = "gate" /\ y.door = "graphql" /\ answer' = answer
        /\ request' = [request EXCEPT ![q] = x]
    BY <1>1, <1>2, <1>3, <2>1, <2>2 DEF GraphPrincipal, RequestRecords, DoorsInv, AccessTyped
  <2>4. /\ x \in RequestRecords /\ x.door = "graphql" /\ x.todo = y.todo /\ x.cred = y.cred
        /\ x.stood = y.stood /\ x.who = r
        /\ x.pc = IF start \in {"domain", "public"} THEN start ELSE "refuse"
    BY <1>2, <2>2, <2>3 DEF RequestRecords
  <2>5. start \in {"domain", "public"} \/ op \in Writes
    BY <1>2, <2>1, Starts, Operations
  <2>6. CallerStands(x)
    BY <1>2, <2>1, <2>4, <2>5 DEF CallerStands, Inside
  <2>7. Stands(x)
    BY <1>2, <2>4, <2>6 DEF Stands, WroteStands
  <2> QED
    BY <1>0, <2>3, <2>4, <2>7, MovesOn
<1>4. CASE GraphRefuse(q)
  <2>1. y.pc = "refuse"
    BY <1>1, <1>4 DEF GraphRefuse
  <2>2. /\ y.door # "plugin" /\ op \in Writes /\ FieldStart(y.who, op) # "domain"
        /\ y.who \in y.stood
    BY <1>2, <2>1 DEF Stands, ScopeStands, CallerStands, Inside
  <2>3. PICK g : g = FieldStart(y.who, op)
    OBVIOUS
  <2>4. g = Gate(y.who, op) /\ g # "domain"
    BY <1>2, <2>2, <2>3, Starts
  <2>5. g = Verdict(op, y.who, "gate")
    BY <1>2, <2>2, <2>4, Verdicts
  <2>6. AnswerStands(AnswerTo(y, g, "gate"))
    BY <1>2, <2>1, <2>2, <2>5, EarnedStands
  <2>7. Answered(q, g, "gate")
    BY <1>1, <1>4, <2>3 DEF GraphRefuse
  <2> QED
    BY <1>0, <1>1, <2>1, <2>6, <2>7, AnswerKeeps
<1> QED
  BY <1>3, <1>4

\* A plugin: the manifest's scope, or an answer that says it was not declared.
LEMMA PluginKeeps ==
    ASSUME DoorsInv, NEW q \in Requests, PluginGate(q) PROVE DoorsInv'
<1>1. PICK y, op : y = request[q] /\ op = Op(q)
  OBVIOUS
<1>2. /\ y.pc = "gate" /\ y.door = "plugin" /\ UNCHANGED <<role, live, item, wrote>>
      /\ IF ScopeOf[op] \in Scopes
         THEN request' = [request EXCEPT ![q].pc = "domain", ![q].who = "admin"] /\ answer' = answer
         ELSE Answered(q, "undeclared", "gate")
  BY <1>1 DEF PluginGate
<1>3. y \in RequestRecords /\ Stands(y) /\ op = Head(y.todo)
  BY <1>1, <1>2, UnderWay
<1>4. CASE ScopeOf[op] \in Scopes
  <2>1. PICK x : x = [y EXCEPT !.pc = "domain", !.who = "admin"]
    OBVIOUS
  <2>2. request' = [request EXCEPT ![q] = x] /\ answer' = answer
    BY <1>1, <1>2, <1>3, <1>4, <2>1 DEF RequestRecords, DoorsInv, AccessTyped
  <2>3. /\ x \in RequestRecords /\ x.door = "plugin" /\ x.todo = y.todo /\ x.cred = y.cred
        /\ x.stood = y.stood /\ x.pc = "domain" /\ x.who = "admin"
    BY <1>2, <1>3, <2>1 DEF RequestRecords, Standings, Roles
  <2>4. Stands(x)
    BY <1>2, <1>3, <1>4, <2>3 DEF Stands, ScopeStands, WroteStands
  <2> QED
    BY <1>1, <1>2, <2>2, <2>3, <2>4, MovesOn
<1>5. CASE ScopeOf[op] \notin Scopes
  <2>1. PICK a : a = AnswerTo(y, "undeclared", "gate")
    OBVIOUS
  <2>2. a.door = "plugin" /\ a.op = op /\ a.said = "undeclared"
    BY <1>2, <1>3, <2>1 DEF AnswerTo, Said
  <2>3. a.said # "none" /\ a.said # Said(a.door, "ok")
    BY <2>2 DEF Said
  <2>4. AnswerStands(a)
    BY <1>5, <2>2, <2>3 DEF AnswerStands, ShownRightly, WordedRightly
  <2> QED
    BY <1>1, <1>2, <1>5, <2>1, <2>4, AnswerKeeps
<1> QED
  BY <1>4, <1>5

\* Somebody who stood for a request in the domain may have it: an administrator for a
\* plugin's, and over GraphQL the caller themselves.
LEMMA InDomain ==
    ASSUME DoorsInv, NEW q \in Requests, request[q].pc \in Inside
    PROVE /\ request[q].door # "plugin" =>
                /\ request[q].who \in request[q].stood
                /\ \E r \in request[q].stood : May(r, Op(q))
          /\ request[q].door = "plugin" => request[q].who = "admin"
          /\ (request[q].pc = "domain" /\ request[q].door # "rest") =>
                May(request[q].who, Op(q))
          /\ Op(q) \in Reads => Op(q) = "get"
<1>1. PICK y, op : y = request[q] /\ op = Op(q)
  OBVIOUS
<1>2. /\ y \in RequestRecords /\ Stands(y) /\ op = Head(y.todo) /\ op \in Writes \cup Reads
      /\ y.stood \subseteq Standings /\ y.who \in Standings /\ y.pc \in Inside
  BY <1>1, UnderWay DEF Inside
<1>3. ASSUME NEW r \in Standings, FieldStart(r, op) = "domain"
      PROVE May(r, op) /\ (op \in Reads => op = "get")
  BY <1>2, <1>3, Starts, Operations DEF May
<1>4. CASE y.door = "plugin"
  <2>1. y.who = "admin" /\ op \in DOMAIN ScopeOf
    BY <1>2, <1>4 DEF Stands, ScopeStands, Inside
  <2>2. May("admin", op)
    BY <1>2, Operations DEF May, Allows, RoleCapabilities, Required
  <2> QED
    BY <1>1, <1>4, <2>1, <2>2, Operations
<1>5. CASE y.door # "plugin"
  <2>1. CallerStands(y)
    BY <1>2, <1>5 DEF Stands
  <2>2. y.who \in y.stood /\ \E r \in y.stood : FieldStart(r, op) = "domain"
    BY <1>2, <2>1 DEF CallerStands
  <2>3. y.door = "graphql" /\ y.pc = "domain" => FieldStart(y.who, op) = "domain"
    BY <1>2, <2>1 DEF CallerStands
  <2>4. y.door \in {"rest", "graphql"}
    BY <1>2, <1>5 DEF RequestRecords
  <2> QED
    BY <1>1, <1>2, <1>3, <1>5, <2>2, <2>3, <2>4
<1> QED
  BY <1>4, <1>5

\* What the domain answers to somebody who may have it.
LEMMA VerdictStands ==
    ASSUME DoorsInv, NEW q \in Requests, request[q].pc \in Inside, NEW outcome, NEW saw,
           \/ May(request[q].who, Op(q)) /\ outcome = Verdict(Op(q), request[q].who, saw)
           \/ \A r \in Standings : May(r, Op(q)) => outcome = Verdict(Op(q), r, saw)
    PROVE AnswerStands(AnswerTo(request[q], outcome, saw))
<1>1. PICK y, op : y = request[q] /\ op = Op(q)
  OBVIOUS
<1>2. /\ y \in RequestRecords /\ Stands(y) /\ op = Head(y.todo) /\ op \in Writes \cup Reads
      /\ y.stood \subseteq Standings /\ y.pc # "gate"
  BY <1>1, UnderWay DEF Inside
<1>3. CASE y.door = "plugin"
  <2>1. y.who = "admin" /\ May("admin", op) /\ "admin" \in Standings
    BY <1>1, <1>2, <1>3, InDomain, Operations
       DEF May, Allows, RoleCapabilities, Required, Standings, Roles
  <2>2. outcome = Verdict(op, "admin", saw)
    BY <1>1, <2>1
  <2> QED
    BY <1>1, <1>2, <1>3, <2>2, PluginStands
<1>4. CASE y.door # "plugin"
  <2>1. PICK r \in y.stood : outcome = Verdict(op, r, saw)
    <3>1. y.who \in y.stood /\ \E r \in y.stood : May(r, op)
      BY <1>1, <1>4, InDomain
    <3> QED
      BY <1>1, <1>2, <3>1
  <2> QED
    BY <1>1, <1>2, <1>4, <2>1, EarnedStands
<1> QED
  BY <1>3, <1>4

\* The verdict on somebody who may have it depends on what is there only.
LEMMA VerdictOf ==
    ASSUME NEW op \in Writes \cup Reads, NEW r \in Standings, May(r, op), NEW s
    PROVE Verdict(op, r, s) =
              IF \/ op \in {"create", "demote", "deactivate"}
                 \/ s \in {"draft", "published"}
              THEN "ok" ELSE "absent"
<1>1. op \in Writes => Gate(r, op) = "domain"
  BY Starts DEF May
<1>2. op = "get" => Allows(r, "content:read_drafts")
  BY Operations DEF May
<1> QED
  BY <1>1, <1>2, Verdicts

\* The domain refuses, finds nothing or shows the item.
LEMMA DomainKeeps ==
    ASSUME DoorsInv, NEW q \in Requests, Denied(q) \/ Missing(q) \/ GetItem(q)
    PROVE DoorsInv'
<1>0. request[q].pc = "domain" /\ request[q].pc \in Inside /\ UNCHANGED <<role, live, item, wrote>>
  BY DEF Denied, Missing, GetItem, Reaches, Inside
<1>1. PICK y, op, s : y = request[q] /\ op = Op(q) /\ s = item.status
  OBVIOUS
<1>2. /\ y \in RequestRecords /\ Stands(y) /\ op = Head(y.todo) /\ op \in Writes \cup Reads
      /\ y.who \in Standings /\ s \in ItemStatuses
  BY <1>0, <1>1, UnderWay DEF DoorsInv, AccessTyped
<1>3. Here <=> s \in {"draft", "published"}
  BY <1>1 DEF Here
<1>4. ASSUME ~ May(y.who, op), Answered(q, "denied", s) PROVE DoorsInv'
  <2>1. y.door = "rest"
    BY <1>0, <1>1, <1>4, InDomain
  <2>2. AnswerStands(AnswerTo(y, "denied", s))
    BY <1>0, <1>1, <1>2, <1>4, <2>1, DeniedStands
  <2> QED
    BY <1>0, <1>1, <1>4, <2>2, AnswerKeeps
<1>5. ASSUME May(y.who, op), NEW o, Answered(q, o, s),
             o = IF \/ op \in {"create", "demote", "deactivate"}
                    \/ s \in {"draft", "published"}
                 THEN "ok" ELSE "absent"
      PROVE DoorsInv'
  <2>1. o = Verdict(op, y.who, s)
    BY <1>2, <1>5, VerdictOf
  <2>2. AnswerStands(AnswerTo(y, o, s))
    BY <1>0, <1>1, <1>5, <2>1, VerdictStands
  <2> QED
    BY <1>0, <1>1, <1>5, <2>2, AnswerKeeps
<1>6. CASE Denied(q)
  <2>1. ~ May(y.who, op) /\ Answered(q, "denied", s)
    BY <1>1, <1>6 DEF Denied, May
  <2> QED
    BY <1>4, <2>1
<1>7. CASE Missing(q)
  <2>1. /\ op \in {"update", "delete", "rollback", "publish", "unpublish"}
        /\ s \notin {"draft", "published"} /\ Answered(q, "absent", s)
        /\ Allows(y.who, Required[op])
    BY <1>1, <1>3, <1>7 DEF Missing
  <2>2. May(y.who, op)
    BY <2>1, Operations DEF May
  <2> QED
    BY <1>5, <2>1, <2>2
<1>8. CASE GetItem(q)
  <2>1. /\ op = "get" /\ op \notin Writes
        /\ Answered(q, IF ~Allows(y.who, "content:read_drafts") THEN "denied"
                       ELSE IF Here THEN "ok" ELSE "absent", s)
    BY <1>1, <1>8, Operations DEF GetItem, Reaches
  <2>2. CASE Allows(y.who, "content:read_drafts")
    BY <1>3, <1>5, <2>1, <2>2 DEF May
  <2>3. CASE ~ Allows(y.who, "content:read_drafts")
    BY <1>4, <2>1, <2>3 DEF May
  <2> QED
    BY <2>2, <2>3
<1> QED
  BY <1>6, <1>7, <1>8

\* What was written is answered, once it is recorded and the sessions are ended; or a
\* deactivation goes on to end them.
LEMMA WrittenKeeps ==
    ASSUME DoorsInv, NEW q \in Requests, Record(q) \/ Revoked(q) PROVE DoorsInv'
<1>0. /\ request[q].pc \in {"record", "revoked"} /\ request[q].pc \in Inside
      /\ UNCHANGED <<role, live, item, wrote>>
  BY DEF Record, Revoked, Inside
<1>1. PICK y, op : y = request[q] /\ op = Op(q)
  OBVIOUS
<1>2. /\ y \in RequestRecords /\ Stands(y) /\ op = Head(y.todo) /\ op \in Writes \cup Reads
  BY <1>0, <1>1, UnderWay
<1>3. /\ op \in Writes /\ y.saw \in ItemStatuses
      /\ op \notin {"create", "demote", "deactivate"} => y.saw \in {"draft", "published"}
  BY <1>0, <1>1, <1>2 DEF Stands, WroteStands
<1>4. CASE Answered(q, "ok", y.saw)
  <2>1. PICK saw : saw = y.saw
    OBVIOUS
  <2>2. \A r \in Standings : May(r, op) => Verdict(op, r, saw) = "ok"
    BY <1>2, <1>3, <2>1, VerdictOf
  <2>3. AnswerStands(AnswerTo(y, "ok", saw))
    BY <1>0, <1>1, <2>2, VerdictStands
  <2> QED
    BY <1>0, <1>1, <1>4, <2>1, <2>3, AnswerKeeps
<1>5. CASE Record(q) /\ Revoking(q)
  <2>1. PICK x : x = [y EXCEPT !.pc = "revoke"]
    OBVIOUS
  <2>2. /\ request' = [request EXCEPT ![q] = x] /\ answer' = answer
        /\ op = "deactivate" /\ y.door # "plugin" /\ y.pc = "record"
    BY <1>1, <1>5, <2>1 DEF Record, Revoking
  <2>3. /\ x \in RequestRecords /\ x.door = y.door /\ x.todo = y.todo /\ x.cred = y.cred
        /\ x.stood = y.stood /\ x.pc = "revoke" /\ x.who = y.who /\ x.saw = y.saw
    BY <1>2, <2>1 DEF RequestRecords
  <2>4. CallerStands(x)
    BY <1>2, <2>2, <2>3 DEF Stands, CallerStands, Inside
  <2>5. Stands(x)
    BY <1>2, <1>3, <2>2, <2>3, <2>4 DEF Stands, WroteStands
  <2> QED
    BY <1>0, <1>1, <2>2, <2>3, <2>5, MovesOn
<1> QED
  BY <1>1, <1>4, <1>5 DEF Record, Revoked

\* The public view: a published item, or the versions of any.
LEMMA PublicKeeps ==
    ASSUME DoorsInv, NEW q \in Requests, GetPublic(q) PROVE DoorsInv'
<1>1. PICK y, op, s : y = request[q] /\ op = Op(q) /\ s = item.status
  OBVIOUS
<1>2. PICK o : o = IF s = "published" \/ (op = "versions" /\ Here) THEN "ok" ELSE "absent"
  OBVIOUS
<1>3. /\ y.pc = "public" /\ UNCHANGED <<role, live, item, wrote>> /\ Answered(q, o, s)
  BY <1>1, <1>2 DEF GetPublic
<1>4. /\ y \in RequestRecords /\ Stands(y) /\ op = Head(y.todo) /\ op \in Writes \cup Reads
      /\ y.stood \subseteq Standings /\ s \in ItemStatuses
  BY <1>1, <1>3, UnderWay DEF DoorsInv, AccessTyped
<1>5. /\ y.door \in {"rest", "graphql"}
      /\ \E r \in y.stood : FieldStart(r, op) = "public"
  BY <1>3, <1>4 DEF Stands, ScopeStands, CallerStands, RequestRecords
<1>6. op \notin Writes
  BY <1>4, <1>5, Starts
<1>7. PICK r \in y.stood : FieldStart(r, op) = "public"
  BY <1>5
<1>8. op \in {"get", "versions"} /\ (op = "get" => ~ Allows(r, "content:read_drafts"))
  BY <1>4, <1>6, <1>7, Starts, Operations
<1>9. o = Verdict(op, r, s)
  BY <1>1, <1>2, <1>4, <1>6, <1>8 DEF Verdict, Here, ItemStatuses
<1>10. AnswerStands(AnswerTo(y, o, s))
  BY <1>3, <1>4, <1>5, <1>7, <1>9, EarnedStands
<1> QED
  BY <1>1, <1>3, <1>10, AnswerKeeps

\* More standing does no harm.
LEMMA MoreStanding ==
    ASSUME NEW x \in RequestRecords, Stands(x), NEW r \in Standings
    PROVE Stands([x EXCEPT !.stood = @ \cup {r}])
<1>1. PICK y : y = [x EXCEPT !.stood = x.stood \cup {r}]
  OBVIOUS
<1>2. /\ y.pc = x.pc /\ y.door = x.door /\ y.todo = x.todo /\ y.cred = x.cred /\ y.who = x.who
      /\ y.saw = x.saw /\ y.stood = x.stood \cup {r}
  BY <1>1 DEF RequestRecords
<1>3. ScopeStands(x) => ScopeStands(y)
  BY <1>2 DEF ScopeStands
<1>4. CallerStands(x) => CallerStands(y)
  BY <1>2 DEF CallerStands
<1>5. Stands(y)
  BY <1>2, <1>3, <1>4 DEF Stands, WroteStands
<1> QED
  BY <1>1, <1>5

\* Request q moves on, and everybody being served stands also in the role they are left.
LEMMA MovedKeeps ==
    ASSUME DoorsInv, NEW q \in Requests, NEW pc, NEW saw \in ItemStatuses,
           NEW whom \in Users \cup {Nobody}, Moved(q, pc, saw, whom), Op(q) \in Writes,
           Op(q) \notin {"create", "demote", "deactivate"} => saw \in {"draft", "published"},
           \/ request[q].pc = "domain" /\ pc = "record"
           \/ /\ request[q].pc = "revoke" /\ pc = "revoked"
              /\ Op(q) = "deactivate" /\ request[q].door # "plugin",
           role' \in [Users -> Roles], live' \subseteq Users
    PROVE /\ request' \in [Requests -> RequestRecords]
          /\ \A p \in Requests : request'[p].pc # "idle" => Stands(request[p])'
<1>1. PICK y, op : y = request[q] /\ op = Op(q)
  OBVIOUS
<1>2. /\ y \in RequestRecords /\ Stands(y) /\ op = Head(y.todo) /\ op \in Writes
      /\ y.stood \subseteq Standings /\ y.pc # "idle"
  BY <1>1, UnderWay
<1>3. ASSUME NEW p \in Requests
      PROVE /\ request'[p] \in RequestRecords
            /\ request'[p].pc # "idle" => Stands(request[p])'
  <2>1. PICK x, r : x = request[p] /\ r = RoleOf(request[p].cred, live', role')
    OBVIOUS
  <2>2. x \in RequestRecords /\ r \in Standings /\ (x.pc # "idle" => Stands(x))
    BY <2>1, CallersTyped DEF DoorsInv, AccessTyped
  <2>3. PICK z : z = [x EXCEPT !.pc = IF p = q THEN pc ELSE x.pc,
                               !.saw = IF p = q THEN saw ELSE x.saw,
                               !.whom = IF p = q THEN whom ELSE x.whom,
                               !.stood = IF x.pc = "idle" THEN {} ELSE x.stood \cup {r}]
    OBVIOUS
  <2>4. request'[p] = z
    BY <2>1, <2>3 DEF Moved
  <2>5. /\ z \in RequestRecords /\ z.door = x.door /\ z.todo = x.todo /\ z.cred = x.cred
        /\ z.who = x.who /\ z.stood = (IF x.pc = "idle" THEN {} ELSE x.stood \cup {r})
        /\ z.pc = (IF p = q THEN pc ELSE x.pc) /\ z.saw = (IF p = q THEN saw ELSE x.saw)
    BY <2>2, <2>3 DEF RequestRecords
  <2>6. SUFFICES ASSUME z.pc # "idle" PROVE Stands(z)'
    BY <2>4, <2>5
  <2>7. x.pc # "idle" /\ z.stood = x.stood \cup {r}
    BY <1>1, <1>2, <2>1, <2>5, <2>6
  <2>8. RoleOf(z.cred, live', role') \in z.stood
    BY <2>1, <2>5, <2>7
  <2>9. PICK v : v = [x EXCEPT !.stood = x.stood \cup {r}]
    OBVIOUS
  <2>10. /\ Stands(v) /\ v.pc = x.pc /\ v.door = x.door /\ v.todo = x.todo /\ v.who = x.who
         /\ v.stood = x.stood \cup {r} /\ v.saw = x.saw /\ v.cred = x.cred
    <3>1. Stands(v)
      BY <2>2, <2>7, <2>9, MoreStanding
    <3> QED
      BY <2>2, <2>9, <3>1 DEF RequestRecords
  <2>11. IF z.door = "plugin" THEN ScopeStands(z) ELSE CallerStands(z)
    <3>1. CASE p = q
      <4>1. /\ v.pc \in {"domain", "revoke"} /\ z.pc \in {"record", "revoked"}
            /\ z.door = "plugin" => z.pc = "record" /\ v.pc = "domain"
        BY <1>1, <2>1, <2>5, <2>10, <3>1
      <4>2. CASE z.door = "plugin"
        BY <2>5, <2>10, <4>1, <4>2 DEF Stands, ScopeStands
      <4>3. CASE z.door # "plugin"
        <5>1. CallerStands(v)
          BY <2>5, <2>10, <4>3 DEF Stands
        <5> QED
          BY <2>5, <2>7, <2>10, <4>1, <4>3, <5>1 DEF CallerStands, Inside
      <4> QED
        BY <4>2, <4>3
    <3>2. CASE p # q
      <4>1. z.pc = v.pc
        BY <2>5, <2>10, <3>2
      <4>2. ScopeStands(v) => ScopeStands(z)
        BY <2>5, <2>10, <4>1 DEF ScopeStands
      <4>3. CallerStands(v) => CallerStands(z)
        BY <2>5, <2>7, <2>10, <4>1 DEF CallerStands
      <4> QED
        BY <2>5, <2>10, <4>2, <4>3 DEF Stands
    <3> QED
      BY <3>1, <3>2
  <2>12. WroteStands(z)
    <3>1. CASE p = q
      BY <1>1, <1>2, <2>1, <2>5, <3>1 DEF WroteStands
    <3>2. CASE p # q
      BY <2>5, <2>10, <3>2 DEF Stands, WroteStands
    <3> QED
      BY <3>1, <3>2
  <2>13. z.todo # <<>> /\ (z.door # "graphql" => Tail(z.todo) = <<>>)
    BY <2>5, <2>10 DEF Stands
  <2> QED
    BY <2>8, <2>11, <2>12, <2>13 DEF Stands, ScopeStands, CallerStands, WroteStands
<1>4. request' = [p \in Requests |-> request'[p]]
  BY DEF Moved
<1> QED
  BY <1>3, <1>4

\* A write: what it did is what its operation asks the capability for.
LEMMA WroteKeeps ==
    ASSUME DoorsInv, NEW q \in Requests, NEW from \in Marks, NEW to \in Marks,
           NEW whom \in Users \cup {Nobody},
           request[q].pc = "domain", Op(q) \in Writes,
           Allows(request[q].who, Required[Op(q)]), Wrote(q, from, to, whom),
           Op(q) \notin {"create", "demote", "deactivate"} => Here,
           role' \in [Users -> Roles], live' \subseteq Users, answer' = answer,
           item' \in [status : ItemStatuses, snapshots : Seq(ItemStatuses)],
           {from, to} = {"draft", "published"} => Required[Op(q)] = "content:publish",
           item'.snapshots # item.snapshots => Required[Op(q)] = "content:write"
    PROVE DoorsInv'
<1>1. PICK y, op, s : y = request[q] /\ op = Op(q) /\ s = item.status
  OBVIOUS
<1>2. /\ y \in RequestRecords /\ Stands(y) /\ op = Head(y.todo) /\ op \in Writes
      /\ y.stood \subseteq Standings /\ s \in ItemStatuses /\ y.pc = "domain"
  BY <1>1, UnderWay DEF DoorsInv, AccessTyped
<1>3. PICK w : w = [op |-> op, door |-> y.door, from |-> from, to |-> to,
                    data |-> item'.snapshots # item.snapshots, stood |-> y.stood]
  OBVIOUS
<1>4. wrote' = Append(wrote, w) /\ w \in WriteRecords
  BY <1>1, <1>2, <1>3 DEF Wrote, WriteRecords, RequestRecords
<1>5. WriteStands(w)
  <2> SUFFICES ASSUME NEW c \in Effects(w)
               PROVE IF w.door = "plugin" THEN ScopeFor(c) \in Scopes
                     ELSE HasStanding(w.stood, c)
    BY DEF WriteStands
  <2>1. c = Required[op]
    <3>1. CASE c = "users:manage" /\ op \in {"demote", "deactivate"}
      BY <3>1 DEF Required
    <3>2. CASE c = "content:publish" /\ {from, to} = {"draft", "published"}
      BY <1>1, <3>2
    <3>3. CASE c = "content:write" /\ item'.snapshots # item.snapshots
      BY <1>1, <3>3
    <3> QED
      BY <1>3, <3>1, <3>2, <3>3 DEF Effects
  <2>2. CASE y.door = "plugin"
    <3>1. op \in DOMAIN ScopeOf /\ ScopeOf[op] \in Scopes
      BY <1>2, <2>2 DEF Stands, ScopeStands
    <3>2. ScopeFor(Required[op]) = ScopeOf[op]
      BY <1>2, <3>1, Operations DEF ScopeFor, Required, ScopeOf
    <3> QED
      BY <1>3, <2>1, <2>2, <3>1, <3>2
  <2>3. CASE y.door # "plugin"
    <3>1. y.who \in y.stood
      BY <1>1, <1>2, <2>3, InDomain DEF Inside
    <3> QED
      BY <1>1, <1>3, <2>1, <2>3, <3>1 DEF HasStanding
  <2> QED
    BY <2>2, <2>3
<1>6. \A i \in DOMAIN wrote' : WriteStands(wrote'[i])
  BY <1>4, <1>5 DEF DoorsInv, AccessTyped
<1>7. /\ request' \in [Requests -> RequestRecords]
      /\ \A p \in Requests : request'[p].pc # "idle" => Stands(request[p])'
  <2>1. Moved(q, "record", s, whom)
    BY <1>1 DEF Wrote
  <2>2. op \notin {"create", "demote", "deactivate"} => s \in {"draft", "published"}
    BY <1>1 DEF Here
  <2> QED
    BY <1>1, <1>2, <2>1, <2>2, MovedKeeps
<1>8. AccessTyped'
  <2>1. wrote' \in Seq(WriteRecords)
    BY <1>4 DEF DoorsInv, AccessTyped
  <2>2. DOMAIN answer' = Requests
    BY DEF DoorsInv, AccessTyped
  <2> QED
    BY <1>7, <2>1, <2>2 DEF AccessTyped
<1>9. \A p \in Requests : AnswerStands(answer[p])'
  BY DEF DoorsInv, AnswerStands, ShownRightly, WordedRightly
<1> QED
  BY <1>6, <1>7, <1>8, <1>9 DEF DoorsInv, WriteStands

\* The sessions of an account that was deactivated are ended, or are left open.
LEMMA RevokeKeeps ==
    ASSUME DoorsInv, NEW q \in Requests, Revoke(q) PROVE DoorsInv'
<1>1. PICK y, op, saw : y = request[q] /\ op = Op(q) /\ saw = request[q].saw
  OBVIOUS
<1>2. y.pc = "revoke" /\ UNCHANGED <<role, item, wrote>>
  BY <1>1 DEF Revoke
<1>3. /\ y \in RequestRecords /\ Stands(y) /\ op = Head(y.todo)
  BY <1>1, <1>2, UnderWay
<1>4. /\ op = "deactivate" /\ op \in Writes /\ saw \in ItemStatuses /\ y.door # "plugin"
  BY <1>1, <1>2, <1>3 DEF Stands, WroteStands, ScopeStands
<1>5. CASE live' = live /\ Answered(q, "failed", saw)
  <2>1. AnswerStands(AnswerTo(y, "failed", saw))
    BY <1>2, <1>3, FailedStands
  <2> QED
    BY <1>1, <1>2, <1>4, <1>5, <2>1, AnswerKeeps
<1>6. CASE /\ live' = live \ {y.whom} /\ Moved(q, "revoked", saw, Nobody)
           /\ answer' = answer
  <2>1. role' \in [Users -> Roles] /\ live' \subseteq Users
    BY <1>2, <1>6 DEF DoorsInv, AccessTyped
  <2>2. /\ request' \in [Requests -> RequestRecords]
        /\ \A p \in Requests : request'[p].pc # "idle" => Stands(request[p])'
    BY <1>1, <1>2, <1>4, <1>6, <2>1, MovedKeeps
  <2>3. AccessTyped'
    BY <1>2, <1>6, <2>1, <2>2 DEF DoorsInv, AccessTyped
  <2>4. \A p \in Requests : AnswerStands(answer[p])'
    BY <1>6 DEF DoorsInv, AnswerStands, ShownRightly, WordedRightly
  <2>5. \A i \in DOMAIN wrote' : WriteStands(wrote'[i])
    BY <1>2 DEF DoorsInv
  <2> QED
    BY <2>2, <2>3, <2>4, <2>5 DEF DoorsInv, WriteStands
<1> QED
  BY <1>1, <1>5, <1>6 DEF Revoke

\* The writes on the item.
LEMMA ChangeKeeps ==
    ASSUME DoorsInv, NEW q \in Requests, NEW op \in Writes, NEW guard, NEW new,
           Change(q, op, guard, new),
           guard => new \in [status : ItemStatuses, snapshots : Seq(ItemStatuses)],
           guard /\ op # "create" => Here, op \notin {"demote", "deactivate"},
           {item.status, new.status} = {"draft", "published"} => Required[op] = "content:publish",
           new.snapshots # item.snapshots => Required[op] = "content:write"
    PROVE DoorsInv'
<1>1. /\ request[q].pc = "domain" /\ Op(q) = op /\ Allows(request[q].who, Required[op]) /\ guard
      /\ item' = new /\ UNCHANGED <<role, live, answer>>
      /\ Wrote(q, item.status, new.status, Nobody)
  BY DEF Change, Reaches
<1>2. PICK from, to : from = item.status /\ to = new.status
  OBVIOUS
<1>3. from \in Marks /\ to \in Marks
  BY <1>1, <1>2 DEF DoorsInv, AccessTyped, Marks
<1>4. role' \in [Users -> Roles] /\ live' \subseteq Users
  BY <1>1 DEF DoorsInv, AccessTyped
<1> QED
  BY <1>1, <1>2, <1>3, <1>4, WroteKeeps

LEMMA WritesKeep ==
    ASSUME DoorsInv, NEW q \in Requests,
           Create(q) \/ Update(q) \/ Delete(q) \/ SetStatus(q) \/ Rollback(q)
    PROVE DoorsInv'
<1>1. PICK s, old : s = item.status /\ old = item.snapshots
  OBVIOUS
<1>2. /\ item = [status |-> s, snapshots |-> old] /\ s \in ItemStatuses
      /\ old \in Seq(ItemStatuses)
  BY <1>1 DEF DoorsInv, AccessTyped
<1>3. Append(old, s) \in Seq(ItemStatuses)
  BY <1>2
<1>4. [item EXCEPT !.snapshots = Append(item.snapshots, item.status)]
         = [status |-> s, snapshots |-> Append(old, s)]
  <2>1. PICK k : k = Append(old, s)
    OBVIOUS
  <2>2. [item EXCEPT !.snapshots = k] = [status |-> s, snapshots |-> k]
    BY <1>2
  <2> QED
    BY <1>1, <2>1, <2>2
<1>5. CASE Create(q)
  <2>1. PICK new : new = [status |-> "draft", snapshots |-> <<"draft">>]
    OBVIOUS
  <2>2. Change(q, "create", item.status = "none", new)
    BY <1>5, <2>1 DEF Create
  <2>3. new \in [status : ItemStatuses, snapshots : Seq(ItemStatuses)]
    BY <2>1 DEF ItemStatuses
  <2>4. Required["create"] = "content:write" /\ "create" \in Writes
    BY Operations DEF Required
  <2>5. item.status = "none"
    BY <2>2 DEF Change
  <2>6. {item.status, new.status} # {"draft", "published"}
    BY <2>5
  <2> QED
    BY <2>2, <2>3, <2>4, <2>6, ChangeKeeps
<1>6. CASE Update(q) \/ Rollback(q)
  <2>0. PICK new : new = [status |-> s, snapshots |-> Append(old, s)]
    OBVIOUS
  <2>1. PICK op \in {"update", "rollback"} : Change(q, op, Here, new)
    <3>1. CASE Update(q)
      BY <1>4, <2>0, <3>1 DEF Update
    <3>2. CASE Rollback(q)
      BY <1>4, <2>0, <3>2 DEF Rollback, Restored
    <3> QED
      BY <1>6, <3>1, <3>2
  <2>2. new \in [status : ItemStatuses, snapshots : Seq(ItemStatuses)] /\ new.status = s
    BY <1>2, <1>3, <2>0
  <2>3. Required[op] = "content:write" /\ op \in Writes
    BY <2>1, Operations DEF Required
  <2>4. {item.status, new.status} # {"draft", "published"}
    BY <1>1, <2>2
  <2> QED
    BY <2>1, <2>2, <2>3, <2>4, ChangeKeeps
<1>7. CASE Delete(q)
  <2>1. PICK new : new = [status |-> "gone", snapshots |-> <<>>]
    OBVIOUS
  <2>2. Change(q, "delete", Here, new)
    BY <1>7, <2>1 DEF Delete
  <2>3. new \in [status : ItemStatuses, snapshots : Seq(ItemStatuses)] /\ new.status = "gone"
    BY <2>1 DEF ItemStatuses
  <2>4. Required["delete"] = "content:write" /\ "delete" \in Writes
    BY Operations DEF Required
  <2>5. {item.status, new.status} # {"draft", "published"}
    BY <2>3
  <2> QED
    BY <2>2, <2>3, <2>4, <2>5, ChangeKeeps
<1>8. CASE SetStatus(q)
  <2>1. PICK op \in {"publish", "unpublish"}, to \in {"draft", "published"} :
            Change(q, op, Here, [status |-> to, snapshots |-> old])
    <3>1. /\ [item EXCEPT !.status = "published"] = [status |-> "published", snapshots |-> old]
          /\ [item EXCEPT !.status = "draft"] = [status |-> "draft", snapshots |-> old]
      BY <1>2
    <3> QED
      BY <1>8, <3>1 DEF SetStatus
  <2>0. PICK new : new = [status |-> to, snapshots |-> old]
    OBVIOUS
  <2>2. /\ new \in [status : ItemStatuses, snapshots : Seq(ItemStatuses)]
        /\ new.snapshots = item.snapshots
    BY <1>1, <1>2, <2>0 DEF ItemStatuses
  <2>3. Required[op] = "content:publish" /\ op \in Writes
    BY <2>1, Operations DEF Required
  <2> QED
    BY <2>0, <2>1, <2>2, <2>3, ChangeKeeps
<1> QED
  BY <1>5, <1>6, <1>7, <1>8

\* The writes on the accounts.
LEMMA AccountsKeep ==
    ASSUME DoorsInv, NEW q \in Requests, UpdateRole(q) \/ Deactivate(q) PROVE DoorsInv'
<1>0. item \in [status : ItemStatuses, snapshots : Seq(ItemStatuses)]
      /\ role \in [Users -> Roles] /\ live \subseteq Users
  BY DEF DoorsInv, AccessTyped
<1>1. CASE UpdateRole(q)
  <2>1. PICK u \in Users, r \in Roles :
            /\ request[q].pc = "domain" /\ Op(q) = "demote"
            /\ Allows(request[q].who, "users:manage")
            /\ role' = [role EXCEPT ![u] = r] /\ UNCHANGED <<live, item, answer>>
            /\ Wrote(q, role[u], r, Nobody)
    BY <1>1 DEF UpdateRole, Reaches
  <2>2. PICK from \in Roles : from = role[u]
    BY <1>0
  <2>3. from \in Marks /\ r \in Marks /\ role' \in [Users -> Roles]
    BY <1>0, <2>1 DEF Marks
  <2>5. {from, r} # {"draft", "published"}
    BY DEF Roles
  <2>4. Required["demote"] = "users:manage" /\ "demote" \in Writes
    BY Operations DEF Required
  <2> QED
    BY <1>0, <2>1, <2>2, <2>3, <2>4, <2>5, WroteKeeps
<1>2. CASE Deactivate(q)
  <2>1. PICK u \in Users :
            /\ request[q].pc = "domain" /\ Op(q) = "deactivate"
            /\ Allows(request[q].who, "users:manage")
            /\ UNCHANGED <<role, live, item, answer>>
            /\ Wrote(q, "active", "inactive", u)
    BY <1>2 DEF Deactivate, Reaches
  <2>2. /\ "active" \in Marks /\ "inactive" \in Marks
        /\ {"active", "inactive"} # {"draft", "published"}
    BY DEF Marks
  <2>3. Required["deactivate"] = "users:manage" /\ "deactivate" \in Writes
    BY Operations DEF Required
  <2>4. role' \in [Users -> Roles] /\ live' \subseteq Users
    BY <1>0, <2>1
  <2> QED
    BY <1>0, <2>1, <2>2, <2>3, <2>4, WroteKeeps
<1> QED
  BY <1>1, <1>2

\* Nobody is served at first.
LEMMA InitDoors == AccessInit => DoorsInv
<1> SUFFICES ASSUME AccessInit PROVE DoorsInv
  OBVIOUS
<1>1. role \in [Users -> Roles] /\ live \subseteq Users
  BY AccessAssumption DEF AccessInit
<1>2. item \in [status : ItemStatuses, snapshots : Seq(ItemStatuses)]
  <2>1. /\ "none" \in ItemStatuses /\ "draft" \in ItemStatuses /\ "published" \in ItemStatuses
    BY DEF ItemStatuses
  <2>2. <<>> \in Seq(ItemStatuses) /\ <<"draft", "published">> \in Seq(ItemStatuses)
    BY <2>1
  <2>3. \/ item = [status |-> "none", snapshots |-> <<>>]
        \/ item = [status |-> "draft", snapshots |-> <<"draft", "published">>]
    BY DEF AccessInit
  <2>4. CASE item = [status |-> "none", snapshots |-> <<>>]
    BY <2>1, <2>2, <2>4
  <2>5. CASE item = [status |-> "draft", snapshots |-> <<"draft", "published">>]
    BY <2>1, <2>2, <2>5
  <2> QED
    BY <2>3, <2>4, <2>5
<1>3. Waiting \in RequestRecords /\ Waiting.pc = "idle"
  BY DEF Waiting, RequestRecords, Standings, NoRole
<1>4. /\ request \in [Requests -> RequestRecords] /\ DOMAIN answer = Requests
      /\ wrote \in Seq(WriteRecords) /\ DOMAIN wrote = {}
      /\ \A q \in Requests : request[q].pc = "idle"
  BY <1>3 DEF AccessInit
<1>5. \A q \in Requests : AnswerStands(answer[q])
  BY NoAnswerStands DEF AccessInit
<1> QED
  BY <1>1, <1>2, <1>4, <1>5 DEF DoorsInv, AccessTyped

\* Every step of a request keeps the invariant.
LEMMA NextDoors == DoorsInv /\ [AccessNext]_accessVars => DoorsInv'
<1> SUFFICES ASSUME DoorsInv, [AccessNext]_accessVars PROVE DoorsInv'
  OBVIOUS
<1>1. CASE UNCHANGED accessVars
  BY <1>1 DEF accessVars, DoorsInv, AccessTyped, Stands, ScopeStands, CallerStands,
              AnswerStands, ShownRightly, WordedRightly, WroteStands, WriteStands
<1>2. ASSUME NEW q \in Requests, Step(q) PROVE DoorsInv'
  BY <1>2, BeginsKeep, RestKeeps, GraphKeeps, PluginKeeps, DomainKeeps, PublicKeeps,
     WritesKeep, AccountsKeep, WrittenKeeps, RevokeKeeps DEF Step
<1> QED
  BY <1>1, <1>2 DEF AccessNext

\* permission.go, api.go Routes, Rollback: for any accounts, requests at a time,
\* scopes and documents, whatever was changed was asked for by somebody who held the
\* capability for it since the request began; a get shows a draft only to such, or to a
\* plugin with the scope; and no read, the public history with it, shows an item that is
\* not there.
THEOREM EffectsStoodFor == AccessSpec => []EffectsHaveStanding
<1>1. DoorsInv => EffectsHaveStanding
  BY DEF DoorsInv, EffectsHaveStanding, WriteStands, AnswerStands, ShownRightly
<1> QED
  BY <1>1, InitDoors, NextDoors, PTL DEF AccessSpec

\* api.go, internal/graphql's resolvers and errors.go, pkg/sdk/host.go: for any callers,
\* changes of role, scopes and documents, each door gives the domain's verdict in its own
\* words, but for REST's refusal of a mutation that does not mirror its cookie's token and
\* of a caller who lost the capability between the two look-ups.
THEOREM DoorsGiveOneAnswer == AccessSpec => []DoorsAgree
<1>1. DoorsInv => DoorsAgree
  BY DEF DoorsInv, DoorsAgree, AnswerStands, WordedRightly
<1> QED
  BY <1>1, InitDoors, NextDoors, PTL DEF AccessSpec

\* The trail.  What its last telling record tells is what the item is, unless the
\* record of the write that made it so is about to be added.

AuditRecords == [op : Writes \cup Reads, actor : Standings]

Telling(trail) == {i \in DOMAIN trail : Leaves(trail[i].op) # "unchanged"}
Tells(trail, s) ==
    IF Telling(trail) = {} THEN s \in {"none", "draft"}
    ELSE \E i \in Telling(trail) : /\ \A j \in Telling(trail) : j <= i
                                   /\ s = Leaves(trail[i].op)

TrailInv ==
    /\ audit \in Seq(AuditRecords)
    /\ ~disordered =>
          /\ \A p, q \in Requests : request[p].pc = "record" /\ request[q].pc = "record" => p = q
          /\ \A q \in Requests :
                request[q].pc = "record" =>
                   IF Leaves(Op(q)) = "unchanged" THEN Tells(audit, item.status)
                   ELSE item.status = Leaves(Op(q))
          /\ (\A q \in Requests : request[q].pc # "record") => Tells(audit, item.status)

\* One more record: one that tells nothing changes nothing, one that tells is the last.
LEMMA TellsNext ==
    ASSUME NEW trail \in Seq(AuditRecords), NEW a \in AuditRecords, NEW s
    PROVE /\ Leaves(a.op) = "unchanged" /\ Tells(trail, s) => Tells(Append(trail, a), s)
          /\ Leaves(a.op) # "unchanged" => Tells(Append(trail, a), Leaves(a.op))
<1>1. PICK n, next : n = Len(trail) + 1 /\ next = Append(trail, a)
  OBVIOUS
<1>2. /\ n \in Nat \ {0} /\ DOMAIN trail = 1 .. (n - 1) /\ DOMAIN next = 1 .. n /\ next[n] = a
      /\ \A i \in DOMAIN trail : next[i] = trail[i]
  BY <1>1
<1>3. ASSUME Leaves(a.op) = "unchanged", Tells(trail, s) PROVE Tells(next, s)
  <2>1. Telling(next) = Telling(trail)
    BY <1>2, <1>3 DEF Telling
  <2>2. \A i \in Telling(trail) : next[i] = trail[i]
    BY <1>2 DEF Telling
  <2> QED
    BY <1>3, <2>1, <2>2 DEF Tells
<1>4. ASSUME Leaves(a.op) # "unchanged" PROVE Tells(next, Leaves(a.op))
  <2>1. n \in Telling(next) /\ \A j \in Telling(next) : j <= n
    BY <1>2, <1>4 DEF Telling
  <2> QED
    BY <1>2, <2>1 DEF Tells
<1> QED
  BY <1>1, <1>3, <1>4

\* A step of request q that neither writes nor records.
LEMMA TrailKeeps ==
    ASSUME TrailInv, NEW q \in Requests, request[q].pc # "record", request'[q].pc # "record",
           \A p \in Requests \ {q} : /\ request'[p].pc = request[p].pc
                                    /\ request'[p].todo = request[p].todo,
           UNCHANGED <<item, audit, disordered>>
    PROVE TrailInv'
<1>1. \A p \in Requests : request'[p].pc = "record" => p # q /\ request[p].pc = "record"
  OBVIOUS
<1>2. \A p \in Requests : request[p].pc = "record" => request'[p].pc = "record"
  OBVIOUS
<1>3. \A p \in Requests : p # q => Op(p)' = Op(p)
  BY DEF Op
<1> QED
  BY <1>1, <1>2, <1>3 DEF TrailInv

LEMMA TrailApart ==
    ASSUME DoorsInv, TrailInv, NEW q \in Requests, NEW x, request' = [request EXCEPT ![q] = x],
           request[q].pc # "record", x.pc # "record", UNCHANGED <<item, audit, disordered>>
    PROVE TrailInv'
<1>1. \A p \in Requests : IF p = q THEN request'[p] = x ELSE request'[p] = request[p]
  BY DEF DoorsInv, AccessTyped
<1>2. /\ request'[q].pc # "record"
      /\ \A p \in Requests \ {q} : /\ request'[p].pc = request[p].pc
                                   /\ request'[p].todo = request[p].todo
  BY <1>1
<1> QED
  BY <1>2, TrailKeeps

\* Nobody but request q moves.
LEMMA MovedApart ==
    ASSUME DoorsInv, NEW q \in Requests, NEW pc, NEW saw, NEW whom, Moved(q, pc, saw, whom),
           NEW p \in Requests
    PROVE /\ request'[p].pc = IF p = q THEN pc ELSE request[p].pc
          /\ request'[p].todo = request[p].todo
<1>1. PICK x, st : /\ x = request[p]
                   /\ st = IF request[p].pc = "idle" THEN {}
                           ELSE x.stood \cup {RoleOf(x.cred, live', role')}
  OBVIOUS
<1>2. request'[p] = [x EXCEPT !.pc = IF p = q THEN pc ELSE x.pc,
                              !.saw = IF p = q THEN saw ELSE x.saw,
                              !.whom = IF p = q THEN whom ELSE x.whom, !.stood = st]
  BY <1>1 DEF Moved
<1>3. x \in RequestRecords
  BY <1>1 DEF DoorsInv, AccessTyped
<1> QED
  BY <1>1, <1>2, <1>3 DEF RequestRecords

LEMMA AnsweredApart ==
    ASSUME DoorsInv, TrailInv, NEW q \in Requests, NEW outcome, NEW saw,
           Answered(q, outcome, saw), request[q].pc # "record",
           UNCHANGED <<item, audit, disordered>>
    PROVE TrailInv'
<1>1. PICK x : x = GoesOn(q)
  OBVIOUS
<1>2. request' = [request EXCEPT ![q] = x]
  BY <1>1 DEF Answered
<1>3. x.pc # "record"
  <2>1. CASE Tail(request[q].todo) = <<>>
    BY <1>1, <2>1 DEF GoesOn, Waiting
  <2>2. CASE Tail(request[q].todo) # <<>>
    BY <1>1, <2>2 DEF GoesOn, DoorsInv, AccessTyped, RequestRecords
  <2> QED
    BY <2>1, <2>2
<1> QED
  BY <1>2, <1>3, TrailApart

\* A write: nobody else's record is outstanding, or the trail is out of order.
LEMMA WroteTrail ==
    ASSUME DoorsInv, TrailInv, NEW q \in Requests, NEW from, NEW to, NEW whom,
           Wrote(q, from, to, whom),
           request[q].pc = "domain", audit' = audit,
           IF Leaves(Op(q)) = "unchanged" THEN item'.status = item.status
           ELSE item'.status = Leaves(Op(q))
    PROVE TrailInv'
<1>1. ASSUME NEW p \in Requests
      PROVE /\ request'[p].pc = IF p = q THEN "record" ELSE request[p].pc
            /\ request'[p].todo = request[p].todo
  BY MovedApart DEF Wrote
<1>2. disordered' = (disordered \/ \E p \in Requests : request[p].pc = "record")
  BY DEF Wrote
<1>3. SUFFICES ASSUME ~ disordered' 
               PROVE /\ \A p, r \in Requests :
                           request'[p].pc = "record" /\ request'[r].pc = "record" => p = r
                     /\ \A p \in Requests :
                           request'[p].pc = "record" =>
                              IF Leaves(Op(p)') = "unchanged" THEN Tells(audit, item'.status)
                              ELSE item'.status = Leaves(Op(p)')
                     /\ request'[q].pc = "record"
  BY DEF TrailInv, Tells, Telling
<1>4. ~ disordered /\ \A p \in Requests : request[p].pc # "record"
  BY <1>2, <1>3
<1>5. Tells(audit, item.status)
  BY <1>4 DEF TrailInv
<1>6. \A p \in Requests : request'[p].pc = "record" <=> p = q
  BY <1>1, <1>4
<1>7. Op(q)' = Op(q)
  BY <1>1 DEF Op
<1> QED
  BY <1>5, <1>6, <1>7

\* The record of a write is added, or lost.
LEMMA RecordTrail ==
    ASSUME DoorsInv, TrailInv, NEW q \in Requests, Record(q) PROVE TrailInv'
<1>1. PICK x, op, a, s : /\ x = IF Revoking(q) THEN [request[q] EXCEPT !.pc = "revoke"]
                                ELSE GoesOn(q)
                         /\ op = Op(q) /\ s = item.status
                         /\ a = [op |-> Op(q), actor |-> request[q].who]
  OBVIOUS
<1>2. /\ request' = [request EXCEPT ![q] = x] /\ request[q].pc = "record" /\ item' = item
      /\ \/ audit' = Append(audit, a) /\ disordered' = disordered
         \/ audit' = audit /\ disordered'
  BY <1>1 DEF Record, Logged, Answered
<1>3. a \in AuditRecords
  BY <1>1, <1>2, UnderWay DEF AuditRecords
<1>4. audit \in Seq(AuditRecords) /\ audit' \in Seq(AuditRecords)
  BY <1>2, <1>3 DEF TrailInv
<1>5. x.pc # "record"
  <2>1. request[q] \in RequestRecords
    BY DEF DoorsInv, AccessTyped
  <2>2. CASE Revoking(q)
    BY <1>1, <2>1, <2>2 DEF RequestRecords
  <2>3. CASE ~ Revoking(q) /\ Tail(request[q].todo) = <<>>
    BY <1>1, <2>3 DEF GoesOn, Waiting
  <2>4. CASE ~ Revoking(q) /\ Tail(request[q].todo) # <<>>
    BY <1>1, <2>1, <2>4 DEF GoesOn, RequestRecords
  <2> QED
    BY <2>2, <2>3, <2>4
<1>6. CASE disordered'
  BY <1>4, <1>6 DEF TrailInv
<1>7. CASE ~ disordered'
  <2>1. audit' = Append(audit, a) /\ ~ disordered
    BY <1>2, <1>7
  <2>2. \A p \in Requests : request'[p].pc # "record"
    <3>1. \A p \in Requests : IF p = q THEN request'[p] = x ELSE request'[p] = request[p]
      BY <1>2 DEF DoorsInv, AccessTyped
    <3>2. \A p \in Requests : request[p].pc = "record" => p = q
      BY <1>2, <2>1 DEF TrailInv
    <3> QED
      BY <1>5, <3>1, <3>2
  <2>3. IF Leaves(op) = "unchanged" THEN Tells(audit, s) ELSE s = Leaves(op)
    BY <1>1, <1>2, <2>1 DEF TrailInv
  <2>4. Tells(Append(audit, a), s)
    <3>1. a.op = op
      BY <1>1
    <3> QED
      BY <1>3, <1>4, <2>3, <3>1, TellsNext
  <2>5. Tells(audit, item.status)'
    BY <1>1, <1>2, <2>1, <2>4
  <2> QED
    BY <1>4, <2>2, <2>5 DEF TrailInv
<1> QED
  BY <1>6, <1>7

\* The writes leave the item as their records will say.
LEMMA WritesTrail ==
    ASSUME DoorsInv, TrailInv, NEW q \in Requests,
           \/ Create(q) \/ Update(q) \/ Delete(q) \/ SetStatus(q) \/ Rollback(q)
           \/ UpdateRole(q) \/ Deactivate(q)
    PROVE TrailInv'
<1>0. item = [status |-> item.status, snapshots |-> item.snapshots]
  BY DEF DoorsInv, AccessTyped
<1>1. ASSUME NEW op, NEW guard, NEW new, Change(q, op, guard, new),
             IF Leaves(op) = "unchanged" THEN new.status = item.status
             ELSE new.status = Leaves(op)
      PROVE TrailInv'
  <2>1. /\ request[q].pc = "domain" /\ Op(q) = op /\ item' = new /\ audit' = audit
        /\ Wrote(q, item.status, new.status, Nobody)
    BY <1>1 DEF Change, Reaches
  <2> QED
    BY <1>1, <2>1, WroteTrail
<1>2. CASE Create(q)
  BY <1>1, <1>2 DEF Create, Leaves
<1>3. CASE Update(q)
  <2>1. [item EXCEPT !.snapshots = Append(@, item.status)].status = item.status
    BY <1>0
  <2> QED
    BY <1>1, <1>3, <2>1 DEF Update, Leaves
<1>4. CASE Delete(q)
  BY <1>1, <1>4 DEF Delete, Leaves
<1>5. CASE SetStatus(q)
  <2>1. /\ [item EXCEPT !.status = "published"].status = "published"
        /\ [item EXCEPT !.status = "draft"].status = "draft"
    BY <1>0
  <2> QED
    BY <1>1, <1>5, <2>1 DEF SetStatus, Leaves
<1>6. CASE Rollback(q)
  <2>1. PICK v : Change(q, "rollback", Here, Restored(v))
    BY <1>6 DEF Rollback
  <2>2. Restored(v).status = item.status
    BY <1>0 DEF Restored
  <2> QED
    BY <1>1, <2>1, <2>2 DEF Leaves
<1>7. CASE UpdateRole(q) \/ Deactivate(q)
  <2>1. PICK from, to, whom : Wrote(q, from, to, whom)
    BY <1>7 DEF UpdateRole, Deactivate
  <2>2. /\ request[q].pc = "domain" /\ Op(q) \in {"demote", "deactivate"}
        /\ item' = item /\ audit' = audit
    BY <1>7 DEF UpdateRole, Deactivate, Reaches
  <2>3. Leaves(Op(q)) = "unchanged"
    BY <2>2 DEF Leaves
  <2> QED
    BY <2>1, <2>2, <2>3, WroteTrail
<1> QED
  BY <1>2, <1>3, <1>4, <1>5, <1>6, <1>7

LEMMA InitTrail == AccessInit => TrailInv
<1> SUFFICES ASSUME AccessInit PROVE TrailInv
  OBVIOUS
<1>1. audit = <<>> /\ item.status \in {"none", "draft"}
  BY DEF AccessInit
<1>2. Telling(audit) = {}
  BY <1>1 DEF Telling
<1>3. \A q \in Requests : request[q].pc # "record"
  BY DEF AccessInit, Waiting
<1> QED
  BY <1>1, <1>2, <1>3 DEF TrailInv, Tells

LEMMA NextTrail == DoorsInv /\ TrailInv /\ [AccessNext]_accessVars => TrailInv'
<1> SUFFICES ASSUME DoorsInv, TrailInv, [AccessNext]_accessVars PROVE TrailInv'
  OBVIOUS
<1>1. CASE UNCHANGED accessVars
  BY <1>1 DEF accessVars, TrailInv, Tells, Telling, Op
<1>2. ASSUME NEW q \in Requests, Step(q) PROVE TrailInv'
  <2>1. ASSUME NEW door, NEW todo, NEW cred, Begin(q, door, todo, cred) PROVE TrailInv'
    <3>1. PICK x : x = [pc |-> "gate", door |-> door, todo |-> todo, cred |-> cred,
                        who |-> NoRole, whom |-> Nobody,
                        stood |-> {RoleOf(cred, live, role)}, saw |-> "gate"]
      OBVIOUS
    <3>2. /\ request' = [request EXCEPT ![q] = x] /\ request[q].pc # "record"
          /\ UNCHANGED <<item, audit, disordered>> /\ x.pc # "record"
      BY <2>1, <3>1 DEF Begin
    <3> QED
      BY <3>2, TrailApart
  <2>2. CASE BeginRest(q) \/ BeginGraph(q) \/ BeginPlugin(q)
    BY <2>1, <2>2 DEF BeginRest, BeginGraph, BeginPlugin
  <2>3. ASSUME NEW x, request' = [request EXCEPT ![q] = x], request[q].pc # "record",
               x.pc # "record", UNCHANGED <<item, audit, disordered>>
        PROVE TrailInv'
    BY <2>3, TrailApart
  <2>4. request[q] \in RequestRecords /\ DOMAIN request = Requests
    BY DEF DoorsInv, AccessTyped
  <2>5. CASE RestUnmirrored(q)
    BY <2>5, AnsweredApart DEF RestUnmirrored
  <2>6. CASE RestGate(q)
    <3>1. CASE Gate(Lookup(q), Op(q)) = "domain"
      <4>1. PICK x : x = [request[q] EXCEPT !.pc = "principal"]
        OBVIOUS
      <4>2. x.pc = "principal"
        BY <2>4, <4>1 DEF RequestRecords
      <4> QED
        BY <2>3, <2>6, <3>1, <4>1, <4>2 DEF RestGate
    <3>2. CASE Gate(Lookup(q), Op(q)) # "domain"
      BY <2>6, <3>2, AnsweredApart DEF RestGate
    <3> QED
      BY <3>1, <3>2
  <2>7. CASE RestView(q)
    <3>1. PICK x : x = [request[q] EXCEPT
                           !.pc = IF View(Lookup(q), Op(q)) = "domain" THEN "principal" ELSE "public"]
      OBVIOUS
    <3>2. x.pc # "record"
      BY <2>4, <3>1 DEF RequestRecords
    <3> QED
      BY <2>3, <2>7, <3>1, <3>2 DEF RestView
  <2>8. CASE RestPrincipal(q)
    <3>1. PICK x : x = [request[q] EXCEPT !.pc = "domain", !.who = Lookup(q)]
      OBVIOUS
    <3>2. x.pc # "record" /\ request' = [request EXCEPT ![q] = x]
      BY <2>4, <2>8, <3>1 DEF RequestRecords, RestPrincipal
    <3> QED
      BY <2>3, <2>8, <3>2 DEF RestPrincipal
  <2>9. CASE GraphPrincipal(q)
    <3>1. PICK x : x = [request[q] EXCEPT
                           !.who = Lookup(q),
                           !.pc = IF FieldStart(Lookup(q), Op(q)) \in {"domain", "public"}
                                  THEN FieldStart(Lookup(q), Op(q)) ELSE "refuse"]
      OBVIOUS
    <3>2. x.pc # "record" /\ request' = [request EXCEPT ![q] = x]
      BY <2>4, <2>9, <3>1 DEF RequestRecords, GraphPrincipal
    <3> QED
      BY <2>3, <2>9, <3>2 DEF GraphPrincipal
  <2>10. CASE GraphRefuse(q)
    BY <2>10, AnsweredApart DEF GraphRefuse
  <2>11. CASE PluginGate(q)
    <3>1. CASE ScopeOf[Op(q)] \in Scopes
      <4>1. PICK x : x = [request[q] EXCEPT !.pc = "domain", !.who = "admin"]
        OBVIOUS
      <4>2. x.pc # "record" /\ request' = [request EXCEPT ![q] = x]
        BY <2>4, <2>11, <3>1, <4>1 DEF RequestRecords, PluginGate
      <4> QED
        BY <2>3, <2>11, <4>2 DEF PluginGate
    <3>2. CASE ScopeOf[Op(q)] \notin Scopes
      BY <2>11, <3>2, AnsweredApart DEF PluginGate
    <3> QED
      BY <3>1, <3>2
  <2>12. CASE Denied(q) \/ Missing(q) \/ GetItem(q) \/ GetPublic(q) \/ Revoked(q)
    BY <2>12, AnsweredApart DEF Denied, Missing, GetItem, GetPublic, Reaches, Revoked
  <2>13. CASE Revoke(q)
    <3>1. request[q].pc = "revoke" /\ UNCHANGED <<item, audit, disordered>>
      BY <2>13 DEF Revoke
    <3>2. CASE Answered(q, "failed", request[q].saw)
      BY <3>1, <3>2, AnsweredApart
    <3>3. CASE Moved(q, "revoked", request[q].saw, Nobody)
      <4>1. PICK saw, whom : Moved(q, "revoked", saw, whom)
        BY <3>3
      <4> QED
        BY <3>1, <4>1, MovedApart, TrailKeeps
    <3> QED
      BY <2>13, <3>2, <3>3 DEF Revoke
  <2> QED
    BY <1>2, <2>2, <2>5, <2>6, <2>7, <2>8, <2>9, <2>10, <2>11, <2>12, <2>13, WritesTrail,
       RecordTrail
    DEF Step
<1> QED
  BY <1>1, <1>2 DEF AccessNext

\* content.go, auditItem: for any requests at a time and any documents, while no
\* record was lost or overtaken the trail replays to what the item is.
THEOREM TrailTellsStatus == AccessSpec => []TrailReplays
<1>1. TrailInv => TrailReplays
  BY DEF TrailInv, Tells, Telling, TrailReplays
<1> QED
  BY <1>1, InitDoors, NextDoors, InitTrail, NextTrail, PTL DEF AccessSpec

=============================================================================
