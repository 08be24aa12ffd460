---------------------------- MODULE OAuthStates ----------------------------
(***************************************************************************)
(* The state a login through a provider carries there and back:            *)
(* OAuthManager of internal/identity/oauth.go behind handleOAuthStart and  *)
(* handleOAuthCallback of internal/api/oauth.go.  What a callback does     *)
(* once its state is accepted is the subject of OAuthLogin.                *)
(*                                                                         *)
(* The provider sends a browser back with the state it came with.  That    *)
(* redirect may be opened again, late, or in another browser.  One         *)
(* provider is configured, as in the daemon.                               *)
(***************************************************************************)
EXTENDS Clock, Integers, FiniteSets

CONSTANTS Browsers,
          StateTTL,   \* oauthStateTTL
          NoBrowser,
          MaxStates   \* bound of the model: logins started

ASSUME StatesAssumption ==
    StateTTL \in Nat \ {0} /\ MaxStates \in Nat /\ NoBrowser \notin Browsers

VARIABLES states,      \* OAuthManager.states: the tokens kept, with their expiry
          cookie,      \* browser -> the token in its state cookie, 0 without one
          exchanging,  \* callbacks whose token was accepted, not answered yet
          started,     \* history: who asked for each token, and when
          admitted     \* history: the callbacks accepted, with their time

stateVars == <<states, cookie, exchanging, started, admitted>>

Tokens == 1 .. MaxStates
NotStarted == [by |-> NoBrowser, at |-> 0]

StatesInit ==
    /\ states = {} /\ exchanging = {}
    /\ cookie = [b \in Browsers |-> 0]
    /\ started = [t \in Tokens |-> NotStarted]
    /\ admitted = [t \in Tokens |-> {}]

\* handleOAuthStart, AuthorizeURL: a fresh token, kept and given as a cookie
\* that replaces the one of an earlier start.
StartLogin(b) ==
    \E t \in Tokens :
        /\ {u \in Tokens : started[u] # NotStarted} = 1 .. (t - 1)
        /\ states' = states \cup {[token |-> t, expires |-> clock + StateTTL]}
        /\ cookie' = [cookie EXCEPT ![b] = t]
        /\ started' = [started EXCEPT ![t] = [by |-> b, at |-> clock]]
        /\ UNCHANGED <<exchanging, admitted, clock>>

Kept(t) == {s \in states : s.token = t}

\* Faulty ConsumeState: the token stays until it expires.
ConsumeStateLater(t) == states' = {s \in states : s.token # t \/ clock < s.expires}

\* consumeState: the token goes, whatever becomes of the callback.
ConsumeState(t) == states' = states \ Kept(t)

\* The redirect's token is the cookie's, and still kept: the callback asks the
\* provider who it is if the token has not expired either.
OpenRedirect(b, t) ==
    /\ cookie[b] = t /\ Kept(t) # {}
    /\ ConsumeState(t)
    /\ IF \E s \in Kept(t) : clock < s.expires
       THEN /\ exchanging' = exchanging \cup {[token |-> t, by |-> b]}
            /\ admitted' = [admitted EXCEPT ![t] =
                                @ \cup {[by |-> b, at |-> clock, nth |-> Cardinality(@)]}]
       ELSE UNCHANGED <<exchanging, admitted>>
    /\ UNCHANGED <<cookie, started, clock>>

\* The callback is answered.  A login that succeeded takes the cookie away,
\* that of a start made meanwhile included; one that failed has to start over.
AnswerCallback(x) ==
    /\ x \in exchanging
    /\ exchanging' = exchanging \ {x}
    /\ cookie' \in {cookie, [cookie EXCEPT ![x.by] = 0]}
    /\ UNCHANGED <<states, started, admitted, clock>>

StatesStep ==
    \/ \E b \in Browsers : StartLogin(b) \/ \E t \in Tokens : OpenRedirect(b, t)
    \/ \E x \in exchanging : AnswerCallback(x)

\* The states live in memory, the cookies do not.
StatesLost ==
    /\ states' = {} /\ exchanging' = {}
    /\ UNCHANGED <<cookie, started, admitted>>

-----------------------------------------------------------------------------
\* oauth.go:72-75 and consumeState: through reloads, late redirects, redirects
\* opened elsewhere, several tabs and restarts, a browser is only logged in by
\* a login it started itself, within the token's lifetime, and once.
CallbackWasStarted ==
    \A t \in Tokens :
        /\ \A a \in admitted[t] :
            /\ a.by = started[t].by
            /\ a.at < started[t].at + StateTTL
        /\ Cardinality(admitted[t]) <= 1
=============================================================================
