------------------------------ MODULE Accounts ------------------------------
(***************************************************************************)
(* Accounts, their second factor and their sessions: internal/identity     *)
(* (identity.go, mfa.go, sessions.go, users_manage.go, totp.go) behind the *)
(* handlers of internal/api (auth.go, mfa.go, users.go).                   *)
(*                                                                         *)
(* Every statement on the database is one action, and a request is the     *)
(* sequence of the statements its handler issues, none of them in a        *)
(* transaction; it may fail at any of them.  A login that is refused       *)
(* writes nothing here and is left out; the limiter that counts it is the  *)
(* subject of Limits.                                                      *)
(***************************************************************************)
EXTENDS Integers

CONSTANTS Users,        \* accounts, named by their address
          Subjects,     \* identities at the login provider
          Procs,        \* requests in progress at one time
          CodeCount,    \* recovery codes per enrolment (8 in the code)
          NoUser, NoSubject,
          MaxRequests,  \* bound of the model: requests
          MaxMinted,    \* bound of the model: secrets and code lists made
          MaxOpened     \* bound of the model: sessions and challenges made

ASSUME AccountsAssumption ==
    /\ NoUser \notin Users /\ NoSubject \notin Subjects
    /\ CodeCount \in Nat \ {0} /\ MaxRequests \in Nat
    /\ MaxMinted \in Nat \ {0} /\ MaxOpened \in Nat \ {0}

VARIABLES
    row,         \* row[u]: the account's row in users, or Absent
    sessions,    \* the sessions that are neither revoked nor expired
    challenges,  \* the MFA challenges that are neither resolved nor expired
    req,         \* req[p]: how far request p is and what it remembers
    minted,      \* secrets and code lists made so far
    opened,      \* sessions and challenges made so far
    started,     \* requests begun
    deacts,      \* history: deactivations of each account
    unrevoked,   \* history: accounts whose sessions a deactivation did not revoke
    accepted,    \* history: recovery codes that opened the way
    reused,      \* history: those that did so again
    raced,       \* history: accounts whose code list was written from a stale copy
    proved,      \* history: the secret whose code confirmed the enrolment
    disturbed    \* history: accounts whose secret was replaced after, or
                 \* while, an enrolment was confirmed

codeHistory == <<accepted, reused, raced>>
secretHistory == <<proved, disturbed>>
deactivations == <<deacts, unrevoked>>
history == <<deactivations, codeHistory, secretHistory>>
counters == <<minted, opened, started>>
accountVars == <<row, sessions, challenges, req, counters, history>>

Roles == {"admin", "viewer"}

\* What a user may type: <<n, 0>> is the present TOTP code of secret n, 0 being
\* the empty secret, and <<n, i>> the i-th recovery code of the n-th list.
Presented == (0 .. MaxMinted) \X (0 .. CodeCount)
TOTP(secret) == <<secret, 0>>
CodesOf(n) == {<<n, i>> : i \in 1 .. CodeCount}
Wrong == <<0, 1>>

Rows == [is : BOOLEAN, password : BOOLEAN, role : Roles, active : BOOLEAN,
         enabled : BOOLEAN, secret : 0 .. MaxMinted, codes : SUBSET Presented,
         link : Subjects \cup {NoSubject}]
Absent == [is |-> FALSE, password |-> FALSE, role |-> "viewer", active |-> FALSE,
           enabled |-> FALSE, secret |-> 0, codes |-> {}, link |-> NoSubject]
\* An account made with a password, or by a first login through the provider,
\* whose password nobody knows.
Created(role, password) ==
    [Absent EXCEPT !.is = TRUE, !.active = TRUE, !.role = role, !.password = password]

Vias == {"password", "mfa", "oauth"}
Sessions == [token : 1 .. MaxOpened, user : Users, via : Vias,
             subject : Subjects \cup {NoSubject}, stamp : Nat, born : Nat]
Challenges == [token : 1 .. MaxOpened, user : Users]

\* The operations of an administrator on an account, and everyone's on their own.
Managing == {"deactivate", "reactivate", "role"}
OwnSteps == {"enrol", "confirm", "disable"}
Steps == {"idle", "challenge", "open", "check", "consume", "resolve", "enable",
          "create", "principal", "revoke", "byOAuth", "byEmail", "link", "insert",
          "linkNew", "reread"} \cup OwnSteps \cup Managing

\* A request: its step, the account it is about, the session or challenge it
\* carries, how it logs in, what it goes on to do, and what it has read.
Requests == [at : Steps, user : Users \cup {NoUser}, token : 0 .. MaxOpened,
             via : Vias, subject : Subjects \cup {NoSubject}, next : Managing \cup {"idle"},
             secret : 0 .. MaxMinted, codes : SUBSET Presented,
             code : Presented, stamp : Nat]
Idle == [at |-> "idle", user |-> NoUser, token |-> 0, via |-> "password",
         subject |-> NoSubject, next |-> "idle", secret |-> 0, codes |-> {},
         code |-> Wrong, stamp |-> 0]

AccountsTypeOK ==
    /\ row \in [Users -> Rows]
    /\ sessions \subseteq Sessions /\ challenges \subseteq Challenges
    /\ req \in [Procs -> Requests]
    /\ minted \in 0 .. MaxMinted /\ opened \in 0 .. MaxOpened
    /\ started \in 0 .. MaxRequests
    /\ deacts \in [Users -> Nat] /\ unrevoked \subseteq Users
    /\ accepted \subseteq Users \X Presented /\ reused \subseteq accepted /\ raced \subseteq Users
    /\ proved \in [Users -> 0 .. MaxMinted] /\ disturbed \subseteq Users

\* A site in use: every account is there or is not, with or without a second
\* factor, and one administrator is logged in.
AccountsInit ==
    /\ row \in [Users -> {Absent, Created("viewer", TRUE), Created("admin", TRUE),
                          [Created("viewer", TRUE) EXCEPT !.enabled = TRUE, !.secret = 1,
                                                          !.codes = CodesOf(1)]}]
    /\ \E u \in Users :
        /\ row[u] = Created("admin", TRUE)
        /\ sessions = {[token |-> 1, user |-> u, via |-> "password",
                        subject |-> NoSubject, stamp |-> 0, born |-> 0]}
    /\ challenges = {} /\ req = [p \in Procs |-> Idle]
    /\ minted = 1 /\ opened = 1 /\ started = 0
    /\ deacts = [u \in Users |-> 0] /\ unrevoked = {}
    /\ accepted = {} /\ reused = {} /\ raced = {}
    /\ proved = [u \in Users |-> row[u].secret] /\ disturbed = {}

-----------------------------------------------------------------------------
Begin(p, r) ==
    /\ req[p].at = "idle" /\ started < MaxRequests
    /\ started' = started + 1
    /\ req' = [req EXCEPT ![p] = r]

Goto(p, step) == req' = [req EXCEPT ![p].at = step]
End(p) == req' = [req EXCEPT ![p] = Idle]
SetRow(u, r) == row' = [row EXCEPT ![u] = r]

\* A statement fails, or the client goes away: the request ends where it is.
Fail(p) ==
    /\ req[p].at # "idle"
    /\ End(p)
    /\ unrevoked' = IF req[p].at = "revoke" THEN unrevoked \cup {req[p].user} ELSE unrevoked
    /\ UNCHANGED <<row, sessions, challenges, counters, deacts, codeHistory, secretHistory>>

-----------------------------------------------------------------------------
\* Logging in with a password.

\* Authenticate: one read of the row, by whoever knows the password.  A second
\* factor, as read here, decides what follows.
Authenticate(p, u) ==
    /\ row[u].is /\ row[u].password /\ row[u].active
    /\ Begin(p, [Idle EXCEPT !.at = IF row[u].enabled THEN "challenge" ELSE "open",
                             !.user = u, !.stamp = deacts[u]])
    /\ UNCHANGED <<row, sessions, challenges, minted, opened, history>>

BeginMFAChallenge(p) ==
    /\ req[p].at = "challenge" /\ opened < MaxOpened
    /\ opened' = opened + 1
    /\ challenges' = challenges \cup {[token |-> opened', user |-> req[p].user]}
    /\ End(p)
    /\ UNCHANGED <<row, sessions, minted, started, history>>

\* Sessions.Create: nothing about the account is looked at again.
Create(p) ==
    /\ req[p].at = "open" /\ opened < MaxOpened
    /\ opened' = opened + 1
    /\ sessions' = sessions \cup
        {[token |-> opened', user |-> req[p].user, via |-> req[p].via,
          subject |-> req[p].subject, stamp |-> req[p].stamp,
          born |-> deacts[req[p].user]]}
    /\ End(p)
    /\ UNCHANGED <<row, challenges, minted, started, history>>

-----------------------------------------------------------------------------
\* The second factor.

\* ResolveMFAChallenge reads the challenge.
FindChallenge(p, ch) ==
    /\ ch \in challenges
    /\ Begin(p, [Idle EXCEPT !.at = "check", !.user = ch.user, !.token = ch.token,
                             !.via = "mfa"])
    /\ UNCHANGED <<row, sessions, challenges, minted, opened, history>>

\* VerifyMFA reads the account's second factor and tries the code, first as a
\* TOTP code, then as a recovery code.  The challenge survives a wrong one.
VerifyMFA(p, code) ==
    /\ req[p].at = "check"
    /\ LET r == row[req[p].user] IN
        \/ r.enabled /\ code = TOTP(r.secret) /\ Goto(p, "resolve")
        \/ /\ r.enabled /\ code # TOTP(r.secret) /\ code \in r.codes
           /\ req' = [req EXCEPT ![p].at = "consume", ![p].codes = r.codes, ![p].code = code]
        \/ (r.enabled => code \notin r.codes \cup {TOTP(r.secret)}) /\ End(p)
    /\ UNCHANGED <<row, sessions, challenges, counters, history>>

Accept(code, copy, u) ==
    /\ accepted' = accepted \cup {<<u, code>>}
    /\ reused' = reused \cup ({<<u, code>>} \cap accepted)
    /\ raced' = IF row[u].codes = copy THEN raced ELSE raced \cup {u}

\* Faulty Consume: the list is written back with the code still in it.
ConsumeNothing(p) ==
    /\ req[p].at = "consume"
    /\ LET q == req[p]  u == req[p].user IN
        /\ SetRow(u, [row[u] EXCEPT !.codes = q.codes])
        /\ Accept(q.code, q.codes, u)
    /\ Goto(p, "resolve")
    /\ UNCHANGED <<sessions, challenges, counters, deactivations, secretHistory>>

\* The list that was read is written back without the code.
Consume(p) ==
    /\ req[p].at = "consume"
    /\ LET q == req[p]  u == req[p].user IN
        /\ SetRow(u, [row[u] EXCEPT !.codes = q.codes \ {q.code}])
        /\ Accept(q.code, q.codes, u)
    /\ Goto(p, "resolve")
    /\ UNCHANGED <<sessions, challenges, counters, deactivations, secretHistory>>

\* The challenge is deleted, whether or not it is still there; the account is
\* read again for the answer, and whether it is active is not asked.
ResolveMFAChallenge(p) ==
    /\ req[p].at = "resolve"
    /\ challenges' = {ch \in challenges : ch.token # req[p].token}
    /\ Goto(p, "open")
    /\ UNCHANGED <<row, sessions, counters, history>>

-----------------------------------------------------------------------------
\* Requests that carry a session.

\* requireUser: Lookup joins session and account, active or not.
Enter(p, s, step) ==
    /\ s \in sessions /\ step \in OwnSteps
    /\ Begin(p, [Idle EXCEPT !.at = step, !.user = s.user, !.token = s.token])
    /\ UNCHANGED <<row, sessions, challenges, minted, opened, history>>

BeginMFAEnrollment(p) ==
    /\ req[p].at = "enrol" /\ minted < MaxMinted
    /\ minted' = minted + 1
    /\ LET u == req[p].user IN
        /\ SetRow(u, [row[u] EXCEPT !.secret = minted'])
        /\ disturbed' = IF row[u].enabled THEN disturbed \cup {u} ELSE disturbed
    /\ End(p)
    /\ UNCHANGED <<sessions, challenges, opened, started, deactivations, codeHistory, proved>>

\* Faulty PendingSecret: any code confirms.
PendingSecretUnchecked(p, code) ==
    /\ req[p].at = "confirm"
    /\ row[req[p].user].secret # 0
    /\ req' = [req EXCEPT ![p].at = "enable", ![p].secret = row[req[p].user].secret,
                          ![p].code = code]
    /\ UNCHANGED <<row, sessions, challenges, counters, history>>

\* ConfirmMFAEnrollment reads the pending secret and tries the code on it.
PendingSecret(p, code) ==
    /\ req[p].at = "confirm"
    /\ row[req[p].user].secret # 0
    /\ code = TOTP(row[req[p].user].secret)
    /\ req' = [req EXCEPT ![p].at = "enable", ![p].secret = row[req[p].user].secret,
                          ![p].code = code]
    /\ UNCHANGED <<row, sessions, challenges, counters, history>>

\* The second factor is switched on with new recovery codes, for whatever
\* secret the row holds by then.
Enable(p) ==
    /\ req[p].at = "enable" /\ minted < MaxMinted
    /\ minted' = minted + 1
    /\ LET q == req[p]  u == req[p].user IN
        /\ SetRow(u, [row[u] EXCEPT !.enabled = TRUE, !.codes = CodesOf(minted')])
        /\ proved' = [proved EXCEPT ![u] = q.code[1]]
        /\ disturbed' = IF row[u].secret = q.secret THEN disturbed \ {u}
                        ELSE disturbed \cup {u}
    /\ End(p)
    /\ UNCHANGED <<sessions, challenges, opened, started, deactivations, codeHistory>>

DisableMFA(p) ==
    /\ req[p].at = "disable"
    /\ SetRow(req[p].user, [row[req[p].user] EXCEPT !.enabled = FALSE, !.secret = 0,
                                                    !.codes = {}])
    /\ End(p)
    /\ UNCHANGED <<sessions, challenges, counters, history>>

\* Logout, or the end of a session's or a challenge's time.
SessionEnds(s) ==
    /\ s \in sessions
    /\ sessions' = sessions \ {s}
    /\ UNCHANGED <<row, challenges, req, counters, history>>

ChallengeExpires(ch) ==
    /\ ch \in challenges
    /\ challenges' = challenges \ {ch}
    /\ UNCHANGED <<row, sessions, req, counters, history>>

-----------------------------------------------------------------------------
\* Managing accounts.

IsAdmin(token) == \E s \in sessions : s.token = token /\ row[s.user].role = "admin"

\* requireCapability(users:manage).
EnterManaging(p, s, u, step) ==
    /\ s \in sessions /\ row[s.user].role = "admin"
    /\ \/ step = "create" /\ Begin(p, [Idle EXCEPT !.at = step, !.user = u, !.token = s.token])
       \/ /\ step \in Managing
          /\ Begin(p, [Idle EXCEPT !.at = "principal", !.next = step, !.user = u,
                                   !.token = s.token])
    /\ UNCHANGED <<row, sessions, challenges, minted, opened, history>>

\* Server.principal looks the session up once more for the domain's own check.
Principal(p) ==
    /\ req[p].at = "principal"
    /\ IF IsAdmin(req[p].token) THEN Goto(p, req[p].next) ELSE End(p)
    /\ UNCHANGED <<row, sessions, challenges, counters, history>>

\* CreateUser: the address is unique.
CreateUser(p, role) ==
    /\ req[p].at = "create" /\ ~row[req[p].user].is
    /\ SetRow(req[p].user, Created(role, TRUE))
    /\ End(p)
    /\ UNCHANGED <<sessions, challenges, counters, history>>

\* Faulty Deactivate: its sessions are left to expire.
DeactivateOnly(p) ==
    /\ req[p].at = "deactivate" /\ row[req[p].user].is
    /\ SetRow(req[p].user, [row[req[p].user] EXCEPT !.active = FALSE])
    /\ deacts' = [deacts EXCEPT ![req[p].user] = @ + 1]
    /\ End(p)
    /\ UNCHANGED <<sessions, challenges, counters, unrevoked, codeHistory, secretHistory>>

Deactivate(p) ==
    /\ req[p].at = "deactivate" /\ row[req[p].user].is
    /\ SetRow(req[p].user, [row[req[p].user] EXCEPT !.active = FALSE])
    /\ deacts' = [deacts EXCEPT ![req[p].user] = @ + 1]
    /\ Goto(p, "revoke")
    /\ UNCHANGED <<sessions, challenges, counters, unrevoked, codeHistory, secretHistory>>

RevokeAllForUser(p) ==
    /\ req[p].at = "revoke"
    /\ sessions' = {s \in sessions : s.user # req[p].user}
    /\ unrevoked' = unrevoked \ {req[p].user}
    /\ End(p)
    /\ UNCHANGED <<row, challenges, counters, deacts, codeHistory, secretHistory>>

Reactivate(p) ==
    /\ req[p].at = "reactivate" /\ row[req[p].user].is
    /\ SetRow(req[p].user, [row[req[p].user] EXCEPT !.active = TRUE])
    /\ End(p)
    /\ UNCHANGED <<sessions, challenges, counters, history>>

UpdateRole(p, role) ==
    /\ req[p].at = "role" /\ row[req[p].user].is
    /\ SetRow(req[p].user, [row[req[p].user] EXCEPT !.role = role])
    /\ End(p)
    /\ UNCHANGED <<sessions, challenges, counters, history>>

\* The same operations for a plugin whose host grants it the users scopes: each
\* is the one statement, and nothing revokes a deactivated account's sessions.
HostManage(u, step, role) ==
    /\ row[u].is /\ step \in Managing /\ started < MaxRequests
    /\ started' = started + 1
    /\ LET off == step = "deactivate" IN
        /\ SetRow(u, IF step = "role" THEN [row[u] EXCEPT !.role = role]
                     ELSE [row[u] EXCEPT !.active = ~off])
        /\ deacts' = [deacts EXCEPT ![u] = IF off THEN @ + 1 ELSE @]
        /\ unrevoked' = IF off THEN unrevoked \cup {u} ELSE unrevoked
    /\ UNCHANGED <<sessions, challenges, req, minted, opened, codeHistory, secretHistory>>

AccountsStep ==
    \/ \E p \in Procs :
        \/ Fail(p) \/ BeginMFAChallenge(p) \/ Create(p) \/ Consume(p)
        \/ ResolveMFAChallenge(p) \/ BeginMFAEnrollment(p) \/ Enable(p) \/ DisableMFA(p)
        \/ Principal(p) \/ Deactivate(p) \/ RevokeAllForUser(p) \/ Reactivate(p)
        \/ \E u \in Users : Authenticate(p, u)
        \/ \E ch \in challenges : FindChallenge(p, ch)
        \/ \E code \in Presented : VerifyMFA(p, code) \/ PendingSecret(p, code)
        \/ \E s \in sessions, step \in OwnSteps : Enter(p, s, step)
        \/ \E s \in sessions, u \in Users, step \in Managing \cup {"create"} :
            EnterManaging(p, s, u, step)
        \/ \E role \in Roles : CreateUser(p, role) \/ UpdateRole(p, role)
    \/ \E u \in Users, step \in Managing, role \in Roles : HostManage(u, step, role)
    \/ \E s \in sessions : SessionEnds(s)
    \/ \E ch \in challenges : ChallengeExpires(ch)

-----------------------------------------------------------------------------
\* mfa.go:138-140, "consumed ... so it cannot be reused": a recovery code opens
\* the way a second time only on an account whose list some verification wrote
\* back from a copy that was no longer the stored one.
RecoveryCodesOnce == \A used \in reused : used[1] \in raced

\* users.go:70-73, users_manage.go:60-66: no session from before a deactivation
\* outlives it, once its handler has revoked them (a plugin's call does not,
\* pkg/sdk/host.go:644), and no later one exists
\* unless its login looked at the account before, or answered a challenge
\* (ResolveMFAChallenge does not look).
Revoking(u) == u \in unrevoked \/ \E p \in Procs : req[p].at = "revoke" /\ req[p].user = u
DeactivationHolds ==
    \A s \in sessions :
        /\ s.born < deacts[s.user] => Revoking(s.user)
        /\ s.born = deacts[s.user] /\ ~row[s.user].active =>
            s.via = "mfa" \/ s.stamp < s.born

\* mfa.go:88-92, 108-110: an account asks for a second factor only with the
\* secret its user showed to have captured, unless the secret was replaced
\* under that confirmation or by an enrolment begun anew.
EnabledSecretWasProved ==
    \A u \in Users : row[u].enabled /\ u \notin disturbed => row[u].secret = proved[u]
=============================================================================
