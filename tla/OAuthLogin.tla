----------------------------- MODULE OAuthLogin -----------------------------
(***************************************************************************)
(* Login through an external provider: internal/identity/oauth.go behind   *)
(* internal/api/oauth.go.  The provider vouches for a subject and for the  *)
(* address it presently has there, which its owner may change.  An address *)
(* the provider has not verified, and an exchange that fails, end the      *)
(* request before anything is written and are left out.                    *)
(***************************************************************************)
EXTENDS Accounts, TLC

CONSTANT MaxMoves  \* bound of the model: changes of address at the provider

ASSUME OAuthAssumption == MaxMoves \in Nat

VARIABLES
    mail,       \* mail[s]: the address the provider reports for s
    moves,      \* how often one changed
    home,       \* history: the account s was linked to first, or last anew
    displaced   \* history: subjects whose link another one's replaced

oauthVars == <<mail, moves, home, displaced>>
loginVars == <<accountVars, oauthVars>>

OAuthTypeOK ==
    /\ mail \in [Subjects -> Users] /\ moves \in 0 .. MaxMoves
    /\ home \in [Subjects -> Users \cup {NoUser}] /\ displaced \subseteq Subjects

OAuthInit ==
    /\ mail \in [Subjects -> Users] /\ moves = 0
    /\ home = [s \in Subjects |-> NoUser] /\ displaced = {}

-----------------------------------------------------------------------------
\* External: the owner of an identity changes its address.
Move(s, u) ==
    /\ moves < MaxMoves /\ mail[s] # u
    /\ moves' = moves + 1
    /\ mail' = [mail EXCEPT ![s] = u]
    /\ UNCHANGED <<accountVars, home, displaced>>

\* handleOAuthCallback, Exchange: subject and address as the provider has them.
Callback(p, s) ==
    /\ Begin(p, [Idle EXCEPT !.at = "byOAuth", !.via = "oauth", !.subject = s,
                             !.user = mail[s]])
    /\ UNCHANGED <<row, sessions, challenges, minted, opened, history, oauthVars>>

Linked(s) == {u \in Users : row[u].is /\ row[u].link = s}

\* userIDByOAuth: a subject that is linked resolves to its account, whatever
\* its address is now.
UserIDByOAuth(p) ==
    /\ req[p].at = "byOAuth"
    /\ \/ \E u \in Linked(req[p].subject) :
            req' = [req EXCEPT ![p].at = "reread", ![p].user = u]
       \/ Linked(req[p].subject) = {} /\ Goto(p, "byEmail")
    /\ UNCHANGED <<row, sessions, challenges, counters, history, oauthVars>>

UserIDByEmail(p) ==
    /\ req[p].at = "byEmail"
    /\ Goto(p, IF row[req[p].user].is THEN "link" ELSE "insert")
    /\ UNCHANGED <<row, sessions, challenges, counters, history, oauthVars>>

\* Faulty SetLink: without the unique index.
SetLinkUnindexed(p) ==
    LET s == req[p].subject  u == req[p].user IN
        /\ SetRow(u, [row[u] EXCEPT !.link = s])
        /\ home' = [home EXCEPT ![s] = u]
        /\ displaced' = displaced \cup ({row[u].link} \ {s, NoSubject})

\* UPDATE users SET oauth_provider, oauth_subject: a link the account had is
\* replaced; the unique index refuses a subject that another account holds.
SetLink(p) ==
    LET s == req[p].subject  u == req[p].user IN
        /\ Linked(s) \subseteq {u}
        /\ SetRow(u, [row[u] EXCEPT !.link = s])
        /\ home' = [home EXCEPT ![s] = u]
        /\ displaced' = displaced \cup ({row[u].link} \ {s, NoSubject})

Link(p) ==
    /\ req[p].at = "link"
    /\ SetLink(p)
    /\ Goto(p, "reread")
    /\ UNCHANGED <<sessions, challenges, counters, history, mail, moves>>

\* createOAuthAccount, first statement: an account nobody has a password for.
InsertAccount(p) ==
    /\ req[p].at = "insert" /\ ~row[req[p].user].is
    /\ SetRow(req[p].user, Created("viewer", FALSE))
    /\ req' = [req EXCEPT ![p].at = "linkNew", ![p].stamp = deacts[req[p].user]]
    /\ UNCHANGED <<sessions, challenges, counters, history, oauthVars>>

\* Its last statement; the account is answered as it was made, active.
LinkNew(p) ==
    /\ req[p].at = "linkNew"
    /\ SetLink(p)
    /\ Goto(p, "open")
    /\ UNCHANGED <<sessions, challenges, counters, history, mail, moves>>

\* userByID, and the handler's check that the account is active.
Reread(p) ==
    /\ req[p].at = "reread"
    /\ LET u == req[p].user IN
        IF row[u].active THEN req' = [req EXCEPT ![p].at = "open", ![p].stamp = deacts[u]]
        ELSE End(p)
    /\ UNCHANGED <<row, sessions, challenges, counters, history, oauthVars>>

OAuthStep ==
    \/ \E s \in Subjects, u \in Users : Move(s, u)
    \/ \E p \in Procs :
        \/ UserIDByOAuth(p) \/ UserIDByEmail(p) \/ Link(p) \/ InsertAccount(p)
        \/ LinkNew(p) \/ Reread(p)
        \/ \E s \in Subjects : Callback(p, s)

Init == AccountsInit /\ OAuthInit

Next == (AccountsStep /\ UNCHANGED oauthVars) \/ OAuthStep

Spec == Init /\ [][Next]_loginVars

-----------------------------------------------------------------------------
\* oauth.go:321-327: whoever logs in through the provider gets the account the
\* identity was linked to, whatever its address has become and however its
\* logins overlap, until another identity with the account's address takes the
\* link over.
LinkedAccountIsStable ==
    \A s \in sessions :
        s.via = "oauth" => s.subject \in displaced \/ s.user = home[s.subject]

\* For TLC: requests, accounts and identities are interchangeable.
LoginSymmetry == Permutations(Procs) \cup Permutations(Users) \cup Permutations(Subjects)
=============================================================================
