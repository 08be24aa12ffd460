--------------------------- MODULE AccountsProofs ---------------------------
(***************************************************************************)
(* Proofs about accounts, their second factor, their sessions and their    *)
(* identities at a provider (Accounts, OAuthLogin), for any accounts,      *)
(* identities, requests at a time and lengths of a code list.              *)
(*                                                                         *)
(* One invariant types the tables and says that a request that is under    *)
(* way is about an account; on it rest four others, one for each property, *)
(* which are inductive by themselves.                                      *)
(***************************************************************************)
EXTENDS OAuthLogin, TLAPS

RequestsHaveUsers == \A p \in Procs : req[p].at # "idle" => req[p].user \in Users
AccountsTyped == AccountsTypeOK /\ OAuthTypeOK /\ RequestsHaveUsers

LEMMA RowsTyped ==
    /\ Absent \in Rows /\ Wrong \in Presented /\ Idle \in Requests
    /\ \A n \in 1 .. MaxMinted : CodesOf(n) \subseteq Presented
    /\ \A role \in Roles, b \in BOOLEAN : Created(role, b) \in Rows
<1>1. {} \in SUBSET Presented /\ 0 \in 0 .. MaxMinted /\ 0 \in 0 .. MaxOpened
  BY AccountsAssumption
<1>2. Absent \in Rows
  BY <1>1 DEF Absent, Rows, Roles
<1>3. Wrong \in Presented
  BY AccountsAssumption DEF Wrong, Presented
<1>4. Idle \in Requests
  BY <1>1, <1>3 DEF Idle, Requests, Steps, Vias
<1>5. \A n \in 1 .. MaxMinted : CodesOf(n) \subseteq Presented
  BY AccountsAssumption DEF CodesOf, Presented
<1>6. \A role \in Roles, b \in BOOLEAN : Created(role, b) \in Rows
  BY <1>2 DEF Created, Rows
<1> QED
  BY <1>2, <1>3, <1>4, <1>5, <1>6

LEMMA InitTyped == Init => AccountsTyped
<1> SUFFICES ASSUME Init PROVE AccountsTyped
  OBVIOUS
<1>1. /\ 1 \in 0 .. MaxMinted /\ 1 \in 1 .. MaxMinted /\ 1 \in 1 .. MaxOpened
      /\ 1 \in 0 .. MaxOpened /\ 0 \in 0 .. MaxRequests /\ 0 \in 0 .. MaxMoves
  BY AccountsAssumption, OAuthAssumption
<1>2. row \in [Users -> Rows]
  <2> DEFINE E == [Created("viewer", TRUE) EXCEPT !.enabled = TRUE, !.secret = 1, !.codes = CodesOf(1)]
  <2>1. /\ Absent \in Rows /\ Created("viewer", TRUE) \in Rows /\ Created("admin", TRUE) \in Rows
        /\ CodesOf(1) \in SUBSET Presented
    BY <1>1, RowsTyped DEF Roles
  <2>2. E \in Rows
    BY <1>1, <2>1 DEF Rows
  <2>3. row \in [Users -> {Absent, Created("viewer", TRUE), Created("admin", TRUE), E}]
    BY DEF Init, AccountsInit
  <2> HIDE DEF E
  <2> QED
    BY <2>1, <2>2, <2>3
<1>3. sessions \subseteq Sessions
  BY <1>1 DEF Init, AccountsInit, Sessions, Vias
<1>4. /\ challenges \subseteq Challenges /\ minted \in 0 .. MaxMinted /\ opened \in 0 .. MaxOpened
      /\ started \in 0 .. MaxRequests /\ deacts \in [Users -> Nat] /\ unrevoked \subseteq Users
      /\ accepted \subseteq Users \X Presented /\ reused \subseteq accepted /\ raced \subseteq Users
      /\ disturbed \subseteq Users
  BY <1>1 DEF Init, AccountsInit
<1>5. proved \in [Users -> 0 .. MaxMinted]
  BY <1>2 DEF Init, AccountsInit, Rows
<1>6. req \in [Procs -> Requests] /\ RequestsHaveUsers
  BY RowsTyped DEF Init, AccountsInit, RequestsHaveUsers, Idle
<1>7. OAuthTypeOK
  BY <1>1 DEF Init, OAuthInit, OAuthTypeOK
<1> QED
  BY <1>2, <1>3, <1>4, <1>5, <1>6, <1>7 DEF AccountsTyped, AccountsTypeOK

\* The part of AccountsTyped about the requests.
RequestsTyped == req \in [Procs -> Requests] /\ RequestsHaveUsers

LEMMA MoveTyped ==
    ASSUME RequestsTyped, NEW p \in Procs, NEW q \in Requests, q.at # "idle" => q.user \in Users,
           req' = [req EXCEPT ![p] = q]
    PROVE RequestsTyped'
BY DEF RequestsTyped, RequestsHaveUsers

LEMMA EndTyped ==
    ASSUME RequestsTyped, NEW p \in Procs, End(p) PROVE RequestsTyped'
BY RowsTyped, MoveTyped DEF End, Idle

LEMMA GotoTyped ==
    ASSUME RequestsTyped, NEW p \in Procs, NEW step \in Steps, req[p].at # "idle", Goto(p, step)
    PROVE RequestsTyped'
<1> DEFINE q == [req[p] EXCEPT !.at = step]
<1>1. q \in Requests /\ q.user \in Users
  BY DEF RequestsTyped, RequestsHaveUsers, Requests
<1>2. req' = [req EXCEPT ![p] = q]
  BY DEF Goto
<1> HIDE DEF q
<1> QED
  BY <1>1, <1>2, MoveTyped

LEMMA BeginTyped ==
    ASSUME RequestsTyped, started \in 0 .. MaxRequests, NEW p \in Procs, NEW q \in Requests,
           q.user \in Users, Begin(p, q)
    PROVE RequestsTyped' /\ started' \in 0 .. MaxRequests
<1>1. started' \in 0 .. MaxRequests
  BY AccountsAssumption DEF Begin
<1> QED
  BY <1>1, MoveTyped DEF Begin

\* The requests' first records.
LEMMA FirstsTyped ==
    /\ \A u \in Users, step \in Steps, n \in Nat :
        [Idle EXCEPT !.at = step, !.user = u, !.stamp = n] \in Requests
    /\ \A u \in Users, step \in Steps, t \in 0 .. MaxOpened, via \in Vias :
        /\ [Idle EXCEPT !.at = step, !.user = u, !.token = t] \in Requests
        /\ [Idle EXCEPT !.at = step, !.user = u, !.token = t, !.via = via] \in Requests
    /\ \A u \in Users, step \in Steps, next \in Managing, t \in 0 .. MaxOpened :
        [Idle EXCEPT !.at = step, !.next = next, !.user = u, !.token = t] \in Requests
    /\ \A u \in Users, s \in Subjects :
        [Idle EXCEPT !.at = "byOAuth", !.via = "oauth", !.subject = s, !.user = u] \in Requests
<1>1. Idle \in Requests
  BY RowsTyped
<1>2. "byOAuth" \in Steps /\ "oauth" \in Vias
  BY DEF Steps, Vias
<1>3. ASSUME NEW u \in Users, NEW step \in Steps, NEW n \in Nat
      PROVE [Idle EXCEPT !.at = step, !.user = u, !.stamp = n] \in Requests
  BY <1>1 DEF Requests
<1>4. ASSUME NEW u \in Users, NEW step \in Steps, NEW t \in 0 .. MaxOpened, NEW via \in Vias
      PROVE /\ [Idle EXCEPT !.at = step, !.user = u, !.token = t] \in Requests
            /\ [Idle EXCEPT !.at = step, !.user = u, !.token = t, !.via = via] \in Requests
  BY <1>1 DEF Requests
<1>5. ASSUME NEW u \in Users, NEW step \in Steps, NEW next \in Managing, NEW t \in 0 .. MaxOpened
      PROVE [Idle EXCEPT !.at = step, !.next = next, !.user = u, !.token = t] \in Requests
  BY <1>1 DEF Requests
<1>6. ASSUME NEW u \in Users, NEW s \in Subjects
      PROVE [Idle EXCEPT !.at = "byOAuth", !.via = "oauth", !.subject = s, !.user = u] \in Requests
  BY <1>1, <1>2 DEF Requests
<1> QED
  BY <1>3, <1>4, <1>5, <1>6

\* What each account's step may do to a row.
LEMMA RowChanges ==
    ASSUME NEW r \in Rows
    PROVE /\ \A c \in SUBSET Presented : [r EXCEPT !.codes = c] \in Rows
          /\ \A n \in 0 .. MaxMinted : [r EXCEPT !.secret = n] \in Rows
          /\ \A c \in SUBSET Presented : [r EXCEPT !.enabled = TRUE, !.codes = c] \in Rows
          /\ [r EXCEPT !.enabled = FALSE, !.secret = 0, !.codes = {}] \in Rows
          /\ \A b \in BOOLEAN : [r EXCEPT !.active = b] \in Rows
          /\ \A role \in Roles : [r EXCEPT !.role = role] \in Rows
          /\ \A s \in Subjects \cup {NoSubject} : [r EXCEPT !.link = s] \in Rows
<1>1. \A c \in SUBSET Presented : [r EXCEPT !.codes = c] \in Rows
  BY DEF Rows
<1>2. \A n \in 0 .. MaxMinted : [r EXCEPT !.secret = n] \in Rows
  BY DEF Rows
<1>3. \A c \in SUBSET Presented : [r EXCEPT !.enabled = TRUE, !.codes = c] \in Rows
  BY DEF Rows
<1>4. [r EXCEPT !.enabled = FALSE, !.secret = 0, !.codes = {}] \in Rows
  <2>1. 0 \in 0 .. MaxMinted /\ {} \in SUBSET Presented
    BY AccountsAssumption
  <2> QED
    BY <2>1 DEF Rows
<1>5. \A b \in BOOLEAN : [r EXCEPT !.active = b] \in Rows
  BY DEF Rows
<1>6. \A role \in Roles : [r EXCEPT !.role = role] \in Rows
  BY DEF Rows
<1>7. \A s \in Subjects \cup {NoSubject} : [r EXCEPT !.link = s] \in Rows
  BY DEF Rows
<1> QED
  BY <1>1, <1>2, <1>3, <1>4, <1>5, <1>6, <1>7

\* A step changes rows, requests and the rest within their types.
LEMMA StepTyped ==
    ASSUME AccountsTyped, RequestsTyped', row' \in [Users -> Rows],
           sessions' \subseteq Sessions, challenges' \subseteq Challenges,
           minted' \in 0 .. MaxMinted, opened' \in 0 .. MaxOpened, started' \in 0 .. MaxRequests,
           UNCHANGED <<deactivations, codeHistory, secretHistory, oauthVars>>
    PROVE AccountsTyped'
BY DEF AccountsTyped, AccountsTypeOK, OAuthTypeOK, RequestsTyped, deactivations, codeHistory,
   secretHistory, oauthVars

LEMMA SetRowTyped ==
    ASSUME row \in [Users -> Rows], NEW u, NEW r, u \in Users => r \in Rows, SetRow(u, r)
    PROVE row' \in [Users -> Rows]
BY DEF SetRow

LEMMA RequestOf ==
    ASSUME AccountsTyped, NEW p \in Procs, req[p].at # "idle"
    PROVE /\ req[p] \in Requests /\ req[p].user \in Users /\ row[req[p].user] \in Rows
          /\ RequestsTyped
BY DEF AccountsTyped, AccountsTypeOK, RequestsTyped, RequestsHaveUsers

\* Steps of a request that is under way and leaves the histories alone.
LEMMA PlainStepsTyped ==
    ASSUME AccountsTyped, UNCHANGED oauthVars, NEW p \in Procs,
           \/ BeginMFAChallenge(p) \/ Create(p) \/ ResolveMFAChallenge(p) \/ DisableMFA(p)
           \/ Principal(p) \/ Reactivate(p)
           \/ \E code \in Presented : VerifyMFA(p, code) \/ PendingSecret(p, code)
           \/ \E role \in Roles : CreateUser(p, role) \/ UpdateRole(p, role)
    PROVE AccountsTyped'
<1> USE DEF history, counters
<1>1. req[p].at # "idle"
  BY DEF BeginMFAChallenge, Create, ResolveMFAChallenge, DisableMFA, Principal, Reactivate,
     VerifyMFA, PendingSecret, CreateUser, UpdateRole
<1>2. req[p] \in Requests /\ req[p].user \in Users /\ row[req[p].user] \in Rows /\ RequestsTyped
  BY <1>1, RequestOf
<1>3. /\ row \in [Users -> Rows] /\ sessions \subseteq Sessions /\ challenges \subseteq Challenges
      /\ minted \in 0 .. MaxMinted /\ opened \in 0 .. MaxOpened /\ started \in 0 .. MaxRequests
      /\ deacts \in [Users -> Nat]
  BY DEF AccountsTyped, AccountsTypeOK
<1>4. opened < MaxOpened => opened + 1 \in 0 .. MaxOpened /\ opened + 1 \in 1 .. MaxOpened
  BY <1>3, AccountsAssumption
<1>5. CASE BeginMFAChallenge(p)
  BY <1>2, <1>3, <1>4, <1>5, EndTyped, StepTyped DEF BeginMFAChallenge, Challenges
<1>6. CASE Create(p)
  <2>1. [token |-> opened + 1, user |-> req[p].user, via |-> req[p].via,
         subject |-> req[p].subject, stamp |-> req[p].stamp, born |-> deacts[req[p].user]]
            \in Sessions
    BY <1>2, <1>3, <1>4, <1>6 DEF Create, Sessions, Requests
  <2> QED
    BY <1>2, <1>3, <1>4, <1>6, <2>1, EndTyped, StepTyped DEF Create
<1>7. CASE ResolveMFAChallenge(p)
  BY <1>1, <1>2, <1>3, <1>7, GotoTyped, StepTyped DEF ResolveMFAChallenge, Steps
<1>8. CASE DisableMFA(p)
  BY <1>2, <1>3, <1>8, EndTyped, StepTyped, SetRowTyped, RowChanges DEF DisableMFA
<1>9. CASE Principal(p)
  <2>1. req[p].next \in Steps
    BY <1>2 DEF Requests, Steps
  <2> QED
    BY <1>1, <1>2, <1>3, <1>9, <2>1, EndTyped, GotoTyped, StepTyped DEF Principal
<1>10. CASE Reactivate(p)
  BY <1>2, <1>3, <1>10, EndTyped, StepTyped, SetRowTyped, RowChanges DEF Reactivate
<1>11. ASSUME NEW code \in Presented, VerifyMFA(p, code) PROVE AccountsTyped'
  <2>1. RequestsTyped'
    <3> DEFINE q == [req[p] EXCEPT !.at = "consume", !.codes = row[req[p].user].codes, !.code = code]
    <3>1. q \in Requests /\ q.user \in Users
      BY <1>2 DEF Requests, Rows, Steps
    <3>2. CASE req' = [req EXCEPT ![p].at = "consume", ![p].codes = row[req[p].user].codes,
                                 ![p].code = code]
      <4>1. req' = [req EXCEPT ![p] = q]
        BY <3>2
      <4> HIDE DEF q
      <4> QED
        BY <1>2, <3>1, <4>1, MoveTyped
    <3>3. CASE Goto(p, "resolve") \/ End(p)
      BY <1>1, <1>2, <3>3, GotoTyped, EndTyped DEF Steps
    <3> QED
      BY <1>11, <3>2, <3>3 DEF VerifyMFA
  <2> QED
    BY <1>3, <1>11, <2>1, StepTyped DEF VerifyMFA
<1>12. ASSUME NEW code \in Presented, PendingSecret(p, code) PROVE AccountsTyped'
  <2> DEFINE q == [req[p] EXCEPT !.at = "enable", !.secret = row[req[p].user].secret, !.code = code]
  <2>1. q \in Requests /\ q.user \in Users
    BY <1>2 DEF Requests, Rows, Steps
  <2>2. req' = [req EXCEPT ![p] = q]
    BY <1>12 DEF PendingSecret
  <2> HIDE DEF q
  <2> QED
    BY <1>2, <1>3, <1>12, <2>1, <2>2, MoveTyped, StepTyped DEF PendingSecret
<1>13. ASSUME NEW role \in Roles, CreateUser(p, role) PROVE AccountsTyped'
  BY <1>2, <1>3, <1>13, RowsTyped, EndTyped, StepTyped, SetRowTyped DEF CreateUser
<1>14. ASSUME NEW role \in Roles, UpdateRole(p, role) PROVE AccountsTyped'
  BY <1>2, <1>3, <1>14, RowChanges, EndTyped, StepTyped, SetRowTyped DEF UpdateRole
<1> QED
  BY <1>5, <1>6, <1>7, <1>8, <1>9, <1>10, <1>11, <1>12, <1>13, <1>14

\* Steps that leave a trace in one of the histories.
LEMMA TracedStepsTyped ==
    ASSUME AccountsTyped, UNCHANGED oauthVars, NEW p \in Procs,
           \/ Fail(p) \/ Consume(p) \/ BeginMFAEnrollment(p) \/ Enable(p)
           \/ Deactivate(p) \/ RevokeAllForUser(p)
    PROVE AccountsTyped'
<1> USE DEF history, counters, deactivations, codeHistory, secretHistory, oauthVars
<1>1. req[p].at # "idle"
  BY DEF Fail, Consume, BeginMFAEnrollment, Enable, Deactivate, RevokeAllForUser
<1>2. req[p] \in Requests /\ req[p].user \in Users /\ row[req[p].user] \in Rows /\ RequestsTyped
  BY <1>1, RequestOf
<1>3. /\ row \in [Users -> Rows] /\ sessions \subseteq Sessions /\ challenges \subseteq Challenges
      /\ minted \in 0 .. MaxMinted /\ opened \in 0 .. MaxOpened /\ started \in 0 .. MaxRequests
      /\ deacts \in [Users -> Nat] /\ unrevoked \subseteq Users
      /\ accepted \subseteq Users \X Presented /\ reused \subseteq accepted /\ raced \subseteq Users
      /\ proved \in [Users -> 0 .. MaxMinted] /\ disturbed \subseteq Users
      /\ OAuthTypeOK
  BY DEF AccountsTyped, AccountsTypeOK
<1>4. minted < MaxMinted =>
        minted + 1 \in 0 .. MaxMinted /\ CodesOf(minted + 1) \subseteq Presented
  <2>1. minted < MaxMinted => minted + 1 \in 0 .. MaxMinted /\ minted + 1 \in 1 .. MaxMinted
    BY <1>3, AccountsAssumption
  <2> QED
    BY <2>1, RowsTyped
<1>5. UNCHANGED oauthVars => OAuthTypeOK'
  BY <1>3 DEF OAuthTypeOK
<1> DEFINE Done == /\ RequestsTyped' /\ row' \in [Users -> Rows]
                   /\ sessions' \subseteq Sessions /\ challenges' \subseteq Challenges
                   /\ minted' \in 0 .. MaxMinted /\ opened' \in 0 .. MaxOpened
                   /\ started' \in 0 .. MaxRequests
                   /\ deacts' \in [Users -> Nat] /\ unrevoked' \subseteq Users
                   /\ accepted' \subseteq Users \X Presented /\ reused' \subseteq accepted'
                   /\ raced' \subseteq Users
                   /\ proved' \in [Users -> 0 .. MaxMinted] /\ disturbed' \subseteq Users
<1>6. Done => AccountsTyped'
  BY <1>5 DEF AccountsTyped, AccountsTypeOK, RequestsTyped
<1>7. CASE Fail(p)
  BY <1>2, <1>3, <1>6, <1>7, EndTyped DEF Fail
<1>8. CASE Consume(p)
  <2>1. req[p].codes \in SUBSET Presented /\ req[p].code \in Presented
    BY <1>2 DEF Requests
  <2>2. RequestsTyped'
    BY <1>1, <1>2, <1>8, GotoTyped DEF Consume, Steps
  <2>3. row' \in [Users -> Rows]
    <3>1. [row[req[p].user] EXCEPT !.codes = req[p].codes \ {req[p].code}] \in Rows
      BY <1>2, <2>1, RowChanges
    <3> QED
      BY <1>3, <1>8, <3>1, SetRowTyped DEF Consume
  <2>4. Accept(req[p].code, req[p].codes, req[p].user)
    BY <1>8 DEF Consume
  <2>5. /\ accepted' \subseteq Users \X Presented /\ reused' \subseteq accepted'
        /\ raced' \subseteq Users
    BY <1>2, <1>3, <2>1, <2>4 DEF Accept
  <2> QED
    BY <1>3, <1>6, <1>8, <2>2, <2>3, <2>5 DEF Consume
<1>9. CASE BeginMFAEnrollment(p)
  <2>1. row' \in [Users -> Rows]
    BY <1>2, <1>3, <1>4, <1>9, SetRowTyped, RowChanges DEF BeginMFAEnrollment
  <2>2. disturbed' \subseteq Users /\ minted' \in 0 .. MaxMinted
    BY <1>2, <1>3, <1>4, <1>9 DEF BeginMFAEnrollment
  <2> QED
    BY <1>2, <1>3, <1>6, <1>9, <2>1, <2>2, EndTyped DEF BeginMFAEnrollment
<1>10. CASE Enable(p)
  <2>1. row' \in [Users -> Rows]
    BY <1>2, <1>3, <1>4, <1>10, SetRowTyped, RowChanges DEF Enable
  <2>2. disturbed' \subseteq Users /\ minted' \in 0 .. MaxMinted
    BY <1>2, <1>3, <1>4, <1>10 DEF Enable
  <2>3. proved' \in [Users -> 0 .. MaxMinted]
    <3>1. req[p].code[1] \in 0 .. MaxMinted
      BY <1>2 DEF Requests, Presented
    <3> QED
      BY <1>3, <1>10, <3>1 DEF Enable
  <2> QED
    BY <1>2, <1>3, <1>6, <1>10, <2>1, <2>2, <2>3, EndTyped DEF Enable
<1>11. CASE Deactivate(p)
  <2>1. row' \in [Users -> Rows] /\ deacts' \in [Users -> Nat]
    <3>1. [row[req[p].user] EXCEPT !.active = FALSE] \in Rows
      BY <1>2, RowChanges
    <3>2. deacts' \in [Users -> Nat]
      BY <1>2, <1>3, <1>11 DEF Deactivate
    <3> QED
      BY <1>3, <1>11, <3>1, <3>2, SetRowTyped DEF Deactivate
  <2>2. RequestsTyped'
    BY <1>1, <1>2, <1>11, GotoTyped DEF Deactivate, Steps
  <2> QED
    BY <1>3, <1>6, <1>11, <2>1, <2>2 DEF Deactivate
<1>12. CASE RevokeAllForUser(p)
  BY <1>2, <1>3, <1>6, <1>12, EndTyped DEF RevokeAllForUser
<1> QED
  BY <1>7, <1>8, <1>9, <1>10, <1>11, <1>12

\* A plugin manages an account.
LEMMA HostManageTyped ==
    ASSUME AccountsTyped, UNCHANGED oauthVars,
           NEW u \in Users, NEW step \in Managing, NEW role \in Roles, HostManage(u, step, role)
    PROVE AccountsTyped'
<1> USE DEF history, counters, deactivations, codeHistory, secretHistory, oauthVars
<1>1. row \in [Users -> Rows] /\ row[u] \in Rows
  BY DEF AccountsTyped, AccountsTypeOK
<1>2. row' \in [Users -> Rows]
  <2>1. PICK r \in Rows : SetRow(u, r)
    BY <1>1, RowChanges DEF HostManage
  <2> QED
    BY <1>1, <2>1, SetRowTyped
<1>3. started' \in 0 .. MaxRequests
  BY AccountsAssumption DEF HostManage, AccountsTyped, AccountsTypeOK
<1>4. deacts' \in [Users -> Nat] /\ unrevoked' \subseteq Users
  BY DEF HostManage, AccountsTyped, AccountsTypeOK
<1>5. RequestsHaveUsers' /\ OAuthTypeOK'
  BY DEF HostManage, AccountsTyped, RequestsHaveUsers, OAuthTypeOK
<1> QED
  BY <1>2, <1>3, <1>4, <1>5 DEF HostManage, AccountsTyped, AccountsTypeOK

\* Requests that begin, and sessions and challenges whose time is over.
LEMMA BeginningsTyped ==
    ASSUME AccountsTyped, UNCHANGED oauthVars,
           \/ \E p \in Procs :
                \/ \E u \in Users : Authenticate(p, u)
                \/ \E ch \in challenges : FindChallenge(p, ch)
                \/ \E s \in sessions, step \in OwnSteps : Enter(p, s, step)
                \/ \E s \in sessions, u \in Users, step \in Managing \cup {"create"} :
                    EnterManaging(p, s, u, step)
           \/ \E s \in sessions : SessionEnds(s)
           \/ \E ch \in challenges : ChallengeExpires(ch)
    PROVE AccountsTyped'
<1> USE DEF history, counters
<1>1. /\ row \in [Users -> Rows] /\ sessions \subseteq Sessions /\ challenges \subseteq Challenges
      /\ minted \in 0 .. MaxMinted /\ opened \in 0 .. MaxOpened /\ started \in 0 .. MaxRequests
      /\ deacts \in [Users -> Nat] /\ RequestsTyped
  BY DEF AccountsTyped, AccountsTypeOK, RequestsTyped
<1>2. /\ \A s \in sessions : s.user \in Users /\ s.token \in 0 .. MaxOpened
      /\ \A ch \in challenges : ch.user \in Users /\ ch.token \in 0 .. MaxOpened
  BY <1>1, AccountsAssumption DEF Sessions, Challenges
<1>3. ASSUME NEW p \in Procs, NEW q \in Requests, q.user \in Users, Begin(p, q),
             UNCHANGED <<row, sessions, challenges, minted, opened, history>>
      PROVE AccountsTyped'
  BY <1>1, <1>3, BeginTyped, StepTyped
<1>4. ASSUME NEW p \in Procs, NEW u \in Users, Authenticate(p, u) PROVE AccountsTyped'
  <2> DEFINE q == [Idle EXCEPT !.at = IF row[u].enabled THEN "challenge" ELSE "open",
                               !.user = u, !.stamp = deacts[u]]
  <2>1. q \in Requests
    BY <1>1, FirstsTyped DEF Steps
  <2>2. q.user = u
    BY RowsTyped DEF Requests
  <2>3. Begin(p, q) /\ UNCHANGED <<row, sessions, challenges, minted, opened, history>>
    BY <1>4 DEF Authenticate
  <2> HIDE DEF q
  <2> QED
    BY <1>3, <2>1, <2>2, <2>3
<1>5. ASSUME NEW p \in Procs, NEW ch \in challenges, FindChallenge(p, ch) PROVE AccountsTyped'
  <2> DEFINE q == [Idle EXCEPT !.at = "check", !.user = ch.user, !.token = ch.token, !.via = "mfa"]
  <2>1. q \in Requests
    BY <1>2, FirstsTyped DEF Steps, Vias
  <2>2. q.user = ch.user
    BY RowsTyped DEF Requests
  <2>3. Begin(p, q) /\ UNCHANGED <<row, sessions, challenges, minted, opened, history>>
    BY <1>5 DEF FindChallenge
  <2> HIDE DEF q
  <2> QED
    BY <1>2, <1>3, <2>1, <2>2, <2>3
<1>6. ASSUME NEW p \in Procs, NEW s \in sessions, NEW step \in OwnSteps, Enter(p, s, step)
      PROVE AccountsTyped'
  <2> DEFINE q == [Idle EXCEPT !.at = step, !.user = s.user, !.token = s.token]
  <2>1. q \in Requests
    BY <1>2, FirstsTyped DEF Steps, Vias
  <2>2. q.user = s.user
    BY RowsTyped DEF Requests
  <2>3. Begin(p, q) /\ UNCHANGED <<row, sessions, challenges, minted, opened, history>>
    BY <1>6 DEF Enter
  <2> HIDE DEF q
  <2> QED
    BY <1>2, <1>3, <2>1, <2>2, <2>3
<1>7. ASSUME NEW p \in Procs, NEW s \in sessions, NEW u \in Users,
             NEW step \in Managing \cup {"create"}, EnterManaging(p, s, u, step)
      PROVE AccountsTyped'
  <2>1. step \in Steps /\ "principal" \in Steps /\ "password" \in Vias /\ s.token \in 0 .. MaxOpened
    BY <1>2 DEF Steps, Managing, Vias
  <2>2. UNCHANGED <<row, sessions, challenges, minted, opened, history>>
    BY <1>7 DEF EnterManaging
  <2>3. CASE Begin(p, [Idle EXCEPT !.at = step, !.user = u, !.token = s.token])
    <3> DEFINE q == [Idle EXCEPT !.at = step, !.user = u, !.token = s.token]
    <3>1. q \in Requests
      BY <2>1, FirstsTyped
    <3>2. q.user = u
      BY RowsTyped DEF Requests
    <3>3. Begin(p, q)
      BY <2>3
    <3> HIDE DEF q
    <3> QED
      BY <1>3, <2>2, <3>1, <3>2, <3>3
  <2>4. CASE step \in Managing /\ Begin(p, [Idle EXCEPT !.at = "principal", !.next = step,
                                                      !.user = u, !.token = s.token])
    <3> DEFINE q == [Idle EXCEPT !.at = "principal", !.next = step, !.user = u, !.token = s.token]
    <3>1. q \in Requests
      BY <2>1, <2>4, FirstsTyped
    <3>2. q.user = u
      BY RowsTyped DEF Requests
    <3>3. Begin(p, q)
      BY <2>4
    <3> HIDE DEF q
    <3> QED
      BY <1>3, <2>2, <3>1, <3>2, <3>3
  <2> QED
    BY <1>7, <2>3, <2>4 DEF EnterManaging
<1>8. ASSUME NEW s \in sessions, SessionEnds(s) PROVE AccountsTyped'
  <2>1. RequestsTyped'
    BY <1>1, <1>8 DEF SessionEnds, RequestsTyped, RequestsHaveUsers
  <2> QED
    BY <1>1, <1>8, <2>1, StepTyped DEF SessionEnds
<1>9. ASSUME NEW ch \in challenges, ChallengeExpires(ch) PROVE AccountsTyped'
  <2>1. RequestsTyped'
    BY <1>1, <1>9 DEF ChallengeExpires, RequestsTyped, RequestsHaveUsers
  <2> QED
    BY <1>1, <1>9, <2>1, StepTyped DEF ChallengeExpires
<1> QED
  BY <1>4, <1>5, <1>6, <1>7, <1>8, <1>9

LEMMA ProviderStepsTyped ==
    ASSUME AccountsTyped, OAuthStep PROVE AccountsTyped'
<1> USE DEF history, counters, deactivations, codeHistory, secretHistory
<1>1. /\ row \in [Users -> Rows] /\ sessions \subseteq Sessions /\ challenges \subseteq Challenges
      /\ minted \in 0 .. MaxMinted /\ opened \in 0 .. MaxOpened /\ started \in 0 .. MaxRequests
      /\ deacts \in [Users -> Nat] /\ RequestsTyped /\ OAuthTypeOK
  BY DEF AccountsTyped, AccountsTypeOK, RequestsTyped
<1> DEFINE Rest == UNCHANGED <<sessions, challenges, counters, history>>
<1>2. ASSUME Rest, RequestsTyped', row' \in [Users -> Rows], OAuthTypeOK' PROVE AccountsTyped'
  BY <1>2 DEF AccountsTyped, AccountsTypeOK, RequestsTyped
<1>3. UNCHANGED oauthVars => OAuthTypeOK'
  BY <1>1 DEF OAuthTypeOK, oauthVars
<1>4. ASSUME NEW s \in Subjects, NEW u \in Users, Move(s, u) PROVE AccountsTyped'
  <2>1. OAuthTypeOK'
    BY <1>1, <1>4, OAuthAssumption DEF Move, OAuthTypeOK
  <2>2. RequestsTyped' /\ row' \in [Users -> Rows]
    BY <1>1, <1>4 DEF Move, accountVars, RequestsTyped, RequestsHaveUsers
  <2> QED
    BY <1>2, <1>4, <2>1, <2>2 DEF Move, accountVars
<1>5. ASSUME NEW p \in Procs, NEW s \in Subjects, Callback(p, s) PROVE AccountsTyped'
  <2> DEFINE q == [Idle EXCEPT !.at = "byOAuth", !.via = "oauth", !.subject = s, !.user = mail[s]]
  <2>1. mail[s] \in Users
    BY <1>1 DEF OAuthTypeOK
  <2>2. q \in Requests
    BY <2>1, FirstsTyped
  <2>3. q.user = mail[s]
    BY RowsTyped DEF Requests
  <2>4. Begin(p, q)
    BY <1>5 DEF Callback
  <2> HIDE DEF q
  <2>5. RequestsTyped' /\ started' \in 0 .. MaxRequests
    BY <1>1, <2>1, <2>2, <2>3, <2>4, BeginTyped
  <2> QED
    BY <1>1, <1>5, <2>5, StepTyped DEF Callback, oauthVars
<1>6. ASSUME NEW p \in Procs, req[p].at # "idle"
      PROVE /\ req[p] \in Requests /\ req[p].user \in Users /\ row[req[p].user] \in Rows
            /\ req[p].subject \in Subjects \cup {NoSubject}
  BY <1>6, RequestOf DEF Requests
<1>7. ASSUME NEW p \in Procs, UserIDByOAuth(p) PROVE AccountsTyped'
  <2>1. req[p].at # "idle" /\ Rest /\ UNCHANGED <<row, oauthVars>>
    BY <1>7 DEF UserIDByOAuth
  <2>2. RequestsTyped'
    <3>1. CASE Goto(p, "byEmail")
      BY <1>1, <2>1, <3>1, GotoTyped DEF Steps
    <3>2. ASSUME NEW u \in Users, req' = [req EXCEPT ![p].at = "reread", ![p].user = u]
          PROVE RequestsTyped'
      <4> DEFINE q == [req[p] EXCEPT !.at = "reread", !.user = u]
      <4>1. req[p] \in Requests /\ "reread" \in Steps
        BY <1>6, <2>1 DEF Steps
      <4>2. q \in Requests
        BY <4>1 DEF Requests
      <4>3. q.user \in Users
        BY <4>1 DEF Requests
      <4>4. req' = [req EXCEPT ![p] = q]
        BY <3>2
      <4> HIDE DEF q
      <4> QED
        BY <1>1, <4>2, <4>3, <4>4, MoveTyped
    <3> QED
      BY <1>7, <3>1, <3>2 DEF UserIDByOAuth, Linked
  <2> QED
    BY <1>1, <1>2, <1>3, <2>1, <2>2
<1>8. ASSUME NEW p \in Procs, UserIDByEmail(p) PROVE AccountsTyped'
  <2>1. RequestsTyped'
    BY <1>1, <1>8, GotoTyped DEF UserIDByEmail, Steps
  <2> QED
    BY <1>1, <1>2, <1>3, <1>8, <2>1 DEF UserIDByEmail
<1>9. ASSUME NEW p \in Procs, SetLink(p), req[p].at # "idle", UNCHANGED <<mail, moves>>
      PROVE row' \in [Users -> Rows] /\ OAuthTypeOK'
  <2>1. req[p].user \in Users /\ row[req[p].user] \in Rows /\ req[p].subject \in Subjects \cup {NoSubject}
    BY <1>6, <1>9
  <2>2. [row[req[p].user] EXCEPT !.link = req[p].subject] \in Rows
    BY <2>1, RowChanges
  <2>3. row' \in [Users -> Rows]
    BY <1>1, <1>9, <2>2, SetRowTyped DEF SetLink
  <2>4. home' \in [Subjects -> Users \cup {NoUser}]
    BY <1>1, <1>9, <2>1 DEF SetLink, OAuthTypeOK
  <2>5. displaced' \subseteq Subjects
    BY <1>1, <1>9, <2>1 DEF SetLink, OAuthTypeOK, Rows
  <2> QED
    BY <1>1, <1>9, <2>3, <2>4, <2>5 DEF OAuthTypeOK
<1>10. ASSUME NEW p \in Procs, Link(p) PROVE AccountsTyped'
  <2>1. RequestsTyped'
    BY <1>1, <1>10, GotoTyped DEF Link, Steps
  <2> QED
    BY <1>2, <1>9, <1>10, <2>1 DEF Link
<1>11. ASSUME NEW p \in Procs, LinkNew(p) PROVE AccountsTyped'
  <2>1. RequestsTyped'
    BY <1>1, <1>11, GotoTyped DEF LinkNew, Steps
  <2> QED
    BY <1>2, <1>9, <1>11, <2>1 DEF LinkNew
<1>12. ASSUME NEW p \in Procs, InsertAccount(p) PROVE AccountsTyped'
  <2> DEFINE q == [req[p] EXCEPT !.at = "linkNew", !.stamp = deacts[req[p].user]]
  <2>1. req[p].at # "idle"
    BY <1>12 DEF InsertAccount
  <2>2. q \in Requests /\ q.user \in Users
    <3>1. req[p] \in Requests /\ req[p].user \in Users /\ deacts[req[p].user] \in Nat
      BY <1>1, <1>6, <2>1
    <3> QED
      BY <3>1 DEF Requests, Steps
  <2>3. req' = [req EXCEPT ![p] = q]
    BY <1>12 DEF InsertAccount
  <2> HIDE DEF q
  <2>4. RequestsTyped'
    BY <1>1, <2>2, <2>3, MoveTyped
  <2>5. row' \in [Users -> Rows]
    BY <1>1, <1>12, RowsTyped, SetRowTyped DEF InsertAccount, Roles
  <2> QED
    BY <1>2, <1>3, <1>12, <2>4, <2>5 DEF InsertAccount
<1>13. ASSUME NEW p \in Procs, Reread(p) PROVE AccountsTyped'
  <2> DEFINE q == [req[p] EXCEPT !.at = "open", !.stamp = deacts[req[p].user]]
  <2>1. req[p].at # "idle" /\ UNCHANGED <<row, oauthVars>> /\ Rest
    BY <1>13 DEF Reread
  <2>2. q \in Requests /\ q.user \in Users
    <3>1. req[p] \in Requests /\ req[p].user \in Users /\ deacts[req[p].user] \in Nat
      BY <1>1, <1>6, <2>1
    <3> QED
      BY <3>1 DEF Requests, Steps
  <2>3. End(p) \/ req' = [req EXCEPT ![p] = q]
    BY <1>13 DEF Reread
  <2> HIDE DEF q
  <2>4. RequestsTyped'
    BY <1>1, <2>2, <2>3, MoveTyped, EndTyped
  <2> QED
    BY <1>1, <1>2, <1>3, <2>1, <2>4
<1> QED
  BY <1>4, <1>5, <1>7, <1>8, <1>10, <1>11, <1>12, <1>13 DEF OAuthStep

LEMMA NextTyped == AccountsTyped /\ [Next]_loginVars => AccountsTyped'
<1> SUFFICES ASSUME AccountsTyped, [Next]_loginVars PROVE AccountsTyped'
  OBVIOUS
<1>1. CASE UNCHANGED loginVars
  BY <1>1 DEF AccountsTyped, AccountsTypeOK, OAuthTypeOK, RequestsHaveUsers, loginVars,
     accountVars, counters, history, deactivations, codeHistory, secretHistory, oauthVars
<1>2. CASE AccountsStep /\ UNCHANGED oauthVars
  BY <1>2, PlainStepsTyped, TracedStepsTyped, HostManageTyped, BeginningsTyped DEF AccountsStep
<1>3. CASE OAuthStep
  BY <1>3, ProviderStepsTyped
<1> QED
  BY <1>1, <1>2, <1>3 DEF Next

\* For any numbers: the tables keep their shape, and a request under way is
\* about an account.
THEOREM AccountsStayTyped == Spec => []AccountsTyped
BY InitTyped, NextTyped, PTL DEF Spec

-----------------------------------------------------------------------------
\* How a request comes to the steps the histories depend on.

\* A step changes the record of the one request that takes it.
MovedOn(p) ==
    \/ Fail(p) \/ BeginMFAChallenge(p) \/ Create(p) \/ Consume(p)
    \/ ResolveMFAChallenge(p) \/ BeginMFAEnrollment(p) \/ Enable(p) \/ DisableMFA(p)
    \/ Principal(p) \/ Deactivate(p) \/ RevokeAllForUser(p) \/ Reactivate(p)
    \/ \E u \in Users : Authenticate(p, u)
    \/ \E ch \in challenges : FindChallenge(p, ch)
    \/ \E code \in Presented : VerifyMFA(p, code) \/ PendingSecret(p, code)
    \/ \E s \in sessions, step \in OwnSteps : Enter(p, s, step)
    \/ \E s \in sessions, u \in Users, step \in Managing \cup {"create"} :
        EnterManaging(p, s, u, step)
    \/ \E role \in Roles : CreateUser(p, role) \/ UpdateRole(p, role)

MovedAtProvider(p) ==
    \/ UserIDByOAuth(p) \/ UserIDByEmail(p) \/ Link(p) \/ InsertAccount(p)
    \/ LinkNew(p) \/ Reread(p)
    \/ \E s \in Subjects : Callback(p, s)

LEMMA Movers ==
    ASSUME AccountsTyped, Next, NEW p \in Procs, req'[p] # req[p]
    PROVE MovedOn(p) \/ MovedAtProvider(p)
<1>1. req \in [Procs -> Requests]
  BY DEF AccountsTyped, AccountsTypeOK
<1>2. CASE AccountsStep
  <2>1. ASSUME \E u \in Users, step \in Managing, role \in Roles : HostManage(u, step, role)
        PROVE FALSE
    BY <2>1 DEF HostManage
  <2>2. ASSUME (\E s \in sessions : SessionEnds(s)) \/ \E ch \in challenges : ChallengeExpires(ch)
        PROVE FALSE
    BY <2>2 DEF SessionEnds, ChallengeExpires
  <2>3. PICK d \in Procs : MovedOn(d)
    BY <1>2, <2>1, <2>2 DEF AccountsStep, MovedOn
  <2>4. d = p
    BY <2>3, <1>1 DEF MovedOn, Fail, BeginMFAChallenge, Create, Consume, ResolveMFAChallenge,
       BeginMFAEnrollment, Enable, DisableMFA, Principal, Deactivate, RevokeAllForUser, Reactivate,
       Authenticate, FindChallenge, VerifyMFA, PendingSecret, Enter, EnterManaging, CreateUser,
       UpdateRole, Goto, End, Begin
  <2> QED
    BY <2>3, <2>4
<1>3. CASE OAuthStep
  <2>1. ASSUME \E s \in Subjects, u \in Users : Move(s, u) PROVE FALSE
    BY <2>1 DEF Move, accountVars
  <2>2. PICK d \in Procs : MovedAtProvider(d)
    BY <1>3, <2>1 DEF OAuthStep, MovedAtProvider
  <2>3. d = p
    BY <1>1, <2>2 DEF MovedAtProvider, UserIDByOAuth, UserIDByEmail, Link, InsertAccount, LinkNew,
       Reread, Callback, Goto, End, Begin
  <2> QED
    BY <2>2, <2>3
<1> QED
  BY <1>2, <1>3 DEF Next

Unremarkable ==
    {"idle", "challenge", "enrol", "confirm", "disable", "principal", "create",
     "deactivate", "reactivate", "role"}

Arrived(p) ==
    \/ req'[p].at \in Unremarkable
    \/ req'[p].at = "check" /\ \E ch \in challenges : FindChallenge(p, ch)
    \/ req'[p].at = "enable" /\ \E code \in Presented : PendingSecret(p, code)
    \/ req'[p].at = "consume" /\ \E code \in Presented : VerifyMFA(p, code)
    \/ req'[p].at = "resolve" /\ (Consume(p) \/ \E code \in Presented : VerifyMFA(p, code))
    \/ /\ req'[p].at = "open"
       /\ ResolveMFAChallenge(p) \/ LinkNew(p) \/ Reread(p) \/ \E u \in Users : Authenticate(p, u)
    \/ req'[p].at = "revoke" /\ Deactivate(p)
    \/ req'[p].at = "byOAuth" /\ \E s \in Subjects : Callback(p, s)
    \/ req'[p].at \in {"link", "insert"} /\ UserIDByEmail(p)
    \/ req'[p].at = "byEmail" /\ UserIDByOAuth(p)
    \/ req'[p].at = "linkNew" /\ InsertAccount(p)
    \/ req'[p].at = "reread" /\ (UserIDByOAuth(p) \/ Link(p))

LEMMA Arrivals ==
    ASSUME AccountsTyped, Next, NEW p \in Procs, req'[p] # req[p]
    PROVE Arrived(p)
<1>1. req \in [Procs -> Requests] /\ Idle \in Requests /\ Idle.at = "idle"
  BY RowsTyped DEF AccountsTyped, AccountsTypeOK, Idle
<1>2. ASSUME NEW d \in Procs, NEW step, Goto(d, step)
      PROVE req'[d].at = step /\ \A e \in Procs \ {d} : req'[e] = req[e]
  BY <1>1, <1>2 DEF Goto, Requests
<1>3. ASSUME NEW d \in Procs, NEW q, Begin(d, q) \/ req' = [req EXCEPT ![d] = q]
      PROVE req'[d] = q /\ \A e \in Procs \ {d} : req'[e] = req[e]
  BY <1>1, <1>3 DEF Begin
<1>4. ASSUME NEW d \in Procs, End(d)
      PROVE req'[d].at = "idle" /\ \A e \in Procs \ {d} : req'[e] = req[e]
  BY <1>1, <1>4 DEF End
<1>5. ASSUME NEW d \in Procs,
             Fail(d) \/ BeginMFAChallenge(d) \/ Create(d) \/ BeginMFAEnrollment(d) \/ Enable(d)
                \/ DisableMFA(d) \/ RevokeAllForUser(d) \/ Reactivate(d)
                \/ \E role \in Roles : CreateUser(d, role) \/ UpdateRole(d, role)
      PROVE End(d)
  BY <1>5 DEF Fail, BeginMFAChallenge, Create, BeginMFAEnrollment, Enable, DisableMFA,
     RevokeAllForUser, Reactivate, CreateUser, UpdateRole
<1>6. ASSUME NEW d \in Procs, End(d) PROVE req'[p].at \in Unremarkable
  BY <1>4, <1>6 DEF Unremarkable
<1>7. ASSUME Consume(p) PROVE req'[p].at = "resolve"
  BY <1>2, <1>7 DEF Consume
<1>8. ASSUME ResolveMFAChallenge(p) \/ LinkNew(p) PROVE req'[p].at = "open"
  BY <1>2, <1>8 DEF ResolveMFAChallenge, LinkNew
<1>9. ASSUME Principal(p) PROVE req'[p].at \in Unremarkable
  <2>1. req[p].next \in Managing \cup {"idle"}
    BY <1>1 DEF Requests
  <2> QED
    BY <1>2, <1>4, <1>9, <2>1 DEF Principal, Managing, Unremarkable
<1>10. ASSUME Deactivate(p) PROVE req'[p].at = "revoke"
  BY <1>2, <1>10 DEF Deactivate
<1>11. ASSUME NEW u \in Users, Authenticate(p, u) PROVE req'[p].at \in {"challenge", "open"}
  <2> DEFINE q == [Idle EXCEPT !.at = IF row[u].enabled THEN "challenge" ELSE "open",
                               !.user = u, !.stamp = deacts[u]]
  <2>1. q.at \in {"challenge", "open"}
    BY <1>1 DEF Requests
  <2>2. Begin(p, q)
    BY <1>11 DEF Authenticate
  <2> HIDE DEF q
  <2> QED
    BY <1>3, <2>1, <2>2
<1>12. ASSUME NEW ch \in challenges, FindChallenge(p, ch) PROVE req'[p].at = "check"
  <2> DEFINE q == [Idle EXCEPT !.at = "check", !.user = ch.user, !.token = ch.token, !.via = "mfa"]
  <2>1. q.at = "check"
    BY <1>1 DEF Requests
  <2>2. Begin(p, q)
    BY <1>12 DEF FindChallenge
  <2> HIDE DEF q
  <2> QED
    BY <1>3, <2>1, <2>2
<1>13. ASSUME NEW code \in Presented, VerifyMFA(p, code)
       PROVE req'[p].at \in {"resolve", "consume", "idle"}
  BY <1>1, <1>2, <1>4, <1>13 DEF VerifyMFA, Requests
<1>14. ASSUME NEW code \in Presented, PendingSecret(p, code) PROVE req'[p].at = "enable"
  BY <1>1, <1>14 DEF PendingSecret, Requests
<1>15. ASSUME NEW s \in sessions, NEW step \in OwnSteps, Enter(p, s, step)
       PROVE req'[p].at \in Unremarkable
  <2> DEFINE q == [Idle EXCEPT !.at = step, !.user = s.user, !.token = s.token]
  <2>1. q.at \in Unremarkable
    BY <1>1 DEF Requests, OwnSteps, Unremarkable
  <2>2. Begin(p, q)
    BY <1>15 DEF Enter
  <2> HIDE DEF q
  <2> QED
    BY <1>3, <2>1, <2>2
<1>16. ASSUME NEW s \in sessions, NEW u \in Users, NEW step \in Managing \cup {"create"},
              EnterManaging(p, s, u, step)
       PROVE req'[p].at \in Unremarkable
  <2> DEFINE q == [Idle EXCEPT !.at = step, !.user = u, !.token = s.token]
             r == [Idle EXCEPT !.at = "principal", !.next = step, !.user = u, !.token = s.token]
  <2>1. step = "create" => q.at \in Unremarkable
    BY <1>1 DEF Requests, Unremarkable
  <2>2. r.at \in Unremarkable
    BY <1>1 DEF Requests, Unremarkable
  <2>3. (step = "create" /\ Begin(p, q)) \/ Begin(p, r)
    BY <1>16 DEF EnterManaging
  <2> HIDE DEF q, r
  <2> QED
    BY <1>3, <2>1, <2>2, <2>3
<1>17. ASSUME NEW s \in Subjects, Callback(p, s) PROVE req'[p].at = "byOAuth"
  <2> DEFINE q == [Idle EXCEPT !.at = "byOAuth", !.via = "oauth", !.subject = s,
                               !.user = mail[s]]
  <2>1. q.at = "byOAuth"
    BY <1>1 DEF Requests
  <2>2. Begin(p, q)
    BY <1>17 DEF Callback
  <2> HIDE DEF q
  <2> QED
    BY <1>3, <2>1, <2>2
<1>18. ASSUME UserIDByOAuth(p) PROVE req'[p].at \in {"reread", "byEmail"}
  BY <1>1, <1>2, <1>18 DEF UserIDByOAuth, Requests
<1>19. ASSUME UserIDByEmail(p) PROVE req'[p].at \in {"link", "insert"}
  BY <1>2, <1>19 DEF UserIDByEmail
<1>20. ASSUME Link(p) PROVE req'[p].at = "reread"
  BY <1>2, <1>20 DEF Link
<1>21. ASSUME InsertAccount(p) PROVE req'[p].at = "linkNew"
  BY <1>1, <1>21 DEF InsertAccount, Requests
<1>22. ASSUME Reread(p) PROVE req'[p].at \in {"open", "idle"}
  BY <1>1, <1>4, <1>22 DEF Reread, Requests
<1>23. CASE MovedOn(p)
  BY <1>5, <1>6, <1>7, <1>8, <1>9, <1>10, <1>11, <1>12, <1>13, <1>14, <1>15, <1>16, <1>23
  DEF MovedOn, Unremarkable, Arrived
<1>24. CASE MovedAtProvider(p)
  BY <1>8, <1>17, <1>18, <1>19, <1>20, <1>21, <1>22, <1>24
  DEF MovedAtProvider, Unremarkable, Arrived
<1> QED
  BY <1>23, <1>24, Movers

\* What a step does to the second factors.

FactorsKept ==
    /\ UNCHANGED <<minted, codeHistory, secretHistory>>
    /\ \A u \in Users : /\ row'[u].enabled = row[u].enabled /\ row'[u].secret = row[u].secret
                        /\ row'[u].codes = row[u].codes

AccountMade(v) ==
    /\ UNCHANGED <<minted, codeHistory, secretHistory, deacts, unrevoked, sessions>>
    /\ ~row[v].is /\ \A u \in Users \ {v} : row'[u] = row[u]
    /\ row'[v].is /\ row'[v].active /\ ~row'[v].enabled
    /\ row'[v].secret = 0 /\ row'[v].codes = {} /\ row'[v].link = NoSubject

LEMMA AccountsAreMade ==
    ASSUME AccountsTyped, NEW p \in Procs, InsertAccount(p) \/ \E role \in Roles : CreateUser(p, role)
    PROVE \E v \in Users : AccountMade(v)
<1> USE DEF history, counters, codeHistory, secretHistory, deactivations
<1>1. row \in [Users -> Rows] /\ req[p].user \in Users
  BY RequestOf DEF AccountsTyped, AccountsTypeOK, InsertAccount, CreateUser
<1>2. ASSUME NEW v \in Users, ~row[v].is, NEW role \in Roles, NEW b \in BOOLEAN,
             SetRow(v, Created(role, b)),
             UNCHANGED <<minted, codeHistory, secretHistory, deacts, unrevoked, sessions>>
      PROVE AccountMade(v)
  <2> DEFINE r == Created(role, b)
  <2>1. /\ r.is = TRUE /\ r.active = TRUE /\ r.enabled = FALSE /\ r.secret = 0 /\ r.codes = {}
        /\ r.link = NoSubject
    BY DEF Created, Absent
  <2>2. SetRow(v, r)
    BY <1>2
  <2> HIDE DEF r
  <2> QED
    BY <1>1, <1>2, <2>1, <2>2 DEF AccountMade, SetRow
<1> QED
  BY <1>1, <1>2 DEF InsertAccount, CreateUser, Roles

LEMMA FactorSteps ==
    ASSUME AccountsTyped, Next
    PROVE \/ FactorsKept
          \/ \E v \in Users : AccountMade(v)
          \/ \E p \in Procs : Consume(p) \/ BeginMFAEnrollment(p) \/ Enable(p) \/ DisableMFA(p)
<1> USE DEF history, counters, codeHistory, secretHistory, deactivations
<1>1. row \in [Users -> Rows]
  BY DEF AccountsTyped, AccountsTypeOK
<1>2. ASSUME NEW u \in Users, NEW r, SetRow(u, r)
      PROVE row'[u] = r /\ \A v \in Users \ {u} : row'[v] = row[v]
  BY <1>1, <1>2 DEF SetRow
<1>3. ASSUME NEW u \in Users, NEW r, SetRow(u, r), UNCHANGED <<minted, codeHistory, secretHistory>>,
             r.enabled = row[u].enabled, r.secret = row[u].secret, r.codes = row[u].codes
      PROVE FactorsKept
  BY <1>2, <1>3 DEF FactorsKept
<1>4. ASSUME UNCHANGED <<row, minted, codeHistory, secretHistory>> PROVE FactorsKept
  BY <1>4 DEF FactorsKept
<1>5. ASSUME NEW p \in Procs, req[p].at # "idle"
      PROVE req[p].user \in Users /\ row[req[p].user] \in Rows
  BY <1>5, RequestOf
<1>6. ASSUME NEW u \in Users
      PROVE /\ \A b : LET r == [row[u] EXCEPT !.active = b] IN
                /\ r.enabled = row[u].enabled /\ r.secret = row[u].secret /\ r.codes = row[u].codes
            /\ \A b : LET r == [row[u] EXCEPT !.role = b] IN
                /\ r.enabled = row[u].enabled /\ r.secret = row[u].secret /\ r.codes = row[u].codes
            /\ \A b : LET r == [row[u] EXCEPT !.link = b] IN
                /\ r.enabled = row[u].enabled /\ r.secret = row[u].secret /\ r.codes = row[u].codes
  BY <1>1 DEF Rows
<1>7. ASSUME NEW p \in Procs, Deactivate(p) \/ Reactivate(p) \/ Link(p) \/ LinkNew(p)
                    \/ \E role \in Roles : UpdateRole(p, role)
      PROVE FactorsKept
  <2>1. req[p].user \in Users
    BY <1>5, <1>7 DEF Deactivate, Reactivate, Link, LinkNew, UpdateRole
  <2> QED
    BY <1>3, <1>6, <1>7, <2>1 DEF Deactivate, Reactivate, Link, LinkNew, SetLink, UpdateRole
<1>8. ASSUME NEW u \in Users, NEW step \in Managing, NEW role \in Roles, HostManage(u, step, role)
      PROVE FactorsKept
  BY <1>3, <1>6, <1>8 DEF HostManage
<1>9. ASSUME NEW p \in Procs, InsertAccount(p) \/ \E role \in Roles : CreateUser(p, role)
      PROVE \E v \in Users : AccountMade(v)
  BY <1>9, AccountsAreMade
<1>10. CASE AccountsStep
  <2>1. ASSUME NEW p \in Procs,
               \/ Fail(p) \/ BeginMFAChallenge(p) \/ Create(p) \/ ResolveMFAChallenge(p)
               \/ Principal(p) \/ RevokeAllForUser(p)
        PROVE FactorsKept
    BY <1>4, <2>1 DEF Fail, BeginMFAChallenge, Create, ResolveMFAChallenge, Principal,
       RevokeAllForUser
  <2>2. ASSUME NEW p \in Procs, NEW u \in Users, Authenticate(p, u) PROVE FactorsKept
    BY <1>4, <2>2 DEF Authenticate
  <2>3. ASSUME NEW p \in Procs, NEW ch \in challenges, FindChallenge(p, ch) PROVE FactorsKept
    BY <1>4, <2>3 DEF FindChallenge
  <2>4. ASSUME NEW p \in Procs, NEW code \in Presented, VerifyMFA(p, code) \/ PendingSecret(p, code)
        PROVE FactorsKept
    BY <1>4, <2>4 DEF VerifyMFA, PendingSecret
  <2>5. ASSUME NEW p \in Procs, NEW s \in sessions, NEW step \in OwnSteps, Enter(p, s, step)
        PROVE FactorsKept
    BY <1>4, <2>5 DEF Enter
  <2>6. ASSUME NEW p \in Procs, NEW s \in sessions, NEW u \in Users,
               NEW step \in Managing \cup {"create"}, EnterManaging(p, s, u, step)
        PROVE FactorsKept
    BY <1>4, <2>6 DEF EnterManaging
  <2>7. ASSUME \/ \E s \in sessions : SessionEnds(s)
               \/ \E ch \in challenges : ChallengeExpires(ch)
        PROVE FactorsKept
    BY <1>4, <2>7 DEF SessionEnds, ChallengeExpires
  <2> QED
    BY <1>7, <1>8, <1>9, <1>10, <2>1, <2>2, <2>3, <2>4, <2>5, <2>6, <2>7 DEF AccountsStep
<1>11. CASE OAuthStep
  BY <1>4, <1>7, <1>9, <1>11 DEF OAuthStep, Move, accountVars, Callback, UserIDByOAuth,
     UserIDByEmail, Reread
<1> QED
  BY <1>10, <1>11 DEF Next

-----------------------------------------------------------------------------
\* The secret of an account that asks for a second factor.

SecretInv ==
    /\ EnabledSecretWasProved
    /\ \A p \in Procs : req[p].at = "enable" => req[p].code[1] = req[p].secret

LEMMA InitSecret == Init => SecretInv
BY DEF Init, AccountsInit, SecretInv, EnabledSecretWasProved, Idle

LEMMA NextSecret == ASSUME AccountsTyped, SecretInv, Next PROVE SecretInv'
<1>1. ASSUME NEW p \in Procs, req'[p].at = "enable" PROVE req'[p].code[1] = req'[p].secret
  <2>1. CASE req'[p] = req[p]
    BY <1>1, <2>1 DEF SecretInv
  <2>2. CASE req'[p] # req[p]
    <3>1. PICK code \in Presented : PendingSecret(p, code)
      <4>1. req'[p].at = "enable" /\ req'[p].at \notin Unremarkable
        BY <1>1 DEF Unremarkable
      <4>2. Arrived(p)
        BY <2>2, Arrivals
      <4> QED
        BY <4>1, <4>2 DEF Arrived
    <3>2. req'[p].code = code /\ req'[p].secret = row[req[p].user].secret
      BY <3>1 DEF PendingSecret, AccountsTyped, AccountsTypeOK, Requests
    <3>3. code = <<row[req[p].user].secret, 0>>
      BY <3>1 DEF PendingSecret, TOTP
    <3> QED
      BY <3>2, <3>3
  <2> QED
    BY <2>1, <2>2
<1>2. EnabledSecretWasProved'
  <2> SUFFICES ASSUME NEW u \in Users, row'[u].enabled, u \notin disturbed'
               PROVE row'[u].secret = proved'[u]
    BY DEF EnabledSecretWasProved
  <2> USE DEF SecretInv, EnabledSecretWasProved
  <2>1. row \in [Users -> Rows] /\ row[u] \in Rows /\ proved \in [Users -> 0 .. MaxMinted]
    BY DEF AccountsTyped, AccountsTypeOK
  <2>2. CASE FactorsKept
    BY <2>2 DEF FactorsKept, secretHistory
  <2>3. CASE \E v \in Users : AccountMade(v)
    BY <2>3 DEF AccountMade, secretHistory
  <2>4. ASSUME NEW p \in Procs, Consume(p) PROVE row'[u].secret = proved'[u]
    <3>1. UNCHANGED secretHistory /\ row'[u].secret = row[u].secret
          /\ row'[u].enabled = row[u].enabled
      BY <2>1, <2>4 DEF Consume, SetRow, Rows
    <3> QED
      BY <3>1 DEF secretHistory
  <2>5. ASSUME NEW p \in Procs, BeginMFAEnrollment(p) PROVE row'[u].secret = proved'[u]
    <3>1. proved' = proved /\ row'[u].enabled = row[u].enabled
          /\ (u # req[p].user => row'[u] = row[u])
      BY <2>1, <2>5 DEF BeginMFAEnrollment, SetRow, Rows
    <3>2. u = req[p].user => u \in disturbed'
      BY <2>5, <3>1 DEF BeginMFAEnrollment
    <3>3. disturbed \subseteq disturbed'
      BY <2>5 DEF BeginMFAEnrollment
    <3> QED
      BY <3>1, <3>2, <3>3
  <2>6. ASSUME NEW p \in Procs, Enable(p) PROVE row'[u].secret = proved'[u]
    <3>1. req[p].code[1] = req[p].secret
      BY <2>6 DEF Enable
    <3>2. CASE u = req[p].user
      <4>1. row'[u].secret = row[u].secret /\ proved'[u] = req[p].code[1]
        BY <2>1, <2>6, <3>2 DEF Enable, SetRow, Rows
      <4>2. row[u].secret = req[p].secret
        BY <2>6, <3>2 DEF Enable
      <4> QED
        BY <3>1, <4>1, <4>2
    <3>3. CASE u # req[p].user
      <4>1. row'[u] = row[u] /\ proved'[u] = proved[u]
        BY <2>1, <2>6, <3>3 DEF Enable, SetRow
      <4>2. u \notin disturbed
        BY <2>6, <3>3 DEF Enable
      <4> QED
        BY <4>1, <4>2
    <3> QED
      BY <3>2, <3>3
  <2>7. ASSUME NEW p \in Procs, DisableMFA(p) PROVE row'[u].secret = proved'[u]
    <3>1. UNCHANGED secretHistory
      BY <2>7 DEF DisableMFA, history
    <3>2. CASE u = req[p].user
      <4>1. row'[u].enabled = FALSE
        BY <2>1, <2>7, <3>2 DEF DisableMFA, SetRow, Rows
      <4> QED
        BY <4>1
    <3>3. CASE u # req[p].user
      <4>1. row'[u] = row[u]
        BY <2>1, <2>7, <3>3 DEF DisableMFA, SetRow
      <4> QED
        BY <3>1, <4>1 DEF secretHistory
    <3> QED
      BY <3>2, <3>3
  <2> QED
    BY <2>2, <2>3, <2>4, <2>5, <2>6, <2>7, FactorSteps
<1> QED
  BY <1>1, <1>2 DEF SecretInv

\* mfa.go:88-92, 108-110: for any accounts and any requests at a time, the
\* secret in force is the one its user confirmed, unless an enrolment or a
\* confirmation that overlapped replaced it.
THEOREM SecretWasProved == Spec => []EnabledSecretWasProved
<1>1. SecretInv /\ AccountsTyped /\ [Next]_loginVars => SecretInv'
  <2>1. CASE UNCHANGED loginVars
    BY <2>1 DEF SecretInv, EnabledSecretWasProved, loginVars, accountVars, history, secretHistory
  <2> QED
    BY <2>1, NextSecret
<1>2. SecretInv => EnabledSecretWasProved
  BY DEF SecretInv
<1> QED
  BY <1>1, <1>2, InitSecret, AccountsStayTyped, PTL DEF Spec
-----------------------------------------------------------------------------
\* Recovery codes.  No list holds a code that has opened the way, save on an
\* account whose list was written back from a stale copy; and what was made so
\* far bounds every code there is, so that a new list is of new codes.

CodeLists ==
    /\ RecoveryCodesOnce
    /\ \A u \in Users : \A c \in row[u].codes : c[1] <= minted
    /\ \A used \in accepted : used[2][1] <= minted
    /\ \A used \in accepted : used[1] \notin raced => used[2] \notin row[used[1]].codes

CodesRead ==
    \A p \in Procs : req[p].at = "consume" =>
        req[p].code \in req[p].codes /\ \A c \in req[p].codes : c[1] <= minted

LEMMA InitCodes == Init => CodeLists /\ CodesRead
<1> SUFFICES ASSUME Init PROVE CodeLists /\ CodesRead
  OBVIOUS
<1>1. \A u \in Users : row[u].codes = {} \/ row[u].codes = CodesOf(1)
  <2>1. Absent.codes = {} /\ Created("viewer", TRUE).codes = {} /\ Created("admin", TRUE).codes = {}
    BY DEF Absent, Created
  <2>2. [Created("viewer", TRUE) EXCEPT !.enabled = TRUE, !.secret = 1, !.codes = CodesOf(1)].codes
            = CodesOf(1)
    BY DEF Absent, Created
  <2> QED
    BY <2>1, <2>2 DEF Init, AccountsInit
<1>2. minted = 1 /\ \A c \in CodesOf(1) : c[1] <= 1
  <2>1. minted = 1
    BY DEF Init, AccountsInit
  <2>2. \A c \in CodesOf(1) : c[1] = 1
    BY DEF CodesOf
  <2> QED
    BY <2>1, <2>2
<1>3. accepted = {} /\ reused = {} /\ \A p \in Procs : req[p].at = "idle"
  BY DEF Init, AccountsInit, Idle
<1> QED
  BY <1>1, <1>2, <1>3 DEF CodeLists, CodesRead, RecoveryCodesOnce

\* One verification with a recovery code, on the account's row.
LEMMA ConsumeStep ==
    ASSUME AccountsTyped, NEW p \in Procs, Consume(p)
    PROVE LET q == req[p]  u == req[p].user IN
            /\ u \in Users /\ q.code \in Presented
            /\ row'[u].codes = q.codes \ {q.code}
            /\ \A v \in Users \ {u} : row'[v] = row[v]
            /\ Accept(q.code, q.codes, u) /\ minted' = minted
<1> DEFINE u == req[p].user
           r == [row[u] EXCEPT !.codes = req[p].codes \ {req[p].code}]
<1>1. u \in Users /\ req[p] \in Requests /\ row[u] \in Rows /\ row \in [Users -> Rows]
  BY RequestOf DEF Consume, AccountsTyped, AccountsTypeOK
<1>2. r.codes = req[p].codes \ {req[p].code}
  BY <1>1 DEF Rows
<1>3. row' = [row EXCEPT ![u] = r] /\ Accept(req[p].code, req[p].codes, u) /\ minted' = minted
  BY DEF Consume, SetRow, counters
<1>4. req[p].code \in Presented
  BY <1>1 DEF Requests
<1> HIDE DEF r
<1> QED
  BY <1>1, <1>2, <1>3, <1>4

LEMMA MintedGrows == ASSUME AccountsTyped, Next PROVE minted' >= minted
<1>1. minted \in Nat
  BY AccountsAssumption DEF AccountsTyped, AccountsTypeOK
<1>2. minted' = minted \/ minted' = minted + 1
  BY FactorSteps DEF FactorsKept, AccountMade, Consume, BeginMFAEnrollment, Enable, DisableMFA,
     counters
<1> QED
  BY <1>1, <1>2

LEMMA NextCodesRead == ASSUME AccountsTyped, CodeLists, CodesRead, Next PROVE CodesRead'
<1> SUFFICES ASSUME NEW p \in Procs, req'[p].at = "consume"
             PROVE req'[p].code \in req'[p].codes /\ \A c \in req'[p].codes : c[1] <= minted'
  BY DEF CodesRead
<1>1. /\ minted \in Nat /\ minted' \in Nat /\ minted' >= minted /\ row \in [Users -> Rows]
      /\ req \in [Procs -> Requests]
  BY AccountsAssumption, NextTyped, MintedGrows DEF AccountsTyped, AccountsTypeOK
<1>2. \A c \in Presented : c[1] \in Int
  BY AccountsAssumption DEF Presented
<1>3. CASE req'[p] = req[p]
  <2>1. req[p].codes \subseteq Presented
    BY <1>1 DEF Requests
  <2>2. req[p].code \in req[p].codes /\ \A c \in req[p].codes : c[1] <= minted
    BY <1>3 DEF CodesRead
  <2> QED
    BY <1>1, <1>2, <1>3, <2>1, <2>2
<1>4. CASE req'[p] # req[p]
  <2>1. PICK code \in Presented : VerifyMFA(p, code)
    <3>1. Arrived(p)
      BY <1>4, Arrivals
    <3>2. req'[p].at \notin Unremarkable
      BY DEF Unremarkable
    <3> QED
      BY <3>1, <3>2 DEF Arrived
  <2>2. req[p].user \in Users
    BY <2>1, RequestOf DEF VerifyMFA
  <2>3. code \in row[req[p].user].codes /\ req'[p].code = code /\ req'[p].codes = row[req[p].user].codes
    BY <1>1, <2>1 DEF VerifyMFA, Goto, End, Idle, Requests
  <2>4. \A c \in row[req[p].user].codes : c \in Presented /\ c[1] <= minted
    BY <1>1, <2>2 DEF CodeLists, Rows
  <2> QED
    BY <1>1, <1>2, <2>3, <2>4
<1> QED
  BY <1>3, <1>4

LEMMA NextCodeLists == ASSUME AccountsTyped, CodeLists, CodesRead, Next PROVE CodeLists'
<1>1. /\ row \in [Users -> Rows] /\ minted \in Nat /\ minted' \in Nat /\ minted' >= minted
      /\ accepted \subseteq Users \X Presented /\ reused \subseteq accepted
  BY AccountsAssumption, NextTyped, MintedGrows DEF AccountsTyped, AccountsTypeOK
<1>2. \A c \in Presented : c[1] \in Int
  BY AccountsAssumption DEF Presented
<1>3. ASSUME NEW u \in Users, NEW c \in row[u].codes PROVE c[1] \in Int /\ c[1] <= minted
  BY <1>1, <1>2, <1>3 DEF CodeLists, Rows
<1>4. ASSUME NEW used \in accepted
      PROVE used[1] \in Users /\ used[2][1] \in Int /\ used[2][1] <= minted
  BY <1>1, <1>2, <1>4 DEF CodeLists
\* Steps that accept no code and leave or shorten the lists.
<1>5. ASSUME UNCHANGED codeHistory, \A u \in Users : row'[u].codes \subseteq row[u].codes
      PROVE CodeLists'
  <2>1. UNCHANGED <<accepted, reused, raced>>
    BY <1>5 DEF codeHistory
  <2>2. RecoveryCodesOnce'
    BY <2>1 DEF CodeLists, RecoveryCodesOnce
  <2>3. \A u \in Users : \A c \in row'[u].codes : c[1] <= minted'
    BY <1>1, <1>3, <1>5
  <2>4. \A used \in accepted' : used[2][1] <= minted'
    BY <1>1, <1>4, <2>1
  <2>5. \A used \in accepted' : used[1] \notin raced' => used[2] \notin row'[used[1]].codes
    BY <1>4, <1>5, <2>1 DEF CodeLists
  <2> QED
    BY <2>2, <2>3, <2>4, <2>5 DEF CodeLists
<1>6. ASSUME NEW p \in Procs, Consume(p) PROVE CodeLists'
  <2> DEFINE u == req[p].user  code == req[p].code  copy == req[p].codes
  <2>1. /\ u \in Users /\ code \in Presented /\ row'[u].codes = copy \ {code}
        /\ \A v \in Users \ {u} : row'[v] = row[v]
        /\ Accept(code, copy, u) /\ minted' = minted
    BY <1>6, ConsumeStep
  <2>2. code \in copy /\ \A c \in copy : c[1] <= minted
    BY <1>6 DEF Consume, CodesRead
  <2> HIDE DEF u, code, copy
  <2>3. raced \subseteq raced' /\ (row[u].codes # copy => u \in raced')
    BY <2>1 DEF Accept
  <2>4. RecoveryCodesOnce'
    <3> SUFFICES ASSUME NEW used \in reused' PROVE used[1] \in raced'
      BY DEF RecoveryCodesOnce
    <3>1. CASE used \in reused
      BY <2>3, <3>1 DEF CodeLists, RecoveryCodesOnce
    <3>2. CASE used = <<u, code>> /\ used \in accepted
      <4>1. used[1] = u /\ used[2] = code
        BY <3>2
      <4>2. u \in raced \/ code \notin row[u].codes
        BY <3>2, <4>1 DEF CodeLists
      <4> QED
        BY <2>2, <2>3, <4>1, <4>2
    <3> QED
      BY <2>1, <3>1, <3>2 DEF Accept
  <2>5. \A v \in Users : \A c \in row'[v].codes : c[1] <= minted'
    BY <1>3, <2>1, <2>2
  <2>6. \A used \in accepted' : used[2][1] <= minted'
    BY <1>4, <2>1, <2>2 DEF Accept
  <2>7. ASSUME NEW used \in accepted', used[1] \notin raced'
        PROVE used[2] \notin row'[used[1]].codes
    <3>1. CASE used = <<u, code>>
      BY <2>1, <3>1
    <3>2. CASE used \in accepted /\ used[1] = u
      <4>1. row[u].codes = copy /\ used[2] \notin row[u].codes
        BY <2>3, <2>7, <3>2 DEF CodeLists
      <4> QED
        BY <2>1, <3>2, <4>1
    <3>3. CASE used \in accepted /\ used[1] # u
      BY <1>4, <2>1, <2>3, <2>7, <3>3 DEF CodeLists
    <3> QED
      BY <2>1, <3>1, <3>2, <3>3 DEF Accept
  <2> QED
    BY <2>4, <2>5, <2>6, <2>7 DEF CodeLists
<1>7. ASSUME NEW p \in Procs, Enable(p) PROVE CodeLists'
  <2> DEFINE u == req[p].user
             r == [row[u] EXCEPT !.enabled = TRUE, !.codes = CodesOf(minted')]
  <2>1. u \in Users
    BY <1>7, RequestOf DEF Enable
  <2>2. r.codes = CodesOf(minted')
    BY <1>1, <2>1 DEF Rows
  <2>3. row' = [row EXCEPT ![u] = r] /\ minted' = minted + 1 /\ UNCHANGED <<accepted, reused, raced>>
    BY <1>7 DEF Enable, SetRow, codeHistory
  <2> HIDE DEF u, r
  <2>4. row'[u].codes = CodesOf(minted') /\ \A v \in Users \ {u} : row'[v] = row[v]
    BY <1>1, <2>1, <2>2, <2>3
  <2>5. \A c \in CodesOf(minted') : c[1] = minted'
    BY DEF CodesOf
  <2>6. RecoveryCodesOnce'
    BY <2>3 DEF CodeLists, RecoveryCodesOnce
  <2>7. \A v \in Users : \A c \in row'[v].codes : c[1] <= minted'
    BY <1>1, <1>3, <2>3, <2>4, <2>5
  <2>8. \A used \in accepted' : used[2][1] <= minted'
    BY <1>1, <1>4, <2>3
  <2>9. ASSUME NEW used \in accepted', used[1] \notin raced'
        PROVE used[2] \notin row'[used[1]].codes
    <3>1. used[2][1] # minted'
      BY <1>1, <1>4, <2>3
    <3>2. CASE used[1] = u
      BY <2>4, <2>5, <3>1, <3>2
    <3>3. CASE used[1] # u
      BY <1>4, <2>3, <2>4, <2>9, <3>3 DEF CodeLists
    <3> QED
      BY <3>2, <3>3
  <2> QED
    BY <2>6, <2>7, <2>8, <2>9 DEF CodeLists
<1>8. ASSUME NEW p \in Procs, BeginMFAEnrollment(p) PROVE CodeLists'
  <2> DEFINE u == req[p].user
             r == [row[u] EXCEPT !.secret = minted']
  <2>1. u \in Users
    BY <1>8, RequestOf DEF BeginMFAEnrollment
  <2>2. r.codes = row[u].codes
    BY <1>1, <2>1 DEF Rows
  <2>3. row' = [row EXCEPT ![u] = r] /\ UNCHANGED codeHistory
    BY <1>8 DEF BeginMFAEnrollment, SetRow
  <2> HIDE DEF u, r
  <2> QED
    BY <1>1, <1>5, <2>1, <2>2, <2>3
<1>9. ASSUME NEW p \in Procs, DisableMFA(p) PROVE CodeLists'
  <2> DEFINE u == req[p].user
             r == [row[u] EXCEPT !.enabled = FALSE, !.secret = 0, !.codes = {}]
  <2>1. u \in Users
    BY <1>9, RequestOf DEF DisableMFA
  <2>2. r.codes = {}
    BY <1>1, <2>1 DEF Rows
  <2>3. row' = [row EXCEPT ![u] = r] /\ UNCHANGED codeHistory
    BY <1>9 DEF DisableMFA, SetRow, history
  <2> HIDE DEF u, r
  <2> QED
    BY <1>1, <1>5, <2>1, <2>2, <2>3
<1>10. CASE FactorsKept
  BY <1>5, <1>10 DEF FactorsKept
<1>11. ASSUME NEW v \in Users, AccountMade(v) PROVE CodeLists'
  <2>1. UNCHANGED codeHistory /\ \A u \in Users : row'[u].codes \subseteq row[u].codes
    BY <1>11 DEF AccountMade
  <2> QED
    BY <1>5, <2>1
<1> QED
  BY <1>6, <1>7, <1>8, <1>9, <1>10, <1>11, FactorSteps

\* mfa.go:138-140: for any accounts, requests at a time and length of the code
\* list, a recovery code opens the way again only on an account whose list some
\* verification wrote back from a copy that was no longer the stored one.
THEOREM CodesOnce == Spec => []RecoveryCodesOnce
<1>1. CodeLists /\ CodesRead /\ AccountsTyped /\ [Next]_loginVars => CodeLists' /\ CodesRead'
  <2>1. CASE UNCHANGED loginVars
    <3>1. UNCHANGED <<row, req, minted, accepted, reused, raced>>
      BY <2>1 DEF loginVars, accountVars, history, counters, codeHistory
    <3> QED
      BY <3>1 DEF CodeLists, CodesRead, RecoveryCodesOnce
  <2> QED
    BY <2>1, NextCodeLists, NextCodesRead
<1>2. CodeLists => RecoveryCodesOnce
  BY DEF CodeLists
<1> QED
  BY <1>1, <1>2, InitCodes, AccountsStayTyped, PTL DEF Spec

-----------------------------------------------------------------------------
\* Sessions, deactivations and links: which steps touch them, and how.

RowSteps(p) ==
    \/ Fail(p) \/ RevokeAllForUser(p) \/ Consume(p) \/ BeginMFAEnrollment(p) \/ Enable(p)
    \/ DisableMFA(p) \/ Deactivate(p) \/ Reactivate(p)
    \/ \E role \in Roles : UpdateRole(p, role)

LEMMA StepsByEffect ==
    ASSUME Next
    PROVE \/ UNCHANGED <<row, deactivations, home, displaced>>
          \/ UNCHANGED <<home, displaced>> /\ \E p \in Procs :
                InsertAccount(p) \/ \E role \in Roles : CreateUser(p, role)
          \/ UNCHANGED <<home, displaced>> /\ \E p \in Procs : RowSteps(p)
          \/ UNCHANGED <<home, displaced>> /\ \E u \in Users, step \in Managing, role \in Roles :
                HostManage(u, step, role)
          \/ \E p \in Procs : Link(p) \/ LinkNew(p)
<1> DEFINE Quiet == UNCHANGED <<row, deactivations>>
<1>1. ASSUME NEW p \in Procs,
             \/ BeginMFAChallenge(p) \/ Create(p) \/ ResolveMFAChallenge(p) \/ Principal(p)
      PROVE Quiet
  BY <1>1 DEF BeginMFAChallenge, Create, ResolveMFAChallenge, Principal, history
<1>2. ASSUME NEW p \in Procs, NEW u \in Users, Authenticate(p, u) PROVE Quiet
  BY <1>2 DEF Authenticate, history
<1>3. ASSUME NEW p \in Procs, NEW ch \in challenges, FindChallenge(p, ch) PROVE Quiet
  BY <1>3 DEF FindChallenge, history
<1>4. ASSUME NEW p \in Procs, NEW code \in Presented, VerifyMFA(p, code) \/ PendingSecret(p, code)
      PROVE Quiet
  BY <1>4 DEF VerifyMFA, PendingSecret, history
<1>5. ASSUME NEW p \in Procs, NEW s \in sessions, NEW step \in OwnSteps, Enter(p, s, step)
      PROVE Quiet
  BY <1>5 DEF Enter, history
<1>6. ASSUME NEW p \in Procs, NEW s \in sessions, NEW u \in Users,
             NEW step \in Managing \cup {"create"}, EnterManaging(p, s, u, step)
      PROVE Quiet
  BY <1>6 DEF EnterManaging, history
<1>7. ASSUME \/ \E s \in sessions : SessionEnds(s)
             \/ \E ch \in challenges : ChallengeExpires(ch)
      PROVE Quiet
  BY <1>7 DEF SessionEnds, ChallengeExpires, history
<1>8. CASE AccountsStep /\ UNCHANGED oauthVars
  <2>1. UNCHANGED <<home, displaced>>
    BY <1>8 DEF oauthVars
  <2> HIDE DEF Quiet
  <2>2. \/ Quiet \/ \E p \in Procs : RowSteps(p) \/ \E role \in Roles : CreateUser(p, role)
        \/ \E u \in Users, step \in Managing, role \in Roles : HostManage(u, step, role)
    BY <1>1, <1>2, <1>3, <1>4, <1>5, <1>6, <1>7, <1>8 DEF AccountsStep, RowSteps
  <2> QED
    BY <2>1, <2>2 DEF Quiet
<1>9. CASE OAuthStep
  <2>1. ASSUME NEW s \in Subjects, NEW u \in Users, Move(s, u)
        PROVE UNCHANGED <<row, deactivations, home, displaced>>
    BY <2>1 DEF Move, accountVars, history
  <2>2. ASSUME NEW p \in Procs,
               \/ UserIDByOAuth(p) \/ UserIDByEmail(p) \/ Reread(p)
               \/ \E s \in Subjects : Callback(p, s)
        PROVE UNCHANGED <<row, deactivations, home, displaced>>
    BY <2>2 DEF UserIDByOAuth, UserIDByEmail, Reread, Callback, history, oauthVars
  <2>3. ASSUME NEW p \in Procs, InsertAccount(p) PROVE UNCHANGED <<home, displaced>>
    BY <2>3 DEF InsertAccount, oauthVars
  <2> QED
    BY <1>9, <2>1, <2>2, <2>3 DEF OAuthStep
<1> QED
  BY <1>8, <1>9 DEF Next

\* What the statements on a row that is there leave alone.
LEMMA RowStepKeeps ==
    ASSUME AccountsTyped, NEW p \in Procs, RowSteps(p), NEW u \in Users
    PROVE /\ row'[u].is = row[u].is /\ row'[u].link = row[u].link
          /\ Deactivate(p) \/ (row[u].active => row'[u].active)
<1>1. row \in [Users -> Rows] /\ row[u] \in Rows
  BY DEF AccountsTyped, AccountsTypeOK
<1>2. ASSUME NEW v, NEW r, SetRow(v, r), v = u => r.is = row[u].is /\ r.link = row[u].link,
             v = u => (Deactivate(p) \/ (row[u].active => r.active))
      PROVE /\ row'[u].is = row[u].is /\ row'[u].link = row[u].link
            /\ Deactivate(p) \/ (row[u].active => row'[u].active)
  <2>1. CASE v = u
    <3>1. row'[u] = r
      BY <1>1, <1>2, <2>1 DEF SetRow
    <3> QED
      BY <1>2, <2>1, <3>1
  <2>2. CASE v # u
    <3>1. row'[u] = row[u]
      BY <1>1, <1>2, <2>2 DEF SetRow
    <3> QED
      BY <3>1
  <2> QED
    BY <2>1, <2>2
<1>3. CASE Fail(p) \/ RevokeAllForUser(p)
  BY <1>3 DEF Fail, RevokeAllForUser
<1>4. CASE Consume(p)
  BY <1>1, <1>2, <1>4 DEF Consume, Rows
<1>5. CASE BeginMFAEnrollment(p)
  BY <1>1, <1>2, <1>5 DEF BeginMFAEnrollment, Rows
<1>6. CASE Enable(p)
  BY <1>1, <1>2, <1>6 DEF Enable, Rows
<1>7. CASE DisableMFA(p)
  BY <1>1, <1>2, <1>7 DEF DisableMFA, Rows
<1>8. CASE Deactivate(p)
  BY <1>1, <1>2, <1>8 DEF Deactivate, Rows
<1>9. CASE Reactivate(p)
  BY <1>1, <1>2, <1>9 DEF Reactivate, Rows
<1>10. ASSUME NEW role \in Roles, UpdateRole(p, role)
       PROVE /\ row'[u].is = row[u].is /\ row'[u].link = row[u].link
             /\ Deactivate(p) \/ (row[u].active => row'[u].active)
  BY <1>1, <1>2, <1>10 DEF UpdateRole, Rows
<1> QED
  BY <1>3, <1>4, <1>5, <1>6, <1>7, <1>8, <1>9, <1>10 DEF RowSteps

LEMMA HostManageKeeps ==
    ASSUME AccountsTyped, NEW v \in Users, NEW step \in Managing, NEW role \in Roles,
           HostManage(v, step, role), NEW u \in Users
    PROVE /\ row'[u].is = row[u].is /\ row'[u].link = row[u].link
          /\ \/ deacts'[u] = deacts[u] /\ (row[u].active => row'[u].active)
             \/ deacts'[u] = deacts[u] + 1 /\ u \in unrevoked'
<1> DEFINE r == IF step = "role" THEN [row[v] EXCEPT !.role = role]
                ELSE [row[v] EXCEPT !.active = ~(step = "deactivate")]
<1>1. row \in [Users -> Rows] /\ row[v] \in Rows /\ deacts \in [Users -> Nat]
  BY DEF AccountsTyped, AccountsTypeOK
<1>2. /\ r.is = row[v].is /\ r.link = row[v].link
      /\ step # "deactivate" => (row[v].active => r.active)
  BY <1>1 DEF Rows
<1>3. row' = [row EXCEPT ![v] = r]
  BY DEF HostManage, SetRow
<1>4. deacts' = [deacts EXCEPT ![v] = IF step = "deactivate" THEN @ + 1 ELSE @]
  BY DEF HostManage
<1>5. step = "deactivate" => v \in unrevoked'
  BY DEF HostManage
<1> HIDE DEF r
<1> QED
  BY <1>1, <1>2, <1>3, <1>4, <1>5

\* A session is made by Create alone.
LEMMA SessionsMade ==
    ASSUME Next PROVE sessions' \subseteq sessions \/ \E p \in Procs : Create(p)
<1>1. CASE AccountsStep
  <2>1. ASSUME NEW p \in Procs,
               \/ Fail(p) \/ BeginMFAChallenge(p) \/ Consume(p) \/ ResolveMFAChallenge(p)
               \/ BeginMFAEnrollment(p) \/ Enable(p) \/ DisableMFA(p) \/ Principal(p)
               \/ Deactivate(p) \/ Reactivate(p)
               \/ \E role \in Roles : CreateUser(p, role) \/ UpdateRole(p, role)
        PROVE sessions' \subseteq sessions
    BY <2>1 DEF Fail, BeginMFAChallenge, Consume, ResolveMFAChallenge, BeginMFAEnrollment, Enable,
       DisableMFA, Principal, Deactivate, Reactivate, CreateUser, UpdateRole
  <2>2. ASSUME NEW p \in Procs, RevokeAllForUser(p) PROVE sessions' \subseteq sessions
    BY <2>2 DEF RevokeAllForUser
  <2>3. ASSUME NEW p \in Procs,
               \/ \E u \in Users : Authenticate(p, u)
               \/ \E ch \in challenges : FindChallenge(p, ch)
        PROVE sessions' \subseteq sessions
    BY <2>3 DEF Authenticate, FindChallenge
  <2>4. ASSUME NEW p \in Procs, NEW code \in Presented, VerifyMFA(p, code) \/ PendingSecret(p, code)
        PROVE sessions' \subseteq sessions
    BY <2>4 DEF VerifyMFA, PendingSecret
  <2>5. ASSUME NEW p \in Procs,
               \/ \E s \in sessions, step \in OwnSteps : Enter(p, s, step)
               \/ \E s \in sessions, u \in Users, step \in Managing \cup {"create"} :
                    EnterManaging(p, s, u, step)
        PROVE sessions' \subseteq sessions
    BY <2>5 DEF Enter, EnterManaging
  <2>6. ASSUME \/ \E u \in Users, step \in Managing, role \in Roles : HostManage(u, step, role)
               \/ \E s \in sessions : SessionEnds(s)
               \/ \E ch \in challenges : ChallengeExpires(ch)
        PROVE sessions' \subseteq sessions
    BY <2>6 DEF HostManage, SessionEnds, ChallengeExpires
  <2> QED
    BY <1>1, <2>1, <2>2, <2>3, <2>4, <2>5, <2>6 DEF AccountsStep
<1>2. CASE OAuthStep
  BY <1>2 DEF OAuthStep, Move, accountVars, Callback, UserIDByOAuth, UserIDByEmail, Link,
     InsertAccount, LinkNew, Reread
<1> QED
  BY <1>1, <1>2 DEF Next

LEMMA CreateStep ==
    ASSUME AccountsTyped, NEW p \in Procs, Create(p)
    PROVE /\ UNCHANGED <<row, deacts, unrevoked>> /\ req[p].user \in Users
          /\ \A s \in sessions' \ sessions :
                /\ s.user = req[p].user /\ s.via = req[p].via /\ s.subject = req[p].subject
                /\ s.stamp = req[p].stamp /\ s.born = deacts[req[p].user]
<1>1. req[p].user \in Users
  BY RequestOf DEF Create
<1>2. UNCHANGED <<row, deacts, unrevoked>>
  BY DEF Create, history, deactivations
<1> DEFINE new == [token |-> opened', user |-> req[p].user, via |-> req[p].via,
                   subject |-> req[p].subject, stamp |-> req[p].stamp,
                   born |-> deacts[req[p].user]]
<1>3. sessions' = sessions \cup {new}
  BY DEF Create
<1>4. /\ new.user = req[p].user /\ new.via = req[p].via /\ new.subject = req[p].subject
      /\ new.stamp = req[p].stamp /\ new.born = deacts[req[p].user]
  OBVIOUS
<1> HIDE DEF new
<1> QED
  BY <1>1, <1>2, <1>3, <1>4

-----------------------------------------------------------------------------
\* What a deactivation puts an end to.

StandingRead ==
    \A p \in Procs :
        /\ req[p].at \in {"open", "linkNew"} /\ req[p].via # "mfa" =>
            /\ req[p].stamp <= deacts[req[p].user]
            /\ req[p].stamp = deacts[req[p].user] => row[req[p].user].active
        /\ req[p].at \in {"check", "consume", "resolve"} => req[p].via = "mfa"

DeactivationInv ==
    /\ DeactivationHolds
    /\ \A s \in sessions : s.born <= deacts[s.user]
    /\ StandingRead

LEMMA InitStanding == Init => DeactivationInv
<1> SUFFICES ASSUME Init PROVE DeactivationInv
  OBVIOUS
<1>1. \A p \in Procs : req[p].at = "idle"
  BY DEF Init, AccountsInit, Idle
<1>2. PICK u \in Users :
        /\ row[u] = Created("admin", TRUE)
        /\ sessions = {[token |-> 1, user |-> u, via |-> "password",
                        subject |-> NoSubject, stamp |-> 0, born |-> 0]}
  BY DEF Init, AccountsInit
<1>3. row[u].active
  BY <1>2 DEF Created, Absent
<1>4. \A s \in sessions : s.user = u /\ s.born = 0 /\ deacts[u] = 0
  BY <1>2 DEF Init, AccountsInit
<1> QED
  BY <1>1, <1>3, <1>4 DEF DeactivationInv, DeactivationHolds, StandingRead

\* An account's standing falls only when its deactivation is counted, and then
\* its sessions are about to be revoked or known not to be.
LEMMA StandingFalls ==
    ASSUME AccountsTyped, Next, NEW u \in Users
    PROVE \/ deacts'[u] = deacts[u] /\ (row[u].active => row'[u].active)
          \/ deacts'[u] = deacts[u] + 1 /\ Revoking(u)'
<1>1. row \in [Users -> Rows] /\ deacts \in [Users -> Nat] /\ req \in [Procs -> Requests]
  BY DEF AccountsTyped, AccountsTypeOK
<1>2. CASE UNCHANGED <<row, deactivations, home, displaced>>
  BY <1>2 DEF deactivations
<1>3. ASSUME NEW p \in Procs, InsertAccount(p) \/ \E role \in Roles : CreateUser(p, role)
      PROVE deacts'[u] = deacts[u] /\ (row[u].active => row'[u].active)
  BY <1>3, AccountsAreMade DEF AccountMade
<1>4. ASSUME NEW p \in Procs, RowSteps(p), ~Deactivate(p)
      PROVE deacts'[u] = deacts[u] /\ (row[u].active => row'[u].active)
  <2>1. deacts' = deacts
    BY <1>4 DEF RowSteps, Fail, RevokeAllForUser, Consume, BeginMFAEnrollment, Enable, DisableMFA,
       Reactivate, UpdateRole, history, deactivations
  <2> QED
    BY <1>4, <2>1, RowStepKeeps
<1>5. ASSUME NEW p \in Procs, Deactivate(p)
      PROVE \/ deacts'[u] = deacts[u] /\ (row[u].active => row'[u].active)
            \/ deacts'[u] = deacts[u] + 1 /\ Revoking(u)'
  <2>1. req[p].user \in Users
    BY <1>5, RequestOf DEF Deactivate
  <2>2. CASE u = req[p].user
    <3>1. deacts'[u] = deacts[u] + 1
      BY <1>1, <1>5, <2>2 DEF Deactivate
    <3>2. req'[p].at = "revoke" /\ req'[p].user = u
      BY <1>1, <1>5, <2>2 DEF Deactivate, Goto, Requests
    <3> QED
      BY <3>1, <3>2 DEF Revoking
  <2>3. CASE u # req[p].user
    BY <1>1, <1>5, <2>1, <2>3 DEF Deactivate, SetRow
  <2> QED
    BY <2>2, <2>3
<1>6. ASSUME NEW v \in Users, NEW step \in Managing, NEW role \in Roles, HostManage(v, step, role)
      PROVE \/ deacts'[u] = deacts[u] /\ (row[u].active => row'[u].active)
            \/ deacts'[u] = deacts[u] + 1 /\ Revoking(u)'
  BY <1>6, HostManageKeeps DEF Revoking
<1>7. ASSUME NEW p \in Procs, Link(p) \/ LinkNew(p)
      PROVE deacts'[u] = deacts[u] /\ (row[u].active => row'[u].active)
  <2> DEFINE v == req[p].user
             r == [row[v] EXCEPT !.link = req[p].subject]
  <2>1. v \in Users
    BY <1>7, RequestOf DEF Link, LinkNew
  <2>2. r.active = row[v].active
    BY <1>1, <2>1 DEF Rows
  <2>3. row' = [row EXCEPT ![v] = r] /\ deacts' = deacts
    BY <1>7 DEF Link, LinkNew, SetLink, SetRow, history, deactivations
  <2> HIDE DEF v, r
  <2>4. row'[u].active = row[u].active
    BY <1>1, <2>1, <2>2, <2>3
  <2> QED
    BY <2>3, <2>4
<1> QED
  BY <1>2, <1>3, <1>4, <1>5, <1>6, <1>7, StepsByEffect DEF RowSteps

\* A request leaves the step that revokes by revoking, or by failing.
LEMMA RevokingLasts ==
    ASSUME AccountsTyped, Next, NEW u \in Users, Revoking(u)
    PROVE Revoking(u)' \/ \A s \in sessions' : s.user # u
<1>1. ASSUME NEW p \in Procs, RevokeAllForUser(p), req[p].user = u
      PROVE \A s \in sessions' : s.user # u
  BY <1>1 DEF RevokeAllForUser
<1>2. CASE u \in unrevoked
  <2>1. CASE UNCHANGED unrevoked
    BY <1>2, <2>1 DEF Revoking
  <2>2. ASSUME NEW p \in Procs, InsertAccount(p) \/ \E role \in Roles : CreateUser(p, role)
        PROVE UNCHANGED unrevoked
    BY <2>2, AccountsAreMade DEF AccountMade
  <2>3. ASSUME NEW p \in Procs, RowSteps(p)
        PROVE u \in unrevoked' \/ \A s \in sessions' : s.user # u
    BY <1>1, <1>2, <2>3 DEF RowSteps, Fail, RevokeAllForUser, Consume, BeginMFAEnrollment, Enable,
       DisableMFA, Deactivate, Reactivate, UpdateRole, history, deactivations
  <2>4. ASSUME NEW v \in Users, NEW step \in Managing, NEW role \in Roles, HostManage(v, step, role)
        PROVE u \in unrevoked'
    BY <1>2, <2>4 DEF HostManage
  <2>5. ASSUME NEW p \in Procs, Link(p) \/ LinkNew(p) PROVE UNCHANGED unrevoked
    BY <2>5 DEF Link, LinkNew, history, deactivations
  <2> QED
    BY <2>1, <2>2, <2>3, <2>4, <2>5, StepsByEffect DEF Revoking, deactivations
<1>3. ASSUME NEW p \in Procs, req[p].at = "revoke", req[p].user = u
      PROVE Revoking(u)' \/ \A s \in sessions' : s.user # u
  <2>1. CASE req'[p] = req[p]
    BY <1>3, <2>1 DEF Revoking
  <2>2. CASE req'[p] # req[p]
    <3>1. MovedOn(p) \/ MovedAtProvider(p)
      BY <2>2, Movers
    <3>2. Fail(p) \/ RevokeAllForUser(p)
      BY <1>3, <3>1 DEF MovedOn, MovedAtProvider, BeginMFAChallenge, Create, Consume,
         ResolveMFAChallenge, BeginMFAEnrollment, Enable, DisableMFA, Principal, Deactivate,
         Reactivate, Authenticate, FindChallenge, VerifyMFA, PendingSecret, Enter, EnterManaging,
         CreateUser, UpdateRole, Begin, UserIDByOAuth, UserIDByEmail, Link, InsertAccount, LinkNew,
         Reread, Callback
    <3>3. Fail(p) => u \in unrevoked'
      BY <1>3 DEF Fail
    <3> QED
      BY <1>1, <1>3, <3>2, <3>3 DEF Revoking
  <2> QED
    BY <2>1, <2>2
<1> QED
  BY <1>2, <1>3 DEF Revoking

LEMMA NextStandingRead == ASSUME AccountsTyped, StandingRead, Next PROVE StandingRead'
<1> SUFFICES ASSUME NEW p \in Procs
             PROVE /\ req'[p].at \in {"open", "linkNew"} /\ req'[p].via # "mfa" =>
                        /\ req'[p].stamp <= deacts'[req'[p].user]
                        /\ req'[p].stamp = deacts'[req'[p].user] => row'[req'[p].user].active
                   /\ req'[p].at \in {"check", "consume", "resolve"} => req'[p].via = "mfa"
  BY DEF StandingRead
<1>1. /\ row \in [Users -> Rows] /\ deacts \in [Users -> Nat] /\ req \in [Procs -> Requests]
      /\ Idle \in Requests
  BY RowsTyped DEF AccountsTyped, AccountsTypeOK
<1>2. ASSUME req[p].at \in {"open", "linkNew"}, req[p].via # "mfa"
      PROVE /\ req[p].stamp <= deacts'[req[p].user]
            /\ req[p].stamp = deacts'[req[p].user] => row'[req[p].user].active
  <2> DEFINE u == req[p].user
  <2>1. u \in Users /\ req[p].stamp \in Nat /\ deacts[u] \in Nat
    BY <1>1, <1>2, RequestOf DEF Requests
  <2>2. req[p].stamp <= deacts[u] /\ (req[p].stamp = deacts[u] => row[u].active)
    BY <1>2 DEF StandingRead
  <2>3. \/ deacts'[u] = deacts[u] /\ (row[u].active => row'[u].active)
        \/ deacts'[u] = deacts[u] + 1
    BY <2>1, StandingFalls
  <2> HIDE DEF u
  <2>4. CASE deacts'[u] = deacts[u] + 1
    BY <2>1, <2>2, <2>4 DEF u
  <2>5. CASE deacts'[u] = deacts[u] /\ (row[u].active => row'[u].active)
    BY <2>2, <2>5 DEF u
  <2> QED
    BY <2>3, <2>4, <2>5
<1>3. CASE req'[p] = req[p]
  BY <1>2, <1>3 DEF StandingRead
<1>4. CASE req'[p] # req[p]
  <2>1. Arrived(p)
    BY <1>4, Arrivals
  <2>2. ASSUME NEW step, Goto(p, step)
        PROVE req'[p].user = req[p].user /\ req'[p].via = req[p].via /\ req'[p].stamp = req[p].stamp
    <3> DEFINE r == [req[p] EXCEPT !.at = step]
    <3>1. req[p] \in Requests
      BY <1>1
    <3>2. r.user = req[p].user /\ r.via = req[p].via /\ r.stamp = req[p].stamp
      BY <3>1 DEF Requests
    <3>3. req' = [req EXCEPT ![p] = r]
      BY <2>2 DEF Goto
    <3> HIDE DEF r
    <3> QED
      BY <1>1, <3>2, <3>3
  <2>3. ASSUME req'[p].at \in {"check", "consume", "resolve"} PROVE req'[p].via = "mfa"
    <3>1. \/ \E ch \in challenges : FindChallenge(p, ch)
          \/ \E code \in Presented : VerifyMFA(p, code)
          \/ Consume(p)
      BY <2>1, <2>3 DEF Arrived, Unremarkable
    <3>2. ASSUME NEW ch \in challenges, FindChallenge(p, ch) PROVE req'[p].via = "mfa"
      <4> DEFINE q == [Idle EXCEPT !.at = "check", !.user = ch.user, !.token = ch.token, !.via = "mfa"]
      <4>1. q.via = "mfa"
        BY <1>1 DEF Requests
      <4>2. Begin(p, q)
        BY <3>2 DEF FindChallenge
      <4> HIDE DEF q
      <4> QED
        BY <1>1, <4>1, <4>2 DEF Begin
    <3>3. ASSUME NEW code \in Presented, VerifyMFA(p, code) PROVE req'[p].via = "mfa"
      <4>1. req[p].via = "mfa"
        BY <3>3 DEF VerifyMFA, StandingRead
      <4>2. \/ Goto(p, "resolve") \/ End(p)
            \/ \E codes : req' = [req EXCEPT ![p].at = "consume", ![p].codes = codes, ![p].code = code]
        BY <3>3 DEF VerifyMFA
      <4>3. CASE Goto(p, "resolve")
        BY <2>2, <4>1, <4>3
      <4>4. CASE End(p)
        BY <1>1, <2>3, <4>4 DEF End, Idle
      <4>5. ASSUME NEW codes,
                   req' = [req EXCEPT ![p].at = "consume", ![p].codes = codes, ![p].code = code]
            PROVE req'[p].via = "mfa"
        BY <1>1, <4>1, <4>5 DEF Requests
      <4> QED
        BY <4>2, <4>3, <4>4, <4>5
    <3>4. ASSUME Consume(p) PROVE req'[p].via = "mfa"
      BY <2>2, <3>4 DEF Consume, StandingRead
    <3> QED
      BY <3>1, <3>2, <3>3, <3>4
  <2>4. ASSUME req'[p].at \in {"open", "linkNew"}, req'[p].via # "mfa"
        PROVE /\ req'[p].stamp <= deacts'[req'[p].user]
              /\ req'[p].stamp = deacts'[req'[p].user] => row'[req'[p].user].active
    <3>1. \/ \E u \in Users : Authenticate(p, u)
          \/ ResolveMFAChallenge(p) \/ LinkNew(p) \/ Reread(p) \/ InsertAccount(p)
      BY <2>1, <2>4 DEF Arrived, Unremarkable
    <3>2. ASSUME NEW u \in Users, req'[p].user = u, req'[p].stamp = deacts[u],
                 deacts' = deacts, row'[u].active
          PROVE /\ req'[p].stamp <= deacts'[req'[p].user]
                /\ req'[p].stamp = deacts'[req'[p].user] => row'[req'[p].user].active
      BY <1>1, <3>2
    <3>3. ASSUME NEW u \in Users, Authenticate(p, u)
          PROVE req'[p].user = u /\ req'[p].stamp = deacts[u] /\ deacts' = deacts /\ row'[u].active
      <4> DEFINE q == [Idle EXCEPT !.at = IF row[u].enabled THEN "challenge" ELSE "open",
                                   !.user = u, !.stamp = deacts[u]]
      <4>1. q.user = u /\ q.stamp = deacts[u]
        BY <1>1 DEF Requests
      <4>2. Begin(p, q) /\ row[u].active /\ row' = row /\ deacts' = deacts
        BY <3>3 DEF Authenticate, history, deactivations
      <4> HIDE DEF q
      <4> QED
        BY <1>1, <4>1, <4>2 DEF Begin
    <3>4. ASSUME ResolveMFAChallenge(p) PROVE FALSE
      BY <2>2, <2>4, <3>4 DEF ResolveMFAChallenge, StandingRead
    <3>5. CASE LinkNew(p)
      <4>1. req[p].at = "linkNew" /\ Goto(p, "open")
        BY <3>5 DEF LinkNew
      <4>2. req'[p].user = req[p].user /\ req'[p].via = req[p].via /\ req'[p].stamp = req[p].stamp
        BY <2>2, <4>1
      <4> QED
        BY <1>2, <2>4, <4>1, <4>2
    <3>6. ASSUME Reread(p)
          PROVE LET u == req[p].user IN
                u \in Users /\ req'[p].user = u /\ req'[p].stamp = deacts[u] /\ deacts' = deacts
                /\ row'[u].active
      <4>1. req[p].user \in Users
        BY <3>6, RequestOf DEF Reread
      <4>2. row' = row /\ deacts' = deacts
        BY <3>6 DEF Reread, history, deactivations
      <4>3. ~End(p)
        BY <1>1, <2>4 DEF End, Idle
      <4>4. /\ row[req[p].user].active
            /\ req' = [req EXCEPT ![p].at = "open", ![p].stamp = deacts[req[p].user]]
        BY <3>6, <4>3 DEF Reread
      <4>5. req'[p].user = req[p].user /\ req'[p].stamp = deacts[req[p].user]
        BY <1>1, <4>4 DEF Requests
      <4> QED
        BY <4>1, <4>2, <4>4, <4>5
    <3>7. ASSUME InsertAccount(p)
          PROVE LET u == req[p].user IN
                u \in Users /\ req'[p].user = u /\ req'[p].stamp = deacts[u] /\ deacts' = deacts
                /\ row'[u].active
      <4>1. req[p].user \in Users
        BY <3>7, RequestOf DEF InsertAccount
      <4>2. deacts' = deacts /\ Created("viewer", FALSE).active
        BY <3>7 DEF InsertAccount, history, deactivations, Created, Absent
      <4>3. row'[req[p].user] = Created("viewer", FALSE)
        BY <1>1, <3>7, <4>1 DEF InsertAccount, SetRow
      <4>4. req'[p].user = req[p].user /\ req'[p].stamp = deacts[req[p].user]
        BY <1>1, <3>7 DEF InsertAccount, Requests
      <4> QED
        BY <4>1, <4>2, <4>3, <4>4
    <3> QED
      BY <3>1, <3>2, <3>3, <3>4, <3>5, <3>6, <3>7
  <2> QED
    BY <2>3, <2>4
<1> QED
  BY <1>3, <1>4

LEMMA NextDeactivation == ASSUME AccountsTyped, DeactivationInv, Next PROVE DeactivationInv'
<1>1. /\ deacts \in [Users -> Nat]
      /\ \A s \in sessions : s.user \in Users /\ s.born \in Nat /\ s.stamp \in Nat
  BY DEF AccountsTyped, AccountsTypeOK, Sessions
<1>2. StandingRead'
  BY NextStandingRead DEF DeactivationInv
<1>3. ASSUME NEW s \in sessions, s \in sessions'
      PROVE /\ s.born <= deacts'[s.user]
            /\ s.born < deacts'[s.user] => Revoking(s.user)'
            /\ s.born = deacts'[s.user] /\ ~row'[s.user].active => s.via = "mfa" \/ s.stamp < s.born
  <2> DEFINE u == s.user
  <2>1. u \in Users /\ s.born \in Nat /\ deacts[u] \in Nat /\ s.born <= deacts[u]
    BY <1>1 DEF DeactivationInv
  <2>2. /\ s.born < deacts[u] => Revoking(u)
        /\ s.born = deacts[u] /\ ~row[u].active => s.via = "mfa" \/ s.stamp < s.born
    BY DEF DeactivationInv, DeactivationHolds
  <2>3. Revoking(u) => Revoking(u)'
    BY <1>3, <2>1, RevokingLasts
  <2>4. \/ deacts'[u] = deacts[u] /\ (row[u].active => row'[u].active)
        \/ deacts'[u] = deacts[u] + 1 /\ Revoking(u)'
    BY <2>1, StandingFalls
  <2>5. CASE deacts'[u] = deacts[u] /\ (row[u].active => row'[u].active)
    BY <2>1, <2>2, <2>3, <2>5
  <2>6. CASE deacts'[u] = deacts[u] + 1 /\ Revoking(u)'
    BY <2>1, <2>6
  <2> QED
    BY <2>4, <2>5, <2>6
<1>4. ASSUME NEW s \in sessions', s \notin sessions
      PROVE /\ s.born = deacts'[s.user] /\ s.born \in Nat
            /\ ~row'[s.user].active => s.via = "mfa" \/ s.stamp < s.born
  <2>1. PICK p \in Procs : Create(p)
    BY <1>4, SessionsMade
  <2>2. /\ UNCHANGED <<row, deacts>> /\ req[p].user \in Users /\ s.user = req[p].user
        /\ s.via = req[p].via /\ s.stamp = req[p].stamp /\ s.born = deacts[req[p].user]
    BY <1>4, <2>1, CreateStep
  <2>3. req[p].via # "mfa" => /\ req[p].stamp <= deacts[req[p].user]
                              /\ req[p].stamp = deacts[req[p].user] => row[req[p].user].active
    BY <2>1 DEF Create, DeactivationInv, StandingRead
  <2>4. req[p].stamp \in Nat /\ deacts[req[p].user] \in Nat
    BY <1>1, <2>1, <2>2, RequestOf DEF Create, Requests
  <2> QED
    BY <2>2, <2>3, <2>4
<1>5. DeactivationHolds'
  <2> SUFFICES ASSUME NEW s \in sessions'
               PROVE /\ s.born < deacts'[s.user] => Revoking(s.user)'
                     /\ s.born = deacts'[s.user] /\ ~row'[s.user].active =>
                            s.via = "mfa" \/ s.stamp < s.born
    BY DEF DeactivationHolds
  <2>1. CASE s \in sessions
    BY <1>3, <2>1
  <2>2. CASE s \notin sessions
    <3>1. s.born = deacts'[s.user] /\ s.born \in Nat
      BY <1>4, <2>2
    <3>2. ~(s.born < deacts'[s.user])
      BY <3>1
    <3> QED
      BY <1>4, <2>2, <3>2
  <2> QED
    BY <2>1, <2>2
<1>6. \A s \in sessions' : s.born <= deacts'[s.user]
  <2> SUFFICES ASSUME NEW s \in sessions' PROVE s.born <= deacts'[s.user]
    OBVIOUS
  <2>1. CASE s \in sessions
    BY <1>3, <2>1
  <2>2. CASE s \notin sessions
    <3>1. s.born = deacts'[s.user] /\ s.born \in Nat
      BY <1>4, <2>2
    <3> QED
      BY <3>1
  <2> QED
    BY <2>1, <2>2
<1> QED
  BY <1>2, <1>5, <1>6 DEF DeactivationInv

\* users.go:70-73, users_manage.go:60-66: for any accounts and any requests at
\* a time, no session from before a deactivation outlives its revocation, and
\* none made later is for an account that was not looked at since, except by
\* answering a challenge.
THEOREM DeactivationEndsSessions == Spec => []DeactivationHolds
<1>1. DeactivationInv /\ AccountsTyped /\ [Next]_loginVars => DeactivationInv'
  <2>1. CASE UNCHANGED loginVars
    <3>1. UNCHANGED <<row, req, sessions, deacts, unrevoked>>
      BY <2>1 DEF loginVars, accountVars, history, deactivations
    <3> QED
      BY <3>1 DEF DeactivationInv, DeactivationHolds, StandingRead, Revoking
  <2> QED
    BY <2>1, NextDeactivation
<1>2. DeactivationInv => DeactivationHolds
  BY DEF DeactivationInv
<1> QED
  BY <1>1, <1>2, InitStanding, AccountsStayTyped, PTL DEF Spec

-----------------------------------------------------------------------------
\* Identities at the provider.  While no other identity has displaced it, an
\* identity and its account point at each other, and a request of the
\* identity's that has found an account has found that one.

LinkTables ==
    /\ \A u \in Users : row[u].link # NoSubject => row[u].is
    /\ \A u \in Users : row[u].link # NoSubject /\ row[u].link \notin displaced =>
        home[row[u].link] = u
    /\ \A s \in Subjects : home[s] # NoUser /\ s \notin displaced => row[home[s]].link = s

Found(s, u) == s \in Subjects /\ (s \in displaced \/ u = home[s])

LinkRead ==
    \A p \in Procs :
        /\ req[p].at \in {"byOAuth", "byEmail", "link", "insert", "linkNew"} =>
            req[p].via = "oauth" /\ req[p].subject \in Subjects
        /\ req[p].at \in {"link", "linkNew"} => row[req[p].user].is
        /\ req[p].at \in {"reread", "open"} /\ req[p].via = "oauth" =>
            Found(req[p].subject, req[p].user)

SessionsFound == \A s \in sessions : s.via = "oauth" => Found(s.subject, s.user)

LinkInv == LinkTables /\ LinkRead /\ SessionsFound

LEMMA InitLinks == Init => LinkInv
<1> SUFFICES ASSUME Init PROVE LinkInv
  OBVIOUS
<1>1. \A p \in Procs : req[p].at = "idle"
  BY DEF Init, AccountsInit, Idle
<1>2. \A s \in sessions : s.via = "password"
  BY DEF Init, AccountsInit
<1>3. \A u \in Users : row[u].link = NoSubject
  <2>1. /\ Absent.link = NoSubject /\ Created("viewer", TRUE).link = NoSubject
        /\ Created("admin", TRUE).link = NoSubject
    BY DEF Absent, Created
  <2>2. [Created("viewer", TRUE) EXCEPT !.enabled = TRUE, !.secret = 1, !.codes = CodesOf(1)].link
            = NoSubject
    BY DEF Absent, Created
  <2> QED
    BY <2>1, <2>2 DEF Init, AccountsInit
<1>4. \A s \in Subjects : home[s] = NoUser
  BY DEF Init, OAuthInit
<1> QED
  BY <1>1, <1>2, <1>3, <1>4 DEF LinkInv, LinkTables, LinkRead, SessionsFound

\* Only SetLink changes a link; no step removes an account.
LEMMA LinksKept ==
    ASSUME AccountsTyped, LinkTables, Next
    PROVE \/ \E p \in Procs : Link(p) \/ LinkNew(p)
          \/ /\ UNCHANGED <<home, displaced>>
             /\ \A u \in Users : row'[u].link = row[u].link /\ (row[u].is => row'[u].is)
<1>1. ASSUME NEW p \in Procs, InsertAccount(p) \/ \E role \in Roles : CreateUser(p, role)
      PROVE \A u \in Users : row'[u].link = row[u].link /\ (row[u].is => row'[u].is)
  BY <1>1, AccountsAreMade DEF AccountMade, LinkTables
<1>2. ASSUME NEW p \in Procs, RowSteps(p)
      PROVE \A u \in Users : row'[u].link = row[u].link /\ (row[u].is => row'[u].is)
  BY <1>2, RowStepKeeps
<1>3. ASSUME NEW v \in Users, NEW step \in Managing, NEW role \in Roles, HostManage(v, step, role)
      PROVE \A u \in Users : row'[u].link = row[u].link /\ (row[u].is => row'[u].is)
  BY <1>3, HostManageKeeps
<1> QED
  BY <1>1, <1>2, <1>3, StepsByEffect

LEMMA SetLinkStep ==
    ASSUME AccountsTyped, LinkRead, NEW p \in Procs, Link(p) \/ LinkNew(p)
    PROVE LET s == req[p].subject  u == req[p].user IN
            /\ u \in Users /\ s \in Subjects /\ Linked(s) \subseteq {u}
            /\ row'[u].link = s /\ row'[u].is /\ \A v \in Users \ {u} : row'[v] = row[v]
            /\ home' = [home EXCEPT ![s] = u]
            /\ displaced' = displaced \cup ({row[u].link} \ {s, NoSubject})
<1> DEFINE s == req[p].subject
           u == req[p].user
           r == [row[u] EXCEPT !.link = s]
<1>1. row \in [Users -> Rows] /\ u \in Users /\ s \in Subjects /\ row[u].is
  BY RequestOf DEF Link, LinkNew, LinkRead, AccountsTyped, AccountsTypeOK
<1>2. r.link = s /\ r.is = row[u].is
  BY <1>1 DEF Rows
<1>3. /\ Linked(s) \subseteq {u} /\ row' = [row EXCEPT ![u] = r]
      /\ home' = [home EXCEPT ![s] = u]
      /\ displaced' = displaced \cup ({row[u].link} \ {s, NoSubject})
  BY DEF Link, LinkNew, SetLink, SetRow
<1> HIDE DEF r
<1>4. row'[u] = r /\ \A v \in Users \ {u} : row'[v] = row[v]
  BY <1>1, <1>3
<1> QED
  BY <1>1, <1>2, <1>3, <1>4

\* What has been found stays found: the unique index refuses an identity that
\* an account holds to every other account.
LEMMA FoundLasts ==
    ASSUME AccountsTyped, LinkTables, LinkRead, Next, NEW s, NEW v \in Users, Found(s, v)
    PROVE Found(s, v)'
<1>1. home \in [Subjects -> Users \cup {NoUser}] /\ s \in Subjects /\ s # NoSubject /\ v # NoUser
  BY AccountsAssumption DEF AccountsTyped, OAuthTypeOK, Found
<1>2. CASE UNCHANGED <<home, displaced>>
  BY <1>2 DEF Found
<1>3. ASSUME NEW p \in Procs, Link(p) \/ LinkNew(p) PROVE Found(s, v)'
  <2> DEFINE t == req[p].subject  u == req[p].user
  <2>1. /\ t \in Subjects /\ Linked(t) \subseteq {u} /\ home' = [home EXCEPT ![t] = u]
        /\ displaced \subseteq displaced'
    BY <1>3, SetLinkStep
  <2> HIDE DEF t, u
  <2>2. CASE s \in displaced
    BY <1>1, <2>1, <2>2 DEF Found
  <2>3. CASE s \notin displaced /\ t # s
    BY <1>1, <2>1, <2>3 DEF Found
  <2>4. CASE s \notin displaced /\ t = s
    <3>1. v = home[s] /\ row[v].link = s
      BY <1>1, <2>4 DEF Found, LinkTables
    <3>2. v \in Linked(s)
      BY <1>1, <3>1 DEF LinkTables, Linked
    <3>3. home'[s] = v
      BY <1>1, <2>1, <2>4, <3>2
    <3> QED
      BY <1>1, <3>3 DEF Found
  <2> QED
    BY <2>2, <2>3, <2>4
<1> QED
  BY <1>2, <1>3, LinksKept

LEMMA NextLinkTables == ASSUME AccountsTyped, LinkTables, LinkRead, Next PROVE LinkTables'
<1>1. /\ home \in [Subjects -> Users \cup {NoUser}] /\ NoSubject \notin Subjects
      /\ NoUser \notin Users /\ \A u \in Users : row[u].link \in Subjects \cup {NoSubject}
  BY AccountsAssumption DEF AccountsTyped, AccountsTypeOK, OAuthTypeOK, Rows
<1>2. CASE /\ UNCHANGED <<home, displaced>>
           /\ \A u \in Users : row'[u].link = row[u].link /\ (row[u].is => row'[u].is)
  BY <1>1, <1>2 DEF LinkTables
<1>3. ASSUME NEW p \in Procs, Link(p) \/ LinkNew(p) PROVE LinkTables'
  <2> DEFINE s == req[p].subject  u == req[p].user
  <2>1. /\ u \in Users /\ s \in Subjects /\ Linked(s) \subseteq {u}
        /\ row'[u].link = s /\ row'[u].is /\ \A v \in Users \ {u} : row'[v] = row[v]
        /\ home' = [home EXCEPT ![s] = u]
        /\ displaced' = displaced \cup ({row[u].link} \ {s, NoSubject})
    BY <1>3, SetLinkStep
  <2> HIDE DEF s, u
  <2>2. \A v \in Users : row'[v].link # NoSubject => row'[v].is
    BY <2>1 DEF LinkTables
  <2>3. ASSUME NEW v \in Users, row'[v].link # NoSubject, row'[v].link \notin displaced'
        PROVE home'[row'[v].link] = v
    <3>1. CASE v = u
      BY <1>1, <2>1, <3>1
    <3>2. CASE v # u
      <4>1. row[v].link # s
        BY <1>1, <2>1, <2>3, <3>2 DEF LinkTables, Linked
      <4>2. home[row[v].link] = v /\ row[v].link \in Subjects
        BY <1>1, <2>1, <2>3, <3>2 DEF LinkTables
      <4> QED
        BY <1>1, <2>1, <3>2, <4>1, <4>2
    <3> QED
      BY <3>1, <3>2
  <2>4. ASSUME NEW t \in Subjects, home'[t] # NoUser, t \notin displaced'
        PROVE row'[home'[t]].link = t
    <3>1. CASE t = s
      BY <1>1, <2>1, <3>1
    <3>2. CASE t # s
      <4>1. home'[t] = home[t] /\ home[t] \in Users /\ row[home[t]].link = t
        BY <1>1, <2>1, <2>4, <3>2 DEF LinkTables
      <4>2. home[t] # u
        BY <1>1, <2>1, <2>4, <3>2, <4>1
      <4> QED
        BY <2>1, <4>1, <4>2
    <3> QED
      BY <3>1, <3>2
  <2> QED
    BY <2>2, <2>3, <2>4 DEF LinkTables
<1> QED
  BY <1>2, <1>3, LinksKept

LEMMA NextLinkRead ==
    ASSUME AccountsTyped, LinkTables, LinkRead, StandingRead, Next PROVE LinkRead'
<1> SUFFICES ASSUME NEW p \in Procs
             PROVE /\ req'[p].at \in {"byOAuth", "byEmail", "link", "insert", "linkNew"} =>
                        req'[p].via = "oauth" /\ req'[p].subject \in Subjects
                   /\ req'[p].at \in {"link", "linkNew"} => row'[req'[p].user].is
                   /\ req'[p].at \in {"reread", "open"} /\ req'[p].via = "oauth" =>
                        Found(req[p].subject, req[p].user)'
  BY DEF LinkRead
<1>1. /\ row \in [Users -> Rows] /\ req \in [Procs -> Requests] /\ Idle \in Requests
      /\ home \in [Subjects -> Users \cup {NoUser}]
  BY RowsTyped DEF AccountsTyped, AccountsTypeOK, OAuthTypeOK
<1>2. CASE req'[p] = req[p]
  <2>1. ASSUME req[p].at \in {"link", "linkNew"} PROVE row'[req[p].user].is
    <3>1. req[p].user \in Users /\ row[req[p].user].is
      BY <2>1, RequestOf DEF LinkRead
    <3>2. ASSUME NEW d \in Procs, Link(d) \/ LinkNew(d) PROVE row'[req[p].user].is
      BY <3>1, <3>2, SetLinkStep
    <3> QED
      BY <3>1, <3>2, LinksKept
  <2>2. ASSUME req[p].at \in {"reread", "open"}, req[p].via = "oauth"
        PROVE Found(req[p].subject, req[p].user)'
    <3>1. Found(req[p].subject, req[p].user) /\ req[p].user \in Users
      BY <2>2, RequestOf DEF LinkRead
    <3> DEFINE s == req[p].subject  v == req[p].user
    <3>2. \A t, w : t = s /\ w = v => Found(t, w)'
      BY <3>1, FoundLasts
    <3> QED
      BY <1>2, <3>2 DEF Found
  <2> QED
    BY <1>2, <2>1, <2>2 DEF LinkRead
<1>3. CASE req'[p] # req[p]
  <2>1. Arrived(p)
    BY <1>3, Arrivals
  <2>2. ASSUME NEW step, Goto(p, step)
        PROVE req'[p].user = req[p].user /\ req'[p].via = req[p].via /\ req'[p].subject = req[p].subject
    <3> DEFINE r == [req[p] EXCEPT !.at = step]
    <3>1. r.user = req[p].user /\ r.via = req[p].via /\ r.subject = req[p].subject
      BY <1>1 DEF Requests
    <3>2. req' = [req EXCEPT ![p] = r]
      BY <2>2 DEF Goto
    <3> HIDE DEF r
    <3> QED
      BY <1>1, <3>1, <3>2
  <2>3. ASSUME req'[p].at \in {"byOAuth", "byEmail", "link", "insert", "linkNew"}
        PROVE req'[p].via = "oauth" /\ req'[p].subject \in Subjects
    <3>1. \/ \E s \in Subjects : Callback(p, s)
          \/ UserIDByOAuth(p) /\ req'[p].at = "byEmail"
          \/ UserIDByEmail(p) \/ InsertAccount(p)
      BY <2>1, <2>3 DEF Arrived, Unremarkable
    <3>2. ASSUME NEW s \in Subjects, Callback(p, s)
          PROVE req'[p].via = "oauth" /\ req'[p].subject \in Subjects
      <4> DEFINE q == [Idle EXCEPT !.at = "byOAuth", !.via = "oauth", !.subject = s,
                                   !.user = mail[s]]
      <4>1. q.via = "oauth" /\ q.subject = s
        BY <1>1 DEF Requests
      <4>2. Begin(p, q)
        BY <3>2 DEF Callback
      <4> HIDE DEF q
      <4> QED
        BY <1>1, <4>1, <4>2 DEF Begin
    <3>3. CASE UserIDByOAuth(p) /\ req'[p].at = "byEmail"
      <4>1. ~\E u : req' = [req EXCEPT ![p].at = "reread", ![p].user = u]
        BY <1>1, <3>3 DEF Requests
      <4>2. Goto(p, "byEmail") /\ req[p].at = "byOAuth"
        BY <3>3, <4>1 DEF UserIDByOAuth
      <4> QED
        BY <2>2, <4>2 DEF LinkRead
    <3>4. CASE UserIDByEmail(p)
      BY <2>2, <3>4 DEF UserIDByEmail, LinkRead
    <3>5. CASE InsertAccount(p)
      <4>1. req'[p].via = req[p].via /\ req'[p].subject = req[p].subject
        BY <1>1, <3>5 DEF InsertAccount, Requests
      <4> QED
        BY <3>5, <4>1 DEF InsertAccount, LinkRead
    <3> QED
      BY <3>1, <3>2, <3>3, <3>4, <3>5
  <2>4. ASSUME req'[p].at \in {"link", "linkNew"} PROVE row'[req'[p].user].is
    <3>1. (UserIDByEmail(p) /\ req'[p].at = "link") \/ InsertAccount(p)
      BY <2>1, <2>4 DEF Arrived, Unremarkable
    <3>2. CASE UserIDByEmail(p) /\ req'[p].at = "link"
      <4>1. row' = row /\ req'[p].user = req[p].user
        BY <2>2, <3>2 DEF UserIDByEmail
      <4>2. row[req[p].user].is
        BY <1>1, <3>2 DEF UserIDByEmail, Goto, Requests
      <4> QED
        BY <4>1, <4>2
    <3>3. CASE InsertAccount(p)
      <4>1. req[p].user \in Users
        BY <3>3, RequestOf DEF InsertAccount
      <4>2. Created("viewer", FALSE).is
        BY DEF Created, Absent
      <4>3. row'[req[p].user] = Created("viewer", FALSE)
        BY <1>1, <3>3, <4>1 DEF InsertAccount, SetRow
      <4>4. req'[p].user = req[p].user
        BY <1>1, <3>3 DEF InsertAccount, Requests
      <4> QED
        BY <4>2, <4>3, <4>4
    <3> QED
      BY <3>1, <3>2, <3>3
  <2>5. ASSUME req'[p].at \in {"reread", "open"}, req'[p].via = "oauth"
        PROVE Found(req[p].subject, req[p].user)'
    <3>1. \/ \E u \in Users : Authenticate(p, u)
          \/ ResolveMFAChallenge(p) \/ LinkNew(p) \/ Reread(p) \/ Link(p)
          \/ UserIDByOAuth(p) /\ req'[p].at = "reread"
      BY <2>1, <2>5 DEF Arrived, Unremarkable
    <3>2. ASSUME NEW u \in Users, Authenticate(p, u) PROVE FALSE
      <4> DEFINE q == [Idle EXCEPT !.at = IF row[u].enabled THEN "challenge" ELSE "open",
                                   !.user = u, !.stamp = deacts[u]]
      <4>1. q.via = "password"
        BY <1>1 DEF Requests, Idle
      <4>2. Begin(p, q)
        BY <3>2 DEF Authenticate
      <4> HIDE DEF q
      <4> QED
        BY <1>1, <2>5, <4>1, <4>2 DEF Begin
    <3>3. ASSUME ResolveMFAChallenge(p) PROVE FALSE
      BY <2>2, <2>5, <3>3 DEF ResolveMFAChallenge, StandingRead
    <3>4. CASE Link(p) \/ LinkNew(p)
      <4>1. /\ req[p].subject \in Subjects /\ home' = [home EXCEPT ![req[p].subject] = req[p].user]
        BY <3>4, SetLinkStep
      <4>2. req'[p].user = req[p].user /\ req'[p].subject = req[p].subject
        BY <2>2, <3>4 DEF Link, LinkNew
      <4> QED
        BY <1>1, <4>1, <4>2 DEF Found
    <3>5. CASE Reread(p)
      <4>1. UNCHANGED <<home, displaced>> /\ req[p].at = "reread"
        BY <3>5 DEF Reread, oauthVars
      <4>2. ~End(p)
        BY <1>1, <2>5 DEF End, Idle
      <4>3. req' = [req EXCEPT ![p].at = "open", ![p].stamp = deacts[req[p].user]]
        BY <3>5, <4>2 DEF Reread
      <4>4. /\ req'[p].user = req[p].user /\ req'[p].subject = req[p].subject
            /\ req'[p].via = req[p].via
        BY <1>1, <4>3 DEF Requests
      <4> QED
        BY <2>5, <4>1, <4>4 DEF LinkRead, Found
    <3>6. CASE UserIDByOAuth(p) /\ req'[p].at = "reread"
      <4>1. ~Goto(p, "byEmail")
        BY <1>1, <3>6 DEF Goto, Requests
      <4>2. PICK u \in Linked(req[p].subject) : req' = [req EXCEPT ![p].at = "reread", ![p].user = u]
        BY <3>6, <4>1 DEF UserIDByOAuth
      <4>3. req'[p].user = u /\ req'[p].subject = req[p].subject
        BY <1>1, <4>2 DEF Requests
      <4>4. req[p].subject \in Subjects /\ req[p].subject # NoSubject
        BY <3>6, AccountsAssumption DEF UserIDByOAuth, LinkRead
      <4>5. u \in Users /\ row[u].link = req[p].subject /\ UNCHANGED <<home, displaced>>
        BY <3>6, <4>2 DEF Linked, UserIDByOAuth, oauthVars
      <4>6. req[p].subject \in displaced \/ home[req[p].subject] = u
        BY <4>4, <4>5 DEF LinkTables
      <4> QED
        BY <4>3, <4>4, <4>5, <4>6 DEF Found
    <3> QED
      BY <3>1, <3>2, <3>3, <3>4, <3>5, <3>6
  <2> QED
    BY <2>3, <2>4, <2>5
<1> QED
  BY <1>2, <1>3

LEMMA NextSessionsFound == ASSUME AccountsTyped, LinkInv, Next PROVE SessionsFound'
<1> SUFFICES ASSUME NEW s \in sessions', s.via = "oauth" PROVE Found(s.subject, s.user)'
  BY DEF SessionsFound, Found
<1>1. CASE s \in sessions
  <2>1. Found(s.subject, s.user) /\ s.user \in Users
    BY <1>1 DEF LinkInv, SessionsFound, AccountsTyped, AccountsTypeOK, Sessions
  <2> QED
    BY <2>1, FoundLasts DEF LinkInv
<1>2. CASE s \notin sessions
  <2>1. PICK p \in Procs : Create(p)
    BY <1>2, SessionsMade
  <2>2. s.user = req[p].user /\ s.via = req[p].via /\ s.subject = req[p].subject
        /\ req[p].user \in Users
    BY <1>2, <2>1, CreateStep
  <2>3. Found(s.subject, s.user)
    BY <2>1, <2>2 DEF Create, LinkInv, LinkRead
  <2> QED
    BY <2>2, <2>3, FoundLasts DEF LinkInv
<1> QED
  BY <1>1, <1>2

\* oauth.go:321-327: for any accounts, identities and requests at a time, a
\* login through the provider opens the account its identity was linked to,
\* until another identity with the account's address takes the link over.
THEOREM LinkedAccountStays == Spec => []LinkedAccountIsStable
<1>1. LinkInv /\ StandingRead /\ AccountsTyped /\ [Next]_loginVars => LinkInv' /\ StandingRead'
  <2>1. CASE UNCHANGED loginVars
    <3>1. UNCHANGED <<row, req, sessions, deacts, home, displaced>>
      BY <2>1 DEF loginVars, accountVars, history, deactivations, oauthVars
    <3> QED
      BY <3>1 DEF LinkInv, LinkTables, LinkRead, SessionsFound, Found, StandingRead
  <2>2. ASSUME LinkInv, StandingRead, AccountsTyped, Next PROVE LinkInv' /\ StandingRead'
    BY <2>2, NextLinkTables, NextLinkRead, NextSessionsFound, NextStandingRead DEF LinkInv
  <2> QED
    BY <2>1, <2>2
<1>2. Init => StandingRead
  BY InitStanding DEF DeactivationInv
<1>3. LinkInv => LinkedAccountIsStable
  BY DEF LinkInv, SessionsFound, Found, LinkedAccountIsStable
<1> QED
  BY <1>1, <1>2, <1>3, InitLinks, AccountsStayTyped, PTL DEF Spec
=============================================================================
