------------------------------- MODULE Access -------------------------------
(***************************************************************************)
(* Who may do what, through which door: one content item, the accounts     *)
(* and their roles, and the requests that reach them over REST             *)
(* (internal/api), over GraphQL (internal/graphql) and from a plugin       *)
(* (pkg/sdk's scopedContent), down to internal/content, internal/identity  *)
(* and the audit trail (internal/audit).                                   *)
(*                                                                         *)
(* A REST request looks its caller up twice, at the gate and again for the *)
(* domain API; a GraphQL request once, for all of its fields; a plugin's   *)
(* call never, its manifest's scopes stand for it.  Other requests run     *)
(* between these steps.  An account holds at most one session, and its     *)
(* token is named after it.  The steps inside one domain operation are     *)
(* those of ContentVersions, and the accounts' own those of Accounts.      *)
(***************************************************************************)
EXTENDS Naturals, FiniteSets, Sequences

CONSTANTS Users,        \* accounts
          Requests,     \* requests in progress at one time
          Credentials,  \* what a request may carry: [bearer, cookie, mirrored]
          Scopes,       \* scopes of the plugin's manifest, on content and on users
          Nobody,       \* no token
          Roster,       \* the roles the accounts may have at first
          Documents,    \* the sequences of fields a GraphQL request may ask for
          MaxRequests   \* bound of the model: requests served

VARIABLES role,      \* users.role
          live,      \* accounts whose session is open
          item,      \* the content item: its status and the statuses of its snapshots
          request,   \* request[q]: see Waiting
          answer,    \* request slot -> the answer its last request was given
          begun,     \* requests that have come in
          wrote,     \* history: the writes done, with the standing of who asked
          audit,     \* audit_records
          disordered \* history: a write passed another one's record, or a record was lost

accessVars == <<role, live, item, request, answer, begun, wrote, audit, disordered>>

Roles == {"admin", "editor", "viewer"}
NoRole == "none"

RoleCapabilities ==
    [admin  |-> {"content:read", "content:read_drafts", "content:write", "content:publish",
                 "users:manage"},
     editor |-> {"content:read", "content:read_drafts", "content:write"},
     viewer |-> {"content:read"},
     none   |-> {}]

Allows(r, capability) == capability \in RoleCapabilities[r]

\* The capability an operation's route, resolver and domain function ask for.
Required ==
    [create |-> "content:write", update |-> "content:write", delete |-> "content:write",
     rollback |-> "content:write", publish |-> "content:publish",
     unpublish |-> "content:publish", demote |-> "users:manage",
     deactivate |-> "users:manage"]

Writes == DOMAIN Required
Reads == {"get", "versions"}

\* The scope scopedContent and scopedUsers ask for; a plugin has no door to the rest.
ScopeOf == [get |-> "read", create |-> "write", update |-> "write", delete |-> "write",
            publish |-> "publish", unpublish |-> "publish", demote |-> "manage",
            deactivate |-> "manage"]

ASSUME AccessAssumption ==
    /\ Nobody \notin Users /\ MaxRequests \in Nat
    /\ Credentials \subseteq [bearer : Users \cup {Nobody}, cookie : Users \cup {Nobody},
                              mirrored : BOOLEAN]
    /\ Roster \subseteq [Users -> Roles]
    /\ \A todo \in Documents : todo \in Seq(Writes \cup Reads) /\ todo # <<>>
    /\ Scopes \subseteq {"read", "write", "publish", "manage"}

NoCredentials == [bearer |-> Nobody, cookie |-> Nobody, mirrored |-> FALSE]

Waiting == [pc |-> "idle", door |-> "rest", todo |-> <<>>, cred |-> NoCredentials, who |-> NoRole,
            whom |-> Nobody, stood |-> {}, saw |-> "gate"]

NoAnswer == [door |-> "rest", op |-> "get", said |-> "none", saw |-> "gate", stood |-> {},
             mirrored |-> TRUE]

\* An item before its creation, or one that was published, changed and taken back.
AccessInit ==
    /\ role \in Roster
    /\ live = Users
    /\ item \in {[status |-> "none", snapshots |-> <<>>],
                 [status |-> "draft", snapshots |-> <<"draft", "published">>]}
    /\ request = [q \in Requests |-> Waiting]
    /\ answer = [q \in Requests |-> NoAnswer]
    /\ begun = 0 /\ wrote = <<>> /\ audit = <<>> /\ disordered = FALSE

----------------------------------------------------------------------------
(* Callers. *)

\* currentUser and withPrincipal: the bearer token, and failing it the cookie.  A
\* session's row is joined with its account's, so the role is the one of now.
RoleOf(cred, open, roles) ==
    CASE cred.bearer \in open -> roles[cred.bearer]
      [] cred.bearer \notin open /\ cred.cookie \in open -> roles[cred.cookie]
      [] OTHER -> NoRole

Lookup(q) == RoleOf(request[q].cred, live, role)

\* requireCSRF: only a request that rides on the session cookie has to mirror the token.
CsrfPasses(cred) == cred.bearer # Nobody \/ cred.cookie = Nobody \/ cred.mirrored

----------------------------------------------------------------------------
(* Answers. *)

\* writeContentError, writeUserManagementError and the gate's own refusals.
Status == [ok |-> "200", unauthenticated |-> "401", denied |-> "403", absent |-> "404",
           failed |-> "500"]

\* gqlErr, mapContentError and mapUserManagementError.
Code == [ok |-> "DATA", unauthenticated |-> "UNAUTHENTICATED", denied |-> "FORBIDDEN",
         absent |-> "NOT_FOUND", failed |-> "INTERNAL"]

Said(door, outcome) ==
    CASE door = "rest" -> Status[outcome]
      [] door = "graphql" -> Code[outcome]
      [] door = "plugin" -> outcome

Op(q) == Head(request[q].todo)

\* requireCapability for a mutation: the operation goes on, or is refused.
Gate(who, op) ==
    CASE who = NoRole -> "unauthenticated"
      [] who # NoRole -> IF Allows(who, Required[op]) THEN "domain" ELSE "denied"

\* handleContentGet: canReadDrafts picks the drafts' view or the public one.
View(who, op) ==
    IF op = "get" /\ Allows(who, "content:read_drafts") THEN "domain" ELSE "public"

\* Faulty FieldView: contentItem asks for the public capability to show drafts.
FieldViewPublic(who, op) ==
    IF op = "get" /\ Allows(who, "content:read") THEN "domain" ELSE "public"

\* getContentItem, with internal/graphql's own canReadDrafts.
FieldView(who, op) ==
    IF op = "get" /\ Allows(who, "content:read_drafts") THEN "domain" ELSE "public"

FieldStart(who, op) == IF op \in Writes THEN Gate(who, op) ELSE FieldView(who, op)

\* The request once its field is answered: at its next field, or at rest.
GoesOn(q) ==
    LET rest == Tail(request[q].todo)
        start == FieldStart(request[q].who, Head(rest))
    IN IF rest = <<>> THEN Waiting
       ELSE [request[q] EXCEPT !.todo = rest,
                               !.pc = IF start \in {"domain", "public"} THEN start ELSE "refuse"]

\* Request q's field is answered with an outcome, having seen the item in a status.
Answered(q, outcome, saw) ==
    /\ request' = [request EXCEPT ![q] = GoesOn(q)]
    /\ answer' = [answer EXCEPT ![q] =
           [door |-> request[q].door, op |-> Op(q), saw |-> saw, stood |-> request[q].stood,
            mirrored |-> CsrfPasses(request[q].cred), said |-> Said(request[q].door, outcome)]]

----------------------------------------------------------------------------
(* The doors. *)

\* An item's id is fresh: the one the model follows is created once.
Creating(todo) == \E i \in DOMAIN todo : todo[i] = "create"

Begin(q, door, todo, cred) ==
    /\ request[q].pc = "idle" /\ begun < MaxRequests
    /\ Creating(todo) => /\ item.status = "none"
                         /\ \A p \in Requests : ~Creating(request[p].todo)
    /\ request' = [request EXCEPT ![q] =
           [pc |-> "gate", door |-> door, todo |-> todo, cred |-> cred, who |-> NoRole,
            whom |-> Nobody, stood |-> {RoleOf(cred, live, role)}, saw |-> "gate"]]
    /\ begun' = begun + 1
    /\ answer' = [answer EXCEPT ![q] = NoAnswer]
    /\ UNCHANGED <<role, live, item, wrote, audit, disordered>>

BeginRest(q) ==
    \E op \in Writes \cup Reads, cred \in Credentials : Begin(q, "rest", <<op>>, cred)

BeginGraph(q) ==
    \E todo \in Documents, cred \in Credentials : Begin(q, "graphql", todo, cred)

BeginPlugin(q) ==
    \E op \in DOMAIN ScopeOf :
        Begin(q, "plugin", <<op>>, NoCredentials)

\* The routes' wrappers: requireCSRF first, then requireUser and requireCapability.
RestUnmirrored(q) ==
    /\ request[q].pc = "gate" /\ request[q].door = "rest" /\ Op(q) \in Writes
    /\ ~CsrfPasses(request[q].cred)
    /\ Answered(q, "denied", "csrf")
    /\ UNCHANGED <<begun, role, live, item, wrote, audit, disordered>>

RestGate(q) ==
    /\ request[q].pc = "gate" /\ request[q].door = "rest" /\ Op(q) \in Writes
    /\ CsrfPasses(request[q].cred)
    /\ IF Gate(Lookup(q), Op(q)) = "domain"
       THEN /\ request' = [request EXCEPT ![q].pc = "principal"] /\ UNCHANGED answer
       ELSE Answered(q, Gate(Lookup(q), Op(q)), "gate")
    /\ UNCHANGED <<begun, role, live, item, wrote, audit, disordered>>

\* handleContentGet, handleContentListVersions: canReadDrafts picks the view.
RestView(q) ==
    /\ request[q].pc = "gate" /\ request[q].door = "rest" /\ Op(q) \in Reads
    /\ request' = [request EXCEPT ![q].pc =
           IF View(Lookup(q), Op(q)) = "domain" THEN "principal" ELSE "public"]
    /\ UNCHANGED <<begun, role, live, item, answer, wrote, audit, disordered>>

\* s.principal(r): the caller is looked up again.
RestPrincipal(q) ==
    /\ request[q].pc = "principal"
    /\ request' = [request EXCEPT ![q].pc = "domain", ![q].who = Lookup(q)]
    /\ UNCHANGED <<begun, role, live, item, answer, wrote, audit, disordered>>

\* withPrincipal: one lookup for the whole request, and the first field starts.
GraphPrincipal(q) ==
    /\ request[q].pc = "gate" /\ request[q].door = "graphql"
    /\ LET start == FieldStart(Lookup(q), Op(q))
       IN request' = [request EXCEPT
              ![q].who = Lookup(q),
              ![q].pc = IF start \in {"domain", "public"} THEN start ELSE "refuse"]
    /\ UNCHANGED <<begun, role, live, item, answer, wrote, audit, disordered>>

GraphRefuse(q) ==
    /\ request[q].pc = "refuse"
    /\ Answered(q, FieldStart(request[q].who, Op(q)), "gate")
    /\ UNCHANGED <<begun, role, live, item, wrote, audit, disordered>>

\* scopedContent, scopedUsers: the manifest's scope, then the domain as hostPrincipal.
PluginGate(q) ==
    /\ request[q].pc = "gate" /\ request[q].door = "plugin"
    /\ IF ScopeOf[Op(q)] \in Scopes
       THEN /\ request' = [request EXCEPT ![q].pc = "domain", ![q].who = "admin"]
            /\ UNCHANGED answer
       ELSE Answered(q, "undeclared", "gate")
    /\ UNCHANGED <<begun, role, live, item, wrote, audit, disordered>>

----------------------------------------------------------------------------
(* The domain. *)

Here == item.status \in {"draft", "published"}

Reaches(q, op) ==
    /\ request[q].pc = "domain" /\ Op(q) = op

\* Request q has changed who may do what, or the item: it goes on at pc, having seen
\* the item as saw, and whoever is being served stands for the role they are left, too.
Moved(q, pc, saw, whom) ==
    request' = [p \in Requests |->
        [request[p] EXCEPT !.pc = IF p = q THEN pc ELSE @,
                           !.saw = IF p = q THEN saw ELSE @,
                           !.whom = IF p = q THEN whom ELSE @,
                           !.stood = IF request[p].pc = "idle" THEN {}
                               ELSE @ \cup {RoleOf(request[p].cred, live', role')}]]

\* Request q has written, to account whom if to one: its record is still to be added
\* and its answer to be given.
Wrote(q, from, to, whom) ==
    /\ wrote' = Append(wrote, [op |-> Op(q), door |-> request[q].door, from |-> from,
                               to |-> to, data |-> item'.snapshots # item.snapshots,
                               stood |-> request[q].stood])
    /\ Moved(q, "record", item.status, whom)
    /\ disordered' = (disordered \/ \E p \in Requests : request[p].pc = "record")

\* The domain function's own check of the principal, and a missing item.
Denied(q) ==
    /\ request[q].pc = "domain" /\ Op(q) \in Writes
    /\ ~Allows(request[q].who, Required[Op(q)])
    /\ Answered(q, "denied", item.status)
    /\ UNCHANGED <<begun, role, live, item, wrote, audit, disordered>>

\* Faulty Missing: the operation is recorded before it is known to have failed.
MissingRecorded(q) ==
    /\ request[q].pc = "domain"
    /\ Op(q) \in {"update", "delete", "rollback", "publish", "unpublish"}
    /\ Allows(request[q].who, Required[Op(q)]) /\ ~Here
    /\ audit' = Append(audit, [op |-> Op(q), actor |-> request[q].who])
    /\ Answered(q, "absent", item.status)
    /\ UNCHANGED <<begun, role, live, item, wrote, disordered>>

Missing(q) ==
    /\ request[q].pc = "domain"
    /\ Op(q) \in {"update", "delete", "rollback", "publish", "unpublish"}
    /\ Allows(request[q].who, Required[Op(q)]) /\ ~Here
    /\ Answered(q, "absent", item.status)
    /\ UNCHANGED <<begun, role, live, item, wrote, audit, disordered>>

Change(q, op, guard, new) ==
    /\ Reaches(q, op) /\ Allows(request[q].who, Required[op]) /\ guard
    /\ item' = new
    /\ UNCHANGED <<begun, role, live, answer, audit>>
    /\ Wrote(q, item.status, new.status, Nobody)

Create(q) == Change(q, "create", item.status = "none",
                    [status |-> "draft", snapshots |-> <<"draft">>])

Update(q) == Change(q, "update", Here,
                    [item EXCEPT !.snapshots = Append(@, item.status)])

Delete(q) == Change(q, "delete", Here, [status |-> "gone", snapshots |-> <<>>])

SetStatus(q) ==
    \/ Change(q, "publish", Here, [item EXCEPT !.status = "published"])
    \/ Change(q, "unpublish", Here, [item EXCEPT !.status = "draft"])

\* Faulty Restored: the snapshot's status is restored with its data.
RestoredWhole(v) == [status |-> item.snapshots[v],
                     snapshots |-> Append(item.snapshots, item.snapshots[v])]

\* The snapshot's data as a new version; the status is left as it is.
Restored(v) == [item EXCEPT !.snapshots = Append(@, item.status)]

Rollback(q) ==
    \E v \in DOMAIN item.snapshots : Change(q, "rollback", Here, Restored(v))

\* identity.UpdateRole.
UpdateRole(q) ==
    \E u \in Users, r \in Roles :
        /\ Reaches(q, "demote") /\ Allows(request[q].who, "users:manage")
        /\ role' = [role EXCEPT ![u] = r]
        /\ UNCHANGED <<begun, live, item, answer, audit>>
        /\ Wrote(q, role[u], r, Nobody)

\* identity.Deactivate: users.active, which no lookup of a session asks for.
Deactivate(q) ==
    \E u \in Users :
        /\ Reaches(q, "deactivate") /\ Allows(request[q].who, "users:manage")
        /\ UNCHANGED <<begun, role, live, item, answer, audit>>
        /\ Wrote(q, "active", "inactive", u)

\* sessions.RevokeAllForUser, which the handler and the resolver call after Deactivate
\* has added its record: the account's sessions end, or the statement fails.
Revoke(q) ==
    /\ request[q].pc = "revoke"
    /\ UNCHANGED <<begun, role, item, wrote, audit, disordered>>
    /\ \/ /\ live' = live \ {request[q].whom}
          /\ Moved(q, "revoked", request[q].saw, Nobody)
          /\ UNCHANGED answer
       \/ /\ Answered(q, "failed", request[q].saw)
          /\ UNCHANGED live

Revoked(q) ==
    /\ request[q].pc = "revoked"
    /\ Answered(q, "ok", request[q].saw)
    /\ UNCHANGED <<begun, role, live, item, wrote, audit, disordered>>

\* API.Get: the principal is checked, then the item in any status.
GetItem(q) ==
    /\ Reaches(q, "get")
    /\ Answered(q, IF ~Allows(request[q].who, "content:read_drafts") THEN "denied"
                   ELSE IF Here THEN "ok" ELSE "absent", item.status)
    /\ UNCHANGED <<begun, role, live, item, wrote, audit, disordered>>

\* GetPublished: a draft is not there.  ListVersions is public and asks for the item only.
GetPublic(q) ==
    /\ request[q].pc = "public"
    /\ Answered(q, IF item.status = "published" \/ (Op(q) = "versions" /\ Here)
                   THEN "ok" ELSE "absent", item.status)
    /\ UNCHANGED <<begun, role, live, item, wrote, audit, disordered>>

\* Logger.Log: a row at the end of the table, under the caller's role.
Logged(q) == Append(audit, [op |-> Op(q), actor |-> request[q].who])

\* Sessions are left to be revoked: a plugin's host revokes none.
Revoking(q) == Op(q) = "deactivate" /\ request[q].door # "plugin"

\* auditItem and auditUser, after the write: best effort, and the request goes on
\* either way.
Record(q) ==
    /\ request[q].pc = "record"
    /\ \/ /\ audit' = Logged(q)
          /\ UNCHANGED disordered
       \/ /\ disordered' = TRUE /\ UNCHANGED audit
    /\ IF Revoking(q)
       THEN /\ request' = [request EXCEPT ![q].pc = "revoke"] /\ UNCHANGED answer
       ELSE Answered(q, "ok", request[q].saw)
    /\ UNCHANGED <<begun, role, live, item, wrote>>

Step(q) ==
    \/ BeginRest(q) \/ BeginGraph(q) \/ BeginPlugin(q)
    \/ RestUnmirrored(q) \/ RestGate(q) \/ RestView(q) \/ RestPrincipal(q)
    \/ GraphPrincipal(q) \/ GraphRefuse(q) \/ PluginGate(q)
    \/ Denied(q) \/ Missing(q)
    \/ Create(q) \/ Update(q) \/ Delete(q) \/ SetStatus(q) \/ Rollback(q)
    \/ UpdateRole(q) \/ Deactivate(q)
    \/ GetItem(q) \/ GetPublic(q) \/ Record(q) \/ Revoke(q) \/ Revoked(q)

AccessNext == \E q \in Requests : Step(q)

AccessSpec == AccessInit /\ [][AccessNext]_accessVars

----------------------------------------------------------------------------
(* What the doors promise. *)

\* What a write did to the item or the accounts, whatever it was asked to do, as the
\* capabilities it takes: it changed an account, what the public sees, or the content.
Effects(w) ==
    {c \in {"users:manage", "content:publish", "content:write"} :
        \/ c = "users:manage" /\ w.op \in {"demote", "deactivate"}
        \/ c = "content:publish" /\ {w.from, w.to} = {"draft", "published"}
        \/ c = "content:write" /\ w.data}

\* The scope that stands for a capability in a plugin's manifest.
ScopeFor(capability) ==
    CASE capability = "content:write" -> "write"
      [] capability = "content:publish" -> "publish"
      [] capability = "users:manage" -> "manage"

HasStanding(roles, capability) == \E r \in roles : Allows(r, capability)

\* Whatever a request changed, it was asked for by somebody who held the capability
\* for that effect at a moment since the request began: no role that was taken away
\* before is acted on, over either door, and no operation publishes that is not gated
\* so (internal/permission's matrix; api.go's Routes; Rollback leaves the status alone).
\* As to reads: a get of the item shows a draft only to somebody who held
\* content:read_drafts then, or to a plugin with the scope; the version history, the
\* snapshots of drafts with it, is for everybody (api.go:324,
\* docs/implementation/completed/0006:89-98), but shows nothing of a deleted item.
EffectsHaveStanding ==
    /\ \A i \in DOMAIN wrote : \A c \in Effects(wrote[i]) :
           IF wrote[i].door = "plugin" THEN ScopeFor(c) \in Scopes
           ELSE HasStanding(wrote[i].stood, c)
    /\ \A q \in Requests :
           LET a == answer[q]
           IN (a.op \in Reads /\ a.said = Said(a.door, "ok")) =>
                  /\ a.saw \in {"draft", "published"}
                  /\ (a.op = "get" /\ a.saw = "draft") =>
                         IF a.door = "plugin" THEN "read" \in Scopes
                         ELSE HasStanding(a.stood, "content:read_drafts")

\* What an operation comes to for a caller of role r who finds the item in a status.
Verdict(op, r, status) ==
    CASE op \in Writes /\ r = NoRole -> "unauthenticated"
      [] op \in Writes /\ r # NoRole /\ ~Allows(r, Required[op]) -> "denied"
      [] OTHER ->
             IF \/ op \in {"create", "demote", "deactivate"}
                \/ status = "published"
                \/ status = "draft" /\ (op = "get" => Allows(r, "content:read_drafts"))
             THEN "ok" ELSE "absent"

May(r, op) == Allows(r, IF op \in Writes THEN Required[op] ELSE "content:read_drafts")

\* An outcome that a role the caller had while it was served earns; and the failure of
\* a deactivation that has left the sessions open.
Earned(a, outcome) ==
    \/ \E r \in a.stood : outcome = Verdict(a.op, r, a.saw)
    \/ a.op = "deactivate" /\ outcome = "failed" /\ HasStanding(a.stood, "users:manage")

\* Every door gives the domain's one verdict in its own words.  GraphQL, which looks its
\* caller up once, and REST, which does so twice, answer as some role the caller had
\* meanwhile earns; but REST refuses a mutation that rides on a cookie and does not
\* mirror its token, which GraphQL serves (csrf.go:62-80, graphql/handler.go:15-17), and
\* denies a caller who lost the capability between its two lookups.  A plugin is served
\* as an administrator within its scopes (api.go's Routes and errors, internal/graphql's
\* resolvers and errors.go, which mirror them, and pkg/sdk/host.go's gates).
DoorsAgree ==
    \A q \in Requests :
        LET a == answer[q]
        IN CASE a.said = "none" -> TRUE
             [] a.said # "none" /\ a.door = "plugin" ->
                    a.said = IF ScopeOf[a.op] \in Scopes THEN Verdict(a.op, "admin", a.saw)
                             ELSE "undeclared"
             [] a.said # "none" /\ a.door = "graphql" ->
                    \E outcome \in DOMAIN Code : a.said = Code[outcome] /\ Earned(a, outcome)
             [] OTHER ->
                    IF a.op \in Writes /\ ~a.mirrored THEN a.said = Status["denied"]
                    ELSE \/ \E outcome \in DOMAIN Status :
                                a.said = Status[outcome] /\ Earned(a, outcome)
                         \/ /\ a.said = Status["denied"]
                            /\ \E r, s \in a.stood : May(r, a.op) /\ ~May(s, a.op)

\* The status an audit record says its operation left the item in.
Leaves(op) ==
    CASE op = "publish" -> "published" [] op = "delete" -> "gone"
      [] op \in {"create", "unpublish"} -> "draft" [] OTHER -> "unchanged"

\* When no record was lost or overtaken by another write, the trail of the item
\* replays to what the item is: a record is added for every write that was done and
\* for none that failed (content.go calls auditItem after the write only).
TrailReplays ==
    LET told == {i \in DOMAIN audit : Leaves(audit[i].op) # "unchanged"}
    IN (~disordered /\ \A q \in Requests : request[q].pc # "record")
           => IF told = {} THEN item.status \in {"none", "draft"}
              ELSE \E i \in told : /\ \A j \in told : j <= i
                                   /\ item.status = Leaves(audit[i].op)
=============================================================================
