\* Two requests in progress over REST, GraphQL and a plugin's host; two requests in all.
SPECIFICATION AccessSpec
CONSTANTS
    u1 = u1
    u2 = u2
    Users = {u1, u2}
    q1 = q1
    q2 = q2
    Requests = {q1, q2}
    Nobody = nobody
    Credentials <- MCCredentials
    Documents <- MCDocuments
    Roster <- MCRoster
    Scopes <- MCScopes
    MaxRequests = 2
INVARIANTS
    EffectsHaveStanding
    DoorsAgree
    TrailReplays
CHECK_DEADLOCK FALSE
