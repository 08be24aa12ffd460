------------------------------ MODULE MCAccess ------------------------------
(* Two accounts, two requests in progress, a plugin that may read, write and manage users. *)
EXTENDS Access

CONSTANTS u1, u2, q1, q2

MCCredentials ==
    {[bearer |-> u1, cookie |-> u2, mirrored |-> FALSE],
     [bearer |-> Nobody, cookie |-> u2, mirrored |-> TRUE],
     [bearer |-> Nobody, cookie |-> u2, mirrored |-> FALSE],
     [bearer |-> Nobody, cookie |-> Nobody, mirrored |-> FALSE]}

\* Mutations run in order; a query's fields only read.
MCDocuments ==
    {<<"get", "versions">>, <<"create", "update">>, <<"unpublish">>, <<"delete">>, <<"rollback">>,
     <<"deactivate">>, <<"demote", "publish">>}

\* The first account's token comes as a bearer's, the second's as a cookie.
MCRoster ==
    {[u \in Users |-> IF u = u1 THEN "editor" ELSE "admin"],
     [u \in Users |-> IF u = u1 THEN "admin" ELSE "viewer"]}

MCScopes == {"read", "write", "manage"}
=============================================================================
