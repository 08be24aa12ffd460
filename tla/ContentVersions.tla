-------------------------- MODULE ContentVersions --------------------------
(***************************************************************************)
(* internal/content: items and their version history under concurrent      *)
(* Create, Update, Rollback, Delete and Publish/Unpublish requests.        *)
(* An item is a row of content_items, its snapshots are rows of            *)
(* content_item_versions.  A request is a sequence of database statements  *)
(* with no transaction around them, so other requests run between any two, *)
(* and a request that dies leaves the statements it has made.              *)
(***************************************************************************)
EXTENDS Integers, TLC

CONSTANTS Clients,      \* concurrent requests
          Ids,          \* item ids; random in the code, so never used twice
          Bodies,       \* item data that passed validate and sanitizeRichText
          Absent,       \* no such row
          MaxVersion,   \* bound of the model: the highest version written
          MaxRequests   \* bound of the model: requests started

Versions == 1 .. MaxVersion
Statuses == {"draft", "published"}
Snapshots == [data : Bodies, status : Statuses]
Rows == [data : Bodies, status : Statuses, version : Versions]

\* For TLC: nothing distinguishes clients, or bodies.
Symmetric == Permutations(Clients) \cup Permutations(Bodies)

ASSUME ContentAssumption ==
    /\ MaxVersion \in Nat \ {0}
    /\ MaxRequests \in Nat
    /\ Ids # {}
    /\ Absent \notin Bodies \cup Snapshots \cup Rows

Kinds == {"create", "update", "rollback", "delete", "publish", "unpublish"}

VARIABLES items,    \* items[i]: the row of item i, or Absent
          history,  \* history[i][v]: the snapshot row (i, v), or Absent
          pc,       \* pc[c]: the statement request c makes next
          req,      \* req[c]: its arguments, then what it has read
          created,  \* auxiliary: ids handed out by newID
          held,     \* auxiliary: held[i]: the (version, data) pairs row i held
          requests  \* auxiliary: requests started

vars == <<items, history, pc, req, created, held, requests>>

\* id, data: the arguments (data is what a rollback found, once it has read
\* it); target: the version to roll back to; next, status: computed from the
\* row it read.
Requests == [kind : Kinds, id : Ids, data : Bodies \cup {Absent},
             target : Versions, next : 0 .. MaxVersion, status : Statuses]

Idle == [kind |-> "create", id |-> CHOOSE i \in Ids : TRUE, data |-> Absent,
         target |-> 1, next |-> 0, status |-> "draft"]

PCs == {"idle", "insert", "read", "target", "write", "snapshot", "delete",
        "set status", "reply", "ok", "refused"}

TypeOK ==
    /\ items \in [Ids -> Rows \cup {Absent}]
    /\ history \in [Ids -> [Versions -> Snapshots \cup {Absent}]]
    /\ pc \in [Clients -> PCs]
    /\ req \in [Clients -> Requests]
    /\ created \subseteq Ids
    /\ held \in [Ids -> SUBSET (Versions \X Bodies)]
    /\ requests \in 0 .. MaxRequests

Init ==
    /\ items = [i \in Ids |-> Absent]
    /\ history = [i \in Ids |-> [v \in Versions |-> Absent]]
    /\ pc = [c \in Clients |-> "idle"]
    /\ req = [c \in Clients |-> Idle]
    /\ created = {}
    /\ held = [i \in Ids |-> {}]
    /\ requests = 0

-----------------------------------------------------------------------------
Goto(c, p) == pc' = [pc EXCEPT ![c] = p]
Keep(c) == UNCHANGED <<req, created, requests>>

\* Row i becomes r.
Put(i, r) ==
    /\ items' = [items EXCEPT ![i] = r]
    /\ held' = [held EXCEPT ![i] = @ \cup {<<r.version, r.data>>}]

\* The ids a caller can have: those of rows the content API has shown.
Known == {i \in Ids : held[i] # {}}

Begin(c, r, first) ==
    /\ pc[c] = "idle"
    /\ requests < MaxRequests
    /\ requests' = requests + 1
    /\ req' = [req EXCEPT ![c] = r]
    \* Permission denied, undeclared type, data the type or a relation check
    \* refuses: all before the item tables are touched.
    /\ Goto(c, first) \/ Goto(c, "refused")
    /\ UNCHANGED <<items, history, held>>

BeginCreate(c) ==
    \E i \in Ids \ created, d \in Bodies :
        /\ Begin(c, [Idle EXCEPT !.id = i, !.data = d], "insert")
        /\ created' = created \cup {i}

BeginUpdate(c) ==
    \E i \in Known, d \in Bodies :
        /\ Begin(c, [Idle EXCEPT !.kind = "update", !.id = i, !.data = d], "read")
        /\ UNCHANGED created

BeginRollback(c) ==
    \E i \in Known, v \in Versions :
        /\ Begin(c, [Idle EXCEPT !.kind = "rollback", !.id = i, !.target = v], "read")
        /\ UNCHANGED created

BeginDelete(c) ==
    \E i \in Known :
        /\ Begin(c, [Idle EXCEPT !.kind = "delete", !.id = i], "delete")
        /\ UNCHANGED created

BeginSetStatus(c) ==
    \E i \in Known, k \in {"publish", "unpublish"} :
        /\ Begin(c, [Idle EXCEPT !.kind = k, !.id = i], "set status")
        /\ UNCHANGED created

\* Create: INSERT INTO content_items, a draft at version 1.
Insert(c) ==
    /\ pc[c] = "insert"
    /\ Put(req[c].id, [data |-> req[c].data, status |-> "draft", version |-> 1])
    /\ req' = [req EXCEPT ![c].next = 1]
    /\ Goto(c, "snapshot")
    /\ UNCHANGED <<history, created, requests>>

\* Faulty Read: the snapshot is written ahead of the row.
ReadThenSnapshot(c) ==
    /\ pc[c] = "read"
    /\ items[req[c].id] # Absent
    /\ items[req[c].id].version < MaxVersion
    /\ req' = [req EXCEPT ![c].next = items[req[c].id].version + 1,
                          ![c].status = items[req[c].id].status]
    /\ Goto(c, IF req[c].kind = "rollback" THEN "target" ELSE "snapshot")
    /\ UNCHANGED <<items, history, created, held, requests>>

\* getByID: Update and Rollback read the row; ErrNotFound without one.
Read(c) ==
    /\ pc[c] = "read"
    /\ LET row == items[req[c].id] IN
        \/ /\ row = Absent
           /\ Goto(c, "refused")
           /\ UNCHANGED req
        \/ /\ row # Absent
           /\ row.version < MaxVersion
           /\ req' = [req EXCEPT ![c].next = row.version + 1,
                                 ![c].status = row.status]
           /\ Goto(c, IF req[c].kind = "rollback" THEN "target" ELSE "write")
    /\ UNCHANGED <<items, history, created, held, requests>>

\* Faulty ReadTarget: restores the version the item has now.
ReadTargetCurrent(c) ==
    /\ pc[c] = "target"
    /\ items[req[c].id] # Absent
    /\ req' = [req EXCEPT ![c].data = items[req[c].id].data]
    /\ Goto(c, "write")
    /\ UNCHANGED <<items, history, created, held, requests>>

\* getVersion: Rollback reads the snapshot to restore.  It validates the data
\* again, which may refuse it: the type can have changed since.
ReadTarget(c) ==
    /\ pc[c] = "target"
    /\ LET snap == history[req[c].id][req[c].target] IN
        \/ /\ Goto(c, "refused")
           /\ UNCHANGED req
        \/ /\ snap # Absent
           /\ req' = [req EXCEPT ![c].data = snap.data]
           /\ Goto(c, "write")
    /\ UNCHANGED <<items, history, created, held, requests>>

\* setData: UPDATE of data and version, whatever version the row has by now;
\* status stays.  No row matched is ErrNotFound.
SetData(c) ==
    /\ pc[c] = "write"
    /\ LET row == items[req[c].id] IN
        \/ /\ row = Absent
           /\ Goto(c, "refused")
           /\ UNCHANGED <<items, held>>
        \/ /\ row # Absent
           /\ Put(req[c].id, [row EXCEPT !.data = req[c].data,
                                         !.version = req[c].next])
           /\ Goto(c, "snapshot")
    /\ Keep(c) /\ UNCHANGED history

\* Faulty InsertVersion: ON CONFLICT DO NOTHING.
InsertVersionIgnores(c) ==
    /\ pc[c] = "snapshot"
    /\ history' = IF history[req[c].id][req[c].next] # Absent THEN history
                  ELSE [history EXCEPT ![req[c].id][req[c].next] =
                            [data |-> req[c].data, status |-> req[c].status]]
    /\ Goto(c, IF req[c].kind = "create" THEN "ok" ELSE "reply")
    /\ Keep(c) /\ UNCHANGED <<items, held>>

\* insertVersion: INSERT; the primary key (item_id, version) refuses a second
\* snapshot of one version.
InsertVersion(c) ==
    /\ pc[c] = "snapshot"
    /\ IF history[req[c].id][req[c].next] = Absent
       THEN /\ history' = [history EXCEPT ![req[c].id][req[c].next] =
                            [data |-> req[c].data, status |-> req[c].status]]
            /\ Goto(c, IF req[c].kind = "create" THEN "ok" ELSE "reply")
       ELSE /\ Goto(c, "refused")
            /\ UNCHANGED history
    /\ Keep(c) /\ UNCHANGED <<items, held>>

\* DELETE of the row alone: its snapshots stay.
DeleteRow(c) ==
    /\ pc[c] = "delete"
    /\ IF items[req[c].id] = Absent
       THEN Goto(c, "refused") /\ UNCHANGED items
       ELSE Goto(c, "ok") /\ items' = [items EXCEPT ![req[c].id] = Absent]
    /\ Keep(c) /\ UNCHANGED <<history, held>>

\* setStatus: UPDATE of status alone.
SetStatus(c) ==
    /\ pc[c] = "set status"
    /\ IF items[req[c].id] = Absent
       THEN Goto(c, "refused") /\ UNCHANGED items
       ELSE /\ Goto(c, "reply")
            /\ items' = [items EXCEPT ![req[c].id].status =
                            IF req[c].kind = "publish" THEN "published" ELSE "draft"]
    /\ Keep(c) /\ UNCHANGED <<history, held>>

\* get: Update, Rollback and setStatus answer with the row as it is by now,
\* and with ErrNotFound when it has been deleted since they wrote it.
Reply(c) ==
    /\ pc[c] = "reply"
    /\ Goto(c, IF items[req[c].id] = Absent THEN "refused" ELSE "ok")
    /\ Keep(c) /\ UNCHANGED <<items, history, held>>

\* A statement fails, the context is cancelled or the daemon dies; or the statements have
\* all committed and it is the last one's reply that is lost.
Interrupt(c) ==
    /\ pc[c] \notin {"idle", "refused"}
    /\ Goto(c, "refused")
    /\ Keep(c) /\ UNCHANGED <<items, history, held>>

Return(c) ==
    /\ pc[c] \in {"ok", "refused"}
    /\ Goto(c, "idle")
    /\ req' = [req EXCEPT ![c] = Idle]
    /\ UNCHANGED <<items, history, created, held, requests>>

Work(c) ==
    \/ BeginCreate(c) \/ BeginUpdate(c) \/ BeginRollback(c)
    \/ BeginDelete(c) \/ BeginSetStatus(c)
    \/ Insert(c) \/ Read(c) \/ ReadTarget(c) \/ SetData(c) \/ InsertVersion(c)
    \/ DeleteRow(c) \/ SetStatus(c)
    \/ Reply(c) \/ Return(c)

Next == \E c \in Clients : Work(c) \/ Interrupt(c)

Spec == Init /\ [][Next]_vars

\* Every statement succeeds and no request dies.
ReliableSpec == Init /\ [][\E c \in Clients : Work(c)]_vars

-----------------------------------------------------------------------------
\* content.go:123-134, 342-350, 477-484 write the row before the snapshot: a
\* snapshot never records data the item did not hold at that version, however
\* requests interleave or die.
SnapshotsWereLive ==
    \A i \in Ids, v \in Versions :
        history[i][v] # Absent => <<v, history[i][v].data>> \in held[i]

\* content.go:311-312: a Create, Update or Rollback that reports success has
\* its own data in the history at the version it wrote, even when another
\* request computed the same version number.
SuccessIsRecorded ==
    \A c \in Clients :
        (pc[c] = "ok" /\ req[c].kind \in {"create", "update", "rollback"}) =>
            /\ history[req[c].id][req[c].next] # Absent
            /\ history[req[c].id][req[c].next].data = req[c].data

\* content.go:443-444: Rollback makes the item's data what the history says of
\* the requested version at that very moment.
RollbackRestoresHistory ==
    [][\A c \in Clients :
        (req[c].kind = "rollback" /\ pc[c] = "write" /\ pc'[c] = "snapshot") =>
        /\ history[req[c].id][req[c].target] # Absent
        /\ items'[req[c].id].data = history[req[c].id][req[c].target].data]_vars

\* content.go:311-312 "replaces the item's data, and records a new version
\* snapshot": with no request in flight, the live data of every item is the
\* snapshot of its version.
LiveDataRecorded ==
    (\A c \in Clients : pc[c] = "idle") =>
        \A i \in Ids : items[i] # Absent =>
            /\ history[i][items[i].version] # Absent
            /\ history[i][items[i].version].data = items[i].data
=============================================================================
