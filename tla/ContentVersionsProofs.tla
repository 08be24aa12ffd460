----------------------- MODULE ContentVersionsProofs -----------------------
(***************************************************************************)
(* Proofs about the items and versions of ContentVersions, for any set of  *)
(* requests, items and bodies: what a snapshot records, what a request     *)
(* that succeeds has recorded and what a rollback restores.                *)
(*                                                                         *)
(* The inductive invariant says of every request what its step implies of  *)
(* its arguments and of the two tables (Underway).  It survives the steps  *)
(* of the others because rows of history are never changed and the         *)
(* auxiliary record of what rows held only grows.                          *)
(***************************************************************************)
EXTENDS ContentVersions, TLAPS

Recording == {"create", "update", "rollback"}

\* What the step request c is at says of its arguments and of the tables.
Underway(c) ==
    LET q == req[c] IN
    /\ pc[c] = "insert" => q.kind = "create" /\ q.data \in Bodies
    /\ pc[c] = "read" => q.kind \in {"update", "rollback"}
    /\ pc[c] = "read" /\ q.kind = "update" => q.data \in Bodies
    /\ pc[c] = "target" => q.kind = "rollback" /\ q.next \in Versions
    /\ pc[c] = "write" => q.kind \in Recording /\ q.next \in Versions /\ q.data \in Bodies
    /\ pc[c] = "write" /\ q.kind = "rollback" =>
        history[q.id][q.target] # Absent /\ history[q.id][q.target].data = q.data
    /\ pc[c] = "snapshot" =>
        /\ q.kind \in Recording /\ q.next \in Versions /\ q.data \in Bodies
        /\ <<q.next, q.data>> \in held[q.id]
    /\ pc[c] = "delete" => q.kind = "delete"
    /\ pc[c] = "set status" => q.kind \in {"publish", "unpublish"}
    /\ pc[c] \in {"reply", "ok"} /\ q.kind \in Recording =>
        /\ q.next \in Versions
        /\ history[q.id][q.next] # Absent /\ history[q.id][q.next].data = q.data

VersionsInv ==
    /\ TypeOK
    /\ SnapshotsWereLive
    /\ \A c \in Clients : Underway(c)

\* A request at rest, the arguments of any request and the first version.
LEMMA RequestsTyped ==
    /\ Idle \in Requests /\ 1 \in Versions
    /\ \A i \in Ids, d \in Bodies : [Idle EXCEPT !.id = i, !.data = d] \in Requests
    /\ \A i \in Ids, d \in Bodies :
        [Idle EXCEPT !.kind = "update", !.id = i, !.data = d] \in Requests
    /\ \A i \in Ids, v \in Versions :
        [Idle EXCEPT !.kind = "rollback", !.id = i, !.target = v] \in Requests
    /\ \A i \in Ids, k \in Kinds : [Idle EXCEPT !.kind = k, !.id = i] \in Requests
<1>1. Idle.id \in Ids
  BY ContentAssumption DEF Idle
<1>2. 1 \in Versions /\ 0 \in 0 .. MaxVersion
  BY ContentAssumption DEF Versions
<1>3. Idle \in Requests
  BY <1>1, <1>2 DEF Idle, Requests, Kinds, Statuses
<1> QED
  BY <1>2, <1>3 DEF Requests, Kinds

\* No item, no snapshot, no request under way.
LEMMA InitVersions == Init => VersionsInv
<1> SUFFICES ASSUME Init PROVE VersionsInv
  OBVIOUS
<1>1. TypeOK
  <2>1. requests \in 0 .. MaxRequests
    BY ContentAssumption DEF Init
  <2>2. history \in [Ids -> [Versions -> Snapshots \cup {Absent}]]
    BY DEF Init
  <2>3. pc \in [Clients -> PCs] /\ req \in [Clients -> Requests]
    BY RequestsTyped DEF Init, PCs
  <2>4. items \in [Ids -> Rows \cup {Absent}] /\ created \subseteq Ids
    BY DEF Init
  <2>5. held \in [Ids -> SUBSET (Versions \X Bodies)]
    BY DEF Init
  <2> QED
    BY <2>1, <2>2, <2>3, <2>4, <2>5 DEF TypeOK
<1>2. SnapshotsWereLive
  BY DEF Init, SnapshotsWereLive
<1>3. \A c \in Clients : Underway(c)
  BY DEF Init, Underway
<1> QED
  BY <1>1, <1>2, <1>3 DEF VersionsInv

\* A step keeps the types.
LEMMA VersionsTyped ==
    ASSUME VersionsInv, NEW c \in Clients, Work(c) \/ Interrupt(c)
    PROVE TypeOK'
<1> USE DEF VersionsInv
<1>1. ASSUME NEW r \in Requests, NEW p \in PCs, Begin(c, r, p)
      PROVE /\ items' \in [Ids -> Rows \cup {Absent}]
            /\ history' \in [Ids -> [Versions -> Snapshots \cup {Absent}]]
            /\ pc' \in [Clients -> PCs] /\ req' \in [Clients -> Requests]
            /\ held' \in [Ids -> SUBSET (Versions \X Bodies)]
            /\ requests' \in 0 .. MaxRequests
  <2>1. requests' \in 0 .. MaxRequests
    BY <1>1, ContentAssumption DEF TypeOK, Begin
  <2>2. pc' \in [Clients -> PCs]
    BY <1>1 DEF TypeOK, Begin, Goto, PCs
  <2>3. req' \in [Clients -> Requests]
    BY <1>1 DEF TypeOK, Begin
  <2> QED
    BY <1>1, <2>1, <2>2, <2>3 DEF TypeOK, Begin
<1>2. ASSUME BeginCreate(c) PROVE TypeOK'
  <2> PICK i \in Ids \ created, d \in Bodies :
        /\ Begin(c, [Idle EXCEPT !.id = i, !.data = d], "insert")
        /\ created' = created \cup {i}
    BY <1>2 DEF BeginCreate
  <2>1. created' \subseteq Ids
    BY DEF TypeOK
  <2> QED
    BY <1>1, <2>1, RequestsTyped DEF TypeOK, PCs
<1>3. ASSUME BeginUpdate(c) PROVE TypeOK'
  BY <1>1, <1>3, RequestsTyped DEF TypeOK, PCs, BeginUpdate, Known
<1>4. ASSUME BeginRollback(c) PROVE TypeOK'
  BY <1>1, <1>4, RequestsTyped DEF TypeOK, PCs, BeginRollback, Known
<1>5. ASSUME BeginDelete(c) PROVE TypeOK'
  BY <1>1, <1>5, RequestsTyped DEF TypeOK, PCs, BeginDelete, Known, Kinds
<1>6. ASSUME BeginSetStatus(c) PROVE TypeOK'
  BY <1>1, <1>6, RequestsTyped DEF TypeOK, PCs, BeginSetStatus, Known, Kinds
<1>7. ASSUME NEW i \in Ids, NEW r \in Rows, Put(i, r)
      PROVE /\ items' \in [Ids -> Rows \cup {Absent}]
            /\ held' \in [Ids -> SUBSET (Versions \X Bodies)]
  BY <1>7 DEF TypeOK, Put, Rows
<1>8. req[c] \in Requests /\ req[c].id \in Ids /\ items[req[c].id] \in Rows \cup {Absent}
  BY DEF TypeOK, Requests
<1>9. ASSUME NEW p \in PCs, Goto(c, p) PROVE pc' \in [Clients -> PCs]
  BY <1>9 DEF TypeOK, Goto
<1>10. ASSUME Insert(c) PROVE TypeOK'
  <2>1. [data |-> req[c].data, status |-> "draft", version |-> 1] \in Rows
    BY <1>10, RequestsTyped DEF Underway, Insert, Rows, Statuses
  <2>2. req' \in [Clients -> Requests]
    <3>1. [req[c] EXCEPT !.next = 1] \in Requests
      BY <1>8, ContentAssumption DEF Requests
    <3> QED
      BY <3>1, <1>10 DEF Insert, TypeOK
  <2> QED
    BY <1>7, <1>8, <1>9, <1>10, <2>1, <2>2 DEF TypeOK, Insert, PCs
<1>11. ASSUME Read(c) PROVE TypeOK'
  <2>1. ASSUME items[req[c].id] # Absent, items[req[c].id].version < MaxVersion
        PROVE [req[c] EXCEPT !.next = items[req[c].id].version + 1,
                             !.status = items[req[c].id].status] \in Requests
    <3>1. items[req[c].id].version + 1 \in 0 .. MaxVersion
      BY <1>8, <2>1, ContentAssumption DEF Rows, Versions
    <3>2. items[req[c].id].status \in Statuses
      BY <1>8, <2>1 DEF Rows
    <3> QED
      BY <1>8, <3>1, <3>2 DEF Requests
  <2>2. req' \in [Clients -> Requests]
    BY <1>11, <2>1 DEF Read, TypeOK
  <2> QED
    BY <1>9, <1>11, <2>2 DEF TypeOK, Read, PCs
<1>12. ASSUME ReadTarget(c) PROVE TypeOK'
  <2>1. history[req[c].id][req[c].target] \in Snapshots \cup {Absent}
    BY <1>8 DEF TypeOK, Requests
  <2>2. ASSUME history[req[c].id][req[c].target] # Absent
        PROVE [req[c] EXCEPT !.data = history[req[c].id][req[c].target].data] \in Requests
    BY <1>8, <2>1, <2>2 DEF Requests, Snapshots
  <2>3. req' \in [Clients -> Requests]
    BY <1>12, <2>2 DEF ReadTarget, TypeOK
  <2> QED
    BY <1>9, <1>12, <2>3 DEF TypeOK, ReadTarget, PCs
<1>13. ASSUME SetData(c) PROVE TypeOK'
  <2>1. ASSUME items[req[c].id] # Absent
        PROVE [items[req[c].id] EXCEPT !.data = req[c].data, !.version = req[c].next] \in Rows
    <3>1. req[c].data \in Bodies /\ req[c].next \in Versions
      BY <1>13 DEF SetData, Underway
    <3> QED
      BY <1>8, <2>1, <3>1 DEF Rows
  <2> QED
    BY <1>7, <1>8, <1>9, <1>13, <2>1 DEF TypeOK, SetData, PCs, Keep
<1>14. ASSUME InsertVersion(c) PROVE TypeOK'
  <2>1. [data |-> req[c].data, status |-> req[c].status] \in Snapshots
    BY <1>8, <1>14 DEF InsertVersion, Underway, Snapshots, Requests
  <2>2. history' \in [Ids -> [Versions -> Snapshots \cup {Absent}]]
    <3> DEFINE Cells == Snapshots \cup {Absent}
               With(h, i, v, x) == [h EXCEPT ![i][v] = x]
    <3>1. ASSUME NEW h \in [Ids -> [Versions -> Cells]], NEW i \in Ids, NEW v, NEW x \in Cells
          PROVE With(h, i, v, x) \in [Ids -> [Versions -> Cells]]
      OBVIOUS
    <3>2. history \in [Ids -> [Versions -> Cells]]
      BY DEF TypeOK
    <3>3. \/ history' = history
          \/ \E x \in Cells : history' = With(history, req[c].id, req[c].next, x)
      BY <1>14, <2>1 DEF InsertVersion
    <3> HIDE DEF Cells, With
    <3>4. history' \in [Ids -> [Versions -> Cells]]
      BY <1>8, <3>1, <3>2, <3>3
    <3> QED
      BY <3>4 DEF Cells
  <2> QED
    BY <1>9, <1>14, <2>2 DEF TypeOK, InsertVersion, PCs, Keep
<1>15. ASSUME DeleteRow(c) PROVE TypeOK'
  BY <1>8, <1>9, <1>15 DEF TypeOK, DeleteRow, PCs, Keep
<1>16. ASSUME SetStatus(c) PROVE TypeOK'
  <2>1. ASSUME items[req[c].id] # Absent, NEW s \in Statuses
        PROVE [items[req[c].id] EXCEPT !.status = s] \in Rows
    BY <1>8, <2>1 DEF Rows
  <2> QED
    BY <1>8, <1>9, <1>16, <2>1 DEF TypeOK, SetStatus, PCs, Keep, Statuses
<1>17. ASSUME Reply(c) PROVE TypeOK'
  BY <1>9, <1>17 DEF TypeOK, Reply, PCs, Keep
<1>18. ASSUME Return(c) PROVE TypeOK'
  BY <1>9, <1>18, RequestsTyped DEF TypeOK, Return, PCs
<1>19. ASSUME Interrupt(c) PROVE TypeOK'
  BY <1>9, <1>19 DEF TypeOK, Interrupt, PCs, Keep
<1> QED
  BY <1>2, <1>3, <1>4, <1>5, <1>6, <1>10, <1>11, <1>12, <1>13, <1>14, <1>15, <1>16,
     <1>17, <1>18, <1>19 DEF Work
\* What a row has held stays held, and a snapshot is written once.
LEMMA HistoryKept ==
    ASSUME VersionsInv, NEW c \in Clients, Work(c) \/ Interrupt(c)
    PROVE /\ \A i \in Ids : held[i] \subseteq held'[i]
          /\ \A i \in Ids, v \in Versions :
                history[i][v] # Absent => history'[i][v] = history[i][v]
<1>1. ASSUME NEW r, NEW i \in Ids, Put(i, r) PROVE \A j \in Ids : held[j] \subseteq held'[j]
  BY <1>1 DEF VersionsInv, TypeOK, Put
<1>2. CASE Insert(c) \/ SetData(c)
  <2>1. req[c].id \in Ids
    BY DEF VersionsInv, TypeOK, Requests
  <2>2. \A j \in Ids : held[j] \subseteq held'[j]
    <3>1. PICK r : Put(req[c].id, r) \/ UNCHANGED held
      BY <1>2 DEF Insert, SetData
    <3> QED
      BY <1>1, <2>1, <3>1
  <2> QED
    BY <1>2, <2>2 DEF Insert, SetData
<1>3. CASE InsertVersion(c)
  BY <1>3 DEF VersionsInv, TypeOK, InsertVersion
<1>4. CASE UNCHANGED <<history, held>>
  BY <1>4
<1> QED
  BY <1>2, <1>3, <1>4 DEF Work, BeginCreate, BeginUpdate, BeginRollback, BeginDelete,
     BeginSetStatus, Begin, Read, ReadTarget, DeleteRow, SetStatus, Reply, Return, Interrupt, Keep

\* The requests that do not move stay as they were.
LEMMA OthersUnderway ==
    ASSUME VersionsInv, NEW c \in Clients, Work(c) \/ Interrupt(c),
           NEW d \in Clients, pc'[d] = pc[d], req'[d] = req[d]
    PROVE Underway(d)'
<1>1. /\ Underway(d) /\ req[d] \in Requests
      /\ req[d].id \in Ids /\ req[d].target \in Versions
  BY DEF VersionsInv, TypeOK, Requests
<1>2. ASSUME history[req[d].id][req[d].target] # Absent
      PROVE history'[req[d].id][req[d].target] = history[req[d].id][req[d].target]
  BY <1>1, <1>2, HistoryKept
<1>3. held[req[d].id] \subseteq held'[req[d].id]
  BY <1>1, HistoryKept
<1>4. ASSUME req[d].next \in Versions, history[req[d].id][req[d].next] # Absent
      PROVE history'[req[d].id][req[d].next] = history[req[d].id][req[d].next]
  BY <1>1, <1>4, HistoryKept
<1>5. pc[d] \in {"reply", "ok"} /\ req[d].kind \in Recording => req[d].next \in Versions
  BY <1>1 DEF Underway
<1> QED
  BY <1>1, <1>2, <1>3, <1>4, <1>5 DEF Underway

\* A request at rest, or one that failed, claims nothing.
LEMMA RestClaimsNothing ==
    ASSUME NEW c \in Clients, pc'[c] \in {"idle", "refused"} PROVE Underway(c)'
BY DEF Underway

\* What the request that moves leaves behind is what its next step needs.
LEMMA MoverUnderway ==
    ASSUME VersionsInv, NEW c \in Clients, Work(c) \/ Interrupt(c)
    PROVE Underway(c)'
<1> USE RestClaimsNothing
<1>1. /\ Underway(c) /\ req[c] \in Requests /\ req[c].id \in Ids
      /\ pc \in [Clients -> PCs] /\ req \in [Clients -> Requests]
  BY DEF VersionsInv, TypeOK, Requests
<1>2. ASSUME NEW r \in Requests, NEW p \in PCs, Begin(c, r, p)
      PROVE req'[c] = r /\ pc'[c] \in {p, "refused"}
  BY <1>1, <1>2 DEF Begin, Goto
<1>3. CASE BeginCreate(c)
  <2> PICK i \in Ids, d \in Bodies : Begin(c, [Idle EXCEPT !.id = i, !.data = d], "insert")
    BY <1>3 DEF BeginCreate
  <2>1. req'[c] = [Idle EXCEPT !.id = i, !.data = d] /\ pc'[c] \in {"insert", "refused"}
    BY <1>2, RequestsTyped DEF PCs
  <2>2. req'[c].kind = "create" /\ req'[c].data = d
    BY <2>1, RequestsTyped DEF Idle
  <2> QED
    BY <2>1, <2>2 DEF Underway
<1>4. CASE BeginUpdate(c)
  <2> PICK i \in Ids, d \in Bodies :
        Begin(c, [Idle EXCEPT !.kind = "update", !.id = i, !.data = d], "read")
    BY <1>4 DEF BeginUpdate, Known
  <2>1. /\ req'[c] = [Idle EXCEPT !.kind = "update", !.id = i, !.data = d]
        /\ pc'[c] \in {"read", "refused"}
    BY <1>2, RequestsTyped DEF PCs
  <2>2. req'[c].kind = "update" /\ req'[c].data = d
    BY <2>1, RequestsTyped DEF Idle
  <2> QED
    BY <2>1, <2>2 DEF Underway
<1>5. CASE BeginRollback(c)
  <2> PICK i \in Ids, v \in Versions :
        Begin(c, [Idle EXCEPT !.kind = "rollback", !.id = i, !.target = v], "read")
    BY <1>5 DEF BeginRollback, Known
  <2>1. /\ req'[c] = [Idle EXCEPT !.kind = "rollback", !.id = i, !.target = v]
        /\ pc'[c] \in {"read", "refused"}
    BY <1>2, RequestsTyped DEF PCs
  <2>2. req'[c].kind = "rollback"
    BY <2>1, RequestsTyped DEF Idle
  <2> QED
    BY <2>1, <2>2 DEF Underway
<1>6. CASE BeginDelete(c)
  <2> PICK i \in Ids : Begin(c, [Idle EXCEPT !.kind = "delete", !.id = i], "delete")
    BY <1>6 DEF BeginDelete, Known
  <2>1. /\ req'[c] = [Idle EXCEPT !.kind = "delete", !.id = i]
        /\ pc'[c] \in {"delete", "refused"}
    BY <1>2, RequestsTyped DEF PCs, Kinds
  <2>2. req'[c].kind = "delete"
    BY <2>1, RequestsTyped DEF Idle
  <2> QED
    BY <2>1, <2>2 DEF Underway
<1>7. CASE BeginSetStatus(c)
  <2> PICK i \in Ids, k \in {"publish", "unpublish"} :
        Begin(c, [Idle EXCEPT !.kind = k, !.id = i], "set status")
    BY <1>7 DEF BeginSetStatus, Known
  <2>1. /\ req'[c] = [Idle EXCEPT !.kind = k, !.id = i]
        /\ pc'[c] \in {"set status", "refused"}
    BY <1>2, RequestsTyped DEF PCs, Kinds
  <2>2. req'[c].kind = k
    BY <2>1, RequestsTyped DEF Idle
  <2> QED
    BY <2>1, <2>2 DEF Underway
<1>8. CASE Insert(c)
  <2>1. /\ req'[c].kind = "create" /\ req'[c].data = req[c].data /\ req'[c].next = 1
        /\ req'[c].id = req[c].id /\ req[c].data \in Bodies /\ pc'[c] = "snapshot"
    BY <1>1, <1>8 DEF Insert, Goto, Underway, Requests
  <2>2. <<1, req[c].data>> \in held'[req[c].id]
    BY <1>1, <1>8 DEF Insert, Put, VersionsInv, TypeOK
  <2> QED
    BY <2>1, <2>2, RequestsTyped DEF Underway, Recording
<1>9. CASE Read(c)
  <2>1. CASE items[req[c].id] = Absent
    BY <1>1, <1>9, <2>1 DEF Read, Goto
  <2>2. CASE items[req[c].id] # Absent
    <3> DEFINE row == items[req[c].id]
    <3>1. row \in Rows /\ row.version < MaxVersion
      BY <1>1, <1>9, <2>2 DEF Read, VersionsInv, TypeOK
    <3>2. row.version + 1 \in Versions
      BY <3>1, ContentAssumption DEF Rows, Versions
    <3>3. /\ req'[c].next = row.version + 1 /\ req'[c].kind = req[c].kind
          /\ req'[c].data = req[c].data
          /\ pc'[c] = IF req[c].kind = "rollback" THEN "target" ELSE "write"
      BY <1>1, <1>9, <2>2 DEF Read, Goto, Requests
    <3>4. pc[c] = "read" /\ req[c].kind \in {"update", "rollback"}
      BY <1>1, <1>9 DEF Read, Underway
    <3>5. req[c].kind = "update" => req[c].data \in Bodies
      BY <1>1, <3>4 DEF Underway
    <3> QED
      BY <3>2, <3>3, <3>4, <3>5 DEF Underway, Recording
  <2> QED
    BY <2>1, <2>2
<1>10. CASE ReadTarget(c)
  <2> DEFINE snap == history[req[c].id][req[c].target]
  <2>1. CASE pc'[c] = "refused"
    BY <2>1
  <2>2. CASE pc'[c] # "refused"
    <3>1. /\ snap # Absent /\ snap \in Snapshots \cup {Absent}
          /\ history' = history /\ pc'[c] = "write"
      BY <1>1, <1>10, <2>2 DEF ReadTarget, Goto, VersionsInv, TypeOK, Requests
    <3>2. snap.data \in Bodies
      BY <3>1 DEF Snapshots
    <3>3. /\ req'[c].data = snap.data /\ req'[c].kind = req[c].kind
          /\ req'[c].id = req[c].id /\ req'[c].target = req[c].target
          /\ req'[c].next = req[c].next
      BY <1>1, <1>10, <2>2 DEF ReadTarget, Goto, Requests
    <3>4. req[c].kind = "rollback" /\ req[c].next \in Versions
      BY <1>1, <1>10 DEF ReadTarget, Underway
    <3> QED
      BY <3>1, <3>2, <3>3, <3>4 DEF Underway, Recording
  <2> QED
    BY <2>1, <2>2
<1>11. CASE SetData(c)
  <2>1. CASE items[req[c].id] = Absent
    BY <1>1, <1>11, <2>1 DEF SetData, Goto
  <2>2. CASE items[req[c].id] # Absent
    <3> DEFINE row == [items[req[c].id] EXCEPT !.data = req[c].data, !.version = req[c].next]
    <3>1. pc'[c] = "snapshot" /\ req' = req /\ Put(req[c].id, row)
      BY <1>1, <1>11, <2>2 DEF SetData, Goto, Keep
    <3>2. /\ req[c].kind \in Recording /\ req[c].next \in Versions
          /\ req[c].data \in Bodies
      BY <1>1, <1>11 DEF SetData, Underway
    <3>3. items[req[c].id] \in Rows
      BY <1>1, <2>2 DEF VersionsInv, TypeOK
    <3>4. row.version = req[c].next /\ row.data = req[c].data
      BY <3>3 DEF Rows
    <3>5. <<req[c].next, req[c].data>> \in held'[req[c].id]
      BY <1>1, <3>1, <3>4 DEF Put, VersionsInv, TypeOK
    <3> QED
      BY <3>1, <3>2, <3>5 DEF Underway
  <2> QED
    BY <2>1, <2>2
<1>12. CASE InsertVersion(c)
  <2>1. CASE history[req[c].id][req[c].next] # Absent
    BY <1>1, <1>12, <2>1 DEF InsertVersion, Goto
  <2>2. CASE history[req[c].id][req[c].next] = Absent
    <3> DEFINE snap == [data |-> req[c].data, status |-> req[c].status]
    <3>1. /\ req[c].kind \in Recording /\ req[c].next \in Versions
          /\ req[c].data \in Bodies /\ req[c].status \in Statuses
      BY <1>1, <1>12 DEF InsertVersion, Underway, Requests
    <3>2. snap \in Snapshots
      BY <3>1 DEF Snapshots
    <3>3. snap # Absent /\ snap.data = req[c].data
      BY <3>2, ContentAssumption
    <3>4. history'[req[c].id][req[c].next] = snap
      BY <1>1, <1>12, <2>2, <3>1 DEF InsertVersion, VersionsInv, TypeOK
    <3>5. pc'[c] \in {"ok", "reply"} /\ req' = req
      BY <1>1, <1>12, <2>2 DEF InsertVersion, Goto, Keep
    <3> QED
      BY <3>1, <3>3, <3>4, <3>5 DEF Underway
  <2> QED
    BY <2>1, <2>2
<1>13. CASE DeleteRow(c)
  <2>1. pc'[c] \in {"ok", "refused"} /\ req' = req /\ req[c].kind = "delete"
    BY <1>1, <1>13 DEF DeleteRow, Goto, Keep, Underway
  <2> QED
    BY <2>1 DEF Underway, Recording
<1>14. CASE SetStatus(c)
  <2>1. /\ pc'[c] \in {"reply", "refused"} /\ req' = req
        /\ req[c].kind \in {"publish", "unpublish"}
    BY <1>1, <1>14 DEF SetStatus, Goto, Keep, Underway
  <2> QED
    BY <2>1 DEF Underway, Recording
<1>15. CASE Reply(c)
  <2>1. /\ pc[c] = "reply" /\ pc'[c] \in {"ok", "refused"} /\ req' = req
        /\ history' = history
    BY <1>1, <1>15 DEF Reply, Goto, Keep
  <2> QED
    BY <1>1, <2>1 DEF Underway
<1>16. CASE Return(c)
  BY <1>1, <1>16 DEF Return, Goto
<1>17. CASE Interrupt(c)
  BY <1>1, <1>17 DEF Interrupt, Goto
<1> QED
  BY <1>3, <1>4, <1>5, <1>6, <1>7, <1>8, <1>9, <1>10, <1>11, <1>12, <1>13, <1>14, <1>15,
     <1>16, <1>17 DEF Work

\* Every statement, answer and failure keeps the invariant.
LEMMA NextVersions == VersionsInv /\ [Next]_vars => VersionsInv'
<1> SUFFICES ASSUME VersionsInv, [Next]_vars PROVE VersionsInv'
  OBVIOUS
<1>1. CASE UNCHANGED vars
  BY <1>1 DEF vars, VersionsInv, TypeOK, SnapshotsWereLive, Underway
<1>2. ASSUME NEW c \in Clients, Work(c) \/ Interrupt(c) PROVE VersionsInv'
  <2>1. TypeOK'
    BY <1>2, VersionsTyped
  <2>2. SnapshotsWereLive'
    <3> SUFFICES ASSUME NEW i \in Ids, NEW v \in Versions, history'[i][v] # Absent
                 PROVE <<v, history'[i][v].data>> \in held'[i]
      BY DEF SnapshotsWereLive
    <3>1. CASE history[i][v] # Absent
      BY <1>2, <3>1, HistoryKept DEF VersionsInv, SnapshotsWereLive
    <3>2. CASE history[i][v] = Absent
      <4>1. InsertVersion(c)
        BY <1>2, <3>2 DEF Work, BeginCreate, BeginUpdate, BeginRollback, BeginDelete,
           BeginSetStatus, Begin, Insert, Read, ReadTarget, SetData, DeleteRow,
           SetStatus, Reply, Return, Interrupt, Keep
      <4>2. /\ i = req[c].id /\ v = req[c].next
            /\ history'[i][v] = [data |-> req[c].data, status |-> req[c].status]
        BY <3>2, <4>1 DEF InsertVersion, VersionsInv, TypeOK
      <4>3. <<req[c].next, req[c].data>> \in held[req[c].id] /\ held' = held
        BY <4>1 DEF InsertVersion, VersionsInv, Underway
      <4> QED
        BY <4>2, <4>3
    <3> QED
      BY <3>1, <3>2
  <2>3. ASSUME NEW d \in Clients PROVE Underway(d)'
    <3>1. CASE d = c
      BY <1>2, <3>1, MoverUnderway
    <3>2. CASE d # c
      <4>1. pc'[d] = pc[d] /\ req'[d] = req[d]
        BY <1>2, <3>2 DEF Work, BeginCreate, BeginUpdate, BeginRollback, BeginDelete,
           BeginSetStatus, Begin, Insert, Read, ReadTarget, SetData, InsertVersion, DeleteRow,
           SetStatus, Reply, Return, Interrupt, Keep, Goto, VersionsInv, TypeOK
      <4> QED
        BY <1>2, <4>1, OthersUnderway
    <3> QED
      BY <3>1, <3>2
  <2> QED
    BY <2>1, <2>2, <2>3 DEF VersionsInv
<1> QED
  BY <1>1, <1>2 DEF Next

\* The invariant behind the four theorems.
LEMMA VersionsInvariant == Spec => []VersionsInv
BY InitVersions, NextVersions, PTL DEF Spec

\* For any number of requests: the rows keep their shape (content.go:27-51).
THEOREM VersionsTypeOK == Spec => []TypeOK
<1>1. VersionsInv => TypeOK
  BY DEF VersionsInv
<1> QED
  BY <1>1, VersionsInvariant, PTL

\* content.go:123-134, 342-350, 477-484: a snapshot records what the item held
\* at its version, whatever requests interleave or die.
THEOREM SnapshotsLive == Spec => []SnapshotsWereLive
<1>1. VersionsInv => SnapshotsWereLive
  BY DEF VersionsInv
<1> QED
  BY <1>1, VersionsInvariant, PTL

\* content.go:311-312: a request that reports success has its own data in the
\* history, under the version it wrote.
THEOREM SuccessRecorded == Spec => []SuccessIsRecorded
<1>1. VersionsInv => SuccessIsRecorded
  BY DEF VersionsInv, Underway, SuccessIsRecorded, Recording
<1> QED
  BY <1>1, VersionsInvariant, PTL

\* content.go:443-444: what a rollback puts in the row is what the history has
\* under the version it was asked for when it writes.
THEOREM RollbackRestores == Spec => RollbackRestoresHistory
<1>1. VersionsInv /\ [Next]_vars =>
        [\A c \in Clients :
          (req[c].kind = "rollback" /\ pc[c] = "write" /\ pc'[c] = "snapshot") =>
            /\ history[req[c].id][req[c].target] # Absent
            /\ items'[req[c].id].data = history[req[c].id][req[c].target].data]_vars
  <2> SUFFICES ASSUME VersionsInv, Next, NEW c \in Clients,
                      req[c].kind = "rollback", pc[c] = "write", pc'[c] = "snapshot"
               PROVE /\ history[req[c].id][req[c].target] # Absent
                     /\ items'[req[c].id].data = history[req[c].id][req[c].target].data
    OBVIOUS
  <2>1. /\ req[c].id \in Ids /\ Underway(c)
        /\ items[req[c].id] \in Rows \cup {Absent}
    BY DEF VersionsInv, TypeOK, Requests
  <2>2. SetData(c)
    <3>1. PICK d \in Clients : Work(d) \/ Interrupt(d)
      BY DEF Next
    <3>2. PICK p : Goto(d, p)
      BY <3>1 DEF Work, BeginCreate, BeginUpdate, BeginRollback, BeginDelete,
         BeginSetStatus, Begin, Insert, Read, ReadTarget, SetData, InsertVersion,
         DeleteRow, SetStatus, Reply, Return, Interrupt
    <3>3. d = c
      BY <3>2 DEF Goto, VersionsInv, TypeOK
    <3>4. ~ Goto(c, "refused")
      BY DEF Goto, VersionsInv, TypeOK
    <3> QED
      BY <3>1, <3>3, <3>4 DEF Work, BeginCreate, BeginUpdate, BeginRollback, BeginDelete,
         BeginSetStatus, Begin, Insert, Read, ReadTarget, InsertVersion, DeleteRow,
         SetStatus, Reply, Return, Interrupt
  <2>3. items[req[c].id] \in Rows
    BY <2>1, <2>2 DEF SetData, Goto, VersionsInv, TypeOK
  <2>4. items'[req[c].id] = [items[req[c].id] EXCEPT !.data = req[c].data,
                                                    !.version = req[c].next]
    BY <2>1, <2>2 DEF SetData, Goto, Put, VersionsInv, TypeOK
  <2>5. items'[req[c].id].data = req[c].data
    BY <2>3, <2>4 DEF Rows
  <2> QED
    BY <2>1, <2>5 DEF Underway
<1> QED
  BY <1>1, VersionsInvariant, PTL DEF Spec, RollbackRestoresHistory
============================================================================
