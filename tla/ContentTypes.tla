---------------------------- MODULE ContentTypes ----------------------------
(***************************************************************************)
(* Content items against the composition: internal/content's writers,      *)
(* which read the composition and then write rows, beside                  *)
(* internal/composition's edits, whose deletion guard counts rows and then *)
(* writes the composition (internal/api/contenttypes.go,                   *)
(* internal/graphql/schema.resolvers.go).  The composition side is         *)
(* CompositionStore itself; an item is its type and what its relation      *)
(* field names.                                                            *)
(***************************************************************************)
EXTENDS CompositionStore

CONSTANTS Writers,      \* concurrent content requests
          Ids,          \* item ids, never used twice
          None,         \* no row; no relation
          MaxWrites     \* bound of the model: content requests started

ASSUME ContentTypesAssumption ==
    /\ MaxWrites \in Nat
    /\ None \notin Ids

VARIABLES items,    \* items[i]: the row of item i, or None
          wpc,      \* wpc[w]: the statement writer w makes next
          wreq,     \* wreq[w]: its arguments and the shape it has read
          used,     \* auxiliary: the (id, type) pairs ever inserted
          raced,    \* auxiliary: the types a removal and a create raced for
          writes    \* auxiliary: content requests started

cvars == <<items, wpc, wreq, used, raced, writes>>
allVars == <<vars, cvars>>

ContentInit ==
    /\ Init
    /\ items = [i \in Ids |-> None]
    /\ wpc = [w \in Writers |-> "idle"]
    /\ wreq = [w \in Writers |-> None]
    /\ used = {}
    /\ raced = {}
    /\ writes = 0

\* exists and countByType: the row of i is one of type t; rows of type t.
Exists(t, i) == items[i] # None /\ items[i].type = t
Count(t) == {i \in Ids : Exists(t, i)}

-----------------------------------------------------------------------------
WGoto(w, p) == wpc' = [wpc EXCEPT ![w] = p]

\* A request for an id the code drew at random, or for one it may have seen.
WBegin(w) ==
    /\ wpc[w] = "idle"
    /\ writes < MaxWrites
    /\ writes' = writes + 1
    /\ \E k \in {"create", "update", "delete"}, i \in Ids, t \in Types,
          r \in Ids \cup {None} :
        /\ k = "create" => /\ \A u \in used : u[1] # i
                           /\ \A v \in Writers : wreq[v] # None => wreq[v].id # i
        /\ k # "create" => <<i, t>> \in used
        /\ k = "delete" => r = None
        /\ wreq' = [wreq EXCEPT ![w] = [kind |-> k, id |-> i, type |-> t,
                                        ref |-> r, shape |-> Undeclared]]
    /\ WGoto(w, "load")
    /\ UNCHANGED <<items, used, raced>>

\* contentType, then validate: the type must be declared and only a relation
\* field may name an item.
WLoad(w) ==
    /\ wpc[w] = "load"
    /\ LET shape == doc[wreq[w].type] IN
        IF \/ version = 0 \/ shape = Undeclared
           \/ wreq[w].ref # None /\ Targets[shape] = {}
        THEN WGoto(w, "done") /\ UNCHANGED wreq
        ELSE /\ wreq' = [wreq EXCEPT ![w].shape = shape]
             /\ WGoto(w, IF wreq[w].kind = "delete" THEN "delete" ELSE "check")
    /\ UNCHANGED <<items, used, raced, writes>>

\* checkRelations: the item named exists now, with the field's target type.
WCheck(w) ==
    /\ wpc[w] = "check"
    /\ IF \/ wreq[w].ref = None
          \/ \E t \in Targets[wreq[w].shape] : Exists(t, wreq[w].ref)
       THEN WGoto(w, IF wreq[w].kind = "create" THEN "insert" ELSE "read")
       ELSE WGoto(w, "done")
    /\ UNCHANGED <<items, wreq, used, raced, writes>>

\* The removal of type t has made its count and not yet its write.
PastGuard(t) == \E c \in Clients :
    phase[c] = "save" /\ edit[c].op = "remove" /\ edit[c].name = t

\* Create: INSERT.
WInsert(w) ==
    /\ wpc[w] = "insert"
    /\ LET t == wreq[w].type IN
        /\ items' = [items EXCEPT ![wreq[w].id] = [type |-> t, ref |-> wreq[w].ref]]
        /\ used' = used \cup {<<wreq[w].id, t>>}
        /\ raced' = IF PastGuard(t) THEN raced \cup {t} ELSE raced
    /\ WGoto(w, "done")
    /\ UNCHANGED <<wreq, writes>>

\* Update: getByID, then setData.
WRead(w) ==
    /\ wpc[w] = "read"
    /\ WGoto(w, IF Exists(wreq[w].type, wreq[w].id) THEN "write" ELSE "done")
    /\ UNCHANGED <<items, wreq, used, raced, writes>>

WWrite(w) ==
    /\ wpc[w] = "write"
    /\ items' = IF Exists(wreq[w].type, wreq[w].id)
                THEN [items EXCEPT ![wreq[w].id].ref = wreq[w].ref]
                ELSE items
    /\ WGoto(w, "done")
    /\ UNCHANGED <<wreq, used, raced, writes>>

\* Delete looks at nothing that refers to the item.
WDelete(w) ==
    /\ wpc[w] = "delete"
    /\ items' = IF Exists(wreq[w].type, wreq[w].id)
                THEN [items EXCEPT ![wreq[w].id] = None]
                ELSE items
    /\ WGoto(w, "done")
    /\ UNCHANGED <<wreq, used, raced, writes>>

WInterrupt(w) ==
    /\ wpc[w] \notin {"idle", "done"}
    /\ WGoto(w, "done")
    /\ UNCHANGED <<items, wreq, used, raced, writes>>

WReturn(w) ==
    /\ wpc[w] = "done"
    /\ WGoto(w, "idle")
    /\ wreq' = [wreq EXCEPT ![w] = None]
    /\ UNCHANGED <<items, used, raced, writes>>

\* The content-type handlers.  Every removal they make is guarded; their
\* count before the call only refuses early, like a denied Start.
StartEdit(c) ==
    /\ \E e \in Edits : (e.op = "remove" => e.guarded) /\ Start(c, e)
    /\ UNCHANGED cvars

\* Faulty guard: passes whatever it counts.
CountGuardPasses(c) ==
    /\ Guard(c)
    /\ phase'[c] = "save"
    /\ UNCHANGED cvars

\* The guard they pass counts the items of the type.
CountGuard(c) ==
    /\ Guard(c)
    /\ (phase'[c] = "save") <=> (Count(edit[c].name) = {})
    /\ UNCHANGED cvars

\* A create that has read the composition and not written its row.
Creating(t) == \E w \in Writers :
    /\ wpc[w] \in {"check", "insert"}
    /\ wreq[w].kind = "create" /\ wreq[w].type = t

SwapEdit(c) ==
    /\ Swap(c)
    /\ raced' = IF edit[c].op = "remove" /\ Creating(edit[c].name)
                THEN raced \cup {edit[c].name} ELSE raced
    /\ UNCHANGED <<items, wpc, wreq, used, writes>>

FirstSetup ==
    /\ version = 0
    /\ SaveWith(EmptyDoc)
    /\ UNCHANGED cvars

EditStep(c) ==
    \/ StartEdit(c) \/ CountGuard(c) \/ SwapEdit(c)
    \/ /\ LoadNothing(c) \/ Load(c) \/ Invalid(c) \/ Miss(c) \/ Confirm(c)
          \/ Interrupt(c) \/ Return(c)
       /\ UNCHANGED cvars

WriteStep(w) ==
    /\ \/ WBegin(w) \/ WLoad(w) \/ WCheck(w) \/ WInsert(w) \/ WRead(w)
       \/ WWrite(w) \/ WDelete(w) \/ WInterrupt(w) \/ WReturn(w)
    /\ UNCHANGED vars

ContentNext ==
    \/ FirstSetup
    \/ \E c \in Clients : EditStep(c)
    \/ \E w \in Writers : WriteStep(w)

ContentSpec == ContentInit /\ [][ContentNext]_allVars

-----------------------------------------------------------------------------
\* What the guard of contenttypes.go:71-80 does achieve: items outlive their
\* type only if a create of that type was between its read of the composition
\* and its insert, or inserted after the guard's count, when the removal
\* committed.
OrphansOnlyByRace ==
    \A i \in Ids :
        items[i] # None /\ items[i].type \notin raced =>
            doc[items[i].type] # Undeclared
=============================================================================
