-------------------------- MODULE CompositionStore --------------------------
(***************************************************************************)
(* internal/composition/store.go: one database row (document, version),    *)
(* edited by concurrent requests that load it, edit their copy and write   *)
(* it back only if the version is still the one they loaded, retrying a    *)
(* bounded number of times.  Each database statement is one step; requests *)
(* (of one daemon or of several over one database) interleave between      *)
(* statements.  The reply to a write is a step of its own, so that a       *)
(* connection can break after the row changed.                             *)
(***************************************************************************)
EXTENDS CompositionDocument, Integers

CONSTANTS Clients,          \* concurrent requests
          NoEdit,           \* edit of a client that is not in a call
          MaxCASAttempts,   \* store.go:55, 50 in the code
          MaxRequests       \* bound of the model: requests and saves started

ASSUME StoreAssumption ==
    /\ NoEdit \notin Edits
    /\ MaxCASAttempts \in Nat \ {0}
    /\ MaxRequests \in Nat

VARIABLES doc,        \* row: the document
          version,    \* row: its version; 0 while there is no row
          phase,      \* phase[c]: which statement the request makes next
          edit,       \* edit[c]: what it was called with
          seenDoc,    \* seenDoc[c], seenVersion[c]: its loaded copy of the row
          seenVersion,
          attempt,    \* attempt[c]: the loop counter
          answer,     \* answer[c]: what it returned last
          requests,   \* auxiliary: requests and saves started so far
          base        \* auxiliary: base[c] is the version when c was called

row == <<doc, version>>
copies == <<seenDoc, seenVersion>>
vars == <<doc, version, phase, edit, seenDoc, seenVersion, attempt, answer,
          requests, base>>

Phases == {"idle", "load", "guard", "save", "committed", "done"}
Answers == {"none", "ok", "denied", "no composition", "unknown type",
            "guarded", "invalid", "contention", "error"}

TypeOK ==
    /\ doc \in Docs
    /\ version \in Nat
    /\ phase \in [Clients -> Phases]
    /\ edit \in [Clients -> Edits \cup {NoEdit}]
    /\ seenDoc \in [Clients -> Docs]
    /\ seenVersion \in [Clients -> Nat]
    /\ attempt \in [Clients -> Nat]
    /\ answer \in [Clients -> Answers]
    /\ requests \in 0 .. MaxRequests
    /\ base \in [Clients -> Nat]
    /\ \A c \in Clients : phase[c] # "idle" => edit[c] \in Edits

Init ==
    /\ doc = EmptyDoc
    /\ version = 0
    /\ phase = [c \in Clients |-> "idle"]
    /\ edit = [c \in Clients |-> NoEdit]
    /\ seenDoc = [c \in Clients |-> EmptyDoc]
    /\ seenVersion = [c \in Clients |-> 0]
    /\ attempt = [c \in Clients |-> 0]
    /\ answer = [c \in Clients |-> "none"]
    /\ requests = 0
    /\ base = [c \in Clients |-> 0]

-----------------------------------------------------------------------------
\* c moves on to phase p / returns a.
Goto(c, p) ==
    /\ phase' = [phase EXCEPT ![c] = p]
    /\ UNCHANGED answer

Finish(c, a) ==
    /\ phase' = [phase EXCEPT ![c] = "done"]
    /\ answer' = [answer EXCEPT ![c] = a]

\* SaveWith: the upsert first setup makes inside its transaction, and Save makes
\* once its own checks have passed.  It compares nothing, but raises version.
SaveWith(d) ==
    /\ requests < MaxRequests
    /\ Valid(d)
    /\ doc' = d
    /\ version' = version + 1
    /\ requests' = requests + 1
    /\ UNCHANGED <<phase, edit, copies, attempt, answer, base>>

\* DefineContentType or RemoveContentTypeGuarded is called with e; a principal
\* without content-types:manage is turned away before anything is read.
Start(c, e) ==
    /\ phase[c] = "idle"
    /\ requests < MaxRequests
    /\ requests' = requests + 1
    /\ edit' = [edit EXCEPT ![c] = e]
    /\ attempt' = [attempt EXCEPT ![c] = 0]
    /\ base' = [base EXCEPT ![c] = version]
    /\ Goto(c, "load") \/ Finish(c, "denied")
    /\ UNCHANGED <<row, copies>>

\* loadVersioned finds no row: first setup has not run.
LoadNothing(c) ==
    /\ phase[c] = "load"
    /\ version = 0
    /\ Finish(c, "no composition")
    /\ UNCHANGED <<row, edit, copies, attempt, requests, base>>

\* loadVersioned, then the edit of the copy up to the next statement: the
\* guard's if a removal has one, else the write.
Load(c) ==
    /\ phase[c] = "load"
    /\ version > 0
    /\ seenDoc' = [seenDoc EXCEPT ![c] = doc]
    /\ seenVersion' = [seenVersion EXCEPT ![c] = version]
    /\ IF Missing(doc, edit[c])
       THEN Finish(c, "unknown type")
       ELSE Goto(c, IF edit[c].op = "remove" /\ edit[c].guarded
                    THEN "guard" ELSE "save")
    /\ UNCHANGED <<row, edit, attempt, requests, base>>

\* The guard is the caller's (it counts content items): the store knows only
\* whether it returned an error.
Guard(c) ==
    /\ phase[c] = "guard"
    /\ Goto(c, "save") \/ Finish(c, "guarded")
    /\ UNCHANGED <<row, edit, copies, attempt, requests, base>>

\* casSave rejects a document the contract does not accept before it writes.
Invalid(c) ==
    /\ phase[c] = "save"
    /\ ~Valid(Edited(seenDoc[c], edit[c]))
    /\ Finish(c, "invalid")
    /\ UNCHANGED <<row, edit, copies, attempt, requests, base>>

\* Faulty Swap: the UPDATE has no version in its WHERE clause.
SwapBlind(c) ==
    /\ phase[c] = "save"
    /\ Valid(Edited(seenDoc[c], edit[c]))
    /\ doc' = Edited(seenDoc[c], edit[c])
    /\ version' = version + 1
    /\ Goto(c, "committed")
    /\ UNCHANGED <<edit, copies, attempt, requests, base>>

\* casSave: UPDATE ... WHERE version = ? matches the row.
Swap(c) ==
    /\ phase[c] = "save"
    /\ Valid(Edited(seenDoc[c], edit[c]))
    /\ version = seenVersion[c]
    /\ doc' = Edited(seenDoc[c], edit[c])
    /\ version' = version + 1
    /\ Goto(c, "committed")
    /\ UNCHANGED <<edit, copies, attempt, requests, base>>

\* Faulty Miss: reloads for as long as others write.
MissForEver(c) ==
    /\ phase[c] = "save"
    /\ Valid(Edited(seenDoc[c], edit[c]))
    /\ version # seenVersion[c]
    /\ attempt' = [attempt EXCEPT ![c] = @ + 1]
    /\ Goto(c, "load")
    /\ UNCHANGED <<row, edit, copies, requests, base>>

\* Faulty Miss: takes the new version but keeps the old document.
MissRestamps(c) ==
    /\ phase[c] = "save"
    /\ version # seenVersion[c]
    /\ attempt' = [attempt EXCEPT ![c] = @ + 1]
    /\ seenVersion' = [seenVersion EXCEPT ![c] = version]
    /\ IF attempt[c] + 1 < MaxCASAttempts THEN Goto(c, "save")
                                          ELSE Finish(c, "contention")
    /\ UNCHANGED <<row, edit, seenDoc, requests, base>>

\* The UPDATE matches no row, another writer was first: reload and reapply,
\* or give up after MaxCASAttempts attempts.
Miss(c) ==
    /\ phase[c] = "save"
    /\ Valid(Edited(seenDoc[c], edit[c]))
    /\ version # seenVersion[c]
    /\ attempt' = [attempt EXCEPT ![c] = @ + 1]
    /\ IF attempt[c] + 1 < MaxCASAttempts THEN Goto(c, "load")
                                          ELSE Finish(c, "contention")
    /\ UNCHANGED <<row, edit, copies, requests, base>>

\* RowsAffected reports one row: the request succeeded.
Confirm(c) ==
    /\ phase[c] = "committed"
    /\ Finish(c, "ok")
    /\ UNCHANGED <<row, edit, copies, attempt, requests, base>>

\* A statement fails, its reply is lost, the context is cancelled or the
\* daemon dies: whatever the row holds by then it keeps.
Interrupt(c) ==
    /\ phase[c] \in {"load", "guard", "save", "committed"}
    /\ Finish(c, "error")
    /\ UNCHANGED <<row, edit, copies, attempt, requests, base>>

\* The caller takes the answer; the client may call again.
Return(c) ==
    /\ phase[c] = "done"
    /\ phase' = [phase EXCEPT ![c] = "idle"]
    /\ edit' = [edit EXCEPT ![c] = NoEdit]
    /\ answer' = [answer EXCEPT ![c] = "none"]
    /\ UNCHANGED <<row, copies, attempt, requests, base>>

\* What a request does by itself once called, when nothing breaks.
Serve(c) ==
    LoadNothing(c) \/ Load(c) \/ Guard(c) \/ Invalid(c) \/ Swap(c) \/ Miss(c)
    \/ Confirm(c)

Next ==
    \/ \E d \in Docs : SaveWith(d)
    \/ \E c \in Clients :
        \/ \E e \in Edits : Start(c, e)
        \/ Serve(c)
        \/ Interrupt(c)
        \/ Return(c)

Spec == Init /\ [][Next]_vars

-----------------------------------------------------------------------------
\* store.go:99-101: the stored document is always one the contract accepts,
\* whatever edits, each valid against its own copy, meet in between.
StoredDocumentValid == Valid(doc)

\* store.go:50-54: a copy whose version is still the row's is a copy of the
\* row, which is what makes the version test a test of the whole document.
FreshCopyIsCurrent ==
    \A c \in Clients :
        /\ seenVersion[c] <= version
        /\ seenVersion[c] = version => seenDoc[c] = doc

\* store.go:181, 202-204, 229, 251: the loop is bounded by its attempts and not by
\* its luck.  A request under way has not lost its last attempt, each attempt it
\* lost was lost to a commit of somebody else's since the call, and "too much write
\* contention" is answered only after MaxCASAttempts of these.
ContentionIsReal ==
    \A c \in Clients :
        /\ phase[c] \in {"load", "guard", "save"} =>
              attempt[c] < MaxCASAttempts /\ attempt[c] <= version - base[c]
        /\ answer[c] = "contention" => version - base[c] >= MaxCASAttempts

\* store.go:50-54: the document changes only by a whole-document save or by
\* one request's edit of what the row held just before, so that no request
\* discards another's edit; and every change moves the version on.
NoLostUpdate ==
    [][doc' # doc =>
        /\ version' > version
        /\ \/ requests' # requests
           \/ \E c \in Clients :
                /\ phase[c] = "save" /\ phase'[c] = "committed"
                /\ doc' = Edited(doc, edit[c])]_vars

-----------------------------------------------------------------------------
\* The store implements CompositionAtomic.  The row is the document; a request
\* is applied when its UPDATE commits, and rejected at the load whose copy
\* turned out not to accept it.

Fate(c) ==
    CASE phase[c] = "idle" -> "none"
      [] phase[c] = "load" -> "open"
      [] phase[c] \in {"guard", "save"} ->
            IF Applicable(seenDoc[c], edit[c]) THEN "open" ELSE "rejected"
      [] phase[c] = "committed" -> "applied"
      [] OTHER ->
            CASE answer[c] = "ok" -> "applied"
              [] answer[c] \in {"no composition", "unknown type", "invalid"} -> "rejected"
              [] OTHER -> "failed"

Atomic == INSTANCE CompositionAtomic
            WITH live <- version > 0,
                 call <- edit,
                 fate <- [c \in Clients |-> Fate(c)]

\* store.go:50-54 and 197-199: concurrent edits of the one document behave as
\* if applied one at a time, each successful one exactly once between its call
\* and its return, and each rejection was deserved at some instant in between.
ImplementsAtomic == Atomic!Spec
=============================================================================
