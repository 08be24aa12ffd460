----------------------- MODULE CompositionStoreProofs -----------------------
(***************************************************************************)
(* Proofs about CompositionStore for every set of types, shapes and        *)
(* clients and every bound: its invariants, that no update is lost, and    *)
(* that it implements CompositionAtomic; then about ContentTypes, which    *)
(* composes it with content writers.                                       *)
(***************************************************************************)
EXTENDS ContentTypes, TLAPS

-----------------------------------------------------------------------------
\* An edit of a document is a document.
LEMMA EditedIsDoc ==
    ASSUME NEW d \in Docs, NEW e \in Edits
    PROVE  Edited(d, e) \in Docs
<1>1. CASE e.op = "define"
  <2>1. e.name \in Types /\ e.shape \in Shapes
    BY <1>1 DEF Edits, Defines, Removals
  <2> QED BY <1>1, <2>1 DEF Docs, Edited
<1>2. CASE e.op # "define"
  <2>1. e.name \in Types
    BY DEF Edits, Defines, Removals
  <2> QED BY <1>2, <2>1 DEF Docs, Edited
<1> QED BY <1>1, <1>2

LEMMA EmptyDocIsValid == EmptyDoc \in Docs /\ Valid(EmptyDoc)
BY DEF EmptyDoc, Docs, Valid, Declared

-----------------------------------------------------------------------------
\* What the types alone guarantee: every request edits documents with edits,
\* whatever the other requests do.
LEMMA TypeOKInit == Init => TypeOK
BY EmptyDocIsValid, StoreAssumption
   DEF Init, TypeOK, Phases, Answers

LEMMA TypeOKNext == TypeOK /\ [Next]_vars => TypeOK'
<1> SUFFICES ASSUME TypeOK, [Next]_vars PROVE TypeOK'
  OBVIOUS
<1>a. MaxRequests \in Nat /\ NoEdit \notin Edits
  BY StoreAssumption
<1> USE DEF row, copies
<1>1. ASSUME NEW d \in Docs, SaveWith(d) PROVE TypeOK'
  BY <1>1, <1>a DEF TypeOK, SaveWith
<1>2. ASSUME NEW c \in Clients, NEW e \in Edits, Start(c, e) PROVE TypeOK'
  <2>1. requests' \in 0 .. MaxRequests /\ attempt' \in [Clients -> Nat]
    BY <1>2, <1>a DEF TypeOK, Start
  <2>2. /\ phase' \in [Clients -> Phases] /\ answer' \in [Clients -> Answers]
        /\ edit' \in [Clients -> Edits \cup {NoEdit}] /\ base' \in [Clients -> Nat]
    BY <1>2 DEF TypeOK, Start, Goto, Finish, Phases, Answers
  <2>3. \A k \in Clients : phase'[k] # "idle" => edit'[k] \in Edits
    BY <1>2 DEF TypeOK, Start, Goto, Finish
  <2> QED BY <1>2, <2>1, <2>2, <2>3 DEF TypeOK, Start
<1>3. ASSUME NEW c \in Clients, LoadNothing(c) PROVE TypeOK'
  BY <1>3 DEF TypeOK, LoadNothing, Finish, Phases, Answers
<1>4. ASSUME NEW c \in Clients, Load(c) PROVE TypeOK'
  BY <1>4 DEF TypeOK, Load, Goto, Finish, Phases, Answers
<1>5. ASSUME NEW c \in Clients, Guard(c) PROVE TypeOK'
  BY <1>5 DEF TypeOK, Guard, Goto, Finish, Phases, Answers
<1>6. ASSUME NEW c \in Clients, Invalid(c) PROVE TypeOK'
  BY <1>6 DEF TypeOK, Invalid, Finish, Phases, Answers
<1>7. ASSUME NEW c \in Clients, Swap(c) PROVE TypeOK'
  <2>1. edit[c] \in Edits /\ seenDoc[c] \in Docs
    BY <1>7 DEF Swap, TypeOK
  <2>2. doc' \in Docs
    BY <1>7, <2>1, EditedIsDoc DEF Swap
  <2>3. phase' \in [Clients -> Phases] /\ answer' = answer /\ edit' = edit
    BY <1>7 DEF TypeOK, Swap, Goto, Phases
  <2>4. \A k \in Clients : phase'[k] # "idle" => edit'[k] \in Edits
    BY <1>7 DEF TypeOK, Swap, Goto
  <2>5. version' \in Nat
    BY <1>7 DEF TypeOK, Swap
  <2> QED BY <1>7, <2>2, <2>3, <2>4, <2>5 DEF TypeOK, Swap
<1>8. ASSUME NEW c \in Clients, Miss(c) PROVE TypeOK'
  <2>1. attempt' \in [Clients -> Nat]
    BY <1>8 DEF TypeOK, Miss
  <2>2. phase' \in [Clients -> Phases] /\ answer' \in [Clients -> Answers]
    BY <1>8 DEF TypeOK, Miss, Goto, Finish, Phases, Answers
  <2>3. \A k \in Clients : phase'[k] # "idle" => edit'[k] \in Edits
    BY <1>8 DEF TypeOK, Miss, Goto, Finish
  <2> QED BY <1>8, <2>1, <2>2, <2>3 DEF TypeOK, Miss
<1>9. ASSUME NEW c \in Clients, Confirm(c) PROVE TypeOK'
  BY <1>9 DEF TypeOK, Confirm, Finish, Phases, Answers
<1>10. ASSUME NEW c \in Clients, Interrupt(c) PROVE TypeOK'
  BY <1>10 DEF TypeOK, Interrupt, Finish, Phases, Answers
<1>11. ASSUME NEW c \in Clients, Return(c) PROVE TypeOK'
  BY <1>11 DEF TypeOK, Return, Phases, Answers
<1>12. CASE UNCHANGED vars
  BY <1>12 DEF TypeOK, vars
<1> QED
  BY <1>1, <1>2, <1>3, <1>4, <1>5, <1>6, <1>7, <1>8, <1>9, <1>10, <1>11,
     <1>12 DEF Next, Serve

\* For any clients, types and shapes: the row and its requests keep their
\* shape (internal/composition/store.go).
THEOREM TypeCorrect == Spec => []TypeOK
BY TypeOKInit, TypeOKNext, PTL DEF Spec

-----------------------------------------------------------------------------
\* A stored document is always contract-valid: both writers validate what
\* they write, and nothing else writes.
LEMMA ValidNext == StoredDocumentValid /\ [Next]_vars => StoredDocumentValid'
<1> SUFFICES ASSUME StoredDocumentValid, [Next]_vars PROVE StoredDocumentValid'
  OBVIOUS
<1> USE DEF StoredDocumentValid
<1>1. CASE doc' = doc
  BY <1>1 DEF Valid, Declared
<1>2. ASSUME NEW d \in Docs, SaveWith(d) PROVE Valid(doc)'
  BY <1>2 DEF SaveWith, Valid, Declared
<1>3. ASSUME NEW c \in Clients, Swap(c) PROVE Valid(doc)'
  BY <1>3 DEF Swap, Valid, Declared
<1> QED
  BY <1>1, <1>2, <1>3
     DEF Next, Serve, vars, row, Start, LoadNothing, Load, Guard, Invalid,
         Miss, Confirm, Interrupt, Return

\* store.go:99-101 for every instance: the store never holds a document the
\* contract rejects.
THEOREM DocumentValid == Spec => []StoredDocumentValid
<1>1. Init => StoredDocumentValid
  BY EmptyDocIsValid DEF Init, StoredDocumentValid
<1> QED BY <1>1, ValidNext, PTL DEF Spec

-----------------------------------------------------------------------------
\* The version tells documents apart: it grows with every write, so a copy
\* carrying the row's version carries the row's document.
LEMMA FreshNext ==
    TypeOK /\ FreshCopyIsCurrent /\ [Next]_vars => FreshCopyIsCurrent'
<1> SUFFICES ASSUME TypeOK, FreshCopyIsCurrent, [Next]_vars,
                    NEW k \in Clients
             PROVE  /\ seenVersion'[k] <= version'
                    /\ seenVersion'[k] = version' => seenDoc'[k] = doc'
  BY DEF FreshCopyIsCurrent
<1>a. /\ version \in Nat /\ seenVersion \in [Clients -> Nat]
      /\ seenDoc \in [Clients -> Docs]
      /\ seenVersion[k] <= version
      /\ seenVersion[k] = version => seenDoc[k] = doc
  BY DEF TypeOK, FreshCopyIsCurrent
<1>1. CASE UNCHANGED <<row, copies>>
  BY <1>1, <1>a DEF row, copies
<1>2. ASSUME version' = version + 1, UNCHANGED copies
      PROVE  seenVersion'[k] < version'
  BY <1>2, <1>a DEF copies
<1>3. ASSUME NEW d \in Docs, SaveWith(d) PROVE seenVersion'[k] < version'
  BY <1>2, <1>3 DEF SaveWith
<1>4. ASSUME NEW c \in Clients, Swap(c) PROVE seenVersion'[k] < version'
  BY <1>2, <1>4 DEF Swap
<1>5. ASSUME NEW c \in Clients, Load(c)
      PROVE  /\ seenVersion'[k] <= version'
             /\ seenVersion'[k] = version' => seenDoc'[k] = doc'
  <2>1. version' = version /\ doc' = doc
    BY <1>5 DEF Load, row
  <2>2. CASE k = c
    <3>1. seenVersion'[k] = version /\ seenDoc'[k] = doc
      BY <1>5, <1>a, <2>2 DEF Load
    <3> QED BY <2>1, <3>1, <1>a
  <2>3. CASE k # c
    <3>1. seenVersion'[k] = seenVersion[k] /\ seenDoc'[k] = seenDoc[k]
      BY <1>5, <1>a, <2>3 DEF Load
    <3> QED BY <2>1, <3>1, <1>a
  <2> QED BY <2>2, <2>3
<1>6. ASSUME seenVersion'[k] < version'
      PROVE  /\ seenVersion'[k] <= version'
             /\ seenVersion'[k] = version' => seenDoc'[k] = doc'
  <2>1. seenVersion'[k] \in Nat /\ version' \in Nat
    BY TypeOKNext DEF TypeOK
  <2> QED BY <1>6, <2>1
<1>7. ASSUME NEW c \in Clients,
             \/ \E e \in Edits : Start(c, e)
             \/ LoadNothing(c) \/ Guard(c) \/ Invalid(c) \/ Miss(c) \/ Confirm(c)
             \/ Interrupt(c) \/ Return(c)
      PROVE  UNCHANGED <<row, copies>>
  BY <1>7 DEF row, copies, Start, LoadNothing, Guard, Invalid, Miss, Confirm,
              Interrupt, Return
<1>8. CASE UNCHANGED vars
  BY <1>1, <1>8 DEF vars, row, copies
<1> QED
  BY <1>1, <1>3, <1>4, <1>5, <1>6, <1>7, <1>8 DEF Next, Serve

\* The version test is a test of the whole document.
THEOREM FreshCopies == Spec => []FreshCopyIsCurrent
<1>1. Init => FreshCopyIsCurrent
  BY DEF Init, FreshCopyIsCurrent
<1> QED BY <1>1, FreshNext, TypeOKInit, TypeOKNext, PTL DEF Spec

\* A successful UPDATE writes the request's edit of the current document.
LEMMA SwapEditsCurrent ==
    ASSUME FreshCopyIsCurrent, NEW c \in Clients, Swap(c)
    PROVE  doc' = Edited(doc, edit[c])
BY DEF FreshCopyIsCurrent, Swap

\* store.go:50-54 for every instance: no request overwrites an edit that
\* committed after it loaded its copy.
THEOREM NothingLost == Spec => NoLostUpdate
<1> DEFINE Kept ==
        doc' # doc =>
            /\ version' > version
            /\ \/ requests' # requests
               \/ \E c \in Clients :
                    /\ phase[c] = "save" /\ phase'[c] = "committed"
                    /\ doc' = Edited(doc, edit[c])
<1>1. TypeOK /\ FreshCopyIsCurrent /\ [Next]_vars => [Kept]_vars
  <2> SUFFICES ASSUME TypeOK, FreshCopyIsCurrent, [Next]_vars PROVE Kept
    OBVIOUS
  <2>1. ASSUME NEW d \in Docs, SaveWith(d) PROVE Kept
    BY <2>1 DEF SaveWith, TypeOK
  <2>2. ASSUME NEW c \in Clients, Swap(c) PROVE Kept
    <3>1. phase[c] = "save" /\ phase'[c] = "committed"
      BY <2>2 DEF Swap, Goto, TypeOK
    <3>2. version' > version
      BY <2>2 DEF Swap, TypeOK
    <3> QED BY <2>2, <3>1, <3>2, SwapEditsCurrent
  <2>3. CASE doc' = doc
    BY <2>3
  <2> QED
    BY <2>1, <2>2, <2>3
       DEF Next, Serve, vars, row, Start, LoadNothing, Load, Guard, Invalid,
           Miss, Confirm, Interrupt, Return
<1>2. NoLostUpdate <=> [][Kept]_vars
  BY DEF NoLostUpdate
<1> QED BY <1>1, TypeCorrect, FreshCopies, PTL DEF Spec, NoLostUpdate

-----------------------------------------------------------------------------
(***************************************************************************)
(* The loop of one request.  Every attempt that fails has seen the version *)
(* move since its load, so attempts never outrun the versions written      *)
(* since the call; and a request about to write holds a copy of a row that *)
(* exists and has what a removal wants to remove.                          *)
(***************************************************************************)
LoopInv(c) ==
    /\ base[c] <= version
    /\ phase[c] = "load" => attempt[c] <= version - base[c]
    /\ phase[c] \in {"load", "guard", "save"} => attempt[c] < MaxCASAttempts
    /\ phase[c] \in {"guard", "save"} =>
            /\ attempt[c] <= seenVersion[c] - base[c]
            /\ seenVersion[c] > 0
            /\ ~Missing(seenDoc[c], edit[c])
    /\ phase[c] = "idle" => edit[c] = NoEdit
    /\ phase[c] # "done" => answer[c] = "none"
    /\ answer[c] = "contention" => version - base[c] >= MaxCASAttempts

RequestInv == TypeOK /\ FreshCopyIsCurrent /\ \A c \in Clients : LoopInv(c)

\* A step of another client, or of none, leaves a request's own state alone
\* and never lowers the version.
LEMMA LoopInvFrame ==
    ASSUME TypeOK, NEW k \in Clients, LoopInv(k),
           version' \in Nat, version' >= version,
           base'[k] = base[k], phase'[k] = phase[k], attempt'[k] = attempt[k],
           seenVersion'[k] = seenVersion[k], seenDoc'[k] = seenDoc[k],
           edit'[k] = edit[k], answer'[k] = answer[k]
    PROVE  LoopInv(k)'
<1>1. /\ version \in Nat /\ base[k] \in Nat /\ attempt[k] \in Nat
      /\ MaxCASAttempts \in Nat
  BY StoreAssumption DEF TypeOK
<1>2. Missing(seenDoc[k], edit[k])' <=> Missing(seenDoc[k], edit[k])
  BY DEF Missing
<1> QED BY <1>1, <1>2 DEF LoopInv

\* All that client c can do in one step.
Step(c) == (\E e \in Edits : Start(c, e)) \/ Serve(c) \/ Interrupt(c) \/ Return(c)

LEMMA OthersUntouched ==
    ASSUME TypeOK, NEW c \in Clients, Step(c), NEW k \in Clients, k # c
    PROVE  /\ base'[k] = base[k] /\ phase'[k] = phase[k]
           /\ attempt'[k] = attempt[k] /\ seenVersion'[k] = seenVersion[k]
           /\ seenDoc'[k] = seenDoc[k] /\ edit'[k] = edit[k]
           /\ answer'[k] = answer[k]
<1> USE DEF TypeOK, copies, Goto, Finish
<1>1. CASE \E e \in Edits : Start(c, e)
  BY <1>1 DEF Start
<1>2. CASE LoadNothing(c) \/ Guard(c) \/ Invalid(c) \/ Swap(c) \/ Miss(c)
           \/ Confirm(c)
  BY <1>2 DEF LoadNothing, Guard, Invalid, Swap, Miss, Confirm
<1>3. CASE Load(c)
  BY <1>3 DEF Load
<1>4. CASE Interrupt(c) \/ Return(c)
  BY <1>4 DEF Interrupt, Return
<1> QED BY <1>1, <1>2, <1>3, <1>4 DEF Step, Serve

LEMMA VersionGrows ==
    ASSUME TypeOK, [Next]_vars
    PROVE  version' \in Nat /\ version' >= version
<1>1. CASE version' = version
  BY <1>1 DEF TypeOK
<1>2. CASE version' = version + 1
  BY <1>2 DEF TypeOK
<1> QED
  BY <1>1, <1>2 DEF Next, Serve, vars, row, SaveWith, Start, LoadNothing, Load,
     Guard, Invalid, Swap, Miss, Confirm, Interrupt, Return

\* A request's own step keeps its loop invariant.
LEMMA LoopInvStep ==
    ASSUME TypeOK, FreshCopyIsCurrent, NEW c \in Clients, LoopInv(c), Step(c)
    PROVE  LoopInv(c)'
<1>a. /\ version \in Nat /\ base[c] \in Nat /\ attempt[c] \in Nat
      /\ seenVersion[c] \in Nat /\ seenVersion[c] <= version
      /\ MaxCASAttempts \in Nat \ {0}
      /\ phase \in [Clients -> Phases] /\ answer \in [Clients -> Answers]
      /\ base \in [Clients -> Nat] /\ attempt \in [Clients -> Nat]
      /\ seenVersion \in [Clients -> Nat] /\ seenDoc \in [Clients -> Docs]
      /\ edit \in [Clients -> Edits \cup {NoEdit}]
  BY StoreAssumption DEF TypeOK, FreshCopyIsCurrent
<1>1. ASSUME NEW e \in Edits, Start(c, e) PROVE LoopInv(c)'
  <2>1. /\ version' = version /\ base'[c] = version /\ attempt'[c] = 0
        /\ \/ phase'[c] = "load" /\ answer'[c] = answer[c]
           \/ phase'[c] = "done" /\ answer'[c] = "denied"
        /\ answer[c] = "none"
    BY <1>1, <1>a DEF Start, row, Goto, Finish, LoopInv
  <2> QED BY <2>1, <1>a DEF LoopInv
<1>2. CASE LoadNothing(c) \/ Invalid(c) \/ Confirm(c) \/ Interrupt(c)
  <2>1. /\ version' = version /\ base'[c] = base[c]
        /\ phase'[c] = "done"
        /\ answer'[c] \in Answers \ {"contention"}
    BY <1>2, <1>a
       DEF LoadNothing, Invalid, Confirm, Interrupt, row, Finish, Answers
  <2> QED BY <2>1, <1>a DEF LoopInv
<1>3. CASE Load(c)
  <2>1. /\ version' = version /\ base'[c] = base[c] /\ attempt'[c] = attempt[c]
        /\ version > 0 /\ phase[c] = "load" /\ edit'[c] = edit[c]
        /\ seenVersion'[c] = version /\ seenDoc'[c] = doc
    BY <1>3, <1>a DEF Load, row
  <2>2. CASE Missing(doc, edit[c])
    <3>1. phase'[c] = "done" /\ answer'[c] = "unknown type"
      BY <1>3, <1>a, <2>2 DEF Load, Finish
    <3> QED BY <2>1, <3>1, <1>a DEF LoopInv
  <2>3. CASE ~Missing(doc, edit[c])
    <3>1. phase'[c] \in {"guard", "save"} /\ answer'[c] = answer[c]
      BY <1>3, <1>a, <2>3 DEF Load, Goto
    <3>2. ~Missing(seenDoc[c], edit[c])'
      BY <2>1, <2>3 DEF Missing
    <3>3. answer[c] = "none" /\ attempt[c] <= version - base[c]
          /\ base[c] <= version /\ attempt[c] < MaxCASAttempts
      BY <2>1 DEF LoopInv
    <3> QED BY <2>1, <3>1, <3>2, <3>3, <1>a DEF LoopInv
  <2> QED BY <2>2, <2>3
<1>4. CASE Guard(c)
  <2>1. /\ version' = version /\ base'[c] = base[c] /\ attempt'[c] = attempt[c]
        /\ seenVersion'[c] = seenVersion[c] /\ phase[c] = "guard"
        /\ \/ phase'[c] = "save" /\ answer'[c] = answer[c]
           \/ phase'[c] = "done" /\ answer'[c] = "guarded"
    BY <1>4, <1>a DEF Guard, row, copies, Goto, Finish
  <2>2. Missing(seenDoc[c], edit[c])' <=> Missing(seenDoc[c], edit[c])
    BY <1>4 DEF Guard, Missing, copies
  <2> QED BY <2>1, <2>2, <1>a DEF LoopInv
<1>5. CASE Swap(c)
  <2>1. /\ version' = version + 1 /\ base'[c] = base[c]
        /\ phase[c] = "save" /\ phase'[c] = "committed"
        /\ answer'[c] = answer[c]
    BY <1>5, <1>a DEF Swap, Goto
  <2> QED BY <2>1, <1>a DEF LoopInv
<1>6. CASE Miss(c)
  <2>1. /\ version' = version /\ base'[c] = base[c]
        /\ attempt'[c] = attempt[c] + 1 /\ phase[c] = "save"
        /\ version # seenVersion[c]
    BY <1>6, <1>a DEF Miss, row
  <2>2. attempt'[c] <= version - base[c]
    BY <2>1, <1>a DEF LoopInv
  <2>3. CASE attempt[c] + 1 < MaxCASAttempts
    <3>1. phase'[c] = "load" /\ answer'[c] = answer[c]
      BY <1>6, <1>a, <2>3 DEF Miss, Goto
    <3>2. attempt'[c] < MaxCASAttempts
      BY <2>1, <2>3
    <3> QED BY <2>1, <2>2, <3>1, <3>2, <1>a DEF LoopInv
  <2>4. CASE ~(attempt[c] + 1 < MaxCASAttempts)
    <3>1. phase'[c] = "done" /\ answer'[c] = "contention"
      BY <1>6, <1>a, <2>4 DEF Miss, Finish
    <3> QED BY <2>1, <2>2, <2>4, <3>1, <1>a DEF LoopInv
  <2> QED BY <2>3, <2>4
<1>7. CASE Return(c)
  <2>1. /\ version' = version /\ base'[c] = base[c]
        /\ phase'[c] = "idle" /\ answer'[c] = "none" /\ edit'[c] = NoEdit
    BY <1>7, <1>a DEF Return, row
  <2> QED BY <2>1, <1>a DEF LoopInv
<1> QED BY <1>1, <1>2, <1>3, <1>4, <1>5, <1>6, <1>7 DEF Step, Serve

LEMMA RequestInvInit == Init => RequestInv
<1> SUFFICES ASSUME Init PROVE RequestInv
  OBVIOUS
<1>1. TypeOK /\ FreshCopyIsCurrent
  BY TypeOKInit DEF Init, FreshCopyIsCurrent
<1>2. \A c \in Clients : LoopInv(c)
  BY DEF Init, LoopInv
<1> QED BY <1>1, <1>2 DEF RequestInv

LEMMA RequestInvNext == RequestInv /\ [Next]_vars => RequestInv'
<1> SUFFICES ASSUME RequestInv, [Next]_vars PROVE RequestInv'
  OBVIOUS
<1>1. TypeOK' /\ FreshCopyIsCurrent'
  BY TypeOKNext, FreshNext DEF RequestInv
<1>2. ASSUME NEW k \in Clients PROVE LoopInv(k)'
  <2>a. TypeOK /\ FreshCopyIsCurrent /\ LoopInv(k)
    BY DEF RequestInv
  <2>b. version' \in Nat /\ version' >= version
    BY <2>a, VersionGrows
  <2>1. ASSUME NEW c \in Clients, Step(c) PROVE LoopInv(k)'
    <3>1. CASE k = c
      BY <2>1, <2>a, <3>1, LoopInvStep
    <3>2. CASE k # c
      BY <2>1, <2>a, <2>b, <3>2, OthersUntouched, LoopInvFrame
    <3> QED BY <3>1, <3>2
  <2>2. ASSUME NEW d \in Docs, SaveWith(d) PROVE LoopInv(k)'
    BY <2>2, <2>a, <2>b, LoopInvFrame DEF SaveWith, copies
  <2>3. CASE UNCHANGED vars
    BY <2>3, <2>a, <2>b, LoopInvFrame DEF vars
  <2> QED BY <2>1, <2>2, <2>3 DEF Next, Step
<1> QED BY <1>1, <1>2 DEF RequestInv

\* store.go:181-204 and 229-251 for every bound: a request makes at most
\* MaxCASAttempts attempts, loses each to a commit made while it was trying, and
\* gives up only after that many.
THEOREM ContentionTheorem == Spec => []ContentionIsReal
<1>1. ASSUME RequestInv PROVE ContentionIsReal
  <2> SUFFICES ASSUME NEW c \in Clients
               PROVE  /\ phase[c] \in {"load", "guard", "save"} =>
                            attempt[c] < MaxCASAttempts /\ attempt[c] <= version - base[c]
                      /\ answer[c] = "contention" => version - base[c] >= MaxCASAttempts
    BY DEF ContentionIsReal
  <2>1. LoopInv(c) /\ seenVersion[c] <= version
    BY <1>1 DEF RequestInv, FreshCopyIsCurrent
  <2>2. /\ version \in Nat /\ base[c] \in Nat /\ attempt[c] \in Nat
        /\ seenVersion[c] \in Nat
    BY <1>1 DEF RequestInv, TypeOK
  <2> QED
    BY <2>1, <2>2 DEF LoopInv
<1> QED BY <1>1, RequestInvInit, RequestInvNext, PTL DEF Spec

-----------------------------------------------------------------------------
(***************************************************************************)
(* The refinement.  A request's fate moves with its own steps only, so     *)
(* each step is looked at for the one client that takes it.                *)
(***************************************************************************)
fates == [c \in Clients |-> Fate(c)]

LEMMA FateFrame ==
    ASSUME NEW k \in Clients,
           phase'[k] = phase[k], seenDoc'[k] = seenDoc[k],
           edit'[k] = edit[k], answer'[k] = answer[k]
    PROVE  Fate(k)' = Fate(k)
<1>1. Applicable(seenDoc[k], edit[k])' <=> Applicable(seenDoc[k], edit[k])
  BY DEF Applicable, Missing, Valid, Declared, Edited
<1> QED BY <1>1 DEF Fate

LEMMA FateOfOthers ==
    ASSUME TypeOK, NEW c \in Clients, Step(c)
    PROVE  fates' = [fates EXCEPT ![c] = Fate(c)']
<1>1. \A k \in Clients : k # c => Fate(k)' = Fate(k)
  BY OthersUntouched, FateFrame
<1> QED BY <1>1 DEF fates

\* The fate of a client in each phase, one fact at a time.
LEMMA FateValues ==
    ASSUME NEW c \in Clients
    PROVE  /\ phase[c] = "idle" => Fate(c) = "none"
           /\ phase[c] = "load" => Fate(c) = "open"
           /\ phase[c] \in {"guard", "save"} =>
                Fate(c) = IF Applicable(seenDoc[c], edit[c])
                          THEN "open" ELSE "rejected"
           /\ phase[c] = "committed" => Fate(c) = "applied"
           /\ phase[c] = "done" =>
                /\ answer[c] = "ok" => Fate(c) = "applied"
                /\ answer[c] \in {"no composition", "unknown type", "invalid"}
                        => Fate(c) = "rejected"
                /\ answer[c] \in {"none", "denied", "guarded", "contention", "error"}
                        => Fate(c) = "failed"
BY DEF Fate

LEMMA FateValuesNext ==
    ASSUME NEW c \in Clients
    PROVE  /\ phase'[c] = "idle" => Fate(c)' = "none"
           /\ phase'[c] = "load" => Fate(c)' = "open"
           /\ phase'[c] \in {"guard", "save"} =>
                Fate(c)' = IF Applicable(seenDoc[c], edit[c])'
                           THEN "open" ELSE "rejected"
           /\ phase'[c] = "committed" => Fate(c)' = "applied"
           /\ phase'[c] = "done" =>
                /\ answer'[c] = "ok" => Fate(c)' = "applied"
                /\ answer'[c] \in {"no composition", "unknown type", "invalid"}
                        => Fate(c)' = "rejected"
                /\ answer'[c] \in {"none", "denied", "guarded", "contention", "error"}
                        => Fate(c)' = "failed"
BY DEF Fate

\* Both specifications mean the same by a document and an edit.
LEMMA SameDocuments ==
    /\ Atomic!Edits = Edits /\ Atomic!Docs = Docs /\ Atomic!EmptyDoc = EmptyDoc
    /\ \A d : Atomic!Valid(d) <=> Valid(d)
    /\ \A d, e : Atomic!Edited(d, e) = Edited(d, e)
    /\ \A d, e : Atomic!Applicable(d, e) <=> Applicable(d, e)
<1>1. Atomic!Edits = Edits
  BY DEF Atomic!Edits, Atomic!Defines, Atomic!Removals, Edits, Defines, Removals
<1>2. Atomic!Docs = Docs /\ Atomic!EmptyDoc = EmptyDoc
  BY DEF Atomic!Docs, Docs, Atomic!EmptyDoc, EmptyDoc
<1>3. \A d : Atomic!Valid(d) <=> Valid(d)
  BY DEF Atomic!Valid, Atomic!Declared, Valid, Declared
<1>4. \A d, e : Atomic!Edited(d, e) = Edited(d, e)
  BY DEF Atomic!Edited, Edited
<1>5. \A d, e : Atomic!Missing(d, e) <=> Missing(d, e)
  BY DEF Atomic!Missing, Missing
<1>6. \A d, e : Atomic!Applicable(d, e) <=> Applicable(d, e)
  BY <1>3, <1>4, <1>5 DEF Atomic!Applicable, Applicable
<1> QED BY <1>1, <1>2, <1>3, <1>4, <1>6

LEMMA RefineStart ==
    ASSUME TypeOK, NEW c \in Clients, LoopInv(c), NEW e \in Edits, Start(c, e)
    PROVE  Atomic!Call(c)
<1>1. fates' = [fates EXCEPT ![c] = Fate(c)']
  BY FateOfOthers DEF Step
<1>2. Fate(c)' \in {"open", "failed"}
  BY FateValuesNext DEF Start, Goto, Finish, TypeOK
<1>3. edit[c] = NoEdit /\ edit' = [edit EXCEPT ![c] = e] /\ UNCHANGED row
  BY DEF Start, LoopInv
<1> QED BY <1>1, <1>2, <1>3, SameDocuments DEF Atomic!Call, fates, row

\* A step that leaves the row, the calls and the stepping client's fate alone
\* is a stutter of the abstract specification.
LEMMA RefineStutter ==
    ASSUME TypeOK, NEW c \in Clients, Step(c), UNCHANGED row,
           edit' = edit, Fate(c)' = Fate(c)
    PROVE  UNCHANGED Atomic!vars
<1>1. fates' = fates
  BY FateOfOthers DEF fates
<1> QED BY <1>1 DEF Atomic!vars, fates, row

\* A step that takes an open fate to rejected, while the edit is inapplicable.
LEMMA RefineReject ==
    ASSUME TypeOK, NEW c \in Clients, Step(c), UNCHANGED row, edit' = edit,
           Fate(c) = "open", Fate(c)' = "rejected",
           version = 0 \/ ~Applicable(doc, edit[c])
    PROVE  Atomic!Reject(c)
<1>1. fates' = [fates EXCEPT ![c] = "rejected"]
  BY FateOfOthers
<1>2. ~(version > 0) \/ ~Atomic!Applicable(doc, edit[c])
  BY SameDocuments
<1>3. [k \in Clients |-> Fate(k)][c] = "open"
  OBVIOUS
<1> QED BY <1>1, <1>2, <1>3 DEF Atomic!Reject, fates, row

\* A step to the answer of a failed request.
LEMMA RefineFail ==
    ASSUME TypeOK, NEW c \in Clients, Step(c), UNCHANGED row, edit' = edit,
           Fate(c) \in {"open", "applied", "rejected"}, Fate(c)' = "failed"
    PROVE  Atomic!Fail(c)
<1>1. fates' = [fates EXCEPT ![c] = "failed"]
  BY FateOfOthers
<1>2. [k \in Clients |-> Fate(k)][c] \in {"open", "applied", "rejected"}
  OBVIOUS
<1> QED BY <1>1, <1>2 DEF Atomic!Fail, fates, row

LEMMA RefineServe ==
    ASSUME RequestInv, NEW c \in Clients, Serve(c)
    PROVE  Atomic!Next \/ UNCHANGED Atomic!vars
<1>a. TypeOK /\ Step(c) /\ LoopInv(c) /\ FreshCopyIsCurrent
  BY DEF RequestInv, Step
<1>b. /\ phase \in [Clients -> Phases] /\ answer \in [Clients -> Answers]
      /\ seenDoc \in [Clients -> Docs] /\ seenVersion \in [Clients -> Nat]
      /\ version \in Nat
  BY <1>a DEF TypeOK
<1>1. CASE LoadNothing(c)
  <2>1. /\ UNCHANGED row /\ edit' = edit /\ version = 0 /\ phase[c] = "load"
        /\ phase'[c] = "done" /\ answer'[c] = "no composition"
    BY <1>1, <1>b DEF LoadNothing, Finish
  <2>2. Fate(c) = "open" /\ Fate(c)' = "rejected"
    BY <2>1, FateValues, FateValuesNext
  <2> QED BY <2>1, <2>2, <1>a, RefineReject DEF Atomic!Next
<1>2. CASE Load(c)
  <2>1. /\ UNCHANGED row /\ edit' = edit /\ phase[c] = "load"
        /\ seenDoc'[c] = doc
    BY <1>2, <1>b DEF Load
  <2>2. Fate(c) = "open"
    BY <2>1, FateValues
  <2>3. CASE Missing(doc, edit[c])
    <3>1. phase'[c] = "done" /\ answer'[c] = "unknown type"
      BY <1>2, <1>b, <2>3 DEF Load, Finish
    <3>2. Fate(c)' = "rejected"
      BY <3>1, FateValuesNext
    <3>3. ~Applicable(doc, edit[c])
      BY <2>3 DEF Applicable
    <3> QED BY <2>1, <2>2, <3>2, <3>3, <1>a, RefineReject DEF Atomic!Next
  <2>4. CASE ~Missing(doc, edit[c])
    <3>1. phase'[c] \in {"guard", "save"}
      BY <1>2, <1>b, <2>4 DEF Load, Goto
    <3>2. Applicable(seenDoc[c], edit[c])' <=> Applicable(doc, edit[c])
      BY <2>1 DEF Applicable, Missing, Valid, Declared, Edited
    <3>3. CASE Applicable(doc, edit[c])
      BY <2>1, <2>2, <3>1, <3>2, <3>3, <1>a, FateValuesNext, RefineStutter
    <3>4. CASE ~Applicable(doc, edit[c])
      <4>1. Fate(c)' = "rejected"
        BY <3>1, <3>2, <3>4, FateValuesNext
      <4> QED BY <2>1, <2>2, <3>4, <4>1, <1>a, RefineReject DEF Atomic!Next
    <3> QED BY <3>3, <3>4
  <2> QED BY <2>3, <2>4
<1>3. CASE Guard(c)
  <2>1. /\ UNCHANGED row /\ edit' = edit /\ phase[c] = "guard"
        /\ seenDoc' = seenDoc
        /\ \/ phase'[c] = "save"
           \/ phase'[c] = "done" /\ answer'[c] = "guarded"
    BY <1>3, <1>b DEF Guard, Goto, Finish, copies
  <2>2. Fate(c) = IF Applicable(seenDoc[c], edit[c]) THEN "open" ELSE "rejected"
    BY <2>1, FateValues
  <2>3. CASE phase'[c] = "save"
    <3>1. Applicable(seenDoc[c], edit[c])' <=> Applicable(seenDoc[c], edit[c])
      BY <2>1 DEF Applicable, Missing, Valid, Declared, Edited
    <3>2. Fate(c)' = Fate(c)
      BY <2>2, <2>3, <3>1, FateValuesNext
    <3> QED BY <2>1, <3>2, <1>a, RefineStutter
  <2>4. CASE phase'[c] = "done" /\ answer'[c] = "guarded"
    <3>1. Fate(c)' = "failed"
      BY <2>4, FateValuesNext
    <3> QED BY <2>1, <2>2, <3>1, <1>a, RefineFail DEF Atomic!Next
  <2> QED BY <2>1, <2>3, <2>4
<1>4. CASE Invalid(c)
  <2>1. /\ UNCHANGED row /\ edit' = edit /\ phase[c] = "save"
        /\ phase'[c] = "done" /\ answer'[c] = "invalid"
        /\ ~Applicable(seenDoc[c], edit[c])
    BY <1>4, <1>b DEF Invalid, Finish, Applicable
  <2>2. Fate(c) = "rejected" /\ Fate(c)' = "rejected"
    BY <2>1, FateValues, FateValuesNext
  <2> QED BY <2>1, <2>2, <1>a, RefineStutter
<1>5. CASE Swap(c)
  <2>1. /\ version' = version + 1 /\ edit' = edit /\ phase[c] = "save"
        /\ phase'[c] = "committed" /\ seenVersion[c] = version
        /\ Valid(Edited(seenDoc[c], edit[c]))
    BY <1>5, <1>b DEF Swap, Goto
  <2>2. seenDoc[c] = doc /\ version > 0 /\ ~Missing(seenDoc[c], edit[c])
    BY <2>1, <1>a DEF FreshCopyIsCurrent, LoopInv
  <2>3. Applicable(seenDoc[c], edit[c])
    BY <2>1, <2>2 DEF Applicable
  <2>4. [k \in Clients |-> Fate(k)][c] = "open" /\ Fate(c)' = "applied"
    BY <2>1, <2>3, FateValues, FateValuesNext
  <2>5. doc' = Atomic!Edited(doc, edit[c]) /\ Atomic!Applicable(doc, edit[c])
    BY <1>5, <1>a, <2>2, <2>3, SwapEditsCurrent, SameDocuments
  <2>6. fates' = [fates EXCEPT ![c] = "applied"]
    BY <1>a, <2>4, FateOfOthers
  <2>7. (version > 0)' = (version > 0)
    BY <2>1, <2>2, <1>b
  <2>8. Atomic!Apply(c)
    BY <2>1, <2>2, <2>4, <2>5, <2>6, <2>7 DEF Atomic!Apply, fates
  <2> QED BY <2>8 DEF Atomic!Next
<1>6. CASE Miss(c)
  <2>1. /\ UNCHANGED row /\ edit' = edit /\ phase[c] = "save"
        /\ Valid(Edited(seenDoc[c], edit[c]))
        /\ \/ phase'[c] = "load"
           \/ phase'[c] = "done" /\ answer'[c] = "contention"
    BY <1>6, <1>b DEF Miss, Goto, Finish
  <2>2. Applicable(seenDoc[c], edit[c])
    BY <2>1, <1>a DEF Applicable, LoopInv
  <2>3. Fate(c) = "open"
    BY <2>1, <2>2, FateValues
  <2>4. CASE phase'[c] = "load"
    BY <2>1, <2>3, <2>4, <1>a, FateValuesNext, RefineStutter
  <2>5. CASE phase'[c] = "done" /\ answer'[c] = "contention"
    <3>1. Fate(c)' = "failed"
      BY <2>5, FateValuesNext
    <3> QED BY <2>1, <2>3, <3>1, <1>a, RefineFail DEF Atomic!Next
  <2> QED BY <2>1, <2>4, <2>5
<1>7. CASE Confirm(c)
  <2>1. /\ UNCHANGED row /\ edit' = edit /\ phase[c] = "committed"
        /\ phase'[c] = "done" /\ answer'[c] = "ok"
    BY <1>7, <1>b DEF Confirm, Finish
  <2>2. Fate(c) = "applied" /\ Fate(c)' = "applied"
    BY <2>1, FateValues, FateValuesNext
  <2> QED BY <2>1, <2>2, <1>a, RefineStutter
<1> QED BY <1>1, <1>2, <1>3, <1>4, <1>5, <1>6, <1>7 DEF Serve

LEMMA RefineInterrupt ==
    ASSUME TypeOK, NEW c \in Clients, Interrupt(c)
    PROVE  Atomic!Fail(c)
<1>1. /\ UNCHANGED row /\ edit' = edit
      /\ phase[c] \in {"load", "guard", "save", "committed"}
      /\ phase'[c] = "done" /\ answer'[c] = "error"
  BY DEF TypeOK, Interrupt, Finish
<1>2. Fate(c) \in {"open", "applied", "rejected"} /\ Fate(c)' = "failed"
  BY <1>1, FateValues, FateValuesNext
<1> QED BY <1>1, <1>2, RefineFail DEF Step

LEMMA RefineReturn ==
    ASSUME TypeOK, NEW c \in Clients, Return(c)
    PROVE  Atomic!Return(c)
<1>1. /\ UNCHANGED row /\ edit' = [edit EXCEPT ![c] = NoEdit]
      /\ phase[c] = "done" /\ phase'[c] = "idle" /\ answer[c] \in Answers
  BY DEF TypeOK, Return
<1>2. [k \in Clients |-> Fate(k)][c] \in {"applied", "rejected", "failed"}
  BY <1>1, FateValues DEF Answers
<1>3. fates' = [fates EXCEPT ![c] = "none"]
  BY <1>1, FateValuesNext, FateOfOthers DEF Step
<1> QED BY <1>1, <1>2, <1>3 DEF Atomic!Return, fates, row

LEMMA RefineSaveWith ==
    ASSUME TypeOK, NEW d \in Docs, SaveWith(d)
    PROVE  Atomic!Replace
<1>1. fates' = fates
  <2>1. \A k \in Clients : Fate(k)' = Fate(k)
    BY FateFrame DEF SaveWith, copies
  <2> QED BY <2>1 DEF fates
<1>2. doc' \in {x \in Atomic!Docs : Atomic!Valid(x)}
  BY SameDocuments DEF SaveWith
<1>3. (version > 0)' = TRUE /\ edit' = edit
  BY DEF SaveWith, TypeOK
<1> QED BY <1>1, <1>2, <1>3 DEF Atomic!Replace, fates

\* store.go:50-54 and 197-199 for every instance: the compare-and-swap store
\* implements edits applied one at a time.
THEOREM Refinement == Spec => ImplementsAtomic
<1>1. Init => Atomic!Init
  <2> SUFFICES ASSUME Init PROVE Atomic!Init
    OBVIOUS
  <2>1. fates = [c \in Clients |-> "none"]
    BY FateValues DEF Init, fates
  <2>2. (version > 0) = FALSE /\ doc = Atomic!EmptyDoc
        /\ edit = [c \in Clients |-> NoEdit]
    BY SameDocuments DEF Init
  <2> QED BY <2>1, <2>2 DEF Atomic!Init, fates
<1>2. RequestInv /\ [Next]_vars => [Atomic!Next]_(Atomic!vars)
  <2> SUFFICES ASSUME RequestInv, [Next]_vars
               PROVE  Atomic!Next \/ UNCHANGED Atomic!vars
    OBVIOUS
  <2>a. TypeOK /\ \A c \in Clients : LoopInv(c)
    BY DEF RequestInv
  <2>1. ASSUME NEW d \in Docs, SaveWith(d) PROVE Atomic!Next
    BY <2>1, <2>a, RefineSaveWith DEF Atomic!Next
  <2>2. ASSUME NEW c \in Clients, NEW e \in Edits, Start(c, e) PROVE Atomic!Next
    BY <2>2, <2>a, RefineStart DEF Atomic!Next
  <2>3. ASSUME NEW c \in Clients, Serve(c)
        PROVE  Atomic!Next \/ UNCHANGED Atomic!vars
    BY <2>3, RefineServe
  <2>4. ASSUME NEW c \in Clients, Interrupt(c) PROVE Atomic!Next
    BY <2>4, <2>a, RefineInterrupt DEF Atomic!Next
  <2>5. ASSUME NEW c \in Clients, Return(c) PROVE Atomic!Next
    BY <2>5, <2>a, RefineReturn DEF Atomic!Next
  <2>6. CASE UNCHANGED vars
    <3>1. \A k \in Clients : Fate(k)' = Fate(k)
      BY <2>6, FateFrame DEF vars, copies
    <3> QED BY <2>6, <3>1 DEF vars, Atomic!vars
  <2> QED BY <2>1, <2>2, <2>3, <2>4, <2>5, <2>6 DEF Next
<1> QED
  BY <1>1, <1>2, RequestInvInit, RequestInvNext, PTL
     DEF Spec, ImplementsAtomic, Atomic!Spec

-----------------------------------------------------------------------------
(***************************************************************************)
(* ContentTypes.  Its every step is one of the store's or leaves the store *)
(* alone, so what holds of the store holds of the composition.             *)
(***************************************************************************)
LEMMA StoreStep == ContentNext => Next \/ UNCHANGED vars
<1> SUFFICES ASSUME ContentNext PROVE Next \/ UNCHANGED vars
  OBVIOUS
<1>1. CASE FirstSetup
  BY <1>1, EmptyDocIsValid DEF FirstSetup, Next
<1>2. ASSUME NEW c \in Clients, EditStep(c) PROVE Next
  BY <1>2 DEF EditStep, StartEdit, CountGuard, SwapEdit, Next, Serve
<1>3. ASSUME NEW w \in Writers, WriteStep(w) PROVE UNCHANGED vars
  BY <1>3 DEF WriteStep
<1> QED
  BY <1>1, <1>2, <1>3 DEF ContentNext

\* The store beside content writers is the store: every theorem above holds of
\* the composition (internal/composition under internal/content).
THEOREM ContentRunsStore == ContentSpec => Spec
<1>1. ContentInit => Init
  BY DEF ContentInit
<1>2. [ContentNext]_allVars => [Next]_vars
  BY StoreStep DEF allVars
<1> QED
  BY <1>1, <1>2, PTL DEF ContentSpec, Spec

-----------------------------------------------------------------------------
(***************************************************************************)
(* An item outlives its type only by a race.  A create that has read its   *)
(* type declared keeps it declared, or raced; a removal that has counted   *)
(* no item of its type still has none, or raced.                           *)
(***************************************************************************)
Items == [type : Types, ref : Ids \cup {None}]
WriteRequests == [kind : {"create", "update", "delete"}, id : Ids, type : Types,
                  ref : Ids \cup {None}, shape : Shapes \cup {Undeclared}]

ContentTyped ==
    /\ items \in [Ids -> Items \cup {None}]
    /\ wreq \in [Writers -> WriteRequests \cup {None}]
    /\ wpc \in [Writers -> {"idle", "load", "check", "insert", "read", "write",
                            "delete", "done"}]
    /\ \A w \in Writers :
        /\ wpc[w] \notin {"idle", "done"} => wreq[w] \in WriteRequests
        /\ wpc[w] = "insert" => wreq[w].kind = "create"

RemovalsAreGuarded ==
    \A c \in Clients : phase[c] # "idle" /\ edit[c].op = "remove" => edit[c].guarded

CreatesHaveTheirType ==
    \A w \in Writers :
        wpc[w] \in {"check", "insert"} /\ wreq[w].kind = "create" /\ wreq[w].type \notin raced
            => doc[wreq[w].type] # Undeclared

CountsStillHold ==
    \A c \in Clients :
        phase[c] = "save" /\ edit[c].op = "remove" /\ edit[c].name \notin raced
            => Count(edit[c].name) = {}

ContentInv ==
    /\ TypeOK /\ FreshCopyIsCurrent
    /\ version = 0 => doc = EmptyDoc
    /\ ContentTyped /\ RemovalsAreGuarded
    /\ CreatesHaveTheirType /\ CountsStillHold /\ OrphansOnlyByRace

LEMMA ContentInvInit == ContentInit => ContentInv
<1> SUFFICES ASSUME ContentInit PROVE ContentInv
  OBVIOUS
<1>1. TypeOK /\ FreshCopyIsCurrent
  BY TypeOKInit DEF ContentInit, Init, FreshCopyIsCurrent
<1>2. ContentTyped /\ CreatesHaveTheirType /\ OrphansOnlyByRace
  BY DEF ContentInit, ContentTyped, CreatesHaveTheirType, OrphansOnlyByRace
<1>3. RemovalsAreGuarded /\ CountsStillHold /\ (version = 0 => doc = EmptyDoc)
  BY DEF ContentInit, Init, RemovalsAreGuarded, CountsStillHold
<1> QED
  BY <1>1, <1>2, <1>3 DEF ContentInv

\* A writer's step changes its own request and place, and no other writer's.
LEMMA WriterOwnStep ==
    ASSUME ContentTyped, NEW w \in Writers, WriteStep(w)
    PROVE  \A v \in Writers : v # w => wreq'[v] = wreq[v] /\ wpc'[v] = wpc[v]
<1> USE DEF ContentTyped, WGoto
<1>1. CASE WBegin(w) \/ WLoad(w) \/ WCheck(w) \/ WInsert(w)
  BY <1>1 DEF WBegin, WLoad, WCheck, WInsert
<1>2. CASE WRead(w) \/ WWrite(w) \/ WDelete(w) \/ WInterrupt(w) \/ WReturn(w)
  BY <1>2 DEF WRead, WWrite, WDelete, WInterrupt, WReturn
<1> QED
  BY <1>1, <1>2 DEF WriteStep

\* What a writer's step makes of its own request and place.
LEMMA WriterRequest ==
    ASSUME TypeOK, ContentTyped, NEW w \in Writers, WriteStep(w)
    PROVE  /\ wreq' \in [Writers -> WriteRequests \cup {None}]
           /\ wpc' \in [Writers -> {"idle", "load", "check", "insert", "read", "write",
                                    "delete", "done"}]
           /\ wpc'[w] \notin {"idle", "done"} => wreq'[w] \in WriteRequests
           /\ wpc'[w] = "insert" => wreq'[w].kind = "create"
<1>1. CASE WBegin(w)
  <2>1. PICK k \in {"create", "update", "delete"}, i \in Ids, t \in Types, r \in Ids \cup {None} :
          /\ k = "create" => /\ \A u \in used : u[1] # i
                             /\ \A v \in Writers : wreq[v] # None => wreq[v].id # i
          /\ k # "create" => <<i, t>> \in used
          /\ k = "delete" => r = None
          /\ wreq' = [wreq EXCEPT ![w] = [kind |-> k, id |-> i, type |-> t,
                                          ref |-> r, shape |-> Undeclared]]
    BY <1>1 DEF WBegin
  <2>2. [kind |-> k, id |-> i, type |-> t, ref |-> r, shape |-> Undeclared] \in WriteRequests
    <3>1. Undeclared \in Shapes \cup {Undeclared}
      OBVIOUS
    <3>2. \A K, I, T, R, S : k \in K /\ i \in I /\ t \in T /\ r \in R /\ Undeclared \in S =>
            [kind |-> k, id |-> i, type |-> t, ref |-> r, shape |-> Undeclared]
                \in [kind : K, id : I, type : T, ref : R, shape : S]
      OBVIOUS
    <3> QED
      BY <3>1, <3>2 DEF WriteRequests
  <2>3. wpc' = [wpc EXCEPT ![w] = "load"]
    BY <1>1 DEF WBegin, WGoto
  <2> QED
    BY <2>1, <2>2, <2>3 DEF ContentTyped
<1> USE DEF ContentTyped, WGoto
<1>2. CASE WLoad(w)
  <2>1. wreq[w] \in WriteRequests /\ doc[wreq[w].type] \in Shapes \cup {Undeclared}
    BY <1>2 DEF WLoad, WriteRequests, TypeOK, Docs
  <2>2. [wreq[w] EXCEPT !.shape = doc[wreq[w].type]] \in WriteRequests
    BY <2>1 DEF WriteRequests
  <2>3. /\ wreq' \in [Writers -> WriteRequests \cup {None}]
        /\ wreq'[w] \in WriteRequests
    <3>1. \/ wreq' = wreq
          \/ wreq' = [wreq EXCEPT ![w] = [wreq[w] EXCEPT !.shape = doc[wreq[w].type]]]
      BY <1>2 DEF WLoad
    <3> QED
      BY <2>1, <2>2, <3>1
  <2>4. \E p \in {"delete", "check", "done"} : wpc' = [wpc EXCEPT ![w] = p]
    BY <1>2 DEF WLoad
  <2> QED
    BY <2>3, <2>4
<1>3. CASE WCheck(w) \/ WInsert(w) \/ WRead(w) \/ WWrite(w)
  BY <1>3 DEF WCheck, WInsert, WRead, WWrite
<1>4. CASE WDelete(w) \/ WInterrupt(w) \/ WReturn(w)
  BY <1>4 DEF WDelete, WInterrupt, WReturn
<1> QED
  BY <1>1, <1>2, <1>3, <1>4 DEF WriteStep

\* What a writer's step makes of the items: nothing, a new item of its type, a
\* new reference in an item, or one item less.
LEMMA WriterItems ==
    ASSUME ContentTyped, NEW w \in Writers, WriteStep(w)
    PROVE  /\ items' \in [Ids -> Items \cup {None}]
           /\ \A i \in Ids : items'[i] # None =>
                \/ WInsert(w) /\ items'[i].type = wreq[w].type
                \/ items[i] # None /\ items'[i].type = items[i].type
<1> USE DEF ContentTyped
<1>1. CASE WInsert(w)
  <2>1. wreq[w].id \in Ids /\ [type |-> wreq[w].type, ref |-> wreq[w].ref] \in Items
    BY <1>1 DEF WInsert, WriteRequests, Items
  <2>2. items' = [items EXCEPT ![wreq[w].id] = [type |-> wreq[w].type, ref |-> wreq[w].ref]]
    BY <1>1 DEF WInsert
  <2> QED
    BY <1>1, <2>1, <2>2
<1>2. CASE WWrite(w)
  <2>1. wreq[w].id \in Ids /\ wreq[w].ref \in Ids \cup {None}
    BY <1>2 DEF WWrite, WriteRequests
  <2>2. ASSUME Exists(wreq[w].type, wreq[w].id)
        PROVE  /\ items[wreq[w].id] # None /\ items[wreq[w].id] \in Items
               /\ [items[wreq[w].id] EXCEPT !.ref = wreq[w].ref] \in Items
               /\ [items[wreq[w].id] EXCEPT !.ref = wreq[w].ref].type = items[wreq[w].id].type
    BY <2>1, <2>2 DEF Exists, Items
  <2>3. \/ items' = items
        \/ /\ Exists(wreq[w].type, wreq[w].id)
           /\ items' = [items EXCEPT ![wreq[w].id] = [items[wreq[w].id] EXCEPT !.ref = wreq[w].ref]]
    BY <1>2 DEF WWrite
  <2> QED
    BY <2>1, <2>2, <2>3
<1>3. CASE WDelete(w)
  BY <1>3 DEF WDelete
<1>4. CASE items' = items
  BY <1>4
<1> QED
  BY <1>1, <1>2, <1>3, <1>4
     DEF WriteStep, WBegin, WLoad, WCheck, WRead, WInterrupt, WReturn

\* Only an insert marks a type, and only its own.
LEMMA WriterRaces ==
    ASSUME NEW w \in Writers, WriteStep(w)
    PROVE  /\ raced \subseteq raced'
           /\ WInsert(w) /\ PastGuard(wreq[w].type) => wreq[w].type \in raced'
BY DEF WriteStep, WBegin, WLoad, WCheck, WInsert, WRead, WWrite, WDelete, WInterrupt, WReturn

LEMMA WriterStepKeeps ==
    ASSUME ContentInv, NEW w \in Writers, WriteStep(w)
    PROVE  ContentInv'
<1> USE DEF ContentInv
<1>1. UNCHANGED vars
  BY DEF WriteStep
<1>2. TypeOK' /\ FreshCopyIsCurrent' /\ (version = 0 => doc = EmptyDoc)' /\ RemovalsAreGuarded'
  BY <1>1, TypeOKNext DEF vars, FreshCopyIsCurrent, RemovalsAreGuarded
<1>3. ContentTyped'
  BY WriterOwnStep, WriterRequest, WriterItems DEF ContentTyped
<1>4. CreatesHaveTheirType'
  <2> SUFFICES ASSUME NEW v \in Writers, wpc'[v] \in {"check", "insert"},
                      wreq'[v].kind = "create", wreq'[v].type \notin raced'
               PROVE  doc[wreq'[v].type] # Undeclared
    BY <1>1 DEF CreatesHaveTheirType, vars
  <2>1. CASE wreq'[v] = wreq[v] /\ wpc[v] \in {"check", "insert"}
    BY <2>1, WriterRaces DEF CreatesHaveTheirType
  <2>2. CASE v = w /\ WLoad(w)
    BY <2>2 DEF WLoad, WGoto, ContentTyped, WriteRequests
  <2>3. ASSUME v = w, ~WLoad(w) PROVE wreq'[v] = wreq[v] /\ wpc[v] = "check"
    <3>1. wpc[w] \in {"idle", "load", "check", "insert", "read", "write", "delete", "done"}
      BY DEF ContentTyped
    <3>2. WCheck(w)
      BY <2>3, <3>1 DEF WriteStep, WBegin, WInsert, WRead, WWrite, WDelete, WInterrupt,
         WReturn, WGoto, ContentTyped
    <3> QED
      BY <2>3, <3>2 DEF WCheck
  <2>4. v # w => wreq'[v] = wreq[v] /\ wpc'[v] = wpc[v]
    BY WriterOwnStep
  <2> QED
    BY <2>1, <2>2, <2>3, <2>4
<1>5. CountsStillHold'
  <2> SUFFICES ASSUME NEW c \in Clients, phase[c] = "save", edit[c].op = "remove",
                      edit[c].name \notin raced', NEW i \in Ids, Exists(edit[c].name, i)'
               PROVE  FALSE
    BY <1>1 DEF CountsStillHold, Count, vars
  <2>1. PastGuard(edit[c].name)
    BY DEF PastGuard
  <2>2. items'[i].type = edit[c].name /\ items'[i] # None
    BY <1>1 DEF Exists, vars
  <2> QED
    BY <2>1, <2>2, WriterItems, WriterRaces DEF CountsStillHold, Count, Exists
<1>6. OrphansOnlyByRace'
  <2> SUFFICES ASSUME NEW i \in Ids, items'[i] # None, items'[i].type \notin raced'
               PROVE  doc[items'[i].type] # Undeclared
    BY <1>1 DEF OrphansOnlyByRace, vars
  <2>1. CASE WInsert(w) /\ items'[i].type = wreq[w].type
    <3>1. wreq[w].kind = "create" /\ wpc[w] = "insert"
      BY <2>1 DEF ContentTyped, WInsert
    <3> QED
      BY <2>1, <3>1, WriterRaces DEF CreatesHaveTheirType
  <2>2. CASE items[i] # None /\ items'[i].type = items[i].type
    BY <2>2, WriterRaces DEF OrphansOnlyByRace
  <2> QED
    BY <2>1, <2>2, WriterItems
<1> QED
  BY <1>2, <1>3, <1>4, <1>5, <1>6

-----------------------------------------------------------------------------
\* A request reaches its write through the guard when it is a removal, and then
\* its count was empty.
LEMMA RemovalsCounted ==
    ASSUME TypeOK, RemovalsAreGuarded, NEW c \in Clients, EditStep(c)
    PROVE  /\ phase'[c] # "idle" /\ edit'[c].op = "remove" => edit'[c].guarded
           /\ phase'[c] = "save" /\ edit'[c].op = "remove" => Count(edit'[c].name) = {}
<1> USE DEF TypeOK, Goto, Finish
<1>1. CASE StartEdit(c)
  <2>1. PICK e \in Edits : (e.op = "remove" => e.guarded) /\ Start(c, e)
    BY <1>1 DEF StartEdit
  <2> QED
    BY <2>1 DEF Start
<1>2. CASE CountGuard(c)
  BY <1>2 DEF CountGuard, Guard, RemovalsAreGuarded
<1>3. CASE SwapEdit(c)
  BY <1>3 DEF SwapEdit, Swap, RemovalsAreGuarded
<1>4. CASE Load(c)
  <2>1. edit' = edit /\ phase[c] = "load" /\ (edit[c].op = "remove" => edit[c].guarded)
    BY <1>4 DEF Load, RemovalsAreGuarded
  <2>2. \/ phase' = [phase EXCEPT ![c] = "done"]
        \/ phase' = [phase EXCEPT ![c] = IF edit[c].op = "remove" /\ edit[c].guarded
                                         THEN "guard" ELSE "save"]
    BY <1>4 DEF Load
  <2> QED
    BY <2>1, <2>2
<1>5. CASE LoadNothing(c) \/ Invalid(c) \/ Miss(c) \/ Confirm(c) \/ Interrupt(c)
  BY <1>5 DEF LoadNothing, Invalid, Miss, Confirm, Interrupt, RemovalsAreGuarded
<1>6. CASE Return(c)
  BY <1>6 DEF Return
<1> QED
  BY <1>1, <1>2, <1>3, <1>4, <1>5, <1>6 DEF EditStep

\* The document loses a type only to a removal, which marks the type when a
\* create of it is under way.
LEMMA WhatEditsRemove ==
    ASSUME TypeOK, FreshCopyIsCurrent, NEW c \in Clients, EditStep(c)
    PROVE  /\ UNCHANGED <<items, wpc, wreq>> /\ raced \subseteq raced'
           /\ \A t \in Types : doc[t] # Undeclared /\ doc'[t] = Undeclared =>
                /\ phase[c] = "save" /\ edit[c].op = "remove" /\ edit[c].name = t
                /\ Creating(t) => t \in raced'
           /\ doc' # doc => version' # 0
           /\ version' = 0 => version = 0
<1>1. UNCHANGED <<items, wpc, wreq>> /\ raced \subseteq raced'
  BY DEF EditStep, StartEdit, CountGuard, SwapEdit, cvars
<1>2. CASE SwapEdit(c)
  <2>1. Swap(c) /\ doc' = Edited(doc, edit[c]) /\ edit[c] \in Edits /\ phase[c] = "save"
    BY <1>2, SwapEditsCurrent DEF SwapEdit, Swap, TypeOK
  <2>2. version' # 0
    BY <2>1 DEF Swap, TypeOK
  <2>3. ASSUME NEW t \in Types, doc[t] # Undeclared, doc'[t] = Undeclared
        PROVE  edit[c].op = "remove" /\ edit[c].name = t
    <3>1. CASE edit[c].op = "define"
      <4>1. edit[c].shape \in Shapes /\ doc' = [doc EXCEPT ![edit[c].name] = edit[c].shape]
        BY <2>1, <3>1 DEF Edits, Defines, Removals, Edited
      <4> QED
        BY <2>3, <4>1, DocumentAssumption DEF TypeOK, Docs
    <3>2. CASE edit[c].op # "define"
      <4>1. edit[c].op = "remove" /\ doc' = [doc EXCEPT ![edit[c].name] = Undeclared]
        BY <2>1, <3>2 DEF Edits, Defines, Removals, Edited
      <4> QED
        BY <2>3, <4>1 DEF TypeOK, Docs
    <3> QED
      BY <3>1, <3>2
  <2> QED
    BY <1>1, <1>2, <2>1, <2>2, <2>3 DEF SwapEdit
<1>3. CASE UNCHANGED row
  BY <1>1, <1>3 DEF row
<1> QED
  BY <1>2, <1>3 DEF EditStep, StartEdit, Start, CountGuard, Guard, LoadNothing, Load,
     Invalid, Miss, Confirm, Interrupt, Return

LEMMA EditStepKeeps ==
    ASSUME ContentInv, NEW c \in Clients, EditStep(c)
    PROVE  ContentInv'
<1> USE DEF ContentInv
<1>1. Next /\ Step(c)
  BY DEF EditStep, StartEdit, CountGuard, SwapEdit, Next, Serve, Step
<1>2. TypeOK' /\ FreshCopyIsCurrent'
  BY <1>1, TypeOKNext, FreshNext
<1>3. (version = 0 => doc = EmptyDoc)'
  BY WhatEditsRemove DEF EmptyDoc
<1>4. ContentTyped'
  BY WhatEditsRemove DEF ContentTyped
<1>5. \A k \in Clients : k # c => phase'[k] = phase[k] /\ edit'[k] = edit[k]
  BY <1>1, OthersUntouched
<1>6. RemovalsAreGuarded'
  BY <1>5, RemovalsCounted DEF RemovalsAreGuarded
<1>7. \A t : Count(t)' = Count(t)
  BY WhatEditsRemove DEF Count, Exists
<1>8. CreatesHaveTheirType'
  <2> SUFFICES ASSUME NEW w \in Writers, wpc[w] \in {"check", "insert"},
                      wreq[w].kind = "create", wreq[w].type \notin raced'
               PROVE  doc'[wreq[w].type] # Undeclared
    BY WhatEditsRemove DEF CreatesHaveTheirType
  <2>1. wreq[w].type \in Types /\ Creating(wreq[w].type)
    BY DEF ContentTyped, WriteRequests, Creating
  <2> QED
    BY <2>1, WhatEditsRemove DEF CreatesHaveTheirType
<1>9. CountsStillHold'
  <2> SUFFICES ASSUME NEW k \in Clients, phase'[k] = "save", edit'[k].op = "remove",
                      edit'[k].name \notin raced'
               PROVE  Count(edit'[k].name) = {}
    BY <1>7 DEF CountsStillHold
  <2>1. CASE k = c
    BY <2>1, RemovalsCounted
  <2>2. CASE k # c
    BY <2>2, <1>5, WhatEditsRemove DEF CountsStillHold
  <2> QED
    BY <2>1, <2>2
<1>10. OrphansOnlyByRace'
  <2> SUFFICES ASSUME NEW i \in Ids, items[i] # None, items[i].type \notin raced'
               PROVE  doc'[items[i].type] # Undeclared
    BY WhatEditsRemove DEF OrphansOnlyByRace
  <2>1. items[i].type \in Types /\ items[i].type \notin raced /\ i \in Count(items[i].type)
    BY WhatEditsRemove DEF ContentTyped, Items, Count, Exists
  <2> QED
    BY <2>1, WhatEditsRemove DEF OrphansOnlyByRace, CountsStillHold
<1> QED
  BY <1>2, <1>3, <1>4, <1>6, <1>8, <1>9, <1>10

\* First setup writes over no document: it makes no orphan.
LEMMA FirstSetupKeeps == ASSUME ContentInv, FirstSetup PROVE ContentInv'
<1> USE DEF ContentInv
<1>1. Next /\ doc = EmptyDoc /\ doc' = EmptyDoc
  BY EmptyDocIsValid DEF FirstSetup, SaveWith, Next
<1>2. TypeOK' /\ FreshCopyIsCurrent'
  BY <1>1, TypeOKNext, FreshNext
<1>3. (version = 0 => doc = EmptyDoc)'
  BY <1>1 DEF EmptyDoc
<1>4. UNCHANGED <<cvars, phase, edit>>
  BY DEF FirstSetup, SaveWith
<1>5. ContentTyped' /\ RemovalsAreGuarded'
  BY <1>4 DEF cvars, ContentTyped, RemovalsAreGuarded
<1>6. CreatesHaveTheirType' /\ OrphansOnlyByRace'
  BY <1>1, <1>4 DEF cvars, CreatesHaveTheirType, OrphansOnlyByRace
<1>7. CountsStillHold'
  BY <1>4 DEF cvars, CountsStillHold, Count, Exists
<1> QED
  BY <1>2, <1>3, <1>5, <1>6, <1>7

\* contenttypes.go:55, 71-80 for any number of editors, writers, types and items: what
\* an item outlives its type by is a create that overlapped the removal, never
\* a count that was made and forgotten.
THEOREM OrphansRaced == ContentSpec => []OrphansOnlyByRace
<1>1. ContentInv /\ [ContentNext]_allVars => ContentInv'
  <2> SUFFICES ASSUME ContentInv, [ContentNext]_allVars PROVE ContentInv'
    OBVIOUS
  <2>1. CASE UNCHANGED allVars
    BY <2>1, TypeOKNext
       DEF allVars, vars, cvars, ContentInv, FreshCopyIsCurrent, ContentTyped, RemovalsAreGuarded,
           CreatesHaveTheirType, CountsStillHold, OrphansOnlyByRace, Count, Exists, EmptyDoc
  <2> QED
    BY <2>1, FirstSetupKeeps, EditStepKeeps, WriterStepKeeps DEF ContentNext
<1> QED
  BY <1>1, ContentInvInit, PTL DEF ContentSpec, ContentInv
=============================================================================
