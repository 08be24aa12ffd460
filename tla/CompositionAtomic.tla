------------------------- MODULE CompositionAtomic -------------------------
(***************************************************************************)
(* What the composition store promises its callers: edits of the content   *)
(* types behave as if each were applied at one instant to the one current  *)
(* document.  A request that succeeds was applied exactly once, between    *)
(* its call and its return; one refused as unknown or invalid really was   *)
(* inapplicable at an instant between the two; no other step touches the   *)
(* document.  CompositionStore implements this by load and compare-and-    *)
(* swap statements with nothing atomic around them.                        *)
(***************************************************************************)
EXTENDS CompositionDocument

CONSTANTS Clients,      \* concurrent callers of the store
          NoEdit        \* a caller that is not in a call; not an edit

VARIABLES doc,          \* the document; EmptyDoc before first setup
          live,         \* whether first setup has written a document
          call,         \* call[c]: the edit c asked for, or NoEdit
          fate          \* fate[c]: what became of it

vars == <<doc, live, call, fate>>

Fates == {"none", "open", "applied", "rejected", "failed"}

TypeOK ==
    /\ doc \in Docs
    /\ live \in BOOLEAN
    /\ call \in [Clients -> Edits \cup {NoEdit}]
    /\ fate \in [Clients -> Fates]

Init ==
    /\ doc = EmptyDoc
    /\ live = FALSE
    /\ call = [c \in Clients |-> NoEdit]
    /\ fate = [c \in Clients |-> "none"]

\* A whole-document save, by first setup or over an existing document.
Replace ==
    /\ live' = TRUE
    /\ doc' \in {d \in Docs : Valid(d)}
    /\ UNCHANGED <<call, fate>>

\* A call, which may be refused outright (permission denied).
Call(c) ==
    /\ call[c] = NoEdit
    /\ \E e \in Edits : call' = [call EXCEPT ![c] = e]
    /\ \E f \in {"open", "failed"} : fate' = [fate EXCEPT ![c] = f]
    /\ UNCHANGED <<doc, live>>

\* The instant a successful edit takes effect.
Apply(c) ==
    /\ fate[c] = "open"
    /\ live
    /\ Applicable(doc, call[c])
    /\ doc' = Edited(doc, call[c])
    /\ fate' = [fate EXCEPT ![c] = "applied"]
    /\ UNCHANGED <<live, call>>

\* The instant at which a rejected edit really was inapplicable.
Reject(c) ==
    /\ fate[c] = "open"
    /\ ~live \/ ~Applicable(doc, call[c])
    /\ fate' = [fate EXCEPT ![c] = "rejected"]
    /\ UNCHANGED <<doc, live, call>>

\* A guard's refusal, write contention or a database error: nothing is claimed
\* about the document.  A database error may also hide from the caller that the
\* edit was applied or rejected.
Fail(c) ==
    /\ fate[c] \in {"open", "applied", "rejected"}
    /\ fate' = [fate EXCEPT ![c] = "failed"]
    /\ UNCHANGED <<doc, live, call>>

Return(c) ==
    /\ fate[c] \in {"applied", "rejected", "failed"}
    /\ call' = [call EXCEPT ![c] = NoEdit]
    /\ fate' = [fate EXCEPT ![c] = "none"]
    /\ UNCHANGED <<doc, live>>

Next ==
    \/ Replace
    \/ \E c \in Clients : Call(c) \/ Apply(c) \/ Reject(c) \/ Fail(c) \/ Return(c)

Spec == Init /\ [][Next]_vars
=============================================================================
