------------------------ MODULE CompositionDocument ------------------------
(***************************************************************************)
(* The composition document as the composition store edits it: which       *)
(* content types are declared, with which shape, and the contract's        *)
(* validity rule (pkg/contract/contract.go).  A shape stands for one field *)
(* set; of a field set the contract rule tells apart only whether it is    *)
(* well formed on its own and which types its relation fields name.        *)
(***************************************************************************)

CONSTANTS Types,        \* content type names
          Shapes,       \* field sets a content type can be given
          Malformed,    \* the shapes no document may hold (no fields, bad
                        \* identifier, unknown field type, misplaced target)
          Targets,      \* Targets[s]: the types the relation fields of s name
          Undeclared    \* what a document holds for a type it does not declare

ASSUME DocumentAssumption ==
    /\ Malformed \subseteq Shapes
    /\ Targets \in [Shapes -> SUBSET Types]
    /\ Undeclared \notin Shapes

Docs == [Types -> Shapes \cup {Undeclared}]

Declared(d) == {t \in Types : d[t] # Undeclared}

EmptyDoc == [t \in Types |-> Undeclared]

\* Composition.Validate: every declared type is well formed and every
\* relation names a type the same document declares.
Valid(d) ==
    \A t \in Declared(d) :
        /\ d[t] \notin Malformed
        /\ Targets[d[t]] \subseteq Declared(d)

(***************************************************************************)
(* The edits: DefineContentType writes one key of ContentTypes,            *)
(* RemoveContentTypeGuarded deletes one, with a guard or (guard == nil)    *)
(* without.                                                                *)
(***************************************************************************)
Defines == [op : {"define"}, name : Types, shape : Shapes]
Removals == [op : {"remove"}, name : Types, guarded : BOOLEAN]
Edits == Defines \cup Removals

Edited(d, e) ==
    IF e.op = "define" THEN [d EXCEPT ![e.name] = e.shape]
                       ELSE [d EXCEPT ![e.name] = Undeclared]

\* A removal of a type the document does not declare finds nothing to remove.
Missing(d, e) == e.op = "remove" /\ d[e.name] = Undeclared

\* The edit would be accepted on document d: it has something to do and
\* leaves a document the contract accepts.
Applicable(d, e) == ~Missing(d, e) /\ Valid(Edited(d, e))
=============================================================================
