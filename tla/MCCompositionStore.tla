------------------------- MODULE MCCompositionStore -------------------------
\* Values for the constants of CompositionStore: two types, a shape relating to
\* t1 (valid or not by what else is declared) and one the contract rejects.
EXTENDS CompositionStore

CONSTANTS t1, t2, link, bad

MCTypes == {t1, t2}
MCShapes == {link, bad}
MCMalformed == {bad}
MCTargets == [s \in MCShapes |-> IF s = link THEN {t1} ELSE {}]
=============================================================================
