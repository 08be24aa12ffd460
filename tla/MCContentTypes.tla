--------------------------- MODULE MCContentTypes ---------------------------
\* Values for the constants of ContentTypes: one composition client, two
\* content writers, a type with no relation and shapes that relate to it.
EXTENDS ContentTypes

CONSTANTS t1, t2, plain, link

MCTypes == {t1, t2}
MCShapes == {plain, link}
MCTargets == [s \in MCShapes |-> IF s = link THEN {t1} ELSE {}]
=============================================================================
