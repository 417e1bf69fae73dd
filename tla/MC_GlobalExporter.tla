------------------------- MODULE MC_GlobalExporter -------------------------
EXTENDS GlobalExporter

CONSTANTS x1, x2, c1

\* Two stats of one class ("hits", exported by each of its instances, only
\* x1 resettable) and one config parameter "limit".
MCExportees == {x1, x2, c1}
MCNameOf == [e \in MCExportees |-> IF e = c1 THEN "limit" ELSE "hits"]

\* The strings given to SetConfig: one that does not parse, one valid
\* number and one the validation callback rejects.
MCInputs == {[ok |-> FALSE, v |-> 0], [ok |-> TRUE, v |-> 1], [ok |-> TRUE, v |-> 2]}
=============================================================================
