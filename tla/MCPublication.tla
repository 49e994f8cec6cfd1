--------------------------- MODULE MCPublication ---------------------------
(* Instances of Publication for TLC.                                        *)
EXTENDS Publication

CONSTANTS live, composite

MCRuns == {live, composite}

MCComposites == {composite}
=============================================================================
