------------------------------ MODULE MCRunner ------------------------------
(* More bundles than one channel holds, one of them excluded by the filters.  *)
EXTENDS Runner

MCIncluded == Tasks \ {2}
=============================================================================
