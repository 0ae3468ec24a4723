------------------------- MODULE MCBusinessFailover -------------------------
(***************************************************************************)
(* Instances of BusinessFailover for TLC.                                  *)
(***************************************************************************)
EXTENDS BusinessFailover

CONSTANTS a, b

OneRoute == {<<a, b>>}
\* The first backend leaves the list and comes back.
ShrinkingRoutes == {<<a, b>>, <<b>>}

============================================================================
