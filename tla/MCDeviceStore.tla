--------------------------- MODULE MCDeviceStore ---------------------------
(***************************************************************************)
(* Instances of DeviceStore for TLC.                                       *)
(***************************************************************************)
EXTENDS DeviceStore, TLC

\* Installations and sessions are interchangeable.
Symmetry == Permutations(Installs) \cup Permutations(Sessions)

============================================================================
