--------------------------- MODULE MCVdrFrontend ----------------------------
(* Instances of VdrFrontend for TLC; the bounds are in the .cfg files.  The *)
(* windows are interchangeable in all that the invariants say.              *)
EXTENDS VdrFrontend, TLC

WindowSymmetry == Permutations(Windows)
=============================================================================
