--------------------------- MODULE MCCaptureOutbox ---------------------------
(* Small instances of CaptureOutbox. *)
EXTENDS CaptureOutbox, TLC

Symmetry == Permutations(Captures) \cup Permutations(Destinations)
=============================================================================
