-------------------------- MODULE MCTranscriptSync --------------------------
(* Small instances of TranscriptSync. *)
EXTENDS TranscriptSync, TLC

Symmetry == Permutations(Messages) \cup Permutations(Browsers)
=============================================================================
