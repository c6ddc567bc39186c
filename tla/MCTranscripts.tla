---------------------------- MODULE MCTranscripts ----------------------------
(***************************************************************************)
(* Two instances of TranscriptSync in one run: one browser with complete   *)
(* and live captures beside an importer, and one with live               *)
(* captures only and nothing skipped.                                      *)
(***************************************************************************)
EXTENDS TranscriptSync, TLC

VARIABLE instance

TranscriptsInit == Init /\ instance \in {"mixed", "live"}

MixedNext == instance = "mixed" /\ Next /\ UNCHANGED instance

\* Browsers make live captures only, no context is imported and no rule skips a capture.
OnlyLive ==
  /\ skips = 0
  /\ \A b \in Browsers : \A c \in observed[b] : c.kind = "live"
  /\ \A request \in wire : request.capture.kind = "live"
LiveNext == instance = "live" /\ Next /\ OnlyLive' /\ UNCHANGED instance

Transcripts == TranscriptsInit /\ [][MixedNext \/ LiveNext]_<<vars, instance>>

Symmetry == Permutations(Messages) \cup Permutations(Browsers)

\* What a browser with live captures will not send again because it has seen it is not
\* older on the backend, or is in the capture it delivers: an edit that the backend passed
\* over is sent once more.
SeenByLive == instance = "live" => SeenIsStored
=============================================================================
