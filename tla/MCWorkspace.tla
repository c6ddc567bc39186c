----------------------------- MODULE MCWorkspace -----------------------------
(* Small instances of Workspace: the body rb contains both passages, ra only  *)
(* the first, so that a revision change makes one quotation stale.            *)
EXTENDS Workspace, TLC

CONSTANTS s1, s2, ra, rb, e1, e2

MCQuotes == [r \in Revisions |-> IF r = ra THEN {e1} \cap Evidence ELSE Evidence]
MCLegacy == {<<s1, e1>>}
NoLegacy == {}

Symmetry == Permutations(Workers)
=============================================================================
