----------------------------- MODULE MCFeedSync -----------------------------
(* Instances of FeedSync for TLC. *)
EXTENDS FeedSync, TLC

CONSTANTS f1, f2

NoDeps == [f \in Feeds |-> {}]
\* f2 declares f1 as its prerequisite, as KEV and EPSS do NVD.
Chain == [f \in Feeds |-> IF f = f2 THEN {f1} ELSE {}]

Symmetry == Permutations(VersionIds) \cup Permutations(Workers)
=============================================================================
