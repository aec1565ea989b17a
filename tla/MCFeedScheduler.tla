--------------------------- MODULE MCFeedScheduler ---------------------------
(* An instance of FeedScheduler for TLC. *)
EXTENDS FeedScheduler

CONSTANTS fa, fb, fc

\* fb has the prerequisite fa, and fc has both, as KEV and EPSS have NVD.
Fork == [f \in Feeds |-> IF f = fb THEN {fa} ELSE IF f = fc THEN {fa, fb} ELSE {}]
=============================================================================
