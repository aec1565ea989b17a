-------------------------- MODULE PublishedDatasets --------------------------
(***************************************************************************)
(* What the ingestion of feeds promises to the readers of a feed when no   *)
(* operator rolls back: a feed publishes at most one dataset version, new  *)
(* versions replace old ones, a failed one may be withdrawn, and a version *)
(* that was replaced is never published again.                             *)
(***************************************************************************)
CONSTANTS Feeds, VersionIds, None

VARIABLES published,    \* the version each feed publishes, or None
          retired       \* the versions that were replaced

TypeOK == /\ published \in [Feeds -> VersionIds \cup {None}]
          /\ retired \subseteq VersionIds

Init == /\ published = [f \in Feeds |-> None]
        /\ retired = {}

Publish(f, v) ==
    /\ v \notin retired
    /\ \A g \in Feeds \ {f} : published[g] # v
    /\ published' = [published EXCEPT ![f] = v]
    /\ retired' = retired \cup ({published[f]} \ {None, v})

Withdraw(f) ==
    /\ published' = [published EXCEPT ![f] = None]
    /\ UNCHANGED retired

Next == \E f \in Feeds : Withdraw(f) \/ \E v \in VersionIds : Publish(f, v)

Spec == Init /\ [][Next]_<<published, retired>>

=============================================================================
