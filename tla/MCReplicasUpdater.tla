------------------------- MODULE MCReplicasUpdater -------------------------
(* Instances of ReplicasUpdater for TLC. *)
EXTENDS ReplicasUpdater

CONSTANTS Outside, Touches, Faults, Crashes, Removals

CoverAll == [s \in SLAs |-> Apps]
MCLimits == [outside |-> Outside, touches |-> Touches, faults |-> Faults,
             crashes |-> Crashes, removals |-> Removals]
=============================================================================
