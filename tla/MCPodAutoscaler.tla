-------------------------- MODULE MCPodAutoscaler --------------------------
(* Instances of PodAutoscaler for TLC. *)
EXTENDS PodAutoscaler, TLC

CONSTANTS p1, p2, n1, n2, Room, Requested, Rounds, Touches, Patches, Gaps, Faults,
          Crashes, Removals

OneNode  == [p \in Pods |-> n1]
TwoNodes == [p \in Pods |-> IF p = p1 THEN n1 ELSE n2]
MCCapacity == [n \in Nodes |-> Room]
(* The first Pod asks for another amount than the SLA's default. *)
MCRequests == [p \in Pods |-> IF p = p1 THEN Requested ELSE Default]
MCLimits == [rounds |-> Rounds, touches |-> Touches, patches |-> Patches, gaps |-> Gaps,
             faults |-> Faults, crashes |-> Crashes, removals |-> Removals]

(* Any two disturbances, of one kind or of two. *)
Spent(kind) == Limits[kind] - budget[kind]
TwoDisturbances ==
  Spent("touches") + Spent("patches") + Spent("gaps") + Spent("faults") + Spent("crashes")
    + Spent("removals") <= 2

(* Workers of a kind are interchangeable. *)
Workers == Permutations(Recommenders) \cup Permutations(Managers) \cup Permutations(Updaters)
=============================================================================
