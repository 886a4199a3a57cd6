------------------------ MODULE MCPodScaleController ------------------------
(* Instances of PodScaleController for TLC. *)
EXTENDS PodScaleController

CONSTANTS a1, a2, s1, s2, p1, p2, x1, x2

(* Each Service selects Pods of its own. *)
OneEach  == [s \in Services |-> IF s = s1 THEN {x1} ELSE {x2}]
Labelled == [p \in Pods |-> IF p = p1 THEN {x1} ELSE {x2}]

NoLimits == [k \in Kinds |-> 0]

(* One SLA covers both Services, a Pod may come or go; somebody else writes *)
(* a Service, or the controller crashes.                                   *)
OneSLA ==
  [match    |-> [a \in SLAs |-> IF a = a1 THEN Services ELSE None],
   services |-> Services, pods |-> {p1},
   limits   |-> [NoLimits EXCEPT !.touches = 1, !.pods = 1, !.faults = 1]]
Restarted ==
  [OneSLA EXCEPT !.limits = [NoLimits EXCEPT !.pods = 1, !.faults = 1, !.crashes = 1]]

(* The only Service may pass from one SLA to the other: the one stops       *)
(* selecting it, then the other starts.                                    *)
Handover ==
  [match    |-> [a \in SLAs |-> IF a = a1 THEN {s1} ELSE {}],
   services |-> {s1}, pods |-> {p1},
   limits   |-> [NoLimits EXCEPT !.selectors = 2]]

(* Its SLA or the Service itself is deleted, or its SLA drops it, and the   *)
(* other SLA may take it over then.                                        *)
Deletion ==
  [Handover EXCEPT !.limits = [NoLimits EXCEPT !.selectors = 1, !.faults = 1, !.removals = 1]]

SyncAndHandover == {OneSLA, Restarted, Handover, Deletion}

(* The update of the only Service may be refused. *)
LabelRefused ==
  {[OneSLA EXCEPT !.limits = [NoLimits EXCEPT !.selectors = 1, !.touches = 1, !.faults = 1]]}
=============================================================================
