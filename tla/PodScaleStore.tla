--------------------------- MODULE PodScaleStore ---------------------------
(***************************************************************************)
(* What the pod autoscaler promises to everyone else who looks at the API  *)
(* server: a step changes one object, and changes it from the version that *)
(* is stored; a PodScale grows by a bounded factor; what is stored for a   *)
(* Pod never exceeds its node; only a Pod that is labelled "Kosmos" is     *)
(* resized, and of the Pod nothing but the size; a Pod under any other     *)
(* label belongs to its sidecar; an object that is gone does not come      *)
(* back.  No queue, cache, worker, retry or crash appears: PodAutoscaler   *)
(* implements this specification.                                          *)
(***************************************************************************)
EXTENDS Allotment

CONSTANTS Pods, Nodes, NodeOf, Capacity, Lower, Requests, Default, ZeroSize, Sidecars, None

VARIABLES pod, scale

vars == <<pod, scale>>

Init ==
  /\ pod = [p \in Pods |-> [rv |-> 1, label |-> "Kosmos", size |-> Requests[p]]]
  /\ scale = [p \in Pods |-> [rv |-> 1, desired |-> Default, actual |-> Default]]

MayGrowTo(p) == Larger((3 * scale[p].actual) \div 2, Lower)

(* An updater resizes a Pod: its label is the autoscaler's and stays. *)
Resize(p) ==
  /\ pod[p] # None /\ pod[p].label = "Kosmos"
  /\ pod'[p] # None
  /\ pod'[p].size \in 1..Capacity[NodeOf[p]]
  /\ pod' = [pod EXCEPT ![p] = [rv |-> pod[p].rv + 1, label |-> "Kosmos", size |-> pod'[p].size]]
  /\ UNCHANGED scale

(* An updater records what a Pod asked for and what it got. *)
Record(p) ==
  /\ scale[p] # None
  /\ scale'[p] # None
  /\ scale'[p].actual \in 1..Smaller(MayGrowTo(p), Capacity[NodeOf[p]])
  /\ scale' = [scale EXCEPT ![p] = [rv |-> scale[p].rv + 1,
                                    desired |-> scale'[p].desired, actual |-> scale'[p].actual]]
  /\ UNCHANGED pod

(* The kubelet moves the version of a Pod. *)
Touch(p) ==
  /\ pod[p] # None
  /\ pod' = [pod EXCEPT ![p] = [rv |-> pod[p].rv + 1, label |-> pod[p].label, size |-> pod[p].size]]
  /\ UNCHANGED scale

(* The sidecar takes the Pod over, sizes it to zero, sizes it back, hands  *)
(* it back, in whatever order its patches arrive.                          *)
Patch(p) ==
  /\ p \in Sidecars /\ pod[p] # None
  /\ \/ \E label \in {"VerSca20", "Kosmos"} :
          pod' = [pod EXCEPT ![p] = [rv |-> pod[p].rv + 1, label |-> label, size |-> pod[p].size]]
     \/ \E size \in {ZeroSize, Requests[p]} :
          pod' = [pod EXCEPT ![p] = [rv |-> pod[p].rv + 1, label |-> pod[p].label, size |-> size]]
  /\ UNCHANGED scale

(* A Pod or a PodScale is deleted. *)
Remove(p) ==
  \/ pod[p] # None /\ pod' = [pod EXCEPT ![p] = None] /\ UNCHANGED scale
  \/ scale[p] # None /\ scale' = [scale EXCEPT ![p] = None] /\ UNCHANGED pod

Next == \E p \in Pods : Resize(p) \/ Record(p) \/ Touch(p) \/ Patch(p) \/ Remove(p)

Spec == Init /\ [][Next]_vars
=============================================================================
