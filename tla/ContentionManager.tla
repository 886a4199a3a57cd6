------------------------- MODULE ContentionManager -------------------------
(***************************************************************************)
(* One run of the contention manager on a node: NewContentionManager and   *)
(* Solve (pkg/pod-autoscaler/pkg/contention-manager/logic.go), loop by     *)
(* loop, as processNextNode calls them.  Several managers run the same     *)
(* code on separate messages; they share no state, so one is enough.       *)
(*                                                                         *)
(* A message (NodeScales) holds one entry per PodScale; the API server     *)
(* lists the Pods scheduled on the node.  Amounts are kept per resource,   *)
(* and the two resources go through the same statements side by side.      *)
(***************************************************************************)
EXTENDS Sharing, SequencesExt

CONSTANTS Pods,        \* names of the Pods that may run on the node
          Amount,      \* amounts that occur as requests and caps
          Capacities,  \* amounts of a resource that a node may have
          PodLists,    \* the Pod lists the API server may answer with
          Messages     \* the lists of PodScales the recommender may send

Resources == {"cpu", "memory"}
Quantities == [Resources -> Amount]
Zero == [r \in Resources |-> 0]
Plus(f, g)  == [r \in Resources |-> f[r] + g[r]]
Minus(f, g) == [r \in Resources |-> f[r] - g[r]]

(* A PodScale of the message and a Pod of the API server's list. *)
Entry   == [pod : Pods, capped : Quantities]
PodInfo == [name : Pods, requests : Quantities, guaranteed : BOOLEAN]

ASSUME AmountAssumption   == Amount \subseteq Nat
ASSUME CapacityAssumption == Capacities \subseteq {a \in Nat : a < Precision}
ASSUME PodListsAssumption == \A list \in PodLists : list \in Seq(PodInfo)
ASSUME MessagesAssumption == \A list \in Messages : list \in Seq(Entry)

(* The API server holds one Pod, and one PodScale "pod-<name>", of a name.  *)
ASSUME NamesAssumption ==
  /\ \A list \in PodLists : \A j, k \in DOMAIN list : list[j].name = list[k].name => j = k
  /\ \A list \in Messages : \A j, k \in DOMAIN list : list[j].pod = list[k].pod => j = k

VARIABLES
  pc,            \* the statement the manager is at
  podList,       \* the Pods the API server listed for the node
  capacity,      \* node.Status.Capacity, less untracked once "allocatable"
  scales,        \* the PodScales of the message that are still tracked
  next,          \* index of the running loop
  untracked,     \* requests of Pods outside KOSMOS' control
  desired,       \* running total of the capped amounts
  actual         \* Status.ActualResources written so far, in order

solution == <<desired, actual>>
vars == <<pc, podList, capacity, scales, next, untracked, solution>>

Tracks(name) == \E k \in DOMAIN scales : scales[k].pod = name

Init ==
  /\ pc = "untracked"
  /\ podList \in PodLists
  /\ capacity \in [Resources -> Capacities]
  /\ scales \in Messages
  /\ next = 1
  /\ untracked = Zero
  /\ desired = Zero
  /\ actual = <<>>

----------------------------------------------------------------------------
(* NewContentionManager: the loop over the Pods of the node. *)

SkipTracked ==
  LET p == podList[next] IN
  /\ pc = "untracked" /\ next <= Len(podList)
  /\ Tracks(p.name) /\ p.guaranteed
  /\ next' = next + 1
  /\ UNCHANGED <<pc, podList, capacity, scales, untracked, solution>>

CountUntracked ==
  LET p == podList[next] IN
  /\ pc = "untracked" /\ next <= Len(podList)
  /\ ~Tracks(p.name)
  /\ untracked' = Plus(untracked, p.requests)
  /\ next' = next + 1
  /\ UNCHANGED <<pc, podList, capacity, scales, solution>>

(* Variant: the Pod taken out of the message is not counted either. *)
ForgetNotGuaranteed ==
  LET p == podList[next] IN
  /\ pc = "untracked" /\ next <= Len(podList)
  /\ Tracks(p.name) /\ ~p.guaranteed
  /\ \E k \in DOMAIN scales : scales[k].pod = p.name /\ scales' = RemoveAt(scales, k)
  /\ next' = next + 1
  /\ UNCHANGED <<pc, podList, capacity, untracked, solution>>

(* A tracked Pod that is not Guaranteed stops being tracked: Remove takes   *)
(* the first entry that names it out of the message.                       *)
RemoveNotGuaranteed ==
  LET p == podList[next] IN
  /\ pc = "untracked" /\ next <= Len(podList)
  /\ Tracks(p.name) /\ ~p.guaranteed
  /\ \E k \in DOMAIN scales :
       /\ scales[k].pod = p.name
       /\ \A j \in 1..k-1 : scales[j].pod # p.name
       /\ scales' = RemoveAt(scales, k)
  /\ untracked' = Plus(untracked, p.requests)
  /\ next' = next + 1
  /\ UNCHANGED <<pc, podList, capacity, solution>>

(* Variant: the remainder is not tested. *)
ComputeUnchecked ==
  /\ pc = "untracked" /\ next > Len(podList)
  /\ capacity' = Minus(capacity, untracked)
  /\ pc' = "total"
  /\ next' = 1
  /\ UNCHANGED <<podList, scales, untracked, solution>>

(* A negative remainder makes the constructor return nil. *)
ComputeAllocatable ==
  LET allocatable == Minus(capacity, untracked) IN
  /\ pc = "untracked" /\ next > Len(podList)
  /\ capacity' = allocatable
  /\ pc' = IF \E r \in Resources : allocatable[r] < 0 THEN "nil" ELSE "total"
  /\ next' = 1
  /\ UNCHANGED <<podList, scales, untracked, solution>>

----------------------------------------------------------------------------
(* Solve: the loop that totals, then the loop that shares. *)

AddDesired ==
  /\ pc = "total" /\ next <= Len(scales)
  /\ desired' = Plus(desired, scales[next].capped)
  /\ next' = next + 1
  /\ UNCHANGED <<pc, podList, capacity, scales, untracked, actual>>

StartSharing ==
  /\ pc = "total" /\ next > Len(scales)
  /\ pc' = "share"
  /\ next' = 1
  /\ UNCHANGED <<podList, capacity, scales, untracked, solution>>

Share ==
  /\ pc = "share" /\ next <= Len(scales)
  /\ \E c \in Grant(scales[next].capped["cpu"], desired["cpu"], capacity["cpu"]),
        m \in Grant(scales[next].capped["memory"], desired["memory"], capacity["memory"]) :
       actual' = Append(actual, [r \in Resources |-> IF r = "cpu" THEN c ELSE m])
  /\ next' = next + 1
  /\ UNCHANGED <<pc, podList, capacity, scales, untracked, desired>>

Return ==
  /\ pc = "share" /\ next > Len(scales)
  /\ pc' = "done"
  /\ UNCHANGED <<podList, capacity, scales, next, untracked, solution>>

(* processNextNode calls Solve on the nil manager: the process panics. *)
SolveOnNil ==
  /\ pc = "nil"
  /\ pc' = "panic"
  /\ UNCHANGED <<podList, capacity, scales, next, untracked, solution>>

Next ==
  \/ SkipTracked \/ CountUntracked \/ RemoveNotGuaranteed \/ ComputeAllocatable
  \/ AddDesired \/ StartSharing \/ Share \/ Return
  \/ SolveOnNil

Spec == Init /\ [][Next]_vars

----------------------------------------------------------------------------
(* Properties. *)

Amounts == [Resources -> Int]

(* Types.  A capacity may become negative, but never one that Solve works  *)
(* with: NewContentionManager tests it before (logic.go 77-80).            *)
TypeOK ==
  /\ pc \in {"untracked", "nil", "panic", "total", "share", "done"}
  /\ podList \in Seq(PodInfo)
  /\ scales \in Seq(Entry)
  /\ capacity \in Amounts
  /\ pc \in {"total", "share", "done"} => capacity \in [Resources -> Nat]
  /\ next \in Nat \ {0}
  /\ untracked \in [Resources -> Nat]
  /\ desired \in [Resources -> Nat]
  /\ actual \in Seq([Resources -> Nat])

(* One resource of the amounts given, and of what each Pod of the node      *)
(* takes from the capacity without being solved.                           *)
Given(r) == [k \in DOMAIN actual |-> actual[k][r]]
NotTracked(r) ==
  [k \in DOMAIN podList |-> IF Tracks(podList[k].name) THEN 0 ELSE podList[k].requests[r]]

(* Solve hands out no more of either resource than the node has left once  *)
(* the untracked Pods are served, for all its entries together (logic.go   *)
(* 91-142), although the float operations may round a share up as well as  *)
(* down (24-27).                                                           *)
NeverOversubscribed ==
  pc = "done" => \A r \in Resources : Total(Given(r)) <= capacity[r]

(* A cut is taken only when the node is short of that very resource, and   *)
(* no PodScale is ever given more than it was capped at: a shortage of     *)
(* memory never costs CPU (logic.go 104-132).                              *)
CutOnlyWhenShort ==
  \A k \in DOMAIN actual, r \in Resources :
    /\ actual[k][r] <= scales[k].capped[r]
    /\ actual[k][r] < scales[k].capped[r] => desired[r] > capacity[r]

(* When the allocatable amount is fixed, every Pod of the node has been    *)
(* accounted for exactly once: as an entry to be solved, or in untracked   *)
(* (logic.go 44-66) -- also the Pods dropped from the message on the way.  *)
EveryPodAccounted ==
  pc # "untracked" => \A r \in Resources : untracked[r] = Total(NotTracked(r))
=============================================================================
