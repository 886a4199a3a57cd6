--------------------------- MODULE PodAutoscaler ---------------------------
(***************************************************************************)
(* The pod autoscaler process (pkg/pod-autoscaler): recommender workers    *)
(* read PodScales from the informer cache and send one message per node;   *)
(* contention managers cut the message down to the node's capacity; updater*)
(* workers write each entry to the Pod and then to its PodScale.           *)
(*                                                                         *)
(* Around the process, as external parts: the Kubernetes API server, which *)
(* accepts an Update only for the current resourceVersion and keeps the    *)
(* version when nothing changes; informer caches that lag behind it; the   *)
(* kubelet and the KVerSca20 sidecar, which write the same Pods.           *)
(*                                                                         *)
(* A PodScale shares the identity of the Pod it names.  One resource (CPU) *)
(* is modelled; ContentionManager covers two.  Not part of the state: the  *)
(* memory of the control loops, whose outcome is any amount they can reach.*)
(***************************************************************************)
EXTENDS Sharing, FiniteSets, Functions

CONSTANTS
  Pods,             \* the Pods KOSMOS scales
  Nodes,            \* the nodes of the cluster
  NodeOf,           \* label system.autoscaler/node of each Pod's PodScale
  Recommenders, Managers, Updaters,    \* goroutines: 4 of each in main.go
  Capacity,         \* node.Status.Capacity
  Demands,          \* what the control law may ask for, before its 1.5 limit
  Lower, Upper,     \* MinResources and MaxResources of the SLA
  Requests,         \* what each Pod is created with, by its Deployment
  Default,          \* DefaultResources of the SLA: a new PodScale's amounts
  ZeroSize,         \* the size the sidecar gives an idle Pod
  Sidecars,         \* Pods with a KVerSca20 sidecar
  Unscalable,       \* Pods without the container their SLA names (any more)
  ChannelCap,       \* capacity of the two channels: 10000 in main.go
  Versions,         \* the resourceVersions a liveness property looks at
  Limits,           \* how many rounds, touches, patches, faults ... may occur
  None

Kinds == {"rounds", "touches", "patches", "gaps", "faults", "crashes", "removals"}
Positive == Nat \ {0}

ASSUME NodeAssumption   == IsFiniteSet(Pods) /\ NodeOf \in [Pods -> Nodes]
ASSUME AmountAssumption ==
  /\ Capacity \in [Nodes -> Nat] /\ \A n \in Nodes : Capacity[n] < Precision
  /\ Requests \in [Pods -> Positive]
  /\ Demands \subseteq Positive
  /\ Lower \in Positive /\ Upper \in Positive /\ Lower <= Upper
  /\ Default \in Positive /\ ZeroSize \in Positive
ASSUME BoundAssumption  == ChannelCap \in Positive /\ Limits \in [Kinds -> Nat]

VARIABLES
  pod,              \* API server: the Pods
  scale,            \* API server: the PodScales
  podCache, scaleCache,    \* the informers' copies
  up,               \* the process runs
  nodeQueue,        \* the recommender's work queue of node names
  recommender,      \* the message each recommender is about to send
  recommenderOut,   \* channel: recommenders to contention managers
  manager,          \* the message each contention manager is about to send
  contentionManagerOut,    \* channel: contention managers to updaters
  updater,          \* the state of each updater
  budget            \* what is left of Limits

api     == <<pod, scale>>
caches  == <<podCache, scaleCache>>
process == <<up, nodeQueue, recommender, recommenderOut, manager,
             contentionManagerOut, updater>>
vars    == <<api, caches, process, budget>>

----------------------------------------------------------------------------
(* Data. *)

PodObject   == [rv : Positive, label : {"Kosmos", "VerSca20"}, size : Positive]
ScaleObject == [rv : Positive, desired : Positive, actual : Positive]

ASSUME NoneAssumption == None \notin PodObject \cup ScaleObject

(* An entry of a message carries the resourceVersion of the PodScale that  *)
(* the recommendation was computed from.                                   *)
Entry   == [pod : Pods, base : Positive, desired : Positive, actual : Nat]
Message == [node : Nodes, entries : Seq(Entry), nil : BOOLEAN]

Idle == [at |-> "idle"]
UpdaterState ==
  {Idle}
  \cup [at : {"entry", "requeue"}, message : Message, k : Positive]
  \cup [at : {"dryRun", "pod", "scale"}, message : Message, k : Positive, copy : PodObject]

Capped(desired) == ApplyBounds(desired, Lower, Upper)

(* computeCPUResource: at most maxScaleOut = 1.5 times the actual amount.  *)
Recommendable(actual) == {Smaller(d, (3 * actual) \div 2) : d \in Demands}

(* The API server bumps the version of an object only if it changes. *)
Stored(old, new) == IF new = old THEN old ELSE [new EXCEPT !.rv = old.rv + 1]

Orders(S) == {s \in [1..Cardinality(S) -> S] : IsInjective(s)}

Spend(kind) ==
  /\ budget[kind] > 0
  /\ budget' = [budget EXCEPT ![kind] = @ - 1]

----------------------------------------------------------------------------
(* Recommender. *)

(* runRecommenderWorker, every 5 seconds: each node is enqueued. *)
EnqueueNode(n) ==
  /\ up /\ n \notin nodeQueue
  /\ Spend("rounds")
  /\ nodeQueue' = nodeQueue \cup {n}
  /\ UNCHANGED <<api, caches, up, recommender, recommenderOut, manager,
                 contentionManagerOut, updater>>

(* The work queue hands a node to one worker at a time. *)
Processing(n) == \E r \in Recommenders : recommender[r] # None /\ recommender[r].node = n

(* Variant: the version is read from the API server when the message is    *)
(* made, the amounts from the cache.                                       *)
RecommendationForLatest(p, desired) ==
  [pod |-> p, base |-> IF scale[p] = None THEN scaleCache[p].rv ELSE scale[p].rv,
   desired |-> desired, actual |-> scaleCache[p].actual]

(* An entry as computePodScale returns it: a copy of the cached PodScale   *)
(* with its new desired amount.                                            *)
Recommendation(p, desired) ==
  [pod |-> p, base |-> scaleCache[p].rv, desired |-> desired, actual |-> scaleCache[p].actual]

(* What the control loops may ask for, for each of a set of Pods. *)
Wishes(S) ==
  {f \in [S -> UNION {Recommendable(scaleCache[p].actual) : p \in S}] :
     \A p \in S : f[p] \in Recommendable(scaleCache[p].actual)}

AsMessage(n, order, desired, nil) ==
  [node |-> n,
   entries |-> [k \in DOMAIN order |-> Recommendation(order[k], desired[order[k]])],
   nil |-> nil]

(* The messages that may come of the Pods of a node, in the lister's order. *)
(* An Unscalable Pod yields a nil entry: recommendContainer discards the   *)
(* error of computePodScale.                                               *)
Recommended(n, kept) ==
  LET scaled == kept \ Unscalable
  IN  {AsMessage(n, order, desired, scaled # kept) : order \in Orders(scaled), desired \in Wishes(scaled)}

(* recommendNode: the cached PodScales of the node; a Pod that is not       *)
(* cached is skipped, and so is one without metrics or SLA.                *)
RecommendNode(r) ==
  \E n \in nodeQueue :
    LET listed == {p \in Pods : NodeOf[p] = n /\ scaleCache[p] # None} IN
    /\ up /\ recommender[r] = None
    /\ ~Processing(n)
    /\ nodeQueue' = nodeQueue \ {n}
    /\ \/ /\ listed = {}
          /\ UNCHANGED <<recommender, budget>>
       \/ /\ listed # {}
          /\ \E skipped \in SUBSET listed :
               /\ IF skipped = {} THEN UNCHANGED budget ELSE Spend("gaps")
               /\ \E message \in Recommended(n, {p \in listed \ skipped : podCache[p] # None}) :
                    recommender' = [recommender EXCEPT ![r] = message]
    /\ UNCHANGED <<api, caches, up, recommenderOut, manager,
                   contentionManagerOut, updater>>

(* c.out <- nodeScales blocks while the channel is full. *)
SendRecommendation(r) ==
  /\ up /\ recommender[r] # None
  /\ Len(recommenderOut) < ChannelCap
  /\ recommenderOut' = Append(recommenderOut, recommender[r])
  /\ recommender' = [recommender EXCEPT ![r] = None]
  /\ UNCHANGED <<api, caches, up, nodeQueue, manager, contentionManagerOut,
                 updater, budget>>

----------------------------------------------------------------------------
(* Contention manager. *)

Desired(entries) == [k \in DOMAIN entries |-> Capped(entries[k].desired)]
Actual(entries)  == [k \in DOMAIN entries |-> entries[k].actual]

(* What a set of stored Pods takes of their node's capacity. *)
Used(S) ==
  LET order == CHOOSE s \in Orders(S) : TRUE
  IN  Total([k \in 1..Cardinality(S) |-> pod[order[k]].size])

Running(n) == {p \in Pods : NodeOf[p] = n /\ pod[p] # None}

(* The Pods the API server lists for the node and the message does not     *)
(* name take their part of the capacity first.                             *)
Allocatable(message) ==
  LET named == {message.entries[k].pod : k \in DOMAIN message.entries}
  IN  Capacity[message.node] - Used(Running(message.node) \ named)

Solved(entries, available) ==
  LET total    == Total(Desired(entries))
      Share(k) == Grant(Desired(entries)[k], total, available)
  IN  {[k \in DOMAIN entries |-> [entries[k] EXCEPT !.actual = share[k]]] :
         share \in {f \in [DOMAIN entries -> UNION {Share(k) : k \in DOMAIN entries}] :
                      \A k \in DOMAIN entries : f[k] \in Share(k)}}

(* processNextNode: a failed list drops the message; a nil entry or a node *)
(* with less than nothing left makes the manager dereference nil.          *)
ManageNode(m) ==
  LET message == Head(recommenderOut) IN
  /\ up /\ manager[m] = None
  /\ recommenderOut # <<>>
  /\ recommenderOut' = Tail(recommenderOut)
  /\ \/ /\ Spend("faults")
        /\ UNCHANGED manager
     \/ /\ ~message.nil /\ Allocatable(message) >= 0
        /\ \E entries \in Solved(message.entries, Allocatable(message)) :
             manager' = [manager EXCEPT ![m] = [message EXCEPT !.entries = entries]]
        /\ UNCHANGED budget
  /\ UNCHANGED <<api, caches, up, nodeQueue, recommender,
                 contentionManagerOut, updater>>

SendSolution(m) ==
  /\ up /\ manager[m] # None
  /\ Len(contentionManagerOut) < ChannelCap
  /\ contentionManagerOut' = Append(contentionManagerOut, manager[m])
  /\ manager' = [manager EXCEPT ![m] = None]
  /\ UNCHANGED <<api, caches, up, nodeQueue, recommender, recommenderOut,
                 updater, budget>>

----------------------------------------------------------------------------
(* Resource updater. *)

Become(u, state) ==
  /\ updater' = [updater EXCEPT ![u] = state]
  /\ UNCHANGED <<up, nodeQueue, recommender, recommenderOut, manager>>

Requeueing(u) == [at |-> "requeue", message |-> updater[u].message, k |-> updater[u].k]
NextEntry(u)  == [at |-> "entry", message |-> updater[u].message, k |-> updater[u].k + 1]
(* Variant: the PodScale is fetched again before it is updated. *)
Refetched(u) ==
  LET e == updater[u].message.entries[updater[u].k] IN
  [e EXCEPT !.base = IF scale[e.pod] = None THEN @ ELSE scale[e.pod].rv]

(* The entry the worker is at. *)
Current(u) == updater[u].message.entries[updater[u].k]
(* The API server's precondition on an Update. *)
StillCurrent(object, rv) == object # None /\ object.rv = rv

(* Variant: the loop over the entries starts one too early. *)
TakeMessageFromZero(u) ==
  /\ up /\ updater[u] = Idle
  /\ contentionManagerOut # <<>>
  /\ contentionManagerOut' = Tail(contentionManagerOut)
  /\ Become(u, [at |-> "entry", message |-> Head(contentionManagerOut), k |-> 0])
  /\ UNCHANGED <<api, caches, budget>>

(* for nodeScale := range c.in *)
TakeMessage(u) ==
  /\ up /\ updater[u] = Idle
  /\ contentionManagerOut # <<>>
  /\ contentionManagerOut' = Tail(contentionManagerOut)
  /\ Become(u, [at |-> "entry", message |-> Head(contentionManagerOut), k |-> 1])
  /\ UNCHANGED <<api, caches, budget>>

(* Variant: the Pod follows the desired amount, not the one that was cut. *)
SyncedToDesired(cached, e) == [cached EXCEPT !.size = e.desired]

(* syncPod: a copy of the cached Pod with the entry's actual resources. *)
SyncedPod(cached, e) == [cached EXCEPT !.size = e.actual]

(* Variant: the label is ignored. *)
AlwaysScalable(cached) == TRUE

(* Only a Pod with the label autoscaling: Kosmos may be resized. *)
MayResize(cached) == cached.label = "Kosmos"

(* The next entry: a Pod that is gone from the cache or a share that is not*)
(* positive ends the worker's turn and drops the rest of the message; a Pod*)
(* not labelled "Kosmos" in the cache is passed over.                      *)
PrepareEntry(u) ==
  /\ up /\ updater[u].at = "entry"
  /\ IF updater[u].k > Len(updater[u].message.entries)
     THEN Become(u, Idle)
     ELSE LET e == Current(u)
              cached == podCache[e.pod]
          IN  IF cached = None \/ e.actual <= 0
              THEN Become(u, Idle)
              ELSE IF ~MayResize(cached)
              THEN Become(u, NextEntry(u))
              ELSE Become(u, [at |-> "dryRun", message |-> updater[u].message, k |-> updater[u].k,
                              copy |-> SyncedPod(cached, e)])
  /\ UNCHANGED <<api, caches, contentionManagerOut, budget>>

(* AtomicResourceUpdate's dry run of both updates changes nothing.  Its    *)
(* check of the Pod comes first and is repeated by the real update, so the *)
(* two are taken at the time of the second.                                *)
DryRun(u) ==
  /\ up /\ updater[u].at = "dryRun"
  /\ \/ /\ StillCurrent(pod[Current(u).pod], updater[u].copy.rv)
        /\ StillCurrent(scale[Current(u).pod], Current(u).base)
        /\ Become(u, [updater[u] EXCEPT !.at = "pod"])
        /\ UNCHANGED budget
     \/ /\ \/ ~StillCurrent(pod[Current(u).pod], updater[u].copy.rv)
           \/ ~StillCurrent(scale[Current(u).pod], Current(u).base)
        /\ Become(u, Requeueing(u))
        /\ UNCHANGED budget
     \/ /\ Spend("faults")
        /\ Become(u, Requeueing(u))
  /\ UNCHANGED <<api, caches, contentionManagerOut>>

(* The real update of the Pod.  A failed call may have been applied: the    *)
(* answer, not the request, is what got lost.                              *)
WritePod(u) ==
  LET p == Current(u).pod IN
  /\ up /\ updater[u].at = "pod"
  /\ \/ /\ StillCurrent(pod[p], updater[u].copy.rv)
        /\ pod' = [pod EXCEPT ![p] = Stored(pod[p], updater[u].copy)]
        /\ Become(u, [updater[u] EXCEPT !.at = "scale"])
        /\ UNCHANGED budget
     \/ /\ ~StillCurrent(pod[p], updater[u].copy.rv)
        /\ Become(u, Requeueing(u))
        /\ UNCHANGED <<pod, budget>>
     \/ /\ Spend("faults")
        /\ Become(u, Requeueing(u))
        /\ \/ UNCHANGED pod
           \/ /\ StillCurrent(pod[p], updater[u].copy.rv)
              /\ pod' = [pod EXCEPT ![p] = Stored(pod[p], updater[u].copy)]
  /\ UNCHANGED <<scale, caches, contentionManagerOut>>

(* The real update of the PodScale. *)
WriteScale(u) ==
  LET e == Current(u)
      p == e.pod
      new == [rv |-> e.base, desired |-> e.desired, actual |-> e.actual]
  IN
  /\ up /\ updater[u].at = "scale"
  /\ \/ /\ StillCurrent(scale[p], e.base)
        /\ scale' = [scale EXCEPT ![p] = Stored(scale[p], new)]
        /\ Become(u, NextEntry(u))
        /\ UNCHANGED budget
     \/ /\ ~StillCurrent(scale[p], e.base)
        /\ Become(u, Requeueing(u))
        /\ UNCHANGED <<scale, budget>>
     \/ /\ Spend("faults")
        /\ Become(u, Requeueing(u))
        /\ \/ UNCHANGED scale
           \/ /\ StillCurrent(scale[p], e.base)
              /\ scale' = [scale EXCEPT ![p] = Stored(scale[p], new)]
  /\ UNCHANGED <<pod, caches, contentionManagerOut>>

(* Variant: the message is not put back after a failed update. *)
DropMessage(u) ==
  /\ up /\ updater[u].at = "requeue"
  /\ Become(u, Idle)
  /\ UNCHANGED <<api, caches, contentionManagerOut, budget>>

(* c.in <- nodeScale: the unchanged message goes to the end of the channel *)
(* the updaters themselves drain.                                          *)
Requeue(u) ==
  /\ up /\ updater[u].at = "requeue"
  /\ Len(contentionManagerOut) < ChannelCap
  /\ contentionManagerOut' = Append(contentionManagerOut, updater[u].message)
  /\ Become(u, Idle)
  /\ UNCHANGED <<api, caches, budget>>

----------------------------------------------------------------------------
(* The process as a whole: a panic in any goroutine, or a crash, loses the *)
(* queue, both channels and every worker's state; the restarted process    *)
(* fills its caches before the workers start.                              *)

Stopped ==
  /\ up' = FALSE
  /\ nodeQueue' = {}
  /\ recommender' = [r \in Recommenders |-> None]
  /\ manager' = [m \in Managers |-> None]
  /\ updater' = [u \in Updaters |-> Idle]
  /\ recommenderOut' = <<>>
  /\ contentionManagerOut' = <<>>

Panic(m) ==
  /\ up /\ manager[m] = None
  /\ recommenderOut # <<>>
  /\ Head(recommenderOut).nil \/ Allocatable(Head(recommenderOut)) < 0
  /\ Stopped
  /\ UNCHANGED <<api, caches, budget>>

Crash ==
  /\ up /\ Spend("crashes")
  /\ Stopped
  /\ UNCHANGED <<api, caches>>

Restart ==
  /\ ~up
  /\ up' = TRUE
  /\ podCache' = pod
  /\ scaleCache' = scale
  /\ UNCHANGED <<api, nodeQueue, recommender, recommenderOut, manager,
                 contentionManagerOut, updater, budget>>

----------------------------------------------------------------------------
(* Informers: a cache takes over the API server's object. *)

SyncPod(p) ==
  /\ up /\ podCache[p] # pod[p]
  /\ podCache' = [podCache EXCEPT ![p] = pod[p]]
  /\ UNCHANGED <<api, scaleCache, process, budget>>

SyncScale(p) ==
  /\ up /\ scaleCache[p] # scale[p]
  /\ scaleCache' = [scaleCache EXCEPT ![p] = scale[p]]
  /\ UNCHANGED <<api, podCache, process, budget>>

----------------------------------------------------------------------------
(* Other writers. *)

Patch(p, new) == pod' = [pod EXCEPT ![p] = Stored(pod[p], new)]

(* The kubelet reports status: the version moves, nothing else. *)
TouchPod(p) ==
  /\ pod[p] # None
  /\ Spend("touches")
  /\ pod' = [pod EXCEPT ![p].rv = @ + 1]
  /\ UNCHANGED <<scale, caches, process>>

(* KVerSca20 patches label or size, without a version.  vscale_to_zero: the *)
(* label, then the size; vscale_from_zero: the size, then the label; and the *)
(* thread behind the timer the size once more.  A patch that fails is left  *)
(* at that and a restarted sidecar goes by the size it finds, so the Pod may *)
(* see the patches in any order.  KVerSca20 models what calls them.         *)
SidecarPatch(p) ==
  /\ p \in Sidecars /\ pod[p] # None
  /\ Spend("patches")
  /\ \/ \E label \in {"VerSca20", "Kosmos"} : Patch(p, [pod[p] EXCEPT !.label = label])
     \/ \E size \in {ZeroSize, Requests[p]} : Patch(p, [pod[p] EXCEPT !.size = size])
  /\ UNCHANGED <<scale, caches, process>>

(* A Pod is deleted; its PodScale follows (podscale-controller), or goes   *)
(* first when the SLA is deleted.                                          *)
RemovePod(p) ==
  /\ pod[p] # None
  /\ Spend("removals")
  /\ pod' = [pod EXCEPT ![p] = None]
  /\ UNCHANGED <<scale, caches, process>>

RemoveScale(p) ==
  /\ scale[p] # None
  /\ Spend("removals")
  /\ scale' = [scale EXCEPT ![p] = None]
  /\ UNCHANGED <<pod, caches, process>>

----------------------------------------------------------------------------
(* NewPodScale takes the amounts of a PodScale from the SLA, whatever its   *)
(* Pod was created with.                                                   *)
Init ==
  /\ pod = [p \in Pods |-> [rv |-> 1, label |-> "Kosmos", size |-> Requests[p]]]
  /\ scale = [p \in Pods |-> [rv |-> 1, desired |-> Default, actual |-> Default]]
  /\ podCache = pod
  /\ scaleCache = scale
  /\ up = TRUE
  /\ nodeQueue = {}
  /\ recommender = [r \in Recommenders |-> None]
  /\ recommenderOut = <<>>
  /\ manager = [m \in Managers |-> None]
  /\ contentionManagerOut = <<>>
  /\ updater = [u \in Updaters |-> Idle]
  /\ budget = Limits

RecommenderStep(r) == RecommendNode(r) \/ SendRecommendation(r)
ManagerStep(m)     == ManageNode(m) \/ SendSolution(m) \/ Panic(m)
UpdaterStep(u)     == TakeMessage(u) \/ PrepareEntry(u) \/ DryRun(u)
                        \/ WritePod(u) \/ WriteScale(u) \/ Requeue(u)

ProcessStep ==
  \/ \E n \in Nodes : EnqueueNode(n)
  \/ \E r \in Recommenders : RecommenderStep(r)
  \/ \E m \in Managers : ManagerStep(m)
  \/ \E u \in Updaters : UpdaterStep(u)
  \/ Crash \/ Restart

EnvironmentStep ==
  \E p \in Pods : \/ SyncPod(p) \/ SyncScale(p) \/ TouchPod(p) \/ SidecarPatch(p)
                  \/ RemovePod(p) \/ RemoveScale(p)

Next == ProcessStep \/ EnvironmentStep

Spec == Init /\ [][Next]_vars

(* Every goroutine that can run does, the watch delivers every event, and   *)
(* a stopped process is restarted by its Deployment.                        *)
Fairness ==
  /\ \A r \in Recommenders : WF_vars(RecommenderStep(r))
  /\ \A m \in Managers : WF_vars(ManagerStep(m))
  /\ \A u \in Updaters : WF_vars(UpdaterStep(u))
  /\ \A p \in Pods : WF_vars(SyncPod(p)) /\ WF_vars(SyncScale(p))
  /\ WF_vars(Restart)

FairSpec == Spec /\ Fairness

----------------------------------------------------------------------------
(* Properties. *)

InFlight ==
  {recommender[r] : r \in {r \in Recommenders : recommender[r] # None}}
    \cup {recommenderOut[k] : k \in DOMAIN recommenderOut}
    \cup {manager[m] : m \in {m \in Managers : manager[m] # None}}
    \cup {contentionManagerOut[k] : k \in DOMAIN contentionManagerOut}
    \cup {updater[u].message : u \in {u \in Updaters : updater[u] # Idle}}

SolvedMessages ==
  {manager[m] : m \in {m \in Managers : manager[m] # None}}
    \cup {contentionManagerOut[k] : k \in DOMAIN contentionManagerOut}
    \cup {updater[u].message : u \in {u \in Updaters : updater[u] # Idle}}

TypeOK ==
  /\ pod \in [Pods -> PodObject \cup {None}]
  /\ scale \in [Pods -> ScaleObject \cup {None}]
  /\ podCache \in [Pods -> PodObject \cup {None}]
  /\ scaleCache \in [Pods -> ScaleObject \cup {None}]
  /\ up \in BOOLEAN
  /\ nodeQueue \subseteq Nodes
  /\ recommender \in [Recommenders -> Message \cup {None}]
  /\ recommenderOut \in Seq(Message)
  /\ manager \in [Managers -> Message \cup {None}]
  /\ contentionManagerOut \in Seq(Message)
  /\ updater \in [Updaters -> UpdaterState]
  /\ budget \in [Kinds -> Nat]

(* The limit that computeCPUResource puts on one step -- at most half as    *)
(* much again, or MinResources -- holds between successive versions of the  *)
(* stored PodScale, whatever lag the cache had, however often the message   *)
(* was put back and whichever updater overtook another (recommender/        *)
(* logic.go 111-118, resource updater 170-206).                             *)
GrowthLimited ==
  [][\A p \in Pods :
       scale[p] # None /\ scale'[p] # None =>
         scale'[p].actual <= Larger((3 * scale[p].actual) \div 2, Lower)]_vars

(* While a Pod is labelled "VerSca20", by its sidecar or by a patch that was *)
(* lost half way, no updater changes that Pod, although the updaters read    *)
(* the label from the cache and write the whole Pod (resource updater 143-  *)
(* 152).                                                                    *)
SidecarUndisturbed ==
  [][(\E u \in Updaters : UpdaterStep(u)) =>
       \A p \in Pods : pod[p] # None /\ pod[p].label = "VerSca20" => pod'[p] = pod[p]]_vars

(* Seen from the API server, the queues, caches, workers, retries, panics   *)
(* and crashes of the process come down to the few steps of PodScaleStore.  *)
Store == INSTANCE PodScaleStore WITH pod <- pod, scale <- scale

(* The pipeline implements PodScaleStore: whatever races, is retried or     *)
(* lost, each step it takes on the API server is one the others may rely    *)
(* on (recommender/logic.go 111-118, contention manager logic.go 91-142,    *)
(* resource updater 123-206).                                               *)
StoreImplemented == Store!Spec

(* Every message behind the contention manager fits its node as a whole,    *)
(* also the ones that are put back and retried (contention manager logic.go *)
(* 91-142).                                                                 *)
SharesFit ==
  \A message \in SolvedMessages :
    Total(Actual(message.entries)) <= Capacity[message.node]

(* A Pod and its PodScale that no updater has written yet. *)
AsCreated(p) == pod[p].size = Requests[p] /\ scale[p].rv = 1

(* A message that is still to be applied, or applied again, would give the  *)
(* PodScale what the Pod has.                                               *)
ToBeRecorded(p) ==
  \E message \in SolvedMessages : \E k \in DOMAIN message.entries :
    LET e == message.entries[k] IN
    e.pod = p /\ e.base = scale[p].rv /\ e.actual = pod[p].size

(* The comment on AtomicResourceUpdate (resource updater 168): a Pod and    *)
(* its PodScale are kept synchronized.  Once an updater has resized the Pod *)
(* the two differ only as long as a message, in some worker or put back     *)
(* after a failed call, can still make up for it.                           *)
Synchronized ==
  \A p \in Pods :
    pod[p] # None /\ scale[p] # None /\ pod[p].size # scale[p].actual =>
      AsCreated(p) \/ ToBeRecorded(p)

(* What carries GrowthLimited: neither cache nor message is ever ahead of   *)
(* the stored PodScale, and one of the same version knows its content.      *)
EntrySound(e) ==
  scale[e.pod] # None =>
    /\ e.base <= scale[e.pod].rv
    /\ e.base = scale[e.pod].rv => 2 * e.desired <= 3 * scale[e.pod].actual

VersionsSound ==
  /\ \A p \in Pods :
       scale[p] # None /\ scaleCache[p] # None =>
         /\ scaleCache[p].rv <= scale[p].rv
         /\ scaleCache[p].rv = scale[p].rv => scaleCache[p] = scale[p]
  /\ \A message \in InFlight : \A k \in DOMAIN message.entries :
       EntrySound(message.entries[k])

(* processNextNode adjusts all the Pods of a node according to its capacity *)
(* (contention manager logic.go 144-146).  Messages computed from different *)
(* versions are applied entry by entry, in any order and after any number   *)
(* of conflicts; when nothing is left to do, the sizes the Pods ended up    *)
(* with fit the node together.                                              *)
AtRest ==
  /\ InFlight = {} /\ nodeQueue = {}
  /\ budget.rounds = 0

NodeFits ==
  AtRest => \A n \in Nodes : Used(Running(n)) <= Capacity[n]

(* The process runs on: a node that is short of resources, or a Pod without *)
(* the container of its SLA, is reported as an error (contention manager    *)
(* logic.go 78, recommender logic.go 131-139) and goes no further.          *)
NoPanic == up

(* The first entry of a message that has left the recommender is worth      *)
(* applying: it was made from the stored version and would change it.       *)
FreshHead(p, version) ==
  /\ scale[p] # None /\ scale[p].rv = version
  /\ \E k \in DOMAIN contentionManagerOut :
       LET entries == contentionManagerOut[k].entries IN
       /\ entries # <<>> /\ entries[1].pod = p
       /\ entries[1].base = version
       /\ entries[1].desired # scale[p].desired
       /\ entries[1].actual > 0

(* Such an entry is not lost to a version conflict on the Pod, nor behind a *)
(* message that can never succeed: the PodScale moves on (resource updater  *)
(* 126-155).                                                                *)
FreshHeadLands ==
  \A p \in Pods, version \in Versions :
    FreshHead(p, version) ~> (scale[p] = None \/ scale[p].rv > version)

(* The channel is used as a work queue (resource updater 151): putting a    *)
(* message back always succeeds in the end.                                 *)
RequeueCompletes ==
  \A u \in Updaters : updater[u].at = "requeue" ~> updater[u].at # "requeue"
=============================================================================
