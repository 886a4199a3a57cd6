------------------------- MODULE PodScaleController -------------------------
(***************************************************************************)
(* The PodScale controller (pkg/podscale-controller): workers take the keys*)
(* of ServiceLevelAgreements (SLAs) from a work queue and make the         *)
(* PodScales of a namespace follow the Pods of the Services that the SLA   *)
(* matches (sync.go, handler.go, utils.go; the queue is pkg/queue).        *)
(*                                                                         *)
(* External: the API server, which accepts an Update of a Service only for *)
(* its current resourceVersion; the informer caches, which lag behind it;  *)
(* the garbage collector; the users, who deploy and change SLAs, Services  *)
(* and Pods.  A PodScale is named after its Pod.  An SLA is the set of the *)
(* Services that its selector matches; labels are model values.            *)
(***************************************************************************)
EXTENDS Integers, FiniteSets

CONSTANTS
  SLAs, Services, Pods, Nodes, Workers,
  Labels,          \* the label pairs that Pods carry and Services select
  Selector,        \* Spec.Selector of each Service
  PodLabels,       \* the labels of each Pod
  Unsupported,     \* Pods that are not Guaranteed or lack the SLA's container
  Clusters,        \* what may exist when the controller starts, and how many
                   \* changes, faults and crashes may occur then
  None

Kinds == {"selectors", "touches", "pods", "faults", "crashes", "removals"}

ASSUME LabelAssumption ==
  /\ Selector \in [Services -> SUBSET Labels]
  /\ PodLabels \in [Pods -> SUBSET Labels]
ASSUME StartAssumption ==
  /\ Clusters \subseteq [match    : [SLAs -> (SUBSET Services) \cup {None}],
                         services : SUBSET Services,
                         pods     : SUBSET Pods,
                         limits   : [Kinds -> Nat]]
  /\ Unsupported \subseteq Pods
  /\ None \notin SLAs /\ None \notin Nodes

VARIABLES
  sla, service, pod, podScale,       \* the API server's objects
  slaCache, serviceCache, podCache, scaleCache,    \* the informers' copies
  up,              \* the process runs
  queue,           \* keys of SLAs to be synced
  worker,          \* what each worker has read and has still to do
  budget

objects == <<sla, service, pod, podScale>>
caches  == <<slaCache, serviceCache, podCache, scaleCache>>
process == <<up, queue, worker>>
vars    == <<objects, caches, process, budget>>

----------------------------------------------------------------------------
(* Data. *)

ServiceObject == [rv : Nat \ {0}, subject : SLAs \cup {None}]
PodObject     == [node : Nodes \cup {None}]
PodScaleObject ==
  [sla : SLAs, owner : SLAs, labels : SUBSET Labels, node : Nodes \cup {None}]

(* A pointer to a Service in the cache: an event replaces the object, so   *)
(* two pointers are equal when Service and version are.                    *)
Pointer == [name : Services, rv : Nat \ {0}]

Idle == [at |-> "idle"]
WorkerState ==
  {Idle}
  \cup [at : {"tracked", "next", "converge", "update", "sweep"},
        key : SLAs,
        left : SUBSET Pointer,       \* the desired Services still to visit
        dropped : SUBSET Pointer,    \* tracked Services that are not desired
        current : Pointer \cup {None},
        add : [Pods -> PodScaleObject \cup {None}],      \* what AddList creates
        delete : SUBSET Pods]                            \* the PodScales to delete

Nothing == [p \in Pods |-> None]

Spend(kind) ==
  /\ budget[kind] > 0
  /\ budget' = [budget EXCEPT ![kind] = @ - 1]

Become(w, state) == worker' = [worker EXCEPT ![w] = state]

Point(s) == [name |-> s, rv |-> serviceCache[s].rv]
Cached(S) == {s \in S : serviceCache[s] # None}

(* What the listers of Pods and PodScales return for a selector. *)
SelectedPods(s)   == {p \in Pods : podCache[p] # None /\ Selector[s] \subseteq PodLabels[p]}
SelectedScales(s) == {p \in Pods : scaleCache[p] # None /\ Selector[s] \subseteq scaleCache[p].labels}

(* Variant: the PodScale is created without an owner reference. *)
UnownedPodScale(p, a, s) ==
  [sla |-> a, owner |-> None, labels |-> Selector[s], node |-> podCache[p].node]

(* Spec.SLA and the OwnerReference name the SLA; the labels are the selector *)
(* of the Service and the node of the Pod as cached.                       *)
NewPodScale(p, a, s) ==
  [sla |-> a, owner |-> a, labels |-> Selector[s], node |-> podCache[p].node]

----------------------------------------------------------------------------
(* syncServiceLevelAgreement: reading the caches. *)

(* ProcessNextItem: the queue hands a key to one worker at a time, to any   *)
(* idle one: workers keep nothing between keys, so it may be a fixed one of *)
(* them.  An SLA that is not cached is left to the garbage collector;      *)
(* otherwise the Services that its selector matches are listed.            *)
TakeKey(w, a) ==
  /\ up /\ worker[w] = Idle /\ w = CHOOSE v \in Workers : worker[v] = Idle
  /\ a \in queue
  /\ \A v \in Workers : worker[v] # Idle => worker[v].key # a
  /\ queue' = queue \ {a}
  /\ IF slaCache[a] = None
     THEN UNCHANGED worker
     ELSE Become(w, [at |-> "tracked", key |-> a,
                     left |-> {Point(s) : s \in Cached(slaCache[a])}, dropped |-> {},
                     current |-> None, add |-> Nothing, delete |-> {}])
  /\ UNCHANGED <<objects, caches, up, budget>>

(* Variant: every tracked Service is cleaned up, the desired ones too. *)
ListTrackedAll(w) ==
  LET a       == worker[w].key
      tracked == {Point(s) : s \in {s \in Cached(Services) : serviceCache[s].subject = a}}
  IN
  /\ up /\ worker[w].at = "tracked"
  /\ Become(w, [worker[w] EXCEPT !.at = "next", !.dropped = tracked])
  /\ UNCHANGED <<objects, caches, up, queue, budget>>

(* A second list: the Services that carry the SLA's label.  The two lists   *)
(* are compared by pointer.                                                *)
ListTracked(w) ==
  LET a       == worker[w].key
      tracked == {Point(s) : s \in {s \in Cached(Services) : serviceCache[s].subject = a}}
  IN
  /\ up /\ worker[w].at = "tracked"
  /\ Become(w, [worker[w] EXCEPT !.at = "next", !.dropped = tracked \ worker[w].left])
  /\ UNCHANGED <<objects, caches, up, queue, budget>>

(* syncService: DiffPods of the cached Pods and PodScales of one Service. *)
VisitService(w) ==
  /\ up /\ worker[w].at = "next"
  /\ \E x \in worker[w].left :
       LET pods   == SelectedPods(x.name)
           scales == SelectedScales(x.name)
           adds   == (pods \ scales) \ Unsupported
       IN  Become(w, [worker[w] EXCEPT
             !.at = "converge",
             !.left = @ \ {x},
             !.current = x,
             !.add = [p \in Pods |-> IF p \in adds THEN NewPodScale(p, worker[w].key, x.name) ELSE None],
             !.delete = scales \ pods])
  /\ UNCHANGED <<objects, caches, up, queue, budget>>

----------------------------------------------------------------------------
(* syncServiceLevelAgreement: writing.  Every error ends what it is part of *)
(* without an error for the queue, so no key is ever put back.             *)

Create(p, new) == podScale' = [podScale EXCEPT ![p] = new]
Delete(p) == podScale' = [podScale EXCEPT ![p] = None]

(* A PodScale that exists already is kept; another error ends syncService. *)
CreatePodScale(w) ==
  /\ up /\ worker[w].at = "converge"
  /\ \E p \in {p \in Pods : worker[w].add[p] # None} :
       \/ /\ IF podScale[p] = None THEN Create(p, worker[w].add[p]) ELSE UNCHANGED podScale
          /\ Become(w, [worker[w] EXCEPT !.add[p] = None])
          /\ UNCHANGED budget
       \/ /\ Spend("faults")
          /\ UNCHANGED podScale \/ (podScale[p] = None /\ Create(p, worker[w].add[p]))
          /\ Become(w, [worker[w] EXCEPT !.add = Nothing, !.delete = {}])
  /\ UNCHANGED <<sla, service, pod, caches, up, queue>>

(* Once the AddList is done, the DeleteList; NotFound is an error too. *)
DeletePodScale(w) ==
  /\ up /\ worker[w].at = "converge" /\ worker[w].add = Nothing
  /\ \E p \in worker[w].delete :
       \/ /\ podScale[p] # None
          /\ Delete(p)
          /\ Become(w, [worker[w] EXCEPT !.delete = @ \ {p}])
          /\ UNCHANGED budget
       \/ /\ podScale[p] = None
          /\ Become(w, [worker[w] EXCEPT !.delete = {}])
          /\ UNCHANGED <<podScale, budget>>
       \/ /\ Spend("faults")
          /\ UNCHANGED podScale \/ Delete(p)
          /\ Become(w, [worker[w] EXCEPT !.delete = {}])
  /\ UNCHANGED <<sla, service, pod, caches, up, queue>>

(* Variant: a Service that carries the label already is not written again. *)
MarkUnmarked(w) ==
  LET x == worker[w].current IN
  /\ up /\ worker[w].at = "converge"
  /\ worker[w].add = Nothing /\ worker[w].delete = {}
  /\ IF serviceCache[x.name] # None /\ Point(x.name) = x
     THEN IF serviceCache[x.name].subject = worker[w].key
          THEN /\ Become(w, [worker[w] EXCEPT !.at = "next", !.current = None])
               /\ UNCHANGED serviceCache
          ELSE /\ Become(w, [worker[w] EXCEPT !.at = "update"])
               /\ serviceCache' = [serviceCache EXCEPT ![x.name].subject = worker[w].key]
     ELSE /\ Become(w, [worker[w] EXCEPT !.at = "update"])
          /\ UNCHANGED serviceCache
  /\ UNCHANGED <<objects, slaCache, podCache, scaleCache, up, queue, budget>>

(* service.Labels[SubjectToLabel] = ... on the object of the lister, which  *)
(* is the cached one unless an event has replaced it.                      *)
MarkService(w) ==
  LET x == worker[w].current IN
  /\ up /\ worker[w].at = "converge"
  /\ worker[w].add = Nothing /\ worker[w].delete = {}
  /\ IF serviceCache[x.name] # None /\ Point(x.name) = x
     THEN serviceCache' = [serviceCache EXCEPT ![x.name].subject = worker[w].key]
     ELSE UNCHANGED serviceCache
  /\ Become(w, [worker[w] EXCEPT !.at = "update"])
  /\ UNCHANGED <<objects, slaCache, podCache, scaleCache, up, queue, budget>>

(* The label that the object carries by the time it is sent: workers that   *)
(* hold the same pointer share its map.  (Go may also stop the process when*)
(* it sees two of them write it at once: Crash.)                           *)
Sent(x) ==
  IF serviceCache[x.name] # None /\ Point(x.name) = x
  THEN {serviceCache[x.name].subject}
  ELSE {worker[v].key : v \in {v \in Workers : worker[v].at = "update" /\ worker[v].current = x}}

Label(x) ==
  \E a \in Sent(x) :
    service' = [service EXCEPT ![x.name] = IF @.subject = a THEN @
                                           ELSE [rv |-> @.rv + 1, subject |-> a]]

(* Services().Update: an error ends the sync, the other Services of the    *)
(* SLA and the cleanup included.                                           *)
UpdateService(w) ==
  LET x       == worker[w].current
      current == service[x.name] # None /\ service[x.name].rv = x.rv
  IN
  /\ up /\ worker[w].at = "update"
  /\ \/ /\ current
        /\ Label(x)
        /\ Become(w, [worker[w] EXCEPT !.at = "next", !.current = None])
        /\ UNCHANGED budget
     \/ /\ ~current
        /\ Become(w, Idle)
        /\ UNCHANGED <<service, budget>>
     \/ /\ Spend("faults")
        /\ UNCHANGED service \/ (current /\ Label(x))
        /\ Become(w, Idle)
  /\ UNCHANGED <<sla, pod, podScale, caches, up, queue>>

(* handleServiceSelectorChange: the PodScales of one Service that is       *)
(* tracked but not desired.                                                *)
DropService(w) ==
  /\ up /\ worker[w].at = "next" /\ worker[w].left = {}
  /\ \E x \in worker[w].dropped :
       Become(w, [worker[w] EXCEPT !.at = "sweep", !.dropped = @ \ {x},
                                   !.delete = SelectedScales(x.name)])
  /\ UNCHANGED <<objects, caches, up, queue, budget>>

SweepPodScale(w) ==
  /\ up /\ worker[w].at = "sweep"
  /\ \E p \in worker[w].delete :
       \/ /\ podScale[p] # None
          /\ Delete(p)
          /\ Become(w, [worker[w] EXCEPT !.delete = @ \ {p}])
          /\ UNCHANGED budget
       \/ /\ podScale[p] = None
          /\ Become(w, Idle)
          /\ UNCHANGED <<podScale, budget>>
       \/ /\ Spend("faults")
          /\ UNCHANGED podScale \/ Delete(p)
          /\ Become(w, Idle)
  /\ UNCHANGED <<sla, service, pod, caches, up, queue>>

SweepNext(w) ==
  /\ up /\ worker[w].at = "sweep" /\ worker[w].delete = {}
  /\ Become(w, [worker[w] EXCEPT !.at = "next"])
  /\ UNCHANGED <<objects, caches, up, queue, budget>>

(* The sync ends and the queue forgets the key. *)
Forget(w) ==
  /\ up /\ worker[w].at = "next"
  /\ worker[w].left = {} /\ worker[w].dropped = {}
  /\ Become(w, Idle)
  /\ UNCHANGED <<objects, caches, up, queue, budget>>

----------------------------------------------------------------------------
(* The process: its informers and its end. *)

(* Add, Update and Delete handlers of the SLA informer enqueue the key. *)
SyncSLA(a) ==
  /\ up /\ slaCache[a] # sla[a]
  /\ slaCache' = [slaCache EXCEPT ![a] = sla[a]]
  /\ queue' = queue \cup {a}
  /\ UNCHANGED <<objects, serviceCache, podCache, scaleCache, up, worker, budget>>

(* Variant: an update event without a change is ignored. *)
ResyncIfChanged(a) ==
  /\ up /\ slaCache[a] # None /\ a \notin queue
  /\ slaCache[a] # sla[a]
  /\ queue' = queue \cup {a}
  /\ UNCHANGED <<objects, caches, up, worker, budget>>

(* The informer's resync, every 30 seconds, calls the Update handler.       *)
(* Bound: not while the event of a change is still on its way; that event  *)
(* enqueues the key anyway, and two SLAs of which one is outdated would    *)
(* take turns in labelling a Service without end.                          *)
Resync(a) ==
  /\ up /\ slaCache[a] # None /\ a \notin queue
  /\ slaCache[a] = sla[a]
  /\ queue' = queue \cup {a}
  /\ UNCHANGED <<objects, caches, up, worker, budget>>

(* An event is delivered for a new version only: what a worker wrote into   *)
(* the cached object stays until then.                                     *)
Version(object) == IF object = None THEN 0 ELSE object.rv

SyncService(s) ==
  /\ up /\ Version(serviceCache[s]) # Version(service[s])
  /\ serviceCache' = [serviceCache EXCEPT ![s] = service[s]]
  /\ UNCHANGED <<objects, slaCache, podCache, scaleCache, process, budget>>

SyncPod(p) ==
  /\ up /\ podCache[p] # pod[p]
  /\ podCache' = [podCache EXCEPT ![p] = pod[p]]
  /\ UNCHANGED <<objects, slaCache, serviceCache, scaleCache, process, budget>>

SyncScale(p) ==
  /\ up /\ scaleCache[p] # podScale[p]
  /\ scaleCache' = [scaleCache EXCEPT ![p] = podScale[p]]
  /\ UNCHANGED <<objects, slaCache, serviceCache, podCache, process, budget>>

Crash ==
  /\ up /\ Spend("crashes")
  /\ up' = FALSE
  /\ queue' = {}
  /\ worker' = [w \in Workers |-> Idle]
  /\ UNCHANGED <<objects, caches>>

(* The caches are filled before the workers start; each SLA is added. *)
Start ==
  /\ ~up
  /\ up' = TRUE
  /\ slaCache' = sla /\ serviceCache' = service
  /\ podCache' = pod /\ scaleCache' = podScale
  /\ queue' = {a \in SLAs : sla[a] # None}
  /\ UNCHANGED <<objects, worker, budget>>

----------------------------------------------------------------------------
(* The cluster. *)

(* PodScales of an SLA that is gone are deleted (OwnerReferences). *)
CollectGarbage(p) ==
  /\ podScale[p] # None
  /\ podScale[p].owner # None /\ sla[podScale[p].owner] = None
  /\ Delete(p)
  /\ UNCHANGED <<sla, service, pod, caches, process, budget>>

(* The users keep the selectors apart: a Service that two SLAs match is a   *)
(* case the code leaves open (sync.go 64-71).                              *)
Apart(match) == \A a, b \in SLAs :
  a # b /\ match[a] # None /\ match[b] # None => match[a] \cap match[b] = {}

(* The Services there are, or were until lately. *)
Known == {s \in Services : service[s] # None \/ serviceCache[s] # None}

Reselect(a) ==
  /\ sla[a] # None
  /\ Spend("selectors")
  /\ \E match \in SUBSET Known : sla' = [sla EXCEPT ![a] = match]
  /\ Apart(sla')
  /\ UNCHANGED <<service, pod, podScale, caches, process>>

RemoveSLA(a) ==
  /\ sla[a] # None
  /\ Spend("removals")
  /\ sla' = [sla EXCEPT ![a] = None]
  /\ UNCHANGED <<service, pod, podScale, caches, process>>

RemoveService(s) ==
  /\ service[s] # None
  /\ Spend("removals")
  /\ service' = [service EXCEPT ![s] = None]
  /\ UNCHANGED <<sla, pod, podScale, caches, process>>

(* Anybody else writes the Service. *)
TouchService(s) ==
  /\ service[s] # None
  /\ Spend("touches")
  /\ service' = [service EXCEPT ![s].rv = @ + 1]
  /\ UNCHANGED <<sla, pod, podScale, caches, process>>

(* A Pod is created without a node and bound to one by the scheduler. *)
CreatePod(p) ==
  /\ pod[p] = None
  /\ Spend("pods")
  /\ pod' = [pod EXCEPT ![p] = [node |-> None]]
  /\ UNCHANGED <<sla, service, podScale, caches, process>>

BindPod(p) ==
  /\ pod[p] # None /\ pod[p].node = None
  /\ \E n \in Nodes : pod' = [pod EXCEPT ![p].node = n]
  /\ UNCHANGED <<sla, service, podScale, caches, process, budget>>

RemovePod(p) ==
  /\ pod[p] # None
  /\ Spend("pods")
  /\ pod' = [pod EXCEPT ![p] = None]
  /\ UNCHANGED <<sla, service, podScale, caches, process>>

----------------------------------------------------------------------------
Init ==
  /\ \E c \in Clusters :
       /\ sla = c.match
       /\ service = [s \in Services |-> IF s \in c.services THEN [rv |-> 1, subject |-> None] ELSE None]
       /\ \E node \in [c.pods -> Nodes] :
            pod = [p \in Pods |-> IF p \in c.pods THEN [node |-> node[p]] ELSE None]
       /\ budget = c.limits
  /\ podScale = Nothing
  /\ slaCache = [a \in SLAs |-> None]
  /\ serviceCache = [s \in Services |-> None]
  /\ podCache = Nothing
  /\ scaleCache = Nothing
  /\ up = FALSE
  /\ queue = {}
  /\ worker = [w \in Workers |-> Idle]

SyncStep(w) ==
  \/ ListTracked(w) \/ VisitService(w) \/ CreatePodScale(w) \/ DeletePodScale(w)
  \/ MarkService(w) \/ UpdateService(w) \/ DropService(w) \/ SweepPodScale(w)
  \/ SweepNext(w) \/ Forget(w)

Next ==
  \/ \E w \in Workers : SyncStep(w) \/ \E a \in SLAs : TakeKey(w, a)
  \/ \E a \in SLAs : SyncSLA(a) \/ Resync(a) \/ Reselect(a) \/ RemoveSLA(a)
  \/ \E s \in Services : SyncService(s) \/ TouchService(s) \/ RemoveService(s)
  \/ \E p \in Pods : \/ SyncPod(p) \/ SyncScale(p) \/ CollectGarbage(p)
                     \/ CreatePod(p) \/ BindPod(p) \/ RemovePod(p)
  \/ Crash \/ Start

Spec == Init /\ [][Next]_vars

(* Workers go on, the queue is first in, first out, watches and resyncs     *)
(* happen, the garbage collector and the scheduler do their work, and a    *)
(* stopped process is started again.                                       *)
Fairness ==
  /\ \A w \in Workers : WF_vars(SyncStep(w))
  /\ \A a \in SLAs : WF_vars(\E w \in Workers : TakeKey(w, a))
  /\ \A a \in SLAs : WF_vars(SyncSLA(a)) /\ WF_vars(Resync(a))
  /\ \A s \in Services : WF_vars(SyncService(s))
  /\ \A p \in Pods : /\ WF_vars(SyncPod(p)) /\ WF_vars(SyncScale(p))
                     /\ WF_vars(CollectGarbage(p)) /\ WF_vars(BindPod(p))
  /\ WF_vars(Start)

FairSpec == Spec /\ Fairness

----------------------------------------------------------------------------
(* Properties. *)

TypeOK ==
  /\ sla \in [SLAs -> (SUBSET Services) \cup {None}]
  /\ service \in [Services -> ServiceObject \cup {None}]
  /\ pod \in [Pods -> PodObject \cup {None}]
  /\ podScale \in [Pods -> PodScaleObject \cup {None}]
  /\ slaCache \in [SLAs -> (SUBSET Services) \cup {None}]
  /\ serviceCache \in [Services -> ServiceObject \cup {None}]
  /\ podCache \in [Pods -> PodObject \cup {None}]
  /\ scaleCache \in [Pods -> PodScaleObject \cup {None}]
  /\ up \in BOOLEAN
  /\ queue \subseteq SLAs
  /\ worker \in [Workers -> WorkerState]
  /\ budget \in [Kinds -> Nat]

(* The Services an SLA matches, and the Pods that are to have a PodScale. *)
Matches(a, s) == sla[a] # None /\ service[s] # None /\ s \in sla[a]
Wanted(p) ==
  /\ pod[p] # None /\ p \notin Unsupported
  /\ \E a \in SLAs, s \in Services : Matches(a, s) /\ Selector[s] \subseteq PodLabels[p]

(* Once nobody changes anything any more, every Pod that an SLA covers has  *)
(* its PodScale: errors are never put back on the queue, deletions are     *)
(* decided on stale caches and by comparing pointers, an old SLA may still *)
(* sweep what a new one creates, and a sync stops at the first error; the  *)
(* resync has to repair it all (sync.go 19-187).                           *)
WantedScaled == <>[](\A p \in Pods : Wanted(p) => podScale[p] # None)

(* The Service ends up with the label of the SLA that matches it, although *)
(* the label is written into the shared cached object before the API       *)
(* server accepts it (sync.go 82-89).                                      *)
SubjectsSettle == <>[](\A a \in SLAs, s \in Services : Matches(a, s) => service[s].subject = a)

(* All the PodScales generated from an SLA are deleted with it              *)
(* (pkg/podscale-controller/README.md 9), also those that a running sync   *)
(* creates after the deletion (sync.go 34-38, 209-216).                    *)
CleansUp == <>[](\A p \in Pods : podScale[p] # None => sla[podScale[p].sla] # None)

(* The set of PodScales is kept up to date with the Pods                   *)
(* (pkg/podscale-controller/README.md 8): one that no SLA covers any more  *)
(* does not stay.                                                          *)
NoLeftovers == <>[](\A p \in Pods : podScale[p] # None => Wanted(p))
=============================================================================
