# KOSMOS: models and proofs

KOSMOS scales the Pods of Kubernetes applications. It resizes running Pods in place from
response times (`pkg/pod-autoscaler`), changes the number of replicas
(`pkg/pod-replicas-updater`), and puts idle Pods to a minimal size and wakes them again
(`pkg/kversca20`). What is to be scaled is declared in `ServiceLevelAgreement` (SLA)
objects; the `pkg/podscale-controller` turns an SLA into one `PodScale` object per Pod,
which every other part reads or writes.

This directory holds TLA+ models of that code, the TLC configurations that check them,
and TLAPS proofs about them. `PROJECT.json` lists the runs, the source lines of every
definition, the hazards and the theorems.

## 1. The system

    ServiceLevelAgreement --> PodScale controller --> PodScale (one per Pod)
                                                        |   ^
       metrics exposer --> recommender  <---------------+   |
                             | recommenderOut (channel)     |
                           contention manager               |
                             | contentionManagerOut         |
                           resource updater ----------------+--> Pod
                             ^ puts failed messages back         ^
                                                                 |
       clients --> KVerSca20 sidecar (in each Pod) --------------+ label, size

All parts talk through objects of the API server. Readers see informer caches, which lag
behind; writers send the object with the `resourceVersion` they have read (an update
with an old one is refused) or, in the sidecar, a patch without.

| component (source) | state | operations | what makes it correct |
|---|---|---|---|
| Recommender (`pod-autoscaler/pkg/recommender`) | work queue of nodes; per Pod a control law with memory | every 5 s enqueue each node; per node compute one desired amount per PodScale and send one message | at most 1.5 times the current amount, never less than the SLA's minimum, never more than its maximum; computed from a version that the message names; what is measured, not its absence, drives it; the size settles |
| Contention manager (`contention-manager`) | one message at a time | list the node's Pods, take the untracked ones off the capacity, total, share | the shares fit; a cut only if the resource is short; every Pod counted once |
| Resource updater (`pod-resource-updater`) | one message at a time; the channel it also refills | per entry: dry run, write Pod, write PodScale; put the message back on failure | a Pod that was resized and its PodScale agree, or a message is left that makes them; growth stays limited; the sidecar's Pods are left alone; fresh messages land |
| Process (`pod-autoscaler/main.go`) | 4 + 4 + 4 goroutines, two channels of 10000 | start, stop, panic | loses messages, never consistency |
| Work queue (`pkg/queue`) | keys waiting and in work | enqueue, take, forget | a key is in one worker's hands |
| PodScale controller (`podscale-controller`) | queue of SLA keys, 2 workers, 4 caches | sync an SLA: list Services, create and delete PodScales, label the Service, sweep what is no longer selected | covered Pods get a PodScale; Services get their label; nothing is left over |
| Replicas updater (`pod-replicas-updater`) | queue, one worker (`runSLAWorker`), per SLA a `CustomLogic` with a state and two times | every 5 s enqueue each SLA; find its Deployment, compute the replicas, update the Deployment | changes follow sustained load only and leave time to settle, whatever fails; the bounds are restored |
| KVerSca20 sidecar (`kversca20`) | request counts, timer, `to_zero_flag`, the Pod's label and size | proxy; 30 s without requests: to zero; next event: back | the count is that of the reads it counted; not asleep over a counted request |
| Metrics exposer (`metrics-exposer`), HTTP metrics proxy (`http-metrics`) | a map of the last metrics, per Pod and per service; in each proxy a window of requests | once a second ask each proxy, store, average per service; serve the map | no answer is not "idle"; the average lies among the Pods that had requests |

Hard behaviour: the twelve goroutines of the autoscaler race each other on the same
PodScales with stale caches; the updater's two writes are not a transaction and its
failed messages come back later, in another order; two workers and the users change
Services under a PodScale sync that shares its cached objects and swallows every error;
the timer thread of the sidecar races the proxy thread; the exposer writes a map under a
read lock; the replicas updater moves its timers before an update that may fail; and
every process may stop between two writes. Section 4 says which property is about which,
`PROJECT.json` lists the lines.

## 2. Modules

Models, in the order in which they were written (the most important behaviour first):

| module | models | composes |
|---|---|---|
| `Allotment` | the integer arithmetic of totals and bounds | |
| `Sharing` | the proportional share of an entry, with the error of its float operations | `Allotment` |
| `ContentionManager` | one pass of `NewContentionManager` and `Solve`, statement by statement, CPU and memory | `Sharing` |
| `PodAutoscaler` | the whole process: recommender, contention manager and updater workers, channels, API server, caches, sidecar | `Sharing` |
| `PodScaleController` | `syncServiceLevelAgreement` with its queue, caches, users, garbage collector | |
| `KVerSca20` | the sidecar's two threads, its clients and its app | |
| `PodScaleStore` | abstract: what the whole autoscaler may do to Pods and PodScales | `Allotment` |
| `ReplicaPolicy` | abstract: when a Deployment may be rescaled | `Allotment` |
| `ReplicasUpdater` | the pod replicas updater with its queue, `CustomLogic`, conflicts, crashes | `Allotment`, implements `ReplicaPolicy` |
| `MetricsExposer` | the proxies' windows, `updateMetrics`, the cache and its readers (no specification of its own) | `Allotment` |
| `ControlLoop` | proxy, exposer, recommender with both control laws, PodScale, and back | `MetricsExposer` |

`PodAutoscaler` implements `PodScaleStore` (`StoreImplemented`).

Proofs: `AllotmentProofs`, `ContentionManagerProofs`, `PodAutoscalerProofs`,
`PodAutoscalerOutcomes`, `PodScaleControllerProofs`, `KVerSca20Proofs`,
`ReplicasUpdaterProofs`, `ControlLoopProofs`. Instances for TLC: `MCContentionManager`,
`MCPodAutoscaler`, `MCPodScaleController`, `MCKVerSca20`, `MCReplicasUpdater`,
`MCControlLoop`.

Conventions. An action is one atomic piece of the code: what lies between two calls to
the API server, two channel operations or two reads of a cache that another thread may
change in between. `None` stands for an object that does not exist. `Limits` says how
often the things that would make the state unbounded may happen (recommender rounds,
status updates, failures, crashes, deletions, ...); each such action spends from
`budget`. A model therefore stops when nothing more is allowed, and every configuration
but `Replicas.cfg`, where time always goes on, says `CHECK_DEADLOCK FALSE`; that
something still happens is what the liveness properties are for. Definitions introduced
as "Variant" are plausible mistakes in the definition that follows; they are not used by
the specifications, but each property is known to fail when one of them takes the
original's place (`mutants` in `PROJECT.json`).

### Allotment and Sharing

`ApplyBounds` keeps the order of the code's two tests. `Total` is a running sum as a
recursive function, so that it can be proved about.

The code computes a share as `int64(float64(d) / float64(t) * float64(a))`. Amounts are
milli-units, so memory is in milli-bytes: on every real node the exact `d * a / t` needs
more bits than a float has, and the result may be the integer quotient, one less (the
float lands below an integer) or one more (it is rounded up to one). `Proportional` is
the set of all integers that some number within one part in `Precision` of the exact
share truncates to. The two operations err by less than one part in 2^51 together as
long as amounts are exact floats (below 2^53), so every `Precision` up to 2^51 covers
the code. That the shares still add up to no more than what is available needs an
available amount below `Precision` (`CapacityAssumption`, `AmountAssumption`): 2^51
milli-bytes are a node of 2.25 TB.

### ContentionManager

`pc` walks through the three loops. The message and the Pod list are sequences, because
`NodeScales.Remove` takes the first match out of a list that is being used. A Pod that
is tracked but not Guaranteed is taken out of the message and counted as untracked
(`RemoveNotGuaranteed`). A remainder below zero makes the constructor return nil and the
caller panic (`SolveOnNil`).

### PodAutoscaler

| code | model |
|---|---|
| Pods and PodScales in the API server | `pod`, `scale`: version, size or amounts, the label of a Pod |
| informers' caches | `podCache`, `scaleCache`, brought up to date by `SyncPod`, `SyncScale` |
| `runRecommenderWorker`, the node queue | `EnqueueNode`, `nodeQueue`, `Processing` |
| `recommendNode`, `recommendContainer`, `computePodScale` | `RecommendNode` (all Pods of the node, some skipped), then `SendRecommendation`, which may block |
| `processNextNode` | `ManageNode`, `SendSolution`, `Panic` |
| `runNodeScaleWorker` | `TakeMessage`, `PrepareEntry` (the checks and `syncPod`), `Requeue` |
| `AtomicResourceUpdate`, `updateResources` | `DryRun`, `WritePod`, `WriteScale` |
| `main`, Deployment | `Crash`, `Panic`, `Restart` |
| KVerSca20, kubelet, PodScale controller | `SidecarPatch`, `TouchPod`, `RemovePod`, `RemoveScale` |

An updater remembers the message, the entry it is at and the copy of the Pod it made
from the cache. A message keeps, in each entry, the version of the PodScale it was
computed from (`base`): the updater sends that version back, which is why an outdated
message can never succeed and is put back for ever.

A Pod is created with what its Deployment requests (`Requests`) and its PodScale with
the `defaultResources` of the SLA (`Default`), so the two differ until an updater has
written them. A Pod without metrics or SLA is left out of a message (a gap).

The sidecar's patches carry no version and may come in any order: a label or a size at a
time. A patch that fails is left at that, a restarted sidecar starts over, and the two
threads of `KVerSca20` (the module has them) race each other.

Abstractions. CPU only (the contention manager's own module has both resources). The
desired amount is any that the limit of `computeCPUResource` allows; the memory of the
control laws decides which one, never whether. `recommendNode` reads the cache once, not
once per Pod. The dry run is taken at the time of its second check, since the first is
repeated by the real write. `NodeOf` does not change. All Pods are Guaranteed. A deleted
Pod or PodScale is not created again. A list of Pods that fails drops the message.

### PodScaleStore

The promise of the autoscaler to whoever looks at the API server, without a queue,
cache, worker or retry: one object changes per step, from the stored version to the
next; a Pod that is labelled "Kosmos" is resized within its node and keeps its label
(`Resize`); a PodScale grows to at most 1.5 times what it was, or to the SLA's minimum
(`Record`); the sidecar of a Pod may give it another label or one of its two sizes
(`Patch`); what is deleted stays deleted (`Remove`). The refinement maps `pod` and
`scale` to themselves: all else of `PodAutoscaler` is hidden, so most of its steps are
stutters. The node's capacity bounds each Pod here, not the sum over the Pods: the sum
is exceeded in the middle of a message (`mid_update`), and `NodeFits` says what does
hold of it.

### PodScaleController

| code | model |
|---|---|
| queue of SLA keys | `queue`; `TakeKey`, `Forget` |
| SLA informer and its resync every 30 s | `SyncSLA`, `Resync` |
| `listers...List` for desired and for tracked Services | `TakeKey`, `ListTracked`: two reads |
| `syncService`, `DiffPods` | `VisitService`, then `CreatePodScale`, `DeletePodScale`, one call each |
| `service.Labels[...] = ...`, then `Update` | `MarkService` on the shared cached object, `UpdateService` |
| `handleServiceSelectorChange`, `ContainsService` | `DropService`, `SweepPodScale`, `SweepNext` |
| `Run` | `Start` fills the caches; `Crash` |
| users, scheduler, garbage collector | `Reselect`, `RemoveSLA`, `RemoveService`, `TouchService`, `CreatePod`, `BindPod`, `RemovePod`, `CollectGarbage` |

A Service in a list is a pointer (`Pointer`): two are equal if no event has replaced the
cached object between them, that is, if name and version agree. A worker that marks a
Service changes the object that the cache and the other workers share; `Sent` says which
label the object carries when it is sent. Two workers that write the same Go map at once
may also be stopped by the runtime: that is a `Crash`. Errors end what the code makes
them end, and no key is put back, since `syncServiceLevelAgreement` returns nil for
every error after the first lookup. The caches of Pods and of PodScales are read in one
step, and so are those of SLAs and of Services when a key is taken: an event between two
of these reads is one that came a little later. One namespace is modelled.

`Clusters` is the set of clusters a behaviour may start in: which Services each SLA
matches, what exists, and how much may happen. `TakeKey` gives the key to a fixed one of
the idle workers, since a worker keeps nothing between keys.

Bounds, besides the limits in `Clusters`. Selectors of Services and labels of Pods do
not change; in the instances each Service has Pods of its own. Users keep the selectors
of two SLAs apart (`Apart`): what a Service with two SLAs should do is a TODO of the
code (`sync.go` 64-71). A resync does not happen while the event of a change to the same
SLA is on its way; otherwise an old and a new owner relabel a Service alternately for as
long as the event is late, which makes the state infinite and adds nothing, for the
event enqueues the key too. A deleted SLA or Service is not created again.

### KVerSca20

`main` is the main thread: the event it handles and how far it is; `timer` the thread of
`self.t`, including the moment after `cancel()` when it is still alive (`"cancelled"`).
`vscale_to_zero` is `Expire` (the flag), `LabelZero`, `ScaleZero`; `vscale_from_zero` is
`TakeEvent` (the flag), `ScaleUp`, `LabelUp`. Everything else that the main thread does
for an event is one action, since no other thread reads it. The counts `reqs_in_queue`,
`reqs_per_client` and the list of pending clients are kept as the code keeps them
(`Counts`, `Store`).

A read of a request is counted if the text `GET`, `POST`, `PUT`, `PATCH` or `DELETE` is
in it (line 268). A HEAD or OPTIONS request is therefore forwarded uncounted, and a
request that needs several reads may be counted for each. The clients in `Plain` send
requests of one read that counts; the requests of the others come in one or two reads,
each counted or not (`Matches`, `LeftOf`). An answer comes in one or two reads too, and
each takes one entry off the list while the client has one (`AfterAnswer`), so a request
counted twice may stay counted until its client leaves. On leaving, the count goes by
all the client has and the list by one entry; entries that stay behind name an address
that no connection has any more, so the model drops them (`AfterClose`).

`thread_to_zero`, the second thread, reads an attribute nobody has set and ends at once;
it is not modelled. The client of a connection has at most one request at a time; what
pipelining does to the counts is not modelled.

`overlapped` is a history variable: it has become true once an event was handled while
`vscale_to_zero` was running. It separates the property that holds from the one that the
run `sidecar_race` refutes.

### ReplicasUpdater and ReplicaPolicy

| code | model |
|---|---|
| `runWorker` every 5 s, `SLAQueue` | `Enqueue`, `queue` |
| `runSLAWorker`, `handleSLA` up to the update | `HandleSLA`: no Pod, `LoadOrStore` without a logic, settling, no metrics, or a computation |
| `CustomLogic.computeReplica` | `Stabilizing`, `Wanted` (saturation, response time, clamp), `Seen` (what it remembers), `Sustained` (whether it gives in) |
| `startScaleUpTime`, `startScaleDownTime` (only the one of the present state is read); `stabilizeTime` | `since`, `stable`: ages instead of times |
| `Update` of the Deployment, its conflict, error or lost answer | `UpdateDeployment`; `current` is false once the version has moved |
| `logicMap`, kept for ever per SLA key | `logic`, not touched by `ToggleSLA`, lost in `Crash` |

One tick is `scaleUpPeriodMillis`; scaling down takes two ticks and settling ten. Ages
stop at `LongAgo`, the largest that any comparison tells apart. A call to the API server
takes at most `CallTime`. The saturation of nodes and the measured load are any at any
observation. `handleSLA` finds a Deployment through a Pod of the SLA, so that one with
no replicas is never found. `author`, `calm` and `pressure` record who wrote the
replicas, how long the updater has left them alone, and for how long the observations of
this application have asked for the same direction.

`ReplicaPolicy` has only these: replicas go up by one (or to the lower bound), or down
within the bounds, after the pressure has lasted longer than its period and the last
change has had its time. That time is counted from when the update is made, while the
logic counts from the decision: hence the slack of one `CallTime`. Each SLA covers one
application. With two, the logic of the SLA is shared, and the load of one application
may lead to a change of the other, which the policy does not allow.

### MetricsExposer and ControlLoop

| code | model |
|---|---|
| `http-metrics` window, `AllMetrics` | `load`, `Average`; read for the average in `AskPod` and again for the count in `AnswerPod` |
| `updateMetrics` | `StartRound`, `AskPod`/`SkipPod` per Pod in any order, `WritePod`, `FinishPods`, `WriteService` |
| `setMetrics`, `GetMetricByName` under one `RLock` | `readers` overlap `WritePod` and `WriteService`; `MapRace` ends the process |
| `recommendContainer` | `AskMetric` (PodScale read, law made, request sent), `Recommend`, `SkipPodScale`, `MetricFails` |
| `FixedGainControlLogic`, `AdaptiveGainControlLogic` | `Law`, `Error`, `Desired`, `Truncated`, `NextGains` |
| contention manager, updater, informer | `Apply`, `Cut`, `Lose` |

The error is `1/setPoint - 1/responseTime`. Errors are integers in units of `1/Scale`
per second; `ScaleAssumption` asks for a `Scale` that makes those of the set point and
of the loads exact, and there is one for any finite set of times. `Truncated` is the
code's `int64(cores)`: a fraction of a milli-unit is cut off, so a small positive error
leaves the size where it is while a small negative one takes a milli-unit away. A Pod
without requests has time 0 and the error -10, the clamp of minus infinity. The next
gain of the adaptive law is `bc * sqrt(2|e|)` between 10 and 100: the model lets it be
any of `Gains` that is not above the old one if `2|e| < 1`, not below it otherwise, and
10 if `e = 0`. Memory has no law of its own. An exposer round lists the answers of a
service in the order in which they come, as the code appends them; the averages are
quotients of their totals. `answered` records the times each proxy gave since the
exposer started.

Bounds. At most `Pending` recommendations are under way for a Pod (an answer is held
back until there is room); `Disturbances` counts load changes, silent proxies, cuts,
losses, edits of the SLA and crashes together. One service; `Followed` are the Pods
whose laws are looked at, the others count in the average and in the rounds. The
throughput is left out, since nothing reads it.

## 3. Runs

| run | instance | properties |
|---|---|---|
| `contention` | 3 Pods, messages up to 3 entries, lists up to 2 Pods, 2 resources, 2 values each, `Precision` 8 | `TypeOK`, `NeverOversubscribed`, `CutOnlyWhenShort`, `EveryPodAccounted` |
| `failures` | 2 Pods on 2 nodes, 2 updaters, one with a sidecar, one without its container; 2 rounds; any two disturbances: touches, patches, faults, removals, a gap, a crash | `VersionsSound`, `GrowthLimited`, `SidecarUndisturbed`, `StoreImplemented` |
| `retry` | 2 Pods on a node of 22, one created at 12 and one at the default 10, 1 updater, 2 rounds, 1 fault, channel of 2, fairness | `TypeOK`, `SharesFit`, `NodeFits`, `Synchronized`, `FreshHeadLands` |
| `two_updaters` | 1 Pod, 2 updaters | `Synchronized` is violated |
| `full_channel` | 2 Pods, 1 updater, 2 rounds, 1 touch, channel of 1, fairness | `RequeueCompletes` is violated |
| `mid_update` | 2 Pods, 1 updater, 1 gap | `NoPanic` is violated |
| `podscales` | four clusters: 1 SLA, 2 Services, 2 Pods with 1 Pod change, 1 fault and either 1 touch or 1 crash; 2 SLAs, 1 Service, 1 Pod with 2 selector changes, or with 1 each of selector change, fault, removal; 2 workers | `TypeOK`, `WantedScaled`, `SubjectsSettle`, `CleansUp` |
| `leftovers` | 1 SLA, 1 Service, 1 Pod, 1 worker | `NoLeftovers` is violated |
| `sidecar` | 2 clients, one of them in `Plain`, 5 connections and requests, 1 fault | `TypeOK`, `RequestsCounted`, `NoTimerOverRequests`, `ScalesUnlessOverlapped` |
| `sidecar_race` | 1 client, no fault | `ScalesFromZero` is violated |
| `replicas` | 1 SLA, 1 application of 0, 1, 3 or 6 replicas with bounds 2 and 4; periods of 1, 2 and 3 ticks; 1 each of outside change, touch, fault, crash, deletion | `TypeOK`, `PolicyImplemented`, `BoundsRestored` |
| `loop` | 2 Pods of one service, one of them followed, with 1250, 1010, 990 ms, idle or no answer; 2 disturbances | `TypeOK`, `ActsOnAnswers`, `ServiceAmongPods`, `LoopSettles` |

Why the bounds are enough.

*contention*: caps {1, 5}, requests {1, 3} and capacities {2, 7} give totals below, at
and above the capacity for each resource separately, shares that round to zero, exact
quotients, shares that come out one more or one less (with a `Precision` of 8, the least
that exceeds the capacities), untracked Pods that exceed the node, and Pods that leave
the message from every position.

*retry*: a node of 22 holds Pods of 12 and 10, what they are created with, but not what
both may grow to, so one grant costs the other Pod something; two rounds are needed for
a message to be overtaken by a newer one, applied in part and put back, and the fault
may fall between the two writes. The channel of two has room for both messages; those of
one in the other instances make senders block.

*failures*: any two disturbances, also of one kind, on top of two rounds reach every
error branch, a lost answer followed by a requeue, a crash between two writes, and a
sidecar that changes the label twice.

*two_updaters*, *full_channel*: one Pod, or one place in the channel, and two messages
are all it takes.

*podscales*: two workers matter when keys differ, so two clusters have two SLAs; one
Service and one Pod are then enough for the races over label and PodScale. With two
selector changes the first SLA drops the Service and the second takes it over, so that
the sweep of the one meets the PodScales of the other. The second Service of the other
clusters is there because an error with one ends the sync for the other.

*sidecar*: five client steps open both connections and leave three requests, so that a
client can come back after its answer while the other waits. The client that is not
plain has requests of one read or two, so it may be counted never, once or twice.

*replicas*: settling takes 3 ticks instead of 10. What matters is that it is longer than
each period; nothing depends on by how much. Loads of 0, 50, 100 and 300 per cent
propose less than, more than and exactly what runs, below and above the bounds. One
fault is a metric that cannot be read, a refused update or a lost answer. More SLAs
would not share anything with the first: the theorem covers any number.

*loop*: a set point of a second and response times of 1250, 1010 and 990 ms and 0, which
ask either law for milli-units more, for less than one more, for less, and for the
least; `Scale` 49995 makes all of them exact. The bounds 7 and 10 are passed in one step
or reached by single milli-units, and a cut to 1 lies below the lower bound. Gains of 10
and 100 are the ends of their range. Two disturbances let the load change after a crash,
a loss or a cut. The average needs a second Pod; its own loop would be a copy of the
first.

### Fairness

* Goroutines and threads: weak fairness per worker. The Go scheduler is preemptive and a
  Python thread gives up the lock. A worker that is blocked on a channel is not enabled
  and so is promised nothing.
* `TakeKey`, per key: the work queue is first in, first out.
* Informers, per object: a watch delivers every change; `Resync` every 30 s.
* `CollectGarbage`, `BindPod`: Kubernetes controllers.
* `Restart`, `Start`: the processes run in Deployments.
* `KVerSca20`: `TimerStep` includes the passing of 30 s. Clients and the app are
  promised nothing: a request may stay in the app for ever.
* `ReplicasUpdater`: `Enqueue` per SLA (a loop of 5 s), the worker, `Restart`, and
  `Tick`, the passing of time.
* `ControlLoop`: `Expose` (a loop of 1 s), `AskMetric` (of 5 s) and the answer to a
  read, per Pod; `Apply`, that a recommendation arrives, unless it is cut or lost.
* Recommender rounds in `PodAutoscaler`, users, failures and crashes are never promised.

## 4. Properties and what stands behind them

*The contention manager* never hands out more than the node has left
(`NeverOversubscribed`, and for every message in flight `SharesFit`), cuts only the
resource that is short (`CutOnlyWhenShort`) and counts every Pod once
(`EveryPodAccounted`).

*The autoscaler* keeps the limit of one control step between successive versions of a
PodScale, whatever overtakes what (`GrowthLimited`, carried by `VersionsSound`); leaves
a Pod alone that the sidecar has labelled, although it knows the label from a cache
(`SidecarUndisturbed`: the version of the Pod in the update is what protects it). With
one updater, a Pod that was resized and its PodScale differ only as long as a message is
left that makes up for it (`Synchronized`; before the first write they differ whenever
the Deployment requests something else than the default of the SLA), and a node is not
overcommitted at rest (`NodeFits`), although messages of different age are applied entry
by entry, fail half way and are put back. Two updaters break both, and `main.go` starts
four: `two_updaters` shows the first. For the second TLC finds, in an instance of two
updaters with demands 10 and 12 on a node of 22: two Pods of 10, and two messages
computed from the same versions, one granting 10 and 12, the other 12 and 10. An update
that changes nothing leaves the `resourceVersion` alone, so each message is accepted, by
one updater each, where it lets a Pod grow; both Pods end at 12, with no message left
and no error seen. Again with one updater, a message that is still fresh is applied in
the end although it may be put back behind messages that never can be
(`FreshHeadLands`). That putting back always succeeds in the end (`RequeueCompletes`) is
not so (`full_channel`): messages that can never succeed stay in the channel, and once
it is full and the updaters hold one more each, they block on the channel that only they
drain. The code's 10000 places make this late, not impossible.

*The PodScale controller* ends up with a PodScale for every covered Pod
(`WantedScaled`), the right label on every Service (`SubjectsSettle`) and no PodScale of
a deleted SLA (`CleansUp`). The sync itself does not ensure the first two: errors are
dropped, and a sweep can delete what another sync has just created. It is the resync of
the informer every 30 s that repairs all of it (the mutant `ResyncIfChanged` shows so).

*The sidecar* keeps one count in three places, and it is the number of the reads that
count (`RequestsCounted`): one per request in the app for a client whose requests are
one such read each, none for a client that has left. The timer is never armed over a
counted request (`NoTimerOverRequests`), and the container is woken for every one
(`ScalesUnlessOverlapped`), unless an event is handled while the timer thread is already
scaling down. None of this holds of requests the code does not count: a HEAD or OPTIONS
request leaves the timer armed, and the Pod may be put to size zero while the app works
on it. A request that was counted twice errs on the other side and keeps the container
awake until its client leaves.

*The replicas updater* changes a Deployment only for sustained load of that application
and leaves each of its changes time to settle (`PolicyImplemented`), although the logic
moves its times before an update that may be refused, lost or applied without an answer,
forgets everything in a crash, and is found again under the key of an SLA that was
deleted. A Deployment outside the bounds comes back (`BoundsRestored`), although each
failed update starts the time to settle anew; one that was scaled to zero is never found
again, which the property excludes.

*The control loop* takes no answer for an answer of zero neither in the exposer nor in
the recommender (`ActsOnAnswers`), although the exposer starts with an empty map, keeps
old answers of silent proxies, and may die while it is read; idle Pods do not hide a
slow one in the average (`ServiceAmongPods`); and the loop settles whatever was cut,
lost or forgotten before (`LoopSettles`), under either law and any sequence of gains,
although each law believes that its last recommendation was applied: at the upper bound
if the Pod is slower than its SLA by a milli-unit's worth of error or more, at the lower
bound if it is faster by however little. In between the truncation wins: for a Pod that
is barely slower (1010 ms against a second), the law ends by asking for what the
PodScale shows, so the size never gets to the upper bound. It need not even rest: if the
PodScale is read while the recommendation before is still on its way, two sizes may
follow each other for ever, each confirmed by its own reading. Both were seen with TLC.

## 5. Proofs

All theorems hold for any number of Pods, nodes, goroutines and clients, any amounts
that satisfy the named assumptions (`PrecisionAssumption` in `Sharing`;
`AmountAssumption`, `NodeAssumption`, `BoundAssumption`, `NoneAssumption` in
`PodAutoscaler`; `AmountAssumption`, `CapacityAssumption`, `PodListsAssumption`,
`MessagesAssumption`, `NamesAssumption` in `ContentionManager`; `ClientAssumption`, that
clients are finitely many and the plain ones among them, in `KVerSca20`;
`StartAssumption`, `LabelAssumption` in `PodScaleController`; `PeriodAssumption`,
`BoundsAssumption`, `CoverAssumption` in `ReplicasUpdater`; `FollowedAssumption`,
`ScaleAssumption`, `BoundAssumption`, `LoadAssumption` in `ControlLoop`), and any
`Limits`, so also for runs of any length.

| theorem | statement | how |
|---|---|---|
| `SharesFitAvailable` | shares granted for a total add up to no more than is available, if that is below `Precision` | induction over the running totals of amounts and shares: `total share * total desired * Precision <= total desired so far * available * (Precision + 1)` (`ProportionKept`); an integer that exceeds `available` by less than one part in `Precision` does not exceed it (`RoundingAbsorbed`) |
| `TypeCorrect`, `CapacityRespected`, `NoNeedlessCut` | `TypeOK`, `NeverOversubscribed`, `CutOnlyWhenShort` of the contention manager | `TypeInv`, then `IInv`: the running total is the total of the entries seen so far, and each share given is one that `Grant` allows |
| `AccountComplete` | `EveryPodAccounted` | `AccountInv`: `untracked` is the running total over the Pods passed; taking an entry out changes who is tracked for the Pod at hand only, because names are unique (`TracksOthers`, `AccountStep`) |
| `PipelineTypeCorrect` | `TypeOK` of the pipeline | `TypeInv` adds that an updater that is about to write holds a positive amount |
| `VersionsNeverAhead`, `MessagesFit`, `GrowthIsLimited` | `VersionsSound`, `SharesFit`, `GrowthLimited` | `IInv`, below |
| `TotalOfReordered` | a total does not depend on the order of the amounts | move the last amount to its place, then induction over the length |
| `SidecarIsUndisturbed` | `SidecarUndisturbed` | `CopiesInv`: no cached Pod and no updater's copy is ahead of the stored Pod; a cached Pod of the stored version is the stored Pod; and if the copy an updater will write still has the stored version, the stored Pod is labelled "Kosmos" |
| `ImplementsStore` | `StoreImplemented`: `PodAutoscaler` implements `PodScaleStore` | `RefinementInv` = `IInv`, `CopiesInv`, and: messages name Pods of their own node (`HomeInv`), the copy an updater will write is labelled "Kosmos" and has the size of its entry (`CopyInv`) |
| `OneUpdaterSynchronizes` | `Synchronized` with one updater, as long as the process has not stopped, no sidecar has patched and nothing was deleted (`Quiet`) | `SyncInv`, below |
| `OneUpdaterFits` | `NodeFits` with one updater, if the Pods fit at first (`FitAtFirst`), also no Pod is skipped and no share is zero (`Undisturbed`) | `FitInv`, below |
| `UpdaterTypeCorrect`, `ImplementsPolicy` | `TypeOK`, `PolicyImplemented` of the replicas updater; the second under `OneAppEach`: no SLA covers two applications, no application has two SLAs | `PolicyInv`, below |
| `LoopTypeCorrect` | `TypeOK` of the control loop | `LoopTypes`, one step per action; totals of answers are numbers |
| `ServiceAverageSound` | `ServiceAmongPods` | `QuotientBounds` and `AverageAmongBusy`, below |
| `RecommendsOnAnswers` | `ActsOnAnswers` of the control loop | `Recorded`: what is in the cache, in a round or about to be written was answered by the proxy of that Pod since the exposer started |
| `ControllerTypeCorrect` | `TypeOK` of the PodScale controller | inductive as it stands; one step per action |
| `SidecarTypeCorrect`, `RequestsAreCounted`, `NoTimerIsArmed` | `TypeOK`, `RequestsCounted`, `NoTimerOverRequests` of the sidecar | `IInv`: `EventSound` (the event at hand is one the socket still has), `RequestSound` (a plain client has one read counted while its request is unanswered, and the rest of a request exists only for the others) and `ListSound` (the list agrees with the count of each client, and the queue with all of them) |

`GrowthLimited` is about a step and not inductive: an update is accepted on the strength
of a version in a message that may have waited anywhere. `IInv` therefore says of every
place a message can be in (`Carries`: recommender, both channels, manager, updater) that
its entries are *sound*: not ahead of the stored PodScale, and, if they have its
version, within 1.5 times its amount. Behind the contention manager messages also *fit*
their node. Since every goroutine only moves messages (`OnlyMoved`) or makes a new one
from a cache (`CacheSound`), and a stored version that changes grows, the invariant is
kept. The same scheme proves `SharesFit`.

`Synchronized` and `NodeFits` are theorems of one updater with hypotheses, and each
hypothesis stands for a way in which the claim fails:

* two updaters: the run `two_updaters`, and for `NodeFits` the case told in section 4;
* a stop between the two writes leaves a Pod resized and its PodScale not, and loses the
  message that would make up for it; so it loses the rest of a message whose first
  entries have been applied;
* a Pod that is skipped for want of metrics is not in the message, which then no longer
  speaks for the whole node (`NodeFits` only);
* a patch of the sidecar changes the Pod and not its PodScale;
* a deleted Pod ends a message half way without putting it back: what has grown stays,
  what should have shrunk has not, and a Pod further on in the message that is half
  written stays so. (The deletion of a PodScale is excluded with that of a Pod; the
  claims are not known to fail for it.) A share of zero, which the updater refuses, does
  the same, but a message with one never gets to the entries behind it (`NodeFits`
  only).

None is excluded by the code. Status updates, conflicts, failed calls, lost answers,
stale caches, Pods created at any size, any number of recommenders, managers, nodes and
rounds are within the theorems.

The argument for both is that a message is never let go of before all of it is in force.
In `SyncInv`, everything still exists under the autoscaler's label (`Present`), the
updater knows that the PodScale at hand is of the entry's version (`AtEntry`), the
entries it has gone through gave the Pods something (`Passed`), and every Pod that
differs from its PodScale is excused (`Excused`): nobody has written it yet, or a
message that the updater will come to has an entry of the stored version with the size
the Pod has, and no entry before that ends the updater's turn. An update that fails,
applied or not, puts the message back unchanged, which is why the excuse survives it; a
newer message for the Pod has then either written both or is itself the excuse.

In `FitInv`, a message that leaves a contention manager names every Pod of its node once
(`WholeInv`) and fits. What the updater has gone through of its message is in force
(`Applied`), so at the end of a message the node has exactly what it grants. In the
middle of one it may have more; `FitsOrPending` says that then a message for this node
is still to be applied. With one updater nobody else resizes a Pod in between, so the
message that it lets go of is the one in force. A message that repeats an amount does
not move the version; this is why two updaters can both finish. Sums over the Pods of a
node are totals along an order of them, whichever it is (`TotalOfReordered`), since a
message numbers them in its own way.

The step of `ImplementsStore` that needs all of its invariant is the write of an
updater: its size fits the node because the message fits and names Pods of that node
only, the Pod is not the sidecar's because a copy of the stored version has its label,
and the PodScale it replaces is the one it was computed from.

For the replicas updater, `LogicInv` says that a logic never remembers more than
happened to its application: a direction it follows has been observed at least as long
(`pressure`), it follows one only after the time to settle, and the last change is, but
for one call, as old as it believes (`calm`). `WorkerInv` carries this over the call: a
change that is about to be sent for the current version is one the policy allows, and
the logic has started its times anew since. That is why a lost or refused update is
harmless, and why the logic of a deleted SLA is: its times only grow older with the
application's.

For the sidecar, the count is the cardinality of a set of pairs, client and number
(`CountedReads`). A handler changes the row of one client, and the queue must move by as
much as the row (`QueueSplit`, `QueueFollows`): so it does for a read that counts, for a
part of an answer, and for neither. A client that leaves with reads pending is the hard
case (`CloseCounted`): the counter must lose all of that client's row, which the code
does only if the client is in the list, so the list and the row have to agree.

For the average of a service, the total of times weighted by counts lies between `low`
and `high` times the total of counts (`TotalAtLeast`, `TotalAtMost`), where `low` and
`high` are times of Pods that had requests; an integer quotient then lies between the
two (`QuotientBounds`). A service without requests has the average 0.

Sums are recursive functions. The library's induction theorems cannot be used with an
operator as a parameter, so `AllotmentProofs` has its own induction over a set of
numbers (`SetInduction`), from which existence and recursion of the running total
follow.

Only model-checked: liveness (`FreshHeadLands`, `WantedScaled`, `SubjectsSettle`,
`CleansUp`, `ScalesUnlessOverlapped`, `BoundsRestored`, `LoopSettles`), which is out of
the prover's reach under fairness. Every safety invariant and action property of the
passing runs is stated by a theorem, `NodeFits` and `Synchronized` under the hypotheses
above.

## 6. What the checks found

| run | what happens | where |
|---|---|---|
| `two_updaters` | two updaters with messages of the same version: one writes the Pod, the other Pod and PodScale, the first fails on the PodScale. Pod and PodScale differ, against the comment on `AtomicResourceUpdate` | `pod-resource-updater/controller.go` 168-206 |
| `full_channel` | a status update moves the version of a Pod, the message is put back, and a second one takes its place in the channel meanwhile: the updater waits for a place that only it could make | `pod-resource-updater/controller.go` 151-152, `main.go` 83 |
| `mid_update` | a growing Pod is written before a shrinking one; a message for the node that does not name its Pods is solved in between. The remainder is negative, the manager nil, and `Solve` panics | `contention-manager/logic.go` 78, 172 |
| `leftovers` | PodScales are created, the label of their Service is refused, the selector moves on: nothing finds these PodScales any more | `sync.go` 81-89, 105 |
| `sidecar_race` | the timer thread sets the flag, the main thread wakes the container, the timer thread's patch to zero comes last | `KVerSca20.py` 111-137 |

Further hazards, with the properties that watch them, are in `PROJECT.json`. The ones
without a property say why: outside a bound of the model (selectors of Services that
change, several namespaces), or not something the code promises. Among these: two
updaters overcommit a node, and a HEAD or OPTIONS request is not protected from scaling
to zero (section 4); a PodScale made for a Pod without a node keeps an empty node label
(`sync.go` 198), and the recommender never sees it; a Deployment that is scaled to zero
is never found again by the replicas updater; and requests that hang leave the window of
the proxy empty, so that their Pod looks idle and shrinks.

## 7. What is not modelled

* `HPALogic` (`pod-replicas-updater/pkg/logic.go` 32-127): never instantiated.
* Control laws: the rounding of their float operations (the errors of the instance are
  exact fractions, the truncation is modelled), the square root of the adaptive gain
  (any of a set instead), memory (both laws pass it on unchanged).
* Two applications under one SLA in the replicas updater, several namespaces in the
  PodScale controller.
* Requests that never end in the HTTP metrics proxy, and how its window fills: any
  change of load.
* Other containers of a Pod in the contention manager: the sidecar's own requests are
  neither tracked nor untracked (`contention-manager/logic.go` 45).
* Logging, events, flags, signals, deployment files, experiment scripts, superseded
  variants of the sidecar: no state of their own that the parts above depend on.
* Generated code: clients, informers, listers, deep copies, and the OpenAPI definitions
  (14615 lines). These and the tests are most of the repository's Go lines and hold none
  of its logic.

## 8. Plan

Done, in this order: arithmetic, contention manager, the autoscaler process, its proofs,
the PodScale controller, the sidecar; then the abstract store and its refinement, the
replicas updater with its policy, the metrics exposer and the control loop, and the
proofs about each; then what one updater brings about, and the averages.

Left:

1. The sidecar composed with the autoscaler over one Pod, with the sidecar's own threads
   (`KVerSca20`) in place of the free patches of `SidecarPatch`.
2. The replicas updater and the autoscaler over one Deployment: new replicas are Pods
   that get a PodScale later, and both act on the same response times.
3. Proofs: the safety part of `CleansUp` (no PodScale is created for an SLA whose
   deletion the garbage collector has dealt with).
