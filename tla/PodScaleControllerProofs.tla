---------------------- MODULE PodScaleControllerProofs ----------------------
(* Types of the PodScale controller. *)
EXTENDS PodScaleController, TLAPS

Busy ==
  [at : {"tracked", "next", "converge", "update", "sweep"},
   key : SLAs,
   left : SUBSET Pointer,
   dropped : SUBSET Pointer,
   current : Pointer \cup {None},
   add : [Pods -> PodScaleObject \cup {None}],
   delete : SUBSET Pods]

LEMMA WorkerStates == WorkerState = {Idle} \cup Busy
BY DEF WorkerState, Busy

LEMMA BusyWorker ==
  ASSUME TypeOK, NEW w \in Workers, worker[w].at # "idle"
  PROVE  worker[w] \in Busy
BY WorkerStates DEF TypeOK, Idle

LEMMA BecomeType ==
  ASSUME TypeOK, NEW w \in Workers, NEW state \in Busy \cup {Idle}, Become(w, state)
  PROVE  worker' \in [Workers -> WorkerState]
BY WorkerStates DEF TypeOK, Become

LEMMA SpendType ==
  ASSUME TypeOK, NEW kind \in Kinds, Spend(kind)
  PROVE  budget' \in [Kinds -> Nat]
BY DEF TypeOK, Spend

LEMMA PointType ==
  ASSUME TypeOK, NEW s \in Services, serviceCache[s] # None
  PROVE  Point(s) \in Pointer
BY DEF TypeOK, Point, Pointer, ServiceObject

LEMMA NothingType == Nothing \in [Pods -> PodScaleObject \cup {None}]
BY DEF Nothing

(* What the API server stores is well typed, whoever writes it. *)
LEMMA CreateType ==
  ASSUME TypeOK, NEW p \in Pods, NEW new \in PodScaleObject, Create(p, new)
  PROVE  podScale' \in [Pods -> PodScaleObject \cup {None}]
BY DEF TypeOK, Create

LEMMA DeleteType ==
  ASSUME TypeOK, NEW p \in Pods, Delete(p)
  PROVE  podScale' \in [Pods -> PodScaleObject \cup {None}]
BY DEF TypeOK, Delete

LEMMA InitTyped == Init => TypeOK
<1> SUFFICES ASSUME Init PROVE TypeOK OBVIOUS
<1>1. PICK c \in Clusters :
        /\ sla = c.match
        /\ service = [s \in Services |-> IF s \in c.services THEN [rv |-> 1, subject |-> None] ELSE None]
        /\ \E node \in [c.pods -> Nodes] :
             pod = [p \in Pods |-> IF p \in c.pods THEN [node |-> node[p]] ELSE None]
        /\ budget = c.limits
  BY DEF Init
<1>2. c.match \in [SLAs -> (SUBSET Services) \cup {None}] /\ c.limits \in [Kinds -> Nat]
  BY StartAssumption
<1>3. service \in [Services -> ServiceObject \cup {None}] BY <1>1 DEF ServiceObject
<1>4. pod \in [Pods -> PodObject \cup {None}]
  <2>1. PICK node \in [c.pods -> Nodes] :
          pod = [p \in Pods |-> IF p \in c.pods THEN [node |-> node[p]] ELSE None]
    BY <1>1
  <2> QED BY <2>1 DEF PodObject
<1>5. worker \in [Workers -> WorkerState] BY WorkerStates DEF Init
<1> QED BY <1>1, <1>2, <1>3, <1>4, <1>5, NothingType DEF Init, TypeOK, Nothing

----------------------------------------------------------------------------
(* A worker reads. *)

LEMMA ReadTyped ==
  ASSUME TypeOK, NEW w \in Workers,
         \/ \E a \in SLAs : TakeKey(w, a)
         \/ ListTracked(w) \/ VisitService(w) \/ DropService(w) \/ SweepNext(w) \/ Forget(w)
  PROVE  worker' \in [Workers -> WorkerState] /\ queue' \subseteq SLAs
<1>1. ASSUME NEW a \in SLAs, TakeKey(w, a)
      PROVE  worker' \in [Workers -> WorkerState] /\ queue' \subseteq SLAs
  <2>1. queue' \subseteq SLAs BY <1>1 DEF TakeKey, TypeOK
  <2>2. CASE slaCache[a] = None BY <1>1, <2>1, <2>2 DEF TakeKey, TypeOK
  <2>3. CASE slaCache[a] # None
    <3> DEFINE state == [at |-> "tracked", key |-> a,
                         left |-> {Point(s) : s \in Cached(slaCache[a])}, dropped |-> {},
                         current |-> None, add |-> Nothing, delete |-> {}]
    <3>1. slaCache[a] \subseteq Services BY <2>3 DEF TypeOK
    <3>2. {Point(s) : s \in Cached(slaCache[a])} \subseteq Pointer
      BY <3>1, PointType DEF Cached
    <3>3. state \in Busy BY <3>2, NothingType DEF Busy
    <3>4. Become(w, state) BY <1>1, <2>3 DEF TakeKey
    <3> QED BY <2>1, <3>3, <3>4, BecomeType
  <2> QED BY <2>2, <2>3
<1>2. CASE ListTracked(w)
  <2> DEFINE tracked == {Point(s) : s \in {s \in Cached(Services) : serviceCache[s].subject = worker[w].key}}
  <2>1. worker[w] \in Busy BY <1>2, BusyWorker DEF ListTracked
  <2>2. tracked \subseteq Pointer BY PointType DEF Cached
  <2>3. [worker[w] EXCEPT !.at = "next", !.dropped = tracked \ worker[w].left] \in Busy
    BY <2>1, <2>2 DEF Busy
  <2> QED BY <1>2, <2>3, BecomeType DEF ListTracked, TypeOK
<1>3. CASE VisitService(w)
  <2>1. worker[w] \in Busy BY <1>3, BusyWorker DEF VisitService
  <2>2. PICK x \in worker[w].left :
          LET pods   == SelectedPods(x.name)
              scales == SelectedScales(x.name)
              adds   == (pods \ scales) \ Unsupported
          IN  Become(w, [worker[w] EXCEPT
                !.at = "converge",
                !.left = @ \ {x},
                !.current = x,
                !.add = [p \in Pods |-> IF p \in adds THEN NewPodScale(p, worker[w].key, x.name) ELSE None],
                !.delete = scales \ pods])
    BY <1>3 DEF VisitService
  <2> DEFINE pods   == SelectedPods(x.name)
             scales == SelectedScales(x.name)
             adds   == (pods \ scales) \ Unsupported
             add    == [p \in Pods |-> IF p \in adds THEN NewPodScale(p, worker[w].key, x.name) ELSE None]
  <2>3. x \in Pointer /\ x.name \in Services /\ worker[w].key \in SLAs
    BY <2>1, <2>2 DEF Busy, Pointer
  <2>4. pods \subseteq {p \in Pods : podCache[p] # None} /\ scales \subseteq Pods
    BY DEF SelectedPods, SelectedScales
  <2>5. \A p \in pods : NewPodScale(p, worker[w].key, x.name) \in PodScaleObject
    BY <2>3, <2>4, LabelAssumption DEF TypeOK, NewPodScale, PodScaleObject, PodObject
  <2>6. add \in [Pods -> PodScaleObject \cup {None}] BY <2>5
  <2>7. scales \ pods \in SUBSET Pods BY <2>4
  <2>8. Become(w, [worker[w] EXCEPT !.at = "converge", !.left = @ \ {x}, !.current = x,
                                    !.add = add, !.delete = scales \ pods])
    BY <2>2
  <2> HIDE DEF add, pods, scales
  <2>9. [worker[w] EXCEPT !.at = "converge", !.left = @ \ {x}, !.current = x,
                          !.add = add, !.delete = scales \ pods] \in Busy
    BY <2>1, <2>3, <2>6, <2>7 DEF Busy
  <2> QED BY <1>3, <2>8, <2>9, BecomeType DEF VisitService, TypeOK
<1>4. CASE DropService(w)
  <2>1. worker[w] \in Busy BY <1>4, BusyWorker DEF DropService
  <2>2. PICK x \in worker[w].dropped :
          Become(w, [worker[w] EXCEPT !.at = "sweep", !.dropped = @ \ {x}, !.delete = SelectedScales(x.name)])
    BY <1>4 DEF DropService
  <2>3. SelectedScales(x.name) \in SUBSET Pods BY DEF SelectedScales
  <2>4. [worker[w] EXCEPT !.at = "sweep", !.dropped = @ \ {x}, !.delete = SelectedScales(x.name)] \in Busy
    BY <2>1, <2>3 DEF Busy
  <2> QED BY <1>4, <2>2, <2>4, BecomeType DEF DropService, TypeOK
<1>5. CASE SweepNext(w)
  <2>1. worker[w] \in Busy BY <1>5, BusyWorker DEF SweepNext
  <2>2. [worker[w] EXCEPT !.at = "next"] \in Busy BY <2>1 DEF Busy
  <2> QED BY <1>5, <2>2, BecomeType DEF SweepNext, TypeOK
<1>6. CASE Forget(w) BY <1>6, BecomeType DEF Forget, TypeOK
<1> QED BY <1>1, <1>2, <1>3, <1>4, <1>5, <1>6

(* What a reading step leaves alone. *)
LEMMA ReadOnly ==
  ASSUME NEW w \in Workers,
         \/ \E a \in SLAs : TakeKey(w, a)
         \/ ListTracked(w) \/ VisitService(w) \/ DropService(w) \/ SweepNext(w) \/ Forget(w)
  PROVE  UNCHANGED <<objects, caches, up, budget>>
BY DEF TakeKey, ListTracked, VisitService, DropService, SweepNext, Forget

----------------------------------------------------------------------------
(* A worker writes. *)

LEMMA CreateTyped ==
  ASSUME TypeOK, NEW w \in Workers, CreatePodScale(w)
  PROVE  TypeOK'
<1>1. worker[w] \in Busy BY BusyWorker DEF CreatePodScale
<1>2. PICK p \in {p \in Pods : worker[w].add[p] # None} :
       \/ /\ IF podScale[p] = None THEN Create(p, worker[w].add[p]) ELSE UNCHANGED podScale
          /\ Become(w, [worker[w] EXCEPT !.add[p] = None])
          /\ UNCHANGED budget
       \/ /\ Spend("faults")
          /\ UNCHANGED podScale \/ (podScale[p] = None /\ Create(p, worker[w].add[p]))
          /\ Become(w, [worker[w] EXCEPT !.add = Nothing, !.delete = {}])
  BY DEF CreatePodScale
<1>3. worker[w].add[p] \in PodScaleObject BY <1>1 DEF Busy
<1>4. podScale' \in [Pods -> PodScaleObject \cup {None}]
  BY <1>2, <1>3, CreateType DEF TypeOK
<1>5. [worker[w] EXCEPT !.add[p] = None] \in Busy BY <1>1 DEF Busy
<1>6. [worker[w] EXCEPT !.add = Nothing, !.delete = {}] \in Busy BY <1>1, NothingType DEF Busy
<1>7. worker' \in [Workers -> WorkerState] BY <1>2, <1>5, <1>6, BecomeType
<1>8. budget' \in [Kinds -> Nat] BY <1>2, SpendType DEF Kinds, TypeOK
<1> QED BY <1>4, <1>7, <1>8 DEF CreatePodScale, TypeOK, caches

LEMMA DeleteTyped ==
  ASSUME TypeOK, NEW w \in Workers, DeletePodScale(w) \/ SweepPodScale(w)
  PROVE  TypeOK'
<1>1. worker[w] \in Busy BY BusyWorker DEF DeletePodScale, SweepPodScale
<1>2. PICK p \in worker[w].delete :
       /\ Delete(p) \/ UNCHANGED podScale
       /\ Spend("faults") \/ UNCHANGED budget
       /\ \/ Become(w, [worker[w] EXCEPT !.delete = @ \ {p}])
          \/ Become(w, [worker[w] EXCEPT !.delete = {}])
          \/ Become(w, Idle)
  BY DEF DeletePodScale, SweepPodScale
<1>3. p \in Pods BY <1>1 DEF Busy
<1>4. podScale' \in [Pods -> PodScaleObject \cup {None}] BY <1>2, <1>3, DeleteType DEF TypeOK
<1>5. [worker[w] EXCEPT !.delete = @ \ {p}] \in Busy BY <1>1 DEF Busy
<1>6. [worker[w] EXCEPT !.delete = {}] \in Busy BY <1>1 DEF Busy
<1>7. worker' \in [Workers -> WorkerState] BY <1>2, <1>5, <1>6, BecomeType
<1>8. budget' \in [Kinds -> Nat] BY <1>2, SpendType DEF Kinds, TypeOK
<1> QED BY <1>4, <1>7, <1>8 DEF DeletePodScale, SweepPodScale, TypeOK, caches

LEMMA MarkTyped ==
  ASSUME TypeOK, NEW w \in Workers, MarkService(w)
  PROVE  TypeOK'
<1> DEFINE x == worker[w].current
<1>1. worker[w] \in Busy /\ worker[w].key \in SLAs BY BusyWorker DEF MarkService, Busy
<1>2. serviceCache' \in [Services -> ServiceObject \cup {None}]
  <2>1. CASE serviceCache' = serviceCache BY <2>1 DEF TypeOK
  <2>2. CASE /\ serviceCache[x.name] # None
             /\ serviceCache' = [serviceCache EXCEPT ![x.name].subject = worker[w].key]
    <3>1. ASSUME NEW s \in Services
          PROVE  serviceCache'[s] \in ServiceObject \cup {None}
      <4>1. CASE s = x.name
        <5>1. serviceCache[s] \in ServiceObject BY <2>2, <4>1 DEF TypeOK
        <5>2. serviceCache'[s] = [serviceCache[s] EXCEPT !.subject = worker[w].key]
          BY <2>2, <4>1 DEF TypeOK
        <5> QED BY <1>1, <5>1, <5>2 DEF ServiceObject
      <4>2. CASE s # x.name BY <2>2, <4>2 DEF TypeOK
      <4> QED BY <4>1, <4>2
    <3>2. serviceCache' = [s \in Services |-> serviceCache'[s]] BY <2>2 DEF TypeOK
    <3> QED BY <3>1, <3>2
  <2> QED BY <2>1, <2>2 DEF MarkService
<1>3. [worker[w] EXCEPT !.at = "update"] \in Busy BY <1>1 DEF Busy
<1>4. worker' \in [Workers -> WorkerState] BY <1>3, BecomeType DEF MarkService
<1> QED BY <1>2, <1>4 DEF MarkService, TypeOK, objects

LEMMA LabelType ==
  ASSUME TypeOK, NEW x, service[x.name] # None, Label(x)
  PROVE  service' \in [Services -> ServiceObject \cup {None}]
<1>1. PICK a \in Sent(x) :
        service' = [service EXCEPT ![x.name] = IF @.subject = a THEN @
                                               ELSE [rv |-> @.rv + 1, subject |-> a]]
  BY DEF Label
<1>2. ASSUME NEW s \in Services
      PROVE  service'[s] \in ServiceObject \cup {None}
  <2>1. CASE s = x.name
    <3>1. service[s] \in ServiceObject BY <2>1 DEF TypeOK
    <3>2. a \in SLAs \cup {None}
      <4>1. CASE serviceCache[x.name] # None /\ Point(x.name) = x
        BY <1>1, <2>1, <4>1 DEF Sent, TypeOK, ServiceObject
      <4>2. CASE ~(serviceCache[x.name] # None /\ Point(x.name) = x)
        <5>1. PICK v \in Workers : worker[v].at = "update" /\ a = worker[v].key
          BY <1>1, <4>2 DEF Sent
        <5>2. worker[v] \in Busy BY <5>1, BusyWorker
        <5> QED BY <5>1, <5>2 DEF Busy
      <4> QED BY <4>1, <4>2
    <3>3. service'[s] = IF service[s].subject = a THEN service[s]
                        ELSE [rv |-> service[s].rv + 1, subject |-> a]
      BY <1>1, <2>1 DEF TypeOK
    <3> QED BY <3>1, <3>2, <3>3 DEF ServiceObject
  <2>2. CASE s # x.name BY <1>1, <2>2 DEF TypeOK
  <2> QED BY <2>1, <2>2
<1>3. service' = [s \in Services |-> service'[s]] BY <1>1 DEF TypeOK
<1> QED BY <1>2, <1>3

LEMMA UpdateTyped ==
  ASSUME TypeOK, NEW w \in Workers, UpdateService(w)
  PROVE  TypeOK'
<1> DEFINE x == worker[w].current
<1>1. worker[w] \in Busy BY BusyWorker DEF UpdateService
<1>2. /\ UNCHANGED service \/ (service[x.name] # None /\ Label(x))
      /\ Spend("faults") \/ UNCHANGED budget
      /\ \/ Become(w, [worker[w] EXCEPT !.at = "next", !.current = None])
         \/ Become(w, Idle)
  BY DEF UpdateService
<1>3. service' \in [Services -> ServiceObject \cup {None}] BY <1>2, LabelType DEF TypeOK
<1>4. [worker[w] EXCEPT !.at = "next", !.current = None] \in Busy BY <1>1 DEF Busy
<1>5. worker' \in [Workers -> WorkerState] BY <1>2, <1>4, BecomeType
<1>6. budget' \in [Kinds -> Nat] BY <1>2, SpendType DEF Kinds, TypeOK
<1> QED BY <1>3, <1>5, <1>6 DEF UpdateService, TypeOK, caches

----------------------------------------------------------------------------
(* The process and the cluster. *)

LEMMA ProcessTyped ==
  ASSUME TypeOK,
         \/ \E a \in SLAs : SyncSLA(a) \/ Resync(a)
         \/ \E s \in Services : SyncService(s)
         \/ \E p \in Pods : SyncPod(p) \/ SyncScale(p)
         \/ Crash \/ Start
  PROVE  TypeOK'
<1>1. ASSUME NEW a \in SLAs, SyncSLA(a) \/ Resync(a) PROVE TypeOK'
  BY <1>1 DEF SyncSLA, Resync, TypeOK, objects, caches
<1>2. ASSUME NEW s \in Services, SyncService(s) PROVE TypeOK'
  BY <1>2 DEF SyncService, TypeOK, objects, process
<1>3. ASSUME NEW p \in Pods, SyncPod(p) \/ SyncScale(p) PROVE TypeOK'
  BY <1>3 DEF SyncPod, SyncScale, TypeOK, objects, process
<1>4. CASE Crash
  <2>1. budget' \in [Kinds -> Nat] BY <1>4, SpendType DEF Crash, Kinds
  <2> QED BY <1>4, <2>1, WorkerStates DEF Crash, TypeOK, objects, caches
<1>5. CASE Start BY <1>5 DEF Start, TypeOK, objects
<1> QED BY <1>1, <1>2, <1>3, <1>4, <1>5

LEMMA ClusterTyped ==
  ASSUME TypeOK,
         \/ \E a \in SLAs : Reselect(a) \/ RemoveSLA(a)
         \/ \E s \in Services : TouchService(s) \/ RemoveService(s)
         \/ \E p \in Pods : CollectGarbage(p) \/ CreatePod(p) \/ BindPod(p) \/ RemovePod(p)
  PROVE  TypeOK'
<1>1. ASSUME NEW a \in SLAs, Reselect(a) \/ RemoveSLA(a) PROVE TypeOK'
  <2>1. budget' \in [Kinds -> Nat] BY <1>1, SpendType DEF Reselect, RemoveSLA, Kinds
  <2>2. sla' \in [SLAs -> (SUBSET Services) \cup {None}]
    BY <1>1 DEF Reselect, RemoveSLA, Known, TypeOK
  <2> QED BY <1>1, <2>1, <2>2 DEF Reselect, RemoveSLA, TypeOK, caches, process
<1>2. ASSUME NEW s \in Services, TouchService(s) \/ RemoveService(s) PROVE TypeOK'
  <2>1. budget' \in [Kinds -> Nat] BY <1>2, SpendType DEF TouchService, RemoveService, Kinds
  <2>2. service' \in [Services -> ServiceObject \cup {None}]
    BY <1>2 DEF TouchService, RemoveService, TypeOK, ServiceObject
  <2> QED BY <1>2, <2>1, <2>2 DEF TouchService, RemoveService, TypeOK, caches, process
<1>3. ASSUME NEW p \in Pods, CreatePod(p) \/ RemovePod(p) PROVE TypeOK'
  <2>1. budget' \in [Kinds -> Nat] BY <1>3, SpendType DEF CreatePod, RemovePod, Kinds
  <2>2. pod' \in [Pods -> PodObject \cup {None}]
    BY <1>3 DEF CreatePod, RemovePod, TypeOK, PodObject
  <2> QED BY <1>3, <2>1, <2>2 DEF CreatePod, RemovePod, TypeOK, caches, process
<1>4. ASSUME NEW p \in Pods, BindPod(p) PROVE TypeOK'
  <2>1. pod' \in [Pods -> PodObject \cup {None}] BY <1>4 DEF BindPod, TypeOK, PodObject
  <2> QED BY <1>4, <2>1 DEF BindPod, TypeOK, caches, process
<1>5. ASSUME NEW p \in Pods, CollectGarbage(p) PROVE TypeOK'
  <2>1. podScale' \in [Pods -> PodScaleObject \cup {None}] BY <1>5, DeleteType DEF CollectGarbage
  <2> QED BY <1>5, <2>1 DEF CollectGarbage, TypeOK, caches, process
<1> QED BY <1>1, <1>2, <1>3, <1>4, <1>5

LEMMA TypeStep == TypeOK /\ [Next]_vars => TypeOK'
<1> SUFFICES ASSUME TypeOK, [Next]_vars PROVE TypeOK' OBVIOUS
<1>1. CASE UNCHANGED vars BY <1>1 DEF TypeOK, vars, objects, caches, process
<1>2. ASSUME NEW w \in Workers,
             \/ \E a \in SLAs : TakeKey(w, a)
             \/ ListTracked(w) \/ VisitService(w) \/ DropService(w) \/ SweepNext(w) \/ Forget(w)
      PROVE  TypeOK'
  <2>1. worker' \in [Workers -> WorkerState] /\ queue' \subseteq SLAs BY <1>2, ReadTyped
  <2>2. UNCHANGED <<objects, caches, up, budget>> BY <1>2, ReadOnly
  <2> QED BY <2>1, <2>2 DEF TypeOK, objects, caches
<1>3. ASSUME NEW w \in Workers,
             CreatePodScale(w) \/ DeletePodScale(w) \/ MarkService(w) \/ UpdateService(w) \/ SweepPodScale(w)
      PROVE  TypeOK'
  BY <1>3, CreateTyped, DeleteTyped, MarkTyped, UpdateTyped
<1> QED BY <1>1, <1>2, <1>3, ProcessTyped, ClusterTyped DEF Next, SyncStep

(* Every reachable state of the PodScale controller is well typed: a worker*)
(* only creates PodScales with a node or the mark of none, points at       *)
(* versions that existed and labels Services with SLAs, also those that    *)
(* others have replaced meanwhile (sync.go 19-231).                        *)
THEOREM ControllerTypeCorrect == Spec => []TypeOK
BY InitTyped, TypeStep, PTL DEF Spec
=============================================================================
