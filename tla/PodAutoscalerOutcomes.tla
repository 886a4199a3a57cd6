----------------------- MODULE PodAutoscalerOutcomes -----------------------
(***************************************************************************)
(* What the pod autoscaler brings about at the API server, for every value *)
(* of the constants.                                                       *)
(*                                                                         *)
(* First: it implements PodScaleStore.  What the invariants of             *)
(* PodAutoscalerProofs do not yet say: a message only names Pods of its    *)
(* node, so that an entry fits the node of its Pod; the copy an updater is *)
(* about to store carries the label and the amount it was made for.        *)
(*                                                                         *)
(* Then, for one updater worker -- with two, runs of PodAutoscaler show    *)
(* both fail: a Pod that was resized and its PodScale stay apart only as    *)
(* long as a message that makes up for it is still to be applied; and once *)
(* nothing is left to do, the Pods of a node fit it.  In between a node may *)
(* have given more than it has, by a message that was applied in part; such*)
(* a message is never forgotten.                                           *)
(***************************************************************************)
EXTENDS PodAutoscalerProofs

AtHome(message) ==
  \A k \in DOMAIN message.entries : NodeOf[message.entries[k].pod] = message.node

HomeMessages == {message \in Message : AtHome(message)}
HomeFitting  == {message \in HomeMessages : Fitting(message)}
HomeInv      == Carries(HomeMessages, HomeFitting)

CopyInv ==
  \A u \in Updaters : updater[u].at \in Writing =>
    updater[u].copy.label = "Kosmos" /\ updater[u].copy.size = Current(u).actual

RefinementInv == IInv /\ CopiesInv /\ HomeInv /\ CopyInv

----------------------------------------------------------------------------
(* Messages stay at home. *)

(* One amount is at most the total. *)
LEMMA WithinTotal ==
  ASSUME NEW amounts \in Seq(Nat), NEW k \in 1..Len(amounts)
  PROVE  amounts[k] <= Total(amounts)
<1> DEFINE sum == RunningTotal(amounts)
<1> DEFINE n == Len(amounts)
<1> DEFINE S == {j \in Nat : k <= j /\ j <= n => amounts[k] <= sum[j]}
<1>1. n \in Nat /\ \A j \in 1..n : sum[j] = sum[j - 1] + amounts[j]
  BY RunningTotalFacts
<1>2. \A j \in 0..n : sum[j] \in Nat
  BY RunningTotalType
<1>3. \A j \in 1..n : amounts[j] \in Nat
  OBVIOUS
<1> HIDE DEF sum, n
<1>4. 0 \in S
  OBVIOUS
<1>5. ASSUME NEW j \in Nat, j \in S PROVE j + 1 \in S
  <2>1. SUFFICES ASSUME k <= j + 1, j + 1 <= n PROVE amounts[k] <= sum[j + 1]
    OBVIOUS
  <2>2. /\ sum[j + 1] = sum[j] + amounts[j + 1]
        /\ sum[j] \in Nat /\ amounts[j + 1] \in Nat /\ amounts[k] \in Nat
    <3>1. j + 1 \in 1..n /\ j \in 0..n /\ (j + 1) - 1 = j
      BY <1>1, <2>1
    <3> QED BY <1>1, <1>2, <1>3, <3>1 DEF n
  <2>3. CASE k = j + 1
    BY <2>2, <2>3
  <2>4. CASE k <= j
    <3>1. amounts[k] <= sum[j]
      BY <1>1, <1>5, <2>1, <2>4
    <3> QED BY <2>2, <3>1
  <2> QED BY <2>1, <2>3, <2>4
<1>6. Nat \subseteq S
  <2> HIDE DEF S
  <2> QED BY <1>4, <1>5, SetInduction
<1>7. amounts[k] <= sum[n]
  BY <1>1, <1>6 DEF n
<1> QED BY <1>7 DEF sum, n, Total

(* A recommender only lists Pods of the node it works on. *)
LEMMA RecommendedHome ==
  ASSUME TypeOK, NEW n \in Nodes, NEW kept \in SUBSET {p \in Pods : NodeOf[p] = n /\ scaleCache[p] # None},
         NEW message \in Recommended(n, kept)
  PROVE  message \in HomeMessages
<1>1. message \in Message
  <2>1. kept \in SUBSET {p \in Pods : scaleCache[p] # None}
    OBVIOUS
  <2> QED BY <2>1, RecommendedFacts
<1>2. PICK order \in Orders(kept \ Unscalable), desired \in Wishes(kept \ Unscalable) :
        message = AsMessage(n, order, desired, kept \ Unscalable # kept)
  BY DEF Recommended
<1>3. \A k \in DOMAIN order : order[k] \in kept
  BY DEF Orders
<1>4. /\ message.node = n
      /\ message.entries = [k \in DOMAIN order |-> Recommendation(order[k], desired[order[k]])]
  BY <1>2 DEF AsMessage
<1>5. \A k \in DOMAIN message.entries : message.entries[k].pod = order[k]
  BY <1>4 DEF Recommendation
<1> QED BY <1>1, <1>3, <1>4, <1>5 DEF HomeMessages, AtHome

(* A contention manager changes neither node nor Pods. *)
LEMMA ManagedHome ==
  ASSUME TypeOK, HomeInv, NEW m \in Managers, ManageNode(m)
  PROVE  manager' \in [Managers -> HomeFitting \cup {None}]
<1> DEFINE message == Head(recommenderOut)
<1>1. manager \in [Managers -> HomeFitting \cup {None}] /\ recommenderOut \in Seq(HomeMessages)
  BY DEF HomeInv, Carries
<1>2. recommenderOut # <<>>
  BY ManagedFacts
<1>3. message \in HomeMessages
  BY <1>1, <1>2, TakeHead
<1>4. ASSUME NEW solved \in Message, Fitting(solved), solved.node = message.node,
             DOMAIN solved.entries = DOMAIN message.entries,
             \A k \in DOMAIN solved.entries :
               solved.entries[k] = [message.entries[k] EXCEPT !.actual = solved.entries[k].actual]
      PROVE  solved \in HomeFitting
  <2> HIDE DEF message
  <2>1. ASSUME NEW k \in DOMAIN solved.entries PROVE solved.entries[k].pod = message.entries[k].pod
    <3>1. message.entries[k] \in Entry
      BY <1>3, <1>4, EntryAt DEF HomeMessages
    <3>2. solved.entries[k] = [message.entries[k] EXCEPT !.actual = solved.entries[k].actual]
      BY <1>4
    <3> QED BY <3>1, <3>2 DEF Entry
  <2> QED BY <1>3, <1>4, <2>1 DEF HomeFitting, HomeMessages, AtHome
<1>5. \/ manager' = manager
      \/ \E solved \in HomeFitting : manager' = [manager EXCEPT ![m] = solved]
  BY <1>4, ManagedFacts
<1> QED BY <1>1, <1>5

(* Wherever a message is, its Pods are of its node. *)
LEMMA HomeStep ==
  ASSUME TypeOK, HomeInv, [Next]_vars
  PROVE  HomeInv'
<1>1. PICK Raw, Settled : Raw = HomeMessages /\ Settled = HomeFitting
  OBVIOUS
<1>2. Carries(Raw, Settled)
  BY <1>1 DEF HomeInv
<1>3. ASSUME NEW r \in Recommenders, RecommendNode(r)
      PROVE  recommender' \in [Recommenders -> Raw \cup {None}]
  <2>1. recommender \in [Recommenders -> Raw \cup {None}]
    BY <1>2 DEF Carries
  <2>2. \/ recommender' = recommender
        \/ \E n \in Nodes : \E kept \in SUBSET {p \in Pods : NodeOf[p] = n /\ scaleCache[p] # None} :
             \E message \in Recommended(n, kept) : recommender' = [recommender EXCEPT ![r] = message]
    <3>1. \/ UNCHANGED recommender
          \/ \E n \in nodeQueue :
               \E skipped \in SUBSET {p \in Pods : NodeOf[p] = n /\ scaleCache[p] # None} :
                 LET kept == {p \in {q \in Pods : NodeOf[q] = n /\ scaleCache[q] # None} \ skipped :
                                podCache[p] # None}
                 IN  \E message \in Recommended(n, kept) :
                       recommender' = [recommender EXCEPT ![r] = message]
      BY <1>3 DEF RecommendNode
    <3>2. nodeQueue \subseteq Nodes
      BY DEF TypeOK
    <3>3. ASSUME NEW n \in Nodes, NEW skipped
          PROVE  {p \in {q \in Pods : NodeOf[q] = n /\ scaleCache[q] # None} \ skipped : podCache[p] # None}
                   \in SUBSET {p \in Pods : NodeOf[p] = n /\ scaleCache[p] # None}
      OBVIOUS
    <3> QED BY <3>1, <3>2, <3>3
  <2>3. CASE recommender' = recommender
    BY <2>1, <2>3
  <2>4. CASE \E n \in Nodes : \E kept \in SUBSET {p \in Pods : NodeOf[p] = n /\ scaleCache[p] # None} :
               \E message \in Recommended(n, kept) : recommender' = [recommender EXCEPT ![r] = message]
    <3>1. PICK message \in HomeMessages : recommender' = [recommender EXCEPT ![r] = message]
      BY <2>4, RecommendedHome
    <3> QED BY <1>1, <2>1, <3>1
  <2> QED BY <2>2, <2>3, <2>4
<1>4. \A m \in Managers : ManageNode(m) => manager' \in [Managers -> Settled \cup {None}]
  BY <1>1, ManagedHome
<1>5. Carries(Raw, Settled)'
  BY <1>2, <1>3, <1>4, OnlyMoved
<1> QED BY <1>1, <1>5 DEF HomeInv, Carries

(* What an updater stores is positive and within the node of its Pod. *)
LEMMA CurrentFits ==
  ASSUME TypeInv, HomeInv, NEW u \in Updaters, updater[u].at \in Writing
  PROVE  Current(u).actual \in 1..Capacity[NodeOf[Current(u).pod]]
<1> DEFINE message == updater[u].message
<1> DEFINE amounts == Actual(message.entries)
<1>1. message \in HomeFitting /\ updater[u].k \in DOMAIN message.entries /\ Current(u).actual > 0
  BY DEF HomeInv, Carries, TypeInv, WorkerInv, Writing
<1>2. message \in Message /\ Fitting(message) /\ AtHome(message)
  BY <1>1 DEF HomeFitting, HomeMessages
<1>3. message.entries \in Seq(Entry) /\ message.node \in Nodes
  BY <1>2 DEF Message
<1>4. amounts \in Seq(Nat) /\ Len(amounts) = Len(message.entries) /\ Total(amounts) \in Nat
  <2> HIDE DEF message
  <2> QED BY <1>3, EntriesType, RunningTotalType
<1>5. amounts[updater[u].k] = Current(u).actual /\ updater[u].k \in 1..Len(amounts)
  BY <1>1, <1>3, <1>4 DEF Actual, Current
<1>6. Current(u).actual <= Total(amounts) /\ Current(u).actual \in Nat
  <2> HIDE DEF amounts
  <2> QED BY <1>4, <1>5, WithinTotal
<1>7. Total(amounts) <= Capacity[message.node] /\ NodeOf[Current(u).pod] = message.node
  BY <1>1, <1>2 DEF Fitting, AtHome, Current
<1>8. Capacity[message.node] \in Nat
  BY <1>3, AmountAssumption
<1> HIDE DEF amounts, message
<1> QED BY <1>1, <1>4, <1>6, <1>7, <1>8

----------------------------------------------------------------------------
(* Copies. *)

(* A copy keeps the label and the amount it was made with. *)
LEMMA CopyInvStep ==
  ASSUME TypeInv, CopyInv, [Next]_vars
  PROVE  CopyInv'
<1>1. SUFFICES ASSUME NEW u \in Updaters, updater'[u].at \in Writing
               PROVE  updater'[u].copy.label = "Kosmos" /\ updater'[u].copy.size = Current(u)'.actual
  BY DEF CopyInv
<1>2. CASE /\ updater[u].at \in Writing
           /\ Current(u)' = Current(u)
           /\ updater'[u].copy = updater[u].copy
  BY <1>2 DEF CopyInv
<1> DEFINE cached == podCache[Current(u).pod]
<1>3. CASE /\ updater[u].at = "entry"
           /\ updater[u].k \in DOMAIN updater[u].message.entries
           /\ Current(u)' = Current(u)
           /\ cached # None /\ cached.label = "Kosmos"
           /\ updater'[u].copy = SyncedPod(cached, Current(u))
  <2>1. updater[u] \in UpdaterState /\ updater[u].at # "idle"
    BY <1>3 DEF TypeInv, TypeOK
  <2>2. updater[u].message \in Message
    BY <2>1, BusyType
  <2>3. Current(u).pod \in Pods
    BY <1>3, <2>2, EntryAt DEF Current
  <2>4. cached \in PodObject
    BY <1>3, <2>3 DEF TypeInv, TypeOK
  <2> HIDE DEF cached
  <2> QED BY <1>3, <2>4 DEF SyncedPod, PodObject
<1> QED BY <1>1, <1>2, <1>3, WritingStep

----------------------------------------------------------------------------
(* The refinement. *)

(* The first state is one of PodScaleStore. *)
LEMMA InitStore == Init => Store!Init
BY DEF Init, Store!Init

(* The write of a copy of the stored version is a resize. *)
LEMMA WritePodResizes ==
  ASSUME RefinementInv, NEW u \in Updaters, WritePod(u)
  PROVE  UNCHANGED <<pod, scale>> \/ Store!Resize(Current(u).pod)
<1> DEFINE p == Current(u).pod
<1> DEFINE copy == updater[u].copy
<1>1. /\ updater[u].at \in Writing /\ UNCHANGED scale
      /\ \/ pod' = pod
         \/ /\ pod[p] # None /\ pod[p].rv = copy.rv
            /\ pod' = [pod EXCEPT ![p] = Stored(pod[p], copy)]
  BY DEF WritePod, StillCurrent, Writing
<1>2. CASE pod' = pod
  BY <1>1, <1>2
<1>3. CASE pod' # pod
  <2>1. copy \in PodObject /\ p \in Pods
    BY <1>1, WritingFacts DEF RefinementInv, IInv
  <2>2. pod \in [Pods -> PodObject \cup {None}] /\ pod[p] \in PodObject
    BY <1>1, <1>3, <2>1 DEF RefinementInv, IInv, TypeInv, TypeOK
  <2>3. pod[p].label = "Kosmos"
    <3>1. CopySound(u)
      BY DEF RefinementInv, CopiesInv
    <3> QED BY <1>1, <1>3, <3>1 DEF CopySound
  <2>4. copy.label = "Kosmos" /\ copy.size = Current(u).actual
    BY <1>1 DEF RefinementInv, CopyInv
  <2>5. Current(u).actual \in 1..Capacity[NodeOf[p]]
    BY <1>1, CurrentFits DEF RefinementInv, IInv
  <2> HIDE DEF p, copy
  <2>6. Stored(pod[p], copy) = pod[p]
          \/ Stored(pod[p], copy) = [copy EXCEPT !.rv = pod[p].rv + 1]
    BY DEF Stored
  <2>7. pod' = [pod EXCEPT ![p] = Stored(pod[p], copy)] /\ pod[p] # None
    BY <1>1, <1>3
  <2>8. CASE Stored(pod[p], copy) = pod[p]
    <3>1. pod' = pod
      BY <2>1, <2>2, <2>7, <2>8
    <3> QED BY <1>3, <3>1
  <2>9. CASE Stored(pod[p], copy) = [copy EXCEPT !.rv = pod[p].rv + 1]
    <3>1. Stored(pod[p], copy) = [rv |-> pod[p].rv + 1, label |-> "Kosmos", size |-> Current(u).actual]
      BY <2>1, <2>4, <2>9 DEF PodObject
    <3> DEFINE new == [rv |-> pod[p].rv + 1, label |-> "Kosmos", size |-> Current(u).actual]
    <3>2. pod' = [pod EXCEPT ![p] = new] /\ pod'[p] = new
      BY <2>1, <2>2, <2>7, <3>1
    <3>3. new \in PodObject /\ new.size = Current(u).actual
      BY <2>2, <2>5 DEF PodObject, Positive
    <3>4. pod'[p] # None
      BY <3>2, <3>3, NoneAssumption
    <3> QED BY <1>1, <2>3, <2>5, <2>7, <3>2, <3>3, <3>4 DEF Store!Resize, p
  <2> QED BY <2>6, <2>8, <2>9
<1> QED BY <1>2, <1>3 DEF p

(* The write of an entry computed from the stored version is a record. *)
LEMMA WriteScaleRecords ==
  ASSUME RefinementInv, NEW u \in Updaters, WriteScale(u)
  PROVE  UNCHANGED <<pod, scale>> \/ Store!Record(Current(u).pod)
<1> DEFINE e == Current(u)
<1> DEFINE p == e.pod
<1> DEFINE new == [rv |-> e.base, desired |-> e.desired, actual |-> e.actual]
<1>1. /\ updater[u].at \in Writing /\ UNCHANGED pod
      /\ \/ scale' = scale
         \/ /\ scale[p] # None /\ scale[p].rv = e.base
            /\ scale' = [scale EXCEPT ![p] = Stored(scale[p], new)]
  BY DEF WriteScale, StillCurrent, Writing
<1>2. CASE scale' = scale
  BY <1>1, <1>2
<1>3. CASE scale' # scale
  <2>1. e \in Entry /\ p \in Pods /\ EntrySound(e) /\ e.actual <= Capped(e.desired)
    BY <1>1, CurrentSound DEF RefinementInv
  <2>2. scale \in [Pods -> ScaleObject \cup {None}] /\ scale[p] # None /\ scale[p] \in ScaleObject
    BY <1>1, <1>3, <2>1 DEF RefinementInv, IInv, TypeInv, TypeOK
  <2>3. e.actual \in 1..Capacity[NodeOf[p]]
    BY <1>1, CurrentFits DEF RefinementInv, IInv
  <2>4. e.desired \in Positive /\ scale[p].actual \in Positive /\ scale[p].rv \in Positive /\ e.base = scale[p].rv
    BY <1>1, <1>3, <2>1, <2>2 DEF Entry, ScaleObject
  <2>5. 2 * e.desired <= 3 * scale[p].actual
    BY <2>1, <2>2, <2>4 DEF EntrySound
  <2>6. e.actual <= Store!MayGrowTo(p)
    <3>1. Capped(e.desired) \in Positive /\ Capped(e.desired) <= Larger(e.desired, Lower)
      BY <2>4, CappedType
    <3>2. e.desired <= (3 * scale[p].actual) \div 2
      BY <2>4, <2>5 DEF Positive
    <3>3. (3 * scale[p].actual) \div 2 \in Int
      BY <2>4 DEF Positive
    <3> QED BY <2>1, <2>3, <2>4, <3>1, <3>2, <3>3, AmountAssumption DEF Store!MayGrowTo, Store!Larger, Larger, Positive
  <2>7. Capacity[NodeOf[p]] \in Nat /\ Store!MayGrowTo(p) \in Int
    <3>1. NodeOf[p] \in Nodes
      BY <2>1, NodeAssumption
    <3>2. (3 * scale[p].actual) \div 2 \in Int
      BY <2>4 DEF Positive
    <3> QED BY <3>1, <3>2, AmountAssumption DEF Store!MayGrowTo, Store!Larger, Positive
  <2> HIDE DEF e, p
  <2>8. e.actual \in 1..Store!Smaller(Store!MayGrowTo(p), Capacity[NodeOf[p]])
    BY <2>3, <2>6, <2>7 DEF Store!Smaller
  <2>9. scale' = [scale EXCEPT ![p] = Stored(scale[p], new)]
    BY <1>1, <1>3
  <2>10. CASE Stored(scale[p], new) = scale[p]
    <3>1. scale' = scale
      BY <2>1, <2>2, <2>9, <2>10
    <3> QED BY <1>3, <3>1
  <2>11. CASE Stored(scale[p], new) # scale[p]
    <3> DEFINE next == [rv |-> scale[p].rv + 1, desired |-> e.desired, actual |-> e.actual]
    <3>1. Stored(scale[p], new) = next
      BY <2>11 DEF Stored
    <3>2. scale' = [scale EXCEPT ![p] = next] /\ scale'[p] = next
      BY <2>1, <2>2, <2>9, <3>1
    <3>3. next \in ScaleObject /\ next.desired = e.desired /\ next.actual = e.actual
      BY <2>3, <2>4 DEF ScaleObject, Positive
    <3>4. scale'[p] # None
      BY <3>2, <3>3, NoneAssumption
    <3> QED BY <1>1, <2>2, <2>8, <3>2, <3>3, <3>4 DEF Store!Record, p, e
  <2> QED BY <2>10, <2>11
<1> QED BY <1>2, <1>3 DEF p, e

(* The sidecar's patches are patches, or change nothing. *)
LEMMA SidecarPatches ==
  ASSUME RefinementInv, NEW p \in Pods, SidecarPatch(p)
  PROVE  UNCHANGED <<pod, scale>> \/ Store!Patch(p)
<1>1. /\ pod \in [Pods -> PodObject \cup {None}] /\ pod[p] # None /\ pod[p] \in PodObject
      /\ p \in Sidecars /\ UNCHANGED scale
  BY DEF SidecarPatch, RefinementInv, IInv, TypeInv, TypeOK
<1>2. ASSUME NEW label, NEW size, Patch(p, [rv |-> pod[p].rv, label |-> label, size |-> size])
      PROVE  \/ pod' = pod
             \/ pod' = [pod EXCEPT ![p] = [rv |-> pod[p].rv + 1, label |-> label, size |-> size]]
  <2> DEFINE old == pod[p]
  <2> DEFINE new == [rv |-> old.rv, label |-> label, size |-> size]
  <2>1. [new EXCEPT !.rv = old.rv + 1] = [rv |-> old.rv + 1, label |-> label, size |-> size]
    OBVIOUS
  <2>2. pod' = [pod EXCEPT ![p] = IF new = old THEN old ELSE [new EXCEPT !.rv = old.rv + 1]]
    BY <1>2 DEF Patch, Stored
  <2> HIDE DEF new
  <2> QED BY <1>1, <2>1, <2>2
<1>3. CASE \E label \in {"VerSca20", "Kosmos"} : Patch(p, [pod[p] EXCEPT !.label = label])
  <2>1. PICK label \in {"VerSca20", "Kosmos"} : Patch(p, [pod[p] EXCEPT !.label = label])
    BY <1>3
  <2>2. [pod[p] EXCEPT !.label = label] = [rv |-> pod[p].rv, label |-> label, size |-> pod[p].size]
    BY <1>1 DEF PodObject
  <2> QED BY <1>1, <1>2, <2>1, <2>2 DEF Store!Patch
<1>4. CASE \E size \in {ZeroSize, Requests[p]} : Patch(p, [pod[p] EXCEPT !.size = size])
  <2>1. PICK size \in {ZeroSize, Requests[p]} : Patch(p, [pod[p] EXCEPT !.size = size])
    BY <1>4
  <2>2. [pod[p] EXCEPT !.size = size] = [rv |-> pod[p].rv, label |-> pod[p].label, size |-> size]
    BY <1>1 DEF PodObject
  <2> QED BY <1>1, <1>2, <2>1, <2>2 DEF Store!Patch
<1> QED BY <1>3, <1>4 DEF SidecarPatch

(* Every step of the pipeline is a step of PodScaleStore or invisible to it.*)
LEMMA StoreStep ==
  ASSUME RefinementInv, [Next]_vars
  PROVE  [Store!Next]_Store!vars
<1> DEFINE Hidden == UNCHANGED <<pod, scale>>
<1> DEFINE Goal == Hidden \/ \E p \in Pods : \/ Store!Resize(p) \/ Store!Record(p) \/ Store!Touch(p)
                                          \/ Store!Patch(p) \/ Store!Remove(p)
<1> SUFFICES Goal
  BY DEF Store!Next, Store!vars
<1>1. ASSUME NEW u \in Updaters, UpdaterStep(u) PROVE Goal
  <2>1. CASE WritePod(u)
    <3>1. Current(u).pod \in Pods
      BY <2>1, WritingFacts DEF WritePod, Writing, RefinementInv, IInv
    <3> QED BY <2>1, <3>1, WritePodResizes
  <2>2. CASE WriteScale(u)
    <3>1. Current(u).pod \in Pods
      BY <2>2, WritingFacts DEF WriteScale, Writing, RefinementInv, IInv
    <3> QED BY <2>2, <3>1, WriteScaleRecords
  <2>3. CASE TakeMessage(u) \/ PrepareEntry(u) \/ DryRun(u) \/ Requeue(u)
    <3>1. Hidden
      BY <2>3 DEF TakeMessage, PrepareEntry, DryRun, Requeue, api
    <3> QED BY <3>1
  <2> QED BY <1>1, <2>1, <2>2, <2>3 DEF UpdaterStep
<1>2. CASE ProcessStep
  <2>1. ASSUME NEW r \in Recommenders, RecommenderStep(r) PROVE Hidden
    BY <2>1 DEF RecommenderStep, RecommendNode, SendRecommendation, api
  <2>2. ASSUME NEW m \in Managers, ManagerStep(m) PROVE Hidden
    BY <2>2 DEF ManagerStep, ManageNode, SendSolution, Panic, api
  <2>3. ASSUME NEW n \in Nodes, EnqueueNode(n) PROVE Hidden
    BY <2>3 DEF EnqueueNode, api
  <2>4. CASE Crash \/ Restart
    BY <2>4 DEF Crash, Restart, api
  <2> HIDE DEF Hidden
  <2> QED BY <1>1, <1>2, <2>1, <2>2, <2>3, <2>4 DEF ProcessStep
<1>3. CASE EnvironmentStep
  <2>1. PICK p \in Pods : \/ SyncPod(p) \/ SyncScale(p) \/ TouchPod(p) \/ SidecarPatch(p)
                          \/ RemovePod(p) \/ RemoveScale(p)
    BY <1>3 DEF EnvironmentStep
  <2>2. CASE SyncPod(p) \/ SyncScale(p)
    BY <2>2 DEF SyncPod, SyncScale, api
  <2>3. CASE TouchPod(p)
    <3>1. pod \in [Pods -> PodObject \cup {None}] /\ pod[p] # None /\ pod[p] \in PodObject
      BY <2>3 DEF TouchPod, RefinementInv, IInv, TypeInv, TypeOK
    <3>2. pod' = [pod EXCEPT ![p] = [rv |-> pod[p].rv + 1, label |-> pod[p].label, size |-> pod[p].size]]
      <4>1. [pod[p] EXCEPT !.rv = @ + 1] = [rv |-> pod[p].rv + 1, label |-> pod[p].label, size |-> pod[p].size]
        BY <3>1 DEF PodObject
      <4>2. pod' = [pod EXCEPT ![p] = [pod[p] EXCEPT !.rv = @ + 1]]
        BY <2>3, <3>1 DEF TouchPod
      <4> QED BY <4>1, <4>2
    <3>3. Store!Touch(p)
      BY <2>3, <3>1, <3>2 DEF TouchPod, Store!Touch
    <3> QED BY <3>3
  <2>4. CASE SidecarPatch(p)
    <3>1. Hidden \/ Store!Patch(p)
      BY <2>4, SidecarPatches
    <3> QED BY <3>1
  <2>5. CASE RemovePod(p)
    <3>1. Store!Remove(p)
      BY <2>5 DEF RemovePod, Store!Remove
    <3> QED BY <3>1
  <2>6. CASE RemoveScale(p)
    <3>1. Store!Remove(p)
      BY <2>6 DEF RemoveScale, Store!Remove
    <3> QED BY <3>1
  <2> QED BY <2>1, <2>2, <2>3, <2>4, <2>5, <2>6
<1>4. CASE UNCHANGED vars
  BY <1>4 DEF vars, api
<1> HIDE DEF Hidden
<1> QED BY <1>2, <1>3, <1>4 DEF Next

(* Everything starts at home, with no copy made. *)
LEMMA InitRefinementInv == Init => RefinementInv
<1> SUFFICES ASSUME Init PROVE RefinementInv
  OBVIOUS
<1>1. HomeInv
  BY DEF Init, HomeInv, Carries, Idle
<1>2. CopyInv
  BY DEF Init, CopyInv, Idle, Writing
<1> QED BY <1>1, <1>2, InitIInv, InitCopiesInv DEF RefinementInv

(* Every step keeps messages at home and copies true. *)
LEMMA NextRefinementInv == RefinementInv /\ [Next]_vars => RefinementInv'
<1> SUFFICES ASSUME RefinementInv, [Next]_vars PROVE RefinementInv'
  OBVIOUS
<1>1. IInv /\ CopiesInv /\ TypeInv /\ TypeOK /\ HomeInv /\ CopyInv
  BY DEF RefinementInv, IInv, TypeInv
<1>2. IInv' /\ CopiesInv'
  BY <1>1, NextIInv, NextCopiesInv
<1>3. HomeInv' /\ CopyInv'
  BY <1>1, HomeStep, CopyInvStep
<1> QED BY <1>2, <1>3 DEF RefinementInv

(* The pipeline implements the store's specification: no interleaving of    *)
(* its goroutines, retries, panics and crashes shows a step that            *)
(* PodScaleStore does not have.                                            *)
THEOREM ImplementsStore == Spec => StoreImplemented
<1>1. RefinementInv /\ [Next]_vars => [Store!Next]_Store!vars
  BY StoreStep
<1> QED BY <1>1, InitStore, InitRefinementInv, NextRefinementInv, PTL
        DEF Spec, StoreImplemented, Store!Spec

----------------------------------------------------------------------------
(* One updater: Pods and PodScales are synchronized. *)

(* The process runs, and so far none of these kinds has happened. *)
Spared(kinds) == up /\ \A kind \in kinds : budget[kind] = Limits[kind]

(* No sidecar has patched a Pod and nothing was deleted. *)
Quiet == Spared({"patches", "removals"})

(* Nothing that has not happened before and after a step is spent in it. *)
LEMMA NotSpent ==
  ASSUME TypeOK, NEW kind \in Kinds, budget[kind] = Limits[kind], budget'[kind] = Limits[kind]
  PROVE  ~Spend(kind)
<1>1. budget[kind] \in Nat
  BY DEF TypeOK
<1>2. ASSUME Spend(kind) PROVE budget'[kind] = budget[kind] - 1
  BY <1>2 DEF Spend, TypeOK
<1> QED BY <1>1, <1>2

(* In a quiet step nothing is spent on patches and deletions. *)
LEMMA QuietSpends ==
  ASSUME TypeOK, Quiet, Quiet'
  PROVE  ~Spend("patches") /\ ~Spend("removals") /\ up /\ up'
<1>1. ~Spend("patches") /\ ~Spend("removals")
  BY NotSpent DEF Quiet, Spared, Kinds
<1>2. up /\ up'
  BY DEF Quiet, Spared
<1> QED BY <1>1, <1>2

(* Everything is there and labelled for the autoscaler. *)
Present ==
  \A p \in Pods :
    /\ pod[p] # None /\ pod[p].label = "Kosmos"
    /\ podCache[p] # None /\ podCache[p].label = "Kosmos"
    /\ scale[p] # None /\ scaleCache[p] # None

(* Nothing is deleted and no label changes. *)
LEMMA PresentStep ==
  ASSUME TypeInv, CopyInv, Present, Quiet, Quiet', [Next]_vars
  PROVE  Present'
<1>a. /\ pod \in [Pods -> PodObject \cup {None}] /\ scale \in [Pods -> ScaleObject \cup {None}]
      /\ podCache \in [Pods -> PodObject \cup {None}] /\ scaleCache \in [Pods -> ScaleObject \cup {None}]
      /\ TypeOK
  BY DEF TypeInv, TypeOK
<1>b. ~Spend("patches") /\ ~Spend("removals") /\ up /\ up'
  BY <1>a, QuietSpends
<1>c. \A p \in Pods : pod[p] \in PodObject /\ scale[p] \in ScaleObject
  BY <1>a DEF Present
<1>0. ASSUME UNCHANGED <<api, caches>> PROVE Present'
  BY <1>0 DEF Present, api, caches
<1>1. ASSUME NEW q \in Pods, NEW new \in PodObject, new.label = "Kosmos",
             pod' = [pod EXCEPT ![q] = new], UNCHANGED <<scale, caches>>
      PROVE  Present'
  <2>1. new # None
    BY NoneAssumption
  <2> QED BY <1>a, <1>1, <2>1 DEF Present, caches
<1>2. ASSUME NEW u \in Updaters, WritePod(u) PROVE Present'
  <2> DEFINE q == Current(u).pod
  <2> DEFINE copy == updater[u].copy
  <2>1. copy \in PodObject /\ q \in Pods /\ copy.label = "Kosmos"
    BY <1>2, WritingFacts DEF WritePod, Writing, CopyInv
  <2>2. /\ UNCHANGED <<scale, caches>>
        /\ pod' = pod \/ pod' = [pod EXCEPT ![q] = Stored(pod[q], copy)]
    BY <1>2 DEF WritePod
  <2> HIDE DEF q, copy
  <2>3. Stored(pod[q], copy) \in PodObject
    BY <1>c, <2>1, StoredPod
  <2>4. Stored(pod[q], copy).label = "Kosmos"
    BY <1>c, <2>1 DEF Stored, PodObject
  <2> QED BY <1>0, <1>1, <2>1, <2>2, <2>3, <2>4 DEF api
<1>3. ASSUME NEW u \in Updaters, WriteScale(u) PROVE Present'
  <2> DEFINE q == Current(u).pod
  <2> DEFINE new == [rv |-> Current(u).base, desired |-> Current(u).desired, actual |-> Current(u).actual]
  <2>1. new \in ScaleObject /\ q \in Pods
    BY <1>3, WritingFacts DEF WriteScale, Writing
  <2>2. /\ UNCHANGED <<pod, caches>>
        /\ scale' = scale \/ scale' = [scale EXCEPT ![q] = Stored(scale[q], new)]
    BY <1>3 DEF WriteScale
  <2> HIDE DEF q, new
  <2>3. Stored(scale[q], new) # None
    BY <1>c, <2>1, StoredScale, NoneAssumption
  <2> QED BY <1>a, <2>1, <2>2, <2>3 DEF Present, caches
<1>4. CASE ProcessStep
  <2>1. ASSUME NEW u \in Updaters, UpdaterStep(u) PROVE Present'
    BY <1>0, <1>2, <1>3, <2>1 DEF UpdaterStep, TakeMessage, PrepareEntry, DryRun, Requeue
  <2>2. ASSUME NEW r \in Recommenders, RecommenderStep(r) PROVE Present'
    BY <1>0, <2>2 DEF RecommenderStep, RecommendNode, SendRecommendation
  <2>3. ASSUME NEW m \in Managers, ManagerStep(m) PROVE Present'
    BY <1>0, <2>3 DEF ManagerStep, ManageNode, SendSolution, Panic
  <2>4. ASSUME NEW n \in Nodes, EnqueueNode(n) PROVE Present'
    BY <1>0, <2>4 DEF EnqueueNode
  <2>5. ~Crash /\ ~Restart
    BY <1>b DEF Crash, Stopped, Restart
  <2> QED BY <1>4, <2>1, <2>2, <2>3, <2>4, <2>5 DEF ProcessStep
<1>5. CASE EnvironmentStep
  <2>1. PICK p \in Pods : \/ SyncPod(p) \/ SyncScale(p) \/ TouchPod(p) \/ SidecarPatch(p)
                          \/ RemovePod(p) \/ RemoveScale(p)
    BY <1>5 DEF EnvironmentStep
  <2>2. CASE SyncPod(p)
    BY <1>a, <2>2 DEF SyncPod, api, Present
  <2>3. CASE SyncScale(p)
    BY <1>a, <2>3 DEF SyncScale, api, Present
  <2>4. CASE TouchPod(p)
    <3>1. [pod[p] EXCEPT !.rv = @ + 1] \in PodObject /\ [pod[p] EXCEPT !.rv = @ + 1].label = "Kosmos"
      BY <1>c DEF PodObject, Positive, Present
    <3>2. pod' = [pod EXCEPT ![p] = [pod[p] EXCEPT !.rv = @ + 1]] /\ UNCHANGED <<scale, caches>>
      BY <1>a, <2>4 DEF TouchPod
    <3> QED BY <1>1, <3>1, <3>2
  <2> QED BY <1>b, <2>1, <2>2, <2>3, <2>4 DEF SidecarPatch, RemovePod, RemoveScale
<1>6. CASE UNCHANGED vars
  BY <1>0, <1>6 DEF vars
<1> QED BY <1>4, <1>5, <1>6 DEF Next

Listed(list) == {list[k] : k \in DOMAIN list}

(* What a channel holds after a send and after a receive. *)
LEMMA ListedFacts ==
  ASSUME NEW S, NEW list \in Seq(S)
  PROVE  /\ \A x \in S : Listed(Append(list, x)) = Listed(list) \cup {x}
         /\ list # <<>> => Listed(list) = Listed(Tail(list)) \cup {Head(list)}
<1>1. ASSUME NEW x \in S PROVE Listed(Append(list, x)) = Listed(list) \cup {x}
  <2>1. /\ DOMAIN Append(list, x) = 1..(Len(list) + 1) /\ DOMAIN list = 1..Len(list) /\ Len(list) \in Nat
        /\ Append(list, x)[Len(list) + 1] = x
        /\ \A k \in 1..Len(list) : Append(list, x)[k] = list[k]
    OBVIOUS
  <2>2. \A k \in 1..(Len(list) + 1) : k \in 1..Len(list) \/ k = Len(list) + 1
    BY <2>1
  <2> QED BY <2>1, <2>2 DEF Listed
<1>2. ASSUME list # <<>> PROVE Listed(list) = Listed(Tail(list)) \cup {Head(list)}
  <2>1. /\ Len(list) \in Nat /\ Len(list) > 0 /\ DOMAIN list = 1..Len(list)
        /\ DOMAIN Tail(list) = 1..(Len(list) - 1) /\ Head(list) = list[1]
        /\ \A k \in 1..(Len(list) - 1) : Tail(list)[k] = list[k + 1]
    BY <1>2
  <2>2. \A k \in 1..Len(list) : k = 1 \/ (k - 1 \in 1..(Len(list) - 1) /\ (k - 1) + 1 = k)
    BY <2>1
  <2>3. \A k \in 1..(Len(list) - 1) : k + 1 \in 1..Len(list)
    BY <2>1
  <2>4. 1 \in 1..Len(list)
    BY <2>1
  <2>5. ASSUME NEW k \in DOMAIN list, k # 1 PROVE k - 1 \in DOMAIN Tail(list) /\ Tail(list)[k - 1] = list[k]
    BY <2>1, <2>2, <2>5
  <2>6. Listed(list) \subseteq Listed(Tail(list)) \cup {Head(list)}
    <3>1. ASSUME NEW k \in DOMAIN list PROVE list[k] \in Listed(Tail(list)) \cup {Head(list)}
      <4>1. CASE k = 1
        <5>1. Head(list) = list[1]
          BY <2>1
        <5> QED BY <4>1, <5>1
      <4>2. CASE k # 1
        BY <2>5, <4>2 DEF Listed
      <4> QED BY <4>1, <4>2
    <3> QED BY <3>1 DEF Listed
  <2>7. Listed(Tail(list)) \cup {Head(list)} \subseteq Listed(list)
    BY <2>1, <2>3, <2>4 DEF Listed
  <2> QED BY <2>6, <2>7
<1> QED BY <1>1, <1>2

(* What the rest of the process and the environment leave alone: the        *)
(* updaters, the sizes and the PodScales.  They move the version of a Pod. *)
Elsewhere ==
  /\ UNCHANGED <<updater, scale>>
  /\ \A p \in Pods : pod'[p].size = pod[p].size

(* In a quiet step, somebody else acts or an updater does. *)
LEMMA QuietStep ==
  ASSUME TypeOK, Quiet, Quiet', [Next]_vars
  PROVE  \/ Elsewhere /\ Listed(contentionManagerOut) \subseteq Listed(contentionManagerOut')
         \/ \E u \in Updaters : UpdaterStep(u)
<1> DEFINE Kept == Listed(contentionManagerOut) \subseteq Listed(contentionManagerOut')
<1> DEFINE Goal == Elsewhere /\ Kept
<1> SUFFICES Goal \/ \E u \in Updaters : UpdaterStep(u)
  OBVIOUS
<1>a. /\ pod \in [Pods -> PodObject \cup {None}] /\ contentionManagerOut \in Seq(Message)
      /\ manager \in [Managers -> Message \cup {None}]
  BY DEF TypeOK
<1>b. ~Spend("patches") /\ ~Spend("removals") /\ up /\ up'
  BY QuietSpends
<1>0. ASSUME UNCHANGED <<api, updater, contentionManagerOut>> PROVE Goal
  BY <1>0 DEF Elsewhere, api
<1>1. CASE ProcessStep
  <2>1. ASSUME NEW r \in Recommenders, RecommenderStep(r) PROVE Goal
    <3>1. UNCHANGED <<api, updater, contentionManagerOut>>
      BY <2>1 DEF RecommenderStep, RecommendNode, SendRecommendation
    <3> QED BY <1>0, <3>1
  <2>2. ASSUME NEW m \in Managers, ManagerStep(m) PROVE Goal
    <3>1. CASE ManageNode(m)
      <4>1. UNCHANGED <<api, updater, contentionManagerOut>>
        BY <3>1 DEF ManageNode
      <4> QED BY <1>0, <4>1
    <3>2. CASE SendSolution(m)
      <4>1. /\ manager[m] \in Message /\ UNCHANGED <<api, updater>>
            /\ contentionManagerOut' = Append(contentionManagerOut, manager[m])
        BY <1>a, <3>2 DEF SendSolution
      <4>2. Kept
        BY <1>a, <4>1, ListedFacts
      <4> QED BY <4>1, <4>2 DEF Elsewhere, api
    <3> QED BY <1>b, <2>2, <3>1, <3>2 DEF ManagerStep, Panic, Stopped
  <2>3. ASSUME NEW n \in Nodes, EnqueueNode(n) PROVE Goal
    <3>1. UNCHANGED <<api, updater, contentionManagerOut>>
      BY <2>3 DEF EnqueueNode
    <3> QED BY <1>0, <3>1
  <2>4. ~Crash /\ ~Restart
    BY <1>b DEF Crash, Stopped, Restart
  <2> HIDE DEF Goal
  <2> QED BY <1>1, <2>1, <2>2, <2>3, <2>4 DEF ProcessStep
<1>2. CASE EnvironmentStep
  <2>1. PICK p \in Pods : \/ SyncPod(p) \/ SyncScale(p) \/ TouchPod(p) \/ SidecarPatch(p)
                          \/ RemovePod(p) \/ RemoveScale(p)
    BY <1>2 DEF EnvironmentStep
  <2>2. CASE SyncPod(p) \/ SyncScale(p)
    <3>1. UNCHANGED <<api, updater, contentionManagerOut>>
      BY <2>2 DEF SyncPod, SyncScale, process
    <3> QED BY <1>0, <3>1
  <2>3. CASE TouchPod(p)
    <3>1. pod[p] \in PodObject /\ pod' = [pod EXCEPT ![p] = [pod[p] EXCEPT !.rv = @ + 1]]
      BY <1>a, <2>3 DEF TouchPod
    <3>2. [pod[p] EXCEPT !.rv = @ + 1].size = pod[p].size
      BY <3>1 DEF PodObject
    <3>3. \A q \in Pods : pod'[q].size = pod[q].size
      BY <1>a, <3>1, <3>2
    <3>4. UNCHANGED <<scale, updater, contentionManagerOut>>
      BY <2>3 DEF TouchPod, process
    <3> QED BY <3>3, <3>4 DEF Elsewhere
  <2> HIDE DEF Goal
  <2> QED BY <1>b, <2>1, <2>2, <2>3 DEF SidecarPatch, RemovePod, RemoveScale
<1>3. CASE UNCHANGED vars
  <2>1. UNCHANGED <<api, updater, contentionManagerOut>>
    BY <1>3 DEF vars, process
  <2> QED BY <1>0, <2>1
<1> QED BY <1>1, <1>2, <1>3 DEF Next

(* What is stored has the size that was to be stored. *)
LEMMA StoredSize ==
  /\ \A old \in PodObject, new \in PodObject : Stored(old, new).size = new.size
  /\ \A old \in ScaleObject, new \in ScaleObject : Stored(old, new).actual = new.actual
BY DEF Stored, PodObject, ScaleObject

(* The write of a Pod changes at most the size of the entry's Pod. *)
LEMMA PodWritten ==
  ASSUME TypeInv, CopyInv, NEW u \in Updaters, pod[Current(u).pod] # None, WritePod(u)
  PROVE  LET q == Current(u).pod IN
         /\ UNCHANGED <<scale, contentionManagerOut>>
         /\ pod' = pod \/ pod'[q].size = Current(u).actual
         /\ \A p \in Pods : p # q => pod'[p] = pod[p]
         /\ \/ Become(u, Requeueing(u))
            \/ /\ Become(u, [updater[u] EXCEPT !.at = "scale"])
               /\ pod'[q].size = Current(u).actual
<1> DEFINE copy == updater[u].copy
<1>a. PICK q : q = Current(u).pod
  OBVIOUS
<1>1. updater[u].at \in Writing
  BY DEF WritePod, Writing
<1>2. /\ q \in Pods /\ copy \in PodObject /\ copy.size = Current(u).actual
      /\ pod \in [Pods -> PodObject \cup {None}] /\ pod[q] \in PodObject
  BY <1>1, <1>a, WritingFacts DEF CopyInv, TypeInv, TypeOK
<1>3. /\ UNCHANGED <<scale, contentionManagerOut>>
      /\ \/ pod' = pod /\ Become(u, Requeueing(u))
         \/ /\ pod' = [pod EXCEPT ![q] = Stored(pod[q], copy)]
            /\ Become(u, Requeueing(u)) \/ Become(u, [updater[u] EXCEPT !.at = "scale"])
  BY <1>a DEF WritePod
<1> HIDE DEF copy
<1>4. ASSUME pod' = [pod EXCEPT ![q] = Stored(pod[q], copy)]
      PROVE  pod'[q].size = Current(u).actual /\ \A p \in Pods : p # q => pod'[p] = pod[p]
  <2>1. pod'[q] = Stored(pod[q], copy) /\ \A p \in Pods : p # q => pod'[p] = pod[p]
    BY <1>2, <1>4
  <2> QED BY <1>2, <2>1, StoredSize
<1> QED BY <1>3, <1>4, <1>a

(* The write of a PodScale changes at most that of the entry. *)
LEMMA ScaleWritten ==
  ASSUME TypeInv, NEW u \in Updaters, scale[Current(u).pod] # None, WriteScale(u)
  PROVE  LET q == Current(u).pod IN
         /\ UNCHANGED <<pod, contentionManagerOut>>
         /\ scale' = scale \/ scale'[q].actual = Current(u).actual
         /\ \A p \in Pods : p # q => scale'[p] = scale[p]
         /\ \/ Become(u, Requeueing(u))
            \/ /\ Become(u, NextEntry(u))
               /\ scale'[q].actual = Current(u).actual
<1>a. PICK q, new : q = Current(u).pod /\
        new = [rv |-> Current(u).base, desired |-> Current(u).desired, actual |-> Current(u).actual]
  OBVIOUS
<1>1. updater[u].at \in Writing
  BY DEF WriteScale, Writing
<1>2. /\ q \in Pods /\ new \in ScaleObject /\ new.actual = Current(u).actual
      /\ scale \in [Pods -> ScaleObject \cup {None}] /\ scale[q] \in ScaleObject
  BY <1>1, <1>a, WritingFacts DEF TypeInv, TypeOK
<1>3. /\ UNCHANGED <<pod, contentionManagerOut>>
      /\ \/ scale' = scale /\ Become(u, Requeueing(u))
         \/ /\ scale' = [scale EXCEPT ![q] = Stored(scale[q], new)]
            /\ Become(u, Requeueing(u)) \/ Become(u, NextEntry(u))
  BY <1>a DEF WriteScale
<1>4. ASSUME scale' = [scale EXCEPT ![q] = Stored(scale[q], new)]
      PROVE  scale'[q].actual = Current(u).actual /\ \A p \in Pods : p # q => scale'[p] = scale[p]
  <2>1. scale'[q] = Stored(scale[q], new) /\ \A p \in Pods : p # q => scale'[p] = scale[p]
    BY <1>2, <1>4
  <2> QED BY <1>2, <2>1, StoredSize
<1> QED BY <1>3, <1>4, <1>a

(* The updater goes on to the next call for the entry it is at. *)
GoesOn(u, at) ==
  /\ updater'[u].at = at
  /\ updater'[u].message = updater[u].message /\ updater'[u].k = updater[u].k

(* What a step of the updater makes of the message it holds and of those   *)
(* in its channel.                                                         *)
LEMMA WorkerMoves ==
  ASSUME TypeInv, CopyInv, Present, NEW u \in Updaters, UpdaterStep(u)
  PROVE  \/ /\ updater[u].at = "idle" /\ contentionManagerOut # <<>> /\ UNCHANGED api
            /\ contentionManagerOut' = Tail(contentionManagerOut)
            /\ updater'[u] = [at |-> "entry", message |-> Head(contentionManagerOut), k |-> 1]
         \/ /\ updater[u].at = "entry" /\ UNCHANGED <<api, contentionManagerOut>>
            /\ GoesOn(u, "dryRun")
         \/ /\ updater[u].at = "entry" /\ UNCHANGED <<api, contentionManagerOut>>
            /\ updater'[u] = Idle
            /\ updater[u].k \notin DOMAIN updater[u].message.entries \/ Current(u).actual <= 0
         \/ /\ updater[u].at \in Writing /\ UNCHANGED contentionManagerOut
            /\ updater'[u] = Requeueing(u)
            /\ UNCHANGED api \/ WritePod(u) \/ WriteScale(u)
         \/ /\ updater[u].at = "dryRun" /\ UNCHANGED <<api, contentionManagerOut>>
            /\ scale[Current(u).pod].rv = Current(u).base
            /\ GoesOn(u, "pod")
         \/ /\ updater[u].at = "pod" /\ UNCHANGED contentionManagerOut
            /\ WritePod(u) /\ pod'[Current(u).pod].size = Current(u).actual
            /\ GoesOn(u, "scale")
         \/ /\ updater[u].at = "scale" /\ UNCHANGED contentionManagerOut
            /\ WriteScale(u) /\ scale'[Current(u).pod].actual = Current(u).actual
            /\ updater'[u] = NextEntry(u)
         \/ /\ updater[u].at = "requeue" /\ UNCHANGED api
            /\ contentionManagerOut' = Append(contentionManagerOut, updater[u].message)
            /\ updater'[u] = Idle
<1>a. updater \in [Updaters -> UpdaterState]
  BY DEF TypeInv, TypeOK
<1>b. \A state : Become(u, state) => updater'[u] = state
  BY <1>a DEF Become
<1>c. updater[u].at # "idle" => updater[u].message \in Message /\ updater[u].k \in Positive
  BY <1>a, BusyType
<1>d. ASSUME updater[u].at \in Writing, NEW at, Become(u, [updater[u] EXCEPT !.at = at])
      PROVE  GoesOn(u, at)
  <2>1. updater[u] \in [at : {"dryRun", "pod", "scale"}, message : Message, k : Positive, copy : PodObject]
    <3>1. updater[u] \in UpdaterState
      BY <1>a
    <3> QED BY <1>d, <3>1 DEF UpdaterState, Idle, Writing
  <2>2. updater'[u] = [updater[u] EXCEPT !.at = at]
    BY <1>b, <1>d
  <2> QED BY <2>1, <2>2 DEF GoesOn
<1>1. CASE TakeMessage(u)
  <2>1. updater[u].at = "idle"
    BY <1>1 DEF TakeMessage, Idle
  <2> QED BY <1>1, <1>b, <2>1 DEF TakeMessage
<1>2. CASE PrepareEntry(u)
  <2>1. updater[u].at = "entry" /\ UNCHANGED <<api, contentionManagerOut>>
    BY <1>2 DEF PrepareEntry
  <2>2. updater[u].k \in DOMAIN updater[u].message.entries <=> ~(updater[u].k > Len(updater[u].message.entries))
    <3>1. updater[u].message.entries \in Seq(Entry) /\ updater[u].k \in Positive
      BY <1>c, <2>1 DEF Message
    <3> QED BY <3>1 DEF Positive
  <2>3. CASE ~(updater[u].k \in DOMAIN updater[u].message.entries)
    BY <1>2, <1>b, <2>1, <2>2, <2>3 DEF PrepareEntry
  <2>4. CASE updater[u].k \in DOMAIN updater[u].message.entries
    <3>1. Current(u).pod \in Pods
      BY <1>c, <2>1, <2>4, EntryAt DEF Current
    <3>2. podCache[Current(u).pod] # None /\ MayResize(podCache[Current(u).pod])
      BY <3>1 DEF Present, MayResize
    <3>3. \/ Become(u, Idle) /\ Current(u).actual <= 0
          \/ \E copy : Become(u, [at |-> "dryRun", message |-> updater[u].message,
                                  k |-> updater[u].k, copy |-> copy])
      BY <1>2, <2>2, <2>4, <3>2 DEF PrepareEntry
    <3>4. ASSUME NEW copy, Become(u, [at |-> "dryRun", message |-> updater[u].message,
                                      k |-> updater[u].k, copy |-> copy])
          PROVE  GoesOn(u, "dryRun")
      BY <1>b, <3>4 DEF GoesOn
    <3> QED BY <1>b, <2>1, <3>3, <3>4
  <2> QED BY <2>3, <2>4
<1>3. CASE DryRun(u)
  <2>1. /\ updater[u].at = "dryRun" /\ UNCHANGED <<api, contentionManagerOut>>
        /\ \/ Become(u, Requeueing(u))
           \/ /\ scale[Current(u).pod].rv = Current(u).base
              /\ Become(u, [updater[u] EXCEPT !.at = "pod"])
    BY <1>3 DEF DryRun, StillCurrent
  <2> QED BY <1>b, <1>d, <2>1 DEF Writing
<1>4. CASE WritePod(u)
  <2>1. updater[u].at = "pod" /\ updater[u].at \in Writing
    BY <1>4 DEF WritePod, Writing
  <2>2. Current(u).pod \in Pods
    BY <2>1, WritingFacts
  <2>3. /\ UNCHANGED contentionManagerOut
        /\ \/ Become(u, Requeueing(u))
           \/ /\ Become(u, [updater[u] EXCEPT !.at = "scale"])
              /\ pod'[Current(u).pod].size = Current(u).actual
    BY <1>4, <2>2, PodWritten DEF Present
  <2> QED BY <1>4, <1>b, <1>d, <2>1, <2>3
<1>5. CASE WriteScale(u)
  <2>1. updater[u].at = "scale" /\ updater[u].at \in Writing
    BY <1>5 DEF WriteScale, Writing
  <2>2. Current(u).pod \in Pods
    BY <2>1, WritingFacts
  <2>3. /\ UNCHANGED contentionManagerOut
        /\ \/ Become(u, Requeueing(u))
           \/ Become(u, NextEntry(u)) /\ scale'[Current(u).pod].actual = Current(u).actual
    BY <1>5, <2>2, ScaleWritten DEF Present
  <2> QED BY <1>5, <1>b, <2>1, <2>3
<1>6. CASE Requeue(u)
  BY <1>6, <1>b DEF Requeue
<1> QED BY <1>1, <1>2, <1>3, <1>4, <1>5, <1>6 DEF UpdaterStep

(* What the updater knows at the entry it writes: the PodScale is of the    *)
(* entry's version, and between the writes the Pod has the entry's size.   *)
AtEntry(u) ==
  LET q == Current(u).pod IN
  /\ updater[u].at \in {"pod", "scale"} => scale[q].rv = Current(u).base
  /\ updater[u].at = "scale" => pod[q].size = Current(u).actual

(* The entries the updater has gone through gave the Pods something. *)
Passed(u) ==
  updater[u].at \in {"entry"} \cup Writing =>
    \A i \in DOMAIN updater[u].message.entries :
      i < updater[u].k => updater[u].message.entries[i].actual > 0

(* The updater will come to the j-th entry of the message, or come back to it. *)
StillToApply(u, message, j) ==
  \/ message \in Listed(contentionManagerOut)
  \/ /\ updater[u].at # "idle" /\ message = updater[u].message
     /\ updater[u].at = "requeue" \/ updater[u].k <= j

(* That entry gives the PodScale what the Pod has, and no entry before it   *)
(* ends the updater's turn.                                                *)
MakesUp(p, message, j) ==
  /\ j \in DOMAIN message.entries
  /\ message.entries[j].pod = p
  /\ message.entries[j].base = scale[p].rv
  /\ message.entries[j].actual = pod[p].size
  /\ \A i \in DOMAIN message.entries : i <= j => message.entries[i].actual > 0

Excused(u, p) ==
  \/ pod[p].size = scale[p].actual
  \/ AsCreated(p)
  \/ \E message \in Message : \E j \in Nat : StillToApply(u, message, j) /\ MakesUp(p, message, j)

SyncInv(u) == Present /\ AtEntry(u) /\ Passed(u) /\ \A p \in Pods : Excused(u, p)

(* A step of the updater keeps what it knows. *)
LEMMA WorkerKnows ==
  ASSUME TypeInv, CopyInv, Present, NEW u \in Updaters, AtEntry(u), Passed(u), UpdaterStep(u)
  PROVE  AtEntry(u)' /\ Passed(u)'
<1> DEFINE M == updater[u].message
<1> DEFINE k == updater[u].k
<1>a. Idle.at = "idle" /\ Requeueing(u).at = "requeue"
      /\ NextEntry(u).at = "entry" /\ NextEntry(u).message = M /\ NextEntry(u).k = k + 1
  BY DEF Idle, Requeueing, NextEntry
<1>b. updater[u].at # "idle" => M \in Message /\ k \in Positive
  <2>1. updater[u] \in UpdaterState
    BY DEF TypeInv, TypeOK
  <2> QED BY <2>1, BusyType
<1>1. ASSUME updater'[u].at \notin {"entry"} \cup Writing PROVE AtEntry(u)' /\ Passed(u)'
  BY <1>1 DEF AtEntry, Passed, Writing
<1>2. ASSUME NEW at, GoesOn(u, at) PROVE Current(u)' = Current(u)
  BY <1>2 DEF GoesOn, Current
<1>3. ASSUME updater[u].at \in {"entry"} \cup Writing, NEW at, GoesOn(u, at) PROVE Passed(u)'
  BY <1>3 DEF GoesOn, Passed
<1>4. CASE \/ updater'[u] = Idle \/ updater'[u] = Requeueing(u)
  BY <1>1, <1>4, <1>a DEF Writing
<1>5. CASE /\ updater[u].at = "idle" /\ contentionManagerOut # <<>>
           /\ updater'[u] = [at |-> "entry", message |-> Head(contentionManagerOut), k |-> 1]
  <2>1. Head(contentionManagerOut) \in Message
    BY <1>5, TakeHead DEF TypeInv, TypeOK
  <2>2. \A i \in DOMAIN Head(contentionManagerOut).entries : ~(i < 1)
    <3>1. Head(contentionManagerOut).entries \in Seq(Entry)
      BY <2>1 DEF Message
    <3> QED BY <3>1
  <2> QED BY <1>5, <2>2 DEF AtEntry, Passed
<1>6. CASE updater[u].at = "entry" /\ GoesOn(u, "dryRun")
  BY <1>3, <1>6 DEF AtEntry, GoesOn
<1>7. CASE /\ updater[u].at = "dryRun" /\ UNCHANGED api /\ GoesOn(u, "pod")
           /\ scale[Current(u).pod].rv = Current(u).base
  BY <1>2, <1>3, <1>7 DEF AtEntry, GoesOn, Writing, api
<1>8. CASE /\ updater[u].at = "pod" /\ WritePod(u) /\ GoesOn(u, "scale")
           /\ pod'[Current(u).pod].size = Current(u).actual
  <2>1. scale' = scale
    BY <1>8 DEF WritePod
  <2> QED BY <1>2, <1>3, <1>8, <2>1 DEF AtEntry, GoesOn, Writing
<1>9. CASE updater[u].at = "scale" /\ updater'[u] = NextEntry(u)
  <2>1. k \in DOMAIN M.entries /\ M.entries[k].actual > 0
    BY <1>9 DEF TypeInv, WorkerInv, Writing, Current
  <2>2. \A i \in DOMAIN M.entries : i < k => M.entries[i].actual > 0
    BY <1>9 DEF Passed, Writing
  <2>3. M.entries \in Seq(Entry) /\ k \in Nat
    BY <1>9, <1>b DEF Message, Positive
  <2> HIDE DEF M, k
  <2>4. \A i \in DOMAIN M.entries : i < k + 1 => M.entries[i].actual > 0
    BY <2>1, <2>2, <2>3
  <2> QED BY <1>9, <1>a, <2>4 DEF AtEntry, Passed
<1> QED BY <1>4, <1>5, <1>6, <1>7, <1>8, <1>9, WorkerMoves

(* An entry that is still to be applied stays so until its PodScale is      *)
(* written.                                                                *)
LEMMA StaysToApply ==
  ASSUME TypeInv, CopyInv, Present, NEW u \in Updaters, UpdaterStep(u),
         NEW message \in Message, NEW j \in DOMAIN message.entries, StillToApply(u, message, j),
         \A i \in DOMAIN message.entries : i <= j => message.entries[i].actual > 0
  PROVE  \/ StillToApply(u, message, j)'
         \/ /\ WriteScale(u) /\ scale'[Current(u).pod].actual = Current(u).actual
            /\ message.entries[j] = Current(u)
<1> DEFINE M == updater[u].message
<1> DEFINE k == updater[u].k
<1> DEFINE Held == /\ updater[u].at # "idle" /\ message = M
                   /\ updater[u].at = "requeue" \/ k <= j
<1>a. Idle.at = "idle"
  BY DEF Idle
<1>b. updater[u].at # "idle" => M \in Message /\ k \in Positive
  <2>1. updater[u] \in UpdaterState
    BY DEF TypeInv, TypeOK
  <2> QED BY <2>1, BusyType
<1>c. contentionManagerOut \in Seq(Message) /\ j \in Nat /\ j >= 1 /\ message.entries \in Seq(Entry)
  BY DEF TypeInv, TypeOK, Message
<1>d. message \in Listed(contentionManagerOut) \/ Held
  BY DEF StillToApply
<1>1. CASE UNCHANGED contentionManagerOut /\ message \in Listed(contentionManagerOut)
  BY <1>1 DEF StillToApply
<1>2. CASE /\ updater[u].at = "idle" /\ contentionManagerOut # <<>>
           /\ contentionManagerOut' = Tail(contentionManagerOut)
           /\ updater'[u] = [at |-> "entry", message |-> Head(contentionManagerOut), k |-> 1]
  <2>1. message \in Listed(contentionManagerOut)
    BY <1>2, <1>d
  <2>2. Listed(contentionManagerOut) = Listed(contentionManagerOut') \cup {Head(contentionManagerOut)}
    BY <1>2, <1>c, ListedFacts
  <2> QED BY <1>2, <1>c, <2>1, <2>2 DEF StillToApply
<1>3. CASE /\ updater[u].at = "requeue" /\ updater'[u] = Idle
           /\ contentionManagerOut' = Append(contentionManagerOut, M)
  <2>1. Listed(contentionManagerOut') = Listed(contentionManagerOut) \cup {M}
    BY <1>3, <1>b, <1>c, ListedFacts
  <2> QED BY <1>d, <2>1 DEF StillToApply
<1>4. CASE Held /\ updater'[u] = Requeueing(u)
  BY <1>4 DEF StillToApply, Requeueing
<1>5. CASE Held /\ \E at \in Writing : updater[u].at \in {"entry"} \cup Writing /\ GoesOn(u, at)
  BY <1>5 DEF StillToApply, GoesOn, Writing
<1>6. CASE /\ Held /\ updater[u].at = "entry"
           /\ k \notin DOMAIN M.entries \/ Current(u).actual <= 0
  <2>1. k \in DOMAIN M.entries
    <3>1. message = M /\ k <= j /\ k \in Positive
      BY <1>6, <1>b
    <3> QED BY <1>c, <3>1 DEF Positive
  <2>2. Current(u).actual > 0 /\ Current(u).actual \in Nat
    <3>1. message = M /\ k <= j /\ Current(u) = message.entries[k]
      BY <1>6 DEF Current
    <3>2. message.entries[k].actual \in Nat
      BY <2>1, <3>1, EntryAt
    <3> QED BY <2>1, <3>1, <3>2
  <2> QED BY <1>6, <2>1, <2>2
<1>7. CASE /\ Held /\ updater[u].at = "scale" /\ updater'[u] = NextEntry(u)
           /\ WriteScale(u) /\ scale'[Current(u).pod].actual = Current(u).actual
  <2>1. message = M /\ k <= j /\ k \in Nat
    BY <1>7, <1>b DEF Positive
  <2>2. CASE k = j
    BY <1>7, <2>1, <2>2 DEF Current
  <2>3. CASE k # j
    <3>1. k + 1 <= j
      BY <1>c, <2>1, <2>3
    <3> QED BY <1>7, <2>1, <3>1 DEF StillToApply, NextEntry
  <2> QED BY <2>2, <2>3
<1> QED BY <1>1, <1>2, <1>3, <1>4, <1>5, <1>6, <1>7, <1>d, WorkerMoves DEF Writing

(* Whoever else acts takes no excuse away. *)
LEMMA ElsewhereExcuses ==
  ASSUME TypeInv, NEW u \in Updaters, SyncInv(u), Elsewhere,
         Listed(contentionManagerOut) \subseteq Listed(contentionManagerOut')
  PROVE  AtEntry(u)' /\ Passed(u)' /\ \A p \in Pods : Excused(u, p)'
<1>1. /\ updater' = updater /\ scale' = scale /\ \A p \in Pods : pod'[p].size = pod[p].size
      /\ Current(u)' = Current(u)
  BY DEF Elsewhere, Current
<1>2. Passed(u)'
  BY <1>1 DEF Passed, SyncInv
<1>3. AtEntry(u)'
  <2>1. updater[u].at = "scale" => Current(u).pod \in Pods
    BY WritingFacts DEF Writing
  <2> QED BY <1>1, <2>1 DEF AtEntry, SyncInv
<1>4. ASSUME NEW p \in Pods PROVE Excused(u, p)'
  <2>1. CASE pod[p].size = scale[p].actual \/ AsCreated(p)
    BY <1>1, <2>1 DEF Excused, AsCreated
  <2>2. ASSUME NEW message, NEW j, StillToApply(u, message, j), MakesUp(p, message, j)
        PROVE  StillToApply(u, message, j)' /\ MakesUp(p, message, j)'
    BY <1>1, <2>2 DEF StillToApply, MakesUp
  <2> QED BY <2>1, <2>2 DEF SyncInv, Excused
<1> QED BY <1>2, <1>3, <1>4

(* The updater excuses the Pods it leaves half written, and makes up. *)
LEMMA WorkerExcuses ==
  ASSUME TypeInv, CopyInv, NEW u \in Updaters, SyncInv(u), UpdaterStep(u), NEW p \in Pods
  PROVE  Excused(u, p)'
<1> DEFINE q == Current(u).pod
<1>a. /\ Present /\ AtEntry(u) /\ Passed(u) /\ Excused(u, p)
      /\ pod \in [Pods -> PodObject \cup {None}] /\ scale \in [Pods -> ScaleObject \cup {None}]
  BY DEF SyncInv, TypeInv, TypeOK
<1>1. ASSUME pod'[p].size = pod[p].size, scale'[p] = scale[p]
      PROVE  Excused(u, p)'
  <2>1. CASE pod[p].size = scale[p].actual \/ AsCreated(p)
    BY <1>1, <2>1 DEF Excused, AsCreated
  <2>2. CASE \E message \in Message : \E j \in Nat : StillToApply(u, message, j) /\ MakesUp(p, message, j)
    <3>1. PICK message \in Message, j \in Nat : StillToApply(u, message, j) /\ MakesUp(p, message, j)
      BY <2>2
    <3>2. MakesUp(p, message, j)'
      BY <1>1, <3>1 DEF MakesUp
    <3>3. \/ StillToApply(u, message, j)'
          \/ scale'[Current(u).pod].actual = Current(u).actual /\ message.entries[j] = Current(u)
      BY <1>a, <3>1, StaysToApply DEF MakesUp
    <3>4. CASE StillToApply(u, message, j)'
      BY <3>2, <3>4 DEF Excused
    <3>5. CASE scale'[Current(u).pod].actual = Current(u).actual /\ message.entries[j] = Current(u)
      <4>1. scale'[p].actual = pod'[p].size
        BY <3>2, <3>5 DEF MakesUp
      <4> QED BY <4>1 DEF Excused
    <3> QED BY <3>3, <3>4, <3>5
  <2> QED BY <1>a, <2>1, <2>2 DEF Excused
<1>2. CASE UNCHANGED api
  BY <1>1, <1>2 DEF api
<1>3. CASE WritePod(u)
  <2>1. updater[u].at = "pod" /\ updater[u].at \in Writing /\ updater[u].at # "idle"
    BY <1>3 DEF WritePod, Writing
  <2>2. /\ q \in Pods /\ updater[u].message \in Message /\ updater[u].k \in Positive
        /\ updater[u].k \in DOMAIN updater[u].message.entries /\ Current(u).actual > 0
    BY <2>1, WritingFacts DEF TypeInv, WorkerInv
  <2>3. /\ UNCHANGED <<scale, contentionManagerOut>>
        /\ pod' = pod \/ pod'[q].size = Current(u).actual
        /\ \A r \in Pods : r # q => pod'[r] = pod[r]
        /\ \/ updater'[u] = Requeueing(u)
           \/ GoesOn(u, "scale")
    BY <1>3, <1>a, <2>1, <2>2, PodWritten, WorkerMoves DEF Present, UpdaterStep
  <2>4. CASE p # q \/ pod' = pod
    BY <1>1, <2>3, <2>4
  <2>5. CASE p = q /\ pod'[q].size = Current(u).actual
    <3>0. PICK M, k : M = updater[u].message /\ k = updater[u].k
      OBVIOUS
    <3>1. StillToApply(u, M, k)'
      BY <2>2, <2>3, <3>0 DEF StillToApply, Requeueing, GoesOn, Positive
    <3>2. MakesUp(p, M, k)'
      <4>1. M.entries[k] = Current(u) /\ scale'[p].rv = Current(u).base /\ M.entries[k].pod = p
        BY <1>a, <2>1, <2>3, <2>5, <3>0 DEF Current, AtEntry
      <4>2. \A i \in DOMAIN M.entries : i < k => M.entries[i].actual > 0
        BY <1>a, <2>1, <3>0 DEF Passed
      <4>3. M.entries \in Seq(Entry) /\ k \in Nat
        BY <2>2, <3>0 DEF Message, Positive
      <4>4. \A i \in DOMAIN M.entries : i <= k => M.entries[i].actual > 0
        BY <2>2, <4>1, <4>2, <4>3
      <4> QED BY <2>2, <2>5, <3>0, <4>1, <4>4 DEF MakesUp
    <3> QED BY <2>2, <3>0, <3>1, <3>2 DEF Excused, Positive
  <2> QED BY <2>3, <2>4, <2>5
<1>4. CASE WriteScale(u)
  <2>1. updater[u].at = "scale" /\ updater[u].at \in Writing
    BY <1>4 DEF WriteScale, Writing
  <2>2. q \in Pods /\ pod[q].size = Current(u).actual
    BY <1>a, <2>1, WritingFacts DEF AtEntry
  <2>3. /\ UNCHANGED pod /\ (scale' = scale \/ scale'[q].actual = Current(u).actual)
        /\ \A r \in Pods : r # q => scale'[r] = scale[r]
    BY <1>4, <1>a, <2>2, ScaleWritten DEF Present
  <2>4. CASE p # q \/ scale' = scale
    BY <1>1, <2>3, <2>4
  <2>5. CASE p = q /\ scale'[q].actual = Current(u).actual
    BY <2>2, <2>3, <2>5 DEF Excused
  <2> QED BY <2>3, <2>4, <2>5
<1>5. CASE TakeMessage(u) \/ PrepareEntry(u) \/ DryRun(u) \/ Requeue(u)
  BY <1>2, <1>5 DEF TakeMessage, PrepareEntry, DryRun, Requeue
<1> QED BY <1>3, <1>4, <1>5 DEF UpdaterStep

(* The one updater there is keeps Pods and PodScales synchronized. *)
LEMMA SyncStep ==
  ASSUME TypeInv, CopyInv, NEW u, Updaters = {u}, SyncInv(u), Quiet, Quiet', [Next]_vars
  PROVE  SyncInv(u)'
<1>a. u \in Updaters /\ TypeOK /\ Present /\ AtEntry(u) /\ Passed(u)
  BY DEF TypeInv, SyncInv
<1>1. Present'
  BY <1>a, PresentStep
<1>2. CASE UpdaterStep(u)
  <2>1. AtEntry(u)' /\ Passed(u)'
    BY <1>2, <1>a, WorkerKnows
  <2>2. \A p \in Pods : Excused(u, p)'
    BY <1>2, <1>a, WorkerExcuses
  <2> QED BY <1>1, <2>1, <2>2 DEF SyncInv
<1>3. CASE Elsewhere /\ Listed(contentionManagerOut) \subseteq Listed(contentionManagerOut')
  BY <1>1, <1>3, <1>a, ElsewhereExcuses DEF SyncInv
<1> QED BY <1>2, <1>3, <1>a, QuietStep

(* No Pod or PodScale is written at first. *)
LEMMA InitSyncInv ==
  ASSUME Init, NEW u, Updaters = {u}
  PROVE  SyncInv(u)
<1>1. \A p \in Pods : /\ [rv |-> 1, label |-> "Kosmos", size |-> Requests[p]] \in PodObject
                      /\ [rv |-> 1, desired |-> Default, actual |-> Default] \in ScaleObject
  BY AmountAssumption DEF PodObject, ScaleObject, Positive
<1>2. Present
  BY <1>1, NoneAssumption DEF Init, Present
<1>3. AtEntry(u) /\ Passed(u)
  BY DEF Init, AtEntry, Passed, Idle, Writing
<1>4. \A p \in Pods : AsCreated(p)
  BY DEF Init, AsCreated
<1> QED BY <1>2, <1>3, <1>4 DEF SyncInv, Excused

(* The message that excuses a Pod is one that Synchronized counts. *)
LEMMA SyncInvSynchronizes ==
  ASSUME TypeOK, NEW u, Updaters = {u}, SyncInv(u)
  PROVE  Synchronized
<1>1. SUFFICES ASSUME NEW p \in Pods, pod[p].size # scale[p].actual, ~AsCreated(p)
               PROVE  ToBeRecorded(p)
  BY DEF Synchronized
<1>2. PICK message \in Message, j \in Nat : StillToApply(u, message, j) /\ MakesUp(p, message, j)
  BY <1>1 DEF SyncInv, Excused
<1>3. message \in SolvedMessages
  BY <1>2, Updaters = {u} DEF StillToApply, SolvedMessages, Listed, Idle
<1> QED BY <1>2, <1>3 DEF MakesUp, ToBeRecorded

(* With one updater, a Pod that it has resized and its PodScale differ only *)
(* as long as a message that makes up for it is in the updater or in its    *)
(* channel -- for as long as the process runs, no sidecar has patched a Pod *)
(* and no Pod or PodScale was deleted.  Pods are created with any size, any *)
(* call may fail, applied or not, and versions move all the time.          *)
THEOREM OneUpdaterSynchronizes ==
  ASSUME NEW u, Updaters = {u}
  PROVE  Spec /\ []Quiet => []Synchronized
<1>1. Init => RefinementInv /\ SyncInv(u)
  BY InitRefinementInv, InitSyncInv, Updaters = {u}
<1>2. RefinementInv /\ SyncInv(u) /\ Quiet /\ [Next]_vars /\ Quiet' => (RefinementInv /\ SyncInv(u))'
  BY NextRefinementInv, SyncStep, Updaters = {u} DEF RefinementInv, IInv
<1>3. RefinementInv /\ SyncInv(u) => Synchronized
  BY SyncInvSynchronizes, Updaters = {u} DEF RefinementInv, IInv, TypeInv
<1> QED BY <1>1, <1>2, <1>3, PTL DEF Spec

----------------------------------------------------------------------------
(* One updater: what the Pods of a node end up with. *)

Home(n) == {p \in Pods : NodeOf[p] = n}
(* A finite set has an order, and an order reaches all of it. *)
LEMMA OrderFacts ==
  ASSUME NEW S, IsFiniteSet(S)
  PROVE  /\ Cardinality(S) \in Nat
         /\ \E s : s \in Orders(S)
         /\ \A s \in Orders(S) : /\ s \in [1..Cardinality(S) -> S]
                                 /\ \A x \in S : \E k \in 1..Cardinality(S) : s[k] = x
                                 /\ \A j, k \in 1..Cardinality(S) : s[j] = s[k] => j = k
<1> DEFINE n == Cardinality(S)
<1>1. n \in Nat /\ ExistsBijection(1..n, S)
  BY FS_CardinalityType
<1>2. \E s : s \in Orders(S)
  BY <1>1 DEF ExistsBijection, Bijection, Injection, Orders
<1>3. ASSUME NEW s \in Orders(S)
      PROVE  /\ s \in [1..n -> S]
             /\ \A x \in S : \E k \in 1..n : s[k] = x
             /\ \A j, k \in 1..n : s[j] = s[k] => j = k
  <2>1. s \in [1..n -> S] /\ IsInjective(s)
    BY DEF Orders
  <2>2. s \in Injection(1..n, S)
    BY <2>1 DEF Injection
  <2>3. IsFiniteSet(1..n) /\ Cardinality(1..n) = n
    <3> HIDE DEF n
    <3> QED BY <1>1, FS_Interval
  <2>4. s \in Surjection(1..n, S)
    BY <2>2, <2>3, FS_Injection
  <2> HIDE DEF n
  <2> QED BY <2>1, <2>4 DEF Surjection, IsInjective
<1> QED BY <1>1, <1>2, <1>3

(* Whatever the order in which a set is added up, the total is the same. *)
LEMMA AnyOrder ==
  ASSUME NEW S, IsFiniteSet(S), NEW amount \in [S -> Nat], NEW s \in Orders(S), NEW t \in Orders(S)
  PROVE  Total([k \in 1..Cardinality(S) |-> amount[s[k]]]) = Total([k \in 1..Cardinality(S) |-> amount[t[k]]])
<1>1. PICK n : n = Cardinality(S)
  OBVIOUS
<1>2. n \in Nat
  BY <1>1, OrderFacts
<1>3. s \in [1..n -> S] /\ \A j, k \in 1..n : s[j] = s[k] => j = k
  BY <1>1, OrderFacts
<1>4. t \in [1..n -> S] /\ \A x \in S : \E k \in 1..n : t[k] = x
  BY <1>1, OrderFacts
<1> DEFINE q == [k \in 1..n |-> CHOOSE j \in 1..n : t[j] = s[k]]
<1> DEFINE f == [k \in 1..n |-> amount[t[k]]]
<1>5. \A k \in 1..n : q[k] \in 1..n /\ t[q[k]] = s[k]
  BY <1>3, <1>4
<1>6. q \in [1..n -> 1..n] /\ DOMAIN q = 1..n
  BY <1>5
<1>7. f \in [1..n -> Nat]
  BY <1>4
<1>8. \A k \in 1..n : f[q[k]] = amount[s[k]]
  BY <1>5
<1> HIDE DEF q, f
<1>9. q \in Injection(1..n, 1..n)
  BY <1>3, <1>5, <1>6 DEF Injection, IsInjective
<1>10. Total([k \in 1..n |-> f[q[k]]]) = Total(f)
  BY <1>2, <1>7, <1>9, TotalOfReordered
<1>11. [k \in 1..n |-> f[q[k]]] = [k \in 1..n |-> amount[s[k]]]
  BY <1>8
<1> QED BY <1>1, <1>10, <1>11 DEF f

(* The Pods of a node are finitely many. *)
LEMMA HomeFinite == \A n : IsFiniteSet(Home(n))
BY NodeAssumption, FS_Subset DEF Home

(* What the Pods use can be added up along any order. *)
LEMMA UsedAlong ==
  ASSUME NEW S, IsFiniteSet(S), NEW s \in Orders(S), \A p \in S : pod[p].size \in Nat
  PROVE  Used(S) = Total([k \in 1..Cardinality(S) |-> pod[s[k]].size])
<1> DEFINE amount == [p \in S |-> pod[p].size]
<1>1. amount \in [S -> Nat]
  OBVIOUS
<1>2. PICK n : n = Cardinality(S)
  OBVIOUS
<1>3. PICK t \in Orders(S) : t = CHOOSE order \in Orders(S) : TRUE
  BY OrderFacts
<1>4. \A k \in 1..n : s[k] \in S /\ t[k] \in S
  <2>1. s \in [1..n -> S]
    BY <1>2, OrderFacts
  <2>2. t \in [1..n -> S]
    BY <1>2, OrderFacts
  <2> QED BY <2>1, <2>2
<1>a. \A p \in S : amount[p] = pod[p].size
  OBVIOUS
<1> HIDE DEF amount
<1>b. \A k \in 1..n : amount[s[k]] = pod[s[k]].size /\ amount[t[k]] = pod[t[k]].size
  BY <1>4, <1>a
<1>5. /\ [k \in 1..n |-> pod[s[k]].size] = [k \in 1..n |-> amount[s[k]]]
      /\ [k \in 1..n |-> pod[t[k]].size] = [k \in 1..n |-> amount[t[k]]]
  BY <1>b
<1>6. Total([k \in 1..n |-> amount[t[k]]]) = Total([k \in 1..n |-> amount[s[k]]])
  BY <1>1, <1>2, AnyOrder
<1> QED BY <1>2, <1>3, <1>5, <1>6 DEF Used

(* A message names every Pod of its node once, unless it has a nil entry;   *)
(* one with a nil entry never leaves a contention manager.                 *)
NamesAll(message) == [k \in DOMAIN message.entries |-> message.entries[k].pod] \in Orders(Home(message.node))

WholeMessages  == {message \in Message : ~message.nil => NamesAll(message)}
WholeSolutions == {message \in Message : NamesAll(message) /\ Fitting(message)}
WholeInv       == Carries(WholeMessages, WholeSolutions)

(* With nothing missing from the caches and nothing skipped, a recommender  *)
(* lists the whole node.                                                   *)
LEMMA RecommendedWhole ==
  ASSUME TypeOK, Present, NEW r \in Recommenders, RecommendNode(r), ~Spend("gaps"),
         recommender \in [Recommenders -> WholeMessages \cup {None}]
  PROVE  recommender' \in [Recommenders -> WholeMessages \cup {None}]
<1>1. ASSUME NEW n \in Nodes, NEW message \in Recommended(n, Home(n)) PROVE message \in WholeMessages
  <2>1. PICK order \in Orders(Home(n) \ Unscalable), desired \in Wishes(Home(n) \ Unscalable) :
          message = AsMessage(n, order, desired, Home(n) \ Unscalable # Home(n))
    BY DEF Recommended
  <2>2. /\ message.node = n /\ message.nil = (Home(n) \ Unscalable # Home(n))
        /\ message.entries = [k \in DOMAIN order |-> Recommendation(order[k], desired[order[k]])]
    BY <2>1 DEF AsMessage
  <2>3. [k \in DOMAIN message.entries |-> message.entries[k].pod] = [k \in DOMAIN order |-> order[k]]
    BY <2>2 DEF Recommendation
  <2>4. order = [k \in DOMAIN order |-> order[k]]
    BY DEF Orders
  <2>5. message \in Message
    <3>1. Home(n) \in SUBSET {p \in Pods : scaleCache[p] # None}
      BY DEF Home, Present
    <3> QED BY <3>1, RecommendedFacts
  <2>6. ~message.nil => order \in Orders(Home(n))
    BY <2>2
  <2>7. ~message.nil => NamesAll(message)
    BY <2>2, <2>3, <2>4, <2>6 DEF NamesAll
  <2> QED BY <2>5, <2>7 DEF WholeMessages
<1>2. CASE recommender' = recommender
  BY <1>2
<1>3. CASE recommender' # recommender
  <2>1. PICK n \in nodeQueue :
          \E message \in Recommended(n, {p \in {q \in Pods : NodeOf[q] = n /\ scaleCache[q] # None} \ {} : podCache[p] # None}) :
            recommender' = [recommender EXCEPT ![r] = message]
    BY <1>3 DEF RecommendNode
  <2>2. {p \in {q \in Pods : NodeOf[q] = n /\ scaleCache[q] # None} \ {} : podCache[p] # None} = Home(n)
    BY DEF Present, Home
  <2>3. n \in Nodes
    BY DEF TypeOK
  <2>4. PICK message \in WholeMessages : recommender' = [recommender EXCEPT ![r] = message]
    BY <1>1, <2>1, <2>2, <2>3
  <2> QED BY <2>4
<1> QED BY <1>2, <1>3

(* A contention manager passes on all of what it got. *)
LEMMA ManagedWhole ==
  ASSUME TypeOK, WholeInv, NEW m \in Managers, ManageNode(m)
  PROVE  manager' \in [Managers -> WholeSolutions \cup {None}]
<1>1. manager \in [Managers -> WholeSolutions \cup {None}] /\ recommenderOut \in Seq(WholeMessages)
  BY DEF WholeInv, Carries
<1>2. recommenderOut # <<>>
  BY ManagedFacts
<1>3. PICK message \in WholeMessages : message = Head(recommenderOut)
  BY <1>1, <1>2, TakeHead
<1>4. CASE manager' = manager
  BY <1>1, <1>4
<1>5. CASE manager' # manager
  <2>1. ~message.nil
    BY <1>3, <1>5 DEF ManageNode
  <2>2. message \in Message /\ NamesAll(message)
    BY <2>1 DEF WholeMessages
  <2>3. PICK solved \in Message :
          /\ manager' = [manager EXCEPT ![m] = solved]
          /\ Fitting(solved) /\ solved.node = message.node
          /\ DOMAIN solved.entries = DOMAIN message.entries
          /\ \A k \in DOMAIN solved.entries :
               solved.entries[k] = [message.entries[k] EXCEPT !.actual = solved.entries[k].actual]
    BY <1>3, <1>5, ManagedFacts
  <2>4. ASSUME NEW k \in DOMAIN solved.entries PROVE solved.entries[k].pod = message.entries[k].pod
    <3>1. message.entries[k] \in Entry
      BY <2>2, <2>3, EntryAt
    <3>2. solved.entries[k] = [message.entries[k] EXCEPT !.actual = solved.entries[k].actual]
      BY <2>3
    <3> QED BY <3>1, <3>2 DEF Entry
  <2>5. NamesAll(solved)
    <3>1. [k \in DOMAIN solved.entries |-> solved.entries[k].pod] = [k \in DOMAIN message.entries |-> message.entries[k].pod]
      BY <2>3, <2>4
    <3> QED BY <2>2, <2>3, <3>1 DEF NamesAll
  <2> QED BY <1>1, <2>3, <2>5 DEF WholeSolutions
<1> QED BY <1>4, <1>5

(* So messages stay whole. *)
LEMMA WholeStep ==
  ASSUME TypeOK, WholeInv, Present, ~Spend("gaps"), [Next]_vars
  PROVE  WholeInv'
<1>1. PICK Raw, Settled : Raw = WholeMessages /\ Settled = WholeSolutions
  OBVIOUS
<1>2. Carries(Raw, Settled)
  BY <1>1 DEF WholeInv
<1>3. ASSUME NEW r \in Recommenders, RecommendNode(r)
      PROVE  recommender' \in [Recommenders -> Raw \cup {None}]
  BY <1>1, <1>2, <1>3, RecommendedWhole DEF Carries
<1>4. \A m \in Managers : ManageNode(m) => manager' \in [Managers -> Settled \cup {None}]
  BY <1>1, ManagedWhole
<1>5. Carries(Raw, Settled)'
  BY <1>2, <1>3, <1>4, OnlyMoved
<1> QED BY <1>1, <1>5 DEF WholeInv, Carries

(* What the updater has gone through of its message is in force. *)
Applied(u) ==
  LET entries == updater[u].message.entries IN
  updater[u].at \in {"entry"} \cup Writing =>
    \A j \in DOMAIN entries : j < updater[u].k => pod[entries[j].pod].size = entries[j].actual

(* The Pods of a node fit it, or a message for the node is still to be      *)
(* applied, perhaps not for the first time.                                *)
FitsOrPending(n) ==
  \/ Used(Home(n)) <= Capacity[n]
  \/ \E message \in SolvedMessages : message.node = n

(* No share was rounded down to nothing, which would end a message half way.*)
SharesPositive ==
  \A message \in SolvedMessages : \A k \in DOMAIN message.entries : message.entries[k].actual > 0

(* The entries of a message that names all are a numbering of the node. *)
LEMMA NamesAllFacts ==
  ASSUME NEW message \in Message, NamesAll(message)
  PROVE  LET S == Home(message.node)
             order == [k \in 1..Cardinality(S) |-> message.entries[k].pod]
         IN  /\ DOMAIN message.entries = 1..Cardinality(S) /\ Len(message.entries) = Cardinality(S)
             /\ Cardinality(S) \in Nat /\ order \in Orders(S)
             /\ \A j, k \in DOMAIN message.entries :
                  message.entries[j].pod = message.entries[k].pod => j = k
<1>1. PICK S : S = Home(message.node)
  OBVIOUS
<1>2. PICK n : n = Cardinality(S)
  OBVIOUS
<1>3. PICK s : s = [k \in DOMAIN message.entries |-> message.entries[k].pod]
  OBVIOUS
<1>4. s \in Orders(S) /\ IsFiniteSet(S)
  BY <1>1, <1>3, HomeFinite DEF NamesAll
<1>5. n \in Nat /\ s \in [1..n -> S] /\ \A j, k \in 1..n : s[j] = s[k] => j = k
  BY <1>2, <1>4, OrderFacts
<1>6. DOMAIN message.entries = 1..n
  BY <1>3, <1>5
<1>7. message.entries \in Seq(Entry)
  BY DEF Message
<1>8. Len(message.entries) = n
  BY <1>5, <1>6, <1>7
<1> QED BY <1>1, <1>2, <1>3, <1>4, <1>5, <1>6, <1>8

(* What an updater holds. *)
LEMMA HeldMessage ==
  ASSUME TypeOK, WholeInv, NEW u \in Updaters, updater[u].at # "idle"
  PROVE  /\ updater[u].message \in WholeSolutions /\ updater[u].message \in Message
         /\ updater[u].message \in SolvedMessages /\ updater[u].k \in Positive
<1>1. updater[u] # Idle /\ updater[u] \in UpdaterState
  BY DEF TypeOK, Idle
<1>2. updater[u].k \in Positive
  BY <1>1, BusyType
<1>3. updater[u].message \in WholeSolutions
  BY DEF WholeInv, Carries
<1> QED BY <1>1, <1>2, <1>3 DEF SolvedMessages, WholeSolutions

(* Once every entry is applied, the Pods have what the message gives them. *)
LEMMA AppliedFits ==
  ASSUME TypeInv, Present, NEW message \in WholeSolutions,
         \A j \in DOMAIN message.entries : pod[message.entries[j].pod].size = message.entries[j].actual
  PROVE  Used(Home(message.node)) <= Capacity[message.node]
<1>1. message \in Message /\ NamesAll(message) /\ Fitting(message)
  BY DEF WholeSolutions
<1>2. PICK S : S = Home(message.node)
  OBVIOUS
<1>3. PICK n : n = Cardinality(S)
  OBVIOUS
<1>4. PICK order : order = [k \in 1..n |-> message.entries[k].pod]
  OBVIOUS
<1>5. /\ DOMAIN message.entries = 1..n /\ n \in Nat
      /\ order \in Orders(S) /\ IsFiniteSet(S)
  BY <1>1, <1>2, <1>3, <1>4, NamesAllFacts, HomeFinite
<1>6. ASSUME NEW p \in S PROVE pod[p].size \in Nat
  <2>1. p \in Pods
    BY <1>2 DEF Home
  <2>2. pod[p] \in PodObject
    BY <2>1 DEF TypeInv, TypeOK, Present
  <2> QED BY <2>2 DEF PodObject, Positive
<1>7. Used(S) = Total([k \in 1..n |-> pod[order[k]].size])
  BY <1>3, <1>5, <1>6, UsedAlong
<1>8. [k \in 1..n |-> pod[order[k]].size] = Actual(message.entries)
  BY <1>4, <1>5 DEF Actual
<1> QED BY <1>1, <1>2, <1>7, <1>8 DEF Fitting

(* Pods that keep their sizes use the same. *)
LEMMA UsedKept ==
  ASSUME NEW n, \A p \in Home(n) : pod'[p].size = pod[p].size
  PROVE  Used(Home(n))' = Used(Home(n))
<1>1. PICK S : S = Home(n)
  OBVIOUS
<1>2. PICK order \in Orders(S) : order = CHOOSE s \in Orders(S) : TRUE
  BY <1>1, HomeFinite, OrderFacts
<1>3. \A k \in 1..Cardinality(S) : order[k] \in S
  BY <1>1, HomeFinite, OrderFacts
<1>4. [k \in 1..Cardinality(S) |-> pod'[order[k]].size] = [k \in 1..Cardinality(S) |-> pod[order[k]].size]
  BY <1>1, <1>3
<1>5. Used(S) = Total([k \in 1..Cardinality(S) |-> pod[order[k]].size])
  BY <1>2 DEF Used
<1>6. Used(S)' = Total([k \in 1..Cardinality(S) |-> pod'[order[k]].size])
  BY <1>2 DEF Used
<1>7. Used(Home(n))' = Used(S)'
  BY <1>1 DEF Used, Home
<1> QED BY <1>1, <1>4, <1>5, <1>6, <1>7

(* Only the updater that is through with a message lets go of it. *)
LEMMA SolvedStay ==
  ASSUME TypeOK, up', [Next]_vars, NEW message \in SolvedMessages
  PROVE  \/ message \in SolvedMessages'
         \/ \E u \in Updaters : PrepareEntry(u) /\ Become(u, Idle) /\ updater[u].message = message
<1>a. /\ updater \in [Updaters -> UpdaterState] /\ contentionManagerOut \in Seq(Message)
      /\ manager \in [Managers -> Message \cup {None}]
  BY DEF TypeOK
<1>b. \/ \E m \in Managers : manager[m] # None /\ message = manager[m]
      \/ message \in Listed(contentionManagerOut)
      \/ \E u \in Updaters : updater[u] # Idle /\ message = updater[u].message
  BY DEF SolvedMessages, Listed
<1>c. \/ \E m \in Managers : manager'[m] # None /\ message = manager'[m]
      \/ message \in Listed(contentionManagerOut')
      \/ \E u \in Updaters : updater'[u] # Idle /\ message = updater'[u].message
      => message \in SolvedMessages'
  BY DEF SolvedMessages, Listed
<1>d. \A s : s.at # "idle" => s # Idle
  BY DEF Idle
<1>0. ASSUME UNCHANGED <<manager, contentionManagerOut, updater>> PROVE message \in SolvedMessages'
  BY <1>0 DEF SolvedMessages
<1>1. ASSUME NEW m \in Managers, ManageNode(m) PROVE message \in SolvedMessages'
  <2>1. manager[m] = None /\ UNCHANGED <<contentionManagerOut, updater>>
    BY <1>1 DEF ManageNode
  <2>2. \A i \in Managers : i # m => manager'[i] = manager[i]
    BY <1>1, <1>a DEF ManageNode
  <2> QED BY <1>b, <1>c, <2>1, <2>2
<1>2. ASSUME NEW m \in Managers, SendSolution(m) PROVE message \in SolvedMessages'
  <2>1. /\ manager[m] \in Message /\ UNCHANGED updater
        /\ contentionManagerOut' = Append(contentionManagerOut, manager[m])
        /\ manager' = [manager EXCEPT ![m] = None]
    BY <1>2, <1>a DEF SendSolution
  <2>2. Listed(contentionManagerOut') = Listed(contentionManagerOut) \cup {manager[m]}
    BY <1>a, <2>1, ListedFacts
  <2>3. \A i \in Managers : i # m => manager'[i] = manager[i]
    BY <1>a, <2>1
  <2> QED BY <1>b, <1>c, <2>1, <2>2, <2>3
<1>3. ASSUME NEW u \in Updaters, TakeMessage(u) PROVE message \in SolvedMessages'
  <2> DEFINE state == [at |-> "entry", message |-> Head(contentionManagerOut), k |-> 1]
  <2>1. /\ updater[u] = Idle /\ contentionManagerOut # <<>> /\ UNCHANGED manager
        /\ contentionManagerOut' = Tail(contentionManagerOut) /\ Become(u, state)
    BY <1>3 DEF TakeMessage, Become
  <2>2. updater'[u] = state /\ \A v \in Updaters : v # u => updater'[v] = updater[v]
    BY <1>a, <2>1 DEF Become
  <2>3. updater'[u] # Idle /\ updater'[u].message = Head(contentionManagerOut)
    BY <1>d, <2>2
  <2>4. Listed(contentionManagerOut) = Listed(contentionManagerOut') \cup {Head(contentionManagerOut)}
    BY <1>a, <2>1, ListedFacts
  <2> QED BY <1>b, <1>c, <2>1, <2>2, <2>3, <2>4
<1>4. ASSUME NEW u \in Updaters, NEW state, Become(u, state), UNCHANGED contentionManagerOut,
             state # Idle, state.message = updater[u].message
      PROVE  message \in SolvedMessages'
  <2>1. updater'[u] = state /\ UNCHANGED manager /\ \A v \in Updaters : v # u => updater'[v] = updater[v]
    BY <1>a, <1>4 DEF Become
  <2> QED BY <1>b, <1>c, <1>4, <2>1
<1>5. ASSUME NEW u \in Updaters
      PROVE  /\ NextEntry(u) # Idle /\ NextEntry(u).message = updater[u].message
             /\ Requeueing(u) # Idle /\ Requeueing(u).message = updater[u].message
  BY <1>d DEF NextEntry, Requeueing
<1>6. ASSUME NEW u \in Updaters, updater[u].at \in Writing, NEW at \in Writing
      PROVE  [updater[u] EXCEPT !.at = at] # Idle
             /\ [updater[u] EXCEPT !.at = at].message = updater[u].message
  <2>1. updater[u] \in UpdaterState
    BY <1>a
  <2>2. updater[u] \in [at : {"dryRun", "pod", "scale"}, message : Message, k : Positive, copy : PodObject]
    BY <1>6, <2>1 DEF UpdaterState, Idle, Writing
  <2>3. [updater[u] EXCEPT !.at = at].at = at /\ [updater[u] EXCEPT !.at = at].message = updater[u].message
    BY <2>2
  <2> QED BY <1>d, <2>3 DEF Writing
<1>7. ASSUME NEW u \in Updaters, DryRun(u) \/ WritePod(u) \/ WriteScale(u) PROVE message \in SolvedMessages'
  <2>1. updater[u].at \in Writing /\ UNCHANGED contentionManagerOut
    BY <1>7 DEF DryRun, WritePod, WriteScale, Writing
  <2>2. \/ \E at \in Writing : Become(u, [updater[u] EXCEPT !.at = at])
        \/ Become(u, NextEntry(u)) \/ Become(u, Requeueing(u))
    BY <1>7 DEF DryRun, WritePod, WriteScale, Writing
  <2> QED BY <1>4, <1>5, <1>6, <2>1, <2>2
<1>8. ASSUME NEW u \in Updaters, Requeue(u) PROVE message \in SolvedMessages'
  <2>1. /\ updater[u].at = "requeue" /\ UNCHANGED manager /\ Become(u, Idle)
        /\ contentionManagerOut' = Append(contentionManagerOut, updater[u].message)
    BY <1>8 DEF Requeue, Become
  <2>2. updater[u].message \in Message
    BY <1>a, <2>1, BusyType
  <2>3. Listed(contentionManagerOut') = Listed(contentionManagerOut) \cup {updater[u].message}
    BY <1>a, <2>1, <2>2, ListedFacts
  <2>4. \A v \in Updaters : v # u => updater'[v] = updater[v]
    BY <1>a, <2>1 DEF Become
  <2> QED BY <1>b, <1>c, <2>1, <2>3, <2>4
<1>9. ASSUME NEW u \in Updaters, PrepareEntry(u)
      PROVE  message \in SolvedMessages' \/ (Become(u, Idle) /\ updater[u].message = message)
  <2>1. UNCHANGED contentionManagerOut /\ updater[u].at = "entry"
    BY <1>9 DEF PrepareEntry
  <2>2. PICK copy : \/ Become(u, Idle) \/ Become(u, NextEntry(u))
                    \/ Become(u, [at |-> "dryRun", message |-> updater[u].message,
                                  k |-> updater[u].k, copy |-> copy])
    BY <1>9 DEF PrepareEntry
  <2>3. ASSUME Become(u, Idle), updater[u].message # message PROVE message \in SolvedMessages'
    <3>1. UNCHANGED manager /\ \A v \in Updaters : v # u => updater'[v] = updater[v]
      BY <1>a, <2>3 DEF Become
    <3> QED BY <1>b, <1>c, <2>1, <2>3, <3>1
  <2>4. CASE Become(u, NextEntry(u))
    BY <1>4, <1>5, <2>1, <2>4
  <2>5. CASE Become(u, [at |-> "dryRun", message |-> updater[u].message, k |-> updater[u].k, copy |-> copy])
    <3> DEFINE state == [at |-> "dryRun", message |-> updater[u].message, k |-> updater[u].k, copy |-> copy]
    <3>1. state # Idle /\ state.message = updater[u].message
      BY <1>d
    <3> HIDE DEF state
    <3> QED BY <1>4, <2>1, <2>5, <3>1 DEF state
  <2> QED BY <2>2, <2>3, <2>4, <2>5
<1>10. CASE ProcessStep
  <2>1. ASSUME NEW r \in Recommenders, RecommenderStep(r) PROVE message \in SolvedMessages'
    BY <1>0, <2>1 DEF RecommenderStep, RecommendNode, SendRecommendation
  <2>2. ASSUME NEW m \in Managers, ManagerStep(m) PROVE message \in SolvedMessages'
    BY <1>1, <1>2, <2>2, up' DEF ManagerStep, Panic, Stopped
  <2>3. ASSUME NEW n \in Nodes, EnqueueNode(n) PROVE message \in SolvedMessages'
    BY <1>0, <2>3 DEF EnqueueNode
  <2>4. ~Crash
    BY up' DEF Crash, Stopped
  <2>5. CASE Restart
    BY <1>0, <2>5 DEF Restart
  <2>6. CASE \E u \in Updaters : UpdaterStep(u)
    BY <1>3, <1>7, <1>8, <1>9, <2>6 DEF UpdaterStep
  <2> QED BY <1>10, <2>1, <2>2, <2>3, <2>4, <2>5, <2>6 DEF ProcessStep
<1>11. CASE EnvironmentStep
  BY <1>0, <1>11 DEF EnvironmentStep, SyncPod, SyncScale, TouchPod, SidecarPatch, Patch,
                     RemovePod, RemoveScale, process
<1>12. CASE UNCHANGED vars
  BY <1>0, <1>12 DEF vars, process
<1> QED BY <1>10, <1>11, <1>12 DEF Next

(* Solved messages name all of their node and fit it. *)
LEMMA SolvedWhole ==
  ASSUME TypeOK, WholeInv
  PROVE  SolvedMessages \subseteq WholeSolutions /\ SolvedMessages \subseteq Message
<1>1. ASSUME NEW k \in DOMAIN contentionManagerOut PROVE contentionManagerOut[k] \in WholeSolutions
  BY DEF WholeInv, Carries
<1>2. ASSUME NEW u \in Updaters, updater[u] # Idle PROVE updater[u].message \in WholeSolutions
  <2>1. updater[u] \in UpdaterState
    BY DEF TypeOK
  <2>2. updater[u].at # "idle"
    BY <1>2, <2>1 DEF UpdaterState, Idle
  <2> QED BY <1>2, <2>2 DEF WholeInv, Carries
<1>3. ASSUME NEW m \in Managers, manager[m] # None PROVE manager[m] \in WholeSolutions
  BY <1>3 DEF WholeInv, Carries
<1>4. SolvedMessages \subseteq WholeSolutions
  BY <1>1, <1>2, <1>3 DEF SolvedMessages
<1> QED BY <1>4 DEF WholeSolutions

(* An updater goes on in its message only by applying an entry. *)
LEMMA AppliedStep ==
  ASSUME TypeInv, CopyInv, Present, WholeInv, NEW u \in Updaters, AtEntry(u), Applied(u), UpdaterStep(u)
  PROVE  Applied(u)'
<1> DEFINE M == updater[u].message
<1> DEFINE k == updater[u].k
<1>a. TypeOK /\ Idle.at = "idle" /\ Requeueing(u).at = "requeue"
      /\ NextEntry(u).at = "entry" /\ NextEntry(u).message = M /\ NextEntry(u).k = k + 1
  BY DEF TypeInv, TypeOK, Idle, Requeueing, NextEntry
<1>0. ASSUME updater'[u].at \notin {"entry"} \cup Writing PROVE Applied(u)'
  BY <1>0 DEF Applied
<1>1. ASSUME updater[u].at \in {"entry"} \cup Writing
      PROVE  /\ M \in Message /\ NamesAll(M) /\ k \in Nat
             /\ \A j \in DOMAIN M.entries : M.entries[j].pod \in Pods /\ j \in Nat
             /\ \A j \in DOMAIN M.entries : j < k => pod[M.entries[j].pod].size = M.entries[j].actual
  <2>1. updater[u].at # "idle"
    BY <1>1 DEF Writing
  <2>2. M \in Message /\ M \in WholeSolutions /\ k \in Nat
    BY <1>a, <2>1, HeldMessage DEF Positive
  <2>3. \A j \in DOMAIN M.entries : j < k => pod[M.entries[j].pod].size = M.entries[j].actual
    BY <1>1 DEF Applied
  <2> HIDE DEF M, k
  <2>4. M.entries \in Seq(Entry)
    BY <2>2 DEF Message
  <2>5. \A j \in DOMAIN M.entries : M.entries[j].pod \in Pods /\ j \in Nat
    BY <2>2, <2>4, EntryAt
  <2> QED BY <2>2, <2>3, <2>5 DEF WholeSolutions
<1>2. ASSUME updater[u].at \in {"entry"} \cup Writing, NEW at, GoesOn(u, at), pod' = pod
      PROVE  Applied(u)'
  BY <1>2 DEF Applied, GoesOn
<1>3. CASE updater'[u] = Idle \/ updater'[u] = Requeueing(u)
  BY <1>0, <1>3, <1>a DEF Writing
<1>4. CASE /\ updater[u].at = "idle" /\ contentionManagerOut # <<>>
           /\ updater'[u] = [at |-> "entry", message |-> Head(contentionManagerOut), k |-> 1]
  <2>1. Head(contentionManagerOut) \in Message
    BY <1>4, TakeHead DEF TypeInv, TypeOK
  <2>2. \A j \in DOMAIN Head(contentionManagerOut).entries : ~(j < 1)
    <3>1. Head(contentionManagerOut).entries \in Seq(Entry)
      BY <2>1 DEF Message
    <3> QED BY <3>1
  <2> QED BY <1>4, <2>2 DEF Applied
<1>5. CASE updater[u].at \in {"entry", "dryRun"} /\ UNCHANGED api /\ \E at : GoesOn(u, at)
  BY <1>2, <1>5 DEF api, Writing
<1>6. CASE updater[u].at = "pod" /\ WritePod(u) /\ GoesOn(u, "scale")
  <2>1. updater[u].at \in Writing
    BY <1>6 DEF Writing
  <2>2. Current(u) = M.entries[k] /\ k \in DOMAIN M.entries /\ M.entries[k].pod \in Pods
    BY <2>1, WritingFacts DEF Current
  <2>3. \A p \in Pods : p # M.entries[k].pod => pod'[p] = pod[p]
    BY <1>6, <2>2, PodWritten DEF Present
  <2>4. /\ M \in Message /\ NamesAll(M) /\ k \in Nat
        /\ \A j \in DOMAIN M.entries : M.entries[j].pod \in Pods /\ j \in Nat
        /\ \A j \in DOMAIN M.entries : j < k => pod[M.entries[j].pod].size = M.entries[j].actual
    BY <1>1, <2>1
  <2>5. PICK m, i : m = M /\ i = k
    OBVIOUS
  <2> HIDE DEF M, k
  <2>6. ASSUME NEW j \in DOMAIN m.entries, j < i PROVE pod'[m.entries[j].pod].size = m.entries[j].actual
    <3>1. j # i
      BY <2>4, <2>5, <2>6
    <3>2. m.entries[j].pod # m.entries[i].pod
      BY <2>2, <2>4, <2>5, <3>1, NamesAllFacts
    <3>3. pod'[m.entries[j].pod] = pod[m.entries[j].pod]
      BY <2>3, <2>4, <2>5, <3>2
    <3> QED BY <2>4, <2>5, <2>6, <3>3
  <2> QED BY <1>6, <2>5, <2>6 DEF Applied, GoesOn, M, k
<1>7. CASE updater[u].at = "scale" /\ WriteScale(u) /\ updater'[u] = NextEntry(u)
  <2>1. updater[u].at \in Writing /\ pod' = pod
    BY <1>7 DEF Writing, WriteScale
  <2>2. Current(u) = M.entries[k] /\ pod[M.entries[k].pod].size = M.entries[k].actual
    BY <1>7 DEF Current, AtEntry
  <2>3. /\ k \in Nat /\ \A j \in DOMAIN M.entries : j \in Nat
        /\ \A j \in DOMAIN M.entries : j < k => pod[M.entries[j].pod].size = M.entries[j].actual
    BY <1>1, <2>1
  <2>4. PICK m, i : m = M /\ i = k
    OBVIOUS
  <2> HIDE DEF M, k
  <2>5. ASSUME NEW j \in DOMAIN m.entries, j < i + 1 PROVE pod'[m.entries[j].pod].size = m.entries[j].actual
    <3>1. j = i \/ j < i
      BY <2>3, <2>4, <2>5
    <3> QED BY <2>1, <2>2, <2>3, <2>4, <3>1
  <2> QED BY <1>7, <1>a, <2>4, <2>5 DEF Applied
<1> QED BY <1>3, <1>4, <1>5, <1>6, <1>7, WorkerMoves

(* An updater lets go of a message when all of it is applied. *)
LEMMA LetGo ==
  ASSUME TypeInv, WholeInv, NEW u \in Updaters, Applied(u), Present, SharesPositive,
         PrepareEntry(u), Become(u, Idle)
  PROVE  Used(Home(updater[u].message.node)) <= Capacity[updater[u].message.node]
<1> DEFINE M == updater[u].message
<1> DEFINE k == updater[u].k
<1>1. updater[u].at = "entry" /\ TypeOK /\ updater \in [Updaters -> UpdaterState]
  BY DEF PrepareEntry, TypeInv, TypeOK
<1>2. M \in WholeSolutions /\ M \in Message /\ M \in SolvedMessages /\ k \in Positive
  BY <1>1, HeldMessage
<1>3. M.entries \in Seq(Entry)
  BY <1>2 DEF Message
<1>4. CASE k > Len(M.entries)
  <2>1. \A j \in DOMAIN M.entries : pod[M.entries[j].pod].size = M.entries[j].actual
    <3>1. \A j \in DOMAIN M.entries : j < k => pod[M.entries[j].pod].size = M.entries[j].actual
      BY <1>1 DEF Applied
    <3> HIDE DEF M, k
    <3>2. \A j \in DOMAIN M.entries : j < k
      BY <1>2, <1>3, <1>4 DEF Positive
    <3> QED BY <3>1, <3>2
  <2> HIDE DEF M
  <2>2. Used(Home(M.node)) <= Capacity[M.node]
    BY <1>2, <2>1, AppliedFits
  <2> QED BY <2>2 DEF M
<1>5. CASE ~(k > Len(M.entries))
  <2>1. k \in DOMAIN M.entries
    BY <1>2, <1>3, <1>5 DEF Positive
  <2>2. Current(u).pod \in Pods /\ Current(u).actual > 0 /\ Current(u).actual \in Nat
    <3>1. M.entries[k].pod \in Pods /\ M.entries[k].actual \in Nat
      <4> HIDE DEF M, k
      <4> QED BY <1>2, <2>1, EntryAt
    <3>2. M.entries[k].actual > 0
      BY <1>2, <2>1 DEF SharesPositive
    <3> QED BY <3>1, <3>2 DEF Current
  <2>3. podCache[Current(u).pod] # None /\ MayResize(podCache[Current(u).pod])
    BY <2>2 DEF Present, MayResize
  <2>4. ~(Current(u).actual <= 0)
    BY <2>2
  <2>5. PICK copy : Become(u, [at |-> "dryRun", message |-> M, k |-> k, copy |-> copy])
    BY <1>5, <2>3, <2>4 DEF PrepareEntry
  <2>6. updater'[u].at = "dryRun"
    BY <1>1, <2>5 DEF Become
  <2>7. updater'[u].at = "idle"
    BY <1>1 DEF Become, Idle
  <2> QED BY <2>6, <2>7
<1> QED BY <1>4, <1>5

(* So a node whose Pods do not fit is never forgotten. *)
LEMMA FitsStep ==
  ASSUME TypeInv, CopyInv, WholeInv, NEW u, Updaters = {u}, Applied(u), Present, SharesPositive,
         Quiet, Quiet', [Next]_vars, NEW n \in Nodes, FitsOrPending(n)
  PROVE  FitsOrPending(n)'
<1>a. u \in Updaters /\ TypeOK /\ up'
  BY QuietSpends DEF TypeInv
<1>1. ASSUME \A p \in Home(n) : pod'[p].size = pod[p].size PROVE FitsOrPending(n)'
  <2>1. Used(Home(n))' = Used(Home(n))
    BY <1>1, UsedKept
  <2>2. CASE Used(Home(n)) <= Capacity[n]
    BY <2>1, <2>2 DEF FitsOrPending
  <2>3. CASE \E M \in SolvedMessages : M.node = n
    <3>1. PICK M \in SolvedMessages : M.node = n
      BY <2>3
    <3>2. \/ M \in SolvedMessages'
          \/ PrepareEntry(u) /\ Become(u, Idle) /\ updater[u].message = M
      BY <1>a, SolvedStay, Updaters = {u}
    <3>3. CASE M \in SolvedMessages'
      BY <3>1, <3>3 DEF FitsOrPending
    <3>4. CASE PrepareEntry(u) /\ Become(u, Idle) /\ updater[u].message = M
      <4>1. Used(Home(n)) <= Capacity[n]
        BY <1>a, <3>1, <3>4, LetGo
      <4> QED BY <2>1, <4>1 DEF FitsOrPending
    <3> QED BY <3>2, <3>3, <3>4
  <2> QED BY <2>2, <2>3 DEF FitsOrPending
<1>2. CASE Elsewhere
  BY <1>1, <1>2 DEF Elsewhere, Home
<1>3. CASE WritePod(u)
  <2>0. PICK M, k, q : M = updater[u].message /\ k = updater[u].k /\ q = Current(u).pod
    OBVIOUS
  <2>1. updater[u].at = "pod" /\ updater[u].at # "idle" /\ updater[u].at \in Writing
    BY <1>3 DEF WritePod, Writing
  <2>2. M \in WholeSolutions /\ M \in Message /\ M \in SolvedMessages
    BY <1>a, <2>0, <2>1, HeldMessage
  <2>3. M \in SolvedMessages'
    BY <1>a, <2>1, <2>2, SolvedStay, Updaters = {u} DEF PrepareEntry
  <2>4. k \in DOMAIN M.entries /\ Current(u) = M.entries[k] /\ q \in Pods
    BY <1>a, <2>0, <2>1, WritingFacts DEF Current
  <2>5. \A p \in Pods : p # q => pod'[p] = pod[p]
    BY <1>3, <1>a, <2>0, <2>4, PodWritten DEF Present
  <2>6. CASE M.node = n
    BY <2>3, <2>6 DEF FitsOrPending
  <2>7. CASE M.node # n
    <3>1. M.entries[k].pod \in Home(M.node)
      <4>1. NamesAll(M)
        BY <2>2 DEF WholeSolutions
      <4> DEFINE order == [j \in DOMAIN M.entries |-> M.entries[j].pod]
      <4>2. order \in Orders(Home(M.node))
        BY <4>1 DEF NamesAll
      <4>3. order[k] \in Home(M.node)
        <5>1. \A S, s : s \in Orders(S) => \A j \in DOMAIN s : s[j] \in S
          BY DEF Orders
        <5>2. k \in DOMAIN order
          BY <2>4
        <5> QED BY <4>2, <5>1, <5>2
      <4> QED BY <2>4, <4>3
    <3>2. q \notin Home(n)
      BY <2>0, <2>4, <2>7, <3>1 DEF Home
    <3>3. \A p \in Home(n) : pod'[p].size = pod[p].size
      BY <2>5, <3>2 DEF Home
    <3> QED BY <1>1, <3>3
  <2> QED BY <2>6, <2>7
<1>4. CASE TakeMessage(u) \/ PrepareEntry(u) \/ DryRun(u) \/ WriteScale(u) \/ Requeue(u)
  <2>1. pod' = pod
    BY <1>4 DEF TakeMessage, PrepareEntry, DryRun, WriteScale, Requeue, api
  <2> QED BY <1>1, <2>1
<1> QED BY <1>2, <1>3, <1>4, <1>a, QuietStep DEF UpdaterStep

(* Nothing in flight, and one updater: the nodes fit. *)
LEMMA RestFits ==
  ASSUME Present, \A n \in Nodes : FitsOrPending(n)
  PROVE  NodeFits
<1> SUFFICES ASSUME AtRest, NEW n \in Nodes PROVE Used(Running(n)) <= Capacity[n]
  BY DEF NodeFits
<1>1. SolvedMessages = {}
  <2>1. SolvedMessages \subseteq InFlight
    BY DEF SolvedMessages, InFlight
  <2> QED BY <2>1 DEF AtRest
<1>2. Running(n) = Home(n)
  BY DEF Running, Home, Present
<1> QED BY <1>1, <1>2 DEF FitsOrPending

(* What NodeFits needs, as one invariant. *)
FitInv(u) ==
  /\ RefinementInv /\ Present /\ AtEntry(u) /\ Passed(u) /\ WholeInv /\ Applied(u)
  /\ \A n \in Nodes : FitsOrPending(n)

(* No sidecar has patched a Pod, nothing was deleted or skipped for want of *)
(* metrics, no share came to nothing.                                      *)
Undisturbed == Quiet /\ Spared({"gaps"}) /\ SharesPositive

(* The Pods fit their nodes when they are created. *)
FitAtFirst == \A n \in Nodes : Used(Running(n)) <= Capacity[n]

(* It holds at first, if the Pods fit. *)
LEMMA InitFitInv ==
  ASSUME Init, FitAtFirst, NEW u, Updaters = {u}
  PROVE  FitInv(u)
<1>1. RefinementInv
  BY InitRefinementInv
<1>2. Present /\ AtEntry(u) /\ Passed(u)
  BY InitSyncInv DEF SyncInv
<1>3. WholeInv
  BY DEF Init, WholeInv, Carries, Idle
<1>4. Applied(u)
  BY DEF Init, Applied, Idle, Writing
<1>5. ASSUME NEW n \in Nodes PROVE FitsOrPending(n)
  <2>1. Running(n) = Home(n)
    BY <1>2 DEF Running, Home, Present
  <2> QED BY <2>1 DEF FitAtFirst, FitsOrPending
<1> QED BY <1>1, <1>2, <1>3, <1>4, <1>5 DEF FitInv

(* Every undisturbed step keeps it. *)
LEMMA NextFitInv ==
  ASSUME NEW u, Updaters = {u}, FitInv(u), Undisturbed, Quiet', Spared({"gaps"})', [Next]_vars
  PROVE  FitInv(u)'
<1>1. /\ IInv /\ TypeInv /\ TypeOK /\ CopyInv /\ Quiet /\ SharesPositive /\ u \in Updaters
      /\ Present /\ AtEntry(u) /\ Passed(u) /\ WholeInv /\ Applied(u)
  BY DEF FitInv, RefinementInv, IInv, TypeInv, Undisturbed
<1>2. RefinementInv'
  BY NextRefinementInv DEF FitInv
<1>3. Present'
  BY <1>1, PresentStep
<1>4. WholeInv'
  <2>1. ~Spend("gaps")
    BY <1>1, NotSpent DEF Undisturbed, Spared, Kinds
  <2> QED BY <1>1, <2>1, WholeStep
<1>5. AtEntry(u)' /\ Passed(u)' /\ Applied(u)'
  <2>1. CASE Elsewhere
    <3>1. /\ updater' = updater /\ scale' = scale /\ \A p \in Pods : pod'[p].size = pod[p].size
          /\ Current(u)' = Current(u)
      BY <2>1 DEF Elsewhere, Current
    <3>2. updater[u].at = "scale" => Current(u).pod \in Pods
      BY <1>1, WritingFacts DEF Writing
    <3>3. ASSUME updater[u].at \in {"entry"} \cup Writing, NEW j \in DOMAIN updater[u].message.entries
          PROVE  updater[u].message.entries[j].pod \in Pods
      <4>1. updater[u].message \in Message
        BY <1>1, <3>3, HeldMessage DEF Writing
      <4> QED BY <3>3, <4>1, EntryAt
    <3>4. AtEntry(u)' /\ Passed(u)'
      BY <1>1, <3>1, <3>2 DEF AtEntry, Passed
    <3>5. Applied(u)'
      BY <1>1, <3>1, <3>3 DEF Applied
    <3> QED BY <3>4, <3>5
  <2>2. CASE UpdaterStep(u)
    BY <1>1, <2>2, WorkerKnows, AppliedStep
  <2> QED BY <1>1, <2>1, <2>2, QuietStep
<1>6. \A n \in Nodes : FitsOrPending(n)'
  BY <1>1, FitsStep DEF FitInv
<1> QED BY <1>2, <1>3, <1>4, <1>5, <1>6 DEF FitInv

(* With one updater, whatever messages of different versions were applied   *)
(* in whatever order, and however often they were put back: when nothing is *)
(* left to do, the Pods of each node fit it -- if they did at first, for as  *)
(* long as the process runs, nothing is deleted, no Pod is skipped for want *)
(* of metrics, no sidecar has patched a Pod and no share is rounded down to *)
(* nothing.  Any call may fail, applied or not.                            *)
THEOREM OneUpdaterFits ==
  ASSUME NEW u, Updaters = {u}
  PROVE  Spec /\ FitAtFirst /\ []Undisturbed => []NodeFits
<1>1. Init /\ FitAtFirst => FitInv(u)
  BY InitFitInv, Updaters = {u}
<1>2. FitInv(u) /\ Undisturbed /\ [Next]_vars /\ Undisturbed' => FitInv(u)'
  BY NextFitInv, Updaters = {u} DEF Undisturbed
<1>3. FitInv(u) => NodeFits
  BY RestFits DEF FitInv
<1> QED BY <1>1, <1>2, <1>3, PTL DEF Spec
=============================================================================
