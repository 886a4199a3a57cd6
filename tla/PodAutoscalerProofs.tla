------------------------ MODULE PodAutoscalerProofs ------------------------
(***************************************************************************)
(* Theorems about PodAutoscaler, for every number of Pods, nodes and       *)
(* goroutines, every channel capacity and every budget of faults.          *)
(*                                                                         *)
(* A message is followed from the recommender to the updaters: what it     *)
(* satisfies when it is made, and what the contention manager adds, holds  *)
(* wherever it is later found, because no step changes it and because the  *)
(* version of a stored PodScale only grows.                                *)
(***************************************************************************)
EXTENDS PodAutoscaler, AllotmentProofs

Writing == {"dryRun", "pod", "scale"}

(* An updater that writes an entry has tested that its amount is positive. *)
WorkerInv ==
  \A u \in Updaters : updater[u].at \in Writing =>
    updater[u].k \in DOMAIN updater[u].message.entries /\ Current(u).actual > 0

TypeInv == TypeOK /\ WorkerInv

----------------------------------------------------------------------------
(* Data. *)

(* A busy updater holds a message and is at one of its entries. *)
LEMMA BusyType ==
  ASSUME NEW s \in UpdaterState, s.at # "idle"
  PROVE  /\ s # Idle /\ s.message \in Message /\ s.k \in Positive
         /\ s.at \in Writing => s.copy \in PodObject
<1>1. s # Idle
  BY DEF Idle
<1>2. CASE s \in [at : {"entry", "requeue"}, message : Message, k : Positive]
  BY <1>1, <1>2 DEF Writing
<1>3. CASE s \in [at : {"dryRun", "pod", "scale"}, message : Message, k : Positive, copy : PodObject]
  BY <1>1, <1>3
<1> QED BY <1>1, <1>2, <1>3 DEF UpdaterState

(* The two forms a busy updater can have. *)
LEMMA BusyForm ==
  ASSUME NEW message \in Message, NEW k \in Positive, NEW copy \in PodObject
  PROVE  /\ \A at \in {"entry", "requeue"} : [at |-> at, message |-> message, k |-> k] \in UpdaterState
         /\ \A at \in Writing :
              [at |-> at, message |-> message, k |-> k, copy |-> copy] \in UpdaterState
BY DEF UpdaterState, Writing

(* The API server keeps an object well formed. *)
LEMMA StoredPod ==
  ASSUME NEW old \in PodObject, NEW new \in PodObject
  PROVE  Stored(old, new) \in PodObject
BY DEF Stored, PodObject, Positive

(* So it does for PodScales, whose version grows whenever they change. *)
LEMMA StoredScale ==
  ASSUME NEW old \in ScaleObject, NEW new \in ScaleObject
  PROVE  /\ Stored(old, new) \in ScaleObject
         /\ \/ Stored(old, new) = old
            \/ Stored(old, new).rv = old.rv + 1 /\ Stored(old, new).actual = new.actual
BY DEF Stored, ScaleObject, Positive

(* The control law asks for a positive amount of at most half as much again.*)
LEMMA RecommendableType ==
  ASSUME NEW actual \in Positive, NEW d \in Recommendable(actual)
  PROVE  d \in Positive /\ 2 * d <= 3 * actual
<1>1. PICK x \in Demands : d = Smaller(x, (3 * actual) \div 2)
  BY DEF Recommendable
<1>2. x \in Positive
  BY AmountAssumption
<1>3. (3 * actual) \div 2 \in Positive /\ 2 * ((3 * actual) \div 2) <= 3 * actual
  BY DEF Positive
<1> QED BY <1>1, <1>2, <1>3 DEF Smaller, Positive

(* MinResources and MaxResources leave a positive amount, and one that is   *)
(* larger than the amount asked for only up to MinResources.               *)
LEMMA CappedType ==
  ASSUME NEW d \in Positive
  PROVE  Capped(d) \in Positive /\ Capped(d) <= Larger(d, Lower)
BY AmountAssumption DEF Capped, ApplyBounds, Larger, Positive

(* The amounts of a message are sequences of natural numbers. *)
LEMMA EntriesType ==
  ASSUME NEW entries \in Seq(Entry)
  PROVE  /\ Desired(entries) \in Seq(Nat) /\ Len(Desired(entries)) = Len(entries)
         /\ Actual(entries) \in Seq(Nat) /\ Len(Actual(entries)) = Len(entries)
<1>1. DOMAIN entries = 1..Len(entries) /\ Len(entries) \in Nat
  OBVIOUS
<1>2. ASSUME NEW k \in 1..Len(entries)
      PROVE  Capped(entries[k].desired) \in Nat /\ entries[k].actual \in Nat
  <2>1. entries[k] \in Entry
    OBVIOUS
  <2>2. entries[k].desired \in Positive /\ entries[k].actual \in Nat
    BY <2>1 DEF Entry
  <2> QED BY <2>2, CappedType DEF Positive
<1> QED BY <1>1, <1>2 DEF Desired, Actual

(* What Pods use of their node is a natural number. *)
LEMMA UsedType ==
  ASSUME TypeOK, NEW S \in SUBSET {p \in Pods : pod[p] # None}
  PROVE  Used(S) \in Nat
<1>1. IsFiniteSet(S)
  BY NodeAssumption, FS_Subset
<1>2. Cardinality(S) \in Nat /\ ExistsBijection(1..Cardinality(S), S)
  BY <1>1, FS_CardinalityType
<1>3. \E s : s \in Orders(S)
  BY <1>2 DEF ExistsBijection, Bijection, Injection, Orders
<1> DEFINE order == CHOOSE s \in Orders(S) : TRUE
<1>4. order \in [1..Cardinality(S) -> S]
  BY <1>3 DEF Orders
<1> DEFINE sizes == [k \in 1..Cardinality(S) |-> pod[order[k]].size]
<1>5. ASSUME NEW k \in 1..Cardinality(S) PROVE pod[order[k]].size \in Nat
  <2>1. order[k] \in Pods /\ pod[order[k]] # None
    BY <1>4
  <2>2. pod[order[k]] \in PodObject
    BY <2>1 DEF TypeOK
  <2> QED BY <2>2 DEF PodObject, Positive
<1> HIDE DEF order
<1>6. sizes \in Seq(Nat)
  BY <1>2, <1>5
<1>7. Total(sizes) \in Nat
  BY <1>6, RunningTotalType
<1> QED BY <1>7 DEF Used, order

(* What is left for a message is an integer. *)
LEMMA AllocatableType ==
  ASSUME TypeOK, NEW message \in Message
  PROVE  /\ Allocatable(message) \in Int
         /\ Allocatable(message) <= Capacity[message.node]
<1> DEFINE S == Running(message.node) \ {message.entries[k].pod : k \in DOMAIN message.entries}
<1>1. S \subseteq {p \in Pods : pod[p] # None}
  BY DEF Running
<1>2. Used(S) \in Nat
  BY <1>1, UsedType
<1>3. Capacity[message.node] \in Nat
  BY AmountAssumption DEF Message
<1> QED BY <1>2, <1>3 DEF Allocatable

(* Solving keeps what an entry was made from, gives no entry more than its  *)
(* capped amount, and all of them together no more than is available.      *)
LEMMA SolvedFacts ==
  ASSUME NEW entries \in Seq(Entry), NEW available \in Nat, available < Precision,
         NEW s \in Solved(entries, available)
  PROVE  /\ s \in Seq(Entry) /\ DOMAIN s = DOMAIN entries
         /\ \A k \in DOMAIN entries : /\ s[k] = [entries[k] EXCEPT !.actual = s[k].actual]
                                      /\ s[k].actual <= Capped(entries[k].desired)
         /\ Total(Actual(s)) <= available
<1> DEFINE n == Len(entries)
<1> DEFINE capped == Desired(entries)
<1>1. DOMAIN entries = 1..n /\ n \in Nat
  OBVIOUS
<1>2. capped \in Seq(Nat) /\ Len(capped) = n /\ Total(capped) \in Nat
  BY EntriesType, RunningTotalType
<1>3. \A k \in 1..n : capped[k] = Capped(entries[k].desired) /\ capped[k] \in Nat
  BY <1>1, <1>2 DEF Desired
<1> HIDE DEF capped
<1>4. PICK share : /\ DOMAIN share = 1..n
                   /\ \A k \in 1..n : share[k] \in Grant(capped[k], Total(capped), available)
                   /\ s = [k \in 1..n |-> [entries[k] EXCEPT !.actual = share[k]]]
  BY <1>1 DEF Solved, capped
<1>5. \A k \in 1..n : share[k] \in Nat /\ share[k] <= capped[k]
  BY <1>2, <1>3, <1>4, GrantType
<1>6. ASSUME NEW k \in 1..n
      PROVE  s[k] \in Entry /\ s[k].actual = share[k] /\ s[k] = [entries[k] EXCEPT !.actual = s[k].actual]
  <2>1. entries[k] \in Entry /\ s[k] = [entries[k] EXCEPT !.actual = share[k]] /\ share[k] \in Nat
    BY <1>4, <1>5
  <2> QED BY <2>1 DEF Entry
<1>7. s \in Seq(Entry) /\ DOMAIN s = 1..n /\ Len(s) = n
  <2>1. DOMAIN s = 1..n /\ s = [k \in 1..n |-> s[k]]
    BY <1>4
  <2>2. s \in [1..n -> Entry]
    BY <1>6, <2>1
  <2> HIDE DEF n
  <2>3. n \in Nat
    BY <1>1
  <2> QED BY <2>1, <2>2, <2>3
<1> DEFINE given == Actual(s)
<1>8. given \in Seq(Nat) /\ Len(given) = n /\ \A k \in 1..n : given[k] = share[k]
  BY <1>6, <1>7, EntriesType DEF Actual
<1> HIDE DEF given
<1>9. Total(given) <= available
  BY <1>2, <1>4, <1>8, SharesFitAvailable
<1> QED BY <1>1, <1>3, <1>5, <1>6, <1>7, <1>9 DEF given

(* What a recommender sends was computed from the cached PodScales. *)
FromCache(message) ==
  \A k \in DOMAIN message.entries :
    LET e == message.entries[k] IN
    /\ scaleCache[e.pod] # None
    /\ e.base = scaleCache[e.pod].rv
    /\ 2 * e.desired <= 3 * scaleCache[e.pod].actual

(* Every message a recommender can make is well formed. *)
LEMMA RecommendedFacts ==
  ASSUME TypeOK, NEW n \in Nodes, NEW kept \in SUBSET {p \in Pods : scaleCache[p] # None},
         NEW message \in Recommended(n, kept)
  PROVE  message \in Message /\ FromCache(message)
<1>0. PICK order \in Orders(kept \ Unscalable), desired \in Wishes(kept \ Unscalable) :
        message = AsMessage(n, order, desired, kept \ Unscalable # kept)
  BY DEF Recommended
<1>1. \A p \in kept \ Unscalable : desired[p] \in Recommendable(scaleCache[p].actual)
  BY DEF Wishes
<1> DEFINE entries == [k \in DOMAIN order |-> Recommendation(order[k], desired[order[k]])]
<1> DEFINE size == Cardinality(kept \ Unscalable)
<1>3. size \in Nat
  <2>1. IsFiniteSet(kept \ Unscalable)
    BY NodeAssumption, FS_Subset
  <2> QED BY <2>1, FS_CardinalityType
<1>4. order \in [1..size -> kept \ Unscalable]
  BY DEF Orders
<1> HIDE DEF size
<1>5. ASSUME NEW k \in 1..size
      PROVE  /\ entries[k] \in Entry
             /\ scaleCache[entries[k].pod] # None
             /\ entries[k].base = scaleCache[entries[k].pod].rv
             /\ 2 * entries[k].desired <= 3 * scaleCache[entries[k].pod].actual
  <2> DEFINE p == order[k]
  <2>1. p \in Pods /\ p \in kept \ Unscalable /\ scaleCache[p] # None
    BY <1>4
  <2>2. scaleCache[p] \in ScaleObject
    BY <2>1 DEF TypeOK
  <2>3. scaleCache[p].rv \in Positive /\ scaleCache[p].actual \in Positive
    BY <2>2 DEF ScaleObject
  <2>4. desired[p] \in Recommendable(scaleCache[p].actual)
    BY <1>1, <2>1
  <2>5. desired[p] \in Positive /\ 2 * desired[p] <= 3 * scaleCache[p].actual
    BY <2>3, <2>4, RecommendableType
  <2>6. entries[k] = [pod |-> p, base |-> scaleCache[p].rv, desired |-> desired[p],
                      actual |-> scaleCache[p].actual]
    BY <1>4 DEF Recommendation
  <2>7. scaleCache[p].actual \in Nat
    BY <2>3 DEF Positive
  <2> HIDE DEF p, entries
  <2> QED BY <2>1, <2>3, <2>5, <2>6, <2>7 DEF Entry
<1>6. DOMAIN entries = 1..size
  BY <1>4
<1>7. entries \in Seq(Entry)
  BY <1>3, <1>5, <1>6
<1> HIDE DEF entries
<1>8. message = [node |-> n, entries |-> entries, nil |-> kept \ Unscalable # kept]
  BY <1>0 DEF entries, AsMessage
<1>9. message \in Message
  BY <1>7, <1>8 DEF Message
<1>10. FromCache(message)
  BY <1>5, <1>6, <1>8 DEF FromCache
<1> QED BY <1>9, <1>10

----------------------------------------------------------------------------
(* The way of a message. *)

(* Messages of Raw are on the way to a contention manager, messages of      *)
(* Settled behind one.                                                     *)
Carries(Raw, Settled) ==
  /\ recommender \in [Recommenders -> Raw \cup {None}]
  /\ recommenderOut \in Seq(Raw)
  /\ manager \in [Managers -> Settled \cup {None}]
  /\ contentionManagerOut \in Seq(Settled)
  /\ \A u \in Updaters : updater[u].at # "idle" => updater[u].message \in Settled

(* Taking the head of a list leaves a list of the same kind. *)
LEMMA TakeHead ==
  ASSUME NEW S, NEW list \in Seq(S), list # <<>>
  PROVE  Head(list) \in S /\ Tail(list) \in Seq(S)
OBVIOUS

(* An updater takes a message from the channel, keeps its own or stops.     *)
LEMMA BecomeCarries ==
  ASSUME NEW Settled, NEW u \in Updaters, NEW state,
         updater \in [Updaters -> UpdaterState],
         \A v \in Updaters : updater[v].at # "idle" => updater[v].message \in Settled,
         Become(u, state), state.at # "idle" => state.message \in Settled
  PROVE  \A v \in Updaters : updater'[v].at # "idle" => updater'[v].message \in Settled
BY DEF Become

(* The rest of the process only moves messages: whatever the messages that  *)
(* are made and solved satisfy, all of them do.                            *)
LEMMA OnlyMoved ==
  ASSUME NEW Raw, NEW Settled, TypeOK, Carries(Raw, Settled), [Next]_vars,
         \A r \in Recommenders : RecommendNode(r) => recommender' \in [Recommenders -> Raw \cup {None}],
         \A m \in Managers : ManageNode(m) => manager' \in [Managers -> Settled \cup {None}]
  PROVE  Carries(Raw, Settled)'
<1> USE DEF Carries
<1>a. /\ recommender \in [Recommenders -> Raw \cup {None}] /\ recommenderOut \in Seq(Raw)
      /\ manager \in [Managers -> Settled \cup {None}] /\ contentionManagerOut \in Seq(Settled)
      /\ \A u \in Updaters : updater[u].at # "idle" => updater[u].message \in Settled
  OBVIOUS
<1>b. updater \in [Updaters -> UpdaterState]
  BY DEF TypeOK
<1>0. ASSUME UNCHANGED <<recommender, recommenderOut, manager, contentionManagerOut, updater>>
      PROVE  Carries(Raw, Settled)'
  BY <1>0
<1>1. ASSUME NEW r \in Recommenders, RecommendNode(r) PROVE Carries(Raw, Settled)'
  BY <1>1 DEF RecommendNode
<1>2. ASSUME NEW r \in Recommenders, SendRecommendation(r) PROVE Carries(Raw, Settled)'
  <2>1. recommender[r] \in Raw
    BY <1>2 DEF SendRecommendation
  <2>2. recommenderOut' = Append(recommenderOut, recommender[r])
    BY <1>2 DEF SendRecommendation
  <2>3. recommenderOut' \in Seq(Raw)
    BY <2>1, <2>2, <1>a
  <2> QED BY <1>2, <2>3 DEF SendRecommendation
<1>3. ASSUME NEW m \in Managers, ManageNode(m) PROVE Carries(Raw, Settled)'
  <2>1. recommenderOut # <<>> /\ recommenderOut' = Tail(recommenderOut)
    BY <1>3 DEF ManageNode
  <2>2. recommenderOut' \in Seq(Raw)
    BY <2>1, <1>a, TakeHead
  <2> QED BY <1>3, <2>2 DEF ManageNode
<1>4. ASSUME NEW m \in Managers, SendSolution(m) PROVE Carries(Raw, Settled)'
  <2>1. manager[m] \in Settled
    BY <1>4 DEF SendSolution
  <2>2. contentionManagerOut' = Append(contentionManagerOut, manager[m])
    BY <1>4 DEF SendSolution
  <2>3. contentionManagerOut' \in Seq(Settled)
    BY <2>1, <2>2, <1>a
  <2> QED BY <1>4, <2>3 DEF SendSolution
<1>5. ASSUME Stopped PROVE Carries(Raw, Settled)'
  BY <1>5 DEF Stopped, Idle
<1>6. ASSUME NEW u \in Updaters, UpdaterStep(u) PROVE Carries(Raw, Settled)'
  <2>1. ASSUME NEW state, Become(u, state), state.at # "idle" => state.message \in Settled,
               contentionManagerOut' \in Seq(Settled)
        PROVE  Carries(Raw, Settled)'
    <3>1. \A v \in Updaters : updater'[v].at # "idle" => updater'[v].message \in Settled
      BY <1>a, <1>b, <2>1, BecomeCarries
    <3> QED BY <2>1, <3>1 DEF Become
  <2>2. Idle.at = "idle"
    BY DEF Idle
  <2>3. CASE TakeMessage(u)
    <3>1. /\ Head(contentionManagerOut) \in Settled /\ contentionManagerOut' \in Seq(Settled)
      BY <1>a, <2>3, TakeHead DEF TakeMessage
    <3>2. Become(u, [at |-> "entry", message |-> Head(contentionManagerOut), k |-> 1])
      BY <2>3 DEF TakeMessage
    <3> QED BY <2>1, <3>1, <3>2
  <2>4. ASSUME NEW state, Become(u, state), updater[u].at # "idle",
               state = Idle \/ state.message = updater[u].message,
               contentionManagerOut' = contentionManagerOut
        PROVE  Carries(Raw, Settled)'
    BY <1>a, <2>1, <2>2, <2>4
  <2>5. CASE PrepareEntry(u)
    <3>1. updater[u].at # "idle" /\ contentionManagerOut' = contentionManagerOut
      BY <2>5 DEF PrepareEntry
    <3>2. PICK copy : Become(u, Idle) \/ Become(u, NextEntry(u))
                        \/ Become(u, [at |-> "dryRun", message |-> updater[u].message,
                                      k |-> updater[u].k, copy |-> copy])
      BY <2>5 DEF PrepareEntry
    <3>3. NextEntry(u).message = updater[u].message
      BY DEF NextEntry
    <3> QED BY <2>4, <3>1, <3>2, <3>3
  <2>6. ASSUME updater[u].at \in Writing, contentionManagerOut' = contentionManagerOut,
               NEW at, Become(u, [updater[u] EXCEPT !.at = at])
        PROVE  Carries(Raw, Settled)'
    <3>1. updater[u].at # "idle"
      BY <2>6 DEF Writing
    <3>2. [updater[u] EXCEPT !.at = at].message = updater[u].message
      BY <1>b, <3>1 DEF UpdaterState, Idle
    <3> QED BY <2>4, <2>6, <3>1, <3>2
  <2>7. Requeueing(u).message = updater[u].message /\ NextEntry(u).message = updater[u].message
    BY DEF Requeueing, NextEntry
  <2>8. CASE DryRun(u)
    <3>1. updater[u].at \in Writing /\ updater[u].at # "idle" /\ contentionManagerOut' = contentionManagerOut
      BY <2>8 DEF DryRun, Writing
    <3>2. Become(u, [updater[u] EXCEPT !.at = "pod"]) \/ Become(u, Requeueing(u))
      BY <2>8 DEF DryRun
    <3> QED BY <2>4, <2>6, <2>7, <3>1, <3>2
  <2>9. CASE WritePod(u)
    <3>1. updater[u].at \in Writing /\ updater[u].at # "idle" /\ contentionManagerOut' = contentionManagerOut
      BY <2>9 DEF WritePod, Writing
    <3>2. Become(u, [updater[u] EXCEPT !.at = "scale"]) \/ Become(u, Requeueing(u))
      BY <2>9 DEF WritePod
    <3> QED BY <2>4, <2>6, <2>7, <3>1, <3>2
  <2>10. CASE WriteScale(u)
    <3>1. updater[u].at # "idle" /\ contentionManagerOut' = contentionManagerOut
      BY <2>10 DEF WriteScale
    <3>2. Become(u, NextEntry(u)) \/ Become(u, Requeueing(u))
      BY <2>10 DEF WriteScale
    <3> QED BY <2>4, <2>7, <3>1, <3>2
  <2>11. CASE Requeue(u)
    <3>1. updater[u].message \in Settled
      BY <1>a, <2>11 DEF Requeue
    <3>2. contentionManagerOut' = Append(contentionManagerOut, updater[u].message) /\ Become(u, Idle)
      BY <2>11 DEF Requeue
    <3>3. contentionManagerOut' \in Seq(Settled)
      BY <1>a, <3>1, <3>2
    <3> QED BY <2>1, <2>2, <3>2, <3>3
  <2> QED BY <1>6, <2>3, <2>5, <2>8, <2>9, <2>10, <2>11 DEF UpdaterStep
<1>7. CASE ProcessStep
  <2>1. ASSUME NEW n \in Nodes, EnqueueNode(n) PROVE Carries(Raw, Settled)'
    BY <1>0, <2>1 DEF EnqueueNode
  <2>2. ASSUME NEW m \in Managers, Panic(m) PROVE Carries(Raw, Settled)'
    BY <1>5, <2>2 DEF Panic
  <2>3. CASE Crash
    BY <1>5, <2>3 DEF Crash
  <2>4. CASE Restart
    BY <1>0, <2>4 DEF Restart
  <2> QED
    BY <1>1, <1>2, <1>3, <1>4, <1>6, <1>7, <2>1, <2>2, <2>3, <2>4
    DEF ProcessStep, RecommenderStep, ManagerStep
<1>8. CASE EnvironmentStep
  BY <1>0, <1>8 DEF EnvironmentStep, SyncPod, SyncScale, TouchPod, SidecarPatch, Patch,
                    RemovePod, RemoveScale, process
<1>9. CASE UNCHANGED vars
  BY <1>0, <1>9 DEF vars, process
<1> QED BY <1>7, <1>8, <1>9 DEF Next

(* A solved message is still a message, for the same node and versions, and *)
(* fits what that node has.                                                *)
Fitting(message) ==
  /\ Total(Actual(message.entries)) <= Capacity[message.node]
  /\ \A k \in DOMAIN message.entries :
       message.entries[k].actual <= Capped(message.entries[k].desired)

LEMMA ManagedFacts ==
  ASSUME TypeOK, NEW m \in Managers, ManageNode(m)
  PROVE  /\ recommenderOut # <<>>
         /\ \/ manager' = manager
            \/ \E solved \in Message :
                 /\ manager' = [manager EXCEPT ![m] = solved]
                 /\ Fitting(solved)
                 /\ solved.node = Head(recommenderOut).node
                 /\ DOMAIN solved.entries = DOMAIN Head(recommenderOut).entries
                 /\ \A k \in DOMAIN solved.entries :
                      solved.entries[k] = [Head(recommenderOut).entries[k] EXCEPT
                                             !.actual = solved.entries[k].actual]
<1> DEFINE message == Head(recommenderOut)
<1>1. recommenderOut # <<>> /\ message \in Message
  BY TakeHead DEF ManageNode, TypeOK
<1>2. CASE manager' = manager
  BY <1>1, <1>2
<1>3. CASE manager' # manager
  <2>1. PICK entries \in Solved(message.entries, Allocatable(message)) :
          /\ Allocatable(message) >= 0
          /\ manager' = [manager EXCEPT ![m] = [message EXCEPT !.entries = entries]]
    BY <1>3 DEF ManageNode
  <2>2. /\ Allocatable(message) \in Nat /\ Allocatable(message) <= Capacity[message.node]
        /\ Capacity[message.node] \in Nat /\ Allocatable(message) < Precision
    <3> HIDE DEF message
    <3>1. Allocatable(message) \in Int /\ Allocatable(message) <= Capacity[message.node]
      BY <1>1, AllocatableType
    <3>2. Capacity[message.node] \in Nat /\ Capacity[message.node] < Precision
      BY <1>1, AmountAssumption DEF Message
    <3>3. Allocatable(message) >= 0
      BY <2>1
    <3> QED BY <3>1, <3>2, <3>3, PrecisionAssumption
  <2>3. message.entries \in Seq(Entry) /\ message.node \in Nodes /\ message.nil \in BOOLEAN
    BY <1>1 DEF Message
  <2>4. /\ entries \in Seq(Entry) /\ DOMAIN entries = DOMAIN message.entries
        /\ \A k \in DOMAIN message.entries :
             /\ entries[k] = [message.entries[k] EXCEPT !.actual = entries[k].actual]
             /\ entries[k].actual <= Capped(message.entries[k].desired)
        /\ Total(Actual(entries)) <= Allocatable(message)
    BY <2>1, <2>2, <2>3, SolvedFacts
  <2> DEFINE solved == [message EXCEPT !.entries = entries]
  <2>5. solved = [node |-> message.node, entries |-> entries, nil |-> message.nil]
    BY <1>1 DEF Message
  <2> HIDE DEF message, solved
  <2>6. solved \in Message
    BY <2>3, <2>4, <2>5 DEF Message
  <2>7. Total(Actual(entries)) <= Capacity[message.node]
    <3>1. Total(Actual(entries)) \in Nat
      BY <2>4, EntriesType, RunningTotalType
    <3> QED BY <2>2, <2>4, <3>1
  <2>8. ASSUME NEW k \in DOMAIN message.entries
        PROVE  entries[k].desired = message.entries[k].desired
    <3>1. message.entries[k] \in Entry
      BY <2>3
    <3>2. entries[k] = [message.entries[k] EXCEPT !.actual = entries[k].actual]
      BY <2>4
    <3> QED BY <3>1, <3>2 DEF Entry
  <2>9. Fitting(solved)
    BY <2>4, <2>5, <2>7, <2>8 DEF Fitting
  <2>10. manager' = [manager EXCEPT ![m] = solved]
    BY <2>1 DEF solved
  <2>11. /\ solved.node = message.node /\ DOMAIN solved.entries = DOMAIN message.entries
         /\ \A k \in DOMAIN solved.entries :
              solved.entries[k] = [message.entries[k] EXCEPT !.actual = solved.entries[k].actual]
    BY <2>4, <2>5
  <2> QED BY <1>1, <2>6, <2>9, <2>10, <2>11 DEF message
<1> QED BY <1>2, <1>3

----------------------------------------------------------------------------
(* Type correctness. *)

(* Everything starts well formed. *)
LEMMA InitTypeInv == Init => TypeInv
<1> SUFFICES ASSUME Init PROVE TypeInv
  OBVIOUS
<1>1. /\ \A p \in Pods : [rv |-> 1, label |-> "Kosmos", size |-> Requests[p]] \in PodObject
      /\ [rv |-> 1, desired |-> Default, actual |-> Default] \in ScaleObject
  BY AmountAssumption DEF PodObject, ScaleObject, Positive
<1>2. TypeOK
  BY <1>1, BoundAssumption DEF Init, TypeOK, UpdaterState
<1>3. WorkerInv
  BY DEF Init, WorkerInv, Idle, Writing
<1> QED BY <1>2, <1>3 DEF TypeInv

(* What the API server and the caches hold stays well formed. *)
ObjectsOK ==
  /\ pod \in [Pods -> PodObject \cup {None}]
  /\ scale \in [Pods -> ScaleObject \cup {None}]
  /\ podCache \in [Pods -> PodObject \cup {None}]
  /\ scaleCache \in [Pods -> ScaleObject \cup {None}]

(* The object that syncPod prepares is a Pod of the entry's size. *)
LEMMA PreparedPod ==
  ASSUME TypeInv, NEW u \in Updaters, PrepareEntry(u), updater[u].k <= Len(updater[u].message.entries),
         podCache[Current(u).pod] # None, Current(u).actual > 0
  PROVE  SyncedPod(podCache[Current(u).pod], Current(u)) \in PodObject
<1>1. updater[u] \in UpdaterState /\ updater[u].at # "idle"
  BY DEF TypeInv, TypeOK, PrepareEntry
<1>2. updater[u].message \in Message /\ updater[u].k \in Positive
  BY <1>1, BusyType
<1>3. updater[u].message.entries \in Seq(Entry) /\ updater[u].k \in DOMAIN updater[u].message.entries
  BY <1>2 DEF Message, Positive
<1>4. Current(u) \in Entry
  BY <1>3 DEF Current
<1>5. Current(u).pod \in Pods /\ Current(u).actual \in Positive
  BY <1>4 DEF Entry, Positive
<1>6. podCache[Current(u).pod] \in PodObject
  BY <1>5 DEF TypeInv, TypeOK
<1> QED BY <1>5, <1>6 DEF SyncedPod, PodObject

(* A worker at a write holds an entry it may store. *)
LEMMA WritingFacts ==
  ASSUME TypeInv, NEW u \in Updaters, updater[u].at \in Writing
  PROVE  /\ updater[u].copy \in PodObject
         /\ updater[u].message \in Message /\ updater[u].k \in Positive
         /\ updater[u].k \in DOMAIN updater[u].message.entries
         /\ Current(u) \in Entry /\ Current(u).pod \in Pods
         /\ [rv |-> Current(u).base, desired |-> Current(u).desired, actual |-> Current(u).actual]
              \in ScaleObject
<1>1. updater[u] \in UpdaterState /\ updater[u].at # "idle"
  BY DEF TypeInv, TypeOK, Writing
<1>2. updater[u].copy \in PodObject /\ updater[u].message \in Message /\ updater[u].k \in Positive
  BY <1>1, BusyType
<1>3. updater[u].k \in DOMAIN updater[u].message.entries /\ Current(u).actual > 0
  BY DEF TypeInv, WorkerInv
<1>4. updater[u].message.entries \in Seq(Entry)
  BY <1>2 DEF Message
<1>5. Current(u) \in Entry
  BY <1>3, <1>4 DEF Current
<1>6. /\ Current(u).pod \in Pods /\ Current(u).base \in Positive
      /\ Current(u).desired \in Positive /\ Current(u).actual \in Positive
  BY <1>3, <1>5 DEF Entry, Positive
<1> QED BY <1>2, <1>3, <1>5, <1>6 DEF ScaleObject

(* A stored Pod or PodScale only changes to a well-formed one. *)
LEMMA ObjectsStep ==
  ASSUME TypeInv, [Next]_vars
  PROVE  ObjectsOK'
<1> USE DEF ObjectsOK
<1>a. ObjectsOK
  BY DEF TypeInv, TypeOK
<1>0. ASSUME UNCHANGED <<api, caches>> PROVE ObjectsOK'
  BY <1>0, <1>a DEF api, caches
<1>1. ASSUME NEW u \in Updaters, WritePod(u) PROVE ObjectsOK'
  <2>1. updater[u].copy \in PodObject /\ Current(u).pod \in Pods
    BY <1>1, WritingFacts DEF WritePod, Writing
  <2>2. UNCHANGED <<scale, caches>>
    BY <1>1 DEF WritePod
  <2>3. \/ pod' = pod
        \/ /\ pod[Current(u).pod] # None
           /\ pod' = [pod EXCEPT ![Current(u).pod] = Stored(pod[Current(u).pod], updater[u].copy)]
    BY <1>1 DEF WritePod, StillCurrent
  <2>4. pod[Current(u).pod] # None => Stored(pod[Current(u).pod], updater[u].copy) \in PodObject
    BY <1>a, <2>1, StoredPod
  <2> QED BY <1>a, <2>2, <2>3, <2>4 DEF caches
<1>2. ASSUME NEW u \in Updaters, WriteScale(u) PROVE ObjectsOK'
  <2> DEFINE new == [rv |-> Current(u).base, desired |-> Current(u).desired, actual |-> Current(u).actual]
  <2>1. new \in ScaleObject /\ Current(u).pod \in Pods
    BY <1>2, WritingFacts DEF WriteScale, Writing
  <2>2. UNCHANGED <<pod, caches>>
    BY <1>2 DEF WriteScale
  <2>3. \/ scale' = scale
        \/ /\ scale[Current(u).pod] # None
           /\ scale' = [scale EXCEPT ![Current(u).pod] = Stored(scale[Current(u).pod], new)]
    BY <1>2 DEF WriteScale, StillCurrent
  <2> HIDE DEF new
  <2>4. scale[Current(u).pod] # None => Stored(scale[Current(u).pod], new) \in ScaleObject
    BY <1>a, <2>1, StoredScale
  <2> QED BY <1>a, <2>2, <2>3, <2>4 DEF caches
<1>3. CASE ProcessStep
  <2>1. ASSUME NEW u \in Updaters, UpdaterStep(u) PROVE ObjectsOK'
    BY <1>0, <1>1, <1>2, <2>1 DEF UpdaterStep, TakeMessage, PrepareEntry, DryRun, Requeue
  <2>2. ASSUME NEW r \in Recommenders, RecommenderStep(r) PROVE ObjectsOK'
    BY <1>0, <2>2 DEF RecommenderStep, RecommendNode, SendRecommendation
  <2>3. ASSUME NEW m \in Managers, ManagerStep(m) PROVE ObjectsOK'
    BY <1>0, <2>3 DEF ManagerStep, ManageNode, SendSolution, Panic
  <2>4. ASSUME NEW n \in Nodes, EnqueueNode(n) PROVE ObjectsOK'
    BY <1>0, <2>4 DEF EnqueueNode
  <2>5. CASE Crash
    BY <1>0, <2>5 DEF Crash
  <2>6. CASE Restart
    BY <1>a, <2>6 DEF Restart, api
  <2> QED BY <1>3, <2>1, <2>2, <2>3, <2>4, <2>5, <2>6 DEF ProcessStep
<1>4. CASE EnvironmentStep
  <2>1. PICK p \in Pods : \/ SyncPod(p) \/ SyncScale(p) \/ TouchPod(p) \/ SidecarPatch(p)
                          \/ RemovePod(p) \/ RemoveScale(p)
    BY <1>4 DEF EnvironmentStep
  <2>2. CASE SyncPod(p) \/ SyncScale(p)
    BY <1>a, <2>2 DEF SyncPod, SyncScale, api
  <2>3. CASE TouchPod(p)
    <3>1. pod[p] \in PodObject
      BY <1>a, <2>3 DEF TouchPod
    <3>2. [pod[p] EXCEPT !.rv = @ + 1] \in PodObject
      BY <3>1 DEF PodObject, Positive
    <3> QED BY <1>a, <2>3, <3>2 DEF TouchPod, caches
  <2>4. CASE SidecarPatch(p)
    <3>1. pod[p] \in PodObject
      BY <1>a, <2>4 DEF SidecarPatch
    <3>2. PICK new : /\ pod' = [pod EXCEPT ![p] = Stored(pod[p], new)]
                     /\ UNCHANGED <<scale, caches>>
                     /\ \/ \E label \in {"VerSca20", "Kosmos"} : new = [pod[p] EXCEPT !.label = label]
                        \/ \E size \in {ZeroSize, Requests[p]} : new = [pod[p] EXCEPT !.size = size]
      BY <2>4 DEF SidecarPatch, Patch
    <3>3. new \in PodObject
      BY <3>1, <3>2, AmountAssumption DEF PodObject
    <3>4. Stored(pod[p], new) \in PodObject
      BY <3>1, <3>3, StoredPod
    <3> QED BY <1>a, <3>2, <3>4 DEF caches
  <2>5. CASE RemovePod(p) \/ RemoveScale(p)
    BY <1>a, <2>5 DEF RemovePod, RemoveScale, caches
  <2> QED BY <2>1, <2>2, <2>3, <2>4, <2>5
<1>5. CASE UNCHANGED vars
  BY <1>0, <1>5 DEF vars
<1> QED BY <1>3, <1>4, <1>5 DEF Next

UpdatersOK ==
  /\ updater \in [Updaters -> UpdaterState]
  /\ WorkerInv

(* An updater moves to a state that keeps the invariant of the updaters. *)
LEMMA BecomeOK ==
  ASSUME UpdatersOK, NEW u \in Updaters, NEW state \in UpdaterState, Become(u, state),
         state.at \in Writing =>
           state.k \in DOMAIN state.message.entries /\ state.message.entries[state.k].actual > 0
  PROVE  UpdatersOK'
<1>1. updater' = [updater EXCEPT ![u] = state] /\ updater \in [Updaters -> UpdaterState]
  BY DEF Become, UpdatersOK
<1>2. updater' \in [Updaters -> UpdaterState]
  BY <1>1
<1>3. ASSUME NEW v \in Updaters, updater'[v].at \in Writing
      PROVE  updater'[v].k \in DOMAIN updater'[v].message.entries /\ Current(v)'.actual > 0
  <2>1. CASE v = u
    BY <1>1, <1>3, <2>1 DEF Current
  <2>2. CASE v # u
    BY <1>1, <1>3, <2>2 DEF UpdatersOK, WorkerInv, Current
  <2> QED BY <2>1, <2>2
<1> QED BY <1>2, <1>3 DEF UpdatersOK, WorkerInv

(* An updater starts at an entry, and writes one it has tested. *)
LEMMA UpdatersStep ==
  ASSUME TypeInv, [Next]_vars
  PROVE  UpdatersOK'
<1>a. UpdatersOK
  BY DEF TypeInv, TypeOK, UpdatersOK
<1>0. ASSUME UNCHANGED updater PROVE UpdatersOK'
  BY <1>0, <1>a DEF UpdatersOK, WorkerInv, Current
<1>b. Idle \in UpdaterState /\ Idle.at \notin Writing
  BY DEF UpdaterState, Idle, Writing
<1>1. ASSUME NEW u \in Updaters, Become(u, Idle) PROVE UpdatersOK'
  BY <1>a, <1>b, <1>1, BecomeOK
<1>2. ASSUME NEW u \in Updaters, updater[u].at # "idle", Become(u, NextEntry(u)) PROVE UpdatersOK'
  <2>1. updater[u].message \in Message /\ updater[u].k \in Positive
    BY <1>a, <1>2, BusyType DEF UpdatersOK
  <2>2. NextEntry(u) \in UpdaterState /\ NextEntry(u).at = "entry"
    BY <2>1 DEF NextEntry, UpdaterState, Positive
  <2> QED BY <1>a, <1>2, <2>2, BecomeOK DEF Writing
<1>3. ASSUME NEW u \in Updaters, updater[u].at # "idle", Become(u, Requeueing(u)) PROVE UpdatersOK'
  <2>1. updater[u].message \in Message /\ updater[u].k \in Positive
    BY <1>a, <1>3, BusyType DEF UpdatersOK
  <2>2. Requeueing(u) \in UpdaterState /\ Requeueing(u).at = "requeue"
    BY <2>1 DEF Requeueing, UpdaterState
  <2> QED BY <1>a, <1>3, <2>2, BecomeOK DEF Writing
<1>4. ASSUME NEW u \in Updaters, updater[u].at \in Writing, NEW at \in Writing,
             Become(u, [updater[u] EXCEPT !.at = at])
      PROVE  UpdatersOK'
  <2> DEFINE state == [updater[u] EXCEPT !.at = at]
  <2>1. updater[u] \in [at : {"dryRun", "pod", "scale"}, message : Message, k : Positive, copy : PodObject]
    BY <1>a, <1>4 DEF UpdatersOK, UpdaterState, Writing, Idle
  <2>2. state \in UpdaterState /\ state.message = updater[u].message /\ state.k = updater[u].k
    BY <2>1 DEF UpdaterState, Writing
  <2>3. updater[u].k \in DOMAIN updater[u].message.entries /\ Current(u).actual > 0
    BY <1>4 DEF TypeInv, WorkerInv
  <2>4. state.k \in DOMAIN state.message.entries /\ state.message.entries[state.k].actual > 0
    BY <2>2, <2>3 DEF Current
  <2> HIDE DEF state
  <2> QED BY <1>a, <1>4, <2>2, <2>4, BecomeOK DEF state
<1>5. ASSUME NEW u \in Updaters, TakeMessage(u) PROVE UpdatersOK'
  <2> DEFINE state == [at |-> "entry", message |-> Head(contentionManagerOut), k |-> 1]
  <2>1. Head(contentionManagerOut) \in Message
    BY <1>5, TakeHead DEF TakeMessage, TypeInv, TypeOK
  <2>2. state \in UpdaterState /\ state.at \notin Writing /\ Become(u, state)
    BY <1>5, <2>1 DEF TakeMessage, UpdaterState, Writing, Positive
  <2> QED BY <1>a, <2>2, BecomeOK
<1>6. ASSUME NEW u \in Updaters, PrepareEntry(u) PROVE UpdatersOK'
  <2>1. updater[u].at # "idle" /\ updater[u].message \in Message /\ updater[u].k \in Positive
    BY <1>a, <1>6, BusyType DEF PrepareEntry, UpdatersOK
  <2>2. CASE Become(u, Idle)
    BY <1>1, <2>2
  <2>3. CASE Become(u, NextEntry(u))
    BY <1>2, <2>1, <2>3
  <2> DEFINE copy == SyncedPod(podCache[Current(u).pod], Current(u))
  <2> DEFINE state == [at |-> "dryRun", message |-> updater[u].message, k |-> updater[u].k, copy |-> copy]
  <2>4. ASSUME ~Become(u, Idle), ~Become(u, NextEntry(u))
        PROVE  /\ ~(updater[u].k > Len(updater[u].message.entries))
               /\ podCache[Current(u).pod] # None /\ ~(Current(u).actual <= 0)
               /\ Become(u, state)
    <3> HIDE DEF state
    <3> QED BY <1>6, <2>4 DEF PrepareEntry, state
  <2>5. ASSUME ~Become(u, Idle), ~Become(u, NextEntry(u)) PROVE UpdatersOK'
    <3>1. /\ updater[u].message.entries \in Seq(Entry)
          /\ updater[u].k \in DOMAIN updater[u].message.entries
      BY <2>1, <2>4, <2>5 DEF Message, Positive
    <3>2. Current(u) \in Entry
      BY <3>1 DEF Current
    <3>3. Current(u).actual > 0
      BY <2>4, <2>5, <3>2 DEF Entry
    <3>4. copy \in PodObject
      <4>1. updater[u].k <= Len(updater[u].message.entries)
        BY <3>1
      <4>2. podCache[Current(u).pod] # None
        BY <2>4, <2>5
      <4> QED BY <1>6, <3>3, <4>1, <4>2, PreparedPod
    <3> HIDE DEF copy
    <3>5. state \in UpdaterState
      BY <2>1, <3>4 DEF UpdaterState
    <3>6. state.k = updater[u].k /\ state.message = updater[u].message
      OBVIOUS
    <3>7. state.k \in DOMAIN state.message.entries /\ state.message.entries[state.k].actual > 0
      BY <3>1, <3>3, <3>6 DEF Current
    <3>8. Become(u, state)
      BY <2>4, <2>5
    <3> HIDE DEF state
    <3> QED BY <1>a, <3>5, <3>7, <3>8, BecomeOK
  <2> QED BY <2>2, <2>3, <2>5
<1>7. ASSUME NEW u \in Updaters, DryRun(u) PROVE UpdatersOK'
  <2>1. updater[u].at # "idle" /\ updater[u].at \in Writing
    BY <1>7 DEF DryRun, Writing
  <2>2. Become(u, [updater[u] EXCEPT !.at = "pod"]) \/ Become(u, Requeueing(u))
    BY <1>7 DEF DryRun
  <2> QED BY <1>3, <1>4, <2>1, <2>2 DEF Writing
<1>8. ASSUME NEW u \in Updaters, WritePod(u) PROVE UpdatersOK'
  <2>1. updater[u].at # "idle" /\ updater[u].at \in Writing
    BY <1>8 DEF WritePod, Writing
  <2>2. Become(u, [updater[u] EXCEPT !.at = "scale"]) \/ Become(u, Requeueing(u))
    BY <1>8 DEF WritePod
  <2> QED BY <1>3, <1>4, <2>1, <2>2 DEF Writing
<1>9. ASSUME NEW u \in Updaters, WriteScale(u) PROVE UpdatersOK'
  <2>1. updater[u].at # "idle"
    BY <1>9 DEF WriteScale
  <2>2. Become(u, NextEntry(u)) \/ Become(u, Requeueing(u))
    BY <1>9 DEF WriteScale
  <2> QED BY <1>2, <1>3, <2>1, <2>2
<1>10. ASSUME NEW u \in Updaters, Requeue(u) PROVE UpdatersOK'
  BY <1>1, <1>10 DEF Requeue
<1>11. ASSUME Stopped PROVE UpdatersOK'
  BY <1>11, <1>b DEF Stopped, UpdatersOK, WorkerInv
<1>12. CASE ProcessStep
  <2>1. ASSUME NEW u \in Updaters, UpdaterStep(u) PROVE UpdatersOK'
    BY <1>5, <1>6, <1>7, <1>8, <1>9, <1>10, <2>1 DEF UpdaterStep
  <2>2. ASSUME NEW r \in Recommenders, RecommenderStep(r) PROVE UpdatersOK'
    BY <1>0, <2>2 DEF RecommenderStep, RecommendNode, SendRecommendation
  <2>3. ASSUME NEW m \in Managers, ManagerStep(m) PROVE UpdatersOK'
    BY <1>0, <1>11, <2>3 DEF ManagerStep, ManageNode, SendSolution, Panic
  <2>4. ASSUME NEW n \in Nodes, EnqueueNode(n) PROVE UpdatersOK'
    BY <1>0, <2>4 DEF EnqueueNode
  <2>5. CASE Crash \/ Restart
    BY <1>0, <1>11, <2>5 DEF Crash, Restart
  <2> QED BY <1>12, <2>1, <2>2, <2>3, <2>4, <2>5 DEF ProcessStep
<1>13. CASE EnvironmentStep
  BY <1>0, <1>13 DEF EnvironmentStep, SyncPod, SyncScale, TouchPod, SidecarPatch, Patch,
                     RemovePod, RemoveScale, process
<1>14. CASE UNCHANGED vars
  BY <1>0, <1>14 DEF vars, process
<1> QED BY <1>12, <1>13, <1>14 DEF Next

(* The rest of the state: flags, the node queue and the budget. *)
FlagsOK ==
  /\ up \in BOOLEAN
  /\ nodeQueue \subseteq Nodes
  /\ budget \in [Kinds -> Nat]

(* Each step spends what it may and keeps them well formed. *)
LEMMA FlagsStep ==
  ASSUME TypeOK, [Next]_vars
  PROVE  FlagsOK'
<1>a. FlagsOK
  BY DEF TypeOK, FlagsOK
<1> USE DEF FlagsOK
<1>b. ASSUME NEW kind \in Kinds, Spend(kind) PROVE budget' \in [Kinds -> Nat]
  BY <1>a, <1>b DEF Spend
<1>c. \A kind \in {"rounds", "touches", "patches", "gaps", "faults", "crashes", "removals"} :
        Spend(kind) => budget' \in [Kinds -> Nat]
  BY <1>b DEF Kinds
<1>2. CASE ProcessStep
  <2>1. ASSUME NEW u \in Updaters, UpdaterStep(u) PROVE FlagsOK'
    BY <1>a, <1>c, <2>1
    DEF UpdaterStep, TakeMessage, PrepareEntry, DryRun, WritePod, WriteScale, Requeue, Become
  <2>2. ASSUME NEW r \in Recommenders, RecommenderStep(r) PROVE FlagsOK'
    <3>1. CASE RecommendNode(r)
      <4>1. nodeQueue' \subseteq Nodes /\ UNCHANGED up
        BY <1>a, <3>1 DEF RecommendNode
      <4>2. UNCHANGED budget \/ Spend("gaps")
        BY <3>1 DEF RecommendNode
      <4> QED BY <1>a, <1>c, <4>1, <4>2
    <3>2. CASE SendRecommendation(r)
      BY <1>a, <3>2 DEF SendRecommendation
    <3> QED BY <2>2, <3>1, <3>2 DEF RecommenderStep
  <2>3. ASSUME NEW m \in Managers, ManagerStep(m) PROVE FlagsOK'
    <3>1. CASE ManageNode(m)
      <4>1. UNCHANGED <<up, nodeQueue>> /\ (UNCHANGED budget \/ Spend("faults"))
        BY <3>1 DEF ManageNode
      <4> QED BY <1>a, <1>c, <4>1
    <3>2. CASE SendSolution(m)
      BY <1>a, <3>2 DEF SendSolution
    <3>3. CASE Panic(m)
      BY <1>a, <3>3 DEF Panic, Stopped
    <3> QED BY <2>3, <3>1, <3>2, <3>3 DEF ManagerStep
  <2>4. ASSUME NEW n \in Nodes, EnqueueNode(n) PROVE FlagsOK'
    BY <1>a, <1>c, <2>4 DEF EnqueueNode
  <2>5. CASE Crash
    BY <1>a, <1>c, <2>5 DEF Crash, Stopped
  <2>6. CASE Restart
    BY <1>a, <2>6 DEF Restart
  <2> QED BY <1>2, <2>1, <2>2, <2>3, <2>4, <2>5, <2>6 DEF ProcessStep
<1>3. CASE EnvironmentStep
  <2>1. PICK p \in Pods : \/ SyncPod(p) \/ SyncScale(p) \/ TouchPod(p) \/ SidecarPatch(p)
                          \/ RemovePod(p) \/ RemoveScale(p)
    BY <1>3 DEF EnvironmentStep
  <2>2. CASE SidecarPatch(p)
    BY <1>a, <1>c, <2>2 DEF SidecarPatch, process
  <2>3. CASE SyncPod(p) \/ SyncScale(p)
    BY <1>a, <2>3 DEF SyncPod, SyncScale, process
  <2>4. CASE TouchPod(p) \/ RemovePod(p) \/ RemoveScale(p)
    BY <1>a, <1>c, <2>4 DEF TouchPod, RemovePod, RemoveScale, process
  <2> QED BY <2>1, <2>2, <2>3, <2>4
<1>4. CASE UNCHANGED vars
  BY <1>a, <1>4 DEF vars, process
<1> QED BY <1>2, <1>3, <1>4 DEF Next

(* What the types say of the messages is an instance of OnlyMoved. *)
LEMMA MessagesOK == TypeOK => Carries(Message, Message)
<1> SUFFICES ASSUME TypeOK PROVE Carries(Message, Message)
  OBVIOUS
<1>1. ASSUME NEW u \in Updaters, updater[u].at # "idle" PROVE updater[u].message \in Message
  BY <1>1, BusyType DEF TypeOK
<1> QED BY <1>1 DEF TypeOK, Carries

(* Every step keeps the types. *)
LEMMA NextTypeInv == TypeInv /\ [Next]_vars => TypeInv'
<1> SUFFICES ASSUME TypeInv, [Next]_vars PROVE TypeInv'
  OBVIOUS
<1>a. TypeOK
  BY DEF TypeInv
<1>1. ASSUME NEW r \in Recommenders, RecommendNode(r)
      PROVE  recommender' \in [Recommenders -> Message \cup {None}]
  <2>1. recommender \in [Recommenders -> Message \cup {None}] /\ nodeQueue \subseteq Nodes
    BY <1>a DEF TypeOK
  <2>2. \/ recommender' = recommender
        \/ \E n \in Nodes, kept \in SUBSET {p \in Pods : scaleCache[p] # None} :
             \E message \in Recommended(n, kept) : recommender' = [recommender EXCEPT ![r] = message]
    BY <1>1, <2>1 DEF RecommendNode
  <2> QED BY <1>a, <2>1, <2>2, RecommendedFacts
<1>2. ASSUME NEW m \in Managers, ManageNode(m)
      PROVE  manager' \in [Managers -> Message \cup {None}]
  BY <1>a, <1>2, ManagedFacts DEF TypeOK
<1>3. Carries(Message, Message)'
  BY <1>a, <1>1, <1>2, MessagesOK, OnlyMoved
<1>4. ObjectsOK' /\ UpdatersOK'
  BY ObjectsStep, UpdatersStep
<1>5. FlagsOK'
  BY <1>a, FlagsStep
<1> QED BY <1>3, <1>4, <1>5 DEF TypeInv, TypeOK, Carries, ObjectsOK, UpdatersOK, FlagsOK

(* The variables keep their types in every behaviour; in particular no      *)
(* stored Pod or PodScale ever gets an amount that is not positive.        *)
THEOREM PipelineTypeCorrect == Spec => []TypeOK
<1>1. TypeInv => TypeOK
  BY DEF TypeInv
<1> QED BY <1>1, InitTypeInv, NextTypeInv, PTL DEF Spec

----------------------------------------------------------------------------
(* Versions and amounts. *)

CacheSound ==
  \A p \in Pods :
    scale[p] # None /\ scaleCache[p] # None =>
      /\ scaleCache[p].rv <= scale[p].rv
      /\ scaleCache[p].rv = scale[p].rv => scaleCache[p] = scale[p]

Sound(message) == \A k \in DOMAIN message.entries : EntrySound(message.entries[k])
SoundMessages   == {message \in Message : Sound(message)}
FittingMessages == {message \in SoundMessages : Fitting(message)}

IInv == TypeInv /\ CacheSound /\ Carries(SoundMessages, FittingMessages)

(* An entry belongs to a Pod and has a version and a desired amount. *)
LEMMA EntryAt ==
  ASSUME NEW message \in Message, NEW k \in DOMAIN message.entries
  PROVE  /\ message.entries[k] \in Entry /\ message.entries[k].pod \in Pods
         /\ message.entries[k].base \in Positive /\ message.entries[k].desired \in Positive
         /\ message.entries[k].actual \in Nat
<1>1. message.entries \in Seq(Entry)
  BY DEF Message
<1>2. message.entries[k] \in Entry
  BY <1>1
<1> QED BY <1>2 DEF Entry

(* The first state has made no message and read no other version. *)
LEMMA InitIInv == Init => IInv
<1> SUFFICES ASSUME Init PROVE IInv
  OBVIOUS
<1>1. CacheSound
  BY InitTypeInv DEF Init, CacheSound, TypeInv, TypeOK, ScaleObject, Positive
<1>2. Carries(SoundMessages, FittingMessages)
  BY DEF Init, Carries, Idle
<1> QED BY <1>1, <1>2, InitTypeInv DEF IInv

(* What the updater is about to store was made from a version that is not   *)
(* ahead, and fits.                                                        *)
LEMMA CurrentSound ==
  ASSUME IInv, NEW u \in Updaters, updater[u].at \in Writing
  PROVE  /\ Current(u) \in Entry /\ Current(u).pod \in Pods
         /\ EntrySound(Current(u))
         /\ Current(u).actual <= Capped(Current(u).desired)
<1>1. /\ updater[u].message \in Message /\ updater[u].k \in DOMAIN updater[u].message.entries
      /\ Current(u) \in Entry /\ Current(u).pod \in Pods
  BY WritingFacts DEF IInv
<1>2. updater[u].message \in FittingMessages
  BY DEF IInv, Carries, Writing
<1> QED BY <1>1, <1>2 DEF FittingMessages, SoundMessages, Sound, Fitting, Current

(* A step leaves a stored PodScale alone, deletes it, or stores the entry   *)
(* of an updater that was made from this very version.                     *)
LEMMA ScaleStep ==
  ASSUME IInv, [Next]_vars, NEW p \in Pods, scale'[p] # None
  PROVE  /\ scale[p] # None
         /\ \/ scale'[p] = scale[p]
            \/ /\ scale'[p].rv = scale[p].rv + 1
               /\ \E u \in Updaters : /\ updater[u].at \in Writing /\ Current(u).pod = p
                                      /\ Current(u).base = scale[p].rv
                                      /\ scale'[p].actual = Current(u).actual
<1> DEFINE Goal ==
         /\ scale[p] # None
         /\ \/ scale'[p] = scale[p]
            \/ /\ scale'[p].rv = scale[p].rv + 1
               /\ \E u \in Updaters : /\ updater[u].at \in Writing /\ Current(u).pod = p
                                      /\ Current(u).base = scale[p].rv
                                      /\ scale'[p].actual = Current(u).actual
<1> SUFFICES Goal
  OBVIOUS
<1>a. TypeInv /\ scale \in [Pods -> ScaleObject \cup {None}]
  BY DEF IInv, TypeInv, TypeOK
<1>0. ASSUME UNCHANGED scale PROVE Goal
  BY <1>0
<1>1. ASSUME NEW u \in Updaters, WriteScale(u) PROVE Goal
  <2> DEFINE q == Current(u).pod
  <2> DEFINE new == [rv |-> Current(u).base, desired |-> Current(u).desired, actual |-> Current(u).actual]
  <2>1. updater[u].at \in Writing
    BY <1>1 DEF WriteScale, Writing
  <2>2. new \in ScaleObject /\ q \in Pods
    BY <1>a, <2>1, WritingFacts
  <2>3. \/ scale' = scale
        \/ /\ scale[q] # None /\ scale[q].rv = Current(u).base
           /\ scale' = [scale EXCEPT ![q] = Stored(scale[q], new)]
    BY <1>1 DEF WriteScale, StillCurrent
  <2>4. CASE scale' = scale
    BY <1>0, <2>4
  <2>5. CASE scale' # scale
    <3>1. /\ scale[q] \in ScaleObject /\ scale[q].rv = Current(u).base
          /\ scale' = [scale EXCEPT ![q] = Stored(scale[q], new)]
      BY <1>a, <2>2, <2>3, <2>5
    <3> HIDE DEF new
    <3>2. \/ Stored(scale[q], new) = scale[q]
          \/ Stored(scale[q], new).rv = scale[q].rv + 1 /\ Stored(scale[q], new).actual = new.actual
      BY <2>2, <3>1, StoredScale
    <3>3. new.actual = Current(u).actual
      BY DEF new
    <3>4. CASE p = q
      <4>1. scale[p] # None
        BY <2>3, <2>5, <3>4
      <4>2. scale'[p] = Stored(scale[q], new)
        BY <1>a, <3>1, <3>4
      <4> QED BY <2>1, <3>1, <3>2, <3>3, <3>4, <4>1, <4>2
    <3>5. CASE p # q
      <4>1. scale'[p] = scale[p]
        BY <1>a, <3>1, <3>5
      <4> QED BY <4>1
    <3> QED BY <3>4, <3>5
  <2> QED BY <2>4, <2>5
<1>2. CASE ProcessStep
  <2> HIDE DEF Goal
  <2>1. ASSUME NEW u \in Updaters, UpdaterStep(u) PROVE Goal
    BY <1>0, <1>1, <2>1 DEF UpdaterStep, TakeMessage, PrepareEntry, DryRun, WritePod, Requeue, api
  <2>2. ASSUME NEW r \in Recommenders, RecommenderStep(r) PROVE Goal
    BY <1>0, <2>2 DEF RecommenderStep, RecommendNode, SendRecommendation, api
  <2>3. ASSUME NEW m \in Managers, ManagerStep(m) PROVE Goal
    BY <1>0, <2>3 DEF ManagerStep, ManageNode, SendSolution, Panic, api
  <2>4. ASSUME NEW n \in Nodes, EnqueueNode(n) PROVE Goal
    BY <1>0, <2>4 DEF EnqueueNode, api
  <2>5. CASE Crash \/ Restart
    BY <1>0, <2>5 DEF Crash, Restart, api
  <2> QED BY <1>2, <2>1, <2>2, <2>3, <2>4, <2>5 DEF ProcessStep
<1>3. CASE EnvironmentStep
  <2>1. PICK q \in Pods : UNCHANGED scale \/ RemoveScale(q)
    BY <1>3 DEF EnvironmentStep, SyncPod, SyncScale, TouchPod, SidecarPatch, Patch, RemovePod, api
  <2>2. CASE RemoveScale(q)
    BY <1>a, <2>2 DEF RemoveScale
  <2> QED BY <1>0, <2>1, <2>2
<1>4. CASE UNCHANGED vars
  <2> HIDE DEF Goal
  <2> QED BY <1>0, <1>4 DEF vars, api
<1> HIDE DEF Goal
<1> QED BY <1>2, <1>3, <1>4 DEF Next

(* A sound entry stays sound: if its PodScale moves on, its version is      *)
(* behind for good.                                                        *)
LEMMA EntryStaysSound ==
  ASSUME IInv, [Next]_vars, NEW e \in Entry, EntrySound(e)
  PROVE  EntrySound(e)'
<1> DEFINE p == e.pod
<1>1. p \in Pods /\ e.base \in Positive
  BY DEF Entry
<1>2. SUFFICES ASSUME scale'[p] # None
               PROVE  /\ e.base <= scale'[p].rv
                      /\ e.base = scale'[p].rv => 2 * e.desired <= 3 * scale'[p].actual
  BY DEF EntrySound
<1>3. /\ scale[p] # None
      /\ scale'[p] = scale[p] \/ scale'[p].rv = scale[p].rv + 1
  BY <1>1, <1>2, ScaleStep
<1>4. scale[p] \in ScaleObject
  BY <1>1, <1>3 DEF IInv, TypeInv, TypeOK
<1>5. scale[p].rv \in Nat
  BY <1>4 DEF ScaleObject, Positive
<1>6. /\ e.base <= scale[p].rv
      /\ e.base = scale[p].rv => 2 * e.desired <= 3 * scale[p].actual
  BY <1>3 DEF EntrySound
<1>7. CASE scale'[p] = scale[p]
  BY <1>6, <1>7
<1>8. CASE scale'[p].rv = scale[p].rv + 1
  <2>1. e.base <= scale'[p].rv /\ e.base # scale'[p].rv
    BY <1>1, <1>5, <1>6, <1>8 DEF Positive
  <2> QED BY <2>1
<1> QED BY <1>3, <1>7, <1>8

(* So do messages. *)
LEMMA MessagesStaySound ==
  ASSUME IInv, [Next]_vars
  PROVE  SoundMessages \subseteq SoundMessages' /\ FittingMessages \subseteq FittingMessages'
<1>1. ASSUME NEW message \in Message, Sound(message) PROVE Sound(message)'
  <2>1. ASSUME NEW k \in DOMAIN message.entries PROVE EntrySound(message.entries[k])'
    <3> DEFINE e == message.entries[k]
    <3>1. e \in Entry /\ EntrySound(e)
      BY <1>1, EntryAt DEF Sound
    <3> HIDE DEF e
    <3>2. EntrySound(e)'
      BY <3>1, EntryStaysSound
    <3> QED BY <3>2 DEF e
  <2> QED BY <2>1 DEF Sound
<1> QED BY <1>1 DEF SoundMessages, FittingMessages, Fitting

(* A cache is behind the API server, or holds what the API server holds. *)
LEMMA CacheStep ==
  ASSUME IInv, [Next]_vars
  PROVE  CacheSound'
<1>1. SUFFICES ASSUME NEW p \in Pods, scale'[p] # None, scaleCache'[p] # None
               PROVE  /\ scaleCache'[p].rv <= scale'[p].rv
                      /\ scaleCache'[p].rv = scale'[p].rv => scaleCache'[p] = scale'[p]
  BY DEF CacheSound
<1>2. /\ scale[p] # None
      /\ scale'[p] = scale[p] \/ scale'[p].rv = scale[p].rv + 1
  BY <1>1, ScaleStep
<1>3. /\ scale \in [Pods -> ScaleObject \cup {None}]
      /\ scaleCache \in [Pods -> ScaleObject \cup {None}]
  BY DEF IInv, TypeInv, TypeOK
<1>4. scale[p] \in ScaleObject /\ scale[p].rv \in Nat
  BY <1>2, <1>3 DEF ScaleObject, Positive
<1>5. CASE scaleCache'[p] = scaleCache[p]
  <2>1. scaleCache[p] \in ScaleObject /\ scaleCache[p].rv \in Nat
    BY <1>1, <1>3, <1>5 DEF ScaleObject, Positive
  <2>2. /\ scaleCache[p].rv <= scale[p].rv
        /\ scaleCache[p].rv = scale[p].rv => scaleCache[p] = scale[p]
    BY <1>1, <1>2, <1>5 DEF IInv, CacheSound
  <2> QED BY <1>2, <1>4, <1>5, <2>1, <2>2
<1>6. CASE scaleCache'[p] = scale[p] /\ UNCHANGED scale
  BY <1>4, <1>6
<1>7. CASE ProcessStep
  <2> DEFINE Kept == scaleCache'[p] = scaleCache[p]
  <2>1. ASSUME NEW u \in Updaters, UpdaterStep(u) PROVE Kept
    BY <2>1 DEF UpdaterStep, TakeMessage, PrepareEntry, DryRun, WritePod, WriteScale, Requeue, caches
  <2>2. ASSUME NEW r \in Recommenders, RecommenderStep(r) PROVE Kept
    BY <2>2 DEF RecommenderStep, RecommendNode, SendRecommendation, caches
  <2>3. ASSUME NEW m \in Managers, ManagerStep(m) PROVE Kept
    BY <2>3 DEF ManagerStep, ManageNode, SendSolution, Panic, caches
  <2>4. ASSUME NEW n \in Nodes, EnqueueNode(n) PROVE Kept
    BY <2>4 DEF EnqueueNode, caches
  <2>5. CASE Crash
    BY <1>5, <2>5 DEF Crash, caches
  <2>6. CASE Restart
    BY <1>6, <2>6 DEF Restart, api
  <2> HIDE DEF Kept
  <2>7. Kept \/ Crash \/ Restart
    BY <1>7, <2>1, <2>2, <2>3, <2>4 DEF ProcessStep
  <2> QED BY <1>5, <2>5, <2>6, <2>7 DEF Kept
<1>8. CASE EnvironmentStep
  <2>1. PICK q \in Pods : UNCHANGED scaleCache \/ SyncScale(q)
    BY <1>8 DEF EnvironmentStep, SyncPod, TouchPod, SidecarPatch, Patch, RemovePod,
                RemoveScale, caches
  <2>2. CASE SyncScale(q)
    BY <1>3, <1>5, <1>6, <2>2 DEF SyncScale, api
  <2> QED BY <1>5, <2>1, <2>2
<1>9. CASE UNCHANGED vars
  BY <1>5, <1>9 DEF vars, caches
<1> QED BY <1>7, <1>8, <1>9 DEF Next

(* A message made from a sound cache is sound. *)
LEMMA RecommendedSound ==
  ASSUME IInv, [Next]_vars, NEW r \in Recommenders, RecommendNode(r)
  PROVE  recommender' \in [Recommenders -> SoundMessages' \cup {None}]
<1>1. TypeOK /\ CacheSound /\ recommender \in [Recommenders -> SoundMessages \cup {None}]
  BY DEF IInv, TypeInv, Carries
<1>2. \/ recommender' = recommender
      \/ \E n \in Nodes, kept \in SUBSET {p \in Pods : scaleCache[p] # None} :
           \E message \in Recommended(n, kept) : recommender' = [recommender EXCEPT ![r] = message]
  BY <1>1 DEF RecommendNode, TypeOK
<1>3. ASSUME NEW message \in Message, FromCache(message) PROVE message \in SoundMessages
  <2>1. SUFFICES ASSUME NEW k \in DOMAIN message.entries PROVE EntrySound(message.entries[k])
    BY DEF SoundMessages, Sound
  <2> DEFINE e == message.entries[k]
  <2>2. /\ e.pod \in Pods /\ scaleCache[e.pod] # None /\ e.base = scaleCache[e.pod].rv
        /\ 2 * e.desired <= 3 * scaleCache[e.pod].actual
    BY <1>3, EntryAt DEF FromCache
  <2> HIDE DEF e
  <2>3. EntrySound(e)
    BY <1>1, <2>2 DEF EntrySound, CacheSound
  <2> QED BY <2>3 DEF e
<1>4. recommender' \in [Recommenders -> SoundMessages \cup {None}]
  BY <1>1, <1>2, <1>3, RecommendedFacts
<1> QED BY <1>4, MessagesStaySound

(* A message solved from a sound one is sound and fits its node. *)
LEMMA ManagedSound ==
  ASSUME IInv, [Next]_vars, NEW m \in Managers, ManageNode(m)
  PROVE  manager' \in [Managers -> FittingMessages' \cup {None}]
<1> DEFINE message == Head(recommenderOut)
<1>1. TypeOK /\ manager \in [Managers -> FittingMessages \cup {None}] /\ recommenderOut \in Seq(SoundMessages)
  BY DEF IInv, TypeInv, Carries
<1>2. recommenderOut # <<>>
  BY <1>1, ManagedFacts
<1>3. message \in SoundMessages
  BY <1>1, <1>2, TakeHead
<1>4. ASSUME NEW solved \in Message, Fitting(solved), DOMAIN solved.entries = DOMAIN message.entries,
             \A k \in DOMAIN solved.entries :
               solved.entries[k] = [message.entries[k] EXCEPT !.actual = solved.entries[k].actual]
      PROVE  solved \in FittingMessages
  <2> HIDE DEF message
  <2>1. ASSUME NEW k \in DOMAIN solved.entries PROVE EntrySound(solved.entries[k])
    <3>1. message \in Message /\ EntrySound(message.entries[k]) /\ message.entries[k] \in Entry
      BY <1>3, <1>4, EntryAt DEF SoundMessages, Sound
    <3>2. solved.entries[k] = [message.entries[k] EXCEPT !.actual = solved.entries[k].actual]
      BY <1>4
    <3>3. /\ solved.entries[k].pod = message.entries[k].pod
          /\ solved.entries[k].base = message.entries[k].base
          /\ solved.entries[k].desired = message.entries[k].desired
      BY <3>1, <3>2 DEF Entry
    <3> QED BY <3>1, <3>3 DEF EntrySound
  <2> QED BY <1>4, <2>1 DEF FittingMessages, SoundMessages, Sound
<1>5. \/ manager' = manager
      \/ \E solved \in FittingMessages : manager' = [manager EXCEPT ![m] = solved]
  BY <1>1, <1>4, ManagedFacts
<1>6. manager' \in [Managers -> FittingMessages \cup {None}]
  BY <1>1, <1>5
<1> QED BY <1>6, MessagesStaySound

(* Every step keeps versions and amounts in order. *)
LEMMA NextIInv == IInv /\ [Next]_vars => IInv'
<1> SUFFICES ASSUME IInv, [Next]_vars PROVE IInv'
  OBVIOUS
<1>1. TypeInv' /\ CacheSound'
  BY NextTypeInv, CacheStep DEF IInv
<1>2. PICK Raw, Settled : Raw = SoundMessages' /\ Settled = FittingMessages'
  OBVIOUS
<1>3. SoundMessages \subseteq Raw /\ FittingMessages \subseteq Settled
  BY <1>2, MessagesStaySound
<1>4. Carries(Raw, Settled)
  <2>1. \A A, B : A \subseteq B => Seq(A) \subseteq Seq(B)
    OBVIOUS
  <2>2. Carries(SoundMessages, FittingMessages)
    BY DEF IInv
  <2> QED BY <1>3, <2>1, <2>2 DEF Carries
<1>5. TypeOK
  BY DEF IInv, TypeInv
<1>6. \A r \in Recommenders : RecommendNode(r) => recommender' \in [Recommenders -> Raw \cup {None}]
  BY <1>2, RecommendedSound
<1>7. \A m \in Managers : ManageNode(m) => manager' \in [Managers -> Settled \cup {None}]
  BY <1>2, ManagedSound
<1>8. Carries(Raw, Settled)'
  BY <1>4, <1>5, <1>6, <1>7, OnlyMoved
<1>9. Carries(SoundMessages, FittingMessages)'
  BY <1>2, <1>8 DEF Carries
<1> QED BY <1>1, <1>9 DEF IInv

----------------------------------------------------------------------------
(* The theorems. *)

(* Wherever a message is, it is sound; behind the contention manager it     *)
(* fits.                                                                   *)
LEMMA IInvMessages == IInv => VersionsSound /\ SharesFit
<1> SUFFICES ASSUME IInv PROVE VersionsSound /\ SharesFit
  OBVIOUS
<1>1. Carries(SoundMessages, FittingMessages) /\ CacheSound
  BY DEF IInv
<1>2. ASSUME NEW message \in SolvedMessages PROVE message \in FittingMessages
  <2>1. ASSUME NEW k \in DOMAIN contentionManagerOut PROVE contentionManagerOut[k] \in FittingMessages
    BY <1>1 DEF Carries
  <2>2. ASSUME NEW u \in Updaters, updater[u] # Idle PROVE updater[u].at # "idle"
    <3>1. updater[u] \in UpdaterState
      BY DEF IInv, TypeInv, TypeOK
    <3> QED BY <2>2, <3>1 DEF UpdaterState, Idle
  <2>3. \/ \E m \in Managers : manager[m] # None /\ message = manager[m]
        \/ \E k \in DOMAIN contentionManagerOut : message = contentionManagerOut[k]
        \/ \E u \in Updaters : updater[u] # Idle /\ message = updater[u].message
    BY DEF SolvedMessages
  <2> QED BY <1>1, <2>1, <2>2, <2>3 DEF Carries
<1>3. ASSUME NEW message \in InFlight PROVE message \in SoundMessages
  <2>1. ASSUME NEW k \in DOMAIN recommenderOut PROVE recommenderOut[k] \in SoundMessages
    BY <1>1 DEF Carries
  <2>2. \/ message \in SolvedMessages
        \/ \E r \in Recommenders : recommender[r] # None /\ message = recommender[r]
        \/ \E k \in DOMAIN recommenderOut : message = recommenderOut[k]
    BY DEF InFlight, SolvedMessages
  <2> QED BY <1>1, <1>2, <2>1, <2>2 DEF Carries, FittingMessages
<1>4. SharesFit
  BY <1>2 DEF SharesFit, FittingMessages, Fitting
<1>5. VersionsSound
  BY <1>1, <1>3 DEF VersionsSound, CacheSound, SoundMessages, Sound
<1> QED BY <1>4, <1>5

(* One step of growth. *)
LEMMA IInvGrowth ==
  ASSUME IInv, [Next]_vars, NEW p \in Pods, scale[p] # None, scale'[p] # None
  PROVE  scale'[p].actual <= Larger((3 * scale[p].actual) \div 2, Lower)
<1>1. scale[p] \in ScaleObject
  BY DEF IInv, TypeInv, TypeOK
<1> DEFINE a == scale[p].actual
<1>2. a \in Nat /\ Lower \in Nat /\ (3 * a) \div 2 \in Nat /\ a <= (3 * a) \div 2
  BY <1>1, AmountAssumption DEF ScaleObject, Positive
<1>3. CASE scale'[p] = scale[p]
  BY <1>2, <1>3 DEF Larger
<1>4. ASSUME NEW u \in Updaters, updater[u].at \in Writing, Current(u).pod = p,
             Current(u).base = scale[p].rv, scale'[p].actual = Current(u).actual
      PROVE  scale'[p].actual <= Larger((3 * a) \div 2, Lower)
  <2> DEFINE e == Current(u)
  <2>1. e \in Entry /\ EntrySound(e) /\ e.actual <= Capped(e.desired)
    BY <1>4, CurrentSound
  <2>2. e.desired \in Positive /\ e.actual \in Nat
    BY <2>1 DEF Entry
  <2>3. 2 * e.desired <= 3 * a
    BY <1>4, <2>1 DEF EntrySound
  <2>4. e.desired <= (3 * a) \div 2
    BY <1>2, <2>2, <2>3 DEF Positive
  <2>5. Capped(e.desired) \in Positive /\ Capped(e.desired) <= Larger(e.desired, Lower)
    BY <2>2, CappedType
  <2> HIDE DEF e
  <2>6. Larger(e.desired, Lower) <= Larger((3 * a) \div 2, Lower)
    BY <1>2, <2>2, <2>4 DEF Larger, Positive
  <2>7. e.actual <= Larger((3 * a) \div 2, Lower)
    BY <1>2, <2>1, <2>2, <2>5, <2>6 DEF Larger, Positive
  <2> QED BY <1>4, <2>7 DEF e
<1> QED BY <1>3, <1>4, ScaleStep

(* Neither a lagging cache, nor a message that waited or was put back, is   *)
(* ever mistaken for the current version of a PodScale.                    *)
THEOREM VersionsNeverAhead == Spec => []VersionsSound
BY InitIInv, NextIInv, IInvMessages, PTL DEF Spec

(* Every message behind the contention manager fits its node. *)
THEOREM MessagesFit == Spec => []SharesFit
BY InitIInv, NextIInv, IInvMessages, PTL DEF Spec

(* No PodScale grows by more than the limit of the control law from one     *)
(* stored version to the next, however many goroutines race.               *)
THEOREM GrowthIsLimited == Spec => GrowthLimited
<1>1. IInv /\ [Next]_vars =>
        [\A p \in Pods :
           scale[p] # None /\ scale'[p] # None =>
             scale'[p].actual <= Larger((3 * scale[p].actual) \div 2, Lower)]_vars
  BY IInvGrowth
<1> QED BY <1>1, InitIInv, NextIInv, PTL DEF Spec, GrowthLimited

----------------------------------------------------------------------------
(* The sidecar. *)

PodCacheSound ==
  \A p \in Pods :
    pod[p] # None /\ podCache[p] # None =>
      /\ podCache[p].rv <= pod[p].rv
      /\ podCache[p].rv = pod[p].rv => podCache[p] = pod[p]

(* The copy an updater is about to store is of a Pod labelled "Kosmos"; if  *)
(* its version is still the stored one, so is the stored Pod.              *)
CopySound(u) ==
  LET p == Current(u).pod IN
  updater[u].at \in Writing /\ pod[p] # None =>
    /\ updater[u].copy.rv <= pod[p].rv
    /\ updater[u].copy.rv = pod[p].rv => pod[p].label = "Kosmos"

CopiesInv == TypeInv /\ PodCacheSound /\ \A u \in Updaters : CopySound(u)

(* Whatever writes a Pod, its version moves on when it changes. *)
LEMMA PodStep ==
  ASSUME TypeInv, [Next]_vars, NEW p \in Pods, pod'[p] # None
  PROVE  /\ pod[p] # None
         /\ pod'[p] = pod[p] \/ pod'[p].rv = pod[p].rv + 1
<1> DEFINE Goal == /\ pod[p] # None
                   /\ pod'[p] = pod[p] \/ pod'[p].rv = pod[p].rv + 1
<1> SUFFICES Goal
  OBVIOUS
<1>a. pod \in [Pods -> PodObject \cup {None}]
  BY DEF TypeInv, TypeOK
<1>0. ASSUME UNCHANGED pod PROVE Goal
  BY <1>0
<1>1. ASSUME NEW q \in Pods, NEW new \in PodObject, pod[q] # None,
             pod' = [pod EXCEPT ![q] = Stored(pod[q], new)]
      PROVE  Goal
  <2>1. pod[q] \in PodObject
    BY <1>a, <1>1
  <2>2. Stored(pod[q], new) = pod[q] \/ Stored(pod[q], new).rv = pod[q].rv + 1
    BY <1>1, <2>1 DEF Stored, PodObject
  <2>3. CASE p = q
    BY <1>a, <1>1, <2>2, <2>3
  <2>4. CASE p # q
    <3>1. pod'[p] = pod[p]
      BY <1>a, <1>1, <2>4
    <3> QED BY <3>1
  <2> QED BY <2>3, <2>4
<1>2. CASE ProcessStep
  <2> HIDE DEF Goal
  <2>1. ASSUME NEW u \in Updaters, WritePod(u) PROVE Goal
    <3>1. updater[u].copy \in PodObject /\ Current(u).pod \in Pods
      BY <2>1, WritingFacts DEF WritePod, Writing
    <3>2. \/ pod' = pod
          \/ /\ pod[Current(u).pod] # None
             /\ pod' = [pod EXCEPT ![Current(u).pod] = Stored(pod[Current(u).pod], updater[u].copy)]
      BY <2>1 DEF WritePod, StillCurrent
    <3> QED BY <1>0, <1>1, <3>1, <3>2
  <2>2. ASSUME NEW u \in Updaters, UpdaterStep(u) PROVE Goal
    BY <1>0, <2>1, <2>2 DEF UpdaterStep, TakeMessage, PrepareEntry, DryRun, WriteScale, Requeue, api
  <2>3. ASSUME NEW r \in Recommenders, RecommenderStep(r) PROVE Goal
    BY <1>0, <2>3 DEF RecommenderStep, RecommendNode, SendRecommendation, api
  <2>4. ASSUME NEW m \in Managers, ManagerStep(m) PROVE Goal
    BY <1>0, <2>4 DEF ManagerStep, ManageNode, SendSolution, Panic, api
  <2>5. ASSUME NEW n \in Nodes, EnqueueNode(n) PROVE Goal
    BY <1>0, <2>5 DEF EnqueueNode, api
  <2>6. CASE Crash \/ Restart
    BY <1>0, <2>6 DEF Crash, Restart, api
  <2> QED BY <1>2, <2>2, <2>3, <2>4, <2>5, <2>6 DEF ProcessStep
<1>3. CASE EnvironmentStep
  <2>1. PICK q \in Pods : \/ SyncPod(q) \/ SyncScale(q) \/ TouchPod(q) \/ SidecarPatch(q)
                          \/ RemovePod(q) \/ RemoveScale(q)
    BY <1>3 DEF EnvironmentStep
  <2>2. CASE SyncPod(q) \/ SyncScale(q) \/ RemoveScale(q)
    BY <1>0, <2>2 DEF SyncPod, SyncScale, RemoveScale, api
  <2>3. CASE TouchPod(q)
    <3>1. pod[q] # None /\ pod[q] \in PodObject /\ pod' = [pod EXCEPT ![q].rv = @ + 1]
      BY <1>a, <2>3 DEF TouchPod
    <3>2. CASE p = q
      <4>1. pod'[p] = [pod[p] EXCEPT !.rv = @ + 1]
        BY <1>a, <3>1, <3>2
      <4>2. pod'[p].rv = pod[p].rv + 1
        BY <3>1, <3>2, <4>1 DEF PodObject
      <4> QED BY <3>1, <3>2, <4>2
    <3>3. CASE p # q
      <4>1. pod'[p] = pod[p]
        BY <1>a, <3>1, <3>3
      <4> QED BY <4>1
    <3> QED BY <3>2, <3>3
  <2>4. CASE SidecarPatch(q)
    <3>1. pod[q] # None /\ pod[q] \in PodObject
      BY <1>a, <2>4 DEF SidecarPatch
    <3>2. PICK new : /\ pod' = [pod EXCEPT ![q] = Stored(pod[q], new)]
                     /\ \/ \E label \in {"VerSca20", "Kosmos"} : new = [pod[q] EXCEPT !.label = label]
                        \/ \E size \in {ZeroSize, Requests[q]} : new = [pod[q] EXCEPT !.size = size]
      BY <2>4 DEF SidecarPatch, Patch
    <3>3. new \in PodObject
      BY <3>1, <3>2, AmountAssumption DEF PodObject
    <3> HIDE DEF Goal
    <3> QED BY <1>1, <3>1, <3>2, <3>3
  <2>5. CASE RemovePod(q)
    BY <1>a, <2>5 DEF RemovePod
  <2> HIDE DEF Goal
  <2> QED BY <2>1, <2>2, <2>3, <2>4, <2>5
<1>4. CASE UNCHANGED vars
  <2> HIDE DEF Goal
  <2> QED BY <1>0, <1>4 DEF vars, api
<1> HIDE DEF Goal
<1> QED BY <1>2, <1>3, <1>4 DEF Next

(* An updater that is writing kept its entry and its copy, or has just      *)
(* copied a cached Pod with the label "Kosmos".                            *)
LEMMA WritingStep ==
  ASSUME TypeInv, [Next]_vars, NEW u \in Updaters, updater'[u].at \in Writing
  PROVE  \/ /\ updater[u].at \in Writing
            /\ Current(u)' = Current(u)
            /\ updater'[u].copy = updater[u].copy
         \/ LET cached == podCache[Current(u).pod] IN
            /\ updater[u].at = "entry" /\ pod' = pod
            /\ updater[u].k \in DOMAIN updater[u].message.entries
            /\ Current(u)' = Current(u)
            /\ cached # None /\ cached.label = "Kosmos"
            /\ updater'[u].copy = SyncedPod(cached, Current(u))
<1> DEFINE Kept == /\ updater[u].at \in Writing
                   /\ Current(u)' = Current(u)
                   /\ updater'[u].copy = updater[u].copy
<1> DEFINE Copied == LET cached == podCache[Current(u).pod] IN
                     /\ updater[u].at = "entry" /\ pod' = pod
                     /\ updater[u].k \in DOMAIN updater[u].message.entries
                     /\ Current(u)' = Current(u)
                     /\ cached # None /\ cached.label = "Kosmos"
                     /\ updater'[u].copy = SyncedPod(cached, Current(u))
<1> SUFFICES Kept \/ Copied
  OBVIOUS
<1>a. updater \in [Updaters -> UpdaterState]
  BY DEF TypeInv, TypeOK
<1>0. ASSUME updater'[u] = updater[u] PROVE Kept
  BY <1>0 DEF Current
<1>1. ASSUME NEW v \in Updaters, NEW state, Become(v, state), state.at \notin Writing PROVE Kept
  <2>1. v # u /\ updater'[u] = updater[u]
    BY <1>a, <1>1 DEF Become
  <2> QED BY <1>0, <2>1
<1>b. Idle.at \notin Writing /\ \A v : NextEntry(v).at \notin Writing /\ Requeueing(v).at \notin Writing
  BY DEF Idle, NextEntry, Requeueing, Writing
<1>2. ASSUME NEW v \in Updaters, updater[v].at \in Writing, NEW at, Become(v, [updater[v] EXCEPT !.at = at])
      PROVE  Kept
  <2>1. updater[v] \in [at : {"dryRun", "pod", "scale"}, message : Message, k : Positive, copy : PodObject]
    BY <1>a, <1>2 DEF UpdaterState, Writing, Idle
  <2>2. CASE v = u
    <3>1. updater'[u] = [updater[u] EXCEPT !.at = at]
      BY <1>a, <1>2, <2>2 DEF Become
    <3>2. /\ updater'[u].copy = updater[u].copy /\ updater'[u].k = updater[u].k
          /\ updater'[u].message = updater[u].message
      BY <2>1, <2>2, <3>1
    <3> QED BY <1>2, <2>2, <3>2 DEF Current
  <2>3. CASE v # u
    BY <1>0, <1>2, <2>3 DEF Become
  <2> QED BY <2>2, <2>3
<1>3. ASSUME NEW v \in Updaters, PrepareEntry(v) PROVE Kept \/ Copied
  <2>1. CASE Become(v, Idle) \/ Become(v, NextEntry(v))
    BY <1>1, <1>b, <2>1
  <2> DEFINE cached == podCache[Current(v).pod]
  <2> DEFINE state == [at |-> "dryRun", message |-> updater[v].message, k |-> updater[v].k,
                       copy |-> SyncedPod(cached, Current(v))]
  <2>2. ASSUME ~Become(v, Idle), ~Become(v, NextEntry(v))
        PROVE  /\ ~(updater[v].k > Len(updater[v].message.entries))
               /\ cached # None /\ cached.label = "Kosmos"
               /\ Become(v, state)
    <3> HIDE DEF state
    <3> QED BY <1>3, <2>2 DEF PrepareEntry, MayResize, state
  <2>3. CASE v # u
    BY <1>0, <1>a, <1>3, <2>3 DEF PrepareEntry, Become
  <2>4. ASSUME v = u, ~Become(v, Idle), ~Become(v, NextEntry(v)) PROVE Copied
    <3>1. updater[u].message \in Message /\ updater[u].k \in Positive
      BY <1>a, <1>3, <2>4, BusyType DEF PrepareEntry
    <3>2. updater[u].k \in DOMAIN updater[u].message.entries
      BY <2>2, <2>4, <3>1 DEF Message, Positive
    <3>3. updater'[u] = state
      BY <1>a, <2>2, <2>4 DEF Become
    <3>4. Current(u)' = Current(u) /\ updater'[u].copy = SyncedPod(cached, Current(u))
      BY <2>4, <3>3 DEF Current
    <3>5. updater[u].at = "entry" /\ pod' = pod
      BY <1>3, <2>4 DEF PrepareEntry, api
    <3>6. cached # None /\ cached.label = "Kosmos"
      BY <2>2, <2>4
    <3> QED BY <2>4, <3>2, <3>4, <3>5, <3>6
  <2> HIDE DEF Kept, Copied
  <2> QED BY <2>1, <2>3, <2>4
<1> HIDE DEF Kept, Copied
<1>4. CASE ProcessStep
  <2>1. ASSUME NEW v \in Updaters, UpdaterStep(v) PROVE Kept \/ Copied
    <3>1. CASE TakeMessage(v)
      <4>1. Become(v, [at |-> "entry", message |-> Head(contentionManagerOut), k |-> 1])
        BY <3>1 DEF TakeMessage
      <4> QED BY <1>1, <4>1 DEF Writing
    <3>2. CASE DryRun(v)
      <4>1. updater[v].at \in Writing
        BY <3>2 DEF DryRun, Writing
      <4>2. Become(v, [updater[v] EXCEPT !.at = "pod"]) \/ Become(v, Requeueing(v))
        BY <3>2 DEF DryRun
      <4> QED BY <1>1, <1>2, <1>b, <4>1, <4>2
    <3>3. CASE WritePod(v)
      <4>1. updater[v].at \in Writing
        BY <3>3 DEF WritePod, Writing
      <4>2. Become(v, [updater[v] EXCEPT !.at = "scale"]) \/ Become(v, Requeueing(v))
        BY <3>3 DEF WritePod
      <4> QED BY <1>1, <1>2, <1>b, <4>1, <4>2
    <3>4. CASE WriteScale(v)
      <4>1. Become(v, NextEntry(v)) \/ Become(v, Requeueing(v))
        BY <3>4 DEF WriteScale
      <4> QED BY <1>1, <1>b, <4>1
    <3>5. CASE Requeue(v)
      BY <1>1, <1>b, <3>5 DEF Requeue
    <3> QED BY <1>3, <2>1, <3>1, <3>2, <3>3, <3>4, <3>5 DEF UpdaterStep
  <2>2. ASSUME NEW r \in Recommenders, RecommenderStep(r) PROVE Kept
    BY <1>0, <2>2 DEF RecommenderStep, RecommendNode, SendRecommendation
  <2>3. ASSUME Stopped PROVE Kept
    <3>1. updater'[u] = Idle
      BY <2>3 DEF Stopped
    <3> QED BY <1>b, <3>1
  <2>4. ASSUME NEW m \in Managers, ManagerStep(m) PROVE Kept
    BY <1>0, <2>3, <2>4 DEF ManagerStep, ManageNode, SendSolution, Panic
  <2>5. ASSUME NEW n \in Nodes, EnqueueNode(n) PROVE Kept
    BY <1>0, <2>5 DEF EnqueueNode
  <2>6. CASE Crash \/ Restart
    BY <1>0, <2>3, <2>6 DEF Crash, Restart
  <2> QED BY <1>4, <2>1, <2>2, <2>4, <2>5, <2>6 DEF ProcessStep
<1>5. CASE EnvironmentStep
  BY <1>0, <1>5 DEF EnvironmentStep, SyncPod, SyncScale, TouchPod, SidecarPatch, Patch,
                    RemovePod, RemoveScale, process
<1>6. CASE UNCHANGED vars
  BY <1>0, <1>6 DEF vars, process
<1> QED BY <1>4, <1>5, <1>6 DEF Next

(* No cached Pod is ahead of the stored one. *)
LEMMA PodCacheStep ==
  ASSUME CopiesInv, [Next]_vars
  PROVE  PodCacheSound'
<1>1. SUFFICES ASSUME NEW p \in Pods, pod'[p] # None, podCache'[p] # None
               PROVE  /\ podCache'[p].rv <= pod'[p].rv
                      /\ podCache'[p].rv = pod'[p].rv => podCache'[p] = pod'[p]
  BY DEF PodCacheSound
<1>2. /\ pod[p] # None
      /\ pod'[p] = pod[p] \/ pod'[p].rv = pod[p].rv + 1
  BY <1>1, PodStep DEF CopiesInv
<1>3. /\ pod \in [Pods -> PodObject \cup {None}]
      /\ podCache \in [Pods -> PodObject \cup {None}]
  BY DEF CopiesInv, TypeInv, TypeOK
<1>4. pod[p] \in PodObject /\ pod[p].rv \in Nat
  BY <1>2, <1>3 DEF PodObject, Positive
<1>5. CASE podCache'[p] = podCache[p]
  <2>1. podCache[p] \in PodObject /\ podCache[p].rv \in Nat
    BY <1>1, <1>3, <1>5 DEF PodObject, Positive
  <2>2. /\ podCache[p].rv <= pod[p].rv
        /\ podCache[p].rv = pod[p].rv => podCache[p] = pod[p]
    BY <1>1, <1>2, <1>5 DEF CopiesInv, PodCacheSound
  <2> QED BY <1>2, <1>4, <1>5, <2>1, <2>2
<1>6. CASE podCache'[p] = pod[p] /\ UNCHANGED pod
  BY <1>4, <1>6
<1>7. CASE ProcessStep
  <2> DEFINE Kept == podCache'[p] = podCache[p]
  <2>1. ASSUME NEW u \in Updaters, UpdaterStep(u) PROVE Kept
    BY <2>1 DEF UpdaterStep, TakeMessage, PrepareEntry, DryRun, WritePod, WriteScale, Requeue, caches
  <2>2. ASSUME NEW r \in Recommenders, RecommenderStep(r) PROVE Kept
    BY <2>2 DEF RecommenderStep, RecommendNode, SendRecommendation, caches
  <2>3. ASSUME NEW m \in Managers, ManagerStep(m) PROVE Kept
    BY <2>3 DEF ManagerStep, ManageNode, SendSolution, Panic, caches
  <2>4. ASSUME NEW n \in Nodes, EnqueueNode(n) PROVE Kept
    BY <2>4 DEF EnqueueNode, caches
  <2>5. CASE Crash
    BY <1>5, <2>5 DEF Crash, caches
  <2>6. CASE Restart
    BY <1>6, <2>6 DEF Restart, api
  <2> HIDE DEF Kept
  <2>7. Kept \/ Crash \/ Restart
    BY <1>7, <2>1, <2>2, <2>3, <2>4 DEF ProcessStep
  <2> QED BY <1>5, <2>5, <2>6, <2>7 DEF Kept
<1>8. CASE EnvironmentStep
  <2>1. PICK q \in Pods : UNCHANGED podCache \/ SyncPod(q)
    BY <1>8 DEF EnvironmentStep, SyncScale, TouchPod, SidecarPatch, Patch, RemovePod,
                RemoveScale, caches
  <2>2. CASE SyncPod(q)
    BY <1>3, <1>5, <1>6, <2>2 DEF SyncPod, api
  <2> QED BY <1>5, <2>1, <2>2
<1>9. CASE UNCHANGED vars
  BY <1>5, <1>9 DEF vars, caches
<1> QED BY <1>7, <1>8, <1>9 DEF Next

(* A copy stays behind its Pod, or still is of that Pod. *)
LEMMA CopyStep ==
  ASSUME CopiesInv, [Next]_vars, NEW u \in Updaters
  PROVE  CopySound(u)'
<1> DEFINE p == Current(u)'.pod
<1>1. SUFFICES ASSUME updater'[u].at \in Writing, pod'[p] # None
               PROVE  /\ updater'[u].copy.rv <= pod'[p].rv
                      /\ updater'[u].copy.rv = pod'[p].rv => pod'[p].label = "Kosmos"
  BY DEF CopySound
<1>a. TypeInv /\ PodCacheSound /\ CopySound(u)
  BY DEF CopiesInv
<1>2. CASE /\ updater[u].at \in Writing
           /\ Current(u)' = Current(u)
           /\ updater'[u].copy = updater[u].copy
  <2>1. updater[u].copy \in PodObject /\ p \in Pods /\ p = Current(u).pod
    BY <1>a, <1>2, WritingFacts
  <2> HIDE DEF p
  <2>2. /\ pod[p] # None
        /\ pod'[p] = pod[p] \/ pod'[p].rv = pod[p].rv + 1
    BY <1>a, <1>1, <2>1, PodStep
  <2>3. /\ updater[u].copy.rv <= pod[p].rv
        /\ updater[u].copy.rv = pod[p].rv => pod[p].label = "Kosmos"
    BY <1>a, <1>2, <2>1, <2>2 DEF CopySound
  <2>4. pod[p] \in PodObject
    BY <1>a, <2>1, <2>2 DEF TypeInv, TypeOK
  <2>5. pod[p].rv \in Nat /\ updater[u].copy.rv \in Nat
    BY <2>1, <2>4 DEF PodObject, Positive
  <2>6. CASE pod'[p] = pod[p]
    BY <1>2, <2>3, <2>6
  <2>7. CASE pod'[p].rv = pod[p].rv + 1
    BY <1>2, <2>3, <2>5, <2>7
  <2> QED BY <2>2, <2>6, <2>7
<1> DEFINE cached == podCache[Current(u).pod]
<1>3. CASE /\ updater[u].at = "entry" /\ pod' = pod
           /\ updater[u].k \in DOMAIN updater[u].message.entries
           /\ Current(u)' = Current(u)
           /\ cached # None /\ cached.label = "Kosmos"
           /\ updater'[u].copy = SyncedPod(cached, Current(u))
  <2>1. updater[u].message \in Message
    <3>1. updater[u] \in UpdaterState /\ updater[u].at # "idle"
      BY <1>a, <1>3 DEF TypeInv, TypeOK
    <3> QED BY <3>1, BusyType
  <2>2. p \in Pods /\ p = Current(u).pod
    BY <1>3, <2>1, EntryAt DEF Current
  <2>3. pod[p] # None /\ podCache[p] # None /\ podCache[p].label = "Kosmos"
    BY <1>1, <1>3, <2>2
  <2>4. podCache[p] \in PodObject
    BY <1>a, <2>2, <2>3 DEF TypeInv, TypeOK
  <2>5. updater'[u].copy.rv = podCache[p].rv
    BY <1>3, <2>2, <2>4 DEF SyncedPod, PodObject
  <2> HIDE DEF p
  <2>6. /\ podCache[p].rv <= pod[p].rv
        /\ podCache[p].rv = pod[p].rv => podCache[p] = pod[p]
    BY <1>a, <2>2, <2>3 DEF PodCacheSound
  <2> QED BY <1>3, <2>3, <2>5, <2>6
<1> QED BY <1>a, <1>1, <1>2, <1>3, WritingStep

(* The caches start as what the API server holds, and nobody writes yet. *)
LEMMA InitCopiesInv == Init => CopiesInv
<1> SUFFICES ASSUME Init PROVE CopiesInv
  OBVIOUS
<1>1. PodCacheSound
  BY InitTypeInv DEF Init, PodCacheSound, TypeInv, TypeOK, PodObject, Positive
<1>2. \A u \in Updaters : CopySound(u)
  BY DEF Init, CopySound, Idle, Writing
<1> QED BY <1>1, <1>2, InitTypeInv DEF CopiesInv

(* Every step keeps copies and caches behind the API server. *)
LEMMA NextCopiesInv == CopiesInv /\ [Next]_vars => CopiesInv'
<1> SUFFICES ASSUME CopiesInv, [Next]_vars PROVE CopiesInv'
  OBVIOUS
<1>1. TypeInv'
  BY NextTypeInv DEF CopiesInv
<1>2. PodCacheSound'
  BY PodCacheStep
<1>3. \A u \in Updaters : CopySound(u)'
  BY CopyStep
<1> QED BY <1>1, <1>2, <1>3 DEF CopiesInv

(* Only a write of a copy made from the stored version gets through, and a  *)
(* Pod labelled "VerSca20" has no such copy.                               *)
LEMMA CopiesInvUndisturbed ==
  ASSUME CopiesInv, NEW u \in Updaters, UpdaterStep(u),
         NEW p \in Pods, pod[p] # None, pod[p].label = "VerSca20"
  PROVE  pod'[p] = pod[p]
<1>1. pod \in [Pods -> PodObject \cup {None}]
  BY DEF CopiesInv, TypeInv, TypeOK
<1>2. CASE WritePod(u)
  <2>1. updater[u].at \in Writing /\ Current(u).pod \in Pods
    BY <1>2, WritingFacts DEF WritePod, Writing, CopiesInv
  <2>2. \/ pod' = pod
        \/ /\ pod[Current(u).pod] # None /\ pod[Current(u).pod].rv = updater[u].copy.rv
           /\ pod' = [pod EXCEPT ![Current(u).pod] = Stored(pod[Current(u).pod], updater[u].copy)]
    BY <1>2 DEF WritePod, StillCurrent
  <2>3. CopySound(u)
    BY DEF CopiesInv
  <2>4. CASE Current(u).pod = p /\ pod' # pod
    <3>1. pod[p].label = "Kosmos"
      BY <2>1, <2>2, <2>3, <2>4 DEF CopySound
    <3> QED BY <3>1, pod[p].label = "VerSca20"
  <2> QED BY <1>1, <2>1, <2>2, <2>4
<1>3. CASE TakeMessage(u) \/ PrepareEntry(u) \/ DryRun(u) \/ WriteScale(u) \/ Requeue(u)
  BY <1>3 DEF TakeMessage, PrepareEntry, DryRun, WriteScale, Requeue, api
<1> QED BY <1>2, <1>3 DEF UpdaterStep

(* While a Pod carries the sidecar's label no updater changes it, whatever  *)
(* its cache still says.                                                   *)
THEOREM SidecarIsUndisturbed == Spec => SidecarUndisturbed
<1>1. CopiesInv =>
        ((\E u \in Updaters : UpdaterStep(u)) =>
           \A p \in Pods : pod[p] # None /\ pod[p].label = "VerSca20" => pod'[p] = pod[p])
  BY CopiesInvUndisturbed
<1> QED BY <1>1, InitCopiesInv, NextCopiesInv, PTL DEF Spec, SidecarUndisturbed
=============================================================================
