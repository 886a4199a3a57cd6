------------------------- MODULE ControlLoopProofs -------------------------
(***************************************************************************)
(* The state of the control loop is well typed, the response time of a     *)
(* service lies among those of its busy Pods, and a recommendation is      *)
(* computed from an answer of the Pod's own proxy, for any number of Pods, *)
(* any loads, gains, bounds and disturbances.                              *)
(***************************************************************************)
EXTENDS ControlLoop, AllotmentProofs, TLAPS

(* The types of all variables.  A Pod whose metric is asked for has a law, *)
(* and its PodScale has been read.                                         *)
LoopTypes ==
  /\ load \in [Pods -> Answer \cup {None}]
  /\ \A p \in Pods : load[p] \in Loads[p] \cup {None}
  /\ cache \in [Pods -> Nat \cup {None}]
  /\ service \in Nat \cup {None}
  /\ round \in Round
  /\ readers \subseteq Followed
  /\ serving \in BOOLEAN
  /\ adaptive \in BOOLEAN
  /\ law \in [Followed -> Law \cup {None}]
  /\ actual \in [Followed -> 1..Upper]
  /\ seen \in [Followed -> 1..Upper \cup {None}]
  /\ pending \in [Followed -> Seq(Lower..Upper)]
  /\ \A p \in Followed : Len(pending[p]) <= Pending
  /\ answered \in [Pods -> SUBSET Nat]
  /\ budget \in 0..Disturbances
  /\ \A p \in readers : seen[p] \in 1..Upper /\ law[p] \in Law

(* An answer is in the history before it is in the cache. *)
Recorded ==
  /\ \A p \in Pods : cache[p] # None => cache[p] \in answered[p]
  /\ round.at = "write" => round.answer.time \in answered[round.pod]

LoopInv == LoopTypes /\ Recorded

----------------------------------------------------------------------------
(* The average of a service. *)

Busy(got) == {k \in DOMAIN got : got[k].count > 0}

(* What ServiceAmongPods asks of the average. *)
AmongBusy(average, got) ==
  IF Busy(got) = {} THEN average = 0
  ELSE /\ \E k \in Busy(got) : average >= got[k].time
       /\ \E k \in Busy(got) : average <= got[k].time

LEMMA QuotientBounds ==
  ASSUME NEW t \in Nat, NEW r \in Nat, r > 0, NEW q, q = t \div r
  PROVE  q \in Nat /\ q * r <= t /\ t < (q + 1) * r
<1>1. q \in Nat OBVIOUS
<1>2. t = r * q + (t % r) /\ t % r \in 0..(r - 1) OBVIOUS
<1>3. (q + 1) * r = r * q + r /\ q * r = r * q BY <1>1
<1>4. PICK m \in Int : m = r * q BY <1>1
<1> QED BY <1>1, <1>2, <1>3, <1>4

LEMMA AverageAmongBusy ==
  ASSUME NEW got \in Seq(Answer)
  PROVE  WeightedAverage(got) \in Nat /\ AmongBusy(WeightedAverage(got), got)
<1> DEFINE counts == [k \in DOMAIN got |-> got[k].count]
           times  == [k \in DOMAIN got |-> got[k].time * got[k].count]
<1>1. /\ DOMAIN got = 1..Len(got) /\ Len(got) \in Nat
      /\ \A k \in DOMAIN got : got[k].time \in Nat /\ got[k].count \in Nat
  <2>1. DOMAIN got = 1..Len(got) /\ Len(got) \in Nat OBVIOUS
  <2>2. \A k \in DOMAIN got : got[k] \in Answer BY <2>1
  <2> QED BY <2>1, <2>2 DEF Answer
<1>2. /\ counts \in Seq(Nat) /\ Len(counts) = Len(got)
      /\ \A k \in DOMAIN got : counts[k] = got[k].count
  BY <1>1
<1>3. /\ times \in Seq(Nat) /\ Len(times) = Len(got)
      /\ \A k \in DOMAIN got : times[k] = got[k].time * got[k].count
  BY <1>1
<1>4. WeightedAverage(got) = IF Total(counts) = 0 THEN 0 ELSE Total(times) \div Total(counts)
  BY DEF WeightedAverage
<1> HIDE DEF counts, times
<1>5. Total(counts) \in Nat /\ Total(times) \in Nat BY <1>2, <1>3, RunningTotalType
<1>6. CASE Busy(got) = {}
  <2>1. PICK zero \in Int : zero = 0 OBVIOUS
  <2>2. \A k \in 1..Len(counts) : counts[k] <= zero * counts[k]
    BY <1>1, <1>2, <1>6, <2>1 DEF Busy
  <2>3. Total(counts) <= zero * Total(counts) BY <1>2, <2>2, TotalAtMost
  <2>4. Total(counts) = 0 BY <1>5, <2>1, <2>3
  <2> QED BY <1>4, <1>6, <2>4 DEF AmongBusy
<1>7. CASE Busy(got) # {}
  <2>1. PICK b \in DOMAIN got : got[b].count > 0 BY <1>7 DEF Busy
  <2>2. counts[b] <= Total(counts) BY <1>1, <1>2, <2>1, TotalCoversEach
  <2>3. Total(counts) > 0 BY <1>1, <1>2, <1>5, <2>1, <2>2
  <2>4. PICK q : q = Total(times) \div Total(counts) OBVIOUS
  <2>5. q \in Nat /\ q * Total(counts) <= Total(times) /\ Total(times) < (q + 1) * Total(counts)
    BY <1>5, <2>3, <2>4, QuotientBounds
  <2>6. \E k \in Busy(got) : q >= got[k].time
    <3>1. SUFFICES ASSUME \A k \in Busy(got) : got[k].time >= q + 1 PROVE FALSE
      BY <1>1, <2>5 DEF Busy
    <3>2. PICK c \in Int : c = q + 1 BY <2>5
    <3>3. ASSUME NEW k \in 1..Len(times) PROVE times[k] >= c * counts[k]
      <4>1. k \in DOMAIN got /\ got[k].time \in Nat /\ got[k].count \in Nat BY <1>1, <1>3
      <4>2. CASE got[k].count = 0 BY <1>2, <1>3, <3>2, <4>1, <4>2
      <4>3. CASE got[k].count > 0
        <5>1. got[k].time >= c BY <3>1, <3>2, <4>1, <4>3 DEF Busy
        <5> QED BY <1>2, <1>3, <4>1, <5>1
      <4> QED BY <4>1, <4>2, <4>3
    <3>4. Total(times) >= c * Total(counts) BY <1>2, <1>3, <3>3, TotalAtLeast
    <3> QED BY <1>5, <2>5, <3>2, <3>4
  <2>7. \E k \in Busy(got) : q <= got[k].time
    <3>1. SUFFICES ASSUME \A k \in Busy(got) : got[k].time <= q - 1 PROVE FALSE
      BY <1>1, <2>5 DEF Busy
    <3>2. PICK c \in Int : c = q - 1 BY <2>5
    <3>3. ASSUME NEW k \in 1..Len(times) PROVE times[k] <= c * counts[k]
      <4>1. k \in DOMAIN got /\ got[k].time \in Nat /\ got[k].count \in Nat BY <1>1, <1>3
      <4>2. CASE got[k].count = 0 BY <1>2, <1>3, <3>2, <4>1, <4>2
      <4>3. CASE got[k].count > 0
        <5>1. got[k].time <= c BY <3>1, <3>2, <4>1, <4>3 DEF Busy
        <5> QED BY <1>2, <1>3, <4>1, <5>1
      <4> QED BY <4>1, <4>2, <4>3
    <3>4. Total(times) <= c * Total(counts) BY <1>2, <1>3, <3>3, TotalAtMost
    <3>5. c * Total(counts) = q * Total(counts) - Total(counts) BY <1>5, <2>5, <3>2
    <3> QED BY <1>5, <2>3, <2>5, <3>4, <3>5
  <2>8. WeightedAverage(got) = q BY <1>4, <2>3, <2>4
  <2> QED BY <1>7, <2>5, <2>6, <2>7, <2>8 DEF AmongBusy
<1> QED BY <1>6, <1>7

----------------------------------------------------------------------------
(* The control law. *)

LEMMA NewLawType == adaptive \in BOOLEAN => NewLaw \in Law
BY ScaleAssumption DEF NewLaw, Law, MaxError, BC

(* The error stays within its limits, in units of 1/Scale. *)
LEMMA ErrorType == \A time \in Nat : Error(time) \in -MaxError..MaxError
<1>1. MaxError \in Nat BY ScaleAssumption DEF MaxError
<1>2. ASSUME NEW time \in Nat PROVE Error(time) \in -MaxError..MaxError
  <2>1. CASE time = 0 BY <1>1, <2>1 DEF Error
  <2>2. CASE time # 0
    <3> DEFINE difference == (1000 * Scale) \div SetPoint - (1000 * Scale) \div time
    <3>1. difference \in Int BY <2>2, ScaleAssumption
    <3>2. Error(time) = Smaller(Larger(-MaxError, difference), MaxError) BY <2>2 DEF Error
    <3> HIDE DEF difference
    <3> QED BY <1>1, <3>1, <3>2 DEF Smaller, Larger
  <2> QED BY <2>1, <2>2
<1> QED BY <1>2

LEMMA BoundsType ==
  ASSUME NEW x \in Int
  PROVE  ApplyBounds(x, Lower, Upper) \in Lower..Upper
BY BoundAssumption DEF ApplyBounds

(* Whatever the law asks for, a whole number of milli-units comes out.     *)
LEMMA TruncatedType ==
  ASSUME NEW cores \in Int, NEW amount \in 1..Upper
  PROVE  Truncated(cores, amount) \in Int
<1> DEFINE least == 5 * Scale
           most  == (3 * amount * Scale) \div 2
<1>1. Scale \in Nat \ {0} /\ amount \in Int BY ScaleAssumption, BoundAssumption
<1>2. least \in Int /\ most \in Int
  <2>1. 3 * amount * Scale \in Int BY <1>1
  <2> QED BY <1>1, <2>1
<1>3. Truncated(cores, amount) = Smaller(Larger(least, cores), most) \div Scale BY DEF Truncated
<1> HIDE DEF least, most
<1>4. Smaller(Larger(least, cores), most) \in Int BY <1>2 DEF Smaller, Larger
<1> QED BY <1>1, <1>3, <1>4

LEMMA DesiredType ==
  ASSUME NEW l \in Law, NEW amount \in 1..Upper, NEW e \in -MaxError..MaxError
  PROVE  Desired(l, amount, e) \in Int
<1>1. l.bc \in Int /\ l.prevError \in Int /\ amount \in Int /\ e \in Int /\ Scale \in Int
  BY BoundAssumption, ScaleAssumption DEF Law, MaxError
<1>2. DerivedGain(l) \in Int BY <1>1 DEF DerivedGain, Smaller, Larger, BC, DC
<1> DEFINE a == l.bc * l.prevError
           b == l.bc * e
           c == amount * Scale
           d == DerivedGain(l) * e
<1>3. a \in Int /\ b \in Int /\ c \in Int /\ d \in Int BY <1>1, <1>2
<1>4. Desired(l, amount, e) = Truncated(((c - a) + b) + d, amount)
  BY DEF Desired
<1> HIDE DEF a, b, c, d
<1> QED BY <1>3, <1>4, TruncatedType

LEMMA LawStep ==
  ASSUME NEW l \in Law, NEW e \in -MaxError..MaxError, NEW bc \in NextGains(l, e)
  PROVE  [l EXCEPT !.prevError = e, !.bc = bc] \in Law
<1>1. bc \in 10..100 BY BoundAssumption DEF NextGains, Law
<1> QED BY <1>1 DEF Law

----------------------------------------------------------------------------
(* The invariant. *)

LEMMA InitLoop == Init => LoopInv
<1> SUFFICES ASSUME Init PROVE LoopInv OBVIOUS
<1>1. load \in [Pods -> Answer \cup {None}]
  BY LoadAssumption DEF Init, ExposerInit, Answer
<1>2. actual \in [Followed -> 1..Upper] BY BoundAssumption DEF Init
<1>3. round \in Round /\ round.at # "write" BY DEF Init, ExposerInit, Resting, Round
<1>4. /\ cache = [p \in Pods |-> None] /\ readers = {} /\ adaptive \in BOOLEAN
      /\ law = [p \in Followed |-> None] /\ seen = [p \in Followed |-> None]
      /\ pending = [p \in Followed |-> <<>>] /\ answered = [p \in Pods |-> {}]
  BY DEF Init, ExposerInit
<1>5. (\A p \in Pods : load[p] \in Loads[p] \cup {None}) /\ budget \in 0..Disturbances
      /\ service = None /\ serving \in BOOLEAN
  BY BoundAssumption DEF Init, ExposerInit
<1>6. Len(<<>>) <= Pending BY BoundAssumption
<1>7. LoopTypes BY <1>1, <1>2, <1>3, <1>4, <1>5, <1>6 DEF LoopTypes
<1>8. Recorded BY <1>3, <1>4 DEF Recorded
<1> QED BY <1>7, <1>8 DEF LoopInv

LEMMA DisturbType ==
  ASSUME LoopInv, Disturb
  PROVE  budget' \in 0..Disturbances
BY BoundAssumption DEF LoopInv, LoopTypes, Disturb

LEMMA BackToPods ==
  ASSUME NEW left \in SUBSET Pods, NEW got \in Seq(Answer)
  PROVE  LET r == [at |-> "pods", left |-> left, got |-> got] IN
         r \in Round /\ r.at # "write"
BY DEF Round

(* A step of the exposer's round: the history grows before the cache.      *)
LEMMA ExposeInv ==
  ASSUME LoopInv, Expose
  PROVE  LoopInv' /\ pending' = pending
<1> USE DEF LoopInv, LoopTypes, Recorded
<1>1. /\ UNCHANGED <<adaptive, law, seen, pending, actual, budget>> /\ UNCHANGED <<load, readers, serving>>
      /\ RoundStep
      /\ answered' = IF round.at = "asked" /\ round'.at = "write"
                     THEN [answered EXCEPT ![round.pod] = @ \cup {round.time}] ELSE answered
  BY DEF Expose, LoopUnchanged, recommender, RoundStep, StartRound, AnswerPod, WritePod,
         FinishPods, WriteService, AskPod, SkipPod
<1>2. CASE StartRound
  <2>1. round' \in Round /\ round'.at # "write" /\ round.at # "asked" /\ UNCHANGED <<cache, service>>
    BY <1>2 DEF StartRound, Round, Resting
  <2> QED BY <1>1, <2>1
<1>3. ASSUME NEW p \in Pods, AskPod(p)
      PROVE  round' \in Round /\ round'.at # "write" /\ UNCHANGED <<cache, service>>
  <2>1. round \in [at : {"pods", "service"}, left : SUBSET Pods, got : Seq(Answer)]
    BY <1>3 DEF AskPod, Round, Resting
  <2>2. load[p] \in Answer BY <1>3 DEF AskPod
  <2>3. Average(load[p]) \in Nat BY <2>2 DEF Average, Answer
  <2>4. /\ round' = [at |-> "asked", left |-> round.left \ {p}, got |-> round.got,
                     pod |-> p, time |-> Average(load[p])]
        /\ UNCHANGED <<cache, service>>
    BY <1>3 DEF AskPod
  <2> QED BY <2>1, <2>3, <2>4 DEF Round
<1>4. ASSUME NEW p \in Pods, SkipPod(p)
      PROVE  round' \in Round /\ round'.at # "write" /\ UNCHANGED <<cache, service>>
  <2>1. round \in [at : {"pods", "service"}, left : SUBSET Pods, got : Seq(Answer)]
        /\ round.at = "pods"
    BY <1>4 DEF SkipPod, Round, Resting
  <2>2. round' = [round EXCEPT !.left = @ \ {p}] /\ UNCHANGED <<cache, service>>
    BY <1>4 DEF SkipPod
  <2> QED BY <2>1, <2>2 DEF Round
<1>5. CASE AnswerPod
  <2>1. /\ round \in [at : {"asked"}, left : SUBSET Pods, got : Seq(Answer), pod : Pods, time : Nat]
        /\ round.at = "asked" /\ UNCHANGED <<cache, service>>
    BY <1>5 DEF AnswerPod, Round, Resting
  <2>2. CASE load[round.pod] = None
    <3>1. round' = [at |-> "pods", left |-> round.left, got |-> round.got]
      BY <1>5, <2>2 DEF AnswerPod
    <3>2. round' \in Round /\ round'.at # "write" BY <2>1, <3>1, BackToPods
    <3> QED BY <1>1, <2>1, <3>2
  <2>3. CASE load[round.pod] # None
    <3> DEFINE answer == [time |-> round.time, count |-> load[round.pod].count]
    <3>1. answer \in Answer /\ answer.time = round.time BY <2>1, <2>3 DEF Answer
    <3>2. round' = [at |-> "write", left |-> round.left, got |-> round.got, pod |-> round.pod,
                    answer |-> answer]
      BY <1>5, <2>3 DEF AnswerPod
    <3> HIDE DEF answer
    <3>3. /\ round' \in Round /\ round'.at = "write"
          /\ round'.pod = round.pod /\ round'.answer.time = round.time
      BY <2>1, <3>1, <3>2 DEF Round
    <3>4. answered' = [answered EXCEPT ![round.pod] = @ \cup {round.time}]
      BY <1>1, <2>1, <3>3
    <3>5. answered' \in [Pods -> SUBSET Nat] BY <2>1, <3>4
    <3>6. \A p \in Pods : answered[p] \subseteq answered'[p] BY <2>1, <3>4
    <3>7. round.time \in answered'[round.pod] BY <2>1, <3>4
    <3> QED BY <1>1, <2>1, <3>3, <3>5, <3>6, <3>7
  <2> QED BY <2>2, <2>3
<1>6. CASE WritePod
  <2>1. /\ round \in [at : {"write"}, left : SUBSET Pods, got : Seq(Answer), pod : Pods, answer : Answer]
        /\ round.at = "write"
        /\ cache' = [cache EXCEPT ![round.pod] = round.answer.time] /\ service' = service
        /\ round' = [at |-> "pods", left |-> round.left, got |-> Append(round.got, round.answer)]
    BY <1>6 DEF WritePod, Round, Resting
  <2>2. Append(round.got, round.answer) \in Seq(Answer) /\ round.answer.time \in Nat
    BY <2>1 DEF Answer
  <2>3. round' \in Round /\ round'.at # "write" BY <2>1, <2>2, BackToPods
  <2>4. answered' = answered BY <1>1, <2>1
  <2>5. cache' \in [Pods -> Nat \cup {None}] BY <2>1, <2>2
  <2>6. \A p \in Pods : cache'[p] # None => cache'[p] \in answered[p] BY <2>1
  <2> QED BY <1>1, <2>1, <2>3, <2>4, <2>5, <2>6
<1>7. CASE FinishPods
  <2>1. round \in [at : {"pods", "service"}, left : SUBSET Pods, got : Seq(Answer)]
        /\ round.at = "pods" /\ UNCHANGED <<cache, service>>
    BY <1>7 DEF FinishPods, Round, Resting
  <2>2. round' = Resting \/ round' = [round EXCEPT !.at = "service"] BY <1>7 DEF FinishPods
  <2>3. CASE round' = Resting BY <1>1, <2>1, <2>3 DEF Round, Resting
  <2>4. CASE round' = [round EXCEPT !.at = "service"]
    <3>1. round' \in Round /\ round'.at = "service" BY <2>1, <2>4 DEF Round
    <3> QED BY <1>1, <2>1, <3>1
  <2> QED BY <2>2, <2>3, <2>4
<1>8. CASE WriteService
  <2>1. round' \in Round /\ round'.at # "write" /\ round.at # "asked" /\ cache' = cache
        /\ service' = WeightedAverage(round.got)
    BY <1>8 DEF WriteService, Round, Resting
  <2>2. round.got \in Seq(Answer) BY <1>8 DEF WriteService, Round, Resting
  <2>3. service' \in Nat BY <2>1, <2>2, AverageAmongBusy
  <2> QED BY <1>1, <2>1, <2>3
<1>9. ASSUME round' \in Round, round'.at # "write", UNCHANGED <<cache, service>>
      PROVE  LoopInv' /\ pending' = pending
  BY <1>1, <1>9
<1> QED BY <1>1, <1>2, <1>3, <1>4, <1>5, <1>6, <1>7, <1>8, <1>9 DEF RoundStep

(* The exposer ends or starts again, and nothing is read any more.         *)
LEMMA ExposerInv ==
  ASSUME LoopInv, EndExposer \/ RestartExposer
  PROVE  LoopInv' /\ pending' = pending
<1> USE DEF LoopInv, LoopTypes, Recorded
<1>1. CASE EndExposer
  <2>1. /\ cache' = [p \in Pods |-> None] /\ round' = Resting /\ readers' = {} /\ load' = load
        /\ answered' = [p \in Pods |-> {}] /\ seen' = [p \in Followed |-> None]
        /\ UNCHANGED <<adaptive, law, pending, actual>>
        /\ service' = None /\ serving' = FALSE /\ Disturb
    BY <1>1 DEF EndExposer, MapRace, Die
  <2>2. round' \in Round /\ round'.at # "write" BY <2>1 DEF Round, Resting
  <2>3. budget' \in 0..Disturbances BY <2>1, DisturbType
  <2> QED BY <2>1, <2>2, <2>3
<1>2. CASE RestartExposer
  BY <1>2 DEF RestartExposer, Serve, LoopUnchanged, recommender
<1> QED BY <1>1, <1>2

(* The recommender starts to read. *)
LEMMA AskInv ==
  ASSUME LoopInv, NEW p \in Followed, AskMetric(p) \/ MetricFails(p)
  PROVE  LoopInv' /\ pending' = pending
<1> USE DEF LoopInv, LoopTypes, Recorded
<1>1. NewLaw \in Law BY NewLawType
<1>2. CASE AskMetric(p)
  <2>1. /\ readers' = readers \cup {p} /\ seen' = [seen EXCEPT ![p] = actual[p]]
        /\ law' = IF law[p] = None THEN [law EXCEPT ![p] = NewLaw] ELSE law
        /\ UNCHANGED <<load, cache, service, round, serving, adaptive, pending, actual, answered, budget>>
    BY <1>2 DEF AskMetric, BeginRead
  <2>2. law' \in [Followed -> Law \cup {None}] /\ law'[p] \in Law
        /\ \A q \in Followed \ {p} : law'[q] = law[q]
    BY <1>1, <2>1
  <2>3. seen' \in [Followed -> 1..Upper \cup {None}] /\ seen'[p] \in 1..Upper
        /\ \A q \in Followed \ {p} : seen'[q] = seen[q]
    BY <2>1
  <2> QED BY <2>1, <2>2, <2>3
<1>3. CASE MetricFails(p)
  <2>1. /\ law[p] = None /\ law' = [law EXCEPT ![p] = NewLaw]
        /\ UNCHANGED <<load, cache, service, round, readers, serving, adaptive, seen, pending, actual,
                       answered, budget>>
    BY <1>3 DEF MetricFails, exposer
  <2>2. law' \in [Followed -> Law \cup {None}] /\ law'[p] \in Law
        /\ \A q \in Followed \ {p} : law'[q] = law[q]
    BY <1>1, <2>1
  <2> QED BY <2>1, <2>2
<1> QED BY <1>2, <1>3

LEMMA SkipInv ==
  ASSUME LoopInv, NEW p \in Followed, SkipPodScale(p)
  PROVE  LoopInv' /\ pending' = pending
<1> USE DEF LoopInv, LoopTypes, Recorded
<1>1. /\ readers' = readers \ {p} /\ seen' = [seen EXCEPT ![p] = None]
      /\ UNCHANGED <<load, cache, service, round, serving, adaptive, law, pending, actual, answered, budget>>
  BY DEF SkipPodScale, EndRead
<1> QED BY <1>1

(* The step the property is about. *)
LEMMA RecommendInv ==
  ASSUME LoopInv, NEW p \in Followed, Recommend(p)
  PROVE  /\ LoopInv'
         /\ \E t \in answered[p] :
              pending' = [pending EXCEPT ![p] = Append(pending[p],
                            ApplyBounds(Desired(law[p], seen[p], Error(t)), Lower, Upper))]
<1> USE DEF LoopInv, LoopTypes, Recorded
<1>1. /\ p \in readers /\ readers' = readers \ {p}
      /\ seen' = [seen EXCEPT ![p] = None]
      /\ UNCHANGED <<load, cache, service, round, serving, adaptive, actual, answered, budget>>
      /\ cache[p] # None /\ Len(pending[p]) < Pending
  BY DEF Recommend, EndRead, Metric
<1>2. p \in Pods /\ cache[p] \in Nat /\ cache[p] \in answered[p]
  BY <1>1, FollowedAssumption
<1> DEFINE e == Error(cache[p])
           amount == ApplyBounds(Desired(law[p], seen[p], e), Lower, Upper)
<1>3. e \in -MaxError..MaxError BY <1>2, ErrorType
<1>4. law[p] \in Law /\ seen[p] \in 1..Upper BY <1>1
<1>5. /\ pending' = [pending EXCEPT ![p] = Append(pending[p], amount)]
      /\ \E bc \in NextGains(law[p], e) : law' = [law EXCEPT ![p].prevError = e, ![p].bc = bc]
  BY DEF Recommend, Metric
<1> HIDE DEF e
<1>6. amount \in Lower..Upper BY <1>3, <1>4, DesiredType, BoundsType
<1> HIDE DEF amount
<1>7. /\ pending' \in [Followed -> Seq(Lower..Upper)]
      /\ \A q \in Followed : Len(pending'[q]) <= Pending
  <2>1. pending[p] \in Seq(Lower..Upper) OBVIOUS
  <2>2. Append(pending[p], amount) \in Seq(Lower..Upper) /\ Len(Append(pending[p], amount)) <= Pending
    BY <1>1, <1>6, <2>1, BoundAssumption
  <2> QED BY <1>5, <2>2
<1>8. law' \in [Followed -> Law \cup {None}] /\ \A q \in Followed \ {p} : law'[q] = law[q]
  <2>1. PICK bc \in NextGains(law[p], e) : law' = [law EXCEPT ![p].prevError = e, ![p].bc = bc]
    BY <1>5
  <2>2. [law[p] EXCEPT !.prevError = e, !.bc = bc] \in Law BY <1>3, <1>4, LawStep
  <2>3. law' = [law EXCEPT ![p] = [law[p] EXCEPT !.prevError = e, !.bc = bc]] BY <2>1
  <2> QED BY <2>2, <2>3
<1>9. seen' \in [Followed -> 1..Upper \cup {None}] /\ \A q \in Followed \ {p} : seen'[q] = seen[q]
  BY <1>1
<1>10. LoopInv' BY <1>1, <1>7, <1>8, <1>9
<1> QED BY <1>2, <1>5, <1>10 DEF amount, e

LEMMA HeadTailFacts ==
  ASSUME NEW S, NEW list \in Seq(S), list # <<>>
  PROVE  Head(list) \in S /\ Tail(list) \in Seq(S) /\ Len(Tail(list)) < Len(list)
OBVIOUS

(* What becomes of a recommendation. *)
LEMMA OutcomeInv ==
  ASSUME LoopInv, NEW p \in Followed, Apply(p) \/ Cut(p) \/ Lose(p)
  PROVE  LoopInv' /\ pending' = [pending EXCEPT ![p] = Tail(pending[p])] /\ pending[p] # <<>>
<1> USE DEF LoopInv, LoopTypes, Recorded
<1>1. /\ pending[p] # <<>> /\ pending' = [pending EXCEPT ![p] = Tail(pending[p])]
      /\ UNCHANGED <<load, cache, service, round, readers, serving, adaptive, law, seen, answered>>
      /\ budget' = budget \/ Disturb
  BY DEF Apply, Cut, Lose, exposer
<1>2. /\ Head(pending[p]) \in Lower..Upper /\ Tail(pending[p]) \in Seq(Lower..Upper)
      /\ Len(Tail(pending[p])) <= Pending
  <2>1. pending[p] \in Seq(Lower..Upper) BY DEF LoopInv
  <2>2. Len(pending[p]) \in Nat /\ Len(Tail(pending[p])) \in Nat /\ Len(pending[p]) <= Pending
    BY <1>1, <2>1, HeadTailFacts
  <2> QED BY <1>1, <2>1, <2>2, HeadTailFacts, BoundAssumption
<1>3. /\ pending' \in [Followed -> Seq(Lower..Upper)]
      /\ \A q \in Followed : Len(pending'[q]) <= Pending
  BY <1>1, <1>2
<1>4. actual' \in [Followed -> 1..Upper]
  <2>1. Head(pending[p]) \in 1..Upper BY <1>2, BoundAssumption
  <2> QED BY <2>1, BoundAssumption DEF Apply, Cut, Lose
<1>5. budget' \in 0..Disturbances BY <1>1, DisturbType
<1> QED BY <1>1, <1>3, <1>4, <1>5

LEMMA OthersInv ==
  ASSUME LoopInv, CrashAutoscaler \/ EditSLA \/ (\E p \in Pods : ShiftLoad(p))
  PROVE  LoopInv' /\ (pending' = pending \/ pending' = [p \in Followed |-> <<>>])
<1> USE DEF LoopInv, LoopTypes, Recorded
<1>1. CASE CrashAutoscaler
  <2>1. /\ law' = [p \in Followed |-> None] /\ pending' = [p \in Followed |-> <<>>]
        /\ readers' = {} /\ seen' = [p \in Followed |-> None] /\ budget' \in 0..Disturbances
        /\ UNCHANGED <<load, cache, service, round, serving, adaptive, actual, answered>>
    BY <1>1, DisturbType DEF CrashAutoscaler
  <2>2. Len(<<>>) <= Pending BY BoundAssumption
  <2> QED BY <2>1, <2>2
<1>2. CASE EditSLA
  <2>1. budget' \in 0..Disturbances BY <1>2, DisturbType DEF EditSLA
  <2> QED BY <1>2, <2>1 DEF EditSLA, exposer, recommender
<1>3. ASSUME NEW p \in Pods, ShiftLoad(p)
      PROVE  LoopInv' /\ pending' = pending
  <2>1. /\ UNCHANGED <<cache, service, round, readers, serving, adaptive, law, seen, pending, actual, answered>>
        /\ \E new \in Loads[p] \cup {None} : load' = [load EXCEPT ![p] = new]
        /\ budget' \in 0..Disturbances
    BY <1>3, DisturbType DEF ShiftLoad, ChangeLoad, exposer, recommender
  <2>2. /\ load' \in [Pods -> Answer \cup {None}]
        /\ \A q \in Pods : load'[q] \in Loads[q] \cup {None}
    BY <2>1, LoadAssumption DEF Answer
  <2> QED BY <2>1, <2>2
<1> QED BY <1>1, <1>2, <1>3

----------------------------------------------------------------------------
(* What a step may add to the recommendations under way. *)
OnlyAnswers ==
  \A p \in Followed : Len(pending'[p]) > Len(pending[p]) =>
    \E t \in answered[p] :
      pending'[p] = Append(pending[p], ApplyBounds(Desired(law[p], seen[p], Error(t)), Lower, Upper))

(* The average is only written at the end of a round. *)
AverageSound ==
  serving /\ serving' /\ round.at = "service" /\ round' = Resting => AmongBusy(service', round.got)

LEMMA AverageStep ==
  ASSUME LoopInv, [Next]_vars
  PROVE  AverageSound
<1> SUFFICES ASSUME serving, serving', round.at = "service", round' = Resting
             PROVE  AmongBusy(service', round.got)
  BY DEF AverageSound
<1>1. round' # round BY DEF Resting
<1>2. RoundStep
  <2>1. ASSUME NEW p \in Followed
        PROVE  /\ ~AskMetric(p) /\ ~MetricFails(p) /\ ~AnswerRead(p)
               /\ ~Apply(p) /\ ~Cut(p) /\ ~Lose(p)
    BY <1>1 DEF AskMetric, BeginRead, MetricFails, exposer, AnswerRead, SkipPodScale, Recommend,
                EndRead, Apply, Cut, Lose
  <2>2. \A p \in Pods : ~ShiftLoad(p) BY <1>1 DEF ShiftLoad, ChangeLoad, exposer
  <2>3. ~CrashAutoscaler /\ ~EditSLA /\ ~RestartExposer
    BY <1>1 DEF CrashAutoscaler, EditSLA, exposer, RestartExposer, Serve
  <2>4. ~EndExposer BY DEF EndExposer, MapRace, Die
  <2>5. ~(UNCHANGED vars) BY <1>1 DEF vars, exposer
  <2> QED BY <2>1, <2>2, <2>3, <2>4, <2>5 DEF Next, Expose
<1>3. WriteService
  <2>1. ~StartRound /\ ~AnswerPod /\ ~WritePod /\ ~FinishPods
    BY DEF StartRound, AnswerPod, WritePod, FinishPods, Resting
  <2>2. \A p \in Pods : ~AskPod(p) /\ ~SkipPod(p) BY DEF AskPod, SkipPod
  <2> QED BY <1>2, <2>1, <2>2 DEF RoundStep
<1>4. round.got \in Seq(Answer) BY DEF LoopInv, LoopTypes, Round, Resting
<1>5. service' = WeightedAverage(round.got) BY <1>3 DEF WriteService
<1> QED BY <1>4, <1>5, AverageAmongBusy

LEMMA LoopStep ==
  ASSUME LoopInv, [Next]_vars
  PROVE  LoopInv' /\ OnlyAnswers
<1>1. \A p \in Followed : pending[p] \in Seq(Lower..Upper) /\ Len(pending[p]) \in Nat
  BY DEF LoopInv, LoopTypes
<1>2. ASSUME pending' = pending PROVE OnlyAnswers BY <1>1, <1>2 DEF OnlyAnswers
<1>3. CASE UNCHANGED vars
  BY <1>2, <1>3 DEF vars, exposer, recommender, LoopInv, LoopTypes, Recorded
<1>4. CASE Expose BY <1>2, <1>4, ExposeInv
<1>5. CASE EndExposer \/ RestartExposer BY <1>2, <1>5, ExposerInv
<1>6. ASSUME NEW p \in Followed, AskMetric(p) \/ MetricFails(p)
      PROVE  LoopInv' /\ OnlyAnswers
  BY <1>2, <1>6, AskInv
<1>7. ASSUME NEW p \in Followed, SkipPodScale(p)
      PROVE  LoopInv' /\ OnlyAnswers
  BY <1>2, <1>7, SkipInv
<1>8. ASSUME NEW p \in Followed, Recommend(p)
      PROVE  LoopInv' /\ OnlyAnswers
  <2>1. LoopInv' BY <1>8, RecommendInv
  <2>2. PICK t \in answered[p] :
          pending' = [pending EXCEPT ![p] = Append(pending[p],
                        ApplyBounds(Desired(law[p], seen[p], Error(t)), Lower, Upper))]
    BY <1>8, RecommendInv
  <2>3. SUFFICES ASSUME NEW q \in Followed, Len(pending'[q]) > Len(pending[q])
                 PROVE  \E u \in answered[q] :
                          pending'[q] = Append(pending[q],
                            ApplyBounds(Desired(law[q], seen[q], Error(u)), Lower, Upper))
    BY <2>1 DEF OnlyAnswers
  <2>4. pending \in [Followed -> Seq(Lower..Upper)] BY DEF LoopInv, LoopTypes
  <2>5. q = p BY <1>1, <2>2, <2>3, <2>4
  <2> QED BY <2>2, <2>4, <2>5
<1>9. ASSUME NEW p \in Followed, Apply(p) \/ Cut(p) \/ Lose(p)
      PROVE  LoopInv' /\ OnlyAnswers
  <2>1. LoopInv' /\ pending' = [pending EXCEPT ![p] = Tail(pending[p])] /\ pending[p] # <<>>
    BY <1>9, OutcomeInv
  <2>2. Len(Tail(pending[p])) <= Len(pending[p]) BY <1>1, <2>1
  <2>3. \A q \in Followed : ~(Len(pending'[q]) > Len(pending[q]))
    BY <1>1, <2>1, <2>2 DEF LoopInv, LoopTypes
  <2> QED BY <2>1, <2>3 DEF OnlyAnswers
<1>10. CASE CrashAutoscaler \/ EditSLA \/ (\E p \in Pods : ShiftLoad(p))
  <2>1. LoopInv' /\ (pending' = pending \/ pending' = [p \in Followed |-> <<>>])
    BY <1>10, OthersInv
  <2>2. ASSUME pending' = [p \in Followed |-> <<>>] PROVE OnlyAnswers
    BY <1>1, <2>2 DEF OnlyAnswers
  <2> QED BY <1>2, <2>1, <2>2
<1> QED BY <1>3, <1>4, <1>5, <1>6, <1>7, <1>8, <1>9, <1>10 DEF Next, AnswerRead

(* Every reachable state of the control loop is well typed: no size leaves *)
(* 1..Upper, no recommendation the bounds of the SLA, no gain 10..100, and *)
(* every average of a service is a number, however rounds, reads, lost     *)
(* recommendations and crashes of both processes interleave (sync.go       *)
(* 25-146, recommender/logic.go 101-149, 222-246).                         *)
THEOREM LoopTypeCorrect == Spec => []TypeOK
<1>1. Init => LoopInv BY InitLoop
<1>2. LoopInv /\ [Next]_vars => LoopInv' BY LoopStep
<1>3. LoopInv => TypeOK
  BY FollowedAssumption DEF LoopInv, LoopTypes, TypeOK, ExposerTypeOK
<1> QED BY <1>1, <1>2, <1>3, PTL DEF Spec

(* In every run, what a round writes as the response time of the service   *)
(* lies between those of two Pods that had requests, and is 0 if none had: *)
(* Pods without requests do not hide a slow one, for any number of Pods    *)
(* and any times and counts (sync.go 94-125).                              *)
THEOREM ServiceAverageSound == Spec => ServiceAmongPods
<1>1. Init => LoopInv BY InitLoop
<1>2. LoopInv /\ [Next]_vars => LoopInv' /\ AverageSound BY LoopStep, AverageStep
<1>3. AverageSound =>
        [serving /\ serving' /\ round.at = "service" /\ round' = Resting =>
           LET busy == {k \in DOMAIN round.got : round.got[k].count > 0}
           IN  IF busy = {} THEN service' = 0
               ELSE /\ \E k \in busy : service' >= round.got[k].time
                    /\ \E k \in busy : service' <= round.got[k].time]_vars
  BY DEF AverageSound, AmongBusy, Busy
<1> QED BY <1>1, <1>2, <1>3, PTL DEF Spec, ServiceAmongPods

(* In every run, a recommendation is what the control law makes of a time  *)
(* that this Pod's own proxy has given since the exposer last started: a   *)
(* Pod that never answered is not taken for an idle one (provider.go 74-78,*)
(* sync.go 51-56, recommender/logic.go 101-128).                           *)
THEOREM RecommendsOnAnswers == Spec => ActsOnAnswers
<1>1. Init => LoopInv BY InitLoop
<1>2. LoopInv /\ [Next]_vars => LoopInv' /\ OnlyAnswers BY LoopStep
<1>3. OnlyAnswers =>
        [\A p \in Followed : Len(pending'[p]) > Len(pending[p]) =>
           \E t \in answered[p] :
             pending'[p] = Append(pending[p],
               ApplyBounds(Desired(law[p], seen[p], Error(t)), Lower, Upper))]_vars
  BY DEF OnlyAnswers
<1> QED BY <1>1, <1>2, <1>3, PTL DEF Spec, ActsOnAnswers
=============================================================================
