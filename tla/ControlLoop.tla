---------------------------- MODULE ControlLoop ----------------------------
(***************************************************************************)
(* The vertical control loop: load -> proxy -> metrics exposer ->          *)
(* recommender -> PodScale -> recommender.  MetricsExposer brings the way  *)
(* of a response time into the cache; here the recommender asks for it,    *)
(* computes a recommendation with the control law of the Pod               *)
(* (recommender/logic.go) and sends it on; it comes back as the actual     *)
(* resources of the PodScale some time later, cut, or never.               *)
(*                                                                         *)
(* The contention manager and the updaters are reduced to that outcome;    *)
(* PodAutoscaler models them.  The SLA asks for SetPoint milliseconds.     *)
(* Rates and errors, floating-point numbers in the code, are integers in   *)
(* units of 1/Scale per second; Scale makes those of the loads exact.      *)
(***************************************************************************)
EXTENDS MetricsExposer

CONSTANTS
  Followed,        \* the Pods whose control loops are looked at
  Scale,           \* an error of 1/s
  SetPoint,        \* Spec.Metric.ResponseTime of the SLA
  Lower, Upper,    \* MinResources and MaxResources of the SLA
  Default,         \* the size of a new Pod
  Shares,          \* what a contended node may grant
  Gains,           \* what the adaptive law may choose as bc
  Pending,         \* how many recommendations may be under way for a Pod
  Disturbances     \* how many changes, cuts, losses, edits and crashes may occur

ASSUME FollowedAssumption == Followed \subseteq Pods
ASSUME ScaleAssumption ==
  /\ SetPoint \in Nat \ {0} /\ Scale \in Nat \ {0}
  /\ \A t \in {SetPoint} \cup ({l.time : l \in UNION {Loads[p] : p \in Followed}} \ {0}) :
       (1000 * Scale) % t = 0
ASSUME BoundAssumption ==
  /\ Lower \in Nat \ {0} /\ Upper \in Nat /\ Lower <= Upper
  /\ Default \in Lower..Upper /\ Shares \subseteq 1..Upper
  /\ {10, 100} \subseteq Gains /\ Gains \subseteq 10..100
  /\ Pending \in Nat \ {0} /\ Disturbances \in Nat

VARIABLES
  adaptive,    \* Spec.RecommenderLogic of the SLA
  law,         \* logicMap: the control law of each Pod, or None
  actual,      \* the actual resources of the PodScale
  seen,        \* what the recommender read of them before it asked for the metric, or None
  pending,     \* the recommendations that are under way
  answered,    \* history: the times the proxies gave since the exposer started
  budget

recommender == <<law, seen, pending>>
vars == <<load, exposer, adaptive, recommender, actual, answered, budget>>

Disturb ==
  /\ budget > 0
  /\ budget' = budget - 1

----------------------------------------------------------------------------
(* The control laws. *)

BC == 40
DC == 80
MaxError == 10 * Scale
Law == [adaptive : BOOLEAN, prevError : -MaxError..MaxError, bc : 10..100]

NewLaw == [adaptive |-> adaptive, prevError |-> 0, bc |-> BC]

(* 1/setPoint - 1/responseTime, between minError and maxError; the rate of *)
(* a Pod without a response time is infinite.                              *)
Error(time) ==
  IF time = 0 THEN -MaxError
  ELSE Smaller(Larger(-MaxError, (1000 * Scale) \div SetPoint - (1000 * Scale) \div time), MaxError)

(* The gain dc follows bc, from 15 to 150. *)
DerivedGain(l) == IF l.adaptive THEN Smaller(Larger(15, (l.bc * DC) \div BC), 150) ELSE DC

(* Never below minCPU, never above maxScaleOut = 1.5 times the amount the  *)
(* PodScale shows; int64 cuts the fraction off.                            *)
Truncated(cores, amount) ==
  Smaller(Larger(5 * Scale, cores), (3 * amount * Scale) \div 2) \div Scale

(* Variant: the term of the last error is never added. *)
OnlyIntegral(l, amount, e) ==
  Truncated(amount * Scale - l.bc * l.prevError + l.bc * e, amount)

(* computeCPUResource. *)
Desired(l, amount, e) ==
  LET xcprec == amount * Scale - l.bc * l.prevError
      xc     == xcprec + l.bc * e
  IN  Truncated(xc + DerivedGain(l) * e, amount)

(* The next gain is bc * sqrt(2|e|), from 10 to 100: here one of Gains, not *)
(* above bc if 2|e| is below 1, not below bc otherwise.                    *)
NextGains(l, e) ==
  IF ~l.adaptive THEN {l.bc}
  ELSE IF e = 0 THEN {10}
  ELSE IF 2 * Larger(e, -e) < Scale THEN {g \in Gains : g <= l.bc}
  ELSE {g \in Gains : g >= l.bc}

----------------------------------------------------------------------------
(* Recommender: recommendContainer. *)

(* The PodScale is read, the law made if there is none, the metric asked   *)
(* for.  The kind of the SLA is only looked at when the law is made.       *)
AskMetric(p) ==
  /\ BeginRead(p)
  /\ law' = IF law[p] = None THEN [law EXCEPT ![p] = NewLaw] ELSE law
  /\ seen' = [seen EXCEPT ![p] = actual[p]]
  /\ UNCHANGED <<adaptive, pending, actual, answered, budget>>

(* No exposer answers: the Pod is skipped. *)
MetricFails(p) ==
  /\ ~serving /\ law[p] = None
  /\ law' = [law EXCEPT ![p] = NewLaw]
  /\ UNCHANGED <<load, exposer, adaptive, seen, pending, actual, answered, budget>>

(* Variant: a Pod that is not in the cache has the zero value. *)
ZeroValue(p) == IF cache[p] = None THEN 0 ELSE cache[p]

(* valueFor: what is in the map. *)
Metric(p) == cache[p]

(* A metric that is not in the cache is an error: the Pod is skipped. *)
SkipPodScale(p) ==
  /\ EndRead(p)
  /\ Metric(p) = None
  /\ seen' = [seen EXCEPT ![p] = None]
  /\ UNCHANGED <<adaptive, law, pending, actual, answered, budget>>

(* The law keeps the error, whatever becomes of the recommendation.  The   *)
(* bound Pending holds an answer back.                                     *)
Recommend(p) ==
  /\ EndRead(p)
  /\ Metric(p) # None
  /\ Len(pending[p]) < Pending
  /\ LET e == Error(Metric(p))
     IN  /\ pending' = [pending EXCEPT ![p] =
                          Append(@, ApplyBounds(Desired(law[p], seen[p], e), Lower, Upper))]
         /\ \E bc \in NextGains(law[p], e) :
              law' = [law EXCEPT ![p].prevError = e, ![p].bc = bc]
  /\ seen' = [seen EXCEPT ![p] = None]
  /\ UNCHANGED <<adaptive, actual, answered, budget>>

----------------------------------------------------------------------------
(* What becomes of a recommendation. *)

Apply(p) ==
  /\ pending[p] # <<>>
  /\ actual' = [actual EXCEPT ![p] = Head(pending[p])]
  /\ pending' = [pending EXCEPT ![p] = Tail(@)]
  /\ UNCHANGED <<load, exposer, adaptive, law, seen, answered, budget>>

(* The node cannot give that much; the share knows no lower bound. *)
Cut(p) ==
  /\ pending[p] # <<>> /\ Disturb
  /\ \E share \in Shares : share < Head(pending[p]) /\ actual' = [actual EXCEPT ![p] = share]
  /\ pending' = [pending EXCEPT ![p] = Tail(@)]
  /\ UNCHANGED <<load, exposer, adaptive, law, seen, answered>>

Lose(p) ==
  /\ pending[p] # <<>> /\ Disturb
  /\ pending' = [pending EXCEPT ![p] = Tail(@)]
  /\ UNCHANGED <<load, exposer, adaptive, law, seen, actual, answered>>

(* The pod autoscaler restarts without laws or messages. *)
CrashAutoscaler ==
  /\ Disturb
  /\ law' = [p \in Followed |-> None]
  /\ pending' = [p \in Followed |-> <<>>]
  /\ readers' = {}
  /\ seen' = [p \in Followed |-> None]
  /\ UNCHANGED <<load, cache, service, round, serving, adaptive, actual, answered>>

----------------------------------------------------------------------------
(* The exposer, with the history of what it was told. *)

LoopUnchanged == UNCHANGED <<adaptive, recommender, actual, budget>>

Expose ==
  /\ RoundStep
  /\ answered' = IF round.at = "asked" /\ round'.at = "write"
                 THEN [answered EXCEPT ![round.pod] = @ \cup {round.time}] ELSE answered
  /\ LoopUnchanged

EndExposer ==
  /\ serving /\ (Die \/ MapRace)
  /\ Disturb
  /\ answered' = [p \in Pods |-> {}]
  /\ seen' = [p \in Followed |-> None]
  /\ UNCHANGED <<adaptive, law, pending, actual>>

RestartExposer == Serve /\ LoopUnchanged /\ UNCHANGED answered

(* Users: the load, and the kind of law the SLA names. *)
ShiftLoad(p) ==
  /\ ChangeLoad(p) /\ Disturb
  /\ UNCHANGED <<adaptive, recommender, actual, answered>>

EditSLA ==
  /\ Disturb
  /\ adaptive' = ~adaptive
  /\ UNCHANGED <<load, exposer, recommender, actual, answered>>

----------------------------------------------------------------------------
Init ==
  /\ ExposerInit
  /\ adaptive \in BOOLEAN
  /\ law = [p \in Followed |-> None]
  /\ actual = [p \in Followed |-> Default]
  /\ seen = [p \in Followed |-> None]
  /\ pending = [p \in Followed |-> <<>>]
  /\ answered = [p \in Pods |-> {}]
  /\ budget = Disturbances

AnswerRead(p) == SkipPodScale(p) \/ Recommend(p)

Next ==
  \/ Expose \/ EndExposer \/ RestartExposer
  \/ \E p \in Followed :
       \/ AskMetric(p) \/ MetricFails(p) \/ AnswerRead(p)
       \/ Apply(p) \/ Cut(p) \/ Lose(p)
  \/ \E p \in Pods : ShiftLoad(p)
  \/ CrashAutoscaler \/ EditSLA

Spec == Init /\ [][Next]_vars

(* The exposer polls and serves, the recommender runs, messages arrive. *)
Fairness ==
  /\ WF_vars(Expose) /\ WF_vars(RestartExposer)
  /\ \A p \in Followed : WF_vars(AskMetric(p)) /\ WF_vars(AnswerRead(p)) /\ WF_vars(Apply(p))

FairSpec == Spec /\ Fairness

----------------------------------------------------------------------------
(* Properties. *)

TypeOK ==
  /\ ExposerTypeOK
  /\ adaptive \in BOOLEAN
  /\ law \in [Followed -> Law \cup {None}]
  /\ actual \in [Followed -> 1..Upper]
  /\ seen \in [Followed -> 1..Upper \cup {None}]
  /\ \A p \in Followed : pending[p] \in Seq(Lower..Upper) /\ Len(pending[p]) <= Pending
  /\ answered \in [Pods -> SUBSET Nat]
  /\ budget \in 0..Disturbances

(* A recommendation is what the law makes of a response time that this     *)
(* Pod's own proxy has given, since the exposer last started, whatever the *)
(* rounds, reads and crashes in between (provider.go 74-78, sync.go        *)
(* 51-56): no answer is never taken for the answer "idle".                 *)
ActsOnAnswers ==
  [][\A p \in Followed : Len(pending'[p]) > Len(pending[p]) =>
       \E t \in answered[p] :
         pending'[p] = Append(pending[p], ApplyBounds(Desired(law[p], seen[p], Error(t)), Lower, Upper))]_vars

(* The response time of the service lies among those of the Pods that had  *)
(* requests in the round; it is 0 only if none had, or theirs was 0        *)
(* (sync.go 94-125): idle Pods do not hide a slow one.                     *)
ServiceAmongPods ==
  [][serving /\ serving' /\ round.at = "service" /\ round' = Resting =>
       LET busy == {k \in DOMAIN round.got : round.got[k].count > 0}
       IN  IF busy = {} THEN service' = 0
           ELSE /\ \E k \in busy : service' >= round.got[k].time
                /\ \E k \in busy : service' <= round.got[k].time]_vars

(* The error moves the size, in the long run, by the gain dc times itself. *)
(* dc goes down to 20 when the errors of the adaptive law are small.  Less *)
(* than a milli-unit more is cut off, less than a milli-unit less is not.  *)
LeastGain(l) == IF l.adaptive THEN 20 ELSE DC
ErrorOf(p) == Error(Average(load[p]))
Slow(p)       == load[p] # None /\ law[p] # None /\ LeastGain(law[p]) * ErrorOf(p) > Scale
BarelySlow(p) == load[p] # None /\ law[p] # None /\ ErrorOf(p) >= 0
                   /\ LeastGain(law[p]) * ErrorOf(p) < Scale
Fast(p)       == load[p] # None /\ ErrorOf(p) < 0

(* The recommendations say what the PodScale said. *)
Repeats(p) ==
  Len(pending'[p]) > Len(pending[p]) =>
    pending'[p] = Append(pending[p], ApplyBounds(seen[p], Lower, Upper))

(* Whatever was lost, cut or forgotten before: a Pod whose response time   *)
(* stays well above that of its SLA gets all it may have; one that stays   *)
(* faster, by however little, or idle, shrinks to what it must have; for   *)
(* one that is slower by too little for a milli-unit, the law ends by      *)
(* asking for what it has (logic.go 101-128, 222-246).                     *)
LoopSettles ==
  \A p \in Followed :
    /\ <>[]Slow(p) => <>[](actual[p] = Upper)
    /\ <>[]Fast(p) => <>[](actual[p] = Larger(Lower, 5))
    /\ <>[]BarelySlow(p) => <>[][Repeats(p)]_vars
=============================================================================
