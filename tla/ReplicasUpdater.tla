-------------------------- MODULE ReplicasUpdater --------------------------
(***************************************************************************)
(* The pod replicas updater (pkg/pod-replicas-updater): every five seconds *)
(* each SLA is put in a work queue; one worker takes an SLA, finds the     *)
(* Deployment of its Pods, lets the CustomLogic of the SLA compute the     *)
(* number of replicas and updates the Deployment with it.                  *)
(*                                                                         *)
(* Around it, as external parts: the API server, which accepts an Update   *)
(* only of the version that was read; users who scale a Deployment; the    *)
(* load that the nodes and the metrics show, which may be anything at any  *)
(* time.  The Pods of a Deployment are those it has replicas for; a        *)
(* Deployment without any is found by no SLA.                              *)
(*                                                                         *)
(* Time passes in ticks of scaleUpPeriodMillis.  Three variables record    *)
(* what happened and are read by no action: author, calm, pressure.        *)
(***************************************************************************)
EXTENDS Allotment, FiniteSets

CONSTANTS
  SLAs,
  Apps,                        \* Deployments, each with its Service
  Covers,                      \* the Apps with PodScales of an SLA
  MinReplicas, MaxReplicas,
  UpPeriod, DownPeriod, StabilizePeriod,    \* 1, 2 and 10 ticks
  CallTime,                    \* the longest time a call takes
  Loads,                       \* response time in percent of the SLA's
  Sizes,                       \* what users scale to
  Limits,                      \* how many faults, touches, ... may occur
  None

Kinds == {"outside", "touches", "faults", "crashes", "removals"}

ASSUME PeriodAssumption ==
  /\ UpPeriod \in Nat /\ DownPeriod \in Nat /\ CallTime \in Nat
  /\ StabilizePeriod \in Nat \ {0}
ASSUME BoundsAssumption ==
  /\ MinReplicas \in Nat /\ MaxReplicas \in Nat /\ MinReplicas <= MaxReplicas
  /\ Loads \subseteq Nat /\ Sizes \subseteq Nat /\ Sizes # {}
  /\ Limits \in [Kinds -> Nat]
ASSUME CoverAssumption == Covers \in [SLAs -> SUBSET Apps]

VARIABLES
  replicas,    \* API server: Spec.Replicas of the Deployments
  slas,        \* the SLAs that exist
  up,          \* the process runs
  queue,       \* SLAQueue
  logic,       \* logicMap: the CustomLogic of each SLA, or None
  worker,      \* what the worker is about to write
  author, calm, pressure,    \* history
  budget

history == <<author, calm, pressure>>
vars    == <<replicas, slas, up, queue, logic, worker, history, budget>>

(* The abstract specification, with the operators it shares. *)
Policy == INSTANCE ReplicaPolicy WITH
            replicas <- replicas, author <- author, calm <- calm, pressure <- pressure

LongAgo == Policy!LongAgo
Older(age) == Policy!Older(age)
Clamp(n)   == Policy!Clamp(n)
NoPressure == Policy!NoPressure

Ages == 0..LongAgo
CustomLogic == [state : {"steady", "scaling_up", "scaling_down"}, since : Ages, stable : Ages]
Idle == [at |-> "idle"]
Writing == [at : {"update"}, sla : SLAs, app : Apps, to : Nat, current : BOOLEAN, waited : 0..CallTime]

Spend(kind) ==
  /\ budget[kind] > 0
  /\ budget' = [budget EXCEPT ![kind] = @ - 1]

----------------------------------------------------------------------------
(* CustomLogic. *)

(* Variant: the state is not set. *)
UnsetLogic == [state |-> "", since |-> 0, stable |-> 0]

(* newCustomLogic: three times of now. *)
NewLogic == [state |-> "steady", since |-> 0, stable |-> 0]

(* Still within stabilizePeriodMillis of the last change. *)
Stabilizing(l) == l.stable < StabilizePeriod

(* math.Round(actualTarget / desiredTarget * curReplica) *)
Proposed(load, current) == (2 * load * current + 100) \div 200

(* Variant: the bounds only apply to a reduction. *)
Unbounded(saturated, load, current) ==
  IF saturated THEN current + 1 ELSE Smaller(current, Clamp(Proposed(load, current)))

(* A node above 0.8 asks for one replica more, and only if there is none   *)
(* the response time may ask for fewer.                                    *)
Wanted(saturated, load, current) ==
  Clamp(IF saturated THEN current + 1
        ELSE Smaller(current, Clamp(Proposed(load, current))))

Direction(current, wanted) ==
  IF wanted > current THEN "up" ELSE IF wanted < current THEN "down" ELSE "none"

Towards(direction) == IF direction = "up" THEN "scaling_up" ELSE "scaling_down"
Period(direction)  == IF direction = "up" THEN UpPeriod ELSE DownPeriod

(* Variant: the time of the first observation is not started anew. *)
Restless(l, direction) ==
  IF direction = "none" THEN [l EXCEPT !.state = "steady"]
  ELSE IF l.state = "steady"
  THEN [l EXCEPT !.state = Towards(direction), !.since = 0]
  ELSE IF l.since > Period(direction)
  THEN [l EXCEPT !.state = "steady", !.stable = 0]
  ELSE [l EXCEPT !.state = Towards(direction)]

(* Variant: every observation starts the time anew. *)
StartedAnew(l, direction) ==
  IF direction = "none" THEN [l EXCEPT !.state = "steady"]
  ELSE IF l.state = Towards(direction) /\ l.since > Period(direction)
  THEN [l EXCEPT !.state = "steady", !.stable = 0]
  ELSE [l EXCEPT !.state = Towards(direction), !.since = 0]

(* The logic after it has seen a direction.  Its times are set before the  *)
(* Deployment is updated, whatever becomes of the update.                  *)
Seen(l, direction) ==
  IF direction = "none" THEN [l EXCEPT !.state = "steady"]
  ELSE IF l.state # Towards(direction)
  THEN [l EXCEPT !.state = Towards(direction), !.since = 0]
  ELSE IF l.since > Period(direction)
  THEN [l EXCEPT !.state = "steady", !.stable = 0]
  ELSE l

(* Whether the direction has lasted long enough to give in to it. *)
Sustained(l, direction) ==
  /\ direction # "none" /\ l.state = Towards(direction)
  /\ l.since > Period(direction)

----------------------------------------------------------------------------
(* Controller. *)

(* runWorker *)
Enqueue(s) ==
  /\ up /\ s \in slas /\ s \notin queue
  /\ queue' = queue \cup {s}
  /\ UNCHANGED <<replicas, slas, up, logic, worker, history, budget>>

(* The Deployments whose Pods the SLA's PodScales name. *)
Matched(s) == {a \in Covers[s] : replicas[a] > 0}

(* What is recorded of an observation. *)
Observed(a, direction) ==
  pressure' = [pressure EXCEPT ![a] =
                 IF direction = "none" THEN NoPressure
                 ELSE IF @.direction = direction THEN @
                 ELSE [direction |-> direction, age |-> 0]]

Write(s, a, to) ==
  /\ worker' = [at |-> "update", sla |-> s, app |-> a, to |-> to, current |-> TRUE, waited |-> 0]
  /\ queue' = queue \ {s}

(* handleSLA up to the Update.  Any Pod of the SLA may be the first, whose *)
(* Deployment is read; the Service of another may be the one whose metrics *)
(* are.  A failed read, an SLA that is gone or one without Pods is an      *)
(* error: the key goes back to the queue and nothing else changes.         *)
HandleSLA(s) ==
  /\ up /\ worker = Idle
  /\ s \in queue /\ s \in slas
  /\ \E a \in Matched(s) :
       \* LoadOrStore reports that there was no logic
       \/ /\ logic[s] = None
          /\ logic' = [logic EXCEPT ![s] = NewLogic]
          /\ UNCHANGED <<worker, queue, pressure, budget>>
       \* the last change still settles
       \/ /\ logic[s] # None /\ Stabilizing(logic[s])
          /\ logic' = [logic EXCEPT ![s].state = "steady"]
          /\ Observed(a, "none")
          /\ Write(s, a, replicas[a])
          /\ UNCHANGED budget
       \* the metrics cannot be read
       \/ /\ logic[s] # None /\ ~Stabilizing(logic[s])
          /\ Spend("faults")
          /\ Write(s, a, replicas[a])
          /\ UNCHANGED <<logic, pressure>>
       \/ /\ logic[s] # None /\ ~Stabilizing(logic[s])
          /\ \E saturated \in BOOLEAN, load \in Loads :
               LET wanted    == Wanted(saturated, load, replicas[a])
                   direction == Direction(replicas[a], wanted)
               IN  /\ logic' = [logic EXCEPT ![s] = Seen(logic[s], direction)]
                   /\ Observed(a, direction)
                   /\ Write(s, a, IF Sustained(logic[s], direction) THEN wanted ELSE replicas[a])
          /\ UNCHANGED budget
  /\ UNCHANGED <<replicas, slas, up, author, calm>>

(* The API server takes the Update; one that changes nothing leaves the    *)
(* version alone.                                                          *)
Applied ==
  /\ worker.current
  /\ replicas' = [replicas EXCEPT ![worker.app] = worker.to]
  /\ IF worker.to = replicas[worker.app] THEN UNCHANGED history
     ELSE /\ author' = [author EXCEPT ![worker.app] = "updater"]
          /\ calm' = [calm EXCEPT ![worker.app] = 0]
          /\ pressure' = [pressure EXCEPT ![worker.app] = NoPressure]

(* A conflict or an error puts the SLA back; the answer, not the request,  *)
(* may be what got lost.                                                   *)
UpdateDeployment ==
  /\ up /\ worker # Idle
  /\ worker' = Idle
  /\ \/ /\ Applied
        /\ UNCHANGED <<queue, budget>>
     \/ /\ ~worker.current
        /\ queue' = queue \cup {worker.sla}
        /\ UNCHANGED <<replicas, history, budget>>
     \/ /\ Spend("faults")
        /\ queue' = queue \cup {worker.sla}
        /\ Applied \/ UNCHANGED <<replicas, history>>
  /\ UNCHANGED <<slas, up, logic>>

(* All memory is lost; the request that was under way may still arrive. *)
Crash ==
  /\ up /\ Spend("crashes")
  /\ up' = FALSE
  /\ queue' = {}
  /\ logic' = [s \in SLAs |-> None]
  /\ worker' = Idle
  /\ UNCHANGED <<replicas, history>> \/ (worker # Idle /\ Applied)
  /\ UNCHANGED slas

Restart ==
  /\ ~up
  /\ up' = TRUE
  /\ UNCHANGED <<replicas, slas, queue, logic, worker, history, budget>>

----------------------------------------------------------------------------
(* Everybody else. *)

(* The Deployment that is being handled has a new version. *)
Outdated(a) ==
  worker' = IF worker # Idle /\ worker.app = a THEN [worker EXCEPT !.current = FALSE] ELSE worker

ScaleOutside(a) ==
  /\ Spend("outside")
  /\ \E n \in Sizes \ {replicas[a]} : replicas' = [replicas EXCEPT ![a] = n]
  /\ author' = [author EXCEPT ![a] = "user"]
  /\ Outdated(a)
  /\ UNCHANGED <<slas, up, queue, logic, calm, pressure>>

(* The deployment controller reports status. *)
TouchDeployment(a) ==
  /\ Spend("touches")
  /\ Outdated(a)
  /\ UNCHANGED <<replicas, slas, up, queue, logic, history>>

(* An SLA is deleted, or created again under its old name. *)
ToggleSLA(s) ==
  /\ \/ s \in slas /\ Spend("removals") /\ slas' = slas \ {s}
     \/ s \notin slas /\ slas' = slas \cup {s} /\ UNCHANGED budget
  /\ UNCHANGED <<replicas, up, queue, logic, worker, history>>

Tick ==
  /\ worker # Idle => worker.waited < CallTime
  /\ worker' = IF worker = Idle THEN Idle ELSE [worker EXCEPT !.waited = @ + 1]
  /\ logic' = [s \in SLAs |-> IF logic[s] = None THEN None
                              ELSE [logic[s] EXCEPT !.since = Older(@), !.stable = Older(@)]]
  /\ calm' = [a \in Apps |-> Older(calm[a])]
  /\ pressure' = [a \in Apps |-> IF pressure[a] = NoPressure THEN NoPressure
                                 ELSE [pressure[a] EXCEPT !.age = Older(@)]]
  /\ UNCHANGED <<replicas, slas, up, queue, author, budget>>

----------------------------------------------------------------------------
Init ==
  /\ replicas \in [Apps -> Sizes]
  /\ slas = SLAs
  /\ up = TRUE
  /\ queue = {}
  /\ logic = [s \in SLAs |-> None]
  /\ worker = Idle
  /\ author = [a \in Apps |-> "user"]
  /\ calm = [a \in Apps |-> LongAgo]
  /\ pressure = [a \in Apps |-> NoPressure]
  /\ budget = Limits

WorkerStep == (\E s \in SLAs : HandleSLA(s)) \/ UpdateDeployment

Next ==
  \/ \E s \in SLAs : Enqueue(s) \/ ToggleSLA(s)
  \/ WorkerStep
  \/ Crash \/ Restart
  \/ \E a \in Apps : ScaleOutside(a) \/ TouchDeployment(a)
  \/ Tick

Spec == Init /\ [][Next]_vars

(* The two goroutines run, time passes, the process is restarted. *)
Fairness ==
  /\ \A s \in SLAs : WF_vars(Enqueue(s))
  /\ WF_vars(WorkerStep) /\ WF_vars(Restart) /\ WF_vars(Tick)

FairSpec == Spec /\ Fairness

----------------------------------------------------------------------------
(* Properties. *)

TypeOK ==
  /\ replicas \in [Apps -> Nat]
  /\ slas \subseteq SLAs /\ queue \subseteq SLAs
  /\ up \in BOOLEAN
  /\ logic \in [SLAs -> CustomLogic \cup {None}]
  /\ worker \in Writing \cup {Idle}
  /\ author \in [Apps -> {"user", "updater"}]
  /\ calm \in [Apps -> Ages]
  /\ pressure \in [Apps -> [direction : {"none", "up", "down"}, age : Ages]]
  /\ budget \in [Kinds -> Nat]

(* Each application is judged by its own load and left to settle after its *)
(* own changes, whatever is lost, retried, restarted or read from an old   *)
(* SLA in between (controller.go 130-235, logic.go 142-228).               *)
PolicyImplemented == Policy!Spec

(* MinReplicas and MaxReplicas are the bounds for the application          *)
(* (types.go 62-69): a Deployment that somebody scaled out of them comes   *)
(* back, unless the SLA is gone or no Pod is left to find it by.           *)
Astray(a) == replicas[a] > 0 /\ (replicas[a] < MinReplicas \/ replicas[a] > MaxReplicas)

BoundsRestored ==
  \A s \in SLAs : \A a \in Covers[s] : Astray(a) ~> (~Astray(a) \/ s \notin slas)
=============================================================================
