--------------------------- MODULE ReplicaPolicy ---------------------------
(***************************************************************************)
(* What the owner of a Deployment may expect of the pod replicas updater,  *)
(* without its queue, its per-SLA memory, its calls and its crashes: it    *)
(* changes the number of replicas only after the load of this application  *)
(* has asked for it for longer than a period, with no observation to the   *)
(* contrary in between, and not before the last change had time to settle. *)
(* Up it goes by one replica or to the lower bound, down to anything above *)
(* the lower bound.  Everybody else may scale the Deployment at any time.  *)
(***************************************************************************)
EXTENDS Allotment

CONSTANTS
  Apps,                        \* the applications, each a Deployment
  MinReplicas, MaxReplicas,    \* the bounds of the SLA of an application
  UpPeriod, DownPeriod,        \* how long a load is sustained, in ticks
  StabilizePeriod,             \* how long a change settles
  CallTime                     \* the longest time an Update may take

(* An age is counted up to the largest one that anything depends on. *)
LongAgo == StabilizePeriod + Larger(UpPeriod, DownPeriod) + 1
Older(age) == Smaller(age + 1, LongAgo)

NoPressure == [direction |-> "none", age |-> 0]

(* The number of replicas between the bounds. *)
Clamp(n) == Smaller(MaxReplicas, Larger(MinReplicas, n))

VARIABLES
  replicas,    \* Deployment.Spec.Replicas of each application
  author,      \* who wrote it: the updater or anybody else
  calm,        \* ticks since the updater last changed it
  pressure     \* what the observations ask for, and for how long

vars == <<replicas, author, calm, pressure>>

Init ==
  /\ replicas \in [Apps -> Nat]
  /\ author = [a \in Apps |-> "user"]
  /\ calm = [a \in Apps |-> LongAgo]
  /\ pressure = [a \in Apps |-> NoPressure]

Tick ==
  /\ calm' = [a \in Apps |-> Older(calm[a])]
  /\ pressure' = [a \in Apps |-> IF pressure[a] = NoPressure THEN NoPressure
                                 ELSE [pressure[a] EXCEPT !.age = Older(@)]]
  /\ UNCHANGED <<replicas, author>>

(* The load is looked at: a direction goes on, starts anew or ends. *)
Observe(a) ==
  /\ \E seen \in {NoPressure} \cup [direction : {"up", "down"}, age : {0}] :
       pressure' = [pressure EXCEPT ![a] = seen]
  /\ UNCHANGED <<replicas, author, calm>>

Rescale(a, n) ==
  /\ replicas' = [replicas EXCEPT ![a] = n]
  /\ author' = [author EXCEPT ![a] = "updater"]
  /\ calm' = [calm EXCEPT ![a] = 0]
  /\ pressure' = [pressure EXCEPT ![a] = NoPressure]

Settled(a, period) == calm[a] >= StabilizePeriod + period + 1 - CallTime

ScaleUp(a) ==
  /\ pressure[a].direction = "up" /\ pressure[a].age > UpPeriod
  /\ Settled(a, UpPeriod)
  /\ Clamp(replicas[a] + 1) > replicas[a]
  /\ Rescale(a, Clamp(replicas[a] + 1))

ScaleDown(a) ==
  /\ pressure[a].direction = "down" /\ pressure[a].age > DownPeriod
  /\ Settled(a, DownPeriod)
  /\ \E n \in MinReplicas..MaxReplicas : n < replicas[a] /\ Rescale(a, n)

(* A user, or another controller. *)
ScaleOutside(a) ==
  /\ replicas'[a] \in Nat
  /\ replicas' = [replicas EXCEPT ![a] = replicas'[a]]
  /\ author' = [author EXCEPT ![a] = "user"]
  /\ UNCHANGED <<calm, pressure>>

Next == Tick \/ \E a \in Apps : Observe(a) \/ ScaleUp(a) \/ ScaleDown(a) \/ ScaleOutside(a)

Spec == Init /\ [][Next]_vars
=============================================================================
