----------------------- MODULE ReplicasUpdaterProofs -----------------------
(***************************************************************************)
(* Types of the replicas updater, and that it implements ReplicaPolicy if  *)
(* every SLA has an application of its own.                                *)
(***************************************************************************)
EXTENDS ReplicasUpdater, TLAPS

LEMMA AgeFacts ==
  /\ LongAgo \in Nat
  /\ LongAgo >= StabilizePeriod + UpPeriod + 1
  /\ LongAgo >= StabilizePeriod + DownPeriod + 1
  /\ \A x \in Ages : Older(x) \in Ages /\ Older(x) >= x /\ (x < LongAgo => Older(x) = x + 1)
                     /\ Older(x) <= x + 1
BY PeriodAssumption
DEF Ages, LongAgo, Policy!LongAgo, Older, Policy!Older, Smaller, Larger, Policy!Smaller, Policy!Larger

LEMMA ClampFacts == \A n \in Int : Clamp(n) \in Nat /\ Clamp(n) \in MinReplicas..MaxReplicas
BY BoundsAssumption DEF Clamp, Policy!Clamp, Smaller, Larger, Policy!Smaller, Policy!Larger

(* What the logic wants is between the bounds, and one more, or the lower  *)
(* bound, if it is more.                                                   *)
LEMMA WantedFacts ==
  ASSUME NEW saturated \in BOOLEAN, NEW load \in Nat, NEW current \in Nat
  PROVE  /\ Wanted(saturated, load, current) \in Nat
         /\ Wanted(saturated, load, current) \in MinReplicas..MaxReplicas
         /\ Wanted(saturated, load, current) > current =>
              Wanted(saturated, load, current) = Clamp(current + 1)
<1> DEFINE p == Proposed(load, current)
<1>1. p \in Int BY DEF Proposed
<1>2. Clamp(p) \in MinReplicas..MaxReplicas /\ Clamp(p) \in Nat BY <1>1, ClampFacts
<1>3. Smaller(current, Clamp(p)) \in Int BY <1>2 DEF Smaller
<1>4. Clamp(current + 1) \in Nat /\ Clamp(current + 1) \in MinReplicas..MaxReplicas BY ClampFacts
<1>5. Clamp(Smaller(current, Clamp(p))) \in Nat
      /\ Clamp(Smaller(current, Clamp(p))) \in MinReplicas..MaxReplicas BY <1>3, ClampFacts
<1> HIDE DEF p
<1>6. Clamp(Smaller(current, Clamp(p))) > current =>
        Clamp(Smaller(current, Clamp(p))) = Clamp(current + 1)
  <2> DEFINE c == Clamp(p)
  <2>1. c \in MinReplicas..MaxReplicas BY <1>2
  <2> HIDE DEF c
  <2>2. Clamp(Smaller(current, c)) > current => Clamp(Smaller(current, c)) = Clamp(current + 1)
    BY <2>1, BoundsAssumption DEF Clamp, Policy!Clamp, Smaller, Larger, Policy!Smaller, Policy!Larger
  <2> QED BY <2>2 DEF c
<1>7. Wanted(saturated, load, current) =
        IF saturated THEN Clamp(current + 1) ELSE Clamp(Smaller(current, Clamp(p)))
  BY DEF Wanted, p, Clamp, Policy!Clamp
<1> QED BY <1>4, <1>5, <1>6, <1>7

LEMMA WantedType ==
  ASSUME NEW saturated \in BOOLEAN, NEW load \in Loads, NEW current \in Nat
  PROVE  Wanted(saturated, load, current) \in Nat
BY WantedFacts, BoundsAssumption

LEMMA LogicUpdate ==
  ASSUME NEW l \in CustomLogic
  PROVE  /\ l.state \in {"steady", "scaling_up", "scaling_down"}
         /\ l.since \in Ages /\ l.stable \in Ages
         /\ \A state \in {"steady", "scaling_up", "scaling_down"} :
              /\ [l EXCEPT !.state = state] \in CustomLogic
              /\ [l EXCEPT !.state = state, !.since = 0] \in CustomLogic
              /\ [l EXCEPT !.state = state, !.stable = 0] \in CustomLogic
<1>1. 0 \in Ages BY AgeFacts DEF Ages
<1> QED BY <1>1 DEF CustomLogic

LEMMA SeenType ==
  ASSUME NEW l \in CustomLogic, NEW direction \in {"none", "up", "down"}
  PROVE  Seen(l, direction) \in CustomLogic
<1>1. Towards(direction) \in {"steady", "scaling_up", "scaling_down"} BY DEF Towards
<1>2. [l EXCEPT !.state = "steady"] \in CustomLogic
      /\ [l EXCEPT !.state = "steady", !.stable = 0] \in CustomLogic BY LogicUpdate
<1>3. [l EXCEPT !.state = Towards(direction), !.since = 0] \in CustomLogic BY <1>1, LogicUpdate
<1> QED BY <1>2, <1>3, Zenon DEF Seen

LEMMA DirectionType == \A c, w \in Nat : Direction(c, w) \in {"none", "up", "down"}
BY DEF Direction

----------------------------------------------------------------------------
(* Types. *)

LEMMA InitTyped == Init => TypeOK
<1> SUFFICES ASSUME Init PROVE TypeOK OBVIOUS
<1>1. 0 \in Ages /\ LongAgo \in Ages BY AgeFacts DEF Ages
<1>2. replicas \in [Apps -> Nat]
  <2>1. Sizes \subseteq Nat BY BoundsAssumption
  <2> QED BY <2>1 DEF Init
<1>3. NoPressure \in [direction : {"none", "up", "down"}, age : Ages]
  BY <1>1 DEF NoPressure, Policy!NoPressure
<1>4. budget \in [Kinds -> Nat] BY BoundsAssumption DEF Init
<1> QED BY <1>1, <1>2, <1>3, <1>4 DEF Init, TypeOK

LEMMA ObservedType ==
  ASSUME TypeOK, NEW a \in Apps, NEW direction \in {"none", "up", "down"}, Observed(a, direction)
  PROVE  pressure' \in [Apps -> [direction : {"none", "up", "down"}, age : Ages]]
BY AgeFacts DEF TypeOK, Observed, NoPressure, Policy!NoPressure, Ages

LEMMA WriteType ==
  ASSUME TypeOK, NEW s \in SLAs, NEW a \in Apps, NEW to \in Nat, Write(s, a, to)
  PROVE  worker' \in Writing \cup {Idle} /\ queue' \subseteq SLAs
BY PeriodAssumption DEF TypeOK, Write, Writing

LEMMA SpendType ==
  ASSUME TypeOK, NEW kind \in Kinds, Spend(kind)
  PROVE  budget' \in [Kinds -> Nat]
BY DEF TypeOK, Spend

LEMMA AppliedType ==
  ASSUME TypeOK, worker \in Writing, Applied
  PROVE  /\ replicas' \in [Apps -> Nat]
         /\ author' \in [Apps -> {"user", "updater"}]
         /\ calm' \in [Apps -> Ages]
         /\ pressure' \in [Apps -> [direction : {"none", "up", "down"}, age : Ages]]
<1>1. worker.to \in Nat BY DEF Writing
<1>2. 0 \in Ages BY AgeFacts DEF Ages
<1>3. NoPressure \in [direction : {"none", "up", "down"}, age : Ages]
  BY <1>2 DEF NoPressure, Policy!NoPressure
<1>4. replicas' \in [Apps -> Nat] BY <1>1 DEF TypeOK, Applied
<1>5. CASE worker.to = replicas[worker.app] BY <1>4, <1>5 DEF TypeOK, Applied, history
<1>6. CASE worker.to # replicas[worker.app] BY <1>2, <1>3, <1>4, <1>6 DEF TypeOK, Applied
<1> QED BY <1>5, <1>6

LEMMA HandleTyped ==
  ASSUME TypeOK, NEW s \in SLAs, HandleSLA(s)
  PROVE  TypeOK'
<1> USE DEF TypeOK
<1>1. PICK a \in Matched(s) :
       \/ /\ logic[s] = None
          /\ logic' = [logic EXCEPT ![s] = NewLogic]
          /\ UNCHANGED <<worker, queue, pressure, budget>>
       \/ /\ logic[s] # None /\ Stabilizing(logic[s])
          /\ logic' = [logic EXCEPT ![s].state = "steady"]
          /\ Observed(a, "none")
          /\ Write(s, a, replicas[a])
          /\ UNCHANGED budget
       \/ /\ logic[s] # None /\ ~Stabilizing(logic[s])
          /\ Spend("faults")
          /\ Write(s, a, replicas[a])
          /\ UNCHANGED <<logic, pressure>>
       \/ /\ logic[s] # None /\ ~Stabilizing(logic[s])
          /\ \E saturated \in BOOLEAN, load \in Loads :
               LET wanted    == Wanted(saturated, load, replicas[a])
                   direction == Direction(replicas[a], wanted)
               IN  /\ logic' = [logic EXCEPT ![s] = Seen(logic[s], direction)]
                   /\ Observed(a, direction)
                   /\ Write(s, a, IF Sustained(logic[s], direction) THEN wanted ELSE replicas[a])
          /\ UNCHANGED budget
  BY DEF HandleSLA
<1>2. a \in Apps /\ replicas[a] \in Nat BY CoverAssumption DEF Matched
<1>3. UNCHANGED <<replicas, slas, up, author, calm>> BY DEF HandleSLA
<1>4. CASE /\ logic[s] = None
           /\ logic' = [logic EXCEPT ![s] = NewLogic]
           /\ UNCHANGED <<worker, queue, pressure, budget>>
  BY <1>3, <1>4, AgeFacts DEF NewLogic, CustomLogic, Ages
<1>5. CASE /\ logic[s] # None
           /\ logic' = [logic EXCEPT ![s].state = "steady"]
           /\ Observed(a, "none")
           /\ Write(s, a, replicas[a])
           /\ UNCHANGED budget
  <2>1. logic' \in [SLAs -> CustomLogic \cup {None}] BY <1>5 DEF CustomLogic
  <2>2. pressure' \in [Apps -> [direction : {"none", "up", "down"}, age : Ages]]
    BY <1>2, <1>5, ObservedType
  <2>3. worker' \in Writing \cup {Idle} /\ queue' \subseteq SLAs BY <1>2, <1>5, WriteType
  <2> QED BY <1>3, <1>5, <2>1, <2>2, <2>3
<1>6. CASE /\ Spend("faults")
           /\ Write(s, a, replicas[a])
           /\ UNCHANGED <<logic, pressure>>
  <2>1. worker' \in Writing \cup {Idle} /\ queue' \subseteq SLAs BY <1>2, <1>6, WriteType
  <2>2. budget' \in [Kinds -> Nat] BY <1>6, SpendType DEF Kinds
  <2> QED BY <1>3, <1>6, <2>1, <2>2
<1>7. CASE /\ logic[s] # None
           /\ \E saturated \in BOOLEAN, load \in Loads :
                LET wanted    == Wanted(saturated, load, replicas[a])
                    direction == Direction(replicas[a], wanted)
                IN  /\ logic' = [logic EXCEPT ![s] = Seen(logic[s], direction)]
                    /\ Observed(a, direction)
                    /\ Write(s, a, IF Sustained(logic[s], direction) THEN wanted ELSE replicas[a])
           /\ UNCHANGED budget
  <2>1. PICK saturated \in BOOLEAN, load \in Loads :
          LET wanted    == Wanted(saturated, load, replicas[a])
              direction == Direction(replicas[a], wanted)
          IN  /\ logic' = [logic EXCEPT ![s] = Seen(logic[s], direction)]
              /\ Observed(a, direction)
              /\ Write(s, a, IF Sustained(logic[s], direction) THEN wanted ELSE replicas[a])
    BY <1>7
  <2> DEFINE wanted    == Wanted(saturated, load, replicas[a])
             direction == Direction(replicas[a], wanted)
             to        == IF Sustained(logic[s], direction) THEN wanted ELSE replicas[a]
  <2>2. wanted \in Nat BY <1>2, WantedType
  <2>3. direction \in {"none", "up", "down"} BY <1>2, <2>2, DirectionType
  <2>4. to \in Nat BY <1>2, <2>2
  <2>5. /\ logic' = [logic EXCEPT ![s] = Seen(logic[s], direction)]
        /\ Observed(a, direction)
        /\ Write(s, a, to)
    BY <2>1
  <2> HIDE DEF wanted, direction, to
  <2>6. logic' \in [SLAs -> CustomLogic \cup {None}] BY <1>7, <2>3, <2>5, SeenType
  <2>7. pressure' \in [Apps -> [direction : {"none", "up", "down"}, age : Ages]]
    BY <1>2, <2>3, <2>5, ObservedType
  <2>8. worker' \in Writing \cup {Idle} /\ queue' \subseteq SLAs BY <1>2, <2>4, <2>5, WriteType
  <2> QED BY <1>3, <1>7, <2>6, <2>7, <2>8
<1> QED BY <1>1, <1>4, <1>5, <1>6, <1>7

LEMMA UpdateTyped ==
  ASSUME TypeOK, UpdateDeployment
  PROVE  TypeOK'
<1> USE DEF TypeOK
<1>1. worker \in Writing BY DEF UpdateDeployment
<1>2. worker' \in Writing \cup {Idle} /\ UNCHANGED <<slas, up, logic>> BY DEF UpdateDeployment
<1>3. queue' \subseteq SLAs BY <1>1 DEF UpdateDeployment, Writing
<1>4. budget' \in [Kinds -> Nat] BY SpendType DEF UpdateDeployment, Kinds
<1>5. /\ replicas' \in [Apps -> Nat]
      /\ author' \in [Apps -> {"user", "updater"}]
      /\ calm' \in [Apps -> Ages]
      /\ pressure' \in [Apps -> [direction : {"none", "up", "down"}, age : Ages]]
  BY <1>1, AppliedType DEF UpdateDeployment, history
<1> QED BY <1>2, <1>3, <1>4, <1>5

LEMMA CrashTyped ==
  ASSUME TypeOK, Crash
  PROVE  TypeOK'
<1> USE DEF TypeOK
<1>1. /\ up' = FALSE /\ queue' = {} /\ logic' = [s \in SLAs |-> None] /\ worker' = Idle
      /\ UNCHANGED slas
  BY DEF Crash
<1>2. budget' \in [Kinds -> Nat] BY SpendType DEF Crash, Kinds
<1>3. /\ replicas' \in [Apps -> Nat]
      /\ author' \in [Apps -> {"user", "updater"}]
      /\ calm' \in [Apps -> Ages]
      /\ pressure' \in [Apps -> [direction : {"none", "up", "down"}, age : Ages]]
  BY AppliedType DEF Crash, history
<1> QED BY <1>1, <1>2, <1>3

LEMMA OutdatedType ==
  ASSUME TypeOK, NEW a \in Apps, Outdated(a)
  PROVE  worker' \in Writing \cup {Idle}
<1>1. CASE worker # Idle /\ worker.app = a
  <2>1. worker \in Writing BY <1>1 DEF TypeOK
  <2>2. worker' = [worker EXCEPT !.current = FALSE] BY <1>1 DEF Outdated
  <2> QED BY <2>1, <2>2 DEF Writing
<1>2. CASE ~(worker # Idle /\ worker.app = a) BY <1>2 DEF TypeOK, Outdated
<1> QED BY <1>1, <1>2

LEMMA OutsideTyped ==
  ASSUME TypeOK, NEW a \in Apps, ScaleOutside(a) \/ TouchDeployment(a)
  PROVE  TypeOK'
<1> USE DEF TypeOK
<1>1. worker' \in Writing \cup {Idle} BY OutdatedType DEF ScaleOutside, TouchDeployment
<1>2. budget' \in [Kinds -> Nat] BY SpendType DEF ScaleOutside, TouchDeployment, Kinds
<1>3. CASE ScaleOutside(a)
  BY <1>1, <1>2, <1>3, BoundsAssumption DEF ScaleOutside
<1>4. CASE TouchDeployment(a)
  BY <1>1, <1>2, <1>4 DEF TouchDeployment, history
<1> QED BY <1>3, <1>4

LEMMA SlaTyped ==
  ASSUME TypeOK, NEW s \in SLAs, Enqueue(s) \/ ToggleSLA(s)
  PROVE  TypeOK'
<1> USE DEF TypeOK
<1>1. CASE Enqueue(s) BY <1>1 DEF Enqueue, history
<1>2. CASE ToggleSLA(s)
  <2>1. budget' \in [Kinds -> Nat] BY <1>2, SpendType DEF ToggleSLA, Kinds
  <2> QED BY <1>2, <2>1 DEF ToggleSLA, history
<1> QED BY <1>1, <1>2

LEMMA TickTyped ==
  ASSUME TypeOK, Tick
  PROVE  TypeOK'
<1> USE DEF TypeOK
<1>1. worker' \in Writing \cup {Idle}
  <2>1. CASE worker = Idle BY <2>1 DEF Tick
  <2>2. CASE worker # Idle
    <3>1. worker \in Writing /\ worker.waited < CallTime /\ worker.waited \in 0..CallTime
      BY <2>2 DEF Tick, Writing
    <3>2. worker.waited + 1 \in 0..CallTime BY <3>1, PeriodAssumption
    <3>3. worker' = [worker EXCEPT !.waited = worker.waited + 1] BY <2>2 DEF Tick
    <3> QED BY <3>1, <3>2, <3>3 DEF Writing
  <2> QED BY <2>1, <2>2
<1>2. logic' \in [SLAs -> CustomLogic \cup {None}] BY AgeFacts DEF Tick, CustomLogic
<1>3. calm' \in [Apps -> Ages] BY AgeFacts DEF Tick
<1>4. pressure' \in [Apps -> [direction : {"none", "up", "down"}, age : Ages]]
  BY AgeFacts DEF Tick
<1> QED BY <1>1, <1>2, <1>3, <1>4 DEF Tick

LEMMA TypeStep == TypeOK /\ [Next]_vars => TypeOK'
<1> SUFFICES ASSUME TypeOK, [Next]_vars PROVE TypeOK' OBVIOUS
<1>1. CASE UNCHANGED vars BY <1>1 DEF TypeOK, vars, history
<1>2. ASSUME NEW s \in SLAs, Enqueue(s) \/ ToggleSLA(s) PROVE TypeOK' BY <1>2, SlaTyped
<1>3. ASSUME NEW s \in SLAs, HandleSLA(s) PROVE TypeOK' BY <1>3, HandleTyped
<1>4. CASE UpdateDeployment BY <1>4, UpdateTyped
<1>5. CASE Crash BY <1>5, CrashTyped
<1>6. CASE Restart BY <1>6 DEF TypeOK, Restart, history
<1>7. ASSUME NEW a \in Apps, ScaleOutside(a) \/ TouchDeployment(a) PROVE TypeOK'
  BY <1>7, OutsideTyped
<1>8. CASE Tick BY <1>8, TickTyped
<1> QED BY <1>1, <1>2, <1>3, <1>4, <1>5, <1>6, <1>7, <1>8 DEF Next, WorkerStep

(* Every reachable state of the replicas updater is well typed: whatever   *)
(* loads, sizes and failures, it never writes a number of replicas that is *)
(* not one, and its clocks stay in range (logic.go 131-228).               *)
THEOREM UpdaterTypeCorrect == Spec => []TypeOK
BY InitTyped, TypeStep, PTL DEF Spec

----------------------------------------------------------------------------
(* The refinement.  It needs that an SLA has an application of its own.    *)

OneAppEach == \A s, t \in SLAs : \A a \in Covers[s], b \in Covers[t] : s = t <=> a = b

(* What the logic l of an SLA remembers never goes beyond what happened to *)
(* its application, with its pressure p and its calm c: a direction it     *)
(* follows has been observed at least as long; it follows one only after   *)
(* the application had time to settle; and the updater's last change is,   *)
(* but for one call, as old as it believes.                                *)
Follows(l, p, state, direction) == l.state = state => p.direction = direction /\ p.age >= l.since

Remembers(l, p, c) ==
  /\ Follows(l, p, "scaling_up", "up")
  /\ Follows(l, p, "scaling_down", "down")
  /\ l.state # "steady" => l.stable >= Smaller(LongAgo, StabilizePeriod + l.since)
  /\ c + CallTime >= l.stable

LogicInv ==
  \A s \in SLAs : logic[s] # None =>
    \A a \in Covers[s] : Remembers(logic[s], pressure[a], calm[a])

(* A change from r to n replicas that is under way is one that the policy  *)
(* allows, and the logic has started its times anew since it was computed. *)
Sufficient(p, c, direction) ==
  /\ p.direction = direction /\ p.age > Period(direction)
  /\ c + CallTime >= StabilizePeriod + Period(direction) + 1

Allowed(p, c, r, n) ==
  \/ Sufficient(p, c, "up") /\ n > r /\ n = Clamp(r + 1)
  \/ Sufficient(p, c, "down") /\ n < r /\ n \in MinReplicas..MaxReplicas

Granted(w, l, p, c, r) ==
  /\ l # None => l.state = "steady" /\ l.stable <= w.waited
  /\ Allowed(p, c, r, w.to)

WorkerInv ==
  worker # Idle =>
    /\ worker.app \in Covers[worker.sla]
    /\ worker.current =>
         \/ worker.to = replicas[worker.app]
         \/ Granted(worker, logic[worker.sla], pressure[worker.app], calm[worker.app],
                    replicas[worker.app])

PolicyInv == TypeOK /\ LogicInv /\ WorkerInv

LEMMA InitPolicy == Init => PolicyInv
BY InitTyped DEF Init, PolicyInv, LogicInv, WorkerInv

(* Nothing that the invariant reads has changed. *)
LEMMA SamePolicy ==
  ASSUME LogicInv, WorkerInv, UNCHANGED <<replicas, logic, worker, calm, pressure>>
  PROVE  LogicInv' /\ WorkerInv'
BY DEF LogicInv, WorkerInv

(* One application and the logic of its SLA have changed. *)
LEMMA OneRemembers ==
  ASSUME TypeOK, OneAppEach, LogicInv, NEW s \in SLAs, NEW a \in Covers[s],
         \A t \in SLAs \ {s} : logic'[t] = logic[t],
         \A b \in Apps \ {a} : pressure'[b] = pressure[b] /\ calm'[b] = calm[b],
         logic'[s] # None => Remembers(logic'[s], pressure'[a], calm'[a])
  PROVE  LogicInv'
<1> SUFFICES ASSUME NEW t \in SLAs, logic'[t] # None, NEW b \in Covers[t]
             PROVE  Remembers(logic'[t], pressure'[b], calm'[b])
  BY DEF LogicInv
<1>1. b \in Apps BY CoverAssumption
<1>2. s = t <=> a = b BY DEF OneAppEach
<1>3. CASE t = s BY <1>2, <1>3
<1>4. CASE t # s
  <2>1. logic'[t] = logic[t] /\ pressure'[b] = pressure[b] /\ calm'[b] = calm[b]
    BY <1>1, <1>2, <1>4
  <2>2. Remembers(logic[t], pressure[b], calm[b]) BY <2>1 DEF LogicInv
  <2> QED BY <2>1, <2>2
<1> QED BY <1>3, <1>4

(* An observation changes what is asked of one application. *)
LEMMA ObservedPressure ==
  ASSUME TypeOK, NEW a \in Apps, NEW direction \in {"none", "up", "down"}, Observed(a, direction)
  PROVE  /\ \A b \in Apps \ {a} : pressure'[b] = pressure[b]
         /\ direction = "none" => pressure'[a] = NoPressure
         /\ direction # "none" => /\ pressure'[a].direction = direction
                                  /\ pressure'[a].age >= 0
                                  /\ pressure[a].direction = direction => pressure'[a] = pressure[a]
         /\ pressure'[a] \in {pressure[a], NoPressure, [direction |-> direction, age |-> 0]}
BY AgeFacts DEF TypeOK, Observed, Ages

(* What a logic remembers after an observation, and what stands behind it  *)
(* if it gives in.                                                         *)
LEMMA SeenFields ==
  ASSUME NEW l \in CustomLogic, NEW direction \in {"none", "up", "down"}
  PROVE  LET n == Seen(l, direction) IN
         \/ direction = "none" /\ n.state = "steady" /\ n.since = l.since /\ n.stable = l.stable
         \/ /\ direction # "none" /\ l.state # Towards(direction)
            /\ n.state = Towards(direction) /\ n.since = 0 /\ n.stable = l.stable
         \/ /\ direction # "none" /\ l.state = Towards(direction) /\ l.since > Period(direction)
            /\ n.state = "steady" /\ n.stable = 0
         \/ /\ direction # "none" /\ l.state = Towards(direction) /\ ~(l.since > Period(direction))
            /\ n = l
<1>1. CASE direction = "none"
  <2>1. Seen(l, direction) = [l EXCEPT !.state = "steady"] BY <1>1 DEF Seen
  <2> QED BY <1>1, <2>1 DEF CustomLogic
<1>2. CASE direction # "none" /\ l.state # Towards(direction)
  <2>1. Seen(l, direction) = [l EXCEPT !.state = Towards(direction), !.since = 0] BY <1>2 DEF Seen
  <2> QED BY <1>2, <2>1 DEF CustomLogic
<1>3. CASE direction # "none" /\ l.state = Towards(direction) /\ l.since > Period(direction)
  <2>1. Seen(l, direction) = [l EXCEPT !.state = "steady", !.stable = 0] BY <1>3 DEF Seen
  <2> QED BY <1>3, <2>1 DEF CustomLogic
<1>4. CASE direction # "none" /\ l.state = Towards(direction) /\ ~(l.since > Period(direction))
  <2>1. Seen(l, direction) = l BY <1>4 DEF Seen
  <2> QED BY <1>4, <2>1
<1> QED BY <1>1, <1>2, <1>3, <1>4

Pressures == [direction : {"none", "up", "down"}, age : Ages]

LEMMA SeenRemembers ==
  ASSUME NEW l \in CustomLogic, NEW direction \in {"none", "up", "down"},
         NEW p \in Pressures, NEW q \in Pressures, NEW c \in Ages,
         Remembers(l, p, c), ~Stabilizing(l),
         direction # "none" => q.direction = direction /\ (p.direction = direction => q = p)
  PROVE  /\ Remembers(Seen(l, direction), q, c)
         /\ Sustained(l, direction) =>
              /\ Seen(l, direction).state = "steady" /\ Seen(l, direction).stable = 0
              /\ Sufficient(q, c, direction)
<1> DEFINE n == Seen(l, direction)
<1>1. /\ l.state \in {"steady", "scaling_up", "scaling_down"}
      /\ l.since \in Nat /\ l.stable \in Nat /\ c \in Nat /\ q.age \in Nat /\ p.age \in Nat
      /\ l.since <= LongAgo /\ l.stable <= LongAgo
  BY AgeFacts DEF CustomLogic, Ages, Pressures
<1>2. LongAgo \in Nat /\ CallTime \in Nat /\ StabilizePeriod \in Nat /\ UpPeriod \in Nat /\ DownPeriod \in Nat
      /\ LongAgo >= StabilizePeriod + UpPeriod + 1 /\ LongAgo >= StabilizePeriod + DownPeriod + 1
  BY AgeFacts, PeriodAssumption
<1>3. l.stable >= StabilizePeriod BY <1>1, <1>2 DEF Stabilizing
<1>4. CASE direction = "none" /\ n.state = "steady" /\ n.since = l.since /\ n.stable = l.stable
  BY <1>4 DEF Remembers, Follows, Sustained
<1>5. CASE /\ direction # "none" /\ l.state # Towards(direction)
           /\ n.state = Towards(direction) /\ n.since = 0 /\ n.stable = l.stable
  <2>1. n.stable >= Smaller(LongAgo, StabilizePeriod + n.since) BY <1>1, <1>2, <1>3, <1>5 DEF Smaller
  <2>2. Follows(n, q, "scaling_up", "up") /\ Follows(n, q, "scaling_down", "down")
    BY <1>1, <1>5 DEF Follows, Towards
  <2> QED BY <1>5, <2>1, <2>2 DEF Remembers, Sustained
<1>6. CASE /\ direction # "none" /\ l.state = Towards(direction) /\ l.since > Period(direction)
           /\ n.state = "steady" /\ n.stable = 0
  <2>1. Remembers(n, q, c) BY <1>1, <1>2, <1>6 DEF Remembers, Follows
  <2>2. p.direction = direction /\ p.age >= l.since
    BY <1>6 DEF Remembers, Follows, Towards
  <2>3. q = p BY <1>6, <2>2
  <2>4. l.stable >= Smaller(LongAgo, StabilizePeriod + l.since) /\ c + CallTime >= l.stable
    BY <1>6 DEF Remembers, Towards
  <2>5. Period(direction) \in {UpPeriod, DownPeriod} BY DEF Period
  <2>6. l.stable >= StabilizePeriod + Period(direction) + 1
    BY <1>1, <1>2, <1>6, <2>4, <2>5 DEF Smaller
  <2>7. Sufficient(q, c, direction)
    BY <1>1, <1>2, <1>6, <2>2, <2>3, <2>4, <2>5, <2>6 DEF Sufficient
  <2> QED BY <1>6, <2>1, <2>7
<1>7. CASE /\ direction # "none" /\ l.state = Towards(direction) /\ ~(l.since > Period(direction))
           /\ n = l
  <2>1. p.direction = direction BY <1>7 DEF Remembers, Follows, Towards
  <2>2. q = p BY <1>7, <2>1
  <2> QED BY <1>7, <2>2 DEF Sustained
<1> HIDE DEF n
<1>8. \/ direction = "none" /\ n.state = "steady" /\ n.since = l.since /\ n.stable = l.stable
      \/ /\ direction # "none" /\ l.state # Towards(direction)
         /\ n.state = Towards(direction) /\ n.since = 0 /\ n.stable = l.stable
      \/ /\ direction # "none" /\ l.state = Towards(direction) /\ l.since > Period(direction)
         /\ n.state = "steady" /\ n.stable = 0
      \/ /\ direction # "none" /\ l.state = Towards(direction) /\ ~(l.since > Period(direction))
         /\ n = l
  BY SeenFields DEF n
<1> QED BY <1>4, <1>5, <1>6, <1>7, <1>8 DEF n

----------------------------------------------------------------------------
(* Step by step: the invariant is kept, and the step is one of the policy. *)

LEMMA ObservePolicy ==
  ASSUME TypeOK, NEW a \in Apps, NEW direction \in {"none", "up", "down"}, Observed(a, direction),
         UNCHANGED <<replicas, author, calm>>
  PROVE  [Policy!Next]_(Policy!vars)
<1>1. pressure' = [pressure EXCEPT ![a] = pressure'[a]] BY DEF TypeOK, Observed
<1>2. CASE pressure'[a] = pressure[a]
  <2>1. pressure' = pressure BY <1>1, <1>2 DEF TypeOK
  <2> QED BY <2>1 DEF Policy!vars
<1>3. CASE pressure'[a] \in {NoPressure, [direction |-> direction, age |-> 0]}
           /\ pressure'[a] # pressure[a]
  <2>1. pressure'[a] \in {Policy!NoPressure} \cup [direction : {"up", "down"}, age : {0}]
    BY <1>3 DEF Observed, TypeOK, NoPressure
  <2>2. Policy!Observe(a) BY <1>1, <2>1 DEF Policy!Observe
  <2> QED BY <2>2 DEF Policy!Next
<1> QED BY <1>2, <1>3, ObservedPressure

LEMMA WrittenPolicy ==
  ASSUME NEW s \in SLAs, NEW a \in Covers[s], NEW to \in Nat, Write(s, a, to),
         \/ to = replicas'[a]
         \/ /\ logic'[s] # None => logic'[s].state = "steady" /\ logic'[s].stable <= 0
            /\ Allowed(pressure'[a], calm'[a], replicas'[a], to)
  PROVE  WorkerInv'
<1>1. worker' = [at |-> "update", sla |-> s, app |-> a, to |-> to, current |-> TRUE, waited |-> 0]
  BY DEF Write
<1>2. worker'.sla = s /\ worker'.app = a /\ worker'.to = to /\ worker'.waited = 0 BY <1>1
<1> QED BY <1>2 DEF WorkerInv, Granted

LEMMA HandlePolicy ==
  ASSUME PolicyInv, OneAppEach, NEW s \in SLAs, HandleSLA(s)
  PROVE  LogicInv' /\ WorkerInv' /\ [Policy!Next]_(Policy!vars)
<1> USE DEF PolicyInv
<1>1. PICK a \in Matched(s) :
       \/ /\ logic[s] = None
          /\ logic' = [logic EXCEPT ![s] = NewLogic]
          /\ UNCHANGED <<worker, queue, pressure, budget>>
       \/ /\ logic[s] # None /\ Stabilizing(logic[s])
          /\ logic' = [logic EXCEPT ![s].state = "steady"]
          /\ Observed(a, "none")
          /\ Write(s, a, replicas[a])
          /\ UNCHANGED budget
       \/ /\ logic[s] # None /\ ~Stabilizing(logic[s])
          /\ Spend("faults")
          /\ Write(s, a, replicas[a])
          /\ UNCHANGED <<logic, pressure>>
       \/ /\ logic[s] # None /\ ~Stabilizing(logic[s])
          /\ \E saturated \in BOOLEAN, load \in Loads :
               LET wanted    == Wanted(saturated, load, replicas[a])
                   direction == Direction(replicas[a], wanted)
               IN  /\ logic' = [logic EXCEPT ![s] = Seen(logic[s], direction)]
                   /\ Observed(a, direction)
                   /\ Write(s, a, IF Sustained(logic[s], direction) THEN wanted ELSE replicas[a])
          /\ UNCHANGED budget
  BY DEF HandleSLA
<1>2. a \in Apps /\ a \in Covers[s] /\ replicas[a] \in Nat /\ calm[a] \in Ages /\ pressure[a] \in Pressures
  BY CoverAssumption DEF Matched, TypeOK, Pressures
<1>3. UNCHANGED <<replicas, slas, up, author, calm>> /\ worker = Idle BY DEF HandleSLA
<1>4. logic[s] # None => logic[s] \in CustomLogic /\ Remembers(logic[s], pressure[a], calm[a])
  BY <1>2 DEF TypeOK, LogicInv
<1>5. CASE /\ logic[s] = None
           /\ logic' = [logic EXCEPT ![s] = NewLogic]
           /\ UNCHANGED <<worker, queue, pressure, budget>>
  <2>1. Remembers(NewLogic, pressure[a], calm[a])
    <3>1. calm[a] \in Nat BY <1>2, AgeFacts DEF Ages
    <3> QED BY <3>1, PeriodAssumption DEF NewLogic, Remembers, Follows
  <2>2. logic'[s] = NewLogic /\ \A t \in SLAs \ {s} : logic'[t] = logic[t] BY <1>5 DEF TypeOK
  <2>3. LogicInv' BY <1>2, <1>3, <1>5, <2>1, <2>2, OneRemembers
  <2>4. WorkerInv' BY <1>3, <1>5 DEF WorkerInv
  <2>5. UNCHANGED Policy!vars BY <1>3, <1>5 DEF Policy!vars
  <2> QED BY <2>3, <2>4, <2>5
<1>6. CASE /\ logic[s] # None
           /\ logic' = [logic EXCEPT ![s].state = "steady"]
           /\ Observed(a, "none")
           /\ Write(s, a, replicas[a])
  <2>1. logic'[s] = [logic[s] EXCEPT !.state = "steady"] /\ \A t \in SLAs \ {s} : logic'[t] = logic[t]
    BY <1>6 DEF TypeOK
  <2>2. logic'[s].state = "steady" /\ logic'[s].stable = logic[s].stable
    BY <1>4, <1>6, <2>1 DEF CustomLogic
  <2>3. Remembers(logic'[s], pressure'[a], calm'[a])
    BY <1>3, <1>4, <1>6, <2>2 DEF Remembers, Follows
  <2>4. \A b \in Apps \ {a} : pressure'[b] = pressure[b] BY <1>2, <1>6, ObservedPressure
  <2>5. LogicInv' BY <1>2, <1>3, <2>1, <2>3, <2>4, OneRemembers
  <2>6. WorkerInv' BY <1>2, <1>3, <1>6, WrittenPolicy
  <2>7. [Policy!Next]_(Policy!vars) BY <1>2, <1>3, <1>6, ObservePolicy
  <2> QED BY <2>5, <2>6, <2>7
<1>7. CASE /\ Write(s, a, replicas[a])
           /\ UNCHANGED <<logic, pressure>>
  <2>1. LogicInv' BY <1>3, <1>7 DEF LogicInv
  <2>2. WorkerInv' BY <1>2, <1>3, <1>7, WrittenPolicy
  <2>3. UNCHANGED Policy!vars BY <1>3, <1>7 DEF Policy!vars
  <2> QED BY <2>1, <2>2, <2>3
<1>8. CASE /\ logic[s] # None /\ ~Stabilizing(logic[s])
           /\ \E saturated \in BOOLEAN, load \in Loads :
                LET wanted    == Wanted(saturated, load, replicas[a])
                    direction == Direction(replicas[a], wanted)
                IN  /\ logic' = [logic EXCEPT ![s] = Seen(logic[s], direction)]
                    /\ Observed(a, direction)
                    /\ Write(s, a, IF Sustained(logic[s], direction) THEN wanted ELSE replicas[a])
  <2>1. PICK saturated \in BOOLEAN, load \in Loads :
          LET wanted    == Wanted(saturated, load, replicas[a])
              direction == Direction(replicas[a], wanted)
          IN  /\ logic' = [logic EXCEPT ![s] = Seen(logic[s], direction)]
              /\ Observed(a, direction)
              /\ Write(s, a, IF Sustained(logic[s], direction) THEN wanted ELSE replicas[a])
    BY <1>8
  <2> DEFINE wanted    == Wanted(saturated, load, replicas[a])
             direction == Direction(replicas[a], wanted)
             to        == IF Sustained(logic[s], direction) THEN wanted ELSE replicas[a]
  <2>2. /\ wanted \in Nat /\ wanted \in MinReplicas..MaxReplicas
        /\ wanted > replicas[a] => wanted = Clamp(replicas[a] + 1)
    BY <1>2, BoundsAssumption, WantedFacts
  <2>3. /\ direction \in {"none", "up", "down"}
        /\ direction = "up" => wanted > replicas[a]
        /\ direction = "down" => wanted < replicas[a]
    BY <1>2, <2>2 DEF Direction
  <2>4. to \in Nat BY <1>2, <2>2
  <2>5. /\ logic' = [logic EXCEPT ![s] = Seen(logic[s], direction)]
        /\ Observed(a, direction)
        /\ Write(s, a, to)
    BY <2>1
  <2>6. to = replicas[a] \/ (Sustained(logic[s], direction) /\ to = wanted) OBVIOUS
  <2> HIDE DEF wanted, direction, to
  <2>7. pressure'[a] \in Pressures
    BY <1>2, <2>3, <2>5, ObservedType DEF Pressures
  <2>8. direction # "none" =>
          pressure'[a].direction = direction /\ (pressure[a].direction = direction => pressure'[a] = pressure[a])
    BY <1>2, <2>3, <2>5, ObservedPressure
  <2>9. /\ Remembers(Seen(logic[s], direction), pressure'[a], calm[a])
        /\ Sustained(logic[s], direction) =>
             /\ Seen(logic[s], direction).state = "steady" /\ Seen(logic[s], direction).stable = 0
             /\ Sufficient(pressure'[a], calm[a], direction)
    BY <1>2, <1>4, <1>8, <2>3, <2>7, <2>8, SeenRemembers
  <2>10. logic'[s] = Seen(logic[s], direction) /\ \A t \in SLAs \ {s} : logic'[t] = logic[t]
    BY <2>5 DEF TypeOK
  <2>11. \A b \in Apps \ {a} : pressure'[b] = pressure[b] BY <1>2, <2>3, <2>5, ObservedPressure
  <2>12. LogicInv' BY <1>2, <1>3, <2>9, <2>10, <2>11, OneRemembers
  <2>13. Sustained(logic[s], direction) => Allowed(pressure'[a], calm[a], replicas[a], wanted)
    BY <2>2, <2>3, <2>9 DEF Allowed, Sustained
  <2>14. WorkerInv' BY <1>2, <1>3, <2>4, <2>5, <2>6, <2>9, <2>10, <2>13, WrittenPolicy
  <2>15. [Policy!Next]_(Policy!vars) BY <1>2, <1>3, <2>3, <2>5, ObservePolicy
  <2> QED BY <2>12, <2>14, <2>15
<1> QED BY <1>1, <1>5, <1>6, <1>7, <1>8

LEMMA AllowedPolicy ==
  ASSUME TypeOK, NEW a \in Apps, NEW n \in Nat, Policy!Rescale(a, n),
         Allowed(pressure[a], calm[a], replicas[a], n)
  PROVE  Policy!Next
<1>1. calm[a] \in Nat /\ replicas[a] \in Nat BY AgeFacts DEF TypeOK, Ages
<1>2. CASE Sufficient(pressure[a], calm[a], "up") /\ n > replicas[a] /\ n = Clamp(replicas[a] + 1)
  <2>1. Policy!Settled(a, UpPeriod)
    BY <1>1, <1>2, PeriodAssumption DEF Policy!Settled, Sufficient, Period
  <2>2. pressure[a].direction = "up" /\ pressure[a].age > UpPeriod
    BY <1>2 DEF Sufficient, Period
  <2>3. n = Policy!Clamp(replicas[a] + 1) BY <1>2 DEF Clamp
  <2>4. Policy!ScaleUp(a) BY <1>2, <2>1, <2>2, <2>3 DEF Policy!ScaleUp
  <2> QED BY <2>4 DEF Policy!Next
<1>3. CASE Sufficient(pressure[a], calm[a], "down") /\ n < replicas[a] /\ n \in MinReplicas..MaxReplicas
  <2>1. Policy!Settled(a, DownPeriod)
    BY <1>1, <1>3, PeriodAssumption DEF Policy!Settled, Sufficient, Period
  <2>2. pressure[a].direction = "down" /\ pressure[a].age > DownPeriod
    BY <1>3 DEF Sufficient, Period
  <2>3. Policy!ScaleDown(a) BY <1>3, <2>1, <2>2 DEF Policy!ScaleDown
  <2> QED BY <2>3 DEF Policy!Next
<1> QED BY <1>2, <1>3 DEF Allowed

(* The API server takes the Update. *)
LEMMA AppliedPolicy ==
  ASSUME PolicyInv, OneAppEach, worker # Idle, Applied, logic' = logic
  PROVE  LogicInv' /\ [Policy!Next]_(Policy!vars)
<1> DEFINE s == worker.sla
           a == worker.app
           n == worker.to
<1>1. worker \in Writing /\ s \in SLAs /\ a \in Apps /\ n \in Nat /\ a \in Covers[s]
      /\ worker.waited \in Nat /\ worker.waited <= CallTime
  BY PeriodAssumption DEF PolicyInv, TypeOK, Writing, WorkerInv
<1>2. replicas' = [replicas EXCEPT ![a] = n] BY DEF Applied
<1>3. CASE n = replicas[a]
  <2>1. UNCHANGED <<replicas, history>> BY <1>1, <1>2, <1>3 DEF Applied, PolicyInv, TypeOK
  <2>2. LogicInv' BY <2>1 DEF PolicyInv, LogicInv, history
  <2>3. UNCHANGED Policy!vars BY <2>1 DEF Policy!vars, history
  <2> QED BY <2>2, <2>3
<1>4. CASE n # replicas[a]
  <2>1. /\ author' = [author EXCEPT ![a] = "updater"]
        /\ calm' = [calm EXCEPT ![a] = 0]
        /\ pressure' = [pressure EXCEPT ![a] = NoPressure]
    BY <1>4 DEF Applied
  <2>2. Granted(worker, logic[s], pressure[a], calm[a], replicas[a])
    BY <1>4 DEF PolicyInv, WorkerInv, Applied
  <2>3. Policy!Rescale(a, n) BY <1>2, <2>1 DEF Policy!Rescale, NoPressure
  <2>4. Policy!Next BY <1>1, <2>2, <2>3, AllowedPolicy DEF Granted, PolicyInv
  <2>5. calm'[a] = 0 /\ \A b \in Apps \ {a} : pressure'[b] = pressure[b] /\ calm'[b] = calm[b]
    BY <1>1, <2>1 DEF PolicyInv, TypeOK
  <2>6. logic[s] # None => Remembers(logic[s], pressure'[a], calm'[a])
    <3>1. SUFFICES ASSUME logic[s] # None PROVE Remembers(logic[s], pressure'[a], 0) BY <2>5
    <3>2. logic[s].state = "steady" /\ logic[s].stable <= worker.waited BY <2>2, <3>1 DEF Granted
    <3>3. logic[s].stable \in Nat
      BY <1>1, <3>1, AgeFacts DEF PolicyInv, TypeOK, CustomLogic, Ages
    <3> QED BY <1>1, <3>2, <3>3, PeriodAssumption DEF Remembers, Follows
  <2>7. LogicInv' BY <1>1, <2>5, <2>6, OneRemembers DEF PolicyInv
  <2> QED BY <2>4, <2>7
<1> QED BY <1>3, <1>4

LEMMA UpdatePolicy ==
  ASSUME PolicyInv, OneAppEach, UpdateDeployment
  PROVE  LogicInv' /\ WorkerInv' /\ [Policy!Next]_(Policy!vars)
<1>1. worker # Idle /\ worker' = Idle /\ logic' = logic BY DEF UpdateDeployment
<1>2. WorkerInv' BY <1>1 DEF WorkerInv
<1>3. CASE Applied BY <1>1, <1>2, <1>3, AppliedPolicy
<1>4. CASE UNCHANGED <<replicas, history>>
  BY <1>1, <1>2, <1>4 DEF PolicyInv, LogicInv, history, Policy!vars
<1> QED BY <1>3, <1>4 DEF UpdateDeployment

(* A crash is one that lost the logics; what AppliedPolicy says of the     *)
(* policy does not depend on them.                                         *)
LEMMA CrashPolicy ==
  ASSUME PolicyInv, Crash
  PROVE  LogicInv' /\ WorkerInv' /\ [Policy!Next]_(Policy!vars)
<1>1. worker' = Idle /\ logic' = [s \in SLAs |-> None] BY DEF Crash
<1>2. LogicInv' /\ WorkerInv' BY <1>1 DEF LogicInv, WorkerInv
<1>3. CASE UNCHANGED <<replicas, history>> BY <1>2, <1>3 DEF history, Policy!vars
<1>4. CASE worker # Idle /\ Applied
  <2>1. worker.app \in Apps /\ worker.to \in Nat BY <1>4 DEF PolicyInv, TypeOK, Writing
  <2>2. CASE worker.to = replicas[worker.app]
    <3>1. UNCHANGED <<replicas, history>> BY <1>4, <2>1, <2>2 DEF Applied, PolicyInv, TypeOK
    <3> QED BY <1>2, <3>1 DEF history, Policy!vars
  <2>3. CASE worker.to # replicas[worker.app]
    <3>1. Policy!Rescale(worker.app, worker.to)
      BY <1>4, <2>3 DEF Applied, Policy!Rescale, NoPressure
    <3>2. Allowed(pressure[worker.app], calm[worker.app], replicas[worker.app], worker.to)
      BY <1>4, <2>3 DEF PolicyInv, WorkerInv, Applied, Granted
    <3>3. Policy!Next BY <2>1, <3>1, <3>2, AllowedPolicy DEF PolicyInv
    <3> QED BY <1>2, <3>3
  <2> QED BY <2>2, <2>3
<1> QED BY <1>3, <1>4 DEF Crash

(* Everybody else: the Deployment under update is no longer current. *)
LEMMA OutsidePolicy ==
  ASSUME PolicyInv, NEW a \in Apps, ScaleOutside(a) \/ TouchDeployment(a)
  PROVE  LogicInv' /\ WorkerInv' /\ [Policy!Next]_(Policy!vars)
<1> USE DEF PolicyInv
<1>1. UNCHANGED <<logic, calm, pressure>> BY DEF ScaleOutside, TouchDeployment, history
<1>2. LogicInv' BY <1>1 DEF LogicInv
<1>3. \A b \in Apps \ {a} : replicas'[b] = replicas[b]
  BY DEF ScaleOutside, TouchDeployment, TypeOK
<1>4. WorkerInv'
  <2>1. CASE worker # Idle /\ worker.app = a
    <3>1. worker' = [worker EXCEPT !.current = FALSE] /\ worker \in Writing
      BY <2>1 DEF ScaleOutside, TouchDeployment, Outdated, TypeOK
    <3>2. worker'.current = FALSE /\ worker'.app = worker.app /\ worker'.sla = worker.sla
      BY <3>1 DEF Writing
    <3> QED BY <2>1, <3>2 DEF WorkerInv
  <2>2. CASE ~(worker # Idle /\ worker.app = a)
    <3>1. worker' = worker BY <2>2 DEF ScaleOutside, TouchDeployment, Outdated
    <3>2. worker # Idle => worker.app \in Apps \ {a} BY <2>2 DEF TypeOK, Writing
    <3> QED BY <1>1, <1>3, <3>1, <3>2 DEF WorkerInv
  <2> QED BY <2>1, <2>2
<1>5. CASE ScaleOutside(a)
  <2>1. PICK n \in Sizes \ {replicas[a]} : replicas' = [replicas EXCEPT ![a] = n]
    BY <1>5 DEF ScaleOutside
  <2>2. replicas'[a] = n /\ n \in Nat BY <2>1, BoundsAssumption DEF TypeOK
  <2>3. replicas' = [replicas EXCEPT ![a] = replicas'[a]] BY <2>1, <2>2
  <2>4. Policy!ScaleOutside(a) BY <1>5, <1>1, <2>2, <2>3 DEF ScaleOutside, Policy!ScaleOutside
  <2> QED BY <1>2, <1>4, <2>4 DEF Policy!Next
<1>6. CASE TouchDeployment(a)
  BY <1>2, <1>4, <1>6 DEF TouchDeployment, history, Policy!vars
<1> QED BY <1>5, <1>6

(* All clocks advance together. *)
LogicAfter(l)    == [l EXCEPT !.since = Older(@), !.stable = Older(@)]
PressureAfter(p) == IF p = NoPressure THEN NoPressure ELSE [p EXCEPT !.age = Older(@)]

LEMMA RemembersLonger ==
  ASSUME NEW l \in CustomLogic, NEW p \in Pressures, NEW c \in Ages, Remembers(l, p, c)
  PROVE  Remembers(LogicAfter(l), PressureAfter(p), Older(c))
<1> DEFINE m == LogicAfter(l)
           q == PressureAfter(p)
<1>1. m.state = l.state /\ m.since = Older(l.since) /\ m.stable = Older(l.stable)
  BY DEF CustomLogic, LogicAfter
<1>2. /\ l.since \in 0..LongAgo /\ l.stable \in 0..LongAgo /\ c \in 0..LongAgo /\ p.age \in 0..LongAgo
      /\ LongAgo \in Nat /\ CallTime \in Nat /\ StabilizePeriod \in Nat
  BY AgeFacts, PeriodAssumption DEF CustomLogic, Pressures, Ages
<1>3. \A x \in 0..LongAgo : Older(x) = IF x + 1 <= LongAgo THEN x + 1 ELSE LongAgo
  BY <1>2, AgeFacts DEF Older, Policy!Older, LongAgo, Policy!Smaller, Smaller
<1>4. p.direction # "none" => q.direction = p.direction /\ q.age = Older(p.age)
  BY DEF NoPressure, Policy!NoPressure, Pressures, PressureAfter
<1> HIDE DEF m, q
<1>5. \A x, y \in 0..LongAgo : x >= y => Older(x) >= Older(y) BY <1>2, <1>3
<1>6. ASSUME NEW state \in {"scaling_up", "scaling_down"}, NEW direction \in {"up", "down"},
             Follows(l, p, state, direction)
      PROVE  Follows(m, q, state, direction)
  BY <1>1, <1>2, <1>4, <1>5, <1>6 DEF Follows
<1>7. l.state # "steady" => m.stable >= Smaller(LongAgo, StabilizePeriod + m.since)
  BY <1>1, <1>2, <1>3 DEF Remembers, Smaller
<1>8. Older(c) + CallTime >= m.stable BY <1>1, <1>2, <1>3 DEF Remembers
<1>9. Remembers(m, q, Older(c)) BY <1>1, <1>6, <1>7, <1>8 DEF Remembers
<1> QED BY <1>9 DEF m, q

LEMMA AllowedLonger ==
  ASSUME NEW p \in Pressures, NEW c \in Ages, NEW r \in Nat, NEW n \in Nat, Allowed(p, c, r, n)
  PROVE  Allowed(PressureAfter(p), Older(c), r, n)
<1> DEFINE q == PressureAfter(p)
<1>1. p.direction # "none" => q.direction = p.direction /\ q.age = Older(p.age)
  BY DEF NoPressure, Policy!NoPressure, Pressures, PressureAfter
<1>2. Older(p.age) >= p.age /\ Older(c) >= c /\ Older(p.age) \in Nat /\ Older(c) \in Nat
      /\ p.age \in Nat /\ c \in Nat
  BY AgeFacts DEF Pressures, Ages
<1> HIDE DEF q
<1>3. ASSUME NEW direction \in {"up", "down"}, Sufficient(p, c, direction)
      PROVE  Sufficient(q, Older(c), direction)
  BY <1>1, <1>2, <1>3, PeriodAssumption DEF Sufficient, Period
<1>4. Allowed(q, Older(c), r, n) BY <1>3 DEF Allowed
<1> QED BY <1>4 DEF q

LEMMA TickPolicy ==
  ASSUME PolicyInv, Tick
  PROVE  LogicInv' /\ WorkerInv' /\ [Policy!Next]_(Policy!vars)
<1> USE DEF PolicyInv
<1>1. /\ \A a \in Apps : /\ calm'[a] = Older(calm[a])
                         /\ pressure'[a] = PressureAfter(pressure[a])
                         /\ calm[a] \in Ages /\ pressure[a] \in Pressures
      /\ \A s \in SLAs : logic'[s] = IF logic[s] = None THEN None ELSE LogicAfter(logic[s])
      /\ UNCHANGED <<replicas, author>>
  BY DEF Tick, TypeOK, Pressures, LogicAfter, PressureAfter
<1>2. LogicInv'
  <2> SUFFICES ASSUME NEW s \in SLAs, logic'[s] # None, NEW a \in Covers[s]
               PROVE  Remembers(logic'[s], pressure'[a], calm'[a])
    BY DEF LogicInv
  <2>1. a \in Apps /\ logic[s] # None BY <1>1, CoverAssumption
  <2>2. logic[s] \in CustomLogic /\ Remembers(logic[s], pressure[a], calm[a])
    BY <2>1 DEF TypeOK, LogicInv
  <2> QED BY <1>1, <2>1, <2>2, RemembersLonger
<1>3. WorkerInv'
  <2>1. CASE worker = Idle BY <2>1 DEF Tick, WorkerInv
  <2>2. CASE worker # Idle
    <3> DEFINE s == worker.sla
               a == worker.app
    <3>1. worker \in Writing /\ worker' = [worker EXCEPT !.waited = @ + 1]
      BY <2>2 DEF Tick, TypeOK
    <3>2. /\ worker'.sla = s /\ worker'.app = a /\ worker'.to = worker.to
          /\ worker'.current = worker.current /\ worker'.waited = worker.waited + 1
          /\ s \in SLAs /\ a \in Apps /\ worker.to \in Nat /\ worker.waited \in Nat
      BY <3>1, PeriodAssumption DEF Writing
    <3>3. a \in Covers[s] BY <2>2 DEF WorkerInv
    <3>4. ASSUME Granted(worker, logic[s], pressure[a], calm[a], replicas[a])
          PROVE  Granted(worker', logic'[s], pressure'[a], calm'[a], replicas'[a])
      <4>1. Allowed(pressure'[a], calm'[a], replicas'[a], worker'.to)
        BY <1>1, <3>2, <3>4, AllowedLonger DEF Granted, TypeOK
      <4>2. ASSUME logic'[s] # None
            PROVE  logic'[s].state = "steady" /\ logic'[s].stable <= worker'.waited
        <5>1. logic[s] \in CustomLogic /\ logic[s] # None BY <1>1, <3>2, <4>2 DEF TypeOK
        <5>2. logic[s].state = "steady" /\ logic[s].stable <= worker.waited /\ logic[s].stable \in Ages
          BY <3>4, <5>1 DEF Granted, CustomLogic
        <5>3. logic'[s].state = logic[s].state /\ logic'[s].stable = Older(logic[s].stable)
          BY <1>1, <3>2, <5>1 DEF CustomLogic, LogicAfter
        <5>4. Older(logic[s].stable) <= logic[s].stable + 1 /\ Older(logic[s].stable) \in Nat
              /\ logic[s].stable \in Nat
          BY <5>2, AgeFacts DEF Ages
        <5> QED BY <3>2, <5>2, <5>3, <5>4
      <4> QED BY <4>1, <4>2 DEF Granted
    <3>5. worker.current => worker.to = replicas[a] \/ Granted(worker, logic[s], pressure[a], calm[a], replicas[a])
      BY <2>2 DEF WorkerInv
    <3> QED BY <1>1, <3>2, <3>3, <3>4, <3>5 DEF WorkerInv
  <2> QED BY <2>1, <2>2
<1>4. Policy!Tick BY DEF Tick, Policy!Tick, Older, NoPressure
<1> QED BY <1>2, <1>3, <1>4 DEF Policy!Next

LEMMA PolicyStep ==
  ASSUME PolicyInv, OneAppEach, [Next]_vars
  PROVE  PolicyInv' /\ [Policy!Next]_(Policy!vars)
<1>1. TypeOK' BY TypeStep DEF PolicyInv
<1> SUFFICES LogicInv' /\ WorkerInv' /\ [Policy!Next]_(Policy!vars) BY <1>1 DEF PolicyInv
<1>2. ASSUME UNCHANGED <<replicas, logic, worker, history>>
      PROVE  LogicInv' /\ WorkerInv' /\ [Policy!Next]_(Policy!vars)
  BY <1>2, SamePolicy DEF PolicyInv, history, Policy!vars
<1>3. CASE UNCHANGED vars BY <1>2, <1>3 DEF vars
<1>4. ASSUME NEW s \in SLAs, Enqueue(s) \/ ToggleSLA(s)
      PROVE  UNCHANGED <<replicas, logic, worker, history>>
  BY <1>4 DEF Enqueue, ToggleSLA
<1>5. ASSUME NEW s \in SLAs, HandleSLA(s)
      PROVE  LogicInv' /\ WorkerInv' /\ [Policy!Next]_(Policy!vars)
  BY <1>5, HandlePolicy
<1>6. CASE UpdateDeployment BY <1>6, UpdatePolicy
<1>7. CASE Crash BY <1>7, CrashPolicy
<1>8. CASE Restart BY <1>2, <1>8 DEF Restart
<1>9. ASSUME NEW a \in Apps, ScaleOutside(a) \/ TouchDeployment(a)
      PROVE  LogicInv' /\ WorkerInv' /\ [Policy!Next]_(Policy!vars)
  BY <1>9, OutsidePolicy
<1>10. CASE Tick BY <1>10, TickPolicy
<1> QED BY <1>2, <1>3, <1>4, <1>5, <1>6, <1>7, <1>8, <1>9, <1>10 DEF Next, WorkerStep

(* If every SLA has an application of its own, each application is judged  *)
(* by its own load and left to settle after the updater's own changes, in  *)
(* any number of crashes, conflicts and lost answers and for all periods   *)
(* and bounds (controller.go 130-235, logic.go 142-228).                   *)
THEOREM ImplementsPolicy ==
  ASSUME OneAppEach
  PROVE  Spec => PolicyImplemented
<1>1. Init => PolicyInv BY InitPolicy
<1>2. Init => Policy!Init
  <2>1. Init => replicas \in [Apps -> Nat] BY InitTyped DEF TypeOK
  <2> QED BY <2>1 DEF Init, Policy!Init, NoPressure, LongAgo
<1>3. PolicyInv /\ [Next]_vars => PolicyInv' /\ [Policy!Next]_(Policy!vars) BY PolicyStep
<1> QED BY <1>1, <1>2, <1>3, PTL DEF Spec, PolicyImplemented, Policy!Spec
=============================================================================
