--------------------------- MODULE MetricsExposer ---------------------------
(***************************************************************************)
(* The metrics exposer (pkg/metrics-exposer) and the proxies it asks       *)
(* (pkg/http-metrics): a loop asks the proxy of each Pod for its window,   *)
(* keeps the answer in a cache, and averages the answers of a service; the *)
(* custom metrics API reads the cache at the same time.  Writer and        *)
(* readers of the map hold the same read lock.                             *)
(*                                                                         *)
(* The Pods are those of one service that have a PodScale.  Of the three   *)
(* metrics only the response time is ever read back; the request count is  *)
(* needed for the average; the throughput is left out.                     *)
(***************************************************************************)
EXTENDS Allotment

CONSTANTS
  Pods,
  Loads,      \* what each proxy's window may hold: [time, count]
  None

ASSUME LoadAssumption == \A p \in Pods : Loads[p] # {} /\ Loads[p] \subseteq [time : Nat, count : Nat]

VARIABLES
  load,       \* the window of each Pod's proxy, None if it does not answer
  cache,      \* provider.cache: the response time of each Pod
  service,    \* provider.cache: the response time of the service
  round,      \* where updateMetrics is
  readers,    \* the Pods whose metric the API is reading from the map
  serving     \* the exposer runs

exposer == <<cache, service, round, readers, serving>>

Resting == [at |-> "rest"]
Answer  == [time : Nat, count : Nat]
Round   ==
  {Resting}
  \cup [at : {"pods", "service"}, left : SUBSET Pods, got : Seq(Answer)]
  \cup [at : {"asked"}, left : SUBSET Pods, got : Seq(Answer), pod : Pods, time : Nat]
  \cup [at : {"write"}, left : SUBSET Pods, got : Seq(Answer), pod : Pods, answer : Answer]

----------------------------------------------------------------------------
(* The proxy. *)

(* AllMetrics: the average of an empty window is NaN, and NaN is sent as 0. *)
Average(window) == IF window.count = 0 THEN 0 ELSE window.time

----------------------------------------------------------------------------
(* updateMetrics, once a second. *)

StartRound ==
  /\ serving /\ round = Resting
  /\ round' = [at |-> "pods", left |-> Pods, got |-> <<>>]
  /\ UNCHANGED <<load, cache, service, readers, serving>>

(* The proxy reduces its window for the average and, later, for the count. *)
AskPod(p) ==
  /\ serving /\ round.at = "pods" /\ p \in round.left
  /\ load[p] # None
  /\ round' = [at |-> "asked", left |-> round.left \ {p}, got |-> round.got,
               pod |-> p, time |-> Average(load[p])]
  /\ UNCHANGED <<load, cache, service, readers, serving>>

(* No Pod, no answer, or none within 20 seconds: its last value stays.     *)
SkipPod(p) ==
  /\ serving /\ round.at = "pods" /\ p \in round.left
  /\ load[p] = None
  /\ round' = [round EXCEPT !.left = @ \ {p}]
  /\ UNCHANGED <<load, cache, service, readers, serving>>

AnswerPod ==
  /\ serving /\ round.at = "asked"
  /\ IF load[round.pod] = None
     THEN round' = [at |-> "pods", left |-> round.left, got |-> round.got]
     ELSE round' = [at |-> "write", left |-> round.left, got |-> round.got, pod |-> round.pod,
                    answer |-> [time |-> round.time, count |-> load[round.pod].count]]
  /\ UNCHANGED <<load, cache, service, readers, serving>>

(* The answer goes to the cache, and to the list of its service.           *)
WritePod ==
  /\ serving /\ round.at = "write"
  /\ cache' = [cache EXCEPT ![round.pod] = round.answer.time]
  /\ round' = [at |-> "pods", left |-> round.left, got |-> Append(round.got, round.answer)]
  /\ UNCHANGED <<load, service, readers, serving>>

FinishPods ==
  /\ serving /\ round.at = "pods" /\ round.left = {}
  /\ round' = IF round.got = <<>> THEN Resting ELSE [round EXCEPT !.at = "service"]
  /\ UNCHANGED <<load, cache, service, readers, serving>>

(* Variant: each Pod counts the same. *)
UnweightedAverage(got) == Total([k \in DOMAIN got |-> got[k].time]) \div Len(got)

(* The response times of the Pods that answered, weighted by their         *)
(* requests; 0 if there were none.                                         *)
WeightedAverage(got) ==
  LET requests == Total([k \in DOMAIN got |-> got[k].count])
      times    == Total([k \in DOMAIN got |-> got[k].time * got[k].count])
  IN  IF requests = 0 THEN 0 ELSE times \div requests

WriteService ==
  /\ serving /\ round.at = "service"
  /\ service' = WeightedAverage(round.got)
  /\ round' = Resting
  /\ UNCHANGED <<load, cache, readers, serving>>

----------------------------------------------------------------------------
(* GetMetricByName. *)

BeginRead(p) ==
  /\ serving /\ p \notin readers
  /\ readers' = readers \cup {p}
  /\ UNCHANGED <<load, cache, service, round, serving>>

(* valueFor: what is not in the cache is an error. *)
EndRead(p) ==
  /\ serving /\ p \in readers
  /\ readers' = readers \ {p}
  /\ UNCHANGED <<load, cache, service, round, serving>>

(* The process ends, for any reason or because the Go runtime found the    *)
(* map written while it was read; the cache is lost.                       *)
Die ==
  /\ serving' = FALSE
  /\ cache' = [p \in Pods |-> None]
  /\ service' = None
  /\ round' = Resting
  /\ readers' = {}
  /\ UNCHANGED load

MapRace == serving /\ round.at \in {"write", "service"} /\ readers # {} /\ Die

Serve ==
  /\ ~serving
  /\ serving' = TRUE
  /\ UNCHANGED <<load, cache, service, round, readers>>

----------------------------------------------------------------------------
(* The load of a Pod changes, or whether its proxy answers. *)
ChangeLoad(p) ==
  /\ \E new \in (Loads[p] \cup {None}) \ {load[p]} : load' = [load EXCEPT ![p] = new]
  /\ UNCHANGED exposer

ExposerInit ==
  /\ load \in [Pods -> UNION {Loads[p] : p \in Pods}]
  /\ \A p \in Pods : load[p] \in Loads[p]
  /\ cache = [p \in Pods |-> None]
  /\ service = None
  /\ round = Resting
  /\ readers = {}
  /\ serving = TRUE

RoundStep ==
  \/ StartRound \/ AnswerPod \/ WritePod \/ FinishPods \/ WriteService
  \/ \E p \in Pods : AskPod(p) \/ SkipPod(p)

ExposerTypeOK ==
  /\ \A p \in Pods : load[p] \in Loads[p] \cup {None}
  /\ cache \in [Pods -> Nat \cup {None}]
  /\ service \in Nat \cup {None}
  /\ round \in Round
  /\ readers \subseteq Pods
  /\ serving \in BOOLEAN
=============================================================================
