------------------------ MODULE MCContentionManager ------------------------
(* Small nodes for ContentionManager: every message of up to MaxScales     *)
(* entries against every list of up to MaxPods Pods, Pod names distinct.   *)
EXTENDS ContentionManager, TLC

CONSTANTS MaxScales, MaxPods, Caps, Requests

Both(S) == [{"cpu", "memory"} -> S]
Distinct(list, name(_)) ==
  \A j, k \in DOMAIN list : j # k => name(list[j]) # name(list[k])
UpTo(n, S) == UNION {[1..k -> S] : k \in 0..n}

MCAmount == Caps \cup Requests
MCMessages ==
  {list \in UpTo(MaxScales, [pod : Pods, capped : Both(Caps)]) :
     Distinct(list, LAMBDA e : e.pod)}
MCPodLists ==
  {list \in UpTo(MaxPods, [name : Pods, requests : Both(Requests), guaranteed : BOOLEAN]) :
     Distinct(list, LAMBDA p : p.name)}

(* Pod names are only compared, so permuting them changes nothing. *)
PodSymmetry == Permutations(Pods)
=============================================================================
