---------------------- MODULE ContentionManagerProofs ----------------------
(***************************************************************************)
(* Theorems about ContentionManager, for every node, Pod list and message. *)
(* For the capacity: desired is the total of the capped amounts, every     *)
(* amount given is one the node may grant for that total, and such amounts *)
(* fit together (SharesFitAvailable, by induction over the entries).  For  *)
(* the accounting: untracked has reached the running total of the Pods the *)
(* message does not name, and dropping an entry changes that list only at  *)
(* the Pod the loop is at.                                                 *)
(***************************************************************************)
EXTENDS ContentionManager, AllotmentProofs, SequenceTheorems

----------------------------------------------------------------------------
(* Type correctness. *)

(* Taking an entry out of a list moves those behind it one place forward,   *)
(* and leaves a list of the same kind.                                     *)
LEMMA RemoveAtFacts ==
  ASSUME NEW S, NEW list \in Seq(S), NEW k \in 1..Len(list)
  PROVE  /\ RemoveAt(list, k) \in Seq(S)
         /\ Len(RemoveAt(list, k)) = Len(list) - 1
         /\ \A i \in 1..(Len(list) - 1) :
              RemoveAt(list, k)[i] = IF i < k THEN list[i] ELSE list[i + 1]
<1> DEFINE front == SubSeq(list, 1, k - 1)
<1> DEFINE back  == SubSeq(list, k + 1, Len(list))
<1>1. Len(list) \in Nat /\ k \in Nat /\ 1 <= k /\ k <= Len(list)
  OBVIOUS
<1>2. front \in Seq(S) /\ Len(front) = k - 1 /\ \A i \in 1..(k - 1) : front[i] = list[i]
  BY <1>1, SubSeqProperties
<1>3. back \in Seq(S) /\ Len(back) = Len(list) - k /\ \A i \in 1..(Len(list) - k) : back[i] = list[k + i]
  BY <1>1, SubSeqProperties
<1>4. RemoveAt(list, k) = front \o back
  BY DEF RemoveAt
<1> HIDE DEF front, back
<1>5. /\ front \o back \in Seq(S)
      /\ Len(front \o back) = Len(front) + Len(back)
      /\ \A i \in 1..Len(front) + Len(back) :
           (front \o back)[i] = IF i <= Len(front) THEN front[i] ELSE back[i - Len(front)]
  BY <1>2, <1>3, ConcatProperties
<1>6. Len(front \o back) = Len(list) - 1
  BY <1>1, <1>2, <1>3, <1>5
<1>7. ASSUME NEW i \in 1..(Len(list) - 1)
      PROVE  (front \o back)[i] = IF i < k THEN list[i] ELSE list[i + 1]
  <2>1. (front \o back)[i] = IF i <= k - 1 THEN front[i] ELSE back[i - (k - 1)]
    BY <1>1, <1>2, <1>3, <1>5
  <2>2. CASE i < k
    <3>1. i \in 1..(k - 1)
      BY <1>1, <2>2
    <3> QED BY <1>2, <2>1, <2>2, <3>1
  <2>3. CASE i >= k
    <3> DEFINE j == i - (k - 1)
    <3>1. j \in 1..(Len(list) - k) /\ k + j = i + 1 /\ ~(i <= k - 1) /\ ~(i < k)
      BY <1>1, <2>3
    <3>2. back[j] = list[k + j]
      BY <1>3, <3>1
    <3>3. (front \o back)[i] = back[j]
      BY <2>1, <3>1
    <3> QED BY <3>1, <3>2, <3>3
  <2>4. i < k \/ i >= k
    BY <1>1
  <2> QED BY <2>2, <2>3, <2>4
<1> QED BY <1>4, <1>5, <1>6, <1>7

(* In particular it stays a list of such entries. *)
LEMMA RemoveAtType ==
  ASSUME NEW S, NEW list \in Seq(S), NEW k \in DOMAIN list
  PROVE  RemoveAt(list, k) \in Seq(S)
BY RemoveAtFacts, k \in 1..Len(list)

(* Sums of natural amounts are natural amounts. *)
LEMMA PlusType ==
  ASSUME NEW f \in [Resources -> Nat], NEW g \in [Resources -> Nat]
  PROVE  Plus(f, g) \in [Resources -> Nat]
BY DEF Plus

(* Requests and capped amounts are natural numbers. *)
LEMMA QuantitiesNat == ASSUME NEW q \in Quantities PROVE q \in [Resources -> Nat]
<1>1. q \in [Resources -> Amount]
  BY DEF Quantities
<1>2. Amount \subseteq Nat
  BY AmountAssumption
<1>3. \A r \in Resources : q[r] \in Nat
  BY <1>1, <1>2
<1> QED
  BY <1>1, <1>3

(* The capped amount of an entry of the message is a natural number. *)
LEMMA EntryType ==
  ASSUME TypeOK, NEW k \in 1..Len(scales), NEW r \in Resources
  PROVE  scales[k].capped[r] \in Nat
<1>1. scales[k] \in Entry
  BY DEF TypeOK
<1>2. scales[k].capped \in Quantities
  BY <1>1 DEF Entry
<1> QED
  BY <1>2, QuantitiesNat

(* Which loop has run decides how much of the solution exists. *)
Progress ==
  /\ pc = "untracked" => next <= Len(podList) + 1
  /\ pc \in {"untracked", "nil", "panic"} => desired = Zero
  /\ pc \notin {"share", "done"} => actual = <<>>
  /\ \A r \in Resources : capacity[r] < Precision
  /\ pc \in {"total", "share", "done"} => next <= Len(scales) + 1
  /\ pc \in {"share", "done"} => Len(actual) = next - 1
  /\ pc = "done" => next = Len(scales) + 1

TypeInv == TypeOK /\ Progress

(* The type invariant holds before the first Pod is looked at. *)
LEMMA InitTypeInv == Init => TypeInv
<1> SUFFICES ASSUME Init PROVE TypeInv
  OBVIOUS
<1> USE DEF Init
<1>1. podList \in Seq(PodInfo) /\ scales \in Seq(Entry)
  BY PodListsAssumption, MessagesAssumption
<1>2. capacity \in [Resources -> Int] /\ \A r \in Resources : capacity[r] < Precision
  <2>1. \A r \in Resources : capacity[r] \in Capacities
    OBVIOUS
  <2>2. \A a \in Capacities : a \in Nat /\ a < Precision
    BY CapacityAssumption
  <2>3. capacity = [r \in Resources |-> capacity[r]]
    OBVIOUS
  <2>4. \A r \in Resources : capacity[r] \in Int /\ capacity[r] < Precision
    BY <2>1, <2>2
  <2> QED BY <2>3, <2>4
<1>3. Zero \in [Resources -> Nat]
  BY DEF Zero
<1> QED
  BY <1>1, <1>2, <1>3 DEF TypeInv, TypeOK, Progress, Amounts

(* Sharing appends a pair of amounts that the node may grant. *)
LEMMA ShareType ==
  ASSUME TypeInv, Share
  PROVE  \E given \in [Resources -> Nat] :
           /\ actual' = Append(actual, given)
           /\ \A r \in Resources :
                given[r] \in Grant(scales[next].capped[r], desired[r], capacity[r])
<1> USE DEF TypeInv, TypeOK
<1>1. /\ next \in 1..Len(scales)
      /\ pc = "share"
      /\ capacity \in [Resources -> Nat]
      /\ desired \in [Resources -> Nat]
  BY DEF Share, Progress
<1>2. PICK c \in Grant(scales[next].capped["cpu"], desired["cpu"], capacity["cpu"]),
           m \in Grant(scales[next].capped["memory"], desired["memory"], capacity["memory"]) :
        actual' = Append(actual, [r \in Resources |-> IF r = "cpu" THEN c ELSE m])
  BY DEF Share
<1> DEFINE given == [r \in Resources |-> IF r = "cpu" THEN c ELSE m]
<1>3. \A r \in Resources :
        given[r] \in Grant(scales[next].capped[r], desired[r], capacity[r])
  BY <1>2 DEF Resources
<1>4. ASSUME NEW r \in Resources PROVE given[r] \in Nat
  <2>1. scales[next].capped[r] \in Nat
    BY <1>1, EntryType
  <2>2. desired[r] \in Nat /\ capacity[r] \in Nat
    BY <1>1
  <2>3. given[r] \in Grant(scales[next].capped[r], desired[r], capacity[r])
    BY <1>3
  <2> HIDE DEF given
  <2> QED
    BY <2>1, <2>2, <2>3, GrantType
<1>5. given \in [Resources -> Nat]
  BY <1>4
<1> QED
  BY <1>2, <1>3, <1>5

(* Every statement keeps the types and the progress of the loops. *)
LEMMA NextTypeInv == TypeInv /\ [Next]_vars => TypeInv'
<1> SUFFICES ASSUME TypeInv, [Next]_vars PROVE TypeInv'
  OBVIOUS
<1> USE DEF TypeInv, TypeOK
<1>1. CASE SkipTracked
  BY <1>1 DEF SkipTracked, Progress, solution
<1>2. CASE CountUntracked
  <2>1. podList[next] \in PodInfo
    BY <1>2 DEF CountUntracked
  <2>2. podList[next].requests \in Quantities
    BY <2>1 DEF PodInfo
  <2>3. podList[next].requests \in [Resources -> Nat]
    BY <2>2, QuantitiesNat
  <2>4. untracked' \in [Resources -> Nat]
    BY <1>2, <2>3, PlusType DEF CountUntracked
  <2> QED
    BY <1>2, <2>4 DEF CountUntracked, Progress, solution
<1>3. CASE RemoveNotGuaranteed
  <2>1. podList[next] \in PodInfo
    BY <1>3 DEF RemoveNotGuaranteed
  <2>2. podList[next].requests \in Quantities
    BY <2>1 DEF PodInfo
  <2>3. podList[next].requests \in [Resources -> Nat]
    BY <2>2, QuantitiesNat
  <2>4. untracked' \in [Resources -> Nat]
    BY <1>3, <2>3, PlusType DEF RemoveNotGuaranteed
  <2>5. scales' \in Seq(Entry)
    BY <1>3, RemoveAtType DEF RemoveNotGuaranteed
  <2> QED
    BY <1>3, <2>4, <2>5 DEF RemoveNotGuaranteed, Progress, solution
<1>4. CASE ComputeAllocatable
  <2>1. /\ capacity' \in [Resources -> Int]
        /\ \A r \in Resources : capacity'[r] < Precision
    <3>1. capacity' = [r \in Resources |-> capacity[r] - untracked[r]]
      BY <1>4 DEF ComputeAllocatable, Minus
    <3>2. \A r \in Resources : /\ capacity[r] \in Int /\ untracked[r] \in Nat
                              /\ capacity[r] < Precision
      BY DEF Amounts, Progress
    <3> QED BY <3>1, <3>2, PrecisionAssumption
  <2>2. pc' = "total" => capacity' \in [Resources -> Nat]
    <3>1. pc' = "total" => \A r \in Resources : ~ (capacity'[r] < 0)
      BY <1>4 DEF ComputeAllocatable
    <3> QED
      BY <2>1, <3>1
  <2> QED
    BY <1>4, <2>1, <2>2 DEF ComputeAllocatable, Progress, solution, Amounts
<1>5. CASE AddDesired
  <2>1. scales[next].capped \in [Resources -> Nat]
    <3>1. scales[next] \in Entry
      BY <1>5 DEF AddDesired
    <3>2. scales[next].capped \in Quantities
      BY <3>1 DEF Entry
    <3> QED
      BY <3>2, QuantitiesNat
  <2>2. desired' \in [Resources -> Nat]
    BY <1>5, <2>1, PlusType DEF AddDesired
  <2> QED
    BY <1>5, <2>2 DEF AddDesired, Progress
<1>6. CASE StartSharing
  BY <1>6 DEF StartSharing, Progress, solution
<1>7. CASE Share
  <2>1. PICK given \in [Resources -> Nat] : actual' = Append(actual, given)
    BY <1>7, ShareType
  <2>2. pc = "share" /\ next \in 1..Len(scales) /\ Len(actual) = next - 1
    BY <1>7 DEF Share, Progress
  <2>3. /\ pc' = pc /\ next' = next + 1
        /\ UNCHANGED <<podList, capacity, scales, untracked, desired>>
    BY <1>7 DEF Share
  <2>4. actual' \in Seq([Resources -> Nat]) /\ Len(actual') = next
    BY <2>1, <2>2
  <2>5. TypeOK'
    BY <2>2, <2>3, <2>4
  <2>6. Progress'
    BY <2>2, <2>3, <2>4 DEF Progress
  <2> QED
    BY <2>5, <2>6
<1>8. CASE Return
  <2>1. /\ pc = "share" /\ pc' = "done" /\ ~(next <= Len(scales))
        /\ UNCHANGED <<podList, capacity, scales, next, untracked, desired, actual>>
    BY <1>8 DEF Return, solution
  <2>2. TypeOK'
    BY <2>1
  <2>3. Progress'
    BY <2>1 DEF Progress
  <2> QED
    BY <2>2, <2>3
<1>9. CASE SolveOnNil
  BY <1>9 DEF SolveOnNil, Progress, solution
<1>10. CASE UNCHANGED vars
  BY <1>10 DEF vars, solution, Progress
<1> QED
  BY <1>1, <1>2, <1>3, <1>4, <1>5, <1>6, <1>7, <1>8, <1>9, <1>10 DEF Next

(* The variables keep their types: amounts stay natural numbers, and a      *)
(* manager that goes on to solve has a non-negative allocatable amount.     *)
THEOREM TypeCorrect == Spec => []TypeOK
<1>1. TypeInv => TypeOK
  BY DEF TypeInv
<1> QED
  BY <1>1, InitTypeInv, NextTypeInv, PTL DEF Spec

----------------------------------------------------------------------------
(* The capacity bound. *)

CappedOf(r) == [k \in DOMAIN scales |-> scales[k].capped[r]]

(* desired is the total of the entries seen so far, and every amount given  *)
(* is one the node may grant when the message asks for that total.         *)
Totalled ==
  \A r \in Resources :
    /\ pc = "total" => desired[r] = RunningTotal(CappedOf(r))[next - 1]
    /\ pc \in {"share", "done"} => desired[r] = Total(CappedOf(r))

Granted ==
  \A k \in DOMAIN actual, r \in Resources :
    actual[k][r] \in Grant(scales[k].capped[r], desired[r], capacity[r])

IInv == TypeInv /\ Totalled /\ Granted

(* The capped amounts of one resource form a sequence of natural numbers. *)
LEMMA CappedOfType ==
  ASSUME TypeOK, NEW r \in Resources
  PROVE  CappedOf(r) \in Seq(Nat) /\ Len(CappedOf(r)) = Len(scales)
<1>1. DOMAIN scales = 1..Len(scales) /\ Len(scales) \in Nat
  BY DEF TypeOK
<1>2. \A k \in 1..Len(scales) : scales[k].capped[r] \in Nat
  BY EntryType
<1> QED
  BY <1>1, <1>2 DEF CappedOf

(* Nothing is totalled or shared at the start. *)
LEMMA InitIInv == Init => IInv
BY InitTypeInv DEF Init, IInv, Totalled, Granted

(* Every statement keeps the totals right and gives what may be granted. *)
LEMMA NextIInv == IInv /\ [Next]_vars => IInv'
<1> SUFFICES ASSUME IInv, [Next]_vars PROVE IInv'
  OBVIOUS
<1> USE DEF IInv
<1>0. TypeInv'
  BY NextTypeInv
<1>a. TypeOK /\ TypeOK' /\ Progress /\ Progress'
  BY <1>0 DEF TypeInv
<1>1. ASSUME pc' \notin {"total", "share", "done"} PROVE Totalled' /\ Granted'
  BY <1>1, <1>a DEF Progress, Totalled, Granted
<1>2. CASE SkipTracked \/ CountUntracked \/ RemoveNotGuaranteed \/ SolveOnNil
  BY <1>0, <1>1, <1>2 DEF SkipTracked, CountUntracked, RemoveNotGuaranteed, SolveOnNil
<1>3. CASE ComputeAllocatable
  <2>1. /\ next' = 1 /\ pc' \in {"nil", "total"} /\ scales' = scales
        /\ desired' = desired /\ desired = Zero /\ actual' = <<>>
    BY <1>3, <1>a DEF ComputeAllocatable, solution, Progress
  <2>2. ASSUME NEW r \in Resources PROVE RunningTotal(CappedOf(r))[0] = 0
    BY <1>a, CappedOfType, RunningTotalFacts
  <2>3. Totalled'
    BY <2>1, <2>2 DEF Totalled, CappedOf, Zero
  <2> QED
    BY <1>0, <2>1, <2>3 DEF Granted
<1>4. CASE AddDesired
  <2>1. /\ pc = "total" /\ pc' = "total" /\ next \in 1..Len(scales) /\ next' = next + 1
        /\ scales' = scales /\ actual = <<>> /\ actual' = <<>>
        /\ desired' = Plus(desired, scales[next].capped)
    BY <1>4, <1>a DEF AddDesired, Progress, TypeOK
  <2>2. ASSUME NEW r \in Resources
        PROVE  desired'[r] = RunningTotal(CappedOf(r))[next]
    <3>1. desired'[r] = desired[r] + scales[next].capped[r]
      BY <2>1 DEF Plus
    <3>2. CappedOf(r)[next] = scales[next].capped[r]
      BY <1>a, <2>1 DEF CappedOf, TypeOK
    <3>3. desired[r] = RunningTotal(CappedOf(r))[next - 1]
      BY <2>1 DEF Totalled
    <3> QED
      BY <1>a, <2>1, <3>1, <3>2, <3>3, CappedOfType, RunningTotalFacts
  <2>3. (next + 1) - 1 = next
    BY <2>1
  <2>4. Totalled'
    BY <2>1, <2>2, <2>3 DEF Totalled, CappedOf
  <2> QED
    BY <1>0, <2>1, <2>4 DEF Granted
<1>5. CASE StartSharing
  <2>1. /\ pc = "total" /\ pc' = "share" /\ next = Len(scales) + 1
        /\ scales' = scales /\ desired' = desired /\ actual' = <<>>
    BY <1>5, <1>a DEF StartSharing, Progress, solution, TypeOK
  <2>2. ASSUME NEW r \in Resources PROVE desired[r] = Total(CappedOf(r))
    <3>1. next - 1 = Len(CappedOf(r))
      BY <1>a, <2>1, CappedOfType DEF TypeOK
    <3> QED
      BY <2>1, <3>1 DEF Totalled, Total
  <2>3. Totalled'
    BY <2>1, <2>2 DEF Totalled, CappedOf
  <2> QED
    BY <1>0, <2>1, <2>3 DEF Granted
<1>6. CASE Share
  <2>1. /\ pc = "share" /\ pc' = "share" /\ Len(actual) = next - 1
        /\ UNCHANGED <<scales, desired, capacity>>
    BY <1>6, <1>a DEF Share, Progress
  <2>2. PICK given \in [Resources -> Nat] :
          /\ actual' = Append(actual, given)
          /\ \A r \in Resources :
               given[r] \in Grant(scales[next].capped[r], desired[r], capacity[r])
    BY <1>6, ShareType
  <2>3. Totalled'
    BY <2>1 DEF Totalled, CappedOf
  <2>4. ASSUME NEW k \in DOMAIN actual', NEW r \in Resources
        PROVE  actual'[k][r] \in Grant(scales[k].capped[r], desired[r], capacity[r])
    <3>1. actual \in Seq([Resources -> Nat]) /\ next \in Nat
      BY <1>a DEF TypeOK
    <3>2. k \in 1..next /\ (k = next => actual'[k] = given)
          /\ (k # next => k \in DOMAIN actual /\ actual'[k] = actual[k])
      BY <2>1, <2>2, <3>1
    <3> QED
      BY <2>2, <3>2 DEF Granted
  <2>5. Granted'
    BY <2>1, <2>4 DEF Granted
  <2> QED
    BY <1>0, <2>3, <2>5
<1>7. CASE Return
  BY <1>0, <1>7 DEF Return, solution, Totalled, Granted, CappedOf
<1>8. CASE UNCHANGED vars
  BY <1>0, <1>8 DEF vars, solution, Totalled, Granted, CappedOf
<1> QED
  BY <1>2, <1>3, <1>4, <1>5, <1>6, <1>7, <1>8 DEF Next

(* What may be granted entry by entry fits as a whole, and a single amount  *)
(* differs from the capped one only if the node is short.                  *)
LEMMA IInvBounds == IInv => NeverOversubscribed /\ CutOnlyWhenShort
<1> SUFFICES ASSUME IInv PROVE NeverOversubscribed /\ CutOnlyWhenShort
  OBVIOUS
<1>1. TypeOK /\ Progress /\ Totalled /\ Granted
  BY DEF IInv, TypeInv
<1>2. actual \in Seq([Resources -> Nat]) /\ DOMAIN actual = 1..Len(actual) /\ Len(actual) \in Nat
  BY <1>1 DEF TypeOK
<1>3. ASSUME pc = "done", NEW r \in Resources
      PROVE  Total(Given(r)) <= capacity[r]
  <2>1. Given(r) \in Seq(Nat) /\ Len(Given(r)) = Len(actual)
    <3>1. \A k \in 1..Len(actual) : actual[k][r] \in Nat
      BY <1>2
    <3> QED
      BY <1>2, <3>1 DEF Given
  <2>2. CappedOf(r) \in Seq(Nat) /\ Len(CappedOf(r)) = Len(scales)
    BY <1>1, CappedOfType
  <2>3. /\ Len(actual) = Len(scales) /\ DOMAIN scales = 1..Len(scales)
        /\ capacity[r] \in Nat /\ capacity[r] < Precision
    BY <1>1, <1>3 DEF Progress, TypeOK
  <2>4. desired[r] = Total(CappedOf(r))
    BY <1>1, <1>3 DEF Totalled
  <2>5. ASSUME NEW k \in 1..Len(CappedOf(r))
        PROVE  Given(r)[k] \in Grant(CappedOf(r)[k], Total(CappedOf(r)), capacity[r])
    <3>1. k \in DOMAIN actual /\ k \in DOMAIN scales
      BY <1>2, <2>2, <2>3
    <3> QED
      BY <1>1, <2>4, <3>1 DEF Granted, Given, CappedOf
  <2> QED
    BY <2>1, <2>2, <2>3, <2>5, SharesFitAvailable
<1>4. ASSUME NEW k \in DOMAIN actual, NEW r \in Resources
      PROVE  /\ actual[k][r] <= scales[k].capped[r]
             /\ actual[k][r] < scales[k].capped[r] => desired[r] > capacity[r]
  <2>1. pc \in {"share", "done"}
    BY <1>1, <1>2 DEF Progress
  <2>2. /\ k \in 1..Len(scales) /\ desired[r] \in Nat
        /\ capacity[r] \in Nat /\ capacity[r] < Precision
    BY <1>1, <1>2, <2>1 DEF Progress, TypeOK
  <2>3. scales[k].capped[r] \in Nat
    BY <1>1, <2>2, EntryType
  <2>4. actual[k][r] \in Grant(scales[k].capped[r], desired[r], capacity[r])
    BY <1>1 DEF Granted
  <2> QED
    BY <2>2, <2>3, <2>4, GrantType
<1> QED
  BY <1>3, <1>4 DEF NeverOversubscribed, CutOnlyWhenShort

(* Whatever the message, the Pod list and the rounding, up or down, all     *)
(* entries together are given no more than the allocatable amount of the   *)
(* node, of each resource, provided Precision can tell that amount: in the *)
(* code, below 2^51 milli-units.                                           *)
THEOREM CapacityRespected == Spec => []NeverOversubscribed
BY InitIInv, NextIInv, IInvBounds, PTL DEF Spec

(* No entry is cut below, or raised above, its capped amount of a resource  *)
(* that the node has enough of.                                            *)
THEOREM NoNeedlessCut == Spec => []CutOnlyWhenShort
BY InitIInv, NextIInv, IInvBounds, PTL DEF Spec

----------------------------------------------------------------------------
(* Every Pod is accounted for once. *)

NamesDistinct ==
  /\ \A j, k \in DOMAIN podList : podList[j].name = podList[k].name => j = k
  /\ \A j, k \in DOMAIN scales : scales[j].pod = scales[k].pod => j = k

AccountInv ==
  /\ TypeInv
  /\ NamesDistinct
  /\ pc = "untracked" => \A r \in Resources : untracked[r] = RunningTotal(NotTracked(r))[next - 1]
  /\ EveryPodAccounted

(* The amounts a loop over the Pods adds up are natural numbers. *)
LEMMA NotTrackedType ==
  ASSUME TypeOK, NEW r \in Resources
  PROVE  NotTracked(r) \in Seq(Nat) /\ Len(NotTracked(r)) = Len(podList)
<1>1. podList \in Seq(PodInfo) /\ DOMAIN podList = 1..Len(podList) /\ Len(podList) \in Nat
  BY DEF TypeOK
<1>2. ASSUME NEW k \in 1..Len(podList) PROVE podList[k].requests[r] \in Nat
  <2>1. podList[k] \in PodInfo
    BY <1>1
  <2>2. podList[k].requests \in Quantities
    BY <2>1 DEF PodInfo
  <2> QED BY <2>2, QuantitiesNat
<1>3. \A k \in 1..Len(podList) :
        (IF Tracks(podList[k].name) THEN 0 ELSE podList[k].requests[r]) \in Nat
  BY <1>2
<1> QED BY <1>1, <1>3 DEF NotTracked

(* Without its only entry of that name, the message names the other Pods it *)
(* named before.                                                           *)
LEMMA TracksOthers ==
  ASSUME TypeOK, NamesDistinct, NEW name, NEW k \in DOMAIN scales, scales[k].pod = name,
         scales' = RemoveAt(scales, k)
  PROVE  /\ \A other : Tracks(other)' <=> Tracks(other) /\ other # name
         /\ \A i, j \in DOMAIN scales' : scales'[i].pod = scales'[j].pod => i = j
<1> DEFINE n == Len(scales)
<1>1. scales \in Seq(Entry) /\ DOMAIN scales = 1..n /\ n \in Nat /\ k \in 1..n
  BY DEF TypeOK
<1>2. /\ scales' \in Seq(Entry) /\ Len(scales') = n - 1
      /\ \A i \in 1..(n - 1) : scales'[i] = IF i < k THEN scales[i] ELSE scales[i + 1]
  BY <1>1, RemoveAtFacts
<1> HIDE DEF n
<1>3. DOMAIN scales' = 1..(n - 1)
  BY <1>1, <1>2
<1>4. \A i, j \in 1..n : scales[i].pod = scales[j].pod => i = j
  BY <1>1 DEF NamesDistinct
<1>5. ASSUME NEW other PROVE Tracks(other)' <=> Tracks(other) /\ other # name
  <2>1. ASSUME Tracks(other)' PROVE Tracks(other) /\ other # name
    <3>1. PICK i \in 1..(n - 1) : scales'[i].pod = other
      BY <1>3, <2>1 DEF Tracks
    <3>2. i \in 1..n /\ i + 1 \in 1..n /\ i + 1 # i
      BY <1>1
    <3>3. scales'[i] = IF i < k THEN scales[i] ELSE scales[i + 1]
      BY <1>2
    <3>4. PICK j \in 1..n : j # k /\ scales'[i] = scales[j]
      <4>1. CASE i < k
        <5>1. i # k
          BY <1>1, <4>1
        <5> QED BY <3>2, <3>3, <4>1, <5>1
      <4>2. CASE ~(i < k)
        <5>1. i + 1 # k
          BY <1>1, <4>2
        <5> QED BY <3>2, <3>3, <4>2, <5>1
      <4> QED BY <4>1, <4>2
    <3> QED BY <1>1, <1>4, <3>1, <3>4 DEF Tracks
  <2>2. ASSUME Tracks(other), other # name PROVE Tracks(other)'
    <3>1. PICK j \in 1..n : scales[j].pod = other /\ j # k
      BY <1>1, <2>2 DEF Tracks
    <3>2. CASE j < k
      <4>1. j \in 1..(n - 1)
        BY <1>1, <3>2
      <4> QED BY <1>2, <1>3, <3>1, <3>2, <4>1 DEF Tracks
    <3>3. CASE j > k
      <4>1. j - 1 \in 1..(n - 1) /\ ~(j - 1 < k) /\ (j - 1) + 1 = j
        BY <1>1, <3>3
      <4> QED BY <1>2, <1>3, <3>1, <4>1 DEF Tracks
    <3> QED BY <1>1, <3>1, <3>2, <3>3
  <2> QED BY <2>1, <2>2
<1>6. ASSUME NEW i \in 1..(n - 1), NEW j \in 1..(n - 1), scales'[i].pod = scales'[j].pod
      PROVE  i = j
  <2> DEFINE at(x) == IF x < k THEN x ELSE x + 1
  <2>1. at(i) \in 1..n /\ at(j) \in 1..n
    BY <1>1
  <2>2. scales'[i] = scales[at(i)] /\ scales'[j] = scales[at(j)]
    BY <1>2
  <2>3. at(i) = at(j)
    BY <1>4, <1>6, <2>1, <2>2
  <2> QED BY <1>1, <2>3
<1> QED BY <1>3, <1>5, <1>6

(* One turn of the loop: the running total grows by what the Pod at next    *)
(* takes, provided the message still tracks the same Pods before it.       *)
LEMMA AccountStep ==
  ASSUME AccountInv, TypeOK', pc = "untracked", next \in 1..Len(podList), podList' = podList,
         NEW r \in Resources,
         \A k \in 1..(next - 1) : NotTracked(r)'[k] = NotTracked(r)[k]
  PROVE  RunningTotal(NotTracked(r)')[next] = untracked[r] + NotTracked(r)'[next]
<1>1. TypeOK /\ Len(podList) \in Nat /\ next \in Nat
  BY DEF AccountInv, TypeInv, TypeOK
<1>2. NotTracked(r) \in Seq(Nat) /\ Len(NotTracked(r)) = Len(podList)
  BY <1>1, NotTrackedType
<1>3. NotTracked(r)' \in Seq(Nat) /\ Len(NotTracked(r)') = Len(podList)
  <2>1. \A k \in DOMAIN podList : podList'[k] = podList[k]
    OBVIOUS
  <2>2. podList' \in Seq(PodInfo) /\ DOMAIN podList' = 1..Len(podList)
    BY <1>1 DEF TypeOK
  <2>3. ASSUME NEW k \in 1..Len(podList) PROVE podList[k].requests[r] \in Nat
    <3>1. podList[k] \in PodInfo
      BY <1>1 DEF TypeOK
    <3>2. podList[k].requests \in Quantities
      BY <3>1 DEF PodInfo
    <3> QED BY <3>2, QuantitiesNat
  <2>4. NotTracked(r)' = [k \in 1..Len(podList) |->
                            IF Tracks(podList[k].name)' THEN 0 ELSE podList[k].requests[r]]
    BY <2>2 DEF NotTracked
  <2> QED BY <1>1, <2>3, <2>4
<1> DEFINE before == NotTracked(r)
<1> DEFINE after == NotTracked(r)'
<1>4. untracked[r] = RunningTotal(before)[next - 1]
  BY DEF AccountInv
<1> HIDE DEF before, after
<1>5. next - 1 \in 0..Len(before) /\ next - 1 <= Len(after)
  BY <1>1, <1>2, <1>3 DEF before, after
<1>6. RunningTotal(before)[next - 1] = RunningTotal(after)[next - 1]
  BY <1>2, <1>3, <1>5, SamePrefix DEF before, after
<1>7. RunningTotal(after)[next] = RunningTotal(after)[next - 1] + after[next]
  BY <1>3, RunningTotalFacts DEF after
<1> QED BY <1>4, <1>6, <1>7 DEF after

(* Nothing is counted before the first Pod. *)
LEMMA InitAccountInv == Init => AccountInv
<1> SUFFICES ASSUME Init PROVE AccountInv
  OBVIOUS
<1>1. TypeInv /\ TypeOK
  BY InitTypeInv DEF TypeInv
<1>2. NamesDistinct
  BY NamesAssumption DEF Init, NamesDistinct
<1>3. ASSUME NEW r \in Resources PROVE untracked[r] = RunningTotal(NotTracked(r))[next - 1]
  <2>1. RunningTotal(NotTracked(r))[0] = 0
    BY <1>1, NotTrackedType, RunningTotalFacts
  <2> QED BY <2>1 DEF Init, Zero
<1> QED BY <1>1, <1>2, <1>3 DEF AccountInv, EveryPodAccounted, Init

(* Every statement keeps the account. *)
LEMMA NextAccountInv == AccountInv /\ [Next]_vars => AccountInv'
<1> SUFFICES ASSUME AccountInv, [Next]_vars PROVE AccountInv'
  OBVIOUS
<1>0. TypeInv' /\ TypeOK' /\ TypeInv /\ TypeOK /\ NamesDistinct
  BY NextTypeInv DEF AccountInv, TypeInv
<1>a. Len(podList) \in Nat /\ next \in Nat /\ next >= 1 /\ DOMAIN podList = 1..Len(podList)
  BY <1>0 DEF TypeOK
<1>1. CASE SkipTracked
  <2>1. /\ pc = "untracked" /\ pc' = "untracked" /\ next \in 1..Len(podList) /\ next' = next + 1
        /\ Tracks(podList[next].name)
        /\ UNCHANGED <<podList, scales, untracked>>
    BY <1>1, <1>a DEF SkipTracked
  <2>2. ASSUME NEW r \in Resources
        PROVE  untracked'[r] = RunningTotal(NotTracked(r)')[next' - 1]
    <3>1. NotTracked(r)' = NotTracked(r)
      BY <2>1 DEF NotTracked, Tracks
    <3>2. NotTracked(r)'[next] = 0
      BY <1>a, <2>1, <3>1 DEF NotTracked
    <3>3. RunningTotal(NotTracked(r)')[next] = untracked[r] + NotTracked(r)'[next]
      BY <1>0, <2>1, <3>1, AccountStep
    <3>4. untracked[r] \in Nat /\ next' - 1 = next
      BY <1>0, <1>a, <2>1 DEF TypeOK
    <3> QED BY <2>1, <3>2, <3>3, <3>4
  <2>3. NamesDistinct'
    BY <1>0, <2>1 DEF NamesDistinct
  <2> QED BY <1>0, <2>1, <2>2, <2>3 DEF AccountInv, EveryPodAccounted
<1>2. CASE CountUntracked
  <2>1. /\ pc = "untracked" /\ pc' = "untracked" /\ next \in 1..Len(podList) /\ next' = next + 1
        /\ ~Tracks(podList[next].name)
        /\ untracked' = Plus(untracked, podList[next].requests)
        /\ UNCHANGED <<podList, scales>>
    BY <1>2, <1>a DEF CountUntracked
  <2>2. ASSUME NEW r \in Resources
        PROVE  untracked'[r] = RunningTotal(NotTracked(r)')[next' - 1]
    <3>1. NotTracked(r)' = NotTracked(r)
      BY <2>1 DEF NotTracked, Tracks
    <3>2. NotTracked(r)'[next] = podList[next].requests[r]
      BY <1>a, <2>1, <3>1 DEF NotTracked
    <3>3. RunningTotal(NotTracked(r)')[next] = untracked[r] + NotTracked(r)'[next]
      BY <1>0, <2>1, <3>1, AccountStep
    <3>4. untracked'[r] = untracked[r] + podList[next].requests[r] /\ next' - 1 = next
      BY <1>a, <2>1 DEF Plus
    <3> QED BY <3>2, <3>3, <3>4
  <2>3. NamesDistinct'
    BY <1>0, <2>1 DEF NamesDistinct
  <2> QED BY <1>0, <2>1, <2>2, <2>3 DEF AccountInv, EveryPodAccounted
<1>3. CASE RemoveNotGuaranteed
  <2> DEFINE p == podList[next]
  <2>1. /\ pc = "untracked" /\ pc' = "untracked" /\ next \in 1..Len(podList) /\ next' = next + 1
        /\ untracked' = Plus(untracked, p.requests)
        /\ UNCHANGED podList
    BY <1>3, <1>a DEF RemoveNotGuaranteed
  <2>2. PICK k \in DOMAIN scales : scales[k].pod = p.name /\ scales' = RemoveAt(scales, k)
    BY <1>3 DEF RemoveNotGuaranteed
  <2>3. /\ \A other : Tracks(other)' <=> Tracks(other) /\ other # p.name
        /\ \A i, j \in DOMAIN scales' : scales'[i].pod = scales'[j].pod => i = j
    BY <1>0, <2>2, TracksOthers
  <2>4. ASSUME NEW j \in 1..Len(podList), j # next
        PROVE  Tracks(podList[j].name)' <=> Tracks(podList[j].name)
    <3>1. podList[j].name # podList[next].name
      BY <1>0, <1>a, <2>1, <2>4 DEF NamesDistinct
    <3>2. \A other : Tracks(other)' <=> Tracks(other) /\ other # p.name
      BY <2>3
    <3>3. podList'[j].name = podList[j].name
      BY <2>1
    <3> HIDE DEF p
    <3> QED BY <2>1, <2>3, <3>1, <3>3 DEF p, Tracks
  <2>5. ASSUME NEW r \in Resources
        PROVE  untracked'[r] = RunningTotal(NotTracked(r)')[next' - 1]
    <3>1. \A j \in 1..(next - 1) : NotTracked(r)'[j] = NotTracked(r)[j]
      BY <1>a, <2>1, <2>4 DEF NotTracked
    <3>2. NotTracked(r)'[next] = p.requests[r]
      BY <1>a, <2>1, <2>3 DEF NotTracked, Tracks
    <3>3. RunningTotal(NotTracked(r)')[next] = untracked[r] + NotTracked(r)'[next]
      BY <1>0, <2>1, <3>1, AccountStep
    <3>4. untracked'[r] = untracked[r] + p.requests[r] /\ next' - 1 = next
      BY <1>a, <2>1 DEF Plus
    <3> QED BY <3>2, <3>3, <3>4
  <2>6. NamesDistinct'
    BY <1>0, <2>1, <2>3 DEF NamesDistinct
  <2> QED BY <1>0, <2>1, <2>5, <2>6 DEF AccountInv, EveryPodAccounted
<1>4. CASE ComputeAllocatable
  <2>1. /\ pc = "untracked" /\ next > Len(podList) /\ pc' # "untracked"
        /\ UNCHANGED <<podList, scales, untracked>>
    BY <1>4 DEF ComputeAllocatable, solution
  <2>2. ASSUME NEW r \in Resources PROVE untracked'[r] = Total(NotTracked(r)')
    <3>1. Len(NotTracked(r)) = Len(podList)
      BY <1>0, NotTrackedType
    <3>2. next - 1 = Len(podList)
      BY <1>0, <1>a, <2>1 DEF TypeInv, Progress
    <3>3. NotTracked(r)' = NotTracked(r)
      BY <2>1 DEF NotTracked, Tracks
    <3> QED BY <2>1, <3>1, <3>2, <3>3 DEF AccountInv, Total
  <2>3. NamesDistinct'
    BY <1>0, <2>1 DEF NamesDistinct
  <2> QED BY <1>0, <2>1, <2>2, <2>3 DEF AccountInv, EveryPodAccounted
<1>5. ASSUME pc # "untracked", pc' # "untracked", UNCHANGED <<podList, scales, untracked>>
      PROVE  AccountInv'
  <2>1. \A r \in Resources : NotTracked(r)' = NotTracked(r)
    BY <1>5 DEF NotTracked, Tracks
  <2>2. EveryPodAccounted'
    BY <1>5, <2>1 DEF AccountInv, EveryPodAccounted
  <2>3. NamesDistinct'
    BY <1>0, <1>5 DEF NamesDistinct
  <2> QED BY <1>0, <1>5, <2>2, <2>3 DEF AccountInv
<1>6. CASE AddDesired
  BY <1>5, <1>6 DEF AddDesired
<1>7. CASE StartSharing
  BY <1>5, <1>7 DEF StartSharing
<1>8. CASE Share
  BY <1>5, <1>8 DEF Share
<1>9. CASE Return
  BY <1>5, <1>9 DEF Return
<1>10. CASE SolveOnNil
  BY <1>5, <1>10 DEF SolveOnNil
<1>11. CASE UNCHANGED vars
  <2>1. UNCHANGED <<pc, podList, scales, next, untracked>>
    BY <1>11 DEF vars
  <2>2. \A r \in Resources : NotTracked(r)' = NotTracked(r)
    BY <2>1 DEF NotTracked, Tracks
  <2>3. NamesDistinct'
    BY <1>0, <2>1 DEF NamesDistinct
  <2> QED BY <1>0, <2>1, <2>2, <2>3 DEF AccountInv, EveryPodAccounted
<1> QED
  BY <1>1, <1>2, <1>3, <1>4, <1>6, <1>7, <1>8, <1>9, <1>10, <1>11 DEF Next

(* When the allocatable amount is fixed, the untracked total is exactly     *)
(* what the Pods ask for that Solve will not decide about.                 *)
THEOREM AccountComplete == Spec => []EveryPodAccounted
<1>1. AccountInv => EveryPodAccounted
  BY DEF AccountInv
<1> QED BY <1>1, InitAccountInv, NextAccountInv, PTL DEF Spec
=============================================================================
