--------------------------- MODULE AllotmentProofs --------------------------
(***************************************************************************)
(* Lemmas about Allotment and Sharing: the arithmetic of one share, and    *)
(* the totals of arbitrarily many.  Totals are recursive, so induction     *)
(* over the natural numbers comes first.                                   *)
(***************************************************************************)
EXTENDS Sharing, FiniteSets, FiniteSetTheorems, FunctionTheorems, TLAPS

----------------------------------------------------------------------------
(* Induction, for a set instead of a predicate. *)

(* A set that contains 0 and is closed under successor contains every       *)
(* number: were n missing, x + 1 would map the members up to n one-to-one   *)
(* into those other than 0, which are fewer.                               *)
LEMMA SetInduction ==
  ASSUME NEW S, 0 \in S, \A n \in Nat : n \in S => n + 1 \in S
  PROVE  Nat \subseteq S
<1>1. SUFFICES ASSUME NEW n \in Nat, n \notin S PROVE FALSE
  OBVIOUS
<1> DEFINE T == S \cap (0..n)
<1> DEFINE U == T \ {0}
<1> DEFINE f == [x \in T |-> x + 1]
<1>2. IsFiniteSet(0..n)
  BY FS_Interval
<1>3. IsFiniteSet(T)
  BY <1>2, FS_Subset, T \in SUBSET (0..n)
<1>4. 0 \in T
  OBVIOUS
<1>5. IsFiniteSet(U) /\ Cardinality(U) = Cardinality(T) - 1
  BY <1>3, <1>4, FS_RemoveElement
<1>6. f \in [T -> U]
  <2>1. SUFFICES ASSUME NEW x \in T PROVE x + 1 \in U
    OBVIOUS
  <2>2. x \in Nat /\ x <= n /\ x # n /\ x \in S
    BY <1>1
  <2>3. x + 1 \in S /\ x + 1 \in 0..n /\ x + 1 # 0
    BY <2>2
  <2> QED BY <2>3
<1>7. \A x, y \in T : f[x] = f[y] => x = y
  <2>1. T \subseteq Nat
    OBVIOUS
  <2> QED BY <2>1
<1>8. f \in Injection(T, U)
  BY <1>6, <1>7 DEF Injection, IsInjective
<1>9. Cardinality(T) <= Cardinality(U)
  BY <1>5, <1>8, FS_Injection
<1>10. Cardinality(T) \in Nat
  BY <1>3, FS_CardinalityType
<1> QED BY <1>5, <1>9, <1>10

----------------------------------------------------------------------------
(* One share. *)

(* A product with a common positive factor is ordered as its other factor. *)
LEMMA CancelFactor ==
  ASSUME NEW x \in Int, NEW y \in Int, NEW t \in Int, t > 0, x * t <= y * t
  PROVE  x <= y
<1>1. SUFFICES ASSUME x > y PROVE FALSE
  OBVIOUS
<1>2. x >= y + 1
  BY <1>1
<1>3. x * t >= (y + 1) * t
  BY <1>2
<1>4. (y + 1) * t = y * t + t
  OBVIOUS
<1> QED
  BY <1>3, <1>4

(* A proportional share is a natural number that exceeds the exact share by *)
(* at most one part in Precision, and so never the desired amount when the *)
(* node is short of an amount that Precision can tell.                     *)
LEMMA ProportionalBound ==
  ASSUME NEW d \in Nat, NEW t \in Nat, NEW a \in Nat,
         NEW g \in Proportional(d, t, a)
  PROVE  /\ g \in Nat
         /\ (g * t) * Precision <= (d * a) * (Precision + 1)
         /\ a < t /\ a < Precision => g <= d
<1>1. /\ g \in Int /\ g >= 0
      /\ (g * t) * Precision <= (d * a) * (Precision + 1)
  <2>1. /\ g \in (((d * a) \div t) - 1)..(((d * a) \div t) + 1)
        /\ g >= 0 /\ g * t * Precision <= (d * a) * (Precision + 1)
    BY DEF Proportional
  <2> QED BY <2>1
<1>2. ASSUME a < t, a < Precision PROVE g <= d
  <2> DEFINE P == Precision
  <2>1. P \in Nat
    BY PrecisionAssumption
  <2>2. SUFFICES ASSUME g >= d + 1 PROVE FALSE
    BY <1>1
  <2> HIDE DEF P
  <2>3. a * (P + 1) < (a + 1) * P
    <3>1. a * (P + 1) = a * P + a /\ (a + 1) * P = a * P + P
      BY <2>1
    <3>2. a < P
      BY <1>2 DEF P
    <3>3. PICK m \in Int : m = a * P
      BY <2>1
    <3> QED BY <2>1, <3>1, <3>2, <3>3
  <2>4. d * (a * (P + 1)) <= d * ((a + 1) * P)
    <3>1. PICK x \in Int, y \in Int : x = a * (P + 1) /\ y = (a + 1) * P
      BY <2>1
    <3>2. x <= y
      BY <2>3, <3>1
    <3>3. d * x <= d * y
      BY <3>2
    <3> QED BY <3>1, <3>3
  <2>5. (d * (a + 1)) * P <= (d * t) * P
    <3>1. d * (a + 1) <= d * t
      BY <1>2
    <3>2. PICK x \in Int, y \in Int : x = d * (a + 1) /\ y = d * t
      OBVIOUS
    <3>3. x * P <= y * P
      BY <2>1, <3>1, <3>2
    <3> QED BY <3>2, <3>3
  <2>6. (d * t) * P + t * P <= (g * t) * P
    <3>1. (d + 1) * t <= g * t /\ (d + 1) * t = d * t + t
      BY <1>1, <2>2
    <3>2. PICK x \in Int, y \in Int : x = d * t /\ y = g * t
      BY <1>1
    <3>3. (x + t) * P <= y * P /\ (x + t) * P = x * P + t * P
      BY <2>1, <3>1, <3>2
    <3> QED BY <3>2, <3>3
  <2>7. t * P > 0
    BY <1>2, <2>1 DEF P
  <2>8. (g * t) * P <= (d * a) * (P + 1)
    BY <1>1 DEF P
  <2>9. (d * a) * (P + 1) = d * (a * (P + 1)) /\ d * ((a + 1) * P) = (d * (a + 1)) * P
    BY <2>1
  <2>10. /\ (d * a) * (P + 1) \in Int /\ (d * t) * P \in Int /\ t * P \in Int /\ (g * t) * P \in Int
         /\ (d * (a + 1)) * P \in Int
    BY <1>1, <2>1
  <2>11. (d * a) * (P + 1) <= (d * (a + 1)) * P
    BY <2>4, <2>9
  <2> HIDE DEF P
  <2> QED BY <2>5, <2>6, <2>7, <2>8, <2>10, <2>11
<1> QED BY <1>1, <1>2

(* Whatever a node has, what it grants is a natural number that does not   *)
(* exceed the capped amount, nor differs from it unless the node is short. *)
LEMMA GrantType ==
  ASSUME NEW d \in Nat, NEW t \in Nat, NEW a \in Nat, NEW g \in Grant(d, t, a)
  PROVE  /\ g \in Nat
         /\ a < Precision => g <= d
         /\ t <= a => g = d
         /\ t > a => (g * t) * Precision <= (d * a) * (Precision + 1)
<1>1. CASE t > a
  <2>1. g \in Proportional(d, t, a)
    BY <1>1 DEF Grant
  <2> QED
    BY <1>1, <2>1, ProportionalBound
<1>2. CASE t <= a
  BY <1>2 DEF Grant
<1> QED
  BY <1>1, <1>2

(* Giving one more share keeps the running totals in proportion. *)
LEMMA ProportionKept ==
  ASSUME NEW given \in Nat, NEW seen \in Nat, NEW d \in Nat, NEW g \in Nat,
         NEW t \in Nat, NEW a \in Nat,
         given * t <= seen * a, g * t <= d * a
  PROVE  (given + g) * t <= (seen + d) * a
<1>1. (given + g) * t = given * t + g * t
  OBVIOUS
<1>2. (seen + d) * a = seen * a + d * a
  OBVIOUS
<1> QED
  BY <1>1, <1>2

(* A multiple of t that exceeds the same multiple of a by less than one     *)
(* part in Precision does not exceed it at all.                            *)
LEMMA RoundingAbsorbed ==
  ASSUME NEW s \in Nat, NEW t \in Nat, NEW a \in Nat, NEW P \in Nat,
         t > 0, a < P, s * (t * P) <= t * (a * (P + 1))
  PROVE  s <= a
<1>1. SUFFICES ASSUME s >= a + 1 PROVE FALSE
  OBVIOUS
<1>2. t * P \in Nat /\ t * P > 0
  OBVIOUS
<1>3. (a + 1) * (t * P) <= s * (t * P)
  <2>1. PICK m \in Nat : m = t * P
    BY <1>2
  <2>2. (a + 1) * m <= s * m
    BY <1>1
  <2> QED BY <2>1, <2>2
<1>4. t * (a * (P + 1)) < (a + 1) * (t * P)
  <2>1. t * (a * (P + 1)) = t * (a * P) + t * a
    OBVIOUS
  <2>2. (a + 1) * (t * P) = t * (a * P) + t * P
    OBVIOUS
  <2>3. t * a < t * P
    OBVIOUS
  <2>4. PICK m \in Nat, x \in Nat, y \in Nat : m = t * (a * P) /\ x = t * a /\ y = t * P
    OBVIOUS
  <2> QED BY <2>1, <2>2, <2>3, <2>4
<1>5. s * (t * P) \in Int /\ t * (a * (P + 1)) \in Int /\ (a + 1) * (t * P) \in Int
  OBVIOUS
<1> QED BY <1>3, <1>4, <1>5

----------------------------------------------------------------------------
(* Totals. *)

(* f is what the definition of RunningTotal asks for, up to the n-th amount.*)
IsRunningTotal(f, amounts, n) == f = [k \in 0..n |-> IF k = 0 THEN 0 ELSE f[k - 1] + amounts[k]]

(* Such a function exists: each amount extends it by one. *)
LEMMA RunningTotalExists ==
  ASSUME NEW amounts \in Seq(Nat), NEW n \in 0..Len(amounts)
  PROVE  \E f \in [0..n -> Nat] : IsRunningTotal(f, amounts, n)
<1> DEFINE S == {j \in Nat : j <= Len(amounts) =>
                   \E f \in [0..j -> Nat] : IsRunningTotal(f, amounts, j)}
<1>1. Len(amounts) \in Nat
  OBVIOUS
<1>2. 0 \in S
  <2> DEFINE f == [k \in 0..0 |-> 0]
  <2>1. f \in [0..0 -> Nat] /\ IsRunningTotal(f, amounts, 0)
    BY DEF IsRunningTotal
  <2> QED BY <2>1, <1>1
<1>3. ASSUME NEW j \in Nat, j \in S PROVE j + 1 \in S
  <2>1. SUFFICES ASSUME j + 1 <= Len(amounts)
                 PROVE  \E f \in [0..(j + 1) -> Nat] : IsRunningTotal(f, amounts, j + 1)
    OBVIOUS
  <2>2. PICK f \in [0..j -> Nat] : IsRunningTotal(f, amounts, j)
    BY <1>1, <1>3, <2>1
  <2> DEFINE g == [k \in 0..(j + 1) |-> IF k <= j THEN f[k] ELSE f[j] + amounts[j + 1]]
  <2>3. amounts[j + 1] \in Nat
    BY <1>1, <2>1, j + 1 \in 1..Len(amounts)
  <2>4. g \in [0..(j + 1) -> Nat]
    BY <2>2, <2>3
  <2>5. ASSUME NEW k \in 0..(j + 1)
        PROVE  g[k] = IF k = 0 THEN 0 ELSE g[k - 1] + amounts[k]
    <3>1. CASE k <= j
      <4>1. k \in 0..j
        BY <3>1
      <4>2. f[k] = IF k = 0 THEN 0 ELSE f[k - 1] + amounts[k]
        BY <4>1, <2>2 DEF IsRunningTotal
      <4> QED BY <4>1, <4>2
    <3>2. CASE k = j + 1
      BY <3>2
    <3> QED BY <3>1, <3>2
  <2>6. IsRunningTotal(g, amounts, j + 1)
    BY <2>5 DEF IsRunningTotal
  <2> QED BY <2>4, <2>6
<1>4. Nat \subseteq S
  <2> HIDE DEF S
  <2> QED BY <1>2, <1>3, SetInduction
<1>5. n \in Nat /\ n <= Len(amounts)
  BY <1>1
<1>6. n \in S
  BY <1>4, <1>5
<1> QED BY <1>5, <1>6

(* RunningTotal obeys its own recursion. *)
LEMMA RunningTotalFacts ==
  ASSUME NEW amounts \in Seq(Nat)
  PROVE  /\ RunningTotal(amounts)[0] = 0
         /\ \A k \in 1..Len(amounts) :
              RunningTotal(amounts)[k] = RunningTotal(amounts)[k - 1] + amounts[k]
<1>1. Len(amounts) \in 0..Len(amounts)
  OBVIOUS
<1>2. PICK f \in [0..Len(amounts) -> Nat] : IsRunningTotal(f, amounts, Len(amounts))
  BY <1>1, RunningTotalExists
<1>3. RunningTotal(amounts) = CHOOSE g : IsRunningTotal(g, amounts, Len(amounts))
  BY DEF RunningTotal, IsRunningTotal
<1>4. IsRunningTotal(RunningTotal(amounts), amounts, Len(amounts))
  BY <1>2, <1>3
<1> DEFINE sum == RunningTotal(amounts)
<1>5. sum = [k \in 0..Len(amounts) |-> IF k = 0 THEN 0 ELSE sum[k - 1] + amounts[k]]
  BY <1>4 DEF IsRunningTotal
<1> HIDE DEF sum
<1>6. sum[0] = 0
  BY <1>5, 0 \in 0..Len(amounts)
<1>7. ASSUME NEW k \in 1..Len(amounts)
      PROVE  sum[k] = sum[k - 1] + amounts[k]
  <2>1. k \in 0..Len(amounts) /\ k # 0
    OBVIOUS
  <2> QED BY <1>5, <2>1
<1> QED BY <1>6, <1>7 DEF sum

(* Running totals of natural amounts are natural numbers. *)
LEMMA RunningTotalType ==
  ASSUME NEW amounts \in Seq(Nat)
  PROVE  /\ \A k \in 0..Len(amounts) : RunningTotal(amounts)[k] \in Nat
         /\ Total(amounts) \in Nat
<1> DEFINE sum == RunningTotal(amounts)
<1> DEFINE S == {j \in Nat : j <= Len(amounts) => sum[j] \in Nat}
<1>1. Len(amounts) \in Nat
  OBVIOUS
<1>2. sum[0] = 0 /\ \A k \in 1..Len(amounts) : sum[k] = sum[k - 1] + amounts[k]
  BY RunningTotalFacts
<1> HIDE DEF sum
<1>3. 0 \in S
  BY <1>2
<1>4. ASSUME NEW j \in Nat, j \in S PROVE j + 1 \in S
  <2>1. SUFFICES ASSUME j + 1 <= Len(amounts) PROVE sum[j + 1] \in Nat
    OBVIOUS
  <2>2. j + 1 \in 1..Len(amounts) /\ (j + 1) - 1 = j /\ sum[j] \in Nat
    BY <1>1, <1>4, <2>1
  <2>3. amounts[j + 1] \in Nat
    BY <2>2
  <2>4. sum[j + 1] = sum[j] + amounts[j + 1]
    BY <1>2, <2>2
  <2> QED BY <2>2, <2>3, <2>4
<1>5. Nat \subseteq S
  <2> HIDE DEF S
  <2> QED BY <1>3, <1>4, SetInduction
<1>6. \A k \in 0..Len(amounts) : sum[k] \in Nat
  BY <1>1, <1>5
<1> QED BY <1>1, <1>6 DEF Total, sum

(* A running total depends on no amount behind it. *)
LEMMA SamePrefix ==
  ASSUME NEW f \in Seq(Nat), NEW g \in Seq(Nat), NEW n \in 0..Len(f), n <= Len(g),
         \A k \in 1..n : f[k] = g[k]
  PROVE  RunningTotal(f)[n] = RunningTotal(g)[n]
<1> DEFINE F == RunningTotal(f)
<1> DEFINE G == RunningTotal(g)
<1> DEFINE S == {j \in Nat : j <= n => F[j] = G[j]}
<1>1. Len(f) \in Nat /\ Len(g) \in Nat /\ n \in Nat /\ n <= Len(f) /\ n <= Len(g)
  <2>1. Len(f) \in Nat /\ Len(g) \in Nat
    OBVIOUS
  <2> QED BY <2>1
<1>2. /\ F[0] = 0 /\ G[0] = 0
      /\ \A k \in 1..n : F[k] = F[k - 1] + f[k] /\ G[k] = G[k - 1] + g[k]
  BY <1>1, RunningTotalFacts
<1> HIDE DEF F, G
<1>3. 0 \in S
  BY <1>2
<1>4. ASSUME NEW j \in Nat, j \in S PROVE j + 1 \in S
  <2>1. SUFFICES ASSUME j + 1 <= n PROVE F[j + 1] = G[j + 1]
    OBVIOUS
  <2>2. j + 1 \in 1..n /\ (j + 1) - 1 = j /\ F[j] = G[j]
    BY <1>1, <1>4, <2>1
  <2> QED BY <1>2, <2>2
<1>5. Nat \subseteq S
  <2> HIDE DEF S
  <2> QED BY <1>3, <1>4, SetInduction
<1> QED BY <1>1, <1>5 DEF F, G

LEMMA MultiplesAdded ==
  ASSUME NEW x \in Nat, NEW y \in Nat, NEW u \in Nat, NEW v \in Nat, NEW c \in Int
  PROVE  /\ x >= c * u /\ y >= c * v => x + y >= c * (u + v)
         /\ x <= c * u /\ y <= c * v => x + y <= c * (u + v)
<1>1. PICK cu \in Int : cu = c * u
  OBVIOUS
<1>2. PICK cv \in Int : cv = c * v
  OBVIOUS
<1>3. c * (u + v) = cu + cv
  BY <1>1, <1>2
<1>4. /\ x >= cu /\ y >= cv => x + y >= cu + cv
      /\ x <= cu /\ y <= cv => x + y <= cu + cv
  OBVIOUS
<1> QED BY <1>1, <1>2, <1>3, <1>4

(* Amounts that are at least c times others are so in total. *)
LEMMA TotalAtLeast ==
  ASSUME NEW f \in Seq(Nat), NEW g \in Seq(Nat), Len(f) = Len(g), NEW c \in Int,
         \A k \in 1..Len(f) : f[k] >= c * g[k]
  PROVE  Total(f) >= c * Total(g)
<1> DEFINE F == RunningTotal(f)
           G == RunningTotal(g)
           n == Len(f)
           S == {j \in Nat : j <= n => F[j] >= c * G[j]}
<1>1. n \in Nat /\ n = Len(g) /\ \A k \in 1..n : f[k] \in Nat /\ g[k] \in Nat
  OBVIOUS
<1>2. /\ F[0] = 0 /\ G[0] = 0
      /\ \A k \in 1..n : F[k] = F[k - 1] + f[k] /\ G[k] = G[k - 1] + g[k]
  BY <1>1, RunningTotalFacts
<1>3. \A k \in 0..n : F[k] \in Nat /\ G[k] \in Nat
  BY <1>1, RunningTotalType
<1>4. Total(f) = F[n] /\ Total(g) = G[n]
  BY <1>1 DEF Total
<1>5. \A k \in 1..n : f[k] >= c * g[k]
  OBVIOUS
<1> HIDE DEF F, G, n
<1>6. 0 \in S
  BY <1>2
<1>7. ASSUME NEW j \in Nat, j \in S PROVE j + 1 \in S
  <2>1. SUFFICES ASSUME j + 1 <= n PROVE F[j + 1] >= c * G[j + 1]
    OBVIOUS
  <2>2. j + 1 \in 1..n /\ j \in 0..n /\ (j + 1) - 1 = j /\ F[j] >= c * G[j]
    BY <1>1, <1>7, <2>1
  <2>3. F[j] \in Nat /\ G[j] \in Nat /\ f[j + 1] \in Nat /\ g[j + 1] \in Nat
    BY <1>1, <1>3, <2>2
  <2>4. f[j + 1] >= c * g[j + 1]
    BY <1>5, <2>2
  <2>5. F[j] + f[j + 1] >= c * (G[j] + g[j + 1])
    BY <2>2, <2>3, <2>4, MultiplesAdded
  <2> QED BY <1>2, <2>2, <2>5
<1>8. Nat \subseteq S
  <2> HIDE DEF S
  <2> QED BY <1>6, <1>7, SetInduction
<1> QED BY <1>1, <1>4, <1>8

(* Amounts that are at most c times others are so in total. *)
LEMMA TotalAtMost ==
  ASSUME NEW f \in Seq(Nat), NEW g \in Seq(Nat), Len(f) = Len(g), NEW c \in Int,
         \A k \in 1..Len(f) : f[k] <= c * g[k]
  PROVE  Total(f) <= c * Total(g)
<1> DEFINE F == RunningTotal(f)
           G == RunningTotal(g)
           n == Len(f)
           S == {j \in Nat : j <= n => F[j] <= c * G[j]}
<1>1. n \in Nat /\ n = Len(g) /\ \A k \in 1..n : f[k] \in Nat /\ g[k] \in Nat
  OBVIOUS
<1>2. /\ F[0] = 0 /\ G[0] = 0
      /\ \A k \in 1..n : F[k] = F[k - 1] + f[k] /\ G[k] = G[k - 1] + g[k]
  BY <1>1, RunningTotalFacts
<1>3. \A k \in 0..n : F[k] \in Nat /\ G[k] \in Nat
  BY <1>1, RunningTotalType
<1>4. Total(f) = F[n] /\ Total(g) = G[n]
  BY <1>1 DEF Total
<1>5. \A k \in 1..n : f[k] <= c * g[k]
  OBVIOUS
<1> HIDE DEF F, G, n
<1>6. 0 \in S
  BY <1>2
<1>7. ASSUME NEW j \in Nat, j \in S PROVE j + 1 \in S
  <2>1. SUFFICES ASSUME j + 1 <= n PROVE F[j + 1] <= c * G[j + 1]
    OBVIOUS
  <2>2. j + 1 \in 1..n /\ j \in 0..n /\ (j + 1) - 1 = j /\ F[j] <= c * G[j]
    BY <1>1, <1>7, <2>1
  <2>3. F[j] \in Nat /\ G[j] \in Nat /\ f[j + 1] \in Nat /\ g[j + 1] \in Nat
    BY <1>1, <1>3, <2>2
  <2>4. f[j + 1] <= c * g[j + 1]
    BY <1>5, <2>2
  <2>5. F[j] + f[j + 1] <= c * (G[j] + g[j + 1])
    BY <2>2, <2>3, <2>4, MultiplesAdded
  <2> QED BY <1>2, <2>2, <2>5
<1>8. Nat \subseteq S
  <2> HIDE DEF S
  <2> QED BY <1>6, <1>7, SetInduction
<1> QED BY <1>1, <1>4, <1>8

(* No amount is more than the total. *)
LEMMA TotalCoversEach ==
  ASSUME NEW f \in Seq(Nat), NEW j \in 1..Len(f)
  PROVE  f[j] <= Total(f)
<1> DEFINE F == RunningTotal(f)
           n == Len(f)
           S == {i \in Nat : j + i <= n => f[j] <= F[j + i]}
<1>1. n \in Nat /\ j \in 1..n /\ \A k \in 1..n : f[k] \in Nat
  OBVIOUS
<1>2. \A k \in 1..n : F[k] = F[k - 1] + f[k]
  BY RunningTotalFacts
<1>3. \A k \in 0..n : F[k] \in Nat
  BY RunningTotalType
<1>4. Total(f) = F[n]
  BY DEF Total
<1> HIDE DEF F, n
<1>5. 0 \in S
  <2>1. F[j] = F[j - 1] + f[j] /\ F[j - 1] \in Nat /\ f[j] \in Nat
    BY <1>1, <1>2, <1>3
  <2> QED BY <1>1, <2>1
<1>6. ASSUME NEW i \in Nat, i \in S PROVE i + 1 \in S
  <2>1. SUFFICES ASSUME j + (i + 1) <= n PROVE f[j] <= F[j + (i + 1)]
    OBVIOUS
  <2>2. j + i \in 0..n /\ j + (i + 1) \in 1..n /\ (j + (i + 1)) - 1 = j + i /\ f[j] <= F[j + i]
    BY <1>1, <1>6, <2>1
  <2>3. F[j + (i + 1)] = F[j + i] + f[j + (i + 1)] /\ F[j + i] \in Nat /\ f[j + (i + 1)] \in Nat
    BY <1>1, <1>2, <1>3, <2>2
  <2> QED BY <1>1, <2>2, <2>3
<1>7. Nat \subseteq S
  <2> HIDE DEF S
  <2> QED BY <1>5, <1>6, SetInduction
<1>8. n - j \in Nat /\ j + (n - j) = n
  BY <1>1
<1>9. n - j \in S
  <2> HIDE DEF S
  <2> QED BY <1>7, <1>8
<1> QED BY <1>4, <1>8, <1>9

(* What a node grants to all the entries of a message together fits what it*)
(* has available, if that is less than Precision: the shares exceed their  *)
(* exact values by less than one unit in total.                            *)
LEMMA SharesFitAvailable ==
  ASSUME NEW capped \in Seq(Nat), NEW shares \in Seq(Nat), NEW a \in Nat,
         Len(shares) = Len(capped), a < Precision,
         \A k \in 1..Len(capped) : shares[k] \in Grant(capped[k], Total(capped), a)
  PROVE  Total(shares) <= a
<1> DEFINE asked == RunningTotal(capped)
<1> DEFINE given == RunningTotal(shares)
<1> DEFINE t == Total(capped)
<1> DEFINE n == Len(capped)
<1>1. n \in Nat /\ t \in Nat
  BY RunningTotalType
<1>2. /\ asked[0] = 0 /\ given[0] = 0
      /\ \A k \in 1..n : asked[k] = asked[k - 1] + capped[k]
      /\ \A k \in 1..n : given[k] = given[k - 1] + shares[k]
  BY RunningTotalFacts
<1>3. \A k \in 0..n : asked[k] \in Nat /\ given[k] \in Nat
  BY RunningTotalType
<1>4. asked[n] = t /\ given[n] = Total(shares)
  BY DEF Total
<1>5. \A k \in 1..n : capped[k] \in Nat /\ shares[k] \in Nat
  OBVIOUS
<1>6. \A k \in 1..n : /\ t <= a => shares[k] = capped[k]
                      /\ t > a => (shares[k] * t) * Precision <= (capped[k] * a) * (Precision + 1)
  BY <1>1, <1>5, GrantType
<1> HIDE DEF asked, given, t, n
<1>7. CASE t <= a
  <2> DEFINE S == {j \in Nat : j <= n => given[j] = asked[j]}
  <2>1. 0 \in S
    BY <1>2
  <2>2. ASSUME NEW j \in Nat, j \in S PROVE j + 1 \in S
    <3>1. SUFFICES ASSUME j + 1 <= n PROVE given[j + 1] = asked[j + 1]
      OBVIOUS
    <3>2. j + 1 \in 1..n /\ (j + 1) - 1 = j /\ given[j] = asked[j]
      BY <1>1, <2>2, <3>1
    <3> QED BY <1>2, <1>6, <1>7, <3>2
  <2>3. Nat \subseteq S
    <3> HIDE DEF S
    <3> QED BY <2>1, <2>2, SetInduction
  <2> QED BY <1>1, <1>4, <1>7, <2>3
<1>8. CASE t > a
  <2> DEFINE T == t * Precision
             A == a * (Precision + 1)
             S == {j \in Nat : j <= n => given[j] * T <= asked[j] * A}
  <2>1. Precision \in Nat /\ T \in Nat /\ A \in Nat
    BY <1>1, PrecisionAssumption
  <2>2. \A k \in 1..n : shares[k] * T <= capped[k] * A
    <3>1. SUFFICES ASSUME NEW k \in 1..n PROVE shares[k] * T <= capped[k] * A
      OBVIOUS
    <3>2. (shares[k] * t) * Precision <= (capped[k] * a) * (Precision + 1)
      BY <1>6, <1>8
    <3>3. PICK g \in Nat, d \in Nat : g = shares[k] /\ d = capped[k]
      BY <1>5
    <3>4. (g * t) * Precision = g * (t * Precision) /\ (d * a) * (Precision + 1) = d * (a * (Precision + 1))
      BY <1>1, <2>1
    <3> QED BY <3>2, <3>3, <3>4
  <2> HIDE DEF T, A
  <2>3. 0 \in S
    BY <1>2, <2>1
  <2>4. ASSUME NEW j \in Nat, j \in S PROVE j + 1 \in S
    <3>1. SUFFICES ASSUME j + 1 <= n PROVE given[j + 1] * T <= asked[j + 1] * A
      OBVIOUS
    <3>2. j + 1 \in 1..n /\ j \in 0..n /\ (j + 1) - 1 = j /\ given[j] * T <= asked[j] * A
      BY <1>1, <2>4, <3>1
    <3>3. given[j] \in Nat /\ asked[j] \in Nat /\ capped[j + 1] \in Nat /\ shares[j + 1] \in Nat
      BY <1>3, <1>5, <3>2
    <3>4. shares[j + 1] * T <= capped[j + 1] * A
      BY <2>2, <3>2
    <3>5. (given[j] + shares[j + 1]) * T <= (asked[j] + capped[j + 1]) * A
      BY <2>1, <3>2, <3>3, <3>4, ProportionKept
    <3> QED BY <1>2, <3>2, <3>5
  <2>5. Nat \subseteq S
    <3> HIDE DEF S
    <3> QED BY <2>3, <2>4, SetInduction
  <2>6. Total(shares) * T <= t * A /\ Total(shares) \in Nat
    BY <1>1, <1>4, <2>5, RunningTotalType
  <2>7. Total(shares) * (t * Precision) <= t * (a * (Precision + 1))
    BY <2>6 DEF T, A
  <2>8. t > 0 /\ a < Precision /\ a \in Nat
    BY <1>1, <1>8
  <2> QED BY <1>1, <2>1, <2>6, <2>7, <2>8, RoundingAbsorbed
<1> QED BY <1>1, <1>7, <1>8

----------------------------------------------------------------------------
(* The order of the amounts. *)

(* The last amount is added to the total of the others. *)
LEMMA TotalOfLast ==
  ASSUME NEW n \in Nat, NEW f \in [1..(n + 1) -> Nat]
  PROVE  Total(f) = Total([k \in 1..n |-> f[k]]) + f[n + 1]
<1> DEFINE g == [k \in 1..n |-> f[k]]
<1>1. f \in Seq(Nat) /\ Len(f) = n + 1 /\ g \in Seq(Nat) /\ Len(g) = n
  OBVIOUS
<1>2. \A k \in 1..n : f[k] = g[k]
  OBVIOUS
<1> HIDE DEF g
<1>3. RunningTotal(f)[n] = RunningTotal(g)[n]
  BY <1>1, <1>2, SamePrefix
<1>4. RunningTotal(f)[n + 1] = RunningTotal(f)[(n + 1) - 1] + f[n + 1]
  BY <1>1, n + 1 \in 1..Len(f), RunningTotalFacts
<1> QED BY <1>1, <1>3, <1>4 DEF Total, g

(* Replacing one amount moves the total by the difference. *)
LEMMA TotalOfReplaced ==
  ASSUME NEW f \in Seq(Nat), NEW j \in 1..Len(f), NEW x \in Nat
  PROVE  Total([f EXCEPT ![j] = x]) + f[j] = Total(f) + x
<1> DEFINE g == [f EXCEPT ![j] = x]
<1> DEFINE F == RunningTotal(f)
<1> DEFINE G == RunningTotal(g)
<1> DEFINE n == Len(f)
<1>1. n \in Nat /\ j \in 1..n /\ f[j] \in Nat
  OBVIOUS
<1>2. g \in Seq(Nat) /\ Len(g) = n /\ g[j] = x /\ \A k \in 1..n : k # j => g[k] = f[k]
  OBVIOUS
<1> HIDE DEF g
<1>3. /\ F[0] = 0 /\ \A k \in 1..n : F[k] = F[k - 1] + f[k]
      /\ G[0] = 0 /\ \A k \in 1..n : G[k] = G[k - 1] + g[k]
  BY <1>2, RunningTotalFacts
<1>4. \A k \in 0..n : F[k] \in Nat /\ G[k] \in Nat
  BY <1>2, RunningTotalType
<1>5. \A k \in 1..n : f[k] \in Nat
  OBVIOUS
<1>6. F[n] = Total(f) /\ G[n] = Total(g)
  BY <1>2 DEF Total
<1> HIDE DEF F, G, n
<1> DEFINE S == {i \in Nat : i <= n => /\ i < j => G[i] = F[i]
                                       /\ i >= j => G[i] + f[j] = F[i] + x}
<1>7. 0 \in S
  BY <1>1, <1>3
<1>8. ASSUME NEW i \in Nat, i \in S PROVE i + 1 \in S
  <2>1. SUFFICES ASSUME i + 1 <= n
                 PROVE  /\ i + 1 < j => G[i + 1] = F[i + 1]
                        /\ i + 1 >= j => G[i + 1] + f[j] = F[i + 1] + x
    OBVIOUS
  <2>2. i + 1 \in 1..n /\ (i + 1) - 1 = i /\ i \in 0..n /\ i <= n
    BY <1>1, <2>1
  <2>3. F[i + 1] = F[i] + f[i + 1] /\ G[i + 1] = G[i] + g[i + 1]
    BY <1>3, <2>2
  <2>4. F[i] \in Nat /\ G[i] \in Nat /\ f[i + 1] \in Nat
    BY <1>4, <1>5, <2>2
  <2>5. /\ i < j => G[i] = F[i]
        /\ i >= j => G[i] + f[j] = F[i] + x
    BY <1>8, <2>2
  <2>6. CASE i + 1 = j
    <3>1. G[i] = F[i] /\ F[i + 1] = F[i] + f[j] /\ G[i + 1] = G[i] + x
      BY <1>1, <1>2, <2>3, <2>5, <2>6
    <3>2. G[i + 1] + f[j] = F[i + 1] + x
      BY <1>1, <2>4, <3>1
    <3> QED BY <1>1, <2>6, <3>2
  <2>7. CASE i + 1 # j
    <3>1. g[i + 1] = f[i + 1]
      BY <1>2, <2>2, <2>7
    <3>2. ASSUME i + 1 < j PROVE G[i + 1] = F[i + 1]
      BY <1>1, <2>3, <2>5, <3>1, <3>2
    <3>3. ASSUME i + 1 >= j PROVE G[i + 1] + f[j] = F[i + 1] + x
      <4>1. i >= j
        BY <1>1, <2>7, <3>3
      <4>2. G[i] + f[j] = F[i] + x /\ F[i + 1] = F[i] + f[i + 1] /\ G[i + 1] = G[i] + f[i + 1]
        BY <2>3, <2>5, <3>1, <4>1
      <4>3. f[j] \in Nat /\ x \in Nat
        BY <1>1
      <4>4. PICK a \in Nat, b \in Nat, c \in Nat, d \in Nat :
              a = G[i] /\ b = F[i] /\ c = f[j] /\ d = f[i + 1]
        BY <2>4, <4>3
      <4>5. a + c = b + x
        BY <4>2, <4>4
      <4>6. (a + d) + c = (b + d) + x
        BY <4>3, <4>5
      <4> QED BY <4>2, <4>4, <4>6
    <3> QED BY <3>2, <3>3
  <2> QED BY <2>6, <2>7
<1>9. Nat \subseteq S
  <2> HIDE DEF S
  <2> QED BY <1>7, <1>8, SetInduction
<1>10. G[n] + f[j] = F[n] + x
  BY <1>1, <1>9
<1> QED BY <1>6, <1>10 DEF g

(* An injection of 1..n into itself reaches every number. *)
LEMMA Reaches ==
  ASSUME NEW n \in Nat, NEW q \in Injection(1..n, 1..n), NEW i \in 1..n
  PROVE  \E j \in 1..n : q[j] = i
<1>1. IsFiniteSet(1..n)
  BY FS_Interval
<1>2. q \in Surjection(1..n, 1..n)
  BY <1>1, FS_Injection
<1> QED BY <1>2 DEF Surjection

(* A total does not depend on the order of its amounts. *)
LEMMA TotalOfReordered ==
  ASSUME NEW n \in Nat, NEW f \in [1..n -> Nat], NEW q \in Injection(1..n, 1..n)
  PROVE  Total([k \in 1..n |-> f[q[k]]]) = Total(f)
<1> DEFINE S == {m \in Nat : \A g \in [1..m -> Nat], p \in Injection(1..m, 1..m) :
                              Total([k \in 1..m |-> g[p[k]]]) = Total(g)}
<1>1. 0 \in S
  <2>1. \A g \in [1..0 -> Nat] : \A p : [k \in 1..0 |-> g[p[k]]] = g
    OBVIOUS
  <2> QED BY <2>1
<1>2. ASSUME NEW m \in Nat, m \in S PROVE m + 1 \in S
  <2>1. SUFFICES ASSUME NEW g \in [1..(m + 1) -> Nat], NEW p \in Injection(1..(m + 1), 1..(m + 1))
                 PROVE  Total([k \in 1..(m + 1) |-> g[p[k]]]) = Total(g)
    OBVIOUS
  <2> DEFINE h == [k \in 1..(m + 1) |-> g[p[k]]]
  <2>2. /\ p \in [1..(m + 1) -> 1..(m + 1)]
        /\ \A a, b \in 1..(m + 1) : p[a] = p[b] => a = b
    BY DEF Injection, IsInjective
  <2>3. PICK j \in 1..(m + 1) : p[j] = m + 1
    BY Reaches, m + 1 \in Nat, m + 1 \in 1..(m + 1)
  <2> DEFINE r == [k \in 1..m |-> IF k = j THEN p[m + 1] ELSE p[k]]
  <2> DEFINE g0 == [k \in 1..m |-> g[k]]
  <2> DEFINE h0 == [k \in 1..m |-> h[k]]
  <2> DEFINE h1 == [k \in 1..m |-> g0[r[k]]]
  <2>4. \A k \in 1..m : k \in 1..(m + 1) /\ k # m + 1
    OBVIOUS
  <2>5. ASSUME NEW k \in 1..m PROVE r[k] \in 1..m
    <3>1. ASSUME NEW a \in 1..(m + 1), a # j PROVE p[a] \in 1..m
      <4>1. p[a] \in 1..(m + 1) /\ p[a] # m + 1
        BY <2>2, <2>3, <3>1
      <4> QED BY <4>1
    <3>2. k \in 1..(m + 1) /\ m + 1 \in 1..(m + 1) /\ k # m + 1
      OBVIOUS
    <3>3. r[k] = IF k = j THEN p[m + 1] ELSE p[k]
      OBVIOUS
    <3> HIDE DEF r
    <3> QED BY <3>1, <3>2, <3>3
  <2>6. \A a, b \in 1..m : r[a] = r[b] => a = b
    BY <2>2, <2>4, m + 1 \in 1..(m + 1)
  <2>7. r \in Injection(1..m, 1..m)
    BY <2>5, <2>6 DEF Injection, IsInjective
  <2>8. g0 \in [1..m -> Nat] /\ h \in [1..(m + 1) -> Nat] /\ h0 \in [1..m -> Nat]
    <3>1. h \in [1..(m + 1) -> Nat]
      BY <2>2
    <3>2. \A k \in 1..m : g[k] \in Nat /\ h[k] \in Nat
      BY <2>4, <3>1
    <3> HIDE DEF h
    <3> QED BY <3>1, <3>2
  <2>9. h1 \in [1..m -> Nat] /\ \A k \in 1..m : h1[k] = IF k = j THEN h[m + 1] ELSE h[k]
    <3>1. ASSUME NEW k \in 1..m
          PROVE  h1[k] \in Nat /\ h1[k] = IF k = j THEN h[m + 1] ELSE h[k]
      <4>1. r[k] \in 1..m /\ h1[k] = g[r[k]] /\ g0[r[k]] \in Nat
        BY <2>5, <2>8
      <4>2. h[m + 1] = g[p[m + 1]] /\ h[k] = g[p[k]] /\ r[k] = IF k = j THEN p[m + 1] ELSE p[k]
        BY <2>4, m + 1 \in 1..(m + 1)
      <4>3. h1[k] = g0[r[k]]
        OBVIOUS
      <4> HIDE DEF h, h1, r, g0
      <4> QED BY <4>1, <4>2, <4>3
    <3> HIDE DEF h
    <3> QED BY <3>1
  <2>10. Total(h1) = Total(g0)
    <3> HIDE DEF g0, r
    <3> QED BY <1>2, <2>7, <2>8
  <2>11. Total(g) = Total(g0) + g[m + 1] /\ Total(h) = Total(h0) + h[m + 1]
    <3> HIDE DEF h
    <3> QED BY <2>8, TotalOfLast
  <2>12. h[j] = g[m + 1] /\ g[m + 1] \in Nat /\ h[m + 1] \in Nat
    BY <2>3, <2>8
  <2>13. Total(h0) \in Nat /\ Total(h1) \in Nat
    <3>1. h0 \in Seq(Nat) /\ h1 \in Seq(Nat)
      <4> HIDE DEF h0, h1
      <4> QED BY <2>8, <2>9
    <3> QED BY <3>1, RunningTotalType
  <2>14. CASE j = m + 1
    <3>1. h1 = h0
      BY <2>4, <2>8, <2>9, <2>14
    <3> QED BY <2>10, <2>11, <2>12, <2>14, <3>1
  <2>15. CASE j # m + 1
    <3>1. j \in 1..m
      BY <2>15
    <3>2. h1 = [h0 EXCEPT ![j] = h[m + 1]]
      <4>1. \A k \in 1..m : h0[k] = h[k]
        OBVIOUS
      <4> HIDE DEF h, h0, h1
      <4> QED BY <2>8, <2>9, <4>1
    <3>3. h0 \in Seq(Nat) /\ Len(h0) = m /\ h0[j] = h[j]
      BY <2>8, <3>1
    <3> HIDE DEF h, h0, h1, g0
    <3>4. Total(h1) + h0[j] = Total(h0) + h[m + 1]
      BY <2>12, <3>1, <3>2, <3>3, TotalOfReplaced
    <3>5. Total(g) = Total(h)
      BY <2>10, <2>11, <2>12, <2>13, <3>3, <3>4
    <3> QED BY <3>5 DEF h
  <2> QED BY <2>14, <2>15
<1>3. Nat \subseteq S
  <2> HIDE DEF S
  <2> QED BY <1>1, <1>2, SetInduction
<1> QED BY <1>3
=============================================================================
